------------------------ MODULE ReplicatedAppsProofs ------------------------
(***************************************************************************)
(* The replicated applications, for every set of replicas, every log and   *)
(* every moment at which a replica applies a command.                      *)
(*                                                                         *)
(* That replicas agree is a statement about the commands both have been    *)
(* through.  It is made inductive with a history the invariant only says   *)
(* to exist: M[r][n] is what replica r held after its first n commands.    *)
(***************************************************************************)
EXTENDS ReplicatedApps, TLAPS, SequenceTheorems, FiniteSetTheorems

\* What the replicas of application a have to agree on.
Kept(a, s) == IF a = "merkle" THEN s.mem ELSE s

\* The applications whose Apply depends on nothing but command and state.
Deterministic == {"kv", "config", "meta", "merkle"}

AppsTypeOK ==
    /\ app \in App
    /\ log \in Seq(Commands[app])
    /\ pos \in [Replica -> Nat]
    /\ \A r \in Live : pos[r] <= Len(log)
    /\ failed \in [Replica -> SUBSET Nat]
    /\ \A r \in Replica : failed[r] \subseteq 1..pos[r]
    /\ DOMAIN machine = Replica /\ DOMAIN root = Replica

\* Command c takes an application from what x holds to what y holds.
Step(a, x, y, c, ok) ==
    \E s, h, t : \E o \in ApplyOutcomes(a, s, h, c, t) :
        /\ x = <<Kept(a, s), h>>
        /\ y = <<Kept(a, o.state), o.root>>
        /\ o.ok = ok

\* Replicas that met the same errors in their first n commands were in the same
\* state then.
HistoryOf(M) ==
    \A r \in Live :
        /\ M[r][pos[r]] = <<Kept(app, machine[r]), root[r]>>
        /\ \A n \in 1..pos[r] :
              Step(app, M[r][n - 1], M[r][n], log[n], n \notin failed[r])
        /\ \A s \in Live : \A n \in 0..pos[r] :
              n <= pos[s] /\ failed[r] \cap (1..n) = failed[s] \cap (1..n)
                => M[r][n] = M[s][n]

AgreeInv == AppsTypeOK /\ (app \in Deterministic => \E M : HistoryOf(M))

-----------------------------------------------------------------------------
(* The outcomes of a command, one by one, and why an outcome is determined *)
(* by what was kept, the root and whether the command succeeded.           *)

\* The kv-store: refused, stored, or changed in memory with a storage error.
LEMMA KVOutcome ==
    ASSUME NEW s, NEW h, NEW c, NEW o \in KVApply(s, h, c)
    PROVE  LET mem == Write(s.mem, c)
           IN  \/ /\ c.op = "OTHER"
                  /\ o = [ok |-> FALSE, state |-> s, root |-> h]
               \/ /\ c.op # "OTHER"
                  /\ o = [ok |-> TRUE, state |-> [mem |-> mem, disk |-> Stored(s.disk, c)],
                          root |-> KVRoot(mem, Sorted(DOMAIN mem))]
               \/ /\ c.op # "OTHER"
                  /\ o = [ok |-> FALSE, state |-> [s EXCEPT !.mem = mem], root |-> h]
<1> DEFINE mem == Write(s.mem, c)
<1>1. CASE c.op = "OTHER"
  <2>1. o \in {[ok |-> FALSE, state |-> s, root |-> h]}
    BY <1>1 DEF KVApply, Refused
  <2> QED
    BY <1>1, <2>1
<1>2. CASE c.op # "OTHER"
  <2>1. \/ o \in {[ok |-> TRUE, state |-> [mem |-> mem, disk |-> Stored(s.disk, c)],
                   root |-> KVRoot(mem, k)] : k \in {Sorted(DOMAIN mem)}}
        \/ o \in {[ok |-> FALSE, state |-> [s EXCEPT !.mem = mem], root |-> h]}
    BY <1>2 DEF KVApply, Refused, Accepted, SortedOrders
  <2> QED
    BY <1>2, <2>1
<1> QED
  BY <1>1, <1>2

\* The state dist-config's map gets to, whatever the command.
ConfigNext(s, c) ==
    LET ns == IF c.namespace \in DOMAIN s THEN s[c.namespace] ELSE <<>>
    IN  Put(s, c.namespace, CASE c.action = "SET"   -> Put(ns, c.key, c.value)
                              [] c.action = "DEL"   -> Del(ns, c.key)
                              [] c.action = "OTHER" -> ns)

\* dist-config: one outcome for every command.
LEMMA ConfigOutcome ==
    ASSUME NEW s, NEW h, NEW c, NEW o \in ConfigApply(s, h, c)
    PROVE  o = IF c.action = "MALFORMED" THEN [ok |-> FALSE, state |-> s, root |-> h]
               ELSE IF c.action = "OTHER"
                 THEN [ok |-> FALSE, state |-> ConfigNext(s, c), root |-> h]
               ELSE [ok |-> TRUE, state |-> ConfigNext(s, c),
                     root |-> ConfigRoot(ConfigNext(s, c),
                                         Sorted(DOMAIN ConfigNext(s, c)))]
<1> DEFINE next == ConfigNext(s, c)
<1>1. ConfigApply(s, h, c) =
        IF c.action = "MALFORMED" THEN Refused(s, h)
        ELSE IF c.action = "OTHER" THEN Refused(next, h)
        ELSE Accepted(next, LAMBDA k : ConfigRoot(next, k), SortedOrders(DOMAIN next))
  BY DEF ConfigApply, ConfigNext
<1> HIDE DEF next
<1>2. o \in IF c.action = "MALFORMED" THEN {[ok |-> FALSE, state |-> s, root |-> h]}
            ELSE IF c.action = "OTHER" THEN {[ok |-> FALSE, state |-> next, root |-> h]}
            ELSE {[ok |-> TRUE, state |-> next, root |-> ConfigRoot(next, k)]
                    : k \in {Sorted(DOMAIN next)}}
  BY <1>1 DEF Refused, Accepted, SortedOrders
<1>3. o = IF c.action = "MALFORMED" THEN [ok |-> FALSE, state |-> s, root |-> h]
          ELSE IF c.action = "OTHER" THEN [ok |-> FALSE, state |-> next, root |-> h]
          ELSE [ok |-> TRUE, state |-> next,
                root |-> ConfigRoot(next, Sorted(DOMAIN next))]
  BY <1>2
<1> QED
  BY <1>3 DEF next

\* The state metadata-service's map gets to by a command it knows.
MetaNext(s, c) ==
    IF c.action = "PUT_META" THEN Put(s, c.objectId, c.metadata) ELSE Del(s, c.objectId)

\* metadata-service: one outcome for every command, and a refused one leaves no
\* trace.
LEMMA MetaOutcome ==
    ASSUME NEW s, NEW h, NEW c, NEW o \in MetaApply(s, h, c)
    PROVE  o = IF c.action = "OTHER" THEN [ok |-> FALSE, state |-> s, root |-> h]
               ELSE [ok |-> TRUE, state |-> MetaNext(s, c),
                     root |-> MetadataRoot(MetaNext(s, c), Sorted(DOMAIN MetaNext(s, c)))]
<1> DEFINE next == MetaNext(s, c)
<1>1. MetaApply(s, h, c) =
        IF c.action = "OTHER" THEN Refused(s, h)
        ELSE Accepted(next, LAMBDA k : MetadataRoot(next, k), SortedOrders(DOMAIN next))
  BY DEF MetaApply, MetaNext
<1> HIDE DEF next
<1>2. o \in IF c.action = "OTHER" THEN {[ok |-> FALSE, state |-> s, root |-> h]}
            ELSE {[ok |-> TRUE, state |-> next, root |-> MetadataRoot(next, k)]
                    : k \in {Sorted(DOMAIN next)}}
  BY <1>1 DEF Refused, Accepted, SortedOrders
<1>3. o = IF c.action = "OTHER" THEN [ok |-> FALSE, state |-> s, root |-> h]
          ELSE [ok |-> TRUE, state |-> next,
                root |-> MetadataRoot(next, Sorted(DOMAIN next))]
  BY <1>2
<1> QED
  BY <1>3 DEF next

\* MerkleState: the storage may differ, memory and root do not, and no command
\* fails.
LEMMA MerkleOutcome ==
    ASSUME NEW s, NEW c, NEW o \in MerkleApply(s, c)
    PROVE  /\ o.ok = TRUE
           /\ o.state.mem = c @@ s.mem
           /\ o.root = computeMerkleRoot(Leaves(c @@ s.mem, Sorted(DOMAIN c)))
<1> DEFINE mem == c @@ s.mem
           r0 == computeMerkleRoot(Leaves(mem, Sorted(DOMAIN c)))
           disk(S) == Restrict(c, S) @@ s.disk
           saved == IF StorageMayFail THEN SUBSET DOMAIN c ELSE {DOMAIN c}
<1>1. {computeMerkleRoot(Leaves(mem, k)) : k \in SortedOrders(Hashed(s.mem, c))} = {r0}
  BY DEF SortedOrders, Hashed
<1>2. o \in {[ok |-> TRUE, state |-> [mem |-> mem, disk |-> disk(S)], root |-> g]
              : S \in saved, g \in {r0}}
  BY <1>1 DEF MerkleApply
<1> HIDE DEF mem, r0, disk, saved
<1>3. PICK S \in saved, g \in {r0} :
        o = [ok |-> TRUE, state |-> [mem |-> mem, disk |-> disk(S)], root |-> g]
  BY <1>2
<1>4. o.ok = TRUE /\ o.state.mem = mem /\ o.root = r0
  BY <1>3
<1> QED
  BY <1>4 DEF mem, r0

\* Together: a step is determined by where it starts and whether it succeeds.
LEMMA StepDeterministic ==
    ASSUME NEW a \in Deterministic, NEW x, NEW y, NEW z, NEW c, NEW ok,
           Step(a, x, y, c, ok), Step(a, x, z, c, ok)
    PROVE  y = z
<1>1. PICK s, h, t : \E o \in ApplyOutcomes(a, s, h, c, t) :
        x = <<Kept(a, s), h>> /\ y = <<Kept(a, o.state), o.root>> /\ o.ok = ok
  BY DEF Step
<1>2. PICK o \in ApplyOutcomes(a, s, h, c, t) :
        x = <<Kept(a, s), h>> /\ y = <<Kept(a, o.state), o.root>> /\ o.ok = ok
  BY <1>1
<1>3. PICK s2, h2, t2 : \E p \in ApplyOutcomes(a, s2, h2, c, t2) :
        x = <<Kept(a, s2), h2>> /\ z = <<Kept(a, p.state), p.root>> /\ p.ok = ok
  BY DEF Step
<1>4. PICK p \in ApplyOutcomes(a, s2, h2, c, t2) :
        x = <<Kept(a, s2), h2>> /\ z = <<Kept(a, p.state), p.root>> /\ p.ok = ok
  BY <1>3
<1>5. Kept(a, s) = Kept(a, s2) /\ h = h2 /\ o.ok = p.ok
  BY <1>2, <1>4
<1>6. CASE a = "merkle"
  <2>1. o \in MerkleApply(s, c) /\ p \in MerkleApply(s2, c) /\ s.mem = s2.mem
    BY <1>5, <1>6 DEF ApplyOutcomes, Kept
  <2>2. /\ o.state.mem = c @@ s.mem /\ p.state.mem = c @@ s2.mem
        /\ o.root = computeMerkleRoot(Leaves(c @@ s.mem, Sorted(DOMAIN c)))
        /\ p.root = computeMerkleRoot(Leaves(c @@ s2.mem, Sorted(DOMAIN c)))
    BY <2>1, MerkleOutcome, ZenonT(40)
  <2> QED
    BY <1>2, <1>4, <1>6, <2>1, <2>2 DEF Kept
<1>7. CASE a # "merkle"
  <2>1. s = s2
    BY <1>5, <1>7 DEF Kept
  <2>2. CASE a = "kv"
    <3>1. o \in KVApply(s, h, c) /\ p \in KVApply(s, h, c)
      BY <1>5, <2>1, <2>2 DEF ApplyOutcomes
    <3>2. o = p
      <4>1. /\ c.op = "OTHER" => o = [ok |-> FALSE, state |-> s, root |-> h]
            /\ c.op # "OTHER" /\ o.ok => 
                 o = [ok |-> TRUE, state |-> [mem |-> Write(s.mem, c), disk |-> Stored(s.disk, c)],
                      root |-> KVRoot(Write(s.mem, c), Sorted(DOMAIN Write(s.mem, c)))]
            /\ c.op # "OTHER" /\ ~o.ok =>
                 o = [ok |-> FALSE, state |-> [s EXCEPT !.mem = Write(s.mem, c)], root |-> h]
        BY <3>1, KVOutcome
      <4>2. /\ c.op = "OTHER" => p = [ok |-> FALSE, state |-> s, root |-> h]
            /\ c.op # "OTHER" /\ p.ok =>
                 p = [ok |-> TRUE, state |-> [mem |-> Write(s.mem, c), disk |-> Stored(s.disk, c)],
                      root |-> KVRoot(Write(s.mem, c), Sorted(DOMAIN Write(s.mem, c)))]
            /\ c.op # "OTHER" /\ ~p.ok =>
                 p = [ok |-> FALSE, state |-> [s EXCEPT !.mem = Write(s.mem, c)], root |-> h]
        BY <3>1, KVOutcome
      <4> QED
        BY <1>5, <4>1, <4>2
    <3> QED
      BY <1>2, <1>4, <3>2
  <2>3. CASE a = "config"
    <3>1. o \in ConfigApply(s, h, c) /\ p \in ConfigApply(s, h, c)
      BY <1>5, <2>1, <2>3 DEF ApplyOutcomes
    <3>2. o = p
      BY <3>1, ConfigOutcome
    <3> QED
      BY <1>2, <1>4, <3>2
  <2>4. CASE a = "meta"
    <3>1. o \in MetaApply(s, h, c) /\ p \in MetaApply(s, h, c)
      BY <1>5, <2>1, <2>4 DEF ApplyOutcomes
    <3>2. o = p
      BY <3>1, MetaOutcome
    <3> QED
      BY <1>2, <1>4, <3>2
  <2> QED
    BY <1>7, <2>2, <2>3, <2>4 DEF Deterministic
<1> QED
  BY <1>6, <1>7

-----------------------------------------------------------------------------
(* Types, and what a step changes.                                         *)

\* A state machine takes a command: nobody else's state changes.
LEMMA TakeEffect ==
    ASSUME AppsTypeOK, NEW r \in Replica, NEW c, NEW o, Take(r, c, o)
    PROVE  /\ machine'[r] = o.state /\ root'[r] = o.root /\ pos'[r] = pos[r] + 1
           /\ o.ok => failed'[r] = failed[r]
           /\ ~o.ok => failed'[r] = failed[r] \cup {pos[r] + 1}
           /\ \A s \in Replica : s # r =>
                /\ machine'[s] = machine[s] /\ root'[s] = root[s]
                /\ pos'[s] = pos[s] /\ failed'[s] = failed[s]
           /\ UNCHANGED <<app, log, now>>
           /\ o \in ApplyOutcomes(app, machine[r], root[r], c, now)
           /\ DOMAIN machine' = Replica /\ DOMAIN root' = Replica
           /\ pos' \in [Replica -> Nat] /\ failed' \in [Replica -> SUBSET Nat]
           /\ \A s \in Replica : failed'[s] \subseteq 1..pos'[s]
<1>1. /\ machine' = [machine EXCEPT ![r] = o.state]
      /\ root' = [root EXCEPT ![r] = o.root]
      /\ DOMAIN machine = Replica /\ DOMAIN root = Replica
  BY DEF Take, AppsTypeOK
<1>2. /\ machine'[r] = o.state /\ root'[r] = o.root
      /\ \A s \in Replica : s # r => machine'[s] = machine[s] /\ root'[s] = root[s]
      /\ DOMAIN machine' = Replica /\ DOMAIN root' = Replica
  BY <1>1
<1>3. /\ pos' = [pos EXCEPT ![r] = pos[r] + 1]
      /\ failed' = [failed EXCEPT ![r] = IF o.ok THEN failed[r]
                                         ELSE failed[r] \cup {pos[r] + 1}]
      /\ pos \in [Replica -> Nat] /\ failed \in [Replica -> SUBSET Nat]
      /\ \A s \in Replica : failed[s] \subseteq 1..pos[s]
  BY DEF Take, AppsTypeOK
<1>4. /\ pos'[r] = pos[r] + 1
      /\ failed'[r] = IF o.ok THEN failed[r] ELSE failed[r] \cup {pos[r] + 1}
      /\ \A s \in Replica : s # r => pos'[s] = pos[s] /\ failed'[s] = failed[s]
  BY <1>3
<1>5. pos' \in [Replica -> Nat] /\ pos[r] \in Nat
  BY <1>3
<1>6. failed' \in [Replica -> SUBSET Nat]
  BY <1>3, <1>5
<1>7. ASSUME NEW s \in Replica PROVE failed'[s] \subseteq 1..pos'[s]
  <2>1. CASE s = r
    <3>1. failed[r] \subseteq 1..pos[r]
      BY <1>3
    <3>2. ASSUME NEW i \in failed'[r] PROVE i \in 1..(pos[r] + 1)
      <4>1. i \in failed[r] \/ i = pos[r] + 1
        BY <1>4, <3>2
      <4> QED
        BY <1>5, <3>1, <4>1
    <3> QED
      BY <1>4, <2>1, <3>2
  <2>2. CASE s # r
    BY <1>3, <1>4, <2>2
  <2> QED
    BY <2>1, <2>2
<1> QED
  BY <1>2, <1>4, <1>5, <1>6, <1>7 DEF Take, Outcomes

\* The commands of the log stay where they are.
LEMMA CommitEffect ==
    ASSUME AppsTypeOK, NEW c \in Commands[app], Commit(c)
    PROVE  /\ log' \in Seq(Commands[app]) /\ Len(log') = Len(log) + 1
           /\ \A i \in 1..Len(log) : log'[i] = log[i]
           /\ UNCHANGED <<app, pos, machine, root, failed, now, recorded, verdict>>
<1>1. log \in Seq(Commands[app]) /\ log' = Append(log, c)
  BY DEF AppsTypeOK, Commit
<1> QED
  BY <1>1 DEF Commit

\* Every step keeps the types.
LEMMA AppsStepType ==
    ASSUME AppsTypeOK, [Next]_vars
    PROVE  AppsTypeOK'
<1>1. ASSUME NEW c \in Commands[app], Commit(c) PROVE AppsTypeOK'
  <2>1. /\ log' \in Seq(Commands[app]) /\ Len(log') = Len(log) + 1
        /\ UNCHANGED <<app, pos, machine, root, failed>>
    BY <1>1, CommitEffect
  <2>2. Len(log) \in Nat
    BY DEF AppsTypeOK
  <2>3. \A r \in Live : pos[r] <= Len(log')
    BY <2>1, <2>2 DEF AppsTypeOK, Replica
  <2> QED
    BY <2>1, <2>3 DEF AppsTypeOK
<1>2. CASE Tick \/ UNCHANGED vars
  BY <1>2 DEF Tick, vars, AppsTypeOK
<1>3. ASSUME NEW r \in Live, Apply(r) PROVE AppsTypeOK'
  <2>1. PICK o : Take(r, log[pos[r] + 1], o)
    BY <1>3 DEF Apply
  <2>2. r \in Replica /\ pos[r] < Len(log) /\ pos[r] \in Nat /\ Len(log) \in Nat
    BY <1>3 DEF Apply, Replica, AppsTypeOK
  <2>3. /\ pos'[r] = pos[r] + 1
        /\ \A s \in Replica : s # r => pos'[s] = pos[s]
        /\ UNCHANGED <<app, log>>
        /\ DOMAIN machine' = Replica /\ DOMAIN root' = Replica
        /\ pos' \in [Replica -> Nat] /\ failed' \in [Replica -> SUBSET Nat]
        /\ \A s \in Replica : failed'[s] \subseteq 1..pos'[s]
    BY <2>1, <2>2, TakeEffect
  <2>4. pos[r] + 1 <= Len(log)
    BY <2>2
  <2>5. \A s \in Live : pos'[s] <= Len(log)
    BY <2>3, <2>4 DEF AppsTypeOK, Replica
  <2> QED
    BY <2>3, <2>5 DEF AppsTypeOK
<1>4. CASE ReplayStep
  <2>1. PICK c, o : Take(Replayer, c, o)
    BY <1>4 DEF ReplayStep
  <2>2. Replayer \in Replica /\ \A s \in Live : s # Replayer /\ s \in Replica
    BY ReplicaAssumption DEF Replica
  <2>3. /\ \A s \in Replica : s # Replayer => pos'[s] = pos[s]
        /\ UNCHANGED <<app, log>>
        /\ DOMAIN machine' = Replica /\ DOMAIN root' = Replica
        /\ pos' \in [Replica -> Nat] /\ failed' \in [Replica -> SUBSET Nat]
        /\ \A s \in Replica : failed'[s] \subseteq 1..pos'[s]
    BY <2>1, <2>2, TakeEffect
  <2> QED
    BY <2>2, <2>3 DEF AppsTypeOK
<1> QED
  BY <1>1, <1>2, <1>3, <1>4 DEF Next

\* The constructors.
LEMMA AppsInitType == Init => AppsTypeOK
  BY DEF Init, AppsTypeOK, Replica

-----------------------------------------------------------------------------
(* Replicas agree.                                                         *)

\* Apply either succeeds or returns an error.
LEMMA OkBoolean ==
    ASSUME NEW a \in Deterministic, NEW s, NEW h, NEW c, NEW t,
           NEW o \in ApplyOutcomes(a, s, h, c, t)
    PROVE  o.ok \in BOOLEAN
<1>1. CASE a = "kv"
  <2>1. o \in KVApply(s, h, c)
    BY <1>1 DEF ApplyOutcomes
  <2>2. o.ok = TRUE \/ o.ok = FALSE
    BY <2>1, KVOutcome
  <2> QED
    BY <2>2
<1>2. CASE a = "config"
  <2>1. o \in ConfigApply(s, h, c)
    BY <1>2 DEF ApplyOutcomes
  <2>2. o.ok = TRUE \/ o.ok = FALSE
    BY <2>1, ConfigOutcome
  <2> QED
    BY <2>2
<1>3. CASE a = "meta"
  <2>1. o \in MetaApply(s, h, c)
    BY <1>3 DEF ApplyOutcomes
  <2>2. o.ok = TRUE \/ o.ok = FALSE
    BY <2>1, MetaOutcome
  <2> QED
    BY <2>2
<1>4. CASE a = "merkle"
  <2>1. o \in MerkleApply(s, c)
    BY <1>4 DEF ApplyOutcomes
  <2> QED
    BY <2>1, MerkleOutcome
<1> QED
  BY <1>1, <1>2, <1>3, <1>4 DEF Deterministic

\* Two histories that agree up to n - 1 and take the same step agree at n.
LEMMA FailedPrefix ==
    ASSUME NEW A, NEW B, NEW n \in Nat, n >= 1, A \cap (1..n) = B \cap (1..n)
    PROVE  /\ A \cap (1..(n - 1)) = B \cap (1..(n - 1))
           /\ (n \in A) <=> (n \in B)
<1>1. \A i : i \in 1..(n - 1) => i \in 1..n
  OBVIOUS
<1>2. n \in 1..n
  OBVIOUS
<1>3. \A i : i \in 1..n => (i \in A <=> i \in B)
  OBVIOUS
<1> QED
  BY <1>1, <1>2, <1>3

\* A replica applies its next command: the history grows by one state.
LEMMA ApplyHistory ==
    ASSUME AppsTypeOK, app \in Deterministic, NEW M, HistoryOf(M), NEW r \in Live,
           Apply(r)
    PROVE  \E N : HistoryOf(N)'
<1>1. PICK c, o : c = log[pos[r] + 1] /\ Take(r, c, o)
  BY DEF Apply
<1>2. PICK q : q = pos[r] + 1
  OBVIOUS
<1>3. PICK new : new = <<Kept(app, o.state), o.root>>
  OBVIOUS
<1>4. /\ r \in Replica /\ Live \subseteq Replica
      /\ pos[r] \in Nat /\ q \in Nat /\ q >= 1 /\ q - 1 = pos[r]
      /\ \A s \in Live : pos[s] \in Nat /\ failed[s] \subseteq 1..pos[s]
  BY <1>2 DEF Replica, AppsTypeOK
<1>5. /\ machine'[r] = o.state /\ root'[r] = o.root /\ pos'[r] = q
      /\ o.ok => failed'[r] = failed[r]
      /\ ~o.ok => failed'[r] = failed[r] \cup {q}
      /\ \A s \in Replica : s # r =>
           /\ machine'[s] = machine[s] /\ root'[s] = root[s]
           /\ pos'[s] = pos[s] /\ failed'[s] = failed[s]
      /\ UNCHANGED <<app, log, now>>
      /\ o \in ApplyOutcomes(app, machine[r], root[r], c, now)
  <2>1. Take(r, c, o) /\ r \in Replica
    BY <1>1, <1>4
  <2> HIDE <1>1
  <2>2. machine'[r] = o.state /\ root'[r] = o.root /\ pos'[r] = pos[r] + 1
    BY <2>1, TakeEffect, SMT
  <2>5. o.ok => failed'[r] = failed[r]
    BY <2>1, TakeEffect, Zenon
  <2>6. ~o.ok => failed'[r] = failed[r] \cup {pos[r] + 1}
    BY <2>1, TakeEffect, Zenon
  <2>3. \A s \in Replica : s # r =>
           /\ machine'[s] = machine[s] /\ root'[s] = root[s]
           /\ pos'[s] = pos[s] /\ failed'[s] = failed[s]
    BY <2>1, TakeEffect, Zenon
  <2>4. /\ UNCHANGED <<app, log, now>>
        /\ o \in ApplyOutcomes(app, machine[r], root[r], c, now)
    BY <2>1, TakeEffect, Zenon
  <2> QED
    BY <1>2, <2>2, <2>3, <2>4, <2>5, <2>6, Zenon
<1>6. o.ok \in BOOLEAN
  BY <1>5, OkBoolean
<1>7. PICK N : N = [s \in Live |-> [n \in Nat |->
                      IF s = r /\ n = q THEN new ELSE M[s][n]]]
  OBVIOUS
<1>8. /\ N[r][q] = new
      /\ \A s \in Live : \A n \in Nat : s # r \/ n # q => N[s][n] = M[s][n]
  BY <1>4, <1>7
<1>9. ASSUME NEW s \in Live, NEW n \in Nat, n <= pos[s]
      PROVE  N[s][n] = M[s][n]
  <2>1. s # r \/ n # q
    BY <1>4, <1>9
  <2> QED
    BY <1>8, <2>1
<1>10. ASSUME NEW n \in 1..pos[r] PROVE (n \in failed'[r]) <=> (n \in failed[r])
  <2>1. n # q
    BY <1>4
  <2> QED
    BY <1>5, <2>1
<1>11. (q \notin failed'[r]) = o.ok
  <2>1. q \notin failed[r]
    BY <1>4
  <2> QED
    BY <1>5, <1>6, <2>1
<1>12. Step(app, M[r][pos[r]], new, c, o.ok)
  <2>1. M[r][pos[r]] = <<Kept(app, machine[r]), root[r]>>
    BY DEF HistoryOf
  <2> QED
    BY <1>3, <1>5, <2>1 DEF Step
<1>13. ASSUME NEW s \in Live
       PROVE  /\ N[s][pos'[s]] = <<Kept(app, machine'[s]), root'[s]>>
              /\ \A n \in 1..pos'[s] :
                    Step(app, N[s][n - 1], N[s][n], log[n], n \notin failed'[s])
  <2>1. ASSUME NEW n \in 1..pos[s]
        PROVE  Step(app, N[s][n - 1], N[s][n], log[n], n \notin failed[s])
    <3>1. n \in Nat /\ n - 1 \in Nat /\ n <= pos[s] /\ n - 1 <= pos[s]
      BY <1>4
    <3>2. N[s][n] = M[s][n] /\ N[s][n - 1] = M[s][n - 1]
      BY <1>9, <3>1
    <3> QED
      BY <3>2 DEF HistoryOf
  <2>2. CASE s # r
    <3>1. pos'[s] = pos[s] /\ machine'[s] = machine[s] /\ root'[s] = root[s]
          /\ failed'[s] = failed[s]
      BY <1>4, <1>5, <2>2
    <3>2. N[s][pos[s]] = M[s][pos[s]]
      BY <1>4, <1>9
    <3> QED
      BY <2>1, <3>1, <3>2 DEF HistoryOf
  <2>3. CASE s = r
    <3>1. N[s][pos'[s]] = <<Kept(app, machine'[s]), root'[s]>>
      BY <1>3, <1>5, <1>8, <2>3
    <3>2. ASSUME NEW n \in 1..q
          PROVE  Step(app, N[s][n - 1], N[s][n], log[n], n \notin failed'[s])
      <4>1. CASE n = q
        <5>1. N[s][n] = new /\ N[s][n - 1] = M[r][pos[r]]
          BY <1>4, <1>8, <1>9, <2>3, <4>1
        <5>2. log[n] = c
          BY <1>1, <1>2, <4>1
        <5> QED
          BY <1>11, <1>12, <2>3, <4>1, <5>1, <5>2
      <4>2. CASE n # q
        <5>1. n \in 1..pos[r]
          BY <1>4, <4>2
        <5>2. (n \notin failed'[r]) = (n \notin failed[r])
          BY <1>10, <5>1
        <5> QED
          BY <2>1, <2>3, <5>1, <5>2
      <4> QED
        BY <4>1, <4>2
    <3> QED
      BY <1>5, <2>3, <3>1, <3>2
  <2> QED
    BY <2>2, <2>3
<1>14. ASSUME NEW s \in Live, NEW n \in Nat, n <= pos[r], n <= pos'[s],
              failed'[r] \cap (1..n) = failed'[s] \cap (1..n)
       PROVE  N[r][n] = N[s][n]
  <2>1. CASE s = r
    BY <2>1
  <2>2. CASE s # r
    <3>1. pos'[s] = pos[s] /\ failed'[s] = failed[s]
      BY <1>4, <1>5, <2>2
    <3>2. N[r][n] = M[r][n] /\ N[s][n] = M[s][n]
      BY <1>9, <1>14, <3>1
    <3>3. \A i \in 1..n : i \in 1..pos[r]
      BY <1>4, <1>14
    <3>4. failed[r] \cap (1..n) = failed[s] \cap (1..n)
      BY <1>10, <1>14, <3>1, <3>3
    <3>5. n \in 0..pos[r]
      BY <1>4, <1>14
    <3> QED
      BY <1>14, <3>1, <3>2, <3>4, <3>5 DEF HistoryOf
  <2> QED
    BY <2>1, <2>2
<1>15. ASSUME NEW s \in Live, s # r, q <= pos[s],
              failed'[r] \cap (1..q) = failed[s] \cap (1..q)
       PROVE  N[r][q] = N[s][q]
  <2>1. /\ failed'[r] \cap (1..(q - 1)) = failed[s] \cap (1..(q - 1))
        /\ (q \in failed'[r]) <=> (q \in failed[s])
    BY <1>4, <1>15, FailedPrefix
  <2>2. pos'[s] = pos[s] /\ failed'[s] = failed[s] /\ q - 1 <= pos[s]
    BY <1>4, <1>5, <1>15
  <2>3. N[r][q - 1] = N[s][q - 1]
    BY <1>4, <1>14, <2>1, <2>2
  <2>4. N[r][q - 1] = M[r][pos[r]] /\ N[s][q - 1] = M[s][q - 1] /\ N[s][q] = M[s][q]
    BY <1>4, <1>9, <1>15, <2>2
  <2>5. (q \notin failed[s]) = o.ok
    BY <1>11, <2>1
  <2>6. q \in 1..pos[s] /\ log[q] = c
    BY <1>1, <1>2, <1>4, <1>15
  <2>7. Step(app, M[s][q - 1], M[s][q], log[q], q \notin failed[s])
    BY <2>6 DEF HistoryOf
  <2>8. Step(app, M[r][pos[r]], M[s][q], c, o.ok)
    BY <2>3, <2>4, <2>5, <2>6, <2>7
  <2>9. M[s][q] = new
    BY <1>12, <2>8, StepDeterministic
  <2> QED
    BY <1>8, <2>4, <2>9
<1>16. ASSUME NEW u \in Live, NEW s \in Live, NEW n \in 0..pos'[u], n <= pos'[s],
              failed'[u] \cap (1..n) = failed'[s] \cap (1..n)
       PROVE  N[u][n] = N[s][n]
  <2>0. /\ n \in Nat
        /\ \A v \in Live : v # r => pos'[v] = pos[v] /\ failed'[v] = failed[v]
        /\ \A v \in Live : pos'[v] \in Nat /\ pos[v] \in Nat
    BY <1>4, <1>5
  <2>00. n <= pos'[u]
    BY <2>0
  <2>1. CASE u = s
    BY <2>1
  <2>2. CASE u = r /\ s # r /\ n = q
    BY <1>15, <1>16, <2>0, <2>2
  <2>3. CASE u = r /\ s # r /\ n # q
    <3>1. n <= pos[r]
      BY <1>4, <1>5, <2>0, <2>00, <2>3
    <3> QED
      BY <1>14, <1>16, <2>0, <2>3, <3>1
  <2>4. CASE s = r /\ u # r /\ n = q
    BY <1>15, <1>16, <2>0, <2>00, <2>4
  <2>5. CASE s = r /\ u # r /\ n # q
    <3>1. n <= pos[r]
      BY <1>4, <1>5, <1>16, <2>0, <2>5
    <3> QED
      BY <1>14, <1>16, <2>0, <2>00, <2>5, <3>1
  <2>6. CASE s # r /\ u # r
    <3>1. N[u][n] = M[u][n] /\ N[s][n] = M[s][n]
      BY <1>9, <1>16, <2>0, <2>00, <2>6
    <3> QED
      BY <1>16, <2>0, <2>6, <3>1 DEF HistoryOf
  <2> QED
    BY <2>1, <2>2, <2>3, <2>4, <2>5, <2>6
<1>17. HistoryOf(N)'
  <2>1. app' = app /\ log' = log
    BY <1>5
  <2> QED
    BY <1>13, <1>16, <2>1 DEF HistoryOf
<1> QED
  BY <1>17

\* Steps of others: the history is the one it was.
LEMMA SameHistory ==
    ASSUME AppsTypeOK, NEW M, HistoryOf(M), app' = app,
           \A s \in Live : /\ machine'[s] = machine[s] /\ root'[s] = root[s]
                           /\ pos'[s] = pos[s] /\ failed'[s] = failed[s],
           \A i \in 1..Len(log) : log'[i] = log[i]
    PROVE  HistoryOf(M)'
<1>1. ASSUME NEW s \in Live, NEW n \in 1..pos[s] PROVE log'[n] = log[n]
  <2>1. pos[s] \in Nat /\ Len(log) \in Nat /\ pos[s] <= Len(log)
    BY DEF AppsTypeOK, Replica
  <2>2. n \in 1..Len(log)
    BY <2>1
  <2> QED
    BY <2>2
<1>2. ASSUME NEW s \in Live
      PROVE  /\ M[s][pos'[s]] = <<Kept(app', machine'[s]), root'[s]>>
             /\ \A n \in 1..pos'[s] :
                   Step(app', M[s][n - 1], M[s][n], log'[n], n \notin failed'[s])
  BY <1>1 DEF HistoryOf
<1>3. ASSUME NEW s \in Live, NEW u \in Live, NEW n \in 0..pos'[s], n <= pos'[u],
             failed'[s] \cap (1..n) = failed'[u] \cap (1..n)
      PROVE  M[s][n] = M[u][n]
  BY <1>3 DEF HistoryOf
<1> QED
  BY <1>2, <1>3 DEF HistoryOf

\* The invariant of agreement is inductive.
LEMMA AgreeStep ==
    ASSUME AgreeInv, [Next]_vars
    PROVE  AgreeInv'
<1>1. AppsTypeOK /\ AppsTypeOK'
  BY AppsStepType DEF AgreeInv
<1>2. ASSUME NEW c \in Commands[app], Commit(c) PROVE AgreeInv'
  <2>1. /\ \A i \in 1..Len(log) : log'[i] = log[i]
        /\ UNCHANGED <<app, pos, machine, root, failed>>
    BY <1>1, <1>2, CommitEffect
  <2> QED
    BY <1>1, <2>1, SameHistory DEF AgreeInv
<1>3. CASE Tick \/ UNCHANGED vars
  <2>1. UNCHANGED <<app, log, pos, machine, root, failed>>
    BY <1>3 DEF Tick, vars
  <2> QED
    BY <1>1, <2>1, SameHistory DEF AgreeInv
<1>4. ASSUME NEW r \in Live, Apply(r) PROVE AgreeInv'
  <2>1. app' = app
    BY <1>4 DEF Apply, Take
  <2> QED
    BY <1>1, <1>4, <2>1, ApplyHistory DEF AgreeInv
<1>5. CASE ReplayStep
  <2>1. PICK c, o : Take(Replayer, c, o)
    BY <1>5 DEF ReplayStep
  <2>2. Replayer \in Replica /\ \A s \in Live : s # Replayer /\ s \in Replica
    BY ReplicaAssumption DEF Replica
  <2>3. /\ \A s \in Replica : s # Replayer =>
             /\ machine'[s] = machine[s] /\ root'[s] = root[s]
             /\ pos'[s] = pos[s] /\ failed'[s] = failed[s]
        /\ UNCHANGED <<app, log>>
    BY <1>1, <2>1, <2>2, TakeEffect
  <2> QED
    BY <1>1, <2>2, <2>3, SameHistory DEF AgreeInv
<1> QED
  BY <1>2, <1>3, <1>4, <1>5 DEF Next

\* All replicas start from the same empty maps and genesis root.
LEMMA AgreeInit == Init => AgreeInv
<1> SUFFICES ASSUME Init PROVE AgreeInv
  OBVIOUS
<1>1. PICK e : e = <<Kept(app, EmptyState(app)), Genesis(app)>>
  OBVIOUS
<1>2. PICK M : M = [s \in Live |-> [n \in Nat |-> e]]
  OBVIOUS
<1>3. \A s \in Live : M[s][0] = e
  BY <1>2
<1>4. \A s \in Live : pos[s] = 0 /\ machine[s] = EmptyState(app) /\ root[s] = Genesis(app)
  BY DEF Init, Replica
<1>5. HistoryOf(M)
  <2>1. ASSUME NEW s \in Live
        PROVE  /\ M[s][pos[s]] = <<Kept(app, machine[s]), root[s]>>
               /\ \A n \in 1..pos[s] : FALSE
    BY <1>1, <1>3, <1>4
  <2>2. ASSUME NEW s \in Live, NEW u \in Live, NEW n \in 0..pos[s]
        PROVE  M[s][n] = M[u][n]
    <3>1. n = 0
      BY <1>4
    <3> QED
      BY <1>3, <3>1
  <2> QED
    BY <2>1, <2>2 DEF HistoryOf
<1> QED
  BY <1>5, AppsInitType DEF AgreeInv

\* Replicas that have met the same errors agree, whatever the log and whenever
\* each of them applied its commands.
THEOREM AppsAgree == Spec => []ReplicasAgree
<1>1. AgreeInv => ReplicasAgree
  <2> SUFFICES ASSUME AgreeInv, app \in Deterministic, NEW r \in Live, NEW s \in Live,
                      pos[r] = pos[s], failed[r] = failed[s]
               PROVE  /\ Kept(app, machine[r]) = Kept(app, machine[s])
                      /\ root[r] = root[s]
    BY DEF ReplicasAgree, Deterministic, Kept
  <2>1. PICK M : HistoryOf(M)
    BY DEF AgreeInv
  <2>2. pos[r] \in Nat
    BY DEF AgreeInv, AppsTypeOK, Replica
  <2>3. pos[r] \in 0..pos[r] /\ pos[r] <= pos[s]
    BY <2>2
  <2>4. M[r][pos[r]] = M[s][pos[s]]
    BY <2>1, <2>3 DEF HistoryOf
  <2> QED
    BY <2>1, <2>4 DEF HistoryOf
<1>2. AgreeInv /\ [Next]_vars => AgreeInv'
  BY AgreeStep
<1> QED
  BY <1>1, <1>2, AgreeInit, PTL DEF Spec

-----------------------------------------------------------------------------
(* Locks.                                                                  *)

\* dist-lock: a command is refused, acquires a lock that is free, expired or the
\* holder's own, or releases one of the holder's.
LEMMA LockOutcome ==
    ASSUME NEW s, NEW h, NEW c, NEW t, NEW o \in LockApply(s, h, c, t)
    PROVE  \/ o.state = s
           \/ /\ ~(/\ c.resource \in DOMAIN s
                   /\ t < s[c.resource].expiresAt
                   /\ s[c.resource].holder # c.holder)
              /\ o.state = Put(s, c.resource, [holder |-> c.holder, expiresAt |-> t + c.ttl])
           \/ /\ s[c.resource].holder = c.holder
              /\ o.state = Del(s, c.resource)
<1> DEFINE taken == /\ c.resource \in DOMAIN s
                    /\ t < s[c.resource].expiresAt
                    /\ s[c.resource].holder # c.holder
           mine  == /\ c.resource \in DOMAIN s
                    /\ s[c.resource].holder = c.holder
           next  == IF c.action = "ACQUIRE"
                      THEN Put(s, c.resource, [holder |-> c.holder, expiresAt |-> t + c.ttl])
                      ELSE Del(s, c.resource)
<1>1. CASE (c.action = "ACQUIRE" /\ ~taken) \/ (c.action = "RELEASE" /\ mine)
  <2>1. LockApply(s, h, c, t) =
          Accepted(next, LAMBDA k : LockRoot(next, k), SetToSeqs(DOMAIN next))
    BY <1>1 DEF LockApply, Unexpired
  <2> HIDE DEF next
  <2>2. o.state = next
    BY <2>1 DEF Accepted
  <2> QED
    BY <1>1, <2>2 DEF next
<1>2. CASE ~((c.action = "ACQUIRE" /\ ~taken) \/ (c.action = "RELEASE" /\ mine))
  <2>1. LockApply(s, h, c, t) = Refused(s, h)
    BY <1>2 DEF LockApply, Unexpired
  <2> QED
    BY <2>1 DEF Refused
<1> QED
  BY <1>1, <1>2

\* What becomes of one unexpired lock.
LEMMA LockKept ==
    ASSUME NEW s, NEW h, NEW c, NEW t, NEW o \in LockApply(s, h, c, t),
           NEW x \in DOMAIN s, t < s[x].expiresAt,
           ~(x \in DOMAIN o.state /\ o.state[x] = s[x])
    PROVE  c.holder = s[x].holder
<1>1. CASE o.state = s
  BY <1>1
<1>2. CASE /\ ~(/\ c.resource \in DOMAIN s
                /\ t < s[c.resource].expiresAt
                /\ s[c.resource].holder # c.holder)
           /\ o.state = Put(s, c.resource, [holder |-> c.holder, expiresAt |-> t + c.ttl])
  <2>1. x = c.resource
    <3>1. x # c.resource => x \in DOMAIN o.state /\ o.state[x] = s[x]
      BY <1>2 DEF Put
    <3> QED
      BY <3>1
  <2> QED
    BY <1>2, <2>1
<1>3. CASE s[c.resource].holder = c.holder /\ o.state = Del(s, c.resource)
  <2>1. x = c.resource
    <3>1. x # c.resource => x \in DOMAIN o.state /\ o.state[x] = s[x]
      BY <1>3 DEF Del, Restrict
    <3> QED
      BY <3>1
  <2> QED
    BY <1>3, <2>1
<1> QED
  BY <1>1, <1>2, <1>3, LockOutcome

\* One step.
LEMMA LockStep ==
    ASSUME AppsTypeOK, [Next]_vars
    PROVE  KeepsUnexpired
<1> SUFFICES ASSUME app = "lock", NEW r \in Live, NEW x \in DOMAIN machine[r],
                    now < machine[r][x].expiresAt,
                    ~(x \in DOMAIN machine'[r] /\ machine'[r][x] = machine[r][x])
             PROVE  log[pos'[r]].holder = machine[r][x].holder
  BY DEF KeepsUnexpired
<1>1. machine'[r] # machine[r]
  OBVIOUS
<1>2. ASSUME NEW c \in Commands[app], Commit(c) PROVE FALSE
  BY <1>1, <1>2 DEF Commit
<1>3. CASE Tick \/ UNCHANGED vars
  BY <1>1, <1>3 DEF Tick, vars
<1>4. ASSUME NEW u \in Live, Apply(u) PROVE log[pos'[r]].holder = machine[r][x].holder
  <2>1. PICK c, o : c = log[pos[u] + 1] /\ Take(u, c, o)
    BY <1>4 DEF Apply
  <2>2. u \in Replica /\ r \in Replica
    BY DEF Replica
  <2>3. \A s \in Replica : s # u => machine'[s] = machine[s]
    BY <2>1, <2>2, TakeEffect
  <2>4. r = u
    BY <1>1, <2>2, <2>3
  <2>5. machine'[r] = o.state /\ pos'[r] = pos[r] + 1
    BY <2>1, <2>2, <2>4, TakeEffect
  <2>6. o \in LockApply(machine[r], root[r], c, now)
    BY <2>1, <2>4 DEF Take, Outcomes, ApplyOutcomes
  <2>7. c.holder = machine[r][x].holder
    BY <2>5, <2>6, LockKept
  <2> QED
    BY <2>1, <2>4, <2>5, <2>7
<1>5. CASE ReplayStep
  <2>1. PICK c, o : Take(Replayer, c, o)
    BY <1>5 DEF ReplayStep
  <2>2. Replayer \in Replica /\ r # Replayer /\ r \in Replica
    BY ReplicaAssumption DEF Replica
  <2>3. machine'[r] = machine[r]
    BY <2>1, <2>2, TakeEffect
  <2> QED
    BY <1>1, <2>3
<1> QED
  BY <1>2, <1>3, <1>4, <1>5 DEF Next

\* The types hold always.
LEMMA AppsTypes == Spec => []AppsTypeOK
<1>1. AppsTypeOK /\ [Next]_vars => AppsTypeOK'
  BY AppsStepType
<1> QED
  BY <1>1, AppsInitType, PTL DEF Spec

\* No lock is stolen: whoever changes an unexpired lock is its holder.
THEOREM LocksKept == Spec => LockNotStolen
<1>1. AppsTypeOK /\ [Next]_vars => [KeepsUnexpired]_vars
  BY LockStep
<1> QED
  BY <1>1, AppsTypes, PTL DEF Spec, LockNotStolen

-----------------------------------------------------------------------------
(* The kv-store under storage errors.                                      *)

\* Map and storage of one replica of the kv-store, as a record.
KVRecord(m) == m = [mem |-> m.mem, disk |-> m.disk]

\* KVDamageContained of one replica.
Contained(r) ==
    /\ KVRecord(machine[r])
    /\ \A k \in Name :
          Lookup(machine[r].mem, k) # Lookup(machine[r].disk, k) =>
              \E i \in AboutKey(r, k) \cap failed[r] : \A j \in AboutKey(r, k) : j <= i
    /\ \/ root[r] = KVRoot(machine[r].mem, Sorted(DOMAIN machine[r].mem))
       \/ \A i \in 1..pos[r] : i \notin failed[r] =>
              \E j \in failed[r] : j > i /\ log[j].op # "OTHER"

DamageInv == AppsTypeOK /\ (app = "kv" => \A r \in Live : Contained(r))

\* A write is seen at its key and nowhere else.
LEMMA WriteLookup ==
    ASSUME NEW f, NEW g, NEW c, NEW k
    PROVE  /\ k # c.key => Lookup(Write(f, c), k) = Lookup(f, k)
           /\ k = c.key => Lookup(Write(f, c), k) = Lookup(Write(g, c), k)
<1>1. CASE c.op = "PUT"
  <2>1. \A x : /\ DOMAIN Put(x, c.key, c.value) = DOMAIN x \cup {c.key}
               /\ \A y \in DOMAIN x \cup {c.key} :
                    Put(x, c.key, c.value)[y] = IF y = c.key THEN c.value ELSE x[y]
    BY DEF Put
  <2>2. Write(f, c) = Put(f, c.key, c.value) /\ Write(g, c) = Put(g, c.key, c.value)
    BY <1>1 DEF Write
  <2>3. k # c.key => Lookup(Put(f, c.key, c.value), k) = Lookup(f, k)
    BY <2>1 DEF Lookup
  <2>4. \A x : Lookup(Put(x, c.key, c.value), c.key) = {c.value}
    BY <2>1 DEF Lookup
  <2> QED
    BY <2>2, <2>3, <2>4
<1>2. CASE c.op # "PUT"
  <2>1. \A x : /\ DOMAIN Del(x, c.key) = DOMAIN x \ {c.key}
               /\ \A y \in DOMAIN x \ {c.key} : Del(x, c.key)[y] = x[y]
    BY DEF Del, Restrict
  <2>2. Write(f, c) = Del(f, c.key) /\ Write(g, c) = Del(g, c.key)
    BY <1>2 DEF Write
  <2>3. k # c.key => Lookup(Del(f, c.key), k) = Lookup(f, k)
    BY <2>1 DEF Lookup
  <2>4. \A x : Lookup(Del(x, c.key), c.key) = {}
    BY <2>1 DEF Lookup
  <2> QED
    BY <2>2, <2>3, <2>4
<1> QED
  BY <1>1, <1>2

\* A replica of the kv-store applies a command.
LEMMA ContainedApply ==
    ASSUME AppsTypeOK, app = "kv", NEW r \in Live, Contained(r), Apply(r)
    PROVE  Contained(r)'
<1>1. PICK c, o : c = log[pos[r] + 1] /\ Take(r, c, o)
  BY DEF Apply
<1>2. PICK q : q = pos[r] + 1
  OBVIOUS
<1>3. /\ r \in Replica /\ pos[r] \in Nat /\ q \in Nat /\ q >= 1
      /\ failed[r] \subseteq 1..pos[r]
      /\ 1..q = (1..pos[r]) \cup {q} /\ q \notin 1..pos[r]
      /\ \A i \in 1..pos[r] : i < q /\ i <= q
  BY <1>2 DEF Replica, AppsTypeOK
<1>4. machine'[r] = o.state /\ root'[r] = o.root /\ pos'[r] = q
  BY <1>1, <1>2, <1>3, TakeEffect
<1>5. o.ok => failed'[r] = failed[r]
  BY <1>1, <1>2, <1>3, TakeEffect
<1>6. ~o.ok => failed'[r] = failed[r] \cup {q}
  BY <1>1, <1>2, <1>3, TakeEffect
<1>7. log' = log /\ o \in KVApply(machine[r], root[r], c)
  BY <1>1 DEF Take, Outcomes, ApplyOutcomes
<1>8. log[q] = c
  BY <1>1, <1>2
<1>9. PICK s, h : s = machine[r] /\ h = root[r]
  OBVIOUS
<1> DEFINE mem == Write(s.mem, c)
<1>10. ASSUME NEW k, c.op = "OTHER" \/ c.key # k
       PROVE  AboutKey(r, k)' = AboutKey(r, k)
  BY <1>3, <1>4, <1>7, <1>8, <1>10 DEF AboutKey
<1>11. ASSUME NEW k, c.op # "OTHER", c.key = k
       PROVE  q \in AboutKey(r, k)' /\ \A j \in AboutKey(r, k)' : j <= q
  <2>1. AboutKey(r, k)' = {i \in 1..q : log[i].op # "OTHER" /\ log[i].key = k}
    BY <1>4, <1>7 DEF AboutKey
  <2>2. q \in 1..q /\ \A j \in 1..q : j <= q
    BY <1>3
  <2> QED
    BY <1>8, <1>11, <2>1, <2>2
<1>12. \A k : AboutKey(r, k) \subseteq 1..pos[r]
  BY DEF AboutKey
<1>13. ASSUME NEW k \in Name, AboutKey(r, k)' = AboutKey(r, k),
              Lookup(s.mem, k) # Lookup(s.disk, k)
       PROVE  \E i \in AboutKey(r, k)' \cap failed'[r] :
                 \A j \in AboutKey(r, k)' : j <= i
  <2>1. PICK i \in AboutKey(r, k) \cap failed[r] : \A j \in AboutKey(r, k) : j <= i
    BY <1>9, <1>13 DEF Contained
  <2>2. i \in failed'[r]
    BY <1>5, <1>6, <2>1
  <2> QED
    BY <1>13, <2>1, <2>2
<1>14. CASE c.op = "OTHER" /\ o = [ok |-> FALSE, state |-> s, root |-> h]
  <2>1. machine'[r] = s /\ root'[r] = h /\ failed'[r] = failed[r] \cup {q}
    BY <1>4, <1>6, <1>14
  <2>2. \A k \in Name : Lookup(s.mem, k) # Lookup(s.disk, k) =>
           \E i \in AboutKey(r, k)' \cap failed'[r] : \A j \in AboutKey(r, k)' : j <= i
    BY <1>10, <1>13, <1>14
  <2>3. \/ h = KVRoot(s.mem, Sorted(DOMAIN s.mem))
        \/ \A i \in 1..q : i \notin failed'[r] =>
              \E j \in failed'[r] : j > i /\ log[j].op # "OTHER"
    BY <1>3, <1>9, <2>1 DEF Contained
  <2> QED
    BY <1>4, <1>7, <1>9, <2>1, <2>2, <2>3 DEF Contained
<1>15. CASE /\ c.op # "OTHER"
            /\ o = [ok |-> TRUE, state |-> [mem |-> mem, disk |-> Stored(s.disk, c)],
                    root |-> KVRoot(mem, Sorted(DOMAIN mem))]
  <2>1. PICK m, d : m = mem /\ d = Stored(s.disk, c)
    OBVIOUS
  <2>2. /\ machine'[r] = [mem |-> m, disk |-> d]
        /\ root'[r] = KVRoot(m, Sorted(DOMAIN m))
    BY <1>4, <1>15, <2>1
  <2>3. ASSUME NEW k \in Name, Lookup(m, k) # Lookup(d, k)
        PROVE  \E i \in AboutKey(r, k)' \cap failed'[r] :
                 \A j \in AboutKey(r, k)' : j <= i
    <3>1. k # c.key
      BY <2>1, <2>3, WriteLookup DEF Stored
    <3>2. Lookup(s.mem, k) # Lookup(s.disk, k)
      BY <2>1, <2>3, <3>1, WriteLookup DEF Stored
    <3> QED
      BY <1>10, <1>13, <3>1, <3>2
  <2>4. machine'[r].mem = m /\ machine'[r].disk = d
    BY <2>2
  <2> QED
    BY <2>2, <2>3, <2>4 DEF Contained, KVRecord
<1>16. CASE /\ c.op # "OTHER"
            /\ o = [ok |-> FALSE, state |-> [s EXCEPT !.mem = mem], root |-> h]
  <2>1. PICK m, d : m = mem /\ d = s.disk
    OBVIOUS
  <2>2. s = [mem |-> s.mem, disk |-> s.disk]
    BY <1>9 DEF Contained, KVRecord
  <2>3. machine'[r] = [mem |-> m, disk |-> d]
    <3>1. machine'[r] = [s EXCEPT !.mem = m]
      BY <1>4, <1>16, <2>1
    <3>2. \A x, y : [[mem |-> x, disk |-> y] EXCEPT !.mem = m] = [mem |-> m, disk |-> y]
      OBVIOUS
    <3> QED
      BY <2>1, <2>2, <3>1, <3>2
  <2>4. failed'[r] = failed[r] \cup {q}
    BY <1>6, <1>16
  <2>5. ASSUME NEW k \in Name, Lookup(m, k) # Lookup(d, k)
        PROVE  \E i \in AboutKey(r, k)' \cap failed'[r] :
                 \A j \in AboutKey(r, k)' : j <= i
    <3>1. CASE k # c.key
      <4>1. Lookup(s.mem, k) # Lookup(s.disk, k)
        BY <2>1, <2>5, <3>1, WriteLookup
      <4> QED
        BY <1>10, <1>13, <3>1, <4>1
    <3>2. CASE k = c.key
      BY <1>11, <1>16, <2>4, <3>2
    <3> QED
      BY <3>1, <3>2
  <2>6. ASSUME NEW i \in 1..q, i \notin failed'[r]
        PROVE  \E j \in failed'[r] : j > i /\ log[j].op # "OTHER"
    <3>1. i \in 1..pos[r]
      BY <1>3, <2>4, <2>6
    <3>2. q > i /\ q \in failed'[r] /\ log[q].op # "OTHER"
      BY <1>3, <1>8, <1>16, <2>4, <3>1
    <3> QED
      BY <3>2
  <2>7. machine'[r].mem = m /\ machine'[r].disk = d
    BY <2>3
  <2> QED
    BY <1>4, <1>7, <2>3, <2>5, <2>6, <2>7 DEF Contained, KVRecord
<1> QED
  BY <1>7, <1>9, <1>14, <1>15, <1>16, KVOutcome

\* A replica that takes no step: its past is what it was.
LEMMA ContainedSame ==
    ASSUME AppsTypeOK, NEW r \in Live, Contained(r),
           machine'[r] = machine[r], root'[r] = root[r],
           pos'[r] = pos[r], failed'[r] = failed[r],
           \A i \in 1..Len(log) : log'[i] = log[i]
    PROVE  Contained(r)'
<1>1. \A i \in 1..pos[r] : log'[i] = log[i]
  <2>1. pos[r] \in Nat /\ Len(log) \in Nat /\ pos[r] <= Len(log)
    BY DEF AppsTypeOK, Replica
  <2>2. \A i \in 1..pos[r] : i \in 1..Len(log)
    BY <2>1
  <2> QED
    BY <2>2
<1>2. \A k : AboutKey(r, k)' = AboutKey(r, k)
  BY <1>1 DEF AboutKey
<1>3. \A j \in failed[r] : log'[j] = log[j]
  BY <1>1 DEF AppsTypeOK, Replica
<1> QED
  BY <1>2, <1>3 DEF Contained

\* The damage stays contained in every step.
LEMMA DamageStep ==
    ASSUME DamageInv, [Next]_vars
    PROVE  DamageInv'
<1>1. AppsTypeOK /\ AppsTypeOK'
  BY AppsStepType DEF DamageInv
<1>2. ASSUME NEW c \in Commands[app], Commit(c) PROVE DamageInv'
  <2>1. /\ \A i \in 1..Len(log) : log'[i] = log[i]
        /\ UNCHANGED <<app, pos, machine, root, failed>>
    BY <1>1, <1>2, CommitEffect
  <2> QED
    BY <1>1, <2>1, ContainedSame DEF DamageInv
<1>3. CASE Tick \/ UNCHANGED vars
  <2>1. UNCHANGED <<app, log, pos, machine, root, failed>>
    BY <1>3 DEF Tick, vars
  <2> QED
    BY <1>1, <2>1, ContainedSame DEF DamageInv
<1>4. ASSUME NEW u \in Live, Apply(u) PROVE DamageInv'
  <2>1. PICK c, o : Take(u, c, o)
    BY <1>4 DEF Apply
  <2>2. Live \subseteq Replica
    BY DEF Replica
  <2>3. /\ \A s \in Replica : s # u =>
             /\ machine'[s] = machine[s] /\ root'[s] = root[s]
             /\ pos'[s] = pos[s] /\ failed'[s] = failed[s]
        /\ UNCHANGED <<app, log>>
    BY <1>1, <2>1, <2>2, TakeEffect
  <2>4. ASSUME app = "kv", NEW r \in Live PROVE Contained(r)'
    <3>1. Contained(r)
      BY <2>4 DEF DamageInv
    <3>2. CASE r = u
      BY <1>1, <1>4, <2>4, <3>1, <3>2, ContainedApply
    <3>3. CASE r # u
      BY <1>1, <2>2, <2>3, <3>1, <3>3, ContainedSame
    <3> QED
      BY <3>2, <3>3
  <2> QED
    BY <1>1, <2>3, <2>4 DEF DamageInv
<1>5. CASE ReplayStep
  <2>1. PICK c, o : Take(Replayer, c, o)
    BY <1>5 DEF ReplayStep
  <2>2. Replayer \in Replica /\ \A s \in Live : s # Replayer /\ s \in Replica
    BY ReplicaAssumption DEF Replica
  <2>3. /\ \A s \in Replica : s # Replayer =>
             /\ machine'[s] = machine[s] /\ root'[s] = root[s]
             /\ pos'[s] = pos[s] /\ failed'[s] = failed[s]
        /\ UNCHANGED <<app, log>>
    BY <1>1, <2>1, <2>2, TakeEffect
  <2> QED
    BY <1>1, <2>2, <2>3, ContainedSame DEF DamageInv
<1> QED
  BY <1>2, <1>3, <1>4, <1>5 DEF Next

\* Empty maps, empty storage, no command yet.
LEMMA DamageInit == Init => DamageInv
<1> SUFFICES ASSUME Init PROVE DamageInv
  OBVIOUS
<1>1. ASSUME app = "kv", NEW r \in Live PROVE Contained(r)
  <2>1. machine[r] = [mem |-> <<>>, disk |-> <<>>] /\ pos[r] = 0
    BY <1>1 DEF Init, EmptyState, Replica
  <2>2. machine[r].mem = machine[r].disk /\ KVRecord(machine[r])
    BY <2>1 DEF KVRecord
  <2>3. \A i \in 1..pos[r] : FALSE
    BY <2>1
  <2> QED
    BY <2>2, <2>3 DEF Contained
<1> QED
  BY <1>1, AppsInitType DEF DamageInv

\* A storage error leaves map, storage and root apart no longer than to the
\* next success, at every replica and after any number of errors.
THEOREM DamageContained == Spec => []KVDamageContained
<1>1. DamageInv => KVDamageContained
  BY DEF DamageInv, Contained, KVDamageContained
<1>2. DamageInv /\ [Next]_vars => DamageInv'
  BY DamageStep
<1> QED
  BY <1>1, <1>2, DamageInit, PTL DEF Spec

-----------------------------------------------------------------------------
(* Replay.  The history here is that of the recorder, one state for every  *)
(* recorded command; the replayer moves along it.                          *)

\* The applications whose refused commands leave no trace.
Traceless == {"kv", "meta"}

\* The recorder met no storage error, and neither did the replayer.
RecorderClean == \A i \in failed[Recorder] : app = "kv" => log[i].op = "OTHER"
ReplayerClean == \A i \in failed[Replayer] :
                    app = "kv" => recorded[i].payload.op = "OTHER"

RecordedOK == (\E X : recorded \in Seq(X)) /\ pos[Replayer] <= Len(recorded)

\* R[n] is what the recorder held after the first n commands that it recorded.
TraceOf(R) ==
    /\ R[Len(recorded)] = <<machine[Recorder], root[Recorder]>>
    /\ \A n \in 1..Len(recorded) :
          /\ Step(app, R[n - 1], R[n], recorded[n].payload, TRUE)
          /\ R[n][2] = recorded[n].stateRoot
    /\ ReplayerClean => /\ verdict = "running"
                        /\ R[pos[Replayer]] = <<machine[Replayer], root[Replayer]>>

ReplayInv ==
    /\ AppsTypeOK /\ RecordedOK
    /\ app \in Traceless /\ RecorderClean => \E R : TraceOf(R)

\* Nothing of what the applications keep is left out of the comparison.
LEMMA TracelessKept ==
    ASSUME NEW a \in Traceless, NEW s
    PROVE  Kept(a, s) = s /\ a \in Deterministic
  BY DEF Kept, Traceless, Deterministic

\* A refused command that is not a storage error changes nothing.
LEMMA RefusedNoTrace ==
    ASSUME NEW a \in Traceless, NEW s, NEW h, NEW c, NEW t,
           NEW o \in ApplyOutcomes(a, s, h, c, t), ~o.ok, a = "kv" => c.op = "OTHER"
    PROVE  o.state = s /\ o.root = h
<1>1. CASE a = "kv"
  <2>1. o \in KVApply(s, h, c)
    BY <1>1 DEF ApplyOutcomes
  <2> QED
    BY <1>1, <2>1, KVOutcome
<1>2. CASE a = "meta"
  <2>1. o \in MetaApply(s, h, c)
    BY <1>2 DEF ApplyOutcomes
  <2> QED
    BY <2>1, MetaOutcome
<1> QED
  BY <1>1, <1>2 DEF Traceless

\* A command that succeeded once, applied again in the same state, succeeds
\* with the same result, or meets a storage error.
LEMMA AppliedAgain ==
    ASSUME NEW a \in Traceless, NEW s, NEW h, NEW y, NEW c, NEW t,
           Step(a, <<s, h>>, y, c, TRUE), NEW o \in ApplyOutcomes(a, s, h, c, t)
    PROVE  /\ o.ok \in BOOLEAN
           /\ o.ok => y = <<o.state, o.root>>
           /\ ~o.ok => a = "kv" /\ c.op # "OTHER"
<1>1. o.ok \in BOOLEAN
  BY OkBoolean, TracelessKept
<1>2. Step(a, <<s, h>>, <<o.state, o.root>>, c, o.ok)
  <2>1. Kept(a, s) = s /\ Kept(a, o.state) = o.state
    BY TracelessKept
  <2> QED
    BY <2>1 DEF Step
<1>3. ASSUME o.ok PROVE y = <<o.state, o.root>>
  <2>1. o.ok = TRUE
    BY <1>1, <1>3
  <2>2. a \in Deterministic
    BY TracelessKept
  <2> QED
    BY <1>2, <2>1, <2>2, StepDeterministic
<1>4. PICK s2, h2, t2 : \E p \in ApplyOutcomes(a, s2, h2, c, t2) : p.ok = TRUE
  BY DEF Step
<1>5. PICK p \in ApplyOutcomes(a, s2, h2, c, t2) : p.ok = TRUE
  BY <1>4
<1>6. a = "kv" => c.op # "OTHER"
  <2> SUFFICES ASSUME a = "kv" PROVE c.op # "OTHER"
    OBVIOUS
  <2>1. p \in KVApply(s2, h2, c)
    BY <1>5 DEF ApplyOutcomes
  <2> QED
    BY <1>5, <2>1, KVOutcome
<1>7. ASSUME a = "meta" PROVE o.ok
  <2>1. p \in MetaApply(s2, h2, c) /\ o \in MetaApply(s, h, c)
    BY <1>5, <1>7 DEF ApplyOutcomes
  <2>2. c.action # "OTHER"
    BY <1>5, <2>1, MetaOutcome
  <2>3. o.ok = TRUE
    BY <2>1, <2>2, MetaOutcome
  <2> QED
    BY <2>3
<1> QED
  BY <1>1, <1>3, <1>6, <1>7 DEF Traceless

\* Steps of the other replicas, and of the log.
LEMMA TraceSame ==
    ASSUME ReplayInv, AppsTypeOK', app' = app, recorded' = recorded, verdict' = verdict,
           \A s \in {Recorder, Replayer} :
              /\ machine'[s] = machine[s] /\ root'[s] = root[s]
              /\ pos'[s] = pos[s] /\ failed'[s] = failed[s],
           \A i \in 1..Len(log) : log'[i] = log[i]
    PROVE  ReplayInv'
<1>1. RecordedOK'
  BY DEF ReplayInv, RecordedOK
<1>2. RecorderClean' => RecorderClean
  <2>1. /\ pos[Recorder] \in Nat /\ Len(log) \in Nat /\ pos[Recorder] <= Len(log)
        /\ failed[Recorder] \subseteq 1..pos[Recorder]
    BY ReplicaAssumption DEF ReplayInv, AppsTypeOK, Replica
  <2>2. \A i \in failed[Recorder] : i \in 1..Len(log)
    BY <2>1
  <2> QED
    BY <2>2 DEF RecorderClean
<1>3. ReplayerClean' => ReplayerClean
  BY DEF ReplayerClean
<1>4. ASSUME NEW R, TraceOf(R) PROVE TraceOf(R)'
  BY <1>3, <1>4 DEF TraceOf
<1> QED
  BY <1>1, <1>2, <1>4 DEF ReplayInv

\* The recorder applies a command; when it succeeds it is recorded.
LEMMA TraceRecord ==
    ASSUME ReplayInv, AppsTypeOK', Apply(Recorder)
    PROVE  ReplayInv'
<1>1. PICK c, o : /\ c = log[pos[Recorder] + 1] /\ Take(Recorder, c, o)
                  /\ Record(Recorder, c, o) /\ verdict' = verdict
  BY DEF Apply
<1>2. /\ AppsTypeOK /\ Recorder \in Replica /\ Replayer \in Replica
      /\ Recorder # Replayer /\ Recorder \in Live
  BY ReplicaAssumption DEF ReplayInv, Replica
<1>3. /\ machine'[Recorder] = o.state /\ root'[Recorder] = o.root
      /\ app' = app /\ log' = log
      /\ o \in ApplyOutcomes(app, machine[Recorder], root[Recorder], c, now)
  BY <1>1, <1>2, TakeEffect
<1>4. /\ machine'[Replayer] = machine[Replayer] /\ root'[Replayer] = root[Replayer]
      /\ pos'[Replayer] = pos[Replayer] /\ failed'[Replayer] = failed[Replayer]
  BY <1>1, <1>2, TakeEffect
<1>5. o.ok => failed'[Recorder] = failed[Recorder]
  BY <1>1, <1>2, TakeEffect
<1>6. ~o.ok => failed'[Recorder] = failed[Recorder] \cup {pos[Recorder] + 1}
  BY <1>1, <1>2, TakeEffect
<1>7. PICK X : recorded \in Seq(X)
  BY DEF ReplayInv, RecordedOK
<1>8. PICK e : e = [payload |-> c, stateRoot |-> o.root]
  OBVIOUS
<1>9. PICK len : len = Len(recorded) /\ len \in Nat
  BY <1>7
<1>10. /\ pos[Replayer] \in Nat /\ pos[Replayer] <= len
       /\ failed[Replayer] \subseteq 1..pos[Replayer]
  BY <1>2, <1>9 DEF ReplayInv, RecordedOK, AppsTypeOK
<1>11. RecorderClean' => RecorderClean
  BY <1>3, <1>5, <1>6 DEF RecorderClean
<1>12. CASE o.ok /\ app # "merkle"
  <2>1. recorded' = Append(recorded, e)
    BY <1>1, <1>8, <1>12 DEF Record
  <2>2. /\ recorded' \in Seq(X \cup {e}) /\ Len(recorded') = len + 1
        /\ recorded'[len + 1] = e
        /\ \A n \in 1..len : recorded'[n] = recorded[n]
    BY <1>7, <1>9, <2>1
  <2>3. RecordedOK'
    <3>1. pos'[Replayer] <= Len(recorded')
      BY <1>4, <1>9, <1>10, <2>2
    <3> QED
      BY <2>2, <3>1 DEF RecordedOK
  <2>4. ReplayerClean' => ReplayerClean
    <3>1. \A i \in failed[Replayer] : i \in 1..len
      BY <1>9, <1>10
    <3> QED
      BY <1>3, <1>4, <2>2, <3>1 DEF ReplayerClean
  <2>5. ASSUME app \in Traceless, NEW R, TraceOf(R) PROVE \E S : TraceOf(S)'
    <3>1. PICK new : new = <<o.state, o.root>>
      OBVIOUS
    <3>2. PICK S : S = [n \in Nat |-> IF n = len + 1 THEN new ELSE R[n]]
      OBVIOUS
    <3>3. S[len + 1] = new /\ \A n \in 0..len : S[n] = R[n]
      BY <1>9, <3>2
    <3>4. Step(app, S[len], S[len + 1], c, TRUE)
      <4>1. S[len] = <<machine[Recorder], root[Recorder]>>
        BY <1>9, <2>5, <3>3 DEF TraceOf
      <4>2. /\ Kept(app, machine[Recorder]) = machine[Recorder]
            /\ Kept(app, o.state) = o.state
        BY <2>5, TracelessKept
      <4>3. o.ok = TRUE
        BY <1>3, <1>12, <2>5, TracelessKept, OkBoolean
      <4> QED
        BY <1>3, <3>1, <3>3, <4>1, <4>2, <4>3 DEF Step
    <3>5. ASSUME NEW n \in 1..(len + 1)
          PROVE  /\ Step(app, S[n - 1], S[n], recorded'[n].payload, TRUE)
                 /\ S[n][2] = recorded'[n].stateRoot
      <4>1. CASE n = len + 1
        <5>1. n - 1 = len
          BY <1>9, <4>1
        <5>2. recorded'[n].payload = c /\ recorded'[n].stateRoot = o.root
          BY <1>8, <2>2, <4>1
        <5>3. S[n][2] = o.root
          BY <3>1, <3>3, <4>1
        <5> QED
          BY <3>4, <4>1, <5>1, <5>2, <5>3
      <4>2. CASE n # len + 1
        <5>1. n \in 1..len /\ n \in 0..len /\ n - 1 \in 0..len
          BY <1>9, <4>2
        <5>2. S[n] = R[n] /\ S[n - 1] = R[n - 1] /\ recorded'[n] = recorded[n]
          BY <2>2, <3>3, <5>1
        <5> QED
          BY <1>9, <2>5, <5>1, <5>2 DEF TraceOf
      <4> QED
        BY <4>1, <4>2
    <3>6. S[pos[Replayer]] = R[pos[Replayer]]
      BY <1>9, <1>10, <3>3
    <3>7. TraceOf(S)'
      BY <1>1, <1>3, <1>4, <2>2, <2>4, <2>5, <3>1, <3>3, <3>5, <3>6 DEF TraceOf
    <3> QED
      BY <3>7
  <2> QED
    BY <1>3, <1>11, <2>3, <2>5 DEF ReplayInv
<1>13. CASE ~(o.ok /\ app # "merkle")
  <2>1. recorded' = recorded
    BY <1>1, <1>13 DEF Record
  <2>2. RecordedOK'
    BY <1>4, <2>1 DEF ReplayInv, RecordedOK
  <2>3. ASSUME app \in Traceless, RecorderClean', NEW R, TraceOf(R) PROVE TraceOf(R)'
    <3>1. ~o.ok
      BY <1>13, <2>3 DEF Traceless
    <3>2. app = "kv" => c.op = "OTHER"
      BY <1>1, <1>3, <1>6, <2>3, <3>1 DEF RecorderClean
    <3>3. o.state = machine[Recorder] /\ o.root = root[Recorder]
      BY <1>3, <2>3, <3>1, <3>2, RefusedNoTrace
    <3>4. ReplayerClean' => ReplayerClean
      BY <1>3, <1>4, <2>1 DEF ReplayerClean
    <3> QED
      BY <1>1, <1>3, <1>4, <2>1, <2>3, <3>3, <3>4 DEF TraceOf
  <2> QED
    BY <1>3, <1>11, <2>2, <2>3 DEF ReplayInv
<1> QED
  BY <1>12, <1>13

\* The replayer applies the next recorded command.
LEMMA TraceReplay ==
    ASSUME ReplayInv, AppsTypeOK', ReplayStep
    PROVE  ReplayInv'
<1>1. PICK q : q = pos[Replayer] + 1
  OBVIOUS
<1>2. PICK e, o : /\ e = recorded[q] /\ Take(Replayer, e.payload, o)
                  /\ verdict' = Verdict(e, o) /\ recorded' = recorded
                  /\ pos[Replayer] < Len(recorded) /\ verdict = "running"
  BY <1>1 DEF ReplayStep
<1>3. /\ AppsTypeOK /\ Recorder \in Replica /\ Replayer \in Replica
      /\ Recorder # Replayer
  BY ReplicaAssumption DEF ReplayInv, Replica
<1>4. /\ machine'[Replayer] = o.state /\ root'[Replayer] = o.root
      /\ pos'[Replayer] = q /\ app' = app /\ log' = log
      /\ o \in ApplyOutcomes(app, machine[Replayer], root[Replayer], e.payload, now)
  BY <1>1, <1>2, <1>3, TakeEffect
<1>5. /\ machine'[Recorder] = machine[Recorder] /\ root'[Recorder] = root[Recorder]
      /\ failed'[Recorder] = failed[Recorder]
  BY <1>2, <1>3, TakeEffect
<1>6. o.ok => failed'[Replayer] = failed[Replayer]
  BY <1>2, <1>3, TakeEffect
<1>7. ~o.ok => failed'[Replayer] = failed[Replayer] \cup {q}
  BY <1>1, <1>2, <1>3, TakeEffect
<1>8. /\ Len(recorded) \in Nat /\ pos[Replayer] \in Nat /\ q \in 1..Len(recorded)
      /\ q - 1 = pos[Replayer]
  <2>1. Len(recorded) \in Nat /\ pos[Replayer] \in Nat
    BY <1>3 DEF ReplayInv, RecordedOK, AppsTypeOK
  <2> QED
    BY <1>1, <1>2, <2>1
<1>9. RecordedOK'
  <2>1. pos'[Replayer] <= Len(recorded')
    BY <1>2, <1>4, <1>8
  <2> QED
    BY <1>2, <2>1 DEF ReplayInv, RecordedOK
<1>10. RecorderClean' => RecorderClean
  BY <1>4, <1>5 DEF RecorderClean
<1>11. ASSUME app \in Traceless, NEW R, TraceOf(R) PROVE TraceOf(R)'
  <2>1. ASSUME ReplayerClean'
        PROVE  verdict' = "running" /\ R[q] = <<o.state, o.root>>
    <3>1. ReplayerClean
      BY <1>2, <1>4, <1>6, <1>7, <2>1 DEF ReplayerClean
    <3>2. R[q - 1] = <<machine[Replayer], root[Replayer]>>
      BY <1>8, <1>11, <3>1 DEF TraceOf
    <3>3. /\ Step(app, R[q - 1], R[q], e.payload, TRUE)
          /\ R[q][2] = e.stateRoot
      BY <1>2, <1>8, <1>11 DEF TraceOf
    <3>4. /\ o.ok \in BOOLEAN
          /\ o.ok => R[q] = <<o.state, o.root>>
          /\ ~o.ok => app = "kv" /\ e.payload.op # "OTHER"
      <4>1. PICK s, h, c : s = machine[Replayer] /\ h = root[Replayer] /\ c = e.payload
        OBVIOUS
      <4>2. Step(app, <<s, h>>, R[q], c, TRUE)
        BY <3>2, <3>3, <4>1
      <4>3. o \in ApplyOutcomes(app, s, h, c, now)
        BY <1>4, <4>1
      <4>4. /\ o.ok \in BOOLEAN
            /\ o.ok => R[q] = <<o.state, o.root>>
            /\ ~o.ok => app = "kv" /\ c.op # "OTHER"
        BY <1>11, <4>2, <4>3, AppliedAgain
      <4> QED
        BY <4>1, <4>4
    <3>5. o.ok
      <4>1. SUFFICES ASSUME ~o.ok PROVE FALSE
        OBVIOUS
      <4>2. q \in failed'[Replayer]
        BY <1>7, <4>1
      <4>3. e.payload.op = "OTHER"
        BY <1>2, <1>4, <2>1, <3>4, <4>1, <4>2 DEF ReplayerClean
      <4> QED
        BY <3>4, <4>1, <4>3
    <3>6. o.root = e.stateRoot
      BY <3>3, <3>4, <3>5
    <3>7. Verdict(e, o) = "running"
      BY <3>5, <3>6 DEF Verdict
    <3> QED
      BY <1>2, <3>4, <3>5, <3>7
  <2> QED
    BY <1>2, <1>4, <1>5, <1>11, <2>1 DEF TraceOf
<1> QED
  BY <1>4, <1>9, <1>10, <1>11 DEF ReplayInv

\* The invariant of replay is inductive.
LEMMA ReplayInvStep ==
    ASSUME ReplayInv, [Next]_vars
    PROVE  ReplayInv'
<1>1. AppsTypeOK /\ AppsTypeOK' /\ Recorder \in Live /\ Replayer \notin Live
      /\ Recorder \in Replica /\ Replayer \in Replica /\ Live \subseteq Replica
  BY AppsStepType, ReplicaAssumption DEF ReplayInv, Replica
<1>2. ASSUME NEW c \in Commands[app], Commit(c) PROVE ReplayInv'
  <2>1. /\ \A i \in 1..Len(log) : log'[i] = log[i]
        /\ UNCHANGED <<app, pos, machine, root, failed, recorded, verdict>>
    BY <1>1, <1>2, CommitEffect
  <2> QED
    BY <1>1, <2>1, TraceSame
<1>3. CASE Tick \/ UNCHANGED vars
  <2>1. UNCHANGED <<app, log, pos, machine, root, failed, recorded, verdict>>
    BY <1>3 DEF Tick, vars
  <2> QED
    BY <1>1, <2>1, TraceSame
<1>4. ASSUME NEW r \in Live, Apply(r) PROVE ReplayInv'
  <2>1. CASE r = Recorder
    BY <1>1, <1>4, <2>1, TraceRecord
  <2>2. CASE r # Recorder
    <3>1. PICK c, o : Take(r, c, o) /\ Record(r, c, o) /\ verdict' = verdict
      BY <1>4 DEF Apply
    <3>2. recorded' = recorded
      BY <2>2, <3>1 DEF Record
    <3>3. /\ \A s \in Replica : s # r =>
               /\ machine'[s] = machine[s] /\ root'[s] = root[s]
               /\ pos'[s] = pos[s] /\ failed'[s] = failed[s]
          /\ UNCHANGED <<app, log>>
      BY <1>1, <3>1, TakeEffect
    <3>4. \A s \in {Recorder, Replayer} : s \in Replica /\ s # r
      BY <1>1, <2>2
    <3> QED
      BY <1>1, <3>1, <3>2, <3>3, <3>4, TraceSame
  <2> QED
    BY <2>1, <2>2
<1>5. CASE ReplayStep
  BY <1>1, <1>5, TraceReplay
<1> QED
  BY <1>2, <1>3, <1>4, <1>5 DEF Next

\* Recorder and replayer start alike, with nothing recorded.
LEMMA ReplayInit == Init => ReplayInv
<1> SUFFICES ASSUME Init PROVE ReplayInv
  OBVIOUS
<1>1. /\ recorded = <<>> /\ verdict = "running"
      /\ pos[Replayer] = 0
      /\ machine[Recorder] = machine[Replayer] /\ root[Recorder] = root[Replayer]
  BY ReplicaAssumption DEF Init, Replica
<1>2. recorded \in Seq({}) /\ Len(recorded) = 0
  BY <1>1
<1>3. RecordedOK
  BY <1>1, <1>2 DEF RecordedOK
<1>4. PICK R : R = [n \in Nat |-> <<machine[Recorder], root[Recorder]>>]
  OBVIOUS
<1>5. R[0] = <<machine[Recorder], root[Recorder]>> /\ \A n \in 1..0 : FALSE
  BY <1>4
<1>6. TraceOf(R)
  BY <1>1, <1>2, <1>5 DEF TraceOf
<1> QED
  BY <1>3, <1>6, AppsInitType DEF ReplayInv

\* Replaying what was recorded reproduces it, for the applications whose refused
\* commands leave no trace, as long as no storage failed.
THEOREM ReplayIsFaithful == Spec => []ReplayReproduces
<1>1. ReplayInv => ReplayReproduces
  <2> SUFFICES ASSUME ReplayInv, app \in Traceless, RecorderClean,
                      \A i \in failed[Replayer] : app = "kv" =>
                         [j \in 1..Len(recorded) |-> recorded[j].payload][i].op = "OTHER"
               PROVE  verdict = "running"
    BY DEF ReplayReproduces, Traceless, RecorderClean
  <2>1. PICK R : TraceOf(R)
    BY DEF ReplayInv
  <2>2. /\ pos[Replayer] \in Nat /\ Len(recorded) \in Nat
        /\ pos[Replayer] <= Len(recorded) /\ failed[Replayer] \subseteq 1..pos[Replayer]
    BY DEF ReplayInv, RecordedOK, AppsTypeOK, Replica
  <2>3. \A i \in failed[Replayer] : i \in 1..Len(recorded)
    BY <2>2
  <2>4. ReplayerClean
    BY <2>3 DEF ReplayerClean
  <2> QED
    BY <2>1, <2>4 DEF TraceOf
<1>2. ReplayInv /\ [Next]_vars => ReplayInv'
  BY ReplayInvStep
<1> QED
  BY <1>1, <1>2, ReplayInit, PTL DEF Spec

-----------------------------------------------------------------------------
(* Queues.  The length of a queue and the surplus of enqueues of every     *)
(* suffix move together, one command at a time.                            *)

Hits(l, m, n, t, a) == {i \in (m+1)..n : l[i].action = a /\ l[i].topic = t}
Hit(c, t, a)        == c.action = a /\ c.topic = t

\* Nothing is counted in no commands.
LEMMA CountNone ==
    ASSUME NEW l, NEW n \in Nat, NEW t, NEW a PROVE Count(l, n, n, t, a) = 0
<1>1. Hits(l, n, n, t, a) = {}
  BY DEF Hits
<1> QED
  BY <1>1, FS_EmptySet DEF Count, Hits

\* Counts are numbers, and one more command counts or does not.
LEMMA CountStep ==
    ASSUME NEW l, NEW n \in Nat, NEW m \in 0..n, NEW t, NEW a
    PROVE  /\ Count(l, m, n, t, a) \in Nat
           /\ Hit(l[n + 1], t, a) => Count(l, m, n + 1, t, a) = Count(l, m, n, t, a) + 1
           /\ ~Hit(l[n + 1], t, a) => Count(l, m, n + 1, t, a) = Count(l, m, n, t, a)
<1>1. PICK H, G : H = Hits(l, m, n, t, a) /\ G = Hits(l, m, n + 1, t, a)
  OBVIOUS
<1>2. Count(l, m, n, t, a) = Cardinality(H) /\ Count(l, m, n + 1, t, a) = Cardinality(G)
  BY <1>1 DEF Count, Hits
<1>3. IsFiniteSet(H) /\ Cardinality(H) \in Nat
  <2>1. IsFiniteSet((m+1)..n)
    BY FS_Interval
  <2>2. H \subseteq (m+1)..n
    BY <1>1 DEF Hits
  <2>3. IsFiniteSet(H)
    BY <2>1, <2>2, FS_Subset
  <2> QED
    BY <2>3, FS_CardinalityType
<1>4. n + 1 \notin H
  BY <1>1 DEF Hits
<1>5. ASSUME Hit(l[n + 1], t, a) PROVE G = H \cup {n + 1}
  BY <1>1, <1>5 DEF Hits, Hit
<1>6. ASSUME ~Hit(l[n + 1], t, a) PROVE G = H
  BY <1>1, <1>6 DEF Hits, Hit
<1>7. Cardinality(H \cup {n + 1}) = Cardinality(H) + 1
  BY <1>3, <1>4, FS_AddElement
<1> QED
  BY <1>2, <1>3, <1>5, <1>6, <1>7

\* Counts are about the commands counted.
LEMMA CountSame ==
    ASSUME NEW l, NEW k, NEW n \in Nat, NEW m \in 0..n, NEW t, NEW a,
           \A i \in 1..n : k[i] = l[i]
    PROVE  Count(k, m, n, t, a) = Count(l, m, n, t, a)
<1>1. {i \in (m+1)..n : k[i].action = a /\ k[i].topic = t}
        = {i \in (m+1)..n : l[i].action = a /\ l[i].topic = t}
  <2>1. \A i \in (m+1)..n : i \in 1..n
    OBVIOUS
  <2> QED
    BY <2>1
<1> QED
  BY <1>1 DEF Count

\* A queue that has seen nothing is empty.
LEMMA NewestEmpty ==
    ASSUME NEW l, NEW t PROVE NewestInOrder(l, 0, t, <<>>)
<1>1. Count(l, 0, 0, t, "ENQUEUE") = 0 /\ Count(l, 0, 0, t, "DEQUEUE") = 0
  BY CountNone
<1>2. \A i \in 0..0 : i = 0
  OBVIOUS
<1> QED
  BY <1>1, <1>2 DEF NewestInOrder

\* The commands after the first n do not matter.
LEMMA NewestSame ==
    ASSUME NEW l, NEW k, NEW n \in Nat, NEW t, NEW q,
           \A i \in 1..n : k[i] = l[i], NewestInOrder(l, n, t, q)
    PROVE  NewestInOrder(k, n, t, q)
<1>1. \A i \in 0..n : /\ Count(k, i, n, t, "ENQUEUE") = Count(l, i, n, t, "ENQUEUE")
                      /\ Count(k, i, n, t, "DEQUEUE") = Count(l, i, n, t, "DEQUEUE")
  BY CountSame
<1>2. \A i \in 1..n : i \in 0..n
  OBVIOUS
<1> QED
  BY <1>1, <1>2 DEF NewestInOrder

\* E and D count the enqueues and dequeues after each of the first n commands,
\* F and C after each of the first n + 1.
Counting(E, D, F, C, l, n, t) ==
    /\ \A i \in 0..n : /\ E[i] = Count(l, i, n, t, "ENQUEUE") /\ E[i] \in Nat
                       /\ D[i] = Count(l, i, n, t, "DEQUEUE") /\ D[i] \in Nat
    /\ \A i \in 0..(n + 1) : /\ F[i] = Count(l, i, n + 1, t, "ENQUEUE")
                             /\ C[i] = Count(l, i, n + 1, t, "DEQUEUE")
    /\ F[n + 1] = 0 /\ C[n + 1] = 0
    /\ \A i \in 0..n : /\ F[i] = IF Hit(l[n + 1], t, "ENQUEUE") THEN E[i] + 1 ELSE E[i]
                       /\ C[i] = IF Hit(l[n + 1], t, "DEQUEUE") THEN D[i] + 1 ELSE D[i]

LEMMA CountsStep ==
    ASSUME NEW l, NEW n \in Nat, NEW t
    PROVE  \E E, D, F, C : Counting(E, D, F, C, l, n, t)
<1>1. PICK E, D, F, C :
        /\ E = [i \in 0..n |-> Count(l, i, n, t, "ENQUEUE")]
        /\ D = [i \in 0..n |-> Count(l, i, n, t, "DEQUEUE")]
        /\ F = [i \in 0..(n + 1) |-> Count(l, i, n + 1, t, "ENQUEUE")]
        /\ C = [i \in 0..(n + 1) |-> Count(l, i, n + 1, t, "DEQUEUE")]
  OBVIOUS
<1>2. n + 1 \in Nat /\ n + 1 \in 0..(n + 1) /\ \A i \in 0..n : i \in 0..(n + 1)
  OBVIOUS
<1>3. /\ Count(l, n + 1, n + 1, t, "ENQUEUE") = 0
      /\ Count(l, n + 1, n + 1, t, "DEQUEUE") = 0
  BY <1>2, CountNone
<1>4. ASSUME NEW i \in 0..n
      PROVE  /\ E[i] = Count(l, i, n, t, "ENQUEUE") /\ E[i] \in Nat
             /\ D[i] = Count(l, i, n, t, "DEQUEUE") /\ D[i] \in Nat
             /\ F[i] = IF Hit(l[n + 1], t, "ENQUEUE") THEN E[i] + 1 ELSE E[i]
             /\ C[i] = IF Hit(l[n + 1], t, "DEQUEUE") THEN D[i] + 1 ELSE D[i]
  <2>1. /\ Count(l, i, n, t, "ENQUEUE") \in Nat
        /\ Hit(l[n + 1], t, "ENQUEUE") =>
             Count(l, i, n + 1, t, "ENQUEUE") = Count(l, i, n, t, "ENQUEUE") + 1
        /\ ~Hit(l[n + 1], t, "ENQUEUE") =>
             Count(l, i, n + 1, t, "ENQUEUE") = Count(l, i, n, t, "ENQUEUE")
    BY CountStep, ZenonT(40)
  <2>2. /\ Count(l, i, n, t, "DEQUEUE") \in Nat
        /\ Hit(l[n + 1], t, "DEQUEUE") =>
             Count(l, i, n + 1, t, "DEQUEUE") = Count(l, i, n, t, "DEQUEUE") + 1
        /\ ~Hit(l[n + 1], t, "DEQUEUE") =>
             Count(l, i, n + 1, t, "DEQUEUE") = Count(l, i, n, t, "DEQUEUE")
    BY CountStep
  <2> QED
    BY <1>1, <1>2, <2>1, <2>2
<1>5. Counting(E, D, F, C, l, n, t)
  BY <1>1, <1>2, <1>3, <1>4 DEF Counting
<1> QED
  BY <1>5, Zenon

\* NewestInOrder, given the counts.
Fits(E, D, n, l, t, q) ==
    /\ \E i \in 0..n : E[i] - D[i] = Len(q)
    /\ \A i \in 0..n : E[i] - D[i] <= Len(q)
    /\ \A i \in 1..n :
          Hit(l[i], t, "ENQUEUE") /\ E[i] < Len(q) => q[Len(q) - E[i]] = l[i].data

LEMMA FitsIsNewest ==
    ASSUME NEW l, NEW n \in Nat, NEW t, NEW q, NEW E, NEW D,
           \A i \in 0..n : /\ E[i] = Count(l, i, n, t, "ENQUEUE")
                           /\ D[i] = Count(l, i, n, t, "DEQUEUE")
    PROVE  NewestInOrder(l, n, t, q) <=> Fits(E, D, n, l, t, q)
<1>1. \A i \in 1..n : i \in 0..n
  OBVIOUS
<1> QED
  BY <1>1 DEF NewestInOrder, Fits, Hit

\* A place counted from the end, when the end moves.
LEMMA Shifted ==
    \A x, e \in Nat : e < x => (x + 1) - (e + 1) = x - e /\ x - e \in 1..x
OBVIOUS

\* What one command does to a queue that is as it must be.
LEMMA NewestStep ==
    ASSUME NEW l, NEW n \in Nat, NEW t, NEW V, NEW q \in Seq(V), NEW p,
           NewestInOrder(l, n, t, q),
           \/ Hit(l[n + 1], t, "ENQUEUE") /\ l[n + 1].data \in V
                /\ p = Append(q, l[n + 1].data)
           \/ Hit(l[n + 1], t, "DEQUEUE") /\ q # <<>> /\ p = Tail(q)
           \/ Hit(l[n + 1], t, "DEQUEUE") /\ q = <<>> /\ p = q
           \/ ~Hit(l[n + 1], t, "ENQUEUE") /\ ~Hit(l[n + 1], t, "DEQUEUE") /\ p = q
    PROVE  NewestInOrder(l, n + 1, t, p)
<1>0. PICK E, D, F, C : Counting(E, D, F, C, l, n, t)
  BY CountsStep, Zenon
<1>1. /\ \A i \in 0..n : /\ E[i] = Count(l, i, n, t, "ENQUEUE") /\ E[i] \in Nat
                         /\ D[i] = Count(l, i, n, t, "DEQUEUE") /\ D[i] \in Nat
      /\ \A i \in 0..(n + 1) : /\ F[i] = Count(l, i, n + 1, t, "ENQUEUE")
                               /\ C[i] = Count(l, i, n + 1, t, "DEQUEUE")
      /\ F[n + 1] = 0 /\ C[n + 1] = 0
      /\ \A i \in 0..n : /\ F[i] = IF Hit(l[n + 1], t, "ENQUEUE") THEN E[i] + 1 ELSE E[i]
                         /\ C[i] = IF Hit(l[n + 1], t, "DEQUEUE") THEN D[i] + 1 ELSE D[i]
  BY <1>0 DEF Counting
<1>2. Fits(E, D, n, l, t, q)
  BY <1>1, FitsIsNewest
<1>3. SUFFICES Fits(F, C, n + 1, l, t, p)
  <2>1. n + 1 \in Nat
    OBVIOUS
  <2> QED
    BY <1>1, <2>1, FitsIsNewest
<1>4. PICK x \in Nat : x = Len(q)
  BY LenProperties
<1>5. /\ \A i \in 0..(n + 1) : i \in 0..n \/ i = n + 1
      /\ \A i \in 1..(n + 1) : (i \in 1..n /\ i \in 0..n) \/ i = n + 1
      /\ n + 1 \in 0..(n + 1) /\ \A i \in 0..n : i \in 0..(n + 1)
  OBVIOUS
<1>6. PICK j \in 0..n : E[j] - D[j] = x
  BY <1>2, <1>4 DEF Fits
<1>7. \A i \in 0..n : E[i] - D[i] <= x
  BY <1>2, <1>4 DEF Fits
<1>8. \A i \in 1..n : Hit(l[i], t, "ENQUEUE") /\ E[i] < x => q[x - E[i]] = l[i].data
  BY <1>2, <1>4 DEF Fits
<1>9. ~(Hit(l[n + 1], t, "ENQUEUE") /\ Hit(l[n + 1], t, "DEQUEUE"))
  BY DEF Hit
<1>10. CASE Hit(l[n + 1], t, "ENQUEUE") /\ l[n + 1].data \in V
              /\ p = Append(q, l[n + 1].data)
  <2>1. /\ Len(p) = x + 1 /\ p[x + 1] = l[n + 1].data
        /\ \A i \in 1..x : p[i] = q[i]
    BY <1>4, <1>10, AppendProperties
  <2>2. \A i \in 0..n : F[i] = E[i] + 1 /\ C[i] = D[i]
    BY <1>1, <1>9, <1>10
  <2>3. F[j] - C[j] = x + 1
    BY <1>1, <1>6, <2>2
  <2>4. ASSUME NEW i \in 0..(n + 1) PROVE F[i] - C[i] <= x + 1
    <3>1. CASE i = n + 1
      BY <1>1, <1>4, <2>1, <3>1
    <3>2. CASE i \in 0..n
      <4>1. PICK e, d \in Nat : e = E[i] /\ d = D[i]
        BY <1>1, <3>2
      <4>2. e - d <= x /\ F[i] = e + 1 /\ C[i] = d
        BY <1>7, <2>2, <3>2, <4>1
      <4> QED
        BY <1>4, <2>1, <4>2
    <3> QED
      BY <1>5, <3>1, <3>2
  <2>5. ASSUME NEW i \in 1..(n + 1), Hit(l[i], t, "ENQUEUE"), F[i] < x + 1
        PROVE  p[(x + 1) - F[i]] = l[i].data
    <3>1. CASE i = n + 1
      BY <1>1, <2>1, <3>1
    <3>2. CASE i \in 1..n /\ i \in 0..n
      <4>1. E[i] \in Nat /\ F[i] = E[i] + 1 /\ E[i] < x
        BY <1>1, <2>2, <2>5, <3>2
      <4>2. q[x - E[i]] = l[i].data
        BY <1>8, <2>5, <3>2, <4>1
      <4>3. (x + 1) - F[i] = x - E[i] /\ x - E[i] \in 1..x
        <5>1. PICK e \in Nat : e = E[i] /\ F[i] = e + 1 /\ e < x
          BY <4>1
        <5>2. (x + 1) - (e + 1) = x - e /\ x - e \in 1..x
          BY <5>1, Shifted
        <5> QED
          BY <5>1, <5>2
      <4> QED
        BY <2>1, <4>2, <4>3
    <3> QED
      BY <1>5, <3>1, <3>2
  <2> QED
    BY <1>5, <2>1, <2>3, <2>4, <2>5 DEF Fits
<1>11. CASE Hit(l[n + 1], t, "DEQUEUE") /\ q # <<>> /\ p = Tail(q)
  <2>1. /\ x # 0 /\ Len(p) = x - 1 /\ \A i \in 1..(x - 1) : p[i] = q[i + 1]
    BY <1>4, <1>11, HeadTailProperties, EmptySeq
  <2>2. \A i \in 0..n : F[i] = E[i] /\ C[i] = D[i] + 1
    BY <1>1, <1>9, <1>11
  <2>3. F[j] - C[j] = x - 1
    BY <1>1, <1>6, <2>2
  <2>4. ASSUME NEW i \in 0..(n + 1) PROVE F[i] - C[i] <= x - 1
    <3>1. CASE i = n + 1
      BY <1>1, <1>4, <2>1, <3>1
    <3>2. CASE i \in 0..n
      <4>1. PICK e, d \in Nat : e = E[i] /\ d = D[i]
        BY <1>1, <3>2
      <4>2. e - d <= x /\ F[i] = e /\ C[i] = d + 1
        BY <1>7, <2>2, <3>2, <4>1
      <4> QED
        BY <1>4, <2>1, <4>2
    <3> QED
      BY <1>5, <3>1, <3>2
  <2>5. ASSUME NEW i \in 1..(n + 1), Hit(l[i], t, "ENQUEUE"), F[i] < x - 1
        PROVE  p[(x - 1) - F[i]] = l[i].data
    <3>1. i \in 1..n /\ i \in 0..n
      BY <1>5, <1>9, <1>11, <2>5
    <3>2. E[i] \in Nat /\ F[i] = E[i] /\ E[i] < x
      BY <1>1, <2>2, <2>5, <3>1
    <3>3. q[x - E[i]] = l[i].data
      BY <1>8, <2>5, <3>1, <3>2
    <3>4. (x - 1) - F[i] \in 1..(x - 1) /\ ((x - 1) - F[i]) + 1 = x - E[i]
      BY <2>5, <3>2, SMTT(40)
    <3> QED
      BY <2>1, <3>3, <3>4
  <2> QED
    BY <1>5, <2>1, <2>3, <2>4, <2>5 DEF Fits
<1>12. CASE Hit(l[n + 1], t, "DEQUEUE") /\ q = <<>> /\ p = q
  <2>1. x = 0 /\ Len(p) = 0
    BY <1>4, <1>12
  <2>2. \A i \in 0..n : C[i] = D[i] + 1 /\ F[i] = E[i]
    BY <1>1, <1>9, <1>12
  <2>3. F[n + 1] - C[n + 1] = 0
    BY <1>1
  <2>4. ASSUME NEW i \in 0..(n + 1) PROVE F[i] - C[i] <= 0
    <3>1. CASE i = n + 1
      BY <1>1, <1>4, <2>1, <3>1
    <3>2. CASE i \in 0..n
      <4>1. PICK e, d \in Nat : e = E[i] /\ d = D[i]
        BY <1>1, <3>2
      <4>2. e - d <= x /\ F[i] = e /\ C[i] = d + 1
        BY <1>7, <2>2, <3>2, <4>1
      <4> QED
        BY <1>4, <2>1, <4>2
    <3> QED
      BY <1>5, <3>1, <3>2
  <2>5. ASSUME NEW i \in 1..(n + 1) PROVE ~(F[i] < 0)
    BY <1>1, <1>5, <2>2, SMTT(40)
  <2> QED
    BY <1>5, <2>1, <2>3, <2>4, <2>5 DEF Fits
<1>13. CASE ~Hit(l[n + 1], t, "ENQUEUE") /\ ~Hit(l[n + 1], t, "DEQUEUE") /\ p = q
  <2>2. \A i \in 0..n : C[i] = D[i] /\ F[i] = E[i]
    BY <1>1, <1>13
  <2>3. F[j] - C[j] = x
    BY <1>6, <2>2
  <2>4. ASSUME NEW i \in 0..(n + 1) PROVE F[i] - C[i] <= x
    BY <1>1, <1>5, <1>7, <2>2
  <2>5. ASSUME NEW i \in 1..(n + 1), Hit(l[i], t, "ENQUEUE"), F[i] < x
        PROVE  p[x - F[i]] = l[i].data
    <3>1. i \in 1..n /\ i \in 0..n
      BY <1>5, <1>13, <2>5
    <3> QED
      BY <1>8, <1>13, <2>2, <2>5, <3>1
  <2> QED
    BY <1>4, <1>5, <1>13, <2>3, <2>4, <2>5 DEF Fits
<1> QED
  BY <1>10, <1>11, <1>12, <1>13

\* dist-queue: what a command does to topic t.
LEMMA QueueOutcome ==
    ASSUME NEW s, NEW h, NEW c \in QueuePayload, NEW t, NEW o \in QueueApply(s, h, c)
    PROVE  \/ Hit(c, t, "ENQUEUE") /\ c.data \in Value
                /\ Topic(o.state, t) = Append(Topic(s, t), c.data)
           \/ Hit(c, t, "DEQUEUE") /\ Topic(s, t) # <<>>
                /\ Topic(o.state, t) = Tail(Topic(s, t))
           \/ Hit(c, t, "DEQUEUE") /\ Topic(s, t) = <<>> /\ Topic(o.state, t) = Topic(s, t)
           \/ ~Hit(c, t, "ENQUEUE") /\ ~Hit(c, t, "DEQUEUE")
                /\ Topic(o.state, t) = Topic(s, t)
<1> DEFINE q    == Topic(s, c.topic)
           next == Put(s, c.topic, IF c.action = "ENQUEUE" THEN Append(q, c.data) ELSE Pop(q))
<1>0. c.action = "ENQUEUE" => c.data \in Value
  BY DEF QueuePayload
<1>1. CASE c.action = "ENQUEUE" \/ (c.action = "DEQUEUE" /\ q # <<>>)
  <2>1. QueueApply(s, h, c) =
          Accepted(next, LAMBDA k : QueueRoot(next, k), SetToSeqs(DOMAIN next))
    BY <1>1 DEF QueueApply, Topic
  <2> HIDE DEF next
  <2>2. o.state = next
    BY <2>1 DEF Accepted
  <2>3. Topic(next, c.topic) = IF c.action = "ENQUEUE" THEN Append(q, c.data) ELSE Tail(q)
    BY DEF next, Put, Topic, Pop
  <2>4. t # c.topic => Topic(next, t) = Topic(s, t)
    BY DEF next, Put, Topic
  <2>5. CASE t # c.topic
    BY <2>2, <2>4, <2>5 DEF Hit
  <2>6. CASE t = c.topic /\ c.action = "ENQUEUE"
    BY <1>0, <2>2, <2>3, <2>6 DEF Hit
  <2>7. CASE t = c.topic /\ c.action = "DEQUEUE" /\ q # <<>>
    BY <2>2, <2>3, <2>7 DEF Hit
  <2> QED
    BY <1>1, <2>5, <2>6, <2>7
<1>2. CASE ~(c.action = "ENQUEUE" \/ (c.action = "DEQUEUE" /\ q # <<>>))
  <2>1. QueueApply(s, h, c) = Refused(s, h)
    BY <1>2 DEF QueueApply, Topic
  <2>2. o.state = s
    BY <2>1 DEF Refused
  <2>3. CASE c.action = "DEQUEUE" /\ t = c.topic
    BY <1>2, <2>2, <2>3 DEF Hit
  <2>4. CASE ~(c.action = "DEQUEUE" /\ t = c.topic)
    BY <1>2, <2>2, <2>4 DEF Hit
  <2> QED
    BY <2>3, <2>4
<1> QED
  BY <1>1, <1>2

QueueFits(r) == \A t \in Name :
    /\ Topic(machine[r], t) \in Seq(Value)
    /\ NewestInOrder(log, pos[r], t, Topic(machine[r], t))

FIFOInv == AppsTypeOK /\ (app = "queue" => \A r \in Live : QueueFits(r))

\* Nothing happens at r, and the commands it has applied stay.
LEMMA QueueSame ==
    ASSUME AppsTypeOK, NEW r \in Live, QueueFits(r),
           machine'[r] = machine[r], pos'[r] = pos[r],
           \A i \in 1..Len(log) : log'[i] = log[i]
    PROVE  QueueFits(r)'
<1>1. pos[r] \in Nat /\ pos[r] <= Len(log) /\ Len(log) \in Nat
  BY LenProperties DEF AppsTypeOK, Replica
<1>2. PICK k, n : k = log' /\ n = pos[r]
  OBVIOUS
<1>3. n \in Nat /\ \A i \in 1..n : k[i] = log[i]
  BY <1>1, <1>2
<1>4. \A t \in Name : NewestInOrder(k, n, t, Topic(machine[r], t))
  BY <1>2, <1>3, NewestSame DEF QueueFits
<1> QED
  BY <1>2, <1>4 DEF QueueFits

\* Replica r applies its next command.
LEMMA QueueApplied ==
    ASSUME AppsTypeOK, app = "queue", NEW r \in Live, QueueFits(r), Apply(r)
    PROVE  QueueFits(r)'
<1>1. PICK c, o : c = log[pos[r] + 1] /\ Take(r, c, o)
  BY DEF Apply
<1>2. r \in Replica /\ pos[r] \in Nat /\ pos[r] < Len(log) /\ Len(log) \in Nat
  BY LenProperties DEF Apply, Replica, AppsTypeOK
<1>3. machine'[r] = o.state /\ pos'[r] = pos[r] + 1 /\ UNCHANGED log
  BY <1>1, <1>2, TakeEffect
<1>4. o \in QueueApply(machine[r], root[r], c)
  BY <1>1 DEF Take, Outcomes, ApplyOutcomes
<1>5. c \in QueuePayload
  <2>1. log \in Seq(Commands[app]) /\ Commands[app] = QueuePayload
    BY DEF AppsTypeOK, Commands
  <2>2. pos[r] + 1 \in 1..Len(log)
    BY <1>2
  <2> QED
    BY <1>1, <2>1, <2>2, ElementOfSeq
<1>6. ASSUME NEW t \in Name
      PROVE  /\ Topic(o.state, t) \in Seq(Value)
             /\ NewestInOrder(log, pos[r] + 1, t, Topic(o.state, t))
  <2>1. PICK n, q, p : n = pos[r] /\ q = Topic(machine[r], t) /\ p = Topic(o.state, t)
    OBVIOUS
  <2>2. n \in Nat /\ q \in Seq(Value) /\ NewestInOrder(log, n, t, q) /\ log[n + 1] = c
    BY <1>1, <1>2, <2>1 DEF QueueFits
  <2>3. \/ Hit(c, t, "ENQUEUE") /\ c.data \in Value /\ p = Append(q, c.data)
        \/ Hit(c, t, "DEQUEUE") /\ q # <<>> /\ p = Tail(q)
        \/ Hit(c, t, "DEQUEUE") /\ q = <<>> /\ p = q
        \/ ~Hit(c, t, "ENQUEUE") /\ ~Hit(c, t, "DEQUEUE") /\ p = q
    BY <1>4, <1>5, <2>1, QueueOutcome
  <2>4. p \in Seq(Value)
    BY <2>2, <2>3, AppendProperties, HeadTailProperties, SMTT(40)
  <2>5. NewestInOrder(log, n + 1, t, p)
    BY <2>2, <2>3, NewestStep
  <2> QED
    BY <2>1, <2>4, <2>5
<1> QED
  BY <1>3, <1>6 DEF QueueFits

\* Every step keeps the queues as they must be.
LEMMA FIFOStep ==
    ASSUME FIFOInv, [Next]_vars
    PROVE  FIFOInv'
<1>1. AppsTypeOK /\ AppsTypeOK'
  BY AppsStepType DEF FIFOInv
<1>2. ASSUME NEW c \in Commands[app], Commit(c) PROVE FIFOInv'
  <2>1. /\ \A i \in 1..Len(log) : log'[i] = log[i]
        /\ UNCHANGED <<app, pos, machine>>
    BY <1>1, <1>2, CommitEffect
  <2> QED
    BY <1>1, <2>1, QueueSame DEF FIFOInv
<1>3. CASE Tick \/ UNCHANGED vars
  <2>1. UNCHANGED <<app, log, pos, machine>>
    BY <1>3 DEF Tick, vars
  <2> QED
    BY <1>1, <2>1, QueueSame DEF FIFOInv
<1>4. ASSUME NEW u \in Live, Apply(u) PROVE FIFOInv'
  <2>1. PICK c, o : Take(u, c, o)
    BY <1>4 DEF Apply
  <2>2. Live \subseteq Replica
    BY DEF Replica
  <2>3. /\ \A s \in Replica : s # u => machine'[s] = machine[s] /\ pos'[s] = pos[s]
        /\ UNCHANGED <<app, log>>
    BY <1>1, <2>1, <2>2, TakeEffect
  <2>4. ASSUME app = "queue", NEW r \in Live PROVE QueueFits(r)'
    <3>1. QueueFits(r)
      BY <2>4 DEF FIFOInv
    <3>2. CASE r = u
      BY <1>1, <1>4, <2>4, <3>1, <3>2, QueueApplied
    <3>3. CASE r # u
      BY <1>1, <2>2, <2>3, <3>1, <3>3, QueueSame
    <3> QED
      BY <3>2, <3>3
  <2> QED
    BY <1>1, <2>3, <2>4 DEF FIFOInv
<1>5. CASE ReplayStep
  <2>1. PICK c, o : Take(Replayer, c, o)
    BY <1>5 DEF ReplayStep
  <2>2. Replayer \in Replica /\ \A s \in Live : s # Replayer /\ s \in Replica
    BY ReplicaAssumption DEF Replica
  <2>3. /\ \A s \in Replica : s # Replayer => machine'[s] = machine[s] /\ pos'[s] = pos[s]
        /\ UNCHANGED <<app, log>>
    BY <1>1, <2>1, <2>2, TakeEffect
  <2> QED
    BY <1>1, <2>2, <2>3, QueueSame DEF FIFOInv
<1> QED
  BY <1>2, <1>3, <1>4, <1>5 DEF Next

\* Every topic of dist-queue holds the newest items enqueued, in order, and as
\* many as the enqueues and dequeues so far leave, at every replica and after
\* any log.
THEOREM QueuesAreFIFO == Spec => []QueueIsFIFO
<1>1. Init => FIFOInv
  <2> SUFFICES ASSUME Init PROVE FIFOInv
    OBVIOUS
  <2>1. ASSUME app = "queue", NEW r \in Live PROVE QueueFits(r)
    <3>1. machine[r] = <<>> /\ pos[r] = 0
      BY <2>1 DEF Init, EmptyState, Replica
    <3>2. \A t \in Name : Topic(<<>>, t) = <<>>
      BY DEF Topic
    <3> QED
      BY <3>1, <3>2, NewestEmpty, EmptySeq DEF QueueFits
  <2> QED
    BY <2>1, AppsInitType DEF FIFOInv
<1>2. FIFOInv => QueueIsFIFO
  BY DEF FIFOInv, QueueFits, QueueIsFIFO
<1>3. FIFOInv /\ [Next]_vars => FIFOInv'
  BY FIFOStep
<1> QED
  BY <1>1, <1>2, <1>3, PTL DEF Spec

-----------------------------------------------------------------------------
(* MerkleState.  A recursive function is an arbitrary solution of its      *)
(* equation, if there is one: that the levels of the tree exist at every   *)
(* depth is shown by looking at the least depth at which they would not.   *)

\* A set of numbers that is not empty has a least one.
LEMMA LeastNumber ==
    ASSUME NEW T, T \subseteq Nat, T # {}
    PROVE  \E n \in T : \A m \in T : n <= m
<1>1. PICK n \in T : \A m \in T : <<m, n>> \notin OpToRel(<, Nat)
  BY WFMin, NatLessThanWellFounded, Zenon
<1>2. \A m \in T : <<m, n>> \in Nat \X Nat => ~(m < n)
  BY <1>1, Zenon DEF OpToRel
<1>3. \A m \in T : n <= m
  <2> SUFFICES ASSUME NEW m \in T PROVE n <= m
    OBVIOUS
  <2>1. m \in Nat /\ n \in Nat
    OBVIOUS
  <2>2. ~(m < n)
    BY <1>2, <2>1
  <2> QED
    BY <2>1, <2>2
<1> QED
  BY <1>3

\* One call of computeMerkleRoot.
NextLevel(l) == IF Len(l) <= 1 THEN l ELSE MerkleLevel(l)

\* g holds the levels up to the n-th.
LevelsUpTo(h, g, n) ==
    g = [i \in 0..n |-> IF i = 0 THEN h ELSE NextLevel(g[i - 1])]

\* The first levels are determined.
LEMMA LevelsUnique ==
    ASSUME NEW h, NEW m \in Nat, NEW n \in Nat, NEW f, NEW g,
           LevelsUpTo(h, f, m), LevelsUpTo(h, g, n), NEW i \in 0..m, i \in 0..n
    PROVE  f[i] = g[i]
<1> DEFINE T == {j \in Nat : j <= m /\ j <= n /\ f[j] # g[j]}
<1> SUFFICES ASSUME f[i] # g[i] PROVE FALSE
  OBVIOUS
<1>1. i \in T
  OBVIOUS
<1>2. PICK k \in T : \A j \in T : k <= j
  <2>1. T \subseteq Nat /\ T # {}
    BY <1>1
  <2> HIDE DEF T
  <2> QED
    BY <2>1, LeastNumber
<1>3. k \in 0..m /\ k \in 0..n /\ f[k] # g[k]
  BY <1>2
<1>4. /\ f[k] = IF k = 0 THEN h ELSE NextLevel(f[k - 1])
      /\ g[k] = IF k = 0 THEN h ELSE NextLevel(g[k - 1])
  BY <1>3 DEF LevelsUpTo
<1>5. k # 0
  BY <1>3, <1>4
<1>6. k - 1 \in Nat /\ k - 1 <= m /\ k - 1 <= n /\ ~(k <= k - 1)
  BY <1>3, <1>5
<1>7. k - 1 \notin T
  BY <1>2, <1>6
<1>8. f[k - 1] = g[k - 1]
  BY <1>6, <1>7
<1> QED
  BY <1>3, <1>4, <1>5, <1>8

\* There are levels up to every depth.
LEMMA LevelsExist ==
    ASSUME NEW h, NEW n \in Nat
    PROVE  \E g : LevelsUpTo(h, g, n)
<1> DEFINE T == {j \in Nat : ~ \E g : LevelsUpTo(h, g, j)}
<1> SUFFICES ASSUME n \in T PROVE FALSE
  OBVIOUS
<1>1. PICK k \in T : \A j \in T : k <= j
  <2>1. T \subseteq Nat /\ T # {}
    OBVIOUS
  <2> HIDE DEF T
  <2> QED
    BY <2>1, LeastNumber
<1>2. k \in Nat /\ \A g : ~LevelsUpTo(h, g, k)
  BY <1>1
<1>3. CASE k = 0
  <2> DEFINE g == [i \in 0..0 |-> h]
  <2>1. g = [i \in 0..0 |-> IF i = 0 THEN h ELSE NextLevel(g[i - 1])]
    <3>1. \A i \in 0..0 : i = 0
      OBVIOUS
    <3> QED
      BY <3>1
  <2>2. LevelsUpTo(h, g, 0)
    BY <2>1, Zenon DEF LevelsUpTo
  <2> QED
    BY <1>2, <1>3, <2>2
<1>4. CASE k # 0
  <2>1. k - 1 \in Nat /\ ~(k <= k - 1)
    BY <1>2, <1>4
  <2>2. k - 1 \notin T
    BY <1>1, <2>1
  <2>3. PICK g : LevelsUpTo(h, g, k - 1)
    BY <2>1, <2>2
  <2> DEFINE e == [i \in 0..k |-> IF i = k THEN NextLevel(g[k - 1]) ELSE g[i]]
  <2>4. \A i \in 0..(k - 1) : g[i] = IF i = 0 THEN h ELSE NextLevel(g[i - 1])
    BY <2>3 DEF LevelsUpTo
  <2>5. ASSUME NEW i \in 0..k
        PROVE  e[i] = IF i = 0 THEN h ELSE NextLevel(e[i - 1])
    <3>1. CASE i = k
      <4>1. e[i] = NextLevel(g[k - 1])
        BY <3>1
      <4>2. k - 1 \in 0..k /\ k - 1 # k /\ i - 1 = k - 1
        BY <1>2, <2>1, <3>1
      <4>3. e[i - 1] = g[k - 1]
        BY <4>2
      <4> QED
        BY <1>4, <3>1, <4>1, <4>3
    <3>2. CASE i # k
      <4>1. i \in 0..(k - 1) /\ e[i] = g[i]
        BY <1>2, <3>2
      <4>2. CASE i = 0
        BY <2>4, <4>1, <4>2
      <4>3. CASE i # 0
        <5>1. i - 1 \in 0..k /\ i - 1 # k
          BY <1>2, <4>1, <4>3
        <5>2. e[i - 1] = g[i - 1]
          BY <5>1
        <5> QED
          BY <2>4, <4>1, <4>3, <5>2
      <4> QED
        BY <4>2, <4>3
    <3> QED
      BY <3>1, <3>2
  <2>6. e = [i \in 0..k |-> e[i]]
    OBVIOUS
  <2> HIDE DEF e
  <2>7. LevelsUpTo(h, e, k)
    BY <2>5, <2>6 DEF LevelsUpTo
  <2> QED
    BY <1>2, <2>7
<1> QED
  BY <1>3, <1>4

\* MerkleLevels satisfies the equation that defines it.
LEMMA LevelsDefined ==
    ASSUME NEW h
    PROVE  \A n \in Nat : MerkleLevels(h)[n] = IF n = 0 THEN h
                                              ELSE NextLevel(MerkleLevels(h)[n - 1])
<1> DEFINE first(n) == CHOOSE g : LevelsUpTo(h, g, n)
           f == [n \in Nat |-> first(n)[n]]
<1>1. \A n \in Nat : LevelsUpTo(h, first(n), n)
  BY LevelsExist, Zenon
<1>2. ASSUME NEW n \in Nat
      PROVE  f[n] = IF n = 0 THEN h ELSE NextLevel(f[n - 1])
  <2>1. LevelsUpTo(h, first(n), n) /\ f[n] = first(n)[n]
    BY <1>1
  <2> HIDE DEF first
  <2>2. n \in 0..n /\ (n # 0 => n - 1 \in Nat /\ n - 1 \in 0..n /\ n - 1 \in 0..(n - 1))
    OBVIOUS
  <2>3. first(n)[n] = IF n = 0 THEN h ELSE NextLevel(first(n)[n - 1])
    BY <2>1, <2>2 DEF LevelsUpTo
  <2>4. CASE n = 0
    BY <2>1, <2>3, <2>4
  <2>5. CASE n # 0
    <3>1. f[n - 1] = first(n - 1)[n - 1] /\ LevelsUpTo(h, first(n - 1), n - 1)
      BY <1>1, <2>2, <2>5
    <3>2. first(n)[n - 1] = first(n - 1)[n - 1]
      BY <2>1, <2>2, <2>5, <3>1, LevelsUnique
    <3> QED
      BY <2>1, <2>3, <2>5, <3>1, <3>2
  <2> QED
    BY <2>4, <2>5
<1>3. f = [n \in Nat |-> f[n]]
  OBVIOUS
<1> HIDE DEF f
<1>4. f = [n \in Nat |-> IF n = 0 THEN h
                         ELSE IF Len(f[n-1]) <= 1 THEN f[n-1] ELSE MerkleLevel(f[n-1])]
  BY <1>2, <1>3 DEF NextLevel
<1>5. MerkleLevels(h) = CHOOSE l : l =
          [n \in Nat |-> IF n = 0 THEN h
                         ELSE IF Len(l[n-1]) <= 1 THEN l[n-1] ELSE MerkleLevel(l[n-1])]
  BY DEF MerkleLevels
<1>6. PICK l : l = MerkleLevels(h)
  OBVIOUS
<1>7. l = [n \in Nat |-> IF n = 0 THEN h
                         ELSE IF Len(l[n-1]) <= 1 THEN l[n-1] ELSE MerkleLevel(l[n-1])]
  BY <1>4, <1>5, <1>6, Zenon
<1>8. \A n \in Nat : l[n] = IF n = 0 THEN h ELSE NextLevel(l[n - 1])
  BY <1>7 DEF NextLevel
<1> QED
  BY <1>6, <1>8

\* SHA-256 of different strings are different.
LEMMA SumInjective ==
    ASSUME NEW a, NEW b
    PROVE  Sum256(a) = Sum256(b) <=> a = b
<1>1. [sha256 |-> a].sha256 = a /\ [sha256 |-> b].sha256 = b
  OBVIOUS
<1> QED
  BY <1>1 DEF Sum256

\* The next level of at least one hash is a level of at least one: half as many,
\* rounded up, if there were two.
LEMMA NextLevelShape ==
    ASSUME NEW l, NEW S, l \in Seq(S), Len(l) >= 1
    PROVE  /\ \E R : NextLevel(l) \in Seq(R)
           /\ Len(NextLevel(l)) >= 1
           /\ Len(l) <= 1 => NextLevel(l) = l
           /\ Len(l) >= 2 => Len(NextLevel(l)) = (Len(l) + 1) \div 2
           /\ Len(l) = 2 => NextLevel(l)[1] = Sum256(l)
<1>1. Len(l) \in Nat
  BY LenProperties
<1>2. CASE Len(l) <= 1
  BY <1>1, <1>2 DEF NextLevel
<1>3. CASE ~(Len(l) <= 1)
  <2>1. PICK n : n = (Len(l) + 1) \div 2
    OBVIOUS
  <2>2. n \in Nat /\ n >= 1
    BY <1>1, <1>3, <2>1
  <2> DEFINE hash(i) == Node2(l[2*i - 1], IF 2*i <= Len(l) THEN l[2*i] ELSE l[2*i - 1])
             up == [i \in 1..n |-> hash(i)]
  <2>3. NextLevel(l) = up
    BY <1>3, <2>1 DEF NextLevel, MerkleLevel
  <2>4. Len(l) = 2 => hash(1) = Sum256(l)
    <3>1. Len(l) = 2 => hash(1) = Node2(l[1], l[2])
      OBVIOUS
    <3>2. Len(l) = 2 => l = <<l[1], l[2]>>
      OBVIOUS
    <3> HIDE DEF hash
    <3> QED
      BY <3>1, <3>2, Zenon DEF Node2
  <2> HIDE DEF hash
  <2>5. up[1] = hash(1) /\ up \in [1..n -> {hash(i) : i \in 1..n}]
    BY <2>2
  <2> HIDE DEF up
  <2>6. up \in Seq({hash(i) : i \in 1..n}) /\ Len(up) = n
    <3>1. PICK R : R = {hash(i) : i \in 1..n}
      OBVIOUS
    <3>2. up \in [1..n -> R] /\ n \in Nat
      BY <2>2, <2>5, <3>1
    <3>3. up \in Seq(R) /\ Len(up) = n
      BY <3>2
    <3> QED
      BY <3>1, <3>3
  <2> QED
    BY <1>3, <2>1, <2>2, <2>3, <2>4, <2>5, <2>6
<1> QED
  BY <1>2, <1>3

\* A level that is one hash, or so short that its depth and it fit in n.
ShortLevel(x, d, n) ==
    /\ \E R : x \in Seq(R)
    /\ Len(x) >= 1
    /\ Len(x) = 1 \/ Len(x) + d <= n

\* Every level is shorter than the one before, until one hash is left.
LEMMA LevelsShrink ==
    ASSUME NEW S, NEW h \in Seq(S), Len(h) >= 1, NEW L, L = MerkleLevels(h)
    PROVE  \A n \in Nat : ShortLevel(L[n], n, Len(h))
<1>1. PICK len : len = Len(h) /\ len \in Nat
  BY LenProperties
<1>2. \A n \in Nat : L[n] = IF n = 0 THEN h ELSE NextLevel(L[n - 1])
  BY LevelsDefined
<1> DEFINE T == {n \in Nat : ~ShortLevel(L[n], n, len)}
<1> SUFFICES ASSUME T # {} PROVE FALSE
  BY <1>1
<1>3. PICK k \in T : \A j \in T : k <= j
  <2>1. T \subseteq Nat
    OBVIOUS
  <2> HIDE DEF T
  <2> QED
    BY <2>1, LeastNumber
<1>4. k \in Nat /\ ~ShortLevel(L[k], k, len)
  BY <1>3
<1>5. CASE k = 0
  <2>1. L[k] = h
    BY <1>2, <1>5
  <2>2. ShortLevel(h, 0, len)
    BY <1>1 DEF ShortLevel
  <2> QED
    BY <1>4, <1>5, <2>1, <2>2
<1>6. CASE k # 0
  <2>1. k - 1 \in Nat /\ ~(k <= k - 1)
    BY <1>4, <1>6
  <2>2. k - 1 \notin T
    BY <1>3, <2>1
  <2>3. ShortLevel(L[k - 1], k - 1, len)
    BY <2>1, <2>2
  <2>4. PICK x, R : x = L[k - 1] /\ x \in Seq(R)
    BY <2>3 DEF ShortLevel
  <2>5. PICK m : m = Len(x) /\ m \in Nat
    BY <2>4, LenProperties
  <2>6. m >= 1 /\ (m = 1 \/ m + (k - 1) <= len)
    BY <2>3, <2>4, <2>5 DEF ShortLevel
  <2>7. L[k] = NextLevel(x)
    BY <1>2, <1>4, <1>6, <2>4
  <2>8. /\ \E Q : NextLevel(x) \in Seq(Q)
        /\ Len(NextLevel(x)) >= 1
        /\ m <= 1 => NextLevel(x) = x
        /\ m >= 2 => Len(NextLevel(x)) = (m + 1) \div 2
    BY <2>4, <2>5, <2>6, NextLevelShape
  <2>9. m >= 3 => (m + 1) \div 2 <= m - 1
    BY <2>5
  <2>10. m = 2 => (m + 1) \div 2 = 1
    BY <2>5
  <2>11. Len(NextLevel(x)) = 1 \/ Len(NextLevel(x)) + k <= len
    <3>1. CASE m = 1
      <4>1. NextLevel(x) = x /\ Len(x) = 1
        BY <2>5, <2>8, <3>1
      <4> QED
        BY <4>1
    <3>2. CASE m = 2
      BY <2>8, <2>10, <3>2
    <3>3. CASE m >= 3
      <4>1. PICK q : q = (m + 1) \div 2
        OBVIOUS
      <4>2. q \in Int /\ q <= m - 1 /\ Len(NextLevel(x)) = q
        BY <2>5, <2>8, <2>9, <3>3, <4>1
      <4>3. q + k <= len
        BY <1>1, <1>4, <2>5, <2>6, <3>3, <4>2
      <4> QED
        BY <4>2, <4>3
    <3> QED
      BY <2>5, <2>6, <3>1, <3>2, <3>3
  <2> QED
    BY <1>4, <2>7, <2>8, <2>11 DEF ShortLevel
<1> QED
  BY <1>5, <1>6

\* The level of one hash is the last.
LEMMA LastLevelStays ==
    ASSUME NEW S, NEW h \in Seq(S), Len(h) >= 1, NEW L, L = MerkleLevels(h),
           NEW d \in Nat, Len(L[d]) = 1, NEW n \in Nat, d <= n
    PROVE  L[n] = L[d]
<1>1. \A i \in Nat : L[i] = IF i = 0 THEN h ELSE NextLevel(L[i - 1])
  BY LevelsDefined
<1> DEFINE T == {i \in Nat : d <= i /\ L[i] # L[d]}
<1> SUFFICES ASSUME L[n] # L[d] PROVE FALSE
  OBVIOUS
<1>2. PICK k \in T : \A j \in T : k <= j
  <2>1. T \subseteq Nat /\ T # {}
    OBVIOUS
  <2> HIDE DEF T
  <2> QED
    BY <2>1, LeastNumber
<1>3. k \in Nat /\ d <= k /\ L[k] # L[d] /\ k # d
  BY <1>2
<1>4. k - 1 \in Nat /\ d <= k - 1 /\ ~(k <= k - 1) /\ k # 0
  BY <1>3
<1>5. L[k - 1] = L[d]
  BY <1>2, <1>4
<1>6. PICK x, R : x = L[d] /\ x \in Seq(R)
  BY LevelsShrink DEF ShortLevel
<1>7. Len(x) = 1
  BY <1>6
<1>8. Len(x) >= 1 /\ Len(x) <= 1
  BY <1>7
<1>9. NextLevel(x) = x
  BY <1>6, <1>8, NextLevelShape
<1> QED
  BY <1>1, <1>3, <1>4, <1>5, <1>6, <1>9

\* Depth d of the tree over h has two hashes.
HasPair(h, d) == Len(MerkleLevels(h)[d]) = 2

\* The root of one leaf is the leaf, and no depth of its tree has two hashes.
\* One depth of the tree over several leaves has, and the root is their hash.
LEMMA MerkleRootShape ==
    ASSUME NEW S, NEW h \in Seq(S)
    PROVE  /\ Len(h) = 0 => computeMerkleRoot(h) = Sum256(EmptyBytes)
           /\ Len(h) = 1 => computeMerkleRoot(h) = h[1]
           /\ Len(h) <= 1 => \A d \in 0..Len(h) : ~HasPair(h, d)
           /\ Len(h) >= 2 => \E d \in 0..Len(h) : HasPair(h, d)
           /\ \A d \in 0..Len(h) :
                 HasPair(h, d) => computeMerkleRoot(h) = Sum256(MerkleLevels(h)[d])
<1>1. PICK len : len = Len(h) /\ len \in Nat
  BY LenProperties
<1>2. PICK L : L = MerkleLevels(h)
  OBVIOUS
<1>3. \A n \in Nat : L[n] = IF n = 0 THEN h ELSE NextLevel(L[n - 1])
  BY <1>2, LevelsDefined
<1>4. L[0] = h
  BY <1>3
<1>5. CASE len = 0
  <2>1. h = <<>>
    BY <1>1, <1>5, EmptySeq
  <2>2. computeMerkleRoot(h) = Sum256(EmptyBytes)
    BY <2>1 DEF computeMerkleRoot
  <2>3. \A d \in 0..len : d = 0
    BY <1>5
  <2>4. \A d \in 0..len : ~HasPair(h, d)
    <3>1. Len(L[0]) = 0
      BY <1>1, <1>4, <1>5
    <3>2. ~HasPair(h, 0)
      BY <1>2, <3>1 DEF HasPair
    <3> QED
      BY <2>3, <3>2
  <2> QED
    BY <1>1, <1>5, <2>2, <2>4
<1>6. CASE len >= 1
  <2>1. h # <<>>
    BY <1>1, <1>6
  <2>2. computeMerkleRoot(h) = Head(L[len])
    BY <1>1, <1>2, <2>1 DEF computeMerkleRoot
  <2>3. \A n \in Nat : ShortLevel(L[n], n, len)
    BY <1>1, <1>2, <1>6, LevelsShrink
  <2>4. \A n \in Nat : Len(L[n]) \in Nat /\ Len(L[n]) >= 1
    BY <2>3, LenProperties DEF ShortLevel
  <2>5. Len(L[len]) = 1
    <3>1. PICK m : m = Len(L[len]) /\ m \in Nat /\ m >= 1
      BY <1>1, <2>4
    <3>2. m = 1 \/ m + len <= len
      BY <1>1, <2>3, <3>1 DEF ShortLevel
    <3> QED
      BY <1>1, <3>1, <3>2
  <2>6. Head(L[len]) = L[len][1]
    <3>1. PICK x, R : x = L[len] /\ x \in Seq(R) /\ Len(x) = 1
      BY <1>1, <2>3, <2>5 DEF ShortLevel
    <3>2. Head(x) = x[1]
      BY <3>1
    <3> QED
      BY <3>1, <3>2
  <2>7. CASE len = 1
    <3>0. Len(h) = 1 /\ Len(h) >= 1 /\ Len(L[0]) = 1
      BY <1>1, <1>4, <2>7
    <3>1. \A d \in Nat : L[d] = h
      <4> SUFFICES ASSUME NEW d \in Nat PROVE L[d] = h
        OBVIOUS
      <4>1. 0 \in Nat /\ 0 <= d
        OBVIOUS
      <4>2. L[d] = L[0]
        BY <1>2, <3>0, <4>1, LastLevelStays
      <4> QED
        BY <1>4, <4>2
    <3>2. \A d \in 0..len : ~HasPair(h, d)
      <4> SUFFICES ASSUME NEW d \in 0..len PROVE ~HasPair(h, d)
        OBVIOUS
      <4>1. L[d] = h
        BY <1>1, <3>1
      <4>2. Len(L[d]) = 1
        BY <3>0, <4>1
      <4> QED
        BY <1>2, <4>2 DEF HasPair
    <3> QED
      BY <1>1, <2>2, <2>6, <2>7, <3>1, <3>2
  <2>8. CASE len >= 2
    <3>1. \E d \in 0..len : HasPair(h, d)
      <4> DEFINE T == {n \in Nat : Len(L[n]) = 1}
      <4>1. T \subseteq Nat /\ len \in T /\ 0 \notin T
        <5>1. Len(L[len]) = 1 /\ len \in Nat
          BY <1>1, <2>5
        <5>2. Len(L[0]) = len
          BY <1>1, <1>4
        <5>3. Len(L[0]) # 1
          BY <1>1, <2>8, <5>2
        <5> QED
          BY <5>1, <5>3
      <4>2. PICK k \in T : \A j \in T : k <= j
        <5> HIDE DEF T
        <5> QED
          BY <4>1, LeastNumber
      <4>3. k \in Nat /\ k # 0 /\ k <= len /\ Len(L[k]) = 1
        BY <4>1, <4>2
      <4>4. k - 1 \in Nat /\ ~(k <= k - 1) /\ k - 1 \in 0..len
        BY <1>1, <4>3
      <4>5. k - 1 \notin T
        BY <4>2, <4>4
      <4>6. PICK x, R : x = L[k - 1] /\ x \in Seq(R)
        BY <2>3, <4>4 DEF ShortLevel
      <4>7. PICK m : m = Len(x) /\ m \in Nat /\ m >= 2
        <5>1. Len(L[k - 1]) # 1 /\ Len(L[k - 1]) \in Nat /\ Len(L[k - 1]) >= 1
          BY <2>4, <4>4, <4>5
        <5>2. Len(x) # 1 /\ Len(x) \in Nat /\ Len(x) >= 1
          BY <4>6, <5>1, Zenon
        <5>3. \A q \in Nat : q # 1 /\ q >= 1 => q >= 2
          OBVIOUS
        <5> QED
          BY <5>2, <5>3, Zenon
      <4>8. (m + 1) \div 2 = 1
        <5>1. Len(NextLevel(x)) = (m + 1) \div 2
          <6>1. Len(x) >= 2 /\ Len(x) >= 1
            BY <4>7
          <6>2. Len(NextLevel(x)) = (Len(x) + 1) \div 2
            BY <4>6, <6>1, NextLevelShape
          <6> QED
            BY <4>7, <6>2
        <5>2. L[k] = NextLevel(x)
          BY <1>3, <4>3, <4>6
        <5> QED
          BY <4>3, <5>1, <5>2
      <4>9. m = 2
        BY <4>7, <4>8
      <4> QED
        BY <1>2, <4>4, <4>6, <4>7, <4>9 DEF HasPair
    <3>2. ASSUME NEW d \in 0..len, HasPair(h, d)
          PROVE  computeMerkleRoot(h) = Sum256(L[d])
      <4>1. d \in Nat /\ Len(L[d]) = 2
        BY <1>1, <1>2, <3>2 DEF HasPair
      <4>2. d # len
        <5>1. 1 # 2
          OBVIOUS
        <5> QED
          BY <2>5, <4>1, <5>1, Zenon
      <4>3. d + 1 \in Nat /\ d + 1 <= len /\ d + 1 # 0 /\ (d + 1) - 1 = d
        BY <1>1, <4>1, <4>2
      <4>4. PICK x, R : x = L[d] /\ x \in Seq(R)
        BY <2>3, <4>1 DEF ShortLevel
      <4>5. Len(NextLevel(x)) = 1 /\ NextLevel(x)[1] = Sum256(x)
        <5>1. Len(x) = 2
          BY <4>1, <4>4
        <5>2. Len(x) >= 1 /\ Len(x) >= 2
          BY <5>1
        <5>3. /\ Len(NextLevel(x)) = (Len(x) + 1) \div 2
              /\ NextLevel(x)[1] = Sum256(x)
          BY <4>4, <5>1, <5>2, NextLevelShape
        <5>4. (Len(x) + 1) \div 2 = 1
          BY <5>1
        <5> QED
          BY <5>3, <5>4
      <4>6. L[d + 1] = NextLevel(x)
        BY <1>3, <4>3, <4>4
      <4>7. Len(L[d + 1]) = 1
        BY <4>5, <4>6
      <4>8. L[len] = L[d + 1]
        BY <1>1, <1>2, <1>6, <4>3, <4>7, LastLevelStays
      <4> QED
        BY <2>2, <2>6, <4>4, <4>5, <4>6, <4>8
    <3> QED
      BY <1>1, <1>2, <2>8, <3>1, <3>2
  <2> QED
    BY <1>1, <1>6, <2>7, <2>8
<1> QED
  BY <1>1, <1>5, <1>6

\* The leaves of a finite set of keys, sorted.
LEMMA SortedLeaves ==
    ASSUME NEW m, NEW C, C \subseteq Nat, IsFiniteSet(C)
    PROVE  LET h == Leaves(m, Sorted(C))
           IN  /\ \E S : h \in Seq(S)
               /\ Len(h) = Cardinality(C)
               /\ \A j : C = {j} => h[1] = Leaf(j, m[j])
<1>1. PICK n : n = Cardinality(C) /\ n \in Nat
  BY FS_CardinalityType
<1>2. PICK s : s = Sorted(C)
  OBVIOUS
<1>3. s = [i \in 1..n |-> CHOOSE x \in C : Cardinality({y \in C : y < x}) = i - 1]
  BY <1>1, <1>2 DEF Sorted
<1>4. Len(s) = n
  BY <1>1, <1>3
<1> DEFINE leaf(i) == Leaf(s[i], m[s[i]])
           h == [i \in 1..n |-> leaf(i)]
<1>5. Leaves(m, s) = h
  BY <1>4 DEF Leaves
<1>6. ASSUME NEW j, C = {j} PROVE h[1] = Leaf(j, m[j])
  <2>1. j \in Nat /\ n = 1
    BY <1>1, <1>6, FS_Singleton
  <2>2. {y \in C : y < j} = {}
    BY <1>6, <2>1
  <2>3. Cardinality({y \in C : y < j}) = 1 - 1
    BY <2>2, FS_EmptySet
  <2>4. (CHOOSE x \in C : Cardinality({y \in C : y < x}) = 1 - 1) = j
    BY <1>6, <2>3, Zenon
  <2>5. s[1] = j
    BY <1>3, <2>1, <2>4
  <2> QED
    BY <2>1, <2>5
<1> HIDE DEF leaf
<1>7. h \in [1..n -> {leaf(i) : i \in 1..n}]
  OBVIOUS
<1>8. h \in Seq({leaf(i) : i \in 1..n}) /\ Len(h) = n
  <2> HIDE DEF h
  <2> QED
    BY <1>1, <1>7
<1> QED
  BY <1>1, <1>2, <1>5, <1>6, <1>8

\* The root a replica of MerkleState has returned last is that of the leaves of
\* the changes it applied last.
RootOfChanges(r) ==
    pos[r] > 0 =>
        root[r] = computeMerkleRoot(Leaves(machine[r].mem, Sorted(DOMAIN log[pos[r]])))

MerkleInv == AppsTypeOK /\ (app = "merkle" => \A r \in Live : RootOfChanges(r))

\* The bytes of key k and its value in m are those last hashed into the root of
\* the changes at C.
SpeltAlike(m, C, k) ==
    \/ \E j \in C : C = {j} /\ Spelling[k] \o m[k] = Spelling[j] \o m[j]
    \/ C = {} /\ Spelling[k] \o m[k] = EmptyBytes
    \/ \E d \in 0..Cardinality(C) :
          LET level == MerkleLevels(Leaves(m, Sorted(C)))[d]
          IN  Len(level) = 2 /\ Spelling[k] \o m[k] = level

\* Which proofs verify against the root of a set of changes.
LEMMA WhatVerifies ==
    ASSUME NEW m, NEW C, C \subseteq Nat, IsFiniteSet(C), NEW h,
           h = computeMerkleRoot(Leaves(m, Sorted(C))), NEW k
    PROVE  VerifyProof(k, m[k], h) <=> SpeltAlike(m, C, k)
<1>1. PICK l : l = Leaves(m, Sorted(C))
  OBVIOUS
<1>2. PICK S : l \in Seq(S)
  BY <1>1, SortedLeaves
<1>3. PICK n : n = Len(l) /\ n = Cardinality(C) /\ n \in Nat
  BY <1>1, SortedLeaves, FS_CardinalityType
<1>4. \A j : C = {j} => l[1] = Leaf(j, m[j])
  BY <1>1, SortedLeaves
<1>5. /\ n = 0 => h = Sum256(EmptyBytes)
      /\ n = 1 => h = l[1]
      /\ n <= 1 => \A d \in 0..n : ~HasPair(l, d)
      /\ n >= 2 => \E d \in 0..n : HasPair(l, d)
      /\ \A d \in 0..n : HasPair(l, d) => h = Sum256(MerkleLevels(l)[d])
  BY <1>1, <1>2, <1>3, MerkleRootShape
<1>6. PICK b : b = Spelling[k] \o m[k]
  OBVIOUS
<1>7. VerifyProof(k, m[k], h) <=> Sum256(b) = h
  BY <1>6 DEF VerifyProof, Leaf
<1>8. SpeltAlike(m, C, k) <=>
        \/ \E j \in C : C = {j} /\ b = Spelling[j] \o m[j]
        \/ C = {} /\ b = EmptyBytes
        \/ \E d \in 0..n : HasPair(l, d) /\ b = MerkleLevels(l)[d]
  BY <1>1, <1>3, <1>6, Zenon DEF SpeltAlike, HasPair
<1>9. CASE n = 0
  <2>1. C = {}
    BY <1>3, <1>9, FS_EmptySet
  <2>2. Sum256(b) = Sum256(EmptyBytes) <=> b = EmptyBytes
    BY SumInjective
  <2> QED
    BY <1>5, <1>7, <1>8, <1>9, <2>1, <2>2
<1>10. CASE n = 1
  <2>1. PICK j : C = {j}
    BY <1>3, <1>10, FS_Singleton
  <2>2. PICK a : a = Spelling[j] \o m[j]
    OBVIOUS
  <2>3. h = Sum256(a)
    BY <1>4, <1>5, <1>10, <2>1, <2>2 DEF Leaf
  <2>4. Sum256(b) = Sum256(a) <=> b = a
    BY SumInjective
  <2>5. C # {} /\ \A i : C = {i} <=> i = j
    BY <2>1
  <2>6. \A d \in 0..n : ~HasPair(l, d)
    BY <1>5, <1>10
  <2> QED
    BY <1>7, <1>8, <2>1, <2>2, <2>3, <2>4, <2>5, <2>6, Zenon
<1>11. CASE n >= 2
  <2>1. C # {} /\ \A j : C # {j}
    BY <1>3, <1>11, FS_EmptySet, FS_Singleton
  <2>2. \E d \in 0..n : HasPair(l, d)
    BY <1>5, <1>11
  <2>3. \A d \in 0..n : HasPair(l, d) => (Sum256(b) = h <=> b = MerkleLevels(l)[d])
    BY <1>5, SumInjective
  <2> QED
    BY <1>7, <1>8, <2>1, <2>2, <2>3, Zenon
<1> QED
  BY <1>3, <1>9, <1>10, <1>11

\* Replica r applies a set of changes.
LEMMA ChangesApplied ==
    ASSUME AppsTypeOK, app = "merkle", NEW r \in Live, Apply(r)
    PROVE  RootOfChanges(r)'
<1>1. PICK c, o : c = log[pos[r] + 1] /\ Take(r, c, o)
  BY DEF Apply
<1>2. r \in Replica
  BY DEF Replica
<1>3. /\ machine'[r] = o.state /\ root'[r] = o.root /\ pos'[r] = pos[r] + 1
      /\ UNCHANGED log
  BY <1>1, <1>2, TakeEffect
<1>4. o \in MerkleApply(machine[r], c)
  BY <1>1 DEF Take, Outcomes, ApplyOutcomes
<1>5. o.root = computeMerkleRoot(Leaves(o.state.mem, Sorted(DOMAIN c)))
  <2>1. PICK s : s = machine[r]
    OBVIOUS
  <2>2. o \in MerkleApply(s, c)
    BY <1>4, <2>1
  <2>3. /\ o.state.mem = c @@ s.mem
        /\ o.root = computeMerkleRoot(Leaves(c @@ s.mem, Sorted(DOMAIN c)))
    BY <2>2, MerkleOutcome, ZenonT(40)
  <2> QED
    BY <2>3
<1> QED
  BY <1>1, <1>3, <1>5 DEF RootOfChanges

\* Every step keeps the roots.
LEMMA MerkleStep ==
    ASSUME MerkleInv, [Next]_vars
    PROVE  MerkleInv'
<1>1. AppsTypeOK /\ AppsTypeOK'
  BY AppsStepType DEF MerkleInv
<1>2. ASSUME NEW c \in Commands[app], Commit(c) PROVE MerkleInv'
  <2>1. /\ \A i \in 1..Len(log) : log'[i] = log[i]
        /\ UNCHANGED <<app, pos, machine, root>>
    BY <1>1, <1>2, CommitEffect
  <2>2. \A r \in Live : pos[r] > 0 => pos[r] \in 1..Len(log)
    BY <1>1, LenProperties DEF AppsTypeOK, Replica
  <2> QED
    BY <1>1, <2>1, <2>2 DEF MerkleInv, RootOfChanges
<1>3. CASE Tick \/ UNCHANGED vars
  <2>1. UNCHANGED <<app, log, pos, machine, root>>
    BY <1>3 DEF Tick, vars
  <2> QED
    BY <1>1, <2>1 DEF MerkleInv, RootOfChanges
<1>4. ASSUME NEW u \in Live, Apply(u) PROVE MerkleInv'
  <2>1. PICK c, o : Take(u, c, o)
    BY <1>4 DEF Apply
  <2>2. Live \subseteq Replica
    BY DEF Replica
  <2>3. /\ \A s \in Replica : s # u => /\ machine'[s] = machine[s] /\ pos'[s] = pos[s]
                                       /\ root'[s] = root[s]
        /\ UNCHANGED <<app, log>>
    BY <1>1, <2>1, <2>2, TakeEffect
  <2>4. ASSUME app = "merkle", NEW r \in Live PROVE RootOfChanges(r)'
    <3>1. CASE r = u
      BY <1>1, <1>4, <2>4, <3>1, ChangesApplied
    <3>2. CASE r # u
      BY <2>2, <2>3, <2>4, <3>2 DEF MerkleInv, RootOfChanges
    <3> QED
      BY <3>1, <3>2
  <2> QED
    BY <1>1, <2>3, <2>4 DEF MerkleInv
<1>5. CASE ReplayStep
  <2>1. PICK c, o : Take(Replayer, c, o)
    BY <1>5 DEF ReplayStep
  <2>2. Replayer \in Replica /\ \A s \in Live : s # Replayer /\ s \in Replica
    BY ReplicaAssumption DEF Replica
  <2>3. /\ \A s \in Replica : s # Replayer => /\ machine'[s] = machine[s]
                                              /\ pos'[s] = pos[s] /\ root'[s] = root[s]
        /\ UNCHANGED <<app, log>>
    BY <1>1, <2>1, <2>2, TakeEffect
  <2> QED
    BY <1>1, <2>2, <2>3 DEF MerkleInv, RootOfChanges
<1> QED
  BY <1>2, <1>3, <1>4, <1>5 DEF Next

\* A proof from MerkleState's GetProof verifies against the root returned last
\* exactly when its key and value spell what was hashed last into that root: the
\* only change, "empty_state" where there was none, the two hashes under the
\* root where there were several, whatever sets of changes came before.
THEOREM ProofsOfSoleChanges == Spec => []ProofOfSoleChange
<1>1. Init => MerkleInv
  <2> SUFFICES ASSUME Init PROVE MerkleInv
    OBVIOUS
  <2>1. \A r \in Live : pos[r] = 0
    BY DEF Init, Replica
  <2> QED
    BY <2>1, AppsInitType DEF MerkleInv, RootOfChanges
<1>2. MerkleInv => ProofOfSoleChange
  <2> SUFFICES ASSUME MerkleInv, app = "merkle", NEW r \in Live, pos[r] > 0,
                      NEW k \in DOMAIN machine[r].mem
               PROVE  VerifyProof(k, machine[r].mem[k], root[r]) <=>
                        SpeltAlike(machine[r].mem, DOMAIN log[pos[r]], k)
    BY DEF ProofOfSoleChange, SpeltAlike
  <2>1. log \in Seq(Changes) /\ pos[r] \in 1..Len(log)
    BY LenProperties DEF MerkleInv, AppsTypeOK, Commands, Replica
  <2>2. PICK c : c = log[pos[r]]
    OBVIOUS
  <2>3. c \in Changes
    BY <2>1, <2>2, ElementOfSeq
  <2>4. DOMAIN c \subseteq Nat /\ IsFiniteSet(DOMAIN c)
    <3>1. PICK S \in {T \in SUBSET MerkleKey : IsFiniteSet(T)} : c \in [S -> MerkleValue]
      BY <2>3 DEF Changes
    <3> QED
      BY <3>1, ValueAssumption
  <2>5. root[r] = computeMerkleRoot(Leaves(machine[r].mem, Sorted(DOMAIN c)))
    BY <2>2 DEF MerkleInv, RootOfChanges
  <2> QED
    BY <2>2, <2>4, <2>5, WhatVerifies
<1>3. MerkleInv /\ [Next]_vars => MerkleInv'
  BY MerkleStep
<1> QED
  BY <1>1, <1>2, <1>3, PTL DEF Spec

=============================================================================
