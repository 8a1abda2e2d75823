--------------------------- MODULE ServicesProofs ---------------------------
(***************************************************************************)
(* The execution router, the peer table and the event bus, for every       *)
(* number of routers, commands, peers, buckets, tasks and subscribers.     *)
(***************************************************************************)
EXTENDS PeerTable, ExecutionRouter, RuntimeServices, SequenceTheorems, WellFoundedInduction, TLAPS

-----------------------------------------------------------------------------
(* The execution router.  What a router keeps is determined by what it has *)
(* committed: the invariant says that a history exists, T[r][n] being what *)
(* router r kept after its first n commits, and that routers whose first n *)
(* commits are the same had the same history up to there.  There are two   *)
(* such histories: what Kept shows of the machines, for every router, and  *)
(* the whole of what a router holds, for the routers without a scar.       *)

\* The commands a router may be given, by type and payload.
Routed == UNION {{t} \X Payload(t) : t \in HandlerType}

\* What the handler of type t may do in state s with root h.
Outcomes(t, s, h, c) == CASE t = "meta"   -> MetaApply(s, h, c)
                          [] t = "config" -> ConfigApply(s, h, c)
                          [] t = "kv"     -> KVApply(s, h, c)
                          [] t = "rwa"    -> Execute(s, h, c)

\* An outcome is a success or an error; an error may leave no trace.
Succeeds(o) == o.ok = TRUE
Fails(o)    == o.ok = FALSE
Traceless(o, s, h) == o.state = s /\ o.root = h

\* The kv-store is a map and a storage.
KVState(s) == s = [mem |-> s.mem, disk |-> s.disk]

\* Settings x without that of key k in namespace n.
Unset(x, n, k) == {e \in x : ~(e[1] = n /\ e[2] = k)}

\* What is kept once c is committed, x being what was kept before.
KeptAfter(t, x, c) ==
    CASE t = "config" -> IF c.action = "SET"
                           THEN Unset(x, c.namespace, c.key)
                                \cup {<<c.namespace, c.key, c.value>>}
                           ELSE Unset(x, c.namespace, c.key)
      [] t = "kv"     -> Write(x, c)
      [] t = "meta"   -> IF c.action = "PUT_META" THEN Put(x, c.objectId, c.metadata)
                                                  ELSE Del(x, c.objectId)
      [] t = "rwa"    -> Put(x, c.asset, c.shares)

\* The whole of a router goes from x to y when k is committed.
CommitsWhole(x, y, k) == \E out \in Outcomes(k[1], x.machines[k[1]], x.roots[k[1]], k[2]) :
    /\ Succeeds(out)
    /\ y = [machines |-> [x.machines EXCEPT ![k[1]] = out.state],
            roots    |-> [x.roots EXCEPT ![k[1]] = out.root],
            current  |-> Append(x.current, out.root)]

\* Command k takes a router from x to y and is committed; v says whether the
\* whole of the router is looked at or what it keeps.
Commits(v, x, y, k) ==
    IF v = "whole" THEN CommitsWhole(x, y, k)
    ELSE y = [x EXCEPT ![k[1]] = KeptAfter(k[1], x[k[1]], k[2])]

\* What router r holds and keeps, and the routers without a scar.
Holds(r) == [machines |-> machines[r], roots |-> machineRoot[r],
             current |-> currentRoot[r]]
Keeps(r) == [t \in HandlerType |-> Kept(t, machines[r][t])]
Unscarred == {r \in Router : ~scarred[r]}

\* T is a history of the routers L, which have committed C and hold X.
HistoryOf(v, T, L, C, X) ==
    \A r \in L :
        /\ T[r][Len(C[r])] = X[r]
        /\ \A n \in 1..Len(C[r]) : Commits(v, T[r][n - 1], T[r][n], C[r][n])
        /\ \A q \in L : \A n \in 0..Len(C[r]) :
              n <= Len(C[q]) /\ (\A j \in 1..n : C[r][j] = C[q][j])
                => T[r][n] = T[q][n]

RouterTyped ==
    /\ handlers \in [Router -> SUBSET HandlerType]
    /\ machines = [r \in Router |-> [t \in HandlerType |-> machines[r][t]]]
    /\ machineRoot = [r \in Router |-> [t \in HandlerType |-> machineRoot[r][t]]]
    /\ "kv" \in HandlerType => \A r \in Router : KVState(machines[r]["kv"])
    /\ DOMAIN currentRoot = Router
    /\ committed \in [Router -> Seq(Routed)]
    /\ scarred \in [Router -> BOOLEAN]

RouterInv ==
    /\ RouterTyped
    /\ \E T : HistoryOf("whole", T, Unscarred, committed, [r \in Router |-> Holds(r)])
    /\ \E T : HistoryOf("kept", T, Router, committed, [r \in Router |-> Keeps(r)])

\* metadata-service has one outcome, and one that is refused leaves no trace.
LEMMA MetaSingle ==
    ASSUME NEW s, NEW h, NEW c, NEW o \in MetaApply(s, h, c), NEW p \in MetaApply(s, h, c)
    PROVE  o = p /\ (Succeeds(o) \/ (Fails(o) /\ Traceless(o, s, h)))
<1>1. PICK next : next = IF c.action = "PUT_META" THEN Put(s, c.objectId, c.metadata)
                                                  ELSE Del(s, c.objectId)
  OBVIOUS
<1>2. MetaApply(s, h, c) =
        IF c.action = "OTHER" THEN Refused(s, h)
        ELSE Accepted(next, LAMBDA k : MetadataRoot(next, k), SortedOrders(DOMAIN next))
  BY <1>1 DEF MetaApply
<1>3. MetaApply(s, h, c) =
        IF c.action = "OTHER" THEN {[ok |-> FALSE, state |-> s, root |-> h]}
        ELSE {[ok |-> TRUE, state |-> next, root |-> MetadataRoot(next, k)]
                : k \in {Sorted(DOMAIN next)}}
  BY <1>2 DEF Refused, Accepted, SortedOrders
<1>4. ASSUME NEW v \in MetaApply(s, h, c)
      PROVE  v = IF c.action = "OTHER" THEN [ok |-> FALSE, state |-> s, root |-> h]
                 ELSE [ok |-> TRUE, state |-> next,
                       root |-> MetadataRoot(next, Sorted(DOMAIN next))]
  BY <1>3, <1>4
<1>5. o = p
  BY <1>4
<1>6. CASE c.action = "OTHER"
  <2>1. o = [ok |-> FALSE, state |-> s, root |-> h]
    BY <1>4, <1>6
  <2> QED
    BY <1>5, <2>1 DEF Succeeds, Fails, Traceless
<1>7. CASE c.action # "OTHER"
  <2>1. o.ok = TRUE
    BY <1>4, <1>7
  <2> QED
    BY <1>5, <2>1 DEF Succeeds, Fails, Traceless
<1> QED
  BY <1>6, <1>7

\* dist-config has one outcome, and one that is refused leaves no trace unless
\* its action is unknown.
LEMMA ConfigSingle ==
    ASSUME NEW s, NEW h, NEW c,
           NEW o \in ConfigApply(s, h, c), NEW p \in ConfigApply(s, h, c)
    PROVE  /\ o = p
           /\ Succeeds(o) \/ (Fails(o) /\ (c.action # "OTHER" => Traceless(o, s, h)))
<1>1. PICK ns : ns = IF c.namespace \in DOMAIN s THEN s[c.namespace] ELSE <<>>
  OBVIOUS
<1>2. PICK next : next = Put(s, c.namespace,
                             CASE c.action = "SET"   -> Put(ns, c.key, c.value)
                               [] c.action = "DEL"   -> Del(ns, c.key)
                               [] c.action = "OTHER" -> ns)
  OBVIOUS
<1>3. ConfigApply(s, h, c) =
        IF c.action = "MALFORMED" THEN Refused(s, h)
        ELSE IF c.action = "OTHER" THEN Refused(next, h)
        ELSE Accepted(next, LAMBDA k : ConfigRoot(next, k), SortedOrders(DOMAIN next))
  BY <1>1, <1>2 DEF ConfigApply
<1>4. ConfigApply(s, h, c) =
        IF c.action = "MALFORMED" THEN {[ok |-> FALSE, state |-> s, root |-> h]}
        ELSE IF c.action = "OTHER" THEN {[ok |-> FALSE, state |-> next, root |-> h]}
        ELSE {[ok |-> TRUE, state |-> next, root |-> ConfigRoot(next, k)]
                : k \in {Sorted(DOMAIN next)}}
  BY <1>3 DEF Refused, Accepted, SortedOrders
<1>5. ASSUME NEW v \in ConfigApply(s, h, c)
      PROVE  v = IF c.action = "MALFORMED" THEN [ok |-> FALSE, state |-> s, root |-> h]
                 ELSE IF c.action = "OTHER" THEN [ok |-> FALSE, state |-> next, root |-> h]
                 ELSE [ok |-> TRUE, state |-> next,
                       root |-> ConfigRoot(next, Sorted(DOMAIN next))]
  BY <1>4, <1>5
<1>6. o = p
  BY <1>5
<1>7. CASE c.action = "MALFORMED"
  <2>1. o = [ok |-> FALSE, state |-> s, root |-> h]
    BY <1>5, <1>7
  <2> QED
    BY <1>6, <2>1 DEF Succeeds, Fails, Traceless
<1>8. CASE c.action = "OTHER"
  <2>1. o = [ok |-> FALSE, state |-> next, root |-> h]
    BY <1>5, <1>8
  <2> QED
    BY <1>6, <1>8, <2>1 DEF Succeeds, Fails, Traceless
<1>9. CASE c.action # "MALFORMED" /\ c.action # "OTHER"
  <2>1. o.ok = TRUE
    BY <1>5, <1>9
  <2> QED
    BY <1>6, <2>1 DEF Succeeds, Fails, Traceless
<1> QED
  BY <1>7, <1>8, <1>9

\* The kv-store has one way to succeed, and a command that is no write leaves
\* no trace.
LEMMA KVSingle ==
    ASSUME NEW s, NEW h, NEW c, NEW o \in KVApply(s, h, c), NEW p \in KVApply(s, h, c)
    PROVE  /\ Succeeds(o) /\ Succeeds(p) => o = p
           /\ Succeeds(o) \/ (Fails(o) /\ (c.op = "OTHER" => Traceless(o, s, h)))
           /\ Succeeds(o) => o.state.disk = Write(s.disk, c)
           /\ KVState(s) => KVState(o.state) /\ (Fails(o) => o.state.disk = s.disk)
<1>1. PICK mem, lost : /\ mem = Write(s.mem, c)
                       /\ lost = [s EXCEPT !.mem = mem]
  OBVIOUS
<1>2. KVApply(s, h, c) =
        IF c.op = "OTHER" THEN Refused(s, h)
        ELSE Accepted([mem |-> mem, disk |-> Stored(s.disk, c)],
                      LAMBDA k : KVRoot(mem, k), SortedOrders(DOMAIN mem))
             \cup (IF StorageMayFail THEN Refused(lost, h) ELSE {})
  BY <1>1 DEF KVApply
<1>3. KVApply(s, h, c) =
        IF c.op = "OTHER" THEN {[ok |-> FALSE, state |-> s, root |-> h]}
        ELSE {[ok |-> TRUE, state |-> [mem |-> mem, disk |-> Write(s.disk, c)],
               root |-> KVRoot(mem, k)] : k \in {Sorted(DOMAIN mem)}}
             \cup (IF StorageMayFail THEN {[ok |-> FALSE, state |-> lost, root |-> h]}
                                     ELSE {})
  BY <1>2 DEF Refused, Accepted, SortedOrders, Stored
<1>4. CASE c.op = "OTHER"
  <2>1. o = [ok |-> FALSE, state |-> s, root |-> h]
    BY <1>3, <1>4
  <2> QED
    BY <1>4, <2>1, <1>3 DEF Succeeds, Fails, Traceless
<1>5. CASE c.op # "OTHER"
  <2>1. ASSUME NEW v \in KVApply(s, h, c)
        PROVE  \/ v = [ok |-> TRUE, state |-> [mem |-> mem, disk |-> Write(s.disk, c)],
                       root |-> KVRoot(mem, Sorted(DOMAIN mem))]
               \/ v = [ok |-> FALSE, state |-> lost, root |-> h]
    BY <1>3, <1>5, <2>1
  <2>2. KVState(s) => KVState(lost) /\ lost.disk = s.disk
    BY <1>1 DEF KVState
  <2>3. KVState([mem |-> mem, disk |-> Write(s.disk, c)])
    BY DEF KVState
  <2>4. CASE o = [ok |-> FALSE, state |-> lost, root |-> h]
    BY <1>5, <2>2, <2>4 DEF Succeeds, Fails
  <2>5. CASE o = [ok |-> TRUE, state |-> [mem |-> mem, disk |-> Write(s.disk, c)],
                  root |-> KVRoot(mem, Sorted(DOMAIN mem))]
    <3>1. o.ok = TRUE /\ o.state = [mem |-> mem, disk |-> Write(s.disk, c)]
      BY <2>5
    <3>2. Succeeds(o) /\ ~Fails(o) /\ KVState(o.state) /\ o.state.disk = Write(s.disk, c)
      BY <2>3, <3>1 DEF Succeeds, Fails
    <3>3. Succeeds(p) => o = p
      BY <2>1, <2>5 DEF Succeeds
    <3> QED
      BY <3>2, <3>3
  <2> QED
    BY <2>1, <2>4, <2>5
<1> QED
  BY <1>4, <1>5

\* The handlers have one way to succeed.
LEMMA OutcomeSingle ==
    ASSUME NEW t \in HandlerType, NEW s, NEW h, NEW c,
           NEW o \in Outcomes(t, s, h, c), NEW p \in Outcomes(t, s, h, c)
    PROVE  /\ Succeeds(o) /\ Succeeds(p) => o = p
           /\ Succeeds(o) \/ (Fails(o) /\ (~Scars(t, c) => Traceless(o, s, h)))
<1>1. CASE t = "meta"
  <2>1. o \in MetaApply(s, h, c) /\ p \in MetaApply(s, h, c)
    BY <1>1 DEF Outcomes
  <2> QED
    BY <2>1, MetaSingle, Zenon
<1>2. CASE t = "config"
  <2>1. o \in ConfigApply(s, h, c) /\ p \in ConfigApply(s, h, c)
    BY <1>2 DEF Outcomes
  <2> QED
    BY <1>2, <2>1, ConfigSingle, Zenon DEF Scars
<1>3. CASE t = "kv"
  <2>1. o \in KVApply(s, h, c) /\ p \in KVApply(s, h, c)
    BY <1>3 DEF Outcomes
  <2> QED
    BY <1>3, <2>1, KVSingle, Zenon DEF Scars
<1>4. CASE t = "rwa"
  <2>1. Outcomes(t, s, h, c) =
          IF c.action = "MALFORMED" \/ c.asset \in DOMAIN s
            THEN {[ok |-> FALSE, state |-> s, root |-> h]}
            ELSE {[ok |-> TRUE, state |-> Put(s, c.asset, c.shares), root |-> h]}
    BY <1>4 DEF Outcomes, Execute, Refused
  <2>2. ASSUME NEW v \in Outcomes(t, s, h, c)
        PROVE  v = IF c.action = "MALFORMED" \/ c.asset \in DOMAIN s
                     THEN [ok |-> FALSE, state |-> s, root |-> h]
                     ELSE [ok |-> TRUE, state |-> Put(s, c.asset, c.shares), root |-> h]
    BY <2>1, <2>2
  <2>3. o = p
    BY <2>2
  <2>4. CASE c.action = "MALFORMED" \/ c.asset \in DOMAIN s
    <3>1. o = [ok |-> FALSE, state |-> s, root |-> h]
      BY <2>2, <2>4
    <3> QED
      BY <2>3, <3>1 DEF Succeeds, Fails, Traceless
  <2>5. CASE ~(c.action = "MALFORMED" \/ c.asset \in DOMAIN s)
    <3>1. o.ok = TRUE
      BY <2>2, <2>5
    <3> QED
      BY <2>3, <3>1 DEF Succeeds, Fails, Traceless
  <2> QED
    BY <2>4, <2>5
<1> QED
  BY <1>1, <1>2, <1>3, <1>4, RouterAssumption

\* The settings outside of namespace n, and those of a namespace n that is m.
Elsewhere(s, n) == {e \in Settings(s) : e[1] # n}
Within(n, m)    == {<<n, k, m[k]>> : k \in DOMAIN m}

\* A namespace is replaced.
LEMMA SettingsPut ==
    ASSUME NEW s, NEW n, NEW m
    PROVE  Settings(Put(s, n, m)) = Elsewhere(s, n) \cup Within(n, m)
<1>0. PICK S : S = Elsewhere(s, n) \cup Within(n, m)
  OBVIOUS
<1> USE <1>0 DEF Elsewhere, Within
<1>1. PICK f : f = Put(s, n, m)
  OBVIOUS
<1>2. DOMAIN f = DOMAIN s \cup {n} /\ f[n] = m /\ \A x \in DOMAIN s : x # n => f[x] = s[x]
  BY <1>1 DEF Put
<1>3. ASSUME NEW e \in Settings(f) PROVE e \in S
  <2>1. PICK x \in DOMAIN f : e \in {<<x, k, f[x][k]>> : k \in DOMAIN f[x]}
    BY <1>3 DEF Settings
  <2>2. CASE x = n
    BY <1>2, <2>1, <2>2
  <2>3. CASE x # n
    <3>1. x \in DOMAIN s /\ f[x] = s[x] /\ e[1] = x
      BY <1>2, <2>1, <2>3
    <3>2. e \in {<<x, k, s[x][k]>> : k \in DOMAIN s[x]}
      BY <2>1, <3>1
    <3> QED
      BY <2>3, <3>1, <3>2 DEF Settings
  <2> QED
    BY <2>2, <2>3
<1>4. ASSUME NEW e \in S PROVE e \in Settings(f)
  <2>1. CASE e \in {<<n, k, m[k]>> : k \in DOMAIN m}
    <3>1. n \in DOMAIN f /\ e \in {<<n, k, f[n][k]>> : k \in DOMAIN f[n]}
      BY <1>2, <2>1
    <3> QED
      BY <3>1 DEF Settings
  <2>2. CASE e \in Settings(s) /\ e[1] # n
    <3>1. PICK x \in DOMAIN s : e \in {<<x, k, s[x][k]>> : k \in DOMAIN s[x]}
      BY <2>2 DEF Settings
    <3>2. x \in DOMAIN f /\ f[x] = s[x]
      BY <1>2, <2>2, <3>1
    <3>3. e \in {<<x, k, f[x][k]>> : k \in DOMAIN f[x]}
      BY <3>1, <3>2
    <3> QED
      BY <3>2, <3>3 DEF Settings
  <2> QED
    BY <1>4, <2>1, <2>2
<1> QED
  BY <1>1, <1>3, <1>4

\* The settings in one namespace, and those in the others.
LEMMA SettingsOf ==
    ASSUME NEW s, NEW n, NEW ns, ns = IF n \in DOMAIN s THEN s[n] ELSE <<>>
    PROVE  {e \in Settings(s) : e[1] = n} = Within(n, ns)
<1> USE DEF Within
<1>1. CASE n \in DOMAIN s
  <2>1. ASSUME NEW e \in Settings(s), e[1] = n PROVE e \in {<<n, k, ns[k]>> : k \in DOMAIN ns}
    <3>1. PICK x \in DOMAIN s : e \in {<<x, k, s[x][k]>> : k \in DOMAIN s[x]}
      BY <2>1 DEF Settings
    <3>2. x = n
      BY <2>1, <3>1
    <3> QED
      BY <1>1, <3>1, <3>2
  <2>2. ASSUME NEW k \in DOMAIN ns PROVE <<n, k, ns[k]>> \in Settings(s)
    <3>1. <<n, k, ns[k]>> \in {<<n, j, s[n][j]>> : j \in DOMAIN s[n]}
      BY <1>1
    <3> QED
      BY <1>1, <3>1 DEF Settings
  <2> QED
    BY <2>1, <2>2
<1>2. CASE n \notin DOMAIN s
  <2>1. DOMAIN ns = {}
    BY <1>2
  <2>2. ASSUME NEW e \in Settings(s) PROVE e[1] # n
    <3>1. PICK x \in DOMAIN s : e \in {<<x, k, s[x][k]>> : k \in DOMAIN s[x]}
      BY <2>2 DEF Settings
    <3> QED
      BY <1>2, <3>1
  <2> QED
    BY <2>1, <2>2
<1> QED
  BY <1>1, <1>2

\* dist-config keeps its settings when it refuses, and changes one otherwise.
LEMMA ConfigKept ==
    ASSUME NEW s, NEW h, NEW c \in ConfigPayload, NEW o \in ConfigApply(s, h, c)
    PROVE  /\ Succeeds(o) => Settings(o.state) = KeptAfter("config", Settings(s), c)
           /\ Fails(o) => Settings(o.state) = Settings(s)
<1>1. PICK ns : ns = IF c.namespace \in DOMAIN s THEN s[c.namespace] ELSE <<>>
  OBVIOUS
<1>2. PICK m : m = CASE c.action = "SET"   -> Put(ns, c.key, c.value)
                     [] c.action = "DEL"   -> Del(ns, c.key)
                     [] c.action = "OTHER" -> ns
  OBVIOUS
<1>3. PICK next : next = Put(s, c.namespace, m)
  OBVIOUS
<1>4. ConfigApply(s, h, c) =
        IF c.action = "MALFORMED" THEN Refused(s, h)
        ELSE IF c.action = "OTHER" THEN Refused(next, h)
        ELSE Accepted(next, LAMBDA k : ConfigRoot(next, k), SortedOrders(DOMAIN next))
  BY <1>1, <1>2, <1>3 DEF ConfigApply
<1>5. ConfigApply(s, h, c) =
        IF c.action = "MALFORMED" THEN {[ok |-> FALSE, state |-> s, root |-> h]}
        ELSE IF c.action = "OTHER" THEN {[ok |-> FALSE, state |-> next, root |-> h]}
        ELSE {[ok |-> TRUE, state |-> next, root |-> ConfigRoot(next, k)]
                : k \in {Sorted(DOMAIN next)}}
  BY <1>4 DEF Refused, Accepted, SortedOrders
<1>6. PICK A, B : A = Elsewhere(s, c.namespace) /\ B = Within(c.namespace, ns)
  OBVIOUS
<1>7. Settings(s) = A \cup B /\ Settings(next) = A \cup Within(c.namespace, m)
  <2>1. Settings(s) = Elsewhere(s, c.namespace)
                      \cup {e \in Settings(s) : e[1] = c.namespace}
    BY DEF Elsewhere
  <2>2. {e \in Settings(s) : e[1] = c.namespace} = B
    BY <1>1, <1>6, SettingsOf
  <2> QED
    BY <1>3, <1>6, <2>1, <2>2, SettingsPut
<1>8. \A k : Unset(Settings(s), c.namespace, k) =
              A \cup {<<c.namespace, j, ns[j]>> : j \in DOMAIN ns \ {k}}
  <2> TAKE k
  <2>1. \A e \in A : ~(e[1] = c.namespace /\ e[2] = k)
    BY <1>6 DEF Elsewhere
  <2>2. {e \in B : ~(e[1] = c.namespace /\ e[2] = k)} =
          {<<c.namespace, j, ns[j]>> : j \in DOMAIN ns \ {k}}
    BY <1>6 DEF Within
  <2> QED
    BY <1>7, <2>1, <2>2 DEF Unset
<1>9. CASE c.action = "MALFORMED"
  <2>1. o.ok = FALSE /\ o.state = s
    BY <1>5, <1>9
  <2> QED
    BY <2>1 DEF Succeeds, Fails
<1>10. CASE c.action = "OTHER"
  <2>1. o.ok = FALSE /\ o.state = next /\ m = ns
    BY <1>2, <1>5, <1>10
  <2> QED
    BY <1>6, <1>7, <2>1 DEF Succeeds, Fails
<1>11. CASE c.action = "SET"
  <2>1. o.ok = TRUE /\ o.state = next /\ m = Put(ns, c.key, c.value)
    BY <1>2, <1>5, <1>11
  <2>2. /\ DOMAIN m = DOMAIN ns \cup {c.key} /\ m[c.key] = c.value
        /\ \A k \in DOMAIN ns : k # c.key => m[k] = ns[k]
    BY <2>1 DEF Put
  <2>3. Within(c.namespace, m) =
          {<<c.namespace, k, ns[k]>> : k \in DOMAIN ns \ {c.key}}
          \cup {<<c.namespace, c.key, c.value>>}
    BY <2>2 DEF Within
  <2>4. KeptAfter("config", Settings(s), c) =
          Unset(Settings(s), c.namespace, c.key) \cup {<<c.namespace, c.key, c.value>>}
    BY <1>11 DEF KeptAfter
  <2> QED
    BY <1>7, <1>8, <2>1, <2>3, <2>4 DEF Succeeds, Fails
<1>12. CASE c.action = "DEL"
  <2>1. o.ok = TRUE /\ o.state = next /\ m = Del(ns, c.key)
    BY <1>2, <1>5, <1>12
  <2>2. DOMAIN m = DOMAIN ns \ {c.key} /\ \A k \in DOMAIN m : m[k] = ns[k]
    BY <2>1 DEF Del, Restrict
  <2>3. Within(c.namespace, m) =
          {<<c.namespace, k, ns[k]>> : k \in DOMAIN ns \ {c.key}}
    BY <2>2 DEF Within
  <2>4. KeptAfter("config", Settings(s), c) = Unset(Settings(s), c.namespace, c.key)
    BY <1>12 DEF KeptAfter
  <2> QED
    BY <1>7, <1>8, <2>1, <2>3, <2>4 DEF Succeeds, Fails
<1> QED
  BY <1>9, <1>10, <1>11, <1>12 DEF ConfigPayload

\* A failure leaves what is kept, a commit changes it as the command says.
LEMMA OutcomeKept ==
    ASSUME NEW t \in HandlerType, NEW s, NEW h, NEW c \in Payload(t),
           t = "kv" => KVState(s), NEW o \in Outcomes(t, s, h, c)
    PROVE  /\ Succeeds(o) => Kept(t, o.state) = KeptAfter(t, Kept(t, s), c)
           /\ Fails(o) => Kept(t, o.state) = Kept(t, s)
           /\ t = "kv" => KVState(o.state)
<1>1. CASE t = "meta"
  <2>1. PICK next : next = IF c.action = "PUT_META" THEN Put(s, c.objectId, c.metadata)
                                                    ELSE Del(s, c.objectId)
    OBVIOUS
  <2>2. o \in IF c.action = "OTHER" THEN Refused(s, h)
              ELSE Accepted(next, LAMBDA k : MetadataRoot(next, k), SortedOrders(DOMAIN next))
    BY <1>1, <2>1 DEF Outcomes, MetaApply
  <2>3. (Succeeds(o) => o.state = next) /\ (Fails(o) => o.state = s)
    BY <2>2 DEF Refused, Accepted, Succeeds, Fails
  <2> QED
    BY <1>1, <2>1, <2>3 DEF Kept, KeptAfter
<1>2. CASE t = "config"
  <2>1. o \in ConfigApply(s, h, c) /\ c \in ConfigPayload
    BY <1>2 DEF Outcomes, Payload
  <2>2. Kept(t, o.state) = Settings(o.state) /\ Kept(t, s) = Settings(s)
    BY <1>2 DEF Kept
  <2> QED
    BY <1>2, <2>1, <2>2, ConfigKept
<1>3. CASE t = "kv"
  <2>1. o \in KVApply(s, h, c) /\ KVState(s)
    BY <1>3 DEF Outcomes
  <2>2. Kept(t, o.state) = o.state.disk /\ Kept(t, s) = s.disk
    BY <1>3 DEF Kept
  <2>3. KeptAfter(t, s.disk, c) = Write(s.disk, c)
    BY <1>3 DEF KeptAfter
  <2> QED
    BY <2>1, <2>2, <2>3, KVSingle
<1>4. CASE t = "rwa"
  <2>1. o \in IF c.action = "MALFORMED" \/ c.asset \in DOMAIN s
                THEN {[ok |-> FALSE, state |-> s, root |-> h]}
                ELSE {[ok |-> TRUE, state |-> Put(s, c.asset, c.shares), root |-> h]}
    BY <1>4 DEF Outcomes, Execute, Refused
  <2>2. (Succeeds(o) => o.state = Put(s, c.asset, c.shares)) /\ (Fails(o) => o.state = s)
    BY <2>1 DEF Succeeds, Fails
  <2> QED
    BY <1>4, <2>2 DEF Kept, KeptAfter
<1> QED
  BY <1>1, <1>2, <1>3, <1>4, RouterAssumption

\* A commit is determined by the command and by what was there.
LEMMA CommitDeterministic ==
    ASSUME NEW v, NEW x, NEW y, NEW z, NEW k \in Routed,
           Commits(v, x, y, k), Commits(v, x, z, k)
    PROVE  y = z
<1>1. CASE v # "whole"
  BY <1>1 DEF Commits
<1>2. CASE v = "whole"
  <2>0. k[1] \in HandlerType /\ CommitsWhole(x, y, k) /\ CommitsWhole(x, z, k)
    BY <1>2 DEF Routed, Commits
  <2>1. PICK o \in Outcomes(k[1], x.machines[k[1]], x.roots[k[1]], k[2]) :
          /\ Succeeds(o)
          /\ y = [machines |-> [x.machines EXCEPT ![k[1]] = o.state],
                  roots    |-> [x.roots EXCEPT ![k[1]] = o.root],
                  current  |-> Append(x.current, o.root)]
    BY <2>0 DEF CommitsWhole
  <2>2. PICK p \in Outcomes(k[1], x.machines[k[1]], x.roots[k[1]], k[2]) :
          /\ Succeeds(p)
          /\ z = [machines |-> [x.machines EXCEPT ![k[1]] = p.state],
                  roots    |-> [x.roots EXCEPT ![k[1]] = p.root],
                  current  |-> Append(x.current, p.root)]
    BY <2>0 DEF CommitsWhole
  <2>3. o = p
    BY <2>0, <2>1, <2>2, OutcomeSingle
  <2> QED
    BY <2>1, <2>2, <2>3
<1> QED
  BY <1>1, <1>2

\* Fewer routers, which hold what they held: the history stands.
LEMMA HistoryKept ==
    ASSUME NEW v, NEW T, NEW L, NEW C, NEW X, NEW M, NEW D, NEW Y, HistoryOf(v, T, L, C, X),
           M \subseteq L, \A r \in M : D[r] = C[r] /\ Y[r] = X[r]
    PROVE  HistoryOf(v, T, M, D, Y)
<1> SUFFICES ASSUME NEW r \in M
             PROVE  /\ T[r][Len(D[r])] = Y[r]
                    /\ \A n \in 1..Len(D[r]) : Commits(v, T[r][n - 1], T[r][n], D[r][n])
                    /\ \A q \in M : \A n \in 0..Len(D[r]) :
                          n <= Len(D[q]) /\ (\A j \in 1..n : D[r][j] = D[q][j])
                            => T[r][n] = T[q][n]
  BY DEF HistoryOf
<1>1. r \in L /\ D[r] = C[r] /\ Y[r] = X[r]
  OBVIOUS
<1>2. T[r][Len(C[r])] = X[r]
  BY <1>1 DEF HistoryOf
<1>3. \A n \in 1..Len(C[r]) : Commits(v, T[r][n - 1], T[r][n], C[r][n])
  BY <1>1 DEF HistoryOf
<1>4. ASSUME NEW q \in M, NEW n \in 0..Len(D[r]), n <= Len(D[q]),
             \A j \in 1..n : D[r][j] = D[q][j]
      PROVE  T[r][n] = T[q][n]
  <2>1. q \in L /\ D[q] = C[q]
    OBVIOUS
  <2> QED
    BY <1>1, <1>4, <2>1 DEF HistoryOf
<1> QED
  BY <1>1, <1>2, <1>3, <1>4


\* Router r of L commits k: the routers, with history T, have committed C and
\* hold X before, D and Y after.
Growth(v, T, L, C, X, r, k, D, Y) ==
    /\ L \subseteq Router /\ C \in [Router -> Seq(Routed)] /\ HistoryOf(v, T, L, C, X)
    /\ r \in L /\ k \in Routed
    /\ Commits(v, X[r], Y[r], k) /\ D[r] = Append(C[r], k)
    /\ \A q \in L : q # r => D[q] = C[q] /\ Y[q] = X[q]

\* A router commits: its history gets longer by one.
LEMMA HistoryGrows ==
    ASSUME NEW v, NEW T, NEW L, NEW C, NEW X, NEW r, NEW k, NEW D, NEW Y,
           Growth(v, T, L, C, X, r, k, D, Y)
    PROVE  \E U : HistoryOf(v, U, L, D, Y)
<1>00. \A i \in Nat : (i + 1) - 1 = i /\ i \in 0..i
  OBVIOUS
<1>0. /\ L \subseteq Router /\ C \in [Router -> Seq(Routed)] /\ HistoryOf(v, T, L, C, X)
      /\ r \in L /\ k \in Routed
      /\ Commits(v, X[r], Y[r], k) /\ D[r] = Append(C[r], k)
      /\ \A q \in L : q # r => D[q] = C[q] /\ Y[q] = X[q]
  BY DEF Growth
<1> USE <1>0
<1> DEFINE y == Y[r]
<1>1. PICK N \in Nat : N = Len(C[r])
  <2>1. C[r] \in Seq(Routed)
    OBVIOUS
  <2> QED
    BY <2>1, LenProperties
<1>2. Len(D[r]) = N + 1 /\ D[r][N + 1] = k /\ \A n \in 1..N : D[r][n] = C[r][n]
  <2>1. C[r] \in Seq(Routed)
    OBVIOUS
  <2> QED
    BY <1>1, <2>1, AppendProperties
<1>3. PICK U : U = [q \in L |-> IF q = r THEN [n \in Nat |-> IF n = N + 1 THEN y ELSE T[r][n]]
                                         ELSE T[q]]
  OBVIOUS
<1>4. /\ U[r][N + 1] = y
      /\ \A n \in 0..N : U[r][n] = T[r][n]
      /\ \A q \in L : q # r => U[q] = T[q]
  <2>1. U[r] = [n \in Nat |-> IF n = N + 1 THEN y ELSE T[r][n]]
    BY <1>3
  <2>2. N + 1 \in Nat /\ \A n \in 0..N : n \in Nat /\ n # N + 1
    OBVIOUS
  <2> QED
    BY <1>3, <2>1, <2>2
<1>5. /\ T[r][N] = X[r]
      /\ \A n \in 1..N : Commits(v, T[r][n - 1], T[r][n], C[r][n])
  BY <1>1 DEF HistoryOf
<1>6. ASSUME NEW b \in L, b # r, NEW n \in 0..(N + 1), n <= Len(C[b]),
             \A j \in 1..n : D[r][j] = C[b][j]
      PROVE  U[r][n] = T[b][n]
  <2>1. ASSUME NEW i \in 0..N, i <= n PROVE T[r][i] = T[b][i]
    <3>1. Len(C[b]) \in Nat
      <4>1. C[b] \in Seq(Routed)
        OBVIOUS
      <4> QED
        BY <4>1, LenProperties
    <3>2. i <= Len(C[b]) /\ i \in 0..Len(C[r])
      BY <1>1, <1>6, <2>1, <3>1
    <3>3. \A j \in 1..i : j \in 1..n /\ j \in 1..N
      BY <2>1
    <3>4. \A j \in 1..i : C[r][j] = C[b][j]
      BY <1>2, <1>6, <3>3
    <3> QED
      BY <3>2, <3>4 DEF HistoryOf
  <2>2. CASE n \in 0..N
    BY <1>4, <2>1, <2>2
  <2>3. CASE n = N + 1
    <3>1. N \in 0..N /\ N <= n /\ n - 1 = N /\ n \in 1..n /\ n \in 1..Len(C[b])
      <4>1. Len(C[b]) \in Nat
        <5>1. C[b] \in Seq(Routed)
          OBVIOUS
        <5> QED
          BY <5>1, LenProperties
      <4> QED
        BY <1>6, <2>3, <4>1
    <3>2. T[r][N] = T[b][N]
      BY <2>1, <3>1
    <3>3. Commits(v, T[b][n - 1], T[b][n], C[b][n])
      BY <3>1 DEF HistoryOf
    <3>4. C[b][n] = k
      BY <1>2, <1>6, <2>3, <3>1
    <3>5. Commits(v, X[r], T[b][n], k)
      BY <1>5, <3>1, <3>2, <3>3, <3>4
    <3> QED
      BY <1>4, <2>3, <3>5, CommitDeterministic
  <2> QED
    BY <2>2, <2>3
<1>7. ASSUME NEW a \in L
      PROVE  /\ U[a][Len(D[a])] = Y[a]
             /\ \A n \in 1..Len(D[a]) : Commits(v, U[a][n - 1], U[a][n], D[a][n])
  <2>1. CASE a # r
    BY <1>4, <2>1 DEF HistoryOf
  <2>2. CASE a = r
    <3>1. ASSUME NEW n \in 1..(N + 1) PROVE Commits(v, U[r][n - 1], U[r][n], D[r][n])
      <4>1. CASE n \in 1..N
        <5>1. n - 1 \in 0..N /\ n \in 0..N
          BY <4>1
        <5> QED
          BY <1>2, <1>4, <1>5, <4>1, <5>1
      <4>2. CASE n = N + 1
        <5>1. n - 1 = N /\ N \in 0..N
          BY <1>00, <4>2, Zenon
        <5>2. U[r][n - 1] = X[r] /\ U[r][n] = y /\ D[r][n] = k
          BY <1>2, <1>4, <1>5, <4>2, <5>1
        <5> QED
          BY <5>2
      <4>3. n \in 1..N \/ n = N + 1
        OBVIOUS
      <4> QED
        BY <4>1, <4>2, <4>3
    <3> QED
      BY <1>2, <1>4, <2>2, <3>1
  <2> QED
    BY <2>1, <2>2
<1>8. ASSUME NEW a \in L, NEW b \in L, NEW n \in 0..Len(D[a]), n <= Len(D[b]),
             \A j \in 1..n : D[a][j] = D[b][j]
      PROVE  U[a][n] = U[b][n]
  <2>1. CASE a # r /\ b # r
    <3>1. D[a] = C[a] /\ D[b] = C[b] /\ U[a] = T[a] /\ U[b] = T[b]
      BY <1>4, <2>1
    <3> QED
      BY <1>8, <3>1 DEF HistoryOf
  <2>2. CASE a = r /\ b # r
    <3>1. /\ D[b] = C[b] /\ n \in 0..(N + 1) /\ n <= Len(C[b])
          /\ \A j \in 1..n : D[r][j] = C[b][j]
      BY <1>2, <1>8, <2>2
    <3> QED
      BY <1>4, <1>6, <2>2, <3>1
  <2>3. CASE a # r /\ b = r
    <3>1. Len(C[a]) \in Nat
      <4>1. C[a] \in Seq(Routed)
        OBVIOUS
      <4> QED
        BY <4>1, LenProperties
    <3>2. D[a] = C[a] /\ n \in 0..(N + 1) /\ n <= Len(C[a])
      BY <1>2, <1>8, <2>3, <3>1
    <3>3. \A j \in 1..n : D[r][j] = C[a][j]
      BY <1>8, <2>3, <3>2
    <3> QED
      BY <1>4, <1>6, <2>3, <3>2, <3>3
  <2> QED
    BY <2>1, <2>2, <2>3, Zenon
<1>9. HistoryOf(v, U, L, D, Y)
  BY <1>7, <1>8 DEF HistoryOf
<1> QED
  BY <1>9

Matrix(f, A, B) == f = [x \in A |-> [y \in B |-> f[x][y]]]

\* A function of two arguments stays one when one of its values is replaced.
LEMMA MatrixUpdated ==
    ASSUME NEW A, NEW B, NEW f, NEW g, NEW a, NEW b, NEW v,
           Matrix(f, A, B), g = [f EXCEPT ![a][b] = v]
    PROVE  Matrix(g, A, B)
<1>1. DOMAIN f = A /\ \A x \in A : f[x] = [y \in B |-> f[x][y]]
  BY DEF Matrix
<1>2. g = [x \in A |-> IF x = a THEN [f[a] EXCEPT ![b] = v] ELSE f[x]]
  BY <1>1
<1>3. ASSUME NEW x \in A
      PROVE  g[x] = [y \in B |-> g[x][y]]
  <2>1. CASE x = a
    <3>1. g[x] = [f[x] EXCEPT ![b] = v]
      BY <1>2, <2>1
    <3>2. f[x] = [y \in B |-> f[x][y]]
      BY <1>1
    <3>3. DOMAIN f[x] = B
      BY <3>2
    <3>4. g[x] = [y \in B |-> IF y = b THEN v ELSE f[x][y]]
      BY <3>1, <3>3
    <3> QED
      BY <3>4
  <2>2. CASE x # a
    <3>1. g[x] = f[x]
      BY <1>2, <2>2
    <3> QED
      BY <1>1, <3>1
  <2> QED
    BY <2>1, <2>2
<1> QED
  BY <1>2, <1>3 DEF Matrix

\* A command of which the router has the handler: what it leaves behind.
LEMMA RouterHandled ==
    ASSUME RouterInv, NEW r \in Router, NEW tx, NEW t \in HandlerType,
           NEW c \in Payload(t), Routable(r, tx, t, c)
    PROVE  RouterInv'
<1>1. /\ RouterTyped
      /\ \E T : HistoryOf("whole", T, Unscarred, committed, [q \in Router |-> Holds(q)])
      /\ \E T : HistoryOf("kept", T, Router, committed, [q \in Router |-> Keeps(q)])
  BY DEF RouterInv
<1>2. PICK out \in Handled(r, t, c) :
        /\ machines' = [machines EXCEPT ![r][t] = out.state]
        /\ machineRoot' = [machineRoot EXCEPT ![r][t] = out.root]
        /\ currentRoot' = [currentRoot EXCEPT ![r] = RootAfter(r, out)]
        /\ committed' = [committed EXCEPT ![r] =
                           IF out.ok THEN Append(@, <<t, c>>) ELSE @]
        /\ scarred' = [scarred EXCEPT ![r] = @ \/ (~out.ok /\ Scars(t, c))]
        /\ UNCHANGED handlers
  BY Zenon DEF Routable
<1>3. out \in Outcomes(t, machines[r][t], machineRoot[r][t], c)
  BY DEF Handled, Outcomes
<1>4. Succeeds(out) \/ (Fails(out) /\ (~Scars(t, c) =>
                          Traceless(out, machines[r][t], machineRoot[r][t])))
  BY <1>3, OutcomeSingle
<1>4a. /\ Succeeds(out) => Kept(t, out.state) = KeptAfter(t, Kept(t, machines[r][t]), c)
       /\ Fails(out) => Kept(t, out.state) = Kept(t, machines[r][t])
       /\ t = "kv" => KVState(out.state)
  <2>1. t = "kv" => KVState(machines[r][t])
    BY <1>1, Zenon DEF RouterTyped
  <2> QED
    BY <1>3, <2>1, OutcomeKept, Zenon
<1>5. /\ Succeeds(out) => /\ committed' = [committed EXCEPT ![r] = Append(@, <<t, c>>)]
                          /\ currentRoot' = [currentRoot EXCEPT ![r] = Append(@, out.root)]
      /\ Fails(out) => /\ committed' = [committed EXCEPT ![r] = @]
                       /\ currentRoot' = [currentRoot EXCEPT ![r] = @]
  BY <1>1, <1>2 DEF Succeeds, Fails, RootAfter, RouterTyped
<1>6. <<t, c>> \in Routed
  BY DEF Routed
<1>7. committed[r] \in Seq(Routed) /\ Append(committed[r], <<t, c>>) \in Seq(Routed)
  <2>1. committed[r] \in Seq(Routed)
    BY <1>1 DEF RouterTyped
  <2> QED
    BY <1>6, <2>1, AppendProperties
<1>7a. /\ machines'[r][t] = out.state
       /\ \A u \in HandlerType : u # t => machines'[r][u] = machines[r][u]
       /\ \A q \in Router : q # r => machines'[q] = machines[q]
  BY <1>1, <1>2, ZenonT(40) DEF RouterTyped
<1>8. RouterTyped'
  <2>1. committed' \in [Router -> Seq(Routed)] /\ DOMAIN currentRoot' = Router
    BY <1>1, <1>4, <1>5, <1>7, ZenonT(40) DEF RouterTyped
  <2>2. scarred' \in [Router -> BOOLEAN]
    BY <1>1, <1>2, Zenon DEF RouterTyped
  <2>3. /\ machines' = [q \in Router |-> [u \in HandlerType |-> machines'[q][u]]]
        /\ machineRoot' = [q \in Router |-> [u \in HandlerType |-> machineRoot'[q][u]]]
        /\ handlers' \in [Router -> SUBSET HandlerType]
    <3>1. Matrix(machines, Router, HandlerType) /\ Matrix(machineRoot, Router, HandlerType)
      BY <1>1 DEF RouterTyped, Matrix
    <3>2. /\ machines' = [machines EXCEPT ![r][t] = out.state]
          /\ machineRoot' = [machineRoot EXCEPT ![r][t] = out.root]
      BY <1>2
    <3>3. Matrix(machines', Router, HandlerType)
      BY <3>1, <3>2, MatrixUpdated, Zenon
    <3>4. Matrix(machineRoot', Router, HandlerType)
      BY <3>1, <3>2, MatrixUpdated, Zenon
    <3>5. handlers' \in [Router -> SUBSET HandlerType]
      BY <1>1, <1>2 DEF RouterTyped
    <3> QED
      BY <3>3, <3>4, <3>5 DEF Matrix
  <2>4. "kv" \in HandlerType => \A q \in Router : KVState(machines'[q]["kv"])
    <3> SUFFICES ASSUME "kv" \in HandlerType, NEW q \in Router
                 PROVE  KVState(machines'[q]["kv"])
      OBVIOUS
    <3>1. CASE q = r /\ t = "kv"
      <4>1. machines'[q]["kv"] = out.state
        BY <1>7a, <3>1
      <4> QED
        BY <1>4a, <3>1, <4>1, Zenon
    <3>2. CASE ~(q = r /\ t = "kv")
      <4>1. machines'[q]["kv"] = machines[q]["kv"]
        BY <1>7a, <3>2
      <4> QED
        BY <1>1, <4>1, Zenon DEF RouterTyped
    <3> QED
      BY <3>1, <3>2
  <2> QED
    BY <2>1, <2>2, <2>3, <2>4 DEF RouterTyped
<1>9. PICK T, L, X : /\ L = Unscarred /\ X = [q \in Router |-> Holds(q)]
                     /\ HistoryOf("whole", T, L, committed, X)
  BY <1>1
<1>10. PICK M, Y : M = Unscarred' /\ Y = [q \in Router |-> Holds(q)']
  OBVIOUS
<1>11. ASSUME NEW q \in Router, q # r
       PROVE  Y[q] = X[q] /\ committed'[q] = committed[q] /\ scarred'[q] = scarred[q]
  BY <1>1, <1>2, <1>9, <1>10, <1>11 DEF Holds, RouterTyped
<1>12. M \subseteq L /\ M \subseteq Router /\ (r \in M /\ Fails(out) => ~Scars(t, c))
  <2>1. scarred'[r] = (scarred[r] \/ (~out.ok /\ Scars(t, c)))
    BY <1>1, <1>2 DEF RouterTyped
  <2> QED
    BY <1>9, <1>10, <1>11, <2>1 DEF Unscarred, Fails
<1>13. \E U : HistoryOf("whole", U, M, committed', Y)
  <2>1. CASE r \notin M
    BY <1>9, <1>11, <1>12, <2>1, HistoryKept
  <2>2. CASE r \in M /\ Fails(out)
    <3>1. out.state = machines[r][t] /\ out.root = machineRoot[r][t]
      BY <1>4, <1>12, <2>2 DEF Traceless, Succeeds, Fails
    <3>2. machines'[r] = machines[r] /\ machineRoot'[r] = machineRoot[r]
      BY <1>1, <1>2, <3>1, ZenonT(40) DEF RouterTyped
    <3>3. committed'[r] = committed[r] /\ currentRoot'[r] = currentRoot[r]
      BY <1>1, <1>5, <2>2 DEF RouterTyped
    <3>4. Y[r] = X[r]
      BY <1>9, <1>10, <3>2, <3>3 DEF Holds
    <3>5. \A q \in M : committed'[q] = committed[q] /\ Y[q] = X[q]
      BY <1>11, <1>12, <3>3, <3>4
    <3> QED
      BY <1>9, <1>12, <3>5, HistoryKept
  <2>3. CASE r \in M /\ Succeeds(out)
    <3>1. HistoryOf("whole", T, M, committed, X)
      BY <1>9, <1>12, HistoryKept
    <3>2. /\ machines'[r] = [machines[r] EXCEPT ![t] = out.state]
          /\ machineRoot'[r] = [machineRoot[r] EXCEPT ![t] = out.root]
          /\ currentRoot'[r] = Append(currentRoot[r], out.root)
          /\ committed'[r] = Append(committed[r], <<t, c>>)
      BY <1>1, <1>2, <1>5, <2>3 DEF RouterTyped
    <3>3. PICK k, y : k = <<t, c>> /\ y = Y[r]
      OBVIOUS
    <3>4. Commits("whole", X[r], y, k)
      <4>1. /\ X[r].machines = machines[r] /\ X[r].roots = machineRoot[r]
            /\ X[r].current = currentRoot[r] /\ k[1] = t /\ k[2] = c
        BY <1>9, <3>3 DEF Holds
      <4>2. y = [machines |-> [machines[r] EXCEPT ![t] = out.state],
                 roots    |-> [machineRoot[r] EXCEPT ![t] = out.root],
                 current  |-> Append(currentRoot[r], out.root)]
        BY <1>10, <3>2, <3>3 DEF Holds
      <4> QED
        BY <1>3, <2>3, <4>1, <4>2 DEF Commits, CommitsWhole
    <3>5. \A q \in M : q # r => committed'[q] = committed[q] /\ Y[q] = X[q]
      BY <1>11, <1>12
    <3>6. committed \in [Router -> Seq(Routed)]
      BY <1>1 DEF RouterTyped
    <3>7. PICK C, D : C = committed /\ D = committed'
      OBVIOUS
    <3>8. /\ C \in [Router -> Seq(Routed)] /\ HistoryOf("whole", T, M, C, X) /\ k \in Routed
          /\ D[r] = Append(C[r], k) /\ Commits("whole", X[r], Y[r], k) /\ r \in M
          /\ \A q \in M : q # r => D[q] = C[q] /\ Y[q] = X[q]
      BY <1>6, <2>3, <3>1, <3>2, <3>3, <3>4, <3>5, <3>6, <3>7
    <3>9. Growth("whole", T, M, C, X, r, k, D, Y)
      BY <1>12, <3>8 DEF Growth
    <3>10. \E U : HistoryOf("whole", U, M, D, Y)
      BY <3>9, HistoryGrows
    <3> QED
      BY <3>7, <3>10
  <2> QED
    BY <1>4, <2>1, <2>2, <2>3
<1>14. \E U : HistoryOf("kept", U, Router, committed', [q \in Router |-> Keeps(q)'])
  <2>1. PICK T2, X2, Y2, C, D :
          /\ X2 = [q \in Router |-> Keeps(q)] /\ Y2 = [q \in Router |-> Keeps(q)']
          /\ C = committed /\ D = committed' /\ HistoryOf("kept", T2, Router, C, X2)
    BY <1>1
  <2>2. ASSUME NEW q \in Router, q # r PROVE Y2[q] = X2[q] /\ D[q] = C[q]
    <3>1. machines'[q] = machines[q]
      BY <1>1, <1>2, <2>2 DEF RouterTyped
    <3> QED
      BY <1>11, <2>1, <2>2, <3>1 DEF Keeps
  <2>3. /\ machines'[r][t] = out.state
        /\ \A u \in HandlerType : u # t => machines'[r][u] = machines[r][u]
    BY <1>7a
  <2>4. Y2[r] = [u \in HandlerType |-> IF u = t THEN Kept(t, out.state) ELSE X2[r][u]]
    BY <2>1, <2>3 DEF Keeps
  <2>5. X2[r] = [u \in HandlerType |-> X2[r][u]] /\ X2[r][t] = Kept(t, machines[r][t])
    BY <2>1 DEF Keeps
  <2>6. CASE Fails(out)
    <3>1. D[r] = C[r]
      BY <1>1, <1>5, <2>1, <2>6 DEF RouterTyped
    <3>2. Y2[r] = X2[r]
      BY <1>4a, <2>4, <2>5, <2>6
    <3>3. \A q \in Router : D[q] = C[q] /\ Y2[q] = X2[q]
      BY <2>2, <3>1, <3>2
    <3>4. HistoryOf("kept", T2, Router, D, Y2)
      BY <2>1, <3>3, HistoryKept
    <3> QED
      BY <2>1, <3>4
  <2>7. CASE Succeeds(out)
    <3>1. PICK k : k = <<t, c>>
      OBVIOUS
    <3>2. k \in Routed /\ k[1] = t /\ k[2] = c /\ D[r] = Append(C[r], k)
      BY <1>1, <1>5, <1>6, <2>1, <2>7, <3>1 DEF RouterTyped
    <3>3. Y2[r] = [X2[r] EXCEPT ![t] = KeptAfter(t, X2[r][t], c)]
      BY <1>4a, <2>4, <2>5, <2>7
    <3>4. Commits("kept", X2[r], Y2[r], k)
      BY <3>2, <3>3 DEF Commits
    <3>5. Growth("kept", T2, Router, C, X2, r, k, D, Y2)
      BY <1>1, <2>1, <2>2, <3>2, <3>4 DEF Growth, RouterTyped
    <3>6. \E U : HistoryOf("kept", U, Router, D, Y2)
      BY <3>5, HistoryGrows
    <3> QED
      BY <2>1, <3>6
  <2> QED
    BY <1>4, <2>6, <2>7
<1> QED
  BY <1>8, <1>10, <1>13, <1>14 DEF RouterInv

\* Every step keeps the invariant.
LEMMA RouterStep == RouterInv /\ [RouterNext]_routerVars => RouterInv'
<1> SUFFICES ASSUME RouterInv, [RouterNext]_routerVars PROVE RouterInv'
  OBVIOUS
<1>1. ASSUME UNCHANGED <<machines, machineRoot, currentRoot, committed, scarred>>,
             handlers' \in [Router -> SUBSET HandlerType]
      PROVE  RouterInv'
  BY <1>1 DEF RouterInv, RouterTyped, Unscarred, Holds, Keeps
<1>2. ASSUME NEW r \in Router, NEW tx, Unroutable(r, tx) PROVE RouterInv'
  <2>1. UNCHANGED <<handlers, machines, machineRoot, currentRoot, committed, scarred>>
    BY <1>2 DEF Unroutable
  <2> QED
    BY <1>1, <2>1 DEF RouterInv, RouterTyped
<1>3. CASE UNCHANGED routerVars
  <2>1. UNCHANGED <<handlers, machines, machineRoot, currentRoot, committed, scarred>>
    BY <1>3 DEF routerVars
  <2> QED
    BY <1>1, <2>1 DEF RouterInv, RouterTyped
<1>4. ASSUME NEW r \in Router, NEW t \in HandlerType, RegisterHandler(r, t)
      PROVE  RouterInv'
  <2>1. /\ UNCHANGED <<machines, machineRoot, currentRoot, committed, scarred>>
        /\ handlers' = [handlers EXCEPT ![r] = @ \cup {t}]
    BY <1>4 DEF RegisterHandler
  <2>2. handlers' \in [Router -> SUBSET HandlerType]
    BY <2>1 DEF RouterInv, RouterTyped
  <2> QED
    BY <1>1, <2>1, <2>2
<1>5. ASSUME NEW r \in Router, NEW tx \in TxID, NEW t \in HandlerType,
             NEW c \in Payload(t), ApplyTransactional(r, tx, t, c)
      PROVE  RouterInv'
  <2>1. Routable(r, tx, t, c) \/ Unroutable(r, tx)
    BY <1>5, Zenon DEF ApplyTransactional
  <2> QED
    BY <1>2, <2>1, RouterHandled
<1>6. ASSUME NEW r \in Router, NEW tx \in TxID, ApplyMalformed(r, tx) PROVE RouterInv'
  BY <1>2, <1>6 DEF ApplyMalformed
<1> QED
  BY <1>3, <1>4, <1>5, <1>6, Zenon DEF RouterNext

\* Routers that committed the same commands through ApplyTransactional keep the
\* same settings, stored values, metadata and assets, whatever was refused or
\* rolled back, storage errors included; without a scar they have the same root
\* and the same machines.
THEOREM FailuresLeaveNoTrace == RouterSpec => []FailuresInvisible
<1>1. RouterInit => RouterInv
  <2> SUFFICES ASSUME RouterInit PROVE RouterInv
    OBVIOUS
  <2>1. RouterTyped
    <3>1. "kv" \in HandlerType => \A r \in Router : KVState(machines[r]["kv"])
      BY DEF RouterInit, EmptyState, KVState
    <3> QED
      BY <3>1, EmptySeq DEF RouterInit, RouterTyped
  <2>2. PICK x, y : /\ x = [machines |-> [t \in HandlerType |-> EmptyState(t)],
                            roots    |-> [t \in HandlerType |-> Genesis(t)],
                            current  |-> <<>>]
                    /\ y = [t \in HandlerType |-> Kept(t, EmptyState(t))]
    OBVIOUS
  <2>3. \A r \in Router : Holds(r) = x /\ Keeps(r) = y /\ committed[r] = <<>>
    BY <2>2 DEF RouterInit, Holds, Keeps
  <2>4. PICK T, X : T = [r \in Router |-> [n \in Nat |-> x]] /\ X = [r \in Router |-> Holds(r)]
    OBVIOUS
  <2>5. HistoryOf("whole", T, Unscarred, committed, X)
    BY <2>3, <2>4, EmptySeq DEF HistoryOf, Unscarred
  <2>6. PICK S, Y : S = [r \in Router |-> [n \in Nat |-> y]] /\ Y = [r \in Router |-> Keeps(r)]
    OBVIOUS
  <2>7. HistoryOf("kept", S, Router, committed, Y)
    BY <2>3, <2>6, EmptySeq DEF HistoryOf
  <2> QED
    BY <2>1, <2>4, <2>5, <2>6, <2>7 DEF RouterInv
<1>2. RouterInv => FailuresInvisible
  <2> SUFFICES ASSUME RouterInv, NEW r \in Router, NEW q \in Router,
                      committed[r] = committed[q]
               PROVE  /\ \A t \in HandlerType :
                            Kept(t, machines[r][t]) = Kept(t, machines[q][t])
                      /\ ~scarred[r] /\ ~scarred[q] =>
                            currentRoot[r] = currentRoot[q] /\ machines[r] = machines[q]
    BY DEF FailuresInvisible
  <2>1. PICK N \in Nat : N = Len(committed[r]) /\ N = Len(committed[q])
    BY LenProperties DEF RouterInv, RouterTyped
  <2>2. ASSUME NEW v, NEW T, NEW L, NEW X, HistoryOf(v, T, L, committed, X), r \in L, q \in L
        PROVE  X[r] = X[q]
    <3>1. T[r][N] = X[r] /\ T[q][N] = X[q] /\ T[r][N] = T[q][N]
      BY <2>1, <2>2 DEF HistoryOf
    <3> QED
      BY <3>1
  <2>3. Keeps(r) = Keeps(q)
    <3>1. PICK T, X : X = [p \in Router |-> Keeps(p)] /\ HistoryOf("kept", T, Router, committed, X)
      BY DEF RouterInv
    <3>2. X[r] = X[q]
      BY <2>2, <3>1
    <3> QED
      BY <3>1, <3>2
  <2>4. ASSUME ~scarred[r], ~scarred[q] PROVE Holds(r) = Holds(q)
    <3>1. PICK T, X : /\ X = [p \in Router |-> Holds(p)]
                      /\ HistoryOf("whole", T, Unscarred, committed, X)
      BY DEF RouterInv
    <3>2. X[r] = X[q]
      BY <2>2, <2>4, <3>1 DEF Unscarred
    <3> QED
      BY <3>1, <3>2
  <2>5. ASSUME NEW t \in HandlerType PROVE Kept(t, machines[r][t]) = Kept(t, machines[q][t])
    <3>1. Keeps(r)[t] = Keeps(q)[t]
      BY <2>3
    <3> QED
      BY <3>1 DEF Keeps
  <2> QED
    BY <2>4, <2>5 DEF Holds
<1> QED
  BY <1>1, <1>2, RouterStep, PTL DEF RouterSpec


-----------------------------------------------------------------------------
(* The peer table.  The index of a bucket is a proximity; from this        *)
(* follows what the calls make of the buckets.                             *)

\* A set of numbers that is not empty has a least one.
LEMMA LeastNumber ==
    ASSUME NEW T, T \subseteq Nat, T # {}
    PROVE  \E n \in T : \A m \in T : n <= m
<1>1. PICK n \in T : \A m \in T : <<m, n>> \notin OpToRel(<, Nat)
  BY WFMin, NatLessThanWellFounded, Zenon
<1>2. \A m \in T : <<m, n>> \in Nat \X Nat => ~(m < n)
  BY <1>1, Zenon DEF OpToRel
<1>3. \A m \in T : n <= m
  <2> SUFFICES ASSUME NEW m \in T PROVE n <= m
    OBVIOUS
  <2>1. m \in Nat /\ n \in Nat
    OBVIOUS
  <2>2. ~(m < n)
    BY <1>2, <2>1
  <2> QED
    BY <2>1, <2>2
<1> QED
  BY <1>3

\* A set of numbers up to B has a greatest and a least one.
LEMMA Extremes ==
    ASSUME NEW B \in Nat, NEW T, T \subseteq 0..B, T # {}
    PROVE  /\ Max(T) \in T /\ \A y \in T : Max(T) >= y
           /\ Min(T) \in T /\ \A y \in T : Min(T) <= y
<1> DEFINE D == {B - x : x \in T}
<1>0. \A x \in T : x \in 0..B
  OBVIOUS
<1>1. D \subseteq Nat /\ D # {}
  <2>1. \A x \in 0..B : B - x \in Nat
    OBVIOUS
  <2>2. ASSUME NEW e \in D PROVE e \in Nat
    BY <1>0, <2>1, <2>2
  <2>3. PICK x : x \in T
    OBVIOUS
  <2>4. B - x \in D
    BY <2>3
  <2> QED
    BY <2>2, <2>4
<1>2. PICK d \in D : \A m \in D : d <= m
  <2> HIDE DEF D
  <2> QED
    BY <1>1, LeastNumber
<1>3. PICK x \in T : d = B - x
  BY <1>2
<1>4. \A y \in T : x >= y
  <2> SUFFICES ASSUME NEW y \in T PROVE x >= y
    OBVIOUS
  <2>1. B - y \in D
    OBVIOUS
  <2>2. B - x <= B - y
    BY <1>2, <1>3, <2>1
  <2> QED
    BY <1>0, <2>2
<1>5. Max(T) \in T /\ \A y \in T : Max(T) >= y
  BY <1>4, Zenon DEF Max
<1>6. PICK n \in T : \A m \in T : n <= m
  <2>1. T \subseteq Nat
    BY <1>0
  <2> QED
    BY <2>1, LeastNumber
<1>7. Min(T) \in T /\ \A y \in T : Min(T) <= y
  BY <1>6, Zenon DEF Min
<1> QED
  BY <1>5, <1>7

\* What the index of a bucket stands for: the length of the prefix that the
\* peers in it share with the local ID.
LEMMA IndexIsProximity ==
    ASSUME NEW id \in PeerID
    PROVE  /\ BucketIdx(id) \in 0..(Bits - 1)
           /\ CommonPrefix(id) = Bits - 1 - BucketIdx(id) \/ (id = LocalID /\ BucketIdx(id) = 0)
<1> DEFINE X == CalculateXORDistance(id)
           T == {0} \cup {b + 1 : b \in X}
           N == {n \in 0..Bits : \A b \in n..(Bits - 1) : b \in id <=> b \in LocalID}
<1>1. Bits \in Nat /\ Bits >= 1
  BY IDAssumption
<1>2. X \subseteq 0..(Bits - 1)
  BY IDAssumption DEF CalculateXORDistance
<1>3. \A b \in 0..(Bits - 1) : b \in X <=> ~(b \in id <=> b \in LocalID)
  BY DEF CalculateXORDistance
<1>4. X = {} => id = LocalID
  BY DEF CalculateXORDistance
<1> HIDE DEF X
<1>5. T \subseteq 0..Bits /\ T # {}
  <2>1. \A b \in X : b + 1 \in 0..Bits
    BY <1>1, <1>2
  <2>2. ASSUME NEW t \in T PROVE t \in 0..Bits
    BY <1>1, <2>1, <2>2
  <2> QED
    BY <2>2
<1>6. PICK m : m = Max(T)
  OBVIOUS
<1>7. m \in T /\ \A y \in T : m >= y
  <2> HIDE DEF T
  <2> QED
    BY <1>1, <1>5, <1>6, Extremes
<1>8. m \in 0..Bits /\ \A b \in X : b + 1 <= m
  BY <1>1, <1>2, <1>5, <1>7
<1>9. m # 0 => m - 1 \in X
  BY <1>1, <1>2, <1>7
<1>10. BitLen(X) = m
  BY <1>6 DEF BitLen
<1> HIDE DEF T
<1>11. \A n \in 0..Bits : n \in N <=> n >= m
  <2> SUFFICES ASSUME NEW n \in 0..Bits PROVE n \in N <=> n >= m
    OBVIOUS
  <2>1. ASSUME n >= m, NEW b \in n..(Bits - 1) PROVE b \in id <=> b \in LocalID
    <3>1. b \in 0..(Bits - 1) /\ ~(b + 1 <= m)
      BY <1>1, <1>8, <2>1
    <3> QED
      BY <1>3, <1>8, <3>1
  <2>2. ASSUME ~(n >= m) PROVE n \notin N
    <3>1. m - 1 \in n..(Bits - 1) /\ m # 0
      BY <1>1, <1>8, <2>2
    <3>2. m - 1 \in 0..(Bits - 1)
      BY <1>1, <1>8, <3>1
    <3> QED
      BY <1>3, <1>9, <3>1, <3>2
  <2> QED
    BY <2>1, <2>2
<1>12. CommonPrefix(id) = Bits - m
  <2>1. m \in N /\ N \subseteq 0..Bits
    BY <1>1, <1>8, <1>11
  <2>2. Min(N) \in N /\ Min(N) <= m
    <3> HIDE DEF N
    <3> QED
      BY <1>1, <2>1, Extremes
  <2>3. Min(N) = m
    <3>1. Min(N) \in 0..Bits /\ Min(N) >= m
      BY <1>11, <2>1, <2>2
    <3> QED
      BY <1>1, <1>8, <2>2, <3>1
  <2> QED
    BY <2>3 DEF CommonPrefix
<1> HIDE DEF N
<1>13. PICK e : e = Max({0, m - 1})
  OBVIOUS
<1>14. e = IF m = 0 THEN 0 ELSE m - 1
  <2>1. e \in {0, m - 1} /\ e >= 0 /\ e >= m - 1
    <3>1. CASE m = 0
      <4>1. 0 \in {0, m - 1} /\ \A y \in {0, m - 1} : 0 >= y
        BY <3>1
      <4>2. Max({0, m - 1}) \in {0, m - 1} /\ \A y \in {0, m - 1} : Max({0, m - 1}) >= y
        BY <4>1, Zenon DEF Max
      <4> QED
        BY <1>13, <4>2
    <3>2. CASE m # 0
      <4>1. {0, m - 1} \subseteq 0..Bits /\ {0, m - 1} # {}
        BY <1>1, <1>8, <3>2
      <4> QED
        BY <1>1, <1>13, <4>1, Extremes
    <3> QED
      BY <3>1, <3>2
  <2> QED
    BY <1>1, <1>8, <2>1
<1>15. BucketIdx(id) = Min({Bits - 1, e})
  BY <1>10, <1>13 DEF BucketIdx, X
<1>16. e \in 0..(Bits - 1)
  BY <1>1, <1>8, <1>14
<1>17. Min({Bits - 1, e}) = e
  <2>1. {Bits - 1, e} \subseteq 0..Bits /\ {Bits - 1, e} # {}
    BY <1>1, <1>16
  <2>2. Min({Bits - 1, e}) \in {Bits - 1, e} /\ Min({Bits - 1, e}) <= e
    BY <1>1, <2>1, Extremes
  <2> QED
    BY <1>1, <1>16, <2>2
<1>18. CASE m = 0
  <2>1. X = {}
    BY <1>2, <1>8, <1>18
  <2> QED
    BY <1>4, <1>14, <1>15, <1>16, <1>17, <1>18, <2>1
<1>19. CASE m # 0
  <2>1. Bits - 1 - (m - 1) = Bits - m
    BY <1>1, <1>8
  <2> QED
    BY <1>12, <1>14, <1>15, <1>16, <1>17, <1>19, <2>1
<1> QED
  BY <1>18, <1>19

PeerRecord == [id : PeerID, score : Score]

\* No peer is twice in a bucket.
Distinct(s) == \A j, k \in 1..Len(s) : s[j].id = s[k].id => j = k

TableTyped ==
    /\ buckets \in [0..(Bits - 1) -> Seq(PeerRecord)]
    /\ peerScores \in [PeerID -> Int] /\ entry \in [PeerID -> Int]
    /\ earned \in [PeerID -> Int]

\* Bucket i is one that AddPeer may have filled.
WellFilled(i, s) ==
    /\ Len(s) <= K /\ Distinct(s)
    /\ \A j \in 1..Len(s) : BucketIdx(s[j].id) = i

TableInv ==
    /\ TableTyped
    /\ \A i \in 0..(Bits - 1) : WellFilled(i, buckets[i])
    /\ ReputationKept

\* Sequences of the same peers.
SamePeers(u, s) == Len(u) = Len(s) /\ \A j \in 1..Len(s) : u[j].id = s[j].id

\* A bucket of the same peers is as well filled, and has them at the same places.
LEMMA SamePlaces ==
    ASSUME NEW i, NEW u, NEW s, SamePeers(u, s)
    PROVE  /\ WellFilled(i, s) => WellFilled(i, u)
           /\ \A p : Slots(u, p) = Slots(s, p)
BY DEF SamePeers, WellFilled, Distinct, Slots

\* A record that is replaced: the peer is in one place, which is the first.
LEMMA ReplacedRecord ==
    ASSUME NEW s \in Seq(PeerRecord), Distinct(s), NEW p, NEW e \in PeerRecord, e.id = p,
           Slots(s, p) # {}
    PROVE  /\ [s EXCEPT ![Min(Slots(s, p))] = e] \in Seq(PeerRecord)
           /\ SamePeers([s EXCEPT ![Min(Slots(s, p))] = e], s)
<1>1. PICK j \in 1..Len(s) : s[j].id = p
  BY DEF Slots
<1>2. Slots(s, p) = {j} /\ j \in Int
  BY <1>1 DEF Slots, Distinct
<1>3. Min({j}) = j
  BY <1>2 DEF Min
<1>4. PICK u : u = [s EXCEPT ![j] = e]
  OBVIOUS
<1>5. /\ u \in Seq(PeerRecord) /\ Len(u) = Len(s)
      /\ \A k \in 1..Len(s) : u[k] = IF k = j THEN e ELSE s[k]
  BY <1>1, <1>4, ExceptSeq
<1>6. SamePeers(u, s)
  BY <1>1, <1>5 DEF SamePeers
<1> QED
  BY <1>2, <1>3, <1>4, <1>5, <1>6

\* A peer that was not in the bucket is put at its end.
LEMMA AppendedRecord ==
    ASSUME NEW s \in Seq(PeerRecord), NEW e \in PeerRecord, NEW i,
           WellFilled(i, s), Slots(s, e.id) = {}, BucketIdx(e.id) = i, Len(s) < K
    PROVE  /\ Append(s, e) \in Seq(PeerRecord) /\ WellFilled(i, Append(s, e))
           /\ \A p : p # e.id /\ Slots(Append(s, e), p) # {} => Slots(s, p) # {}
<1>1. PICK n, u : u = Append(s, e) /\ n = Len(s) /\ n \in Nat
  BY LenProperties
<1>2. /\ u \in Seq(PeerRecord) /\ Len(u) = n + 1 /\ u[n + 1] = e
      /\ \A j \in 1..n : u[j] = s[j]
  BY <1>1, AppendProperties
<1>3. \A j : j \in 1..(n + 1) <=> (j \in 1..n \/ j = n + 1)
  BY <1>1
<1>4. \A j \in 1..n : u[j].id # e.id
  BY <1>1, <1>2 DEF Slots
<1>5. Distinct(u)
  <2>1. \A j, k \in 1..n : u[j].id = u[k].id => j = k
    BY <1>1, <1>2 DEF WellFilled, Distinct
  <2> QED
    BY <1>2, <1>3, <1>4, <2>1 DEF Distinct
<1>6. \A j \in 1..(n + 1) : BucketIdx(u[j].id) = i
  BY <1>1, <1>2, <1>3 DEF WellFilled
<1>7. n + 1 <= K
  BY <1>1, IDAssumption
<1>8. ASSUME NEW p, p # e.id, Slots(u, p) # {} PROVE Slots(s, p) # {}
  <2>1. PICK j \in 1..(n + 1) : u[j].id = p
    BY <1>2, <1>8 DEF Slots
  <2>2. j \in 1..n /\ s[j].id = p
    BY <1>2, <1>3, <1>8, <2>1
  <2> QED
    BY <1>1, <2>2 DEF Slots
<1> QED
  BY <1>1, <1>2, <1>5, <1>6, <1>7, <1>8 DEF WellFilled

\* Bucket i becomes u, which is well filled and has no new peer but p.
BucketGets(i, u, p) ==
    /\ i \in 0..(Bits - 1) /\ u \in Seq(PeerRecord) /\ WellFilled(i, u)
    /\ buckets' = [buckets EXCEPT ![i] = u]
    /\ \A q \in PeerID : q # p /\ Slots(u, q) # {} => Slots(buckets[i], q) # {}

\* Such a call leaves all buckets well filled and admits nobody but p.
LEMMA BucketSet ==
    ASSUME TableInv, NEW i, NEW u, NEW p, BucketGets(i, u, p)
    PROVE  /\ buckets' \in [0..(Bits - 1) -> Seq(PeerRecord)]
           /\ \A k \in 0..(Bits - 1) : WellFilled(k, buckets'[k])
           /\ \A q \in PeerID : q # p /\ Resident(q)' => Resident(q)
<1>0. /\ i \in 0..(Bits - 1) /\ u \in Seq(PeerRecord) /\ WellFilled(i, u)
      /\ buckets' = [buckets EXCEPT ![i] = u]
      /\ \A q \in PeerID : q # p /\ Slots(u, q) # {} => Slots(buckets[i], q) # {}
  BY DEF BucketGets
<1>1. /\ buckets \in [0..(Bits - 1) -> Seq(PeerRecord)]
      /\ \A k \in 0..(Bits - 1) : WellFilled(k, buckets[k])
  BY DEF TableInv, TableTyped
<1>2. /\ buckets'[i] = u
      /\ \A k \in 0..(Bits - 1) : k # i => buckets'[k] = buckets[k]
      /\ buckets' \in [0..(Bits - 1) -> Seq(PeerRecord)]
  BY <1>0, <1>1
<1>3. \A k \in 0..(Bits - 1) : WellFilled(k, buckets'[k])
  BY <1>0, <1>1, <1>2
<1>4. ASSUME NEW q \in PeerID, q # p, Slots(buckets'[BucketIdx(q)], q) # {}
      PROVE  Slots(buckets[BucketIdx(q)], q) # {}
  <2>1. PICK k \in 0..(Bits - 1) : k = BucketIdx(q)
    BY IndexIsProximity
  <2>2. CASE k = i
    BY <1>0, <1>2, <1>4, <2>1, <2>2
  <2>3. CASE k # i
    BY <1>2, <1>4, <2>1, <2>3
  <2> QED
    BY <2>2, <2>3
<1> QED
  BY <1>2, <1>3, <1>4 DEF Resident

\* Every call keeps the table.
LEMMA TableStep ==
    ASSUME TableInv, [TableNext]_tableVars
    PROVE  TableInv'
<1>0. /\ buckets \in [0..(Bits - 1) -> Seq(PeerRecord)]
      /\ peerScores \in [PeerID -> Int] /\ entry \in [PeerID -> Int]
      /\ earned \in [PeerID -> Int]
      /\ \A k \in 0..(Bits - 1) : WellFilled(k, buckets[k])
      /\ \A q \in PeerID : Resident(q) => peerScores[q] = entry[q] + earned[q]
  BY DEF TableInv, TableTyped, ReputationKept
<1>1. CASE UNCHANGED tableVars
  BY <1>1 DEF tableVars, TableInv, TableTyped, ReputationKept, Resident
<1>2. ASSUME NEW p \in PeerID, NEW v \in Score, Refresh(p, v) PROVE TableInv'
  <2>1. PICK i \in 0..(Bits - 1) : i = BucketIdx(p)
    BY IndexIsProximity
  <2>2. PICK s \in Seq(PeerRecord), e \in PeerRecord :
          s = buckets[i] /\ e = [id |-> p, score |-> v]
    BY <1>0 DEF PeerRecord
  <2>3. /\ Slots(s, p) # {} /\ UNCHANGED <<peerScores, entry, earned>>
        /\ buckets' = [buckets EXCEPT ![i] = [s EXCEPT ![Min(Slots(s, p))] = e]]
    BY <1>2, <2>1, <2>2 DEF Refresh
  <2>4. PICK u : u = [s EXCEPT ![Min(Slots(s, p))] = e]
    OBVIOUS
  <2>5. WellFilled(i, s) /\ Distinct(s) /\ e.id = p
    BY <1>0, <2>2 DEF WellFilled
  <2>6. u \in Seq(PeerRecord) /\ SamePeers(u, s)
    BY <2>3, <2>4, <2>5, ReplacedRecord
  <2>7. WellFilled(i, u) /\ \A q : Slots(u, q) = Slots(s, q)
    BY <2>5, <2>6, SamePlaces
  <2>8. /\ buckets' \in [0..(Bits - 1) -> Seq(PeerRecord)]
        /\ \A k \in 0..(Bits - 1) : WellFilled(k, buckets'[k])
        /\ \A q \in PeerID : q # p /\ Resident(q)' => Resident(q)
    <3>1. /\ buckets' = [buckets EXCEPT ![i] = u]
          /\ \A q \in PeerID : q # p /\ Slots(u, q) # {} => Slots(buckets[i], q) # {}
      BY <2>2, <2>3, <2>4, <2>7
    <3>2. BucketGets(i, u, p)
      BY <2>6, <2>7, <3>1 DEF BucketGets
    <3> QED
      BY <3>2, BucketSet
  <2>9. Resident(p)
    BY <2>1, <2>2, <2>3 DEF Resident
  <2>10. ReputationKept'
    BY <1>0, <2>3, <2>8, <2>9 DEF ReputationKept
  <2> QED
    BY <1>0, <2>3, <2>8, <2>10 DEF TableInv, TableTyped
<1>3. ASSUME NEW p \in PeerID, NEW v \in Score, Admit(p, v) PROVE TableInv'
  <2>1. PICK i \in 0..(Bits - 1) : i = BucketIdx(p)
    BY IndexIsProximity
  <2>2. PICK s \in Seq(PeerRecord), e \in PeerRecord :
          s = buckets[i] /\ e = [id |-> p, score |-> v]
    BY <1>0 DEF PeerRecord
  <2>3. /\ Slots(s, p) = {}
        /\ buckets' = [buckets EXCEPT ![i] = IF Len(s) < K THEN Append(s, e) ELSE s]
        /\ peerScores' = [peerScores EXCEPT ![p] = v]
        /\ entry' = [entry EXCEPT ![p] = v]
        /\ earned' = [earned EXCEPT ![p] = 0]
    BY <1>3, <2>1, <2>2 DEF Admit
  <2>4. PICK u : u = IF Len(s) < K THEN Append(s, e) ELSE s
    OBVIOUS
  <2>5. WellFilled(i, s) /\ e.id = p
    BY <1>0, <2>2
  <2>6. /\ u \in Seq(PeerRecord) /\ WellFilled(i, u)
        /\ \A q \in PeerID : q # p /\ Slots(u, q) # {} => Slots(s, q) # {}
    <3>1. CASE Len(s) < K
      BY <2>1, <2>3, <2>4, <2>5, <3>1, AppendedRecord
    <3>2. CASE ~(Len(s) < K)
      BY <2>4, <2>5, <3>2
    <3> QED
      BY <3>1, <3>2
  <2>7. /\ buckets' \in [0..(Bits - 1) -> Seq(PeerRecord)]
        /\ \A k \in 0..(Bits - 1) : WellFilled(k, buckets'[k])
        /\ \A q \in PeerID : q # p /\ Resident(q)' => Resident(q)
    <3>1. /\ buckets' = [buckets EXCEPT ![i] = u]
          /\ \A q \in PeerID : q # p /\ Slots(u, q) # {} => Slots(buckets[i], q) # {}
      BY <2>2, <2>3, <2>4, <2>6
    <3>2. BucketGets(i, u, p)
      BY <2>6, <3>1 DEF BucketGets
    <3> QED
      BY <3>2, BucketSet
  <2>8. v \in Int
    BY IDAssumption
  <2>9. /\ peerScores'[p] = v /\ entry'[p] = v /\ earned'[p] = 0
        /\ \A q \in PeerID : q # p => /\ peerScores'[q] = peerScores[q]
                                      /\ entry'[q] = entry[q] /\ earned'[q] = earned[q]
        /\ peerScores' \in [PeerID -> Int] /\ entry' \in [PeerID -> Int]
        /\ earned' \in [PeerID -> Int]
    BY <1>0, <2>3, <2>8
  <2>10. ReputationKept'
    <3>1. ASSUME NEW q \in PeerID, Resident(q)'
          PROVE  peerScores'[q] = entry'[q] + earned'[q]
      <4>1. CASE q = p
        BY <2>8, <2>9, <4>1
      <4>2. CASE q # p
        BY <1>0, <2>7, <2>9, <3>1, <4>2
      <4> QED
        BY <4>1, <4>2
    <3> QED
      BY <3>1 DEF ReputationKept
  <2> QED
    BY <2>7, <2>9, <2>10 DEF TableInv, TableTyped
<1>4. ASSUME NEW p \in PeerID, NEW d \in Delta, AdjustPeerScore(p, d) PROVE TableInv'
  <2>1. /\ UNCHANGED <<buckets, entry>>
        /\ peerScores' = [peerScores EXCEPT ![p] = @ + d]
        /\ earned' = [earned EXCEPT ![p] = IF Resident(p) THEN @ + d ELSE @]
    BY <1>4 DEF AdjustPeerScore
  <2>2. d \in Int
    BY IDAssumption
  <2>3. /\ peerScores' \in [PeerID -> Int] /\ earned' \in [PeerID -> Int]
        /\ peerScores'[p] = peerScores[p] + d
        /\ Resident(p) => earned'[p] = earned[p] + d
        /\ \A q \in PeerID : q # p => peerScores'[q] = peerScores[q] /\ earned'[q] = earned[q]
    BY <1>0, <2>1, <2>2
  <2>4. \A q \in PeerID : Resident(q)' => Resident(q)
    BY <2>1 DEF Resident
  <2>5. ReputationKept'
    <3> SUFFICES ASSUME NEW q \in PeerID, Resident(q)
                 PROVE  peerScores'[q] = entry'[q] + earned'[q]
      BY <2>4 DEF ReputationKept
    <3>1. entry'[q] = entry[q] /\ peerScores[q] = entry[q] + earned[q]
          /\ entry[q] \in Int /\ earned[q] \in Int /\ peerScores[q] \in Int
      BY <1>0, <2>1
    <3> QED
      BY <2>2, <2>3, <3>1
  <2> QED
    BY <1>0, <2>1, <2>3, <2>5 DEF TableInv, TableTyped
<1> QED
  BY <1>1, <1>2, <1>3, <1>4, Zenon DEF TableNext, AddPeer

\* The table keeps its invariant.
LEMMA TableInvariance == TableSpec => []TableInv
<1>1. TableInit => TableInv
  <2> SUFFICES ASSUME TableInit PROVE TableInv
    OBVIOUS
  <2>1. TableTyped
    BY EmptySeq DEF TableInit, TableTyped
  <2>2. \A i : WellFilled(i, <<>>)
    BY EmptySeq, IDAssumption DEF WellFilled, Distinct
  <2>3. ReputationKept
    BY DEF TableInit, ReputationKept
  <2> QED
    BY <2>1, <2>2, <2>3 DEF TableInit, TableInv
<1>2. TableInv /\ [TableNext]_tableVars => TableInv'
  BY TableStep
<1> QED
  BY <1>1, <1>2, PTL DEF TableSpec

\* Whatever peers announce themselves, in whatever order, every bucket holds
\* peers of its proximity only, none twice, never more than K.
THEOREM BucketsWellKept == TableSpec => []PeersWellPlaced
<1>1. TableInv => PeersWellPlaced
  <2> SUFFICES ASSUME TableInv, NEW i \in 0..(Bits - 1)
               PROVE  /\ Len(buckets[i]) <= K /\ Distinct(buckets[i])
                      /\ \A j \in 1..Len(buckets[i]) :
                           LET id == buckets[i][j].id
                           IN  CommonPrefix(id) = Bits - 1 - i \/ (id = LocalID /\ i = 0)
    BY DEF PeersWellPlaced, Distinct
  <2>1. WellFilled(i, buckets[i]) /\ buckets[i] \in Seq(PeerRecord)
    BY DEF TableInv, TableTyped
  <2>2. \A j \in 1..Len(buckets[i]) : buckets[i][j].id \in PeerID
    <3>1. \A j \in 1..Len(buckets[i]) : buckets[i][j] \in PeerRecord
      BY <2>1, ElementOfSeq
    <3> QED
      BY <3>1 DEF PeerRecord
  <2> QED
    BY <2>1, <2>2, IndexIsProximity DEF WellFilled
<1> QED
  BY <1>1, TableInvariance, PTL

\* The reputation of a peer in the table is what it was admitted with and what
\* it has earned since.
THEOREM ReputationEarned == TableSpec => []ReputationKept
<1>1. TableInv => ReputationKept
  BY DEF TableInv
<1> QED
  BY <1>1, TableInvariance, PTL

-----------------------------------------------------------------------------
(* The event bus.  A publisher holds the read lock from the moment it has  *)
(* counted its event until it has served every subscriber of that moment:  *)
(* the lock keeps newcomers out, so that what a publisher has still to     *)
(* serve is due to subscribers who were there before the event.            *)

Event == [emitter : Task, seq : Nat]

BusTyped ==
    /\ subscribers \in [EventType -> Seq(Subscriber)]
    /\ chan \in [Subscriber -> Seq(Event)]
    /\ received \in [Subscriber -> Seq(Event)]
    /\ task = [t \in Task |-> task[t]]
    /\ remaining \in [Task -> Seq(Subscriber)]
    /\ fired \in [Task -> Nat]
    /\ \A s \in DOMAIN since : since[s] \in [Task -> Nat]

\* Nobody subscribes twice, and who has not subscribed has met no event.
SubscribedOnce ==
    /\ \A e \in EventType : \A i \in 1..Len(subscribers[e]) :
          subscribers[e][i] \in DOMAIN since
    /\ \A e, f \in EventType :
         \A i \in 1..Len(subscribers[e]), j \in 1..Len(subscribers[f]) :
            subscribers[e][i] = subscribers[f][j] => e = f /\ i = j
    /\ \A s \in Subscriber : s \notin DOMAIN since => chan[s] = <<>> /\ received[s] = <<>>
    /\ \A s \in DOMAIN since, t \in Task : since[s][t] <= fired[t]

\* A Publish serves each subscriber once, and each was there before the event.
PublishUnderLock ==
    \A t \in Task :
        /\ task[t] # "publish" => remaining[t] = <<>>
        /\ \A i, j \in 1..Len(remaining[t]) : remaining[t][i] = remaining[t][j] => i = j
        /\ \A i \in 1..Len(remaining[t]) :
              /\ remaining[t][i] \in DOMAIN since
              /\ since[remaining[t][i]][t] < fired[t]

\* What s has been sent, and the last event of t that it should have seen.
Sent(s)      == received[s] \o chan[s]
Latest(t, s) == IF Due(t, s) THEN fired[t] - 1 ELSE fired[t]

Subscribed(s, e) == \E i \in 1..Len(subscribers[e]) : subscribers[e][i] = s

\* FastSubscriberMissesNothing, of a subscriber and a task.
Served(s, t) == Numbered(Sent(s), t, since[s][t], Latest(t, s))

NothingMissed ==
    \A s \in Subscriber, t \in Task :
        Subscribed(s, Emits[t]) /\ s \notin overrun => Served(s, t)

BusInv == BusTyped /\ SubscribedOnce /\ PublishUnderLock /\ NothingMissed

\* The parts are the property.
LEMMA BusImplies == BusInv => FastSubscriberMissesNothing
<1> SUFFICES ASSUME BusInv, NEW e \in EventType, NEW i \in 1..Len(subscribers[e]),
                    subscribers[e][i] \notin overrun, NEW t \in Task, Emits[t] = e
             PROVE  Numbered(received[subscribers[e][i]] \o chan[subscribers[e][i]], t,
                             since[subscribers[e][i]][t],
                             IF Due(t, subscribers[e][i]) THEN fired[t] - 1 ELSE fired[t])
  BY DEF FastSubscriberMissesNothing
<1>1. PICK s : s = subscribers[e][i]
  OBVIOUS
<1>2. s \in Subscriber
  BY <1>1, ElementOfSeq DEF BusInv, BusTyped
<1>3. Subscribed(s, Emits[t])
  BY <1>1 DEF Subscribed
<1> QED
  BY <1>1, <1>2, <1>3 DEF BusInv, NothingMissed, Served, Sent, Latest

\* Nothing sent, nothing missed.
LEMMA NumberedNone ==
    ASSUME NEW t, NEW a \in Nat PROVE Numbered(<<>>, t, a, a)
BY DEF Numbered

\* Another task's event changes nothing.
LEMMA NumberedOther ==
    ASSUME NEW s \in Seq(Event), NEW ev \in Event, NEW t, NEW a, NEW b,
           ev.emitter # t, Numbered(s, t, a, b)
    PROVE  Numbered(Append(s, ev), t, a, b)
<1>1. PICK u, n : u = Append(s, ev) /\ n = Len(s)
  OBVIOUS
<1>2. /\ n \in Nat /\ Len(u) = n + 1 /\ u[n + 1] = ev
      /\ \A i \in 1..n : u[i] = s[i]
  BY <1>1, LenProperties, AppendProperties
<1>3. \A i : (i \in 1..Len(u) /\ u[i].emitter = t) <=> (i \in 1..n /\ s[i].emitter = t)
  BY <1>2
<1>4. {i \in 1..Len(u) : u[i].emitter = t} = {i \in 1..Len(s) : s[i].emitter = t}
  BY <1>1, <1>3
<1>5. \A i \in 1..Len(s) : u[i] = s[i]
  BY <1>1, <1>2
<1> QED
  BY <1>1, <1>4, <1>5 DEF Numbered

\* The task's next event is the next number.
LEMMA NumberedNext ==
    ASSUME NEW s \in Seq(Event), NEW t \in Task, NEW a \in Nat, NEW b \in Nat, a < b,
           Numbered(s, t, a, b - 1)
    PROVE  Numbered(Append(s, [emitter |-> t, seq |-> b]), t, a, b)
<1>1. PICK ev, u, n : /\ ev = [emitter |-> t, seq |-> b]
                      /\ u = Append(s, ev) /\ n = Len(s)
  OBVIOUS
<1>2. ev \in Event /\ ev.emitter = t /\ ev.seq = b
  BY <1>1 DEF Event
<1>3. /\ n \in Nat /\ Len(u) = n + 1 /\ u[n + 1] = ev
      /\ \A i \in 1..n : u[i] = s[i]
  BY <1>1, <1>2, LenProperties, AppendProperties
<1>4. PICK M, N : /\ M = {i \in 1..n : s[i].emitter = t}
                  /\ N = {i \in 1..(n + 1) : u[i].emitter = t}
  OBVIOUS
<1>5. N = M \cup {n + 1}
  BY <1>2, <1>3, <1>4
<1>6. /\ {s[i].seq : i \in M} = (a + 1)..(b - 1)
      /\ \A i, j \in M : i < j => s[i].seq < s[j].seq
  BY <1>1, <1>4 DEF Numbered
<1>7. \A i \in M : u[i] = s[i] /\ i \in 1..n /\ s[i].seq \in (a + 1)..(b - 1)
  BY <1>3, <1>4, <1>6
<1>8. {u[i].seq : i \in N} = (a + 1)..b
  <2>1. ASSUME NEW i \in N PROVE u[i].seq \in (a + 1)..b
    BY <1>2, <1>3, <1>5, <1>7
  <2>2. ASSUME NEW x \in (a + 1)..b PROVE \E i \in N : u[i].seq = x
    <3>1. CASE x = b
      BY <1>2, <1>3, <1>5, <3>1
    <3>2. CASE x # b
      <4>1. x \in (a + 1)..(b - 1)
        BY <3>2
      <4>2. PICK i \in M : s[i].seq = x
        BY <1>6, <4>1
      <4> QED
        BY <1>5, <1>7, <4>2
    <3> QED
      BY <3>1, <3>2
  <2> QED
    BY <2>1, <2>2
<1>9. ASSUME NEW i \in N, NEW j \in N, i < j PROVE u[i].seq < u[j].seq
  <2>1. i \in M
    BY <1>3, <1>5, <1>7, <1>9
  <2>2. CASE j \in M
    BY <1>6, <1>7, <1>9, <2>1, <2>2
  <2>3. CASE j = n + 1
    BY <1>2, <1>3, <1>7, <2>1, <2>3
  <2> QED
    BY <1>5, <2>2, <2>3
<1> QED
  BY <1>1, <1>3, <1>4, <1>8, <1>9 DEF Numbered

\* What is received was in the channel.
LEMMA ReceiveMoves ==
    ASSUME NEW S, NEW r \in Seq(S), NEW c \in Seq(S), c # <<>>
    PROVE  Append(r, Head(c)) \o Tail(c) = r \o c
<1>1. /\ Head(c) \in S /\ Tail(c) \in Seq(S) /\ Len(Tail(c)) = Len(c) - 1
      /\ \A i \in 1..Len(Tail(c)) : Tail(c)[i] = c[i + 1]
      /\ Len(c) \in Nat \ {0} /\ Head(c) = c[1]
  BY HeadTailProperties, LenProperties, EmptySeq
<1>2. PICK x, h, k : x = Tail(c) /\ h = Head(c) /\ k = Append(r, h)
  OBVIOUS
<1>3. /\ k \in Seq(S) /\ Len(k) = Len(r) + 1 /\ k[Len(r) + 1] = h
      /\ \A i \in 1..Len(r) : k[i] = r[i]
  BY <1>1, <1>2, AppendProperties
<1>4. /\ k \o x \in Seq(S) /\ Len(k \o x) = Len(k) + Len(x)
      /\ \A i \in 1..(Len(k) + Len(x)) :
            (k \o x)[i] = IF i <= Len(k) THEN k[i] ELSE x[i - Len(k)]
  BY <1>1, <1>2, <1>3, ConcatProperties
<1>5. /\ r \o c \in Seq(S) /\ Len(r \o c) = Len(r) + Len(c)
      /\ \A i \in 1..(Len(r) + Len(c)) :
            (r \o c)[i] = IF i <= Len(r) THEN r[i] ELSE c[i - Len(r)]
  BY ConcatProperties
<1>6. Len(r) \in Nat /\ Len(x) \in Nat
  BY <1>1, <1>2, LenProperties
<1>7. Len(k \o x) = Len(r \o c)
  BY <1>1, <1>2, <1>3, <1>4, <1>5, <1>6
<1>8. ASSUME NEW i \in 1..Len(r \o c) PROVE (k \o x)[i] = (r \o c)[i]
  BY <1>1, <1>2, <1>3, <1>4, <1>5, <1>6
<1> QED
  BY <1>2, <1>4, <1>5, <1>7, <1>8, SeqEqual

\* The steps that touch neither the channels nor what is due.
LEMMA BusQuiet ==
    ASSUME BusInv,
           UNCHANGED <<subscribers, chan, remaining, fired, since, received, overrun>>,
           task' = [t \in Task |-> task'[t]],
           \A t \in Task : task'[t] # "publish" => task[t] # "publish" \/ remaining[t] = <<>>
    PROVE  BusInv'
<1>1. BusTyped'
  BY DEF BusInv, BusTyped
<1>2. SubscribedOnce'
  BY DEF BusInv, SubscribedOnce
<1>3. PublishUnderLock'
  BY DEF BusInv, PublishUnderLock
<1>4. NothingMissed'
  BY DEF BusInv, NothingMissed, Subscribed, Served, Sent, Latest, Due
<1> QED
  BY <1>1, <1>2, <1>3, <1>4 DEF BusInv

\* A subscriber receives: what it has been sent stays what it was.
LEMMA BusReceive ==
    ASSUME BusInv, NEW s \in Subscriber, Receive(s)
    PROVE  BusInv'
<1> USE DEF busVars, busLog, schedVars
<1>0. /\ BusTyped /\ SubscribedOnce /\ PublishUnderLock /\ NothingMissed
      /\ chan \in [Subscriber -> Seq(Event)] /\ received \in [Subscriber -> Seq(Event)]
  BY DEF BusInv, BusTyped
<1>1. /\ chan[s] # <<>>
      /\ received' = [received EXCEPT ![s] = Append(@, Head(chan[s]))]
      /\ chan' = [chan EXCEPT ![s] = Tail(@)]
      /\ UNCHANGED <<subscribers, task, remaining, fired, since, overrun>>
  BY DEF Receive
<1>2. Head(chan[s]) \in Event /\ Tail(chan[s]) \in Seq(Event)
  BY <1>0, <1>1, HeadTailProperties
<1>3. Append(received[s], Head(chan[s])) \in Seq(Event)
  BY <1>0, <1>2, AppendProperties
<1>4. chan' \in [Subscriber -> Seq(Event)] /\ received' \in [Subscriber -> Seq(Event)]
  BY <1>0, <1>1, <1>2, <1>3
<1>5. BusTyped'
  BY <1>0, <1>1, <1>4 DEF BusTyped
<1>6. s \in DOMAIN since
  BY <1>0, <1>1 DEF SubscribedOnce
<1>7. SubscribedOnce'
  <2>1. \A x \in Subscriber : x # s => chan'[x] = chan[x] /\ received'[x] = received[x]
    BY <1>0, <1>1
  <2> QED
    BY <1>0, <1>1, <1>6, <2>1 DEF SubscribedOnce
<1>8. PublishUnderLock'
  BY <1>0, <1>1 DEF PublishUnderLock
<1>9. \A x \in Subscriber : Sent(x)' = Sent(x)
  <2>1. Append(received[s], Head(chan[s])) \o Tail(chan[s]) = received[s] \o chan[s]
    BY <1>0, <1>1, ReceiveMoves
  <2> QED
    BY <1>0, <1>1, <2>1 DEF Sent
<1>10. NothingMissed'
  BY <1>0, <1>1, <1>9, ZenonT(40) DEF NothingMissed, Subscribed, Served, Latest, Due
<1> QED
  BY <1>5, <1>7, <1>8, <1>10 DEF BusInv

\* A newcomer: nothing is being published, and it has missed nothing.
LEMMA BusSubscribe ==
    ASSUME BusInv, NEW s \in Subscriber, NEW e \in EventType, Subscribe(s, e)
    PROVE  BusInv'
<1> USE DEF busVars, busLog, schedVars
<1>0. /\ BusTyped /\ SubscribedOnce /\ PublishUnderLock /\ NothingMissed
      /\ subscribers \in [EventType -> Seq(Subscriber)] /\ fired \in [Task -> Nat]
      /\ \A x \in DOMAIN since : since[x] \in [Task -> Nat]
  BY DEF BusInv, BusTyped
<1>1. /\ s \notin DOMAIN since
      /\ \A t \in Task : task[t] # "publish"
      /\ subscribers' = [subscribers EXCEPT ![e] = Append(@, s)]
      /\ since' = [x \in DOMAIN since \cup {s} |-> IF x = s THEN fired ELSE since[x]]
      /\ UNCHANGED <<chan, task, remaining, fired, received, overrun>>
  BY DEF Subscribe
<1>2. /\ Append(subscribers[e], s) \in Seq(Subscriber)
      /\ Len(subscribers[e]) \in Nat
      /\ Len(Append(subscribers[e], s)) = Len(subscribers[e]) + 1
      /\ Append(subscribers[e], s)[Len(subscribers[e]) + 1] = s
      /\ \A i \in 1..Len(subscribers[e]) :
            Append(subscribers[e], s)[i] = subscribers[e][i]
  BY <1>0, AppendProperties, LenProperties
<1>3. /\ subscribers' \in [EventType -> Seq(Subscriber)]
      /\ \A f \in EventType : f # e => subscribers'[f] = subscribers[f]
      /\ Len(subscribers'[e]) = Len(subscribers[e]) + 1
      /\ subscribers'[e][Len(subscribers[e]) + 1] = s
      /\ \A i \in 1..Len(subscribers[e]) : subscribers'[e][i] = subscribers[e][i]
  BY <1>0, <1>1, <1>2
<1>4. /\ DOMAIN since' = DOMAIN since \cup {s} /\ since'[s] = fired
      /\ \A x \in DOMAIN since : since'[x] = since[x]
  BY <1>1
<1>5. BusTyped'
  <2>1. \A x \in DOMAIN since' : since'[x] \in [Task -> Nat]
    BY <1>0, <1>4
  <2> QED
    BY <1>0, <1>1, <1>3, <2>1 DEF BusTyped
<1>6. ASSUME NEW f \in EventType, NEW i \in 1..Len(subscribers'[f])
      PROVE  \/ f = e /\ i = Len(subscribers[e]) + 1 /\ subscribers'[f][i] = s
             \/ /\ i \in 1..Len(subscribers[f]) /\ subscribers'[f][i] = subscribers[f][i]
                /\ subscribers[f][i] \in DOMAIN since
  <2>1. CASE f # e
    BY <1>0, <1>3, <2>1 DEF SubscribedOnce
  <2>2. CASE f = e
    <3>1. i \in 1..Len(subscribers[e]) \/ i = Len(subscribers[e]) + 1
      BY <1>2, <1>3, <2>2
    <3> QED
      BY <1>0, <1>3, <2>2, <3>1 DEF SubscribedOnce
  <2> QED
    BY <2>1, <2>2
<1>7. SubscribedOnce'
  <2>1. ASSUME NEW f \in EventType, NEW i \in 1..Len(subscribers'[f])
        PROVE  subscribers'[f][i] \in DOMAIN since'
    BY <1>4, <1>6
  <2>2. ASSUME NEW f \in EventType, NEW g \in EventType,
               NEW i \in 1..Len(subscribers'[f]), NEW j \in 1..Len(subscribers'[g]),
               subscribers'[f][i] = subscribers'[g][j]
        PROVE  f = g /\ i = j
    <3>1. ASSUME i \in 1..Len(subscribers[f]), j \in 1..Len(subscribers[g]),
                 subscribers[f][i] = subscribers[g][j]
          PROVE  f = g /\ i = j
      BY <1>0, <3>1 DEF SubscribedOnce
    <3>2. \/ f = e /\ i = Len(subscribers[e]) + 1 /\ subscribers'[f][i] = s
          \/ /\ i \in 1..Len(subscribers[f]) /\ subscribers'[f][i] = subscribers[f][i]
             /\ subscribers[f][i] \in DOMAIN since
      BY <1>6
    <3>3. \/ g = e /\ j = Len(subscribers[e]) + 1 /\ subscribers'[g][j] = s
          \/ /\ j \in 1..Len(subscribers[g]) /\ subscribers'[g][j] = subscribers[g][j]
             /\ subscribers[g][j] \in DOMAIN since
      BY <1>6
    <3> QED
      BY <1>1, <2>2, <3>1, <3>2, <3>3
  <2>3. \A x \in Subscriber : x \notin DOMAIN since' => chan'[x] = <<>> /\ received'[x] = <<>>
    BY <1>0, <1>1, <1>4 DEF SubscribedOnce
  <2>4. ASSUME NEW x \in DOMAIN since', NEW t \in Task PROVE since'[x][t] <= fired'[t]
    <3>1. CASE x = s
      BY <1>0, <1>1, <1>4, <3>1
    <3>2. CASE x # s
      BY <1>0, <1>1, <1>4, <3>2 DEF SubscribedOnce
    <3> QED
      BY <3>1, <3>2
  <2> QED
    BY <2>1, <2>2, <2>3, <2>4 DEF SubscribedOnce
<1>8. \A t \in Task : remaining[t] = <<>>
  BY <1>0, <1>1 DEF PublishUnderLock
<1>9. PublishUnderLock'
  BY <1>1, <1>8 DEF PublishUnderLock
<1>10. NothingMissed'
  <2> SUFFICES ASSUME NEW x \in Subscriber, NEW t \in Task, Subscribed(x, Emits[t])',
                      x \notin overrun
               PROVE  Served(x, t)'
    BY <1>1 DEF NothingMissed
  <2>1. ~Due(t, x) /\ ~Due(t, x)'
    BY <1>1, <1>8 DEF Due
  <2>2. Latest(t, x)' = fired[t] /\ Latest(t, x) = fired[t]
    BY <1>1, <2>1 DEF Latest
  <2>3. Emits[t] \in EventType
    BY EmitsAssumption
  <2>4. CASE x = s
    <3>1. Sent(s)' = <<>> \o <<>>
      BY <1>0, <1>1 DEF Sent, SubscribedOnce
    <3>2. <<>> \o <<>> = <<>>
      OBVIOUS
    <3>3. fired[t] \in Nat /\ since'[s][t] = fired[t]
      BY <1>0, <1>4
    <3>4. Numbered(<<>>, t, fired[t], fired[t])
      BY <3>3, NumberedNone
    <3> QED
      BY <2>2, <2>4, <3>1, <3>2, <3>3, <3>4 DEF Served
  <2>5. CASE x # s
    <3>1. PICK i \in 1..Len(subscribers'[Emits[t]]) : subscribers'[Emits[t]][i] = x
      BY DEF Subscribed
    <3>2. Subscribed(x, Emits[t]) /\ x \in DOMAIN since
      BY <1>6, <2>3, <2>5, <3>1 DEF Subscribed
    <3>3. Served(x, t)
      BY <1>0, <3>2 DEF NothingMissed
    <3>4. Sent(x)' = Sent(x) /\ since'[x] = since[x]
      BY <1>1, <1>4, <3>2 DEF Sent
    <3> QED
      BY <2>2, <3>3, <3>4 DEF Served
  <2> QED
    BY <2>4, <2>5
<1> QED
  BY <1>5, <1>7, <1>9, <1>10 DEF BusInv

\* An event is counted, and due to everybody subscribed to its type.
LEMMA BusFires ==
    ASSUME BusInv, NEW t \in Task, TickerFires(t)
    PROVE  BusInv'
<1> USE DEF busVars, busLog, schedVars
<1>0. /\ BusTyped /\ SubscribedOnce /\ PublishUnderLock /\ NothingMissed
      /\ subscribers \in [EventType -> Seq(Subscriber)] /\ fired \in [Task -> Nat]
      /\ remaining \in [Task -> Seq(Subscriber)] /\ task = [u \in Task |-> task[u]]
      /\ \A x \in DOMAIN since : since[x] \in [Task -> Nat]
      /\ Emits[t] \in EventType
  BY EmitsAssumption DEF BusInv, BusTyped
<1>1. /\ task[t] = "select"
      /\ task' = [task EXCEPT ![t] = "publish"]
      /\ remaining' = [remaining EXCEPT ![t] = subscribers[Emits[t]]]
      /\ fired' = [fired EXCEPT ![t] = @ + 1]
      /\ UNCHANGED <<subscribers, chan, since, received, overrun>>
  BY DEF TickerFires
<1>2. /\ task'[t] = "publish" /\ remaining'[t] = subscribers[Emits[t]]
      /\ fired'[t] = fired[t] + 1 /\ fired' \in [Task -> Nat]
      /\ \A u \in Task : u # t => /\ task'[u] = task[u] /\ remaining'[u] = remaining[u]
                                  /\ fired'[u] = fired[u]
  BY <1>0, <1>1
<1>3. BusTyped'
  <2>1. remaining' \in [Task -> Seq(Subscriber)] /\ task' = [u \in Task |-> task'[u]]
    BY <1>0, <1>1
  <2> QED
    BY <1>0, <1>1, <1>2, <2>1 DEF BusTyped
<1>4. ASSUME NEW x \in DOMAIN since, NEW u \in Task
      PROVE  since[x][u] \in Nat /\ since[x][u] <= fired[u] /\ since[x][u] <= fired'[u]
  <2>1. /\ since[x][u] \in Nat /\ fired[u] \in Nat /\ since[x][u] <= fired[u]
        /\ fired'[u] = fired[u] \/ fired'[u] = fired[u] + 1
    BY <1>0, <1>2 DEF SubscribedOnce
  <2> QED
    BY <2>1
<1>5. SubscribedOnce'
  BY <1>0, <1>1, <1>4 DEF SubscribedOnce
<1>6. PublishUnderLock'
  <2> SUFFICES ASSUME NEW u \in Task
               PROVE  /\ task'[u] # "publish" => remaining'[u] = <<>>
                      /\ \A i, j \in 1..Len(remaining'[u]) :
                            remaining'[u][i] = remaining'[u][j] => i = j
                      /\ \A i \in 1..Len(remaining'[u]) :
                            /\ remaining'[u][i] \in DOMAIN since
                            /\ since[remaining'[u][i]][u] < fired'[u]
    BY <1>1 DEF PublishUnderLock
  <2>1. CASE u # t
    BY <1>0, <1>2, <2>1, SMTT(40) DEF PublishUnderLock
  <2>2. CASE u = t
    <3>1. \A i \in 1..Len(subscribers[Emits[t]]) : subscribers[Emits[t]][i] \in DOMAIN since
      BY <1>0 DEF SubscribedOnce
    <3>2. \A x \in DOMAIN since : since[x][t] < fired'[t]
      <4>1. ASSUME NEW x \in DOMAIN since PROVE since[x][t] < fired'[t]
        <5>1. since[x][t] \in Nat /\ fired[t] \in Nat /\ since[x][t] <= fired[t]
          BY <1>0, <1>4
        <5> QED
          BY <1>2, <5>1
      <4> QED
        BY <4>1
    <3>3. \A i, j \in 1..Len(subscribers[Emits[t]]) :
            subscribers[Emits[t]][i] = subscribers[Emits[t]][j] => i = j
      BY <1>0 DEF SubscribedOnce
    <3> QED
      BY <1>2, <2>2, <3>1, <3>2, <3>3
  <2> QED
    BY <2>1, <2>2
<1>7. NothingMissed'
  <2> SUFFICES ASSUME NEW x \in Subscriber, NEW u \in Task, Subscribed(x, Emits[u]),
                      x \notin overrun
               PROVE  Served(x, u)'
    BY <1>1 DEF NothingMissed, Subscribed
  <2>1. Served(x, u)
    BY <1>0 DEF NothingMissed
  <2>2. Latest(u, x)' = Latest(u, x)
    <3>1. CASE u # t
      BY <1>2, <3>1 DEF Latest, Due
    <3>2. CASE u = t
      <4>1. remaining[t] = <<>>
        BY <1>0, <1>1 DEF PublishUnderLock
      <4>2. ~Due(t, x)
        BY <4>1 DEF Due
      <4>3. Due(t, x)'
        BY <1>2, <3>2 DEF Due, Subscribed
      <4>4. fired[t] \in Nat
        BY <1>0
      <4> QED
        BY <1>2, <3>2, <4>2, <4>3, <4>4 DEF Latest
    <3> QED
      BY <3>1, <3>2
  <2>3. Sent(x)' = Sent(x) /\ since'[x][u] = since[x][u]
    BY <1>1 DEF Sent
  <2> QED
    BY <2>1, <2>2, <2>3 DEF Served
<1> QED
  BY <1>3, <1>5, <1>6, <1>7 DEF BusInv

\* The head of a sequence without repetition is not in its tail.
LEMMA OnceInTail ==
    ASSUME NEW S, NEW q \in Seq(S), q # <<>>,
           \A i, j \in 1..Len(q) : q[i] = q[j] => i = j
    PROVE  /\ Tail(q) \in Seq(S) /\ Head(q) \in S
           /\ \A i, j \in 1..Len(Tail(q)) : Tail(q)[i] = Tail(q)[j] => i = j
           /\ \A i \in 1..Len(Tail(q)) : \E j \in 1..Len(q) : Tail(q)[i] = q[j]
           /\ \A i \in 1..Len(Tail(q)) : Tail(q)[i] # Head(q)
           /\ \A j \in 1..Len(q) : q[j] # Head(q) =>
                 \E i \in 1..Len(Tail(q)) : Tail(q)[i] = q[j]
           /\ \E j \in 1..Len(q) : q[j] = Head(q)
<1>1. PICK x, n : x = Tail(q) /\ n = Len(q)
  OBVIOUS
<1>2. /\ n \in Nat \ {0} /\ x \in Seq(S) /\ Head(q) \in S /\ Head(q) = q[1]
      /\ Len(x) = n - 1 /\ \A i \in 1..(n - 1) : x[i] = q[i + 1]
  BY <1>1, HeadTailProperties, LenProperties, EmptySeq
<1>3. \A i \in 1..(n - 1) : i + 1 \in 1..n /\ i + 1 # 1
  BY <1>2
<1>4. \A j \in 1..n : j # 1 => j - 1 \in 1..(n - 1) /\ (j - 1) + 1 = j
  BY <1>2
<1>5. \A i, j \in 1..(n - 1) : x[i] = x[j] => i = j
  <2> SUFFICES ASSUME NEW i \in 1..(n - 1), NEW j \in 1..(n - 1), x[i] = x[j] PROVE i = j
    OBVIOUS
  <2>1. i + 1 = j + 1
    BY <1>1, <1>2, <1>3
  <2> QED
    BY <1>2, <2>1
<1>6. 1 \in 1..n
  BY <1>2
<1>7. \A j \in 1..n : q[j] # Head(q) => x[j - 1] = q[j] /\ j - 1 \in 1..(n - 1)
  BY <1>2, <1>4
<1> QED
  BY <1>1, <1>2, <1>3, <1>5, <1>6, <1>7, SMTT(40)

\* Publish serves the next subscriber, or finds its channel full: either way
\* the others are as before.
LEMMA BusServes ==
    ASSUME BusInv, NEW t \in Task, Send(t) \/ Drop(t)
    PROVE  BusInv'
<1> USE DEF busVars, busLog, schedVars
<1>0. /\ BusTyped /\ SubscribedOnce /\ PublishUnderLock /\ NothingMissed
      /\ chan \in [Subscriber -> Seq(Event)] /\ received \in [Subscriber -> Seq(Event)]
      /\ remaining \in [Task -> Seq(Subscriber)] /\ fired \in [Task -> Nat]
      /\ \A x \in DOMAIN since : since[x] \in [Task -> Nat]
  BY DEF BusInv, BusTyped
<1>1. PICK s, ev : s = Head(remaining[t]) /\ ev = [emitter |-> t, seq |-> fired[t]]
  OBVIOUS
<1>2. /\ task[t] = "publish" /\ remaining[t] # <<>>
      /\ remaining' = [remaining EXCEPT ![t] = Tail(@)]
      /\ \/ chan' = [chan EXCEPT ![s] = Append(@, ev)] /\ overrun' = overrun
         \/ chan' = chan /\ overrun' = overrun \cup {s}
      /\ UNCHANGED <<subscribers, task, fired, since, received>>
  BY <1>1 DEF Send, Drop
<1>3. /\ Tail(remaining[t]) \in Seq(Subscriber) /\ s \in Subscriber
      /\ \A i, j \in 1..Len(Tail(remaining[t])) :
            Tail(remaining[t])[i] = Tail(remaining[t])[j] => i = j
      /\ \A i \in 1..Len(Tail(remaining[t])) :
            \E j \in 1..Len(remaining[t]) : Tail(remaining[t])[i] = remaining[t][j]
      /\ \A i \in 1..Len(Tail(remaining[t])) : Tail(remaining[t])[i] # s
      /\ \A j \in 1..Len(remaining[t]) : remaining[t][j] # s =>
            \E i \in 1..Len(Tail(remaining[t])) : Tail(remaining[t])[i] = remaining[t][j]
      /\ \E j \in 1..Len(remaining[t]) : remaining[t][j] = s
  <2>1. \A i, j \in 1..Len(remaining[t]) : remaining[t][i] = remaining[t][j] => i = j
    BY <1>0 DEF PublishUnderLock
  <2>2. remaining[t] \in Seq(Subscriber)
    BY <1>0
  <2> QED
    BY <1>1, <1>2, <2>1, <2>2, OnceInTail
<1>4. /\ remaining'[t] = Tail(remaining[t]) /\ remaining' \in [Task -> Seq(Subscriber)]
      /\ \A u \in Task : u # t => remaining'[u] = remaining[u]
  BY <1>0, <1>2, <1>3
<1>5. ev \in Event /\ ev.emitter = t
  BY <1>0, <1>1 DEF Event
<1>6. s \in DOMAIN since /\ since[s][t] < fired[t]
  BY <1>0, <1>3 DEF PublishUnderLock
<1>7. /\ chan' \in [Subscriber -> Seq(Event)]
      /\ \A x \in Subscriber : x # s => chan'[x] = chan[x]
  <2>1. Append(chan[s], ev) \in Seq(Event)
    BY <1>0, <1>3, <1>5, AppendProperties
  <2> QED
    BY <1>0, <1>2, <1>3, <2>1
<1>8. BusTyped'
  BY <1>0, <1>2, <1>4, <1>7 DEF BusTyped
<1>9. SubscribedOnce'
  BY <1>0, <1>2, <1>6, <1>7 DEF SubscribedOnce
<1>10. PublishUnderLock'
  <2> SUFFICES ASSUME NEW u \in Task
               PROVE  /\ task[u] # "publish" => remaining'[u] = <<>>
                      /\ \A i, j \in 1..Len(remaining'[u]) :
                            remaining'[u][i] = remaining'[u][j] => i = j
                      /\ \A i \in 1..Len(remaining'[u]) :
                            /\ remaining'[u][i] \in DOMAIN since
                            /\ since[remaining'[u][i]][u] < fired[u]
    BY <1>2 DEF PublishUnderLock
  <2>1. CASE u # t
    BY <1>0, <1>4, <2>1 DEF PublishUnderLock
  <2>2. CASE u = t
    <3>1. \A j \in 1..Len(remaining[t]) : /\ remaining[t][j] \in DOMAIN since
                                          /\ since[remaining[t][j]][t] < fired[t]
      BY <1>0 DEF PublishUnderLock
    <3> QED
      BY <1>2, <1>3, <1>4, <2>2, <3>1
  <2> QED
    BY <2>1, <2>2
<1>11. NothingMissed'
  <2> SUFFICES ASSUME NEW x \in Subscriber, NEW u \in Task, Subscribed(x, Emits[u]),
                      x \notin overrun'
               PROVE  Served(x, u)'
    BY <1>2 DEF NothingMissed, Subscribed
  <2>1. Served(x, u)
    BY <1>0, <1>2 DEF NothingMissed
  <2>2. since'[x][u] = since[x][u]
    BY <1>2
  <2>3. u # t \/ x # s => Latest(u, x)' = Latest(u, x)
    <3>1. CASE u # t
      BY <1>2, <1>4, <3>1 DEF Latest, Due
    <3>2. CASE u = t /\ x # s
      <4>1. Due(t, x)' => Due(t, x)
        BY <1>3, <1>4 DEF Due
      <4>2. ASSUME Due(t, x) PROVE Due(t, x)'
        <5>1. PICK j \in 1..Len(remaining[t]) : remaining[t][j] = x
          BY <4>2 DEF Due
        <5>2. \E i \in 1..Len(Tail(remaining[t])) : Tail(remaining[t])[i] = x
          BY <1>3, <3>2, <5>1
        <5> QED
          BY <1>4, <5>2 DEF Due
      <4> QED
        BY <1>2, <3>2, <4>1, <4>2 DEF Latest
    <3> QED
      BY <3>1, <3>2
  <2>4. CASE x # s
    <3>1. Sent(x)' = Sent(x)
      BY <1>2, <1>7, <2>4 DEF Sent
    <3> QED
      BY <2>1, <2>2, <2>3, <2>4, <3>1 DEF Served
  <2>5. CASE x = s
    <3>1. chan' = [chan EXCEPT ![s] = Append(@, ev)]
      BY <1>2, <2>5
    <3>2. received[s] \in Seq(Event) /\ chan[s] \in Seq(Event) /\ Sent(s) \in Seq(Event)
      BY <1>0, <1>3, ConcatProperties DEF Sent
    <3>3. Sent(s)' = Append(Sent(s), ev)
      <4>1. Sent(s)' = received[s] \o Append(chan[s], ev)
        BY <1>0, <1>2, <1>3, <3>1 DEF Sent
      <4>2. /\ Append(chan[s], ev) = chan[s] \o <<ev>> /\ <<ev>> \in Seq(Event)
            /\ Append(Sent(s), ev) = Sent(s) \o <<ev>>
        BY <1>5, <3>2, AppendIsConcat
      <4>3. (received[s] \o chan[s]) \o <<ev>> = received[s] \o (chan[s] \o <<ev>>)
        <5>1. \A a, b, c \in Seq(Event) : (a \o b) \o c = a \o (b \o c)
          BY ConcatAssociative
        <5> QED
          BY <3>2, <4>2, <5>1, Zenon
      <4> QED
        BY <4>1, <4>2, <4>3 DEF Sent
    <3>4. CASE u # t
      <4>1. Numbered(Append(Sent(s), ev), u, since[s][u], Latest(u, s))
        BY <1>5, <2>1, <2>5, <3>2, <3>4, NumberedOther DEF Served
      <4> QED
        BY <2>2, <2>3, <2>5, <3>3, <3>4, <4>1 DEF Served
    <3>5. CASE u = t
      <4>1. Due(t, s) /\ ~Due(t, s)'
        BY <1>3, <1>4 DEF Due
      <4>2. Latest(t, s) = fired[t] - 1 /\ Latest(t, s)' = fired[t]
        BY <1>2, <4>1 DEF Latest
      <4>3. fired[t] \in Nat /\ since[s][t] \in Nat
        BY <1>0, <1>6
      <4>4. Numbered(Append(Sent(s), ev), t, since[s][t], fired[t])
        BY <1>1, <1>6, <2>1, <2>5, <3>2, <3>5, <4>2, <4>3, NumberedNext DEF Served
      <4> QED
        BY <2>2, <2>5, <3>3, <3>5, <4>2, <4>4 DEF Served
    <3> QED
      BY <3>4, <3>5
  <2> QED
    BY <2>4, <2>5
<1> QED
  BY <1>8, <1>9, <1>10, <1>11 DEF BusInv

\* Every step keeps the invariant.
LEMMA BusStep == BusInv /\ [ServicesNext]_serviceVars => BusInv'
<1> SUFFICES ASSUME BusInv, [ServicesNext]_serviceVars PROVE BusInv'
  OBVIOUS
<1> USE DEF busVars, busLog, schedVars
<1>0. task = [t \in Task |-> task[t]]
  BY DEF BusInv, BusTyped
<1>1. CASE UNCHANGED serviceVars \/ StopScheduler \/ CancelTasks
  <2>1. UNCHANGED <<subscribers, chan, remaining, fired, since, received, overrun, task>>
    BY <1>1 DEF serviceVars, StopScheduler, CancelTasks
  <2> QED
    BY <1>0, <2>1, BusQuiet
<1>2. ASSUME NEW t \in Task, ScheduleRecurring(t) \/ PublishReturns(t) \/ TaskExits(t)
      PROVE  BusInv'
  <2>1. UNCHANGED <<subscribers, chan, remaining, fired, since, received, overrun>>
    BY <1>2 DEF ScheduleRecurring, PublishReturns, TaskExits
  <2>2. /\ \E p : task' = [task EXCEPT ![t] = p]
        /\ task[t] # "publish" \/ remaining[t] = <<>>
    BY <1>2 DEF ScheduleRecurring, PublishReturns, TaskExits
  <2>3. /\ task' = [u \in Task |-> task'[u]]
        /\ \A u \in Task : u # t => task'[u] = task[u]
    BY <1>0, <2>2
  <2> QED
    BY <2>1, <2>2, <2>3, BusQuiet
<1>3. CASE ServicesNext
  <2>1. \/ \E s \in Subscriber : Receive(s) \/ \E e \in EventType : Subscribe(s, e)
        \/ \E t \in Task : \/ ScheduleRecurring(t) \/ TickerFires(t)
                           \/ Send(t) \/ Drop(t) \/ PublishReturns(t)
                           \/ TaskExits(t)
        \/ StopScheduler \/ CancelTasks
    BY <1>3, Zenon DEF ServicesNext
  <2> QED
    BY <1>1, <1>2, <2>1, BusReceive, BusSubscribe, BusFires, BusServes, Zenon
<1> QED
  BY <1>1, <1>3

\* A subscriber whose channel was never found full has been sent every event
\* of its type published since it subscribed, once and in each emitter's
\* order, for any number of tasks, subscribers and channels' capacities.
THEOREM FastSubscribersServed == ServicesSpec => []FastSubscriberMissesNothing
<1>1. ServicesInit => BusInv
  <2> SUFFICES ASSUME ServicesInit PROVE BusInv
    OBVIOUS
  <2>1. /\ subscribers = [e \in EventType |-> <<>>] /\ chan = [s \in Subscriber |-> <<>>]
        /\ task = [t \in Task |-> "none"] /\ remaining = [t \in Task |-> <<>>]
        /\ fired = [t \in Task |-> 0] /\ since = <<>>
        /\ received = [s \in Subscriber |-> <<>>]
    BY DEF ServicesInit
  <2>2. BusTyped
    BY <2>1, EmptySeq DEF BusTyped
  <2>3. SubscribedOnce
    BY <2>1 DEF SubscribedOnce
  <2>4. PublishUnderLock
    BY <2>1 DEF PublishUnderLock
  <2>5. NothingMissed
    BY <2>1, EmitsAssumption DEF NothingMissed, Subscribed
  <2> QED
    BY <2>2, <2>3, <2>4, <2>5 DEF BusInv
<1> QED
  BY <1>1, BusStep, BusImplies, PTL DEF ServicesSpec

=============================================================================
