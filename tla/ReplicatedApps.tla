--------------------------- MODULE ReplicatedApps ---------------------------
(***************************************************************************)
(* The replicated applications and the deterministic replay of             *)
(* core/runtime/replay.go.                                                 *)
(*                                                                         *)
(* A deployment hosts one application.  Every replica applies the commands *)
(* of one committed log, in order, at moments of its own: Apply reads the  *)
(* clock of that moment.  The recorder is the replica whose successful     *)
(* commands go to the ReplayLog; the replayer is a fresh state machine     *)
(* that a ReplayEngine drives through that log.                            *)
(***************************************************************************)
EXTENDS Applications

CONSTANTS
    Live,           \* replicas that apply the log
    Recorder,       \* the one whose commands are recorded
    Replayer,       \* the state machine under the ReplayEngine
    MaxLog, MaxTime \* bounds: MaxLog[a], the commands an application gets

ASSUME ReplicaAssumption == Recorder \in Live /\ Replayer \notin Live

VARIABLES
    app,      \* the application deployed
    log,      \* the committed commands
    pos,      \* how many of its commands each replica has applied
    machine,  \* the maps of each replica's application
    root,     \* its stateRoot
    failed,   \* history: the positions at which Apply returned an error
    now,      \* time.Now()
    recorded, \* ReplayLog.Entries
    verdict   \* what Replay has to say

vars == <<app, log, pos, machine, root, failed, now, recorded, verdict>>

Replica == Live \cup {Replayer}
\* StateMachine.Apply of replica r's application.
Outcomes(r, c) == ApplyOutcomes(app, machine[r], root[r], c, now)

-----------------------------------------------------------------------------

\* The constructors: empty maps and a genesis root.
Init ==
    /\ app \in App
    /\ log = <<>>
    /\ pos = [r \in Replica |-> 0]
    /\ machine = [r \in Replica |-> EmptyState(app)]
    /\ root = [r \in Replica |-> Genesis(app)]
    /\ failed = [r \in Replica |-> {}]
    /\ now = 0
    /\ recorded = <<>>
    /\ verdict = "running"

\* Consensus commits a command.
Commit(c) ==
    /\ Len(log) < MaxLog[app]
    /\ log' = Append(log, c)
    /\ UNCHANGED <<app, pos, machine, root, failed, now, recorded, verdict>>

\* Time passes; only dist-lock looks at the clock.
Tick ==
    /\ app = "lock"
    /\ now < MaxTime
    /\ now' = now + 1
    /\ UNCHANGED <<app, log, pos, machine, root, failed, recorded, verdict>>

\* Mutant of Record: refused commands are recorded too.
RecordAlways(r, c, o) ==
    recorded' = IF r = Recorder
                  THEN Append(recorded, [payload |-> c, stateRoot |-> o.root])
                  ELSE recorded

\* ReplayLog.Record, after an Apply that returned a root.  MerkleState is not
\* a StateMachine, which is what a ReplayEngine drives.
Record(r, c, o) ==
    recorded' = IF r = Recorder /\ o.ok /\ app # "merkle"
                  THEN Append(recorded, [payload |-> c, stateRoot |-> o.root])
                  ELSE recorded

\* Replica r's state machine takes command c, with outcome o.
Take(r, c, o) ==
    /\ o \in Outcomes(r, c)
    /\ machine' = [machine EXCEPT ![r] = o.state]
    /\ root' = [root EXCEPT ![r] = o.root]
    /\ pos' = [pos EXCEPT ![r] = @ + 1]
    /\ failed' = [failed EXCEPT ![r] = IF o.ok THEN @ ELSE @ \cup {pos[r] + 1}]
    /\ UNCHANGED <<app, log, now>>

\* A replica applies its next command.
Apply(r) ==
    /\ pos[r] < Len(log)
    /\ LET c == log[pos[r] + 1]
       IN  \E o \in Outcomes(r, c) : Take(r, c, o) /\ Record(r, c, o)
    /\ UNCHANGED verdict

\* What Replay makes of an entry and the outcome of applying it.
Verdict(e, o) ==
    CASE ~o.ok                            -> "failed"
      [] o.ok /\ o.root # e.stateRoot     -> "determinism violation"
      [] o.ok /\ o.root = e.stateRoot     -> "running"

\* One round of Replay's loop: it stops at the first error or mismatch.
ReplayStep ==
    /\ verdict = "running"
    /\ pos[Replayer] < Len(recorded)
    /\ LET e == recorded[pos[Replayer] + 1]
       IN  \E o \in Outcomes(Replayer, e.payload) :
              Take(Replayer, e.payload, o) /\ verdict' = Verdict(e, o)
    /\ UNCHANGED recorded

Next ==
    \/ \E c \in Commands[app] : Commit(c)
    \/ Tick
    \/ \E r \in Live : Apply(r)
    \/ ReplayStep

Spec == Init /\ [][Next]_vars

-----------------------------------------------------------------------------
(* Properties.                                                             *)

\* Replicas of an application that sorts what it hashes hold the same state
\* and report the same root once they have applied the same commands, each at
\* moments of its own, and met the same errors.  MerkleState drops its storage
\* errors: its replicas agree in memory and in the root.
ReplicasAgree ==
    LET kept(r) == IF app = "merkle" THEN machine[r].mem ELSE machine[r]
    IN  app \in {"kv", "config", "meta", "merkle"} =>
            \A r, s \in Live : pos[r] = pos[s] /\ failed[r] = failed[s] =>
                kept(r) = kept(s) /\ root[r] = root[s]

\* What MerkleState's inclusion proofs are good for: GetProof answers for
\* every key ever written, and its proof verifies against the root last
\* returned exactly when the bytes of key and value, written one after the
\* other, are what was hashed last into that root: those of the only change
\* of the last ApplyChanges, of "empty_state" when it had none, and of the two
\* hashes under the root when it had several.  So no proof of a key that was
\* changed together with others verifies, unless its bytes are two hashes.
ProofOfSoleChange == app = "merkle" =>
    \A r \in Live : pos[r] > 0 =>
        LET changed  == DOMAIN log[pos[r]]
            spelt(k) == Spelling[k] \o machine[r].mem[k]
        IN  \A k \in DOMAIN machine[r].mem :
              VerifyProof(k, machine[r].mem[k], root[r]) <=>
                \/ \E j \in changed : changed = {j} /\ spelt(k) = spelt(j)
                \/ changed = {} /\ spelt(k) = EmptyBytes
                \/ \E d \in 0..Cardinality(changed) :
                      LET level == MerkleLevels(Leaves(machine[r].mem,
                                                       Sorted(changed)))[d]
                      IN  Len(level) = 2 /\ spelt(k) = level

\* Replaying what a replica recorded, on a fresh state machine, reproduces
\* every root it recorded.
ReplayDeterministic == verdict # "determinism violation"

\* The same of the applications whose refused commands leave no trace, as
\* long as the recorder's storage, and the replayer's, did not fail.
ReplayReproduces ==
    LET clean(seq, r) == \A i \in failed[r] : app = "kv" => seq[i].op = "OTHER"
        replayed == [i \in 1..Len(recorded) |-> recorded[i].payload]
    IN  app \in {"kv", "meta"} /\ clean(log, Recorder)
            /\ clean(replayed, Replayer)
          => verdict = "running"

\* The applied commands of replica r that are about key k.
AboutKey(r, k) == {i \in 1..pos[r] : log[i].op # "OTHER" /\ log[i].key = k}

Lookup(f, k) == IF k \in DOMAIN f THEN {f[k]} ELSE {}

\* A storage error leaves the kv-store's map, its storage and its root apart,
\* but no longer than to the next success: the map differs from the storage
\* only at keys whose last write failed, and the root is that of the map
\* unless no write has succeeded since the last failure.
KVDamageContained == app = "kv" =>
    \A r \in Live :
        LET m == machine[r]
        IN  /\ \A k \in Name : Lookup(m.mem, k) # Lookup(m.disk, k) =>
                  \E i \in AboutKey(r, k) \cap failed[r] :
                      \A j \in AboutKey(r, k) : j <= i
            /\ root[r] = KVRoot(m.mem, Sorted(DOMAIN m.mem))
               \/ \A i \in 1..pos[r] :
                     i \notin failed[r] =>
                        \E j \in failed[r] : j > i /\ log[j].op # "OTHER"

\* How many of the commands m+1..n of l are action a on topic t.
Count(l, m, n, t, a) ==
    Cardinality({i \in (m+1)..n : l[i].action = a /\ l[i].topic = t})

\* What q must be after the first n commands of l.  Its length is that of a
\* queue which ignores dequeues while empty: the largest surplus of enqueues
\* over dequeues in any suffix.  An item with fewer enqueues after it than the
\* length is in the queue, that many places from the end.
NewestInOrder(l, n, t, q) ==
    LET later(i)   == Count(l, i, n, t, "ENQUEUE")
        surplus(i) == later(i) - Count(l, i, n, t, "DEQUEUE")
    IN  /\ \E i \in 0..n : surplus(i) = Len(q)
        /\ \A i \in 0..n : surplus(i) <= Len(q)
        /\ \A i \in 1..n :
              l[i].action = "ENQUEUE" /\ l[i].topic = t /\ later(i) < Len(q)
                => q[Len(q) - later(i)] = l[i].data

Topic(s, t) == IF t \in DOMAIN s THEN s[t] ELSE <<>>

\* At every replica a topic holds the newest of the items enqueued, in order,
\* and as many as a queue must hold, however enqueues, dequeues and dequeues
\* of an empty topic follow one another.
QueueIsFIFO == app = "queue" =>
    \A r \in Live, t \in Name :
        NewestInOrder(log, pos[r], t, Topic(machine[r], t))

\* A step keeps the unexpired locks it is not entitled to change.
KeepsUnexpired ==
    app = "lock" =>
        \A r \in Live : \A x \in DOMAIN machine[r] :
            LET info == machine[r][x]
                keeps == x \in DOMAIN machine'[r] /\ machine'[r][x] = info
            IN  (now < info.expiresAt /\ ~keeps) =>
                   log[pos'[r]].holder = info.holder

\* A lock that has not expired at a replica stays with its holder until a
\* command of the holder itself changes it: no other holder's acquisition or
\* release, however often retried, takes it away.
LockNotStolen == [][KeepsUnexpired]_vars

=============================================================================
