------------------------ MODULE SovereignRouterProofs ------------------------
(* AnchoredExecution, ProofsGenuine and TracesChain of                      *)
(* SovereignRouter, for any transactions, payloads, jurisdictions, workers  *)
(* and bounds, with a fetcher or without; RegistryLatest for one worker.    *)
EXTENDS SovereignRouter, SequenceTheorems, TLAPS

\* While Apply goes on, its anchor was applied and is of this jurisdiction.
AnchorApplied ==
    pc # "idle" => /\ anchor.jurisdiction = Home
                   /\ \E i \in 1..Len(applied) : applied[i] = anchor

\* What is about to be executed was verified, by the call that read it.
VerifiedPayload ==
    pc = "execute" => payload = NilBytes \/ Digest(payload) = anchor.hash

\* The pipeline invents no trace.
PipelineTraces ==
    /\ \A i \in 1..Len(traceQueue) : traceQueue[i] \in Traces
    /\ \A w \in Worker : busy[w] # Missing => busy[w] \in Traces

RouterInv ==
    /\ TypeOK
    /\ AnchorApplied /\ VerifiedPayload /\ PipelineTraces
    /\ AnchoredExecution /\ ProofsGenuine

-----------------------------------------------------------------------------
(* Sequences.                                                              *)

\* What Append adds to a sequence, and where.
LEMMA AppendKeeps ==
    ASSUME NEW S, NEW s \in Seq(S), NEW x \in S
    PROVE  /\ Append(s, x) \in Seq(S)
           /\ Len(Append(s, x)) = Len(s) + 1 /\ Len(s) \in Nat
           /\ \A i \in 1..Len(s) : Append(s, x)[i] = s[i]
           /\ Append(s, x)[Len(s) + 1] = x
  BY AppendProperties, LenProperties

\* The elements of the tail are elements of the sequence.
LEMMA TailKeeps ==
    ASSUME NEW S, NEW s \in Seq(S), s # <<>>
    PROVE  /\ Head(s) \in S /\ Tail(s) \in Seq(S)
           /\ 1 \in 1..Len(s) /\ Head(s) = s[1]
           /\ \A i \in 1..Len(Tail(s)) :
                i + 1 \in 1..Len(s) /\ Tail(s)[i] = s[i + 1]
<1>1. Len(s) \in Nat \ {0}
  BY LenProperties, EmptySeq
<1> QED
  BY <1>1, HeadTailProperties

\* A step that leaves the trail alone leaves the set of traces alone.
LEMMA SameTraces == UNCHANGED trail => Traces' = Traces
  BY DEF Traces

\* A trace is a record of what it is made of, and hashes are hashes.
LEMMA TraceTyped ==
    ASSUME TypeOK, NEW d \in Bytes
    PROVE  TraceOf(anchor, d) \in Trace /\ Digest(d) \in Hash
           /\ anchor.hash \in Hash /\ anchor.tx \in Tx
  BY DEF TypeOK, TraceOf, Trace, Hash, Anchor

-----------------------------------------------------------------------------
(* Types.                                                                  *)

\* Every step keeps TypeOK.
LEMMA TypeStep == TypeOK /\ [Next]_vars => TypeOK'
<1> SUFFICES ASSUME TypeOK, [Next]_vars PROVE TypeOK'
  OBVIOUS
<1> USE DEF TypeOK, Step, Bytes
<1>1. CASE UNCHANGED vars
  BY <1>1 DEF vars, routerVars, traceVars
<1>2. ASSUME NEW a \in Anchor, Begin(a) PROVE TypeOK'
  <2>1. a.tx \in Tx /\ a.hash \in Hash
    BY DEF Anchor, Hash
  <2>2. applied' \in Seq(Anchor)
    BY <1>2, AppendKeeps DEF Begin
  <2> QED
    BY <1>2, <2>1, <2>2 DEF Begin, traceVars
<1>3. CASE Verify
  BY <1>3 DEF Verify, Verifies, Anchor, routerVars, traceVars
<1>4. CASE FetchFails
  BY <1>4 DEF FetchFails, routerVars, traceVars
<1>5. ASSUME NEW d \in Bytes, FetchReturns(d) PROVE TypeOK'
  BY <1>5 DEF FetchReturns, routerVars, traceVars
<1>6. CASE FetchStore
  BY <1>6 DEF FetchStore, Anchor, routerVars, traceVars
<1>7. CASE FetchCheck
  BY <1>7 DEF FetchCheck, routerVars, traceVars
<1>8. CASE Reread
  BY <1>8 DEF Reread, Verifies, Anchor, routerVars, traceVars
<1>9. CASE Execute
  <2>1. TraceOf(anchor, payload) \in Trace /\ anchor.tx \in Tx
    BY TraceTyped
  <2>2. trail' \in Seq(Trace) /\ kept' \in Seq(Trace) /\ traceQueue' \in Seq(Trace)
    BY <1>9, <2>1, AppendKeeps DEF Execute
  <2> QED
    BY <1>9, <2>1, <2>2 DEF Execute
<1>10. ASSUME NEW t \in Tx, NEW j \in Jurisdiction, NEW d \in Bytes,
              StoreIfAuthorized(t, j, d)
       PROVE  TypeOK'
  BY <1>10 DEF StoreIfAuthorized, routerVars, traceVars
<1>11. ASSUME NEW w \in Worker, TakeTrace(w) PROVE TypeOK'
  <2>1. Head(traceQueue) \in Trace /\ Tail(traceQueue) \in Seq(Trace)
    BY <1>11, TailKeeps DEF TakeTrace
  <2> QED
    BY <1>11, <2>1 DEF TakeTrace, routerVars
<1>12. ASSUME NEW w \in Worker, StoreProof(w) PROVE TypeOK'
  <2>1. busy[w] \in Trace
    BY <1>12 DEF StoreProof
  <2>2. GenerateProof(busy[w]) \in Proof /\ busy[w].tx \in Tx
    BY <2>1 DEF GenerateProof, Proof, Trace
  <2> QED
    BY <1>12, <2>2 DEF StoreProof, routerVars
<1> QED
  BY <1>1, <1>2, <1>3, <1>4, <1>5, <1>6, <1>7, <1>8, <1>9, <1>10, <1>11, <1>12
     DEF Next, Apply

\* Initial states have the types.
LEMMA TypeInit == Init => TypeOK
  BY EmptySeq DEF Init, TypeOK, Step, Bytes

-----------------------------------------------------------------------------
(* Anchored execution and genuine proofs.                                  *)

\* A step of Apply that neither executes nor touches the pipeline: what it
\* hands to the next step is all there is to check.
LEMMA Between ==
    ASSUME RouterInv, TypeOK', AnchorApplied', VerifiedPayload',
           UNCHANGED <<traceVars, trail>>,
           applied' = applied \/ \E a \in Anchor : applied' = Append(applied, a)
    PROVE  RouterInv'
<1> USE DEF RouterInv
<1>1. Traces' = Traces
  BY SameTraces
<1>2. PipelineTraces' /\ ProofsGenuine'
  BY <1>1 DEF PipelineTraces, ProofsGenuine, traceVars
<1>3. \A i \in 1..Len(applied) : i \in 1..Len(applied') /\ applied'[i] = applied[i]
  <2>1. applied \in Seq(Anchor)
    BY DEF TypeOK
  <2> QED
    BY <2>1, AppendKeeps
<1>4. AnchoredExecution'
  BY <1>1, <1>3 DEF AnchoredExecution
<1> QED
  BY <1>2, <1>4

\* Execute adds one trace: of an applied anchor, of verified bytes or of nil.
LEMMA ExecuteStep ==
    ASSUME RouterInv, TypeOK', Execute
    PROVE  RouterInv'
<1> DEFINE t == TraceOf(anchor, payload)
<1>1. /\ pc = "execute" /\ pc' = "idle" /\ trail' = Append(trail, t)
      /\ traceQueue' = IF Len(traceQueue) < QueueCap
                         THEN Append(traceQueue, t) ELSE traceQueue
      /\ UNCHANGED <<applied, anchor, busy, registry>>
  BY DEF Execute
<1>2. /\ t \in Trace /\ t.tx = anchor.tx /\ t.hash = anchor.hash
      /\ t.post = Digest(payload)
  BY TraceTyped DEF TraceOf, RouterInv, TypeOK
<1>3. trail \in Seq(Trace) /\ traceQueue \in Seq(Trace)
  BY DEF RouterInv, TypeOK
<1> HIDE DEF t
<1>4. Traces' = Traces \cup {t}
  <2>1. /\ Len(trail') = Len(trail) + 1 /\ Len(trail) \in Nat
        /\ \A i \in 1..Len(trail) : trail'[i] = trail[i]
        /\ trail'[Len(trail) + 1] = t
    BY <1>1, <1>2, <1>3, AppendKeeps
  <2> QED
    BY <2>1 DEF Traces
<1>5. AnchoredExecution'
  <2>1. t.post \in {t.hash, Digest(NilBytes)}
    BY <1>1, <1>2 DEF RouterInv, VerifiedPayload
  <2>2. \E i \in 1..Len(applied) : /\ applied[i].tx = t.tx
                                   /\ applied[i].jurisdiction = Home
                                   /\ applied[i].hash = t.hash
    BY <1>1, <1>2 DEF RouterInv, AnchorApplied
  <2> QED
    BY <1>1, <1>4, <2>1, <2>2 DEF RouterInv, AnchoredExecution
<1>6. PipelineTraces'
  <2>1. \A i \in 1..Len(traceQueue') : traceQueue'[i] \in Traces'
    <3>1. CASE Len(traceQueue) < QueueCap
      <4>1. /\ Len(traceQueue') = Len(traceQueue) + 1 /\ Len(traceQueue) \in Nat
            /\ \A i \in 1..Len(traceQueue) : traceQueue'[i] = traceQueue[i]
            /\ traceQueue'[Len(traceQueue) + 1] = t
        BY <3>1, <1>1, <1>2, <1>3, AppendKeeps
      <4> QED
        BY <4>1, <1>4 DEF RouterInv, PipelineTraces
    <3>2. CASE ~(Len(traceQueue) < QueueCap)
      BY <3>2, <1>1, <1>4 DEF RouterInv, PipelineTraces
    <3> QED
      BY <3>1, <3>2
  <2> QED
    BY <2>1, <1>1, <1>4 DEF RouterInv, PipelineTraces
<1>7. ProofsGenuine'
  BY <1>1, <1>4 DEF RouterInv, ProofsGenuine
<1>8. AnchorApplied' /\ VerifiedPayload'
  BY <1>1 DEF AnchorApplied, VerifiedPayload
<1> QED
  BY <1>5, <1>6, <1>7, <1>8 DEF RouterInv

\* A worker takes a trace of the queue.
LEMMA TakeTraceStep ==
    ASSUME RouterInv, TypeOK', NEW w \in Worker, TakeTrace(w)
    PROVE  RouterInv'
<1> USE DEF RouterInv
<1>1. /\ traceQueue # <<>> /\ traceQueue' = Tail(traceQueue)
      /\ busy' = [busy EXCEPT ![w] = Head(traceQueue)]
      /\ UNCHANGED <<applied, anchor, pc, payload, registry, trail>>
  BY DEF TakeTrace, routerVars
<1>2. traceQueue \in Seq(Trace) /\ busy \in [Worker -> Trace \cup {Missing}]
  BY DEF TypeOK
<1>3. Traces' = Traces
  BY <1>1, SameTraces
<1>4. PipelineTraces'
  <2>1. Head(traceQueue) \in Traces
    BY <1>1, <1>2, TailKeeps DEF PipelineTraces
  <2>2. \A i \in 1..Len(traceQueue') : traceQueue'[i] \in Traces
    BY <1>1, <1>2, TailKeeps DEF PipelineTraces
  <2> QED
    BY <1>1, <1>2, <1>3, <2>1, <2>2 DEF PipelineTraces
<1> QED
  BY <1>1, <1>3, <1>4
     DEF AnchorApplied, VerifiedPayload, AnchoredExecution, ProofsGenuine

\* A worker stores the proof of the trace it took.
LEMMA StoreProofStep ==
    ASSUME RouterInv, TypeOK', NEW w \in Worker, StoreProof(w)
    PROVE  RouterInv'
<1> USE DEF RouterInv
<1>1. /\ busy[w] # Missing
      /\ registry' = [registry EXCEPT ![busy[w].tx] =
                        [pre |-> busy[w].pre, post |-> busy[w].post]]
      /\ busy' = [busy EXCEPT ![w] = Missing]
      /\ UNCHANGED <<applied, anchor, pc, payload, traceQueue, trail>>
  BY DEF StoreProof, GenerateProof, routerVars
<1>2. /\ busy \in [Worker -> Trace \cup {Missing}]
      /\ registry \in [Tx -> Proof \cup {Missing}]
  BY DEF TypeOK
<1>3. Traces' = Traces
  BY <1>1, SameTraces
<1>4. PipelineTraces'
  BY <1>1, <1>2, <1>3 DEF PipelineTraces
<1>5. busy[w] \in Traces
  BY <1>1 DEF PipelineTraces
<1>6. ProofsGenuine'
  BY <1>1, <1>2, <1>3, <1>5 DEF ProofsGenuine
<1> QED
  BY <1>1, <1>3, <1>4, <1>6 DEF AnchorApplied, VerifiedPayload, AnchoredExecution

\* Every step keeps RouterInv.
LEMMA RouterStep == RouterInv /\ [Next]_vars => RouterInv'
<1> SUFFICES ASSUME RouterInv, [Next]_vars PROVE RouterInv'
  OBVIOUS
<1>0. TypeOK' /\ TypeOK
  BY TypeStep DEF RouterInv
<1> USE DEF AnchorApplied, VerifiedPayload
<1>1. CASE UNCHANGED vars
  BY <1>1, <1>0, Between DEF RouterInv, vars, routerVars
<1>2. ASSUME NEW a \in Anchor, Begin(a) PROVE RouterInv'
  <2>1. /\ applied' = Append(applied, a) /\ anchor' = a
        /\ pc' = IF a.jurisdiction = Home THEN "verify" ELSE "idle"
        /\ UNCHANGED <<traceVars, trail>>
    BY <1>2 DEF Begin, Concerns
  <2>2. /\ Len(applied') = Len(applied) + 1 /\ Len(applied) \in Nat
        /\ applied'[Len(applied) + 1] = a
    BY <1>0, <2>1, AppendKeeps DEF TypeOK
  <2>3. AnchorApplied' /\ VerifiedPayload'
    BY <2>1, <2>2
  <2> QED
    BY <1>0, <2>1, <2>3, Between
<1>3. CASE Verify \/ Reread
  <2>1. /\ pc # "idle"
        /\ pc' = "execute" => payload' = NilBytes \/ Digest(payload') = anchor.hash
        /\ UNCHANGED <<routerVars, traceVars, trail>>
    BY <1>3 DEF Verify, Reread, Verifies
  <2>2. AnchorApplied' /\ VerifiedPayload'
    BY <2>1 DEF RouterInv, routerVars
  <2> QED
    BY <1>0, <2>1, <2>2, Between DEF routerVars
<1>4. ASSUME FetchFails \/ (\E d \in Bytes : FetchReturns(d)) \/ FetchStore
             \/ FetchCheck
      PROVE  RouterInv'
  <2>1. /\ pc # "idle" /\ pc' # "execute"
        /\ UNCHANGED <<routerVars, traceVars, trail>>
    BY <1>4 DEF FetchFails, FetchReturns, FetchStore, FetchCheck
  <2>2. AnchorApplied' /\ VerifiedPayload'
    BY <2>1 DEF RouterInv, routerVars
  <2> QED
    BY <1>0, <2>1, <2>2, Between DEF routerVars
<1>5. ASSUME NEW t \in Tx, NEW j \in Jurisdiction, NEW d \in Bytes,
             StoreIfAuthorized(t, j, d)
      PROVE  RouterInv'
  <2>1. UNCHANGED <<routerVars, pc, payload, traceVars, trail>>
    BY <1>5 DEF StoreIfAuthorized
  <2> QED
    BY <1>0, <2>1, Between DEF RouterInv, routerVars
<1> QED
  BY <1>0, <1>1, <1>2, <1>3, <1>4, <1>5, ExecuteStep, TakeTraceStep, StoreProofStep
     DEF Next, Apply

\* RouterInv holds at all times.
LEMMA RouterInvariance == Spec => []RouterInv
<1>1. Init => RouterInv
  BY TypeInit, EmptySeq
     DEF Init, RouterInv, AnchorApplied, VerifiedPayload, PipelineTraces,
         AnchoredExecution, ProofsGenuine, Traces
<1> QED
  BY <1>1, RouterStep, PTL DEF Spec

\* No payload of the side channel, whenever it arrives, gets past the
\* comparison with an applied anchor of the node's own jurisdiction: what
\* Apply writes hashes to that anchor, or is nil.
THEOREM ExecutionAnchored == Spec => []AnchoredExecution
<1>1. RouterInv => AnchoredExecution
  BY DEF RouterInv
<1> QED
  BY <1>1, RouterInvariance, PTL

\* Every proof the telemetry workers registered, however many they are and in
\* whatever order they finish, is the proof of an execution that happened.
THEOREM GenuineProofs == Spec => []ProofsGenuine
<1>1. RouterInv => ProofsGenuine
  BY DEF RouterInv
<1> QED
  BY <1>1, RouterInvariance, PTL

-----------------------------------------------------------------------------
(* Chains of traces.  That a set of positions has a last one is part of    *)
(* the invariant: it holds because the trail grows one trace at a time.    *)

\* No trace of x among the first n, and the last one of them.
NoTrace(tr, x, n) == \A j \in 1..n : tr[j].tx # x
LastTrace(tr, x, n, j) ==
    /\ j \in 1..n /\ tr[j].tx = x
    /\ \A k \in 1..n : tr[k].tx = x => k <= j

\* The trail has a last trace of every transaction that it has a trace of.
HasLast(tr) ==
    \A x \in Tx : \A n \in 0..Len(tr) : NoTrace(tr, x, n) \/ \E j : LastTrace(tr, x, n, j)

\* Each trace starts from what the last one before it left.
Chained(tr) ==
    \A i \in 1..Len(tr) :
        /\ NoTrace(tr, tr[i].tx, i - 1) => tr[i].pre = Digest(NilBytes)
        /\ \A j : LastTrace(tr, tr[i].tx, i - 1, j) => tr[i].pre = tr[j].post

\* The private state is what the last one left.
EndsAt(tr, P) ==
    \A x \in Tx :
        /\ NoTrace(tr, x, Len(tr)) => P[x] = NilBytes
        /\ \A j : LastTrace(tr, x, Len(tr), j) => Digest(P[x]) = tr[j].post

ChainInv == TypeOK /\ HasLast(trail) /\ Chained(trail) /\ EndsAt(trail, privateState)

\* One more trace: it is the last of its transaction, and nothing else changes.
LEMMA LastOfAppend ==
    ASSUME NEW tr \in Seq(Trace), NEW t \in Trace, NEW u, u = Append(tr, t), NEW x
    PROVE  /\ \A n \in 0..Len(tr) : NoTrace(u, x, n) <=> NoTrace(tr, x, n)
           /\ \A n \in 0..Len(tr) : \A j : LastTrace(u, x, n, j) <=> LastTrace(tr, x, n, j)
           /\ t.tx = x => /\ ~NoTrace(u, x, Len(tr) + 1)
                          /\ \A j : LastTrace(u, x, Len(tr) + 1, j) <=> j = Len(tr) + 1
           /\ t.tx # x =>
                /\ NoTrace(u, x, Len(tr) + 1) <=> NoTrace(tr, x, Len(tr))
                /\ \A j : LastTrace(u, x, Len(tr) + 1, j) <=> LastTrace(tr, x, Len(tr), j)
<1>1. PICK len : len = Len(tr) /\ len \in Nat
  BY LenProperties
<1>2. /\ \A i \in 1..len : u[i] = tr[i]
      /\ u[len + 1] = t
  BY <1>1, AppendKeeps
<1>3. \A n \in 0..len : \A i \in 1..n : i \in 1..len /\ u[i] = tr[i]
  BY <1>1, <1>2
<1>4. \A n \in 0..len : NoTrace(u, x, n) <=> NoTrace(tr, x, n)
  BY <1>3 DEF NoTrace
<1>5. \A n \in 0..len : \A j : LastTrace(u, x, n, j) <=> LastTrace(tr, x, n, j)
  BY <1>3 DEF LastTrace
<1>6. /\ \A i : i \in 1..(len + 1) <=> (i \in 1..len \/ i = len + 1)
      /\ \A i \in 1..len : i <= len + 1 /\ ~(len + 1 <= i)
      /\ len + 1 <= len + 1 /\ len + 1 \notin 1..len
  BY <1>1
<1>7. ASSUME t.tx = x
      PROVE  /\ ~NoTrace(u, x, len + 1)
             /\ \A j : LastTrace(u, x, len + 1, j) <=> j = len + 1
  BY <1>2, <1>6, <1>7 DEF NoTrace, LastTrace
<1>8. ASSUME t.tx # x
      PROVE  /\ NoTrace(u, x, len + 1) <=> NoTrace(tr, x, len)
             /\ \A j : LastTrace(u, x, len + 1, j) <=> LastTrace(tr, x, len, j)
  BY <1>2, <1>6, <1>8 DEF NoTrace, LastTrace
<1> QED
  BY <1>1, <1>4, <1>5, <1>7, <1>8

\* With one more trace every transaction still has its last one.
LEMMA LastGrows ==
    ASSUME NEW tr \in Seq(Trace), NEW t \in Trace, HasLast(tr)
    PROVE  HasLast(Append(tr, t))
<1>1. PICK u : u = Append(tr, t)
  OBVIOUS
<1>2. PICK len : len = Len(tr) /\ len \in Nat
  BY LenProperties
<1>3. Len(u) = len + 1
  BY <1>1, <1>2, AppendKeeps
<1> SUFFICES ASSUME NEW x \in Tx, NEW n \in 0..(len + 1)
             PROVE  NoTrace(u, x, n) \/ \E j : LastTrace(u, x, n, j)
  BY <1>1, <1>3 DEF HasLast
<1>4. (n \in 0..len \/ n = len + 1) /\ len \in 0..len
  BY <1>2
<1>5. CASE n \in 0..len
  <2>1. NoTrace(tr, x, n) \/ \E j : LastTrace(tr, x, n, j)
    BY <1>2, <1>5 DEF HasLast
  <2>2. /\ NoTrace(u, x, n) <=> NoTrace(tr, x, n)
        /\ \A j : LastTrace(u, x, n, j) <=> LastTrace(tr, x, n, j)
    BY <1>1, <1>2, <1>5, LastOfAppend
  <2> QED
    BY <2>1, <2>2
<1>6. CASE n = len + 1 /\ t.tx = x
  <2>1. \A j : LastTrace(u, x, len + 1, j) <=> j = len + 1
    BY <1>1, <1>2, <1>6, LastOfAppend
  <2> QED
    BY <1>6, <2>1
<1>7. CASE n = len + 1 /\ t.tx # x
  <2>1. NoTrace(tr, x, len) \/ \E j : LastTrace(tr, x, len, j)
    BY <1>2, <1>4 DEF HasLast
  <2>2. /\ NoTrace(u, x, len + 1) <=> NoTrace(tr, x, len)
        /\ \A j : LastTrace(u, x, len + 1, j) <=> LastTrace(tr, x, len, j)
    BY <1>1, <1>2, <1>7, LastOfAppend
  <2> QED
    BY <1>7, <2>1, <2>2
<1> QED
  BY <1>4, <1>5, <1>6, <1>7

\* A trace that starts from the private state continues the chain.
LEMMA ChainGrows ==
    ASSUME NEW tr \in Seq(Trace), NEW t \in Trace, NEW P, NEW Q,
           HasLast(tr), Chained(tr), EndsAt(tr, P),
           t.pre = Digest(P[t.tx]), t.post = Digest(Q[t.tx]),
           \A x \in Tx : x # t.tx => Q[x] = P[x]
    PROVE  HasLast(Append(tr, t)) /\ Chained(Append(tr, t)) /\ EndsAt(Append(tr, t), Q)
<1>1. PICK u : u = Append(tr, t)
  OBVIOUS
<1>2. PICK len : len = Len(tr) /\ len \in Nat
  BY LenProperties
<1>3. /\ Len(u) = len + 1 /\ u[len + 1] = t
      /\ \A i \in 1..len : u[i] = tr[i]
  BY <1>1, <1>2, AppendKeeps
<1>4. \A x : /\ \A n \in 0..len : NoTrace(u, x, n) <=> NoTrace(tr, x, n)
             /\ \A n \in 0..len : \A j : LastTrace(u, x, n, j) <=> LastTrace(tr, x, n, j)
  BY <1>1, <1>2, LastOfAppend
<1>5. \A x : t.tx = x => /\ ~NoTrace(u, x, len + 1)
                         /\ \A j : LastTrace(u, x, len + 1, j) <=> j = len + 1
  BY <1>1, <1>2, LastOfAppend
<1>6. \A x : t.tx # x =>
                /\ NoTrace(u, x, len + 1) <=> NoTrace(tr, x, len)
                /\ \A j : LastTrace(u, x, len + 1, j) <=> LastTrace(tr, x, len, j)
  BY <1>1, <1>2, LastOfAppend
<1>7. HasLast(u)
  BY <1>1, LastGrows
<1>8. Chained(u)
  <2> SUFFICES ASSUME NEW i \in 1..(len + 1)
               PROVE  /\ NoTrace(u, u[i].tx, i - 1) => u[i].pre = Digest(NilBytes)
                      /\ \A j : LastTrace(u, u[i].tx, i - 1, j) => u[i].pre = u[j].post
    BY <1>3 DEF Chained
  <2>1. i - 1 \in 0..len /\ (i \in 1..len \/ i = len + 1)
    BY <1>2
  <2>2. ASSUME NEW j, LastTrace(u, u[i].tx, i - 1, j) PROVE j \in 1..len
    BY <1>2, <2>1, <2>2 DEF LastTrace
  <2>3. CASE i \in 1..len
    <3>1. u[i] = tr[i]
      BY <1>3, <2>3
    <3>2. /\ NoTrace(tr, tr[i].tx, i - 1) => tr[i].pre = Digest(NilBytes)
          /\ \A j : LastTrace(tr, tr[i].tx, i - 1, j) => tr[i].pre = tr[j].post
      BY <1>2, <2>3 DEF Chained
    <3>3. NoTrace(u, u[i].tx, i - 1) => u[i].pre = Digest(NilBytes)
      BY <1>4, <2>1, <3>1, <3>2
    <3>4. ASSUME NEW j, LastTrace(u, u[i].tx, i - 1, j) PROVE u[i].pre = u[j].post
      <4>1. LastTrace(tr, tr[i].tx, i - 1, j)
        BY <1>4, <2>1, <3>1, <3>4
      <4>2. u[j] = tr[j]
        BY <1>3, <2>2, <3>4
      <4> QED
        BY <3>1, <3>2, <4>1, <4>2
    <3> QED
      BY <3>3, <3>4
  <2>4. CASE i = len + 1
    <3>1. i - 1 = len /\ u[i] = t /\ t.tx \in Tx
      BY <1>2, <1>3, <2>4 DEF Trace
    <3>2. NoTrace(u, t.tx, len) => t.pre = Digest(NilBytes)
      BY <1>2, <1>4, <2>1, <3>1 DEF EndsAt
    <3>3. ASSUME NEW j, LastTrace(u, t.tx, len, j) PROVE t.pre = u[j].post
      <4>1. LastTrace(tr, t.tx, len, j)
        BY <1>4, <2>1, <3>1, <3>3
      <4>2. u[j] = tr[j]
        BY <1>3, <2>2, <3>1, <3>3
      <4> QED
        BY <1>2, <3>1, <4>1, <4>2 DEF EndsAt
    <3> QED
      BY <3>1, <3>2, <3>3
  <2> QED
    BY <2>1, <2>3, <2>4
<1>9. EndsAt(u, Q)
  <2> SUFFICES ASSUME NEW x \in Tx
               PROVE  /\ NoTrace(u, x, len + 1) => Q[x] = NilBytes
                      /\ \A j : LastTrace(u, x, len + 1, j) => Digest(Q[x]) = u[j].post
    BY <1>3 DEF EndsAt
  <2>1. CASE t.tx = x
    BY <1>3, <1>5, <2>1
  <2>2. CASE t.tx # x
    <3>1. \A j : LastTrace(tr, x, len, j) => u[j] = tr[j]
      BY <1>3 DEF LastTrace
    <3> QED
      BY <1>2, <1>6, <2>2, <3>1 DEF EndsAt
  <2> QED
    BY <2>1, <2>2
<1> QED
  BY <1>1, <1>7, <1>8, <1>9

\* Every step keeps the chain; only Execute adds to it.
LEMMA ChainStep == ChainInv /\ [Next]_vars => ChainInv'
<1> SUFFICES ASSUME ChainInv, [Next]_vars PROVE ChainInv'
  OBVIOUS
<1>1. TypeOK /\ TypeOK'
  BY TypeStep DEF ChainInv
<1>2. CASE Execute
  <2>1. PICK t : t = TraceOf(anchor, payload)
    OBVIOUS
  <2>2. /\ trail' = Append(trail, t)
        /\ privateState' = [privateState EXCEPT ![anchor.tx] = payload]
    BY <1>2, <2>1 DEF Execute
  <2>3. /\ t \in Trace /\ anchor.tx \in Tx /\ t.tx = anchor.tx
        /\ t.pre = Digest(privateState[t.tx]) /\ t.post = Digest(payload)
    BY <1>1, <2>1, TraceTyped DEF TraceOf, TypeOK
  <2>4. /\ trail \in Seq(Trace) /\ privateState \in [Tx -> Bytes]
    BY <1>1 DEF TypeOK
  <2>5. /\ privateState'[t.tx] = payload
        /\ \A x \in Tx : x # t.tx => privateState'[x] = privateState[x]
    BY <2>2, <2>3, <2>4
  <2>6. HasLast(trail') /\ Chained(trail') /\ EndsAt(trail', privateState')
    BY <2>2, <2>3, <2>4, <2>5, ChainGrows DEF ChainInv
  <2> QED
    BY <1>1, <2>6 DEF ChainInv, HasLast, Chained, EndsAt
<1>3. CASE UNCHANGED <<trail, privateState>>
  BY <1>1, <1>3 DEF ChainInv
<1>4. ~Execute => UNCHANGED <<trail, privateState>>
  BY DEF Next, Apply, Begin, Verify, FetchFails, FetchReturns, FetchStore, FetchCheck,
         Reread, StoreIfAuthorized, TakeTrace, StoreProof, vars, routerVars
<1> QED
  BY <1>2, <1>3, <1>4

\* Nothing was executed yet.
LEMMA ChainStart == Init => ChainInv
<1> SUFFICES ASSUME Init PROVE ChainInv
  OBVIOUS
<1>1. Len(trail) = 0 /\ \A x \in Tx : privateState[x] = NilBytes
  BY DEF Init
<1>2. \A n \in 0..0 : \A i \in 1..n : FALSE
  OBVIOUS
<1>3. HasLast(trail)
  BY <1>1, <1>2 DEF HasLast, NoTrace
<1>4. Chained(trail)
  BY <1>1 DEF Chained
<1>5. EndsAt(trail, privateState)
  BY <1>1 DEF EndsAt, LastTrace
<1> QED
  BY <1>3, <1>4, <1>5, TypeInit DEF ChainInv

\* ChainInv holds at all times.
LEMMA ChainInvariance == Spec => []ChainInv
  BY ChainStart, ChainStep, PTL DEF Spec

\* The position the property chooses is the last one.
LEMMA ChosenLast ==
    ASSUME NEW tr, NEW x, NEW n, NEW S, S = {k \in 1..n : tr[k].tx = x},
           NEW j, LastTrace(tr, x, n, j)
    PROVE  LastTrace(tr, x, n, CHOOSE i \in S : \A k \in S : k <= i)
<1>1. j \in S /\ \A k \in S : k <= j
  BY DEF LastTrace
<1>2. PICK i : i = CHOOSE m \in S : \A k \in S : k <= m
  OBVIOUS
<1>3. i \in S /\ \A k \in S : k <= i
  BY <1>1, <1>2
<1> QED
  BY <1>2, <1>3 DEF LastTrace

\* The executions of one transaction form a chain from the nil payload to the
\* present private state, whatever the workers and the side channel do
\* meanwhile.
THEOREM ExecutionsChain == Spec => []TracesChain
<1>1. ChainInv => TracesChain
  <2> SUFFICES ASSUME ChainInv, NEW x \in Tx
               PROVE  LET mine == {i \in 1..Len(trail) : trail[i].tx = x}
                      IN  /\ \A i \in mine :
                                LET before == {j \in mine : j < i}
                                IN  trail[i].pre =
                                      IF before = {} THEN Digest(NilBytes)
                                      ELSE trail[CHOOSE j \in before :
                                                   \A k \in before : k <= j].post
                          /\ mine # {} =>
                                Digest(privateState[x]) =
                                  trail[CHOOSE j \in mine : \A k \in mine : k <= j].post
    BY DEF TracesChain
  <2> DEFINE mine == {i \in 1..Len(trail) : trail[i].tx = x}
  <2>1. Len(trail) \in Nat
    BY LenProperties DEF ChainInv, TypeOK
  <2>2. ASSUME NEW i \in mine
        PROVE  LET before == {j \in mine : j < i}
               IN  trail[i].pre = IF before = {} THEN Digest(NilBytes)
                                  ELSE trail[CHOOSE j \in before :
                                               \A k \in before : k <= j].post
    <3> DEFINE before == {j \in mine : j < i}
    <3>1. i - 1 \in 0..Len(trail) /\ trail[i].tx = x /\ i \in 1..Len(trail)
      BY <2>1
    <3>2. before = {k \in 1..(i - 1) : trail[k].tx = x}
      BY <2>1, <3>1
    <3> HIDE DEF before, mine
    <3>3. ASSUME before = {} PROVE trail[i].pre = Digest(NilBytes)
      <4>1. NoTrace(trail, x, i - 1)
        BY <3>2, <3>3 DEF NoTrace
      <4> QED
        BY <3>1, <4>1 DEF ChainInv, Chained
    <3>4. ASSUME before # {}
          PROVE  trail[i].pre =
                   trail[CHOOSE j \in before : \A k \in before : k <= j].post
      <4>1. ~NoTrace(trail, x, i - 1)
        BY <3>2, <3>4 DEF NoTrace
      <4>2. PICK j : LastTrace(trail, x, i - 1, j)
        BY <3>1, <4>1 DEF ChainInv, HasLast
      <4>3. LastTrace(trail, x, i - 1, CHOOSE m \in before : \A k \in before : k <= m)
        BY <3>2, <4>2, ChosenLast
      <4>4. PICK m : m = CHOOSE j2 \in before : \A k \in before : k <= j2
        OBVIOUS
      <4>5. trail[i].pre = trail[m].post
        BY <3>1, <4>3, <4>4 DEF ChainInv, Chained
      <4> QED
        BY <4>4, <4>5
    <3> QED
      BY <3>3, <3>4 DEF before
  <2>3. ASSUME mine # {}
        PROVE  Digest(privateState[x]) =
                 trail[CHOOSE j \in mine : \A k \in mine : k <= j].post
    <3>1. ~NoTrace(trail, x, Len(trail)) /\ Len(trail) \in 0..Len(trail)
      BY <2>1, <2>3 DEF NoTrace
    <3>2. PICK j : LastTrace(trail, x, Len(trail), j)
      BY <3>1 DEF ChainInv, HasLast
    <3>3. LastTrace(trail, x, Len(trail), CHOOSE m \in mine : \A k \in mine : k <= m)
      BY <3>2, ChosenLast
    <3> QED
      BY <3>3 DEF ChainInv, EndsAt
  <2> QED
    BY <2>2, <2>3
<1> QED
  BY <1>1, ChainInvariance, PTL

-----------------------------------------------------------------------------
(* The registry under one worker.                                          *)

\* NewTelemetryPipeline with workers = 1.
OneWorker == \E w : Worker = {w}

\* The proof of trace t.
ProofFor(t) == [pre |-> t.pre, post |-> t.post]

\* With d of the n traces of tr proved, the worker has b in hand and the rest is
\* queued, in order; the registry holds the last of those proved.
Proved(tr, q, b, reg, d) ==
    /\ d + Len(q) + (IF b = Missing THEN 0 ELSE 1) = Len(tr)
    /\ b # Missing => b = tr[d + 1]
    /\ \A i \in 1..Len(q) : q[i] = tr[Len(tr) - Len(q) + i]
    /\ \A x \in Tx : NoTrace(tr, x, d) => reg[x] = Missing
    /\ \A x \in Tx : \A j : LastTrace(tr, x, d, j) => reg[x] = ProofFor(tr[j])

InTurn(tr, q, b, reg) == \E d \in Nat : Proved(tr, q, b, reg, d)

\* The traces that found room are proved in turn, and nothing is dropped before
\* there are more executions than the queue has room for.
RegistryInv(w) ==
    /\ ChainInv
    /\ HasLast(kept)
    /\ InTurn(kept, traceQueue, busy[w], registry)
    /\ Len(trail) <= QueueCap => kept = trail

\* What is queued is the end of what was kept.
LEMMA QueueWithin ==
    ASSUME NEW tr \in Seq(Trace), NEW q \in Seq(Trace), NEW b, NEW reg, InTurn(tr, q, b, reg)
    PROVE  Len(q) <= Len(tr)
<1>1. PICK n, m : n = Len(tr) /\ m = Len(q) /\ n \in Nat /\ m \in Nat
  BY LenProperties
<1>2. PICK d \in Nat : d + m + (IF b = Missing THEN 0 ELSE 1) = n
  BY <1>1 DEF InTurn, Proved
<1> QED
  BY <1>1, <1>2

\* Execute: the trace goes to the end of a queue that has room.
LEMMA QueueGrows ==
    ASSUME NEW tr \in Seq(Trace), NEW q \in Seq(Trace), NEW b, NEW reg, NEW t \in Trace,
           NEW p, p = Append(q, t), InTurn(tr, q, b, reg)
    PROVE  InTurn(Append(tr, t), p, b, reg)
<1>1. PICK u, n, m : /\ u = Append(tr, t) /\ n = Len(tr) /\ m = Len(q)
                     /\ n \in Nat /\ m \in Nat
  BY LenProperties
<1>2. Len(u) = n + 1 /\ u[n + 1] = t /\ \A i \in 1..n : u[i] = tr[i]
  BY <1>1, AppendKeeps
<1>4. PICK d \in Nat : Proved(tr, q, b, reg, d)
  BY DEF InTurn
<1>5. d + m + (IF b = Missing THEN 0 ELSE 1) = n
  BY <1>1, <1>4 DEF Proved
<1>6. d \in 0..n /\ (b # Missing => d + 1 \in 1..n)
  BY <1>1, <1>5
<1>7. \A x \in Tx : NoTrace(u, x, d) => reg[x] = Missing
  BY <1>1, <1>4, <1>6, LastOfAppend DEF Proved
<1>8. Len(p) = m + 1 /\ p[m + 1] = t /\ \A i \in 1..m : p[i] = q[i]
  BY <1>1, AppendKeeps
<1>9. d + (m + 1) + (IF b = Missing THEN 0 ELSE 1) = n + 1
  BY <1>1, <1>5
<1>10. b # Missing => b = u[d + 1]
  BY <1>2, <1>4, <1>6 DEF Proved
<1>11. ASSUME NEW i \in 1..(m + 1) PROVE p[i] = u[(n + 1) - (m + 1) + i]
  <2>1. CASE i = m + 1
    <3>1. (n + 1) - (m + 1) + i = n + 1
      BY <1>1, <2>1
    <3> QED
      BY <1>2, <1>8, <2>1, <3>1
  <2>2. CASE i # m + 1
    <3>1. i \in 1..m /\ (n + 1) - (m + 1) + i = n - m + i /\ n - m + i \in 1..n
      BY <1>1, <1>5, <2>2
    <3> QED
      BY <1>1, <1>2, <1>4, <1>8, <3>1 DEF Proved
  <2> QED
    BY <2>1, <2>2
<1>12. ASSUME NEW x \in Tx, NEW j, LastTrace(u, x, d, j) PROVE reg[x] = ProofFor(u[j])
  <2>1. LastTrace(tr, x, d, j)
    BY <1>1, <1>6, <1>12, LastOfAppend
  <2>2. j \in 1..n
    BY <1>1, <1>6, <2>1 DEF LastTrace
  <2> QED
    BY <1>2, <1>4, <2>1, <2>2 DEF Proved
<1>13. Proved(u, p, b, reg, d)
  BY <1>2, <1>7, <1>8, <1>9, <1>10, <1>11, <1>12 DEF Proved
<1> QED
  BY <1>1, <1>13 DEF InTurn

\* TakeTrace: the worker takes the oldest trace that is not proved.
LEMMA QueueShrinks ==
    ASSUME NEW tr \in Seq(Trace), NEW q \in Seq(Trace), NEW reg, q # <<>>,
           InTurn(tr, q, Missing, reg)
    PROVE  InTurn(tr, Tail(q), Head(q), reg)
<1>1. PICK n, m : n = Len(tr) /\ m = Len(q) /\ n \in Nat /\ m \in Nat
  BY LenProperties
<1>2. PICK d \in Nat : Proved(tr, q, Missing, reg, d)
  BY <1>1 DEF InTurn
<1>3. d + m = n
  <2>1. d + m + 0 = n
    BY <1>1, <1>2 DEF Proved
  <2> QED
    BY <1>1, <2>1
<1>4. m >= 1 /\ Head(q) = q[1] /\ Head(q) # Missing
  BY <1>1, TailKeeps, MissingAssumption
<1>5. Len(Tail(q)) = m - 1 /\ \A i \in 1..(m - 1) : Tail(q)[i] = q[i + 1]
  BY <1>1, HeadTailProperties
<1>6. Head(q) = tr[d + 1]
  <2>1. n - m + 1 = d + 1 /\ 1 \in 1..m
    BY <1>1, <1>3, <1>4
  <2> QED
    BY <1>1, <1>2, <1>4, <2>1 DEF Proved
<1>7. ASSUME NEW i \in 1..(m - 1) PROVE Tail(q)[i] = tr[n - (m - 1) + i]
  <2>1. i + 1 \in 1..m /\ n - (m - 1) + i = n - m + (i + 1)
    BY <1>1
  <2> QED
    BY <1>1, <1>2, <1>5, <2>1 DEF Proved
<1>8. d + (m - 1) + 1 = n
  BY <1>1, <1>3
<1>9. Proved(tr, Tail(q), Head(q), reg, d)
  BY <1>1, <1>2, <1>4, <1>5, <1>6, <1>7, <1>8 DEF Proved
<1> QED
  BY <1>9 DEF InTurn

\* StoreProof: one more trace is proved, and its proof is the latest.
LEMMA ProofStored ==
    ASSUME NEW tr \in Seq(Trace), NEW q \in Seq(Trace), NEW b \in Trace, NEW reg, NEW new,
           InTurn(tr, q, b, reg), new[b.tx] = ProofFor(b),
           \A x \in Tx : x # b.tx => new[x] = reg[x]
    PROVE  InTurn(tr, q, Missing, new)
<1>1. PICK n, m : n = Len(tr) /\ m = Len(q) /\ n \in Nat /\ m \in Nat
  BY LenProperties
<1>2. PICK d \in Nat : Proved(tr, q, b, reg, d)
  BY <1>1 DEF InTurn
<1>3. b # Missing
  BY MissingAssumption
<1>4. d + m + 1 = n /\ b = tr[d + 1]
  BY <1>1, <1>2, <1>3 DEF Proved
<1>5. /\ \A i : i \in 1..(d + 1) <=> (i \in 1..d \/ i = d + 1)
      /\ \A i \in 1..d : ~(d + 1 <= i)
  OBVIOUS
<1>6. ASSUME NEW x \in Tx, NEW j, LastTrace(tr, x, d + 1, j)
      PROVE  new[x] = ProofFor(tr[j])
  <2>1. CASE x = b.tx
    <3>1. j = d + 1
      BY <1>4, <1>5, <1>6, <2>1 DEF LastTrace
    <3> QED
      BY <1>4, <2>1, <3>1
  <2>2. CASE x # b.tx
    <3>1. LastTrace(tr, x, d, j)
      BY <1>4, <1>5, <1>6, <2>2 DEF LastTrace
    <3> QED
      BY <1>2, <2>2, <3>1 DEF Proved
  <2> QED
    BY <2>1, <2>2
<1>7. (d + 1) + m + 0 = n /\ d + 1 \in Nat
  BY <1>1, <1>4
<1>8. ASSUME NEW x \in Tx, NoTrace(tr, x, d + 1) PROVE new[x] = Missing
  <2>1. x # b.tx /\ NoTrace(tr, x, d)
    BY <1>4, <1>5, <1>8 DEF NoTrace
  <2> QED
    BY <1>2, <2>1 DEF Proved
<1>9. Proved(tr, q, Missing, new, d + 1)
  BY <1>1, <1>2, <1>6, <1>7, <1>8 DEF Proved
<1> QED
  BY <1>7, <1>9 DEF InTurn

\* Every step keeps the traces in turn.
LEMMA RegistryStep ==
    ASSUME NEW w, Worker = {w}
    PROVE  RegistryInv(w) /\ [Next]_vars => RegistryInv(w)'
<1> SUFFICES ASSUME RegistryInv(w), [Next]_vars PROVE RegistryInv(w)'
  OBVIOUS
<1>1. ChainInv /\ ChainInv' /\ w \in Worker
  BY ChainStep DEF RegistryInv
<1>2. /\ trail \in Seq(Trace) /\ kept \in Seq(Trace) /\ traceQueue \in Seq(Trace)
      /\ busy \in [Worker -> Trace \cup {Missing}]
      /\ registry \in [Tx -> Proof \cup {Missing}]
  BY <1>1 DEF ChainInv, TypeOK
<1>3. CASE Execute
  <2>1. PICK t : t = TraceOf(anchor, payload)
    OBVIOUS
  <2>2. t \in Trace
    BY <1>1, <2>1, TraceTyped DEF ChainInv, TypeOK
  <2>3. trail' = Append(trail, t) /\ busy' = busy /\ registry' = registry
    BY <1>3, <2>1 DEF Execute
  <2>4. Len(trail') = Len(trail) + 1 /\ Len(trail) \in Nat /\ QueueCap \in Nat
    BY <1>2, <2>2, <2>3, AppendKeeps, LenProperties, QueueAssumption
  <2>5. CASE Len(traceQueue) < QueueCap
    <3>1. traceQueue' = Append(traceQueue, t) /\ kept' = Append(kept, t)
      BY <1>3, <2>1, <2>5 DEF Execute
    <3>2. InTurn(kept', traceQueue', busy[w], registry)
      BY <1>2, <2>2, <3>1, QueueGrows DEF RegistryInv
    <3>3. HasLast(kept')
      BY <1>2, <2>2, <3>1, LastGrows DEF RegistryInv
    <3>4. Len(trail') <= QueueCap => kept' = trail'
      BY <2>3, <2>4, <3>1 DEF RegistryInv
    <3> QED
      BY <1>1, <2>3, <3>2, <3>3, <3>4 DEF RegistryInv, HasLast
  <2>6. CASE ~(Len(traceQueue) < QueueCap)
    <3>1. traceQueue' = traceQueue /\ kept' = kept
      BY <1>3, <2>6 DEF Execute
    <3>2. Len(traceQueue) <= Len(kept) /\ Len(traceQueue) \in Nat
      BY <1>2, QueueWithin, LenProperties DEF RegistryInv
    <3>3. ~(Len(trail') <= QueueCap)
      <4> SUFFICES ASSUME Len(trail') <= QueueCap PROVE FALSE
        OBVIOUS
      <4>1. Len(trail) <= QueueCap
        BY <2>4
      <4>2. Len(kept) = Len(trail)
        BY <4>1 DEF RegistryInv
      <4> QED
        BY <2>4, <2>6, <3>2, <4>2
    <3> QED
      BY <1>1, <2>3, <3>1, <3>3 DEF RegistryInv
  <2> QED
    BY <2>5, <2>6
<1>4. CASE TakeTrace(w)
  <2>1. /\ busy[w] = Missing /\ traceQueue # <<>> /\ traceQueue' = Tail(traceQueue)
        /\ busy' = [busy EXCEPT ![w] = Head(traceQueue)]
        /\ trail' = trail /\ kept' = kept /\ registry' = registry
    BY <1>4 DEF TakeTrace
  <2>2. busy'[w] = Head(traceQueue)
    BY <1>1, <1>2, <2>1
  <2>3. InTurn(kept, Tail(traceQueue), Head(traceQueue), registry)
    BY <1>2, <2>1, QueueShrinks DEF RegistryInv
  <2> QED
    BY <1>1, <2>1, <2>2, <2>3 DEF RegistryInv
<1>5. CASE StoreProof(w)
  <2>1. /\ busy[w] # Missing
        /\ registry' = [registry EXCEPT ![busy[w].tx] = ProofFor(busy[w])]
        /\ busy' = [busy EXCEPT ![w] = Missing]
        /\ trail' = trail /\ kept' = kept /\ traceQueue' = traceQueue
    BY <1>5 DEF StoreProof, GenerateProof, ProofFor
  <2>2. PICK b \in Trace : b = busy[w]
    BY <1>1, <1>2, <2>1
  <2>3. b.tx \in Tx
    BY DEF Trace
  <2>4. /\ registry'[b.tx] = ProofFor(b)
        /\ \A x \in Tx : x # b.tx => registry'[x] = registry[x]
    BY <1>2, <2>1, <2>2, <2>3
  <2>5. busy'[w] = Missing
    BY <1>1, <1>2, <2>1
  <2>6. InTurn(kept, traceQueue, Missing, registry')
    BY <1>2, <2>2, <2>4, ProofStored DEF RegistryInv
  <2> QED
    BY <1>1, <2>1, <2>5, <2>6 DEF RegistryInv
<1>6. CASE UNCHANGED <<trail, kept, traceVars>>
  BY <1>1, <1>6 DEF RegistryInv, traceVars
<1>7. Execute \/ TakeTrace(w) \/ StoreProof(w) \/ UNCHANGED <<trail, kept, traceVars>>
  BY DEF Next, Apply, Begin, Verify, FetchFails, FetchReturns, FetchStore, FetchCheck,
         Reread, StoreIfAuthorized, vars
<1> QED
  BY <1>3, <1>4, <1>5, <1>6, <1>7

\* Nothing is traced yet.
LEMMA RegistryInit ==
    ASSUME NEW w, Worker = {w}
    PROVE  Init => RegistryInv(w)
<1> SUFFICES ASSUME Init PROVE RegistryInv(w)
  OBVIOUS
<1>1. ChainInv
  BY ChainStart
<1>2. /\ kept = trail /\ Len(kept) = 0 /\ Len(traceQueue) = 0 /\ busy[w] = Missing
      /\ \A x \in Tx : registry[x] = Missing
  BY DEF Init
<1>3. Proved(kept, traceQueue, busy[w], registry, 0)
  BY <1>2 DEF Proved, LastTrace
<1> QED
  BY <1>1, <1>2, <1>3 DEF RegistryInv, InTurn, ChainInv

\* One worker proves the traces in the order of the executions.
LEMMA RegistryInvariance ==
    ASSUME NEW w, Worker = {w}
    PROVE  Spec => []RegistryInv(w)
<1>1. RegistryInv(w) /\ [Next]_vars => RegistryInv(w)'
  BY RegistryStep
<1>2. Init => RegistryInv(w)
  BY RegistryInit
<1> QED
  BY <1>1, <1>2, PTL DEF Spec

\* What the invariant says once nothing of x is under way.
LEMMA RegistryCaughtUp ==
    ASSUME NEW w, Worker = {w}, RegistryInv(w), NEW x \in Tx,
           \A i \in 1..Len(traceQueue) : traceQueue[i].tx # x,
           busy[w] # Missing => busy[w].tx # x,
           NEW j, LastTrace(kept, x, Len(kept), j)
    PROVE  registry[x] = ProofFor(kept[j])
<1>1. PICK n, m : n = Len(kept) /\ m = Len(traceQueue) /\ n \in Nat /\ m \in Nat
  BY LenProperties DEF RegistryInv, ChainInv, TypeOK
<1>2. PICK d \in Nat : Proved(kept, traceQueue, busy[w], registry, d)
  BY DEF RegistryInv, InTurn
<1>3. j \in 1..n /\ kept[j].tx = x /\ \A k \in 1..n : kept[k].tx = x => k <= j
  BY <1>1 DEF LastTrace
<1>4. j <= n - m
  <2> SUFFICES ASSUME ~(j <= n - m) PROVE FALSE
    OBVIOUS
  <2>1. PICK i : i = j - (n - m)
    OBVIOUS
  <2>2. i \in 1..m /\ n - m + i = j
    BY <1>1, <1>3, <2>1
  <2>3. traceQueue[i] = kept[j]
    BY <1>1, <1>2, <2>2 DEF Proved
  <2> QED
    BY <1>1, <1>3, <2>2, <2>3
<1>5. CASE busy[w] = Missing
  <2>1. d = n - m
    <3>1. d + m + 0 = n
      BY <1>1, <1>2, <1>5 DEF Proved
    <3> QED
      BY <1>1, <3>1
  <2>2. j \in 1..d /\ \A k \in 1..d : k \in 1..n
    BY <1>1, <1>3, <1>4, <2>1
  <2>3. LastTrace(kept, x, d, j)
    BY <1>3, <2>2 DEF LastTrace
  <2> QED
    BY <1>2, <2>3 DEF Proved
<1>6. CASE busy[w] # Missing
  <2>1. d + 1 = n - m /\ busy[w] = kept[d + 1]
    <3>1. d + m + 1 = n /\ busy[w] = kept[d + 1]
      BY <1>1, <1>2, <1>6 DEF Proved
    <3> QED
      BY <1>1, <3>1
  <2>2. j # d + 1
    BY <1>3, <1>6, <2>1
  <2>3. j \in 1..d /\ \A k \in 1..d : k \in 1..n
    BY <1>1, <1>3, <1>4, <2>1, <2>2
  <2>4. LastTrace(kept, x, d, j)
    BY <1>3, <2>3 DEF LastTrace
  <2> QED
    BY <1>2, <2>4 DEF Proved
<1> QED
  BY <1>5, <1>6

\* And when no trace of x found room.
LEMMA NothingKept ==
    ASSUME NEW w, Worker = {w}, RegistryInv(w), NEW x \in Tx, NoTrace(kept, x, Len(kept))
    PROVE  registry[x] = Missing
<1>1. PICK n, m : n = Len(kept) /\ m = Len(traceQueue) /\ n \in Nat /\ m \in Nat
  BY LenProperties DEF RegistryInv, ChainInv, TypeOK
<1>2. PICK d \in Nat : Proved(kept, traceQueue, busy[w], registry, d)
  BY DEF RegistryInv, InTurn
<1>3. d + m + (IF busy[w] = Missing THEN 0 ELSE 1) = n
  BY <1>1, <1>2 DEF Proved
<1>4. \A i \in 1..d : i \in 1..n
  BY <1>1, <1>3
<1>5. NoTrace(kept, x, d)
  BY <1>1, <1>4 DEF NoTrace
<1> QED
  BY <1>2, <1>5 DEF Proved

\* With one worker the registry catches up with the executions: the proof of a
\* transaction of which nothing is under way is that of the last execution whose
\* trace found room in the queue.
THEOREM RegistryCatchesUp == OneWorker => (Spec => []RegistryLatest)
<1> SUFFICES ASSUME OneWorker PROVE Spec => []RegistryLatest
  OBVIOUS
<1>1. PICK w : Worker = {w}
  BY DEF OneWorker
<1>2. RegistryInv(w) => RegistryLatest
  <2> SUFFICES ASSUME RegistryInv(w), NEW x \in Tx,
                      \A i \in 1..Len(traceQueue) : traceQueue[i].tx # x,
                      \A v \in Worker : busy[v] # Missing => busy[v].tx # x
               PROVE  LET mine == {i \in 1..Len(kept) : kept[i].tx = x}
                      IN  registry[x] =
                            IF mine = {} THEN Missing
                            ELSE LET t == kept[CHOOSE j \in mine : \A k \in mine : k <= j]
                                 IN  [pre |-> t.pre, post |-> t.post]
    BY DEF RegistryLatest, RegistryInv
  <2> DEFINE mine == {i \in 1..Len(kept) : kept[i].tx = x}
  <2>1. Len(kept) \in 0..Len(kept)
    BY LenProperties DEF RegistryInv, ChainInv, TypeOK
  <2>2. CASE mine = {}
    <3>1. NoTrace(kept, x, Len(kept))
      BY <2>2 DEF NoTrace
    <3> QED
      BY <1>1, <2>2, <3>1, NothingKept
  <2>3. CASE mine # {}
    <3>1. ~NoTrace(kept, x, Len(kept))
      BY <2>3 DEF NoTrace
    <3>2. PICK j : LastTrace(kept, x, Len(kept), j)
      BY <2>1, <3>1 DEF RegistryInv, HasLast
    <3>3. LastTrace(kept, x, Len(kept), CHOOSE i \in mine : \A k \in mine : k <= i)
      BY <3>2, ChosenLast
    <3>4. PICK i : i = CHOOSE l \in mine : \A k \in mine : k <= l
      OBVIOUS
    <3>5. registry[x] = ProofFor(kept[i])
      BY <1>1, <3>3, <3>4, RegistryCaughtUp
    <3> QED
      BY <2>3, <3>4, <3>5 DEF ProofFor
  <2> QED
    BY <2>2, <2>3
<1>3. Spec => []RegistryInv(w)
  BY <1>1, RegistryInvariance
<1> QED
  BY <1>2, <1>3, PTL

=============================================================================
