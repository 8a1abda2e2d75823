--------------------------- MODULE SovereignRouter ---------------------------
(***************************************************************************)
(* The private execution pipeline of one node: SovereignExecutionRouter    *)
(* (core/execution/router.go) with the JurisdictionVault, the              *)
(* SideChannelFetcher and the TelemetryPipeline of modules/privacy.        *)
(*                                                                         *)
(* Anchors arrive one at a time, as consensus commits them; payloads       *)
(* arrive over a side channel, at any moment.  The vault is locked call by *)
(* call, so Apply is as many steps as it makes calls.  A slice is a member *)
(* of Data or, nil or empty, NilBytes; SHA-256 is an injective Digest.  A  *)
(* router without telemetry is one whose queue has no room, ever.          *)
(***************************************************************************)
EXTENDS Naturals, Sequences, FiniteSets

CONSTANTS
    Tx, Data, Jurisdiction, Worker,
    Home,       \* NodeJurisdiction
    NilBytes,   \* a slice without bytes: also what a map has for a missing key
    Missing,    \* no entry in sideDB or Registry
    HasFetcher, \* whether the router was given a fetcher
    QueueCap,   \* capacity of TraceQueue
    MaxApply    \* bound on the anchors applied

ASSUME HomeAssumption == Home \in Jurisdiction
ASSUME BytesAssumption ==
    /\ NilBytes \notin Data /\ Missing \notin Data /\ NilBytes # Missing
    /\ HasFetcher \in BOOLEAN
ASSUME QueueAssumption == QueueCap \in Nat /\ MaxApply \in Nat

VARIABLES
    globalState,  \* GlobalState: the hash last anchored for a transaction
    privateState, \* PrivateState
    sideDB,       \* the vault
    pc,           \* where Apply is
    anchor,       \* its argument
    payload,      \* its payloadData, or the bytes its fetch returned
    traceQueue, busy, registry, \* TelemetryPipeline; busy[w]: w's trace
    applied,      \* history: the anchors applied, in order
    trail,        \* history: the traces of the executions, in order
    kept          \* history: the traces that found room in traceQueue, in order

routerVars == <<globalState, privateState, anchor, applied>>
traceVars  == <<traceQueue, busy, registry>>
vars == <<routerVars, sideDB, pc, payload, traceVars, trail, kept>>

Digest(x) == [digest |-> x]
Bytes  == Data \cup {NilBytes}
Hash   == {Digest(x) : x \in Bytes}
Anchor == [tx : Tx, jurisdiction : Jurisdiction, hash : Hash]
Trace  == [tx : Tx, pre : Hash, post : Hash, hash : Hash]
Proof  == [pre : Hash, post : Hash]
ASSUME MissingAssumption == Missing \notin Trace

Step   == {"idle", "verify", "fetch", "store", "check", "reread", "execute"}

\* Type invariant.
TypeOK ==
    /\ globalState \in [Tx -> Hash \cup {Missing}]
    /\ privateState \in [Tx -> Bytes]
    /\ sideDB \in [Tx -> Bytes \cup {Missing}]
    /\ pc \in Step
    /\ anchor \in Anchor
    /\ payload \in Bytes
    /\ traceQueue \in Seq(Trace)
    /\ busy \in [Worker -> Trace \cup {Missing}]
    /\ registry \in [Tx -> Proof \cup {Missing}]
    /\ applied \in Seq(Anchor)
    /\ trail \in Seq(Trace) /\ kept \in Seq(Trace)

Init ==
    /\ globalState = [t \in Tx |-> Missing]
    /\ privateState = [t \in Tx |-> NilBytes]
    /\ sideDB = [t \in Tx |-> Missing]
    /\ pc = "idle"
    /\ anchor \in Anchor
    /\ payload = NilBytes
    /\ traceQueue = <<>>
    /\ busy = [w \in Worker |-> Missing]
    /\ registry = [t \in Tx |-> Missing]
    /\ applied = <<>> /\ trail = <<>> /\ kept = <<>>

-----------------------------------------------------------------------------
(* The vault.                                                              *)

\* StoreIfAuthorized, called by the side channel for a payload that claims
\* jurisdiction j.  A payload of another jurisdiction is refused.
StoreIfAuthorized(t, j, d) ==
    /\ j = Home
    /\ sideDB' = [sideDB EXCEPT ![t] = d]
    /\ UNCHANGED <<routerVars, pc, payload, traceVars, trail, kept>>

\* Mutant of Verifies: any stored payload will do.
Exists(t, h) == sideDB[t] # Missing /\ h \in Hash

\* RetrieveAndVerify returns the payload, and no error.
Verifies(t, h) == sideDB[t] # Missing /\ Digest(sideDB[t]) = h

-----------------------------------------------------------------------------
(* Apply.                                                                  *)

\* anchor.JurisdictionCode == r.Vault.NodeJurisdiction
Concerns(a) == a.jurisdiction = Home

\* The anchor is recorded; a foreign one ends here.
Begin(a) ==
    /\ pc = "idle"
    /\ Len(applied) < MaxApply
    /\ globalState' = [globalState EXCEPT ![a.tx] = a.hash]
    /\ anchor' = a
    /\ applied' = Append(applied, a)
    /\ pc' = IF Concerns(a) THEN "verify" ELSE "idle"
    /\ payload' = NilBytes
    /\ UNCHANGED <<privateState, sideDB, traceVars, trail, kept>>

\* The first RetrieveAndVerify: only a missing payload is fetched, a wrong
\* one is an error.
Verify ==
    /\ pc = "verify"
    /\ IF Verifies(anchor.tx, anchor.hash)
         THEN pc' = "execute" /\ payload' = sideDB[anchor.tx]
         ELSE /\ pc' = IF sideDB[anchor.tx] = Missing /\ HasFetcher
                         THEN "fetch" ELSE "idle"
              /\ UNCHANGED payload
    /\ UNCHANGED <<routerVars, sideDB, traceVars, trail, kept>>

\* RequestPayload fails or times out: Apply returns the error.
FetchFails ==
    /\ pc = "fetch"
    /\ pc' = "idle"
    /\ UNCHANGED <<routerVars, sideDB, payload, traceVars, trail, kept>>

\* RequestPayload returns the bytes some peer sent, which may be none.
FetchReturns(d) ==
    /\ pc = "fetch"
    /\ pc' = "store"
    /\ payload' = d
    /\ UNCHANGED <<routerVars, sideDB, traceVars, trail, kept>>

\* The bytes are stored, labelled with the node's own jurisdiction, ...
FetchStore ==
    /\ pc = "store"
    /\ sideDB' = [sideDB EXCEPT ![anchor.tx] = payload]
    /\ pc' = "check"
    /\ UNCHANGED <<routerVars, payload, traceVars, trail, kept>>

\* Mutant of FetchCheck: a mismatch is fetched again.
FetchCheckRetry ==
    /\ pc = "check"
    /\ pc' = IF Verifies(anchor.tx, anchor.hash) THEN "reread" ELSE "fetch"
    /\ UNCHANGED <<routerVars, sideDB, payload, traceVars, trail, kept>>

\* ... and verified afterwards: wrong bytes stay in the vault.
FetchCheck ==
    /\ pc = "check"
    /\ pc' = IF Verifies(anchor.tx, anchor.hash) THEN "reread" ELSE "idle"
    /\ UNCHANGED <<routerVars, sideDB, payload, traceVars, trail, kept>>

\* payloadData, _ = r.Vault.RetrieveAndVerify(...): an error leaves nil.
Reread ==
    /\ pc = "reread"
    /\ payload' = IF Verifies(anchor.tx, anchor.hash) THEN sideDB[anchor.tx]
                                                      ELSE NilBytes
    /\ pc' = "execute"
    /\ UNCHANGED <<routerVars, sideDB, traceVars, trail, kept>>

\* Mutant of TraceOf: the pre-state is captured after the write.
TraceAfterWrite(a, d) ==
    [tx |-> a.tx, pre |-> Digest(d), post |-> Digest(d), hash |-> a.hash]

\* The trace of writing d for anchor a.
TraceOf(a, d) ==
    [tx |-> a.tx, pre |-> Digest(privateState[a.tx]), post |-> Digest(d),
     hash |-> a.hash]

\* The write and the trace, which a full queue drops.
Execute ==
    LET t    == TraceOf(anchor, payload)
        room == Len(traceQueue) < QueueCap
    IN  /\ pc = "execute"
        /\ privateState' = [privateState EXCEPT ![anchor.tx] = payload]
        /\ traceQueue' = IF room THEN Append(traceQueue, t) ELSE traceQueue
        /\ kept' = IF room THEN Append(kept, t) ELSE kept
        /\ trail' = Append(trail, t)
        /\ pc' = "idle"
        /\ UNCHANGED <<globalState, anchor, applied, sideDB, payload, busy,
                       registry>>

-----------------------------------------------------------------------------
(* The telemetry workers.                                                  *)

TakeTrace(w) ==
    /\ busy[w] = Missing
    /\ traceQueue # <<>>
    /\ busy' = [busy EXCEPT ![w] = Head(traceQueue)]
    /\ traceQueue' = Tail(traceQueue)
    /\ UNCHANGED <<routerVars, sideDB, pc, payload, registry, trail, kept>>

\* Mutant of GenerateProof: the proof says nothing of the state before.
ProofOfResult(t) == [pre |-> t.post, post |-> t.post]

\* MockProver, the only prover there is, hashes the two roots and returns no
\* error.
GenerateProof(t) == [pre |-> t.pre, post |-> t.post]

\* Mutant of StoreProof: a proof that is there already is left.
StoreProofOnce(w) ==
    /\ busy[w] # Missing
    /\ registry' = IF registry[busy[w].tx] = Missing
                     THEN [registry EXCEPT ![busy[w].tx] = GenerateProof(busy[w])]
                     ELSE registry
    /\ busy' = [busy EXCEPT ![w] = Missing]
    /\ UNCHANGED <<routerVars, sideDB, pc, payload, traceQueue, trail, kept>>

StoreProof(w) ==
    /\ busy[w] # Missing
    /\ registry' = [registry EXCEPT ![busy[w].tx] = GenerateProof(busy[w])]
    /\ busy' = [busy EXCEPT ![w] = Missing]
    /\ UNCHANGED <<routerVars, sideDB, pc, payload, traceQueue, trail, kept>>

-----------------------------------------------------------------------------

Apply ==
    \/ Verify \/ FetchFails \/ (\E d \in Bytes : FetchReturns(d))
    \/ FetchStore \/ FetchCheck \/ Reread \/ Execute

Next ==
    \/ \E a \in Anchor : Begin(a)
    \/ Apply
    \/ \E t \in Tx, j \in Jurisdiction, d \in Bytes : StoreIfAuthorized(t, j, d)
    \/ \E w \in Worker : TakeTrace(w) \/ StoreProof(w)

Spec == Init /\ [][Next]_vars

\* Apply runs to its end, its fetch bounded by a timeout; workers run.
FairSpec ==
    /\ Spec
    /\ WF_vars(Apply)
    /\ \A w \in Worker : WF_vars(TakeTrace(w)) /\ WF_vars(StoreProof(w))

-----------------------------------------------------------------------------
(* Properties.                                                             *)

Traces == {trail[i] : i \in 1..Len(trail)}

\* The private state only ever takes bytes that hash to an anchor of this
\* jurisdiction for that transaction, or nil: no payload the side channel
\* delivers, at whatever moment, gets past the comparison with the anchor.
AnchoredExecution ==
    \A t \in Traces :
        /\ \E i \in 1..Len(applied) : /\ applied[i].tx = t.tx
                                      /\ applied[i].jurisdiction = Home
                                      /\ applied[i].hash = t.hash
        /\ t.post \in {t.hash, Digest(NilBytes)}

\* Every execution wrote the bytes its anchor names.
ExecutedMatchesAnchor == \A t \in Traces : t.post = t.hash

\* The traces of one transaction form a chain: each starts from the state the
\* one before it left, and the last one leaves the present state.
TracesChain ==
    \A x \in Tx :
        LET mine == {i \in 1..Len(trail) : trail[i].tx = x}
        IN  /\ \A i \in mine :
                  LET before == {j \in mine : j < i}
                  IN  trail[i].pre =
                        IF before = {} THEN Digest(NilBytes)
                        ELSE trail[CHOOSE j \in before :
                                     \A k \in before : k <= j].post
            /\ mine # {} =>
                  Digest(privateState[x]) =
                    trail[CHOOSE j \in mine : \A k \in mine : k <= j].post

\* A proof in the registry is the proof of an execution that happened.
ProofsGenuine ==
    \A x \in Tx : registry[x] # Missing =>
        \E t \in Traces : t.tx = x /\ registry[x] = [pre |-> t.pre, post |-> t.post]

\* With one worker the registry catches up, however often the queue overflows:
\* once no trace of a transaction is queued or being proved, its proof is that
\* of the last of its executions whose trace was not dropped, and there is none
\* when all were.  None is dropped before there were more executions than the
\* queue has room for.
RegistryLatest ==
    /\ Len(trail) <= QueueCap => kept = trail
    /\ \A x \in Tx :
         LET mine == {i \in 1..Len(kept) : kept[i].tx = x}
         IN  (/\ \A i \in 1..Len(traceQueue) : traceQueue[i].tx # x
              /\ \A w \in Worker : busy[w] # Missing => busy[w].tx # x)
             => registry[x] =
                  IF mine = {} THEN Missing
                  ELSE LET t == kept[CHOOSE j \in mine : \A k \in mine : k <= j]
                       IN  [pre |-> t.pre, post |-> t.post]

\* Apply returns: a stalled side channel never blocks consensus for ever.
ApplyReturns == pc # "idle" ~> pc = "idle"

\* A trace that was queued is proved: the registry comes to hold its proof, also
\* when it holds the proof of an earlier execution of the same transaction.
TracesProved ==
    \A x \in Tx, p \in Proof :
        (\E i \in 1..Len(traceQueue) :
            /\ traceQueue[i].tx = x
            /\ p = [pre |-> traceQueue[i].pre, post |-> traceQueue[i].post])
        ~> registry[x] = p

=============================================================================
