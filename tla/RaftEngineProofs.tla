--------------------------- MODULE RaftEngineProofs ---------------------------
EXTENDS RaftEngine, TLAPS, SequenceTheorems, FiniteSetTheorems

\* The arguments of HandleAppendEntries carry log entries.
LEMMA AppendEntriesArgsType ==
    ASSUME NEW a \in AppendEntriesArgs
    PROVE  /\ a.term \in Nat /\ a.prevLogIndex \in Nat /\ a.leaderCommit \in Nat
           /\ a.prevLogTerm \in Nat
           /\ a.entries \in Seq(LogEntry)
           /\ TermsOrdered(a.entries, a.prevLogTerm, a.term)
           /\ \A i \in 1..Len(a.entries) : a.entries[i].index = a.prevLogIndex + i
<1>1. /\ a.term \in 0..MaxTerm /\ a.prevLogIndex \in 0..MaxIndex
      /\ a.leaderCommit \in 0..MaxIndex /\ a.prevLogTerm \in 0..MaxTerm
      /\ a.entries \in Batch
      /\ TermsOrdered(a.entries, a.prevLogTerm, a.term)
      /\ \A i \in 1..Len(a.entries) : a.entries[i].index = a.prevLogIndex + i
  BY DEF AppendEntriesArgs
<1>2. PICK n \in 0..MaxBatch :
        a.entries \in [1..n -> [index : 1..MaxIndex, term : 0..MaxTerm, data : Payload]]
  BY <1>1 DEF Batch
<1>3. n \in Nat
  BY <1>2, BoundAssumption
<1>4. a.entries \in [1..n -> LogEntry]
  BY <1>2, BoundAssumption DEF LogEntry
<1>5. a.entries \in Seq(LogEntry)
  BY <1>3, <1>4
<1> QED
  BY <1>1, <1>5, BoundAssumption

\* What append(re.log[:relativePrevIndex+1], args.Entries...) builds is a log.
LEMMA ExtendedType ==
    ASSUME TypeOK, NEW s \in Server, NEW a \in AppendEntriesArgs,
           PrevMatches(s, a)
    PROVE  /\ Extended(s, a) \in Seq(LogEntry)
           /\ Len(Extended(s, a)) = RelIndex(s, a.prevLogIndex) + 1 + Len(a.entries)
           /\ Extended(s, a)[Len(Extended(s, a))].index \in Nat
<1> DEFINE rel == RelIndex(s, a.prevLogIndex)
<1>1. a.entries \in Seq(LogEntry) /\ a.prevLogIndex \in Nat
  BY AppendEntriesArgsType
<1>2. log[s] \in Seq(LogEntry) /\ snapshot[s].lastIncludedIndex \in Nat
  BY DEF TypeOK, Snapshot
<1>3. rel \in Nat /\ rel < Len(log[s])
  BY <1>1, <1>2 DEF PrevMatches, RelIndex
<1>4. SubSeq(log[s], 1, rel + 1) \in Seq(LogEntry) /\ Len(SubSeq(log[s], 1, rel + 1)) = rel + 1
  BY <1>2, <1>3
<1>5. Extended(s, a) \in Seq(LogEntry) /\ Len(Extended(s, a)) = rel + 1 + Len(a.entries)
  BY <1>1, <1>4 DEF Extended
<1>6. Extended(s, a)[Len(Extended(s, a))] \in LogEntry
  BY <1>1, <1>3, <1>5
<1> QED
  BY <1>5, <1>6 DEF LogEntry

\* Engines and peers are nodes, and the empty vote is not one.
LEMMA ServerFacts == Server \subseteq Node /\ Peers \subseteq Node /\ Nil \notin Node
  BY ServerAssumption, NilAssumption

\* persistState keeps the type of the store.
LEMMA PersistType ==
    ASSUME TypeOK, NEW s \in Server, PersistState(s), Stable(s)' \in StableState
    PROVE  /\ disk' \in [Server -> StableState]
           /\ failedPut' \subseteq Server /\ unread' \subseteq Server
  BY ZenonT(40) DEF PersistState, TypeOK

\* A timer reset keeps the type of the timers.
LEMMA TimerType ==
    ASSUME TypeOK, NEW s \in Server, ResetElectionTimeout(s)
    PROVE  timer' \in [Server -> {"nil", "armed", "expired", "stopped"}]
  BY DEF ResetElectionTimeout, TypeOK

\* An attempted send keeps the type of the channels.
LEMMA SendType ==
    ASSUME TypeOK, NEW s \in Server, NEW e \in LogEntry, TrySend(s, e)
    PROVE  commitChan' \in [Server -> Seq(LogEntry)]
  BY DEF TrySend, TypeOK

\* What persistState saves has the type of a stored record.
LEMMA StableType ==
    ASSUME NEW s \in Server,
           currentTerm' \in [Server -> Nat],
           votedFor' \in [Server -> Node \cup {Nil}],
           log' \in [Server -> Seq(LogEntry)],
           snapshot' \in [Server -> Snapshot]
    PROVE  Stable(s)' \in StableState
  BY DEF Stable, StableState

\* The record of an engine that has loaded nothing.
LEMMA GenesisType == /\ Genesis \in StableState
                     /\ Genesis.log \in Seq(LogEntry) /\ Genesis.snapshot \in Snapshot
<1>1. Sentinel(0, 0) \in LogEntry
  BY DEF Sentinel, LogEntry, Payload
<1>2. Genesis.log \in Seq(LogEntry)
  BY <1>1 DEF Genesis
<1>3. Genesis.snapshot \in Snapshot
  BY DEF Genesis, Snapshot
<1>4. Genesis \in StableState
  BY <1>2, <1>3 DEF Genesis, StableState
<1> QED
  BY <1>2, <1>3, <1>4

\* Type correctness of the initial states.
LEMMA InitTypeOK == Init => TypeOK
  BY GenesisType, ServerFacts DEF Init, TypeOK, Roles, LoopState

\* The steps of the goroutines keep the types.
LEMMA InternalTypeOK ==
    ASSUME TypeOK, NEW s \in Server, Internal(s)
    PROVE  TypeOK'
<1> USE DEF stateVars, logVars, applyVars, storeVars, threadVars
<1>1. CASE LoopTop(s)
  BY <1>1 DEF LoopTop, TypeOK, LoopState
<1>2. CASE LoopExit(s)
  BY <1>2 DEF LoopExit, TypeOK, LoopState
<1>3. CASE Heartbeat(s)
  BY <1>3 DEF Heartbeat, TypeOK, LoopState
<1>4. CASE TimerFires(s)
  BY <1>4 DEF TimerFires, TypeOK, LoopState
<1>5. CASE StartElection(s)
  <2>1. /\ currentTerm' \in [Server -> Nat]
        /\ votedFor' \in [Server -> Node \cup {Nil}]
        /\ log' \in [Server -> Seq(LogEntry)]
        /\ snapshot' \in [Server -> Snapshot]
    BY <1>5, ServerFacts DEF StartElection, TypeOK
  <2>2. /\ disk' \in [Server -> StableState]
        /\ failedPut' \subseteq Server /\ unread' \subseteq Server
    BY <1>5, <2>1, StableType, PersistType DEF StartElection
  <2>3. timer' \in [Server -> {"nil", "armed", "expired", "stopped"}]
    BY <1>5, TimerType DEF StartElection
  <2>4. ballots' \in [Server -> SUBSET Ballot]
    <3>1. [term |-> currentTerm[s] + 1, votes |-> 1, waiting |-> 0] \in Ballot
      BY DEF TypeOK, Ballot
    <3> QED
      BY <1>5, <3>1 DEF StartElection, TypeOK
  <2>5. role' \in [Server -> Roles] /\ loop' \in [Server -> LoopState]
    BY <1>5 DEF StartElection, TypeOK, Roles, LoopState
  <2> QED
    BY <1>5, <2>1, <2>2, <2>3, <2>4, <2>5 DEF StartElection, TypeOK
<1>6. CASE LaunchVotes(s)
  <2> DEFINE others == Cardinality(peers[s] \ {s})
             new    == {b \in ballots[s] : b.waiting = 0}
             asked  == {[term |-> b.term, votes |-> 1, waiting |-> others] : b \in new}
  <2>1. others \in Nat
    <3>1. IsFiniteSet(peers[s] \ {s})
      BY ServerAssumption, FS_Subset DEF TypeOK
    <3> QED
      BY <3>1, FS_CardinalityType
  <2>2. new \subseteq Ballot
    BY DEF TypeOK
  <2>3. asked \subseteq Ballot
    BY <2>1, <2>2 DEF Ballot
  <2>4. ballots' \in [Server -> SUBSET Ballot]
    BY <1>6, <2>2, <2>3 DEF LaunchVotes, TypeOK
  <2> QED
    BY <1>6, <2>4 DEF LaunchVotes, TypeOK, LoopState
<1>7. CASE \E b \in ballots[s] : CountVote(s, b)
  <2>1. PICK b \in ballots[s] : CountVote(s, b)
    BY <1>7
  <2>2. b \in Ballot
    BY DEF TypeOK
  <2> DEFINE left == IF b.waiting = 1 THEN {}
                     ELSE {[term |-> b.term, votes |-> b.votes + 1, waiting |-> b.waiting - 1]}
  <2>3. left \subseteq Ballot
    BY <2>1, <2>2 DEF CountVote, Ballot
  <2>4. ballots' \in [Server -> SUBSET Ballot]
    BY <2>1, <2>3 DEF CountVote, TypeOK
  <2>5. role' \in [Server -> Roles]
    BY <2>1 DEF CountVote, TypeOK, Roles
  <2> QED
    BY <2>1, <2>4, <2>5 DEF CountVote, TypeOK
<1>8. CASE ApplyEntry(s)
  <2>1. lastApplied' \in [Server -> Nat]
    BY <1>8 DEF ApplyEntry, TypeOK
  <2>2. commitChan' \in [Server -> Seq(LogEntry)]
    <3> DEFINE rel == RelIndex(s, lastApplied[s] + 1)
    <3>1. CASE rel >= 0 /\ rel < Len(log[s]) /\ log[s][rel + 1].data # NoData
      <4>1. rel \in Int
        BY DEF RelIndex, TypeOK, Snapshot
      <4>2. log[s] \in Seq(LogEntry)
        BY DEF TypeOK
      <4>3. log[s][rel + 1] \in LogEntry
        BY <3>1, <4>1, <4>2
      <4> QED
        BY <1>8, <3>1, <4>3, SendType DEF ApplyEntry
    <3>2. CASE ~(rel >= 0 /\ rel < Len(log[s]) /\ log[s][rel + 1].data # NoData)
      BY <1>8, <3>2 DEF ApplyEntry, TypeOK
    <3> QED
      BY <3>1, <3>2
  <2> QED
    BY <1>8, <2>1, <2>2 DEF ApplyEntry, TypeOK
<1>9. CASE Receive(s)
  <2>1. commitChan[s] \in Seq(LogEntry) /\ commitChan[s] # <<>>
    BY <1>9 DEF Receive, TypeOK
  <2>2. Tail(commitChan[s]) \in Seq(LogEntry)
    BY <2>1
  <2> QED
    BY <1>9, <2>2 DEF Receive, TypeOK
<1> QED
  BY <1>1, <1>2, <1>3, <1>4, <1>5, <1>6, <1>7, <1>8, <1>9 DEF Internal

\* The entry a leader proposes.
LEMMA LastLogIndexType ==
    ASSUME TypeOK, NEW s \in Server
    PROVE  LastLogIndex(s) \in Nat
<1>1. log[s] \in Seq(LogEntry) /\ snapshot[s] \in Snapshot
  BY DEF TypeOK
<1>2. CASE log[s] = <<>>
  BY <1>1, <1>2 DEF LastLogIndex, Snapshot
<1>3. CASE log[s] # <<>>
  <2>1. log[s][Len(log[s])] \in LogEntry
    BY <1>1, <1>3
  <2> QED
    BY <1>3, <2>1 DEF LastLogIndex, LogEntry
<1> QED
  BY <1>2, <1>3

\* The calls of the runtime and of the application keep the types.
LEMMA CallTypeOK ==
    ASSUME TypeOK, NEW s \in Server, Call(s)
    PROVE  TypeOK'
<1> USE DEF stateVars, logVars, applyVars, storeVars, threadVars
<1>1. CASE Start(s)
  BY <1>1 DEF Start, TypeOK, LoopState
<1>2. CASE Stop(s)
  BY <1>2 DEF Stop, TypeOK
<1>3. CASE CancelContext(s)
  BY <1>3 DEF CancelContext, TypeOK
<1>4. CASE \E d \in Payload : Propose(s, d)
  <2>1. PICK d \in Payload : Propose(s, d)
    BY <1>4
  <2> DEFINE new == [index |-> LastLogIndex(s) + 1, term |-> currentTerm[s],
                     data |-> d]
  <2>2. new \in LogEntry
    <3>1. LastLogIndex(s) \in Nat /\ currentTerm[s] \in Nat
      BY LastLogIndexType DEF TypeOK
    <3> QED
      BY <3>1 DEF LogEntry
  <2>3. log' \in [Server -> Seq(LogEntry)]
    BY <2>1, <2>2 DEF Propose, TypeOK
  <2>4. /\ disk' \in [Server -> StableState]
        /\ failedPut' \subseteq Server /\ unread' \subseteq Server
    BY <2>1, <2>3, StableType, PersistType DEF Propose, TypeOK
  <2>5. commitChan' \in [Server -> Seq(LogEntry)]
    BY <2>1, <2>2, SendType DEF Propose
  <2>6. commitIndex' \in [Server -> Nat] /\ lastApplied' \in [Server -> Nat]
    BY <2>1, LastLogIndexType, SMTT(40) DEF Propose, TypeOK
  <2> QED
    BY <2>1, <2>3, <2>4, <2>5, <2>6 DEF Propose, TypeOK
<1>5. CASE \E i \in 1..MaxIndex : CompactLog(s, i)
  <2>1. PICK i \in 1..MaxIndex : CompactLog(s, i)
    BY <1>5
  <2> DEFINE rel == RelIndex(s, i)
  <2>2. rel \in Nat \ {0} /\ i \in Nat
    BY <2>1, BoundAssumption DEF CompactLog, RelIndex, TypeOK, Snapshot
  <2>3. CASE rel >= Len(log[s])
    <3>1. log[s] \in Seq(LogEntry)
      BY DEF TypeOK
    <3> QED
      BY <2>1, <2>2, <2>3, <3>1 DEF CompactLog, TypeOK
  <2>4. CASE rel < Len(log[s])
    <3>1. log[s] \in Seq(LogEntry) /\ rel + 1 \in 1..Len(log[s])
      BY <2>2, <2>4 DEF TypeOK
    <3>2. log[s][rel + 1].term \in Nat
      <4>1. log[s][rel + 1] \in LogEntry
        BY <3>1
      <4> QED
        BY <4>1 DEF LogEntry
    <3>3. snapshot' \in [Server -> Snapshot]
      <4>1. snapshot' = [snapshot EXCEPT ![s] =
              [lastIncludedIndex |-> i, lastIncludedTerm |-> log[s][rel + 1].term]]
        BY <2>1, <2>2, <2>4, <3>1 DEF CompactLog
      <4>2. [lastIncludedIndex |-> i, lastIncludedTerm |-> log[s][rel + 1].term]
              \in Snapshot
        BY <2>2, <3>2 DEF Snapshot
      <4> QED
        BY <4>1, <4>2 DEF TypeOK
    <3>4. Sentinel(i, log[s][rel + 1].term) \in LogEntry
      BY <2>2, <3>2 DEF Sentinel, LogEntry, Payload
    <3>5. SubSeq(log[s], rel + 2, Len(log[s])) \in Seq(LogEntry)
      BY <2>2, <3>1
    <3>6. <<Sentinel(i, log[s][rel + 1].term)>> \o SubSeq(log[s], rel + 2, Len(log[s]))
            \in Seq(LogEntry)
      BY <3>4, <3>5
    <3>7. log' \in [Server -> Seq(LogEntry)]
      BY <2>1, <2>2, <2>4, <3>1, <3>6, ZenonT(40) DEF CompactLog, TypeOK
    <3>8. /\ disk' \in [Server -> StableState]
          /\ failedPut' \subseteq Server /\ unread' \subseteq Server
      <4>1. PersistState(s) /\ UNCHANGED stateVars
        BY <2>1, <2>2, <2>4, <3>1 DEF CompactLog
      <4> QED
        BY <4>1, <3>3, <3>7, StableType, PersistType DEF TypeOK
    <3> QED
      BY <2>1, <2>2, <2>4, <3>1, <3>3, <3>7, <3>8 DEF CompactLog, TypeOK
  <2>5. Len(log[s]) \in Nat
    BY DEF TypeOK
  <2> QED
    BY <2>2, <2>3, <2>4, <2>5
<1>6. CASE \E n \in Node : AddNode(s, n)
  <2>1. PICK n \in Node : AddNode(s, n)
    BY <1>6
  <2>2. /\ disk' \in [Server -> StableState]
        /\ failedPut' \subseteq Server /\ unread' \subseteq Server
    BY <2>1, StableType, PersistType DEF AddNode, TypeOK
  <2> QED
    BY <2>1, <2>2 DEF AddNode, TypeOK
<1>7. CASE \E n \in Node : RemoveNode(s, n)
  <2>1. PICK n \in Node : RemoveNode(s, n)
    BY <1>7
  <2>2. /\ disk' \in [Server -> StableState]
        /\ failedPut' \subseteq Server /\ unread' \subseteq Server
    BY <2>1, StableType, PersistType DEF RemoveNode, TypeOK
  <2> QED
    BY <2>1, <2>2 DEF RemoveNode, TypeOK
<1>8. CASE \E r \in AssignedRoles : SetRole(s, r)
  BY <1>8, RoleAssumption DEF SetRole, TypeOK
<1>9. CASE OtherChange(s)
  <2>1. /\ disk' \in [Server -> StableState]
        /\ failedPut' \subseteq Server /\ unread' \subseteq Server
    BY <1>9, StableType, PersistType DEF OtherChange, TypeOK
  <2> QED
    BY <1>9, <2>1 DEF OtherChange, TypeOK
<1> QED
  BY <1>1, <1>2, <1>3, <1>4, <1>5, <1>6, <1>7, <1>8, <1>9 DEF Call

\* What FollowTerm does to the fields it assigns.
LEMMA FollowTermType ==
    ASSUME TypeOK, NEW s \in Server, NEW t \in Nat, FollowTerm(s, t)
    PROVE  /\ currentTerm' \in [Server -> Nat]
           /\ role' \in [Server -> Roles]
           /\ votedFor' \in [Server -> Node \cup {Nil}]
           /\ forced' \subseteq Server
           /\ timer' \in [Server -> {"nil", "armed", "expired", "stopped"}]
           /\ granted' \in [Server -> SUBSET Grant]
<1>1. timer' \in [Server -> {"nil", "armed", "expired", "stopped"}]
  BY TimerType DEF FollowTerm
<1>2. CASE StepsDown(s, t)
  <2>1. /\ currentTerm' = [currentTerm EXCEPT ![s] = t]
        /\ role' = [role EXCEPT ![s] = "Follower"]
        /\ votedFor' = [votedFor EXCEPT ![s] = Nil]
        /\ forced' = forced \ {s}
        /\ UNCHANGED granted
    BY <1>2 DEF FollowTerm
  <2> QED
    BY <1>1, <2>1 DEF TypeOK, Roles
<1>3. CASE ~StepsDown(s, t)
  <2>1. UNCHANGED <<currentTerm, role, votedFor, forced, granted>>
    BY <1>3 DEF FollowTerm
  <2> QED
    BY <1>1, <2>1 DEF TypeOK
<1> QED
  BY <1>2, <1>3

\* The two handlers keep the types.
LEMMA RpcTypeOK ==
    ASSUME TypeOK, NEW s \in Server, Rpc(s)
    PROVE  TypeOK'
<1> USE DEF stateVars, logVars, applyVars, storeVars, threadVars
<1>1. CASE \E a \in RequestVoteArgs : HandleRequestVote(s, a)
  <2>1. PICK a \in RequestVoteArgs : HandleRequestVote(s, a)
    BY <1>1
  <2>2. a.term \in Nat /\ a.candidateID \in Node
    BY BoundAssumption DEF RequestVoteArgs
  <2>3. currentTerm' \in [Server -> Nat] /\ votedFor' \in [Server -> Node \cup {Nil}]
    BY <2>1, <2>2 DEF HandleRequestVote, TypeOK
  <2>4. /\ disk' \in [Server -> StableState]
        /\ failedPut' \subseteq Server /\ unread' \subseteq Server
    BY <2>1, <2>3, StableType, PersistType DEF HandleRequestVote, TypeOK
  <2>5. timer' \in [Server -> {"nil", "armed", "expired", "stopped"}]
    BY <2>1, TimerType DEF HandleRequestVote, TypeOK
  <2>6. granted' \in [Server -> SUBSET Grant]
    <3>1. [term |-> a.term, candidate |-> a.candidateID] \in Grant
      BY <2>2 DEF Grant
    <3> QED
      BY <2>1, <3>1 DEF HandleRequestVote, TypeOK
  <2>7. role' \in [Server -> Roles] /\ forced' \subseteq Server
    BY <2>1 DEF HandleRequestVote, TypeOK, Roles
  <2> QED
    BY <2>1, <2>3, <2>4, <2>5, <2>6, <2>7 DEF HandleRequestVote, TypeOK
<1>2. CASE \E a \in AppendEntriesArgs : RejectAppendEntries(s, a)
  <2>1. PICK a \in AppendEntriesArgs : RejectAppendEntries(s, a)
    BY <1>2
  <2>2. a.term \in Nat
    BY AppendEntriesArgsType
  <2> QED
    BY <2>1, <2>2, FollowTermType DEF RejectAppendEntries, TypeOK
<1>3. CASE \E a \in AppendEntriesArgs : AcceptAppendEntries(s, a)
  <2>1. PICK a \in AppendEntriesArgs : AcceptAppendEntries(s, a)
    BY <1>3
  <2>2. a.term \in Nat /\ a.leaderCommit \in Nat
    BY AppendEntriesArgsType
  <2>3. /\ Extended(s, a) \in Seq(LogEntry)
        /\ Extended(s, a)[Len(Extended(s, a))].index \in Nat
    BY <2>1, ExtendedType DEF AcceptAppendEntries
  <2>4. log' \in [Server -> Seq(LogEntry)]
    BY <2>1, <2>3 DEF AcceptAppendEntries, TypeOK
  <2>5. /\ disk' \in [Server -> StableState]
        /\ failedPut' \subseteq Server /\ unread' \subseteq Server
    BY <2>1, <2>2, <2>4, FollowTermType, StableType, PersistType
       DEF AcceptAppendEntries, TypeOK
  <2>6. commitIndex' \in [Server -> Nat]
    BY <2>1, <2>2, <2>3 DEF AcceptAppendEntries, CommitUpTo, TypeOK
  <2> QED
    BY <2>1, <2>2, <2>4, <2>5, <2>6, FollowTermType DEF AcceptAppendEntries, TypeOK
<1> QED
  BY <1>1, <1>2, <1>3 DEF Rpc

\* A new engine has the types, whatever record it starts from.
LEMMA BootTypeOK ==
    ASSUME TypeOK, NEW s \in Server, NEW rec \in StableState, Boot(s, rec),
           unread' \subseteq Server
    PROVE  TypeOK'
<1>1. /\ rec.currentTerm \in Nat /\ rec.votedFor \in Node \cup {Nil}
      /\ rec.log \in Seq(LogEntry) /\ rec.snapshot \in Snapshot
  BY DEF StableState
<1> QED
  BY <1>1, ServerFacts DEF Boot, TypeOK, Roles, LoopState

\* What loadState finds on disk has the types of the fields it fills.
LEMMA RestartTypeOK ==
    ASSUME TypeOK, NEW s \in Server, Restart(s)
    PROVE  TypeOK'
<1>1. disk[s] \in StableState /\ unread' \subseteq Server
  BY DEF Restart, TypeOK
<1> QED
  BY <1>1, BootTypeOK DEF Restart

\* So has what it leaves in place when it cannot read.
LEMMA RestartUnreadTypeOK ==
    ASSUME TypeOK, NEW s \in Server, RestartUnread(s)
    PROVE  TypeOK'
<1>1. unread' \subseteq Server
  BY DEF RestartUnread, TypeOK
<1> QED
  BY <1>1, GenesisType, BootTypeOK DEF RestartUnread

\* Every step keeps the types.
LEMMA StepTypeOK == TypeOK /\ [Next]_vars => TypeOK'
<1> SUFFICES ASSUME TypeOK, [Next]_vars PROVE TypeOK'
  OBVIOUS
<1>1. CASE Next
  BY <1>1, InternalTypeOK, CallTypeOK, RpcTypeOK, RestartTypeOK,
     RestartUnreadTypeOK DEF Next
<1>2. CASE UNCHANGED vars
  BY <1>2 DEF vars, stateVars, logVars, applyVars, storeVars, threadVars, TypeOK
<1> QED
  BY <1>1, <1>2

\* Every variable keeps its type, for any number of engines and any bounds.
THEOREM TypeCorrect == Spec => []TypeOK
  BY InitTypeOK, StepTypeOK, PTL DEF Spec

=============================================================================
