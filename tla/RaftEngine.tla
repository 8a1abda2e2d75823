------------------------------ MODULE RaftEngine ------------------------------
(***************************************************************************)
(* The Raft engine of modules/consensus (raft_engine.go and                *)
(* raft_membership.go): one RaftEngine object per member of Server.        *)
(*                                                                         *)
(* Every exported method runs under re.mu, so each is one action.  The     *)
(* steps that are not atomic in the code are separate actions here: the    *)
(* iterations of runLoop, the two halves of startElection, the vote        *)
(* goroutines it leaves behind, the apply loop of HandleAppendEntries (it  *)
(* holds re.mu, but the reader of commitChan runs between its iterations)  *)
(* and process crashes.                                                    *)
(*                                                                         *)
(* The log is the Go slice with its sentinel: log[s][k + 1] is re.log[k].  *)
(* Replies, log messages and snapshot payloads are left out: no code reads *)
(* them.  A nil storage is the behaviour in which every Put fails.         *)
(***************************************************************************)
EXTENDS Integers, Sequences, FiniteSets

CONSTANTS
    Server,         \* the engines that are modelled
    Node,           \* every node id that can appear in peers and votes
    Peers,          \* the peers argument of NewRaftEngine
    Nil,            \* votedFor = ""
    Data,           \* non-empty payloads
    NoData,         \* the empty payload
    ChanCap,        \* capacity of commitChan
    StorageMayFail, \* whether storage.Put and Get can return an error
    AssignedRoles,  \* the arguments of SetRole
    MaxTerm,        \* bound on the terms of messages and of timeouts
    MaxIndex,       \* bound on log indexes
    MaxBatch        \* bound on the entries of one AppendEntries call

Roles == {"Follower", "Candidate", "Leader"}

ASSUME ServerAssumption ==
    Server \subseteq Node /\ Peers \subseteq Node /\ IsFiniteSet(Node)
ASSUME NilAssumption == Nil \notin Node
ASSUME DataAssumption == NoData \notin Data
ASSUME StorageAssumption == StorageMayFail \in BOOLEAN
\* Every call of SetRole in the repository passes RoleLeader.
ASSUME RoleAssumption == AssignedRoles \subseteq Roles \ {"Candidate"}
ASSUME BoundAssumption ==
    /\ ChanCap \in Nat /\ MaxTerm \in Nat
    /\ MaxIndex \in Nat /\ MaxBatch \in Nat

VARIABLES
    currentTerm, votedFor, log, snapshot,  \* the fields persistState saves
    commitIndex, lastApplied, role, peers, \* the fields it does not save
    commitChan, \* commitChan[s]: entries sent and not yet received
    disk,       \* disk[s]: the value stored under "raft_state"
    ballots,    \* ballots[s]: elections with vote goroutines still to run
    loop,       \* loop[s]: where the runLoop goroutine is
    timer,      \* timer[s]: state of electionTimer
    halted,     \* servers whose stopCh is closed or whose context is done
    down,       \* servers whose process died of an index-out-of-range panic
    failedPut,  \* history: servers whose last storage.Put failed
    unread,     \* history: servers started on a record Get did not return
    forced,     \* history: servers whose present role was set by SetRole
    granted     \* history: granted[s], the votes HandleRequestVote granted

stateVars  == <<currentTerm, votedFor, role, forced, granted>>
logVars    == <<log, snapshot>>
applyVars  == <<commitIndex, lastApplied, commitChan>>
storeVars  == <<disk, failedPut, unread>>
threadVars == <<ballots, loop, timer, halted, down>>
vars == <<stateVars, logVars, applyVars, storeVars, threadVars, peers>>

Payload  == Data \cup {NoData}
LogEntry == [index : Nat, term : Nat, data : Payload]
Snapshot == [lastIncludedIndex : Nat, lastIncludedTerm : Nat]
Ballot   == [term : Nat, votes : Nat, waiting : Nat]
Grant    == [term : Nat, candidate : Node]
StableState == [currentTerm : Nat, votedFor : Node \cup {Nil},
                log : Seq(LogEntry), snapshot : Snapshot]

\* Where runLoop is: not started; at the top of the for loop; in the select of
\* a follower or candidate; between the tick and the lock of startElection;
\* between its unlock and the launch of the vote goroutines; in the select of
\* a leader; returned.
LoopState == {"idle", "top", "election", "fired", "asking", "heartbeat", "exited"}

\* Type invariant.
TypeOK ==
    /\ currentTerm \in [Server -> Nat]
    /\ votedFor \in [Server -> Node \cup {Nil}]
    /\ log \in [Server -> Seq(LogEntry)]
    /\ snapshot \in [Server -> Snapshot]
    /\ commitIndex \in [Server -> Nat]
    /\ lastApplied \in [Server -> Nat]
    /\ role \in [Server -> Roles]
    /\ peers \in [Server -> SUBSET Node]
    /\ commitChan \in [Server -> Seq(LogEntry)]
    /\ disk \in [Server -> StableState]
    /\ ballots \in [Server -> SUBSET Ballot]
    /\ loop \in [Server -> LoopState]
    /\ timer \in [Server -> {"nil", "armed", "expired", "stopped"}]
    /\ halted \subseteq Server /\ down \subseteq Server
    /\ failedPut \subseteq Server /\ unread \subseteq Server
    /\ forced \subseteq Server
    /\ granted \in [Server -> SUBSET Grant]

-----------------------------------------------------------------------------
(* NewRaftEngine on an empty store: what loadState leaves untouched.       *)

Sentinel(i, t) == [index |-> i, term |-> t, data |-> NoData]
Genesis == [currentTerm |-> 0, votedFor |-> Nil, log |-> <<Sentinel(0, 0)>>,
            snapshot |-> [lastIncludedIndex |-> 0, lastIncludedTerm |-> 0]]

Init ==
    /\ currentTerm = [s \in Server |-> 0]
    /\ votedFor = [s \in Server |-> Nil]
    /\ log = [s \in Server |-> Genesis.log]
    /\ snapshot = [s \in Server |-> Genesis.snapshot]
    /\ commitIndex = [s \in Server |-> 0]
    /\ lastApplied = [s \in Server |-> 0]
    /\ role = [s \in Server |-> "Follower"]
    /\ peers = [s \in Server |-> Peers]
    /\ commitChan = [s \in Server |-> <<>>]
    /\ disk = [s \in Server |-> Genesis]
    /\ ballots = [s \in Server |-> {}]
    /\ loop = [s \in Server |-> "idle"]
    /\ timer = [s \in Server |-> "nil"]
    /\ halted = {} /\ down = {} /\ failedPut = {} /\ unread = {} /\ forced = {}
    /\ granted = [s \in Server |-> {}]

-----------------------------------------------------------------------------
(* Helpers.                                                                *)

\* The process is alive and nobody holds re.mu.  HandleAppendEntries is the
\* only method that keeps the lock over several steps: it is in its apply
\* loop exactly while lastApplied is behind commitIndex.
Unlocked(s) == s \notin down /\ lastApplied[s] >= commitIndex[s]

LastLogIndex(s) ==
    IF log[s] = <<>> THEN snapshot[s].lastIncludedIndex
                     ELSE log[s][Len(log[s])].index

\* The Go slice index of log index i.
RelIndex(s, i) == i - snapshot[s].lastIncludedIndex

Stable(s) == [currentTerm |-> currentTerm[s], votedFor |-> votedFor[s],
              log |-> log[s], snapshot |-> snapshot[s]]

\* Mutant of PersistState: the snapshot is left out of the saved record.
PersistWithoutSnapshot(s) ==
    /\ disk' = [disk EXCEPT ![s] = [Stable(s)' EXCEPT !.snapshot = disk[s].snapshot]]
    /\ failedPut' = failedPut \ {s}
    /\ unread' = unread \ {s}

\* persistState: the whole record is rewritten; an error of Put is ignored.
PersistState(s) ==
    \/ /\ disk' = [disk EXCEPT ![s] = Stable(s)']
       /\ failedPut' = failedPut \ {s}
       /\ unread' = unread \ {s}
    \/ /\ StorageMayFail
       /\ failedPut' = failedPut \cup {s}
       /\ UNCHANGED <<disk, unread>>

\* resetElectionTimeoutLocked: Stop, drain and Reset, if Start created it.
ResetElectionTimeout(s) ==
    timer' = IF timer[s] = "nil" THEN timer ELSE [timer EXCEPT ![s] = "armed"]

\* select { case re.commitChan <- data: default: }  The channel carries the
\* payload; the model keeps the entry it came from, as history.
TrySend(s, e) ==
    commitChan' = IF Len(commitChan[s]) < ChanCap
                    THEN [commitChan EXCEPT ![s] = Append(@, e)]
                    ELSE commitChan

-----------------------------------------------------------------------------
(* The life cycle and runLoop.                                             *)

Start(s) ==
    /\ Unlocked(s)
    /\ loop[s] = "idle"
    /\ loop' = [loop EXCEPT ![s] = "top"]
    /\ timer' = [timer EXCEPT ![s] = "armed"]
    /\ UNCHANGED <<stateVars, logVars, applyVars, storeVars, ballots, halted,
                   down, peers>>

Stop(s) ==
    /\ Unlocked(s)
    /\ halted' = halted \cup {s}
    /\ timer' = IF timer[s] = "nil" THEN timer
                                    ELSE [timer EXCEPT ![s] = "stopped"]
    /\ UNCHANGED <<stateVars, logVars, applyVars, storeVars, ballots, loop,
                   down, peers>>

\* The context given to Start is cancelled: the timers keep running.
CancelContext(s) ==
    /\ s \notin down
    /\ loop[s] # "idle"
    /\ halted' = halted \cup {s}
    /\ UNCHANGED <<stateVars, logVars, applyVars, storeVars, ballots, loop,
                   timer, down, peers>>

\* The top of the for loop reads the role; the select it chooses keeps waiting
\* when the role changes afterwards.
LoopTop(s) ==
    /\ Unlocked(s)
    /\ loop[s] = "top"
    /\ loop' = [loop EXCEPT ![s] =
                  IF role[s] = "Leader" THEN "heartbeat" ELSE "election"]
    /\ UNCHANGED <<stateVars, logVars, applyVars, storeVars, ballots, timer,
                   halted, down, peers>>

\* Mutant of LoopExit: the leader's select has no case for stopCh.
LoopExitUnlessLeader(s) ==
    /\ s \notin down /\ loop[s] = "election" /\ s \in halted
    /\ loop' = [loop EXCEPT ![s] = "exited"]
    /\ UNCHANGED <<stateVars, logVars, applyVars, storeVars, ballots, timer,
                   halted, down, peers>>

\* case <-re.stopCh and case <-ctx.Done()
LoopExit(s) ==
    /\ s \notin down
    /\ loop[s] \in {"election", "heartbeat"}
    /\ s \in halted
    /\ loop' = [loop EXCEPT ![s] = "exited"]
    /\ UNCHANGED <<stateVars, logVars, applyVars, storeVars, ballots, timer,
                   halted, down, peers>>

\* case <-ticker.C: sendHeartbeats takes the read lock and sends nothing.
Heartbeat(s) ==
    /\ Unlocked(s)
    /\ loop[s] = "heartbeat"
    /\ loop' = [loop EXCEPT ![s] = "top"]
    /\ UNCHANGED <<stateVars, logVars, applyVars, storeVars, ballots, timer,
                   halted, down, peers>>

\* case <-re.getElectionTimerChan(): the tick is taken without the lock.  An
\* armed timer may expire at any moment.
TimerFires(s) ==
    /\ s \notin down
    /\ loop[s] = "election"
    /\ timer[s] = "armed"
    /\ currentTerm[s] < MaxTerm
    /\ loop' = [loop EXCEPT ![s] = "fired"]
    /\ timer' = [timer EXCEPT ![s] = "expired"]
    /\ UNCHANGED <<stateVars, logVars, applyVars, storeVars, ballots, halted,
                   down, peers>>

\* The critical section of startElection.  Whatever happened since the tick,
\* the engine becomes a candidate.  The new ballot waits for its goroutines.
StartElection(s) ==
    /\ Unlocked(s)
    /\ loop[s] = "fired"
    /\ role' = [role EXCEPT ![s] = "Candidate"]
    /\ forced' = forced \ {s}
    /\ currentTerm' = [currentTerm EXCEPT ![s] = @ + 1]
    /\ votedFor' = [votedFor EXCEPT ![s] = s]
    /\ UNCHANGED <<granted, logVars, applyVars, halted, down, peers>>
    /\ PersistState(s)
    /\ ResetElectionTimeout(s)
    /\ ballots' = [ballots EXCEPT ![s] =
         @ \cup {[term |-> currentTerm[s] + 1, votes |-> 1, waiting |-> 0]}]
    /\ loop' = [loop EXCEPT ![s] = "asking"]

\* for _, peer := range re.peers { go ... }, after the unlock.
LaunchVotes(s) ==
    LET others == Cardinality(peers[s] \ {s})
        new    == {b \in ballots[s] : b.waiting = 0}
        asked  == {[term |-> b.term, votes |-> 1, waiting |-> others] : b \in new}
    IN  /\ s \notin down
        /\ loop[s] = "asking"
        /\ ballots' = [ballots EXCEPT ![s] =
             (@ \ new) \cup (IF others = 0 THEN {} ELSE asked)]
        /\ loop' = [loop EXCEPT ![s] = "top"]
        /\ UNCHANGED <<stateVars, logVars, applyVars, storeVars, timer, halted,
                       down, peers>>

\* Mutant of HasQuorum: a majority of twice the cluster.
HasDoubleQuorum(s, votes) == votes > Cardinality(peers[s])

\* votesReceived > (len(re.peers) / 2)
HasQuorum(s, votes) == votes > Cardinality(peers[s]) \div 2

\* One vote goroutine.  It builds RequestVoteArgs, drops them and counts the
\* vote; with a quorum it promotes a candidate that is still in its term.
CountVote(s, b) ==
    LET votes == b.votes + 1
        wins  == /\ HasQuorum(s, votes)
                 /\ role[s] = "Candidate"
                 /\ currentTerm[s] = b.term
        left  == IF b.waiting = 1 THEN {}
                 ELSE {[term |-> b.term, votes |-> votes, waiting |-> b.waiting - 1]}
    IN  /\ s \notin down
        /\ b \in ballots[s]
        /\ b.waiting > 0
        /\ HasQuorum(s, votes) => Unlocked(s)
        /\ role' = IF wins THEN [role EXCEPT ![s] = "Leader"] ELSE role
        /\ ballots' = [ballots EXCEPT ![s] = (@ \ {b}) \cup left]
        /\ UNCHANGED <<currentTerm, votedFor, forced, granted, logVars,
                       applyVars, storeVars, loop, timer, halted, down, peers>>

-----------------------------------------------------------------------------
(* The remote procedure calls.  Nothing in the repository sends them: the  *)
(* arguments are the well-formed ones of a Raft leader or candidate.       *)

\* LastLogTerm is left out: HandleRequestVote does not read it.
RequestVoteArgs ==
    [term : 0..MaxTerm, candidateID : Node, lastLogIndex : 0..MaxIndex]

\* The terms of l never decrease along the log, starting at lo, ending by hi.
TermsOrdered(l, lo, hi) ==
    /\ lo <= hi
    /\ \A i \in 1..Len(l) : lo <= l[i].term /\ l[i].term <= hi
    /\ \A i, j \in 1..Len(l) : i <= j => l[i].term <= l[j].term

Batch == UNION {[1..n -> [index : 1..MaxIndex, term : 0..MaxTerm, data : Payload]]
                  : n \in 0..MaxBatch}
AppendEntriesArgs ==
    {a \in [term : 0..MaxTerm, prevLogIndex : 0..MaxIndex,
            prevLogTerm : 0..MaxTerm, entries : Batch, leaderCommit : 0..MaxIndex] :
       /\ TermsOrdered(a.entries, a.prevLogTerm, a.term)
       /\ \A i \in 1..Len(a.entries) : a.entries[i].index = a.prevLogIndex + i}

\* Mutant of NotStale: a message of an older term is not refused.
NeverStale(s, t) == t \in Nat /\ s \in Server

\* The early return of both handlers on an older term, negated.
NotStale(s, t) == t >= currentTerm[s]

\* Mutant of CanGrant: the vote already given is not looked at.
CanGrantAgain(s, vote, a) == a.lastLogIndex >= LastLogIndex(s)

\* Whether HandleRequestVote grants a vote, vote being votedFor by then.  The
\* candidate's log is compared by its last index only.
CanGrant(s, vote, a) ==
    /\ vote \in {Nil, a.candidateID}
    /\ a.lastLogIndex >= LastLogIndex(s)

\* The persisted record includes a refusal: persistState runs either way.
HandleRequestVote(s, a) ==
    LET newer == a.term > currentTerm[s]
        vote  == IF newer THEN Nil ELSE votedFor[s]
        grant == CanGrant(s, vote, a)
    IN  /\ Unlocked(s)
        /\ a.candidateID # s
        /\ NotStale(s, a.term)
        /\ currentTerm' = [currentTerm EXCEPT ![s] = a.term]
        /\ role' = IF newer THEN [role EXCEPT ![s] = "Follower"] ELSE role
        /\ forced' = IF newer THEN forced \ {s} ELSE forced
        /\ votedFor' = [votedFor EXCEPT ![s] =
                          IF grant THEN a.candidateID ELSE vote]
        /\ granted' = IF grant
             THEN [granted EXCEPT ![s] =
                     @ \cup {[term |-> a.term, candidate |-> a.candidateID]}]
             ELSE granted
        /\ UNCHANGED <<logVars, applyVars, ballots, loop, halted, down, peers>>
        /\ IF grant THEN ResetElectionTimeout(s) ELSE UNCHANGED timer
        /\ PersistState(s)

\* Mutant of StepsDown: every accepted message clears the vote.
AlwaysStepsDown(s, t) == t >= currentTerm[s]

\* Follow the sender: a newer term, or any valid term for a candidate, ends
\* the candidacy and clears the vote.
StepsDown(s, t) == t > currentTerm[s] \/ role[s] = "Candidate"

FollowTerm(s, t) ==
    /\ Unlocked(s)
    /\ NotStale(s, t)
    /\ IF StepsDown(s, t)
         THEN /\ currentTerm' = [currentTerm EXCEPT ![s] = t]
              /\ role' = [role EXCEPT ![s] = "Follower"]
              /\ votedFor' = [votedFor EXCEPT ![s] = Nil]
              /\ forced' = forced \ {s}
         ELSE UNCHANGED <<currentTerm, role, votedFor, forced>>
    /\ UNCHANGED granted
    /\ ResetElectionTimeout(s)

\* Mutant of PrevMatches: the terms are not compared.
PrevExists(s, a) ==
    RelIndex(s, a.prevLogIndex) \in 0..(Len(log[s]) - 1)

\* The consistency check on the entry before the new ones.
PrevMatches(s, a) ==
    LET rel == RelIndex(s, a.prevLogIndex)
    IN  rel >= 0 /\ rel < Len(log[s]) /\ log[s][rel + 1].term = a.prevLogTerm

\* Mutant of Extended: the entries are appended without the truncation.
ExtendedLong(s, a) == log[s] \o a.entries

\* Mutant of Extended: the slice expression ends one entry early.
ExtendedShort(s, a) ==
    SubSeq(log[s], 1, RelIndex(s, a.prevLogIndex)) \o a.entries

\* re.log = append(re.log[:relativePrevIndex+1], args.Entries...)
Extended(s, a) ==
    SubSeq(log[s], 1, RelIndex(s, a.prevLogIndex) + 1) \o a.entries

\* Mutant of CommitUpTo: the position before the last one is taken.
CommitBeforeLast(s, leaderCommit, last) ==
    IF leaderCommit <= commitIndex[s] THEN commitIndex[s]
    ELSE IF leaderCommit <= last THEN leaderCommit ELSE last - 1

\* The new commitIndex, last being the last index of the new log.
CommitUpTo(s, leaderCommit, last) ==
    IF leaderCommit <= commitIndex[s] THEN commitIndex[s]
    ELSE IF leaderCommit <= last THEN leaderCommit ELSE last

\* The mismatch return comes before persistState.
RejectAppendEntries(s, a) ==
    /\ ~PrevMatches(s, a)
    /\ FollowTerm(s, a.term)
    /\ UNCHANGED <<logVars, applyVars, storeVars, ballots, loop, halted, down,
                   peers>>

\* The matching case up to the apply loop, which ApplyEntry continues.
AcceptAppendEntries(s, a) ==
    LET new  == Extended(s, a)
        last == new[Len(new)].index
    IN  /\ PrevMatches(s, a)
        /\ FollowTerm(s, a.term)
        /\ log' = [log EXCEPT ![s] = new]
        /\ UNCHANGED <<snapshot, lastApplied, commitChan, ballots, loop, halted,
                       down, peers>>
        /\ PersistState(s)
        /\ commitIndex' = [commitIndex EXCEPT ![s] =
                             CommitUpTo(s, a.leaderCommit, last)]

\* One iteration of "for re.lastApplied < re.commitIndex".
ApplyEntry(s) ==
    LET next == lastApplied[s] + 1
        rel  == RelIndex(s, next)
    IN  /\ s \notin down
        /\ lastApplied[s] < commitIndex[s]
        /\ lastApplied' = [lastApplied EXCEPT ![s] = next]
        /\ IF rel >= 0 /\ rel < Len(log[s]) /\ log[s][rel + 1].data # NoData
             THEN TrySend(s, log[s][rel + 1])
             ELSE UNCHANGED commitChan
        /\ UNCHANGED <<stateVars, logVars, commitIndex, storeVars, threadVars,
                       peers>>

-----------------------------------------------------------------------------
(* The calls of the application.                                           *)

\* The reader of Commit() takes the oldest payload, without the lock.
Receive(s) ==
    /\ s \notin down
    /\ commitChan[s] # <<>>
    /\ commitChan' = [commitChan EXCEPT ![s] = Tail(@)]
    /\ UNCHANGED <<stateVars, logVars, commitIndex, lastApplied, storeVars,
                   threadVars, peers>>

\* A leader commits its own entry at once.
Propose(s, d) ==
    LET new == [index |-> LastLogIndex(s) + 1, term |-> currentTerm[s],
                data |-> d]
    IN  /\ Unlocked(s)
        /\ role[s] = "Leader"
        /\ new.index <= MaxIndex
        /\ log' = [log EXCEPT ![s] = Append(@, new)]
        /\ UNCHANGED <<stateVars, snapshot, threadVars, peers>>
        /\ PersistState(s)
        /\ commitIndex' = [commitIndex EXCEPT ![s] = new.index]
        /\ lastApplied' = [lastApplied EXCEPT ![s] = new.index]
        /\ TrySend(s, new)

\* The errors of CompactLog are its negated guard.  re.log[relativeIndex] can
\* be out of range: commitIndex may point past the log.
CompactLog(s, i) ==
    LET rel  == RelIndex(s, i)
        term == log[s][rel + 1].term
    IN  /\ Unlocked(s)
        /\ i > snapshot[s].lastIncludedIndex
        /\ i <= commitIndex[s]
        /\ UNCHANGED <<stateVars, applyVars, ballots, loop, timer, halted, peers>>
        /\ \/ /\ rel >= Len(log[s])
              /\ down' = down \cup {s}
              /\ UNCHANGED <<logVars, storeVars>>
           \/ /\ rel < Len(log[s])
              /\ snapshot' = [snapshot EXCEPT ![s] =
                   [lastIncludedIndex |-> i, lastIncludedTerm |-> term]]
              /\ log' = [log EXCEPT ![s] =
                   <<Sentinel(i, term)>> \o SubSeq(@, rel + 2, Len(@))]
              /\ UNCHANGED down
              /\ PersistState(s)

\* ProposeMembershipChange: peers change in memory, the state record without
\* them is saved.
AddNode(s, n) ==
    /\ Unlocked(s)
    /\ role[s] = "Leader"
    /\ n \notin peers[s]
    /\ peers' = [peers EXCEPT ![s] = @ \cup {n}]
    /\ UNCHANGED <<stateVars, logVars, applyVars, threadVars>>
    /\ PersistState(s)

RemoveNode(s, n) ==
    /\ Unlocked(s)
    /\ role[s] = "Leader"
    /\ n \in peers[s]
    /\ peers' = [peers EXCEPT ![s] = @ \ {n}]
    /\ UNCHANGED <<stateVars, logVars, applyVars, threadVars>>
    /\ PersistState(s)

\* A change of any other type falls through the switch to persistState.
OtherChange(s) ==
    /\ Unlocked(s)
    /\ role[s] = "Leader"
    /\ UNCHANGED <<stateVars, logVars, applyVars, threadVars, peers>>
    /\ PersistState(s)

SetRole(s, r) ==
    /\ Unlocked(s)
    /\ role' = [role EXCEPT ![s] = r]
    /\ forced' = forced \cup {s}
    /\ UNCHANGED <<currentTerm, votedFor, granted, logVars, applyVars,
                   storeVars, threadVars, peers>>

\* The process dies at any point and NewRaftEngine runs again, rec being what
\* the persistent fields hold after loadState.
Boot(s, rec) ==
    /\ currentTerm' = [currentTerm EXCEPT ![s] = rec.currentTerm]
    /\ votedFor' = [votedFor EXCEPT ![s] = rec.votedFor]
    /\ log' = [log EXCEPT ![s] = rec.log]
    /\ snapshot' = [snapshot EXCEPT ![s] = rec.snapshot]
    /\ commitIndex' = [commitIndex EXCEPT ![s] = 0]
    /\ lastApplied' = [lastApplied EXCEPT ![s] = 0]
    /\ role' = [role EXCEPT ![s] = "Follower"]
    /\ peers' = [peers EXCEPT ![s] = Peers]
    /\ commitChan' = [commitChan EXCEPT ![s] = <<>>]
    /\ ballots' = [ballots EXCEPT ![s] = {}]
    /\ loop' = [loop EXCEPT ![s] = "idle"]
    /\ timer' = [timer EXCEPT ![s] = "nil"]
    /\ halted' = halted \ {s} /\ down' = down \ {s}
    /\ failedPut' = failedPut \ {s} /\ forced' = forced \ {s}
    /\ UNCHANGED <<disk, granted>>

\* loadState brings back the saved record and nothing else.
Restart(s) == Boot(s, disk[s]) /\ unread' = unread \ {s}

\* Get returns an error: loadState ignores it, and the engine starts as on an
\* empty store, over a record that is still there.
RestartUnread(s) ==
    /\ StorageMayFail
    /\ Boot(s, Genesis)
    /\ unread' = unread \cup {s}

-----------------------------------------------------------------------------

\* Steps of the goroutines and of the reader of commitChan.
Internal(s) ==
    \/ LoopTop(s) \/ LoopExit(s) \/ Heartbeat(s) \/ TimerFires(s)
    \/ StartElection(s) \/ LaunchVotes(s)
    \/ \E b \in ballots[s] : CountVote(s, b)
    \/ ApplyEntry(s) \/ Receive(s)

\* Calls made by the runtime and the application.
Call(s) ==
    \/ Start(s) \/ Stop(s) \/ CancelContext(s)
    \/ \E d \in Payload : Propose(s, d)
    \/ \E i \in 1..MaxIndex : CompactLog(s, i)
    \/ \E n \in Node : AddNode(s, n) \/ RemoveNode(s, n)
    \/ OtherChange(s)
    \/ \E r \in AssignedRoles : SetRole(s, r)

\* Calls made by the transport.
Rpc(s) ==
    \/ \E a \in RequestVoteArgs : HandleRequestVote(s, a)
    \/ \E a \in AppendEntriesArgs : \/ RejectAppendEntries(s, a)
                                    \/ AcceptAppendEntries(s, a)

Next ==
    \E s \in Server :
        Internal(s) \/ Call(s) \/ Rpc(s) \/ Restart(s) \/ RestartUnread(s)

Spec == Init /\ [][Next]_vars

\* What the Go runtime guarantees: a runnable goroutine runs, a ticker ticks,
\* and a select does not ignore a ready case for ever.
Fairness ==
    \A s \in Server :
        /\ WF_vars(LoopTop(s)) /\ WF_vars(Heartbeat(s))
        /\ WF_vars(StartElection(s)) /\ WF_vars(LaunchVotes(s))
        /\ WF_vars(\E b \in ballots[s] : CountVote(s, b))
        /\ WF_vars(ApplyEntry(s))
        /\ SF_vars(LoopExit(s))

FairSpec == Spec /\ Fairness

-----------------------------------------------------------------------------
(* Properties.                                                             *)

\* The entry at slice position k has log index snapshot index + k, and the
\* entry at position 0 carries the snapshot's term.
Aligned(l, snap) ==
    /\ Len(l) >= 1
    /\ l[1].term = snap.lastIncludedTerm
    /\ \A k \in 1..Len(l) : l[k].index = snap.lastIncludedIndex + k - 1

\* The relative indexes CompactLog, HandleAppendEntries and the apply loop
\* compute address the entry they mean, after any sequence of truncations,
\* compactions and crashes.
LogAligned == \A s \in Server : Aligned(log[s], snapshot[s])

\* Along a log, saved or in memory, terms never decrease and none is newer
\* than the term of the engine: the comparison with PrevLogTerm is sound.
LogTermsOrdered ==
    \A s \in Server : /\ TermsOrdered(log[s], 0, currentTerm[s])
                      /\ TermsOrdered(disk[s].log, 0, disk[s].currentTerm)

\* As long as Put and Get succeed, a crash loses no log entry and no snapshot,
\* and a vote is never forgotten: it is saved with its term before it counts.
DurableState ==
    \A s \in Server \ (failedPut \cup unread) :
        /\ log[s] = disk[s].log
        /\ snapshot[s] = disk[s].snapshot
        /\ votedFor[s] # Nil => /\ votedFor[s] = disk[s].votedFor
                                /\ currentTerm[s] = disk[s].currentTerm

\* A candidate, and a leader that won an election, has voted for itself: it
\* cannot have given its vote to another candidate of its term.
LeaderOwnVote ==
    \A s \in Server : role[s] # "Follower" /\ s \notin forced => votedFor[s] = s

\* With a reliable store an engine grants at most one other candidate its vote
\* in a term, through crashes, restarts and abandoned candidacies.
GrantOnce ==
    ~StorageMayFail =>
        \A s \in Server : \A g, h \in granted[s] :
            g.term = h.term => g = h

\* The saved term never goes back, whatever Put does, unless the engine started
\* without reading it.
DiskTermMonotone ==
    [][\A s \in Server \ unread : disk[s].currentTerm <= disk'[s].currentTerm]_vars

\* No step, not even a crash, undoes a compaction whose save succeeded, unless
\* Get fails at the restart.
SnapshotNeverRegresses ==
    [][\A s \in Server \ (failedPut \cup unread') :
          snapshot[s].lastIncludedIndex <= snapshot'[s].lastIncludedIndex]_vars

\* A candidacy with somebody to ask is decided: the engine wins, steps down,
\* moves to another term or dies.
ElectionResolves ==
    \A s \in Server : \A t \in 1..(MaxTerm + 1) :
        (role[s] = "Candidate" /\ currentTerm[s] = t /\ peers[s] \ {s} # {})
            ~> (role[s] # "Candidate" \/ currentTerm[s] # t \/ s \in down)

\* After Stop or the cancellation of its context runLoop returns, whatever
\* calls keep re-arming the election timer.
StopTerminates ==
    \A s \in Server :
        s \in halted ~> (loop[s] \in {"idle", "exited"} \/ s \in down)

=============================================================================
