--------------------------- MODULE StaticConsensus ---------------------------
(***************************************************************************)
(* The consensus variants without a protocol: RaftConsensus with its flag  *)
(* isLeader, Propose of PoWConsensus, and MockConsensus.  All of them put  *)
(* what is proposed on commitChan.                                         *)
(*                                                                         *)
(* RaftConsensus.Propose holds the read lock while it waits for room;      *)
(* SetLeader waits for the write lock, and while it does nobody else gets  *)
(* the read lock (sync.RWMutex).                                           *)
(***************************************************************************)
EXTENDS Naturals, Sequences

CONSTANTS
    Proposer,       \* callers of Propose; each proposes its own data
    CommitCap,      \* the capacity of commitChan
    MaxCommits      \* bound: entries put on commitChan

ASSUME CommitCapAssumption == CommitCap \in Nat \ {0} /\ MaxCommits \in Nat

VARIABLES
    variant,        \* "raft", "pow" or "mock"
    isLeader,
    commitChan,
    proposing,      \* "idle", or "send" in the select of Propose
    ctxDone,        \* the proposers whose context has ended
    writer,         \* the value SetLeader waits to write, or "none"
    commits         \* how many entries were ever put on commitChan

staticVars ==
    <<variant, isLeader, commitChan, proposing, ctxDone, writer, commits>>

StaticInit ==
    /\ variant \in {"raft", "pow", "mock"}
    /\ isLeader \in BOOLEAN
    /\ commitChan = <<>>
    /\ proposing = [p \in Proposer |-> "idle"]
    /\ ctxDone = {}
    /\ writer = "none"
    /\ commits = 0

\* Propose, up to its select.  A follower is refused, which changes nothing.
Propose(p) ==
    /\ proposing[p] = "idle" /\ commits < MaxCommits
    /\ variant = "raft" => writer = "none" /\ isLeader
    /\ proposing' = [proposing EXCEPT ![p] = "send"]
    /\ UNCHANGED <<variant, isLeader, commitChan, ctxDone, writer, commits>>

\* case r.commitChan <- data
ProposeSends(p) ==
    /\ proposing[p] = "send" /\ Len(commitChan) < CommitCap
    /\ commitChan' = Append(commitChan, p)
    /\ commits' = commits + 1
    /\ proposing' = [proposing EXCEPT ![p] = "idle"]
    /\ UNCHANGED <<variant, isLeader, ctxDone, writer>>

\* MockConsensus.Propose has no case for its context.
HeedsContext == variant # "mock"

\* Mutant of ProposeAborts: the context is looked at while there is room only.
ProposeAbortsLate(p) ==
    /\ proposing[p] = "send" /\ p \in ctxDone /\ HeedsContext
    /\ Len(commitChan) < CommitCap
    /\ proposing' = [proposing EXCEPT ![p] = "idle"]
    /\ UNCHANGED <<variant, isLeader, commitChan, ctxDone, writer, commits>>

\* case <-ctx.Done()
ProposeAborts(p) ==
    /\ proposing[p] = "send" /\ p \in ctxDone /\ HeedsContext
    /\ proposing' = [proposing EXCEPT ![p] = "idle"]
    /\ UNCHANGED <<variant, isLeader, commitChan, ctxDone, writer, commits>>

ContextEnds(p) ==
    /\ ctxDone' = ctxDone \cup {p}
    /\ UNCHANGED <<variant, isLeader, commitChan, proposing, writer, commits>>

\* A reader of Commit().
Consume ==
    /\ commitChan # <<>>
    /\ commitChan' = Tail(commitChan)
    /\ UNCHANGED <<variant, isLeader, proposing, ctxDone, writer, commits>>

SetLeader(value) ==
    /\ variant = "raft" /\ writer = "none"
    /\ writer' = value
    /\ UNCHANGED <<variant, isLeader, commitChan, proposing, ctxDone, commits>>

\* Mutant of Unread: Propose has given the read lock back before its select.
UnreadEarly == proposing \in [Proposer -> {"idle", "send"}]

\* No Propose holds the read lock.
Unread == \A p \in Proposer : proposing[p] = "idle"

SetLeaderReturns ==
    /\ writer # "none" /\ Unread
    /\ isLeader' = (writer = "leader")
    /\ writer' = "none"
    /\ UNCHANGED <<variant, commitChan, proposing, ctxDone, commits>>

StaticNext ==
    \/ \E p \in Proposer : \/ Propose(p) \/ ProposeSends(p) \/ ProposeAborts(p)
                           \/ ContextEnds(p)
    \/ Consume
    \/ \E value \in {"leader", "follower"} : SetLeader(value)
    \/ SetLeaderReturns

StaticSpec == StaticInit /\ [][StaticNext]_staticVars

-----------------------------------------------------------------------------
(* Properties.                                                             *)

\* Nothing is committed on a node that is not the leader, even by a proposal
\* that was let in while it was and then waited for room.
QuietWhenFollower ==
    [][variant = "raft" /\ commits' > commits => isLeader']_staticVars

\* SetLeader returns once the contexts of the proposals it waits for have
\* ended, since no other proposal gets in before it; and so does a proposal
\* of PoWConsensus.  (A proposal whose context lasts blocks SetLeader for as
\* long as commitChan is full, and MockConsensus waits whatever happens.)
BlockedCallsReturn ==
    /\ writer # "none" /\ (\A p \in Proposer : proposing[p] = "send" => p \in ctxDone)
         ~> writer = "none"
    /\ \A p \in Proposer :
         variant = "pow" /\ proposing[p] = "send" /\ p \in ctxDone
           ~> proposing[p] = "idle"

=============================================================================
