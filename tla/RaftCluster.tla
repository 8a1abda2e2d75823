----------------------------- MODULE RaftCluster -----------------------------
(***************************************************************************)
(* Raft engines connected by a transport.  The repository has the handlers *)
(* and their argument types but no sender, so the transport is external:   *)
(* it builds AppendEntriesArgs from the leader's log, the way the handler  *)
(* reads them, and loses or, unless InOrder, reorders messages.            *)
(*                                                                         *)
(* The engines of Active are started or appointed and may lead; the others *)
(* answer calls only.                                                      *)
(***************************************************************************)
EXTENDS RaftEngine

CONSTANTS
    Active,   \* engines that are started or whose role is set
    InOrder,  \* whether the transport keeps the order of messages
    MaxWire   \* bound on the messages on their way to one engine

ASSUME ActiveAssumption == Active \subseteq Server
ASSUME WireAssumption == InOrder \in BOOLEAN /\ MaxWire \in Nat

VARIABLES
    wire,      \* wire[f]: AppendEntries calls on their way to f
    order,     \* history: the entries proposed, in order
    base,      \* history: base[s], the snapshot index s last started from
    delivered  \* history: delivered[s], entries put into commitChan since

historyVars == <<order, base, delivered>>
clusterVars == <<vars, wire, historyVars>>

ClusterInit ==
    /\ Init
    /\ wire = [s \in Server |-> <<>>]
    /\ order = <<>>
    /\ base = [s \in Server |-> 0]
    /\ delivered = [s \in Server |-> <<>>]

\* delivered follows commitChan: a send adds its last element.
RecordSend(s) ==
    delivered' = IF Len(commitChan'[s]) > Len(commitChan[s])
                   THEN [delivered EXCEPT ![s] =
                           Append(@, commitChan'[s][Len(commitChan'[s])])]
                   ELSE delivered

-----------------------------------------------------------------------------
(* The transport.                                                          *)

\* The call for a follower whose log is believed to reach index prev.
AppendFrom(l, prev) ==
    [term         |-> currentTerm[l],
     prevLogIndex |-> prev,
     prevLogTerm  |-> log[l][RelIndex(l, prev) + 1].term,
     entries      |-> SubSeq(log[l], RelIndex(l, prev) + 2, Len(log[l])),
     leaderCommit |-> commitIndex[l]]

Replicate(l, f) ==
    /\ Unlocked(l)
    /\ role[l] = "Leader"
    /\ f \in peers[l] \ {l}
    /\ Len(wire[f]) < MaxWire
    /\ \E prev \in snapshot[l].lastIncludedIndex..LastLogIndex(l) :
          wire' = [wire EXCEPT ![f] = Append(@, AppendFrom(l, prev))]
    /\ UNCHANGED <<vars, historyVars>>

Without(q, k) == SubSeq(q, 1, k - 1) \o SubSeq(q, k + 1, Len(q))

Deliver(f, k) ==
    /\ k = 1 \/ ~InOrder
    /\ wire' = [wire EXCEPT ![f] = Without(@, k)]
    /\ \/ RejectAppendEntries(f, wire[f][k])
       \/ AcceptAppendEntries(f, wire[f][k])
    /\ UNCHANGED historyVars

\* Also a call of an older term: the handler changes nothing.
Lose(f, k) ==
    /\ wire' = [wire EXCEPT ![f] = Without(@, k)]
    /\ UNCHANGED <<vars, historyVars>>

-----------------------------------------------------------------------------
(* The engines, with the history variables.                                *)

ClusterPropose(s, d) ==
    /\ Len(order) < MaxIndex
    /\ Propose(s, d)
    /\ order' = Append(order, log'[s][Len(log'[s])])
    /\ RecordSend(s)
    /\ UNCHANGED <<base, wire>>

ClusterApply(s) ==
    /\ ApplyEntry(s)
    /\ RecordSend(s)
    /\ UNCHANGED <<order, base, wire>>

ClusterRestart(s) ==
    /\ Restart(s)
    /\ base' = [base EXCEPT ![s] = disk[s].snapshot.lastIncludedIndex]
    /\ delivered' = [delivered EXCEPT ![s] = <<>>]
    /\ UNCHANGED <<order, wire>>

\* Everything an active engine does by itself.
Lead(s) ==
    /\ \/ Start(s) \/ LoopTop(s) \/ Heartbeat(s) \/ TimerFires(s)
       \/ StartElection(s) \/ LaunchVotes(s)
       \/ \E b \in ballots[s] : CountVote(s, b)
       \/ \E r \in AssignedRoles : SetRole(s, r)
    /\ UNCHANGED <<wire, historyVars>>

\* Everything the application of any engine does, replication aside.
Use(s) ==
    /\ \/ Receive(s)
       \/ \E i \in 1..MaxIndex : CompactLog(s, i)
    /\ UNCHANGED <<wire, historyVars>>

ClusterNext ==
    \/ \E s \in Active : Lead(s) \/ \E d \in Data : ClusterPropose(s, d)
    \/ \E s \in Server : Use(s) \/ ClusterApply(s) \/ ClusterRestart(s)
    \/ \E l, f \in Server : Replicate(l, f)
    \/ \E f \in Server : \E k \in 1..Len(wire[f]) : Deliver(f, k) \/ Lose(f, k)

ClusterSpec == ClusterInit /\ [][ClusterNext]_clusterVars

-----------------------------------------------------------------------------
(* Properties.                                                             *)

Passive == Server \ Active

\* Entry of log index i in the log of s, where it is still there.
InLog(s, i) == i > snapshot[s].lastIncludedIndex /\ i <= LastLogIndex(s)
EntryAt(s, i) == log[s][RelIndex(s, i) + 1]

\* commitIndex never points past the log: an entry that was committed, and
\* handed to the application, is not truncated away afterwards.
CommitWithinLog == \A s \in Server : commitIndex[s] <= LastLogIndex(s)

\* Two engines that both hold an entry committed by one of them hold the same
\* entry.
CommittedAgree ==
    \A s, t \in Server : \A i \in 1..commitIndex[s] :
        InLog(s, i) /\ InLog(t, i) => EntryAt(s, i) = EntryAt(t, i)

\* No call kills the process.
NoPanic == down = {}

\* What the application of an engine was handed, and everything its engine
\* counts as applied, is the same contiguous piece of the one order.
AppliedWasDelivered ==
    \A s \in Server :
        lastApplied[s] > base[s] =>
            delivered[s] = SubSeq(order, base[s] + 1, lastApplied[s])

\* A leader that was elected holds the votes of a majority of its peers.
LeaderHasQuorum ==
    \A s \in Server : role[s] = "Leader" /\ s \notin forced =>
        LET mine == [term |-> currentTerm[s], candidate |-> s]
            for  == {p \in peers[s] \cap Server : p = s \/ mine \in granted[p]}
        IN  HasQuorum(s, Cardinality(for))

\* The passive engines implement atomic broadcast.
Broadcast == INSTANCE AtomicBroadcast WITH
    Replica   <- Passive,
    Entry     <- [index : 1..MaxIndex, term : 0..(MaxTerm + 1), data : Payload],
    base      <- [s \in Passive |-> base[s]],
    delivered <- [s \in Passive |-> delivered[s]]

\* Every step of the cluster is a step of the broadcast or changes nothing.
BroadcastSpec == Broadcast!Spec

=============================================================================
