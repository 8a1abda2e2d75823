------------------------ MODULE StaticConsensusProofs ------------------------
(* QuietWhenFollower, for any number of proposers and any capacity.        *)
EXTENDS StaticConsensus, TLAPS

\* A proposal in its select was let in by a leader, and SetLeader cannot have
\* returned since.
LeaderWhileSending ==
    /\ commits \in Nat
    /\ proposing \in [Proposer -> {"idle", "send"}]
    /\ variant = "raft" =>
         \A p \in Proposer : proposing[p] = "send" => isLeader = TRUE

\* Every step keeps LeaderWhileSending: only Propose lets a proposal in, under
\* the read lock of a leader, and only SetLeaderReturns writes isLeader, with
\* no proposal inside.
LEMMA SendingStep == LeaderWhileSending /\ [StaticNext]_staticVars
                        => LeaderWhileSending'
<1> SUFFICES ASSUME LeaderWhileSending, [StaticNext]_staticVars
             PROVE  LeaderWhileSending'
  OBVIOUS
<1> USE DEF LeaderWhileSending
<1>1. ASSUME NEW p \in Proposer, Propose(p)
      PROVE  LeaderWhileSending'
  BY <1>1 DEF Propose
<1>2. ASSUME NEW p \in Proposer, ProposeSends(p)
      PROVE  LeaderWhileSending'
  BY <1>2 DEF ProposeSends
<1>3. ASSUME NEW p \in Proposer, ProposeAborts(p)
      PROVE  LeaderWhileSending'
  BY <1>3 DEF ProposeAborts
<1>4. ASSUME NEW p \in Proposer, ContextEnds(p)
      PROVE  LeaderWhileSending'
  BY <1>4 DEF ContextEnds
<1>5. CASE Consume
  BY <1>5 DEF Consume
<1>6. ASSUME NEW value \in {"leader", "follower"}, SetLeader(value)
      PROVE  LeaderWhileSending'
  BY <1>6 DEF SetLeader
<1>7. CASE SetLeaderReturns
  BY <1>7 DEF SetLeaderReturns, Unread
<1>8. CASE UNCHANGED staticVars
  BY <1>8 DEF staticVars
<1> QED
  BY <1>1, <1>2, <1>3, <1>4, <1>5, <1>6, <1>7, <1>8 DEF StaticNext

\* Only ProposeSends commits, and it leaves isLeader alone.
LEMMA OnlySendsCommit ==
    LeaderWhileSending /\ [StaticNext]_staticVars
        => (variant = "raft" /\ commits' > commits => isLeader')
<1> SUFFICES ASSUME LeaderWhileSending, [StaticNext]_staticVars,
                    variant = "raft", commits' > commits
             PROVE  isLeader'
  OBVIOUS
<1>0. commits' # commits
  BY DEF LeaderWhileSending
<1>1. PICK p \in Proposer : ProposeSends(p)
  BY <1>0 DEF StaticNext, Propose, ProposeAborts, ContextEnds, Consume,
              SetLeader, SetLeaderReturns, staticVars
<1>2. isLeader = TRUE
  BY <1>1 DEF ProposeSends, LeaderWhileSending
<1> QED
  BY <1>1, <1>2 DEF ProposeSends

\* RaftConsensus commits nothing while it is not the leader: a proposal keeps
\* the read lock from the test of isLeader to its send on commitChan.
THEOREM FollowerIsQuiet == StaticSpec => QuietWhenFollower
<1>1. StaticInit => LeaderWhileSending
  BY DEF StaticInit, LeaderWhileSending
<1>2. StaticSpec => []LeaderWhileSending
  BY <1>1, SendingStep, PTL DEF StaticSpec
<1>3. LeaderWhileSending /\ [StaticNext]_staticVars
        => [variant = "raft" /\ commits' > commits => isLeader']_staticVars
  BY OnlySendsCommit
<1> QED
  BY <1>2, <1>3, PTL DEF StaticSpec, QuietWhenFollower

=============================================================================
