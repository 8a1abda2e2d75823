------------------------------ MODULE PeerTable ------------------------------
(***************************************************************************)
(* The k-buckets and the reputation scores of modules/networking/          *)
(* kademlia.go.  A peer's ID is its SHA-256 hash, of Bits bits in place of *)
(* 256, as the set of the positions of its ones; bit 0 is the last.        *)
(***************************************************************************)
EXTENDS Integers, Sequences, FiniteSetsExt, SequencesExt

CONSTANTS
    Bits,           \* the number of buckets, and of bits of an ID
    LocalID,        \* the hash of localNodeID
    PeerID,
    K,              \* the capacity of a bucket
    Score, Delta,   \* the scores peers come with, the adjustments made
    MaxCalls        \* bound: calls of AddPeer and AdjustPeerScore

ASSUME IDAssumption ==
    /\ Bits \in Nat \ {0} /\ K \in Nat \ {0} /\ MaxCalls \in Nat
    /\ PeerID \cup {LocalID} \subseteq SUBSET (0..(Bits - 1))
    /\ Score \subseteq Int /\ Delta \subseteq Int

VARIABLES
    buckets,
    peerScores,
    entry,          \* history: the score a resident peer was admitted with
    earned,         \* history: the adjustments since, of the residents
    tableCalls      \* how many calls were made

tableVars == <<buckets, peerScores, entry, earned, tableCalls>>

TableInit ==
    /\ buckets = [i \in 0..(Bits - 1) |-> <<>>]
    /\ peerScores = [p \in PeerID |-> 0]
    /\ entry = [p \in PeerID |-> 0]
    /\ earned = [p \in PeerID |-> 0]
    /\ tableCalls = 0

CalculateXORDistance(target) == (LocalID \ target) \cup (target \ LocalID)

\* big.Int.BitLen
BitLen(x) == Max({0} \cup {b + 1 : b \in x})

BucketIdx(peer) ==
    Min({Bits - 1, Max({0, BitLen(CalculateXORDistance(peer)) - 1})})

\* Mutant of Slots: the end of a bucket is not looked at.
SlotsFront(bucket, peer) ==
    {i \in 1..(Len(bucket) - 1) : bucket[i].id = peer}

\* Where a bucket holds the peer.
Slots(bucket, peer) == {i \in 1..Len(bucket) : bucket[i].id = peer}

Resident(peer) == Slots(buckets[BucketIdx(peer)], peer) # {}

\* Mutant of Refresh: peerScores is set first.
RefreshScore(peer, score) ==
    LET i == BucketIdx(peer)
    IN  /\ Slots(buckets[i], peer) # {}
        /\ buckets' = [buckets EXCEPT ![i][Min(Slots(buckets[i], peer))] =
                         [id |-> peer, score |-> score]]
        /\ peerScores' = [peerScores EXCEPT ![peer] = score]
        /\ UNCHANGED <<entry, earned>>

\* AddPeer of a peer that is in its bucket: the record is replaced, and the
\* function returns before peerScores is set.
Refresh(peer, score) ==
    LET i == BucketIdx(peer)
    IN  /\ Slots(buckets[i], peer) # {}
        /\ buckets' = [buckets EXCEPT ![i][Min(Slots(buckets[i], peer))] =
                         [id |-> peer, score |-> score]]
        /\ UNCHANGED <<peerScores, entry, earned>>

\* AddPeer of another: it is left out of a full bucket, yet scored.
Admit(peer, score) ==
    LET i == BucketIdx(peer)
    IN  /\ Slots(buckets[i], peer) = {}
        /\ buckets' = [buckets EXCEPT ![i] =
                         IF Len(@) < K THEN Append(@, [id |-> peer, score |-> score])
                                       ELSE @]
        /\ peerScores' = [peerScores EXCEPT ![peer] = score]
        /\ entry' = [entry EXCEPT ![peer] = score]
        /\ earned' = [earned EXCEPT ![peer] = 0]

AddPeer(peer, score) ==
    /\ tableCalls < MaxCalls /\ tableCalls' = tableCalls + 1
    /\ Refresh(peer, score) \/ Admit(peer, score)

AdjustPeerScore(peer, delta) ==
    /\ tableCalls < MaxCalls /\ tableCalls' = tableCalls + 1
    /\ peerScores' = [peerScores EXCEPT ![peer] = @ + delta]
    /\ earned' = [earned EXCEPT ![peer] = IF Resident(peer) THEN @ + delta ELSE @]
    /\ UNCHANGED <<buckets, entry>>

TableNext == \E peer \in PeerID :
    \/ \E score \in Score : AddPeer(peer, score)
    \/ \E delta \in Delta : AdjustPeerScore(peer, delta)

TableSpec == TableInit /\ [][TableNext]_tableVars

-----------------------------------------------------------------------------
(* Properties.                                                             *)

\* The number of leading bits that an ID shares with the local one: the bits
\* from the n-th up are the same.
CommonPrefix(id) ==
    Bits - Min({n \in 0..Bits : \A b \in n..(Bits - 1) : b \in id <=> b \in LocalID})

\* Every bucket holds peers of one proximity only, none of them twice, and
\* never more than K.  The local node, should it be added, is in bucket 0.
PeersWellPlaced == \A i \in 0..(Bits - 1) :
    /\ Len(buckets[i]) <= K
    /\ \A j \in 1..Len(buckets[i]) :
         LET id == buckets[i][j].id
         IN  CommonPrefix(id) = Bits - 1 - i \/ (id = LocalID /\ i = 0)
    /\ \A j, k \in 1..Len(buckets[i]) :
         buckets[i][j].id = buckets[i][k].id => j = k

\* The reputation of a peer in the table is what it came with when it was
\* admitted and what it has earned since: announcing itself again with
\* another score changes nothing.  (A peer that found its bucket full starts
\* afresh with every announcement.)
ReputationKept == \A peer \in PeerID :
    Resident(peer) => peerScores[peer] = entry[peer] + earned[peer]

=============================================================================
