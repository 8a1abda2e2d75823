-------------------------- MODULE MCReplicatedApps --------------------------
(* Values for the constants of ReplicatedApps.                             *)
EXTENDS ReplicatedApps

\* The empty byte string and one that is spelt like a name.
Bytes == {<<>>, <<2>>}

\* One byte string, where what is stored does not matter.
OneByte == {<<2>>}

\* The keys of MerkleState: "empty_state"; the hash of its leaf; that hash
\* followed by the hash of the second key's leaf.  So the first key with the
\* empty value spells the name of the empty state, the second one with the
\* last hash spells the third with the empty value, and that spells the two
\* hashes under the root of a change of the first and the second key.
CONSTANT emptyState

Hash1  == Sum256(<<emptyState>>)
Hash2  == Sum256(<<Hash1>>)
Chunks == {emptyState, Hash1, Hash2}
Keys   == <<<<emptyState>>, <<Hash1>>, <<Hash1, Hash2>>>>
Values == {<<>>, <<Hash2>>}
Empty  == <<emptyState>>

\* MerkleState has 27 commands over three keys; two of them in a row suffice.
LogBound == [a \in App |-> IF a = "merkle" THEN 2 ELSE 3]
=============================================================================
