---------------------------- MODULE MCNodeRuntime ----------------------------
(* Instance of NodeRuntime for TLC.                                        *)
EXTENDS NodeRuntime

CONSTANT n1

\* A block of another index, with the hash of the first block n1 mines.
Lookalike == [index |-> 2, txs |-> <<>>,
              hash |-> [miner |-> n1, boot |-> 0, seq |-> 1]]
Others == {Lookalike}
=============================================================================
