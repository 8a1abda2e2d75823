-------------------------- MODULE MCSovereignRouter --------------------------
(* SovereignRouter for TLC: data is compared for equality only, so the     *)
(* payloads and the workers are symmetric.                                 *)
EXTENDS SovereignRouter, TLC

Symmetry == Permutations(Data) \cup Permutations(Worker)
=============================================================================
