---------------------------- MODULE MCRaftCluster ----------------------------
(* RaftCluster for TLC: one engine leads, the other follows.               *)
EXTENDS RaftCluster
=============================================================================
