----------------------------- MODULE MCRaftEngine -----------------------------
(* RaftEngine for TLC.  One engine is enough for the properties of an      *)
(* engine: its only inputs are its calls, and they are all enumerated.     *)
EXTENDS RaftEngine

\* The log without the threads: an engine that is never started, and whose
\* role the application sets, as cmd/experiment does.
LogNext ==
    \E s \in Server :
        \/ ApplyEntry(s) \/ Receive(s)
        \/ \E d \in Payload : Propose(s, d)
        \/ \E i \in 1..MaxIndex : CompactLog(s, i)
        \/ \E r \in AssignedRoles : SetRole(s, r)
        \/ \E a \in AppendEntriesArgs : \/ RejectAppendEntries(s, a)
                                        \/ AcceptAppendEntries(s, a)
        \/ Restart(s) \/ RestartUnread(s)

LogSpec == Init /\ [][LogNext]_vars
=============================================================================
