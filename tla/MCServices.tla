----------------------------- MODULE MCServices -----------------------------
(* Instance of the small services for TLC.  A behaviour is about one of    *)
(* them, chosen at the start: they share nothing, so that their product    *)
(* would show nothing more.                                                *)
EXTENDS RuntimeServices, StaticConsensus, PeerTable, ExecutionRouter

VARIABLE focus

allVars == <<focus, serviceVars, staticVars, tableVars, routerVars>>

CONSTANTS task1, task2

TaskEvents == task1 :> "STATE_COMMITTED" @@ task2 :> "STATE_COMMITTED"

Strings == {<<1>>}
NoKeys == <<>>
PeerScores == {0, 3}
Adjustments == {-1, 2}

Init ==
    /\ focus \in {"bus", "static", "table", "router"}
    /\ ServicesInit /\ StaticInit /\ TableInit /\ RouterInit
    /\ focus # "static" => variant = "raft" /\ isLeader

Others(f) ==
    /\ focus = f /\ UNCHANGED focus
    /\ f # "bus" => UNCHANGED serviceVars
    /\ f # "static" => UNCHANGED staticVars
    /\ f # "table" => UNCHANGED tableVars
    /\ f # "router" => UNCHANGED routerVars

Next ==
    \/ Others("bus") /\ ServicesNext
    \/ Others("static") /\ StaticNext
    \/ Others("table") /\ TableNext
    \/ Others("router") /\ RouterNext

BusStep(A)    == Others("bus") /\ A
StaticStep(A) == Others("static") /\ A

\* Goroutines run.  A select with several cases ready chooses at random, so
\* that a case ready again and again is taken; consumers and contexts are free.
Fairness ==
    /\ \A t \in Task : /\ WF_allVars(BusStep(TaskRuns(t)))
                       /\ SF_allVars(BusStep(TaskExits(t)))
    /\ \A p \in Proposer : /\ WF_allVars(StaticStep(ProposeAborts(p)))
                           /\ WF_allVars(StaticStep(ProposeSends(p)))
    /\ WF_allVars(StaticStep(SetLeaderReturns))

Spec == Init /\ [][Next]_allVars /\ Fairness

=============================================================================
