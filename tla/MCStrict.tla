------------------------------ MODULE MCStrict ------------------------------
(* The STRICT mode of lpts_check and the driver that runs its queries in   *)
(* that mode, each with its own scheduling: a driver with a workload, or,  *)
(* when a driver without queries has ended in peace, statements to check.  *)
EXTENDS MCLptsCheck, MCSqlStormRunner

MCWorkloads == AllWorkloads \cup {<< >>}
NoQueries == queries = << >>
EndedInPeace == pc = "done" /\ child.opened /\ child.pc = "gone"
Unsettled == \E c \in Conns : settings[c] # On
StrictInit ==
    /\ Init /\ StormInit
    /\ NoQueries => ~compare_perf
    /\ Unsettled => NoQueries
StrictNext ==
    \/ StormNext /\ UNCHANGED vars
    \/ NoQueries /\ EndedInPeace /\ Next /\ UNCHANGED stormVars
StrictSpec ==
    StrictInit /\ [][StrictNext]_<<vars, stormVars>> /\ StormFairness /\ Fairness
=============================================================================
