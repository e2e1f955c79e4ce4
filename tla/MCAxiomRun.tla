----------------------------- MODULE MCAxiomRun -----------------------------
(***************************************************************************)
(* Model checking of a run of axiom-run: command lines of the master and   *)
(* what an earlier run may have left on the port of the slaves.            *)
(***************************************************************************)
EXTENDS AxiomRun

\* the exit mode only matters to the exit service
CommandLines ==
  {[services |-> s, mode |-> "GREATHER"] :
     s \in {{"redirect", "kill"}, {"barrier"}, {"redirect", "exit", "kill"}}}
    \cup {[services |-> {"exit"}, mode |-> m] : m \in ExitModes}

OldQueues == {<< >>, <<"OLDSTART", "KILL">>}
=============================================================================
