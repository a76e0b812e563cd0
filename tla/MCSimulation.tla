---------------------------- MODULE MCSimulation ----------------------------
(* Model-checking setup of the simulation: one link is closed and opened in *)
(* both ways.                                                               *)
EXTENDS Simulation

MCControls ==
  {[status |-> "Fail", node |-> 2], [status |-> "Normal", node |-> 2],
   [isolate |-> TRUE, a |-> 2, b |-> 1], [isolate |-> FALSE, a |-> 2, b |-> 1]}

MCLinks == {<<1, 2>>, <<2, 1>>}

MCAlarms == {<<2, "election">>}

=============================================================================
