--------------------------- MODULE MCButlerTasks ---------------------------
(* Instances of ButlerTasks for TLC. *)
EXTENDS ButlerTasks, TLC

CONSTANTS k1, k2, k3

\* Two sessions, one of which ends with two tasks; k3 has the worse priority.
MCSessions == {<<k1, k2>>, <<k3>>}
MCPriority == (k1 :> 4) @@ (k2 :> 4) @@ (k3 :> 5)
=============================================================================
