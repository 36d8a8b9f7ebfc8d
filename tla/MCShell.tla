------------------------------ MODULE MCShell ------------------------------
(* Either several starts, a kill and edits of profiles, or one or two      *)
(* processes with their pages and a user at them.                          *)
EXTENDS Shell, TLC

CONSTANTS p1, p2

MCBudget ==
  { [starts |-> 3, faults |-> 1, edits |-> 0, inputs |-> 0],
    [starts |-> 3, faults |-> 0, edits |-> 3, inputs |-> 0],
    [starts |-> 1, faults |-> 0, edits |-> 0, inputs |-> 5],
    [starts |-> 2, faults |-> 0, edits |-> 0, inputs |-> 3] }

Symmetry == Permutations(Process)
=============================================================================
