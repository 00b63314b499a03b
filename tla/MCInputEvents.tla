--------------------------- MODULE MCInputEvents ---------------------------
(* Instances of InputEvents for TLC: one button that can be pressed,       *)
(* released and pressed again, the other sources to give it company.       *)
EXTENDS InputEvents

Few == [key |-> 1, move |-> 1, left |-> 3, right |-> 1]
=============================================================================
