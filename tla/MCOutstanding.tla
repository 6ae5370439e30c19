--------------------------- MODULE MCOutstanding ---------------------------
(* One set that fits one word; one that takes two, the second of them      *)
(* partial, and a summary; and one of two words whose summary takes two.   *)
EXTENDS Outstanding

MCShapes ==
  {[bits |-> 2, capacity |-> 2], [bits |-> 2, capacity |-> 3], [bits |-> 1, capacity |-> 2]}

=============================================================================
