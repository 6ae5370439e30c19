------------------------------- MODULE MCBook -------------------------------
(* A small instance of Book for TLC: three keys, so that one can leave the *)
(* middle of the idle list, two classes and items with and without a       *)
(* deadline.                                                               *)
EXTENDS Book, TLC

MCMaxInflight == [c \in Classes |-> 1]
MCDeadlines == {Never, 1}

Symmetry == Permutations(Keys)

=============================================================================
