------------------------ MODULE MCCorrelationWindow ------------------------
(* Instances of CorrelationWindow for TLC. *)
EXTENDS CorrelationWindow, TLC

\* A rule that an operator edits: a lower threshold, a shorter window, and a
\* window that the API accepts although no event can lie in it.
Edited == {[threshold |-> 2, window |-> 1], [threshold |-> 3, window |-> 0],
           [threshold |-> 1, window |-> -1]}

EventGroupSymmetry == Permutations(Events) \cup Permutations(Groups)
=============================================================================
