----------------------------- MODULE MCSourceWalk -----------------------------
(* Walks over a package of up to four notices, one over the budget, in pages of two. *)
EXTENDS SourceWalk, TLC

CONSTANTS n1, n2, n3, n4, t1, t2

MCRetryAfter == {None, 0, 3, 4}

Symmetry == Permutations({n1, n2, n3, n4}) \cup Permutations({t1, t2})
=============================================================================
