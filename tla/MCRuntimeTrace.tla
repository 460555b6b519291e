--------------------------- MODULE MCRuntimeTrace ---------------------------
(* Model values and bounds for RuntimeTrace. *)
EXTENDS RuntimeTrace, TLC

CONSTANTS e1, e2, c1, c2

TwoEmitters == {e1, e2}
TwoClosers  == {c1, c2}
OneCloser   == {c1}

\* Threads of a kind are interchangeable; used by the safety run only.
ThreadSymmetry == Permutations(TwoEmitters) \union Permutations(TwoClosers)
=============================================================================
