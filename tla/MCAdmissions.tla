--------------------------- MODULE MCAdmissions ---------------------------
(* Two rows in the file; applications and requests are interchangeable.   *)
EXTENDS Admissions, TLC

CONSTANTS a1, a2, n1, n2, r1, r2

TwoRows == {<<n1, n2>>}

Symmetric == Permutations({a1, a2}) \cup Permutations({r1, r2})
=============================================================================
