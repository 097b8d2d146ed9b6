--------------------------- MODULE MCExamResults ---------------------------
(* Two students, two marks, two requests at a time.                        *)
EXTENDS ExamResults, TLC

CONSTANTS s1, s2, m1, m2, r1, r2

Symmetric == Permutations({s1, s2}) \cup Permutations({m1, m2}) \cup Permutations({r1, r2})
=============================================================================
