-------------------------- MODULE MCLicenseAllocator --------------------------
EXTENDS LicenseAllocator, TLC

(* Two campuses; the students of an odd number are on the first.           *)
Campuses == [n \in Student |-> IF n % 2 = 1 THEN "north" ELSE "south"]

Symmetry == Permutations(Session) \cup Permutations(Key)
=============================================================================
