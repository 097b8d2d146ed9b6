---------------------------- MODULE MCPromotion ----------------------------
EXTENDS Promotion, TLC

CONSTANTS r1, r2, t1, t2, t3

Chain == "A" :> "2024" @@ "B" :> "2025"
Next1 == "A" :> "2025" @@ "B" :> "2026"

Symmetric == Permutations(Request) \cup Permutations(Task)
=============================================================================
