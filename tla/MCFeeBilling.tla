---------------------------- MODULE MCFeeBilling ----------------------------
EXTENDS FeeBilling, TLC

CONSTANTS c1, c2, r1, r2, m1

(* Two installments; two concessions of one rule, which takes more off     *)
(* than the second installment, and less than both.                        *)
TwoInstallments == <<2, 1>>
Rules     == c1 :> "merit" @@ c2 :> "merit"
Discounts == "merit" :> 2

Symmetric == Permutations(Concession) \cup Permutations(Request)
=============================================================================
