----------------------------- MODULE MCExamHall -----------------------------
EXTENDS ExamHall, TLC

CONSTANTS s1, s2, x1, x2, x3, A, B, small, large, a1, a2, b1, t1, t2

Morning == <<1, 3>>
Noon    == <<2, 4>>
Evening == <<4, 5>>

Paper(state, class, room, time, need, capacity) ==
    [state |-> state, class |-> class, room |-> room, time |-> time,
     need |-> need, capacity |-> capacity]

Windows   == {Morning, Noon, Evening}
Classes   == (a1 :> A) @@ (a2 :> A) @@ (b1 :> B)
Rooms     == (small :> 1) @@ (large :> 2)
(* A hall of two rooms, one of one, and one that names its room twice.     *)
Halls     == {<<small, large>>, <<large>>, <<small, small>>}
(* A client sends the whole slot, or only its time.                   *)
Forms     == {{"class", "room", "time", "need"}, {"time"}}
Teachers  == <<t1, t2>>
FirstPlan ==
    (x1 :> Paper("live", A, small, Morning, 1, 1))
        @@ (x2 :> Paper("live", B, large, Morning, 1, 2))
        @@ (x3 :> Paper("none", A, small, Noon, 1, 1))

Symmetry == Permutations({s1, s2}) \cup Permutations({a1, a2})
=============================================================================
