---------------------------- MODULE MCCeremony -----------------------------
(***************************************************************************)
(* Users with which TLC checks Ceremony.                                   *)
(***************************************************************************)
EXTENDS Ceremony

CONSTANTS a, b, c                (* model values: users                     *)

None == {}
One == {a}
Last == {c}
Three == {a, b, c}
Two == {a, b}

OneOrTwo == [u \in Users |-> IF u = b THEN 2 ELSE 1]
EveryMode == {"first", "later", "validationOnly"}
LaterOnly == {"later"}
NextBlock == {5, 10}

\* Ticks of two seconds.
ShortestAndLongest == {30, 45}
AtOnceOrLate == {0, 30}

\* The times of both runs leave the sessions time enough.
ASSUME TimesFit == ScheduleFits /\ FlipsFit(10)
=============================================================================
