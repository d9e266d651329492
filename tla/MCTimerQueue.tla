------------------------------ MODULE MCTimerQueue ------------------------------
(* TimerQueue with two connections and a short time. *)
EXTENDS TimerQueue

CONSTANTS c1, c2

TheConns == {c1, c2}
AsBuilt == {"NULL", "garbage"}
=============================================================================
