------------------------------ MODULE MCSendQueue ------------------------------
(* SendQueue with two clients, two workers and small limits. *)
EXTENDS SendQueue

CONSTANTS w1, w2, c1, c2

TheWorkers == {w1, w2}
TheConns == {c1, c2}
=============================================================================
