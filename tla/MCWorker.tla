-------------------------------- MODULE MCWorker --------------------------------
(* Worker with two pool threads and two connections. *)
EXTENDS Worker

CONSTANTS w1, w2, c1, c2

TwoWorkers == {w1, w2}
TwoConns == {c1, c2}
=============================================================================
