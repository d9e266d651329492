------------------------------ MODULE MCConnPool ------------------------------
(* ConnPool with one configured client and one listening port. *)
EXTENDS ConnPool

CONSTANT w1

NoWorkers == {}
OneWorker == {w1}
=============================================================================
