----------------------------- MODULE MCThreadPool -----------------------------
(* ThreadPool with three pool threads. *)
EXTENDS ThreadPool

CONSTANTS t1, t2, t3

ThreeThreads == {t1, t2, t3}
=============================================================================
