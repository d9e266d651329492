------------------------------- MODULE JobQueue -------------------------------
(***************************************************************************)
(* What CThreadPool promises to the code that uses it: packets are taken   *)
(* up in the order they came in, by at most Size handlers at a time; each  *)
(* is released once, after its handler returned or, if it was never taken  *)
(* up, when the stopped pool is destroyed.  There are no threads, mutexes  *)
(* or signals here; ThreadPool implements this module.                     *)
(***************************************************************************)
EXTENDS Integers, Sequences, FiniteSets

CONSTANT Size       \* handlers that may run at a time

VARIABLES
    arrived,        \* packets that came in so far
    waiting,        \* those not taken up yet
    handling,       \* those inside a handler
    released,       \* those whose memory was released
    closed          \* the pool is being stopped

jobs == <<arrived, waiting, handling, released, closed>>

Init ==
    /\ arrived = 0 /\ waiting = <<>>
    /\ handling = {} /\ released = {}
    /\ closed = FALSE

Arrive ==
    /\ ~closed
    /\ arrived' = arrived + 1
    /\ waiting' = Append(waiting, arrived')
    /\ UNCHANGED <<handling, released, closed>>

Start ==
    /\ ~closed
    /\ waiting # <<>>
    /\ Cardinality(handling) < Size
    /\ handling' = handling \cup {Head(waiting)}
    /\ waiting' = Tail(waiting)
    /\ UNCHANGED <<arrived, released, closed>>

Finish ==
    /\ \E m \in handling :
          /\ handling' = handling \ {m}
          /\ m \notin released
          /\ released' = released \cup {m}
    /\ UNCHANGED <<arrived, waiting, closed>>

Close ==
    /\ closed' = TRUE
    /\ UNCHANGED <<arrived, waiting, handling, released>>

\* What was never taken up is released, when no handler runs any more.
Clear ==
    /\ closed /\ handling = {}
    /\ released' = released \cup {waiting[i] : i \in DOMAIN waiting}
    /\ waiting' = <<>>
    /\ UNCHANGED <<arrived, handling, closed>>

Next == Arrive \/ Start \/ Finish \/ Close \/ Clear

Spec == Init /\ [][Next]_jobs
=============================================================================
