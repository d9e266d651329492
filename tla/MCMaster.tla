-------------------------------- MODULE MCMaster --------------------------------
(* Master with three workers, under the name that the code asks for. *)
EXTENDS Master

ThreeWorkers == [item \in {"WorkProcesses", "Daemon"} |->
                   IF item = "Daemon" THEN 1 ELSE 3]
=============================================================================
