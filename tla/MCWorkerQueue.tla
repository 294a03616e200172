--------------------------- MODULE MCWorkerQueue ---------------------------
(***************************************************************************)
(* One queue with jobs of different sessions, and work of another queue    *)
(* that a job of this one sets off and that waits for a task itself.       *)
(***************************************************************************)
EXTENDS WorkerQueue

MCKeyOf == [j \in Job |-> j]
=============================================================================
