-------------------------- MODULE WorkerPoolClaims --------------------------
(* What the documentation and the comments of the code say of the worker    *)
(* pool and the code, as WorkerPool models it, does not do.                 *)
EXTENDS WorkerPool

(* README.md, graceful shutdowns: a worker that is told to shut down while  *)
(* it processes an execution exits after the execution concluded.  The      *)
(* channel thread calls os._exit() wherever the main thread is.             *)
GracefulShutdown ==
    [][\A w \in Worker :
        main[w] = "run" /\ thread[w].msg = "stop-no-delete" => main'[w] # "exited"]_vars

=============================================================================
