---------------------------- MODULE MCWorkerPool ----------------------------
(* Model-checking instance of WorkerPool: the constants are model values,  *)
(* given in MCWorkerPool.cfg.  There is no symmetry, for the liveness      *)
(* properties would not be sound with it.                                  *)
EXTENDS WorkerPool
=============================================================================
