-------------------------- MODULE MCWorkerPool --------------------------
(* A small instance of WorkerPool.  Three connections and a ring of two   *)
(* slots make main wait for room while it still accepts, the two workers  *)
(* wait for tasks, and the indices wrap in both phases.                   *)
EXTENDS WorkerPool, TLC

CONSTANTS w1, w2, c1, c2, c3

MCWorkers == {w1, w2}
MCConns   == {c1, c2, c3}
MCOneConn == {c1}
=========================================================================
