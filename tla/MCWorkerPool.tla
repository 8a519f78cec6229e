---------------------------- MODULE MCWorkerPool ----------------------------
(* WorkerPool with two workers, three tasks, two callers of Drain and a      *)
(* channel of one slot: a full channel, a drain that times out with a queued *)
(* task, and a second drain after the first one closed the channel all occur. *)
EXTENDS WorkerPool

CONSTANTS w1, w2, t1, t2, t3, d1, d2

MCWorker == {w1, w2}
MCSubmitter == {t1, t2, t3}
MCDrainer == {d1, d2}

=============================================================================
