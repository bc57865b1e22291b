------------------------------ MODULE MCTimers ------------------------------
(* Timers on a small clock: one-shot and repeating timers, near and far.    *)
EXTENDS Timers
=============================================================================
