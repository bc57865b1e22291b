---------------------------- MODULE MCSafeQueue ----------------------------
(* SafeQueue on a small instance: three threads that mix every kind of      *)
(* pop_wait with pushes and exits.  Threads and tasks are interchangeable.  *)
EXTENDS SafeQueue, TLC

Symmetry == Permutations(Threads) \cup Permutations(Tasks)

=============================================================================
