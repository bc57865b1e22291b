------------------------------- MODULE MCDaemon -------------------------------
(* The processes that are forked are alike.                                 *)
EXTENDS Daemon, TLC

Symmetry == Permutations(Pids \ Strangers)
===============================================================================
