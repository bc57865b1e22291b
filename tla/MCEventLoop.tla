---------------------------- MODULE MCEventLoop ----------------------------
(* One EventBase with two other threads and one user channel.               *)
EXTENDS EventLoop

=============================================================================
