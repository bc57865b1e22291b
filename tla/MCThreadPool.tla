---------------------------- MODULE MCThreadPool ----------------------------
(* ThreadPool with two workers, its owner and a second client.              *)
EXTENDS ThreadPool
=============================================================================
