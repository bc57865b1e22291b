----------------------------- MODULE MCTcpConn -----------------------------
(* One TcpConn: user code is what its configuration lets it do.            *)
EXTENDS TcpConn, TLC
=============================================================================
