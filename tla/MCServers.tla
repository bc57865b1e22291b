------------------------------ MODULE MCServers ------------------------------
EXTENDS Servers

CONSTANTS c1, c2, c3, c4

Deployment(bases, workers, udp, clients, msgs) ==
  [bases |-> bases, workers |-> workers, udp |-> udp, clients |-> clients, msgs |-> msgs]

\* Three loops and so many connections that the counter wraps and comes
\* back to 0; HSHA with two
\* pool threads and with one; HSHAU.
MCDeployments ==
  { Deployment(3, 0, FALSE, {c1, c2, c3, c4}, 0),
    Deployment(2, 0, FALSE, {c1, c2}, 2),
    Deployment(1, 2, FALSE, {c1, c2}, 1),
    Deployment(1, 1, FALSE, {c1}, 3),
    Deployment(1, 2, TRUE, {c1}, 2) }
===============================================================================
