----------------------------- MODULE MCIdleConns -----------------------------
EXTENDS IdleConns
=============================================================================
