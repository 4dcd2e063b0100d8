----------------------------- MODULE MCPingSync -----------------------------
(* Two synchronised requests, the three extra ones of the test, a node    *)
(* budget of up to two serves beyond success_count, one poll per wait.    *)
EXTENDS PingSync

MCSuccessCount == 2
MCExtra == 3
MCSlack == 2
MCTimeout == 1
=============================================================================
