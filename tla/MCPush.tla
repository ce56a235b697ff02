------------------------------- MODULE MCPush -------------------------------
(* Instances of Push for TLC. *)
EXTENDS Push

CONSTANTS c1, f1
\* countdown_active: it changes with a request and its notification, and with
\* the clock and none.
CountdownActive == {f1}
OneClient == {c1}
Everyone == Task
=============================================================================
