------------------------------ MODULE MCPortal ------------------------------
(* A small instance of Portal: a person at the settings page, a task that  *)
(* resolves and an audit.                                                  *)
EXTENDS Portal, TLC

CONSTANTS c1, c2, r1, r2
MCOperations ==
  c1 :> {"connect", "disconnect", "restore", "inspect"} @@ c2 :> {"resolve", "audit"}
MCRetryDelays ==
  [op \in Checks \union {"connect", "read"} |-> IF op = "resolve" THEN 1 ELSE 0]
=============================================================================
