---------------------------- MODULE TaskLifecycle ----------------------------
(***************************************************************************)
(* What an account task promises to those who start, follow and cancel it: *)
(* the web front end, the hosting queue and the provisioning agent.  They  *)
(* see neither pages nor requests, only that the task is under way, that   *)
(* it may have begun a write to the backend, and how it ended.             *)
(*                                                                         *)
(* TaskRun implements this specification; Hosting and Agent rely on it.    *)
(***************************************************************************)
CONSTANT Writes      \* the kinds of write that change an account

VARIABLES
  status,    \* how the task stands
  write,     \* the write it has been admitted to, "note" or "none" among them
  sent       \* how many requests of that write have left the service

lifecycleVars == <<status, write, sent>>

Endings == {"succeeded", "failed", "cancelled", "interrupted"}

LifecycleInit == status = "active" /\ write = "none" /\ sent = 0

(* One write per task, chosen while it is under way. *)
Admit ==
  /\ status = "active" /\ write = "none"
  /\ write' \in Writes \union {"note"}
  /\ UNCHANGED <<status, sent>>

(* The request leaves once.  A cancellation holds nothing but a note can   *)
(* still be on its way.                                                    *)
SendWrite ==
  /\ write # "none" /\ sent = 0
  /\ status = "active" \/ (status = "cancelled" /\ write = "note")
  /\ sent' = 1
  /\ UNCHANGED <<status, write>>

(* Success is reported when the write was sent, or when none was needed    *)
(* because the account was there already.                                  *)
Succeed ==
  /\ status = "active" /\ (sent = 1 \/ write = "none")
  /\ status' = "succeeded"
  /\ UNCHANGED <<write, sent>>

FailTask ==
  /\ status = "active" /\ status' = "failed"
  /\ UNCHANGED <<write, sent>>

(* A task is not cancelled once it may write to an account. *)
CancelTask ==
  /\ status = "active" /\ write \notin Writes
  /\ status' = "cancelled"
  /\ UNCHANGED <<write, sent>>

(* The service stops while the task is under way.                          *)
InterruptTask ==
  /\ status = "active" /\ status' = "interrupted"
  /\ UNCHANGED <<write, sent>>

LifecycleNext ==
  Admit \/ SendWrite \/ Succeed \/ FailTask \/ CancelTask \/ InterruptTask

LifecycleSpec == LifecycleInit /\ [][LifecycleNext]_lifecycleVars
=============================================================================
