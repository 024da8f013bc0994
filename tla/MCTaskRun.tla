----------------------------- MODULE MCTaskRun -----------------------------
(* Small instances of TaskRun. *)
EXTENDS TaskRun

In(operation, material, proxy, duplicates, fallbacks, attempts) ==
  [operation |-> operation, material |-> material, proxy |-> proxy,
   allowDuplicateCreation |-> duplicates, fallbacks |-> fallbacks,
   attempts |-> attempts]

(* Every branch on the input is taken both ways by some input, and every   *)
(* kind of write is reached by create and reauthorization tasks.           *)
TaskInputs ==
  {In("create", "email_otp", "dynamic", FALSE, 0, 2),
   In("create", "email_otp", "fixed", TRUE, 0, 1),
   In("create", "password_totp", "fixed", TRUE, 1, 2),
   In("reauthorize", "email_otp", "direct", FALSE, 0, 2),
   In("reauthorize", "email_otp", "fixed", FALSE, 0, 3),
   In("reauthorize", "password_totp", "fixed", FALSE, 2, 2)}

TwoSessions == {"s1", "s2"}
=============================================================================
