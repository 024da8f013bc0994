----------------------------- MODULE MCHosting -----------------------------
(* Small instances of Hosting. *)
EXTENDS Hosting

TwoAccounts == {"a1", "a2"}
(* What the backend lists, and selections with a repeated account.         *)
TwoListings == {<<"a1", "a2">>, <<"a2">>}
TwoSelections == {<<"a2", "a1", "a2">>, <<"a1">>}
=============================================================================
