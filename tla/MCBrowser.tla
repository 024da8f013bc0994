----------------------------- MODULE MCBrowser -----------------------------
(* A small instance of the browser of one task. *)
EXTENDS BrowserPages
=============================================================================
