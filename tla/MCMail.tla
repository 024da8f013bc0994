------------------------------- MODULE MCMail -------------------------------
(* A small instance of MailPolling: two codes, services of every way of    *)
(* listing mails.                                                          *)
EXTENDS MailPolling

CONSTANTS c1, c2
MCContents == {{}, {c1}, {c2}}
MCSites == {"aisvip", "mailcat"}
OldMailSites == {"chinaAgarwood", "icloudShow"}
=============================================================================
