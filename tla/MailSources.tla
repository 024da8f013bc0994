---------------------------- MODULE MailSources ----------------------------
(***************************************************************************)
(* The mailbox services (mail/client.ts, mail/normalize.ts): which links   *)
(* are accepted, what a request can answer, and which identity, time and   *)
(* order the messages of a service have.  Addresses, tokens and pages are  *)
(* abstracted to what the code decides by them.                            *)
(***************************************************************************)
EXTENDS Naturals, Sequences, TLC

CONSTANT MaxRedirects   \* MAX_PATH_MAILBOX_REDIRECTS

----------------------------------------------------------------------------
(* The links.  A well-formed link of a service must, may or does not name  *)
(* the mailbox; a name that is not the account's is refused.               *)
PathLinks == [generic |-> "may", path |-> "must", icloudShow |-> "must", blogTx |-> "must"]
TokenLinks ==
  [cloud |-> "no", assurivo |-> "must", ai1998 |-> "must", gptMail |-> "no", mailOtp |-> "no",
   chinaAgarwood |-> "no"]
ShareLinks ==
  [yisen |-> "must", mail776867 |-> "no", flySms |-> "must", desk360 |-> "no", mailcat |-> "no",
   aisvip |-> "no", bomyi |-> "no"]
CodeLinks ==
  [mailCom |-> "no", ai100 |-> "no", aigateway |-> "no", api798 |-> "must",
   webmail503 |-> "must", o6f4 |-> "must"]
TemporaryLinks ==
  [cloudflareCode |-> "must", cloudflareMailbox |-> "no", cloudflareOtp |-> "no"]
(* The default service is asked with the account's own address.            *)
LinkNames ==
  PathLinks @@ TokenLinks @@ ShareLinks @@ CodeLinks @@ TemporaryLinks @@
  [default |-> "must", mcZero |-> "must"]

Mailboxes == {"own", "other"}
Linked(site, owner) == IF LinkNames[site] = "must" THEN {owner} ELSE {owner, "unnamed"}
normalizeMailboxAccessInput(site, wellFormed, named) ==
  /\ wellFormed
  /\ LinkNames[site] = "no" \/ named # "other"

----------------------------------------------------------------------------
(* A request: first direct, then once through the Mac's loopback proxy.    *)
Connections == {"answers", "times_out", "no_name", "refused"}
Proxies == {"none", "unresolved", "works", "fails"}
throwPathMailboxRequestFailure(tunnel, direct, proxy) ==
  IF tunnel /\ direct = "no_name" /\ proxy # "none" THEN "fatal" ELSE "retry"
fetchPathMailboxHop(tunnel, direct, proxy) ==
  IF direct = "answers" \/ (direct # "times_out" /\ proxy = "works") THEN "response"
  ELSE IF direct = "times_out" THEN "retry"
  ELSE throwPathMailboxRequestFailure(tunnel, direct, proxy)

requestPathMailbox(redirects, sameOrigin) ==
  IF redirects = 0 \/ (redirects <= MaxRedirects /\ sameOrigin) THEN "response" ELSE "fatal"

Statuses == {200, 400, 401, 404, 410, 429, 503}
requestCloudMailboxJson(status) ==
  CASE status = 200 -> "response" [] status \in {429, 503} -> "retry" [] OTHER -> "fatal"
StrictStatus(status) ==
  CASE status \in {200, 400} -> "response" [] status = 503 -> "retry" [] OTHER -> "fatal"

(* A body too large, of another type or of another shape is "odd".         *)
Bodies == {"mails", "none", "refused", "odd"}
readBoundedBody(body) == IF body = "odd" THEN "fatal" ELSE "response"

----------------------------------------------------------------------------
(* The messages.  Without an id a JSON item is numbered by its place in    *)
(* the listing; in a page or a text it has none.  A page or a text without *)
(* a structure is one message of all it holds, with the first time in it.  *)
(* One service gives the time at which it looked as the id, and for a time *)
(* it does not know.  The fingerprint is of everything.                    *)
JsonIds == {"given", "position"}
PageIds == {"given", "none", "whole"}
Message(shape, place, check, from, texts) ==
  LET id == CASE shape.ids = "given" -> from [] shape.ids = "position" -> {place}
              [] shape.ids = "check" -> {check} [] OTHER -> {}
      at == IF shape.times THEN texts[1].at ELSE IF shape.ids = "check" THEN {check} ELSE {}
  IN [id |-> id, print |-> <<id, texts, at>>, codes |-> UNION {texts[i].codes : i \in DOMAIN texts},
      at |-> at, mails |-> from]

(* What a service gives: ids and times, whether the code takes its listing *)
(* for ordered, one message or several, whether the answer must name the   *)
(* mailbox, how a refusal is taken, whether redirects are followed, whether *)
(* it is behind a temporary tunnel, and whether a busy service is given up. *)
Json == [ids |-> JsonIds, times |-> BOOLEAN, newestFirst |-> TRUE, single |-> {TRUE},
         names |-> FALSE, refused |-> {"fatal"}, redirects |-> FALSE, tunnel |-> FALSE, strict |-> FALSE]
Cloud == [Json EXCEPT !.ids = {"given"}, !.times = {TRUE}, !.single = {FALSE}, !.names = TRUE]
Aisvip == [Json EXCEPT !.ids = {"check", "position"}, !.refused = {"retry", "fatal", "none"}]
Bomyi == [Json EXCEPT !.ids = {"given"}, !.names = TRUE]
GptMail == [Json EXCEPT !.ids = {"position"}, !.newestFirst = FALSE, !.names = TRUE, !.refused = {"none"}]
MailOtpCode == [Json EXCEPT !.ids = {"position"}, !.times = {FALSE}, !.refused = {"none", "fatal"}]
ChinaAgarwood == [Json EXCEPT !.ids = {"position"}, !.times = {TRUE}, !.single = {FALSE}]
Yisen == [Json EXCEPT !.ids = {"given"}, !.times = {TRUE}, !.single = {FALSE}, !.names = TRUE]
CloudflareMailbox ==
  [Json EXCEPT !.ids = JsonIds \cup PageIds, !.single = {FALSE}, !.refused = {"none", "fatal"},
   !.tunnel = TRUE, !.strict = TRUE]
McZero == [Json EXCEPT !.ids = {"given"}, !.refused = {"retry", "none"}]
Mail776867 == [Json EXCEPT !.newestFirst = FALSE, !.single = {FALSE}, !.names = TRUE]
FlySms == [Json EXCEPT !.names = TRUE, !.refused = {"none", "fatal"}]
Desk360 ==
  [Json EXCEPT !.ids = {"position"}, !.times = {TRUE}, !.newestFirst = FALSE, !.single = {FALSE}, !.names = TRUE]
Aigateway == [Json EXCEPT !.newestFirst = FALSE, !.single = {FALSE}]
Api798 == [Json EXCEPT !.ids = JsonIds \cup {"none"}]
Webmail503 == [Json EXCEPT !.names = TRUE, !.refused = {"none"}]
CloudflareOtp == [Json EXCEPT !.single = {FALSE}, !.refused = {"none", "fatal"}, !.tunnel = TRUE]
MailCom ==
  [Json EXCEPT !.names = TRUE, !.refused = {"none", "fatal"}, !.tunnel = TRUE, !.strict = TRUE]

(* The services read by the common request of listMessages.                *)
Page == [Json EXCEPT !.newestFirst = FALSE, !.single = {FALSE}, !.ids = JsonIds \cup PageIds]
PathPage == [Page EXCEPT !.redirects = TRUE]
IcloudShow == [PathPage EXCEPT !.ids = {"position"}]
(* The two below know a page of one mail, and else read what it holds. *)
BlogTx == [Page EXCEPT !.ids = PageIds, !.newestFirst = TRUE, !.single = BOOLEAN, !.names = TRUE]
Mailcat ==
  [Page EXCEPT !.ids = PageIds \cup {"position"}, !.newestFirst = TRUE, !.single = BOOLEAN, !.names = TRUE]
Assurivo == [Json EXCEPT !.ids = JsonIds \cup {"whole"}, !.single = BOOLEAN]
(* Which of them reads an accepted link. *)
listMessages ==
  [cloud |-> Cloud, mcZero |-> McZero, gptMail |-> GptMail, mailOtp |-> MailOtpCode,
   chinaAgarwood |-> ChinaAgarwood, yisen |-> Yisen, mail776867 |-> Mail776867, flySms |-> FlySms,
   desk360 |-> Desk360, aigateway |-> Aigateway, api798 |-> Api798, webmail503 |-> Webmail503,
   cloudflareMailbox |-> CloudflareMailbox, cloudflareCode |-> CloudflareMailbox,
   cloudflareOtp |-> CloudflareOtp, mailCom |-> MailCom, ai100 |-> MailCom, aisvip |-> Aisvip,
   bomyi |-> Bomyi, mailcat |-> Mailcat, path |-> PathPage, ai1998 |-> PathPage,
   icloudShow |-> IcloudShow, assurivo |-> Assurivo, blogTx |-> BlogTx, o6f4 |-> PathPage,
   generic |-> Page, default |-> Page]

(* What one call of a service can answer about somebody's mailbox: its     *)
(* mails, none, a failure worth another try or one that is not.            *)
Requests ==
  [direct : Connections, proxy : Proxies, redirects : 0 .. (MaxRedirects + 1),
   sameOrigin : BOOLEAN, status : Statuses, body : Bodies]
requireMatchingEmail(s, owner) == s.names => owner = "own"
Answer(s, owner, r) ==
  LET connected == fetchPathMailboxHop(s.tunnel, r.direct, r.proxy)
      arrived == IF s.redirects THEN requestPathMailbox(r.redirects, r.sameOrigin)
                 ELSE requestPathMailbox(r.redirects, FALSE)
      status == IF s.strict THEN StrictStatus(r.status) ELSE requestCloudMailboxJson(r.status)
  IN CASE connected # "response" -> {connected}
       [] arrived # "response" -> {arrived}
       [] status # "response" -> {status}
       [] readBoundedBody(r.body) # "response" -> {"fatal"}
       [] r.body = "refused" -> s.refused
       [] ~requireMatchingEmail(s, owner) -> {"fatal"}
       [] OTHER -> {r.body}

(* Every mailbox a task can be given: a service and the way it lists,      *)
(* with a link that may be malformed and may lead to another's mailbox.    *)
(* It is wrong when link or answer should have told that it is another's.  *)
Shapes(site, owner, answers) ==
  LET s == listMessages[site]
  IN [ids : s.ids, times : s.times, newestFirst : {s.newestFirst}, single : s.single,
      oldestFirst : IF s.newestFirst \/ s.single = {TRUE} THEN {FALSE} ELSE BOOLEAN,
      wrong : {owner = "other" /\ (LinkNames[site] = "must" \/ s.names)}, answers : {answers}]
Given(site, owner, wellFormed, named) ==
  Shapes(site, owner,
    IF ~normalizeMailboxAccessInput(site, wellFormed, named) THEN {"fatal"}
    ELSE UNION {Answer(listMessages[site], owner, r) : r \in Requests})
GivenMailboxes(sites) ==
  UNION {UNION {Given(site, owner, wf, named) : named \in Linked(site, owner), wf \in BOOLEAN} :
         site \in sites, owner \in Mailboxes}
=============================================================================
