------------------------------ MODULE MailOtp ------------------------------
(***************************************************************************)
(* The code chosen from one listing of a mailbox (mail/otp.ts).            *)
(*                                                                         *)
(* A message of a listing is [id, print, codes, at, mails]: its id and its *)
(* time are sets of at most one element, empty when the source gives none; *)
(* print is the fingerprint; codes are the six-digit codes of a mail that  *)
(* is about this login, and none for any other mail; mails says which of   *)
(* the mails of the mailbox it shows, which the program does not know.     *)
(***************************************************************************)
EXTENDS Naturals, Sequences, FiniteSets

CONSTANT Skew           \* CLOCK_SKEW_MS
ASSUME SkewAssumption == Skew \in Nat

createMailBaseline(list) ==
  [ids |-> UNION {list[i].id : i \in DOMAIN list},
   prints |-> {list[i].print : i \in DOMAIN list},
   otpCodes |-> {}]
NoBaseline == createMailBaseline(<<>>)

isNewUndated(m, baseline, startedAt) ==     \* mutant: times are not looked at
  m.id \cap baseline.ids = {} /\ m.print \notin baseline.prints
isNewMessage(m, baseline, startedAt) ==
  /\ m.id \cap baseline.ids = {}
  /\ m.print \notin baseline.prints
  /\ \A t \in m.at : t + Skew >= startedAt

(* The new messages with a code that was not handed out yet, at their      *)
(* places in the listing.                                                  *)
CandidatesOf(list, baseline, startedAt) ==
  LET Unused(m) == [m EXCEPT !.codes = @ \ baseline.otpCodes]
      counting == {i \in DOMAIN list : /\ isNewMessage(list[i], baseline, startedAt)
                                       /\ Unused(list[i]).codes # {}}
  IN [i \in counting |-> Unused(list[i])]

Identity(m) == IF m.id # {} THEN m.id ELSE m.print
Nothing == [code |-> {}, mails |-> {}, ordered |-> {}]

CodesOf(cs, places) == UNION {cs[i].codes : i \in places}
Found(cs, places) ==
  [Nothing EXCEPT !.code = CodesOf(cs, places), !.mails = UNION {cs[i].mails : i \in places}]
Latest(cs) ==
  {i \in DOMAIN cs : \A j \in DOMAIN cs : \A t \in cs[i].at, u \in cs[j].at : u <= t}
(* The candidate nearest to the head of the listing. *)
First(cs) == cs[CHOOSE i \in DOMAIN cs : \A j \in DOMAIN cs : i <= j]
Ordered(m) == [Nothing EXCEPT !.ordered =
                 {[identity |-> Identity(m), code |-> m.codes, mails |-> m.mails]}]

(* One code in all, or one code in the latest message: found.  Otherwise   *)
(* the head of an ordered listing may be confirmed by a second poll.       *)
extractUniqueOtp(list, baseline, startedAt, newestFirst) ==
  LET cs == CandidatesOf(list, baseline, startedAt)
      untimed == \E i \in DOMAIN cs : cs[i].at = {}
  IN IF Cardinality(CodesOf(cs, DOMAIN cs)) <= 1 THEN Found(cs, DOMAIN cs)
     ELSE IF ~untimed /\ Cardinality(CodesOf(cs, Latest(cs))) = 1 THEN Found(cs, Latest(cs))
     ELSE IF newestFirst /\ Cardinality(First(cs).codes) = 1 THEN Ordered(First(cs))
     ELSE Nothing

(* After a resend: the head of an ordered listing, new or not.             *)
extractNewestOrderedOtp(list, newestFirst) ==
  IF ~newestFirst \/ list = <<>> THEN {}
  ELSE LET selection == extractUniqueOtp(<<list[1]>>, NoBaseline, 0, newestFirst)
       IN IF selection.code = {} THEN {}
          ELSE {[identity |-> Identity(list[1]), code |-> selection.code,
                 mails |-> list[1].mails, at |-> list[1].at]}
=============================================================================
