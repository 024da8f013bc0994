----------------------------- MODULE MailProofs -----------------------------
(***************************************************************************)
(* Which codes a task enters, for every mailbox service, every number of   *)
(* mails, rounds and attempts, every clock skew and every length of a      *)
(* round.                                                                  *)
(***************************************************************************)
EXTENDS MailPolling, FiniteSetTheorems, SequenceTheorems, WellFoundedInduction, TLAPS

Times == {{}} \cup {{t} : t \in Int}
Mails == [codes : Contents, at : Times]
Entries == [code : SUBSET UNION Contents, mails : SUBSET Nat, round : Nat]
IsBaseline(b) == b = [ids |-> b.ids, prints |-> b.prints, otpCodes |-> b.otpCodes]
Types ==
  /\ box \in GivenMailboxes(UsedSites) /\ mails \in Seq(Mails) /\ entered \in Seq(Entries)
  /\ round \in Nat /\ now \in Nat /\ requestedAt \in Nat /\ resentAt \subseteq Nat
  /\ IsBaseline(baseline)

(* Every moment the task goes by is one of its own, and a service with     *)
(* times gives one for every mail.                                         *)
OfTheTask ==
  /\ now >= Start /\ requestedAt >= Start /\ \A r \in resentAt : r >= Start
  /\ box.times => \A k \in DOMAIN mails : mails[k].at # {}

(* What has been entered is remembered as long as the task polls. *)
Used == stage # "ended" => \A i \in DOMAIN entered : entered[i].code \subseteq baseline.otpCodes

(* The baseline knows every mail that stood there, or the one that could   *)
(* be seen, when the service tells its mails apart.                        *)
PrintOf(k) == Message(box, 0, 0, {k}, <<mails[k]>>).print
Known ==
  /\ before \in 0 .. Len(mails)
  /\ stage \in {"baseline", "pausing"} => entered = <<>>
  /\ stage \notin {"baseline", "pausing", "ended"} /\ TellsApart =>
       \A k \in 1 .. before : (box.single => k = before) => PrintOf(k) \in baseline.prints

(* Where the entered codes came from. *)
Timed(m) == box.times /\ box.ids # "whole" => \A t \in mails[m].at : t + Skew >= Start
Origins == \A i \in DOMAIN entered : \A m \in entered[i].mails : m \in DOMAIN mails /\ Timed(m)

Distinct == NoCodeTwice
Strict == BaselineStaysOut
Right == box.wrong => entered = <<>>
IInv == Types /\ OfTheTask /\ Used /\ Known /\ Origins /\ Distinct /\ Strict /\ Right

----------------------------------------------------------------------------
(* A set of natural numbers has a least element (First chooses it). *)
LEMMA Least == ASSUME NEW S \in SUBSET Nat, S # {} PROVE \E x \in S : \A y \in S : x <= y
<1> DEFINE lt == {ss \in Nat \X Nat : ss[1] < ss[2]}
<1>1. IsWellFoundedOn(lt, Nat) BY NatLessThanWellFounded DEF OpToRel
<1>2. PICK x \in S : \A y \in S : <<y, x>> \notin lt
  <2> HIDE DEF lt
  <2> QED BY <1>1, WFMin
<1>3. ASSUME NEW y \in S PROVE x <= y
  <2>1. x \in Nat /\ y \in Nat /\ (y < x => <<y, x>> \in lt) OBVIOUS
  <2>2. ~(y < x) BY <2>1, <1>2
  <2> HIDE DEF lt
  <2> QED BY <2>1, <2>2
<1> QED BY <1>3

(* What a service can give (the records of listMessages). *)
IsService(s) == s.refused \subseteq {"retry", "fatal", "none"} /\ s.times \subseteq BOOLEAN

(* Every service gives what a service can give. *)
LEMMA Services == \A site \in DOMAIN listMessages : IsService(listMessages[site])
<1> USE DEF IsService, Json
<1>1. IsService(Json) OBVIOUS
<1>2. IsService(Cloud) /\ IsService(Bomyi) /\ IsService(McZero) /\ IsService(Mail776867)
  BY DEF Cloud, Bomyi, McZero, Mail776867
<1>3. IsService(GptMail) /\ IsService(MailOtpCode) /\ IsService(ChinaAgarwood) /\ IsService(Yisen)
  BY DEF GptMail, MailOtpCode, ChinaAgarwood, Yisen
<1>4. IsService(FlySms) /\ IsService(Desk360) /\ IsService(Aigateway) /\ IsService(Api798)
  BY DEF FlySms, Desk360, Aigateway, Api798
<1>5. IsService(Webmail503) /\ IsService(CloudflareMailbox) /\ IsService(CloudflareOtp)
  BY DEF Webmail503, CloudflareMailbox, CloudflareOtp
<1>6. IsService(MailCom) /\ IsService(Aisvip) /\ IsService(Assurivo) BY DEF MailCom, Aisvip, Assurivo
<1>7. IsService(PathPage) /\ IsService(Page) /\ IsService(Mailcat) BY DEF PathPage, Page, Mailcat
<1>8. IsService(IcloudShow) /\ IsService(BlogTx) BY DEF IcloudShow, PathPage, Page, BlogTx
<1> HIDE DEF IsService, Json
<1>9. TAKE site \in DOMAIN listMessages
<1> QED BY <1>1, <1>2, <1>3, <1>4, <1>5, <1>6, <1>7, <1>8 DEF listMessages

(* A request about another's mailbox never answers with mails, when link   *)
(* or answer name the mailbox (normalizeMailboxAccessInput,                *)
(* requireMatchingEmail).                                                  *)
LEMMA NoMailsOfAnother ==
  ASSUME NEW b \in GivenMailboxes(UsedSites)
  PROVE  b.times \in BOOLEAN /\ (b.wrong => "mails" \notin b.answers)
<1>1. PICK site \in UsedSites, owner \in Mailboxes :
        \E named \in Linked(site, owner), wf \in BOOLEAN : b \in Given(site, owner, wf, named)
  BY DEF GivenMailboxes
<1>7. PICK named \in Linked(site, owner), wf \in BOOLEAN : b \in Given(site, owner, wf, named)
  BY <1>1
<1> DEFINE s == listMessages[site]
           ok == normalizeMailboxAccessInput(site, wf, named)
           answers == IF ~ok THEN {"fatal"} ELSE UNION {Answer(s, owner, r) : r \in Requests}
<1>2. IsService(s) BY Services, SitesAssumption
<1>3. b \in Shapes(site, owner, answers) BY <1>7 DEF Given
<1>4. /\ b.times \in s.times /\ b.answers = answers
      /\ b.wrong = (owner = "other" /\ (LinkNames[site] = "must" \/ s.names))
  BY <1>3 DEF Shapes
<1>5. CASE ~ok BY <1>2, <1>4, <1>5 DEF IsService
<1>6. CASE ok
  <2>1. b.wrong => owner = "other" /\ s.names
    BY <1>4, <1>6 DEF normalizeMailboxAccessInput, Linked
  <2>2. ASSUME b.wrong, NEW r \in Requests PROVE "mails" \notin Answer(s, owner, r)
    <3>1. ~requireMatchingEmail(s, owner) BY <2>1, <2>2 DEF requireMatchingEmail
    <3>2. "mails" \notin s.refused BY <1>2 DEF IsService
    <3>3. \A x : fetchPathMailboxHop(s.tunnel, r.direct, r.proxy) # "mails"
      BY DEF fetchPathMailboxHop, throwPathMailboxRequestFailure
    <3>4. \A n, x : requestPathMailbox(n, x) # "mails" BY DEF requestPathMailbox
    <3>5. \A x : requestCloudMailboxJson(x) # "mails" /\ StrictStatus(x) # "mails"
      BY DEF requestCloudMailboxJson, StrictStatus
    <3> HIDE DEF s
    <3> QED BY <3>1, <3>2, <3>3, <3>4, <3>5 DEF Answer
  <2> QED BY <1>2, <1>4, <1>6, <2>2 DEF IsService
<1> QED BY <1>5, <1>6

----------------------------------------------------------------------------
(* A candidate is a new message of the listing without the codes handed    *)
(* out before (CandidatesOf).                                              *)
LEMMA Candidates ==
  ASSUME NEW list, NEW b, NEW since, NEW i \in DOMAIN CandidatesOf(list, b, since)
  PROVE  /\ i \in DOMAIN list /\ isNewMessage(list[i], b, since)
         /\ CandidatesOf(list, b, since)[i] = [list[i] EXCEPT !.codes = @ \ b.otpCodes]
  BY DEF CandidatesOf

(* The codes and mails that are chosen are those of candidates             *)
(* (extractUniqueOtp).                                                     *)
LEMMA Chosen ==
  ASSUME NEW list, NEW b, NEW since, NEW nf, DOMAIN list \subseteq Nat
  PROVE  LET cs == CandidatesOf(list, b, since)
             chosen == extractUniqueOtp(list, b, since, nf)
         IN /\ \E places \in SUBSET DOMAIN cs :
                 /\ chosen.code = UNION {cs[i].codes : i \in places}
                 /\ chosen.mails = UNION {cs[i].mails : i \in places}
            /\ \A c \in chosen.ordered : \E i \in DOMAIN cs :
                 c.code = cs[i].codes /\ c.mails = cs[i].mails
<1> DEFINE cs == CandidatesOf(list, b, since)
           chosen == extractUniqueOtp(list, b, since, nf)
<1>1. DOMAIN cs \subseteq Nat BY Candidates
<1>2. Latest(cs) \subseteq DOMAIN cs BY DEF Latest
<1>3. CASE \E places \in SUBSET DOMAIN cs : chosen = Found(cs, places)
  BY <1>3 DEF Found, Nothing, CodesOf
<1>4. CASE chosen = Nothing BY <1>4 DEF Nothing
<1>5. CASE chosen = Ordered(First(cs)) /\ DOMAIN cs # {}
  <2>1. \E i \in DOMAIN cs : First(cs) = cs[i] BY <1>1, <1>5, Least DEF First
  <2>2. chosen.code = {} /\ chosen.mails = {} BY <1>5 DEF Ordered, Nothing
  <2>3. \A c \in chosen.ordered : c.code = First(cs).codes /\ c.mails = First(cs).mails
    BY <1>5 DEF Ordered, Nothing
  <2> QED BY <2>1, <2>2, <2>3
<1>6. DOMAIN cs = {} => Cardinality(CodesOf(cs, DOMAIN cs)) <= 1
  <2>1. DOMAIN cs = {} => CodesOf(cs, DOMAIN cs) = {} BY DEF CodesOf
  <2> QED BY <2>1, FS_EmptySet
<1>7. \/ chosen = Found(cs, DOMAIN cs) \/ chosen = Found(cs, Latest(cs)) \/ chosen = Nothing
      \/ chosen = Ordered(First(cs)) /\ DOMAIN cs # {}
  <2> HIDE DEF cs
  <2> QED BY <1>6 DEF extractUniqueOtp, cs
<1> QED BY <1>2, <1>3, <1>4, <1>5, <1>7

----------------------------------------------------------------------------
(* Each message of a listing shows mails of the mailbox: one of them,      *)
(* unless the page is read as one message, and the last of them when the   *)
(* service shows a single one.                                             *)
ShowsOne(m, k) ==
  /\ m.mails = {k} /\ (box.single => k = Len(mails))
  /\ box.times => m.at = mails[k].at
  /\ TellsApart => m.print = PrintOf(k)
Shows(m) ==
  /\ m = [id |-> m.id, print |-> m.print, codes |-> m.codes, at |-> m.at, mails |-> m.mails]
  /\ m.codes \subseteq UNION Contents /\ m.mails \subseteq DOMAIN mails /\ m.mails \subseteq Nat
  /\ box.ids # "whole" => \E k \in DOMAIN mails : ShowsOne(m, k)

(* The mails of the mailbox. *)
LEMMA MailFacts ==
  ASSUME Types
  PROVE  /\ Len(mails) \in Nat /\ DOMAIN mails = 1 .. Len(mails) /\ (mails = <<>> <=> Len(mails) = 0)
         /\ \A k \in DOMAIN mails : k \in Nat /\ mails[k].codes \in Contents /\ mails[k].at \in Times
<1>1. mails \in Seq(Mails) BY DEF Types
<1>2. Len(mails) \in Nat /\ DOMAIN mails = 1 .. Len(mails) /\ (mails = <<>> <=> Len(mails) = 0)
  BY <1>1, EmptySeq, LenProperties
<1>3. \A k \in DOMAIN mails : k \in Nat /\ mails[k] \in Mails BY <1>1, <1>2, ElementOfSeq
<1> QED BY <1>2, <1>3 DEF Mails

(* A message of its own for a mail. *)
LEMMA OneShows ==
  ASSUME Types, NEW k \in DOMAIN mails, box.single => k = Len(mails), NEW i, NEW check
  PROVE  LET m == Message(box, i, check, {k}, <<mails[k]>>)
         IN Shows(m) /\ (TellsApart => m.print = PrintOf(k))
<1> DEFINE m == Message(box, i, check, {k}, <<mails[k]>>)
           texts == <<mails[k]>>
<1>1. k \in Nat /\ mails[k].codes \in Contents BY MailFacts
<1>2. DOMAIN texts = {1} /\ texts[1] = mails[k] OBVIOUS
<1>3. UNION {texts[j].codes : j \in DOMAIN texts} = mails[k].codes BY <1>2
<1>4. /\ m = [id |-> m.id, print |-> m.print, codes |-> m.codes, at |-> m.at, mails |-> m.mails]
      /\ m.mails = {k} /\ m.codes = UNION {texts[j].codes : j \in DOMAIN texts}
      /\ box.times => m.at = texts[1].at
  BY DEF Message
<1>5. TellsApart => m.print = PrintOf(k) BY DEF Message, PrintOf, TellsApart
<1> HIDE DEF m, texts
<1>6. ShowsOne(m, k) BY <1>2, <1>4, <1>5 DEF ShowsOne
<1>7. m.codes \subseteq UNION Contents BY <1>1, <1>3, <1>4
<1> QED BY <1>1, <1>4, <1>5, <1>6, <1>7 DEF Shows, m

(* One message for all. *)
LEMMA WholeShows ==
  ASSUME Types, box.ids = "whole", NEW from \in SUBSET DOMAIN mails, NEW texts,
         \A j \in DOMAIN texts : \E k \in DOMAIN mails : texts[j] = mails[k], NEW check
  PROVE  Shows(Message(box, 1, check, from, texts))
<1> DEFINE m == Message(box, 1, check, from, texts)
<1>1. /\ m = [id |-> m.id, print |-> m.print, codes |-> m.codes, at |-> m.at, mails |-> m.mails]
      /\ m.mails = from /\ m.codes = UNION {texts[j].codes : j \in DOMAIN texts}
  BY DEF Message
<1>2. \A j \in DOMAIN texts : texts[j].codes \in Contents BY MailFacts
<1>3. from \subseteq Nat BY MailFacts
<1> HIDE DEF m
<1>4. m.codes \subseteq UNION Contents BY <1>1, <1>2
<1> QED BY <1>1, <1>3, <1>4 DEF Shows, m

(* What a listing holds (Listing), and that it leaves out no mail that can *)
(* be told apart.                                                          *)
LEMMA Shown ==
  ASSUME Types, NEW check
  PROVE  /\ DOMAIN Listing(check) \subseteq Nat
         /\ \A i \in DOMAIN Listing(check) : Shows(Listing(check)[i])
         /\ Listing(check) # <<>> => 1 \in DOMAIN Listing(check)
         /\ TellsApart => \A k \in DOMAIN mails : (box.single => k = Len(mails)) =>
              \E i \in DOMAIN Listing(check) : Listing(check)[i].print = PrintOf(k)
<1> DEFINE n == Len(mails)
           shown == IF box.single /\ mails # <<>> THEN <<n>>
                    ELSE [i \in 1 .. n |-> IF box.oldestFirst THEN i ELSE n + 1 - i]
           texts == [i \in DOMAIN shown |-> mails[shown[i]]]
           from == {shown[i] : i \in DOMAIN shown}
           list == Listing(check)
<1>1. n \in Nat /\ DOMAIN mails = 1 .. n /\ (mails = <<>> <=> n = 0) BY MailFacts
<1>2. /\ DOMAIN shown \subseteq Nat
      /\ \A i \in DOMAIN shown : shown[i] \in 1 .. n /\ (box.single => shown[i] = n)
      /\ \A k \in 1 .. n : (box.single => k = n) => \E i \in DOMAIN shown : shown[i] = k
      /\ n # 0 => 1 \in DOMAIN shown
      /\ n = 0 => DOMAIN shown = {}
  <2>1. CASE box.single /\ mails # <<>>
    <3>1. shown = <<n>> /\ DOMAIN shown = {1} /\ shown[1] = n BY <2>1
    <3>2. n # 0 /\ 1 \in Nat /\ n \in 1 .. n BY <1>1, <2>1
    <3> HIDE DEF shown, n
    <3> QED BY <2>1, <3>1, <3>2
  <2>2. CASE ~(box.single /\ mails # <<>>)
    <3>1. /\ DOMAIN shown = 1 .. n
          /\ \A i \in 1 .. n : shown[i] = IF box.oldestFirst THEN i ELSE n + 1 - i
      BY <2>2
    <3>2. \A i \in 1 .. n : shown[i] \in 1 .. n BY <1>1, <3>1
    <3>3. \A k \in 1 .. n : \E i \in 1 .. n : shown[i] = k
      <4> TAKE k \in 1 .. n
      <4>1. k \in 1 .. n /\ n + 1 - k \in 1 .. n /\ n + 1 - (n + 1 - k) = k BY <1>1
      <4>2. CASE box.oldestFirst BY <3>1, <4>1, <4>2
      <4>3. CASE ~box.oldestFirst BY <3>1, <4>1, <4>3
      <4> QED BY <4>2, <4>3
    <3>4. box.single => n = 0 BY <1>1, <2>2
    <3>5. 1 .. n \subseteq Nat /\ (n # 0 => 1 \in 1 .. n) /\ (n = 0 => 1 .. n = {}) BY <1>1
    <3> HIDE DEF shown, n
    <3> QED BY <3>1, <3>2, <3>3, <3>4, <3>5
  <2> QED BY <2>1, <2>2
<1>3. list = IF box.ids = "whole" /\ mails # <<>> THEN <<Message(box, 1, check, from, texts)>>
             ELSE [i \in DOMAIN shown |-> Message(box, i, check, {shown[i]}, <<texts[i]>>)]
  BY DEF Listing
<1>4. DOMAIN texts = DOMAIN shown /\ \A i \in DOMAIN shown : texts[i] = mails[shown[i]]
  OBVIOUS
<1>5. from \subseteq 1 .. n
  <2> HIDE DEF shown, n
  <2> QED BY <1>2
<1> HIDE DEF shown, n, texts, list, from
<1>6. CASE box.ids = "whole" /\ mails # <<>>
  <2>1. Shows(Message(box, 1, check, from, texts)) BY <1>1, <1>2, <1>4, <1>5, <1>6, WholeShows
  <2>2. ~TellsApart BY <1>6 DEF TellsApart
  <2>3. DOMAIN list = {1} /\ list[1] = Message(box, 1, check, from, texts) /\ 1 \in Nat
    BY <1>3, <1>6
  <2> QED BY <2>1, <2>2, <2>3 DEF list
<1>7. CASE ~(box.ids = "whole" /\ mails # <<>>)
  <2>1. /\ DOMAIN list = DOMAIN shown
        /\ \A i \in DOMAIN shown : list[i] = Message(box, i, check, {shown[i]}, <<mails[shown[i]]>>)
    BY <1>3, <1>4, <1>7
  <2>2. \A i \in DOMAIN shown : Shows(list[i]) /\ (TellsApart => list[i].print = PrintOf(shown[i]))
    <3> TAKE i \in DOMAIN shown
    <3> DEFINE k == shown[i]
    <3>1. k \in DOMAIN mails /\ (box.single => k = Len(mails)) BY <1>1, <1>2 DEF n
    <3>2. list[i] = Message(box, i, check, {k}, <<mails[k]>>) BY <2>1
    <3> HIDE DEF k
    <3>3. Shows(list[i]) /\ (TellsApart => list[i].print = PrintOf(k)) BY <3>1, <3>2, OneShows
    <3> QED BY <3>3 DEF k
  <2>3. list # <<>> => 1 \in DOMAIN list
    <3>1. DOMAIN list = {} => list = <<>> BY <1>3, <1>7
    <3> QED BY <1>2, <2>1, <3>1
  <2> QED BY <1>1, <1>2, <2>1, <2>2, <2>3 DEF list, n
<1> QED BY <1>6, <1>7

(* What a poll sees: mails of the mailbox, and none of another's.          *)
LEMMA Seen ==
  ASSUME Types, NEW list \in Listings
  PROVE  /\ DOMAIN list \subseteq Nat
         /\ DOMAIN list # {} => ~box.wrong
         /\ \A i \in DOMAIN list : Shows(list[i])
         /\ list # <<>> => 1 \in DOMAIN list
<1>1. DOMAIN <<>> = {} /\ {} \subseteq Nat OBVIOUS
<1>2. list = <<>> \/ (~box.wrong /\ \E check : list = Listing(check))
  BY NoMailsOfAnother DEF Listings, Answered, Types
<1> QED BY <1>1, <1>2, Shown

(* What may be entered in the present round.                               *)
Enterable(code, from) ==
  /\ ~box.wrong /\ code \subseteq UNION Contents /\ code \cap baseline.otpCodes = {}
  /\ \A m \in from :
       /\ m \in DOMAIN mails /\ m \in Nat /\ Timed(m)
       /\ round = 1 /\ TellsApart => m > before

(* A candidate may be entered: it is new, so it is not older than the      *)
(* request and, told apart by its fingerprint, not one of the baseline.    *)
LEMMA CandidateEnterable ==
  ASSUME Types, OfTheTask, Known, stage = "polling", NEW list \in Listings,
         NEW i \in DOMAIN CandidatesOf(list, baseline, requestedAt)
  PROVE  LET c == CandidatesOf(list, baseline, requestedAt)[i] IN Enterable(c.codes, c.mails)
<1> DEFINE c == CandidatesOf(list, baseline, requestedAt)[i]
<1>1. /\ i \in DOMAIN list /\ isNewMessage(list[i], baseline, requestedAt)
      /\ c = [list[i] EXCEPT !.codes = @ \ baseline.otpCodes]
  BY Candidates
<1>2. ~box.wrong BY <1>1, Seen
<1>3. Shows(list[i]) BY <1>1, Seen
<1>4. c.codes = list[i].codes \ baseline.otpCodes /\ c.mails = list[i].mails
  BY <1>1, <1>3 DEF Shows
<1>5. /\ list[i].print \notin baseline.prints
      /\ \A t \in list[i].at : t + Skew >= requestedAt
  BY <1>1 DEF isNewMessage
<1> HIDE DEF c
<1>6. ASSUME NEW m \in c.mails, box.ids # "whole" PROVE m \in DOMAIN mails /\ ShowsOne(list[i], m)
  BY <1>3, <1>4, <1>6 DEF Shows, ShowsOne
<1>7. ASSUME NEW m \in c.mails PROVE Timed(m)
  <2> SUFFICES ASSUME box.times, box.ids # "whole", NEW t \in mails[m].at PROVE t + Skew >= Start
    BY DEF Timed
  <2>1. m \in DOMAIN mails /\ list[i].at = mails[m].at BY <1>6 DEF ShowsOne
  <2>2. t \in Int BY <2>1, MailFacts DEF Times
  <2>3. t + Skew >= requestedAt /\ requestedAt >= Start BY <1>5, <2>1 DEF OfTheTask
  <2>4. requestedAt \in Nat /\ Start \in Nat BY BoundsAssumption DEF Types
  <2> QED BY <2>2, <2>3, <2>4, SkewAssumption
<1>8. ASSUME NEW m \in c.mails, TellsApart PROVE m > before
  <2> SUFFICES ASSUME ~(m > before) PROVE FALSE
    OBVIOUS
  <2>1. Len(mails) \in Nat /\ before \in 0 .. Len(mails) BY MailFacts DEF Known
  <2>2. m \in DOMAIN mails /\ ShowsOne(list[i], m) BY <1>6, <1>8 DEF TellsApart
  <2>3. m \in 1 .. Len(mails) /\ (box.single => m = Len(mails)) /\ list[i].print = PrintOf(m)
    BY <1>8, <2>2, MailFacts DEF ShowsOne
  <2>4. m \in 1 .. before /\ (box.single => m = before) BY <2>1, <2>3
  <2>5. \A j \in 1 .. before : (box.single => j = before) => PrintOf(j) \in baseline.prints
    BY <1>8 DEF Known
  <2>6. PrintOf(m) \in baseline.prints BY <2>4, <2>5
  <2> QED BY <1>5, <2>3, <2>6
<1>9. c.codes \subseteq UNION Contents /\ c.codes \cap baseline.otpCodes = {}
      /\ c.mails \subseteq DOMAIN mails /\ c.mails \subseteq Nat
  BY <1>3, <1>4 DEF Shows
<1>10. Enterable(c.codes, c.mails) BY <1>2, <1>7, <1>8, <1>9 DEF Enterable
<1> QED BY <1>10 DEF c

(* The code that is chosen may be entered, and so may an ordered           *)
(* candidate.                                                              *)
LEMMA ChosenEnterable ==
  ASSUME Types, OfTheTask, Known, stage = "polling", NEW list \in Listings, NEW nf
  PROVE  LET chosen == extractUniqueOtp(list, baseline, requestedAt, nf)
         IN /\ chosen.code # {} => Enterable(chosen.code, chosen.mails)
            /\ \A c \in chosen.ordered : Enterable(c.code, c.mails)
<1> DEFINE cs == CandidatesOf(list, baseline, requestedAt)
           chosen == extractUniqueOtp(list, baseline, requestedAt, nf)
<1>1. \A i \in DOMAIN cs : Enterable(cs[i].codes, cs[i].mails) BY CandidateEnterable
<1>2. /\ \E places \in SUBSET DOMAIN cs :
           /\ chosen.code = UNION {cs[i].codes : i \in places}
           /\ chosen.mails = UNION {cs[i].mails : i \in places}
      /\ \A c \in chosen.ordered : \E i \in DOMAIN cs :
           c.code = cs[i].codes /\ c.mails = cs[i].mails
  BY Seen, Chosen
<1> HIDE DEF cs, chosen
<1>3. PICK places \in SUBSET DOMAIN cs :
        /\ chosen.code = UNION {cs[i].codes : i \in places}
        /\ chosen.mails = UNION {cs[i].mails : i \in places}
  BY <1>2
<1>4. ASSUME chosen.code # {} PROVE Enterable(chosen.code, chosen.mails)
  <2>1. PICK i \in places : TRUE BY <1>3, <1>4
  <2>2. ~box.wrong BY <1>1, <2>1 DEF Enterable
  <2>3. chosen.code \subseteq UNION Contents /\ chosen.code \cap baseline.otpCodes = {}
    BY <1>1, <1>3 DEF Enterable
  <2>4. \A m \in chosen.mails :
          /\ m \in DOMAIN mails /\ m \in Nat /\ Timed(m)
          /\ round = 1 /\ TellsApart => m > before
    BY <1>1, <1>3 DEF Enterable
  <2> QED BY <2>2, <2>3, <2>4 DEF Enterable
<1>5. ASSUME NEW c \in chosen.ordered PROVE Enterable(c.code, c.mails)
  <2>1. PICK i \in DOMAIN cs : c.code = cs[i].codes /\ c.mails = cs[i].mails BY <1>2
  <2> QED BY <1>1, <2>1
<1> QED BY <1>4, <1>5 DEF chosen

(* The head of an ordered listing that is taken after a resend may be      *)
(* entered: it was not handed out before and, when it has a time, was sent *)
(* after the resend.                                                       *)
LEMMA AcceptedEnterable ==
  ASSUME Types, OfTheTask, NEW list \in Listings, NEW c \in AcceptedAfterResend(list)
  PROVE  Enterable(c.code, c.mails)
<1> DEFINE head == <<list[1]>>
           chosen == extractUniqueOtp(head, NoBaseline, 0, box.newestFirst)
           cs == CandidatesOf(head, NoBaseline, 0)
<1>1. /\ c \in NewestAfterResend(list) /\ c.code \cap baseline.otpCodes = {}
      /\ Timely(c) \/ Repeated(c)
  BY DEF AcceptedAfterResend, Unused
<1>2. /\ round # 1 /\ list # <<>>
      /\ c = [identity |-> Identity(list[1]), code |-> chosen.code,
              mails |-> list[1].mails, at |-> list[1].at]
  BY <1>1 DEF NewestAfterResend, extractNewestOrderedOtp
<1>3. ~box.wrong /\ Shows(list[1]) BY <1>2, Seen
<1>4. c.code = chosen.code /\ c.mails = list[1].mails /\ c.at = list[1].at BY <1>2
<1>5. list[1].codes \subseteq UNION Contents /\ c.mails \subseteq DOMAIN mails /\ c.mails \subseteq Nat
  BY <1>3, <1>4 DEF Shows
<1>6. chosen.code \subseteq UNION Contents
  <2>1. DOMAIN head = {1} /\ head[1] = list[1] /\ DOMAIN head \subseteq Nat OBVIOUS
  <2> HIDE DEF head
  <2>2. \E places \in SUBSET DOMAIN cs : chosen.code = UNION {cs[i].codes : i \in places}
    BY <2>1, Chosen
  <2>3. \A i \in DOMAIN cs : i \in DOMAIN head /\ cs[i] = [head[i] EXCEPT !.codes = @ \ NoBaseline.otpCodes]
    BY Candidates
  <2>4. list[1] = [id |-> list[1].id, print |-> list[1].print, codes |-> list[1].codes,
                   at |-> list[1].at, mails |-> list[1].mails]
    BY <1>3 DEF Shows
  <2>5. \A i \in DOMAIN cs : cs[i].codes \subseteq list[1].codes BY <2>1, <2>3, <2>4
  <2> HIDE DEF cs, chosen
  <2> QED BY <1>5, <2>2, <2>5
<1>7. ASSUME NEW m \in c.mails PROVE Timed(m)
  <2> SUFFICES ASSUME box.times, box.ids # "whole", NEW t \in mails[m].at PROVE t + Skew >= Start
    BY DEF Timed
  <2>1. m \in DOMAIN mails /\ c.at = mails[m].at BY <1>3, <1>4 DEF Shows, ShowsOne
  <2>2. mails[m].at \in Times /\ c.at # {} BY <2>1, MailFacts
  <2>3. PICK u \in c.at, w \in resentAt : u >= w BY <1>1, <2>2 DEF Timely, Repeated
  <2>4. t = u /\ t \in Int BY <2>1, <2>2, <2>3 DEF Times
  <2>5. w >= Start /\ w \in Nat /\ Start \in Nat BY <2>3, BoundsAssumption DEF OfTheTask, Types
  <2> QED BY <2>3, <2>4, <2>5, SkewAssumption
<1> HIDE DEF chosen
<1> QED BY <1>1, <1>2, <1>3, <1>4, <1>5, <1>6, <1>7 DEF Enterable

----------------------------------------------------------------------------
(* The first mailbox has at most one mail, and nothing has been entered. *)
LEMMA Initially == Init => IInv
<1> SUFFICES ASSUME Init PROVE IInv
  OBVIOUS
<1>1. Start \in Nat /\ Lag \in Nat BY BoundsAssumption
<1>2. entered = <<>> /\ DOMAIN entered = {} /\ before = 0 /\ now = Start /\ requestedAt = Start /\ resentAt = {}
  BY DEF Init
<1>3. \A k \in DOMAIN mails : mails[k] \in Mails /\ (box.times => mails[k].at # {})
  <2>1. PICK n \in 0 .. 1 :
          mails \in [1 .. n -> [codes : Contents, at : Stamps((Start - Lag) .. Start)]]
    BY DEF Init
  <2>2. ASSUME NEW k \in DOMAIN mails
        PROVE  mails[k].codes \in Contents /\ mails[k].at \in Stamps((Start - Lag) .. Start)
               /\ mails[k] = [codes |-> mails[k].codes, at |-> mails[k].at]
    BY <2>1
  <2>3. \A at \in Stamps((Start - Lag) .. Start) : at \in Times /\ (box.times => at # {})
    BY <1>1 DEF Stamps, Times
  <2> QED BY <2>2, <2>3 DEF Mails
<1>4. mails \in Seq(Mails) /\ Len(mails) \in Nat
  <2>1. PICK n \in 0 .. 1 :
          mails \in [1 .. n -> [codes : Contents, at : Stamps((Start - Lag) .. Start)]]
    BY DEF Init
  <2>2. mails \in [1 .. n -> Mails] BY <1>3, <2>1
  <2> QED BY <2>2, LenProperties
<1>5. Types
  <2>1. round = 1 /\ 1 \in Nat /\ baseline = NoBaseline /\ box \in GivenMailboxes(UsedSites) BY DEF Init
  <2>2. IsBaseline(baseline) BY <2>1 DEF IsBaseline, NoBaseline, createMailBaseline
  <2>3. entered \in Seq(Entries) BY <1>2, EmptySeq
  <2> QED BY <1>1, <1>2, <1>4, <2>1, <2>2, <2>3 DEF Types
<1>6. OfTheTask BY <1>1, <1>2, <1>3 DEF OfTheTask
<1>7. Known
  <2>1. stage = "baseline" BY DEF Init
  <2> QED BY <1>2, <1>4, <2>1 DEF Known
<1>8. Used /\ Origins /\ Distinct /\ Strict /\ Right
  BY <1>2 DEF Used, Origins, Distinct, NoCodeTwice, Strict, BaselineStaysOut, FirstRoundIsStrict, Right
<1> QED BY <1>5, <1>6, <1>7, <1>8 DEF IInv

(* A step that leaves the mailbox and what was entered alone.              *)
Quiet ==
  /\ UNCHANGED <<box, mails, entered, baseline, before>>
  /\ stage' \in {"baseline", "pausing"} <=> stage \in {"baseline", "pausing"}
  /\ stage' = "ended" <=> stage = "ended"
  /\ round' \in Nat /\ now' \in Nat /\ now' >= now
  /\ requestedAt' \in {requestedAt, now} /\ resentAt' \subseteq resentAt \cup {now}
LEMMA QuietKeeps == IInv /\ Quiet => IInv'
<1> SUFFICES ASSUME IInv, Quiet PROVE IInv'
  OBVIOUS
<1>1. /\ box' = box /\ mails' = mails /\ entered' = entered /\ baseline' = baseline /\ before' = before
      /\ round' \in Nat /\ now' \in Nat /\ now' >= now
      /\ requestedAt' \in {requestedAt, now} /\ resentAt' \subseteq resentAt \cup {now}
  BY DEF Quiet
<1>2. Types' BY <1>1 DEF IInv, Types, IsBaseline
<1>3. OfTheTask'
  <2>1. now \in Nat /\ Start \in Nat BY BoundsAssumption DEF IInv, Types
  <2> QED BY <1>1, <2>1 DEF IInv, OfTheTask
<1>4. Used' BY <1>1 DEF IInv, Used, Quiet
<1>5. Known' BY <1>1 DEF IInv, Known, Quiet, PrintOf, TellsApart
<1>6. Origins' BY <1>1 DEF IInv, Origins, Timed
<1>7. Distinct' /\ Right' BY <1>1 DEF IInv, Distinct, NoCodeTwice, Right
<1>8. Strict' BY <1>1 DEF IInv, Strict, BaselineStaysOut, FirstRoundIsStrict, TellsApart
<1> QED BY <1>2, <1>3, <1>4, <1>5, <1>6, <1>7, <1>8 DEF IInv

(* Time, the tries of the baseline, the requests of the page and the ends  *)
(* of rounds are such steps, and so is a step that changes nothing.        *)
LEMMA QuietSteps ==
  ASSUME Types,
         Tick \/ BaselineRetried \/ BaselineResumed \/ EmailSubmitted \/ RoundOver \/ Resent
           \/ PageMovedOn \/ NextAttempt \/ UNCHANGED vars
  PROVE  Quiet
<1>1. 1 \in Nat /\ round \in Nat /\ round + 1 \in Nat /\ now \in Nat /\ now + 1 \in Nat /\ now + 1 >= now
      /\ now >= now
  BY DEF Types
<1> USE DEF Quiet, mailboxVars, roundVars, requestVars
<1>2. CASE Tick BY <1>1, <1>2 DEF Tick
<1>3. CASE BaselineRetried BY <1>1, <1>3 DEF BaselineRetried
<1>4. CASE BaselineResumed BY <1>1, <1>4 DEF BaselineResumed
<1>5. CASE EmailSubmitted BY <1>1, <1>5 DEF EmailSubmitted, RoundBegins
<1>6. CASE RoundOver BY <1>1, <1>6 DEF RoundOver
<1>7. CASE Resent BY <1>1, <1>7 DEF Resent, RoundBegins
<1>8. CASE PageMovedOn BY <1>1, <1>8 DEF PageMovedOn
<1>9. CASE NextAttempt BY <1>1, <1>9 DEF NextAttempt
<1>10. CASE UNCHANGED vars BY <1>1, <1>10 DEF vars
<1> QED BY <1>2, <1>3, <1>4, <1>5, <1>6, <1>7, <1>8, <1>9, <1>10

(* A mail arrives: the earlier ones keep their places.                     *)
LEMMA MailArrivesKeeps == IInv /\ MailArrives => IInv'
<1> SUFFICES ASSUME IInv, MailArrives PROVE IInv'
  OBVIOUS
<1>1. /\ box' = box /\ entered' = entered /\ baseline' = baseline /\ before' = before
      /\ round' = round /\ now' = now /\ requestedAt' = requestedAt /\ resentAt' = resentAt
      /\ stage' = stage
  BY DEF MailArrives, mailboxVars, roundVars, requestVars
<1>2. PICK codes \in Contents, at \in Stamps((now - Lag) .. now) :
        mails' = Append(mails, [codes |-> codes, at |-> at])
  BY DEF MailArrives
<1>3. now \in Nat /\ Lag \in Nat BY BoundsAssumption DEF IInv, Types
<1>4. [codes |-> codes, at |-> at] \in Mails /\ (box.times => at # {})
  <2>1. (now - Lag) .. now \subseteq Int BY <1>3
  <2>2. at \in Times /\ (box.times => at # {}) BY <2>1 DEF Stamps, Times
  <2> QED BY <2>2 DEF Mails
<1>5. /\ mails \in Seq(Mails) /\ mails' \in Seq(Mails)
      /\ Len(mails) \in Nat /\ Len(mails') = Len(mails) + 1
      /\ DOMAIN mails = 1 .. Len(mails) /\ DOMAIN mails' = 1 .. Len(mails')
      /\ \A k \in 1 .. Len(mails) : mails'[k] = mails[k]
      /\ mails'[Len(mails) + 1].at = at
  BY <1>2, <1>4, AppendProperties, LenProperties DEF IInv, Types
<1>6. Types' BY <1>1, <1>5 DEF IInv, Types, IsBaseline
<1>7. OfTheTask'
  <2>1. \A k \in DOMAIN mails' : k \in DOMAIN mails \/ k = Len(mails) + 1 BY <1>5
  <2>2. box.times => \A k \in DOMAIN mails' : mails'[k].at # {}
    BY <1>4, <1>5, <2>1 DEF IInv, OfTheTask
  <2> QED BY <1>1, <2>2 DEF IInv, OfTheTask
<1>8. Used' BY <1>1 DEF IInv, Used
<1>9. Known'
  <2>1. before \in 0 .. Len(mails) /\ before \in 0 .. Len(mails') BY <1>5 DEF IInv, Known
  <2>2. \A k \in 1 .. before : PrintOf(k)' = PrintOf(k) BY <1>1, <1>5, <2>1 DEF PrintOf
  <2> QED BY <1>1, <2>1, <2>2 DEF IInv, Known, TellsApart
<1>10. Origins'
  <2>1. \A m \in DOMAIN mails : m \in DOMAIN mails' /\ (Timed(m) => Timed(m)')
    BY <1>1, <1>5 DEF Timed
  <2> QED BY <1>1, <2>1 DEF IInv, Origins
<1>11. Distinct' /\ Right' BY <1>1 DEF IInv, Distinct, NoCodeTwice, Right
<1>12. Strict' BY <1>1 DEF IInv, Strict, BaselineStaysOut, FirstRoundIsStrict, TellsApart
<1> QED BY <1>6, <1>7, <1>8, <1>9, <1>10, <1>11, <1>12 DEF IInv

(* The baseline knows the mails it was taken from.                         *)
LEMMA BaselineTakenKeeps == IInv /\ BaselineTaken => IInv'
<1> SUFFICES ASSUME IInv, BaselineTaken PROVE IInv'
  OBVIOUS
<1>1. /\ box' = box /\ mails' = mails /\ entered' = entered /\ round' = round /\ now' = now
      /\ requestedAt' = requestedAt /\ resentAt' = resentAt /\ stage = "baseline" /\ stage' = "email"
  BY DEF BaselineTaken, mailboxVars, roundVars, requestVars
<1>2. PICK list \in Listings :
        baseline' = createMailBaseline(list) /\ before' = IF list = <<>> THEN 0 ELSE Len(mails)
  BY DEF BaselineTaken
<1>3. entered = <<>> /\ DOMAIN entered = {} BY <1>1 DEF IInv, Known
<1>4. Types' BY <1>1, <1>2 DEF IInv, Types, IsBaseline, createMailBaseline
<1>5. OfTheTask' BY <1>1 DEF IInv, OfTheTask
<1>6. Known'
  <2>1. Types BY DEF IInv
  <2>2. Len(mails) \in Nat BY <2>1, LenProperties DEF Types
  <2>3. before' \in 0 .. Len(mails) BY <1>2, <2>2
  <2>4. ASSUME TellsApart, NEW k \in 1 .. before', box.single => k = before'
        PROVE  PrintOf(k) \in baseline'.prints
    <3>1. list # <<>> /\ before' = Len(mails) BY <1>2, <2>4
    <3>2. PICK check : list = Listing(check) BY <3>1 DEF Listings
    <3>3. k \in DOMAIN mails /\ (box.single => k = Len(mails)) BY <2>1, <2>4, <3>1, MailFacts
    <3>4. \E i \in DOMAIN list : list[i].print = PrintOf(k) BY <2>1, <2>4, <3>2, <3>3, Shown
    <3> QED BY <1>2, <3>4 DEF createMailBaseline
  <2>5. \A k : PrintOf(k)' = PrintOf(k) BY <1>1 DEF PrintOf
  <2> QED BY <1>1, <2>3, <2>4, <2>5 DEF Known, TellsApart
<1>7. Used' /\ Origins' /\ Distinct' /\ Strict' /\ Right'
  BY <1>1, <1>3
  DEF Used, Origins, Distinct, NoCodeTwice, Strict, BaselineStaysOut, FirstRoundIsStrict, Right
<1> QED BY <1>4, <1>5, <1>6, <1>7 DEF IInv

(* The task ends and forgets; what was entered stays what it was.          *)
LEMMA EndKeeps == IInv /\ End => IInv'
<1> SUFFICES ASSUME IInv, End PROVE IInv'
  OBVIOUS
<1>1. /\ box' = box /\ mails' = mails /\ entered' = entered /\ before' = before /\ now' = now
      /\ round' = 1 /\ requestedAt' = Start /\ resentAt' = {} /\ stage' = "ended"
      /\ baseline' = NoBaseline
  BY DEF End, mailboxVars
<1>2. Start \in Nat /\ 1 \in Nat /\ Start >= Start BY BoundsAssumption
<1>3. IsBaseline(baseline)' BY <1>1 DEF IsBaseline, NoBaseline, createMailBaseline
<1>4. Types' BY <1>1, <1>2, <1>3 DEF IInv, Types
<1>5. OfTheTask' BY <1>1, <1>2 DEF IInv, OfTheTask
<1>6. Used' /\ Known' BY <1>1 DEF IInv, Used, Known
<1>7. Origins' BY <1>1 DEF IInv, Origins, Timed
<1>8. Distinct' /\ Right' BY <1>1 DEF IInv, Distinct, NoCodeTwice, Right
<1>9. Strict' BY <1>1 DEF IInv, Strict, BaselineStaysOut, FirstRoundIsStrict, TellsApart
<1> QED BY <1>4, <1>5, <1>6, <1>7, <1>8, <1>9 DEF IInv

(* A code is entered that may be.                                          *)
LEMMA CodeFoundKeeps ==
  ASSUME IInv, stage = "polling", NEW code, NEW from, Enterable(code, from), CodeFound(code, from),
         UNCHANGED <<mailboxVars, now, round, requestVars, before>>
  PROVE  IInv'
<1> DEFINE entry == [code |-> code, mails |-> from, round |-> round]
           n == Len(entered)
<1>1. /\ box' = box /\ mails' = mails /\ before' = before /\ now' = now /\ round' = round
      /\ requestedAt' = requestedAt /\ resentAt' = resentAt /\ stage' = "entered"
      /\ baseline' = [baseline EXCEPT !.otpCodes = @ \cup code] /\ entered' = Append(entered, entry)
  BY DEF CodeFound, mailboxVars, requestVars
<1>2. /\ IsBaseline(baseline') /\ baseline'.otpCodes = baseline.otpCodes \cup code
      /\ baseline'.prints = baseline.prints
  BY <1>1 DEF IInv, Types, IsBaseline
<1>3. /\ ~box.wrong /\ code \subseteq UNION Contents /\ code \cap baseline.otpCodes = {}
      /\ \A m \in from : /\ m \in DOMAIN mails /\ m \in Nat /\ Timed(m)
                         /\ round = 1 /\ TellsApart => m > before
  BY DEF Enterable
<1>4. entry \in Entries /\ entered \in Seq(Entries) BY <1>3 DEF IInv, Types, Entries
<1>5. /\ entered' \in Seq(Entries) /\ n \in Nat
      /\ DOMAIN entered = 1 .. n /\ DOMAIN entered' = 1 .. (n + 1)
      /\ \A i \in 1 .. n : entered'[i] = entered[i]
      /\ entered'[n + 1] = entry
  <2> HIDE DEF entry
  <2> QED BY <1>1, <1>4, AppendProperties, LenProperties
<1>6. /\ entered'[n + 1].code = code /\ entered'[n + 1].mails = from /\ entered'[n + 1].round = round
  BY <1>5
<1>7. \A i \in DOMAIN entered' : (i \in DOMAIN entered /\ entered'[i] = entered[i]) \/ i = n + 1
  BY <1>5
<1>8. \A i \in DOMAIN entered : entered[i].code \subseteq baseline.otpCodes
  BY DEF IInv, Used
<1> HIDE DEF entry, n
<1>9. Types' BY <1>1, <1>2, <1>5 DEF IInv, Types
<1>10. OfTheTask' BY <1>1 DEF IInv, OfTheTask
<1>11. Used' BY <1>2, <1>6, <1>7, <1>8 DEF Used
<1>12. Known'
  <2>1. \A k : PrintOf(k)' = PrintOf(k) BY <1>1 DEF PrintOf
  <2> QED BY <1>1, <1>2, <2>1 DEF IInv, Known, TellsApart
<1>13. Origins'
  <2>1. \A m : Timed(m)' = Timed(m) BY <1>1 DEF Timed
  <2> QED BY <1>1, <1>3, <1>6, <1>7, <2>1 DEF IInv, Origins
<1>14. Distinct'
  <2> SUFFICES ASSUME NEW i \in DOMAIN entered', NEW j \in DOMAIN entered', i < j
               PROVE  entered'[i].code \cap entered'[j].code = {}
    BY DEF Distinct, NoCodeTwice
  <2>1. i \in DOMAIN entered /\ entered'[i] = entered[i] BY <1>5, <1>7
  <2>2. CASE j \in DOMAIN entered /\ entered'[j] = entered[j]
    BY <2>1, <2>2 DEF IInv, Distinct, NoCodeTwice
  <2>3. CASE j = n + 1 BY <1>3, <1>6, <1>8, <2>1, <2>3
  <2> QED BY <1>7, <2>2, <2>3
<1>15. Strict'
  <2> SUFFICES ASSUME TellsApart, NEW i \in DOMAIN entered', entered'[i].round = 1,
                      NEW m \in entered'[i].mails
               PROVE  m > before
    BY <1>1 DEF Strict, BaselineStaysOut, FirstRoundIsStrict, TellsApart
  <2>1. CASE i \in DOMAIN entered /\ entered'[i] = entered[i]
    BY <2>1 DEF IInv, Strict, BaselineStaysOut, FirstRoundIsStrict, TellsApart
  <2>2. CASE i = n + 1 BY <1>3, <1>6, <2>2
  <2> QED BY <1>7, <2>1, <2>2
<1>16. Right' BY <1>1, <1>3 DEF Right
<1> QED BY <1>9, <1>10, <1>11, <1>12, <1>13, <1>14, <1>15, <1>16 DEF IInv

(* A poll enters what may be entered, or only remembers what it saw.       *)
LEMMA PollKeeps == IInv /\ Poll => IInv'
<1> SUFFICES ASSUME IInv, Poll PROVE IInv'
  OBVIOUS
<1>1. stage = "polling" /\ UNCHANGED <<mailboxVars, now, round, requestVars, before>> BY DEF Poll
<1>2. PICK list \in Listings : Polls(list) BY DEF Poll
<1>3. Types /\ OfTheTask /\ Known BY DEF IInv
<1> DEFINE chosen == extractUniqueOtp(list, baseline, requestedAt, box.newestFirst)
<1>4. /\ chosen.code # {} => Enterable(chosen.code, chosen.mails)
      /\ \A c \in chosen.ordered : Enterable(c.code, c.mails)
  BY <1>1, <1>3, ChosenEnterable
<1>5. \A c \in AcceptedAfterResend(list) : Enterable(c.code, c.mails) BY <1>3, AcceptedEnterable
<1>6. \/ chosen.code # {} /\ CodeFound(chosen.code, chosen.mails)
      \/ \E c \in chosen.ordered \cup AcceptedAfterResend(list) : CodeFound(c.code, c.mails)
      \/ UNCHANGED <<stage, baseline, entered>>
  <2> HIDE DEF chosen
  <2> QED BY <1>2 DEF Polls, chosen
<1> HIDE DEF chosen
<1>7. CASE chosen.code # {} /\ CodeFound(chosen.code, chosen.mails) BY <1>1, <1>4, <1>7, CodeFoundKeeps
<1>8. CASE \E c \in chosen.ordered \cup AcceptedAfterResend(list) : CodeFound(c.code, c.mails)
  BY <1>1, <1>4, <1>5, <1>8, CodeFoundKeeps
<1>9. CASE UNCHANGED <<stage, baseline, entered>>
  <2>1. Quiet
    <3>1. round \in Nat /\ now \in Nat /\ now >= now BY <1>3 DEF Types
    <3> QED BY <1>1, <1>9, <3>1 DEF Quiet, mailboxVars, requestVars
  <2> QED BY <2>1, QuietKeeps
<1> QED BY <1>6, <1>7, <1>8, <1>9

(* The invariant holds in every reachable state.                           *)
LEMMA InvHolds == Spec => []IInv
<1>1. IInv /\ [Next]_vars => IInv'
  <2> SUFFICES ASSUME IInv, [Next]_vars PROVE IInv'
    OBVIOUS
  <2>1. Types BY DEF IInv
  <2>2. CASE Tick \/ BaselineRetried \/ BaselineResumed \/ EmailSubmitted \/ RoundOver \/ Resent
               \/ PageMovedOn \/ NextAttempt \/ UNCHANGED vars
    BY <2>1, <2>2, QuietSteps, QuietKeeps
  <2>3. CASE MailArrives BY <2>3, MailArrivesKeeps
  <2>4. CASE BaselineTaken BY <2>4, BaselineTakenKeeps
  <2>5. CASE BaselineFails \/ PollFails \/ TaskLeaves
    BY <2>5, EndKeeps DEF BaselineFails, PollFails, TaskLeaves
  <2>6. CASE Poll BY <2>6, PollKeeps
  <2> QED BY <2>2, <2>3, <2>4, <2>5, <2>6 DEF Next
<1> QED BY Initially, <1>1, PTL DEF Spec

----------------------------------------------------------------------------
(* No code is handed out twice in a task, whatever its rounds, resends and *)
(* attempts (poller.ts).                                                   *)
THEOREM CodesDiffer == Spec => []NoCodeTwice
<1>1. IInv => NoCodeTwice BY DEF IInv, Distinct
<1> QED BY <1>1, InvHolds, PTL

(* The first round enters no code of a mail that stood in the mailbox      *)
(* before, for every mailbox whose mails are listed one by one with ids of *)
(* their own or none (establishBaseline, isNewMessage).                    *)
THEOREM BaselineHolds == Spec => []BaselineStaysOut
<1>1. IInv => BaselineStaysOut BY DEF IInv, Strict
<1> QED BY <1>1, InvHolds, PTL

(* No code comes from a mailbox that is known to be another's, and none    *)
(* from a mail sent before the task (requireMatchingEmail, isNewMessage).  *)
THEOREM CodesAreOwn == Spec => []CodesAreOfThisTask
<1>1. IInv => CodesAreOfThisTask BY DEF IInv, Right, Origins, Timed, CodesAreOfThisTask
<1> QED BY <1>1, InvHolds, PTL
=============================================================================
