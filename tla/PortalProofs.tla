---------------------------- MODULE PortalProofs ----------------------------
(***************************************************************************)
(* What keeps the pool in one piece, for every set of origins, callers,    *)
(* readers and operations and every number of launches, retries and reads: *)
(* what is saved and used agrees while calls do not overlap, and no Chrome *)
(* is left that nobody holds while no two openings are bound to launch.    *)
(***************************************************************************)
EXTENDS Portal, TLAPS

(* A call or a read in flight.                                             *)
Leaving == {"close", "close_waits", "leaving"}
Fields(x) ==
  x = [op |-> x.op, pc |-> x.pc, phase |-> x.phase, target |-> x.target,
       previous |-> x.previous, foreground |-> x.foreground, k |-> x.k,
       tries |-> x.tries, reads |-> x.reads]
IsCall(x) ==
  /\ Fields(x) /\ x.pc # "idle" /\ (x.op = "disconnect" <=> x.pc \in Leaving)
  /\ x.op \in Checks \union {"connect", "disconnect", "read"}
  /\ x.op = "connect" => x.target \in Origins /\ x.phase \in 1 .. 3
IsCaller(c, x) == x = NoCall \/ (IsCall(x) /\ (x.op = "read" <=> c \in Readers))
Typed ==
  /\ caller = [c \in Callers |-> caller[c]] /\ \A c \in Callers : IsCaller(c, caller[c])
  /\ chromes = [k \in Launches |-> chromes[k]]

(* While calls do not overlap there is one at a time, and the pool it      *)
(* works with is the saved one: since its configuration answered, when it  *)
(* connects, and from its start otherwise.                                 *)
AtItsPool(x) ==
  /\ x.op = "connect" /\ x.phase = 3 => origin = x.target
  /\ x.op \in Checks => origin # NoOrigin
OneAtOnce == \A c, d \in Calls : caller[c] # NoCall /\ caller[d] # NoCall => c = d
Saved == origin = setting /\ (connected => origin # NoOrigin)
Pool == OneAtOnce /\ Saved /\ \A c \in Calls : caller[c] # NoCall => AtItsPool(caller[c])

(* While no two are bound to launch, the one that is replaces nothing.     *)
Binding == {"held_closes", "launch"}
Chrome ==
  /\ ChromeIsHeld
  /\ \A c, d \in Callers : caller[c].pc \in Binding /\ caller[d].pc \in Binding => c = d
  /\ \A c \in Callers : At(c, "held_closes") => held = 0
  /\ \A c \in Callers :
       At(c, "launch") => held = 0 /\ opening = caller[c].k /\ opening \in Launches
  /\ opening # 0 => \E c \in Callers : At(c, "launch")
IInv == Typed /\ (~overlapped => Pool) /\ (~crowded => Chrome)

(* What a step of c leaves of the calls: its own may end, a read that ends *)
(* is taken off the list of its call, and one that begins is idle before.  *)
Keeps(x, y) == x # NoCall /\ y.op = x.op /\ y.target = x.target /\ y.phase = x.phase
Unbound(d) ==
  /\ caller'[d].pc \notin Binding /\ caller[d].pc \in {"reading", "idle"}
  /\ d \in Calls => Keeps(caller[d], caller'[d])
Effect(c) ==
  /\ caller' = [d \in Callers |-> caller'[d]] /\ \A d \in Callers : IsCaller(d, caller'[d])
  /\ \A d \in Callers \ {c} : caller'[d] = caller[d] \/ Unbound(d)

----------------------------------------------------------------------------
(* What is not idle is a call or a read. *)
LEMMA Active ==
  ASSUME NEW c \in Callers, Typed, ~At(c, "idle")
  PROVE  IsCall(caller[c]) /\ (caller[c].op = "read" <=> c \in Readers) /\ caller[c] # NoCall
BY DEF Typed, IsCaller, At, NoCall

(* A step that changes one call only, and leaves it one.                   *)
LEMMA Changes ==
  ASSUME NEW c \in Callers, Typed, ~At(c, "idle"), NEW y, caller' = [caller EXCEPT ![c] = y],
         Fields(y), y.op = caller[c].op, y.target = caller[c].target, y.pc # "idle",
         y.pc \in Leaving <=> caller[c].pc \in Leaving,
         y.op = "connect" => y.phase \in 1 .. 3
  PROVE  Effect(c) /\ caller'[c] = y /\ \A d \in Callers \ {c} : caller'[d] = caller[d]
<1>1. IsCall(caller[c]) /\ (caller[c].op = "read" <=> c \in Readers) BY Active
<1>2. IsCall(y) BY <1>1 DEF IsCall
<1>3. /\ caller' = [d \in Callers |-> caller'[d]] /\ caller'[c] = y
      /\ \A d \in Callers \ {c} : caller'[d] = caller[d]
  BY DEF Typed
<1>4. IsCaller(c, caller'[c]) BY <1>1, <1>2, <1>3 DEF IsCaller
<1>5. \A d \in Callers : IsCaller(d, caller'[d]) BY <1>3, <1>4 DEF Typed
<1> QED BY <1>3, <1>5 DEF Effect

(* Waiting changes the place of a call and its launch. *)
LEMMA Waits ==
  ASSUME NEW c \in Callers, Typed, ~At(c, "idle"), NEW p, NEW m, Wait(c, p, m), p # "idle",
         p \in Leaving <=> caller[c].pc \in Leaving
  PROVE  /\ Effect(c) /\ \A d \in Callers \ {c} : caller'[d] = caller[d]
         /\ caller'[c].pc = p /\ caller'[c].k = m /\ Keeps(caller[c], caller'[c])
<1> DEFINE x == caller[c]
           y == [x EXCEPT !.pc = p, !.k = m]
<1>1. IsCall(x) /\ x # NoCall BY Active
<1>2. Fields(x) BY <1>1 DEF IsCall
<1>3. caller' = [caller EXCEPT ![c] = y] BY DEF Wait
<1>4. /\ y.op = x.op /\ y.target = x.target /\ y.pc = p /\ y.phase = x.phase /\ y.k = m
      /\ y.previous = x.previous /\ y.foreground = x.foreground /\ y.tries = x.tries
      /\ y.reads = x.reads
  BY <1>2 DEF Fields
<1>5. Fields(y)
  <2>1. y = [x EXCEPT !.pc = p, !.k = m] OBVIOUS
  <2> HIDE DEF x, y
  <2> QED BY <1>2, <1>4, <2>1 DEF Fields
<1> HIDE DEF y
<1>6. y.op = "connect" => y.phase \in 1 .. 3 BY <1>1, <1>4 DEF IsCall
<1>7. Effect(c) /\ caller'[c] = y /\ \A d \in Callers \ {c} : caller'[d] = caller[d]
  BY <1>3, <1>4, <1>5, <1>6, Changes
<1> QED BY <1>1, <1>4, <1>7 DEF Keeps

(* A call that ends leaves the others as they were. *)
LEMMA Ends ==
  ASSUME NEW c \in Callers, Typed, End(c)
  PROVE  /\ Effect(c) /\ \A d \in Callers \ {c} : caller'[d] = caller[d]
         /\ caller'[c] = NoCall
<1>1. /\ caller' = [d \in Callers |-> caller'[d]] /\ caller'[c] = NoCall
      /\ \A d \in Callers \ {c} : caller'[d] = caller[d]
  BY DEF Typed, End
<1> QED BY <1>1 DEF Effect, IsCaller, Typed

(* A read that ends is taken off the list of its call, or ends it. *)
LEMMA ReadEnds ==
  ASSUME NEW c \in Callers, Typed, ~At(c, "idle"), NEW failed, SecretEnds(c, failed)
  PROVE  Effect(c) /\ caller'[c] = NoCall /\ c \in Readers /\ UNCHANGED portalVars
<1>1. c \in Readers BY Active DEF SecretEnds
<1>2. /\ caller' = [d \in Callers |-> caller'[d]] /\ caller'[c] = NoCall
      /\ UNCHANGED portalVars
  BY DEF SecretEnds
<1>3. ASSUME NEW d \in Callers \ {c}
      PROVE  IsCaller(d, caller'[d]) /\ (caller'[d] = caller[d] \/ Unbound(d))
  <2> DEFINE x == caller[d]
  <2>1. \/ caller'[d] = x
        \/ x.pc = "reading" /\ caller'[d] = [x EXCEPT !.pc = "unread", !.reads = {}]
        \/ x.pc = "reading" /\ caller'[d] = [x EXCEPT !.reads = @ \ {c}]
    BY <1>3 DEF SecretEnds, At
  <2>2. CASE caller'[d] = x BY <2>2 DEF Typed
  <2>3. ASSUME x.pc = "reading", NEW p \in {"reading", "unread"}, NEW reads,
               NEW y, y = [x EXCEPT !.pc = p, !.reads = reads], caller'[d] = y
        PROVE  IsCaller(d, caller'[d]) /\ Unbound(d)
    <3>1. IsCall(x) /\ (x.op = "read" <=> d \in Readers) /\ x # NoCall
      BY <2>3, Active DEF At
    <3>2. Fields(x) BY <3>1 DEF IsCall
    <3> HIDE DEF x
    <3>3. /\ y.op = x.op /\ y.target = x.target /\ y.pc = p /\ y.phase = x.phase /\ y.k = x.k
          /\ y.previous = x.previous /\ y.foreground = x.foreground /\ y.tries = x.tries
          /\ y.reads = reads
      BY <2>3, <3>2 DEF Fields
    <3>4. Fields(y) BY <2>3, <3>2, <3>3 DEF Fields
    <3>5. IsCall(y) BY <2>3, <3>1, <3>3, <3>4 DEF IsCall, Leaving
    <3>6. IsCaller(d, y) BY <3>1, <3>3, <3>5 DEF IsCaller
    <3>7. Keeps(x, y) BY <3>1, <3>3 DEF Keeps
    <3>8. y.pc \notin Binding /\ x.pc \in {"reading", "idle"} BY <2>3, <3>3 DEF Binding
    <3> QED BY <2>3, <3>6, <3>7, <3>8 DEF Unbound, x
  <2>4. CASE x.pc = "reading" /\ caller'[d] = [x EXCEPT !.pc = "unread", !.reads = {}]
    BY <2>3, <2>4
  <2>5. CASE x.pc = "reading" /\ caller'[d] = [x EXCEPT !.reads = @ \ {c}]
    <3>1. [x EXCEPT !.reads = @ \ {c}] = [x EXCEPT !.pc = "reading", !.reads = x.reads \ {c}]
      BY <2>5, Active DEF At, IsCall, Fields
    <3> QED BY <2>3, <2>5, <3>1
  <2> QED BY <2>1, <2>2, <2>4, <2>5
<1>4. \A d \in Callers : IsCaller(d, caller'[d]) BY <1>2, <1>3 DEF IsCaller
<1> QED BY <1>1, <1>2, <1>3, <1>4 DEF Effect

(* Reads that begin were idle. *)
LEMMA ReadsBegin ==
  ASSUME NEW c \in Callers, Typed, ~At(c, "idle"), SecretsAsked(c)
  PROVE  /\ Effect(c) /\ caller'[c].pc = "reading" /\ Keeps(caller[c], caller'[c])
         /\ UNCHANGED browserVars /\ UNCHANGED portalVars
<1> DEFINE x == caller[c]
<1>1. PICK asked \in SUBSET IdleReaders :
        caller' = [d \in Callers |->
          IF d \in asked THEN Call("read", caller[c].target, FALSE, 1)
          ELSE IF d = c THEN [caller[c] EXCEPT !.pc = "reading", !.reads = asked]
          ELSE caller[d]]
  BY DEF SecretsAsked
<1>2. x.pc = "secrets" /\ c \notin asked /\ UNCHANGED browserVars /\ UNCHANGED portalVars
  BY <1>1 DEF SecretsAsked, At, IdleReaders
<1>3. IsCall(x) /\ (x.op = "read" <=> c \in Readers) /\ x # NoCall BY Active
<1>4. Fields(x) BY <1>3 DEF IsCall
<1> DEFINE y == [x EXCEPT !.pc = "reading", !.reads = asked]
<1>5. caller'[c] = y BY <1>1, <1>2
<1>6. /\ y.op = x.op /\ y.target = x.target /\ y.pc = "reading" /\ y.phase = x.phase
      /\ y.k = x.k /\ y.previous = x.previous /\ y.foreground = x.foreground
      /\ y.tries = x.tries /\ y.reads = asked
  BY <1>4 DEF Fields
<1>7. Fields(y)
  <2>1. y = [x EXCEPT !.pc = "reading", !.reads = asked] OBVIOUS
  <2> HIDE DEF x, y
  <2> QED BY <1>4, <1>6, <2>1 DEF Fields
<1> HIDE DEF x, y
<1>8. IsCall(y) BY <1>2, <1>3, <1>6, <1>7 DEF IsCall, Leaving
<1>9. IsCaller(c, caller'[c]) BY <1>3, <1>5, <1>6, <1>8 DEF IsCaller
<1>10. ASSUME NEW d \in Callers \ {c}
       PROVE  IsCaller(d, caller'[d]) /\ (caller'[d] = caller[d] \/ Unbound(d))
  <2>1. CASE d \notin asked BY <1>1, <1>10, <2>1 DEF Typed
  <2>2. CASE d \in asked
    <3>1. d \in Readers /\ caller[d].pc = "idle" BY <1>1, <2>2 DEF IdleReaders, At
    <3> DEFINE z == Call("read", caller[c].target, FALSE, 1)
    <3>2. caller'[d] = z BY <1>1, <1>10, <2>2
    <3>3. z.op = "read" /\ z.pc = "open" /\ Fields(z) BY DEF Call, Fields
    <3> HIDE DEF z
    <3>4. IsCall(z) BY <3>3 DEF IsCall, Leaving
    <3>5. IsCaller(d, z) BY <3>1, <3>3, <3>4 DEF IsCaller
    <3> QED BY <3>1, <3>2, <3>3, <3>5 DEF Unbound, Binding, Calls
  <2> QED BY <2>1, <2>2
<1>11. \A d \in Callers : IsCaller(d, caller'[d]) BY <1>9, <1>10
<1>12. caller' = [d \in Callers |-> caller'[d]] BY <1>1
<1>13. Effect(c) BY <1>10, <1>11, <1>12 DEF Effect
<1> QED BY <1>2, <1>3, <1>5, <1>6, <1>13 DEF Keeps, x

(* The phases of the operations that have them. *)
LEMMA PhasesOf ==
  ASSUME NEW c \in Callers, IsCall(caller[c]), caller[c].op = "connect"
  PROVE  /\ Phase(c) = "open" <=> caller[c].phase = 1
         /\ Phase(c) = "config" <=> caller[c].phase = 2
         /\ Last(c) <=> caller[c].phase = 3
<1>1. Phases(caller[c].op) = <<"open", "config", "me">> BY DEF Phases
<1>2. Len(Phases(caller[c].op)) = 3 BY <1>1
<1>3. caller[c].phase = 1 \/ caller[c].phase = 2 \/ caller[c].phase = 3 BY DEF IsCall
<1>4. CASE caller[c].phase = 1 BY <1>1, <1>2, <1>4 DEF Phase, Last
<1>5. CASE caller[c].phase = 2 BY <1>1, <1>2, <1>5 DEF Phase, Last
<1>6. CASE caller[c].phase = 3 BY <1>1, <1>2, <1>6 DEF Phase, Last
<1> QED BY <1>3, <1>4, <1>5, <1>6

(* The page is open for the first request. *)
LEMMA OpensItsPage ==
  ASSUME NEW c \in Callers, Typed, ~At(c, "idle"), OpenDone(c)
  PROVE  /\ Effect(c) /\ \A d \in Callers \ {c} : caller'[d] = caller[d]
         /\ caller'[c].pc = "open" /\ caller[c].pc \notin Binding
         /\ caller'[c].op = caller[c].op /\ caller'[c].target = caller[c].target
         /\ caller'[c].op = "connect" => caller'[c].phase = 2
         /\ UNCHANGED browserVars /\ UNCHANGED portalVars
<1> DEFINE x == caller[c]
           y == [x EXCEPT !.pc = "open", !.phase = @ + 1, !.foreground = FALSE]
<1>1. /\ caller' = [caller EXCEPT ![c] = y] /\ UNCHANGED browserVars /\ UNCHANGED portalVars
      /\ x.pc \in {"open", "opened"} /\ Phase(c) = "open"
  BY DEF OpenDone, PageOpen, At
<1>2. IsCall(x) BY Active
<1>3. Fields(x) BY <1>2 DEF IsCall
<1>4. /\ y.op = x.op /\ y.target = x.target /\ y.pc = "open" /\ y.phase = x.phase + 1
      /\ y.k = x.k /\ y.previous = x.previous /\ y.foreground = FALSE /\ y.tries = x.tries
      /\ y.reads = x.reads
  BY <1>3 DEF Fields
<1>5. Fields(y)
  <2>1. y = [x EXCEPT !.pc = "open", !.phase = @ + 1, !.foreground = FALSE] OBVIOUS
  <2> HIDE DEF x, y
  <2> QED BY <1>3, <1>4, <2>1 DEF Fields
<1>6. x.op = "connect" => x.phase = 1 BY <1>1, <1>2, PhasesOf
<1> HIDE DEF y
<1>7. y.op = "connect" => y.phase = 2 /\ y.phase \in 1 .. 3 BY <1>4, <1>6
<1>8. y.pc # "idle" /\ (y.pc \in Leaving <=> x.pc \in Leaving) BY <1>1, <1>4 DEF Leaving
<1>9. Effect(c) /\ caller'[c] = y /\ \A d \in Callers \ {c} : caller'[d] = caller[d]
  BY <1>1, <1>4, <1>5, <1>7, <1>8, Changes
<1> QED BY <1>1, <1>4, <1>7, <1>9 DEF Binding

(* A limited request is repeated. *)
LEMMA Repeats ==
  ASSUME NEW c \in Callers, Typed, At(c, "sent"), Repeat(c)
  PROVE  /\ Effect(c) /\ caller'[c].pc = "open" /\ Keeps(caller[c], caller'[c])
         /\ UNCHANGED portalVars
<1> DEFINE x == caller[c]
           y == [x EXCEPT !.pc = "open", !.tries = @ + 1, !.k = 0]
<1>1. caller' = [caller EXCEPT ![c] = y] /\ UNCHANGED portalVars /\ x.pc = "sent"
  BY DEF Repeat, At
<1>2. IsCall(x) /\ x # NoCall BY <1>1, Active DEF At
<1>3. Fields(x) BY <1>2 DEF IsCall
<1>4. /\ y.op = x.op /\ y.target = x.target /\ y.pc = "open" /\ y.phase = x.phase
      /\ y.k = 0 /\ y.previous = x.previous /\ y.foreground = x.foreground
      /\ y.tries = x.tries + 1 /\ y.reads = x.reads
  BY <1>3 DEF Fields
<1>5. Fields(y)
  <2>1. y = [x EXCEPT !.pc = "open", !.tries = @ + 1, !.k = 0] OBVIOUS
  <2> HIDE DEF x, y
  <2> QED BY <1>3, <1>4, <2>1 DEF Fields
<1> HIDE DEF y
<1>6. y.op = "connect" => y.phase \in 1 .. 3 BY <1>2, <1>4 DEF IsCall
<1>7. y.pc # "idle" /\ (y.pc \in Leaving <=> x.pc \in Leaving) BY <1>1, <1>4 DEF Leaving
<1>8. ~At(c, "idle") BY <1>1 DEF At
<1>9. Effect(c) /\ caller'[c] = y BY <1>1, <1>4, <1>5, <1>6, <1>7, <1>8, Changes
<1> QED BY <1>1, <1>2, <1>4, <1>9 DEF Keeps

(* A call goes on to its next phase. *)
LEMMA GoesToNext ==
  ASSUME NEW c \in Callers, Typed, ~At(c, "idle"), caller[c].pc \notin Leaving, ~Last(c),
         NextPhase(c)
  PROVE  /\ Effect(c) /\ caller'[c].pc \in {"open", "secrets"}
         /\ \A d \in Callers \ {c} : caller'[d] = caller[d]
         /\ caller'[c].op = caller[c].op /\ caller'[c].target = caller[c].target
         /\ caller'[c].phase = caller[c].phase + 1
<1> DEFINE x == caller[c]
           p == IF Phases(x.op)[x.phase + 1] = "secrets" THEN "secrets" ELSE "open"
           y == [x EXCEPT !.pc = p, !.phase = @ + 1, !.tries = 0, !.k = 0]
<1>1. caller' = [caller EXCEPT ![c] = y] BY DEF NextPhase
<1>2. IsCall(x) BY Active
<1>3. Fields(x) BY <1>2 DEF IsCall
<1>4. p \in {"open", "secrets"} OBVIOUS
<1> HIDE DEF p
<1>5. /\ y.op = x.op /\ y.target = x.target /\ y.pc = p /\ y.phase = x.phase + 1
      /\ y.k = 0 /\ y.previous = x.previous /\ y.foreground = x.foreground
      /\ y.tries = 0 /\ y.reads = x.reads
  BY <1>3 DEF Fields
<1>6. Fields(y)
  <2>1. y = [x EXCEPT !.pc = p, !.phase = @ + 1, !.tries = 0, !.k = 0] OBVIOUS
  <2> HIDE DEF x, y
  <2> QED BY <1>3, <1>5, <2>1 DEF Fields
<1>7. x.op = "connect" => x.phase = 1 \/ x.phase = 2 BY <1>2, PhasesOf DEF IsCall
<1> HIDE DEF y
<1>8. y.op = "connect" => y.phase \in 1 .. 3 BY <1>5, <1>7
<1>9. y.pc # "idle" /\ (y.pc \in Leaving <=> x.pc \in Leaving) BY <1>4, <1>5 DEF Leaving
<1>10. Effect(c) /\ caller'[c] = y /\ \A d \in Callers \ {c} : caller'[d] = caller[d]
  BY <1>1, <1>5, <1>6, <1>8, <1>9, Changes
<1> QED BY <1>4, <1>5, <1>10

----------------------------------------------------------------------------
(* Nothing of the browser changes, and nobody comes to be bound to launch. *)
LEMMA ChromeRests ==
  ASSUME Chrome, UNCHANGED browserVars,
         \A d \in Callers :
           \/ caller'[d] = caller[d]
           \/ caller[d].pc # "launch" /\ caller'[d].pc \notin Binding
  PROVE  Chrome'
<1>1. held' = held /\ opening' = opening /\ chromes' = chromes BY DEF browserVars
<1>2. ChromeIsHeld' BY <1>1 DEF Chrome, ChromeIsHeld
<1>3. \A d \in Callers : caller'[d].pc \in Binding => caller'[d] = caller[d]
  BY DEF Binding
<1>4. \A d, e \in Callers : caller'[d].pc \in Binding /\ caller'[e].pc \in Binding => d = e
  BY <1>3 DEF Chrome
<1>5. \A d \in Callers : caller'[d].pc = "held_closes" => held = 0
  BY <1>3 DEF Chrome, At, Binding
<1>6. \A d \in Callers :
        caller'[d].pc = "launch" => held = 0 /\ opening = caller'[d].k /\ opening \in Launches
  BY <1>3 DEF Chrome, At, Binding
<1>7. opening # 0 => \E d \in Callers : caller'[d].pc = "launch"
  BY DEF Chrome, At
<1> QED BY <1>1, <1>2, <1>4, <1>5, <1>6, <1>7 DEF Chrome, At

(* Closing the Chrome that is held leaves no other up. *)
LEMMA ChromeCloses ==
  ASSUME NEW c \in Callers, Typed, Chrome, caller[c].pc # "launch", NEW p, CloseNow(c, p),
         caller'[c].pc = p, p # "launch", \A d \in Callers \ {c} : caller'[d] = caller[d],
         p \in Binding => \A d \in Callers \ {c} : caller'[d].pc \notin Binding
  PROVE  Chrome'
<1>1. /\ held' = 0 /\ opening' = opening
      /\ chromes' = IF held = 0 THEN chromes ELSE [chromes EXCEPT ![held] = "closing"]
  BY DEF CloseNow, Forget
<1>3. chromes = [k \in Launches |-> chromes[k]] BY DEF Typed
<1>5. \A k \in Launches : chromes'[k] # "up"
  BY <1>1, <1>3 DEF Chrome, ChromeIsHeld, Launches
<1>6. \A d, e \in Callers : caller'[d].pc \in Binding /\ caller'[e].pc \in Binding => d = e
  BY DEF Chrome
<1>7. \A d \in Callers :
        caller'[d].pc = "launch" => opening = caller'[d].k /\ opening \in Launches
  BY DEF Chrome, At
<1>8. opening # 0 => \E d \in Callers : caller'[d].pc = "launch"
  BY DEF Chrome, At
<1>9. ChromeIsHeld' BY <1>5 DEF ChromeIsHeld
<1> QED BY <1>1, <1>6, <1>7, <1>8, <1>9 DEF Chrome, At

(* A launch begins where nothing is held and nobody else is bound to one. *)
LEMMA ChromeStarts ==
  ASSUME NEW c \in Callers, Typed, Chrome, held = 0, NEW k \in Launches,
         opening' = k, chromes' = [chromes EXCEPT ![k] = "launching"], held' = held,
         caller'[c].pc = "launch", caller'[c].k = k,
         \A d \in Callers \ {c} : caller'[d] = caller[d],
         \A d \in Callers \ {c} : caller'[d].pc \notin Binding
  PROVE  Chrome'
<1>1. chromes = [i \in Launches |-> chromes[i]] BY DEF Typed
<1>3. ChromeIsHeld' BY <1>1 DEF Chrome, ChromeIsHeld
<1>4. \A d, e \in Callers : caller'[d].pc \in Binding /\ caller'[e].pc \in Binding => d = e
  OBVIOUS
<1>5. \A d \in Callers : caller'[d].pc \in {"launch", "held_closes"} => d = c BY DEF Binding
<1>6. k # 0 BY DEF Launches
<1>7. \A d \in Callers : caller'[d].pc = "held_closes" => held' = 0 OBVIOUS
<1>8. \A d \in Callers :
        caller'[d].pc = "launch" => held' = 0 /\ opening' = caller'[d].k /\ opening' \in Launches
  BY <1>5
<1>9. \E d \in Callers : caller'[d].pc = "launch" OBVIOUS
<1> QED BY <1>3, <1>4, <1>7, <1>8, <1>9 DEF Chrome, At

(* A launch that ends leaves nobody bound to one: either its Chrome is the *)
(* only one that is up, or none is.                                        *)
LEMMA ChromeSettles ==
  ASSUME NEW c \in Callers, Typed, Chrome, At(c, "launch"), opening' = 0,
         \/ held' = caller[c].k /\ chromes' = [chromes EXCEPT ![caller[c].k] = "up"]
         \/ held' = 0 /\ chromes' = [chromes EXCEPT ![caller[c].k] = "gone"],
         caller'[c].pc \notin Binding,
         \A d \in Callers \ {c} : caller'[d] = caller[d] \/ caller'[d].pc \notin Binding
  PROVE  Chrome'
<1>1. held = 0 /\ caller[c].k \in Launches BY DEF Chrome
<1>2. chromes = [k \in Launches |-> chromes[k]] BY DEF Typed
<1>3. \A k \in Launches : chromes[k] # "up" BY <1>1 DEF Chrome, ChromeIsHeld, Launches
<1>5. \A k \in Launches : chromes'[k] = "up" => held' = k BY <1>1, <1>2, <1>3
<1>7. \A d \in Callers \ {c} : caller[d].pc \notin Binding BY DEF Chrome, At, Binding
<1>8. \A d \in Callers : caller'[d].pc \notin Binding BY <1>7
<1>9. \A d \in Callers : caller'[d].pc # "launch" /\ caller'[d].pc # "held_closes"
  BY <1>8 DEF Binding
<1>10. ChromeIsHeld' BY <1>5 DEF ChromeIsHeld
<1> QED BY <1>8, <1>9, <1>10 DEF Chrome, At

----------------------------------------------------------------------------
(* A step of open waits, closes what is held, starts a launch or ends one. *)
Pausing == {"held_waits", "shown_waits", "open_waits", "opened"}
LEMMA StepsOfOpen ==
  ASSUME NEW c \in Callers, BrowserStep(c)
  PROVE  /\ caller[c].pc \notin Leaving
         /\ \/ /\ \E p \in Pausing, m \in {0, opening} : Wait(c, p, m)
               /\ UNCHANGED browserVars /\ caller[c].pc # "launch"
            \/ /\ \E p \in {"held_closes", "shown_closes"} : CloseNow(c, p)
               /\ caller[c].pc # "launch"
            \/ Launch(c) /\ (Chrome => held = 0) /\ caller[c].pc # "launch"
            \/ LaunchSucceeds(c)
<1> DEFINE Pauses == /\ \E p \in Pausing, m \in {0, opening} : Wait(c, p, m)
                     /\ UNCHANGED browserVars
           Shuts == \E p \in {"held_closes", "shown_closes"} : CloseNow(c, p)
           Starts == Launch(c) /\ (Chrome => held = 0)
<1>1. Close(c, "held_waits", "held_closes") => Pauses \/ Shuts BY DEF Close, Pausing
<1>2. Close(c, "shown_waits", "shown_closes") => Pauses \/ Shuts BY DEF Close, Pausing
<1>3. CloseThenLaunch(c) => Pauses \/ Shuts \/ Starts BY <1>1 DEF CloseThenLaunch
<1>4. WaitOrLaunch(c) => Pauses \/ Shuts \/ Starts BY <1>3 DEF WaitOrLaunch, Pausing
<1> HIDE DEF Pauses, Shuts, Starts
<1>5. CASE OpenReplaces(c)
  <2>1. caller[c].pc = "open" /\ (Pauses \/ Shuts) BY <1>2, <1>5 DEF OpenReplaces, At
  <2> QED BY <2>1 DEF Pauses, Shuts, Leaving
<1>6. CASE OpenNew(c)
  <2>1. caller[c].pc = "open" /\ (Pauses \/ Shuts \/ Starts) BY <1>4, <1>6 DEF OpenNew, At
  <2> QED BY <2>1 DEF Pauses, Shuts, Starts, Leaving
<1>7. CASE ShownCloses(c)
  <2>1. /\ caller[c].pc \in {"shown_waits", "shown_closes"}
        /\ CloseNow(c, "shown_closes") \/ WaitOrLaunch(c)
    BY <1>7 DEF ShownCloses, At
  <2>2. Pauses \/ Shuts \/ Starts BY <1>4, <2>1 DEF Shuts
  <2> QED BY <2>1, <2>2 DEF Pauses, Shuts, Starts, Leaving
<1>8. CASE OpenedMeanwhile(c)
  <2>1. /\ caller[c].pc = "open_waits"
        /\ \/ Go(c, "opened") /\ UNCHANGED browserVars
           \/ Close(c, "held_waits", "held_closes")
           \/ CloseThenLaunch(c)
    BY <1>8 DEF OpenedMeanwhile, At
  <2>2. Go(c, "opened") => Wait(c, "opened", 0) BY DEF Go, Wait
  <2>3. Pauses \/ Shuts \/ Starts BY <1>1, <1>3, <2>1, <2>2 DEF Pauses, Pausing
  <2> QED BY <2>1, <2>3 DEF Pauses, Shuts, Starts, Leaving
<1>9. CASE HeldCloses(c)
  <2>1. /\ caller[c].pc \in {"held_waits", "held_closes"}
        /\ CloseNow(c, "held_closes") \/ (caller[c].pc = "held_closes" /\ Launch(c))
    BY <1>9 DEF HeldCloses, At
  <2>2. Chrome /\ caller[c].pc = "held_closes" => held = 0 BY DEF Chrome, At
  <2>3. Shuts \/ Starts BY <2>1, <2>2 DEF Shuts, Starts
  <2> QED BY <2>1, <2>3 DEF Shuts, Starts, Leaving
<1>10. CASE LaunchSucceeds(c) BY <1>10 DEF LaunchSucceeds, At, Leaving
<1> QED BY <1>5, <1>6, <1>7, <1>8, <1>9, <1>10 DEF BrowserStep

(* What a step of open leaves of the calls. *)
LEMMA OpenKeepsCalls ==
  ASSUME NEW c \in Callers, Typed, ~At(c, "idle"), BrowserStep(c)
  PROVE  /\ Effect(c) /\ \A d \in Callers \ {c} : caller'[d] = caller[d]
         /\ Keeps(caller[c], caller'[c]) /\ chromes' = [k \in Launches |-> chromes'[k]]
<1> DEFINE Kept == /\ Effect(c) /\ \A d \in Callers \ {c} : caller'[d] = caller[d]
                   /\ Keeps(caller[c], caller'[c])
<1>1. caller[c].pc \notin Leaving BY StepsOfOpen
<1>2. ASSUME NEW p, NEW m, Wait(c, p, m), p # "idle", p \notin Leaving PROVE Kept
  BY <1>1, <1>2, Waits
<1> HIDE DEF Kept
<1>3. chromes = [k \in Launches |-> chromes[k]] BY DEF Typed
<1>4. CASE (\E p \in Pausing, m \in {0, opening} : Wait(c, p, m)) /\ UNCHANGED browserVars
  <2>1. Kept BY <1>2, <1>4 DEF Pausing, Leaving
  <2> QED BY <1>3, <1>4, <2>1 DEF Kept, browserVars
<1>5. CASE \E p \in {"held_closes", "shown_closes"} : CloseNow(c, p)
  <2>1. /\ \E p \in {"held_closes", "shown_closes"} : Wait(c, p, held)
        /\ chromes' = IF held = 0 THEN chromes ELSE [chromes EXCEPT ![held] = "closing"]
    BY <1>5 DEF CloseNow
  <2>2. Kept BY <1>2, <2>1 DEF Leaving
  <2> QED BY <1>3, <2>1, <2>2 DEF Kept
<1>6. CASE Launch(c)
  <2>1. PICK k \in Launches :
          chromes' = [chromes EXCEPT ![k] = "launching"] /\ Wait(c, "launch", k)
    BY <1>6 DEF Launch, Unused
  <2>2. Kept BY <1>2, <2>1 DEF Leaving
  <2> QED BY <1>3, <2>1, <2>2 DEF Kept
<1>7. CASE LaunchSucceeds(c)
  <2>1. Wait(c, "opened", 0) /\ chromes' = [chromes EXCEPT ![caller[c].k] = "up"]
    BY <1>7 DEF LaunchSucceeds, Go, Wait
  <2>2. Kept BY <1>2, <2>1 DEF Leaving
  <2> QED BY <1>3, <2>1, <2>2 DEF Kept
<1> QED BY <1>4, <1>5, <1>6, <1>7, StepsOfOpen

(* What it leaves of the Chrome. *)
LEMMA OpenKeepsChrome ==
  ASSUME NEW c \in Callers, Typed, Chrome, ~Crowd', ~At(c, "idle"), BrowserStep(c)
  PROVE  Chrome'
<1>1. /\ caller' = [d \in Callers |-> caller'[d]]
      /\ \A d \in Callers \ {c} : caller'[d] = caller[d]
  BY OpenKeepsCalls DEF Effect
<1>2. \A d, e \in Callers : caller'[d].pc \in Binding /\ caller'[e].pc \in Binding => d = e
  BY DEF Crowd, BoundToLaunch, Binding
<1>3. caller[c].pc \notin Leaving BY StepsOfOpen
<1>4. ASSUME NEW p, NEW m, Wait(c, p, m), p # "idle", p \notin Leaving
      PROVE  caller'[c].pc = p /\ caller'[c].k = m
  BY <1>3, <1>4, Waits
<1>5. CASE /\ \E p \in Pausing, m \in {0, opening} : Wait(c, p, m)
           /\ UNCHANGED browserVars /\ caller[c].pc # "launch"
  <2>1. caller'[c].pc \notin Binding BY <1>4, <1>5 DEF Pausing, Leaving, Binding
  <2> QED BY <1>1, <1>5, <2>1, ChromeRests
<1>6. CASE (\E p \in {"held_closes", "shown_closes"} : CloseNow(c, p)) /\ caller[c].pc # "launch"
  <2>1. PICK p \in {"held_closes", "shown_closes"} : CloseNow(c, p) BY <1>6
  <2>2. caller'[c].pc = p /\ p # "launch" BY <1>4, <2>1 DEF CloseNow, Leaving
  <2>3. p \in Binding => \A d \in Callers \ {c} : caller'[d].pc \notin Binding BY <1>2, <2>2
  <2> QED BY <1>1, <1>6, <2>1, <2>2, <2>3, ChromeCloses
<1>7. CASE Launch(c) /\ held = 0
  <2>1. PICK k \in Launches :
          /\ opening' = k /\ chromes' = [chromes EXCEPT ![k] = "launching"]
          /\ Wait(c, "launch", k) /\ held' = held
    BY <1>7 DEF Launch, Unused
  <2>2. caller'[c].pc = "launch" /\ caller'[c].k = k BY <1>4, <2>1 DEF Leaving
  <2>3. \A d \in Callers \ {c} : caller'[d].pc \notin Binding BY <1>2, <2>2 DEF Binding
  <2> QED BY <1>1, <1>7, <2>1, <2>2, <2>3, ChromeStarts
<1>8. CASE LaunchSucceeds(c)
  <2>1. /\ At(c, "launch") /\ opening' = 0 /\ held' = caller[c].k /\ Wait(c, "opened", 0)
        /\ chromes' = [chromes EXCEPT ![caller[c].k] = "up"]
    BY <1>8 DEF LaunchSucceeds, Go, Wait
  <2>2. caller'[c].pc \notin Binding BY <1>4, <2>1 DEF Leaving, Binding
  <2> QED BY <1>1, <2>1, <2>2, ChromeSettles
<1> QED BY <1>5, <1>6, <1>7, <1>8, StepsOfOpen

----------------------------------------------------------------------------
(* A call that ends or goes on with the pool saved leaves it in one piece. *)
LEMMA PoolOfCall ==
  ASSUME NEW c \in Calls, Pool, caller[c] # NoCall, Effect(c), Saved',
         caller'[c] = NoCall \/ AtItsPool(caller[c])'
  PROVE  Pool'
<1>1. \A d \in Calls \ {c} : caller[d] = NoCall BY DEF Pool, OneAtOnce
<1>2. \A d \in Calls \ {c} : caller'[d] = NoCall
  BY <1>1 DEF Effect, Unbound, Keeps, Calls
<1> QED BY <1>2 DEF Pool, OneAtOnce, AtItsPool

(* A step that does not concern the pool's origin and connection. *)
LEMMA PoolRests ==
  ASSUME NEW c \in Callers, Pool, Effect(c), UNCHANGED portalVars,
         caller'[c] = NoCall \/ Keeps(caller[c], caller'[c])
  PROVE  Pool'
<1>1. ASSUME NEW d \in Calls
      PROVE  \/ caller'[d] = NoCall \/ caller'[d] = caller[d] \/ Keeps(caller[d], caller'[d])
  BY DEF Effect, Unbound, Calls
<1>2. setting' = setting /\ origin' = origin /\ connected' = connected BY DEF portalVars
<1>3. Saved' BY <1>2 DEF Pool, Saved
<1>4. \A d \in Calls : caller'[d] # NoCall => caller[d] # NoCall BY <1>1 DEF Keeps
<1>5. OneAtOnce' BY <1>4 DEF Pool, OneAtOnce
<1>6. ASSUME NEW d \in Calls, caller'[d] # NoCall PROVE AtItsPool(caller[d])'
  <2>1. AtItsPool(caller[d]) BY <1>4, <1>6 DEF Pool
  <2>2. /\ caller'[d].op = caller[d].op /\ caller'[d].target = caller[d].target
        /\ caller'[d].phase = caller[d].phase
    BY <1>1, <1>6 DEF Keeps
  <2> QED BY <1>2, <2>1, <2>2 DEF AtItsPool
<1> QED BY <1>3, <1>5, <1>6 DEF Pool

(* What every step has to leave as it was. *)
InPiece == Typed' /\ (Pool => Pool') /\ (Chrome /\ ~Crowd' => Chrome')

(* A step away from a place where no launch is awaited leaves the Chrome   *)
(* alone.                                                                  *)
LEMMA InPieceAtRest ==
  ASSUME NEW c \in Callers, Typed, Effect(c), UNCHANGED browserVars, Pool => Pool',
         caller[c].pc # "launch", caller'[c].pc \notin Binding
  PROVE  InPiece
<1>1. Typed' BY DEF Typed, Effect, browserVars
<1>2. \A d \in Callers :
        caller'[d] = caller[d] \/ (caller[d].pc # "launch" /\ caller'[d].pc \notin Binding)
  BY DEF Effect, Unbound
<1>3. Chrome => Chrome' BY <1>2, ChromeRests
<1> QED BY <1>1, <1>3 DEF InPiece

(* A call that fails keeps what is saved and what is used the same. *)
LEMMA FailureKeepsPool ==
  ASSUME NEW c \in Callers, Typed, ~At(c, "idle"), NEW why, Fails(c, why)
  PROVE  Effect(c) /\ caller'[c] = NoCall /\ (Pool => Pool')
<1>1. (caller[c].op = "read" <=> c \in Readers) /\ caller[c] # NoCall BY Active
<1>2. CASE ConnectFails(c, why) \/ ReadFails(c)
  <2>1. End(c) BY <1>2 DEF ConnectFails, ReadFails
  <2>2. Effect(c) /\ caller'[c] = NoCall BY <2>1, Ends
  <2>3. Saved => Saved' BY <1>2 DEF ConnectFails, ReadFails, Saved
  <2>4. c \in Calls BY <1>1, <1>2 DEF ConnectFails, ReadFails, Calls
  <2> QED BY <1>1, <2>2, <2>3, <2>4, PoolOfCall DEF Pool
<1>3. CASE SecretEnds(c, TRUE) BY <1>3, ReadEnds, PoolRests
<1> QED BY <1>2, <1>3 DEF Fails

(* A request that has been answered as it should be. *)
LEMMA PhaseKeepsPool ==
  ASSUME NEW c \in Callers, Typed, ~At(c, "idle"), caller[c].pc \notin Leaving, PhaseDone(c)
  PROVE  Effect(c) /\ caller'[c].pc \notin Binding /\ (Pool => Pool')
<1> DEFINE x == caller[c]
<1>1. IsCall(x) /\ (x.op = "read" <=> c \in Readers) /\ x # NoCall BY Active
<1>2. /\ x.op \in Checks \union {"connect"}
      /\ x.op = "connect" => x.target \in Origins /\ x.phase \in 1 .. 3
      /\ x.op = "connect" => (Phase(c) = "config" <=> x.phase = 2) /\ (Last(c) <=> x.phase = 3)
      /\ c \in Calls
  BY <1>1, PhasesOf DEF PhaseDone, IsCall, Calls
<1>3. /\ IF x.op = "connect" /\ Phase(c) = "config"
           THEN setting' = x.target /\ origin' = x.target
           ELSE setting' = setting /\ origin' = origin
      /\ IF Last(c)
           THEN End(c) /\ connected' = (connected \/ x.op \notin {"inspect", "audit"})
           ELSE NextPhase(c) /\ connected' = connected
  BY DEF PhaseDone
<1>4. Pool => /\ x.op = "connect" /\ x.phase = 3 => origin = x.target
              /\ x.op \in Checks => origin # NoOrigin
              /\ origin = setting /\ (connected => origin # NoOrigin)
  BY <1>1, <1>2 DEF Pool, AtItsPool, Saved
<1>5. NoOrigin \notin Origins BY OriginsAssumption
<1>6. "connect" \notin Checks BY DEF Checks
<1> HIDE DEF x
<1>7. Pool => /\ origin' = setting'
              /\ x.op \in Checks => origin' # NoOrigin
              /\ x.op = "connect" /\ x.phase \in {2, 3} => origin' = x.target
              /\ connected => origin' # NoOrigin
  BY <1>2, <1>3, <1>4, <1>5, <1>6
<1>8. CASE Last(c)
  <2>1. Effect(c) /\ caller'[c] = NoCall BY <1>3, <1>8, Ends
  <2>2. Pool => origin' # NoOrigin BY <1>2, <1>5, <1>7, <1>8
  <2>3. Pool => Saved' BY <1>7, <2>2 DEF Saved
  <2>4. Pool => Pool' BY <1>1, <1>2, <2>1, <2>3, PoolOfCall DEF x
  <2> QED BY <2>1, <2>4 DEF NoCall, Binding
<1>9. CASE ~Last(c)
  <2>1. /\ Effect(c) /\ caller'[c].pc \in {"open", "secrets"}
        /\ caller'[c].op = x.op /\ caller'[c].target = x.target
        /\ caller'[c].phase = x.phase + 1
    BY <1>3, <1>9, GoesToNext DEF x
  <2>2. Pool => Saved' BY <1>3, <1>7, <1>9 DEF Saved
  <2>3. x.op = "connect" /\ x.phase + 1 = 3 => x.phase = 2 BY <1>2
  <2>4. Pool => AtItsPool(caller[c])' BY <1>7, <2>1, <2>3 DEF AtItsPool
  <2>5. Pool => Pool' BY <1>1, <1>2, <2>1, <2>2, <2>4, PoolOfCall DEF x
  <2> QED BY <2>1, <2>5 DEF Binding
<1> QED BY <1>8, <1>9

----------------------------------------------------------------------------
(* A step of open. *)
LEMMA BrowserStepInPiece ==
  ASSUME NEW c \in Callers, Typed, ~At(c, "idle"), BrowserStep(c), UNCHANGED portalVars
  PROVE  InPiece
<1>1. /\ Effect(c) /\ Keeps(caller[c], caller'[c])
      /\ chromes' = [k \in Launches |-> chromes'[k]]
  BY OpenKeepsCalls
<1>2. Typed' BY <1>1 DEF Typed, Effect
<1>3. Pool => Pool' BY <1>1, PoolRests
<1>4. Chrome /\ ~Crowd' => Chrome' BY OpenKeepsChrome
<1> QED BY <1>2, <1>3, <1>4 DEF InPiece

(* The page is open for the first request. *)
LEMMA OpenDoneInPiece ==
  ASSUME NEW c \in Callers, Typed, ~At(c, "idle"), OpenDone(c) PROVE InPiece
<1>1. /\ Effect(c) /\ caller'[c].pc = "open" /\ caller[c].pc \notin Binding
      /\ caller'[c].op = caller[c].op /\ caller'[c].target = caller[c].target
      /\ caller'[c].op = "connect" => caller'[c].phase = 2
      /\ UNCHANGED browserVars /\ UNCHANGED portalVars
  BY OpensItsPage
<1>2. caller[c] # NoCall /\ (caller[c].op = "read" <=> c \in Readers) BY Active
<1>3. ASSUME Pool PROVE Pool'
  <2>1. Saved' BY <1>1, <1>3 DEF Pool, Saved, portalVars
  <2>2. CASE c \in Calls
    <3>1. AtItsPool(caller[c]) BY <1>2, <1>3, <2>2 DEF Pool
    <3>2. AtItsPool(caller[c])' BY <1>1, <3>1 DEF AtItsPool, portalVars
    <3> QED BY <1>1, <1>2, <1>3, <2>1, <2>2, <3>2, PoolOfCall
  <2>3. CASE c \in Readers
    <3>1. Phase(c) = "open" /\ caller[c].op = "read" BY <1>2, <2>3 DEF OpenDone
    <3>2. \A d \in Calls : caller'[d] = caller[d] BY <2>3, OpensItsPage DEF Calls
    <3> QED BY <1>1, <1>3, <3>2, <2>1 DEF Pool, OneAtOnce, AtItsPool, portalVars
  <2> QED BY <2>2, <2>3 DEF Calls
<1> QED BY <1>1, <1>3, InPieceAtRest DEF Binding

(* A request goes out. *)
LEMMA RequestSentInPiece ==
  ASSUME NEW c \in Callers, Typed, ~At(c, "idle"), RequestSent(c) PROVE InPiece
<1>1. /\ caller[c].pc \in {"open", "opened"} /\ Wait(c, "sent", held)
      /\ UNCHANGED browserVars /\ UNCHANGED portalVars
  BY DEF RequestSent, Send, PageOpen, At
<1>2. Effect(c) /\ caller'[c].pc = "sent" /\ Keeps(caller[c], caller'[c])
  BY <1>1, Waits DEF Leaving
<1> QED BY <1>1, <1>2, PoolRests, InPieceAtRest DEF Binding

(* A request that is answered, or that finds no page to go out from. *)
LEMMA RequestInPiece ==
  ASSUME NEW c \in Callers, Typed, ~At(c, "idle"), RequestAnswered(c) \/ RequestNotSent(c)
  PROVE  InPiece
<1>1. UNCHANGED browserVars /\ caller[c].pc \in {"open", "opened", "sent"}
  BY DEF RequestAnswered, RequestNotSent, PageOpen, At
<1>2. caller[c].pc \notin Leaving /\ caller[c].pc # "launch" BY <1>1 DEF Leaving
<1>3. ASSUME Effect(c), caller'[c].pc \notin Binding, Pool => Pool' PROVE InPiece
  BY <1>1, <1>2, <1>3, InPieceAtRest
<1>4. ASSUME NEW why, Fails(c, why) PROVE InPiece
  BY <1>3, <1>4, FailureKeepsPool DEF NoCall, Binding
<1>5. CASE PhaseDone(c) BY <1>2, <1>3, <1>5, PhaseKeepsPool
<1>6. CASE SecretEnds(c, FALSE)
  <2>1. Effect(c) /\ caller'[c] = NoCall /\ UNCHANGED portalVars BY <1>6, ReadEnds
  <2>2. Pool => Pool' BY <2>1, PoolRests
  <2> QED BY <1>3, <2>1, <2>2 DEF NoCall, Binding
<1>7. CASE At(c, "sent") /\ Repeat(c)
  BY <1>3, <1>7, Repeats, PoolRests DEF Binding
<1>8. CASE RequestNotSent(c) BY <1>4, <1>8 DEF RequestNotSent
<1>9. CASE RequestAnswered(c)
  <2>1. At(c, "sent") BY <1>9 DEF RequestAnswered
  <2>2. PICK answer \in Answers(c) :
          CASE answer = "ok" -> RequestDone(c)
            [] answer = "limited" /\ caller[c].tries < RetryDelays[caller[c].op] -> Repeat(c)
            [] OTHER -> Fails(c, answer)
    BY <1>9 DEF RequestAnswered
  <2>3. CASE answer = "ok" BY <1>5, <1>6, <2>2, <2>3 DEF RequestDone
  <2>4. CASE answer = "limited" /\ caller[c].tries < RetryDelays[caller[c].op]
    BY <1>7, <2>1, <2>2, <2>4
  <2>5. CASE answer # "ok" /\ ~(answer = "limited" /\ caller[c].tries < RetryDelays[caller[c].op])
    BY <1>4, <2>2, <2>5
  <2> QED BY <2>3, <2>4, <2>5
<1> QED BY <1>8, <1>9

(* A launch that fails: nothing is up, and its caller fails with it. *)
LEMMA LaunchFailedInPiece ==
  ASSUME NEW c \in Callers, Typed, ~At(c, "idle"), LaunchFailed(c) PROVE InPiece
<1>1. /\ At(c, "launch") /\ held' = 0 /\ opening' = 0
      /\ chromes' = [chromes EXCEPT ![caller[c].k] = "gone"] /\ Fails(c, "failed")
  BY DEF LaunchFailed, LaunchFails, Forget
<1>2. Effect(c) /\ caller'[c] = NoCall /\ (Pool => Pool') BY <1>1, FailureKeepsPool
<1>3. chromes' = [k \in Launches |-> chromes'[k]] BY <1>1 DEF Typed
<1>4. Typed' BY <1>2, <1>3 DEF Typed, Effect
<1>5. /\ caller'[c].pc \notin Binding
      /\ \A d \in Callers \ {c} : caller'[d] = caller[d] \/ caller'[d].pc \notin Binding
  BY <1>2 DEF Effect, Unbound, NoCall, Binding
<1>6. Chrome => Chrome' BY <1>1, <1>5, ChromeSettles
<1> QED BY <1>2, <1>4, <1>6 DEF InPiece

(* The secrets are asked for, and all read or the first refused. *)
LEMMA SecretsInPiece ==
  ASSUME NEW c \in Callers, Typed, ~At(c, "idle"), SecretsAsked(c) \/ SecretsOver(c)
  PROVE  InPiece
<1>1. CASE SecretsAsked(c)
  <2>1. caller[c].pc # "launch" BY <1>1 DEF SecretsAsked, At
  <2> QED BY <1>1, <2>1, ReadsBegin, PoolRests, InPieceAtRest DEF Binding
<1>2. CASE SecretsOver(c)
  <2>1. /\ UNCHANGED browserVars /\ caller[c].pc \in {"reading", "unread"}
        /\ PhaseDone(c) \/ ReadFails(c)
    BY <1>2 DEF SecretsOver, At
  <2>2. caller[c].pc \notin Leaving /\ caller[c].pc # "launch" BY <2>1 DEF Leaving
  <2>3. CASE PhaseDone(c) BY <2>1, <2>2, <2>3, PhaseKeepsPool, InPieceAtRest
  <2>4. CASE ReadFails(c)
    <3>1. Fails(c, "failed") BY <2>4 DEF Fails
    <3> QED BY <2>1, <2>2, <3>1, FailureKeepsPool, InPieceAtRest DEF NoCall, Binding
  <2> QED BY <2>1, <2>3, <2>4
<1> QED BY <1>1, <1>2

(* A disconnect closes the browser, and then forgets the pool. *)
LEMMA DisconnectInPiece ==
  ASSUME NEW c \in Callers, Typed, ~At(c, "idle"), DisconnectCloses(c) \/ Disconnected(c)
  PROVE  InPiece
<1>1. /\ caller[c].pc \in Leaving /\ caller[c].pc # "launch"
      /\ caller[c] # NoCall /\ (caller[c].op = "read" <=> c \in Readers) /\ IsCall(caller[c])
  BY Active DEF DisconnectCloses, Disconnected, At, Leaving
<1>2. caller[c].op = "disconnect" BY <1>1 DEF IsCall
<1>3. CASE DisconnectCloses(c)
  <2>1. /\ UNCHANGED portalVars
        /\ \/ Wait(c, "close_waits", opening) /\ UNCHANGED browserVars
           \/ CloseNow(c, "leaving")
    BY <1>3 DEF DisconnectCloses, Close
  <2>2. CASE Wait(c, "close_waits", opening) /\ UNCHANGED browserVars
    <3>1. Effect(c) /\ caller'[c].pc = "close_waits" /\ Keeps(caller[c], caller'[c])
      BY <1>1, <2>2, Waits DEF Leaving
    <3> QED BY <1>1, <2>1, <2>2, <3>1, PoolRests, InPieceAtRest DEF Binding
  <2>3. CASE CloseNow(c, "leaving")
    <3>1. /\ Wait(c, "leaving", held)
          /\ chromes' = IF held = 0 THEN chromes ELSE [chromes EXCEPT ![held] = "closing"]
      BY <2>3 DEF CloseNow
    <3>2. /\ Effect(c) /\ caller'[c].pc = "leaving" /\ Keeps(caller[c], caller'[c])
          /\ \A d \in Callers \ {c} : caller'[d] = caller[d]
      BY <1>1, <3>1, Waits DEF Leaving
    <3>3. chromes' = [k \in Launches |-> chromes'[k]] BY <3>1 DEF Typed
    <3>4. Typed' BY <3>2, <3>3 DEF Typed, Effect
    <3>5. Pool => Pool' BY <2>1, <3>2, PoolRests
    <3>6. Chrome => Chrome' BY <1>1, <2>3, <3>2, ChromeCloses DEF Binding
    <3> QED BY <3>4, <3>5, <3>6 DEF InPiece
  <2> QED BY <2>1, <2>2, <2>3
<1>4. CASE Disconnected(c)
  <2>1. /\ End(c) /\ UNCHANGED browserVars
        /\ setting' = NoOrigin /\ origin' = NoOrigin /\ connected' = FALSE
    BY <1>4 DEF Disconnected
  <2>2. Effect(c) /\ caller'[c] = NoCall BY <2>1, Ends
  <2>3. Saved' /\ c \in Calls BY <1>1, <1>2, <2>1 DEF Saved, Calls
  <2>4. Pool => Pool' BY <1>1, <2>2, <2>3, PoolOfCall
  <2> QED BY <1>1, <2>1, <2>2, <2>4, InPieceAtRest DEF NoCall, Binding
<1> QED BY <1>3, <1>4

(* Every step of a call or a read. *)
LEMMA CallInPiece ==
  ASSUME NEW c \in Callers, Typed, CallGoesOn(c) PROVE InPiece
<1>1. ~At(c, "idle") BY DEF CallGoesOn
<1>2. CASE BrowserStep(c) /\ UNCHANGED portalVars BY <1>1, <1>2, BrowserStepInPiece
<1>3. CASE OpenDone(c) BY <1>1, <1>3, OpenDoneInPiece
<1>4. CASE RequestSent(c) BY <1>1, <1>4, RequestSentInPiece
<1>5. CASE RequestNotSent(c) \/ RequestAnswered(c) BY <1>1, <1>5, RequestInPiece
<1>6. CASE LaunchFailed(c) BY <1>1, <1>6, LaunchFailedInPiece
<1>7. CASE SecretsAsked(c) \/ SecretsOver(c) BY <1>1, <1>7, SecretsInPiece
<1>8. CASE DisconnectCloses(c) \/ Disconnected(c) BY <1>1, <1>8, DisconnectInPiece
<1> QED BY <1>2, <1>3, <1>4, <1>5, <1>6, <1>7, <1>8 DEF CallGoesOn

----------------------------------------------------------------------------
(* A call begins where its caller is idle. *)
LEMMA BeginInPiece ==
  ASSUME NEW c \in Callers, Typed, ~overlapped => Pool, UNCHANGED browserVars,
         UNCHANGED <<setting, origin>>, connected' = connected,
         NEW op \in Checks \union {"connect", "disconnect"}, NEW o, NEW fg, NEW first,
         op = "connect" => o \in Origins /\ first \in 1 .. 2,
         op \in Checks => origin # NoOrigin,
         Begin(c, Call(op, o, fg, first))
  PROVE  Typed' /\ (~overlapped' => Pool') /\ (Chrome => Chrome')
<1> DEFINE x == Call(op, o, fg, first)
<1>1. /\ c \in Calls /\ At(c, "idle") /\ caller' = [caller EXCEPT ![c] = x]
      /\ ~overlapped' => ~overlapped /\ \A d \in Calls : At(d, "idle")
  BY DEF Begin, MayCall
<1>2. /\ x.op = op /\ x.target = o /\ x.phase = first
      /\ x.pc = IF op = "disconnect" THEN "close" ELSE "open"
      /\ Fields(x)
  BY DEF Call, Fields
<1> HIDE DEF x
<1>3. IsCall(x) BY <1>2 DEF IsCall, Leaving, Checks
<1>4. IsCaller(c, x) BY <1>1, <1>2, <1>3 DEF IsCaller, Calls, Checks
<1>5. /\ caller' = [d \in Callers |-> caller'[d]] /\ caller'[c] = x
      /\ \A d \in Callers \ {c} : caller'[d] = caller[d]
  BY <1>1 DEF Typed
<1>6. Typed'
  <2>1. \A d \in Callers : IsCaller(d, caller'[d]) BY <1>4, <1>5 DEF Typed
  <2> QED BY <1>5, <2>1 DEF Typed, browserVars
<1>7. Chrome => Chrome'
  <2>1. caller[c].pc # "launch" /\ caller'[c].pc \notin Binding
    BY <1>1, <1>2, <1>5 DEF At, Binding
  <2> QED BY <1>5, <2>1, ChromeRests
<1>8. ASSUME ~overlapped' PROVE Pool'
  <2>1. \A d \in Calls : d # c => caller'[d] = NoCall
    <3> SUFFICES ASSUME NEW d \in Calls, d # c PROVE caller'[d] = NoCall OBVIOUS
    <3>1. d \in Callers /\ caller'[d] = caller[d] /\ caller[d].pc = "idle"
      BY <1>1, <1>5, <1>8 DEF Calls, At
    <3> QED BY <3>1 DEF Typed, IsCaller, IsCall
  <2>2. AtItsPool(caller[c])' BY <1>2, <1>5 DEF AtItsPool, Checks
  <2>3. Saved' BY <1>1, <1>8 DEF Pool, Saved
  <2> QED BY <2>1, <2>2, <2>3 DEF Pool, OneAtOnce, AtItsPool
<1> QED BY <1>6, <1>7, <1>8

(* Every beginning. *)
LEMMA BeginsInPiece ==
  ASSUME NEW c \in Callers, Typed, ~overlapped => Pool, Begins(c)
  PROVE  Typed' /\ (~overlapped' => Pool') /\ (Chrome => Chrome')
<1>1. CASE \E o \in Targets : RecheckBegins(c, o)
  <2>1. PICK o \in Targets : RecheckBegins(c, o) BY <1>1
  <2>2. UNCHANGED browserVars /\ setting' = setting /\ origin' = origin
    BY <2>1 DEF RecheckBegins
  <2>3. CASE ActiveOrigin = o
    <3>1. Begin(c, Call("connect", o, FALSE, 2)) /\ connected' = connected
      BY <2>1, <2>3 DEF RecheckBegins
    <3>2. 2 \in 1 .. 2 /\ "connect" \notin Checks /\ o \in Origins
      BY ReadersAssumption DEF Checks
    <3> QED BY <2>2, <3>1, <3>2, BeginInPiece
  <2>4. CASE ActiveOrigin # o
    <3>1. connected' = FALSE /\ caller' = caller /\ overlapped' = overlapped
      BY <2>1, <2>4 DEF RecheckBegins
    <3>2. Typed' BY <2>2, <3>1 DEF Typed, browserVars
    <3>3. Chrome => Chrome' BY <2>2, <3>1, ChromeRests
    <3>4. ~overlapped' => Pool'
      BY <2>2, <3>1 DEF Pool, OneAtOnce, Saved, AtItsPool
    <3> QED BY <3>2, <3>3, <3>4
  <2> QED BY <2>3, <2>4
<1>2. CASE \E o \in Targets : \E fg \in BOOLEAN : ConnectBegins(c, o, fg)
  <2>1. PICK o \in Targets : \E f \in BOOLEAN : ConnectBegins(c, o, f) BY <1>2
  <2>2. PICK fg \in BOOLEAN : ConnectBegins(c, o, fg) BY <2>1
  <2>3. /\ Begin(c, Call("connect", o, fg, 1)) /\ UNCHANGED browserVars
        /\ setting' = setting /\ origin' = origin /\ connected' = connected
    BY <2>2 DEF ConnectBegins
  <2>4. 1 \in 1 .. 2 /\ "connect" \notin Checks /\ o \in Origins
    BY ReadersAssumption DEF Checks
  <2> QED BY <2>3, <2>4, BeginInPiece
<1>3. CASE \E op \in Checks \union {"disconnect"} : OtherBegins(c, op)
  <2>1. PICK op \in Checks \union {"disconnect"} : OtherBegins(c, op) BY <1>3
  <2>2. /\ Begin(c, Call(op, origin, FALSE, 1)) /\ UNCHANGED browserVars
        /\ setting' = setting /\ origin' = origin /\ connected' = connected
        /\ op = "disconnect" \/ origin # NoOrigin
    BY <2>1 DEF OtherBegins, portalVars
  <2>3. op # "connect" BY DEF Checks
  <2>4. op \in Checks => origin # NoOrigin BY <2>2 DEF Checks
  <2> QED BY <2>2, <2>3, <2>4, BeginInPiece
<1> QED BY <1>1, <1>2, <1>3 DEF Begins

(* What happens to the window from outside. *)
LEMMA WindowInPiece ==
  ASSUME Typed, Person \/ ChromesEnd
  PROVE  Typed' /\ (Pool => Pool') /\ (Chrome => Chrome')
<1>1. caller' = caller /\ opening' = opening /\ UNCHANGED portalVars
  BY DEF Person, ChromesEnd, PersonClosesTab, PersonQuits, ChromeEnds
<1>2. /\ chromes' = [k \in Launches |-> chromes'[k]] /\ held' \in {held, 0}
      /\ ChromeIsHeld => ChromeIsHeld'
  <2>1. chromes = [k \in Launches |-> chromes[k]] BY DEF Typed
  <2>2. CASE PersonClosesTab BY <2>1, <2>2 DEF PersonClosesTab, ChromeIsHeld
  <2>3. CASE \E k \in Launches : PersonQuits(k)
    <3>1. PICK k \in Launches : PersonQuits(k) BY <2>3
    <3>2. /\ chromes' = [chromes EXCEPT ![k] = "gone"]
          /\ IF held = k THEN held' = 0 ELSE held' = held
      BY <3>1 DEF PersonQuits, Forget
    <3> QED BY <2>1, <3>2 DEF ChromeIsHeld
  <2>4. CASE \E k \in Launches : ChromeEnds(k) BY <2>1, <2>4 DEF ChromeEnds, ChromeIsHeld
  <2> QED BY <2>2, <2>3, <2>4 DEF Person, ChromesEnd
<1>3. Typed' BY <1>1, <1>2 DEF Typed
<1>4. Pool => Pool' BY <1>1 DEF Pool, OneAtOnce, Saved, AtItsPool, portalVars
<1>5. Chrome => Chrome' BY <1>1, <1>2 DEF Chrome, At
<1> QED BY <1>3, <1>4, <1>5

----------------------------------------------------------------------------
(* At the start nothing is in flight and no Chrome runs. *)
LEMMA StartsWhole == ASSUME PortalInit PROVE IInv
<1>1. /\ held = 0 /\ opening = 0 /\ chromes = [k \in Launches |-> "gone"]
      /\ caller = [c \in Callers |-> NoCall]
      /\ origin = setting /\ connected = FALSE
  BY DEF PortalInit, PoolBrowserInit
<1>2. \A c \in Callers : caller[c] = NoCall /\ caller[c].pc = "idle" BY <1>1 DEF NoCall
<1>3. Typed BY <1>1, <1>2 DEF Typed, IsCaller
<1>4. Pool BY <1>1, <1>2 DEF Pool, OneAtOnce, Saved, Calls
<1>5. Chrome BY <1>1, <1>2 DEF Chrome, ChromeIsHeld, At, Binding
<1> QED BY <1>3, <1>4, <1>5 DEF IInv

(* Every step keeps it. *)
LEMMA StaysWhole == ASSUME IInv, [Next]_vars PROVE IInv'
<1>1. Typed /\ (~overlapped => Pool) /\ (~crowded => Chrome) BY DEF IInv
<1>2. CASE Person \/ ChromesEnd
  <2>1. overlapped' = overlapped /\ crowded' = crowded BY <1>2 DEF Person, ChromesEnd
  <2> QED BY <1>1, <1>2, <2>1, WindowInPiece DEF IInv
<1>3. ASSUME NEW c \in Callers, CallGoesOn(c) PROVE IInv'
  <2>1. overlapped' = overlapped /\ (~crowded' => ~crowded /\ ~Crowd')
    BY <1>3 DEF CallGoesOn
  <2>2. InPiece BY <1>1, <1>3, CallInPiece
  <2> QED BY <1>1, <2>1, <2>2 DEF IInv, InPiece
<1>4. ASSUME NEW c \in Callers, Begins(c) PROVE IInv'
  <2>1. crowded' = crowded BY <1>4 DEF Begins
  <2> QED BY <1>1, <1>4, <2>1, BeginsInPiece DEF IInv
<1>5. CASE UNCHANGED vars
  <2>1. /\ UNCHANGED browserVars /\ caller' = caller /\ UNCHANGED portalVars
        /\ overlapped' = overlapped /\ crowded' = crowded
    BY <1>5 DEF vars
  <2>2. Typed' BY <1>1, <2>1 DEF Typed, browserVars
  <2>3. Pool => Pool' BY <2>1 DEF Pool, OneAtOnce, Saved, AtItsPool, portalVars
  <2>4. Chrome => Chrome' BY <2>1, ChromeRests
  <2> QED BY <1>1, <2>1, <2>2, <2>3, <2>4 DEF IInv
<1> QED BY <1>2, <1>3, <1>4, <1>5 DEF Next

(* Calls that do not overlap leave what is saved and what is used the      *)
(* same, and connected to nothing but that; and unless two openings, of    *)
(* calls or of the reads of one, were bound to launch at once, no Chrome   *)
(* runs that the session does not hold.                                    *)
THEOREM PoolStaysWhole == Spec => []PortalIsWhole
<1>1. PortalInit => IInv BY StartsWhole
<1>2. IInv /\ [Next]_vars => IInv' BY StaysWhole
<1>3. IInv => PortalIsWhole
  <2>1. Pool => origin = setting /\ (connected => origin # NoOrigin) BY DEF Pool, Saved
  <2>2. Chrome => ChromeIsHeld /\ (Quiet => opening = 0) BY DEF Chrome, Quiet, At
  <2> QED BY <2>1, <2>2 DEF IInv, PortalIsWhole
<1> QED BY <1>1, <1>2, <1>3, PTL DEF Spec
=============================================================================
