------------------------------- MODULE Hosting -------------------------------
(***************************************************************************)
(* ReauthorizationHostingService: one account after another is             *)
(* re-authorized while people start, stop and skip, other tasks take the   *)
(* orchestrator's only slot, and the service is shut down, killed and      *)
(* started again.                                                          *)
(*                                                                         *)
(* An action is one turn of the event loop.  The listener that hears a     *)
(* task end, the transition it is called from and the loop it wakes up to  *)
(* its next await are one turn.  The task itself is seen as its listeners  *)
(* see it; module TaskRun is about its inside.                             *)
(***************************************************************************)
EXTENDS Integers, SequencesExt

CONSTANTS
  Accounts,    \* account ids
  NoAccount,   \* null
  Listings,    \* the sequences of accounts the backend may list
  Selections,  \* the sequences of account ids a request may name
  MaxStarts,   \* bound: start requests
  MaxRestarts  \* bound: restarts of the service

ASSUME AccountsAssumption == NoAccount \notin Accounts
ASSUME RequestsAssumption ==
  /\ Listings \subseteq Seq(Accounts) /\ Selections \subseteq Seq(Accounts)
  /\ \A l \in Listings : IsInjective(l)
ASSUME BoundsAssumption == MaxStarts \in Nat /\ MaxRestarts \in Nat

VARIABLES
  state,      \* #state
  saved,      \* the settings row reauthorization.hosting.v1
  excluded,   \* accounts that are excluded or have a note
  loop,       \* #run is "off", awaits getAccount ("load") or the task ("wait")
  hand,       \* accountId of #run
  down,       \* #shuttingDown
  starting,   \* start requests that await the listing
  task,       \* the stage of the task in the slot, as far as hosting cares
  hosted,     \* hosting has started that task
  taken,      \* manualTakeover of that task
  ready,      \* the backend session has been restored
  stray,      \* a start has replaced the state under the account in hand
  mixed,      \* that has happened since the state was made
  started,    \* accounts started since the state was made
  starts, restarts   \* see the bounds

hostVars == <<state, saved, loop, hand, stray>>
historyVars == <<mixed, started>>
slotVars == <<task, hosted, taken>>
boundVars == <<starts, restarts>>
vars == <<hostVars, excluded, down, starting, slotVars, ready, historyVars, boundVars>>

Going == {"running", "paused"}
Active == Going \union {"stopping"}
Cancellable == {"auto", "manual", "callback"}
Live == Cancellable \union {"writing"}
Counters == {"completed", "failed", "banned", "skipped"}

idleState ==
  [status |-> "idle", pending |-> << >>, current |-> NoAccount, total |-> 0,
   completed |-> 0, failed |-> 0, banned |-> 0, skipped |-> 0]

StateType ==
  [status : Active \union {"idle", "stopped", "completed"},
   pending : Seq(Accounts), current : Accounts \union {NoAccount}, total : Nat,
   completed : Nat, failed : Nat, banned : Nat, skipped : Nat]

(* The queue never holds an account twice. *)
TypeOK ==
  /\ state \in StateType /\ IsInjective(state.pending)
  /\ saved \in StateType /\ IsInjective(saved.pending)
  /\ excluded \subseteq Accounts /\ started \subseteq Accounts
  /\ loop \in {"off", "load", "wait"}
  /\ hand \in Accounts \union {NoAccount} /\ (hand = NoAccount <=> loop = "off")
  /\ task \in Live \union {"none", "closing"}
  /\ starting \in 0 .. MaxStarts
  /\ {down, hosted, taken, ready, stray, mixed} \subseteq BOOLEAN

Init ==
  /\ state = idleState /\ saved = idleState
  /\ excluded = {}
  /\ loop = "off" /\ hand = NoAccount /\ down = FALSE /\ starting = 0
  /\ task = "none" /\ hosted = FALSE /\ taken = FALSE /\ ready = FALSE
  /\ stray = FALSE /\ mixed = FALSE /\ started = {}
  /\ starts = 0 /\ restarts = 0
-----------------------------------------------------------------------------
(* The state as the code transforms it. *)

processedCount(s) == s.completed + s.failed + s.banned + s.skipped
Count(s, counter) == [s EXCEPT ![counter] = @ + 1]

finishStop(s) ==
  [s EXCEPT !.status = "stopped", !.pending = << >>, !.current = NoAccount]

(* completeCurrent counts the account once and clears the way for the next.*)
completeCurrent(s, counter) ==
  LET c == [Count(s, counter) EXCEPT !.current = NoAccount]
  IN IF s.status = "stopping" THEN finishStop(c) ELSE [c EXCEPT !.status = "running"]

(* The loop passes over the accounts at the head that are excluded by now. *)
Pass(s, ex) ==
  LET passed == {n \in 0 .. Len(s.pending) : \A i \in 1 .. n : s.pending[i] \in ex}
      n == CHOOSE m \in passed : \A k \in passed : k <= m
  IN [s EXCEPT !.pending = SubSeq(@, n + 1, Len(@)), !.skipped = @ + n]

(* #run from the head of its loop, with s persisted, to its next await or  *)
(* its end.  The account taken out of the queue is not persisted before    *)
(* its task runs.                                                          *)
Run(s, ex) ==
  LET p == Pass(s, ex)
      end == CASE s.status \in Going -> [p EXCEPT !.status = "completed"]
               [] s.status = "stopping" /\ s.current = NoAccount -> finishStop(s)
               [] OTHER -> s
  IN /\ stray' = FALSE
     /\ IF s.status \in Going /\ p.pending # << >>
          THEN /\ state' = [p EXCEPT !.pending = Tail(@)]
               /\ saved' = p
               /\ loop' = "load" /\ hand' = Head(p.pending)
          ELSE /\ state' = end /\ saved' = end
               /\ loop' = "off" /\ hand' = NoAccount

(* persist, and nothing else moves. *)
Save(s) ==
  /\ state' = s /\ saved' = s
  /\ UNCHANGED <<loop, hand, stray>>

LoopEnds ==
  /\ loop' = "off" /\ hand' = NoAccount /\ stray' = FALSE
  /\ UNCHANGED <<state, saved>>
-----------------------------------------------------------------------------
(* start: the checks, the listing of the accounts, and the new state.      *)

StartAllowed ==
  state.status \notin Active /\ task = "none" /\ starts < MaxStarts

StartRequested ==
  /\ StartAllowed
  /\ starting' = starting + 1 /\ starts' = starts + 1
  /\ UNCHANGED <<hostVars, excluded, down, slotVars, ready, historyVars, restarts>>

(* Mutant: an account named twice is queued twice. *)
QueueAsNamed(ids) == SelectSeq(ids, LAMBDA a : a \notin excluded)

(* The ids without repetitions and without excluded accounts.              *)
EligibleIds(ids) ==
  LET once == {i \in 1 .. Len(ids) : \A j \in 1 .. i - 1 : ids[j] # ids[i]}
      kept == {i \in once : ids[i] \notin excluded}
  IN [k \in 1 .. Cardinality(kept) |->
        ids[CHOOSE i \in kept : Cardinality({j \in kept : j < i}) = k - 1]]

(* startLoop does nothing while an earlier loop is still there.            *)
Begin(ids) ==
  LET queue == EligibleIds(ids)
      fresh == [idleState EXCEPT !.status = "running", !.pending = queue, !.total = Len(queue)]
  IN IF queue = << >> THEN UNCHANGED <<hostVars, historyVars>>
     ELSE /\ mixed' = (loop # "off") /\ started' = {}
          /\ IF loop = "off" THEN Run(fresh, excluded)
             ELSE /\ state' = fresh /\ saved' = fresh /\ stray' = TRUE
                  /\ UNCHANGED <<loop, hand>>

StartListed(ids) ==
  /\ starting > 0 /\ ready
  /\ starting' = starting - 1
  /\ Begin(ids)
  /\ UNCHANGED <<excluded, down, slotVars, ready, boundVars>>

StartFails ==
  /\ starting > 0
  /\ starting' = starting - 1
  /\ UNCHANGED <<hostVars, excluded, down, slotVars, ready, historyVars, boundVars>>

(* A request that names the accounts awaits nothing. *)
StartSelected(ids) ==
  /\ StartAllowed
  /\ starts' = starts + 1
  /\ Begin(ids)
  /\ UNCHANGED <<excluded, down, starting, slotVars, ready, restarts>>
-----------------------------------------------------------------------------
(* The loop. *)

(* Mutant: the status is not looked at again after the account was loaded. *)
WantedUnchecked == TRUE
(* The queue has not been stopped while getAccount was awaited. *)
StillWanted == state.status \in Going

(* Mutant: the started task is only remembered in memory. *)
RememberTask(s) == state' = s /\ UNCHANGED <<saved, hand, stray>>
(* The task that has been started is persisted with the shortened queue. *)
PersistTask(s) == state' = s /\ saved' = s /\ UNCHANGED <<hand, stray>>

(* The account is fit and the slot is free: startTask and waitForTerminal. *)
AccountStarted ==
  /\ loop = "load" /\ ready /\ StillWanted /\ task = "none"
  /\ PersistTask([state EXCEPT !.current = hand])
  /\ loop' = "wait"
  /\ task' = "auto" /\ hosted' = TRUE /\ taken' = FALSE
  /\ started' = IF stray THEN started ELSE started \union {hand}
  /\ UNCHANGED <<excluded, down, starting, ready, mixed, boundVars>>

(* Mutant: the first account that cannot be started ends the loop. *)
SkipAndLeave == LoopEnds /\ UNCHANGED historyVars
(* The account cannot be started and is counted as skipped. *)
SkipAccount == Run(Count(state, "skipped"), excluded) /\ UNCHANGED historyVars

(* getAccount fails, the account is not fit any more, or startTask finds   *)
(* the slot taken.                                                         *)
AccountNotStarted ==
  /\ loop = "load" /\ StillWanted /\ ~down
  /\ SkipAccount
  /\ UNCHANGED <<excluded, down, starting, slotVars, ready, boundVars>>

(* The queue has been stopped meanwhile, or the service shuts down and     *)
(* getAccount fails.                                                       *)
LoadedTooLate ==
  /\ loop = "load" /\ ~(StillWanted /\ ~down)
  /\ LoopEnds
  /\ UNCHANGED <<excluded, down, starting, slotVars, ready, historyVars, boundVars>>
-----------------------------------------------------------------------------
(* The task in the slot, and what the listener of waitForTerminal does.    *)

Listening == hosted /\ loop = "wait" /\ ~down

(* The task ends: the listener completes the account and wakes the loop.   *)
(* The slot is free only when the browser has been closed.                 *)
End(s, counter, noted) ==
  LET ex == IF noted /\ s.current # NoAccount THEN excluded \union {s.current} ELSE excluded
  IN /\ task' = "closing" /\ taken' = FALSE /\ UNCHANGED hosted
     /\ IF Listening
          THEN excluded' = ex /\ Run(completeCurrent(s, counter), ex)
          ELSE UNCHANGED <<hostVars, excluded>>

endUnchanged == UNCHANGED <<historyVars, down, starting, ready, boundVars>>

(* The listener hears that the task is still active.                       *)
Show(stage, takeover) ==
  IF Listening /\ state.status # "stopping"
    THEN Save([state EXCEPT !.status =
                 IF stage = "manual" \/ takeover THEN "paused" ELSE "running"])
    ELSE UNCHANGED hostVars

showUnchanged == UNCHANGED <<excluded, down, starting, hosted, ready, historyVars, boundVars>>

(* The task moves between automatic work, a page a person has to handle,   *)
(* the wait for the callback and the backend write.                        *)
TaskMoves(to) ==
  /\ \/ task = "auto" /\ to \in {"manual", "callback", "writing"}
     \/ task = "manual" /\ to \in {"auto", "callback"}
     \/ task = "callback" /\ to = "writing"
  /\ task' = to /\ UNCHANGED taken
  /\ Show(to, taken)
  /\ showUnchanged

TakeOver ==
  /\ task \in Cancellable /\ ~taken
  /\ taken' = TRUE /\ UNCHANGED task
  /\ Show(task, TRUE)
  /\ showUnchanged

ReleaseTakeover ==
  /\ task \in Live /\ taken
  /\ taken' = FALSE /\ UNCHANGED task
  /\ Show(task, FALSE)
  /\ showUnchanged

(* A mailbox that is gone leaves an automatic note on the account. *)
TaskEnds(counter, noted) ==
  /\ task \in Live
  /\ counter = "completed" => task = "writing"
  /\ noted => counter = "failed"
  /\ End(state, counter, noted)
  /\ endUnchanged

(* Three rounds without a code: from inside the transition to the manual   *)
(* stage the listener cancels the task and the account counts as skipped.  *)
OtpRoundsExhausted ==
  /\ task = "auto" /\ Listening
  /\ End(state, "skipped", FALSE)
  /\ endUnchanged

(* A person cancels the task on the page of the task. *)
CancelTask ==
  /\ task \in Cancellable
  /\ End(state, "failed", FALSE)
  /\ endUnchanged

SlotFreed ==
  /\ task = "closing"
  /\ task' = "none" /\ hosted' = FALSE /\ UNCHANGED taken
  /\ UNCHANGED <<hostVars, excluded, down, starting, ready, historyVars, boundVars>>

(* The create form, the team workflow and the agent use the slot too.      *)
OtherTaskStarts ==
  /\ task = "none" /\ task' = "auto" /\ hosted' = FALSE /\ taken' = FALSE
  /\ UNCHANGED <<hostVars, excluded, down, starting, ready, historyVars, boundVars>>
-----------------------------------------------------------------------------
(* stop, skipCurrent, the exclusion list, shutdown and restart.            *)

(* stop persists "stopping" and cancels the task; completeCurrent then     *)
(* finds a queue that is stopping.                                         *)
StopCancels ==
  /\ state.status \in Active /\ state.current # NoAccount /\ task \in Cancellable
  /\ End([state EXCEPT !.status = "stopping"], "failed", FALSE)
  /\ endUnchanged

(* The task cannot be cancelled any more: the queue stops at its end. *)
StopLater ==
  /\ state.status \in Going /\ state.current # NoAccount /\ task \notin Cancellable
  /\ Save([state EXCEPT !.status = "stopping"])
  /\ UNCHANGED <<slotVars, excluded>>
  /\ endUnchanged

(* Mutant: the stopped queue is not persisted. *)
StopUnsaved(s) == state' = finishStop(s) /\ UNCHANGED <<saved, loop, hand, stray>>
StopAtOnce(s) == Save(finishStop(s))

StopIdle ==
  /\ state.status \in Active /\ state.current = NoAccount
  /\ StopAtOnce(state)
  /\ UNCHANGED <<slotVars, excluded>>
  /\ endUnchanged

SkipCurrent ==
  /\ state.status \in Going /\ state.current # NoAccount /\ task \in Cancellable
  /\ End(state, "skipped", FALSE)
  /\ endUnchanged

Exclude(a) ==
  /\ excluded' = IF a \in excluded THEN excluded \ {a} ELSE excluded \union {a}
  /\ UNCHANGED <<hostVars, slotVars>>
  /\ endUnchanged

(* shutdown wakes the waiting loop and cancels the task if it still can.   *)
Shutdown ==
  /\ ~down /\ down' = TRUE
  /\ state' = finishStop(state) /\ saved' = state'
  /\ IF loop = "wait" THEN loop' = "off" /\ hand' = NoAccount /\ stray' = FALSE
                      ELSE UNCHANGED <<loop, hand, stray>>
  /\ IF state.current # NoAccount /\ task \in Cancellable
       THEN task' = "closing" /\ taken' = FALSE ELSE UNCHANGED <<task, taken>>
  /\ UNCHANGED <<excluded, starting, hosted, ready, historyVars, boundVars>>

(* Mutant: a queue that was stopping is left so. *)
StillStopping(s) == s
(* restore: a queue that was stopping has stopped. *)
Stopped(s) == IF s.status = "stopping" THEN finishStop(s) ELSE s

(* Mutant: the account whose task was interrupted is not counted. *)
InterruptedForgotten(s) == [s EXCEPT !.current = NoAccount]
(* restore counts the account whose task the restart has interrupted.      *)
Interrupted(s) ==
  IF s.current = NoAccount THEN s
  ELSE [Count(s, "failed") EXCEPT !.current = NoAccount]

(* The service ends, in whatever state it is, and starts again.            *)
Restart ==
  /\ restarts < MaxRestarts /\ restarts' = restarts + 1
  /\ down' = FALSE /\ starting' = 0 /\ ready' = FALSE
  /\ task' = "none" /\ hosted' = FALSE /\ taken' = FALSE
  /\ IF saved.status \in Going
       THEN Run([Interrupted(saved) EXCEPT !.status = "running"], excluded)
       ELSE /\ state' = Stopped(saved) /\ saved' = state'
            /\ loop' = "off" /\ hand' = NoAccount /\ stray' = FALSE
  /\ UNCHANGED <<excluded, historyVars, starts>>

(* session.restore ends, some time after the start of the service. *)
SessionRestored ==
  /\ ~ready /\ ready' = TRUE
  /\ UNCHANGED <<hostVars, excluded, down, starting, slotVars, historyVars, boundVars>>
-----------------------------------------------------------------------------
Loop == AccountStarted \/ AccountNotStarted \/ LoadedTooLate

(* What a task does without a person and without the provider. *)
TaskProgress ==
  \/ \E to \in {"manual", "callback", "writing"} : task = "auto" /\ TaskMoves(to)
  \/ \E counter \in {"completed", "failed", "banned"}, noted \in BOOLEAN :
       task \in {"auto", "writing"} /\ TaskEnds(counter, noted)
  \/ OtpRoundsExhausted

Next ==
  \/ StartRequested \/ StartFails
  \/ \E ids \in Listings : StartListed(ids)
  \/ \E ids \in Selections : StartSelected(ids)
  \/ Loop \/ SlotFreed \/ SessionRestored
  \/ \E to \in Live : TaskMoves(to)
  \/ \E counter \in Counters \ {"skipped"}, noted \in BOOLEAN : TaskEnds(counter, noted)
  \/ OtpRoundsExhausted \/ CancelTask \/ TakeOver \/ ReleaseTakeover \/ OtherTaskStarts
  \/ StopCancels \/ StopLater \/ StopIdle \/ SkipCurrent
  \/ \E a \in Accounts : Exclude(a)
  \/ Shutdown \/ Restart

Spec == Init /\ [][Next]_vars

(* Requests to the backend are bounded by a timeout, Chrome is closed, the *)
(* session's restoration ends, and a task goes on as long as it needs      *)
(* neither a person nor the provider (NeverStuck and CancelEnds of         *)
(* module TaskRun).                                                        *)
Fairness ==
  /\ WF_vars(Loop) /\ WF_vars(SlotFreed) /\ WF_vars(SessionRestored)
  /\ WF_vars((task = "writing" \/ ~taken) /\ TaskProgress)

FairSpec == Spec /\ Fairness
-----------------------------------------------------------------------------
(* Every account of the queue is counted once in one of the four counters, *)
(* is still queued, or is the one at hand, through any crash, stop or skip *)
(* - unless a start has replaced the state under the account at hand, or   *)
(* is served while the service shuts down.                                 *)
CountsAddUp ==
  ~down /\ ~mixed /\ state.status \in Active \union {"completed"} =>
    processedCount(state) + Len(state.pending)
      + (IF loop = "off" THEN 0 ELSE 1) = state.total

(* The settings row is what a restart goes on from: it is the state in     *)
(* memory, with the account whose details are being loaded still queued.   *)
SavedIsCurrent ==
  \/ saved = state \/ down
  \/ loop = "load" /\ saved = [state EXCEPT !.pending = <<hand>> \o @]

(* No account is started twice from one queue, not even after a restart.   *)
StartedOnce ==
  \A a \in started :
    /\ a \notin Range(state.pending) /\ a \notin Range(saved.pending)
    /\ loop = "load" /\ ~stray => hand # a

(* A task that hosting has started is always attended by the loop, and     *)
(* none is left when the queue has been stopped or is done.                *)
HostedTaskIsWatched ==
  hosted /\ task \in Live /\ ~down =>
    loop = "wait" /\ (stray \/ (state.status \in Active /\ state.current = hand))

(* A queue that is stopping stops, even behind a write. *)
StopEnds == state.status = "stopping" ~> state.status # "stopping" \/ down

(* A running queue gets on until it is done or needs somebody.             *)
QueueAdvances ==
  []<>(state.status # "running" \/ task \in {"manual", "callback"} \/ taken \/ down)
=============================================================================
