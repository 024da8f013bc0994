----------------------------- MODULE AgentProofs -----------------------------
(***************************************************************************)
(* What the agent tells the centre and what it holds for a job, for every  *)
(* set of jobs and every number of crashes, lost posts and requests of     *)
(* people.  Holds, Journal and Reports are about one loop with its job and  *)
(* hold until a second loop is started beside it (beside); Loops says that *)
(* pairing and switching, one after the other, never start one.            *)
(***************************************************************************)
EXTENDS Agent, FiniteSetTheorems, TLAPS

(* Who is where while a job runs: the loop, its journal, the reservation,  *)
(* the slot and the materials.                                             *)
Holds ==
  /\ running => loop \in RunTaskAwaits
  /\ loop \in {"materials", "waiting"} => running
  /\ loop \in RunTaskAwaits => pending # NoJob
  /\ loop \in {"asking", "query"} => pending = NoJob
  /\ loop = "materials" => reserved
  /\ reserved => running /\ loop \in {"materials", "posting"} /\ active = NoJob
  /\ materials # NoJob => materials = pending /\ running
  /\ active \in Jobs => active = pending /\ running /\ materials = active /\ loop = "waiting"

(* What the centre is to be told of the task in the journal. *)
Outcome == IF status = "interrupted" THEN IF write = "account" THEN "uncertain" ELSE "interrupted"
           ELSE ResultOfTask
(* What may be told of a job whose task was deleted, beside its outcome.   *)
Interruption(j) == IF j \in forgotten THEN {"interrupted"} ELSE {}
Told == {Outcome} \union Interruption(pending)

(* The local task of the journal: it is in the slot while it is active,    *)
(* and how it stands agrees with what it has sent.                         *)
Journal ==
  /\ pendingLocal => pending # NoJob
  /\ active \in Jobs \/ loop = "waiting" => pendingLocal
  /\ loop = "materials" => ~pendingLocal
  /\ loop = "waiting" => status # "interrupted"
  /\ pendingLocal /\ status = "active" => active = pending
  /\ pendingLocal /\ status = "succeeded" => sent = 1 \/ write = "none"
  /\ pendingLocal /\ status = "cancelled" => write # "account"
  /\ pendingLocal /\ sent = 1 => write # "none"
  /\ pendingLocal => (pending \in wrote <=> sent = 1 /\ write = "account")
  /\ pending # NoJob /\ ~pendingLocal => pending \notin wrote
  /\ pending \in forgotten => pendingLocal /\ active # pending

(* The result on its way may be told; a job without a local task was    *)
(* not begun.                                                              *)
Posts ==
  /\ loop = "posting" /\ pendingLocal => status # "active" /\ answer \in Told
  /\ loop = "posting" /\ ~pendingLocal => answer \in {"error", "interrupted"}
  /\ loop = "posting" /\ arrived => job[pending] = "closed"

(* What the centre has been told: nothing of a job it may still hand out   *)
(* or that runs, the outcome of the one in the journal, and never two      *)
(* things that contradict each other, but for what a deletion adds.        *)
Consistent(told, more) ==
  told \subseteq {"error", "interrupted"} \/ \E r \in Results : told \subseteq {r} \union more
Reports ==
  /\ \A j \in Jobs : job[j] \in {"queued", "claimed"} /\ j # pending
                     => reports[j] = {} /\ j \notin wrote \union forgotten
  /\ loop = "materials" => reports[pending] = {}
  /\ pendingLocal => reports[pending] \subseteq (IF status = "active" THEN {} ELSE Told)
  /\ pending # NoJob /\ ~pendingLocal => reports[pending] \subseteq {"error", "interrupted"}
  /\ \A j \in Jobs : Consistent(reports[j], Interruption(j))
  /\ \A j \in wrote : reports[j] \intersect {"cancelled", "interrupted"} \subseteq Interruption(j)

(* Requests that do not meet: a caller waits for the loop it has aborted,  *)
(* a stopped loop is off or waited for, and none runs in the other mode.   *)
Loops ==
  /\ admin = "idle" \/ switch = "idle"
  /\ ~untracked
  /\ \A c \in Callers : awaits[c] # "old loop"
  /\ awaits["switch"] = "loop" => switch = "stopping"
  /\ awaits["admin"] = "loop" => admin \in {"activating", "restarting", "clearing"}
  /\ ~controller => loop = "off" \/ \E c \in Callers : awaits[c] = "loop"
  /\ admin \in {"pairing", "activating", "verifying", "restarting"} => mode = "provisioning_agent"
  /\ switch = "restoring" => mode = "account_pool"
  /\ switch \in {"stopping", "portal"} => ~controller
  /\ switch = "portal" \/ mode = "account_pool" => loop = "off" /\ ~controller

JobParts == Holds /\ Journal /\ Posts /\ Reports
JobInv == TypeOK /\ (~beside => JobParts)
LoopsInv == JobInv /\ (~overlapped => ~beside /\ Loops)

(* In the mode of the account pool no loop runs, unless requests meet: it  *)
(* was stopped before the mode was changed, and is not started again.      *)
ModesExclude == ~overlapped /\ mode = "account_pool" => loop = "off"
-----------------------------------------------------------------------------
(* Types. *)

(* The steps of the job loop keep every variable in its range.             *)
LEMMA LoopTyped == ASSUME TypeOK, LoopSteps PROVE TypeOK'
<1>0. 0 \in 0 .. 1 OBVIOUS
<1> USE DEF TypeOK, LoopSteps, LoopDies, SessionReady, LoopTurns, JobStarts, JobNotStarted,
            ControlSeen, JobEnds, PostArrives, PostAnswered, OldLoopEnds
<1>1. CentreTypes'
  <2> USE DEF CentreTypes
  <2>1. CASE JobStarts \/ JobNotStarted
    <3>1. /\ UNCHANGED <<withdrawn, granted, wrote, reports, device>>
          /\ \/ job' = [job EXCEPT ![pending] = IF job[pending] = "claimed" /\ pending \notin withdrawn
                                               THEN "supplied" ELSE @]
             \/ job' = job
      BY <2>1 DEF Supplied, taskVars
    <3> QED BY <3>1
  <2>2. CASE PostArrives
    <3>1. /\ UNCHANGED <<withdrawn, granted, wrote, device>>
          /\ reports' = [reports EXCEPT ![pending] = @ \union {answer}]
          /\ job' = [job EXCEPT ![pending] = "closed"]
      BY <2>2 DEF taskVars
    <3>2. answer \in Results BY DEF AgentTypes
    <3>3. job' \in [Jobs -> {"queued", "claimed", "supplied", "closed"}] BY <3>1
    <3>4. reports' \in [Jobs -> SUBSET Results] BY <3>1, <3>2
    <3> QED BY <3>1, <3>3, <3>4
  <2>3. CASE UNCHANGED <<centreVars, wrote>> BY <2>3 DEF centreVars
  <2> QED BY <2>1, <2>2, <2>3 DEF taskVars
<1>2. StoreTypes' BY DEF StoreTypes, storeVars, Modes
<1>3. LoopTypes'
    BY DEF LoopTypes, LoopAwaits, RunTaskAwaits, Callers, peopleVars, agentVars, postVars,
           LoopEnded, Post
<1>4. AgentTypes'
    BY DEF AgentTypes, agentVars, postVars, Results, Post, FinishRun, ResultOfTask,
           RecoveredResult, RowFound
<1>5. SlotTypes'
  <2>1. CASE JobStarts BY <2>1 DEF StoreTypes, SlotTypes
  <2>2. CASE LoopDies \/ PostAnswered
    <3>1. /\ materials' = IF running /\ materials = pending THEN NoJob ELSE materials
          /\ reserved' \in BOOLEAN /\ active' = active
      BY <2>2 DEF FinishRun
    <3> QED BY <3>1 DEF SlotTypes
  <2>3. CASE UNCHANGED slotVars BY <2>3 DEF SlotTypes, slotVars
  <2> QED BY <2>1, <2>2, <2>3
<1>6. TaskTypes'
  <2>1. CASE JobStarts
    <3>1. /\ status' = "active" /\ write' = "none" /\ sent' = 0 /\ unsure' = FALSE
          /\ forgotten' = forgotten
      BY <2>1
    <3> QED BY <3>1, <1>0 DEF TaskTypes
  <2>2. CASE ControlSeen BY <2>2 DEF TaskTypes, Task!CancelTask, Task!Endings
  <2>3. CASE UNCHANGED taskVars BY <2>3 DEF TaskTypes, taskVars
  <2> QED BY <2>1, <2>2, <2>3
<1>7. PeopleTypes' BY DEF PeopleTypes, peopleVars
<1> QED BY <1>1, <1>2, <1>3, <1>4, <1>5, <1>6, <1>7

(* So do the answers and posts that are lost,                              *)
LEMMA LossesTyped == ASSUME TypeOK, Losses PROVE TypeOK'
<1> USE DEF TypeOK, Losses, PostLost, JobLost
<1>1. CentreTypes' BY DEF CentreTypes, centreVars, taskVars, Results
<1>2. StoreTypes' BY DEF StoreTypes, storeVars, Modes
<1>3. LoopTypes'
    BY DEF LoopTypes, LoopAwaits, RunTaskAwaits, Callers, peopleVars, postVars, Post
<1>4. AgentTypes' BY DEF AgentTypes, postVars, Results, Post, FinishRun
<1>5. SlotTypes' BY DEF SlotTypes, slotVars, FinishRun
<1>6. TaskTypes' BY DEF TaskTypes, taskVars
<1>7. PeopleTypes' BY DEF PeopleTypes, peopleVars
<1> QED BY <1>1, <1>2, <1>3, <1>4, <1>5, <1>6, <1>7

(* the jobs that are taken and what the centre does,                       *)
LEMMA CentreTyped == ASSUME TypeOK, Centre PROVE TypeOK'
<1> USE DEF TypeOK, Centre, JobTaken, CentreRequeues, CentreWithdraws, NothingTaken,
     WriteGranted
<1>1. CentreTypes' BY DEF CentreTypes, centreVars, taskVars, Results
<1>2. StoreTypes' BY DEF StoreTypes, storeVars, Modes
<1>3. LoopTypes'
    BY DEF LoopTypes, LoopAwaits, RunTaskAwaits, Callers, peopleVars, agentVars, postVars,
           Post
<1>4. AgentTypes'
  <2>1. ASSUME NEW j \in Jobs, JobTaken(j) PROVE AgentTypes'
    BY <2>1 DEF AgentTypes, Post, Results, postVars
  <2> QED BY <2>1 DEF AgentTypes, agentVars, postVars
<1>5. SlotTypes' BY DEF SlotTypes, slotVars
<1>6. TaskTypes' BY DEF TaskTypes, taskVars
<1>7. PeopleTypes' BY DEF PeopleTypes, peopleVars
<1> QED BY <1>1, <1>2, <1>3, <1>4, <1>5, <1>6, <1>7

(* the local task and the slot,                                            *)
LEMMA SlotTyped == ASSUME TypeOK, Slot PROVE TypeOK'
<1> USE DEF TypeOK, Slot, TaskSteps, TaskLeaves, TaskDeleted, ForeignTask
<1>1. CentreTypes' BY DEF CentreTypes, centreVars, taskVars, localUnchanged, Results
<1>2. StoreTypes' BY DEF StoreTypes, storeVars, localUnchanged, Modes
<1>3. LoopTypes'
    BY DEF LoopTypes, LoopAwaits, RunTaskAwaits, Callers, peopleVars, agentVars, postVars,
           localUnchanged
<1>4. AgentTypes' BY DEF AgentTypes, agentVars, postVars, localUnchanged, Results
<1>5. SlotTypes' BY DEF SlotTypes, slotVars, localUnchanged
<1>6. TaskTypes'
  <2>1. CASE TaskSteps
    <3> USE DEF TaskTypes, Task!Admit, Task!SendWrite, Task!Succeed, Task!FailTask,
         Task!CancelTask
    <3>1. status' \in Task!Endings \union {"active"} /\ write' \in {"none", "note", "account"}
      BY <2>1 DEF Task!Endings
    <3>2. sent' = sent \/ sent' = 1 BY <2>1
    <3>3. 1 \in 0 .. 1 OBVIOUS
    <3>4. unsure' = unsure \/ unsure' \in {FALSE, sent = 1} BY <2>1
    <3>5. (sent = 1) \in BOOLEAN OBVIOUS
    <3>6. unsure' \in BOOLEAN BY <3>4, <3>5, Zenon
    <3>7. forgotten' = forgotten BY <2>1 DEF localUnchanged
    <3> QED BY <3>1, <3>2, <3>3, <3>6, <3>7
  <2>2. CASE TaskDeleted BY <2>2 DEF TaskTypes, RowFound
  <2>3. CASE UNCHANGED taskVars BY <2>3 DEF TaskTypes, taskVars
  <2> QED BY <2>1, <2>2, <2>3
<1>7. PeopleTypes' BY DEF PeopleTypes, peopleVars, localUnchanged
<1> QED BY <1>1, <1>2, <1>3, <1>4, <1>5, <1>6, <1>7

(* the switch of the mode,                                                 *)
LEMMA SwitchTyped == ASSUME TypeOK, SwitchSteps PROVE TypeOK'
<1> USE DEF TypeOK, SwitchSteps, SuspendWoken, Suspended, PortalOpened, Restored
<1>1. CentreTypes' BY DEF CentreTypes, centreVars, taskVars, switchUnchanged, Results
<1>2. StoreTypes' BY DEF StoreTypes, switchUnchanged, Modes
<1>3. LoopTypes'
    BY DEF LoopTypes, LoopAwaits, RunTaskAwaits, Callers, postVars, loopsUnchanged,
           StartLoops, StopLoops
<1>4. AgentTypes' BY DEF AgentTypes, postVars, switchUnchanged, Results
<1>5. SlotTypes' BY DEF SlotTypes, slotVars, switchUnchanged
<1>6. TaskTypes' BY DEF TaskTypes, taskVars, switchUnchanged
<1>7. PeopleTypes' BY DEF PeopleTypes, switchUnchanged
<1> QED BY <1>1, <1>2, <1>3, <1>4, <1>5, <1>6, <1>7

(* pairing, the change of the origin and the end of the pairing,           *)
LEMMA AdminTyped == ASSUME TypeOK, AdminAnswers PROVE TypeOK'
<1> USE DEF TypeOK, AdminAnswers, AdminRefused, PairingAccepted, Activated, OriginVerified,
            OriginChanged, Released, Cleared
<1>1. CentreTypes' BY DEF CentreTypes, taskVars, adminUnchanged, Results
<1>2. StoreTypes' BY DEF StoreTypes, adminUnchanged, Modes
<1>3. LoopTypes'
    BY DEF LoopTypes, LoopAwaits, RunTaskAwaits, Callers, postVars, loopsUnchanged,
           StartLoops, StopLoops
<1>4. AgentTypes' BY DEF AgentTypes, postVars, adminUnchanged, Results
<1>5. SlotTypes' BY DEF SlotTypes, slotVars, adminUnchanged
<1>6. TaskTypes' BY DEF TaskTypes, taskVars, adminUnchanged
<1>7. PeopleTypes' BY DEF PeopleTypes, adminUnchanged
<1> QED BY <1>1, <1>2, <1>3, <1>4, <1>5, <1>6, <1>7

(* the requests of people,                                                 *)
LEMMA PeopleTyped == ASSUME TypeOK, People PROVE TypeOK'
<1> USE DEF TypeOK, People, AdminAsks, Suspend, RestoreAgent, SessionChanges
<1>1. CentreTypes'
    BY DEF CentreTypes, centreVars, taskVars, adminUnchanged, switchUnchanged, Results
<1>2. StoreTypes' BY DEF StoreTypes, storeVars, adminUnchanged, switchUnchanged, Modes
<1>3. LoopTypes'
    BY DEF LoopTypes, LoopAwaits, RunTaskAwaits, Callers, peopleVars, agentVars, postVars,
           loopsUnchanged, StopLoops
<1>4. AgentTypes'
    BY DEF AgentTypes, agentVars, postVars, adminUnchanged, switchUnchanged, Results
<1>5. SlotTypes' BY DEF SlotTypes, slotVars, adminUnchanged, switchUnchanged
<1>6. TaskTypes' BY DEF TaskTypes, taskVars, adminUnchanged, switchUnchanged
<1>7. PeopleTypes'
    BY DEF PeopleTypes, peopleVars, adminUnchanged, switchUnchanged, switchBegins
<1> QED BY <1>1, <1>2, <1>3, <1>4, <1>5, <1>6, <1>7

(* and a crash with the start after it.                                    *)
LEMMA RestartTyped == ASSUME TypeOK, Restart PROVE TypeOK'
<1> USE DEF TypeOK
<1>1. CentreTypes' BY DEF CentreTypes, Restart, centreVars, Results
<1>2. StoreTypes' BY DEF StoreTypes, Restart, storeVars, Modes
<1>3. LoopTypes' BY DEF LoopTypes, Restart, LoopAwaits, RunTaskAwaits, Callers
<1>4. AgentTypes' BY DEF StoreTypes, AgentTypes, Restart
<1>5. SlotTypes' BY DEF SlotTypes, Restart
<1>6. TaskTypes' BY DEF TaskTypes, Restart, Task!Endings
<1>7. PeopleTypes' BY DEF PeopleTypes, Restart
<1> QED BY <1>1, <1>2, <1>3, <1>4, <1>5, <1>6, <1>7

(* Every step keeps every variable in its range. *)
LEMMA TypesKept == ASSUME TypeOK, [Next]_vars PROVE TypeOK'
<1>1. CASE UNCHANGED vars
  <2> USE <1>1 DEF TypeOK, vars
  <2>1. CentreTypes' BY DEF CentreTypes, centreVars, taskVars
  <2>2. StoreTypes' BY DEF StoreTypes, storeVars
  <2>3. LoopTypes' BY DEF LoopTypes, agentVars, peopleVars
  <2>4. AgentTypes' BY DEF AgentTypes, agentVars, postVars
  <2>5. SlotTypes' BY DEF SlotTypes, slotVars
  <2>6. TaskTypes' BY DEF TaskTypes, taskVars
  <2>7. PeopleTypes' BY DEF PeopleTypes, peopleVars
  <2> QED BY <2>1, <2>2, <2>3, <2>4, <2>5, <2>6, <2>7
<1>2. CASE Next
  BY <1>2, LoopTyped, LossesTyped, CentreTyped, SlotTyped, SwitchTyped, AdminTyped, PeopleTyped,
     RestartTyped DEF Next
<1> QED BY <1>1, <1>2
-----------------------------------------------------------------------------
(* The job and what is told of it: one lemma per action, or per group of   *)
(* actions that do the same to it.                                         *)

jobVars == <<running, pending, pendingLocal, reserved, active, materials, taskVars, answer,
             arrived, job, reports>>

(* What people ask for, and what follows from it, touches the job only by  *)
(* starting a loop.                                                        *)
LEMMA Apart ==
  ASSUME People \/ AdminAnswers \/ SwitchSteps \/ \E c \in Callers : OldLoopEnds(c)
  PROVE  /\ UNCHANGED jobVars
         /\ \/ UNCHANGED <<loop, beside>>
            \/ ~controller /\ controller' /\ loop' = "ready" /\ beside' = (beside \/ running)
<1> USE DEF jobVars, taskVars, StartLoops, StopLoops, loopsUnchanged, adminUnchanged,
            switchUnchanged, centreVars, storeVars, agentVars, slotVars, postVars, peopleVars
<1>1. CASE People BY <1>1 DEF People, AdminAsks, Suspend, RestoreAgent, SessionChanges,
     switchBegins
<1>2. CASE AdminAnswers
  BY <1>2 DEF AdminAnswers, AdminRefused, PairingAccepted, Activated, OriginVerified,
       OriginChanged, Released, Cleared
<1>3. CASE SwitchSteps BY <1>3 DEF SwitchSteps, SuspendWoken, Suspended, PortalOpened, Restored
<1>4. CASE \E c \in Callers : OldLoopEnds(c) BY <1>4 DEF OldLoopEnds
<1> QED BY <1>1, <1>2, <1>3, <1>4

(* That keeps what is known of the job when no job was running. *)
LEMMA ApartKeeps ==
  ASSUME TypeOK, JobParts, UNCHANGED jobVars, ~beside', 
         UNCHANGED <<loop, beside>> \/ (loop' = "ready" /\ beside' = (beside \/ running))
  PROVE JobParts'
<1>1. CASE UNCHANGED <<loop, beside>>
  BY <1>1 DEF JobParts, jobVars, taskVars, Holds, Journal, Posts, Reports, Told, Interruption, Outcome, ResultOfTask
<1>2. CASE loop' = "ready" /\ beside' = (beside \/ running)
  <2>1. ~running BY <1>2 DEF TypeOK, LoopTypes, AgentTypes
  <2>2. Holds' BY <1>2, <2>1 DEF JobParts, jobVars, Holds, RunTaskAwaits
  <2>3. Journal' BY <1>2, <2>1 DEF JobParts, jobVars, taskVars, Holds, Journal
  <2>4. Posts' BY <1>2 DEF Posts
  <2>5. Reports' BY <1>2 DEF JobParts, jobVars, taskVars, Reports, Told, Interruption, Outcome, ResultOfTask
  <2> QED BY <2>2, <2>3, <2>4, <2>5 DEF JobParts
<1> QED BY <1>1, <1>2

(* An aborted loop leaves the journal for the next one. *)
LEMMA Dies == ASSUME TypeOK, JobParts, LoopDies PROVE JobParts'
<1>1. /\ UNCHANGED <<pending, pendingLocal, active, taskVars, answer, arrived, job, reports>>
      /\ loop' = "off" /\ running' = FALSE /\ loop # "waiting"
      /\ reserved' = (reserved /\ ~running)
      /\ materials' = IF running /\ materials = pending THEN NoJob ELSE materials
  BY DEF LoopDies, FinishRun, centreVars, storeVars, postVars
<1>2. Holds' BY <1>1 DEF JobParts, Holds, RunTaskAwaits
<1>3. Journal' BY <1>1 DEF JobParts, Journal, taskVars
<1>4. Posts' BY <1>1 DEF Posts
<1>5. Reports' BY <1>1 DEF JobParts, Reports, taskVars, Told, Interruption, Outcome, ResultOfTask
<1> QED BY <1>2, <1>3, <1>4, <1>5 DEF JobParts

(* The loop goes round, and posts what it finds in the journal. *)
LEMMA Turns ==
  ASSUME TypeOK, JobParts, SessionReady \/ NothingTaken \/ LoopTurns PROVE JobParts'
<1>1. /\ UNCHANGED <<running, pending, pendingLocal, reserved, active, materials, taskVars,
                     job, reports>>
      /\ \/ loop \in {"ready", "top", "asking", "query"} /\ loop' \in {"off", "top"}
         \/ loop' \in {"asking", "query"} /\ pending = NoJob /\ loop \in {"top", "asking"}
         \/ loop = "top" /\ loop' = "posting" /\ pending # NoJob
            /\ answer' = RecoveredResult /\ arrived' = FALSE
  BY DEF JobParts, Holds, SessionReady, NothingTaken, LoopTurns, Post, centreVars, storeVars,
       slotVars, postVars
<1>2. Holds' BY <1>1 DEF JobParts, Holds, RunTaskAwaits
<1>3. Journal' BY <1>1 DEF JobParts, Journal, taskVars
<1>4. Posts'
  <2>1. ASSUME loop' = "posting" PROVE Posts'
    <3>1. ~running /\ active \notin Jobs BY <1>1, <2>1 DEF JobParts, Holds, RunTaskAwaits
    <3>2. pendingLocal => status # "active"
      BY <1>1, <2>1, <3>1 DEF JobParts, Journal, TypeOK, StoreTypes
    <3>3. pendingLocal => answer' \in Told
      BY <1>1, <2>1, <3>2 DEF JobParts, Journal, TypeOK, StoreTypes, RecoveredResult, RowFound,
         Outcome, Told, Interruption
    <3>4. ~pendingLocal => answer' = "interrupted" BY <1>1, <2>1 DEF RecoveredResult, RowFound
    <3>5. Told' = Told BY <1>1 DEF Told, Interruption, Outcome, ResultOfTask, taskVars
    <3> QED BY <1>1, <2>1, <3>2, <3>3, <3>4, <3>5 DEF Posts, taskVars
  <2> QED BY <2>1 DEF Posts
<1>5. Reports' BY <1>1 DEF JobParts, Reports, taskVars, Told, Interruption, Outcome, ResultOfTask
<1> QED BY <1>2, <1>3, <1>4, <1>5 DEF JobParts

(* A job whose claim was lost on the way is not this loop's. *)
LEMMA Lost == ASSUME TypeOK, JobParts, NEW j \in Jobs, JobLost(j) PROVE JobParts'
<1>1. /\ UNCHANGED <<running, pending, pendingLocal, reserved, active, materials, taskVars,
                     reports>>
      /\ loop = "asking" /\ loop' = "top"
      /\ job[j] = "queued" /\ job' = [job EXCEPT ![j] = "claimed"]
  BY DEF JobLost, CentreClaims, storeVars, slotVars, postVars
<1>2. Holds' BY <1>1 DEF JobParts, Holds, RunTaskAwaits
<1>3. Journal' BY <1>1 DEF JobParts, Journal, taskVars
<1>4. Posts' BY <1>1 DEF Posts
<1>5. Reports'
  <2>1. \A i \in Jobs : job'[i] \in {"queued", "claimed"} => job[i] \in {"queued", "claimed"}
    BY <1>1 DEF TypeOK, CentreTypes
  <2> QED BY <1>1, <2>1 DEF JobParts, Reports, taskVars, Told, Interruption, Outcome, ResultOfTask
<1> QED BY <1>2, <1>3, <1>4, <1>5 DEF JobParts

(* A job is taken when none is in the journal. *)
LEMMA Taken == ASSUME TypeOK, JobParts, NEW j \in Jobs, JobTaken(j) PROVE JobParts'
<1>1. /\ UNCHANGED <<active, materials, taskVars, reports>>
      /\ loop = "asking" /\ running' = TRUE /\ pending' = j /\ pendingLocal' = FALSE
      /\ job[j] = "queued" /\ job' = [job EXCEPT ![j] = "claimed"]
      /\ reserved' = (reserved \/ (active = NoJob /\ ~reserved))
      /\ \/ loop' = "materials" /\ active = NoJob /\ ~reserved
         \/ loop' = "posting" /\ answer' = "error" /\ arrived' = FALSE
  BY DEF JobTaken, CentreClaims, Post
<1>2. /\ pending = NoJob /\ ~running /\ ~reserved /\ materials = NoJob /\ active \notin Jobs
      /\ ~pendingLocal /\ reports[j] = {} /\ j \notin wrote \union forgotten /\ j # NoJob
  BY <1>1, NamesAssumption DEF JobParts, Holds, Journal, Reports, RunTaskAwaits
<1>3. Holds' BY <1>1, <1>2 DEF Holds, RunTaskAwaits
<1>4. Journal' BY <1>1, <1>2 DEF Journal, taskVars
<1>5. Posts' BY <1>1, <1>2 DEF Posts
<1>6. Reports'
  <2>1. \A i \in Jobs : job'[i] \in {"queued", "claimed"} => job[i] \in {"queued", "claimed"}
    BY <1>1 DEF TypeOK, CentreTypes
  <2>2. \A i \in Jobs : i # pending BY <1>2, NamesAssumption
  <2>3. \A i \in Jobs : job'[i] \in {"queued", "claimed"}
          => reports'[i] = {} /\ i \notin wrote' \union forgotten'
    BY <1>1, <2>1, <2>2 DEF JobParts, Reports, taskVars
  <2>4. \A i \in Jobs : Interruption(i)' = Interruption(i) BY <1>1 DEF Interruption, taskVars
  <2>5. /\ \A i \in Jobs : Consistent(reports[i], Interruption(i))'
        /\ \A i \in wrote' : (reports[i] \intersect {"cancelled", "interrupted"} \subseteq Interruption(i))'
    BY <1>1 DEF JobParts, Reports, Interruption, Consistent, taskVars
  <2> QED BY <1>1, <1>2, <2>3, <2>4, <2>5 DEF Reports
<1> QED BY <1>3, <1>4, <1>5, <1>6 DEF JobParts

(* Its local task begins in the slot that was reserved for it. *)
LEMMA Starts == ASSUME TypeOK, JobParts, JobStarts PROVE JobParts'
<1>1. /\ UNCHANGED <<pending, running, wrote, forgotten, reports>>
      /\ loop = "materials" /\ loop' = "waiting"
      /\ materials' = pending /\ active' = pending /\ reserved' = FALSE /\ pendingLocal' = TRUE
      /\ status' = "active" /\ write' = "none" /\ sent' = 0 /\ unsure' = FALSE
      /\ job' = [job EXCEPT ![pending] = "supplied"]
  BY DEF JobStarts, Supplied
<1>2. /\ running /\ pending \in Jobs /\ pending # NoJob /\ ~pendingLocal
      /\ pending \notin wrote \union forgotten /\ reports[pending] = {}
  BY <1>1 DEF JobParts, Holds, Journal, Reports, TypeOK, StoreTypes, RunTaskAwaits
<1>3. Holds' BY <1>1, <1>2 DEF Holds, RunTaskAwaits
<1>4. Journal' BY <1>1, <1>2 DEF Journal
<1>5. Posts' BY <1>1 DEF Posts
<1>6. Reports'
  <2>1. \A i \in Jobs : job'[i] \in {"queued", "claimed"} => job[i] \in {"queued", "claimed"}
    BY <1>1 DEF TypeOK, CentreTypes
  <2> QED BY <1>1, <1>2, <2>1 DEF JobParts, Reports, Interruption, Consistent
<1> QED BY <1>3, <1>4, <1>5, <1>6 DEF JobParts

(* Without materials the job is an error. *)
LEMMA NotStarted == ASSUME TypeOK, JobParts, JobNotStarted PROVE JobParts'
<1>1. /\ UNCHANGED <<pending, pendingLocal, running, reserved, active, materials, taskVars,
                     reports>>
      /\ loop = "materials" /\ loop' = "posting" /\ answer' = "error" /\ arrived' = FALSE
      /\ job' = [job EXCEPT ![pending] = IF job[pending] = "claimed" /\ pending \notin withdrawn
                                  THEN "supplied" ELSE @] \/ job' = job
  BY DEF JobNotStarted, Post, Supplied, storeVars, slotVars
<1>2. Holds' BY <1>1 DEF JobParts, Holds, RunTaskAwaits
<1>3. Journal' BY <1>1 DEF JobParts, Journal, taskVars
<1>4. Posts' BY <1>1 DEF JobParts, Posts, Journal
<1>5. Reports'
  <2>1. \A i \in Jobs : job'[i] \in {"queued", "claimed"} => job[i] \in {"queued", "claimed"}
    BY <1>1 DEF TypeOK, CentreTypes
  <2> QED BY <1>1, <2>1 DEF JobParts, Reports, taskVars, Told, Interruption, Outcome, ResultOfTask
<1> QED BY <1>2, <1>3, <1>4, <1>5 DEF JobParts

(* The task has left the slot: its result is the outcome. *)
LEMMA Ends == ASSUME TypeOK, JobParts, JobEnds PROVE JobParts'
<1>1. /\ UNCHANGED <<pending, pendingLocal, running, reserved, active, materials, taskVars,
                     job, reports>>
      /\ loop = "waiting" /\ loop' = "posting" /\ answer' = ResultOfTask /\ arrived' = FALSE
      /\ active # pending
  BY DEF JobEnds, Post, centreVars, storeVars, slotVars
<1>2. Holds' BY <1>1 DEF JobParts, Holds, RunTaskAwaits
<1>3. Journal' BY <1>1 DEF JobParts, Journal, taskVars
<1>4. pendingLocal /\ status # "active" /\ ResultOfTask = Outcome
  BY <1>1 DEF JobParts, Journal, Outcome, TypeOK, StoreTypes
<1>5. Outcome' = Outcome BY <1>1 DEF Outcome, ResultOfTask, taskVars
<1>6. Posts' BY <1>1, <1>4, <1>5 DEF Posts, Told, taskVars
<1>7. Reports' BY <1>1 DEF JobParts, Reports, taskVars, Told, Interruption, Outcome, ResultOfTask
<1> QED BY <1>2, <1>3, <1>6, <1>7 DEF JobParts

(* An answered post clears the journal of a job the centre has closed. *)
LEMMA Answered == ASSUME TypeOK, JobParts, PostAnswered PROVE JobParts'
<1>1. /\ UNCHANGED <<active, taskVars, job, reports>>
      /\ loop = "posting" /\ arrived /\ loop' = "top" /\ running' = FALSE
      /\ pending' = NoJob /\ pendingLocal' = FALSE
      /\ reserved' = (reserved /\ ~running)
      /\ materials' = IF running /\ materials = pending THEN NoJob ELSE materials
  BY DEF PostAnswered, FinishRun, centreVars
<1>2. Holds' BY <1>1 DEF JobParts, Holds, RunTaskAwaits
<1>3. Journal'
  <2>1. pending' \notin forgotten' BY <1>1, NamesAssumption DEF TypeOK, TaskTypes, taskVars
  <2> QED BY <1>1, <2>1 DEF JobParts, Holds, Journal, taskVars
<1>4. Posts' BY <1>1 DEF Posts
<1>5. job[pending] = "closed" BY <1>1 DEF JobParts, Posts
<1>6. Reports' BY <1>1, <1>5 DEF JobParts, Reports, taskVars, Told, Interruption, Outcome, ResultOfTask
<1> QED BY <1>2, <1>3, <1>4, <1>6 DEF JobParts

(* A lost post is posted again, at once or on the next turn. *)
LEMMA PostLoses == ASSUME TypeOK, JobParts, PostLost PROVE JobParts'
<1>1. /\ UNCHANGED <<pending, pendingLocal, active, taskVars, job, reports>>
      /\ loop = "posting"
      /\ \/ loop' = "posting" /\ answer' = answer /\ arrived' = FALSE
            /\ UNCHANGED <<running, reserved, materials>>
         \/ /\ loop' = "top" /\ running' = FALSE
            /\ reserved' = (reserved /\ ~running)
            /\ materials' = IF running /\ materials = pending THEN NoJob ELSE materials
  BY DEF PostLost, Post, FinishRun, centreVars, storeVars, slotVars
<1>2. Holds'
  <2>1. /\ active \notin Jobs /\ pending # NoJob
        /\ reserved => running
        /\ materials # NoJob => materials = pending /\ running
    BY <1>1 DEF JobParts, Holds, RunTaskAwaits
  <2>2. CASE loop' = "posting" BY <1>1, <2>1, <2>2 DEF JobParts, Holds, RunTaskAwaits
  <2>3. CASE loop' = "top" /\ running' = FALSE
    <3>1. reserved' = FALSE /\ materials' = NoJob BY <1>1, <2>1, <2>3
    <3> QED BY <1>1, <2>1, <2>3, <3>1 DEF Holds, RunTaskAwaits
  <2> QED BY <1>1, <2>2, <2>3
<1>3. Journal' BY <1>1 DEF JobParts, Holds, Journal, taskVars
<1>4. Told' = Told BY <1>1 DEF Told, Interruption, Outcome, ResultOfTask, taskVars
<1>5. Posts' BY <1>1, <1>4 DEF JobParts, Posts, taskVars
<1>6. Reports' BY <1>1 DEF JobParts, Reports, taskVars, Told, Interruption, Outcome, ResultOfTask
<1> QED BY <1>2, <1>3, <1>5, <1>6 DEF JobParts

(* What arrives agrees with what has arrived before. *)
LEMMA Arrives == ASSUME TypeOK, JobParts, PostArrives PROVE JobParts'
<1>1. /\ UNCHANGED <<pending, pendingLocal, running, reserved, active, materials, taskVars,
                     answer, loop>>
      /\ loop = "posting" /\ arrived' = TRUE
      /\ reports' = [reports EXCEPT ![pending] = @ \union {answer}]
      /\ job' = [job EXCEPT ![pending] = "closed"]
  BY DEF PostArrives, storeVars, slotVars
<1>2. pending \in Jobs /\ answer \in Results
  BY <1>1 DEF JobParts, Holds, TypeOK, StoreTypes, AgentTypes, RunTaskAwaits
<1>3. job'[pending] = "closed" /\ reports'[pending] = reports[pending] \union {answer}
  BY <1>1, <1>2 DEF TypeOK, CentreTypes
<1>4. \A i \in Jobs \ {pending} : job'[i] = job[i] /\ reports'[i] = reports[i]
  BY <1>1 DEF TypeOK, CentreTypes
<1>5. Holds' BY <1>1 DEF JobParts, Holds
<1>6. Journal' BY <1>1 DEF JobParts, Journal, taskVars
<1>7. Told' = Told /\ \A i \in Jobs : Interruption(i)' = Interruption(i)
  BY <1>1 DEF Told, Interruption, Outcome, ResultOfTask, taskVars
<1>8. Posts' BY <1>1, <1>3, <1>7 DEF JobParts, Posts, taskVars
<1>9. Reports'
  <2>1. pendingLocal => status # "active" /\ reports'[pending] \subseteq Told
    BY <1>1, <1>3 DEF JobParts, Posts, Reports
  <2>2. ~pendingLocal => reports'[pending] \subseteq {"error", "interrupted"}
    BY <1>1, <1>2, <1>3, NamesAssumption DEF JobParts, Posts, Reports
  <2>3. Consistent(reports'[pending], Interruption(pending))
    <3>1. Outcome \in Results BY DEF Outcome, ResultOfTask, Results, TypeOK, TaskTypes
    <3> QED BY <2>1, <2>2, <3>1 DEF Consistent, Told, TypeOK, StoreTypes
  <2>4. ASSUME pending \in wrote
        PROVE  reports'[pending] \intersect {"cancelled", "interrupted"} \subseteq Interruption(pending)
    <3>1. pendingLocal /\ sent = 1 /\ write = "account"
      BY <1>2, <2>4, NamesAssumption DEF JobParts, Journal, TypeOK, StoreTypes
    <3>2. status # "cancelled" /\ status # "active" BY <2>1, <3>1 DEF JobParts, Journal
    <3>3. Outcome \notin {"cancelled", "interrupted"} BY <3>1, <3>2 DEF Outcome, ResultOfTask
    <3> QED BY <2>1, <3>1, <3>3 DEF Told
  <2>5. \A i \in Jobs : Consistent(reports'[i], Interruption(i)')
    BY <1>4, <1>7, <2>3 DEF JobParts, Reports
  <2>6. \A i \in wrote' : reports'[i] \intersect {"cancelled", "interrupted"} \subseteq Interruption(i)'
    BY <1>1, <1>4, <1>7, <2>4 DEF JobParts, Reports, taskVars, TypeOK, CentreTypes
  <2>7. \A i \in Jobs : job'[i] \in {"queued", "claimed"} /\ i # pending'
          => reports'[i] = {} /\ i \notin wrote' \union forgotten'
    BY <1>1, <1>3, <1>4 DEF JobParts, Reports, taskVars
  <2> QED BY <1>1, <1>7, <2>1, <2>2, <2>5, <2>6, <2>7 DEF Reports, taskVars
<1> QED BY <1>5, <1>6, <1>8, <1>9 DEF JobParts

(* The local task goes on: nothing has been told of it yet. *)
LEMMA TaskGoesOn == ASSUME TypeOK, JobParts, TaskSteps \/ ControlSeen PROVE JobParts'
<1>1. UNCHANGED <<pending, pendingLocal, running, reserved, active, materials, answer,
                  arrived, loop, job, reports, forgotten>>
  BY DEF TaskSteps, ControlSeen, localUnchanged, centreVars, storeVars, slotVars, agentVars,
       postVars
<1>2. /\ active \in Jobs /\ active = pending /\ loop = "waiting" /\ pendingLocal
      /\ pending # NoJob /\ pending \notin forgotten
  BY NamesAssumption DEF TaskSteps, ControlSeen, JobParts, Holds, Journal, RunTaskAwaits,
       TypeOK, StoreTypes
<1>3. /\ status' \notin {"interrupted", "active"} \/ status' = status
      /\ status' = "succeeded" => sent' = 1 \/ write' = "none"
      /\ status' = "cancelled" => write' # "account"
      /\ sent' = 1 => write' # "none"
      /\ pending \in wrote' <=> sent' = 1 /\ write' = "account"
      /\ wrote' \subseteq wrote \union {pending} /\ wrote \subseteq wrote'
      /\ status = "active" \/ (status' = status /\ unsure' = unsure /\ wrote' = wrote)
  <2>1. /\ status = "succeeded" => sent = 1 \/ write = "none"
        /\ status = "cancelled" => write # "account"
        /\ sent = 1 => write # "none"
        /\ pending \in wrote <=> sent = 1 /\ write = "account"
    BY <1>2 DEF JobParts, Journal
  <2>2. CASE Task!Admit /\ UNCHANGED <<unsure, wrote>> BY <2>1, <2>2 DEF Task!Admit
  <2>3. CASE Task!SendWrite /\ unsure' = unsure
             /\ wrote' = IF write = "account" THEN wrote \union {active} ELSE wrote
    BY <1>2, <2>1, <2>3 DEF Task!SendWrite
  <2>4. CASE (Task!Succeed \/ Task!CancelTask) /\ UNCHANGED <<unsure, wrote>>
    BY <2>1, <2>4 DEF Task!Succeed, Task!CancelTask
  <2>5. CASE Task!FailTask /\ wrote' = wrote BY <2>1, <2>5 DEF Task!FailTask
  <2>6. CASE ControlSeen BY <2>4, <2>6 DEF ControlSeen
  <2>7. CASE TaskSteps BY <2>2, <2>3, <2>4, <2>5, <2>7 DEF TaskSteps
  <2> QED BY <2>6, <2>7
<1>4. Holds' BY <1>1 DEF JobParts, Holds
<1>5. Journal' BY <1>1, <1>2, <1>3 DEF JobParts, Journal
<1>6. Posts' BY <1>1, <1>2 DEF Posts
<1>7. Reports'
  <2>1. status = "active" => reports[pending] = {} BY <1>2 DEF JobParts, Reports
  <2>2. status # "active" => Told' = Told /\ reports[pending] \subseteq Told
    <3>1. status # "active" => status # "interrupted" BY <1>2 DEF JobParts, Journal
    <3>2. status # "active" => Outcome' = Outcome BY <1>3, <3>1 DEF Outcome, ResultOfTask
    <3>3. Interruption(pending)' = Interruption(pending) BY <1>1 DEF Interruption
    <3> QED BY <1>2, <3>2, <3>3 DEF Told, JobParts, Reports
  <2>3. \A i \in wrote' : (reports[i] \intersect {"cancelled", "interrupted"} \subseteq Interruption(i))'
    <3>1. \A i \in wrote : (reports[i] \intersect {"cancelled", "interrupted"} \subseteq Interruption(i))'
      BY <1>1 DEF JobParts, Reports, Interruption
    <3>2. CASE status = "active" BY <1>1, <1>3, <2>1, <3>1, <3>2
    <3>3. CASE status # "active" BY <1>3, <3>1, <3>3
    <3> QED BY <3>2, <3>3
  <2>4. \A i \in Jobs : job'[i] \in {"queued", "claimed"} /\ i # pending'
          => reports'[i] = {} /\ i \notin wrote' \union forgotten'
    BY <1>1, <1>3 DEF JobParts, Reports
  <2>5. pendingLocal' => reports'[pending'] \subseteq (IF status' = "active" THEN {} ELSE Told')
    BY <1>1, <1>3, <2>1, <2>2
  <2>6. \A i \in Jobs : Consistent(reports[i], Interruption(i))'
    BY <1>1 DEF JobParts, Reports, Consistent, Interruption
  <2> QED BY <1>1, <1>2, <2>3, <2>4, <2>5, <2>6 DEF JobParts, Reports
<1> QED BY <1>4, <1>5, <1>6, <1>7 DEF JobParts

(* The slot changes hands between jobs only. *)
LEMMA Leaves == ASSUME TypeOK, JobParts, TaskLeaves \/ ForeignTask PROVE JobParts'
<1>1. /\ UNCHANGED <<pending, pendingLocal, running, reserved, materials, taskVars, answer,
                     arrived, loop, job, reports>>
      /\ active' = NoJob \/ (active' = Foreign /\ ~reserved)
      /\ active \in Jobs => status # "active"
  BY NamesAssumption DEF TaskLeaves, ForeignTask, centreVars, storeVars, agentVars, postVars
<1>2. active' \notin Jobs BY <1>1, NamesAssumption
<1>3. Holds' BY <1>1, <1>2 DEF JobParts, Holds
<1>4. pendingLocal => status # "active"
  <2> SUFFICES ASSUME pendingLocal, status = "active" PROVE FALSE
    OBVIOUS
  <2> QED BY <1>1, NamesAssumption DEF JobParts, Journal, TypeOK, StoreTypes
<1>5. Journal'
  <2>1. pending \in forgotten => active' # pending
    BY <1>2 DEF TypeOK, TaskTypes
  <2> QED BY <1>1, <1>2, <1>4, <2>1 DEF JobParts, Journal, taskVars
<1>6. Told' = Told /\ \A i \in Jobs : Interruption(i)' = Interruption(i)
  <2>1. UNCHANGED <<status, write, unsure, forgotten, pending>> BY <1>1 DEF taskVars
  <2>2. Outcome' = Outcome BY <2>1 DEF Outcome, ResultOfTask
  <2>3. \A i \in Jobs : Interruption(i)' = Interruption(i) BY <2>1 DEF Interruption
  <2>4. Interruption(pending)' = Interruption(pending) BY <2>1 DEF Interruption
  <2> QED BY <2>2, <2>3, <2>4 DEF Told
<1>7. Posts' BY <1>1, <1>6 DEF JobParts, Posts, taskVars
<1>8. Reports'
  <2>1. \A i \in Jobs : Consistent(reports[i], Interruption(i))'
    BY <1>1, <1>6 DEF JobParts, Reports, Consistent
  <2> QED BY <1>1, <1>6, <2>1 DEF JobParts, Reports, taskVars, TypeOK, CentreTypes
<1> QED BY <1>3, <1>5, <1>7, <1>8 DEF JobParts

(* The row of the task in the journal is deleted: from then on it may also *)
(* be told as interrupted.                                                 *)
LEMMA Deleted == ASSUME TypeOK, JobParts, TaskDeleted PROVE JobParts'
<1>1. /\ UNCHANGED <<pending, pendingLocal, running, reserved, active, materials, answer, arrived,
                     loop, job, reports, status, write, sent, unsure, wrote>>
      /\ pendingLocal /\ active # pending /\ forgotten' = forgotten \union {pending}
  BY DEF TaskDeleted, RowFound, centreVars, storeVars, agentVars, postVars, slotVars
<1>2. /\ Outcome' = Outcome /\ Told \subseteq Told'
      /\ \A i \in Jobs : Interruption(i) \subseteq Interruption(i)'
      /\ \A i \in Jobs \ {pending} : i \in forgotten' <=> i \in forgotten
  BY <1>1 DEF Outcome, ResultOfTask, Told, Interruption
<1>3. Holds' BY <1>1 DEF JobParts, Holds
<1>4. Journal' BY <1>1 DEF JobParts, Journal
<1>5. Posts' BY <1>1, <1>2 DEF JobParts, Posts
<1>6. Reports'
  <2>1. \A i \in Jobs : Consistent(reports[i], Interruption(i))'
    BY <1>1, <1>2 DEF JobParts, Reports, Consistent
  <2>2. \A i \in wrote' : (reports[i] \intersect {"cancelled", "interrupted"} \subseteq Interruption(i))'
    BY <1>1, <1>2 DEF JobParts, Reports, TypeOK, CentreTypes
  <2> QED BY <1>1, <1>2, <2>1, <2>2 DEF JobParts, Reports
<1> QED BY <1>3, <1>4, <1>5, <1>6 DEF JobParts

(* The centre hands out again only what nothing has been told of. *)
LEMMA CentreMoves ==
  ASSUME TypeOK, JobParts,
         WriteGranted \/ \E j \in Jobs : CentreRequeues(j) \/ CentreWithdraws(j)
  PROVE  JobParts'
<1>1. /\ UNCHANGED <<running, pending, pendingLocal, reserved, active, materials, taskVars,
                     answer, arrived, loop, reports>>
      /\ \/ job' = job
         \/ \E j \in Jobs :
              \/ job[j] = "claimed" /\ job' = [job EXCEPT ![j] = "queued"]
              \/ job' = [job EXCEPT ![j] = IF @ = "supplied" THEN @ ELSE "closed"]
  BY DEF WriteGranted, CentreRequeues, CentreWithdraws, storeVars, slotVars, agentVars, postVars
<1>2. \A i \in Jobs : /\ job'[i] \in {"queued", "claimed"} => job[i] \in {"queued", "claimed"}
                      /\ job[i] = "closed" => job'[i] = "closed"
  BY <1>1 DEF TypeOK, CentreTypes
<1>3. Holds' BY <1>1 DEF JobParts, Holds
<1>4. Journal' BY <1>1 DEF JobParts, Journal, taskVars
<1>5. Told' = Told /\ \A i \in Jobs : Interruption(i)' = Interruption(i)
  <2>1. UNCHANGED <<status, write, unsure, forgotten, pending>> BY <1>1 DEF taskVars
  <2>2. Outcome' = Outcome BY <2>1 DEF Outcome, ResultOfTask
  <2>3. \A i \in Jobs : Interruption(i)' = Interruption(i) BY <2>1 DEF Interruption
  <2>4. Interruption(pending)' = Interruption(pending) BY <2>1 DEF Interruption
  <2> QED BY <2>2, <2>3, <2>4 DEF Told
<1>6. Posts'
  <2>1. loop = "posting" => pending \in Jobs BY DEF JobParts, Holds, TypeOK, StoreTypes,
       RunTaskAwaits
  <2> QED BY <1>1, <1>2, <1>5, <2>1 DEF JobParts, Posts, taskVars
<1>7. Reports'
  <2>1. \A i \in Jobs : Consistent(reports[i], Interruption(i))'
    BY <1>1, <1>5 DEF JobParts, Reports, Consistent
  <2> QED BY <1>1, <1>2, <1>5, <2>1 DEF JobParts, Reports, taskVars, TypeOK, CentreTypes
<1> QED BY <1>3, <1>4, <1>6, <1>7 DEF JobParts

(* After a crash the task of the journal is interrupted, unless it ended. *)
LEMMA Restarts == ASSUME TypeOK, JobParts, Restart PROVE JobParts'
<1>1. /\ UNCHANGED <<pending, pendingLocal, write, sent, unsure, wrote, forgotten, job, reports>>
      /\ running' = FALSE /\ reserved' = FALSE /\ active' = NoJob /\ materials' = NoJob
      /\ loop' \in {"ready", "off"}
      /\ status' = IF active \in Jobs /\ status = "active" THEN "interrupted" ELSE status
  BY DEF Restart, centreVars, storeVars
<1>2. Holds' BY <1>1, NamesAssumption DEF Holds, RunTaskAwaits
<1>3. pendingLocal => status' # "active"
  BY <1>1 DEF JobParts, Journal, TypeOK, StoreTypes
<1>4. Journal' BY <1>1, <1>3, NamesAssumption DEF JobParts, Journal
<1>5. Posts' BY <1>1 DEF Posts
<1>6. pendingLocal => reports[pending] \subseteq Told'
  <2>1. CASE status' = status BY <1>1, <1>3, <2>1 DEF JobParts, Reports, Told, Interruption, Outcome, ResultOfTask
  <2>2. CASE status = "active" BY <1>1, <2>2 DEF JobParts, Reports
  <2> QED BY <1>1, <2>1, <2>2
<1>7. Reports' BY <1>1, <1>3, <1>6 DEF JobParts, Reports, Interruption, Consistent
<1> QED BY <1>2, <1>4, <1>5, <1>7 DEF JobParts

(* A loop that was once started beside another is not forgotten. *)
LEMMA BesideStays == ASSUME TypeOK, Next, beside PROVE beside'
<1>1. CASE People \/ AdminAnswers \/ SwitchSteps \/ \E c \in Callers : OldLoopEnds(c)
  BY <1>1, Apart
<1>2. CASE Losses \/ Centre \/ Slot \/ Restart
  BY <1>2 DEF Losses, PostLost, JobLost, Centre, JobTaken, CentreRequeues, CentreWithdraws,
       NothingTaken, WriteGranted, Slot, TaskSteps, TaskLeaves, TaskDeleted, ForeignTask, localUnchanged,
       Restart, peopleVars
<1>3. CASE LoopSteps /\ ~\E c \in Callers : OldLoopEnds(c)
  BY <1>3 DEF LoopSteps, LoopDies, SessionReady, LoopTurns, JobStarts, JobNotStarted,
       ControlSeen,
       JobEnds, PostArrives, PostAnswered, peopleVars
<1> QED BY <1>1, <1>2, <1>3 DEF Next

(* Every step keeps what is known of the job, as long as no second loop    *)
(* runs beside it.                                                         *)
LEMMA JobKept == ASSUME TypeOK, JobParts, Next, ~beside' PROVE JobParts'
<1>1. CASE People \/ AdminAnswers \/ SwitchSteps \/ \E c \in Callers : OldLoopEnds(c)
  BY <1>1, Apart, ApartKeeps
<1>2. CASE Losses BY <1>2, Lost, PostLoses DEF Losses
<1>3. CASE Centre BY <1>3, Taken, CentreMoves, Turns DEF Centre
<1>4. CASE Slot BY <1>4, TaskGoesOn, Leaves, Deleted DEF Slot
<1>5. CASE LoopSteps /\ ~\E c \in Callers : OldLoopEnds(c)
  BY <1>5, Dies, Turns, Starts, NotStarted, TaskGoesOn, Ends, Arrives, Answered DEF LoopSteps
<1>6. CASE Restart BY <1>6, Restarts
<1> QED BY <1>1, <1>2, <1>3, <1>4, <1>5, <1>6 DEF Next
-----------------------------------------------------------------------------
(* The loops, while requests do not meet. *)

(* The loop and its job start no loop and wait for none. *)
LEMMA LoopsApart ==
  ASSUME TypeOK, Loops, LoopSteps \/ Losses \/ Centre \/ Slot
  PROVE  Loops'
<1>1. CASE LoopDies
  <2>1. /\ UNCHANGED <<admin, switch, untracked, controller, mode>> /\ loop' = "off"
        /\ awaits' = [c \in Callers |-> IF awaits[c] = "loop" THEN "nothing" ELSE awaits[c]]
    BY <1>1 DEF LoopDies, LoopEnded, storeVars
  <2>2. \A c \in Callers : awaits'[c] = "nothing" BY <2>1 DEF Loops, TypeOK, LoopTypes
  <2> QED BY <2>1, <2>2 DEF Loops, Callers
<1>2. CASE \E c \in Callers : OldLoopEnds(c) BY <1>2 DEF OldLoopEnds, Loops
<1>3. ASSUME UNCHANGED <<admin, switch, awaits, untracked, controller, mode>>,
                         loop = "off" => loop' = "off"
      PROVE  Loops'
  BY <1>3 DEF Loops
<1>4. CASE LoopSteps /\ ~LoopDies /\ ~\E c \in Callers : OldLoopEnds(c)
  <2>1. UNCHANGED <<admin, switch, awaits, untracked, controller, mode>> /\ (loop = "off" => loop' = "off")
    BY <1>4 DEF LoopSteps, SessionReady, LoopTurns, JobStarts, JobNotStarted, ControlSeen,
         JobEnds,
         PostArrives, PostAnswered, storeVars, agentVars, peopleVars
  <2> QED BY <1>3, <2>1
<1>5. CASE Losses \/ Centre \/ Slot
  <2>1. UNCHANGED <<admin, switch, awaits, untracked, controller, mode>> /\ (loop = "off" => loop' = "off")
    BY <1>5 DEF Losses, PostLost, JobLost, Centre, JobTaken, CentreRequeues, CentreWithdraws,
         NothingTaken, WriteGranted, Slot, TaskSteps, TaskLeaves, TaskDeleted, ForeignTask, localUnchanged,
         storeVars, agentVars, peopleVars
  <2> QED BY <1>3, <2>1
<1> QED BY <1>1, <1>2, <1>4, <1>5

(* After stopLoops the loop is off or somebody waits for it. *)
LEMMA Stops ==
  ASSUME TypeOK, NEW caller \in Callers, StopLoops(caller), Loops, awaits[caller] # "loop"
  PROVE  /\ controller' = FALSE /\ loop' = loop /\ untracked' = untracked
         /\ awaits'[caller] \in {"loop", "nothing"}
         /\ \A c \in Callers \ {caller} : awaits'[c] = awaits[c]
         /\ loop = "off" \/ \E c \in Callers : awaits'[c] = "loop"
<1>1. controller' = FALSE /\ loop' = loop /\ untracked' = untracked BY DEF StopLoops
<1>2. awaits' = [awaits EXCEPT ![caller] = IF controller /\ ~untracked /\ loop # "off" THEN "loop" ELSE "nothing"]
  BY DEF StopLoops
<1>3. awaits'[caller] = (IF controller /\ ~untracked /\ loop # "off" THEN "loop" ELSE "nothing")
      /\ \A c \in Callers \ {caller} : awaits'[c] = awaits[c]
  BY <1>2 DEF TypeOK, LoopTypes
<1>4. ASSUME loop # "off" PROVE \E c \in Callers : awaits'[c] = "loop"
  <2>1. CASE controller BY <1>3, <1>4, <2>1 DEF Loops
  <2>2. CASE ~controller
    <3>1. PICK c \in Callers : awaits[c] = "loop" BY <1>4, <2>2 DEF Loops
    <3>. QED BY <1>3, <1>4, <2>2, <3>1
  <2> QED BY <2>1, <2>2
<1> QED BY <1>1, <1>3, <1>4

(* When nobody waits, startLoops finds the last loop gone. *)
LEMMA Starting ==
  ASSUME TypeOK, Loops, StartLoops, ~controller => \A c \in Callers : awaits[c] = "nothing"
  PROVE  /\ controller' = TRUE /\ awaits' = awaits /\ ~untracked'
         /\ ~controller => loop = "off" /\ loop' = "ready" /\ beside' = (beside \/ running)
         /\ controller => loop' = loop /\ beside' = beside
<1>1. CASE controller BY <1>1 DEF StartLoops, loopsUnchanged, Loops, TypeOK, LoopTypes
<1>2. CASE ~controller
  <2>1. loop = "off" BY <1>2 DEF Loops
  <2>2. awaits' = [c \in Callers |-> awaits[c]] BY <1>2 DEF StartLoops
  <2>3. awaits' = awaits BY <2>2 DEF TypeOK, LoopTypes
  <2> QED BY <1>2, <2>1, <2>3 DEF StartLoops
<1> QED BY <1>1, <1>2

(* Pairing, the change of the origin and the end of the pairing. *)
LEMMA AdminKeeps ==
  ASSUME TypeOK, Loops, AdminAsks \/ AdminAnswers, ~overlapped'
  PROVE  Loops' /\ (controller' /\ ~controller => loop = "off")
<1> USE DEF Callers
<1>1. /\ switch = "idle" /\ switch' = switch /\ mode' = mode
      /\ awaits["switch"] # "loop" /\ awaits["switch"] # "old loop" /\ awaits["admin"] # "old loop"
  <2>1. switch = "idle"
    <3>1. CASE AdminAsks BY <3>1 DEF AdminAsks
    <3>2. CASE AdminAnswers
      <4>1. admin # "idle"
        BY <3>2 DEF AdminAnswers, AdminRefused, PairingAccepted, Activated, OriginVerified,
             OriginChanged, Continuing, Released, Cleared
      <4> QED BY <4>1 DEF Loops
    <3> QED BY <3>1, <3>2
  <2>2. switch' = switch /\ mode' = mode
    BY DEF AdminAsks, AdminAnswers, AdminRefused, PairingAccepted, Activated, OriginVerified,
         OriginChanged, Released, Cleared, adminUnchanged
  <2> QED BY <2>1, <2>2 DEF Loops
<1>2. CASE /\ loopsUnchanged /\ awaits["admin"] # "loop"
           /\ admin' \in {"pairing", "verifying"} => mode = "provisioning_agent"
           /\ admin' \in {"idle", "pairing", "verifying", "leaving"}
  BY <1>1, <1>2 DEF loopsUnchanged, Loops
<1>3. CASE /\ StopLoops("admin") /\ awaits["admin"] # "loop"
           /\ admin' \in {"activating", "restarting"} => mode = "provisioning_agent"
           /\ admin' \in {"activating", "restarting", "clearing"}
  <2>1. /\ controller' = FALSE /\ loop' = loop /\ untracked' = untracked
        /\ awaits'["admin"] \in {"loop", "nothing"} /\ awaits'["switch"] = awaits["switch"]
        /\ loop = "off" \/ \E c \in Callers : awaits'[c] = "loop"
    BY <1>3, Stops
  <2> QED BY <1>1, <1>3, <2>1 DEF Loops
<1>4. CASE /\ StartLoops /\ awaits["admin"] = "nothing"
           /\ admin' = "idle" /\ mode = "provisioning_agent"
  <2>1. \A c \in Callers : awaits[c] = "nothing" BY <1>1, <1>4 DEF TypeOK, LoopTypes
  <2>2. /\ controller' = TRUE /\ awaits' = awaits /\ ~untracked'
        /\ ~controller => loop = "off"
    BY <1>4, <2>1, Starting
  <2> QED BY <1>1, <1>4, <2>1, <2>2 DEF Loops
<1>5. CASE AdminAsks BY <1>2, <1>3, <1>5 DEF AdminAsks, Loops
<1>6. CASE AdminRefused \/ Cleared
  BY <1>2, <1>6 DEF AdminRefused, Cleared, Stopped, Loops
<1>7. CASE PairingAccepted BY <1>2, <1>3, <1>7 DEF PairingAccepted, Loops
<1>8. CASE OriginVerified \/ Released BY <1>3, <1>8 DEF OriginVerified, Released, Loops
<1>9. CASE Activated BY <1>2, <1>4, <1>9 DEF Activated, Stopped, Loops
<1>10. CASE OriginChanged BY <1>4, <1>10 DEF OriginChanged, Continuing, Stopped, Loops
<1> QED BY <1>5, <1>6, <1>7, <1>8, <1>9, <1>10 DEF AdminAnswers

(* The switch of the mode, both ways. *)
LEMMA SwitchKeeps ==
  ASSUME TypeOK, Loops, Suspend \/ RestoreAgent \/ SwitchSteps, ~overlapped'
  PROVE  Loops' /\ (controller' /\ ~controller => loop = "off")
<1> USE DEF Callers
<1>1. /\ admin = "idle" /\ admin' = admin
      /\ awaits["admin"] # "loop" /\ awaits["switch"] # "old loop" /\ awaits["admin"] # "old loop"
  BY DEF Suspend, RestoreAgent, SwitchSteps, SuspendWoken, Suspended, PortalOpened, Restored,
       switchBegins, Loops, switchUnchanged
<1>2. CASE RestoreAgent
  BY <1>1, <1>2 DEF RestoreAgent, loopsUnchanged, switchBegins, Loops
<1>6. CASE Suspended
  <2>1. loop = "off" /\ ~controller BY <1>1, <1>6 DEF Suspended, Stopped, Loops
  <2> QED BY <1>1, <1>6, <2>1 DEF Suspended, loopsUnchanged, Stopped, Loops
<1>7. CASE PortalOpened
  BY <1>1, <1>7 DEF PortalOpened, loopsUnchanged, Loops
<1>3. CASE Suspend /\ running
  BY <1>1, <1>3 DEF Suspend, loopsUnchanged, switchBegins, Loops
<1>4. CASE (Suspend /\ ~running) \/ SuspendWoken
  <2>1. /\ StopLoops("switch") /\ awaits["switch"] # "loop" /\ switch' = "stopping" /\ mode' = mode
    BY <1>4 DEF Suspend, SuspendWoken, switchBegins, Loops
  <2>2. /\ controller' = FALSE /\ loop' = loop /\ untracked' = untracked
        /\ awaits'["switch"] \in {"loop", "nothing"} /\ awaits'["admin"] = awaits["admin"]
        /\ loop = "off" \/ \E c \in Callers : awaits'[c] = "loop"
    BY <2>1, Stops
  <2> QED BY <1>1, <2>1, <2>2 DEF Loops
<1>5. CASE Restored
  <2>1. /\ awaits["switch"] = "nothing" /\ awaits["admin"] = "nothing" /\ loop = "off" /\ ~controller
    BY <1>1, <1>5 DEF Restored, Loops, TypeOK, LoopTypes
  <2>2. CASE StartLoops
    <3>1. controller' = TRUE /\ awaits' = awaits /\ ~untracked' BY <2>1, <2>2, Starting
    <3> QED BY <1>1, <1>5, <2>1, <3>1 DEF Restored, Loops
  <2>3. CASE loopsUnchanged BY <1>1, <1>5, <2>1, <2>3 DEF Restored, loopsUnchanged, Loops
  <2> QED BY <1>5, <2>2, <2>3 DEF Restored
<1> QED BY <1>2, <1>3, <1>4, <1>5, <1>6, <1>7 DEF SwitchSteps, Suspend

(* A crash ends every request and every loop. *)
LEMMA LoopsRestart == ASSUME TypeOK, Loops, Restart PROVE Loops'
  BY DEF Restart, Loops, Callers, storeVars

(* Two requests that have met are not forgotten. *)
LEMMA OverlapStays == ASSUME TypeOK, Next, overlapped PROVE overlapped'
<1>1. CASE People \/ AdminAnswers \/ SwitchSteps
  BY <1>1 DEF People, AdminAsks, Suspend, RestoreAgent, SessionChanges, switchBegins,
       AdminAnswers, AdminRefused, PairingAccepted, Activated, OriginVerified, OriginChanged,
       Released, Cleared, SwitchSteps, SuspendWoken, Suspended, PortalOpened, Restored,
       peopleVars
<1>2. CASE Losses \/ Centre \/ Slot \/ Restart
  BY <1>2 DEF Losses, PostLost, JobLost, Centre, JobTaken, CentreRequeues, CentreWithdraws,
       NothingTaken, WriteGranted, Slot, TaskSteps, TaskLeaves, TaskDeleted, ForeignTask, localUnchanged,
       Restart, peopleVars
<1>3. CASE LoopSteps
  BY <1>3 DEF LoopSteps, LoopDies, SessionReady, LoopTurns, JobStarts, JobNotStarted,
       ControlSeen,
       JobEnds, PostArrives, PostAnswered, OldLoopEnds, peopleVars
<1> QED BY <1>1, <1>2, <1>3 DEF Next

(* As long as requests do not meet, every step keeps Loops, and starts a   *)
(* loop only when the last one is off.                                     *)
LEMMA LoopsKept ==
  ASSUME TypeOK, Loops, Next, ~overlapped'
  PROVE  Loops' /\ (controller' /\ ~controller /\ crashes' = crashes => loop = "off")
<1>1. CASE LoopSteps \/ Losses \/ Centre \/ Slot
  <2>1. controller' = controller
    BY <1>1 DEF LoopSteps, LoopDies, SessionReady, LoopTurns, JobStarts, JobNotStarted,
         ControlSeen, JobEnds, PostArrives, PostAnswered, OldLoopEnds, Losses, PostLost,
         JobLost,
         Centre, JobTaken, CentreRequeues, CentreWithdraws, NothingTaken, WriteGranted,
         Slot, TaskSteps, TaskLeaves, TaskDeleted, ForeignTask, localUnchanged, agentVars
  <2> QED BY <1>1, <2>1, LoopsApart
<1>2. CASE AdminAsks \/ AdminAnswers BY <1>2, AdminKeeps
<1>3. CASE Suspend \/ RestoreAgent \/ SwitchSteps BY <1>3, SwitchKeeps
<1>4. CASE SessionChanges
  BY <1>4 DEF SessionChanges, Loops, agentVars, peopleVars, storeVars
<1>5. CASE Restart
  <2>1. crashes' # crashes
    BY <1>5 DEF Restart
  <2> QED BY <1>5, <2>1, LoopsRestart
<1> QED BY <1>1, <1>2, <1>3, <1>4, <1>5 DEF Next, People
-----------------------------------------------------------------------------
(* The inductive invariant and what follows from it. *)

(* It holds at the start, *)
LEMMA InvInit == Init => LoopsInv
<1> SUFFICES ASSUME Init PROVE LoopsInv
  OBVIOUS
<1>1. TypeOK
  <2>1. CentreTypes BY DEF Init, CentreTypes
  <2>2. StoreTypes BY DEF Init, StoreTypes, Modes
  <2>3. LoopTypes BY DEF Init, LoopTypes, LoopAwaits, Callers
  <2>4. AgentTypes BY DEF Init, AgentTypes, Results
  <2>5. SlotTypes BY DEF Init, SlotTypes
  <2>6. TaskTypes
    <3>1. 0 \in 0 .. 1 OBVIOUS
    <3> QED BY <3>1 DEF Init, TaskTypes, Task!Endings
  <2>7. PeopleTypes BY DEF Init, PeopleTypes
  <2> QED BY <2>1, <2>2, <2>3, <2>4, <2>5, <2>6, <2>7 DEF TypeOK
<1>2. Holds BY NamesAssumption DEF Init, Holds, RunTaskAwaits
<1>3. Journal BY NamesAssumption DEF Init, Journal
<1>4. Posts BY DEF Init, Posts
<1>5. Reports BY DEF Init, Reports, Consistent
<1>6. Loops BY DEF Init, Loops, Callers
<1>7. ~beside BY DEF Init
<1> QED BY <1>1, <1>2, <1>3, <1>4, <1>5, <1>6, <1>7 DEF LoopsInv, JobInv, JobParts

(* and every step keeps it: a loop started while the last one is off is    *)
(* not started beside a job.                                               *)
LEMMA InvKept == LoopsInv /\ [Next]_vars => LoopsInv'
<1> SUFFICES ASSUME LoopsInv, [Next]_vars PROVE LoopsInv'
  OBVIOUS
<1> USE DEF LoopsInv, JobInv
<1>1. TypeOK' BY TypesKept
<1>2. CASE Next
  <2>1. ~beside' => JobParts' BY <1>2, BesideStays, JobKept
  <2>2. ASSUME ~overlapped' PROVE ~beside' /\ Loops'
    <3>1. ~overlapped /\ ~beside /\ Loops BY <1>2, <2>2, OverlapStays
    <3>2. Loops' /\ (controller' /\ ~controller /\ crashes' = crashes => loop = "off")
      BY <1>2, <2>2, <3>1, LoopsKept
    <3>3. loop = "off" => ~running BY <3>1 DEF JobParts, Holds, RunTaskAwaits
    <3>4. ~beside'
      <4>1. CASE People \/ AdminAnswers \/ SwitchSteps \/ \E c \in Callers : OldLoopEnds(c)
        <5>1. crashes' = crashes
          BY <4>1 DEF People, AdminAsks, Suspend, RestoreAgent, SessionChanges, switchUnchanged,
               adminUnchanged, boundVars, OldLoopEnds, AdminAnswers, AdminRefused,
               PairingAccepted, Activated, OriginVerified, OriginChanged, Released, Cleared,
               SwitchSteps, SuspendWoken, Suspended, PortalOpened, Restored
        <5> QED BY <3>1, <3>2, <3>3, <4>1, <5>1, Apart
      <4>2. CASE Losses \/ Centre \/ Slot \/ Restart
        BY <3>1, <4>2 DEF Losses, PostLost, JobLost, Centre, JobTaken, CentreRequeues,
             CentreWithdraws, NothingTaken, WriteGranted, Slot, TaskSteps, TaskLeaves,
             TaskDeleted, ForeignTask, localUnchanged, Restart, peopleVars
      <4>3. CASE LoopSteps /\ ~\E c \in Callers : OldLoopEnds(c)
        BY <3>1, <4>3 DEF LoopSteps, LoopDies, SessionReady, LoopTurns, JobStarts,
             JobNotStarted, ControlSeen, JobEnds, PostArrives, PostAnswered, peopleVars
      <4> QED BY <1>2, <4>1, <4>2, <4>3 DEF Next
    <3> QED BY <3>2, <3>4
  <2> QED BY <1>1, <2>1, <2>2
<1>3. CASE UNCHANGED vars
  <2>1. UNCHANGED <<jobVars, loop, beside>>
    BY <1>3 DEF vars, centreVars, storeVars, agentVars, postVars, slotVars, taskVars,
         peopleVars,
         jobVars
  <2>2. UNCHANGED <<admin, switch, awaits, untracked, controller, mode, overlapped>>
    BY <1>3 DEF vars, agentVars, peopleVars, storeVars
  <2>3. ~beside' => JobParts' BY <2>1, ApartKeeps
  <2>4. Loops => Loops' BY <2>1, <2>2 DEF Loops
  <2> QED BY <1>1, <2>1, <2>2, <2>3, <2>4
<1> QED BY <1>2, <1>3

(* So it holds in every state the agent can reach. *)
LEMMA InvHolds == Spec => []LoopsInv
BY InvInit, InvKept, PTL DEF Spec

(* Every variable of the agent stays in its range, whatever crashes, is    *)
(* lost or is asked for.                                                   *)
THEOREM AgentTyped == Spec => []TypeOK
<1>1. LoopsInv => TypeOK BY DEF LoopsInv, JobInv
<1> QED BY <1>1, InvHolds, PTL

(* The slot, the reservation and the materials are held for the job in the *)
(* journal alone (runTask and its finally clause in client.ts, the slot of *)
(* the orchestrator, the scope of the resolver).                           *)
THEOREM HeldForJob == Spec => []HeldForPendingJob
<1>1. LoopsInv => HeldForPendingJob
  BY DEF LoopsInv, JobInv, JobParts, Holds, HeldForPendingJob
<1> QED BY <1>1, InvHolds, PTL

(* What the centre is told of a job is true of the account it is about     *)
(* (terminalPayload and recoverPendingResult).                             *)
THEOREM ReportsTrue == Spec => []ReportsAreTrue
<1>1. LoopsInv => ReportsAreTrue
  <2> SUFFICES ASSUME LoopsInv, ~beside, NEW j \in Jobs
               PROVE  /\ j \in wrote => "cancelled" \notin reports[j]
                      /\ j \in wrote \ forgotten => "interrupted" \notin reports[j]
                      /\ "success" \in reports[j] /\ write = "account" /\ materials = j => j \in wrote
    BY DEF ReportsAreTrue
  <2> USE DEF LoopsInv, JobInv, JobParts
  <2>1. /\ j \in wrote => "cancelled" \notin reports[j]
        /\ j \in wrote \ forgotten => "interrupted" \notin reports[j]
    BY DEF Reports, Interruption
  <2>2. ASSUME "success" \in reports[j], write = "account", materials = j PROVE j \in wrote
    <3>1. pending = j /\ j # NoJob BY <2>2, NamesAssumption DEF Holds
    <3>2. pendingLocal BY <2>2, <3>1 DEF Reports
    <3>3. Outcome = "success" BY <2>2, <3>1, <3>2 DEF Reports, Told, Interruption
    <3>4. status = "succeeded" BY <3>3 DEF Outcome, ResultOfTask
    <3>5. sent = 1 BY <2>2, <3>2, <3>4 DEF Journal
    <3> QED BY <2>2, <3>1, <3>2, <3>5 DEF Journal
  <2> QED BY <2>1, <2>2
<1> QED BY <1>1, InvHolds, PTL

(* What reaches the centre about a job in several posts does not           *)
(* contradict itself about success.                                        *)
THEOREM ReportsConsistent == Spec => []ReportsAgree
<1>1. LoopsInv => ReportsAgree
  <2> SUFFICES ASSUME LoopsInv, ~beside, NEW j \in Jobs
               PROVE  /\ Cardinality(reports[j] \ {"error", "interrupted"}) <= 1
                      /\ "success" \in reports[j]
                           => reports[j] \subseteq {"success"} \union Interruption(j)
    BY DEF ReportsAgree, Interruption
  <2>1. Consistent(reports[j], Interruption(j)) BY DEF LoopsInv, JobInv, JobParts, Reports
  <2>2. PICK r \in Results : reports[j] \ {"error", "interrupted"} \subseteq {r}
    BY <2>1 DEF Consistent, Results, Interruption
  <2>3. IsFiniteSet({r}) /\ Cardinality({r}) = 1 BY FS_Singleton
  <2>4. Cardinality(reports[j] \ {"error", "interrupted"}) <= Cardinality({r})
    BY <2>2, <2>3, FS_Subset
  <2>5. "success" \in reports[j] => reports[j] \subseteq {"success"} \union Interruption(j)
    BY <2>1 DEF Consistent, Interruption
  <2> QED BY <2>3, <2>4, <2>5
<1> QED BY <1>1, InvHolds, PTL

(* Pairing and switching, one after the other, start no loop beside one    *)
(* that still runs (startLoops and stopLoops).                             *)
THEOREM LoopsApartFromEachOther == Spec => LoopsNeverOverlap
<1>1. LoopsInv /\ [Next]_vars
        => [~overlapped' /\ ~controller /\ controller' /\ crashes' = crashes => loop = "off"]_vars
  <2> SUFFICES ASSUME LoopsInv, Next, ~overlapped', ~controller, controller', crashes' = crashes
               PROVE  loop = "off"
    OBVIOUS
  <2>1. TypeOK /\ Loops BY OverlapStays DEF LoopsInv, JobInv
  <2> QED BY <2>1, LoopsKept
<1> QED BY <1>1, InvHolds, PTL DEF Spec, LoopsNeverOverlap

(* A loop is started beside one with a job only by requests that meet.     *)
THEOREM NothingBeside == Spec => [](beside => overlapped)
<1>1. LoopsInv => (beside => overlapped) BY DEF LoopsInv
<1> QED BY <1>1, InvHolds, PTL

(* In the mode of the account pool the agent is stopped, unless requests   *)
(* meet (suspend, restore and switchMode).                                 *)
THEOREM AgentStopped == Spec => []ModesExclude
<1>1. LoopsInv => ModesExclude BY DEF LoopsInv, Loops, ModesExclude
<1> QED BY <1>1, InvHolds, PTL
=============================================================================
