------------------------------- MODULE Agent -------------------------------
(***************************************************************************)
(* The provisioning agent (ProvisioningAgentClient): its job loop against  *)
(* the central pool, the result it owes the centre across crashes, pairing *)
(* and its end, the switch of the pool connection mode, and the execution  *)
(* slot of the orchestrator it shares with the tasks of the web page.      *)
(*                                                                         *)
(* An action is the code between two awaits; loop names the await the job  *)
(* loop is suspended at.  The local task of a job is what TaskLifecycle    *)
(* promises of it.  The centre is external and modelled from the requests  *)
(* the agent makes.  The heartbeat, the events of a task and the display   *)
(* of connected and lastError have no effect on the rest and are left out. *)
(***************************************************************************)
EXTENDS Naturals, FiniteSets

CONSTANTS
  Jobs,          \* the task jobs the centre may hand out
  NoJob,
  Foreign,       \* stands for a task of this service that is no job
  MaxCrashes, MaxRequests, MaxLosses    \* bounds on crashes, on requests of
                                        \* people, on posts that get lost

ASSUME NamesAssumption == NoJob \notin Jobs /\ Foreign \notin Jobs /\ NoJob # Foreign
ASSUME BoundsAssumption == {MaxCrashes, MaxRequests, MaxLosses} \subseteq Nat

VARIABLES
  (* The centre. *)
  job,          \* how each job stands there
  withdrawn,    \* jobs whose cancellation has been asked for
  granted,      \* jobs that were allowed to begin their write
  reports,      \* the results that have reached the centre for each job
  device,       \* the centre accepts the token of this device
  (* Kept across a crash. *)
  saved,        \* origin, device and token are stored
  pending,      \* provisioning_agent_active_central_task
  pendingLocal, \* provisioning_agent_active_local_task is set
  mode,         \* the pool connection mode
  (* The agent. *)
  paired,       \* #configuration is set
  controller,   \* #controller is set
  loop,         \* where the job loop is
  aborted,      \* its signal has fired
  running,      \* #runningTask
  suspending,   \* #suspendRequested
  answer,       \* the result being posted
  again,        \* the catch clause of runTask posts it once more
  arrived,      \* this post has reached the centre
  auth,         \* the backend session is authenticated
  (* The orchestrator and the resolver. *)
  active,       \* #active: the job, the foreign task or none
  reserved,     \* #externalReservation
  materials,    \* the scope of RoutedAccountPoolResolver.#remote
  status, write, sent,    \* the local task of the last job
  unsure,       \* it failed with a code that says the result is uncertain
  wrote,        \* jobs whose write has been sent to an account
  forgotten,    \* jobs whose task row was deleted while a result was owed
  (* Requests of people in progress. *)
  admin,        \* pair, changeOrigin or disconnect
  switch,       \* switchMode
  awaits,       \* the loops that each of the two waits to see end
  untracked,    \* #loops is empty though a loop was started
  overlapped,   \* of the model: the two were in progress at once
  beside,       \* of the model: a loop was started beside one that ran a job
  crashes, requests, losses

Task == INSTANCE TaskLifecycle WITH Writes <- {"account"}

centreVars == <<job, withdrawn, granted, reports, device>>
storeVars == <<saved, pending, pendingLocal, mode>>
postVars == <<answer, again, arrived>>
agentVars == <<paired, controller, loop, aborted, running, suspending, postVars>>
slotVars == <<active, reserved, materials>>
taskVars == <<status, write, sent, unsure, wrote, forgotten>>
peopleVars == <<admin, switch, requests, awaits, untracked, overlapped, beside>>
boundVars == <<crashes, losses>>
vars == <<centreVars, storeVars, agentVars, auth, slotVars, taskVars,
          peopleVars, boundVars>>

Results == {"success", "cancelled", "error", "uncertain", "interrupted"}
RunTaskAwaits == {"materials", "waiting", "posting"}
LoopAwaits == {"off", "ready", "top", "asking", "query"} \union RunTaskAwaits
Modes == {"account_pool", "provisioning_agent"}
Callers == {"admin", "switch"}

(* What the variables range over. *)
CentreTypes ==
  /\ job \in [Jobs -> {"queued", "claimed", "supplied", "closed"}]
  /\ withdrawn \subseteq Jobs /\ granted \subseteq Jobs /\ wrote \subseteq Jobs
  /\ reports \in [Jobs -> SUBSET Results] /\ device \in BOOLEAN
StoreTypes ==
  /\ pending \in Jobs \union {NoJob} /\ pendingLocal \in BOOLEAN
  /\ saved \in BOOLEAN /\ mode \in Modes
LoopTypes ==
  /\ loop \in LoopAwaits /\ controller \in BOOLEAN /\ aborted \in BOOLEAN
  /\ beside \in BOOLEAN /\ untracked \in BOOLEAN /\ awaits \in [Callers -> {"nothing", "loop", "old loop"}]
AgentTypes ==
  /\ paired \in BOOLEAN /\ running \in BOOLEAN /\ suspending \in BOOLEAN /\ auth \in BOOLEAN
  /\ answer \in Results /\ again \in BOOLEAN /\ arrived \in BOOLEAN
SlotTypes ==
  /\ materials \in Jobs \union {NoJob} /\ active \in Jobs \union {NoJob, Foreign}
  /\ reserved \in BOOLEAN
TaskTypes ==
  /\ status \in Task!Endings \union {"active"} /\ write \in {"none", "note", "account"}
  /\ sent \in 0 .. 1 /\ unsure \in BOOLEAN /\ forgotten \subseteq Jobs
PeopleTypes ==
  /\ admin \in {"idle", "pairing", "activating", "verifying", "restarting", "leaving", "clearing"}
  /\ switch \in {"idle", "waiting", "stopping", "portal", "restoring"}
  /\ overlapped \in BOOLEAN
TypeOK ==
  CentreTypes /\ StoreTypes /\ LoopTypes /\ AgentTypes /\ SlotTypes /\ TaskTypes /\ PeopleTypes

Init ==
  /\ job = [j \in Jobs |-> "queued"] /\ reports = [j \in Jobs |-> {}]
  /\ withdrawn = {} /\ granted = {} /\ wrote = {} /\ device = TRUE
  /\ saved = TRUE /\ pending = NoJob /\ pendingLocal = FALSE
  /\ mode = "provisioning_agent"
  /\ paired = TRUE /\ controller = TRUE /\ loop = "ready" /\ aborted = FALSE
  /\ running = FALSE /\ suspending = FALSE
  /\ answer = "error" /\ again = FALSE /\ arrived = FALSE
  /\ auth \in BOOLEAN
  /\ active = NoJob /\ reserved = FALSE /\ materials = NoJob
  /\ status = "failed" /\ write = "none" /\ sent = 0 /\ unsure = FALSE
  /\ forgotten = {}
  /\ admin = "idle" /\ switch = "idle"
  /\ awaits = [c \in Callers |-> "nothing"] /\ untracked = FALSE
  /\ overlapped = FALSE /\ beside = FALSE
  /\ crashes = 0 /\ requests = 0 /\ losses = 0
-----------------------------------------------------------------------------
(* The loop's life. *)

(* startLoops, with a #configuration.  An aborted loop that has not ended  *)
(* yet does so beside the new one, which the model follows from here on;   *)
(* what two loops with a job do to each other it does not follow.          *)
loopsUnchanged == UNCHANGED <<controller, loop, aborted, awaits, untracked, beside>>
StartLoops ==
  IF controller THEN loopsUnchanged
  ELSE /\ controller' = TRUE /\ loop' = "ready" /\ aborted' = FALSE
       /\ untracked' = FALSE /\ beside' = (beside \/ running)
       /\ awaits' = [c \in Callers |-> IF awaits[c] = "loop" THEN "old loop" ELSE awaits[c]]

(* stopLoops: its caller waits for the loop it has aborted, and for none   *)
(* when there is no controller, as after another caller's abort, or when   *)
(* the one who waited for the loop before has emptied #loops since.        *)
StopLoops(caller) ==
  /\ controller' = FALSE /\ aborted' = (aborted \/ controller)
  /\ awaits' = [awaits EXCEPT ![caller] =
                IF controller /\ ~untracked /\ loop # "off" THEN "loop" ELSE "nothing"]
  /\ UNCHANGED <<loop, untracked, beside>>
Stopped(caller) == awaits[caller] = "nothing"
LoopEnded == awaits' = [c \in Callers |-> IF awaits[c] = "loop" THEN "nothing" ELSE awaits[c]]
OldLoopEnds(caller) ==
  /\ awaits[caller] = "old loop" /\ awaits' = [awaits EXCEPT ![caller] = "nothing"]
  /\ untracked' = TRUE
  /\ UNCHANGED <<centreVars, storeVars, agentVars, auth, slotVars, taskVars, admin, switch,
                 requests, overlapped, beside, boundVars>>

(* The finally clause of runTask. *)
FinishRun ==
  /\ running' = FALSE
  /\ materials' = IF running /\ materials = pending THEN NoJob ELSE materials
  /\ reserved' = (reserved /\ ~running)
  /\ UNCHANGED active

(* Every await of the loop rejects once the signal has fired, except the   *)
(* wait for the end of the local task.                                     *)
LoopDies ==
  /\ aborted /\ loop \notin {"off", "waiting"}
  /\ loop' = "off" /\ LoopEnded
  /\ FinishRun
  /\ UNCHANGED <<centreVars, storeVars, paired, controller, aborted, suspending, postVars,
                 auth, taskVars, admin, switch, requests, untracked, overlapped, beside,
                 boundVars>>

SessionReady ==
  /\ loop = "ready" /\ ~aborted /\ loop' = "top"
  /\ UNCHANGED <<centreVars, storeVars, paired, controller, aborted, running,
                 suspending, postVars, auth, slotVars, taskVars, peopleVars, boundVars>>

(* terminalPayload. *)
ResultOfTask ==
  CASE status = "succeeded" -> "success"
    [] status = "cancelled" -> "cancelled"
    [] OTHER -> IF unsure THEN "uncertain" ELSE "error"

(* settings.getTask of the local task in the journal. *)
RowFound == pendingLocal /\ pending \in Jobs \ forgotten

(* Mutant: the stage the task was interrupted in is not looked at. *)
RecoveredResultPlain ==
  IF RowFound /\ status \notin {"active", "interrupted"}
    THEN ResultOfTask ELSE "interrupted"

(* recoverPendingResult: the local task was interrupted when its row is    *)
(* missing or active still; a write stage makes the result uncertain.  A   *)
(* note is written in the stage the task had reached: the stages of notes  *)
(* that BACKEND_WRITE_STAGES names are the hook's and no stages of a task. *)
RecoveredResult ==
  IF RowFound /\ status \notin {"active", "interrupted"} THEN ResultOfTask
  ELSE IF RowFound /\ write = "account" THEN "uncertain" ELSE "interrupted"

Post(result, twice) ==
  loop' = "posting" /\ answer' = result /\ again' = twice /\ arrived' = FALSE

(* One turn of the loop, up to its first request. *)
LoopTurns ==
  /\ loop = "top" /\ ~aborted
  /\ \/ suspending /\ loop' = "off" /\ UNCHANGED postVars
     \/ ~suspending /\ pending # NoJob /\ Post(RecoveredResult, FALSE)
     \/ /\ ~suspending /\ pending = NoJob /\ auth
        /\ loop' = "asking" /\ UNCHANGED postVars
  /\ UNCHANGED <<centreVars, storeVars, paired, controller, aborted, running,
                 suspending, auth, slotVars, taskVars, peopleVars, boundVars>>
-----------------------------------------------------------------------------
(* handleJob and runTask. *)

(* No job, a query, or an answer that does not arrive: the loop goes round *)
(* again, with a delay in the last case.                                   *)
NothingTaken ==
  /\ ~aborted
  /\ \/ loop = "asking" /\ loop' \in {"top", "query"}
     \/ loop = "query" /\ loop' = "top"
  /\ UNCHANGED <<centreVars, storeVars, paired, controller, aborted, running,
                 suspending, postVars, auth, slotVars, taskVars, peopleVars, boundVars>>

CentreClaims(j) == job[j] = "queued" /\ device

(* The centre hands out a job and the answer is lost on the way. *)
JobLost(j) ==
  /\ loop = "asking" /\ losses < MaxLosses /\ losses' = losses + 1
  /\ CentreClaims(j) /\ job' = [job EXCEPT ![j] = "claimed"]
  /\ loop' = "top"
  /\ UNCHANGED <<withdrawn, granted, reports, device, storeVars, paired, controller,
                 aborted, running, suspending, postVars, auth, slotVars, taskVars,
                 peopleVars, crashes>>

(* Mutant: the slot is not reserved before the materials are asked for.    *)
JobTakenUnreserved(j) ==
  /\ loop = "asking" /\ ~aborted /\ CentreClaims(j)
  /\ job' = [job EXCEPT ![j] = "claimed"]
  /\ running' = TRUE /\ pending' = j /\ pendingLocal' = FALSE
  /\ loop' = "materials" /\ UNCHANGED postVars
  /\ UNCHANGED <<withdrawn, granted, reports, device, saved, mode, paired, controller,
                 aborted, suspending, auth, slotVars, taskVars, peopleVars, boundVars>>

(* runTask up to the request for the materials: the journal first, then    *)
(* the slot.  A slot that is taken, or no backend session, is an error.    *)
JobTaken(j) ==
  /\ loop = "asking" /\ ~aborted /\ CentreClaims(j)
  /\ job' = [job EXCEPT ![j] = "claimed"]
  /\ running' = TRUE /\ pending' = j /\ pendingLocal' = FALSE
  /\ LET free == active = NoJob /\ ~reserved
     IN /\ reserved' = (reserved \/ free)
        /\ IF free /\ auth THEN loop' = "materials" /\ UNCHANGED postVars
                           ELSE Post("error", FALSE)
  /\ UNCHANGED <<withdrawn, granted, reports, device, saved, mode, paired, controller,
                 aborted, suspending, auth, active, materials, taskVars, peopleVars,
                 boundVars>>

(* The centre gives the materials of a job once. *)
Supplied ==
  job' = [job EXCEPT ![pending] = IF job[pending] = "claimed" /\ pending \notin withdrawn
                                  THEN "supplied" ELSE @]

(* Mutant: the local task is not entered in the journal. *)
JobStartsUnrecorded ==
  /\ loop = "materials" /\ ~aborted
  /\ job[pending] = "claimed" /\ pending \notin withdrawn /\ Supplied
  /\ materials = NoJob /\ materials' = pending
  /\ active = NoJob /\ active' = pending /\ reserved' = FALSE
  /\ status' = "active" /\ write' = "none" /\ sent' = 0 /\ unsure' = FALSE
  /\ loop' = "waiting"
  /\ UNCHANGED <<withdrawn, granted, reports, device, saved, pending, pendingLocal, mode, paired,
                 controller, aborted, running, suspending, postVars, auth, wrote, forgotten,
                 peopleVars, boundVars>>

(* The materials arrive, the reservation is used up and the task begins.   *)
JobStarts ==
  /\ loop = "materials" /\ ~aborted
  /\ job[pending] = "claimed" /\ pending \notin withdrawn /\ Supplied
  /\ materials = NoJob /\ materials' = pending
  /\ active = NoJob /\ active' = pending /\ reserved' = FALSE
  /\ pendingLocal' = TRUE
  /\ status' = "active" /\ write' = "none" /\ sent' = 0 /\ unsure' = FALSE
  /\ loop' = "waiting"
  /\ UNCHANGED <<withdrawn, granted, reports, device, saved, pending, mode, paired,
                 controller, aborted, running, suspending, postVars, auth, wrote, forgotten,
                 peopleVars, boundVars>>

(* The materials are refused, lost or not valid, or the input is refused.  *)
JobNotStarted ==
  /\ loop = "materials" /\ ~aborted
  /\ Supplied \/ UNCHANGED job
  /\ Post("error", FALSE)
  /\ UNCHANGED <<withdrawn, granted, reports, device, storeVars, paired, controller,
                 aborted, running, suspending, auth, slotVars, taskVars, peopleVars,
                 boundVars>>

(* pollControl cancels the local task once; the state machine may refuse.  *)
ControlSeen ==
  /\ loop = "waiting" /\ ~aborted /\ active = pending /\ pending \in withdrawn
  /\ Task!CancelTask
  /\ UNCHANGED <<centreVars, storeVars, agentVars, auth, slotVars, unsure, wrote,
                 forgotten, peopleVars, boundVars>>

(* waitForCompletion returns when the run has left the slot. *)
JobEnds ==
  /\ loop = "waiting" /\ active # pending
  /\ Post(ResultOfTask, TRUE)
  /\ UNCHANGED <<centreVars, storeVars, paired, controller, aborted, running,
                 suspending, auth, slotVars, taskVars, peopleVars, boundVars>>
-----------------------------------------------------------------------------
(* Posting a result, from runTask and from recoverPendingResult.           *)

PostArrives ==
  /\ loop = "posting" /\ ~aborted /\ ~arrived /\ device
  /\ arrived' = TRUE
  /\ reports' = [reports EXCEPT ![pending] = @ \union {answer}]
  /\ job' = [job EXCEPT ![pending] = "closed"]
  /\ UNCHANGED <<withdrawn, granted, device, storeVars, paired, controller, loop,
                 aborted, running, suspending, answer, again, auth, slotVars, taskVars,
                 peopleVars, boundVars>>

(* Mutant: the journal is kept after the result was accepted. *)
PostAnsweredForgotten ==
  /\ loop = "posting" /\ ~aborted /\ arrived
  /\ loop' = "top" /\ FinishRun
  /\ UNCHANGED <<centreVars, storeVars, paired, controller, aborted, suspending,
                 postVars, auth, taskVars, peopleVars, boundVars>>

(* clearActiveTaskSettings. *)
PostAnswered ==
  /\ loop = "posting" /\ ~aborted /\ arrived
  /\ pending' = NoJob /\ pendingLocal' = FALSE
  /\ loop' = "top" /\ FinishRun
  /\ UNCHANGED <<centreVars, saved, mode, paired, controller, aborted, suspending,
                 postVars, auth, taskVars, peopleVars, boundVars>>

(* The post or its answer is lost.  A task that has ended is posted once   *)
(* more on the spot, if its row is found; otherwise the next turn of the   *)
(* loop does it.                                                           *)
PostLost ==
  /\ loop = "posting" /\ ~aborted /\ losses < MaxLosses /\ losses' = losses + 1
  /\ IF again /\ RowFound
       THEN Post(answer, FALSE) /\ UNCHANGED <<running, slotVars>>
       ELSE loop' = "top" /\ FinishRun /\ UNCHANGED postVars
  /\ UNCHANGED <<centreVars, storeVars, paired, controller, aborted, suspending,
                 auth, taskVars, peopleVars, crashes>>
-----------------------------------------------------------------------------
(* The local task of the job, and the slot. *)

localUnchanged == UNCHANGED <<centreVars, storeVars, agentVars, auth, slotVars,
                              forgotten, peopleVars, boundVars>>

(* The hook beforeBackendWrite asks the centre, with the loop's signal. *)
WriteGranted ==
  /\ active \in Jobs /\ write # "none" /\ sent = 0 /\ ~aborted
  /\ device /\ active \notin withdrawn \union granted
  /\ granted' = granted \union {active}
  /\ UNCHANGED <<job, withdrawn, reports, device, storeVars, agentVars, auth, slotVars,
                 taskVars, peopleVars, boundVars>>

TaskSteps ==
  /\ active \in Jobs
  /\ \/ Task!Admit /\ UNCHANGED <<unsure, wrote>>
     \/ /\ active \in granted /\ Task!SendWrite /\ UNCHANGED unsure
        /\ wrote' = IF write = "account" THEN wrote \union {active} ELSE wrote
     \/ Task!Succeed /\ UNCHANGED <<unsure, wrote>>
     \/ Task!FailTask /\ unsure' \in {FALSE, sent = 1} /\ UNCHANGED wrote
     \/ Task!CancelTask /\ UNCHANGED <<unsure, wrote>>       \* on the web page
  /\ localUnchanged

(* The run leaves the slot in the finally clause of begin. *)
TaskLeaves ==
  /\ active \in Jobs /\ status # "active" /\ active' = NoJob
  /\ UNCHANGED <<centreVars, storeVars, agentVars, auth, reserved, materials, taskVars,
                 peopleVars, boundVars>>

(* DELETE /local-api/tasks/:id of the task in the journal; it is refused   *)
(* while the task is in the slot.  Other rows matter to nobody here.       *)
TaskDeleted ==
  /\ RowFound /\ active # pending
  /\ forgotten' = forgotten \union {pending}
  /\ UNCHANGED <<centreVars, storeVars, agentVars, auth, slotVars, status, write, sent, unsure,
                 wrote, peopleVars, boundVars>>

(* begin for the web page, the hosting queue or the team workflow: refused *)
(* while the slot is taken or reserved.                                    *)
ForeignTask ==
  /\ \/ active = NoJob /\ ~reserved /\ active' = Foreign
     \/ active = Foreign /\ active' = NoJob
  /\ UNCHANGED <<centreVars, storeVars, agentVars, auth, reserved, materials, taskVars,
                 peopleVars, boundVars>>
-----------------------------------------------------------------------------
(* Pairing, the change of the origin, the end of the pairing.              *)

NoPendingTask == ~running /\ pending = NoJob

adminUnchanged == UNCHANGED <<job, withdrawn, granted, reports, pending, pendingLocal,
                              mode, running, suspending, postVars, auth, slotVars,
                              taskVars, switch, boundVars>>

(* A request is accepted and asks the centre; leaving without a pairing    *)
(* has nothing to ask.                                                     *)
AdminAsks ==
  /\ admin = "idle" /\ requests < MaxRequests /\ requests' = requests + 1
  /\ NoPendingTask
  /\ overlapped' = (overlapped \/ switch # "idle")
  /\ \/ mode = "provisioning_agent" /\ ~paired /\ admin' = "pairing" /\ loopsUnchanged
     \/ mode = "provisioning_agent" /\ paired /\ admin' = "verifying" /\ loopsUnchanged
     \/ paired /\ admin' = "leaving" /\ loopsUnchanged
     \/ ~paired /\ admin' = "clearing" /\ StopLoops("admin")
  /\ UNCHANGED <<device, saved, paired>> /\ adminUnchanged

(* The centre releases a device that has no unfinished job.                *)
MayRelease == device /\ \A j \in Jobs : job[j] \notin {"claimed", "supplied"}

(* The centre refuses, or its answer is lost.  The device stays paired     *)
(* then, even when the centre has released it.                             *)
AdminRefused ==
  /\ admin \in {"pairing", "verifying", "leaving"} /\ admin' = "idle"
  /\ device' \in {device} \union (IF admin = "leaving" /\ MayRelease THEN {FALSE} ELSE {})
  /\ UNCHANGED <<saved, paired, requests, overlapped>> /\ loopsUnchanged
  /\ adminUnchanged

(* pair goes on in activate, which looks at the journal again.             *)
PairingAccepted ==
  /\ admin = "pairing" /\ device' = TRUE
  /\ IF NoPendingTask /\ ~paired
       THEN admin' = "activating" /\ StopLoops("admin")
       ELSE admin' = "idle" /\ loopsUnchanged
  /\ UNCHANGED <<saved, paired, requests, overlapped>> /\ adminUnchanged

(* The keychain may refuse the token. *)
Activated ==
  /\ admin = "activating" /\ Stopped("admin") /\ admin' = "idle"
  /\ \/ saved' = TRUE /\ paired' = TRUE /\ StartLoops
     \/ saved' = FALSE /\ paired' = FALSE /\ loopsUnchanged
  /\ UNCHANGED <<device, requests, overlapped>> /\ adminUnchanged

(* The new origin knows the device: the loops are restarted. *)
OriginVerified ==
  /\ admin = "verifying" /\ device /\ admin' = "restarting"
  /\ StopLoops("admin")
  /\ UNCHANGED <<device, saved, paired, requests, overlapped>> /\ adminUnchanged

(* Mutant: the end of the loops is not awaited. *)
ContinuingAtOnce == admin = "restarting"

(* changeOrigin goes on in the turn of the event loop in which the loops   *)
(* have stopped.                                                           *)
Continuing == admin = "restarting" /\ Stopped("admin")

OriginChanged ==
  /\ Continuing
  /\ admin' = "idle" /\ paired' = TRUE /\ StartLoops
  /\ UNCHANGED <<device, saved, requests, overlapped>> /\ adminUnchanged

Released ==
  /\ admin = "leaving" /\ MayRelease
  /\ admin' = "clearing" /\ device' = FALSE
  /\ StopLoops("admin")
  /\ UNCHANGED <<saved, paired, requests, overlapped>> /\ adminUnchanged

(* clearConfiguration, when the loops have stopped. *)
Cleared ==
  /\ admin = "clearing" /\ Stopped("admin")
  /\ admin' = "idle" /\ saved' = FALSE /\ paired' = FALSE
  /\ UNCHANGED <<device, requests, overlapped>> /\ loopsUnchanged /\ adminUnchanged
-----------------------------------------------------------------------------
(* switchMode, with suspend and restore. *)

switchUnchanged == UNCHANGED <<centreVars, saved, pending, pendingLocal, running,
                               postVars, auth, slotVars, taskVars, admin, boundVars>>
switchBegins ==
  /\ switch = "idle" /\ requests < MaxRequests /\ requests' = requests + 1
  /\ overlapped' = (overlapped \/ admin # "idle")

(* switchMode('account_pool'): suspend waits for a running task. *)
Suspend ==
  /\ ~Continuing /\ switchBegins
  /\ mode = "provisioning_agent" /\ suspending' = TRUE
  /\ IF running THEN switch' = "waiting" /\ loopsUnchanged
                ELSE switch' = "stopping" /\ StopLoops("switch")
  /\ UNCHANGED <<mode, paired>> /\ switchUnchanged

SuspendWoken ==
  /\ ~Continuing
  /\ switch = "waiting" /\ ~running /\ switch' = "stopping" /\ StopLoops("switch")
  /\ UNCHANGED <<mode, suspending, paired, requests, overlapped>> /\ switchUnchanged

(* The portal's browser is opened, and whether that works does not matter. *)
Suspended ==
  /\ ~Continuing
  /\ switch = "stopping" /\ Stopped("switch")
  /\ switch' = "portal" /\ suspending' = FALSE
  /\ UNCHANGED <<mode, paired, requests, overlapped>> /\ loopsUnchanged /\ switchUnchanged

PortalOpened ==
  /\ switch = "portal" /\ switch' = "idle" /\ mode' = "account_pool"
  /\ UNCHANGED <<suspending, paired, requests, overlapped>> /\ loopsUnchanged
  /\ switchUnchanged

(* switchMode('provisioning_agent'): restore awaits the keychain. *)
RestoreAgent ==
  /\ switchBegins
  /\ mode = "account_pool" /\ switch' = "restoring"
  /\ UNCHANGED <<mode, suspending, paired>> /\ loopsUnchanged
  /\ switchUnchanged

Restored ==
  /\ ~Continuing
  /\ switch = "restoring" /\ switch' = "idle" /\ mode' = "provisioning_agent"
  /\ paired' = (paired \/ saved)
  /\ IF saved THEN StartLoops ELSE loopsUnchanged
  /\ UNCHANGED <<suspending, requests, overlapped>> /\ switchUnchanged
-----------------------------------------------------------------------------
(* The environment. *)

(* The centre takes a claimed job back whose materials it never gave, and  *)
(* cancels what it likes.                                                  *)
CentreRequeues(j) ==
  /\ job[j] = "claimed" /\ (pending # j \/ loop \notin RunTaskAwaits)
  /\ job' = [job EXCEPT ![j] = "queued"]
  /\ UNCHANGED <<withdrawn, granted, reports, device, storeVars, agentVars, auth,
                 slotVars, taskVars, peopleVars, boundVars>>

CentreWithdraws(j) ==
  /\ job[j] \in {"queued", "claimed", "supplied"} /\ j \notin withdrawn
  /\ withdrawn' = withdrawn \union {j}
  /\ job' = [job EXCEPT ![j] = IF @ = "supplied" THEN @ ELSE "closed"]
  /\ UNCHANGED <<granted, reports, device, storeVars, agentVars, auth, slotVars,
                 taskVars, peopleVars, boundVars>>

SessionChanges ==
  /\ auth' = ~auth
  /\ UNCHANGED <<centreVars, storeVars, agentVars, slotVars, taskVars, peopleVars,
                 boundVars>>

(* A crash and the start after it: markActiveTasksInterrupted, restore of  *)
(* the agent, restore of the mode, which stops the loops in the other mode.*)
Restart ==
  /\ crashes < MaxCrashes /\ crashes' = crashes + 1
  /\ status' = IF active \in Jobs /\ status = "active" THEN "interrupted" ELSE status
  /\ active' = NoJob /\ reserved' = FALSE /\ materials' = NoJob
  /\ paired' = saved /\ controller' = (saved /\ mode = "provisioning_agent")
  /\ loop' = IF controller' THEN "ready" ELSE "off"
  /\ aborted' = FALSE /\ running' = FALSE /\ suspending' = FALSE
  /\ again' = FALSE /\ arrived' = FALSE
  /\ admin' = "idle" /\ switch' = "idle" /\ awaits' = [c \in Callers |-> "nothing"]
  /\ untracked' = FALSE
  /\ UNCHANGED <<centreVars, storeVars, answer, auth, write, sent, unsure, wrote, forgotten,
                 requests, overlapped, beside, losses>>
-----------------------------------------------------------------------------
LoopSteps ==
  \/ LoopDies \/ SessionReady \/ LoopTurns \/ JobStarts \/ JobNotStarted
  \/ ControlSeen \/ JobEnds \/ PostArrives \/ PostAnswered
  \/ \E c \in Callers : OldLoopEnds(c)

Losses == PostLost \/ \E j \in Jobs : JobLost(j)
Centre ==
  \/ \E j \in Jobs : JobTaken(j) \/ CentreRequeues(j) \/ CentreWithdraws(j)
  \/ NothingTaken \/ WriteGranted
Slot == TaskSteps \/ TaskLeaves \/ TaskDeleted \/ ForeignTask
SwitchSteps == SuspendWoken \/ Suspended \/ PortalOpened \/ Restored
AdminAnswers ==
  AdminRefused \/ PairingAccepted \/ Activated \/ OriginVerified \/ OriginChanged
  \/ Released \/ Cleared
People == AdminAsks \/ Suspend \/ RestoreAgent \/ SessionChanges

Next ==
  LoopSteps \/ Losses \/ Centre \/ Slot \/ SwitchSteps \/ AdminAnswers \/ People \/ Restart

Spec == Init /\ [][Next]_vars

(* The loop and the requests go on: every await of theirs has a timeout.   *)
(* A task that has ended leaves its slot; when it ends is not promised.    *)
Fairness ==
  /\ WF_vars(LoopSteps) /\ WF_vars(TaskLeaves)
  /\ WF_vars(SwitchSteps) /\ WF_vars(AdminAnswers)

FairSpec == Spec /\ Fairness
-----------------------------------------------------------------------------
(* The centre may act on what it is told.  A job reported as successful    *)
(* has succeeded here, one reported as cancelled has written nothing to an *)
(* account but a note in its name, and so has one reported as interrupted, *)
(* unless its task was deleted from the history before it was reported.    *)
ReportsAreTrue ==
  ~beside => \A j \in Jobs :
    /\ j \in wrote => "cancelled" \notin reports[j]
    /\ j \in wrote \ forgotten => "interrupted" \notin reports[j]
    /\ "success" \in reports[j] /\ write = "account" /\ materials = j => j \in wrote

(* A job that is reported twice, because an answer was lost, is not told   *)
(* in two ways that contradict each other about its success; what a        *)
(* deleted task leaves to be told is that the job was interrupted.         *)
ReportsAgree ==
  ~beside => \A j \in Jobs :
    /\ Cardinality(reports[j] \ {"error", "interrupted"}) <= 1
    /\ "success" \in reports[j]
         => reports[j] \subseteq {"success"} \union (IF j \in forgotten THEN {"interrupted"} ELSE {})

(* The slot and the materials are held for the job in the journal alone:   *)
(* no reservation or material outlives the run that took it, and nobody    *)
(* takes the slot while the centre hands out materials it gives but once.  *)
HeldForPendingJob ==
  ~beside =>
    /\ loop = "materials" => active = NoJob
    /\ reserved => running /\ loop \in {"materials", "posting"} /\ active = NoJob
    /\ materials # NoJob => materials = pending /\ running
    /\ active \in Jobs => active = pending /\ running /\ materials = active

(* As long as pairing and switching do not meet, the loops are not started *)
(* while the last ones still run.                                          *)
LoopsNeverOverlap ==
  [][~overlapped' /\ ~controller /\ controller' /\ crashes' = crashes => loop = "off"]_vars

(* A job in the journal is reported and leaves it, unless its task is      *)
(* still running, or the loop has ended or the device was released.        *)
PendingIsReported ==
  pending # NoJob ~> pending = NoJob \/ active # NoJob \/ loop = "off" \/ ~device
=============================================================================
