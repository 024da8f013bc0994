# Verification of the account provisioning service

`src/project` is a local Node.js service that creates OpenAI OAuth accounts in a
backend and re-authorizes the accounts that are there. It drives one Chrome
window, reads one-time codes from mailboxes, takes materials from an account
pool or jobs from a central service, and writes to the backend over HTTP. A
write must not be repeated, lost without a word, or made for a task its owner
has cancelled, and all of this happens between `await`s at which people, the
provider, the network and a crash may interfere. These modules are about that.

## Inventory

| Component | State it keeps | Operations | Interacts with | What makes it correct | Modelled |
|---|---|---|---|---|---|
| Task stages (`shared/task-state.ts`, `tasks/state-machine.ts`) | the stage of a task | `transition`, `update`, `cancel` | saves to the database and emits each step | ended is ended; no cancellation once a write stage is entered | `TaskStages`, `TaskLifecycle` |
| Task run (`tasks/orchestrator.ts` `execute`, `account-creator`, `account-reauthorizer`, `account-deactivation`) | the locals of `execute`: session, attempts, rounds, the write flag, the browser | one run per task; `cancel`, `takeOver`, `releaseTakeover` | every component below | at most one write; honest results; bans only after confirmation; a cancelled or taken-over task stays out of the page; the run ends | `TaskRun` |
| Orchestrator slot (`begin`, `reserve…`, `shutdown`, `emit`) | the active task, a reservation, listeners | start, reserve, release, shut down | hosting, agent, routes | one run at a time; a reservation is used by its owner only | partly: as `Agent` and `Hosting` meet it |
| Hosting (`tasks/reauthorization-hosting.ts`) | queue, current task, counters (persisted); the running loop | start, stop, skip, exclude, restore, shutdown | starts and cancels tasks, listens to them | each account once; counts add up; what is saved is what a restart may go on from | `Hosting` |
| Agent (`agent/client.ts`) | identity, loops, current job, journal of a result | pair, change the origin, suspend, job loop, control poll, disconnect | central service, orchestrator reservation | each job run once, each result delivered and true | `Agent` |
| Pool mode (`pool-connection/mode.ts`) | one settings row | restore, switch | agent, resolver | mode and running service agree | `Agent` |
| Login session (`session/manager.ts`, `backend/client.ts`) | tokens in memory and keychain, pending two-factor login | restore, login, refresh, logout | backend | a logout is final; one refresh at a time | `Session` |
| Browser (`browser/controller.ts`, `callback-capture.ts`) | Chrome process, profile, context, pages, captured callback, resend budget | start, page actions, wait, close | task run, provider | no orphaned Chrome, every call returns | `BrowserChrome`, `BrowserPages` |
| Page classifier (`browser/page-classifier.ts`) | none | classify | browser | the dangerous sign wins | `PageClasses` |
| Mail polling (`mail/poller.ts`, `mail/otp.ts`, the rounds of the orchestrator) | baseline, candidates, codes used | baseline, poll, resend | task run, mailbox services | never an old or another's code; every wait ends | `MailOtp`, `MailPolling` |
| Mail client (`mail/client.ts`, `mail/normalize.ts`) | none | the requests of each service | mailbox services | identity, time and order of a mail | partly: `MailSources` |
| Account pool portal (`account-pool/portal.ts`, `browser-session.ts`) | origin and connection, the pool's Chrome | connect, recheck, restore, inspect, resolve, audit, disconnect | task run, pool pages | saved and used origin agree; no Chrome left behind | `PoolBrowser`, `Portal` |
| Front end (`web/App.vue`, `web/state.ts`, `ReauthorizationView.vue`) | lists, filters (days, limit, supplier and dates), ticks, the form, kept credentials | list, choose, start, dispose, log in and out | HTTP routes, event stream | the list shown is the list asked for; credentials stay with their account | partly: `ReauthorizationPage` |
| Proxy resolver, storage, backend accounts, deactivation settings | settings and tables | resolve, save, write | task run | a rejected node is not used again; after a restart no task is active | partly: outcomes in `TaskRun` |
| TOTP generator, team workflow, secrets, HTTP wiring | see "Not modelled" | | | | no |

Hard behaviours: interleaving at every `await` (the code between two awaits is
atomic, as Node.js runs one callback at a time); the abort signal, which some
awaits see and some do not; the takeover gate; replies lost after the request
took effect; a crash at any point; retries of the whole login with a new session;
answers that arrive in another order than the requests; pages and mailboxes that
change between two looks.

## Modules

    TaskLifecycle  <= refined by = TaskRun  -- EXTENDS --> TaskStages
         ^                            ^
         | INSTANCE                   | EXTENDS
       Agent <-- AgentProofs      TaskRunProofs
    MailProofs --> MailPolling --> MailOtp, MailSources      HostingProofs --> Hosting
    BrowserProofs --> BrowserPages --> BrowserChrome, PageClasses
    PortalProofs --> Portal --> PoolBrowser                  SessionProofs --> Session
    ReauthorizationProofs --> ReauthorizationPage

Each `MC…` module holds the instance TLC runs; the module's own operators named
`…Kept`, `…Late`, `…ForEver` and the like, beside an operator of the code, are the
mistakes against which the properties are tested.

* `TaskStages` - the stage sets and the transition table, and what `transition`
  and `canCancel` demand. Stage names are those of the code.
* `TaskLifecycle` - what a task promises to those who start, follow and cancel it:
  one admission to a write, one request, no cancellation once a write to an
  account may go out, one ending. `TaskRun` implements it under the refinement
  mapping `Lifecycle` (property `KeepsItsPromise`), and `Agent` builds its job
  on its actions, so the composition of the two rests on that refinement.
* `TaskRun` - the run of one task. `pc` names the `await` the run is suspended at,
  `gated` says that it stands at the takeover gate in front of it. An action is
  one segment of `execute` (or of a writer it calls) between two awaits. The
  transitions of the segment are the path given to `Advance`; a transition the
  table forbids throws into `Throw`, the outer catch, as in the code.
* `Hosting` - the queue. An action is one turn of the event loop: the listener of
  `waitForTerminal`, the transition it is called from and the loop it wakes up are
  one step. The task in the slot is reduced to what hosting can tell. Tasks of the
  create form, the team workflow and the agent use the slot too.
* `Agent` - the provisioning agent against an external centre: the job loop,
  `#runTask`, the journal of the job whose result is owed and its recovery after
  a crash, pairing, change of the origin and disconnection, the suspension by
  the pool mode, and the slot it reserves. The row of a task that has ended may be
  deleted from the history (`TaskDeleted`) while its result is still owed. `loop` names the await of the job loop,
  `admin` and `switch` the requests of people in progress, and `awaits` the loops
  each of the two waits to see end. An aborted loop may still be ending when a new
  one starts; the model follows the new one. `untracked` says that one request has
  emptied `#loops` though another has started a loop since, and `beside` that a
  loop was started beside one that ran a job: the properties of a job stop there.
* `Session` - restoration, password and TOTP login, refresh, logout and the 401
  retry of `AuthorizedBackendClient`, as processes. Tokens are numbered in the
  order of their issue; `spent` are the refresh tokens the backend has replaced,
  and `lost` says that the answer with a new one did not arrive or was not saved.
* `BrowserChrome`, `BrowserPages`, `PageClasses` - starting Chrome on the native
  or the Playwright route, closing it, and every page action on a page that
  changes under it. A page is named after what `classifyPageHtml` makes of it;
  `call` is the page action in progress with its await.
* `MailSources` - for every built-in service, what a listing is made of: identity,
  time and order of a mail. `ids` says where an identity comes from: the service
  (`given`), the place in the listing (`position`), the time at which the service
  looked (`check`), nothing (`none`), or nothing for a page or text that is read as
  one message of all it holds (`whole`). `MailOtp` chooses a code from one listing;
  `MailPolling` composes both with the rounds, resends and attempts of a task.
* `PoolBrowser` - the pool's Chrome on its one profile, which callers open and close
  step by step. `Portal` adds connection, recheck, restoration, inspection,
  material reads, the audit and disconnection. The secrets of a record, and those
  of a batch of the audit, are reads of their own (`Readers`) that go side by side,
  each through `open`, and may outlive the call that asked for them.
* `ReauthorizationPage` - the page of the front end, with every request answered
  later and in any order.
* `TaskRunProofs`, `HostingProofs`, `AgentProofs`, `SessionProofs`, `BrowserProofs`,
  `MailProofs`, `PortalProofs`, `ReauthorizationProofs` - for each, the inductive
  invariant, lemmas about the module's operators and steps, and the theorems.

How state corresponds. In `TaskRun`, `stage` is `machine.current.stage`; `aborted`
the abort signal; `gate` the gate's `#active`; `opened`
`authorization.browserOpenedAt`; `held`/`chrome`/`page`/`captured` the variable
`browserSession`, the Chrome process, its page and the captured callback;
`session`, `detected`, `proxyTry`, `round`, `resends`, `tries` the locals of the
same meaning; `kind` is set where `backendWriteStarted` becomes true and
remembers which write was admitted. `sent`, `outcome`, `twin` and `sightings`
record what the backend has seen, and the properties speak about them.

In `Hosting`, `state` is `#state`, `saved` the row `#persist` writes, `loop` and
`hand` stand for `#loopRunning` and the local `accountId` of `#run`, `down` is
`#shuttingDown`, `ready` says that `session.restore` has ended. `stray`, `mixed`
and `started` are history. In the other modules the comment beside each variable
names the field it stands for; `reports`, `wrote`, `forgotten`, `spent`, `lost`,
`overlapped`, `crowded`, `entered` and `before` are history.

### Abstractions

* A reply is applied, refused, or *limbo*: lost, with the write landing later
  (`LimboLands`) or never. The repetition after a 401 is part of one request.
* The candidate loop of the proxy resolver is one await with one result, or an
  error. Page contents are the branch they make the code take.
* `manualTakeover`, messages, `terminalFromStage` and diagnostics are left out.
* The hook of `beforeBackendWrite` may refuse. A crash may leave Chrome running.
  `TwinAppears` stands for anybody else creating an account of this email.
* `skipCurrentRequested` is set and cleared within one turn and left out.
* Agent: one local write kind, `account`; heartbeat contents, task events and the
  display of `connected` are left out.
* Mail: a poll is one step; the text of a mail is the same each time it is listed; a listing whose order the code does not know comes newest or
  oldest first. Tokens, addresses and HTML are what the code decides by them.
* Portal: `Reads` stands for the pages of records and for the batches of an audit;
  a record or a batch has as many secrets as readers are free. The 3.1 s interval
  is left out.
* Reauthorization page: `filters` has the days, the usage limit and, as one datum
  (`rest`), the supplier with the two dates of import. The search text and page
  numbers behave as a repeated request and are left out, so are the task view and the event
  stream beyond `TaskSeen` and `TaskEnds`, the disposition of a single account,
  and stop and skip of the hosting. Credentials are one datum per account. A list
  answer holds all accounts or none.

## Runs

| Run | Question | Result |
|---|---|---|
| `MCTaskRun` | the run of one task for six inputs: create and re-authorize, mail codes and password with TOTP, direct, fixed and dynamic proxy, duplicates or not, one to three sightings, up to two alternative passwords; and the refinement of `TaskLifecycle` | 13 properties hold, 194,000 distinct states |
| `MCHosting` | two accounts, two start requests, stops, skips, exclusions, takeovers, foreign tasks, a shutdown, two restarts | 7 properties hold, 253,000 |
| `MCAgent` | one job against the centre, a crash, two requests of people, one lost post, a deletion of the task, other tasks in the slot | 5 properties hold, 1,240,000 |
| `MCSession` | two users, a login, two refreshes, two requests, a logout, a restart | 3 properties hold, 587,000 |
| `MCBrowser` | both launch routes, every page action, nine kinds of page, a tab that may be closed | 3 properties hold, 680,000 |
| `MCPortal` | a person who connects, rechecks, inspects, restores and disconnects beside a task that resolves or an audit, two reads side by side, two origins, three launches | 2 properties hold, 925,000 |
| `MCMail` | up to three mails, two codes, two services (`aisvip`, `mailcat`) that between them have every kind of identity, with and without times, one message or several, two rounds, two attempts | 4 properties hold, 5,768,000 |
| `MCReauthorizationPage` | two list requests and another request in flight, two accounts, four sets of filters | 3 properties hold, 9,888,000 |
| `ClosedPage` | does closing the page end the wait for the callback? | violated: closed before the wait or while the monitor reads the page, nothing settles it; closed in a pause of the monitor, the task fails |
| `LogoutLeaves` | does a logout leave an empty keychain? | violated: a refresh answered later stores its token |
| `OldMail` | does the first round never use a mail of the baseline? | violated for mailboxes that number mails by their place |
| `WrongAccount` | is a task started for the ticked account? | violated: a batch leaves the form's account behind |

### Bounds

* `MCTaskRun`: two sessions are enough to repeat one and to have two different
  ones. Each counter is bounded by the code's own limits (three OTP rounds, two
  resends, three proxy attempts, two TOTP codes). Sightings go up to three (the
  settings allow ten; the loop is the same from the second on).
* `MCHosting`: two accounts give a current and a next one, a list that ends, and a
  selection that names an account twice; `MaxStarts = 2` gives a start after a stop
  and two that overlap; `MaxRestarts = 2` reaches a crash after a recovery.
* `MCAgent`: the agent works on one job at a time and forgets it when its result
  is delivered. `MaxCrashes = 1`, `MaxRequests = 2` (a pairing given up and taken
  again, a change of the origin meeting the switch), `MaxLosses = 1`.
* `MCSession`: three tokens and one restart (`MaxTokens`, `MaxRestarts`); two
  requests that share a refresh, two refreshes that meet a login.
* `MCBrowser`: one reconciling read and one resend instead of more
  (`ReconcileReads`, `ResendAttempts`), one tab (`MaxTabs`), open or closed: a tab
  that opens is followed at once, which is a change of the page. `ShownPages`
  leaves out `password`, `phone_verification` and `provider_error`, which the
  actions treat as one of the pages that are in it.
* `MCPortal`: one page of records or batch (`Reads`); `MaxLaunches = 3`: a held, a
  late and a new Chrome; `Targets`: one origin is connected to, the other is the
  one before. A limited request is repeated once by a task's call and not by the
  others (`RetryDelays`, where the code has four for each). A call begins beside at
  most one other call or read (`MaxTogether = 2`), and secrets are read while no
  other call is in flight when they are asked for (`MaxBeside = 0`); another may
  begin while one of the two reads is still under way.
* `MCMail`: ticks of time. The task starts at `Start = 2`, mails arrive up to
  `Lag = 2` ticks after they were sent, `Skew = 1`, `RoundTicks = 1`,
  `IdleUntil = 2`: there is a mail of before the task within and outside the skew,
  and one that arrives late. `RoundLimit` is 2 where the code has three
  rounds: a first one and one after a resend; `OldMail` has three.
  The two services of `MCSites` have every kind of identity, but their listings are
  ordered ones; services whose listing the code does not take for ordered are those
  of `OldMail` and of the theorems, which hold for each.
* `MCReauthorizationPage`: `MaxLoads = 2` crossing answers; `MaxCalls = 1` beside
  the request that `startHosting` sends when its list has arrived. The filters are
  those the page opens with and one more of each kind: other days, another limit, a
  supplier. The accounts are symmetric.

Deadlock is checked everywhere (`TaskRun` stutters by name at its end) but in
`MCBrowser` and the two runs of the mail: a browser that was closed and a task
that has ended with a full mailbox have nothing more to do.

Scope of properties. A start served while the service is shutting down, and a
state replaced under the account at hand (`mixed`), are excepted from
`CountsAddUp`. `SessionIsWhole` says two things: that the session is one
piece, of operations that do not overlap (`overlapped`), and that no refresh token
is sent again once it was replaced, of any operations, unless a new token was lost
(`lost`): then the old one is all that is saved. `PortalIsWhole` too: origin,
setting and connection agree while calls do not overlap, and no Chrome runs that
nobody holds unless two calls, or two reads of one call, were bound to launch at
once (`crowded`). What happens in the excepted cases is told below. In `Agent`,
the properties of a job are about one loop with its job (`~beside`), and
`LoopsNeverOverlap` about requests that do not meet; a job whose task was deleted
while its result was owed (`forgotten`) may be reported as interrupted whatever it
did, which `ReportsAreTrue` and `ReportsAgree` except, and nothing else.
`BaselineStaysOut` is about mailboxes whose mails have an id of their own or none
and are listed one by one (`TellsApart`), `OldMail` shows it fail for numbered ones.
`CodesAreOfThisTask` does not hold a page that is read as one message to its time,
which is that of its first mail. `HostingCoversList` is about days and limit: the
hosting is not narrowed by the supplier and the dates of the list.
`KnownChromeIsClosed` is about a Chrome whose process id was found.

### Fairness

`FairSpec` is weakly fair in the program's own steps: Node.js runs every settled
callback, and each call awaited is bounded by a timeout or the abort signal.

* `TaskRun`: all steps of the run but the wait for a person and the wait for the
  callback, which a captured callback, a page closed in a pause of the monitor or
  a callback that cannot be taken may end and nothing need; `waitForManualProgress` polls and notices by itself that the page is
  gone. Nothing makes a person release a takeover, the provider answer, a lost
  write land or the service crash.
* `Hosting`: the loop's requests, the closing of Chrome, `session.restore`, and a
  task that needs neither person nor provider (`NeverStuck`, `CancelEnds`).
* `Agent`: the loop's steps, the switch and the requests of people once made; a
  task that has ended leaves the slot, but when it ends is not promised.
* `Session`: each kind of request is answered or times out after 30 s, so nothing
  is assumed of the backend but the timeout.
* `BrowserPages`: an action's own steps and its deadlines, and that an operation on
  a page that is gone fails; the provider and the person are not fair.
* `Portal`: each call goes on; a Chrome that was told to end does.
* `MailPolling`: time passes, the baseline is read or fails, a resend is answered.

`ReauthorizationPage` has safety only: no answer is promised to it.

## Proofs

Each theorem holds for every value of the constants that meets the named
assumptions; TLC evaluates those on every run. The argument is the same each time:
an inductive invariant `IInv` (or the like) is shown of the initial states and of
every action, with a lemma for each action or group of actions, and the property
follows. TLC has checked each inductive invariant on the instance of the module's
run before it was proved.

### Task run (`TaskRunProofs`)

* `Invariant`, `TypeCorrect`, `WriteOnce`, `CancelledWrites`, `EndStays` rest on
  `IInv == TypeOK /\ CounterInv /\ WriteInv`. `TypeOK` is not inductive: that
  `tries` stays in range when a password is refused needs that it was below the
  number of alternatives, that a resend count is in range needs the guard and the
  round that goes with it; `CounterInv` ties the counters to `pc`. `WriteOnce`
  needs to know that at an await before the request nothing was sent, and that a
  run at a later await has admitted the write that await belongs to; `WriteInv`
  ties `kind`, `sent`, `outcome` and `stage` to `pc`.
* `TakeoverHolds`: a segment that ends at a page action has asked the gate; shown
  segment by segment, from `GateAsked` of every helper that ends one.
* `WindowOwned` adds `WindowInv`: at which awaits a Chrome can be up at all, and
  that until the end of the run either `browserSession` or the start in progress
  holds it.
* `LegalTransitions` adds `StageInv`, the stages each await may be in (`Placed`).
  With it no `Advance` can ask for a transition outside the table, however a
  cancellation interleaves.
* `SuccessHolds`, `FailureHolds` add `OutcomeInv` and `ResultInv`: what each await
  of a writer knows of the request (`outcome` is "flying" exactly while it is
  awaited, "applied" where only a confirmation is missing).
* `BanConfirmation` adds `SightInv`, which ties the number of sightings to the
  sessions they were made in.
* `PromiseKept` is the refinement: every step of `Next` is a step of
  `TaskLifecycle` or a stutter under the mapping `Lifecycle`, shown per action
  with `WriteInv`, `StageInv` and `OutcomeInv` as hypotheses.

### Hosting (`HostingProofs`)

`HostingTyped`, `NoneIsLost`, `RowIsCurrent`, `OneStartEach`, `TasksAreWatched`.
The invariant has a part for each: `Queue` (a queue without repetitions, an
account at hand only while the loop goes), `Saved` (the row is the state, or the
state with the account at hand put back), `AddUp` (for the memory and for the row,
because a restart goes on from the row), and `Once` (what was started is neither
queued, saved nor at hand). The lemmas are about the operators of the model:
`eligibleIds` gives no account twice, the passing over of excluded accounts counts
what it drops, a chosen place is a least or greatest one (by well-foundedness of
the natural numbers).

### Agent (`AgentProofs`)

`AgentTyped`, `HeldForJob`, `ReportsTrue`, `ReportsConsistent`,
`LoopsApartFromEachOther`, `NothingBeside`, `AgentStopped`. `Holds` says who holds
what at each await of the loop, `Journal` how the local task and its journal agree
with what was sent, `Posts` what a post on its way contains and `Reports` what the
centre may have been told of each job. What may be told (`Told`) is the outcome of
the local task, and the interruption of a job whose task was deleted
(`Interruption`): a job is only forgotten after its task has left the slot, and
what was told before stays. They are about one loop with its
job, that is `~beside`. `Loops` says what requests that do not meet do to the
loops, and gives `NothingBeside`: `beside` implies `overlapped`. So the guards of
the properties except nothing but requests that have met. `AgentStopped` is what
`DOC.md:368` promises of the two modes, for requests one after the other.

### Session (`SessionProofs`)

`SessionTyped`, `SessionWhole`, `GivenUp`. Tokens are numbers, so first every
remembered token is one that was issued (`TokensKnown`); `OneAtATime` says that
without an overlap at most one operation is in flight, and `Remembered` that what
it read before its request is what the session still has. That no token is sent
again rests on two more parts that need no such guard: `Apart` (the exchanges under
way have tokens of their own, apart from the one at hand unless it is the promised
refresh, and save to the account that is set) and `Unspent` (until a new token is
lost, none that is kept, at hand or being exchanged was replaced).

### Browser (`BrowserProofs`)

`ChromeIsClosed`, from what `start` has made at each of its awaits (`StartInv`)
and what each step of closing leaves (`ClosingInv`).

### Mail (`MailProofs`)

`CodesDiffer`, `BaselineHolds`, `CodesAreOwn`, for every service of `MailSources`
and any number of mails, the second for the mailboxes that `TellsApart` names, the
third with the exception of pages read as one message. `Used` (a code that was entered is remembered while the
task polls) gives the first; `Known` (the baseline holds the print of every mail
that stood there and could be seen) the second, with a lemma that no two mails of
such a mailbox share a print; `OfTheTask` and `Origins` the third.
The lemmas about `CandidatesOf`, `extractUniqueOtp` and `extractNewestOrderedOtp`
say of each code found that it is that of a candidate, and of each candidate that
it is in the listing, new, and not among the codes of the baseline.

### Portal (`PortalProofs`)

`PoolStaysWhole`, for any callers, readers and launches. `Pool` holds while no two
calls have overlapped: at most one is in flight and the pool it works with is the
saved one since its configuration answered (`AtItsPool`). `Chrome` holds while no
two callers were bound to launch at once, however many calls and reads are in
flight: the one that is bound to launch finds nothing held, so that it replaces
nothing, and every launch under way has a caller that waits for it.

### Reauthorization page (`ReauthorizationProofs`)

`ListIsAsked` and `HostingCovers` rest on `LoadsInv`: a list request that may
still change the page carries the filters in force, and the hosting is sent what
`Sent` leaves of those of the list just fetched. `CredentialsTheirs` rests on
`FormOK`: the form holds what was typed for the account loaded last.

### Only model-checked

Liveness under fairness, which this prover does not reach: `CancelEnds` and
`NeverStuck` of `TaskRun`, `StopEnds` and `QueueAdvances` of `Hosting`,
`PendingIsReported` of `Agent`, `CallersAreServed` of `Session`, `CallsReturn` and
`ProgressIsNoticed` of `BrowserPages`, `CallsEnd` of `Portal`, `OtpWaitEnds` of
`MailPolling`. Every invariant and every action property of the passing runs is
stated by a theorem, and so is the refinement. That the classifier calls each
page, as its texts and fields show it, by its name is an assumption TLC evaluates
(`PageClasses`).
The four runs that find a violation are about instances and stay so.

## What the models show beside the runs

Steps of the models that differ from a document or that a reader would not expect;
each is a behaviour of the code, found while modelling or by TLC.

Task run and hosting

* A cancellation while `browser.start` is under way is noticed at the next
  transition only, and the email is still submitted (`docs/TECHNICAL_DESIGN.md:636`).
* A create that took effect but could not be read ends as a plain failure: three
  error codes count as uncertain (`docs/TECHNICAL_DESIGN.md:576`).
* Notes are written in a stage that may be cancelled (`state-machine.ts:153`).
* Each retry after a sighting has a resend budget of its own (`README.md:104`
  grants two to the task).
* `stop` cancels the current task (`README.md:114` says it is left to end); an
  account being loaded when its queue is stopped is started if a new queue has
  begun meanwhile; a restored queue starts before the session is restored, and
  its accounts are skipped (`DOC.md:378`).

Browser

* A page that is closed while it waits for the callback ends the task only if the
  monitor is in its pause (`controller.ts:1029`). Closed before the wait, or while
  the monitor reads the page, it leaves a wait that nothing settles
  (`docs/TECHNICAL_DESIGN.md:1730` lets the task end); run `ClosedPage`.
* A native start that is stopped before the process id is found ends the launcher
  and leaves Chrome open (`controller.ts:705-742`; `README.md:108`, `DOC.md:386`).
* `DOC.md:360` puts the proxy check before the temporary profile; the native route
  creates the profile first. A call may return "submitted" after the callback was
  captured (`controller.ts:1199`), and the time mark of a submission may be later
  than the mail it asked for (`controller.ts:1284`).

Agent and mode

* A change of the origin, or a pairing, that is verified while the mode is switched
  to the account pool starts the loops in that mode, so the modes are not exclusive
  (`DOC.md:368`, `DOC.md:370`). With a few such requests more a loop is started
  beside one that still runs a job. `AgentStopped` and `NothingBeside` say that
  requests which do not meet do neither.
* A task that has ended may be deleted from the history while its result is owed
  (`routes/tasks.ts:79-87`). After a crash the agent finds no task for its journal
  and reports `interrupted` (`client.ts:872-879`) for a job that may have written,
  and even after a first report of success whose answer was lost.
* The journal of a pairing that was given up refuses a new pairing
  (`client.ts:524`); after a failed start the agent is silently offline
  (`client.ts:489`, `client.ts:624`); a disconnection whose answer is lost leaves
  a dead token (`client.ts:458`).

Session

* `restore` saves the rotated token only after the user was fetched
  (`manager.ts:296-299`): if that fails, or the service ends before, the new token
  is lost and the next start sends the old one again, which the backend has
  replaced. The same follows from any rotation whose answer is lost. `lost` marks
  the runs in which it happens, and `SessionIsWhole` says it happens in no other.

Mail

* A 429 is fatal for two services (`client.ts:1862-1904`, `client.ts:2262`) where
  `docs/TECHNICAL_DESIGN.md:425` lets the poll be repeated.
* `DOC.md:188` asks for two polls in a row; a failed or empty poll in between does
  not reset the count (`poller.ts:116-131`). Its list of three services is shorter
  than the code's. `QA.md:1782` speaks of a tolerance of ten seconds the code does
  not have.
* Three kinds of mailbox let an old mail's code in during the first round: those
  that number mails by their place (run `OldMail`), `aisvip`, whose id is the time
  at which it looked (`mail/client.ts:1698`) and so a new one at each poll, and a
  page without structure, which is one message of all its text
  (`mail/normalize.ts:233-246`) and another one as soon as a mail arrives.

Portal

* A read in flight at a disconnection opens Chrome again (`browser-session.ts:132`;
  `DOC.md:257`), and its late result sets `connected` (`portal.ts:582`).
* Two openings that are both bound to launch leave a Chrome nobody holds: the later
  one fails on the profile and clears what the first has set. The reads of secrets
  of one call are enough, if the person closes the window before they begin
  (`portal.ts:302-312`, `browser-session.ts:111-128`).
* Secrets read concurrently are not kept apart by the interval
  (`portal.ts:529-534`); the audit has no end at an empty page (`portal.ts:337-358`).

Front end

* The hosting is started without the supplier and the dates of import the list was
  narrowed by (`App.vue:540-547`, `api.ts:288-295`), and takes the search text typed
  while that list was fetched, though the page and the manual say that it goes by
  the filters in force (`ReauthorizationView.vue:613`, `:652`; `README.md:114`). The
  model has this (`Sent`); `HostingCoversList` says what does hold.
* A cached list
  does not know the usage limit it was fetched with; credentials typed while no
  account is loaded go to the account loaded before; credentials stay in the
  page's memory over a logout; a task may be started during a batch request.

## Plan

1. Done: the task run with its lifecycle, the queue, the agent and the pool mode,
   the session, the browser, the mail, the portal and the reauthorization page.
2. Done: the safety properties of every module proved, the refinement of
   `TaskLifecycle` among them. To come: types of the pages and of the portal as
   theorems; what the classifier does with any set of signs; abstract
   specifications of the queue (each account leaves it once) and of the session,
   with their refinement.
3. If the model grows: the candidate loop of the proxy resolver, the task view with
   its event stream, the team workflow.

## Not modelled

* TOTP generator: arithmetic on the clock and an HMAC. The run sees a code accepted
  or refused.
* Team workflow: a batch tool of its own beside the task system; it meets the
  rest as a foreign task in the slot, which `Hosting` and `Agent` have.
* The candidate choice of the proxy resolver, SQL and migrations, settings of
  trusted mail origins, the bridge client and the material selector of the pool:
  they compute or move data and decide no order of steps between actors.
* Secret handling, request routes, start-up, TLS, network access and redaction: no
  control of their own. The front end's other views.
