------------------------ MODULE ReauthorizationPage ------------------------
(***************************************************************************)
(* The reauthorization page of the web front end (App.vue, state.ts and    *)
(* ReauthorizationView.vue): the list of accounts with its filters, the    *)
(* ticked accounts, the account loaded in the form, the credentials kept   *)
(* per account, and the requests that start a task or the hosting.  Every  *)
(* request is answered later, in any order, beside what the person does.   *)
(***************************************************************************)
EXTENDS Naturals, FiniteSets

CONSTANTS
  Accounts, Nobody,          \* Nobody: no account, no list, no credentials
  Typed,                     \* credentials typed while no account was loaded
  AllDays, Whole,            \* no time filter; no other filter
  Filters,                   \* filters the person may set together
  MaxLoads, MaxCalls         \* list requests and other requests in flight
ASSUME NamesAssumption == Nobody \notin Accounts /\ Typed \notin Accounts \cup {Nobody}
ASSUME BoundsAssumption == {MaxLoads, MaxCalls} \subseteq Nat \ {0}
(* A list is asked for by the days since the import, the limit of the      *)
(* usage, and the rest: the supplier and the two dates of the import.      *)
Fields == {"days", "threshold", "rest"}
Days == {f.days : f \in Filters}
ASSUME FiltersAssumption ==
  /\ \A f \in Filters : f = [days |-> f.days, threshold |-> f.threshold, rest |-> f.rest]
  /\ \E f \in Filters : f.days = AllDays /\ f.rest = Whole
  /\ Nobody \notin Days
(* Nobody is no page either. *)
ASSUME ListsAssumption == Nobody \notin [filters: Filters, items: {{}, Accounts}]

VARIABLES
  loggedIn,                  \* session.authenticated
  taskActive, hosting,       \* what the page shows of the task and the queue
  list, filters,             \* the list, and the filters of the page
  cache,                     \* the time filter of the list in localStorage
  loads, loading,            \* list requests in flight, and the spinner
  selected,                  \* the ticked accounts
  form,                      \* the account in the form and the credentials
  kept, lastLoaded,          \* the credential memory
  calls, actionBusy, hostingBusy

shown == <<taskActive, hosting>>
lists == <<list, filters, cache, loads, loading>>
picks == <<selected, form, kept, lastLoaded>>
busies == <<calls, actionBusy, hostingBusy>>
vars == <<loggedIn, shown, lists, picks, busies>>

Page(f, items) == [filters |-> f, items |-> items]
Init ==
  /\ loggedIn \in BOOLEAN /\ taskActive \in BOOLEAN /\ hosting \in BOOLEAN
  /\ list = Nobody /\ loads = {} /\ loading = FALSE
  /\ cache \in Days \cup {Nobody}
  /\ filters \in {f \in Filters : f.days = AllDays /\ f.rest = Whole}
  /\ selected = {} /\ form = [account |-> Nobody, credentials |-> Nobody]
  /\ kept = [a \in Accounts |-> Nobody] /\ lastLoaded = Nobody
  /\ calls = {} /\ actionBusy = FALSE /\ hostingBusy = FALSE

WorkflowBusy == taskActive \/ hosting \/ actionBusy
ListHas(a) == list # Nobody /\ a \in list.items

-----------------------------------------------------------------------------
(* The list and the guard that lets only the newest request change it.     *)
Invalidate(rs) == {[r EXCEPT !.newest = FALSE] : r \in rs}
LatestOrNot(r) == TRUE                     \* mutant: the guard is forgotten
IsLatest(r) == r.newest
RefreshedAnyway(r) == TRUE                 \* mutant: a stale answer counts
Refreshed(r) == IsLatest(r)

loadAccounts(f, forHosting) ==
  /\ loggedIn /\ Cardinality(loads) < MaxLoads
  /\ loads' = Invalidate(loads) \cup {[filters |-> f, forHosting |-> forHosting, newest |-> TRUE]}
  /\ loading' = TRUE /\ filters' = f

(* The filters a person can set that differ from the page's in one field. *)
Changed(field) ==
  {f \in Filters : f[field] # filters[field]
                   /\ \A other \in Fields \ {field} : f[other] = filters[other]}

(* The page is opened without a list: the last one is shown meanwhile,     *)
(* although only its time filter is known.                                 *)
Open ==
  /\ list = Nobody
  /\ \E f \in {filters} \cup Changed("days") :
       /\ f.days = IF cache = Nobody THEN AllDays ELSE cache
       /\ loadAccounts(f, FALSE)
       /\ IF cache = Nobody THEN UNCHANGED list
          ELSE \E shownFor \in Filters : shownFor.days = cache /\ list' = Page(shownFor, Accounts)
  /\ UNCHANGED <<loggedIn, shown, cache, picks, busies>>
(* The search, the pages, the switch of the excluded accounts, the         *)
(* supplier and the dates, and the button that refreshes the page.         *)
Ask ==
  /\ \E f \in {filters} \cup Changed("rest") : loadAccounts(f, FALSE)
  /\ UNCHANGED <<loggedIn, shown, list, cache, picks, busies>>

Unloaded == [form EXCEPT !.account = Nobody]
ChangeFilter(f) ==
  /\ ~WorkflowBusy /\ list' = Nobody
  /\ IF loggedIn THEN loadAccounts(f, FALSE)
     ELSE filters' = f /\ UNCHANGED <<loads, loading>>
  /\ selected' = {} /\ form' = Unloaded
  /\ UNCHANGED <<loggedIn, shown, cache, kept, lastLoaded, busies>>
ChangeThreshold == \E f \in Changed("threshold") : ChangeFilter(f)
ChangeDays == ~loading /\ \E f \in Changed("days") : ChangeFilter(f)

(* The local session is gone: the page forgets what it showed.             *)
Leave(rs) ==
  /\ loads' = Invalidate(rs) /\ loading' = FALSE /\ loggedIn' = FALSE
  /\ list' = Nobody /\ taskActive' = FALSE
Stay == UNCHANGED <<loads, loading, loggedIn, list, taskActive>>
Refused == Leave(loads) \/ Stay

(* startReauthorizationHosting: it goes on only with a list of its own,    *)
(* and sends the days and the limit the page has by then, beside a search  *)
(* that may have been typed since; the supplier and the dates are not sent. *)
Sent(f) == [f EXCEPT !.rest = Whole]
Request == [kind |-> "hosting", filters |-> Sent(filters)]
AfterList(r, asked) ==
  IF ~r.forHosting THEN UNCHANGED busies
  ELSE IF Refreshed(r) /\ asked
  THEN calls' = calls \cup {Request} /\ UNCHANGED <<actionBusy, hostingBusy>>
  ELSE hostingBusy' = FALSE /\ UNCHANGED <<calls, actionBusy>>
Cached(page) == IF page.items = {} THEN Nobody ELSE page.filters.days
Listed(r) ==
  \E items \in {{}, Accounts} :
    LET page == Page(r.filters, items)
    IN  /\ loads' = loads \ {r}
        /\ IF IsLatest(r) THEN list' = page /\ cache' = Cached(page) /\ loading' = FALSE
           ELSE UNCHANGED <<list, cache, loading>>
        /\ AfterList(r, items # {})
        /\ UNCHANGED <<loggedIn, shown, filters, picks>>
ListFails(r) ==
  /\ \/ /\ loads' = loads \ {r} /\ loading' = (loading /\ ~IsLatest(r))
        /\ UNCHANGED <<loggedIn, list, taskActive>>
     \/ IsLatest(r) /\ Leave(loads \ {r})
  /\ AfterList(r, FALSE)
  /\ UNCHANGED <<hosting, filters, cache, picks>>
Answered == \E r \in loads : Listed(r) \/ ListFails(r)

-----------------------------------------------------------------------------
(* The ticked accounts, the form and the credentials.                      *)
Remember(a) == [kept EXCEPT ![a] = form.credentials]
(* Mutant: fields are not emptied for an account without credentials.      *)
selectKeepingInput(a) ==
  /\ kept' = IF lastLoaded = Nobody THEN kept ELSE Remember(lastLoaded)
  /\ form' = [account |-> a, credentials |->
                IF kept'[a] = Nobody THEN form.credentials ELSE kept'[a]]
  /\ lastLoaded' = a
selectAccount(a) ==
  /\ kept' = IF lastLoaded = Nobody THEN kept ELSE Remember(lastLoaded)
  /\ form' = [account |-> a, credentials |-> kept'[a]]
  /\ lastLoaded' = a

Free == Cardinality(calls) < MaxCalls
Begin(call) == Free /\ calls' = calls \cup {call} /\ actionBusy' = TRUE
(* choose: a second click on the account in the form empties the form.     *)
Choose(a) ==
  IF form.account = a THEN form' = Unloaded /\ UNCHANGED <<calls, actionBusy>>
  ELSE Begin([kind |-> "choose", account |-> a]) /\ UNCHANGED form
Tick(a) ==
  /\ a \notin selected /\ selected' = selected \cup {a}
  /\ IF Cardinality(selected') = 1 THEN Choose(a) ELSE UNCHANGED <<form, calls, actionBusy>>
Untick(a) ==
  /\ a \in selected /\ selected' = selected \ {a}
  /\ form' = IF form.account = a THEN Unloaded ELSE form
  /\ UNCHANGED <<calls, actionBusy>>
Toggle ==
  \E a \in Accounts :
    /\ ListHas(a) /\ ~WorkflowBusy
    /\ Tick(a) \/ Untick(a)
    /\ UNCHANGED <<loggedIn, shown, lists, kept, lastLoaded, hostingBusy>>
Chosen(c) ==
  \/ selectAccount(c.account) /\ Stay /\ UNCHANGED selected
  \/ Refused /\ UNCHANGED picks

(* A field of the login materials is edited: who it is for is remembered.  *)
Owner == IF form.account = Nobody THEN Typed ELSE form.account
Type ==
  /\ Cardinality(selected) = 1
  /\ \E c \in {Owner, Nobody} :
       /\ form' = [form EXCEPT !.credentials = c]
       /\ kept' = IF form.account = Nobody THEN kept ELSE [kept EXCEPT ![form.account] = c]
  /\ UNCHANGED <<loggedIn, shown, lists, selected, lastLoaded, busies>>

-----------------------------------------------------------------------------
(* Tasks, the queue and the session.                                       *)
StartTask ==
  /\ Cardinality(selected) <= 1 /\ form.account # Nobody
  /\ loggedIn /\ ~WorkflowBusy
  /\ Begin([kind |-> "start", account |-> form.account, ticked |-> selected])
  /\ UNCHANGED <<loggedIn, shown, lists, picks, hostingBusy>>
Hold(call) == Free /\ calls' = calls \cup {call} /\ hostingBusy' = TRUE
StartSelected ==
  /\ Cardinality(selected) > 1 /\ loggedIn /\ ~WorkflowBusy
  /\ Hold([kind |-> "selected"])
  /\ UNCHANGED <<loggedIn, shown, lists, picks, actionBusy>>
StartHosting ==
  /\ ~hostingBusy /\ ~WorkflowBusy /\ ~loading /\ list # Nobody /\ list.items # {}
  /\ hostingBusy' = TRUE /\ loadAccounts(filters, TRUE)
  /\ UNCHANGED <<loggedIn, shown, list, cache, picks, calls, actionBusy>>
Dispose ==
  /\ ~hostingBusy /\ selected # {}
  /\ Hold([kind |-> "bulk", accounts |-> selected])
  /\ UNCHANGED <<loggedIn, shown, lists, picks, actionBusy>>
Logout ==
  /\ loggedIn /\ ~taskActive /\ ~actionBusy /\ Begin([kind |-> "logout"])
  /\ UNCHANGED <<loggedIn, shown, lists, picks, hostingBusy>>
Login ==
  /\ ~loggedIn /\ ~taskActive /\ ~actionBusy /\ loggedIn' = TRUE
  /\ UNCHANGED <<shown, lists, picks, busies>>

Ticked(ids) == selected' = ids /\ UNCHANGED <<form, kept, lastLoaded>>
Started(c) == taskActive' = TRUE /\ UNCHANGED <<loads, loading, loggedIn, list, picks>>
Disposed(c) == \E failed \in SUBSET c.accounts : Ticked(selected \cap failed)
Answer(c) ==
  /\ \/ c.kind = "choose" /\ Chosen(c) /\ UNCHANGED hosting
     \/ c.kind = "start" /\ Started(c) /\ UNCHANGED hosting
     \/ c.kind = "selected" /\ Ticked({}) /\ hosting' = TRUE /\ Stay
     \/ c.kind = "hosting" /\ hosting' = TRUE /\ Stay /\ UNCHANGED picks
     \/ c.kind = "bulk" /\ Disposed(c) /\ Stay /\ UNCHANGED hosting
     \/ c.kind = "logout" /\ Leave(loads) /\ UNCHANGED <<hosting, picks>>
     \/ Refused /\ UNCHANGED <<hosting, picks>>
  /\ UNCHANGED <<filters, cache>>
Held(c) == c.kind \in {"hosting", "selected", "bulk"}
Reply ==
  \E c \in calls :
    /\ Answer(c) /\ calls' = calls \ {c}
    /\ actionBusy' = (actionBusy /\ Held(c)) /\ hostingBusy' = (hostingBusy /\ ~Held(c))

(* The event stream and the timers bring the state of the service.         *)
TaskSeen == taskActive' = TRUE /\ UNCHANGED <<loggedIn, hosting, lists, picks, busies>>
TaskEnds ==
  /\ taskActive /\ taskActive' = FALSE
  /\ loadAccounts(filters, FALSE) \/ UNCHANGED lists
  /\ UNCHANGED <<loggedIn, hosting, list, cache, picks, busies>>
HostingSeen == hosting' = ~hosting /\ UNCHANGED <<loggedIn, taskActive, lists, picks, busies>>

Next ==
  \/ Open \/ Ask \/ ChangeThreshold \/ ChangeDays \/ Answered
  \/ Toggle \/ Type \/ StartTask \/ StartSelected \/ StartHosting \/ Dispose
  \/ Logout \/ Login \/ Reply \/ TaskSeen \/ TaskEnds \/ HostingSeen
Spec == Init /\ [][Next]_vars

-----------------------------------------------------------------------------
(* The list on the page belongs to the session in force and to the time    *)
(* filter in force, whatever request is answered late: an answer that      *)
(* crosses a newer filter, a logout or the loss of the local session does  *)
(* not bring its accounts back.                                            *)
ShownListIsAsked == list # Nobody => loggedIn /\ list.filters.days = filters.days

(* The hosting is started for the list the person sees, and only if that   *)
(* list holds accounts, although the filters may change while the list is  *)
(* fetched for it: it keeps the days and the limit of that list, so that   *)
(* it leaves none of its accounts out.  It is not narrowed by the supplier *)
(* and the dates as the list is, and takes the search typed by then: the   *)
(* page says that it goes by the filters in force, and it does not.        *)
HostingCoversList ==
  [][\A c \in calls' \ calls : c.kind = "hosting" =>
       /\ list' # Nobody /\ list'.items # {}
       /\ c.filters = Sent(list'.filters)]_vars

(* A single task is started for the one ticked account: without a ticked   *)
(* account the page asks for one and the button is disabled.  The code     *)
(* looks at the account in the form, which a batch leaves behind.          *)
StartIsForTheTicked == \A c \in calls : c.kind = "start" => c.ticked = {c.account}

(* Credentials typed for the account in the form are never remembered      *)
(* under another account, in whatever order the accounts are ticked,       *)
(* chosen, disposed of and started, and the answers arrive.                *)
CredentialsStayTheirs == \A a \in Accounts : kept[a] \in {Nobody, Typed, a}
=============================================================================
