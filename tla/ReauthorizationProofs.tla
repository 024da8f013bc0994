----------------------- MODULE ReauthorizationProofs -----------------------
(***************************************************************************)
(* Theorems about ReauthorizationPage, for every set of accounts, filters  *)
(* and credentials and any number of requests in flight.                   *)
(*                                                                         *)
(* LoadsInv strengthens ShownListIsAsked: a list request that may still    *)
(* change the page carries the filters in force.  FormOK                   *)
(* strengthens CredentialsStayTheirs: the form holds what was typed for    *)
(* the account that was loaded last.                                       *)
(***************************************************************************)
EXTENDS ReauthorizationPage, TLAPS

Loads == [filters: Filters, forHosting: BOOLEAN, newest: BOOLEAN]

LoadsInv ==
  /\ loads \subseteq Loads
  /\ filters \in Filters /\ cache \in Days \cup {Nobody}
  /\ \A r \in loads : r.newest => loggedIn /\ r.filters = filters
----------------------------------------------------------------------------
(* List requests. *)

(* Requests that are overtaken stay requests, and none of them counts.     *)
LEMMA Overtaken ==
  ASSUME NEW rs \in SUBSET Loads
  PROVE  Invalidate(rs) \subseteq Loads /\ \A r \in Invalidate(rs) : ~r.newest
BY DEF Invalidate, Loads

(* A new list request is the only one that counts, and carries the filters *)
(* the page has from then on.                                              *)
LEMMA LoadAsks ==
  ASSUME LoadsInv, NEW f \in Filters, NEW h \in BOOLEAN, loadAccounts(f, h),
         loggedIn' = loggedIn, cache' = cache
  PROVE  LoadsInv'
<1> DEFINE new == [filters |-> f, forHosting |-> h, newest |-> TRUE]
<1>1. new \in Loads /\ new.filters = f
  BY DEF Loads
<1>2. loads' = Invalidate(loads) \cup {new} /\ loggedIn /\ filters' = f
  BY DEF loadAccounts
<1> HIDE DEF new
<1>3. loads' \subseteq Loads /\ \A r \in loads' : r.newest => r = new
  BY <1>1, <1>2, Overtaken DEF LoadsInv
<1>4. QED BY <1>1, <1>2, <1>3 DEF LoadsInv

(* The page that is left has no request that counts. *)
LEMMA LeaveAsks ==
  ASSUME LoadsInv, NEW rs \in SUBSET loads, Leave(rs), UNCHANGED <<filters, cache>>
  PROVE  LoadsInv' /\ list' = Nobody
BY Overtaken DEF LoadsInv, Leave

(* Fewer requests do no harm. *)
LEMMA FewerAsk ==
  ASSUME LoadsInv, loads' \subseteq loads, UNCHANGED <<loggedIn, filters>>,
         cache' \in Days \cup {Nobody}
  PROVE  LoadsInv'
BY DEF LoadsInv

(* The list on the page, after a step that keeps the page. *)
LEMMA ListKept ==
  ASSUME ShownListIsAsked, UNCHANGED <<list, filters>>, loggedIn => loggedIn'
  PROVE  ShownListIsAsked'
BY DEF ShownListIsAsked

(* Answers and refusals of other requests either leave the page or do not  *)
(* touch its list.                                                         *)
LEMMA RefusedAsks ==
  ASSUME LoadsInv, ShownListIsAsked, Refused, UNCHANGED <<filters, cache>>
  PROVE  LoadsInv' /\ ShownListIsAsked'
<1>1. CASE Leave(loads)
  BY <1>1, LeaveAsks DEF ShownListIsAsked
<1>2. CASE Stay
  BY <1>2, FewerAsk, ListKept DEF Stay, LoadsInv
<1>3. QED BY <1>1, <1>2 DEF Refused

(* Every step keeps the list and its requests to the filters in force.     *)
LEMMA ListSteps ==
  ASSUME LoadsInv, ShownListIsAsked, [Next]_vars
  PROVE  LoadsInv' /\ ShownListIsAsked'
<1>1. CASE Open
  <2>1. UNCHANGED <<loggedIn, cache>> /\ list = Nobody
    BY <1>1 DEF Open
  <2>2. PICK f \in {filters} \cup Changed("days") :
          /\ f.days = IF cache = Nobody THEN AllDays ELSE cache
          /\ loadAccounts(f, FALSE)
          /\ IF cache = Nobody THEN UNCHANGED list
             ELSE \E shownFor \in Filters : shownFor.days = cache /\ list' = Page(shownFor, Accounts)
    BY <1>1 DEF Open
  <2>3. f \in Filters
    BY DEF Changed, LoadsInv
  <2>4. LoadsInv' /\ loggedIn' /\ filters' = f
    BY <2>1, <2>2, <2>3, LoadAsks DEF loadAccounts
  <2>5. QED BY <2>1, <2>2, <2>4 DEF ShownListIsAsked, Page
<1>2. CASE Ask
  <2>1. UNCHANGED <<loggedIn, cache, list>>
    BY <1>2 DEF Ask
  <2>2. PICK f \in {filters} \cup Changed("rest") : loadAccounts(f, FALSE)
    BY <1>2 DEF Ask
  <2>3. f \in Filters /\ f.days = filters.days
    BY DEF Changed, Fields, LoadsInv
  <2>4. QED BY <2>1, <2>2, <2>3, LoadAsks DEF loadAccounts, ShownListIsAsked
<1>3. ASSUME NEW f \in Filters, ChangeFilter(f)
      PROVE  LoadsInv' /\ ShownListIsAsked'
  <2>1. list' = Nobody /\ UNCHANGED <<loggedIn, cache>>
    BY <1>3 DEF ChangeFilter
  <2>2. CASE loggedIn
    BY <1>3, <2>1, <2>2, LoadAsks DEF ChangeFilter, ShownListIsAsked
  <2>3. CASE ~loggedIn
    BY <1>3, <2>1, <2>3 DEF ChangeFilter, ShownListIsAsked, LoadsInv
  <2>4. QED BY <2>2, <2>3
<1>4. CASE ChangeThreshold \/ ChangeDays
  BY <1>3, <1>4 DEF ChangeThreshold, ChangeDays, Changed
<1>5. ASSUME NEW r \in loads, Listed(r) PROVE LoadsInv' /\ ShownListIsAsked'
  <2>1. PICK items \in {{}, Accounts} :
          IF IsLatest(r) THEN list' = Page(r.filters, items)
                              /\ cache' = Cached(Page(r.filters, items))
          ELSE UNCHANGED <<list, cache>>
    BY <1>5 DEF Listed
  <2>2. loads' \subseteq loads /\ UNCHANGED <<loggedIn, filters>>
    BY <1>5 DEF Listed
  <2>3. r.filters.days \in Days /\ Cached(Page(r.filters, items)) \in {Nobody, r.filters.days}
    BY DEF LoadsInv, Loads, Cached, Page, Days
  <2>4. LoadsInv'
    BY <2>1, <2>2, <2>3, FewerAsk DEF LoadsInv
  <2>5. QED BY <2>1, <2>2, <2>4, ListKept DEF IsLatest, LoadsInv, ShownListIsAsked, Page
<1>6. ASSUME NEW r \in loads, ListFails(r) PROVE LoadsInv' /\ ShownListIsAsked'
  <2>1. UNCHANGED <<filters, cache>>
    BY <1>6 DEF ListFails
  <2>2. CASE Leave(loads \ {r})
    BY <2>1, <2>2, LeaveAsks DEF ShownListIsAsked
  <2>3. CASE loads' = loads \ {r} /\ UNCHANGED <<loggedIn, list, taskActive>>
    BY <2>1, <2>3, FewerAsk, ListKept DEF LoadsInv
  <2>4. QED BY <1>6, <2>2, <2>3 DEF ListFails
<1>7. CASE StartHosting
  BY <1>7, LoadAsks, ListKept DEF StartHosting, LoadsInv, loadAccounts
<1>8. CASE Reply
  <2>1. PICK c \in calls : Answer(c)
    BY <1>8 DEF Reply
  <2>2. UNCHANGED <<filters, cache>>
    BY <2>1 DEF Answer
  <2>3. Refused \/ UNCHANGED <<loads, loggedIn, list>>
    BY <2>1 DEF Answer, Chosen, Started, Stay, Refused
  <2>4. QED BY <2>2, <2>3, RefusedAsks, FewerAsk, ListKept DEF LoadsInv
<1>9. CASE Login
  BY <1>9, ListKept DEF Login, LoadsInv, lists
<1>10. CASE TaskEnds
  <2>1. CASE UNCHANGED lists
    BY <1>10, <2>1, FewerAsk, ListKept DEF TaskEnds, lists, LoadsInv
  <2>2. CASE loadAccounts(filters, FALSE)
    BY <1>10, <2>2, LoadAsks, ListKept DEF TaskEnds, LoadsInv, loadAccounts
  <2>3. QED BY <1>10, <2>1, <2>2 DEF TaskEnds
<1>11. CASE \/ Toggle \/ Type \/ StartTask \/ StartSelected \/ Dispose \/ Logout
            \/ TaskSeen \/ HostingSeen \/ UNCHANGED vars
  <2>1. UNCHANGED <<loads, loggedIn, list, filters, cache>>
    BY <1>11 DEF Toggle, Type, StartTask, StartSelected, Dispose, Logout, TaskSeen, HostingSeen, vars, lists
  <2>2. QED BY <2>1, FewerAsk, ListKept DEF LoadsInv
<1>12. QED
  BY <1>1, <1>2, <1>4, <1>5, <1>6, <1>7, <1>8, <1>9, <1>10, <1>11 DEF Next, Answered

(* The initial page has no list and no request. *)
LEMMA InitAsks == Init => LoadsInv /\ ShownListIsAsked
BY FiltersAssumption DEF Init, LoadsInv, ShownListIsAsked

(* The list on the page belongs to the session and the time filter in      *)
(* force, whatever request is answered late (createLatestRequestGuard in   *)
(* state.ts, and loadAccounts in App.vue).                                 *)
THEOREM ListIsAsked == Spec => []ShownListIsAsked
<1>1. LoadsInv /\ ShownListIsAsked /\ [Next]_vars => LoadsInv' /\ ShownListIsAsked'
  BY ListSteps
<1>2. QED BY InitAsks, <1>1, PTL DEF Spec

(* Only the answer of a list request starts the hosting, and it does so    *)
(* with the list it has just shown.                                        *)
LEMMA HostingAsks ==
  ASSUME LoadsInv, [Next]_vars, NEW c \in calls' \ calls, c.kind = "hosting"
  PROVE  list' # Nobody /\ list'.items # {} /\ c.filters = Sent(list'.filters)
<1>1. ASSUME NEW call, call.kind # "hosting", Begin(call) \/ Hold(call) PROVE FALSE
  BY <1>1 DEF Begin, Hold
<1>2. PICK r \in loads : Listed(r) \/ ListFails(r)
  <2>1. ~(Open \/ Ask \/ ChangeThreshold \/ ChangeDays \/ Type \/ StartHosting \/ Login
          \/ Reply \/ TaskSeen \/ TaskEnds \/ HostingSeen \/ UNCHANGED vars)
    BY DEF Open, Ask, ChangeThreshold, ChangeDays, ChangeFilter, Type, StartHosting, Login,
       Reply, TaskSeen, TaskEnds, HostingSeen, busies, vars
  <2>2. ~(StartTask \/ StartSelected \/ Dispose \/ Logout)
    BY <1>1 DEF StartTask, StartSelected, Dispose, Logout
  <2>3. ~Toggle
    BY <1>1 DEF Toggle, Tick, Untick, Choose
  <2>4. QED BY <2>1, <2>2, <2>3 DEF Next, Answered
<1>3. ~ListFails(r)
  BY DEF ListFails, AfterList, busies
<1>4. PICK items \in {{}, Accounts} :
        /\ IF IsLatest(r) THEN list' = Page(r.filters, items) ELSE UNCHANGED list
        /\ AfterList(r, items # {})
  BY <1>2, <1>3 DEF Listed
<1>5. IsLatest(r) /\ items # {} /\ c = Request
  BY <1>4 DEF AfterList, Refreshed, busies
<1>6. r.filters = filters /\ filters \in Filters
  BY <1>5 DEF IsLatest, LoadsInv
<1>7. c.filters = Sent(filters)
  BY <1>5 DEF Request
<1>8. list' \in [filters: Filters, items: {{}, Accounts}] /\ list'.filters = filters /\ list'.items = items
  BY <1>4, <1>5, <1>6 DEF Page
<1>9. QED BY <1>5, <1>7, <1>8, ListsAssumption

(* The hosting is started with the days and the limit of the list the      *)
(* person sees, and only if that list holds accounts, whatever changes     *)
(* while the list is fetched; the supplier and the dates of the list are   *)
(* not kept (startReauthorizationHosting).                                 *)
THEOREM HostingCovers == Spec => HostingCoversList
<1>1. LoadsInv /\ ShownListIsAsked /\ [Next]_vars => LoadsInv' /\ ShownListIsAsked'
  BY ListSteps
<1>2. LoadsInv /\ [Next]_vars =>
        [\A c \in calls' \ calls : c.kind = "hosting" =>
           /\ list' # Nobody /\ list'.items # {}
           /\ c.filters = Sent(list'.filters)]_vars
  BY HostingAsks
<1>3. QED BY InitAsks, <1>1, <1>2, PTL DEF Spec, HostingCoversList
----------------------------------------------------------------------------
(* Credentials. *)

(* The parts of the page the credentials depend on. *)
FormOK ==
  /\ kept \in [Accounts -> Accounts \cup {Nobody, Typed}]
  /\ lastLoaded \in Accounts \cup {Nobody}
  /\ form \in [account: {Nobody, lastLoaded}, credentials: {Nobody, Typed, lastLoaded}]
  /\ CredentialsStayTheirs
CallsName == \A c \in calls : c.kind = "choose" => c.account \in Accounts

(* The account may be taken out of the form; what was typed stays there.   *)
LEMMA UnloadedForm ==
  ASSUME FormOK, UNCHANGED <<kept, lastLoaded>>, form' \in {form, Unloaded}
  PROVE  FormOK'
BY DEF FormOK, Unloaded, CredentialsStayTheirs

(* An account that is loaded brings its own credentials, and those in the  *)
(* form are kept for the one that was loaded before.                       *)
LEMMA SelectedForm ==
  ASSUME FormOK, NEW a \in Accounts, selectAccount(a)
  PROVE  FormOK'
<1>1. kept' = IF lastLoaded = Nobody THEN kept ELSE [kept EXCEPT ![lastLoaded] = form.credentials]
  BY DEF selectAccount, Remember
<1>2. form.credentials \in {Nobody, Typed, lastLoaded}
  BY DEF FormOK
<1>3. kept' \in [Accounts -> Accounts \cup {Nobody, Typed}]
  BY <1>1, <1>2 DEF FormOK
<1>4. \A b \in Accounts : kept'[b] \in {Nobody, Typed, b}
  BY <1>1, <1>2 DEF FormOK, CredentialsStayTheirs
<1>5. lastLoaded' = a /\ form' = [account |-> a, credentials |-> kept'[a]]
  BY DEF selectAccount
<1>6. QED BY <1>3, <1>4, <1>5 DEF FormOK, CredentialsStayTheirs

(* What is typed is for the account in the form. *)
LEMMA TypedForm ==
  ASSUME FormOK, Type
  PROVE  FormOK'
<1>1. PICK c \in {Owner, Nobody} :
        /\ form' = [form EXCEPT !.credentials = c]
        /\ kept' = IF form.account = Nobody THEN kept ELSE [kept EXCEPT ![form.account] = c]
  BY DEF Type
<1>2. lastLoaded' = lastLoaded /\ form.account \in {Nobody, lastLoaded}
  BY DEF Type, FormOK
<1>3. c \in {Nobody, Typed, lastLoaded} /\ (form.account # Nobody => c \in {Nobody, lastLoaded})
  BY <1>2 DEF Owner
<1>4. form' \in [account: {Nobody, lastLoaded'}, credentials: {Nobody, Typed, lastLoaded'}]
  BY <1>1, <1>2, <1>3 DEF FormOK
<1>5. kept' \in [Accounts -> Accounts \cup {Nobody, Typed}]
  BY <1>1, <1>2, <1>3 DEF FormOK
<1>6. \A b \in Accounts : kept'[b] \in {Nobody, Typed, b}
  BY <1>1, <1>2, <1>3 DEF FormOK, CredentialsStayTheirs
<1>7. QED BY <1>2, <1>4, <1>5, <1>6 DEF FormOK, CredentialsStayTheirs

(* Every step keeps the credentials apart.                                 *)
LEMMA FormSteps ==
  ASSUME FormOK, CallsName, [Next]_vars
  PROVE  FormOK'
<1>1. CASE Toggle
  <2>1. UNCHANGED <<kept, lastLoaded>> /\ form' \in {form, Unloaded}
    BY <1>1 DEF Toggle, Tick, Untick, Choose
  <2>2. QED BY <2>1, UnloadedForm
<1>2. ASSUME NEW f, ChangeFilter(f) PROVE FormOK'
  BY <1>2, UnloadedForm DEF ChangeFilter
<1>3. CASE ChangeThreshold \/ ChangeDays
  BY <1>2, <1>3 DEF ChangeThreshold, ChangeDays
<1>4. CASE Reply
  <2>1. PICK c \in calls : Answer(c)
    BY <1>4 DEF Reply
  <2>2. CASE c.kind = "choose" /\ selectAccount(c.account)
    BY <2>2, SelectedForm DEF CallsName
  <2>3. CASE UNCHANGED <<form, kept, lastLoaded>>
    BY <2>3, UnloadedForm
  <2>4. QED BY <2>1, <2>2, <2>3 DEF Answer, Chosen, Started, Disposed, Ticked, picks
<1>5. CASE \/ Open \/ Ask \/ Answered \/ StartTask \/ StartSelected \/ StartHosting \/ Dispose
           \/ Logout \/ Login \/ TaskSeen \/ TaskEnds \/ HostingSeen \/ UNCHANGED vars
  <2>1. UNCHANGED <<form, kept, lastLoaded>>
    BY <1>5 DEF Open, Ask, Answered, Listed, ListFails, StartTask, StartSelected, StartHosting,
       Dispose, Logout, Login, TaskSeen, TaskEnds, HostingSeen, vars, picks
  <2>2. QED BY <2>1, UnloadedForm
<1>6. QED BY <1>1, <1>3, <1>4, <1>5, TypedForm DEF Next

(* A call to load an account names one of the list. *)
LEMMA CallSteps ==
  ASSUME CallsName, [Next]_vars
  PROVE  CallsName'
<1>1. ASSUME NEW call, call.kind = "choose" => call.account \in Accounts, Begin(call) \/ Hold(call)
      PROVE  CallsName'
  BY <1>1 DEF Begin, Hold, CallsName
<1>2. CASE Toggle
  <2>1. PICK a \in Accounts : Tick(a) \/ Untick(a)
    BY <1>2 DEF Toggle
  <2>2. calls' = calls \/ Begin([kind |-> "choose", account |-> a])
    BY <2>1 DEF Tick, Untick, Choose
  <2>3. QED BY <1>1, <2>2 DEF CallsName
<1>3. CASE StartTask \/ StartSelected \/ Dispose \/ Logout
  BY <1>1, <1>3 DEF StartTask, StartSelected, Dispose, Logout
<1>4. CASE Answered
  <2>1. ASSUME NEW r, NEW asked, AfterList(r, asked) PROVE CallsName'
    BY <2>1 DEF AfterList, Request, CallsName, busies
  <2>2. QED BY <1>4, <2>1 DEF Answered, Listed, ListFails
<1>5. CASE Reply
  BY <1>5 DEF Reply, CallsName
<1>6. CASE \/ Open \/ Ask \/ ChangeThreshold \/ ChangeDays \/ Type \/ StartHosting
           \/ Login \/ TaskSeen \/ TaskEnds \/ HostingSeen \/ UNCHANGED vars
  <2>1. calls' = calls
    BY <1>6 DEF Open, Ask, ChangeThreshold, ChangeDays, ChangeFilter, Type, StartHosting,
       Login, TaskSeen, TaskEnds, HostingSeen, vars, busies
  <2>2. QED BY <2>1 DEF CallsName
<1>7. QED BY <1>2, <1>3, <1>4, <1>5, <1>6 DEF Next

(* Credentials typed for the account in the form are never remembered      *)
(* under another account, in whatever order accounts are ticked, chosen    *)
(* and started and the answers arrive (selectAccount and the credential    *)
(* memory of App.vue).                                                     *)
THEOREM CredentialsTheirs == Spec => []CredentialsStayTheirs
<1>1. Init => FormOK /\ CallsName
  BY DEF Init, FormOK, CallsName, CredentialsStayTheirs
<1>2. FormOK /\ CallsName /\ [Next]_vars => FormOK' /\ CallsName'
  BY FormSteps, CallSteps
<1>3. FormOK => CredentialsStayTheirs
  BY DEF FormOK
<1>4. QED BY <1>1, <1>2, <1>3, PTL DEF Spec
============================================================================
