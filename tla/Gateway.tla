------------------------------ MODULE Gateway -------------------------------
(***************************************************************************)
(* Sessions as the browser's tabs, the Next.js server and the API see      *)
(* them.  The tabs of a browser share one cookie.  The server checks it    *)
(* before it serves a page (proxy.ts, with a cache), and forwards the      *)
(* calls of a page to the API, each route with its own idea of which       *)
(* answers of the API the page may see.  A session may end at any time.    *)
(***************************************************************************)
EXTENDS Naturals, FiniteSets

CONSTANTS
  Tabs,
  Tokens,        \* session tokens
  Companies,
  Home,          \* the company of the path that the routes are written with
  None,
  SessionCache,  \* lifetime of a cached check, 10 seconds
  MaxTime        \* bound on the clock

ASSUME GatewayAssumption ==
  /\ Home \in Companies
  /\ None \notin Tabs \cup Tokens \cup Companies
  /\ None \notin [kind : {"page"}, token : Tokens \cup {None}, answer : {"late"},
                  clears : BOOLEAN]
  /\ SessionCache \in Nat \ {0} /\ MaxTime \in Nat

VARIABLES
  clock,
  sessions,    \* the company of a token and when it ended; company None: not issued
  cookie,      \* vivat_session
  checks,      \* session-check's cache: what is known of a token, and until when
  tabs

vars == <<clock, sessions, cookie, checks, tabs>>

-----------------------------------------------------------------------------
\* The routes. A route refuses some calls itself ("guards"), passes some answers
\* of the API on, and answers 502 for the others (the export: 503); "ok" is its
\* answer to a success. A route of several methods has the guards of all of them.

Refusals == {400, 401, 402, 403, 404, 409, 413, 422, 429}
Upstream == {200, 500, 503} \cup Refusals

Route(guards, passes, ok) == [guards |-> guards, passes |-> passes, ok |-> ok]

Read(passes) == Route({}, passes, 200)
Json == {415, 400}   \* not JSON, or JSON that cannot be read
AsIs == Refusals \cup {500, 503}
Usual == {400, 401, 402, 403, 404, 409}

TripsList     == Route({400}, {400, 401, 402, 403}, 200)
TripCreate    == Route(Json, {400, 401, 402, 403, 409, 422}, 201)
TripStatus    == Route(Json, Usual, 200)
TripUpdate    == Route(Json, Usual, 200)
TripSchedule  == Route(Json, Usual, 201)
RouteFromTrip == Route({400}, {400, 401, 402, 403, 404, 409}, 201)
TripResources == Read({400, 401, 402, 403})
BookingsList   == Read(Usual)
ConfirmPayment == Route({400}, Usual, 200)
BookingCreate  == Route({400}, Usual, 201)
BookingUpdate  == Route(Json, Usual, 200)
BookingCash    == Read(Refusals)
BookingPassengers == Route({400}, AsIs, 200)
CustomersExport == Read({401, 402, 403})
CustomersList   == Read({400, 401, 402, 403})
CustomerCreate  == Route(Json, {400, 402, 409}, 201)
CustomerUpdate  == Route(Json, Usual, 200)
CustomerDetail  == Route({400}, {400, 401, 402, 403, 404}, 200)
ImportTemplate  == Read(AsIs)
CustomersImport == Route({400}, {400, 401, 402, 403, 409, 413}, 200)
RoutesList  == Read({400, 401, 402, 403})
RouteCreate == Route(Json, {400, 401, 402, 403, 422}, 201)
RouteUpdate == Route(Json, {400, 404}, 200)
RouteNavigation == Route({400}, AsIs, 200)
RoutePlaces == Read(AsIs)
RouteStatuses     == Read(Refusals)
RouteStatusCreate == Route(Json, Refusals, 201)
RouteStatusUpdate == Route({415}, Refusals, 200)
WorkflowStatuses     == Read(Refusals)
WorkflowStatusCreate == Route({415}, Refusals, 200)
WorkflowStatusUpdate == Read(Refusals)
FieldsList  == Route({400}, {400, 401, 402, 403}, 200)
FieldWrite  == Route(Json, {400, 402, 404, 409}, 200)
TeamList  == Read(Usual)
TeamWrite == Route(Json, Usual, 200)
FleetList    == Read({401, 402, 403})
VehicleWrite == Route(Json, Usual, 200)
BlocksList  == Read({400, 401, 402, 403})
BlockCreate == Route(Json, {400, 402, 409}, 201)
BlockDelete == Route({400}, {400, 402, 404}, 200)
TransferRequests == Read(Usual)
TransferUpdate   == Route(Json, Usual, 200)
Accounting == Route({400}, Refusals, 200)
FinanceReport == Route({400}, {400, 401, 402, 403}, 200)
FinanceEntry  == Route(Json, Usual, 201)
DriverCash       == Read(Usual)
DriverCashEntry  == Route(Json, Usual, 201)
DriverPassengers == Route({400}, {400, 401, 403, 404}, 200)
DriverCheckin    == Read(Usual)
ExchangeRates    == Read({400, 401, 402, 403})
Statistics == Read({400, 401, 402, 403})
Dashboard  == Read({401, 402, 403})
Activity   == Read(AsIs)
EntityDetail   == Route({404}, {400, 401, 403, 404}, 200)
EntityDeletion == Read({400, 401, 403, 404, 409})
EntityViews    == Route({400, 413}, {400, 401, 403, 404, 409}, 200)
RecordNumbers        == Read(AsIs)
RecordNumberSettings == Route(Json, AsIs, 200)
Branding        == Route(Json, {400, 402}, 200)
PaymentSettings == Route(Json, {400, 401, 402, 403}, 200)
Preferences     == Route(Json, {400, 401}, 200)
IntegrationSecrets == Route({403, 413, 415}, Refusals, 200)
Notifications   == Route({403, 413}, AsIs, 200)
Profile         == Route(Json, AsIs, 200)
Me              == Read({401})

Routes ==
  {TripsList, TripCreate, TripStatus, TripUpdate, TripSchedule, RouteFromTrip,
   TripResources,
   BookingsList, ConfirmPayment, BookingCreate, BookingUpdate, BookingCash,
   BookingPassengers, CustomersExport, CustomersList, CustomerCreate, CustomerUpdate,
   CustomerDetail, ImportTemplate, CustomersImport, RoutesList, RouteCreate,
   RouteUpdate, RouteNavigation, RoutePlaces, RouteStatuses, RouteStatusCreate,
   RouteStatusUpdate, WorkflowStatuses, WorkflowStatusCreate, WorkflowStatusUpdate,
   FieldsList, FieldWrite, TeamList, TeamWrite, FleetList, VehicleWrite, BlocksList,
   BlockCreate, BlockDelete, TransferRequests, TransferUpdate, Accounting,
   FinanceReport, FinanceEntry, DriverCash, DriverCashEntry, DriverPassengers,
   DriverCheckin, ExchangeRates, Statistics, Dashboard, Activity, EntityDetail,
   EntityDeletion, EntityViews, RecordNumbers, RecordNumberSettings, Branding,
   PaymentSettings, Preferences, IntegrationSecrets, Notifications, Profile}

\* Mutant of Reply: what a route does not know looks like a lost session.
ReplyUnauthorised(r, s) ==
  IF s = 200 THEN r.ok ELSE IF s \in r.passes THEN s ELSE 401

Reply(r, s) == IF s = 200 THEN r.ok ELSE IF s \in r.passes THEN s ELSE 502

-----------------------------------------------------------------------------
\* Sessions.

Issued(t) == t # None /\ sessions[t].company # None
Live(t) == Issued(t) /\ sessions[t].ended = None

Unissued == {t \in Tokens : ~Issued(t)}

\* apiFetch puts the session's company into the path, or leaves the path as it is
\* when it cannot find out.
Path(t) == IF Issued(t) THEN {sessions[t].company, Home} ELSE {Home}

\* The API's answers to a call of session t under the path of company c.
Answers(t, c) ==
  IF ~Live(t) THEN {401, 503}
  ELSE IF sessions[t].company # c THEN {403, 503} ELSE Upstream \ {401}

\* A password change, a deactivated membership, the end of thirty days.
EndSession(t) ==
  /\ Live(t)
  /\ sessions' = [sessions EXCEPT ![t].ended = clock]
  /\ UNCHANGED <<clock, cookie, checks, tabs>>

-----------------------------------------------------------------------------
\* Tabs. "call" is a request for a page or of a page that waits for its answer,
\* "check" the session monitor's. An answer is kept by what the browser does with it.

Waiting == "waiting"
Late == "late"   \* for a question that the cache has forgotten

Call(kind) == [kind |-> kind, token |-> cookie, answer |-> Waiting, clears |-> FALSE]

Form(kind) == [Call(kind) EXCEPT !.token = None]

Tab(page) == [page |-> page, form |-> "form", awake |-> TRUE, call |-> None, check |-> None]

Set(w, r) == tabs' = [tabs EXCEPT ![w] = r]

Idle(w) == tabs[w].call = None

Begin(w, call) ==
  /\ Idle(w)
  /\ Set(w, [tabs[w] EXCEPT !.call = call])
  /\ UNCHANGED <<clock, sessions, cookie, checks>>

Pending(w, kind) == ~Idle(w) /\ tabs[w].call.kind = kind /\ tabs[w].call.answer = Waiting

\* Of the answers only a 401, and one that drops the cookie, do anything to the tab
\* or the cookie; the others just end the call.
Answered(call, status, clears) ==
  IF status # 401 /\ ~clears THEN None
  ELSE [call EXCEPT !.answer = IF status = 401 THEN "lost" ELSE "kept", !.clears = clears]

\* A closed tab, and one that shows the text of a 503, can only be opened again.
CloseTab(w) ==
  /\ tabs[w] # Tab("down")
  /\ Set(w, Tab("down"))
  /\ UNCHANGED <<clock, sessions, cookie, checks>>

\* Hidden or offline, and back.
Sleep(w) ==
  /\ tabs[w].page = "app"
  /\ Set(w, [tabs[w] EXCEPT !.awake = ~@])
  /\ UNCHANGED <<clock, sessions, cookie, checks>>

-----------------------------------------------------------------------------
\* A page, behind proxy.ts.

Navigate(w) == tabs[w].page \in {"app", "down"} /\ Begin(w, Call("page"))

Known(t) == t # None /\ checks[t].until > clock

\* Mutant of Remembered: a hit makes the entry last longer.
RememberedLonger(t) == checks' = [checks EXCEPT ![t].until = clock + SessionCache]

Remembered(t) == UNCHANGED checks

\* The page's new state; everything the old page was waiting for is forgotten.
Serve(w) == Set(w, Tab("app"))

\* A redirect to /login, which also drops the cookie.
ToLogin(w) == Set(w, Tab("login")) /\ cookie' = None

ServeKnown(w) ==
  LET t == tabs[w].call.token IN
  /\ Pending(w, "page") /\ Known(t) /\ checks[t].state = "authenticated"
  /\ Remembered(t)
  /\ Serve(w)
  /\ UNCHANGED <<clock, sessions, cookie>>

NoCookie(w) ==
  /\ Pending(w, "page") /\ tabs[w].call.token = None
  /\ ToLogin(w)
  /\ UNCHANGED <<clock, sessions, checks>>

\* The first request for a page asks the API; others join its question.
AskSession(w) ==
  LET t == tabs[w].call.token IN
  /\ Pending(w, "page") /\ t # None /\ ~Known(t)
  /\ checks' = [checks EXCEPT ![t] = [state |-> "asking", until |-> clock + SessionCache]]
  /\ UNCHANGED <<clock, sessions, cookie, tabs>>

\* The tabs whose question is the entry's, and those whose question the cache has
\* forgotten.
Askers(t) == {w \in Tabs : ~Idle(w) /\ tabs[w].call.kind = "page" /\ tabs[w].call.token = t}
Joined(t) == {w \in Askers(t) : tabs[w].call.answer = Waiting}
Latecomers(t) == {w \in Askers(t) : tabs[w].call.answer = Late}

Forgotten == [state |-> "none", until |-> 0]
Forget(t) == checks' = [checks EXCEPT ![t] = Forgotten]

\* A pending entry that goes leaves the tabs that asked to their own question; a
\* request that comes only now asks another one.
Leaving(t) == IF checks[t].state = "asking" THEN SUBSET Joined(t) ELSE {{}}

Left(w) == [tabs[w] EXCEPT !.call.answer = Late]

Heard(page, W, L) ==
  tabs' = [w \in Tabs |-> IF w \in W THEN Tab(page) ELSE IF w \in L THEN Left(w) ELSE tabs[w]]

\* The API's answer to a question that the tabs of W wait for: 200 serves the page, 401
\* redirects and drops the cookie, anything else is a page that says 503. Both of these
\* forget what the cache knows of the session, also when that is a later question, of
\* the tabs L.
Admit(t, W) == Live(t) /\ Heard("app", W, {}) /\ UNCHANGED cookie

Refuse(t, W, L) ==
  /\ Forget(t)
  /\ \/ /\ ~Live(t) /\ Heard("login", W, L)
        /\ cookie' = IF W = {} THEN cookie ELSE None
     \/ Heard("down", W, L) /\ UNCHANGED cookie

SessionState(t) ==
  /\ t # None /\ checks[t].state = "asking"
  /\ \/ checks' = [checks EXCEPT ![t].state = "authenticated"] /\ Admit(t, Joined(t))
     \/ Refuse(t, Joined(t), {})
  /\ UNCHANGED <<clock, sessions>>

\* The answer to a question that the cache has forgotten.
LateState(t) ==
  /\ \E W \in (SUBSET Latecomers(t)) \ {{}} :
       \/ UNCHANGED checks /\ Admit(t, W)
       \/ \E L \in Leaving(t) : Refuse(t, W, L)
  /\ UNCHANGED <<clock, sessions>>

\* More than 500 sessions: the oldest entry goes, whether its question is answered
\* or not.
Evict(t) ==
  /\ checks[t].state # "none"
  /\ Forget(t)
  /\ \E L \in Leaving(t) : Heard("down", {}, L)
  /\ UNCHANGED <<clock, sessions, cookie>>

-----------------------------------------------------------------------------
\* Calls of an open page, through sessionFetch.

Fetch(w) == tabs[w].page = "app" /\ Begin(w, Call("fetch"))

\* A route refuses, or forwards the call and translates the answer; a call that
\* fails, times out or loses its answer looks like a 503.
RouteAnswers(t) ==
  LET upstream == UNION {Answers(t, c) : c \in Path(t)}
  IN  {503} \cup UNION {r.guards \cup {Reply(r, a) : a \in upstream} : r \in Routes}

Forward(w) ==
  /\ Pending(w, "fetch")
  /\ \E call \in {Answered(tabs[w].call, s, FALSE) : s \in RouteAnswers(tabs[w].call.token)} :
       Set(w, [tabs[w] EXCEPT !.call = call])
  /\ UNCHANGED <<clock, sessions, cookie, checks>>

\* On load, when the tab is seen again, online again, and every minute.
Monitor(w) ==
  /\ tabs[w].page = "app" /\ tabs[w].awake /\ tabs[w].check = None
  /\ Set(w, [tabs[w] EXCEPT !.check = Call("me")])
  /\ UNCHANGED <<clock, sessions, cookie, checks>>

\* Mutant of MeClears: any failure of the check drops the cookie.
MeClearsOnFailure(s) == s # 200

\* GET /api/auth/me drops the cookie with a 401.
MeClears(s) == s = 401

\* Mutant of CheckMe: the monitor's route hides what the API says.
CheckMeHidden(w) ==
  /\ tabs[w].check # None /\ tabs[w].check.answer = Waiting
  /\ Set(w, [tabs[w] EXCEPT !.check = Answered(@, 502, FALSE)])
  /\ UNCHANGED <<clock, sessions, cookie, checks>>

CheckMe(w) ==
  /\ tabs[w].check # None /\ tabs[w].check.answer = Waiting
  /\ \E a \in IF Live(tabs[w].check.token) THEN {200, 500} ELSE {401, 503} :
       Set(w, [tabs[w] EXCEPT !.check = Answered(@, Reply(Me, a), MeClears(a))])
  /\ UNCHANGED <<clock, sessions, cookie, checks>>

\* An answer reaches its tab; a lost session leads to the login page, once.
ClearedBy(call) == cookie' = IF call.clears THEN None ELSE cookie

\* The browser keeps a cookie that is set or dropped by an answer to a page that is
\* being left.
FetchAnswer(w) ==
  /\ ~Idle(w) /\ tabs[w].call.kind = "fetch" /\ tabs[w].call.answer # Waiting
  /\ ClearedBy(tabs[w].call)
  /\ IF tabs[w].call.answer = "lost" THEN Set(w, Tab("login"))
     ELSE Set(w, [tabs[w] EXCEPT !.call = None])
  /\ UNCHANGED <<clock, sessions, checks>>

CheckAnswer(w) ==
  /\ tabs[w].check # None /\ tabs[w].check.answer # Waiting
  /\ ClearedBy(tabs[w].check)
  /\ IF tabs[w].check.answer = "lost" THEN Set(w, Tab("login"))
     ELSE Set(w, [tabs[w] EXCEPT !.check = None])
  /\ UNCHANGED <<clock, sessions, checks>>

-----------------------------------------------------------------------------
\* Signing in and out.

SubmitLogin(w) == tabs[w].page = "login" /\ tabs[w].form = "form" /\ Begin(w, Form("login"))

SelectCompany(w) == tabs[w].page = "login" /\ tabs[w].form = "companies" /\ Begin(w, Form("select"))

OtherEmail(w) ==
  /\ tabs[w].page = "login" /\ tabs[w].form = "companies" /\ Idle(w)
  /\ Set(w, [tabs[w] EXCEPT !.form = "form"])
  /\ UNCHANGED <<clock, sessions, cookie, checks>>

\* createSession. The answer carries the token as a cookie and the form goes on to
\* a page; lost, it leaves a session that nobody uses.
SignedIn(w) ==
  \E t \in Unissued, c \in Companies :
    /\ sessions' = [sessions EXCEPT ![t].company = c]
    /\ \/ /\ cookie' = t
          /\ Set(w, [Tab("down") EXCEPT !.call =
                       [kind |-> "page", token |-> t, answer |-> Waiting, clears |-> FALSE]])
       \/ Set(w, [tabs[w] EXCEPT !.call = None]) /\ UNCHANGED cookie

LoginAnswer(w) ==
  /\ Pending(w, "login")
  /\ \/ SignedIn(w)
     \/ /\ \E f \in {"form", "companies"} : Set(w, [tabs[w] EXCEPT !.call = None, !.form = f])
        /\ UNCHANGED <<sessions, cookie>>
  /\ UNCHANGED <<clock, checks>>

SelectAnswer(w) ==
  /\ Pending(w, "select")
  /\ \/ SignedIn(w)
     \/ Set(w, [tabs[w] EXCEPT !.call = None]) /\ UNCHANGED <<sessions, cookie>>
  /\ UNCHANGED <<clock, checks>>

SignOut(w) == tabs[w].page = "app" /\ Begin(w, Call("logout"))

\* The API ends the session, or cannot; the route drops the cookie in any case.
Logout(w) ==
  LET t == tabs[w].call.token IN
  /\ Pending(w, "logout")
  /\ \/ /\ Live(t)
        /\ sessions' = [sessions EXCEPT ![t].ended = clock]
     \/ UNCHANGED sessions
  /\ Set(w, [tabs[w] EXCEPT !.call = Answered(@, 200, TRUE)])
  /\ UNCHANGED <<clock, cookie, checks>>

\* The desktop menu goes to the login page whatever happened, the phone's only
\* after an answer.
LogoutAnswer(w) ==
  /\ ~Idle(w) /\ tabs[w].call.kind = "logout"
  /\ \/ tabs[w].call.answer # Waiting /\ ClearedBy(tabs[w].call) /\ Set(w, Tab("login"))
     \/ UNCHANGED cookie /\ Set(w, Tab("login"))
     \/ UNCHANGED cookie /\ Set(w, [tabs[w] EXCEPT !.call = None])
  /\ UNCHANGED <<clock, sessions, checks>>

\* A question to the API is answered within its five seconds.
Tick ==
  /\ clock < MaxTime
  /\ \A t \in Tokens : checks[t].state = "asking" => clock + 1 < checks[t].until
  /\ clock' = clock + 1
  /\ UNCHANGED <<sessions, cookie, checks, tabs>>

-----------------------------------------------------------------------------
Init ==
  /\ clock = 0
  /\ sessions = [t \in Tokens |-> [company |-> None, ended |-> None]]
  /\ cookie = None
  /\ checks = [t \in Tokens |-> Forgotten]
  /\ tabs = [w \in Tabs |-> Tab("login")]

Page(w) == Navigate(w) \/ ServeKnown(w) \/ NoCookie(w) \/ AskSession(w)
Calls(w) == Fetch(w) \/ Forward(w) \/ Monitor(w) \/ CheckMe(w) \/ FetchAnswer(w)
              \/ CheckAnswer(w)
Account(w) == SubmitLogin(w) \/ SelectCompany(w) \/ OtherEmail(w) \/ LoginAnswer(w)
                \/ SelectAnswer(w) \/ SignOut(w) \/ Logout(w) \/ LogoutAnswer(w)

Next ==
  \/ \E t \in Tokens : EndSession(t) \/ SessionState(t) \/ LateState(t) \/ Evict(t)
  \/ \E w \in Tabs : CloseTab(w) \/ Sleep(w) \/ Page(w) \/ Calls(w) \/ Account(w)
  \/ Tick

Spec == Init /\ [][Next]_vars

\* The monitor's timer; a question asked every minute is answered some time, and
\* nobody reloads the page for ever before the answer is there.
CheckHeard(w) == CheckMe(w) /\ (Live(tabs[w].check.token) \/ tabs'[w].check # None)

LiveSpec ==
  /\ Spec
  /\ \A w \in Tabs : /\ WF_vars(Monitor(w)) /\ SF_vars(CheckAnswer(w))
                     /\ SF_vars(CheckHeard(w))

-----------------------------------------------------------------------------
CallType ==
  {None} \cup [kind : {"page", "fetch", "me", "login", "select", "logout"},
               token : Tokens \cup {None}, answer : {Waiting, Late, "kept", "lost"},
               clears : BOOLEAN]

\* The state has its types; a token that is not issued is neither a cookie nor known
\* to the cache (createSession of main.go, lib/session-check.ts).
TypeOK ==
  /\ clock \in Nat
  /\ sessions \in [Tokens -> [company : Companies \cup {None}, ended : Nat \cup {None}]]
  /\ cookie \in {None} \cup (Tokens \ Unissued)
  /\ checks \in [Tokens -> [state : {"none", "asking", "authenticated"}, until : Nat]]
  /\ \A t \in Unissued : checks[t] = Forgotten
  /\ tabs \in [Tabs -> [page : {"login", "app", "down"},
                        form : {"form", "companies"}, awake : BOOLEAN,
                        call : CallType, check : CallType]]

PageWanted(w) == ~Idle(w) /\ tabs[w].call.kind = "page"

\* A protected page is served only under a session that lives, or that ended less
\* than the cache's lifetime ago, however requests share a question, whenever the
\* session ends meanwhile and whatever the cache forgets (checkSession of lib/session-check.ts).
ServedFresh ==
  [][\A w \in Tabs :
       PageWanted(w) /\ tabs'[w] = Tab("app") =>
         LET t == tabs[w].call.token IN
         Issued(t) /\ (sessions[t].ended = None \/ clock < sessions[t].ended + SessionCache)]_vars

\* An outage is not a logout: a page that is open turns into the login page, and the
\* cookie goes, only after a logout or when the session of the call had ended
\* (docs/auth-sessions.md; sessionFetch, GET /api/auth/me, proxy.ts and every route).
OutageIsNoLogout ==
  [][\A w \in Tabs :
       /\ tabs[w].page = "app" /\ tabs'[w].page = "login" =>
            \/ tabs[w].call # None /\ tabs[w].call.kind = "logout"
            \/ \E call \in {tabs[w].call, tabs[w].check} \ {None} : ~Live(call.token)
       /\ cookie # None /\ cookie' = None =>
            \E v \in Tabs : \E call \in {tabs[v].call, tabs[v].check} \ {None} :
              call.kind = "logout" \/ ~Live(call.token)]_vars

\* An open page that is seen and online notices in the end that its session was
\* lost, although some routes hide the API's 401 (SessionMonitor), unless somebody
\* signs in again in the same browser.
Unnoticed(w) == tabs[w].page = "app" /\ tabs[w].awake /\ ~Live(cookie)

SessionLossNoticed == \A w \in Tabs : []<>~Unnoticed(w)
-----------------------------------------------------------------------------
\* What makes them invariant: see GatewayProofs. The calls that a tab waits for:

CallsOf(w) == {tabs[w].call, tabs[w].check} \ {None}

\* The token of a call is a session's, so that nobody can be signed in with it later.
CallsHaveSessions ==
  \A w \in Tabs : \A call \in CallsOf(w) : call.token # None => Issued(call.token)

\* A lost session, and an answer that drops the cookie, tell the truth.
LossIsTrue ==
  \A w \in Tabs : \A call \in CallsOf(w) :
    /\ call.answer = "lost" => ~Live(call.token)
    /\ call.clears => call.kind = "logout" \/ ~Live(call.token)

\* The cache knows only sessions, and none longer than its lifetime after its end.
CacheIsFresh ==
  \A t \in Tokens :
    /\ checks[t].until <= clock + SessionCache
    /\ checks[t].state = "authenticated" =>
         /\ Issued(t)
         /\ sessions[t].ended = None \/ checks[t].until <= sessions[t].ended + SessionCache

SessionInvariant == TypeOK /\ CallsHaveSessions /\ LossIsTrue /\ CacheIsFresh
=============================================================================
