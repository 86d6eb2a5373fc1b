---------------------------- MODULE GatewayProofs ----------------------------
(***************************************************************************)
(* Theorems of Gateway for any number of tabs, tokens and companies, every *)
(* lifetime of the cache and every bound on the clock.                     *)
(*   SessionsTypeCorrect  every reachable state is well formed;            *)
(*   PagesAreFresh        a protected page is served only under a session  *)
(*                        that lives or ended a moment ago;                *)
(*   OutagesKeepSessions  an outage is not a logout.                       *)
(* They rest on SessionInvariant. A call carries no token that somebody    *)
(* could still be signed in with later, so that a session which is over    *)
(* for a call stays over until its answer arrives; and a cached check was  *)
(* asked for before its session ended, and lasts no longer than its        *)
(* lifetime from then.                                                     *)
(***************************************************************************)
EXTENDS Gateway, TLAPS

-----------------------------------------------------------------------------
\* The invariant of one tab, for given sessions S.

IssuedIn(S, t) == t # None /\ S[t].company # None
LiveIn(S, t) == IssuedIn(S, t) /\ S[t].ended = None

CallGood(S, c) ==
  c # None =>
    /\ c.token # None => IssuedIn(S, c.token)
    /\ c.answer = "lost" => ~LiveIn(S, c.token)
    /\ c.clears => c.kind = "logout" \/ ~LiveIn(S, c.token)

TabType == [page : {"login", "app", "down"}, form : {"form", "companies"},
            awake : BOOLEAN, call : CallType, check : CallType]

Sound(S, r) == r \in TabType /\ CallGood(S, r.call) /\ CallGood(S, r.check)

SessionType == [Tokens -> [company : Companies \cup {None}, ended : Nat \cup {None}]]

\* Sessions are only added, and one that is over stays over.
Grown(S, R) ==
  \A t : IssuedIn(S, t) => IssuedIn(R, t) /\ (~LiveIn(S, t) => ~LiveIn(R, t))

\* Gateway's operators are these, for the current sessions.
LEMMA Current ==
  ASSUME NEW t PROVE (Issued(t) <=> IssuedIn(sessions, t)) /\ (Live(t) <=> LiveIn(sessions, t))
  BY DEF Issued, Live, IssuedIn, LiveIn

\* The invariant speaks of each tab.
ByTab == TypeOK => (CallsHaveSessions /\ LossIsTrue <=> \A w \in Tabs : Sound(sessions, tabs[w]))

\* It is the same as the two parts of SessionInvariant.
LEMMA SoundTabs == ByTab
<1> SUFFICES ASSUME TypeOK
             PROVE  CallsHaveSessions /\ LossIsTrue
                      <=> \A w \in Tabs : Sound(sessions, tabs[w])
  BY DEF ByTab
<1>1. \A w \in Tabs : tabs[w] \in TabType
  BY DEF TypeOK, TabType
<1>2. ASSUME NEW w \in Tabs
      PROVE  (\A c \in CallsOf(w) :
                /\ c.token # None => Issued(c.token)
                /\ c.answer = "lost" => ~Live(c.token)
                /\ c.clears => c.kind = "logout" \/ ~Live(c.token))
             <=> CallGood(sessions, tabs[w].call) /\ CallGood(sessions, tabs[w].check)
  BY Current DEF CallsOf, CallGood
<1> QED
  BY <1>1, <1>2 DEF CallsHaveSessions, LossIsTrue, Sound

\* A tab that waits stays sound while sessions come and end.
LEMMA SoundStays ==
  ASSUME NEW S, NEW R, Grown(S, R), NEW r, Sound(S, r) PROVE Sound(R, r)
<1>1. ASSUME NEW c, CallGood(S, c) PROVE CallGood(R, c)
  <2>1. ASSUME NEW t, t # None => IssuedIn(S, t), ~LiveIn(S, t) PROVE ~LiveIn(R, t)
    BY <2>1 DEF Grown, LiveIn, IssuedIn
  <2> QED
    BY <1>1, <2>1 DEF CallGood, Grown
<1> QED
  BY <1>1 DEF Sound

\* A tab that waits for nothing is sound.
LEMMA BlankSound ==
  ASSUME NEW S, NEW p \in {"login", "app", "down"}
  PROVE  Sound(S, Tab(p)) /\ Tab(p).page = p /\ Tab(p).call = None
  BY DEF Sound, Tab, TabType, CallType, CallGood

\* A sound tab with a sound call or check.
LEMMA SoundSet ==
  ASSUME NEW S, NEW r, Sound(S, r), NEW c \in CallType, CallGood(S, c)
  PROVE  Sound(S, [r EXCEPT !.call = c]) /\ Sound(S, [r EXCEPT !.check = c])
  BY DEF Sound, TabType

\* A sound tab with another form, awake or not, or one that waits no longer.
LEMMA SoundExcept ==
  ASSUME NEW S, NEW r, Sound(S, r)
  PROVE  /\ \A f \in {"form", "companies"} : Sound(S, [r EXCEPT !.form = f])
         /\ Sound(S, [r EXCEPT !.awake = ~@])
         /\ Sound(S, [r EXCEPT !.call = None])
         /\ Sound(S, [r EXCEPT !.check = None])
         /\ \A f \in {"form", "companies"} : Sound(S, [r EXCEPT !.call = None, !.form = f])
<1>1. None \in CallType /\ CallGood(S, None)
  BY DEF CallType, CallGood
<1>2. r \in TabType /\ CallGood(S, r.call) /\ CallGood(S, r.check)
  BY DEF Sound
<1>3. Sound(S, [r EXCEPT !.call = None]) /\ Sound(S, [r EXCEPT !.check = None])
  BY <1>1, <1>2 DEF Sound, TabType
<1>4. \A f \in {"form", "companies"} : Sound(S, [r EXCEPT !.form = f])
  BY <1>2 DEF Sound, TabType
<1>5. Sound(S, [r EXCEPT !.awake = ~@])
  BY <1>2 DEF Sound, TabType
<1>6. \A f \in {"form", "companies"} : Sound(S, [r EXCEPT !.call = None, !.form = f])
  BY <1>1, <1>2 DEF Sound, TabType
<1> QED
  BY <1>1, <1>3, <1>4, <1>5, <1>6

-----------------------------------------------------------------------------
\* Steps of the sessions.

\* How a step changes the sessions: one ends, or one is created.
SessionsMove ==
  \/ UNCHANGED sessions
  \/ \E t \in Tokens : Live(t) /\ sessions' = [sessions EXCEPT ![t].ended = clock]
  \/ \E t \in Unissued, c \in Companies : sessions' = [sessions EXCEPT ![t].company = c]

\* Such a change loses no session and revives none.
LEMMA MoveGrows ==
  ASSUME TypeOK, SessionsMove
  PROVE  sessions' \in SessionType /\ Grown(sessions, sessions')
<1>0. None \notin Tokens /\ None \notin Companies
  BY GatewayAssumption
<1>1. CASE UNCHANGED sessions
  BY <1>1 DEF TypeOK, SessionType, Grown
<1>2. ASSUME NEW t \in Tokens, Live(t), sessions' = [sessions EXCEPT ![t].ended = clock]
      PROVE  sessions' \in SessionType /\ Grown(sessions, sessions')
  <2>1. sessions' \in SessionType
    BY <1>2 DEF TypeOK, SessionType
  <2>2. ASSUME NEW u PROVE sessions'[u].company = sessions[u].company
    BY <1>2 DEF TypeOK
  <2>3. ASSUME NEW u, u # t PROVE sessions'[u].ended = sessions[u].ended
    BY <1>2, <2>3 DEF TypeOK
  <2>4. LiveIn(sessions, t)
    BY <1>2, Current
  <2> QED
    BY <2>1, <2>2, <2>3, <2>4 DEF Grown, IssuedIn, LiveIn
<1>3. ASSUME NEW t \in Unissued, NEW c \in Companies,
             sessions' = [sessions EXCEPT ![t].company = c]
      PROVE  sessions' \in SessionType /\ Grown(sessions, sessions')
  <2>0. t \in Tokens /\ ~IssuedIn(sessions, t)
    BY Current DEF Unissued
  <2>1. sessions' \in SessionType
    BY <1>3, <2>0 DEF TypeOK, SessionType
  <2>2. ASSUME NEW u, u # t PROVE sessions'[u] = sessions[u]
    BY <1>3, <2>2 DEF TypeOK
  <2> QED
    BY <2>0, <2>1, <2>2 DEF Grown, IssuedIn, LiveIn
<1> QED
  BY <1>1, <1>2, <1>3 DEF SessionsMove

\* What a step of tab w does to the tabs.
TabStep(w) ==
  \E r : /\ tabs' = [tabs EXCEPT ![w] = r]
         /\ Sound(sessions', r)

\* What the invariant says of a tab and of the cookie.
LEMMA TabFacts ==
  ASSUME SessionInvariant, NEW w \in Tabs
  PROVE  /\ Sound(sessions, tabs[w]) /\ tabs[w] \in TabType
         /\ CallGood(sessions, tabs[w].call) /\ tabs[w].call \in CallType
         /\ CallGood(sessions, tabs[w].check) /\ tabs[w].check \in CallType
         /\ cookie # None => cookie \in Tokens /\ IssuedIn(sessions, cookie)
<1>1. Sound(sessions, tabs[w])
  BY SoundTabs DEF SessionInvariant, ByTab
<1>2. cookie # None => cookie \in Tokens /\ IssuedIn(sessions, cookie)
  BY Current DEF SessionInvariant, TypeOK, Unissued
<1> QED
  BY <1>1, <1>2 DEF Sound, TabType

\* A new call carries the cookie, or nothing.
LEMMA NewCall ==
  ASSUME SessionInvariant, NEW w \in Tabs,
         NEW k \in {"page", "fetch", "me", "login", "select", "logout"}
  PROVE  /\ Call(k) \in CallType /\ CallGood(sessions, Call(k))
         /\ Form(k) \in CallType /\ CallGood(sessions, Form(k))
  BY TabFacts DEF Call, Form, CallType, CallGood, Waiting

\* What an answer leaves of a call: nothing, or a call that tells the truth if the
\* session was over whenever the answer is a 401 or drops the cookie.
LEMMA AnsweredGood ==
  ASSUME NEW S, NEW c \in CallType, c # None, CallGood(S, c), NEW s, NEW b \in BOOLEAN,
         s = 401 => ~LiveIn(S, c.token),
         b => c.kind = "logout" \/ ~LiveIn(S, c.token)
  PROVE  Answered(c, s, b) \in CallType /\ CallGood(S, Answered(c, s, b))
<1>1. CASE s # 401 /\ ~b
  BY <1>1 DEF Answered, CallType, CallGood
<1>2. CASE ~(s # 401 /\ ~b)
  <2> DEFINE v == IF s = 401 THEN "lost" ELSE "kept"
             d == [c EXCEPT !.answer = v, !.clears = b]
             R == [kind : {"page", "fetch", "me", "login", "select", "logout"},
                   token : Tokens \cup {None}, answer : {Waiting, Late, "kept", "lost"},
                   clears : BOOLEAN]
  <2>1. Answered(c, s, b) = d
    BY <1>2 DEF Answered
  <2>3. c \in R
    BY DEF CallType
  <2>4. v \in {Waiting, Late, "kept", "lost"} /\ (v = "lost" <=> s = 401)
    OBVIOUS
  <2> HIDE DEF v
  <2>5. d \in R /\ d.token = c.token /\ d.kind = c.kind /\ d.clears = b /\ d.answer = v
    BY <2>3, <2>4
  <2>2. d \in CallType
    BY <2>5 DEF CallType
  <2> HIDE DEF d
  <2> QED
    BY <2>1, <2>2, <2>4, <2>5 DEF CallGood
<1> QED
  BY <1>1, <1>2

-----------------------------------------------------------------------------
\* Answers of the routes.

\* No route answers 401 of its own accord.
LEMMA RoutesForward == \A r \in Routes : 401 \notin r.guards /\ r.ok # 401
  BY DEF Routes, Route, Read, Json, AsIs, Usual, Refusals, TripsList, TripCreate,
         TripStatus, TripUpdate, TripSchedule, RouteFromTrip, TripResources, BookingsList,
         ConfirmPayment, BookingCreate, BookingUpdate, BookingCash, BookingPassengers,
         CustomersExport, CustomersList, CustomerCreate, CustomerUpdate, CustomerDetail,
         ImportTemplate, CustomersImport, RoutesList, RouteCreate, RouteUpdate,
         RouteNavigation, RoutePlaces, RouteStatuses, RouteStatusCreate,
         RouteStatusUpdate, WorkflowStatuses, WorkflowStatusCreate, WorkflowStatusUpdate,
         FieldsList, FieldWrite, TeamList, TeamWrite, FleetList, VehicleWrite, BlocksList,
         BlockCreate, BlockDelete, TransferRequests, TransferUpdate, Accounting,
         FinanceReport, FinanceEntry, DriverCash, DriverCashEntry, DriverPassengers,
         DriverCheckin, ExchangeRates, Statistics, Dashboard, Activity, EntityDetail,
         EntityDeletion, EntityViews, RecordNumbers, RecordNumberSettings, Branding,
         PaymentSettings, Preferences, IntegrationSecrets, Notifications, Profile

\* A page sees a 401 only when the API said so, and the API only when the session is
\* over.
LEMMA UnauthorisedIsTrue ==
  ASSUME NEW t, 401 \in RouteAnswers(t) PROVE ~Live(t)
<1> DEFINE upstream == UNION {Answers(t, c) : c \in Path(t)}
<1>1. PICK r \in Routes : 401 \in r.guards \cup {Reply(r, a) : a \in upstream}
  BY DEF RouteAnswers
<1>2. PICK a \in upstream : Reply(r, a) = 401
  BY <1>1, RoutesForward
<1>3. a = 401
  BY <1>2, RoutesForward DEF Reply
<1>4. PICK c \in Path(t) : a \in Answers(t, c)
  BY <1>2
<1> QED
  BY <1>3, <1>4 DEF Answers, Upstream, Refusals

\* The monitor's route does not hide a 401 and adds none.
LEMMA MeTellsTruth == \A s \in {200, 401, 500, 503} : (Reply(Me, s) = 401) <=> (s = 401)
  BY DEF Reply, Me, Read, Route

-----------------------------------------------------------------------------
\* Steps of the tabs.

\* A tab whose new state is sound in the sessions before the step.
LEMMA TabSet ==
  ASSUME SessionInvariant, SessionsMove, NEW w \in Tabs, NEW r, Sound(sessions, r), Set(w, r)
  PROVE  TabStep(w)
  BY MoveGrows, SoundStays DEF TabStep, Set, SessionInvariant

\* A new call of a tab.
LEMMA BeginStep ==
  ASSUME SessionInvariant, NEW w \in Tabs,
         NEW k \in {"page", "fetch", "me", "login", "select", "logout"},
         Begin(w, Call(k)) \/ Begin(w, Form(k))
  PROVE  TabStep(w) /\ SessionsMove
<1>1. SessionsMove
  BY DEF Begin, SessionsMove
<1>2. /\ Sound(sessions, [tabs[w] EXCEPT !.call = Call(k)])
      /\ Sound(sessions, [tabs[w] EXCEPT !.call = Form(k)])
  BY TabFacts, NewCall, SoundSet
<1> QED
  BY <1>1, <1>2, TabSet DEF Begin

\* Pages, behind proxy.ts.
LEMMA PageStep ==
  ASSUME SessionInvariant, NEW w \in Tabs, Page(w)
  PROVE  (TabStep(w) \/ UNCHANGED tabs) /\ SessionsMove
<1>1. CASE Navigate(w)
  BY <1>1, BeginStep DEF Navigate
<1>2. CASE ServeKnown(w)
  <2>1. SessionsMove
    BY <1>2 DEF ServeKnown, SessionsMove
  <2> QED
    BY <1>2, <2>1, BlankSound, TabSet DEF ServeKnown, Serve
<1>3. CASE NoCookie(w)
  <2>1. SessionsMove
    BY <1>3 DEF NoCookie, SessionsMove
  <2> QED
    BY <1>3, <2>1, BlankSound, TabSet DEF NoCookie, ToLogin
<1>4. CASE AskSession(w)
  BY <1>4 DEF AskSession, SessionsMove
<1> QED
  BY <1>1, <1>2, <1>3, <1>4 DEF Page

\* Calls of an open page.
LEMMA CallsStep ==
  ASSUME SessionInvariant, NEW w \in Tabs, Calls(w)
  PROVE  TabStep(w) /\ SessionsMove
<1> DEFINE r == tabs[w]
<1>0. /\ Sound(sessions, r)
      /\ r.call \in CallType /\ CallGood(sessions, r.call)
      /\ r.check \in CallType /\ CallGood(sessions, r.check)
  BY TabFacts
<1>7. ASSUME NEW c \in CallType, CallGood(sessions, c)
      PROVE  Sound(sessions, [r EXCEPT !.check = c])
  BY <1>0, <1>7, SoundSet
<1>1. CASE Fetch(w)
  BY <1>1, BeginStep DEF Fetch
<1>2. CASE Forward(w)
  <2>1. r.call # None
    BY <1>2 DEF Forward, Pending, Idle
  <2>2. PICK s \in RouteAnswers(r.call.token) :
          Set(w, [r EXCEPT !.call = Answered(r.call, s, FALSE)])
    BY <1>2 DEF Forward
  <2>3. s = 401 => ~LiveIn(sessions, r.call.token)
    BY UnauthorisedIsTrue, Current
  <2>4. /\ Answered(r.call, s, FALSE) \in CallType
        /\ CallGood(sessions, Answered(r.call, s, FALSE))
    BY <1>0, <2>1, <2>3, AnsweredGood
  <2>5. Sound(sessions, [r EXCEPT !.call = Answered(r.call, s, FALSE)])
    BY <1>0, <2>4, SoundSet
  <2>6. SessionsMove
    BY <1>2 DEF Forward, SessionsMove
  <2> QED
    BY <2>2, <2>5, <2>6, TabSet
<1>3. CASE Monitor(w)
  <2>1. SessionsMove
    BY <1>3 DEF Monitor, SessionsMove
  <2>2. Sound(sessions, [r EXCEPT !.check = Call("me")])
    BY <1>0, NewCall, SoundSet
  <2> QED
    BY <1>3, <2>1, <2>2, TabSet DEF Monitor
<1>4. CASE CheckMe(w)
  <2>1. r.check # None
    BY <1>4 DEF CheckMe
  <2>2. PICK a \in IF Live(r.check.token) THEN {200, 500} ELSE {401, 503} :
          Set(w, [r EXCEPT !.check = Answered(r.check, Reply(Me, a), MeClears(a))])
    BY <1>4 DEF CheckMe
  <2>3. a = 401 => ~LiveIn(sessions, r.check.token)
    BY Current
  <2>4. (Reply(Me, a) = 401) <=> (a = 401)
    BY MeTellsTruth
  <2> DEFINE s == Reply(Me, a)
             b == MeClears(a)
             d == Answered(r.check, s, b)
  <2>8. /\ b \in BOOLEAN
        /\ s = 401 => ~LiveIn(sessions, r.check.token)
        /\ b => r.check.kind = "logout" \/ ~LiveIn(sessions, r.check.token)
    BY <2>3, <2>4 DEF MeClears
  <2>9. Set(w, [r EXCEPT !.check = d])
    BY <2>2
  <2> HIDE DEF s, b
  <2>5. d \in CallType /\ CallGood(sessions, d)
    BY <1>0, <2>1, <2>8, AnsweredGood
  <2>10. PICK c \in CallType : CallGood(sessions, c) /\ Set(w, [r EXCEPT !.check = c])
    BY <2>5, <2>9
  <2>6. Sound(sessions, [r EXCEPT !.check = c])
    BY <1>7, <2>10
  <2>7. SessionsMove
    BY <1>4 DEF CheckMe, SessionsMove
  <2> QED
    BY <2>6, <2>7, <2>10, TabSet
<1>5. CASE FetchAnswer(w)
  <2>1. SessionsMove
    BY <1>5 DEF FetchAnswer, SessionsMove
  <2>2. Sound(sessions, [r EXCEPT !.call = None])
    BY <1>0, SoundExcept
  <2> QED
    BY <1>5, <2>1, <2>2, BlankSound, TabSet DEF FetchAnswer
<1>6. CASE CheckAnswer(w)
  <2>1. SessionsMove
    BY <1>6 DEF CheckAnswer, SessionsMove
  <2>2. Sound(sessions, [r EXCEPT !.check = None])
    BY <1>0, SoundExcept
  <2> QED
    BY <1>6, <2>1, <2>2, BlankSound, TabSet DEF CheckAnswer
<1> QED
  BY <1>1, <1>2, <1>3, <1>4, <1>5, <1>6 DEF Calls

\* A session is created, and its token goes into the next call for a page.
LEMMA SignedInStep ==
  ASSUME SessionInvariant, NEW w \in Tabs, SignedIn(w)
  PROVE  TabStep(w) /\ SessionsMove
<1>1. PICK t \in Unissued, c \in Companies :
        /\ sessions' = [sessions EXCEPT ![t].company = c]
        /\ \/ /\ cookie' = t
              /\ Set(w, [Tab("down") EXCEPT !.call =
                           [kind |-> "page", token |-> t, answer |-> Waiting,
                            clears |-> FALSE]])
           \/ Set(w, [tabs[w] EXCEPT !.call = None]) /\ UNCHANGED cookie
  BY DEF SignedIn
<1>2. SessionsMove
  BY <1>1 DEF SessionsMove
<1>3. CASE Set(w, [tabs[w] EXCEPT !.call = None])
  BY <1>2, <1>3, TabFacts, SoundExcept, TabSet
<1> DEFINE call == [kind |-> "page", token |-> t, answer |-> Waiting, clears |-> FALSE]
<1>4. CASE Set(w, [Tab("down") EXCEPT !.call = call])
  <2>1. t \in Tokens /\ t # None /\ c # None
    BY GatewayAssumption DEF Unissued
  <2>2. call \in CallType
    BY <2>1 DEF CallType
  <2>3. sessions'[t].company = c
    BY <1>1, <2>1 DEF SessionInvariant, TypeOK
  <2>4. CallGood(sessions', call)
    BY <2>1, <2>3 DEF CallGood, IssuedIn, Waiting
  <2> HIDE DEF call
  <2>5. Sound(sessions', [Tab("down") EXCEPT !.call = call])
    BY <2>2, <2>4, BlankSound, SoundSet
  <2> QED
    BY <1>2, <1>4, <2>5 DEF TabStep, Set
<1> QED
  BY <1>1, <1>3, <1>4

\* Signing in and out.
LEMMA AccountStep ==
  ASSUME SessionInvariant, NEW w \in Tabs, Account(w)
  PROVE  TabStep(w) /\ SessionsMove
<1> DEFINE r == tabs[w]
<1>0. /\ Sound(sessions, r)
      /\ r.call \in CallType /\ CallGood(sessions, r.call)
  BY TabFacts
<1>1. CASE SubmitLogin(w) \/ SelectCompany(w) \/ SignOut(w)
  BY <1>1, BeginStep DEF SubmitLogin, SelectCompany, SignOut
<1>2. CASE OtherEmail(w)
  <2>1. SessionsMove
    BY <1>2 DEF OtherEmail, SessionsMove
  <2> QED
    BY <1>0, <1>2, <2>1, SoundExcept, TabSet DEF OtherEmail
<1>3. CASE LoginAnswer(w)
  <2>1. CASE SignedIn(w)
    BY <2>1, SignedInStep
  <2>2. ASSUME NEW f \in {"form", "companies"}, UNCHANGED sessions,
               Set(w, [r EXCEPT !.call = None, !.form = f])
        PROVE  TabStep(w) /\ SessionsMove
    <3>1. SessionsMove
      BY <2>2 DEF SessionsMove
    <3> QED
      BY <1>0, <2>2, <3>1, SoundExcept, TabSet
  <2> QED
    BY <1>3, <2>1, <2>2 DEF LoginAnswer
<1>4. CASE SelectAnswer(w)
  <2>1. CASE SignedIn(w)
    BY <2>1, SignedInStep
  <2>2. CASE Set(w, [r EXCEPT !.call = None]) /\ UNCHANGED <<sessions, cookie>>
    <3>1. SessionsMove
      BY <2>2 DEF SessionsMove
    <3> QED
      BY <1>0, <2>2, <3>1, SoundExcept, TabSet
  <2> QED
    BY <1>4, <2>1, <2>2 DEF SelectAnswer
<1>5. CASE Logout(w)
  <2>1. r.call # None /\ r.call.kind = "logout"
    BY <1>5 DEF Logout, Pending, Idle
  <2>2. Live(r.call.token) => r.call.token \in Tokens
    BY <1>0, <2>1 DEF Live, Issued, CallType
  <2>3. SessionsMove
    BY <1>5, <2>2 DEF Logout, SessionsMove
  <2>4. /\ Answered(r.call, 200, TRUE) \in CallType
        /\ CallGood(sessions, Answered(r.call, 200, TRUE))
    <3>1. /\ TRUE \in BOOLEAN
          /\ 200 = 401 => ~LiveIn(sessions, r.call.token)
          /\ TRUE => r.call.kind = "logout" \/ ~LiveIn(sessions, r.call.token)
      BY <2>1
    <3> QED
      BY <1>0, <2>1, <3>1, AnsweredGood, Zenon
  <2>5. Sound(sessions, [r EXCEPT !.call = Answered(r.call, 200, TRUE)])
    BY <1>0, <2>4, SoundSet
  <2>6. Set(w, [r EXCEPT !.call = Answered(r.call, 200, TRUE)])
    BY <1>5 DEF Logout
  <2> QED
    BY <2>3, <2>5, <2>6, TabSet
<1>6. CASE LogoutAnswer(w)
  <2>1. SessionsMove
    BY <1>6 DEF LogoutAnswer, SessionsMove
  <2>2. Sound(sessions, [r EXCEPT !.call = None])
    BY <1>0, SoundExcept
  <2>3. Set(w, Tab("login")) \/ Set(w, [r EXCEPT !.call = None])
    BY <1>6 DEF LogoutAnswer
  <2> QED
    BY <2>1, <2>2, <2>3, BlankSound, TabSet
<1> QED
  BY <1>1, <1>2, <1>3, <1>4, <1>5, <1>6 DEF Account

-----------------------------------------------------------------------------
\* Steps of the whole.

\* A step is one tab's, the end of a question about a session, or leaves the
\* tabs as they are.
Question(t) == SessionState(t) \/ LateState(t) \/ Evict(t)

LEMMA StepKinds ==
  ASSUME SessionInvariant, [Next]_vars
  PROVE  /\ SessionsMove
         /\ \/ UNCHANGED tabs
            \/ \E w \in Tabs : TabStep(w)
            \/ UNCHANGED sessions /\ \E t \in Tokens : Question(t)
<1>1. ASSUME NEW w \in Tabs, CloseTab(w) \/ Sleep(w)
      PROVE  SessionsMove /\ TabStep(w)
  <2>1. SessionsMove
    BY <1>1 DEF CloseTab, Sleep, SessionsMove
  <2>2. Sound(sessions, [tabs[w] EXCEPT !.awake = ~@]) /\ Sound(sessions, Tab("down"))
    BY TabFacts, SoundExcept, BlankSound
  <2> QED
    BY <1>1, <2>1, <2>2, TabSet DEF CloseTab, Sleep
<1>2. ASSUME NEW w \in Tabs, Page(w) \/ Calls(w) \/ Account(w)
      PROVE  SessionsMove /\ (TabStep(w) \/ UNCHANGED tabs)
  BY <1>2, PageStep, CallsStep, AccountStep
<1>3. ASSUME NEW t \in Tokens, EndSession(t)
      PROVE  SessionsMove /\ UNCHANGED tabs
  BY <1>3 DEF EndSession, SessionsMove
<1>4. ASSUME NEW t \in Tokens, Question(t)
      PROVE  SessionsMove /\ UNCHANGED sessions
  BY <1>4 DEF Question, SessionState, LateState, Evict, SessionsMove
<1>5. CASE Tick \/ UNCHANGED vars
  BY <1>5 DEF Tick, vars, SessionsMove
<1> QED
  BY <1>1, <1>2, <1>3, <1>4, <1>5 DEF Next, Question

\* Only tabs that ask for a page under a session wait for its questions.
LEMMA Leavers ==
  ASSUME NEW t, NEW L \in Leaving(t)
  PROVE  L \subseteq Askers(t)
  BY DEF Leaving, Joined

\* Serving a page leaves the cache as it is or knows the session; everything else
\* forgets it.
Outcome(t, p, W, L) ==
  \/ /\ p = "app" /\ L = {} /\ Live(t) /\ UNCHANGED cookie
     /\ UNCHANGED checks \/ checks' = [checks EXCEPT ![t].state = "authenticated"]
  \/ p = "login" /\ ~Live(t) /\ Forget(t) /\ cookie' = (IF W = {} THEN cookie ELSE None)
  \/ p = "down" /\ Forget(t) /\ UNCHANGED cookie

LEMMA AdmitOutcome ==
  ASSUME NEW t, NEW W, Admit(t, W),
         UNCHANGED checks \/ checks' = [checks EXCEPT ![t].state = "authenticated"]
  PROVE  Heard("app", W, {}) /\ Outcome(t, "app", W, {})
  BY DEF Admit, Outcome

LEMMA RefuseOutcome ==
  ASSUME NEW t, NEW W, NEW L, Refuse(t, W, L)
  PROVE  \E p \in {"login", "down"} : Heard(p, W, L) /\ Outcome(t, p, W, L)
  BY DEF Refuse, Outcome

\* A question's end leaves blank tabs where it was waited for; other tabs keep their
\* question when the cache forgets it.
LEMMA AnswerTabs ==
  ASSUME NEW t \in Tokens, Question(t)
  PROVE  \E p \in {"login", "app", "down"}, W \in SUBSET Askers(t), L \in SUBSET Askers(t) :
           Heard(p, W, L) /\ Outcome(t, p, W, L)
<1>1. CASE SessionState(t)
  <2>1. Joined(t) \in SUBSET Askers(t) /\ {} \in SUBSET Askers(t)
    BY DEF Joined
  <2>2. \/ Admit(t, Joined(t)) /\ checks' = [checks EXCEPT ![t].state = "authenticated"]
        \/ Refuse(t, Joined(t), {})
    BY <1>1 DEF SessionState
  <2> QED
    BY <2>1, <2>2, AdmitOutcome, RefuseOutcome
<1>2. CASE LateState(t)
  <2>1. PICK W \in SUBSET Latecomers(t) :
          \/ UNCHANGED checks /\ Admit(t, W)
          \/ \E L \in Leaving(t) : Refuse(t, W, L)
    BY <1>2 DEF LateState
  <2>2. W \in SUBSET Askers(t) /\ {} \in SUBSET Askers(t)
    BY <2>1 DEF Latecomers
  <2>3. CASE UNCHANGED checks /\ Admit(t, W)
    BY <2>2, <2>3, AdmitOutcome
  <2>4. ASSUME NEW L \in Leaving(t), Refuse(t, W, L)
        PROVE  \E p \in {"login", "app", "down"}, V \in SUBSET Askers(t),
                  M \in SUBSET Askers(t) : Heard(p, V, M) /\ Outcome(t, p, V, M)
    <3>1. L \in SUBSET Askers(t)
      BY Leavers
    <3> QED
      BY <2>2, <2>4, <3>1, RefuseOutcome
  <2> QED
    BY <2>1, <2>3, <2>4
<1>3. CASE Evict(t)
  <2>1. PICK L \in Leaving(t) : Heard("down", {}, L)
    BY <1>3 DEF Evict
  <2>2. Outcome(t, "down", {}, L)
    BY <1>3 DEF Evict, Outcome
  <2>3. L \in SUBSET Askers(t)
    BY Leavers
  <2> QED
    BY <2>1, <2>2, <2>3
<1> QED
  BY <1>1, <1>2, <1>3 DEF Question

\* A tab whose question is forgotten is as sound as before.
LEMMA LeftSound ==
  ASSUME NEW S, NEW w \in Tabs, Sound(S, tabs[w]), tabs[w].call # None
  PROVE  Sound(S, Left(w)) /\ Left(w) \in TabType
<1> DEFINE r == tabs[w]
           c == [r.call EXCEPT !.answer = Late]
<1>1. r \in TabType /\ r.call \in CallType /\ r.call # None
  BY DEF Sound, TabType
<1>2. c \in CallType
  BY <1>1 DEF CallType
<1>3. Left(w) = [r EXCEPT !.call = c]
  BY <1>1 DEF Left, TabType
<1>4. CallGood(S, c)
  <2>1. c.token = r.call.token /\ c.kind = r.call.kind /\ c.clears = r.call.clears
        /\ c.answer = Late
    BY <1>1 DEF CallType
  <2> QED
    BY <2>1 DEF CallGood, Sound, Late
<1>5. Left(w) \in TabType /\ Left(w).call = c /\ Left(w).check = r.check
  BY <1>1, <1>2, <1>3 DEF TabType
<1> QED
  BY <1>4, <1>5 DEF Sound

\* After every step every tab is sound.
LEMMA TabsStaySound ==
  ASSUME SessionInvariant, [Next]_vars
  PROVE  /\ tabs' \in [Tabs -> TabType]
         /\ \A w \in Tabs : Sound(sessions', tabs'[w])
<1>0. tabs \in [Tabs -> TabType]
  BY DEF SessionInvariant, TypeOK, TabType
<1>1. \A w \in Tabs : Sound(sessions', tabs[w])
  BY StepKinds, MoveGrows, SoundStays, TabFacts DEF SessionInvariant
<1>2. \A w \in Tabs : Sound(sessions', tabs[w]) => tabs[w] \in TabType
  BY DEF Sound
<1>3. CASE UNCHANGED tabs
  BY <1>0, <1>1, <1>3
<1>4. ASSUME NEW w \in Tabs, TabStep(w)
      PROVE  /\ tabs' \in [Tabs -> TabType]
             /\ \A v \in Tabs : Sound(sessions', tabs'[v])
  <2>1. PICK r : tabs' = [tabs EXCEPT ![w] = r] /\ Sound(sessions', r)
    BY <1>4 DEF TabStep
  <2>2. r \in TabType
    BY <2>1 DEF Sound
  <2> QED
    BY <1>0, <1>1, <2>1, <2>2
<1>5. ASSUME NEW t \in Tokens, Question(t)
      PROVE  /\ tabs' \in [Tabs -> TabType]
             /\ \A v \in Tabs : Sound(sessions', tabs'[v])
  <2>1. PICK p \in {"login", "app", "down"}, W \in SUBSET Askers(t), L \in SUBSET Askers(t) :
          Heard(p, W, L)
    BY <1>5, AnswerTabs
  <2>2. Sound(sessions', Tab(p)) /\ Tab(p) \in TabType
    BY BlankSound DEF Sound
  <2>3. ASSUME NEW v \in L PROVE Sound(sessions', Left(v)) /\ Left(v) \in TabType
    <3>1. v \in Tabs /\ tabs[v].call # None
      BY DEF Askers, Idle
    <3>2. PICK S : S = sessions'
      OBVIOUS
    <3>3. Sound(S, tabs[v])
      BY <1>1, <3>1, <3>2
    <3> QED
      BY <3>1, <3>2, <3>3, LeftSound
  <2>4. ASSUME NEW v \in Tabs
        PROVE  \/ tabs'[v] = Tab(p)
               \/ v \in L /\ tabs'[v] = Left(v)
               \/ tabs'[v] = tabs[v]
    BY <2>1 DEF Heard
  <2>5. ASSUME NEW v \in Tabs PROVE Sound(sessions', tabs'[v]) /\ tabs'[v] \in TabType
    BY <1>1, <1>2, <2>2, <2>3, <2>4
  <2>6. tabs' = [v \in Tabs |-> tabs'[v]]
    BY <2>1 DEF Heard
  <2> QED
    BY <2>5, <2>6
<1> QED
  BY <1>3, <1>4, <1>5, StepKinds

\* A cookie is always a session's.
LEMMA CookieStep ==
  ASSUME SessionInvariant, [Next]_vars
  PROVE  cookie' # None => cookie' \in Tokens /\ IssuedIn(sessions', cookie')
<1>0. Grown(sessions, sessions')
  BY StepKinds, MoveGrows DEF SessionInvariant
<1>1. CASE cookie' = cookie
  <2>1. cookie # None => cookie \in Tokens /\ IssuedIn(sessions, cookie)
    BY Current DEF SessionInvariant, TypeOK, Unissued
  <2> QED
    BY <1>0, <1>1, <2>1 DEF Grown
<1>2. CASE cookie' = None
  BY <1>2
<1>3. ASSUME NEW w \in Tabs, SignedIn(w)
      PROVE  \/ cookie' = cookie
             \/ cookie' \in Tokens /\ IssuedIn(sessions', cookie')
  <2>1. PICK t \in Unissued, c \in Companies :
          /\ sessions' = [sessions EXCEPT ![t].company = c]
          /\ cookie' = t \/ cookie' = cookie
    BY <1>3 DEF SignedIn
  <2>2. t \in Tokens /\ t # None /\ c # None
    BY GatewayAssumption DEF Unissued
  <2>3. sessions'[t].company = c
    BY <2>1, <2>2 DEF SessionInvariant, TypeOK
  <2>4. IssuedIn(sessions', t)
    BY <2>2, <2>3 DEF IssuedIn
  <2> QED
    BY <2>1, <2>2, <2>4
<1>4. \/ cookie' \in {None, cookie}
      \/ \E w \in Tabs : SignedIn(w)
  <2>1. ASSUME NEW w \in Tabs, Page(w) PROVE cookie' \in {None, cookie}
    BY <2>1 DEF Page, Navigate, Begin, ServeKnown, NoCookie, ToLogin, AskSession
  <2>2. ASSUME NEW w \in Tabs, Calls(w) PROVE cookie' \in {None, cookie}
    BY <2>2 DEF Calls, Fetch, Begin, Forward, Monitor, CheckMe, FetchAnswer, CheckAnswer,
                ClearedBy
  <2>3. ASSUME NEW w \in Tabs, Account(w) PROVE cookie' \in {None, cookie} \/ SignedIn(w)
    BY <2>3 DEF Account, SubmitLogin, SelectCompany, OtherEmail, LoginAnswer, SelectAnswer,
                SignOut, Logout, LogoutAnswer, Begin, ClearedBy
  <2>4. ASSUME NEW w \in Tabs, CloseTab(w) \/ Sleep(w) PROVE cookie' \in {None, cookie}
    BY <2>4 DEF CloseTab, Sleep
  <2>5. ASSUME NEW t \in Tokens, EndSession(t) \/ Question(t)
        PROVE  cookie' \in {None, cookie}
    BY <2>5, AnswerTabs DEF EndSession, Outcome
  <2>6. CASE Tick \/ UNCHANGED vars
    BY <2>6 DEF Tick, vars
  <2> QED
    BY <2>1, <2>2, <2>3, <2>4, <2>5, <2>6 DEF Next, Question
<1> QED
  BY <1>1, <1>2, <1>3, <1>4

-----------------------------------------------------------------------------
\* The cache of session checks.

\* A cached check of session t, at a time and with given sessions S.
Entry == [state : {"none", "asking", "authenticated"}, until : Nat]

FreshEntry(S, time, t, e) ==
  /\ e \in Entry
  /\ ~IssuedIn(S, t) => e = Forgotten
  /\ e.until <= time + SessionCache
  /\ e.state = "authenticated" =>
       /\ IssuedIn(S, t)
       /\ S[t].ended = None \/ e.until <= S[t].ended + SessionCache

\* The invariant's part of the cache is FreshEntry of each session.
LEMMA EntriesFresh ==
  ASSUME SessionInvariant
  PROVE  /\ checks \in [Tokens -> Entry] /\ clock \in Nat
         /\ \A t \in Tokens : FreshEntry(sessions, clock, t, checks[t])
<1>1. checks \in [Tokens -> Entry] /\ clock \in Nat
  BY DEF SessionInvariant, TypeOK, Entry
<1>2. \A t \in Tokens : ~IssuedIn(sessions, t) => checks[t] = Forgotten
  BY Current DEF SessionInvariant, TypeOK, Unissued
<1> QED
  BY <1>1, <1>2, Current DEF SessionInvariant, CacheIsFresh, FreshEntry

\* An entry stays fresh when time passes, and when its session is created or ends:
\* a new session has none, and one that ends was asked for before.
LEMMA EntryStays ==
  ASSUME SessionInvariant, SessionsMove, clock' \in {clock, clock + 1}, NEW t \in Tokens
  PROVE  FreshEntry(sessions', clock', t, checks[t])
<1>0. /\ checks[t] \in Entry /\ FreshEntry(sessions, clock, t, checks[t])
      /\ clock \in Nat /\ SessionCache \in Nat /\ checks[t].until \in Nat
  BY EntriesFresh, GatewayAssumption DEF Entry
<1>1. checks[t].until <= clock' + SessionCache
  BY <1>0 DEF FreshEntry
<1>2. CASE UNCHANGED sessions
  BY <1>0, <1>1, <1>2 DEF FreshEntry
<1>3. ASSUME NEW u \in Tokens, Live(u), sessions' = [sessions EXCEPT ![u].ended = clock]
      PROVE  FreshEntry(sessions', clock', t, checks[t])
  <2>1. sessions'[t].company = sessions[t].company
    BY <1>3 DEF SessionInvariant, TypeOK
  <2>2. t # u => sessions'[t] = sessions[t]
    BY <1>3 DEF SessionInvariant, TypeOK
  <2>3. t = u => sessions'[t].ended = clock
    BY <1>3 DEF SessionInvariant, TypeOK
  <2> QED
    BY <1>0, <1>1, <2>1, <2>2, <2>3 DEF FreshEntry, IssuedIn
<1>4. ASSUME NEW u \in Unissued, NEW c \in Companies,
             sessions' = [sessions EXCEPT ![u].company = c]
      PROVE  FreshEntry(sessions', clock', t, checks[t])
  <2>1. u \in Tokens /\ ~IssuedIn(sessions, u)
    BY Current DEF Unissued
  <2>2. t # u => sessions'[t] = sessions[t]
    BY <1>4 DEF SessionInvariant, TypeOK
  <2>3. t = u => checks[t] = Forgotten
    BY <1>0, <2>1 DEF FreshEntry
  <2>4. Forgotten.state # "authenticated"
    BY DEF Forgotten
  <2>5. CASE t = u
    BY <1>0, <1>1, <2>3, <2>4, <2>5 DEF FreshEntry
  <2>6. CASE t # u
    BY <1>0, <1>1, <2>2, <2>6 DEF FreshEntry, IssuedIn
  <2> QED
    BY <2>5, <2>6
<1> QED
  BY <1>2, <1>3, <1>4 DEF SessionsMove

\* The clock only ticks, and the cache changes only without it and the sessions: a
\* question is asked or answered, or an entry goes.
LEMMA CacheMoves ==
  ASSUME SessionInvariant, [Next]_vars
  PROVE  /\ clock' \in {clock, clock + 1}
         /\ \/ UNCHANGED checks
            \/ /\ UNCHANGED <<clock, sessions>>
               /\ \E t \in Tokens, e \in Entry :
                    checks' = [checks EXCEPT ![t] = e] /\ FreshEntry(sessions, clock, t, e)
<1>0. clock \in Nat /\ SessionCache \in Nat /\ checks \in [Tokens -> Entry]
  BY EntriesFresh, GatewayAssumption
<1>1. ASSUME NEW t \in Tokens
      PROVE  Forgotten \in Entry /\ FreshEntry(sessions, clock, t, Forgotten)
  BY <1>0 DEF Forgotten, Entry, FreshEntry
<1>2. ASSUME NEW w \in Tabs, AskSession(w)
      PROVE  /\ UNCHANGED <<clock, sessions>>
             /\ \E t \in Tokens, e \in Entry :
                  checks' = [checks EXCEPT ![t] = e] /\ FreshEntry(sessions, clock, t, e)
  <2> DEFINE t == tabs[w].call.token
             e == [state |-> "asking", until |-> clock + SessionCache]
  <2>1. /\ tabs[w].call # None /\ t # None /\ checks' = [checks EXCEPT ![t] = e]
        /\ UNCHANGED <<clock, sessions>>
    BY <1>2 DEF AskSession, Pending, Idle
  <2>2. t \in Tokens /\ IssuedIn(sessions, t)
    BY <2>1, TabFacts DEF CallGood, CallType
  <2>3. e \in Entry /\ FreshEntry(sessions, clock, t, e)
    BY <1>0, <2>2 DEF Entry, FreshEntry
  <2> QED
    BY <2>1, <2>2, <2>3
<1>3. ASSUME NEW t \in Tokens, Question(t)
      PROVE  /\ UNCHANGED <<clock, sessions>>
             /\ \/ UNCHANGED checks
                \/ \E u \in Tokens, e \in Entry :
                     checks' = [checks EXCEPT ![u] = e] /\ FreshEntry(sessions, clock, u, e)
  <2>1. UNCHANGED <<clock, sessions>>
    BY <1>3 DEF Question, SessionState, LateState, Evict
  <2>2. CASE Forget(t)
    BY <1>1, <2>1, <2>2 DEF Forget
  <2>3. CASE Live(t) /\ checks' = [checks EXCEPT ![t].state = "authenticated"]
    <3> DEFINE e == [checks[t] EXCEPT !.state = "authenticated"]
    <3>1. checks' = [checks EXCEPT ![t] = e]
      BY <1>0, <2>3
    <3>2. e \in Entry /\ e.until = checks[t].until
      BY <1>0 DEF Entry
    <3>3. LiveIn(sessions, t)
      BY <2>3, Current
    <3>4. FreshEntry(sessions, clock, t, e)
      BY <3>2, <3>3, EntriesFresh DEF FreshEntry, LiveIn
    <3> QED
      BY <2>1, <3>1, <3>2, <3>4
  <2>4. CASE UNCHANGED checks
    BY <2>1, <2>4
  <2> QED
    BY <1>3, <2>2, <2>3, <2>4, AnswerTabs DEF Outcome
<1>5. ASSUME NEW w \in Tabs, Page(w) \/ Calls(w) \/ Account(w)
      PROVE  UNCHANGED clock /\ (UNCHANGED checks \/ AskSession(w))
  <2>1. CASE Page(w)
    BY <2>1 DEF Page, Navigate, Begin, ServeKnown, Remembered, NoCookie, AskSession
  <2>2. CASE Calls(w)
    BY <2>2 DEF Calls, Fetch, Begin, Forward, Monitor, CheckMe, FetchAnswer, CheckAnswer
  <2>3. CASE Account(w)
    BY <2>3 DEF Account, SubmitLogin, SelectCompany, OtherEmail, LoginAnswer, SelectAnswer,
                SignOut, Logout, LogoutAnswer, Begin
  <2> QED
    BY <1>5, <2>1, <2>2, <2>3
<1>6. ASSUME NEW w \in Tabs, CloseTab(w) \/ Sleep(w) PROVE UNCHANGED <<clock, checks>>
  BY <1>6 DEF CloseTab, Sleep
<1>7. ASSUME NEW t \in Tokens, EndSession(t) PROVE UNCHANGED <<clock, checks>>
  BY <1>7 DEF EndSession
<1>8. CASE Tick \/ UNCHANGED vars
  BY <1>8 DEF Tick, vars
<1> QED
  BY <1>2, <1>3, <1>5, <1>6, <1>7, <1>8 DEF Next, Question

\* After every step every entry is fresh.
LEMMA CacheStep ==
  ASSUME SessionInvariant, [Next]_vars
  PROVE  /\ clock' \in Nat /\ checks' \in [Tokens -> Entry]
         /\ \A t \in Tokens : FreshEntry(sessions', clock', t, checks'[t])
<1>0. clock \in Nat /\ checks \in [Tokens -> Entry]
  BY EntriesFresh
<1>1. clock' \in Nat
  BY <1>0, CacheMoves
<1>2. \A t \in Tokens : FreshEntry(sessions', clock', t, checks[t])
  BY CacheMoves, StepKinds, EntryStays
<1>3. CASE UNCHANGED checks
  BY <1>0, <1>1, <1>2, <1>3
<1>4. ASSUME NEW t \in Tokens, NEW e \in Entry, UNCHANGED <<clock, sessions>>,
             checks' = [checks EXCEPT ![t] = e], FreshEntry(sessions, clock, t, e)
      PROVE  /\ checks' \in [Tokens -> Entry]
             /\ \A u \in Tokens : FreshEntry(sessions', clock', u, checks'[u])
  <2>1. checks' \in [Tokens -> Entry] /\ checks'[t] = e
    BY <1>0, <1>4
  <2>2. \A u \in Tokens : u # t => checks'[u] = checks[u]
    BY <1>0, <1>4
  <2> QED
    BY <1>2, <1>4, <2>1, <2>2
<1> QED
  BY <1>1, <1>3, <1>4, CacheMoves

-----------------------------------------------------------------------------
\* The invariant and the theorems.

\* SessionInvariant, part by part.
ByPart ==
  /\ TypeOK <=>
       /\ clock \in Nat /\ sessions \in SessionType /\ checks \in [Tokens -> Entry]
       /\ cookie # None => cookie \in Tokens /\ IssuedIn(sessions, cookie)
       /\ \A t \in Tokens : ~IssuedIn(sessions, t) => checks[t] = Forgotten
       /\ tabs \in [Tabs -> TabType]
  /\ CacheIsFresh <=>
       \A t \in Tokens :
         /\ checks[t].until <= clock + SessionCache
         /\ checks[t].state = "authenticated" =>
              /\ IssuedIn(sessions, t)
              /\ \/ sessions[t].ended = None
                 \/ checks[t].until <= sessions[t].ended + SessionCache

\* It is the same as SessionInvariant's parts.
LEMMA InvariantParts == ByPart
<1>1. (cookie \in {None} \cup (Tokens \ Unissued)) <=>
        (cookie # None => cookie \in Tokens /\ IssuedIn(sessions, cookie))
  BY Current DEF Unissued
<1>2. (\A t \in Unissued : checks[t] = Forgotten) <=>
        (\A t \in Tokens : ~IssuedIn(sessions, t) => checks[t] = Forgotten)
  BY Current DEF Unissued
<1>3. TypeOK <=>
       /\ clock \in Nat /\ sessions \in SessionType /\ checks \in [Tokens -> Entry]
       /\ cookie \in {None} \cup (Tokens \ Unissued)
       /\ \A t \in Unissued : checks[t] = Forgotten
       /\ tabs \in [Tabs -> TabType]
  BY DEF TypeOK, SessionType, Entry, TabType
<1> QED
  BY <1>1, <1>2, <1>3, Current DEF CacheIsFresh, ByPart

\* The invariant holds at the start: everybody is signed out.
LEMMA StartSound == Init => SessionInvariant
<1> SUFFICES ASSUME Init PROVE SessionInvariant
  OBVIOUS
<1>0. SessionCache \in Nat
  BY GatewayAssumption
<1>1. /\ Forgotten \in Entry /\ Forgotten.until = 0 /\ Forgotten.state = "none"
  BY DEF Forgotten, Entry
<1>2. \A w \in Tabs : tabs[w] = Tab("login")
  BY DEF Init
<1>3. Sound(sessions, Tab("login")) /\ Tab("login") \in TabType
  BY BlankSound DEF Sound
<1>4. TypeOK
  <2>1. sessions \in SessionType
    BY DEF Init, SessionType
  <2>2. checks \in [Tokens -> Entry] /\ \A t \in Tokens : checks[t] = Forgotten
    BY <1>1 DEF Init
  <2>3. tabs \in [Tabs -> TabType]
    BY <1>3 DEF Init
  <2>4. clock \in Nat /\ cookie = None
    BY DEF Init
  <2> QED
    BY <2>1, <2>2, <2>3, <2>4, InvariantParts DEF ByPart
<1>5. CallsHaveSessions /\ LossIsTrue
  BY <1>2, <1>3, <1>4, SoundTabs DEF ByTab
<1>6. CacheIsFresh
  <2>1. \A t \in Tokens : checks[t] = Forgotten
    BY DEF Init
  <2>2. clock = 0
    BY DEF Init
  <2> QED
    BY <1>0, <1>1, <2>1, <2>2 DEF CacheIsFresh
<1> QED
  BY <1>4, <1>5, <1>6 DEF SessionInvariant

\* Every step keeps it.
LEMMA InvariantStep == SessionInvariant /\ [Next]_vars => SessionInvariant'
<1> SUFFICES ASSUME SessionInvariant, [Next]_vars PROVE SessionInvariant'
  OBVIOUS
<1>1. sessions' \in SessionType
  BY StepKinds, MoveGrows DEF SessionInvariant
<1>5. ByPart' /\ ByTab'
  BY InvariantParts, SoundTabs, PTL
<1>2. TypeOK'
  <2>1. \A t \in Tokens : ~IssuedIn(sessions', t) => checks'[t] = Forgotten
    BY CacheStep DEF FreshEntry
  <2>2. /\ clock' \in Nat /\ checks' \in [Tokens -> Entry] /\ tabs' \in [Tabs -> TabType]
        /\ cookie' # None => cookie' \in Tokens /\ IssuedIn(sessions', cookie')
    BY CacheStep, TabsStaySound, CookieStep
  <2> QED
    BY <1>1, <1>5, <2>1, <2>2 DEF ByPart
<1>3. (CallsHaveSessions /\ LossIsTrue)'
  BY <1>2, <1>5, TabsStaySound DEF ByTab
<1>4. CacheIsFresh'
  BY <1>5, CacheStep DEF ByPart, FreshEntry
<1> QED
  BY <1>2, <1>3, <1>4 DEF SessionInvariant

\* Every reachable state is well formed, and every call and cached check is true of
\* its session (Gateway as a whole: session-check.ts, sessionFetch, the routes).
THEOREM SessionsTypeCorrect == Spec => []TypeOK
<1>1. SessionInvariant => TypeOK
  BY DEF SessionInvariant
<1> QED
  BY <1>1, StartSound, InvariantStep, PTL DEF Spec

-----------------------------------------------------------------------------
\* Pages are fresh, and outages keep sessions.

\* A tab changes by a step of its own, or with an answer about its session.
LEMMA OwnStep ==
  ASSUME SessionInvariant, [Next]_vars, NEW w \in Tabs, tabs'[w] # tabs[w]
  PROVE  \/ CloseTab(w) \/ Sleep(w) \/ Page(w) \/ Calls(w) \/ Account(w)
         \/ \E t \in Tokens : w \in Askers(t) /\ Question(t)
<1>0. tabs \in [Tabs -> TabType]
  BY DEF SessionInvariant, TypeOK, TabType
<1>1. ASSUME NEW v \in Tabs, v # w
      PROVE  /\ ~TabStep(v) /\ ~CloseTab(v) /\ ~Sleep(v)
             /\ ~(Page(v) \/ Calls(v) \/ Account(v))
  <2>1. ~TabStep(v)
    BY <1>0, <1>1 DEF TabStep
  <2>2. ~CloseTab(v) /\ ~Sleep(v)
    BY <1>0, <1>1 DEF CloseTab, Sleep, Set
  <2>3. ~(Page(v) \/ Calls(v) \/ Account(v))
    <3>1. ~UNCHANGED tabs
      OBVIOUS
    <3> QED
      BY <2>1, <3>1, PageStep, CallsStep, AccountStep
  <2> QED
    BY <2>1, <2>2, <2>3
<1>2. ASSUME NEW t \in Tokens, Question(t) PROVE w \in Askers(t)
  <2>1. PICK p \in {"login", "app", "down"}, W \in SUBSET Askers(t), L \in SUBSET Askers(t) :
          Heard(p, W, L)
    BY <1>2, AnswerTabs
  <2> QED
    BY <2>1 DEF Heard
<1>3. ~(\E t \in Tokens : EndSession(t)) /\ ~Tick /\ ~UNCHANGED vars
  BY DEF EndSession, Tick, vars
<1> QED
  BY <1>1, <1>2, <1>3 DEF Next, Question

\* A page is served from the cache or with the API's answer, both of which are true.
LEMMA PageIsFresh ==
  ASSUME SessionInvariant, [Next]_vars, NEW w \in Tabs, PageWanted(w),
         tabs'[w] = Tab("app")
  PROVE  LET t == tabs[w].call.token IN
         Issued(t) /\ (sessions[t].ended = None \/ clock < sessions[t].ended + SessionCache)
<1> DEFINE r == tabs[w]
           t == r.call.token
<1>0. /\ tabs \in [Tabs -> TabType] /\ r \in TabType
      /\ r.call \in CallType /\ r.call # None /\ r.call.kind = "page"
  BY DEF SessionInvariant, TypeOK, TabType, PageWanted, Idle
<1>1. /\ tabs'[w].call = None /\ tabs'[w].page = "app"
      /\ Tab("down").page = "down" /\ Tab("login").page = "login"
  BY DEF Tab
<1>2. tabs'[w] # r
  BY <1>0, <1>1
<1>3. ASSUME NEW s, Set(w, s), s.call = r.call \/ s.page # "app" PROVE FALSE
  <2>1. tabs'[w] = s
    BY <1>0, <1>3 DEF Set
  <2> QED
    BY <1>0, <1>1, <1>3, <2>1
<1>4. ~CloseTab(w) /\ ~Sleep(w)
  <2>1. [r EXCEPT !.awake = ~@].call = r.call
    BY <1>0 DEF TabType
  <2> QED
    BY <1>1, <1>3, <2>1 DEF CloseTab, Sleep
<1>5. ~Calls(w)
  <2>1. ASSUME NEW c PROVE [r EXCEPT !.check = c].call = r.call
    BY <1>0 DEF TabType
  <2>2. ~Fetch(w) /\ ~Forward(w) /\ ~FetchAnswer(w)
    BY <1>0 DEF Fetch, Begin, Idle, Forward, Pending, FetchAnswer
  <2>3. ~Monitor(w)
    BY <1>3, <2>1 DEF Monitor
  <2>4. ~CheckMe(w)
    <3>1. CheckMe(w) => \E c : Set(w, [r EXCEPT !.check = c])
      BY ZenonT(60) DEF CheckMe
    <3> QED
      BY <1>3, <2>1, <3>1
  <2>5. ~CheckAnswer(w)
    BY <1>1, <1>3, <2>1 DEF CheckAnswer
  <2> QED
    BY <2>2, <2>3, <2>4, <2>5 DEF Calls
<1>6. ~Account(w)
  BY <1>0 DEF Account, SubmitLogin, SelectCompany, OtherEmail, SignOut, Begin, Idle,
              LoginAnswer, SelectAnswer, Logout, LogoutAnswer, Pending
<1>7. CASE Page(w)
  <2>1. ~Navigate(w)
    BY <1>0 DEF Navigate, Begin, Idle
  <2>2. ~NoCookie(w) /\ ~AskSession(w)
    BY <1>1, <1>2, <1>3 DEF NoCookie, ToLogin, AskSession
  <2>3. ServeKnown(w)
    BY <1>7, <2>1, <2>2 DEF Page
  <2>4. t # None /\ clock < checks[t].until /\ checks[t].state = "authenticated"
    <3>1. t # None /\ checks[t].until > clock /\ checks[t].state = "authenticated"
      BY <2>3 DEF ServeKnown, Known
    <3>2. t \in Tokens
      BY <1>0, <3>1 DEF CallType
    <3>3. checks[t].until \in Nat /\ clock \in Nat
      BY <3>2, EntriesFresh DEF Entry
    <3> QED
      BY <3>1, <3>3
  <2>5. t \in Tokens
    BY <1>0, <2>4 DEF CallType
  <2>6. /\ Issued(t)
        /\ sessions[t].ended = None \/ checks[t].until <= sessions[t].ended + SessionCache
    BY <2>4, <2>5 DEF SessionInvariant, CacheIsFresh
  <2>7. /\ sessions[t].ended \in Nat \cup {None}
        /\ checks[t].until \in Nat /\ clock \in Nat /\ SessionCache \in Nat
    BY <2>5, EntriesFresh, GatewayAssumption DEF Entry, SessionInvariant, TypeOK
  <2>8. sessions[t].ended = None \/ clock < sessions[t].ended + SessionCache
    BY <2>4, <2>6, <2>7
  <2> QED
    BY <2>6, <2>8
<1>8. ASSUME NEW u \in Tokens, w \in Askers(u), Question(u)
      PROVE  t = u /\ Live(u)
  <2>1. t = u
    BY <1>8 DEF Askers
  <2>2. PICK p \in {"login", "app", "down"}, W \in SUBSET Askers(u), L \in SUBSET Askers(u) :
          Heard(p, W, L) /\ Outcome(u, p, W, L)
    BY <1>8, AnswerTabs
  <2>3. \/ tabs'[w] = Tab(p)
        \/ tabs'[w] = Left(w)
        \/ tabs'[w] = r
    BY <2>2 DEF Heard
  <2>4. Left(w).call # None
    <3>1. Left(w).call = [r.call EXCEPT !.answer = Late]
      BY <1>0 DEF Left, TabType
    <3>2. r.call \in [kind : {"page", "fetch", "me", "login", "select", "logout"},
                     token : Tokens \cup {None}, answer : {Waiting, Late, "kept", "lost"},
                     clears : BOOLEAN]
      BY <1>0 DEF CallType
    <3>3. [r.call EXCEPT !.answer = Late]
            \in [kind : {"page"}, token : Tokens \cup {None}, answer : {"late"},
                 clears : BOOLEAN]
      BY <1>0, <3>2 DEF Late
    <3> QED
      BY <3>1, <3>3, GatewayAssumption
  <2>5. p = "app"
    BY <1>1, <1>2, <2>2, <2>3, <2>4 DEF Tab
  <2> QED
    BY <2>1, <2>2, <2>5 DEF Outcome
<1>9. ASSUME NEW u \in Tokens, w \in Askers(u), Question(u)
      PROVE  Issued(t) /\ sessions[t].ended = None
  BY <1>8, <1>9 DEF Live
<1> QED
  BY <1>2, <1>4, <1>5, <1>6, <1>7, <1>9, OwnStep

\* Only a lost session and a logout turn a page into the login page.
LEMMA PageIsKept ==
  ASSUME SessionInvariant, [Next]_vars, NEW w \in Tabs,
         tabs[w].page = "app", tabs'[w].page = "login"
  PROVE  \/ tabs[w].call # None /\ tabs[w].call.kind = "logout"
         \/ \E call \in {tabs[w].call, tabs[w].check} \ {None} : ~Live(call.token)
<1> DEFINE r == tabs[w]
<1>0. tabs \in [Tabs -> TabType] /\ r \in TabType
  BY DEF SessionInvariant, TypeOK, TabType
<1>1. Tab("down").page = "down" /\ Tab("app").page = "app"
  BY DEF Tab
<1>2. tabs'[w] # r
  BY <1>0
<1>3. ASSUME NEW s, Set(w, s), s.page # "login" PROVE FALSE
  <2>1. tabs'[w] = s
    BY <1>0, <1>3 DEF Set
  <2> QED
    BY <1>3, <2>1
<1>4. ASSUME NEW c
      PROVE  /\ [r EXCEPT !.check = c].page = "app" /\ [r EXCEPT !.call = c].page = "app"
             /\ [r EXCEPT !.awake = ~@].page = "app"
  BY <1>0 DEF TabType
<1>5. ~CloseTab(w) /\ ~Sleep(w)
  BY <1>1, <1>3, <1>4 DEF CloseTab, Sleep
<1>6. ASSUME NEW k PROVE ~Begin(w, Call(k))
  BY <1>3, <1>4 DEF Begin
<1>7. CASE Page(w)
  <2>1. ~Navigate(w) /\ ~ServeKnown(w) /\ ~AskSession(w)
    BY <1>1, <1>2, <1>3, <1>6 DEF Navigate, ServeKnown, Serve, AskSession
  <2>2. NoCookie(w)
    BY <1>7, <2>1 DEF Page
  <2>3. r.call # None /\ r.call.token = None
    BY <2>2 DEF NoCookie, Pending, Idle
  <2> QED
    BY <2>3 DEF Live, Issued
<1>8. CASE Calls(w)
  <2>1. ~Fetch(w) /\ ~Forward(w) /\ ~Monitor(w) /\ ~CheckMe(w)
    BY <1>3, <1>4, <1>6 DEF Fetch, Forward, Monitor, CheckMe
  <2>2. CASE FetchAnswer(w)
    <3>1. r.call # None /\ r.call.answer = "lost"
      BY <1>3, <1>4, <2>2 DEF FetchAnswer, Idle
    <3>2. ~Live(r.call.token)
      BY <3>1 DEF SessionInvariant, LossIsTrue, CallsOf
    <3> QED
      BY <3>1, <3>2
  <2>3. CASE CheckAnswer(w)
    <3>1. r.check # None /\ r.check.answer = "lost"
      BY <1>3, <1>4, <2>3 DEF CheckAnswer
    <3>2. ~Live(r.check.token)
      BY <3>1 DEF SessionInvariant, LossIsTrue, CallsOf
    <3> QED
      BY <3>1, <3>2
  <2> QED
    BY <1>8, <2>1, <2>2, <2>3 DEF Calls
<1>9. CASE Account(w)
  <2>1. CASE Logout(w) \/ LogoutAnswer(w)
    BY <2>1 DEF Logout, LogoutAnswer, Pending, Idle
  <2>2. ~SubmitLogin(w) /\ ~SelectCompany(w) /\ ~OtherEmail(w) /\ ~SignOut(w)
    BY <1>6 DEF SubmitLogin, SelectCompany, OtherEmail, SignOut
  <2>3. ~SignedIn(w)
    <3>1. ASSUME NEW c PROVE [Tab("down") EXCEPT !.call = c].page = "down"
      BY DEF Tab
    <3> QED
      BY <1>3, <1>4, <3>1 DEF SignedIn
  <2>4. ASSUME NEW f, Set(w, [r EXCEPT !.call = None, !.form = f]) PROVE FALSE
    <3>1. [r EXCEPT !.call = None, !.form = f].page = "app"
      BY <1>0 DEF TabType
    <3> QED
      BY <1>3, <2>4, <3>1
  <2>5. ~LoginAnswer(w) /\ ~SelectAnswer(w)
    BY <1>3, <1>4, <2>3, <2>4 DEF LoginAnswer, SelectAnswer
  <2> QED
    BY <1>9, <2>1, <2>2, <2>5 DEF Account
<1>10. ASSUME NEW t \in Tokens, w \in Askers(t), Question(t)
       PROVE  r.call # None /\ ~Live(r.call.token)
  <2>1. r.call # None /\ r.call.token = t
    BY <1>10 DEF Askers, Idle
  <2>2. PICK p \in {"login", "app", "down"}, W \in SUBSET Askers(t), L \in SUBSET Askers(t) :
          Heard(p, W, L) /\ Outcome(t, p, W, L)
    BY <1>10, AnswerTabs
  <2>3. tabs'[w] = Tab(p) \/ tabs'[w] = Left(w)
    BY <1>2, <2>2 DEF Heard
  <2>4. Left(w).page = "app"
    BY <1>0 DEF Left, TabType
  <2>5. p = "login"
    BY <1>1, <2>2, <2>3, <2>4
  <2> QED
    BY <2>1, <2>2, <2>5 DEF Outcome
<1> QED
  BY <1>2, <1>5, <1>7, <1>8, <1>9, <1>10, OwnStep

\* Only they drop the cookie, by the answer of a tab.
LEMMA CookieIsKept ==
  ASSUME SessionInvariant, [Next]_vars, cookie # None, cookie' = None
  PROVE  \E v \in Tabs : \E call \in {tabs[v].call, tabs[v].check} \ {None} :
           call.kind = "logout" \/ ~Live(call.token)
<1>1. ASSUME NEW w \in Tabs, NEW c \in CallsOf(w), ClearedBy(c)
      PROVE  c.kind = "logout" \/ ~Live(c.token)
  BY <1>1 DEF ClearedBy, SessionInvariant, LossIsTrue
<1>2. ASSUME NEW w \in Tabs, Page(w)
      PROVE  tabs[w].call # None /\ ~Live(tabs[w].call.token)
  <2>1. NoCookie(w)
    BY <1>2 DEF Page, Navigate, Begin, ServeKnown, AskSession
  <2> QED
    BY <2>1 DEF NoCookie, Pending, Idle, Live, Issued
<1>3. ASSUME NEW w \in Tabs, Calls(w)
      PROVE  \E c \in CallsOf(w) : c.kind = "logout" \/ ~Live(c.token)
  <2>1. \/ tabs[w].call # None /\ ClearedBy(tabs[w].call)
        \/ tabs[w].check # None /\ ClearedBy(tabs[w].check)
    BY <1>3 DEF Calls, Fetch, Begin, Forward, Monitor, CheckMe, FetchAnswer, CheckAnswer, Idle
  <2>2. PICK c \in CallsOf(w) : ClearedBy(c)
    BY <2>1 DEF CallsOf
  <2> QED
    BY <1>1, <2>2
<1>4. ASSUME NEW w \in Tabs, Account(w)
      PROVE  tabs[w].call # None /\ tabs[w].call.kind = "logout"
  <2>1. ~SignedIn(w)
    BY GatewayAssumption DEF SignedIn, Unissued
  <2>2. LogoutAnswer(w)
    BY <1>4, <2>1 DEF Account, SubmitLogin, SelectCompany, OtherEmail, LoginAnswer,
                      SelectAnswer, SignOut, Logout, Begin
  <2> QED
    BY <2>2 DEF LogoutAnswer, Idle
<1>5. ASSUME NEW t \in Tokens, Question(t)
      PROVE  \E w \in Tabs : tabs[w].call # None /\ ~Live(tabs[w].call.token)
  <2>1. PICK p \in {"login", "app", "down"}, W \in SUBSET Askers(t), L \in SUBSET Askers(t) :
          Outcome(t, p, W, L)
    BY <1>5, AnswerTabs
  <2>2. ~Live(t) /\ W # {}
    BY <2>1 DEF Outcome
  <2>3. PICK w \in Tabs : w \in Askers(t)
    BY <2>1, <2>2 DEF Askers
  <2> QED
    BY <2>2, <2>3 DEF Askers, Idle
<1>6. \/ \E w \in Tabs : Page(w) \/ Calls(w) \/ Account(w)
      \/ \E t \in Tokens : Question(t)
  BY DEF Next, Question, vars, CloseTab, Sleep, EndSession, Tick
<1> QED
  BY <1>2, <1>3, <1>4, <1>5, <1>6 DEF CallsOf

\* A protected page is served only under a session that lives, or that ended less than
\* the cache's lifetime ago, however requests share a question and whenever the session
\* ends meanwhile and whatever the cache forgets (checkSession of lib/session-check.ts, proxy.ts).
THEOREM PagesAreFresh == Spec => ServedFresh
<1>1. SessionInvariant /\ [Next]_vars =>
        \A w \in Tabs :
          PageWanted(w) /\ tabs'[w] = Tab("app") =>
            LET t == tabs[w].call.token IN
            Issued(t) /\ (sessions[t].ended = None \/ clock < sessions[t].ended + SessionCache)
  BY PageIsFresh
<1> QED
  BY <1>1, StartSound, InvariantStep, PTL DEF Spec, ServedFresh

\* An outage is not a logout: an open page turns into the login page, and the cookie
\* goes, only after a logout or when the session of the call had ended, whatever the
\* routes make of the API's answers (sessionFetch, GET /api/auth/me, proxy.ts).
THEOREM OutagesKeepSessions == Spec => OutageIsNoLogout
<1>1. SessionInvariant /\ [Next]_vars =>
        \A w \in Tabs :
          /\ tabs[w].page = "app" /\ tabs'[w].page = "login" =>
               \/ tabs[w].call # None /\ tabs[w].call.kind = "logout"
               \/ \E call \in {tabs[w].call, tabs[w].check} \ {None} : ~Live(call.token)
          /\ cookie # None /\ cookie' = None =>
               \E v \in Tabs : \E call \in {tabs[v].call, tabs[v].check} \ {None} :
                 call.kind = "logout" \/ ~Live(call.token)
  BY PageIsKept, CookieIsKept
<1> QED
  BY <1>1, StartSound, InvariantStep, PTL DEF Spec, OutageIsNoLogout

=============================================================================
