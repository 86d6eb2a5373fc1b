----------------------------- MODULE PushDevice -----------------------------
(* Push on one device: the enrollment that a tab owns (src/lib/push-device.ts), the    *)
(* card of the profile page (notification-preferences.tsx) and the background monitor  *)
(* (device-notification-monitor.tsx) that check it, and the server's binding of the    *)
(* endpoint (notifications.go pushSettings).                                           *)
(*                                                                                     *)
(* Every await of the native API or the server is a step of its own, may fail and may  *)
(* outlive the time it is given.  A request the browser gave up may still be executed. *)
EXTENDS Naturals, Sequences

CONSTANTS
  Checks,       \* bound: the checks of the connection that run at a time
  None,
  MaxEndpoints, \* bound: the subscriptions the browser ever makes
  MaxEvents     \* bound: checks, presses, failures and what others do

VARIABLES
  native,       \* the browser's subscription and whether it has the server's key
  pending,      \* pendingNative: pushManager.subscribe is under way
  made,         \* endpoints made so far
  rows,         \* push_subscriptions of this device on the server
  generation,   \* generation
  act,          \* enabling or stopping, and how far it is
  queue,        \* bindingWrites
  late,         \* requests given up that may still be executed
  checks,       \* syncExistingPush, alone or within the page's refreshPush
  page,         \* pushEnabled, pushChecking and whether an action runs
  off,          \* history: the endpoint that was disconnected, until the next enrollment
  disturbed,    \* history: the subscription or its row changed by itself
  events

device == <<native, pending, made>>
vars == <<native, pending, made, rows, generation, act, queue, late, checks, page,
          off, disturbed, events>>

Endpoints == 1 .. MaxEndpoints
Subscriptions == [id : Endpoints, fits : BOOLEAN]

\* "act" names the button among those who wait for a write; None is nothing else.
PushAssumption ==
  /\ MaxEndpoints \in Nat \ {0} /\ MaxEvents \in Nat /\ "act" \notin Checks
  /\ None \notin Endpoints /\ None \notin Subscriptions
  /\ None \notin {"enable", "disable", "page", "monitor"}

Event == events < MaxEvents /\ events' = events + 1

Idle == [kind |-> None, pc |-> "none", sub |-> None]
NoCheck == [who |-> None, pc |-> "none", sub |-> None, version |-> 0, latest |-> FALSE]

Write(method, id, version, for) ==
  [method |-> method, id |-> id, version |-> version, for |-> for, state |-> "waiting"]

-----------------------------------------------------------------------------
(* Checks.  refreshPush looks for a subscription and then synchronises it; the monitor *)
(* only synchronises.  Only the latest refresh of the page may change what it shows.   *)

\* A check that ends: bound, not bound, or failed, which leaves what is shown.
Ended(s, bound) ==
  /\ checks' = [checks EXCEPT ![s] = NoCheck]
  /\ page' = IF ~checks[s].latest THEN page
             ELSE [page EXCEPT !.checking = FALSE,
                               !.enabled = IF bound = "failed" THEN @ ELSE bound = "true"]

RefreshPush(s) ==
  /\ checks[s].who = None /\ page.busy # "acting" /\ Event
  /\ checks' = [t \in Checks |->
       IF t = s THEN [NoCheck EXCEPT !.who = "page", !.pc = "look", !.latest = TRUE]
       ELSE [checks[t] EXCEPT !.latest = FALSE]]
  /\ page' = [page EXCEPT !.checking = TRUE]
  /\ UNCHANGED <<device, rows, generation, act, queue, late, off, disturbed>>

\* The socket is ready, or the service worker reports another subscription.
MonitorSync(s) ==
  /\ checks[s].who = None /\ act.kind = None /\ Event
  /\ checks' = [checks EXCEPT ![s] =
       [NoCheck EXCEPT !.who = "monitor", !.pc = "read", !.version = generation]]
  /\ UNCHANGED <<device, rows, generation, act, queue, late, page, off, disturbed>>

Look(s) ==
  /\ checks[s].pc = "look"
  /\ IF native = None \/ act.kind # None THEN Ended(s, "false")
     ELSE /\ checks' = [checks EXCEPT ![s].pc = "read", ![s].version = generation]
          /\ UNCHANGED page
  /\ UNCHANGED <<device, rows, generation, act, queue, late, off, disturbed, events>>

\* syncExistingPush: the subscription is read, then the server's key is asked for.
Read(s) ==
  /\ checks[s].pc = "read"
  /\ IF native = None THEN Ended(s, "false")
     ELSE checks' = [checks EXCEPT ![s].pc = "key", ![s].sub = native] /\ UNCHANGED page
  /\ UNCHANGED <<device, rows, generation, act, queue, late, off, disturbed, events>>

Bind(s) ==
  /\ checks[s].pc = "key"
  /\ IF ~checks[s].sub.fits THEN Ended(s, "false") /\ UNCHANGED queue
     ELSE /\ checks' = [checks EXCEPT ![s].pc = "bind"]
          /\ queue' = Append(queue, Write("POST", checks[s].sub.id, checks[s].version, s))
          /\ UNCHANGED page
  /\ UNCHANGED <<device, rows, generation, act, late, off, disturbed, events>>

CheckFails(s) ==
  /\ checks[s].pc \in {"look", "read", "key"} /\ Event
  /\ Ended(s, "failed")
  /\ UNCHANGED <<device, rows, generation, act, queue, late, off, disturbed>>

-----------------------------------------------------------------------------
(* The button: perform("push").                                                       *)
Superseded == [s \in Checks |-> [checks[s] EXCEPT !.latest = FALSE]]

Press ==
  /\ page.busy = "no" /\ ~page.checking /\ Event
  /\ checks' = Superseded
  /\ IF page.enabled /\ pending
     THEN page' = [page EXCEPT !.busy = "failed"] /\ UNCHANGED <<act, generation, off>>
     ELSE /\ page' = [page EXCEPT !.busy = "acting"]
          /\ generation' = generation + 1
          /\ act' = [Idle EXCEPT !.kind = IF page.enabled THEN "disable" ELSE "enable",
                                 !.pc = "look"]
          /\ off' = IF page.enabled THEN off ELSE None
  /\ UNCHANGED <<device, rows, queue, late, disturbed>>

\* The action ends: the page shows the new state and asks for a refresh, or looks
\* whether a subscription is left.
Acted(ok) ==
  /\ act' = Idle
  /\ page' = [page EXCEPT !.enabled = IF ok THEN act.kind = "enable" ELSE @,
                          !.busy = IF ok THEN "no" ELSE "failed"]

AfterFailure ==
  /\ page.busy = "failed"
  /\ page' = [page EXCEPT !.busy = "no", !.enabled = @ /\ native # None]
  /\ UNCHANGED <<device, rows, generation, act, queue, late, checks, off, disturbed, events>>

\* enroll: permission, the server's key and the worker are had; what is there already?
EnrollLooks ==
  /\ act.kind = "enable" /\ act.pc = "look"
  /\ \/ /\ native = None /\ act' = [act EXCEPT !.pc = "subscribe"] /\ UNCHANGED queue
     \/ /\ native # None /\ ~native.fits
        /\ act' = [act EXCEPT !.pc = "replace", !.sub = native] /\ UNCHANGED queue
     \/ /\ native # None /\ native.fits
        /\ act' = [act EXCEPT !.pc = "bind", !.sub = native]
        /\ queue' = Append(queue, Write("POST", native.id, generation, "act"))
  /\ UNCHANGED <<device, rows, generation, late, checks, page, off, disturbed, events>>

\* The subscription with another key is removed, from the browser and from the server;
\* disablePush removes the one that is there in the same way.
Unsubscribe ==
  /\ act.pc \in {"replace", "remove"}
  /\ native' = None
  /\ act' = [act EXCEPT !.pc = "unbind"]
  /\ queue' = Append(queue, Write("DELETE", act.sub.id, generation, "act"))
  /\ UNCHANGED <<pending, made, rows, generation, late, checks, page, off, disturbed, events>>

\* Native work cannot be aborted: a pending one is awaited again.
Subscribe ==
  /\ act.pc = "subscribe"
  /\ act' = [act EXCEPT !.pc = "await"] /\ pending' = TRUE
  /\ UNCHANGED <<native, made, rows, generation, queue, late, checks, page, off, disturbed,
                 events>>

Subscribed ==
  /\ pending /\ pending' = FALSE
  /\ made < MaxEndpoints \/ native # None
  /\ LET sub == IF native = None THEN [id |-> made + 1, fits |-> TRUE] ELSE native IN
     /\ native' = sub /\ made' = IF native = None THEN made + 1 ELSE made
     /\ IF act.pc = "await"
        THEN /\ act' = [act EXCEPT !.pc = "bind", !.sub = sub]
             /\ queue' = Append(queue, Write("POST", sub.id, generation, "act"))
        ELSE UNCHANGED <<act, queue>>
  /\ UNCHANGED <<rows, generation, late, checks, page, off, disturbed, events>>

NotSubscribed ==
  /\ pending /\ pending' = FALSE /\ Event
  /\ IF act.pc = "await" THEN Acted(FALSE) ELSE UNCHANGED <<act, page>>
  /\ UNCHANGED <<native, made, rows, generation, queue, late, checks, off, disturbed>>

DisableLooks ==
  /\ act.kind = "disable" /\ act.pc = "look"
  /\ IF native = None THEN Acted(TRUE)
     ELSE act' = [act EXCEPT !.pc = "remove", !.sub = native] /\ UNCHANGED page
  /\ UNCHANGED <<device, rows, generation, queue, late, checks, off, disturbed, events>>

\* A native call or the key fails or is late; what was begun with pushManager goes on.
ActFails ==
  /\ act.pc \in {"look", "replace", "remove", "subscribe", "await"} /\ Event
  /\ Acted(FALSE)
  /\ UNCHANGED <<device, rows, generation, queue, late, checks, off, disturbed>>

-----------------------------------------------------------------------------
(* The queue of binding writes.                                                       *)
Stored(w) == IF w.method = "POST" THEN rows \cup {w.id} ELSE rows \ {w.id}

\* Mutant of Told: an action takes a refused write for a done one.
ToldDone(w, result) ==
  IF w.for # "act"
  THEN Ended(w.for, result) /\ UNCHANGED <<act, off>>
  ELSE /\ checks' = checks
       /\ IF act.kind = "enable" /\ act.pc = "unbind"
          THEN act' = [act EXCEPT !.pc = "subscribe"] /\ UNCHANGED page
          ELSE Acted(TRUE)
       /\ off' = IF act.kind = "disable" THEN w.id ELSE off

\* The result of a write for whoever waits for it.
Told(w, result) ==
  IF w.for # "act"
  THEN Ended(w.for, result) /\ UNCHANGED <<act, off>>
  ELSE /\ checks' = checks
       /\ IF act.kind = "enable" /\ act.pc = "unbind" /\ result # "failed"
          THEN act' = [act EXCEPT !.pc = "subscribe"] /\ UNCHANGED page
          ELSE Acted(IF act.kind = "enable" THEN result = "true" ELSE result # "failed")
       /\ off' = IF act.kind = "disable" /\ result # "failed" THEN w.id ELSE off

\* A write whose generation is over is not sent.
Send ==
  /\ queue # <<>> /\ Head(queue).state = "waiting"
  /\ IF Head(queue).version # generation
     THEN Told(Head(queue), "false") /\ queue' = Tail(queue)
     ELSE queue' = [queue EXCEPT ![1].state = "sent"] /\ UNCHANGED <<act, off, checks, page>>
  /\ UNCHANGED <<device, rows, generation, late, disturbed, events>>

Serve ==
  /\ queue # <<>> /\ Head(queue).state = "sent"
  /\ rows' = Stored(Head(queue))
  /\ queue' = [queue EXCEPT ![1].state = "served"]
  /\ UNCHANGED <<device, generation, act, late, checks, page, off, disturbed, events>>

Hear ==
  /\ queue # <<>> /\ Head(queue).state = "served"
  /\ Told(Head(queue), IF Head(queue).version = generation THEN "true" ELSE "false")
  /\ queue' = Tail(queue)
  /\ UNCHANGED <<device, rows, generation, late, disturbed, events>>

\* Refused, or given up after twelve seconds: the server may execute it afterwards.
GiveUp ==
  /\ queue # <<>> /\ Head(queue).state # "waiting" /\ Event
  /\ Told(Head(queue), "failed")
  /\ queue' = Tail(queue)
  /\ late' = IF Head(queue).state = "sent" THEN late \cup {Head(queue)} ELSE late
  /\ UNCHANGED <<device, rows, generation, disturbed>>

ServeLate(w) ==
  /\ w.state = "sent" /\ rows' = Stored(w)
  /\ late' = (late \ {w}) \cup {[w EXCEPT !.state = "served"]}
  /\ UNCHANGED <<device, generation, act, queue, checks, page, off, disturbed, events>>

-----------------------------------------------------------------------------
\* The browser drops or renews the subscription; the provider or the end of the session
\* removes its row.
Disturb ==
  /\ act.kind = None /\ Event /\ disturbed' = TRUE
  /\ \/ native # None /\ native' = None /\ UNCHANGED <<made, rows>>
     \/ /\ native # None /\ made < MaxEndpoints /\ made' = made + 1
        /\ native' = [native EXCEPT !.id = made + 1] /\ UNCHANGED rows
     \/ rows # {} /\ rows' = {} /\ UNCHANGED <<native, made>>
  /\ UNCHANGED <<pending, generation, act, queue, late, checks, page, off>>

Init ==
  /\ native \in {None} \cup [id : {1}, fits : BOOLEAN]
  /\ pending = FALSE /\ made = 1 /\ rows \in {{}, {1}}
  /\ generation = 0 /\ act = Idle /\ queue = <<>> /\ late = {}
  /\ checks = [s \in Checks |-> NoCheck]
  /\ page = [enabled |-> FALSE, checking |-> FALSE, busy |-> "no"]
  /\ off = None /\ disturbed = FALSE /\ events = 0

Next ==
  \/ \E s \in Checks : \/ RefreshPush(s) \/ MonitorSync(s) \/ Look(s)
                       \/ Read(s) \/ Bind(s) \/ CheckFails(s)
  \/ Press \/ AfterFailure \/ EnrollLooks \/ Unsubscribe \/ Subscribe
  \/ Subscribed \/ NotSubscribed \/ DisableLooks \/ ActFails
  \/ Send \/ Serve \/ Hear \/ GiveUp \/ \E w \in late : ServeLate(w)
  \/ Disturb

Spec == Init /\ [][Next]_vars

-----------------------------------------------------------------------------
TypeOK ==
  /\ native \in {None} \cup Subscriptions
  /\ {pending, disturbed, page.enabled, page.checking} \subseteq BOOLEAN
  /\ rows \subseteq Endpoints /\ off \in Endpoints \cup {None}
  /\ act.kind \in {None, "enable", "disable"} /\ page.busy \in {"no", "acting", "failed"}
  /\ act.kind # None <=> page.busy = "acting"
  /\ \A s \in Checks : checks[s].who \in {None, "page", "monitor"}

\* A device that was disconnected stays so until the next enrollment: no older check
\* subscribes it, binds it again or shows it as connected, in whatever order the checks,
\* the writes and the native calls end (push-device.ts updateBinding, disablePush).  A
\* binding that the browser gave up and the server executed afterwards is excepted.
StaysOff ==
  off # None =>
    /\ native = None /\ ~page.enabled
    /\ off \in rows => \E w \in late : w.method = "POST" /\ w.id = off /\ w.state = "served"

\* The page says that this device is connected only if the browser has a subscription
\* that the server knows, unless one of them changed by itself (refreshPush, perform).
ShownIsBound ==
  page.enabled /\ page.busy = "no" /\ ~disturbed => native # None /\ native.id \in rows

\* Both at once: what the profile says of this device is true (docs/notifications.md,
\* "Push enrollment recovery").
DeviceIsAsShown == StaysOff /\ ShownIsBound
=============================================================================
