--------------------------- MODULE ScreensProofs ---------------------------
(***************************************************************************)
(* What the screens of the browser keep of their reader's work, for any    *)
(* number of views, fields, values, rows, checks and events.  Four parts,  *)
(* each about one module and with an invariant of its own.                 *)
(*   Device (PushDevice)  DisconnectedStaysOff, ConnectedIsBound: what     *)
(*     the profile says of this device is true;                            *)
(*   Tabs (Views)         DraftsSurvive, SavesKeepTheRest: a draft of a    *)
(*     view outlives everything but its own save or reset, and a save or   *)
(*     a rename does not take back what somebody else changed;             *)
(*   Form (Fields)        EditsSurvive, LoadedOnceLosesNothing: no commit  *)
(*     is lost, and no acknowledged field taken back;                      *)
(*   Lists (Feeds)        FeedIsWhole: a list read page by page shows the  *)
(*     rows of its filter without a hole;                                  *)
(*   Removal (Deletion)   DeletionsAreAsShown: a deletion takes the rows   *)
(*     that its developer was shown, as he was shown them.                 *)
(* The parts share the names of constants and variables but no behaviour:  *)
(* a theorem is about the specification of one of them.                    *)
(***************************************************************************)
EXTENDS Naturals, Sequences, FiniteSets, FiniteSetTheorems, TLAPS

CONSTANTS
  None, MaxEvents,
  Checks, MaxEndpoints,                                    \* PushDevice
  Ids, ReadOnly, Standard, Names, Configs, Default, Stale, \* Views
  Fields, Status, Values, Forms,                           \* Fields
  Kinds, Old, MaxItems, PageSize,                          \* Feeds
  Records, May, Unlinked, Beyond, Company, Devs, Calls     \* Deletion

VARIABLES
  native, pending, made, rows, generation, act, checks, page, off, disturbed,
  fresh, views, restored, active, config, drafts, autosave, dialog, call, error, wanted,
  form, draft, saved, persisted, flight, typing, mine, dirty, asked, crossed,
  feed, tags, visible, calls, closing, marking, known, overtaken,
  db, dialogs, reads,
  server, queue, late, load, events

Device == INSTANCE PushDevice
Tabs == INSTANCE Views
Form == INSTANCE Fields
Lists == INSTANCE Feeds
Removal == INSTANCE Deletion

-----------------------------------------------------------------------------
\* PushDevice.  Whoever waits for a write waits for exactly one (Waiting); a check that is
\* as young as the generation has the subscription that is there (ChecksFit); no deletion
\* that is under way, also one that was given up, names the subscription that is there
\* (DeletionsAreOld).

Methods == {"POST", "DELETE"}
WriteStates == {"waiting", "sent", "served"}

Writes ==
  [method : Methods, id : Device!Endpoints, version : Nat, for : Checks \cup {"act"},
   state : WriteStates]

CheckStates ==
  [who : {None, "page", "monitor"}, pc : {"none", "look", "read", "key", "bind"},
   sub : Device!Subscriptions \cup {None}, version : Nat, latest : BOOLEAN]

ActStates ==
  [kind : {None, "enable", "disable"},
   pc : {"none", "look", "replace", "remove", "unbind", "subscribe", "await", "bind"},
   sub : Device!Subscriptions \cup {None}]

Pages == [enabled : BOOLEAN, checking : BOOLEAN, busy : {"no", "acting", "failed"}]

\* The device, the server's rows and who works with them.
DeviceType ==
  /\ native \in Device!Subscriptions \cup {None} /\ pending \in BOOLEAN /\ made \in Device!Endpoints
  /\ rows \in SUBSET Device!Endpoints /\ generation \in Nat /\ act \in ActStates
  /\ queue \in Seq(Writes) /\ late \in SUBSET Writes /\ checks \in [Checks -> CheckStates]
  /\ page \in Pages /\ off \in Device!Endpoints \cup {None} /\ disturbed \in BOOLEAN
  /\ events \in Nat

\* Which steps an action goes through, and what it knows at each.
ActInOrder ==
  /\ act.kind = None => act.pc = "none"
  /\ act.kind = "enable" =>
       act.pc \in {"look", "replace", "unbind", "subscribe", "await", "bind"}
  /\ act.kind = "disable" => act.pc \in {"look", "remove", "unbind"}
  /\ act.kind # None <=> page.busy = "acting"
  /\ act.pc \in {"replace", "remove", "unbind"} => act.sub # None /\ act.sub.id <= made
  /\ act.pc = "bind" => native = act.sub /\ native # None

\* A device is disconnected only while nothing is under way, and connected before.
ActAlone ==
  /\ act.kind # None => off = None
  /\ act.kind = "enable" => ~page.enabled
  /\ act.kind = "disable" => ~pending
  /\ act.kind = "disable" /\ act.pc = "unbind" => native = None

\* Subscriptions get new endpoints.
NativeIsMade == native # None => native.id <= made

\* A check that is as young as the generation began with no action under way and has
\* the subscription that is there.
CheckFits(s) ==
  /\ checks[s].who = None => checks[s].pc = "none"
  /\ checks[s].latest => act.kind = None
  /\ checks[s].pc \in {"read", "key", "bind"} =>
       /\ checks[s].version <= generation
       /\ act.kind # None => checks[s].version < generation
  /\ checks[s].pc \in {"key", "bind"} =>
       /\ checks[s].sub # None
       /\ checks[s].version = generation /\ ~disturbed => native = checks[s].sub
       /\ off # None => checks[s].version # generation
ChecksFit == \A s \in Checks : CheckFits(s)

\* A write in the queue is the one that its check, or the action, waits for.
AwaitedBy(w) ==
  IF w.for = "act"
  THEN /\ act.pc = (IF w.method = "POST" THEN "bind" ELSE "unbind")
       /\ w.version = generation /\ w.id = act.sub.id
  ELSE /\ checks[w.for].pc = "bind" /\ w.method = "POST"
       /\ w.version = checks[w.for].version /\ w.id = checks[w.for].sub.id

Waiting ==
  /\ \A i \in 1 .. Len(queue) : AwaitedBy(queue[i])
  /\ \A i, j \in 1 .. Len(queue) : i # j => queue[i].for # queue[j].for
  /\ \A i \in 2 .. Len(queue) : queue[i].state = "waiting"

\* A given up binding of endpoint e was executed.
BoundLate(e) == \E w \in late : w.method = "POST" /\ w.id = e /\ w.state = "served"

\* What the server has done of the first write.
HeadServed ==
  queue # <<>> /\ queue[1].state = "served" =>
    /\ queue[1].method = "POST" /\ queue[1].version = generation /\ ~disturbed =>
         queue[1].id \in rows
    /\ queue[1].method = "DELETE" /\ queue[1].id \in rows => BoundLate(queue[1].id)

\* A deletion names an endpoint that the browser no longer has.
OldDeletion(w) == w.method = "DELETE" => w.id <= made /\ (native = None \/ native.id # w.id)
DeletionsAreOld ==
  /\ \A i \in 1 .. Len(queue) : OldDeletion(queue[i])
  /\ \A w \in late : OldDeletion(w)

\* A page that says "connected" is right, or an action is about to change it.
EnabledIsBound ==
  page.enabled /\ ~disturbed =>
    /\ native # None => native.id \in rows
    /\ native = None => ~pending /\ page.busy # "no"

\* After a disconnection nothing is left that could connect the device.
OffIsQuiet ==
  off # None =>
    /\ native = None /\ ~pending /\ ~page.enabled
    /\ off \in rows => BoundLate(off)
    /\ \A i \in 1 .. Len(queue) : queue[i].state = "waiting"

PushInvariant ==
  /\ DeviceType /\ ActInOrder /\ ActAlone /\ NativeIsMade /\ ChecksFit /\ Waiting
  /\ HeadServed /\ DeletionsAreOld /\ EnabledIsBound /\ OffIsQuiet

-----------------------------------------------------------------------------
\* What the parts of a step have in common.

LEMMA NoCheckIs ==
  Device!NoCheck \in CheckStates /\ Device!NoCheck.who = None /\ Device!NoCheck.pc = "none" /\ ~Device!NoCheck.latest
BY DEF Device!NoCheck, CheckStates

LEMMA IdleIs == Device!Idle \in ActStates /\ Device!Idle.kind = None /\ Device!Idle.pc = "none"
BY DEF Device!Idle, ActStates

\* A check that ends changes the page only if it is the page's latest.
LEMMA EndedCheck ==
  ASSUME DeviceType, NEW s \in Checks, NEW bound, Device!Ended(s, bound)
  PROVE  /\ checks' \in [Checks -> CheckStates] /\ page' \in Pages
         /\ checks'[s] = Device!NoCheck
         /\ \A t \in Checks : t # s => checks'[t] = checks[t]
         /\ ~checks[s].latest => page' = page
         /\ page'.busy = page.busy
         /\ page'.enabled => page.enabled \/ (checks[s].latest /\ bound = "true")
<1>1. checks \in [Checks -> CheckStates] /\ page \in Pages
  BY DEF DeviceType
<1>2. /\ checks' \in [Checks -> CheckStates] /\ checks'[s] = Device!NoCheck
      /\ \A t \in Checks : t # s => checks'[t] = checks[t]
  BY <1>1, NoCheckIs DEF Device!Ended
<1>3. CASE checks[s].latest
  <2>1. page' = [page EXCEPT !.checking = FALSE,
                             !.enabled = IF bound = "failed" THEN @ ELSE bound = "true"]
    BY <1>3 DEF Device!Ended
  <2>2. page' \in Pages /\ page'.busy = page.busy
    BY <1>1, <2>1 DEF Pages
  <2>3. page'.enabled => page.enabled \/ bound = "true"
    BY <1>1, <2>1 DEF Pages
  <2> QED
    BY <1>2, <1>3, <2>2, <2>3
<1>4. CASE ~checks[s].latest
  BY <1>1, <1>2, <1>4 DEF Device!Ended
<1> QED
  BY <1>3, <1>4

\* The action ends, and the page shows its result.
LEMMA ActedEnds ==
  ASSUME DeviceType, NEW ok \in BOOLEAN, Device!Acted(ok)
  PROVE  /\ act' \in ActStates /\ act'.kind = None /\ act'.pc = "none"
         /\ page' \in Pages
         /\ page'.busy = (IF ok THEN "no" ELSE "failed")
         /\ page'.enabled = (IF ok THEN act.kind = "enable" ELSE page.enabled)
<1>1. page \in Pages
  BY DEF DeviceType
<1>2. act' = Device!Idle
  BY DEF Device!Acted
<1>3. page' = [page EXCEPT !.enabled = IF ok THEN act.kind = "enable" ELSE @,
                           !.busy = IF ok THEN "no" ELSE "failed"]
  BY DEF Device!Acted
<1>4. page' \in Pages
  BY <1>1, <1>3 DEF Pages
<1>5. page'.busy = (IF ok THEN "no" ELSE "failed")
  BY <1>1, <1>3 DEF Pages
<1>6. page'.enabled = (IF ok THEN act.kind = "enable" ELSE page.enabled)
  BY <1>1, <1>3 DEF Pages
<1> QED
  BY <1>2, <1>4, <1>5, <1>6, IdleIs

\* A write is still awaited if the one who waits goes on waiting.
LEMMA StillAwaited ==
  ASSUME NEW w \in Writes, AwaitedBy(w),
         w.for = "act" => UNCHANGED <<act, generation>>,
         w.for # "act" =>
           /\ checks'[w.for].pc = checks[w.for].pc
           /\ checks'[w.for].version = checks[w.for].version
           /\ checks'[w.for].sub = checks[w.for].sub
  PROVE  AwaitedBy(w)'
BY DEF AwaitedBy

\* Those who wait for a write are in the middle of a binding.
LEMMA WhoWaits ==
  ASSUME NEW w \in Writes, AwaitedBy(w)
  PROVE  /\ w.for = "act" => act.pc \in {"bind", "unbind"}
         /\ w.for # "act" => w.for \in Checks /\ checks[w.for].pc = "bind"
BY DEF AwaitedBy, Writes, Methods

\* The queue stays as it is while those who wait go on waiting.
LEMMA StillWaiting ==
  ASSUME PushInvariant, queue' = queue,
         act.pc \in {"bind", "unbind"} => UNCHANGED <<act, generation>>,
         \A s \in Checks : checks[s].pc = "bind" =>
           /\ checks'[s].pc = "bind" /\ checks'[s].version = checks[s].version
           /\ checks'[s].sub = checks[s].sub
  PROVE  Waiting'
<1>1. /\ \A i \in 1 .. Len(queue) : AwaitedBy(queue[i]) /\ queue[i] \in Writes
      /\ \A i, j \in 1 .. Len(queue) : i # j => queue[i].for # queue[j].for
      /\ \A i \in 2 .. Len(queue) : queue[i].state = "waiting"
  BY DEF PushInvariant, Waiting, DeviceType
<1>2. \A w \in Writes : AwaitedBy(w) => AwaitedBy(w)'
  BY StillAwaited, WhoWaits
<1> QED
  BY <1>1, <1>2 DEF Waiting

\* A deletion stays old, since a new subscription has a new endpoint.
LEMMA StaysOld ==
  ASSUME DeviceType, NEW w \in Writes, OldDeletion(w), made' \in Nat, made <= made',
         native' # None => native' = native \/ native'.id > made
  PROVE  OldDeletion(w)'
BY DEF DeviceType, OldDeletion, Writes, Device!Endpoints

\* What concerns only the writes and the rows does not change with the rest.
LEMMA WritesKept ==
  ASSUME PushInvariant, UNCHANGED <<rows, queue, late>>, made' \in Nat, made <= made',
         native' # None => native' = native \/ native'.id > made,
         queue # <<>> /\ queue[1].version = generation' /\ ~disturbed' =>
           generation' = generation /\ ~disturbed
  PROVE  HeadServed' /\ DeletionsAreOld'
<1>1. HeadServed'
  BY DEF PushInvariant, HeadServed, BoundLate
<1>2. \A w \in Writes : OldDeletion(w) => OldDeletion(w)'
  BY StaysOld DEF PushInvariant
<1>3. /\ \A i \in 1 .. Len(queue) : queue[i] \in Writes
      /\ late \in SUBSET Writes
  BY DEF PushInvariant, DeviceType
<1>4. DeletionsAreOld'
  BY <1>2, <1>3 DEF PushInvariant, DeletionsAreOld
<1> QED
  BY <1>1, <1>4

-----------------------------------------------------------------------------
\* The checks.

LEMMA RefreshPushStep ==
  ASSUME Device!PushAssumption, PushInvariant, NEW s \in Checks, Device!RefreshPush(s)
  PROVE  PushInvariant'
<1>1. DeviceType
  BY DEF PushInvariant
<1>2. page' \in Pages /\ page'.enabled = page.enabled /\ page'.busy = page.busy
  BY <1>1 DEF Device!RefreshPush, DeviceType, Pages
<1>3. ASSUME NEW t \in Checks
      PROVE  /\ checks'[t] \in CheckStates
             /\ t # s => /\ checks'[t].who = checks[t].who /\ checks'[t].pc = checks[t].pc
                         /\ checks'[t].sub = checks[t].sub
                         /\ checks'[t].version = checks[t].version /\ ~checks'[t].latest
             /\ t = s => checks'[t].who = "page" /\ checks'[t].pc = "look"
  <2>1. CASE t = s
    <3>1. checks'[t] = [Device!NoCheck EXCEPT !.who = "page", !.pc = "look", !.latest = TRUE]
      BY <2>1 DEF Device!RefreshPush
    <3> QED
      BY <2>1, <3>1, NoCheckIs DEF CheckStates
  <2>2. CASE t # s
    <3>1. checks'[t] = [checks[t] EXCEPT !.latest = FALSE] /\ checks[t] \in CheckStates
      BY <1>1, <2>2 DEF Device!RefreshPush, DeviceType
    <3> QED
      BY <2>2, <3>1 DEF CheckStates
  <2> QED
    BY <2>1, <2>2
<1>4. DeviceType'
  <2>1. checks' \in [Checks -> CheckStates]
    BY <1>3 DEF Device!RefreshPush
  <2>2. events' \in Nat
    BY <1>1 DEF Device!RefreshPush, DeviceType, Device!Event
  <2> QED
    BY <1>1, <1>2, <2>1, <2>2 DEF DeviceType, Device!RefreshPush, Device!device
<1>5. ActInOrder' /\ ActAlone' /\ NativeIsMade' /\ EnabledIsBound' /\ OffIsQuiet'
  BY <1>2 DEF PushInvariant, ActInOrder, ActAlone, NativeIsMade, EnabledIsBound, OffIsQuiet,
              BoundLate, Device!RefreshPush, Device!device
<1>6. ChecksFit'
  BY <1>2, <1>3, Device!PushAssumption
  DEF PushInvariant, ActInOrder, ChecksFit, CheckFits, Device!RefreshPush, Device!device,
      Device!PushAssumption
<1>7. Waiting'
  <2>1. checks[s].pc # "bind"
    BY DEF PushInvariant, ChecksFit, CheckFits, Device!RefreshPush
  <2> QED
    BY <1>3, <2>1, StillWaiting DEF Device!RefreshPush
<1>8. HeadServed' /\ DeletionsAreOld'
  BY <1>1, WritesKept DEF Device!RefreshPush, Device!device, DeviceType, Device!Endpoints
<1> QED
  BY <1>4, <1>5, <1>6, <1>7, <1>8 DEF PushInvariant

LEMMA MonitorSyncStep ==
  ASSUME Device!PushAssumption, PushInvariant, NEW s \in Checks, Device!MonitorSync(s)
  PROVE  PushInvariant'
<1>1. DeviceType
  BY DEF PushInvariant
<1>2. /\ checks' \in [Checks -> CheckStates]
      /\ \A t \in Checks : t # s => checks'[t] = checks[t]
      /\ checks'[s] =
           [Device!NoCheck EXCEPT !.who = "monitor", !.pc = "read", !.version = generation]
  <2>1. [Device!NoCheck EXCEPT !.who = "monitor", !.pc = "read", !.version = generation]
          \in CheckStates
    BY <1>1, NoCheckIs DEF CheckStates, DeviceType
  <2> QED
    BY <1>1, <2>1 DEF Device!MonitorSync, DeviceType
<1>3. /\ checks'[s].who = "monitor" /\ checks'[s].pc = "read"
      /\ checks'[s].version = generation /\ ~checks'[s].latest
  BY <1>2, NoCheckIs DEF CheckStates
<1>4. DeviceType'
  <2>1. events' \in Nat
    BY <1>1 DEF Device!MonitorSync, DeviceType, Device!Event
  <2> QED
    BY <1>1, <1>2, <2>1 DEF DeviceType, Device!MonitorSync, Device!device
<1>5. ActInOrder' /\ ActAlone' /\ NativeIsMade' /\ EnabledIsBound' /\ OffIsQuiet'
  BY DEF PushInvariant, ActInOrder, ActAlone, NativeIsMade, EnabledIsBound, OffIsQuiet,
         BoundLate, Device!MonitorSync, Device!device
<1>6. ChecksFit'
  <2>1. act.kind = None /\ act' = act /\ generation' = generation /\ generation \in Nat
    BY <1>1 DEF Device!MonitorSync, DeviceType
  <2>2. CheckFits(s)'
    BY <1>3, <2>1, Device!PushAssumption DEF CheckFits, Device!PushAssumption
  <2>3. \A t \in Checks : t # s => CheckFits(t)'
    BY <1>2 DEF PushInvariant, ChecksFit, CheckFits, Device!MonitorSync, Device!device
  <2> QED
    BY <2>2, <2>3 DEF ChecksFit
<1>7. Waiting'
  <2>1. checks[s].pc # "bind"
    BY DEF PushInvariant, ChecksFit, CheckFits, Device!MonitorSync
  <2> QED
    BY <1>2, <2>1, StillWaiting DEF Device!MonitorSync
<1>8. HeadServed' /\ DeletionsAreOld'
  BY <1>1, WritesKept DEF Device!MonitorSync, Device!device, DeviceType, Device!Endpoints
<1> QED
  BY <1>4, <1>5, <1>6, <1>7, <1>8 DEF PushInvariant

\* What a check that ends leaves in order, if "connected" is said only of what is bound.
LEMMA EndedInOrder ==
  ASSUME Device!PushAssumption, PushInvariant, NEW s \in Checks, NEW bound, Device!Ended(s,
         bound),
         UNCHANGED <<Device!device, rows, generation, act, off, disturbed>>,
         bound = "true" => off = None /\ (~disturbed => native # None /\ native.id \in rows)
  PROVE  /\ checks' \in [Checks -> CheckStates] /\ page' \in Pages
         /\ ActInOrder' /\ ActAlone' /\ NativeIsMade' /\ ChecksFit' /\ EnabledIsBound'
         /\ off # None => ~page'.enabled
<1>1. DeviceType
  BY DEF PushInvariant
<1>2. /\ checks' \in [Checks -> CheckStates] /\ page' \in Pages
      /\ checks'[s] = Device!NoCheck
      /\ \A t \in Checks : t # s => checks'[t] = checks[t]
      /\ page'.busy = page.busy
      /\ page'.enabled => page.enabled \/ (checks[s].latest /\ bound = "true")
  BY <1>1, EndedCheck
<1>3. checks[s].latest => act.kind = None
  BY DEF PushInvariant, ChecksFit, CheckFits
<1>4. ActInOrder' /\ NativeIsMade'
  BY <1>2 DEF PushInvariant, ActInOrder, NativeIsMade, Device!device
<1>5. ActAlone'
  BY <1>2, <1>3, Device!PushAssumption DEF PushInvariant, ActAlone, Device!device,
     Device!PushAssumption
<1>6. ChecksFit'
  BY <1>2, NoCheckIs DEF PushInvariant, ChecksFit, CheckFits, Device!device
<1>7. EnabledIsBound'
  BY <1>2 DEF PushInvariant, EnabledIsBound, Device!device
<1> QED
  BY <1>2, <1>4, <1>5, <1>6, <1>7 DEF PushInvariant, OffIsQuiet

\* Such a check waits for no write, and the queue is as before.
LEMMA EndedStep ==
  ASSUME Device!PushAssumption, PushInvariant, NEW s \in Checks, NEW bound, Device!Ended(s,
         bound),
         UNCHANGED <<Device!device, rows, generation, act, queue, late, off, disturbed>>,
         bound # "true", checks[s].pc # "bind", events' \in Nat
  PROVE  PushInvariant'
<1>1. DeviceType
  BY DEF PushInvariant
<1>2. /\ checks' \in [Checks -> CheckStates] /\ page' \in Pages
      /\ ActInOrder' /\ ActAlone' /\ NativeIsMade' /\ ChecksFit' /\ EnabledIsBound'
      /\ off # None => ~page'.enabled
  BY EndedInOrder
<1>3. DeviceType'
  BY <1>1, <1>2 DEF DeviceType, Device!device
<1>4. OffIsQuiet'
  BY <1>2 DEF PushInvariant, OffIsQuiet, BoundLate, Device!device
<1>5. Waiting'
  BY <1>1, EndedCheck, StillWaiting
<1>6. HeadServed' /\ DeletionsAreOld'
  BY <1>1, WritesKept DEF Device!device, DeviceType, Device!Endpoints
<1> QED
  BY <1>2, <1>3, <1>4, <1>5, <1>6 DEF PushInvariant

LEMMA CheckFailsStep ==
  ASSUME Device!PushAssumption, PushInvariant, NEW s \in Checks, Device!CheckFails(s)
  PROVE  PushInvariant'
<1>1. events' \in Nat
  BY DEF PushInvariant, DeviceType, Device!CheckFails, Device!Event
<1> QED
  BY <1>1, EndedStep DEF Device!CheckFails

\* A check goes one step further: nothing else changes.
LEMMA FurtherStep ==
  ASSUME Device!PushAssumption, PushInvariant, NEW s \in Checks,
         checks[s].pc # "bind", checks[s].who # None,
         checks' \in [Checks -> CheckStates],
         \A t \in Checks : t # s => checks'[t] = checks[t],
         checks'[s].who = checks[s].who, checks'[s].latest = checks[s].latest,
         CheckFits(s)',
         UNCHANGED <<Device!device, rows, generation, act, late, page, off, disturbed, events>>
  PROVE  /\ queue' = queue => PushInvariant'
         /\ ActInOrder' /\ ActAlone' /\ NativeIsMade' /\ ChecksFit' /\ EnabledIsBound'
<1>1. DeviceType
  BY DEF PushInvariant
<1>2. ActInOrder' /\ ActAlone' /\ NativeIsMade' /\ EnabledIsBound'
  BY DEF PushInvariant, ActInOrder, ActAlone, NativeIsMade, EnabledIsBound, Device!device
<1>3. ChecksFit'
  BY DEF PushInvariant, ChecksFit, CheckFits, Device!device
<1>4. ASSUME queue' = queue
      PROVE  PushInvariant'
  <2>1. DeviceType'
    BY <1>1, <1>4 DEF DeviceType, Device!device
  <2>2. OffIsQuiet'
    BY <1>4 DEF PushInvariant, OffIsQuiet, BoundLate, Device!device
  <2>3. Waiting'
    BY <1>4, StillWaiting
  <2>4. HeadServed' /\ DeletionsAreOld'
    BY <1>1, <1>4, WritesKept DEF Device!device, DeviceType, Device!Endpoints
  <2> QED
    BY <1>2, <1>3, <2>1, <2>2, <2>3, <2>4 DEF PushInvariant
<1> QED
  BY <1>2, <1>3, <1>4

LEMMA LookStep ==
  ASSUME Device!PushAssumption, PushInvariant, NEW s \in Checks, Device!Look(s)
  PROVE  PushInvariant'
<1>1. DeviceType
  BY DEF PushInvariant
<1>2. CASE native = None \/ act.kind # None
  <2>1. Device!Ended(s, "false")
    BY <1>2 DEF Device!Look
  <2> QED
    BY <1>1, <2>1, EndedStep DEF Device!Look, DeviceType
<1>3. CASE ~(native = None \/ act.kind # None)
  <2>1. checks' = [checks EXCEPT ![s].pc = "read", ![s].version = generation]
        /\ queue' = queue
    BY <1>3 DEF Device!Look
  <2>2. /\ checks' \in [Checks -> CheckStates]
        /\ \A t \in Checks : t # s => checks'[t] = checks[t]
    <3>1. [checks[s] EXCEPT !.pc = "read", !.version = generation] \in CheckStates
      BY <1>1 DEF DeviceType, CheckStates
    <3> QED
      BY <1>1, <2>1, <3>1 DEF DeviceType
  <2>3. /\ checks'[s].pc = "read" /\ checks'[s].version = generation
        /\ checks'[s].who = checks[s].who /\ checks'[s].latest = checks[s].latest
    BY <1>1, <2>1 DEF DeviceType, CheckStates
  <2>4. checks[s].who # None
    BY DEF PushInvariant, ChecksFit, CheckFits, Device!Look
  <2>5. CheckFits(s)'
    BY <1>1, <1>3, <2>3, <2>4 DEF Device!Look, CheckFits, DeviceType
  <2> QED
    BY <1>3, <2>1, <2>2, <2>3, <2>4, <2>5, FurtherStep DEF Device!Look
<1> QED
  BY <1>2, <1>3

LEMMA ReadStep ==
  ASSUME Device!PushAssumption, PushInvariant, NEW s \in Checks, Device!Read(s)
  PROVE  PushInvariant'
<1>1. DeviceType
  BY DEF PushInvariant
<1>2. CASE native = None
  <2>1. Device!Ended(s, "false")
    BY <1>2 DEF Device!Read
  <2> QED
    BY <1>1, <2>1, EndedStep DEF Device!Read, DeviceType
<1>3. CASE native # None
  <2>1. checks' = [checks EXCEPT ![s].pc = "key", ![s].sub = native] /\ queue' = queue
    BY <1>3 DEF Device!Read
  <2>2. /\ checks' \in [Checks -> CheckStates]
        /\ \A t \in Checks : t # s => checks'[t] = checks[t]
    <3>1. [checks[s] EXCEPT !.pc = "key", !.sub = native] \in CheckStates
      BY <1>1 DEF DeviceType, CheckStates
    <3> QED
      BY <1>1, <2>1, <3>1 DEF DeviceType
  <2>3. /\ checks'[s].pc = "key" /\ checks'[s].version = checks[s].version
        /\ checks'[s].sub = native
        /\ checks'[s].who = checks[s].who /\ checks'[s].latest = checks[s].latest
    BY <1>1, <2>1 DEF DeviceType, CheckStates
  <2>4. checks[s].who # None /\ CheckFits(s)
    BY DEF PushInvariant, ChecksFit, CheckFits, Device!Read
  <2>5. off = None
    BY <1>3 DEF PushInvariant, OffIsQuiet
  <2>6. CheckFits(s)'
    BY <1>3, <2>3, <2>4, <2>5 DEF Device!Read, CheckFits, Device!device
  <2> QED
    BY <1>3, <2>1, <2>2, <2>3, <2>4, <2>6, FurtherStep DEF Device!Read
<1> QED
  BY <1>2, <1>3

-----------------------------------------------------------------------------
\* The queue.

LEMMA AppendIs ==
  ASSUME NEW W, NEW q \in Seq(W), NEW w \in W
  PROVE  /\ Append(q, w) \in Seq(W) /\ Len(Append(q, w)) = Len(q) + 1
         /\ \A i \in 1 .. Len(q) : Append(q, w)[i] = q[i]
         /\ Append(q, w)[Len(q) + 1] = w
OBVIOUS

LEMMA TailIs ==
  ASSUME NEW W, NEW q \in Seq(W), q # <<>>
  PROVE  /\ Head(q) = q[1] /\ q[1] \in W /\ Len(q) \in Nat \ {0}
         /\ Tail(q) \in Seq(W) /\ Len(Tail(q)) = Len(q) - 1
         /\ \A i \in 1 .. Len(q) - 1 : Tail(q)[i] = q[i + 1]
OBVIOUS

LEMMA FirstChanges ==
  ASSUME NEW q \in Seq(Writes), q # <<>>, NEW state \in WriteStates,
         NEW r, r = [q EXCEPT ![1].state = state]
  PROVE  /\ r \in Seq(Writes) /\ Len(r) = Len(q) /\ r # <<>>
         /\ r[1].method = q[1].method /\ r[1].id = q[1].id
         /\ r[1].version = q[1].version /\ r[1].for = q[1].for /\ r[1].state = state
         /\ \A i \in 2 .. Len(q) : r[i] = q[i]
<1>1. q[1] \in Writes /\ Len(q) \in Nat \ {0}
  OBVIOUS
<1>2. [q[1] EXCEPT !.state = state] \in Writes
  BY <1>1 DEF Writes
<1>3. r = [q EXCEPT ![1] = [q[1] EXCEPT !.state = state]]
  OBVIOUS
<1>4. r \in Seq(Writes) /\ Len(r) = Len(q) /\ r[1] = [q[1] EXCEPT !.state = state]
      /\ \A i \in 2 .. Len(q) : r[i] = q[i]
  BY <1>1, <1>2, <1>3
<1> QED
  BY <1>1, <1>4 DEF Writes

LEMMA WriteIs ==
  ASSUME NEW method \in Methods, NEW id \in Device!Endpoints, NEW version \in Nat,
         NEW for \in Checks \cup {"act"}
  PROVE  LET w == Device!Write(method, id, version, for)
         IN  /\ w \in Writes /\ w.method = method /\ w.id = id /\ w.version = version
             /\ w.for = for /\ w.state = "waiting"
BY DEF Device!Write, Writes, WriteStates

\* A write is added for one who begins to wait.
LEMMA Added ==
  ASSUME PushInvariant, NEW w \in Writes, queue' = Append(queue, w),
         w.state = "waiting", AwaitedBy(w)', OldDeletion(w)',
         UNCHANGED <<rows, late, generation, disturbed>>,
         made' \in Nat, made <= made',
         native' # None => native' = native \/ native'.id > made,
         w.for = "act" => act.pc \notin {"bind", "unbind"},
         w.for # "act" => act' = act /\ checks[w.for].pc # "bind",
         \A s \in Checks : s # w.for =>
           /\ checks'[s].pc = checks[s].pc /\ checks'[s].version = checks[s].version
           /\ checks'[s].sub = checks[s].sub
  PROVE  /\ queue' \in Seq(Writes) /\ Waiting' /\ HeadServed' /\ DeletionsAreOld'
         /\ off # None => \A i \in 1 .. Len(queue') : queue'[i].state = "waiting"
<1>1. /\ \A i \in 1 .. Len(queue) : AwaitedBy(queue[i]) /\ queue[i] \in Writes
      /\ \A i, j \in 1 .. Len(queue) : i # j => queue[i].for # queue[j].for
      /\ \A i \in 2 .. Len(queue) : queue[i].state = "waiting"
      /\ queue \in Seq(Writes)
  BY DEF PushInvariant, Waiting, DeviceType
<1>2. /\ queue' \in Seq(Writes) /\ Len(queue) \in Nat /\ Len(queue') = Len(queue) + 1
      /\ \A i \in 1 .. Len(queue) : queue'[i] = queue[i]
      /\ queue'[Len(queue) + 1] = w
  BY <1>1, AppendIs
<1>3. \A i \in 1 .. Len(queue) : queue[i].for # w.for
  BY <1>1, WhoWaits
<1>4. \A v \in Writes : AwaitedBy(v) /\ v.for # w.for => AwaitedBy(v)'
  BY StillAwaited, WhoWaits
<1>5. Waiting'
  <2>1. \A i \in 1 .. Len(queue') : AwaitedBy(queue[i])'
    BY <1>1, <1>2, <1>3, <1>4
  <2>2. \A i, j \in 1 .. Len(queue') : i # j => queue'[i].for # queue'[j].for
    BY <1>1, <1>2, <1>3
  <2>3. \A i \in 2 .. Len(queue') : queue'[i].state = "waiting"
    BY <1>1, <1>2
  <2> QED
    BY <2>1, <2>2, <2>3 DEF Waiting
<1>6. HeadServed'
  <2>1. queue = <<>> => queue'[1].state = "waiting"
    BY <1>1, <1>2
  <2>2. queue # <<>> => queue'[1] = queue[1]
    BY <1>1, <1>2
  <2> QED
    BY <2>1, <2>2 DEF PushInvariant, HeadServed, BoundLate
<1>7. DeletionsAreOld'
  <2>1. \A v \in Writes : OldDeletion(v) => OldDeletion(v)'
    BY StaysOld DEF PushInvariant
  <2>2. late \in SUBSET Writes
    BY DEF PushInvariant, DeviceType
  <2> QED
    BY <1>1, <1>2, <2>1, <2>2 DEF PushInvariant, DeletionsAreOld
<1>8. off # None => \A i \in 1 .. Len(queue') : queue'[i].state = "waiting"
  BY <1>2 DEF PushInvariant, OffIsQuiet
<1> QED
  BY <1>2, <1>5, <1>6, <1>7, <1>8

LEMMA BindStep ==
  ASSUME Device!PushAssumption, PushInvariant, NEW s \in Checks, Device!Bind(s)
  PROVE  PushInvariant'
<1>1. DeviceType
  BY DEF PushInvariant
<1>2. CASE ~checks[s].sub.fits
  <2>1. Device!Ended(s, "false") /\ queue' = queue
    BY <1>2 DEF Device!Bind
  <2> QED
    BY <1>1, <2>1, EndedStep DEF Device!Bind, DeviceType
<1>3. CASE checks[s].sub.fits
  <2>1. checks' = [checks EXCEPT ![s].pc = "bind"] /\ page' = page
        /\ queue' = Append(queue, Device!Write("POST", checks[s].sub.id, checks[s].version, s))
    BY <1>3 DEF Device!Bind
  <2>2. /\ checks' \in [Checks -> CheckStates]
        /\ \A t \in Checks : t # s => checks'[t] = checks[t]
    <3>1. [checks[s] EXCEPT !.pc = "bind"] \in CheckStates
      BY <1>1 DEF DeviceType, CheckStates
    <3> QED
      BY <1>1, <2>1, <3>1 DEF DeviceType
  <2>3. /\ checks'[s].pc = "bind" /\ checks'[s].version = checks[s].version
        /\ checks'[s].sub = checks[s].sub
        /\ checks'[s].who = checks[s].who /\ checks'[s].latest = checks[s].latest
    BY <1>1, <2>1 DEF DeviceType, CheckStates
  <2>4. checks[s].who # None /\ CheckFits(s) /\ checks[s].pc = "key"
    BY DEF PushInvariant, ChecksFit, CheckFits, Device!Bind
  <2>5. CheckFits(s)'
    BY <2>3, <2>4 DEF Device!Bind, CheckFits, Device!device
  <2>6. ActInOrder' /\ ActAlone' /\ NativeIsMade' /\ ChecksFit' /\ EnabledIsBound'
    BY <2>1, <2>2, <2>3, <2>4, <2>5, FurtherStep DEF Device!Bind
  <2>7. checks[s].sub.id \in Device!Endpoints /\ checks[s].version \in Nat
    BY <1>1, <2>4 DEF DeviceType, CheckStates, CheckFits, Device!Subscriptions
  <2>8. PICK w \in Writes :
          /\ w = Device!Write("POST", checks[s].sub.id, checks[s].version, s)
          /\ w.method = "POST" /\ w.id = checks[s].sub.id
          /\ w.version = checks[s].version /\ w.for = s /\ w.state = "waiting"
    BY <2>7, WriteIs DEF Methods
  <2>9. AwaitedBy(w)' /\ OldDeletion(w)'
    <3>1. s # "act"
      BY Device!PushAssumption DEF Device!PushAssumption
    <3> QED
      BY <2>3, <2>8, <3>1 DEF AwaitedBy, OldDeletion
  <2>10. /\ queue' \in Seq(Writes) /\ Waiting' /\ HeadServed' /\ DeletionsAreOld'
         /\ off # None => \A i \in 1 .. Len(queue') : queue'[i].state = "waiting"
    BY <1>1, <2>1, <2>2, <2>4, <2>8, <2>9, Added, Device!PushAssumption
    DEF Device!Bind, Device!device, Device!PushAssumption, DeviceType, Device!Endpoints
  <2>11. DeviceType'
    BY <1>1, <2>1, <2>2, <2>10 DEF DeviceType, Device!device, Device!Bind
  <2>12. OffIsQuiet'
    BY <2>1, <2>10 DEF PushInvariant, OffIsQuiet, BoundLate, Device!Bind, Device!device
  <2> QED
    BY <2>6, <2>10, <2>11, <2>12 DEF PushInvariant
<1> QED
  BY <1>2, <1>3

-----------------------------------------------------------------------------
\* The button.

LEMMA PressStep ==
  ASSUME Device!PushAssumption, PushInvariant, Device!Press
  PROVE  PushInvariant'
<1>1. DeviceType
  BY DEF PushInvariant
<1>2. act.kind = None /\ act.pc = "none"
  BY Device!PushAssumption DEF PushInvariant, ActInOrder, Device!Press, Device!PushAssumption
<1>3. /\ checks' \in [Checks -> CheckStates]
      /\ \A s \in Checks :
           /\ checks'[s].who = checks[s].who /\ checks'[s].pc = checks[s].pc
           /\ checks'[s].sub = checks[s].sub /\ checks'[s].version = checks[s].version
           /\ ~checks'[s].latest
  <2>1. checks' = [s \in Checks |-> [checks[s] EXCEPT !.latest = FALSE]]
    BY DEF Device!Press, Device!Superseded
  <2>2. \A s \in Checks : checks[s] \in CheckStates
    BY <1>1 DEF DeviceType
  <2>3. \A s \in Checks : checks'[s] \in CheckStates
    BY <2>1, <2>2 DEF CheckStates
  <2> QED
    BY <2>1, <2>2, <2>3 DEF CheckStates
<1>4. events' \in Nat
  BY <1>1 DEF Device!Press, DeviceType, Device!Event
<1>5. CASE page.enabled /\ pending
  <2>1. /\ page' = [page EXCEPT !.busy = "failed"] /\ act' = act
        /\ generation' = generation /\ off' = off
    BY <1>5 DEF Device!Press
  <2>2. page' \in Pages /\ page'.busy = "failed" /\ page'.enabled = page.enabled
    BY <1>1, <2>1 DEF DeviceType, Pages
  <2>3. DeviceType'
    BY <1>1, <1>3, <1>4, <2>1, <2>2 DEF DeviceType, Device!Press, Device!device
  <2>4. ActInOrder' /\ ActAlone' /\ NativeIsMade'
    BY <1>2, <2>1, <2>2, Device!PushAssumption
    DEF PushInvariant, ActInOrder, ActAlone, NativeIsMade, Device!Press, Device!device,
        Device!PushAssumption
  <2>5. ChecksFit'
    BY <1>2, <1>3, <2>1 DEF PushInvariant, ChecksFit, CheckFits, Device!Press, Device!device
  <2>6. Waiting'
    BY <1>3, <2>1, StillWaiting DEF Device!Press
  <2>7. HeadServed' /\ DeletionsAreOld'
    BY <1>1, <2>1, WritesKept DEF Device!Press, Device!device, DeviceType, Device!Endpoints
  <2>8. EnabledIsBound' /\ OffIsQuiet'
    BY <2>1, <2>2
    DEF PushInvariant, EnabledIsBound, OffIsQuiet, BoundLate, Device!Press, Device!device
  <2> QED
    BY <2>3, <2>4, <2>5, <2>6, <2>7, <2>8 DEF PushInvariant
<1>6. CASE ~(page.enabled /\ pending)
  <2>1. /\ page' = [page EXCEPT !.busy = "acting"] /\ generation' = generation + 1
        /\ act' = [Device!Idle EXCEPT !.kind = IF page.enabled THEN "disable" ELSE "enable",
                               !.pc = "look"]
        /\ off' = IF page.enabled THEN off ELSE None
    BY <1>6 DEF Device!Press
  <2>2. page' \in Pages /\ page'.busy = "acting" /\ page'.enabled = page.enabled
    BY <1>1, <2>1 DEF DeviceType, Pages
  <2>3. /\ act' \in ActStates /\ act'.pc = "look"
        /\ act'.kind = IF page.enabled THEN "disable" ELSE "enable"
    BY <2>1, IdleIs DEF ActStates
  <2>4. off' = None
    BY <2>1 DEF PushInvariant, OffIsQuiet
  <2>5. DeviceType'
    BY <1>1, <1>3, <1>4, <2>1, <2>2, <2>3, <2>4 DEF DeviceType, Device!Press, Device!device
  <2>6. ActInOrder' /\ ActAlone' /\ NativeIsMade'
    BY <1>6, <2>2, <2>3, <2>4, Device!PushAssumption
    DEF PushInvariant, ActInOrder, ActAlone, NativeIsMade, Device!Press, Device!device,
        Device!PushAssumption
  <2>7. ChecksFit'
    BY <1>1, <1>2, <1>3, <2>1, <2>4
    DEF PushInvariant, ChecksFit, CheckFits, Device!Press, Device!device, DeviceType,
        CheckStates
  <2>8. Waiting'
    BY <1>2, <1>3, StillWaiting DEF Device!Press
  <2>9. queue # <<>> => queue[1].version # generation'
    <3>1. queue # <<>> => queue[1] \in Writes /\ AwaitedBy(queue[1])
      BY <1>1, TailIs DEF PushInvariant, Waiting, DeviceType
    <3>2. \A s \in Checks : checks[s].pc = "bind" => checks[s].version <= generation
      BY DEF PushInvariant, ChecksFit, CheckFits
    <3>3. queue # <<>> => queue[1].for \in Checks /\ AwaitedBy(queue[1])
      BY <1>2, <3>1 DEF AwaitedBy, Writes, Methods
    <3>4. \A s \in Checks : s # "act"
      BY Device!PushAssumption DEF Device!PushAssumption
    <3>5. queue # <<>> => queue[1].version <= generation
      BY <3>2, <3>3, <3>4 DEF AwaitedBy
    <3> QED
      BY <1>1, <2>1, <3>5 DEF DeviceType
  <2>10. HeadServed' /\ DeletionsAreOld'
    BY <1>1, <2>9, WritesKept DEF Device!Press, Device!device, DeviceType, Device!Endpoints
  <2>11. EnabledIsBound' /\ OffIsQuiet'
    BY <2>2, <2>4 DEF PushInvariant, EnabledIsBound, OffIsQuiet, Device!Press, Device!device
  <2> QED
    BY <2>5, <2>6, <2>7, <2>8, <2>10, <2>11 DEF PushInvariant
<1> QED
  BY <1>5, <1>6

LEMMA AfterFailureStep ==
  ASSUME Device!PushAssumption, PushInvariant, Device!AfterFailure
  PROVE  PushInvariant'
<1>1. DeviceType
  BY DEF PushInvariant
<1>2. /\ page' \in Pages /\ page'.busy = "no"
      /\ page'.enabled = (page.enabled /\ native # None)
  BY <1>1 DEF Device!AfterFailure, DeviceType, Pages
<1>3. DeviceType'
  BY <1>1, <1>2 DEF DeviceType, Device!AfterFailure, Device!device
<1>4. ActInOrder' /\ ActAlone' /\ NativeIsMade'
  BY <1>2 DEF PushInvariant, ActInOrder, ActAlone, NativeIsMade, Device!AfterFailure,
     Device!device
<1>5. ChecksFit'
  BY DEF PushInvariant, ChecksFit, CheckFits, Device!AfterFailure, Device!device
<1>6. Waiting'
  BY StillWaiting DEF Device!AfterFailure
<1>7. HeadServed' /\ DeletionsAreOld'
  BY <1>1, WritesKept DEF Device!AfterFailure, Device!device, DeviceType, Device!Endpoints
<1>8. EnabledIsBound' /\ OffIsQuiet'
  BY <1>2 DEF PushInvariant, EnabledIsBound, OffIsQuiet, BoundLate, Device!AfterFailure,
     Device!device
<1> QED
  BY <1>3, <1>4, <1>5, <1>6, <1>7, <1>8 DEF PushInvariant

\* An action that ends before it has asked for a binding.
LEMMA ActEndsStep ==
  ASSUME Device!PushAssumption, PushInvariant, NEW ok \in BOOLEAN, Device!Acted(ok),
         act.kind # None, act.pc \notin {"bind", "unbind"},
         ok => act.kind = "disable",
         UNCHANGED <<native, made, rows, generation, queue, late, checks, off, disturbed>>,
         pending' \in BOOLEAN, pending' => pending, events' \in Nat
  PROVE  PushInvariant'
<1>1. DeviceType
  BY DEF PushInvariant
<1>2. /\ act' \in ActStates /\ act'.kind = None /\ act'.pc = "none"
      /\ page' \in Pages /\ page'.busy = (IF ok THEN "no" ELSE "failed")
      /\ page'.enabled = (IF ok THEN act.kind = "enable" ELSE page.enabled)
  BY <1>1, ActedEnds
<1>3. off = None
  BY DEF PushInvariant, ActAlone
<1>4. DeviceType'
  BY <1>1, <1>2 DEF DeviceType
<1>5. ActInOrder' /\ ActAlone' /\ NativeIsMade'
  BY <1>2, Device!PushAssumption
  DEF PushInvariant, ActInOrder, ActAlone, NativeIsMade, Device!PushAssumption
<1>6. ChecksFit'
  BY <1>2, <1>3 DEF PushInvariant, ChecksFit, CheckFits
<1>7. Waiting'
  BY StillWaiting
<1>8. HeadServed' /\ DeletionsAreOld'
  BY <1>1, WritesKept DEF DeviceType, Device!Endpoints
<1>9. EnabledIsBound' /\ OffIsQuiet'
  BY <1>2, <1>3 DEF PushInvariant, EnabledIsBound, OffIsQuiet
<1> QED
  BY <1>4, <1>5, <1>6, <1>7, <1>8, <1>9 DEF PushInvariant

LEMMA ActFailsStep ==
  ASSUME Device!PushAssumption, PushInvariant, Device!ActFails
  PROVE  PushInvariant'
<1>1. events' \in Nat /\ pending \in BOOLEAN
  BY DEF PushInvariant, DeviceType, Device!ActFails, Device!Event
<1>2. act.kind # None
  BY DEF PushInvariant, ActInOrder, Device!ActFails
<1> QED
  BY <1>1, <1>2, ActEndsStep DEF Device!ActFails, Device!device

\* An action goes one step further, and so do the native calls.
LEMMA ActGoesOn ==
  ASSUME Device!PushAssumption, PushInvariant, act.kind # None, act.pc \notin {"bind",
         "unbind"},
         act' \in ActStates, act'.kind = act.kind, act'.pc \notin {"bind", "unbind"},
         ActInOrder',
         UNCHANGED <<native, made, rows, generation, queue, late, checks, page, off,
                     disturbed, events>>,
         pending' \in BOOLEAN, pending' = pending \/ act.kind = "enable"
  PROVE  PushInvariant'
<1>1. DeviceType
  BY DEF PushInvariant
<1>2. DeviceType'
  BY <1>1 DEF DeviceType
<1>3. ActAlone' /\ NativeIsMade' /\ ChecksFit' /\ EnabledIsBound' /\ OffIsQuiet'
  BY DEF PushInvariant, ActAlone, NativeIsMade, ChecksFit, CheckFits, EnabledIsBound,
         OffIsQuiet
<1>4. Waiting'
  BY StillWaiting
<1>5. HeadServed' /\ DeletionsAreOld'
  BY <1>1, WritesKept DEF DeviceType, Device!Endpoints
<1> QED
  BY <1>2, <1>3, <1>4, <1>5 DEF PushInvariant

LEMMA SubscribeStep ==
  ASSUME Device!PushAssumption, PushInvariant, Device!Subscribe
  PROVE  PushInvariant'
<1>1. act.kind = "enable"
  BY Device!PushAssumption
  DEF PushInvariant, DeviceType, ActStates, ActInOrder, Device!Subscribe,
      Device!PushAssumption
<1>2. act' \in ActStates /\ act'.kind = act.kind /\ act'.pc = "await"
  BY DEF PushInvariant, DeviceType, ActStates, Device!Subscribe
<1>3. ActInOrder'
  BY <1>1, <1>2, Device!PushAssumption DEF PushInvariant, ActInOrder, Device!Subscribe,
     Device!PushAssumption
<1> QED
  BY <1>1, <1>2, <1>3, ActGoesOn, Device!PushAssumption DEF Device!Subscribe,
     Device!PushAssumption

LEMMA NotSubscribedStep ==
  ASSUME Device!PushAssumption, PushInvariant, Device!NotSubscribed
  PROVE  PushInvariant'
<1>1. DeviceType /\ events' \in Nat
  BY DEF PushInvariant, DeviceType, Device!NotSubscribed, Device!Event
<1>2. CASE act.pc = "await"
  <2>1. act.kind # None /\ Device!Acted(FALSE)
    BY <1>2 DEF PushInvariant, ActInOrder, Device!NotSubscribed
  <2> QED
    BY <1>1, <1>2, <2>1, ActEndsStep DEF Device!NotSubscribed
<1>3. CASE act.pc # "await"
  <2>1. act' = act /\ page' = page
    BY <1>3 DEF Device!NotSubscribed
  <2>2. DeviceType'
    BY <1>1, <2>1 DEF DeviceType, Device!NotSubscribed
  <2>3. /\ ActInOrder' /\ ActAlone' /\ NativeIsMade' /\ ChecksFit' /\ EnabledIsBound'
        /\ OffIsQuiet'
    BY <2>1
    DEF PushInvariant, ActInOrder, ActAlone, NativeIsMade, ChecksFit, CheckFits,
        EnabledIsBound, OffIsQuiet, BoundLate, Device!NotSubscribed
  <2>4. Waiting'
    BY <2>1, StillWaiting DEF Device!NotSubscribed
  <2>5. HeadServed' /\ DeletionsAreOld'
    BY <1>1, WritesKept DEF Device!NotSubscribed, DeviceType, Device!Endpoints
  <2> QED
    BY <2>2, <2>3, <2>4, <2>5 DEF PushInvariant
<1> QED
  BY <1>2, <1>3

LEMMA DisableLooksStep ==
  ASSUME Device!PushAssumption, PushInvariant, Device!DisableLooks
  PROVE  PushInvariant'
<1>1. DeviceType /\ act.kind # None
  BY Device!PushAssumption DEF PushInvariant, Device!DisableLooks, Device!PushAssumption
<1>2. CASE native = None
  BY <1>1, <1>2, ActEndsStep DEF Device!DisableLooks, Device!device, DeviceType
<1>3. CASE native # None
  <2>1. act' = [act EXCEPT !.pc = "remove", !.sub = native] /\ page' = page
    BY <1>3 DEF Device!DisableLooks
  <2>2. /\ act' \in ActStates /\ act'.kind = act.kind /\ act'.pc = "remove"
        /\ act'.sub = native
    BY <1>1, <2>1 DEF DeviceType, ActStates
  <2>3. ActInOrder'
    BY <1>1, <1>3, <2>1, <2>2
    DEF PushInvariant, ActInOrder, NativeIsMade, Device!DisableLooks, Device!device
  <2> QED
    BY <1>1, <2>1, <2>2, <2>3, ActGoesOn DEF Device!DisableLooks, Device!device, DeviceType
<1> QED
  BY <1>2, <1>3

-----------------------------------------------------------------------------
\* The native calls, and what changes by itself.

\* An action asks for a binding, or for its removal, and waits.
LEMMA ActAsks ==
  ASSUME Device!PushAssumption, PushInvariant, act.kind # None, act.pc \notin {"bind",
         "unbind"},
         NEW method \in Methods, NEW sub \in Device!Subscriptions,
         act' = [act EXCEPT !.pc = IF method = "POST" THEN "bind" ELSE "unbind",
                            !.sub = sub],
         queue' = Append(queue, Device!Write(method, sub.id, generation, "act")),
         native' = (IF method = "POST" THEN sub ELSE None),
         native' # None => native' = native \/ native'.id > made,
         method = "POST" => act.kind = "enable",
         made' \in Device!Endpoints, made <= made', sub.id <= made',
         pending' \in BOOLEAN, pending' => pending,
         UNCHANGED <<rows, generation, late, checks, page, off, disturbed, events>>
  PROVE  PushInvariant'
<1>1. DeviceType /\ off = None /\ sub.id \in Device!Endpoints /\ None \notin Device!Subscriptions
  BY Device!PushAssumption DEF PushInvariant, ActAlone, Device!Subscriptions,
     Device!PushAssumption
<1>2. /\ act' \in ActStates /\ act'.kind = act.kind /\ act'.sub = sub
      /\ act'.pc = (IF method = "POST" THEN "bind" ELSE "unbind")
  BY <1>1 DEF DeviceType, ActStates
<1>3. PICK w \in Writes :
        /\ w = Device!Write(method, sub.id, generation, "act") /\ w.method = method
        /\ w.id = sub.id /\ w.version = generation /\ w.for = "act" /\ w.state = "waiting"
  BY <1>1, WriteIs DEF DeviceType
<1>4. AwaitedBy(w)' /\ OldDeletion(w)'
  BY <1>1, <1>2, <1>3 DEF AwaitedBy, OldDeletion, Methods
<1>5. /\ queue' \in Seq(Writes) /\ Waiting' /\ HeadServed' /\ DeletionsAreOld'
  BY <1>1, <1>3, <1>4, Added DEF DeviceType, Device!Endpoints
<1>6. DeviceType'
  BY <1>1, <1>2, <1>5 DEF DeviceType
<1>7. ActInOrder'
  BY <1>1, <1>2, Device!PushAssumption DEF PushInvariant, ActInOrder, Methods,
     Device!PushAssumption
<1>8. ActAlone' /\ NativeIsMade' /\ EnabledIsBound'
  BY <1>1, <1>2, Device!PushAssumption
  DEF PushInvariant, DeviceType, ActStates, ActAlone, NativeIsMade, EnabledIsBound, Methods,
      ActInOrder, Device!PushAssumption
<1>9. ChecksFit' /\ OffIsQuiet'
  BY <1>1, <1>2 DEF PushInvariant, ChecksFit, CheckFits, OffIsQuiet, DeviceType, CheckStates
<1> QED
  BY <1>5, <1>6, <1>7, <1>8, <1>9 DEF PushInvariant

LEMMA EnrollLooksStep ==
  ASSUME Device!PushAssumption, PushInvariant, Device!EnrollLooks
  PROVE  PushInvariant'
<1>1. DeviceType /\ act.kind # None
  BY Device!PushAssumption DEF PushInvariant, Device!EnrollLooks, Device!PushAssumption
<1>2. CASE act' = [act EXCEPT !.pc = "subscribe"] /\ queue' = queue
  <2>1. act' \in ActStates /\ act'.kind = act.kind /\ act'.pc = "subscribe"
    BY <1>1, <1>2 DEF DeviceType, ActStates
  <2>2. ActInOrder'
    BY <1>1, <2>1, Device!PushAssumption
    DEF PushInvariant, ActInOrder, Device!EnrollLooks, Device!device, Device!PushAssumption
  <2> QED
    BY <1>1, <1>2, <2>1, <2>2, ActGoesOn DEF Device!EnrollLooks, Device!device, DeviceType
<1>3. CASE /\ native # None /\ act' = [act EXCEPT !.pc = "replace", !.sub = native]
           /\ queue' = queue
  <2>1. /\ act' \in ActStates /\ act'.kind = act.kind /\ act'.pc = "replace"
        /\ act'.sub = native
    BY <1>1, <1>3 DEF DeviceType, ActStates
  <2>2. ActInOrder'
    BY <1>1, <1>3, <2>1, Device!PushAssumption
    DEF PushInvariant, ActInOrder, NativeIsMade, Device!EnrollLooks, Device!device,
        Device!PushAssumption
  <2> QED
    BY <1>1, <1>3, <2>1, <2>2, ActGoesOn DEF Device!EnrollLooks, Device!device, DeviceType
<1>4. CASE /\ native # None /\ act' = [act EXCEPT !.pc = "bind", !.sub = native]
           /\ queue' = Append(queue, Device!Write("POST", native.id, generation, "act"))
  <2>1. native \in Device!Subscriptions /\ native.id <= made /\ made \in Nat
    BY <1>1, <1>4 DEF PushInvariant, NativeIsMade, DeviceType, Device!Endpoints
  <2>2. PICK sub \in Device!Subscriptions : sub = native
    BY <2>1
  <2>3. /\ act' = [act EXCEPT !.pc = "bind", !.sub = sub] /\ native' = sub
        /\ queue' = Append(queue, Device!Write("POST", sub.id, generation, "act"))
        /\ act.kind = "enable" /\ act.pc = "look" /\ UNCHANGED <<made, pending>>
        /\ UNCHANGED <<rows, generation, late, checks, page, off, disturbed, events>>
    BY <1>4, <2>2 DEF Device!EnrollLooks, Device!device
  <2>4. "POST" \in Methods
    BY DEF Methods
  <2>5. made' \in Device!Endpoints /\ made <= made' /\ sub.id <= made' /\ pending' \in BOOLEAN
    BY <1>1, <2>1, <2>2, <2>3 DEF DeviceType
  <2> QED
    BY <1>1, <2>2, <2>3, <2>4, <2>5, ActAsks
<1> QED
  BY <1>2, <1>3, <1>4 DEF Device!EnrollLooks

LEMMA UnsubscribeStep ==
  ASSUME Device!PushAssumption, PushInvariant, Device!Unsubscribe
  PROVE  PushInvariant'
<1>1. /\ DeviceType /\ act.kind # None /\ act.pc \in {"replace", "remove"}
      /\ act.sub \in Device!Subscriptions /\ act.sub.id <= made /\ made \in Nat
  BY DEF PushInvariant, ActInOrder, Device!Unsubscribe, DeviceType, ActStates,
     Device!Endpoints
<1>2. act' = [act EXCEPT !.pc = "unbind", !.sub = act.sub]
  <2>1. act' = [act EXCEPT !.pc = "unbind"]
    BY DEF Device!Unsubscribe
  <2> QED
    BY <1>1, <2>1 DEF DeviceType, ActStates
<1>3. PICK sub \in Device!Subscriptions : sub = act.sub
  BY <1>1
<1>4. /\ act' = [act EXCEPT !.pc = "unbind", !.sub = sub] /\ native' = None
      /\ queue' = Append(queue, Device!Write("DELETE", sub.id, generation, "act"))
      /\ act.pc \notin {"bind", "unbind"} /\ UNCHANGED <<made, pending>>
      /\ UNCHANGED <<rows, generation, late, checks, page, off, disturbed, events>>
  BY <1>1, <1>2, <1>3 DEF Device!Unsubscribe
<1>5. "DELETE" \in Methods /\ "DELETE" # "POST"
  BY DEF Methods
<1>6. made' \in Device!Endpoints /\ made <= made' /\ sub.id <= made' /\ pending' \in BOOLEAN
  BY <1>1, <1>3, <1>4 DEF DeviceType
<1> QED
  BY <1>1, <1>3, <1>4, <1>5, <1>6, ActAsks

LEMMA SubscribedStep ==
  ASSUME Device!PushAssumption, PushInvariant, Device!Subscribed
  PROVE  PushInvariant'
<1>1. DeviceType /\ pending /\ pending' = FALSE
  BY DEF PushInvariant, Device!Subscribed
<1>2. /\ native' \in Device!Subscriptions /\ native'.id <= made' /\ made' \in Device!Endpoints
      /\ made <= made' /\ made \in Nat /\ made' \in Nat
      /\ native # None => native' = native
      /\ native = None => native'.id > made
  <2>1. CASE native # None
    BY <1>1, <2>1 DEF PushInvariant, NativeIsMade, Device!Subscribed, DeviceType,
       Device!Endpoints
  <2>2. CASE native = None
    <3>1. made' = made + 1 /\ native' = [id |-> made + 1, fits |-> TRUE]
          /\ made < MaxEndpoints
      BY <2>2 DEF Device!Subscribed
    <3>2. made + 1 \in Device!Endpoints /\ made \in Nat
      BY <1>1, <3>1, Device!PushAssumption DEF DeviceType, Device!Endpoints,
         Device!PushAssumption
    <3> QED
      BY <2>2, <3>1, <3>2 DEF Device!Subscriptions
  <2> QED
    BY <2>1, <2>2
<1>3. CASE act.pc = "await"
  <2>1. /\ act' = [act EXCEPT !.pc = "bind", !.sub = native']
        /\ queue' = Append(queue, Device!Write("POST", native'.id, generation, "act"))
    BY <1>3 DEF Device!Subscribed
  <2>2. act.kind = "enable" /\ act.kind # None
    BY <1>1, <1>3, Device!PushAssumption
    DEF PushInvariant, ActInOrder, DeviceType, ActStates, Device!PushAssumption
  <2>3. PICK sub \in Device!Subscriptions : sub = native'
    BY <1>2
  <2> QED
    BY <1>1, <1>2, <1>3, <2>1, <2>2, <2>3, ActAsks DEF Device!Subscribed, Methods
<1>4. CASE act.pc # "await"
  <2>1. act' = act /\ queue' = queue
    BY <1>4 DEF Device!Subscribed
  <2>2. off = None /\ act.kind # "disable"
    BY <1>1 DEF PushInvariant, OffIsQuiet, ActAlone
  <2>3. DeviceType'
    BY <1>1, <1>2, <2>1 DEF DeviceType, Device!Subscribed
  <2>4. ActInOrder' /\ ActAlone' /\ NativeIsMade'
    BY <1>1, <1>2, <2>1, <2>2
    DEF PushInvariant, ActInOrder, ActAlone, NativeIsMade, Device!Subscribed, DeviceType,
        ActStates,
        Device!Subscriptions, Device!Endpoints
  <2>5. ChecksFit'
    BY <1>2, <2>1, <2>2 DEF PushInvariant, ChecksFit, CheckFits, Device!Subscribed
  <2>6. Waiting'
    BY <2>1, StillWaiting DEF Device!Subscribed
  <2>7. HeadServed' /\ DeletionsAreOld'
    BY <1>1, <1>2, <2>1, WritesKept DEF Device!Subscribed
  <2>8. EnabledIsBound' /\ OffIsQuiet'
    BY <1>1, <1>2, <2>1, <2>2 DEF PushInvariant, EnabledIsBound, OffIsQuiet, Device!Subscribed
  <2> QED
    BY <2>3, <2>4, <2>5, <2>6, <2>7, <2>8 DEF PushInvariant
<1> QED
  BY <1>3, <1>4

LEMMA DisturbStep ==
  ASSUME Device!PushAssumption, PushInvariant, Device!Disturb
  PROVE  PushInvariant'
<1>1. DeviceType /\ act.kind = None /\ disturbed' = TRUE /\ events' \in Nat
  BY DEF PushInvariant, Device!Disturb, DeviceType, Device!Event
<1>2. /\ native' \in Device!Subscriptions \cup {None} /\ made' \in Device!Endpoints /\ made <= made'
      /\ made \in Nat /\ made' \in Nat /\ rows' \in SUBSET rows
      /\ native' # None =>
           /\ native # None /\ native'.id <= made'
           /\ native' = native \/ native'.id > made
  <2>1. CASE native # None /\ native' = None /\ UNCHANGED <<made, rows>>
    BY <1>1, <2>1 DEF DeviceType, Device!Endpoints
  <2>2. CASE /\ native # None /\ made < MaxEndpoints /\ made' = made + 1
             /\ native' = [native EXCEPT !.id = made + 1] /\ UNCHANGED rows
    <3>1. made + 1 \in Device!Endpoints /\ made \in Nat /\ native \in Device!Subscriptions
      BY <1>1, <2>2, Device!PushAssumption DEF DeviceType, Device!Endpoints,
         Device!PushAssumption
    <3>2. native' \in Device!Subscriptions /\ native'.id = made + 1
      BY <2>2, <3>1 DEF Device!Subscriptions
    <3> QED
      BY <2>2, <3>1, <3>2
  <2>3. CASE rows # {} /\ rows' = {} /\ UNCHANGED <<native, made>>
    BY <1>1, <2>3 DEF PushInvariant, NativeIsMade, DeviceType, Device!Endpoints
  <2> QED
    BY <2>1, <2>2, <2>3 DEF Device!Disturb
<1>3. DeviceType'
  BY <1>1, <1>2 DEF DeviceType, Device!Disturb
<1>4. ActInOrder' /\ ActAlone' /\ NativeIsMade'
  BY <1>1, <1>2, Device!PushAssumption
  DEF PushInvariant, ActInOrder, ActAlone, NativeIsMade, Device!Disturb, Device!PushAssumption
<1>5. ChecksFit'
  BY <1>1, <1>2 DEF PushInvariant, ChecksFit, CheckFits, Device!Disturb
<1>6. Waiting'
  BY StillWaiting DEF Device!Disturb
<1>7. HeadServed'
  BY <1>1, <1>2 DEF PushInvariant, HeadServed, BoundLate, Device!Disturb
<1>8. DeletionsAreOld'
  <2>1. \A w \in Writes : OldDeletion(w) => OldDeletion(w)'
    BY <1>1, <1>2, StaysOld
  <2>2. \A i \in 1 .. Len(queue) : queue[i] \in Writes
    BY <1>1 DEF DeviceType
  <2> QED
    BY <1>1, <2>1, <2>2 DEF PushInvariant, DeletionsAreOld, DeviceType, Device!Disturb
<1>9. EnabledIsBound' /\ OffIsQuiet'
  BY <1>1, <1>2 DEF PushInvariant, EnabledIsBound, OffIsQuiet, BoundLate, Device!Disturb
<1> QED
  BY <1>3, <1>4, <1>5, <1>6, <1>7, <1>8, <1>9 DEF PushInvariant

-----------------------------------------------------------------------------
\* The writes are sent, executed and answered.

\* The first write leaves the queue, and the next one has not been sent.
LEMMA Removed ==
  ASSUME PushInvariant, queue # <<>>, queue' = Tail(queue),
         UNCHANGED <<native, made, rows, generation, disturbed>>,
         late' \in SUBSET (late \cup {queue[1]}),
         queue[1].for # "act" => act' = act,
         \A s \in Checks : s # queue[1].for =>
           /\ checks'[s].pc = checks[s].pc /\ checks'[s].version = checks[s].version
           /\ checks'[s].sub = checks[s].sub
  PROVE  /\ queue' \in Seq(Writes) /\ Waiting' /\ HeadServed' /\ DeletionsAreOld'
         /\ \A i \in 1 .. Len(queue') : queue'[i].state = "waiting"
<1>1. /\ \A i \in 1 .. Len(queue) : AwaitedBy(queue[i]) /\ OldDeletion(queue[i])
      /\ \A i, j \in 1 .. Len(queue) : i # j => queue[i].for # queue[j].for
      /\ \A i \in 2 .. Len(queue) : queue[i].state = "waiting"
      /\ queue \in Seq(Writes) /\ DeviceType
  BY DEF PushInvariant, Waiting, DeviceType, DeletionsAreOld
<1>2. /\ queue' \in Seq(Writes) /\ Len(queue') = Len(queue) - 1 /\ Len(queue) \in Nat \ {0}
      /\ \A i \in 1 .. Len(queue) - 1 : queue'[i] = queue[i + 1]
  BY <1>1, TailIs
<1>3. PICK head \in Writes : head = queue[1]
  BY <1>1, <1>2
<1>4. \A v \in Writes : AwaitedBy(v) /\ v.for # head.for => AwaitedBy(v)'
  BY <1>3, StillAwaited, WhoWaits
<1>5. \A i \in 1 .. Len(queue') :
        /\ queue'[i] \in Writes /\ queue'[i].state = "waiting" /\ queue'[i].for # head.for
        /\ AwaitedBy(queue[i])' /\ OldDeletion(queue[i])'
  <2>1. \A i \in 1 .. Len(queue') : \E v \in Writes :
          /\ v = queue'[i] /\ v.state = "waiting" /\ v.for # head.for
          /\ AwaitedBy(v) /\ OldDeletion(v)
    BY <1>1, <1>2, <1>3
  <2>2. \A v \in Writes : OldDeletion(v) => OldDeletion(v)'
    BY DEF OldDeletion
  <2> QED
    BY <2>1, <2>2, <1>4
<1>6. \A i, j \in 1 .. Len(queue') : i # j => queue'[i].for # queue'[j].for
  BY <1>1, <1>2
<1>7. Waiting'
  <2>1. Len(queue') \in Nat
    BY <1>2
  <2>2. \A i \in 2 .. Len(queue') : queue'[i].state = "waiting"
    BY <1>5, <2>1
  <2> QED
    BY <1>5, <1>6, <2>2 DEF Waiting
<1>8. HeadServed'
  <2>1. queue' # <<>> => Len(queue') \in Nat \ {0}
    BY <1>2, TailIs
  <2>2. queue' # <<>> => 1 \in 1 .. Len(queue')
    BY <2>1
  <2>3. queue' # <<>> => queue'[1].state = "waiting"
    BY <1>5, <2>2
  <2> QED
    BY <2>3 DEF HeadServed
<1>9. DeletionsAreOld'
  <2>1. \A v \in late \cup {head} : OldDeletion(v)
    BY <1>1, <1>2, <1>3 DEF PushInvariant, DeletionsAreOld
  <2>2. \A v \in late' : OldDeletion(v)'
    BY <1>3, <2>1 DEF OldDeletion
  <2> QED
    BY <1>5, <2>2 DEF DeletionsAreOld
<1> QED
  BY <1>2, <1>5, <1>7, <1>8, <1>9

\* The answer to a check.
LEMMA CheckTold ==
  ASSUME Device!PushAssumption, PushInvariant, queue # <<>>, queue' = Tail(queue),
         queue[1].for # "act", NEW result, Device!Told(queue[1], result),
         UNCHANGED <<Device!device, rows, generation, disturbed>>, events' \in Nat,
         late' = late \/ late' = late \cup {queue[1]},
         result = "true" => queue[1].state = "served" /\ queue[1].version = generation
  PROVE  PushInvariant'
<1>1. /\ DeviceType /\ queue[1] \in Writes /\ AwaitedBy(queue[1]) /\ Len(queue) \in Nat \ {0}
  BY TailIs DEF PushInvariant, Waiting, DeviceType
<1>2. PICK s \in Checks : s = queue[1].for
  BY <1>1 DEF Writes
<1>3. Device!Ended(s, result) /\ act' = act /\ off' = off
  BY <1>2 DEF Device!Told
<1>4. /\ checks[s].pc = "bind" /\ queue[1].method = "POST"
      /\ queue[1].version = checks[s].version /\ queue[1].id = checks[s].sub.id
  BY <1>1, <1>2 DEF AwaitedBy
<1>5. result = "true" => off = None /\ (~disturbed => native # None /\ native.id \in rows)
  <2> SUFFICES ASSUME result = "true"
               PROVE  off = None /\ (~disturbed => native # None /\ native.id \in rows)
    OBVIOUS
  <2>1. off = None
    BY <1>1 DEF PushInvariant, OffIsQuiet
  <2>2. ~disturbed => queue[1].id \in rows
    BY <1>4 DEF PushInvariant, HeadServed
  <2>3. ~disturbed => native = checks[s].sub /\ checks[s].sub # None
    BY <1>4 DEF PushInvariant, ChecksFit, CheckFits
  <2> QED
    BY <1>4, <2>1, <2>2, <2>3
<1>6. /\ checks' \in [Checks -> CheckStates] /\ page' \in Pages
      /\ ActInOrder' /\ ActAlone' /\ NativeIsMade' /\ ChecksFit' /\ EnabledIsBound'
      /\ off # None => ~page'.enabled
  BY <1>3, <1>5, EndedInOrder
<1>7. /\ queue' \in Seq(Writes) /\ Waiting' /\ HeadServed' /\ DeletionsAreOld'
      /\ \A i \in 1 .. Len(queue') : queue'[i].state = "waiting"
  BY <1>1, <1>2, <1>3, EndedCheck, Removed DEF Device!device
<1>8. DeviceType'
  BY <1>1, <1>3, <1>6, <1>7 DEF DeviceType, Device!device
<1>9. OffIsQuiet'
  BY <1>3, <1>6, <1>7 DEF PushInvariant, OffIsQuiet, BoundLate, Device!device
<1> QED
  BY <1>6, <1>7, <1>8, <1>9 DEF PushInvariant

\* The answer to an action: the first write of an enrollment that replaces a
\* subscription lets it go on, any other ends the action.
LEMMA ActTold ==
  ASSUME Device!PushAssumption, PushInvariant, queue # <<>>, queue' = Tail(queue),
         queue[1].for = "act", NEW result, Device!Told(queue[1], result),
         UNCHANGED <<Device!device, rows, generation, disturbed>>, events' \in Nat,
         late' = late \/ late' = late \cup {queue[1]},
         result \in {"true", "failed"}, result = "true" => queue[1].state = "served"
  PROVE  PushInvariant'
<1>1. /\ DeviceType /\ queue[1] \in Writes /\ AwaitedBy(queue[1]) /\ Len(queue) \in Nat \ {0}
  BY TailIs DEF PushInvariant, Waiting, DeviceType
<1>2. /\ act.pc = (IF queue[1].method = "POST" THEN "bind" ELSE "unbind")
      /\ queue[1].version = generation /\ queue[1].id = act.sub.id
      /\ queue[1].method \in Methods /\ queue[1].id \in Device!Endpoints
  BY <1>1 DEF AwaitedBy, Writes
<1>3. act.kind \in {"enable", "disable"} /\ act.kind # None /\ off = None
  BY <1>1, <1>2, Device!PushAssumption
  DEF PushInvariant, ActInOrder, ActAlone, DeviceType, ActStates, Device!PushAssumption
<1>4. checks' = checks
  BY DEF Device!Told
<1>5. /\ queue' \in Seq(Writes) /\ Waiting' /\ HeadServed' /\ DeletionsAreOld'
      /\ \A i \in 1 .. Len(queue') : queue'[i].state = "waiting"
  BY <1>4, Removed DEF Device!device
<1>6. CASE act.kind = "enable" /\ act.pc = "unbind" /\ result # "failed"
  <2>1. act' = [act EXCEPT !.pc = "subscribe"] /\ page' = page /\ off' = off
    BY <1>6 DEF Device!Told
  <2>2. act' \in ActStates /\ act'.kind = "enable" /\ act'.pc = "subscribe"
    BY <1>1, <1>6, <2>1 DEF DeviceType, ActStates
  <2>3. DeviceType'
    BY <1>1, <1>4, <1>5, <2>1, <2>2 DEF DeviceType, Device!device
  <2>4. /\ ActInOrder' /\ ActAlone' /\ NativeIsMade' /\ ChecksFit' /\ EnabledIsBound'
        /\ OffIsQuiet'
    BY <1>3, <1>4, <1>6, <2>1, <2>2, Device!PushAssumption
    DEF PushInvariant, ActInOrder, ActAlone, NativeIsMade, ChecksFit, CheckFits,
        EnabledIsBound, OffIsQuiet, Device!device, Device!PushAssumption
  <2> QED
    BY <1>5, <2>3, <2>4 DEF PushInvariant
<1>7. CASE ~(act.kind = "enable" /\ act.pc = "unbind" /\ result # "failed")
  <2>1. PICK ok \in BOOLEAN :
          /\ ok = (IF act.kind = "enable" THEN result = "true" ELSE result # "failed")
          /\ Device!Acted(ok)
    BY <1>7 DEF Device!Told
  <2>2. /\ act' \in ActStates /\ act'.kind = None /\ act'.pc = "none"
        /\ page' \in Pages /\ page'.busy = (IF ok THEN "no" ELSE "failed")
        /\ page'.enabled = (IF ok THEN act.kind = "enable" ELSE page.enabled)
    BY <1>1, <2>1, ActedEnds
  <2>3. off' = IF act.kind = "disable" /\ ok THEN queue[1].id ELSE None
    BY <1>3, <2>1 DEF Device!Told
  <2>4. DeviceType'
    BY <1>1, <1>2, <1>4, <1>5, <2>2, <2>3 DEF DeviceType, Device!device
  <2>5. ActInOrder' /\ ActAlone' /\ NativeIsMade'
    BY <2>2, Device!PushAssumption
    DEF PushInvariant, ActInOrder, ActAlone, NativeIsMade, Device!device,
        Device!PushAssumption
  <2>6. ChecksFit'
    BY <1>1, <1>3, <1>4, <2>2
    DEF PushInvariant, ChecksFit, CheckFits, Device!device, DeviceType, CheckStates
  <2>7. ok /\ act.kind = "enable" =>
          native # None /\ (~disturbed => native.id \in rows)
    <3>1. ok /\ act.kind = "enable" => act.pc = "bind" /\ queue[1].method = "POST"
      BY <1>2, <1>7, <2>1 DEF Methods
    <3> QED
      BY <1>2, <2>1, <3>1 DEF PushInvariant, ActInOrder, HeadServed
  <2>8. ok /\ act.kind = "disable" =>
          /\ native = None /\ ~pending
          /\ queue[1].id \in rows => BoundLate(queue[1].id)
    <3>1. act.kind = "disable" => act.pc = "unbind" /\ queue[1].method = "DELETE"
      BY <1>2 DEF PushInvariant, ActInOrder, Methods
    <3> QED
      BY <2>1, <3>1 DEF PushInvariant, ActAlone, HeadServed
  <2>9. EnabledIsBound'
    BY <1>3, <2>2, <2>7 DEF PushInvariant, EnabledIsBound, Device!device
  <2>10. OffIsQuiet'
    BY <1>3, <1>5, <2>2, <2>3, <2>8, Device!PushAssumption
    DEF OffIsQuiet, BoundLate, Device!device, Device!PushAssumption
  <2> QED
    BY <1>5, <2>4, <2>5, <2>6, <2>9, <2>10 DEF PushInvariant
<1> QED
  BY <1>6, <1>7

\* The first write goes one step further: the queue waits as before.
LEMMA FirstGoesOn ==
  ASSUME Device!PushAssumption, PushInvariant, queue # <<>>, NEW state \in WriteStates,
         queue' = [queue EXCEPT ![1].state = state],
         off = None, HeadServed', rows' \in SUBSET Device!Endpoints,
         native # None /\ native.id \in rows => native.id \in rows',
         UNCHANGED <<Device!device, generation, act, late, checks, page, off, disturbed, events>>
  PROVE  PushInvariant'
<1>1. /\ \A i \in 1 .. Len(queue) : AwaitedBy(queue[i]) /\ OldDeletion(queue[i])
      /\ \A i, j \in 1 .. Len(queue) : i # j => queue[i].for # queue[j].for
      /\ \A i \in 2 .. Len(queue) : queue[i].state = "waiting"
      /\ queue \in Seq(Writes) /\ DeviceType
  BY DEF PushInvariant, Waiting, DeviceType, DeletionsAreOld
<1>2. /\ queue' \in Seq(Writes) /\ Len(queue') = Len(queue) /\ Len(queue) \in Nat \ {0}
      /\ queue[1] \in Writes
      /\ queue'[1].method = queue[1].method /\ queue'[1].id = queue[1].id
      /\ queue'[1].version = queue[1].version /\ queue'[1].for = queue[1].for
      /\ \A i \in 2 .. Len(queue) : queue'[i] = queue[i]
  BY <1>1, FirstChanges, TailIs
<1>3. \A i \in 1 .. Len(queue') :
        /\ queue'[i].method = queue[i].method /\ queue'[i].id = queue[i].id
        /\ queue'[i].version = queue[i].version /\ queue'[i].for = queue[i].for
  BY <1>2
<1>4. \A i \in 1 .. Len(queue') : AwaitedBy(queue[i])'
  BY <1>1, <1>2, <1>3 DEF AwaitedBy
<1>5. \A i \in 1 .. Len(queue') : OldDeletion(queue[i])'
  BY <1>1, <1>2, <1>3 DEF OldDeletion, Device!device
<1>6. Waiting'
  BY <1>1, <1>2, <1>3, <1>4 DEF Waiting
<1>7. DeletionsAreOld'
  BY <1>5 DEF PushInvariant, DeletionsAreOld, OldDeletion, Device!device
<1>8. DeviceType'
  BY <1>1, <1>2 DEF DeviceType, Device!device
<1>9. /\ ActInOrder' /\ ActAlone' /\ NativeIsMade' /\ ChecksFit' /\ EnabledIsBound'
      /\ OffIsQuiet'
  BY DEF PushInvariant, ActInOrder, ActAlone, NativeIsMade, ChecksFit, CheckFits,
         EnabledIsBound, OffIsQuiet, Device!device
<1> QED
  BY <1>6, <1>7, <1>8, <1>9 DEF PushInvariant

\* The generation of what is in the queue, when the device is disconnected, is over.
LEMMA NothingToSend ==
  ASSUME Device!PushAssumption, PushInvariant, queue # <<>>, off # None
  PROVE  queue[1].version # generation /\ queue[1].state = "waiting"
<1>1. queue[1] \in Writes /\ AwaitedBy(queue[1]) /\ Len(queue) \in Nat \ {0}
  BY TailIs DEF PushInvariant, Waiting, DeviceType
<1>2. queue[1].for # "act"
  BY <1>1, Device!PushAssumption
  DEF PushInvariant, ActAlone, ActInOrder, AwaitedBy, Writes, Methods, Device!PushAssumption
<1>3. queue[1].for \in Checks
  BY <1>1, <1>2 DEF Writes
<1> QED
  BY <1>1, <1>2, <1>3 DEF PushInvariant, ChecksFit, CheckFits, AwaitedBy, OffIsQuiet

\* The write of an action is of its generation.
LEMMA ActsWrite ==
  ASSUME PushInvariant, queue # <<>>, queue[1].for = "act"
  PROVE  queue[1].version = generation
<1>1. queue[1] \in Writes /\ AwaitedBy(queue[1]) /\ Len(queue) \in Nat \ {0}
  BY TailIs DEF PushInvariant, Waiting, DeviceType
<1> QED
  BY <1>1 DEF AwaitedBy

LEMMA HeadIsFirst ==
  ASSUME PushInvariant, queue # <<>>
  PROVE  Head(queue) = queue[1] /\ queue[1] \in Writes /\ AwaitedBy(queue[1])
BY TailIs DEF PushInvariant, Waiting, DeviceType

LEMMA SendWriteStep ==
  ASSUME Device!PushAssumption, PushInvariant, Device!Send
  PROVE  PushInvariant'
<1>1. /\ DeviceType /\ queue # <<>> /\ Head(queue) = queue[1] /\ queue[1].state = "waiting"
  BY HeadIsFirst DEF PushInvariant, Device!Send
<1>2. CASE queue[1].version # generation
  <2>1. Device!Told(queue[1], "false") /\ queue' = Tail(queue)
    BY <1>1, <1>2 DEF Device!Send
  <2>2. queue[1].for # "act" /\ events' \in Nat
    BY <1>1, <1>2, ActsWrite DEF Device!Send, DeviceType
  <2> QED
    BY <1>1, <2>1, <2>2, CheckTold DEF Device!Send
<1>3. CASE queue[1].version = generation
  <2>1. queue' = [queue EXCEPT ![1].state = "sent"] /\ UNCHANGED <<act, off, checks, page>>
    BY <1>1, <1>3 DEF Device!Send
  <2>2. off = None
    BY <1>1, <1>3, NothingToSend
  <2>3. queue'[1].state = "sent" /\ "sent" \in WriteStates
    BY <1>1, <2>1, FirstChanges DEF DeviceType, WriteStates
  <2>4. HeadServed'
    BY <2>3 DEF HeadServed
  <2> QED
    BY <1>1, <2>1, <2>2, <2>3, <2>4, FirstGoesOn DEF Device!Send, DeviceType
<1> QED
  BY <1>2, <1>3

LEMMA ServeStep ==
  ASSUME Device!PushAssumption, PushInvariant, Device!Serve
  PROVE  PushInvariant'
<1>1. /\ DeviceType /\ queue # <<>> /\ Head(queue) = queue[1] /\ queue[1].state = "sent"
      /\ queue[1] \in Writes /\ Len(queue) \in Nat \ {0} /\ "served" \in WriteStates
      /\ "sent" # "waiting"
  BY HeadIsFirst, TailIs DEF PushInvariant, Device!Serve, DeviceType, WriteStates
<1>2. off = None
  BY <1>1, NothingToSend
<1>3. rows' = (IF queue[1].method = "POST" THEN rows \cup {queue[1].id}
               ELSE rows \ {queue[1].id})
  BY <1>1 DEF Device!Serve, Device!Stored
<1>4. rows' \in SUBSET Device!Endpoints
  BY <1>1, <1>3 DEF DeviceType, Writes
<1>5. native # None /\ native.id \in rows => native.id \in rows'
  <2>1. OldDeletion(queue[1])
    BY <1>1 DEF PushInvariant, DeletionsAreOld
  <2>2. queue[1].method \in {"POST", "DELETE"}
    BY <1>1 DEF Writes, Methods
  <2> QED
    BY <1>3, <2>1, <2>2 DEF OldDeletion
<1>6. /\ queue'[1].method = queue[1].method /\ queue'[1].id = queue[1].id
      /\ queue' = [queue EXCEPT ![1].state = "served"]
  BY <1>1, FirstChanges DEF Device!Serve, DeviceType
<1>7. HeadServed'
  BY <1>3, <1>6 DEF HeadServed
<1> QED
  BY <1>1, <1>2, <1>4, <1>5, <1>6, <1>7, FirstGoesOn DEF Device!Serve

LEMMA HearStep ==
  ASSUME Device!PushAssumption, PushInvariant, Device!Hear
  PROVE  PushInvariant'
<1>1. /\ DeviceType /\ queue # <<>> /\ Head(queue) = queue[1] /\ queue[1].state = "served"
      /\ queue' = Tail(queue) /\ events' \in Nat
      /\ Device!Told(queue[1], IF queue[1].version = generation THEN "true" ELSE "false")
  BY HeadIsFirst DEF PushInvariant, Device!Hear, DeviceType
<1>2. PICK result : /\ result = (IF queue[1].version = generation THEN "true" ELSE "false")
                    /\ Device!Told(queue[1], result)
  BY <1>1
<1>3. CASE queue[1].for = "act"
  BY <1>1, <1>2, <1>3, ActsWrite, ActTold DEF Device!Hear
<1>4. CASE queue[1].for # "act"
  BY <1>1, <1>2, <1>4, CheckTold DEF Device!Hear
<1> QED
  BY <1>3, <1>4

LEMMA GiveUpStep ==
  ASSUME Device!PushAssumption, PushInvariant, Device!GiveUp
  PROVE  PushInvariant'
<1>1. /\ DeviceType /\ queue # <<>> /\ Head(queue) = queue[1]
      /\ queue' = Tail(queue) /\ events' \in Nat /\ Device!Told(queue[1], "failed")
      /\ late' = late \/ late' = late \cup {queue[1]}
  BY HeadIsFirst DEF PushInvariant, Device!GiveUp, DeviceType, Device!Event
<1>2. CASE queue[1].for = "act"
  BY <1>1, <1>2, ActTold DEF Device!GiveUp
<1>3. CASE queue[1].for # "act"
  BY <1>1, <1>3, CheckTold DEF Device!GiveUp
<1> QED
  BY <1>2, <1>3

LEMMA ServeLateStep ==
  ASSUME Device!PushAssumption, PushInvariant, NEW w \in late, Device!ServeLate(w)
  PROVE  PushInvariant'
<1> DEFINE v == [w EXCEPT !.state = "served"]
<1>1. /\ DeviceType /\ w \in Writes /\ v \in Writes /\ v.state = "served"
      /\ v.method = w.method /\ v.id = w.id /\ OldDeletion(w) /\ w.method \in {"POST", "DELETE"}
  BY DEF PushInvariant, DeviceType, Writes, WriteStates, DeletionsAreOld, Methods
<1>2. /\ rows' = (IF w.method = "POST" THEN rows \cup {w.id} ELSE rows \ {w.id})
      /\ late' = (late \ {w}) \cup {v} /\ w.state = "sent"
  BY DEF Device!ServeLate, Device!Stored
<1> HIDE DEF v
<1>3. \A e : BoundLate(e) => BoundLate(e)'
  BY <1>2 DEF BoundLate
<1>4. \A e : e \in rows' => e \in rows \/ BoundLate(e)'
  BY <1>1, <1>2 DEF BoundLate
<1>5. native # None /\ native.id \in rows => native.id \in rows'
  BY <1>1, <1>2 DEF OldDeletion
<1>6. DeviceType'
  BY <1>1, <1>2 DEF DeviceType, Device!ServeLate, Device!device, Writes
<1>7. ActInOrder' /\ ActAlone' /\ NativeIsMade' /\ ChecksFit' /\ EnabledIsBound'
  BY <1>5 DEF PushInvariant, ActInOrder, ActAlone, NativeIsMade, ChecksFit, CheckFits,
              EnabledIsBound, Device!ServeLate, Device!device
<1>8. OffIsQuiet'
  BY <1>3, <1>4 DEF PushInvariant, OffIsQuiet, Device!ServeLate, Device!device
<1>9. Waiting'
  BY StillWaiting DEF Device!ServeLate
<1>10. DeletionsAreOld'
  BY <1>1, <1>2 DEF PushInvariant, DeletionsAreOld, OldDeletion, Device!ServeLate,
     Device!device
<1>11. HeadServed'
  <2> SUFFICES ASSUME queue # <<>>, queue[1].state = "served"
               PROVE  HeadServed'
    BY DEF HeadServed, Device!ServeLate
  <2>1. queue[1] \in Writes /\ AwaitedBy(queue[1]) /\ queue' = queue
    BY HeadIsFirst DEF Device!ServeLate
  <2>2. PICK id : id = queue[1].id
    OBVIOUS
  <2>3. queue[1].method = "POST" /\ queue[1].version = generation /\ ~disturbed =>
          id \in rows'
    <3>1. queue[1].for # "act" => queue[1].for \in Checks
      BY <2>1 DEF Writes
    <3>2. queue[1].method = "POST" /\ queue[1].version = generation /\ ~disturbed =>
            native # None /\ native.id = id /\ id \in rows
      BY <2>1, <2>2, <3>1
      DEF PushInvariant, ActInOrder, ChecksFit, CheckFits, AwaitedBy, HeadServed
    <3> QED
      BY <1>5, <3>2
  <2>4. queue[1].method = "DELETE" /\ id \in rows' => BoundLate(id)'
    <3>1. queue[1].method = "DELETE" /\ id \in rows => BoundLate(id)
      BY <2>2 DEF PushInvariant, HeadServed
    <3> QED
      BY <1>3, <1>4, <3>1
  <2> QED
    BY <2>1, <2>2, <2>3, <2>4 DEF HeadServed, BoundLate, Device!ServeLate, Device!device
<1> QED
  BY <1>6, <1>7, <1>8, <1>9, <1>10, <1>11 DEF PushInvariant

-----------------------------------------------------------------------------
\* The invariant.

LEMMA PushInit ==
  ASSUME Device!PushAssumption, Device!Init
  PROVE  PushInvariant
<1>1. 1 \in Device!Endpoints
  BY Device!PushAssumption DEF Device!Endpoints, Device!PushAssumption
<1>2. native \in Device!Subscriptions \cup {None} /\ (native # None => native.id = 1)
  BY <1>1 DEF Device!Init, Device!Subscriptions
<1>3. page \in Pages /\ ~page.enabled /\ page.busy = "no"
  BY DEF Device!Init, Pages
<1>4. queue \in Seq(Writes) /\ Len(queue) = 0 /\ queue = <<>>
  BY DEF Device!Init
<1>5. DeviceType
  BY <1>1, <1>2, <1>3, <1>4, NoCheckIs, IdleIs DEF Device!Init, DeviceType
<1>6. ActInOrder /\ ActAlone /\ NativeIsMade
  BY <1>2, <1>3, IdleIs, Device!PushAssumption
  DEF Device!Init, ActInOrder, ActAlone, NativeIsMade, Device!PushAssumption
<1>7. ChecksFit
  BY NoCheckIs, IdleIs DEF Device!Init, ChecksFit, CheckFits
<1>8. Waiting /\ HeadServed /\ DeletionsAreOld
  BY <1>4 DEF Device!Init, Waiting, HeadServed, DeletionsAreOld
<1>9. EnabledIsBound /\ OffIsQuiet
  BY <1>3 DEF Device!Init, EnabledIsBound, OffIsQuiet
<1> QED
  BY <1>5, <1>6, <1>7, <1>8, <1>9 DEF PushInvariant

LEMMA PushNext ==
  ASSUME Device!PushAssumption, PushInvariant, [Device!Next]_(Device!vars)
  PROVE  PushInvariant'
<1>1. CASE \E s \in Checks : \/ Device!RefreshPush(s) \/ Device!MonitorSync(s) \/ Device!Look(s)
                             \/ Device!Read(s) \/ Device!Bind(s) \/ Device!CheckFails(s)
  BY <1>1, RefreshPushStep, MonitorSyncStep, LookStep, ReadStep, BindStep, CheckFailsStep
<1>2. CASE Device!Press \/ Device!AfterFailure \/ Device!EnrollLooks \/ Device!Unsubscribe \/ Device!Subscribe
  BY <1>2, PressStep, AfterFailureStep, EnrollLooksStep, UnsubscribeStep, SubscribeStep
<1>3. CASE Device!Subscribed \/ Device!NotSubscribed \/ Device!DisableLooks \/ Device!ActFails \/ Device!Disturb
  BY <1>3, SubscribedStep, NotSubscribedStep, DisableLooksStep, ActFailsStep, DisturbStep
<1>4. CASE Device!Send \/ Device!Serve \/ Device!Hear \/ Device!GiveUp \/ \E w \in late : Device!ServeLate(w)
  BY <1>4, SendWriteStep, ServeStep, HearStep, GiveUpStep, ServeLateStep
<1>5. CASE UNCHANGED Device!vars
  BY <1>5
  DEF Device!vars, Device!device, PushInvariant, DeviceType, ActInOrder, ActAlone,
      NativeIsMade, ChecksFit,
      CheckFits, Waiting, AwaitedBy, HeadServed, BoundLate, DeletionsAreOld, OldDeletion,
      EnabledIsBound, OffIsQuiet
<1> QED
  BY <1>1, <1>2, <1>3, <1>4, <1>5 DEF Device!Next

\* The invariant from which the theorems follow.
THEOREM PushStaysSound ==
  ASSUME Device!PushAssumption
  PROVE  Device!Spec => []PushInvariant
<1>1. Device!Init => PushInvariant
  BY PushInit
<1>2. PushInvariant /\ [Device!Next]_(Device!vars) => PushInvariant'
  BY PushNext
<1> QED
  BY <1>1, <1>2, PTL DEF Device!Spec

\* The subscription, the server's rows, the action, the checks and the page are what
\* TypeOK says (push-device.ts, notification-preferences.tsx).
THEOREM PushTypeCorrect ==
  ASSUME Device!PushAssumption
  PROVE  Device!Spec => []Device!TypeOK
<1>1. PushInvariant => Device!TypeOK
  BY DEF PushInvariant, DeviceType, ActInOrder, ActStates, CheckStates, Pages, Device!TypeOK
<1> QED
  BY <1>1, PushStaysSound, PTL

\* A device that was disconnected stays so until the next enrollment, in whatever order
\* checks, writes and native calls end (push-device.ts updateBinding, disablePush).
THEOREM DisconnectedStaysOff ==
  ASSUME Device!PushAssumption
  PROVE  Device!Spec => []Device!StaysOff
<1>1. PushInvariant => Device!StaysOff
  BY DEF PushInvariant, OffIsQuiet, BoundLate, Device!StaysOff
<1> QED
  BY <1>1, PushStaysSound, PTL

\* The page says "connected" only of a subscription that the server knows, unless the
\* browser or the server dropped one by itself (refreshPush, perform).
THEOREM ConnectedIsBound ==
  ASSUME Device!PushAssumption
  PROVE  Device!Spec => []Device!ShownIsBound
<1>1. PushInvariant => Device!ShownIsBound
  BY DEF PushInvariant, EnabledIsBound, Device!ShownIsBound
<1> QED
  BY <1>1, PushStaysSound, PTL

\* What the profile says of this device is true (docs/notifications.md, "Push enrollment
\* recovery").
THEOREM DeviceStaysAsShown ==
  ASSUME Device!PushAssumption
  PROVE  Device!Spec => []Device!DeviceIsAsShown
BY DisconnectedStaysOff, ConnectedIsBound, PTL DEF Device!DeviceIsAsShown

-----------------------------------------------------------------------------
\* Views.  What the page knows of a view was once so on the server, and still is if the
\* version is the server's (True): a write that carries that version changes only what it
\* is meant to change.

\* The configurations that a list can show.
Shown == Configs \ Stale

CallStages == {"sent", "done"}
Versions == [Ids -> Tabs!View \cup {None}]
Renames == [view : Tabs!View, live : BOOLEAN, stage : CallStages]
NameCommits == [name : Names, live : BOOLEAN]
Autosaves ==
  [saved : Tabs!View \cup {None}, queue : Seq(NameCommits), flight : Renames \cup {None}]
Dialogs == [kind : {"create", "edit", "delete"}, target : Ids \cup {None}, config : Configs]
PageCalls == [kind : {"save", "create", "delete"}, view : Tabs!View, stage : CallStages]
ViewLoads == [got : Versions \cup {None}]

\* The toolbar, its dialogs and what it asks the server for.
PageType ==
  /\ server \in Versions /\ fresh \in SUBSET Ids
  /\ views \in Versions /\ restored \in BOOLEAN
  /\ active \in Tabs!Tabs /\ config \in Shown
  /\ DOMAIN drafts \subseteq Tabs!Tabs /\ drafts \in [DOMAIN drafts -> Shown]
  /\ autosave \in Autosaves /\ dialog \in Dialogs \cup {None}
  /\ call \in PageCalls \cup {None} /\ load \in ViewLoads \cup {None} /\ error \in BOOLEAN
  /\ wanted \in [Tabs!Tabs -> Shown \cup {None}] /\ events \in Nat

\* Every draft is shown or put aside, whether or not its view is still there.
DraftsKept ==
  \A t \in Tabs!Tabs : wanted[t] # None =>
    IF t = active THEN config = wanted[t] ELSE t \in DOMAIN drafts /\ drafts[t] = wanted[t]

\* A view is saved under its own identifier, and never under one that is new.
ServerInOrder ==
  \A id \in Ids : /\ id \in fresh => server[id] = None
                  /\ server[id] # None => server[id].id = id

\* A version of a view is not ahead of the server's, and if it is the server's then it
\* has the name, or the configuration, that the server has.
Past(v) == v.id \notin fresh /\ (server[v.id] # None => v.version <= server[v.id].version)
Latest(v) == server[v.id] # None /\ v.version = server[v.id].version
NameIsTrue(v) == Past(v) /\ (Latest(v) => v.name = server[v.id].name)
ConfigIsTrue(v) == Past(v) /\ (Latest(v) => v.config = server[v.id].config)
True(v) == NameIsTrue(v) /\ ConfigIsTrue(v)

\* What the page knows of a view was once so; a save under way differs from it in the
\* configuration only, and a rename in the name only.
PageIsTrue ==
  /\ \A id \in Ids : views[id] # None => True(views[id])
  /\ load # None /\ load.got # None =>
       \A id \in Ids : load.got[id] # None => True(load.got[id])
  /\ autosave.saved # None => True(autosave.saved)

WritesAreTrue ==
  /\ call # None =>
       /\ call.kind = "save" /\ call.stage = "sent" => NameIsTrue(call.view)
       /\ call.kind # "delete" /\ call.stage = "done" => True(call.view)
  /\ autosave.flight # None =>
       /\ ConfigIsTrue(autosave.flight.view)
       /\ autosave.flight.stage = "done" => True(autosave.flight.view)

ViewsInvariant == PageType /\ DraftsKept /\ ServerInOrder /\ PageIsTrue /\ WritesAreTrue

-----------------------------------------------------------------------------
\* What the parts of a step have in common.

LEMMA NormalIsShown ==
  ASSUME Tabs!ViewsAssumption, NEW c \in Configs
  PROVE  /\ Tabs!Normal(c) \in Shown
         /\ c \in Shown => Tabs!Normal(c) = c
BY DEF Tabs!ViewsAssumption, Tabs!Normal, Shown

LEMMA BaseIsConfig ==
  ASSUME Tabs!ViewsAssumption, PageType, NEW t \in Tabs!Tabs
  PROVE  Tabs!Base(t) \in Configs /\ Tabs!Draft(t) \in Configs
<1>1. Tabs!Base(t) \in Configs
  BY DEF Tabs!ViewsAssumption, PageType, Versions, Tabs!View, Tabs!Tabs, Tabs!Base
<1>2. t \in DOMAIN drafts => drafts[t] \in Configs
  BY DEF PageType, Shown
<1> QED
  BY <1>1, <1>2 DEF Tabs!Draft

LEMMA DiscardIs ==
  ASSUME PageType, NEW t \in Tabs!Tabs
  PROVE  /\ DOMAIN Tabs!Discard(t) = DOMAIN drafts \ {t}
         /\ Tabs!Discard(t) \in [DOMAIN Tabs!Discard(t) -> Shown]
         /\ \A u \in DOMAIN drafts \ {t} : Tabs!Discard(t)[u] = drafts[u]
BY DEF PageType, Tabs!Discard

\* The tab that is left is put aside, or shows what is saved; the others stay.
LEMMA StashIs ==
  ASSUME PageType
  PROVE  /\ DOMAIN Tabs!Stash \subseteq Tabs!Tabs /\ Tabs!Stash \in [DOMAIN Tabs!Stash -> Shown]
         /\ \A t \in DOMAIN drafts \ {active} : t \in DOMAIN Tabs!Stash /\ Tabs!Stash[t] = drafts[t]
         /\ Tabs!Dirty => active \in DOMAIN Tabs!Stash /\ Tabs!Stash[active] = config
<1>1. CASE Tabs!Dirty
  BY <1>1 DEF Tabs!Stash, PageType
<1>2. CASE ~Tabs!Dirty
  BY <1>2, DiscardIs DEF Tabs!Stash, PageType
<1> QED
  BY <1>1, <1>2

\* The dialog begins anew with a view; a rename under way is forgotten by it, not stopped.
LEMMA InitializedIs ==
  ASSUME autosave \in Autosaves, NEW view \in Tabs!View \cup {None}
  PROVE  /\ Tabs!Initialized(view) \in Autosaves
         /\ Tabs!Initialized(view).saved = view
         /\ autosave.flight = None => Tabs!Initialized(view).flight = None
         /\ autosave.flight # None =>
              /\ Tabs!Initialized(view).flight.view = autosave.flight.view
              /\ Tabs!Initialized(view).flight.stage = autosave.flight.stage
<1> DEFINE q == [i \in DOMAIN autosave.queue |-> [autosave.queue[i] EXCEPT !.live = FALSE]]
<1> DEFINE f == IF autosave.flight = None THEN None
                ELSE [autosave.flight EXCEPT !.live = FALSE]
<1>1. autosave.queue \in Seq(NameCommits) /\ autosave.flight \in Renames \cup {None}
  BY DEF Autosaves
<1>2. q \in Seq(NameCommits)
  <2>1. \A c \in NameCommits : [c EXCEPT !.live = FALSE] \in NameCommits
    BY DEF NameCommits
  <2>2. /\ DOMAIN autosave.queue = 1 .. Len(autosave.queue) /\ Len(autosave.queue) \in Nat
        /\ \A i \in DOMAIN autosave.queue : autosave.queue[i] \in NameCommits
    BY <1>1
  <2> QED
    BY <2>1, <2>2
<1>3. f \in Renames \cup {None}
  BY <1>1 DEF Renames
<1>4. autosave.flight # None => f.view = autosave.flight.view /\ f.stage = autosave.flight.stage
  BY <1>1 DEF Renames
<1>5. Tabs!Initialized(view) = [saved |-> view, queue |-> q, flight |-> f]
  BY DEF Tabs!Initialized
<1> HIDE DEF q, f
<1>6. Tabs!Initialized(view) \in Autosaves
  BY <1>2, <1>3, <1>5 DEF Autosaves
<1> USE DEF f
<1> QED
  BY <1>4, <1>5, <1>6

\* While the server stays as it is, what is true of it stays true.
LEMMA TruthKept ==
  ASSUME UNCHANGED Tabs!api, NEW v
  PROVE  /\ NameIsTrue(v) => NameIsTrue(v)'
         /\ ConfigIsTrue(v) => ConfigIsTrue(v)'
         /\ True(v) => True(v)'
BY DEF Tabs!api, True, NameIsTrue, ConfigIsTrue, Past, Latest

\* A write gives a view a new version, and a deletion and a creation leave nothing to
\* compare with.
LEMMA TruthOutlivesWrites ==
  ASSUME PageType, NEW id \in Ids, NEW w, server' = [server EXCEPT ![id] = w],
         fresh' \subseteq fresh, NEW v \in Tabs!View,
         \/ id \in fresh
         \/ w = None
         \/ server[id] # None /\ w.version = server[id].version + 1
  PROVE  /\ NameIsTrue(v) => NameIsTrue(v)'
         /\ ConfigIsTrue(v) => ConfigIsTrue(v)'
<1>1. /\ v.id \in Ids /\ v.version \in Nat
      /\ server[id] # None => server[id].version \in Nat
      /\ server' [id] = w /\ \A o \in Ids : o # id => server'[o] = server[o]
  BY DEF PageType, Versions, Tabs!View
<1>2. CASE v.id # id \/ id \in fresh
  BY <1>1, <1>2 DEF NameIsTrue, ConfigIsTrue, Past, Latest
<1>3. CASE v.id = id /\ w = None
  BY <1>1, <1>3 DEF NameIsTrue, ConfigIsTrue, Past, Latest
<1>4. CASE v.id = id /\ server[id] # None /\ w.version = server[id].version + 1
  BY <1>1, <1>4 DEF NameIsTrue, ConfigIsTrue, Past, Latest
<1> QED
  BY <1>2, <1>3, <1>4

\* What a page knows stays true if no more than the server and the stage of a write
\* changes.
LEMMA PageOutlivesWrites ==
  ASSUME ViewsInvariant,
         \A v \in Tabs!View : /\ NameIsTrue(v) => NameIsTrue(v)'
                              /\ ConfigIsTrue(v) => ConfigIsTrue(v)',
         UNCHANGED <<Tabs!list, load>>, autosave'.saved = autosave.saved
  PROVE  PageIsTrue'
<1>1. \A v \in Tabs!View : True(v) => True(v)'
  BY DEF True
<1>2. /\ \A id \in Ids : views[id] \in Tabs!View \cup {None}
      /\ load # None /\ load.got # None => \A id \in Ids : load.got[id] \in Tabs!View \cup {None}
      /\ autosave.saved \in Tabs!View \cup {None}
  BY DEF ViewsInvariant, PageType, Versions, ViewLoads, Autosaves
<1>3. ASSUME NEW id \in Ids, views[id] # None
      PROVE  True(views[id])'
  <2>1. PICK v \in Tabs!View : v = views[id] /\ True(v)
    BY <1>2, <1>3 DEF ViewsInvariant, PageIsTrue
  <2>2. True(v)' /\ views'[id] = v
    BY <1>1, <2>1 DEF Tabs!list
  <2> QED
    BY <2>2
<1>4. ASSUME NEW id \in Ids, load # None, load.got # None, load.got[id] # None
      PROVE  True(load.got[id])'
  <2>1. PICK v \in Tabs!View : v = load.got[id] /\ True(v)
    BY <1>2, <1>4 DEF ViewsInvariant, PageIsTrue
  <2>2. True(v)' /\ load'.got[id] = v
    BY <1>1, <2>1
  <2> QED
    BY <2>2
<1>5. ASSUME autosave.saved # None
      PROVE  True(autosave.saved)'
  <2>1. PICK v \in Tabs!View : v = autosave.saved /\ True(v)
    BY <1>2, <1>5 DEF ViewsInvariant, PageIsTrue
  <2>2. True(v)' /\ autosave'.saved = v
    BY <1>1, <2>1
  <2> QED
    BY <2>2
<1> QED
  BY <1>3, <1>4, <1>5 DEF PageIsTrue, Tabs!list

\* The same of the writes under way.
LEMMA CallOutlivesWrites ==
  ASSUME ViewsInvariant, call' = call,
         \A v \in Tabs!View : /\ NameIsTrue(v) => NameIsTrue(v)'
                              /\ ConfigIsTrue(v) => ConfigIsTrue(v)'
  PROVE  call' # None =>
           /\ call'.kind = "save" /\ call'.stage = "sent" => NameIsTrue(call.view)'
           /\ call'.kind # "delete" /\ call'.stage = "done" => True(call.view)'
<1>1. call # None => call.view \in Tabs!View
  BY DEF ViewsInvariant, PageType, PageCalls
<1>2. SUFFICES ASSUME call # None
               PROVE  /\ call.kind = "save" /\ call.stage = "sent" => NameIsTrue(call.view)'
                      /\ call.kind # "delete" /\ call.stage = "done" => True(call.view)'
  OBVIOUS
<1>3. PICK v \in Tabs!View : v = call.view
  BY <1>1, <1>2
<1>4. /\ call.kind = "save" /\ call.stage = "sent" => NameIsTrue(v)
      /\ call.kind # "delete" /\ call.stage = "done" => True(v)
  BY <1>2, <1>3 DEF ViewsInvariant, WritesAreTrue
<1>5. /\ call.kind = "save" /\ call.stage = "sent" => NameIsTrue(v)'
      /\ call.kind # "delete" /\ call.stage = "done" => True(v)'
  BY <1>4 DEF True
<1>6. call'.view = v
  BY <1>3
<1> QED
  BY <1>5, <1>6

LEMMA RenameOutlivesWrites ==
  ASSUME ViewsInvariant, autosave' = autosave,
         \A v \in Tabs!View : /\ NameIsTrue(v) => NameIsTrue(v)'
                              /\ ConfigIsTrue(v) => ConfigIsTrue(v)'
  PROVE  autosave'.flight # None =>
           /\ ConfigIsTrue(autosave.flight.view)'
           /\ autosave'.flight.stage = "done" => True(autosave.flight.view)'
<1>1. autosave.flight # None => autosave.flight.view \in Tabs!View
  BY DEF ViewsInvariant, PageType, Autosaves, Renames
<1>2. SUFFICES ASSUME autosave.flight # None
               PROVE  /\ ConfigIsTrue(autosave.flight.view)'
                      /\ autosave.flight.stage = "done" => True(autosave.flight.view)'
  OBVIOUS
<1>3. PICK v \in Tabs!View : v = autosave.flight.view
  BY <1>1, <1>2
<1>4. ConfigIsTrue(v) /\ (autosave.flight.stage = "done" => True(v))
  BY <1>2, <1>3 DEF ViewsInvariant, WritesAreTrue
<1>5. ConfigIsTrue(v)' /\ (autosave.flight.stage = "done" => True(v)')
  BY <1>4 DEF True
<1>6. autosave'.flight.view = v
  BY <1>3
<1> QED
  BY <1>5, <1>6

-----------------------------------------------------------------------------
\* Others, and the loads.

LEMMA OtherEditStep ==
  ASSUME Tabs!ViewsAssumption, ViewsInvariant, NEW id \in Ids, NEW n \in Names,
         NEW c \in Configs,
         Tabs!OtherEdit(id, n, c)
  PROVE  ViewsInvariant'
<1>1. PageType
  BY DEF ViewsInvariant
<1>2. PICK w \in Tabs!View : /\ server' = [server EXCEPT ![id] = w] /\ w.id = id
                             /\ w.version = server[id].version + 1
  <2>1. server[id] \in Tabs!View /\ server[id].id = id
    BY <1>1 DEF Tabs!OtherEdit, PageType, Versions, ViewsInvariant, ServerInOrder
  <2> DEFINE w == [id |-> id, name |-> n, config |-> c, version |-> server[id].version + 1]
  <2>2. w \in Tabs!View
    BY <2>1 DEF Tabs!View
  <2>3. server' = [server EXCEPT ![id] = w]
    BY DEF Tabs!OtherEdit
  <2> QED
    BY <2>2, <2>3
<1>3. PageType'
  <2>1. server' \in Versions /\ events' \in Nat
    BY <1>1, <1>2 DEF Tabs!OtherEdit, PageType, Versions, Tabs!Event
  <2> QED
    BY <1>1, <2>1 DEF Tabs!OtherEdit, PageType, Tabs!list, Tabs!shown
<1>4. DraftsKept'
  BY DEF ViewsInvariant, DraftsKept, Tabs!OtherEdit, Tabs!shown
<1>5. ServerInOrder'
  BY <1>1, <1>2 DEF ViewsInvariant, ServerInOrder, Tabs!OtherEdit, PageType, Versions
<1>6. \A v \in Tabs!View : /\ NameIsTrue(v) => NameIsTrue(v)'
                           /\ ConfigIsTrue(v) => ConfigIsTrue(v)'
  BY <1>1, <1>2, TruthOutlivesWrites DEF Tabs!OtherEdit
<1>7. PageIsTrue'
  BY <1>6, PageOutlivesWrites DEF Tabs!OtherEdit
<1>8. WritesAreTrue'
  BY <1>6, CallOutlivesWrites, RenameOutlivesWrites DEF Tabs!OtherEdit, WritesAreTrue
<1> QED
  BY <1>3, <1>4, <1>5, <1>7, <1>8 DEF ViewsInvariant

LEMMA OtherDeleteStep ==
  ASSUME Tabs!ViewsAssumption, ViewsInvariant, NEW id \in Ids, Tabs!OtherDelete(id)
  PROVE  ViewsInvariant'
<1>1. PageType
  BY DEF ViewsInvariant
<1>2. PageType'
  <2>1. server' \in Versions /\ events' \in Nat
    BY <1>1 DEF Tabs!OtherDelete, PageType, Versions, Tabs!Event
  <2> QED
    BY <1>1, <2>1 DEF Tabs!OtherDelete, PageType, Tabs!list, Tabs!shown
<1>3. DraftsKept'
  BY DEF ViewsInvariant, DraftsKept, Tabs!OtherDelete, Tabs!shown
<1>4. ServerInOrder'
  BY <1>1 DEF ViewsInvariant, ServerInOrder, Tabs!OtherDelete, PageType, Versions
<1>5. \A v \in Tabs!View : /\ NameIsTrue(v) => NameIsTrue(v)'
                           /\ ConfigIsTrue(v) => ConfigIsTrue(v)'
  BY <1>1, TruthOutlivesWrites DEF Tabs!OtherDelete
<1>6. PageIsTrue'
  BY <1>5, PageOutlivesWrites DEF Tabs!OtherDelete
<1>7. WritesAreTrue'
  BY <1>5, CallOutlivesWrites, RenameOutlivesWrites DEF Tabs!OtherDelete, WritesAreTrue
<1> QED
  BY <1>2, <1>3, <1>4, <1>6, <1>7 DEF ViewsInvariant

LEMMA ServeViewsStep ==
  ASSUME Tabs!ViewsAssumption, ViewsInvariant, Tabs!ServeLoad
  PROVE  ViewsInvariant'
<1>1. PageType
  BY DEF ViewsInvariant
<1>2. PageType'
  <2>1. load' \in ViewLoads
    BY <1>1 DEF Tabs!ServeLoad, PageType, ViewLoads
  <2> QED
    BY <1>1, <2>1 DEF Tabs!ServeLoad, PageType, Tabs!api, Tabs!list, Tabs!shown
<1>3. DraftsKept' /\ ServerInOrder'
  BY DEF ViewsInvariant, DraftsKept, ServerInOrder, Tabs!ServeLoad, Tabs!api, Tabs!shown
<1>4. \A id \in Ids : server[id] # None => True(server[id])
  BY <1>1 DEF ViewsInvariant, ServerInOrder, True, NameIsTrue, ConfigIsTrue, Past, Latest,
              PageType, Versions, Tabs!View
<1>5. PageIsTrue'
  BY <1>4 DEF ViewsInvariant, PageIsTrue, True, NameIsTrue, ConfigIsTrue, Past, Latest,
              Tabs!ServeLoad, Tabs!api, Tabs!list
<1>6. WritesAreTrue'
  BY DEF ViewsInvariant, WritesAreTrue, True, NameIsTrue, ConfigIsTrue, Past, Latest,
         Tabs!ServeLoad, Tabs!api
<1> QED
  BY <1>2, <1>3, <1>5, <1>6 DEF ViewsInvariant

LEMMA FailViewsStep ==
  ASSUME ViewsInvariant, Tabs!FailLoad
  PROVE  ViewsInvariant'
<1>1. PageType' /\ DraftsKept' /\ ServerInOrder'
  BY DEF ViewsInvariant, PageType, DraftsKept, ServerInOrder, Tabs!FailLoad, Tabs!api,
     Tabs!list, Tabs!shown
<1>2. PageIsTrue'
  BY DEF ViewsInvariant, PageIsTrue, True, NameIsTrue, ConfigIsTrue, Past, Latest,
         Tabs!FailLoad, Tabs!api, Tabs!list
<1>3. WritesAreTrue'
  BY DEF ViewsInvariant, WritesAreTrue, True, NameIsTrue, ConfigIsTrue, Past, Latest,
         Tabs!FailLoad, Tabs!api
<1> QED
  BY <1>1, <1>2, <1>3 DEF ViewsInvariant

\* The page shows what came, and its first load the tab of the last visit.
LEMMA ReceiveViewsStep ==
  ASSUME Tabs!ViewsAssumption, ViewsInvariant, NEW last \in Tabs!Tabs, Tabs!ReceiveLoad(last)
  PROVE  ViewsInvariant'
<1>1. PageType
  BY DEF ViewsInvariant
<1>2. load.got \in Versions /\ \A id \in Ids : load.got[id] # None => True(load.got[id])
  BY <1>1 DEF Tabs!ReceiveLoad, PageType, ViewLoads, ViewsInvariant, PageIsTrue
<1> DEFINE at == IF restored THEN active ELSE last
           view == IF at = Standard THEN None ELSE load.got[at]
<1>3. at \in Tabs!Tabs /\ view \in Tabs!View \cup {None}
  BY <1>1, <1>2 DEF PageType, Tabs!Tabs, Versions
<1>4. view # None => True(view)
  BY <1>2, <1>3 DEF Tabs!Tabs
<1>5. autosave' = IF restored \/ view # None THEN Tabs!Initialized(view) ELSE autosave
  BY DEF Tabs!ReceiveLoad
<1>6. IF restored \/ view = None
      THEN UNCHANGED <<active, config, wanted>>
      ELSE Tabs!Show(at, view.config) /\ wanted' = [t \in Tabs!Tabs |-> None]
  BY DEF Tabs!ReceiveLoad
<1> HIDE DEF at, view
<1>7. autosave \in Autosaves
  BY <1>1 DEF PageType
<1>8. /\ autosave' \in Autosaves
      /\ autosave'.saved # None => autosave'.saved = autosave.saved \/ autosave'.saved = view
      /\ autosave'.flight # None =>
           /\ autosave.flight # None
           /\ autosave'.flight.view = autosave.flight.view
           /\ autosave'.flight.stage = autosave.flight.stage
  BY <1>3, <1>5, <1>7, InitializedIs
<1>9. /\ active' \in Tabs!Tabs /\ config' \in Shown /\ wanted' \in [Tabs!Tabs -> Shown \cup {None}]
      /\ DraftsKept'
  <2>1. CASE restored \/ view = None
    BY <1>1, <1>6, <2>1 DEF PageType, ViewsInvariant, DraftsKept, Tabs!ReceiveLoad
  <2>2. CASE ~(restored \/ view = None)
    <3>1. view.config \in Configs
      BY <1>3, <2>2 DEF Tabs!View
    <3>2. Tabs!Normal(view.config) \in Shown
      BY <3>1, NormalIsShown
    <3> QED
      BY <1>3, <1>6, <2>2, <3>2 DEF Tabs!Show, DraftsKept
  <2> QED
    BY <2>1, <2>2
<1>10. PageType'
  BY <1>1, <1>2, <1>8, <1>9 DEF PageType, Tabs!ReceiveLoad, Tabs!api
<1>11. ServerInOrder'
  BY DEF ViewsInvariant, ServerInOrder, Tabs!ReceiveLoad, Tabs!api
<1>12. UNCHANGED Tabs!api
  BY DEF Tabs!ReceiveLoad
<1>13. PageIsTrue'
  <2>1. autosave'.saved # None => True(autosave'.saved)
    BY <1>4, <1>8 DEF ViewsInvariant, PageIsTrue
  <2> QED
    BY <1>2, <2>1 DEF PageIsTrue, True, NameIsTrue, ConfigIsTrue, Past, Latest,
       Tabs!ReceiveLoad, Tabs!api
<1>14. WritesAreTrue'
  BY <1>8 DEF ViewsInvariant, WritesAreTrue, True, NameIsTrue, ConfigIsTrue, Past, Latest,
              Tabs!ReceiveLoad, Tabs!api
<1> QED
  BY <1>9, <1>10, <1>11, <1>13, <1>14 DEF ViewsInvariant

LEMMA RefreshViewsStep ==
  ASSUME ViewsInvariant, Tabs!RefreshViews
  PROVE  ViewsInvariant'
<1>1. PageType'
  <2>1. load' \in ViewLoads /\ events' \in Nat
    BY DEF Tabs!RefreshViews, ViewLoads, Tabs!Event, ViewsInvariant, PageType
  <2> QED
    BY <2>1 DEF ViewsInvariant, PageType, Tabs!RefreshViews, Tabs!api, Tabs!list, Tabs!shown
<1>2. DraftsKept' /\ ServerInOrder'
  BY DEF ViewsInvariant, DraftsKept, ServerInOrder, Tabs!RefreshViews, Tabs!api, Tabs!list,
     Tabs!shown
<1>3. PageIsTrue'
  BY DEF ViewsInvariant, PageIsTrue, True, NameIsTrue, ConfigIsTrue, Past, Latest,
         Tabs!RefreshViews, Tabs!api, Tabs!list
<1>4. WritesAreTrue'
  BY DEF ViewsInvariant, WritesAreTrue, True, NameIsTrue, ConfigIsTrue, Past, Latest,
         Tabs!RefreshViews, Tabs!api
<1> QED
  BY <1>1, <1>2, <1>3, <1>4 DEF ViewsInvariant

-----------------------------------------------------------------------------
\* The reader.

\* A step that leaves the server alone: the page knows nothing that it did not know, or
\* that is not true, and a write that begins is made from what it knows.
LEMMA TruthOfThePage ==
  ASSUME ViewsInvariant, UNCHANGED Tabs!api,
         \A id \in Ids : views'[id] # None => views'[id] = views[id] \/ True(views'[id]),
         load' # None /\ load'.got # None => load' = load,
         autosave'.saved # None => autosave'.saved = autosave.saved \/ True(autosave'.saved),
         autosave'.flight # None =>
           \/ autosave.flight # None /\ autosave'.flight.view = autosave.flight.view
                /\ autosave'.flight.stage = autosave.flight.stage
           \/ autosave'.flight.stage = "sent" /\ ConfigIsTrue(autosave'.flight.view),
         call' # None =>
           \/ call' = call
           \/ call'.kind = "save" /\ call'.stage = "sent" /\ NameIsTrue(call'.view)
           \/ call'.kind # "save" /\ call'.stage = "sent"
  PROVE  ServerInOrder' /\ PageIsTrue' /\ WritesAreTrue'
<1>1. ServerInOrder'
  BY DEF ViewsInvariant, ServerInOrder, Tabs!api
<1>2. PageIsTrue'
  <2>1. (\A id \in Ids : views[id] # None => True(views[id]))'
    BY DEF ViewsInvariant, PageIsTrue, True, NameIsTrue, ConfigIsTrue, Past, Latest, Tabs!api
  <2>2. (load # None /\ load.got # None =>
           \A id \in Ids : load.got[id] # None => True(load.got[id]))'
    BY DEF ViewsInvariant, PageIsTrue, True, NameIsTrue, ConfigIsTrue, Past, Latest, Tabs!api
  <2>3. (autosave.saved # None => True(autosave.saved))'
    BY DEF ViewsInvariant, PageIsTrue, True, NameIsTrue, ConfigIsTrue, Past, Latest, Tabs!api
  <2> QED
    BY <2>1, <2>2, <2>3 DEF PageIsTrue
<1>3. WritesAreTrue'
  <2>1. call' # None =>
          /\ call'.kind = "save" /\ call'.stage = "sent" => NameIsTrue(call'.view)
          /\ call'.kind # "delete" /\ call'.stage = "done" => True(call'.view)
    BY DEF ViewsInvariant, WritesAreTrue
  <2>2. autosave'.flight # None =>
          /\ ConfigIsTrue(autosave'.flight.view)
          /\ autosave'.flight.stage = "done" => True(autosave'.flight.view)
    BY DEF ViewsInvariant, WritesAreTrue
  <2> QED
    BY <2>1, <2>2 DEF WritesAreTrue, True, NameIsTrue, ConfigIsTrue, Past, Latest, Tabs!api
<1> QED
  BY <1>1, <1>2, <1>3

LEMMA EditViewStep ==
  ASSUME Tabs!ViewsAssumption, ViewsInvariant, NEW c \in Shown, Tabs!Edit(c)
  PROVE  ViewsInvariant'
<1>1. PageType'
  BY DEF ViewsInvariant, PageType, Tabs!Edit, Tabs!Event, Tabs!api, Tabs!list
<1>2. DraftsKept'
  BY DEF ViewsInvariant, PageType, DraftsKept, Tabs!Edit
<1>3. ServerInOrder' /\ PageIsTrue' /\ WritesAreTrue'
  BY TruthOfThePage DEF Tabs!Edit, Tabs!list
<1> QED
  BY <1>1, <1>2, <1>3 DEF ViewsInvariant

LEMMA SelectStep ==
  ASSUME Tabs!ViewsAssumption, ViewsInvariant, NEW t \in Tabs!Tabs, Tabs!Select(t)
  PROVE  ViewsInvariant'
<1>1. PageType
  BY DEF ViewsInvariant
<1> DEFINE view == IF t = Standard THEN None ELSE views[t]
<1>2. view \in Tabs!View \cup {None} /\ (view # None => True(view))
  BY <1>1 DEF PageType, Versions, Tabs!Tabs, ViewsInvariant, PageIsTrue
<1>3. autosave' = Tabs!Initialized(view)
  BY DEF Tabs!Select
<1> HIDE DEF view
<1>4. /\ autosave' \in Autosaves /\ autosave'.saved = view
      /\ autosave'.flight # None =>
           /\ autosave.flight # None
           /\ autosave'.flight.view = autosave.flight.view
           /\ autosave'.flight.stage = autosave.flight.stage
  BY <1>1, <1>2, <1>3, InitializedIs DEF PageType
<1>5. active' = t /\ config' = Tabs!Normal(Tabs!Draft(t)) /\ drafts' = Tabs!Stash
  BY DEF Tabs!Select, Tabs!Show
<1>6. config' \in Shown /\ (Tabs!Draft(t) \in Shown => config' = Tabs!Draft(t))
  BY <1>1, <1>5, BaseIsConfig, NormalIsShown
<1>7. wanted' = IF Tabs!Dirty /\ t # active THEN wanted ELSE [wanted EXCEPT ![active] = None]
  BY DEF Tabs!Select
<1>8. PageType'
  <2>1. DOMAIN drafts' \subseteq Tabs!Tabs /\ drafts' \in [DOMAIN drafts' -> Shown]
    BY <1>1, <1>5, StashIs
  <2>2. wanted' \in [Tabs!Tabs -> Shown \cup {None}]
    BY <1>1, <1>7 DEF PageType
  <2> QED
    BY <1>1, <1>4, <1>5, <1>6, <2>1, <2>2 DEF PageType, Tabs!Select, Tabs!api
<1>9. DraftsKept'
  <2> SUFFICES ASSUME NEW u \in Tabs!Tabs, wanted'[u] # None
               PROVE  IF u = t THEN config' = wanted'[u]
                      ELSE u \in DOMAIN drafts' /\ drafts'[u] = wanted'[u]
    BY <1>5 DEF DraftsKept
  <2>1. wanted'[u] = wanted[u] /\ (u = active => Tabs!Dirty /\ t # active)
    BY <1>1, <1>7 DEF PageType
  <2>2. CASE u = active
    <3>1. u \in DOMAIN drafts' /\ drafts'[u] = config /\ u # t
      BY <1>1, <1>5, <2>1, <2>2, StashIs
    <3>2. config = wanted[u]
      BY <2>1, <2>2 DEF ViewsInvariant, DraftsKept
    <3> QED
      BY <2>1, <3>1, <3>2
  <2>3. CASE u # active
    <3>1. u \in DOMAIN drafts /\ drafts[u] = wanted[u]
      BY <2>1, <2>3 DEF ViewsInvariant, DraftsKept
    <3>2. u \in DOMAIN drafts' /\ drafts'[u] = wanted[u]
      BY <1>1, <1>5, <2>3, <3>1, StashIs
    <3>3. u = t => Tabs!Draft(t) = wanted[u] /\ Tabs!Draft(t) \in Shown
      BY <1>1, <2>1, <3>1 DEF Tabs!Draft, PageType
    <3> QED
      BY <1>6, <2>1, <3>2, <3>3
  <2> QED
    BY <2>2, <2>3
<1>10. ServerInOrder' /\ PageIsTrue' /\ WritesAreTrue'
  BY <1>2, <1>4, TruthOfThePage DEF Tabs!Select
<1> QED
  BY <1>8, <1>9, <1>10 DEF ViewsInvariant

LEMMA ResetDraftStep ==
  ASSUME Tabs!ViewsAssumption, ViewsInvariant, Tabs!ResetDraft
  PROVE  ViewsInvariant'
<1>1. PageType
  BY DEF ViewsInvariant
<1>2. active \in Tabs!Tabs /\ active' = active /\ config' \in Shown
  BY <1>1, BaseIsConfig, NormalIsShown DEF PageType, Tabs!ResetDraft, Tabs!Show
<1>3. /\ DOMAIN drafts' = DOMAIN drafts \ {active} /\ drafts' \in [DOMAIN drafts' -> Shown]
      /\ \A u \in DOMAIN drafts \ {active} : drafts'[u] = drafts[u]
  BY <1>1, <1>2, DiscardIs DEF Tabs!ResetDraft
<1>4. PageType'
  BY <1>1, <1>2, <1>3 DEF PageType, Tabs!ResetDraft, Tabs!api, Tabs!list
<1>5. DraftsKept'
  BY <1>1, <1>2, <1>3 DEF ViewsInvariant, PageType, DraftsKept, Tabs!ResetDraft
<1>6. ServerInOrder' /\ PageIsTrue' /\ WritesAreTrue'
  BY TruthOfThePage DEF Tabs!ResetDraft, Tabs!list
<1> QED
  BY <1>4, <1>5, <1>6 DEF ViewsInvariant

LEMMA SaveStep ==
  ASSUME Tabs!ViewsAssumption, ViewsInvariant, Tabs!Save
  PROVE  ViewsInvariant'
<1>1. PageType
  BY DEF ViewsInvariant
<1>2. PICK v \in Tabs!View : v = views[active] /\ v = Tabs!Current /\ True(v)
  BY <1>1 DEF Tabs!Save, Tabs!Editable, Tabs!ViewsAssumption, PageType, Versions,
     Tabs!Current, ViewsInvariant,
              PageIsTrue
<1> DEFINE w == [v EXCEPT !.config = config]
<1>3. w \in Tabs!View /\ w.id = v.id /\ w.name = v.name /\ w.version = v.version
  BY <1>1 DEF PageType, Shown, Tabs!View
<1>4. call' = [kind |-> "save", view |-> w, stage |-> "sent"]
  BY <1>2 DEF Tabs!Save
<1>5. NameIsTrue(w)
  BY <1>2, <1>3 DEF True, NameIsTrue, Past, Latest
<1> HIDE DEF w
<1>6. call' \in PageCalls
  BY <1>3, <1>4 DEF PageCalls, CallStages
<1>7. PageType' /\ DraftsKept'
  <2>1. events' \in Nat
    BY <1>1 DEF Tabs!Save, Tabs!Event, PageType
  <2> QED
    BY <1>1, <1>6, <2>1 DEF ViewsInvariant, DraftsKept, PageType, Tabs!Save, Tabs!api,
       Tabs!list, Tabs!shown
<1>8. call'.kind = "save" /\ call'.stage = "sent" /\ NameIsTrue(call'.view)
  BY <1>4, <1>5
<1>9. ServerInOrder' /\ PageIsTrue' /\ WritesAreTrue'
  BY <1>8, TruthOfThePage DEF Tabs!Save, Tabs!list
<1> QED
  BY <1>7, <1>9 DEF ViewsInvariant

\* Settings begin with the view that they are opened for.
LEMMA OpenStep ==
  ASSUME Tabs!ViewsAssumption, ViewsInvariant, NEW kind \in {"create", "edit", "delete"},
         NEW t \in Ids \cup {None}, NEW c \in Configs, Tabs!Open(kind, t, c),
         kind = "edit" => t \in Ids
  PROVE  ViewsInvariant'
<1>1. PageType
  BY DEF ViewsInvariant
<1>2. /\ autosave' \in Autosaves
      /\ autosave'.saved # None => autosave'.saved = autosave.saved \/ True(autosave'.saved)
      /\ autosave'.flight # None =>
           /\ autosave.flight # None
           /\ autosave'.flight.view = autosave.flight.view
           /\ autosave'.flight.stage = autosave.flight.stage
  <2>1. CASE kind = "edit"
    <3>1. views[t] \in Tabs!View \cup {None} /\ (views[t] # None => True(views[t]))
      BY <1>1, <2>1 DEF PageType, Versions, ViewsInvariant, PageIsTrue
    <3>2. autosave' = Tabs!Initialized(views[t])
      BY <2>1 DEF Tabs!Open
    <3> QED
      BY <1>1, <3>1, <3>2, InitializedIs DEF PageType
  <2>2. CASE kind # "edit"
    BY <1>1, <2>2 DEF Tabs!Open, PageType
  <2> QED
    BY <2>1, <2>2
<1>3. dialog' \in Dialogs
  BY DEF Tabs!Open, Dialogs
<1>4. PageType' /\ DraftsKept'
  BY <1>1, <1>2, <1>3 DEF ViewsInvariant, DraftsKept, PageType, Tabs!Open, Tabs!api,
     Tabs!list, Tabs!shown
<1>5. ServerInOrder' /\ PageIsTrue' /\ WritesAreTrue'
  BY <1>2, TruthOfThePage DEF Tabs!Open, Tabs!list
<1> QED
  BY <1>4, <1>5 DEF ViewsInvariant

LEMMA OpenCreateStep ==
  ASSUME Tabs!ViewsAssumption, ViewsInvariant, Tabs!OpenCreate
  PROVE  ViewsInvariant'
<1>1. PageType
  BY DEF ViewsInvariant
<1>2. CASE Tabs!Open("create", None, config)
  BY <1>1, <1>2, OpenStep DEF PageType, Shown
<1>3. CASE Tabs!Open("create", None, Tabs!Draft(Standard))
  BY <1>1, <1>3, OpenStep, BaseIsConfig DEF Tabs!Tabs
<1>4. ASSUME NEW t \in Tabs!Present \ {Standard, active}, Tabs!Open("create", None, views[t].config)
      PROVE  ViewsInvariant'
  <2>1. views[t].config \in Configs
    BY <1>1 DEF PageType, Versions, Tabs!View, Tabs!Present
  <2> QED
    BY <1>4, <2>1, OpenStep
<1> QED
  BY <1>2, <1>3, <1>4 DEF Tabs!OpenCreate

LEMMA OpenOtherStep ==
  ASSUME Tabs!ViewsAssumption, ViewsInvariant, Tabs!OpenOther
  PROVE  ViewsInvariant'
BY OpenStep DEF Tabs!OpenOther, Tabs!ViewsAssumption

LEMMA CloseDialogStep ==
  ASSUME ViewsInvariant, Tabs!CloseDialog
  PROVE  ViewsInvariant'
<1>1. PageType' /\ DraftsKept'
  BY DEF ViewsInvariant, DraftsKept, PageType, Tabs!CloseDialog, Tabs!api, Tabs!list,
     Tabs!shown
<1>2. ServerInOrder' /\ PageIsTrue' /\ WritesAreTrue'
  BY TruthOfThePage DEF Tabs!CloseDialog, Tabs!list
<1> QED
  BY <1>1, <1>2 DEF ViewsInvariant

LEMMA WriteStep ==
  ASSUME Tabs!ViewsAssumption, ViewsInvariant, Tabs!Write
  PROVE  ViewsInvariant'
<1>1. PageType
  BY DEF ViewsInvariant
<1>2. dialog \in Dialogs /\ dialog.kind # "edit"
  BY <1>1 DEF Tabs!Write, PageType
<1>3. call' \in PageCalls /\ call'.kind # "save" /\ call'.stage = "sent"
  <2>1. PICK name \in Names, id \in Ids :
          call' = [kind |-> dialog.kind, stage |-> "sent",
                   view |-> [id |-> id, name |-> name, config |-> dialog.config, version |-> 1]]
    BY DEF Tabs!Write
  <2>2. [id |-> id, name |-> name, config |-> dialog.config, version |-> 1] \in Tabs!View
    BY <1>2 DEF Dialogs, Tabs!View
  <2> QED
    BY <1>2, <2>1, <2>2 DEF Dialogs, PageCalls, CallStages
<1>4. PageType' /\ DraftsKept'
  BY <1>1, <1>3 DEF ViewsInvariant, DraftsKept, PageType, Tabs!Write, Tabs!api, Tabs!list,
     Tabs!shown
<1>5. ServerInOrder' /\ PageIsTrue' /\ WritesAreTrue'
  BY <1>3, TruthOfThePage DEF Tabs!Write, Tabs!list
<1> QED
  BY <1>4, <1>5 DEF ViewsInvariant

LEMMA RenameStep ==
  ASSUME ViewsInvariant, NEW name \in Names, Tabs!Rename(name)
  PROVE  ViewsInvariant'
<1>1. PageType
  BY DEF ViewsInvariant
<1>2. autosave.queue \in Seq(NameCommits)
  BY <1>1 DEF PageType, Autosaves
<1>3. Append(autosave.queue, [name |-> name, live |-> TRUE]) \in Seq(NameCommits)
  <2>1. [name |-> name, live |-> TRUE] \in NameCommits
    BY DEF NameCommits
  <2> QED
    BY <1>2, <2>1
<1>4. autosave' = [autosave EXCEPT !.queue = Append(autosave.queue, [name |-> name, live |-> TRUE])]
  BY DEF Tabs!Rename
<1>5. /\ autosave' \in Autosaves
      /\ autosave'.saved = autosave.saved /\ autosave'.flight = autosave.flight
  BY <1>1, <1>3, <1>4 DEF PageType, Autosaves
<1>6. PageType' /\ DraftsKept'
  BY <1>1, <1>5 DEF ViewsInvariant, DraftsKept, PageType, Tabs!Rename, Tabs!Event, Tabs!api,
     Tabs!list, Tabs!shown
<1>7. ServerInOrder' /\ PageIsTrue' /\ WritesAreTrue'
  BY <1>5, TruthOfThePage DEF Tabs!Rename, Tabs!list
<1> QED
  BY <1>6, <1>7 DEF ViewsInvariant

-----------------------------------------------------------------------------
\* A save, a creation, a deletion.

\* What a step at the server does to one view.
LEMMA ExecuteIs ==
  ASSUME Tabs!ViewsAssumption, ViewsInvariant, call # None, call.stage = "sent",
         Tabs!ExecuteSave \/ Tabs!ExecuteCreate \/ Tabs!ExecuteDelete
  PROVE  \E w \in Tabs!View \cup {None} :
           /\ server' = [server EXCEPT ![call.view.id] = w] /\ call.view.id \in Ids
           /\ fresh' \subseteq fresh
           /\ \/ call.view.id \in fresh
              \/ w = None
              \/ server[call.view.id] # None /\ w.version = server[call.view.id].version + 1
           /\ w # None => /\ w.id = call.view.id
                          /\ server[w.id] # None => w.name = server[w.id].name
           /\ IF call.kind = "delete" THEN w = None ELSE call.view.id \notin fresh'
<1>1. PageType /\ call \in PageCalls /\ call.view \in Tabs!View
  BY DEF ViewsInvariant, PageType, PageCalls
<1>2. PICK v \in Tabs!View : v = call.view /\ v.id \in Ids /\ v.version \in Nat
  BY <1>1 DEF Tabs!View
<1>3. CASE Tabs!ExecuteSave
  <2> DEFINE w == [v EXCEPT !.version = server[v.id].version + 1]
  <2>1. /\ call.kind = "save" /\ server[v.id] # None
        /\ server[v.id].version = v.version /\ server' = [server EXCEPT ![v.id] = w]
        /\ fresh' = fresh
    BY <1>2, <1>3 DEF Tabs!ExecuteSave, Tabs!Accepted, Tabs!Stored
  <2>2. w \in Tabs!View /\ w.id = v.id /\ w.name = v.name /\ w.version = server[v.id].version + 1
    BY <1>2, <2>1 DEF Tabs!View
  <2>3. NameIsTrue(v)
    BY <1>2, <2>1 DEF ViewsInvariant, WritesAreTrue
  <2>4. v.name = server[v.id].name /\ v.id \notin fresh
    BY <2>1, <2>3 DEF NameIsTrue, Past, Latest
  <2> HIDE DEF w
  <2> QED
    BY <1>2, <2>1, <2>2, <2>4
<1>4. CASE Tabs!ExecuteCreate
  <2>1. /\ call.kind = "create" /\ v.id \in fresh /\ server' = [server EXCEPT ![v.id] = v]
        /\ fresh' = fresh \ {v.id}
    BY <1>2, <1>4 DEF Tabs!ExecuteCreate
  <2>2. server[v.id] = None
    BY <1>2, <2>1 DEF ViewsInvariant, ServerInOrder
  <2> QED
    BY <1>2, <2>1, <2>2
<1>5. CASE Tabs!ExecuteDelete
  BY <1>2, <1>5 DEF Tabs!ExecuteDelete
<1> QED
  BY <1>3, <1>4, <1>5

LEMMA ExecuteCallStep ==
  ASSUME Tabs!ViewsAssumption, ViewsInvariant, Tabs!Execute
  PROVE  ViewsInvariant' /\ Tabs!WriteKeepsTheRest
<1>1. PageType /\ call \in PageCalls /\ call.view \in Tabs!View
  BY DEF ViewsInvariant, PageType, PageCalls, Tabs!Execute
<1>2. PICK v \in Tabs!View : v = call.view
  BY <1>1
<1>3. v.id \in Ids
  BY <1>2 DEF Tabs!View
<1>4. PICK w \in Tabs!View \cup {None} :
         /\ server' = [server EXCEPT ![v.id] = w] /\ fresh' \subseteq fresh
         /\ \/ v.id \in fresh
            \/ w = None
            \/ server[v.id] # None /\ w.version = server[v.id].version + 1
         /\ w # None => /\ w.id = v.id
                        /\ server[w.id] # None => w.name = server[w.id].name
         /\ IF call.kind = "delete" THEN w = None ELSE v.id \notin fresh'
  BY <1>2, ExecuteIs DEF Tabs!Execute
<1>5. server' [v.id] = w /\ \A id \in Ids : id # v.id => server'[id] = server[id]
  BY <1>1, <1>3, <1>4 DEF PageType, Versions
<1>6. /\ call'.kind = call.kind /\ call'.stage = "done" /\ call' \in PageCalls
      /\ w # None => call'.view = w
      /\ w = None => call'.view = v
  <2> DEFINE x == IF w = None THEN v ELSE w
  <2>1. call' = [call EXCEPT !.stage = "done", !.view = x]
    BY <1>2, <1>5 DEF Tabs!Execute
  <2>2. x \in Tabs!View
    OBVIOUS
  <2> HIDE DEF x
  <2>3. call' \in PageCalls /\ call'.kind = call.kind /\ call'.stage = "done" /\ call'.view = x
    BY <1>1, <2>1, <2>2 DEF PageCalls, CallStages
  <2> USE DEF x
  <2> QED
    BY <2>3
<1>7. PageType'
  <2>1. server' \in Versions /\ fresh' \in SUBSET Ids
    BY <1>1, <1>3, <1>4 DEF PageType, Versions
  <2> QED
    BY <1>1, <1>6, <2>1 DEF PageType, Tabs!Execute, Tabs!list, Tabs!shown
<1>8. DraftsKept'
  BY DEF ViewsInvariant, DraftsKept, Tabs!Execute, Tabs!shown
<1>9. ServerInOrder'
  BY <1>3, <1>4, <1>5 DEF ViewsInvariant, ServerInOrder
<1>10. \A u \in Tabs!View : /\ NameIsTrue(u) => NameIsTrue(u)'
                            /\ ConfigIsTrue(u) => ConfigIsTrue(u)'
  BY <1>1, <1>3, <1>4, TruthOutlivesWrites
<1>11. PageIsTrue'
  BY <1>10, PageOutlivesWrites DEF Tabs!Execute
<1>12. WritesAreTrue'
  <2>1. ASSUME call'.kind # "delete"
        PROVE  True(call.view)'
    <3>1. CASE w = None
      <4>1. v.id \notin fresh'
        BY <1>4, <1>6, <2>1
      <4> QED
        BY <1>3, <1>5, <1>6, <3>1, <4>1 DEF True, NameIsTrue, ConfigIsTrue, Past, Latest
    <3>2. CASE w # None
      <4>1. w \in Tabs!View /\ server'[w.id] = w /\ w.id \notin fresh' /\ call'.view = w
        BY <1>4, <1>5, <1>6, <2>1, <3>2
      <4>2. True(w)'
        BY <4>1 DEF True, NameIsTrue, ConfigIsTrue, Past, Latest, Tabs!View
      <4> QED
        BY <4>1, <4>2 DEF True, NameIsTrue, ConfigIsTrue, Past, Latest
    <3> QED
      BY <3>1, <3>2
  <2>2. autosave' = autosave
    BY DEF Tabs!Execute
  <2>3. call'.stage # "sent"
    BY <1>6
  <2> QED
    BY <1>10, <2>1, <2>2, <2>3, RenameOutlivesWrites DEF WritesAreTrue
<1>13. Tabs!WriteKeepsTheRest
  BY <1>4, <1>5 DEF Tabs!WriteKeepsTheRest
<1> QED
  BY <1>7, <1>8, <1>9, <1>11, <1>12, <1>13 DEF ViewsInvariant

LEMMA FailCallStep ==
  ASSUME ViewsInvariant, Tabs!FailCall
  PROVE  ViewsInvariant'
<1>1. PageType' /\ DraftsKept'
  BY DEF ViewsInvariant, DraftsKept, PageType, Tabs!FailCall, Tabs!api, Tabs!list, Tabs!shown
<1>2. ServerInOrder' /\ PageIsTrue' /\ WritesAreTrue'
  BY TruthOfThePage DEF Tabs!FailCall, Tabs!list
<1> QED
  BY <1>1, <1>2 DEF ViewsInvariant

\* An answer tells the truth, and the list takes it if it has the view.
LEMMA AnswerIsTrue ==
  ASSUME ViewsInvariant, NEW kind \in {"save", "create"}, Tabs!Done(kind)
  PROVE  call.view \in Tabs!View /\ True(call.view)
BY DEF ViewsInvariant, WritesAreTrue, PageType, PageCalls, Tabs!Done

LEMMA ListedIs ==
  ASSUME PageType, NEW v \in Tabs!View
  PROVE  /\ Tabs!Listed(v) \in Versions
         /\ \A id \in Ids : Tabs!Listed(v)[id] # None => Tabs!Listed(v)[id] = views[id] \/ Tabs!Listed(v)[id] = v
BY DEF PageType, Versions, Tabs!Listed, Tabs!View

LEMMA AnswerSaveStep ==
  ASSUME Tabs!ViewsAssumption, ViewsInvariant, Tabs!AnswerSave
  PROVE  ViewsInvariant'
<1>1. PageType
  BY DEF ViewsInvariant
<1>2. PICK v \in Tabs!View : v = call.view /\ True(v)
  BY AnswerIsTrue DEF Tabs!AnswerSave
<1>3. v.id \in Ids /\ v.id \in Tabs!Tabs
  BY DEF Tabs!View, Tabs!Tabs
<1>4. /\ views' = Tabs!Listed(v) /\ drafts' = Tabs!Kept(v)
      /\ autosave' = IF active = v.id THEN Tabs!Initialized(v) ELSE autosave
      /\ wanted' = [wanted EXCEPT ![v.id] = IF wanted[v.id] = v.config THEN None
                                            ELSE wanted[v.id]]
  BY <1>2 DEF Tabs!AnswerSave
<1>5. /\ views' \in Versions
      /\ \A id \in Ids : views'[id] # None => views'[id] = views[id] \/ True(views'[id])
  BY <1>1, <1>2, <1>4, ListedIs
<1>6. /\ autosave' \in Autosaves
      /\ autosave'.saved # None => autosave'.saved = autosave.saved \/ True(autosave'.saved)
      /\ autosave'.flight # None =>
           /\ autosave.flight # None
           /\ autosave'.flight.view = autosave.flight.view
           /\ autosave'.flight.stage = autosave.flight.stage
  BY <1>1, <1>2, <1>4, InitializedIs DEF PageType
<1>7. /\ DOMAIN drafts' \subseteq Tabs!Tabs /\ drafts' \in [DOMAIN drafts' -> Shown]
      /\ \A t \in DOMAIN drafts : t # v.id \/ drafts[t] # v.config =>
           t \in DOMAIN drafts' /\ drafts'[t] = drafts[t]
  BY <1>1, <1>3, <1>4, DiscardIs DEF Tabs!Kept, PageType
<1>8. wanted' \in [Tabs!Tabs -> Shown \cup {None}]
  BY <1>1, <1>3, <1>4 DEF PageType
<1>9. PageType'
  BY <1>1, <1>5, <1>6, <1>7, <1>8 DEF PageType, Tabs!AnswerSave, Tabs!api
<1>10. DraftsKept'
  <2> SUFFICES ASSUME NEW t \in Tabs!Tabs, wanted'[t] # None
               PROVE  IF t = active THEN config = wanted'[t]
                      ELSE t \in DOMAIN drafts' /\ drafts'[t] = wanted'[t]
    BY DEF DraftsKept, Tabs!AnswerSave
  <2>1. wanted'[t] = wanted[t] /\ (t = v.id => wanted[t] # v.config)
    BY <1>1, <1>3, <1>4 DEF PageType
  <2>2. IF t = active THEN config = wanted[t] ELSE t \in DOMAIN drafts /\ drafts[t] = wanted[t]
    BY <2>1 DEF ViewsInvariant, DraftsKept
  <2> QED
    BY <1>7, <2>1, <2>2
<1>11. ServerInOrder' /\ PageIsTrue' /\ WritesAreTrue'
  BY <1>5, <1>6, TruthOfThePage DEF Tabs!AnswerSave
<1> QED
  BY <1>9, <1>10, <1>11 DEF ViewsInvariant

LEMMA AnswerCreateStep ==
  ASSUME Tabs!ViewsAssumption, ViewsInvariant, Tabs!AnswerCreate
  PROVE  ViewsInvariant'
<1>1. PageType
  BY DEF ViewsInvariant
<1>2. PICK v \in Tabs!View : v = call.view /\ True(v)
  BY AnswerIsTrue DEF Tabs!AnswerCreate
<1>3. v.id \in Ids /\ v.id \in Tabs!Tabs /\ v.config \in Configs
  BY DEF Tabs!View, Tabs!Tabs
<1>4. /\ views' = [views EXCEPT ![v.id] = v] /\ drafts' = Tabs!Discard(v.id)
      /\ active' = v.id /\ config' = Tabs!Normal(v.config)
      /\ autosave' = Tabs!Initialized(v)
      /\ wanted' = [wanted EXCEPT ![v.id] = None, ![active] = None]
  BY <1>2 DEF Tabs!AnswerCreate, Tabs!Show
<1>5. /\ views' \in Versions
      /\ \A id \in Ids : views'[id] # None => views'[id] = views[id] \/ True(views'[id])
  BY <1>1, <1>2, <1>3, <1>4 DEF PageType, Versions
<1>6. /\ autosave' \in Autosaves
      /\ autosave'.saved # None => autosave'.saved = autosave.saved \/ True(autosave'.saved)
      /\ autosave'.flight # None =>
           /\ autosave.flight # None
           /\ autosave'.flight.view = autosave.flight.view
           /\ autosave'.flight.stage = autosave.flight.stage
  BY <1>1, <1>2, <1>4, InitializedIs DEF PageType
<1>7. /\ DOMAIN drafts' \subseteq Tabs!Tabs /\ drafts' \in [DOMAIN drafts' -> Shown]
      /\ \A t \in DOMAIN drafts : t # v.id => t \in DOMAIN drafts' /\ drafts'[t] = drafts[t]
  BY <1>1, <1>3, <1>4, DiscardIs DEF PageType
<1>8. /\ wanted' \in [Tabs!Tabs -> Shown \cup {None}]
      /\ \A t \in Tabs!Tabs : wanted'[t] # None => wanted'[t] = wanted[t] /\ t # v.id /\ t # active
  BY <1>1, <1>3, <1>4 DEF PageType
<1>9. config' \in Shown
  BY <1>3, <1>4, NormalIsShown
<1>10. PageType'
  BY <1>1, <1>3, <1>4, <1>5, <1>6, <1>7, <1>8, <1>9 DEF PageType, Tabs!AnswerCreate, Tabs!api
<1>11. DraftsKept'
  BY <1>4, <1>7, <1>8 DEF ViewsInvariant, DraftsKept
<1>12. ServerInOrder' /\ PageIsTrue' /\ WritesAreTrue'
  BY <1>5, <1>6, TruthOfThePage DEF Tabs!AnswerCreate
<1> QED
  BY <1>10, <1>11, <1>12 DEF ViewsInvariant

\* When the tab that is shown is deleted the built-in one opens, with its draft.
LEMMA AnswerDeleteStep ==
  ASSUME Tabs!ViewsAssumption, ViewsInvariant, Tabs!AnswerDelete
  PROVE  ViewsInvariant'
<1>1. PageType
  BY DEF ViewsInvariant
<1>2. PICK id \in Ids : id = call.view.id
  BY DEF Tabs!AnswerDelete, Tabs!Done, ViewsInvariant, PageType, PageCalls, Tabs!View
<1>3. id \in Tabs!Tabs /\ Standard \in Tabs!Tabs /\ id # Standard
  BY DEF Tabs!Tabs, Tabs!ViewsAssumption
<1>4. /\ views' = [views EXCEPT ![id] = None] /\ drafts' = Tabs!Discard(id)
      /\ IF active = id
         THEN active' = Standard /\ config' = Tabs!Normal(Tabs!Draft(Standard))
              /\ autosave' = Tabs!Initialized(None)
         ELSE UNCHANGED <<active, config, autosave>>
      /\ wanted' = [wanted EXCEPT ![id] = None]
  BY <1>2 DEF Tabs!AnswerDelete, Tabs!Show
<1>5. /\ views' \in Versions
      /\ \A o \in Ids : views'[o] # None => views'[o] = views[o]
  BY <1>1, <1>4 DEF PageType, Versions
<1>6. /\ autosave' \in Autosaves
      /\ autosave'.saved # None => autosave'.saved = autosave.saved
      /\ autosave'.flight # None =>
           /\ autosave.flight # None
           /\ autosave'.flight.view = autosave.flight.view
           /\ autosave'.flight.stage = autosave.flight.stage
  BY <1>1, <1>4, InitializedIs DEF PageType
<1>7. /\ DOMAIN drafts' \subseteq Tabs!Tabs /\ drafts' \in [DOMAIN drafts' -> Shown]
      /\ \A t \in DOMAIN drafts : t # id => t \in DOMAIN drafts' /\ drafts'[t] = drafts[t]
  BY <1>1, <1>3, <1>4, DiscardIs DEF PageType
<1>8. /\ wanted' \in [Tabs!Tabs -> Shown \cup {None}]
      /\ \A t \in Tabs!Tabs : wanted'[t] # None => wanted'[t] = wanted[t] /\ t # id
  BY <1>1, <1>3, <1>4 DEF PageType
<1>9. /\ active' \in Tabs!Tabs /\ config' \in Shown
      /\ active = id /\ Tabs!Draft(Standard) \in Shown => config' = Tabs!Draft(Standard)
  BY <1>1, <1>3, <1>4, BaseIsConfig, NormalIsShown DEF PageType
<1>10. PageType'
  BY <1>1, <1>5, <1>6, <1>7, <1>8, <1>9 DEF PageType, Tabs!AnswerDelete, Tabs!api
<1>11. DraftsKept'
  <2> SUFFICES ASSUME NEW t \in Tabs!Tabs, wanted'[t] # None
               PROVE  IF t = active' THEN config' = wanted'[t]
                      ELSE t \in DOMAIN drafts' /\ drafts'[t] = wanted'[t]
    BY DEF DraftsKept
  <2>1. wanted'[t] = wanted[t] /\ t # id
    BY <1>8
  <2>2. IF t = active THEN config = wanted[t] ELSE t \in DOMAIN drafts /\ drafts[t] = wanted[t]
    BY <2>1 DEF ViewsInvariant, DraftsKept
  <2>3. CASE active # id
    BY <1>4, <1>7, <2>1, <2>2, <2>3
  <2>4. CASE active = id /\ t # Standard
    BY <1>4, <1>7, <2>1, <2>2, <2>4
  <2>5. CASE active = id /\ t = Standard
    <3>1. Tabs!Draft(Standard) = wanted[t] /\ Tabs!Draft(Standard) \in Shown
      BY <1>1, <2>1, <2>2, <2>5 DEF Tabs!Draft, PageType
    <3> QED
      BY <1>4, <1>9, <2>1, <2>5, <3>1
  <2> QED
    BY <2>3, <2>4, <2>5
<1>12. ServerInOrder' /\ PageIsTrue' /\ WritesAreTrue'
  BY <1>5, <1>6, TruthOfThePage DEF Tabs!AnswerDelete
<1> QED
  BY <1>10, <1>11, <1>12 DEF ViewsInvariant

-----------------------------------------------------------------------------
\* The commits of the settings.

LEMMA QueueIs ==
  ASSUME ViewsInvariant, Tabs!Idle
  PROVE  /\ autosave.queue \in Seq(NameCommits) /\ autosave.queue # <<>>
         /\ Tabs!Next1 \in NameCommits /\ Tail(autosave.queue) \in Seq(NameCommits)
<1>1. autosave.queue \in Seq(NameCommits) /\ autosave.queue # <<>>
  BY DEF ViewsInvariant, PageType, Autosaves, Tabs!Idle
<1> QED
  BY <1>1 DEF Tabs!Next1

LEMMA SkipRenameStep ==
  ASSUME ViewsInvariant, Tabs!SkipRename
  PROVE  ViewsInvariant'
<1>1. /\ autosave' \in Autosaves
      /\ autosave'.saved = autosave.saved /\ autosave'.flight = autosave.flight
  <2>1. autosave \in Autosaves /\ Tail(autosave.queue) \in Seq(NameCommits)
    BY QueueIs DEF Tabs!SkipRename, ViewsInvariant, PageType
  <2>2. autosave' = [autosave EXCEPT !.queue = Tail(autosave.queue)]
    BY DEF Tabs!SkipRename
  <2> QED
    BY <2>1, <2>2 DEF Autosaves
<1>2. PageType' /\ DraftsKept'
  BY <1>1 DEF ViewsInvariant, DraftsKept, PageType, Tabs!SkipRename, Tabs!api, Tabs!list,
     Tabs!shown
<1>3. ServerInOrder' /\ PageIsTrue' /\ WritesAreTrue'
  BY <1>1, TruthOfThePage DEF Tabs!SkipRename, Tabs!list
<1> QED
  BY <1>2, <1>3 DEF ViewsInvariant

\* A rename takes the rest of the view from what was saved last.
LEMMA SendRenameStep ==
  ASSUME ViewsInvariant, Tabs!SendRename
  PROVE  ViewsInvariant'
<1>1. autosave \in Autosaves /\ Tail(autosave.queue) \in Seq(NameCommits) /\ Tabs!Next1 \in NameCommits
  BY QueueIs DEF Tabs!SendRename, ViewsInvariant, PageType
<1>2. autosave.saved # None
  BY DEF Tabs!SendRename, Tabs!Useless
<1>3. PICK v \in Tabs!View : v = autosave.saved /\ True(v)
  BY <1>1, <1>2 DEF Autosaves, ViewsInvariant, PageIsTrue
<1> DEFINE w == [v EXCEPT !.name = Tabs!Next1.name]
           f == [view |-> w, live |-> TRUE, stage |-> "sent"]
<1>4. w \in Tabs!View /\ w.id = v.id /\ w.config = v.config /\ w.version = v.version
  BY <1>1 DEF Tabs!View, NameCommits
<1>5. ConfigIsTrue(w)
  BY <1>3, <1>4 DEF True, ConfigIsTrue, Past, Latest
<1>6. autosave' = [autosave EXCEPT !.queue = Tail(autosave.queue), !.flight = f]
  BY <1>3 DEF Tabs!SendRename, Tabs!Renamed
<1> HIDE DEF w
<1>7. f \in Renames
  BY <1>4 DEF Renames, CallStages
<1>8. f.view = w /\ f.stage = "sent"
  OBVIOUS
<1> HIDE DEF f
<1>9. /\ autosave' \in Autosaves
      /\ autosave'.saved = autosave.saved /\ autosave'.flight = f
  BY <1>1, <1>6, <1>7 DEF Autosaves
<1>10. PageType' /\ DraftsKept'
  BY <1>9 DEF ViewsInvariant, DraftsKept, PageType, Tabs!SendRename, Tabs!api, Tabs!list,
     Tabs!shown
<1>11. ServerInOrder' /\ PageIsTrue' /\ WritesAreTrue'
  BY <1>5, <1>8, <1>9, TruthOfThePage DEF Tabs!SendRename, Tabs!list
<1> QED
  BY <1>10, <1>11 DEF ViewsInvariant

LEMMA ExecuteRenameStep ==
  ASSUME Tabs!ViewsAssumption, ViewsInvariant, Tabs!ExecuteRename
  PROVE  ViewsInvariant' /\ Tabs!WriteKeepsTheRest
<1>1. PageType /\ autosave \in Autosaves /\ autosave.flight \in Renames
  BY DEF ViewsInvariant, PageType, Autosaves, Tabs!ExecuteRename
<1>2. PICK v \in Tabs!View : v = autosave.flight.view /\ ConfigIsTrue(v)
  BY <1>1 DEF Renames, ViewsInvariant, WritesAreTrue, Tabs!ExecuteRename
<1>3. v.id \in Ids /\ v.version \in Nat
  BY DEF Tabs!View
<1>4. /\ server[v.id] # None /\ server[v.id].version = v.version /\ fresh' = fresh
      /\ server' = [server EXCEPT ![v.id] = Tabs!Stored(v)]
  BY <1>2 DEF Tabs!ExecuteRename, Tabs!Accepted
<1>5. PICK w \in Tabs!View : /\ server' = [server EXCEPT ![v.id] = w] /\ w.id = v.id
                             /\ w.config = v.config /\ w.version = server[v.id].version + 1
  <2> DEFINE u == [v EXCEPT !.version = server[v.id].version + 1]
  <2>1. u \in Tabs!View /\ u.id = v.id /\ u.config = v.config /\ u.version = server[v.id].version + 1
    BY <1>3, <1>4 DEF Tabs!View
  <2>2. Tabs!Stored(v) = u
    BY DEF Tabs!Stored
  <2> HIDE DEF u
  <2> QED
    BY <1>4, <2>1, <2>2
<1>6. server'[v.id] = w /\ \A id \in Ids : id # v.id => server'[id] = server[id]
  BY <1>1, <1>3, <1>5 DEF PageType, Versions
<1>7. v.config = server[v.id].config /\ v.id \notin fresh
  BY <1>2, <1>4 DEF ConfigIsTrue, Past, Latest
<1>8. /\ autosave' \in Autosaves /\ autosave'.saved = autosave.saved
      /\ autosave'.flight.view = w /\ autosave'.flight.stage = "done"
  <2> DEFINE f == [autosave.flight EXCEPT !.stage = "done", !.view = w]
  <2>1. f \in Renames /\ f.view = w /\ f.stage = "done"
    BY <1>1 DEF Renames, CallStages
  <2>2. autosave' = [autosave EXCEPT !.flight.stage = "done", !.flight.view = w]
    BY <1>2, <1>6 DEF Tabs!ExecuteRename
  <2>3. autosave' = [autosave EXCEPT !.flight = f]
    BY <1>1, <2>2 DEF Autosaves, Renames
  <2> HIDE DEF f
  <2> QED
    BY <1>1, <2>1, <2>3 DEF Autosaves
<1>9. PageType'
  <2>1. server' \in Versions
    BY <1>1, <1>3, <1>4, <1>5 DEF PageType, Versions
  <2> QED
    BY <1>1, <1>8, <2>1 DEF PageType, Tabs!ExecuteRename, Tabs!list, Tabs!shown
<1>10. DraftsKept'
  BY DEF ViewsInvariant, DraftsKept, Tabs!ExecuteRename, Tabs!shown
<1>11. ServerInOrder'
  BY <1>3, <1>4, <1>5, <1>6, <1>7 DEF ViewsInvariant, ServerInOrder
<1>12. \A u \in Tabs!View : /\ NameIsTrue(u) => NameIsTrue(u)'
                            /\ ConfigIsTrue(u) => ConfigIsTrue(u)'
  BY <1>1, <1>3, <1>4, <1>5, TruthOutlivesWrites
<1>13. PageIsTrue'
  BY <1>8, <1>12, PageOutlivesWrites DEF Tabs!ExecuteRename
<1>14. WritesAreTrue'
  <2>1. True(autosave.flight.view)'
    <3>1. server'[w.id] = w /\ w.id \notin fresh'
      BY <1>4, <1>5, <1>6, <1>7
    <3>2. True(w)'
      BY <1>5, <3>1 DEF True, NameIsTrue, ConfigIsTrue, Past, Latest, Tabs!View
    <3> QED
      BY <1>8, <3>2 DEF True, NameIsTrue, ConfigIsTrue, Past, Latest
  <2>2. call' = call
    BY DEF Tabs!ExecuteRename
  <2> QED
    BY <1>12, <2>1, <2>2, CallOutlivesWrites DEF WritesAreTrue, True
<1>15. Tabs!WriteKeepsTheRest
  BY <1>5, <1>6, <1>7 DEF Tabs!WriteKeepsTheRest
<1> QED
  BY <1>9, <1>10, <1>11, <1>13, <1>14, <1>15 DEF ViewsInvariant

LEMMA FailRenameStep ==
  ASSUME ViewsInvariant, Tabs!FailRename
  PROVE  ViewsInvariant'
<1>1. autosave' \in Autosaves /\ autosave'.saved = autosave.saved /\ autosave'.flight = None
  BY DEF ViewsInvariant, PageType, Autosaves, Tabs!FailRename
<1>2. PageType' /\ DraftsKept'
  BY <1>1 DEF ViewsInvariant, DraftsKept, PageType, Tabs!FailRename, Tabs!api, Tabs!list,
     Tabs!shown
<1>3. ServerInOrder' /\ PageIsTrue' /\ WritesAreTrue'
  BY <1>1, TruthOfThePage DEF Tabs!FailRename, Tabs!list
<1> QED
  BY <1>2, <1>3 DEF ViewsInvariant

LEMMA AnswerRenameStep ==
  ASSUME Tabs!ViewsAssumption, ViewsInvariant, Tabs!AnswerRename
  PROVE  ViewsInvariant'
<1>1. PageType /\ autosave \in Autosaves /\ autosave.flight \in Renames
  BY DEF ViewsInvariant, PageType, Autosaves, Tabs!AnswerRename
<1>2. PICK v \in Tabs!View : v = autosave.flight.view /\ True(v)
  BY <1>1 DEF Renames, ViewsInvariant, WritesAreTrue, Tabs!AnswerRename
<1>3. /\ views' = Tabs!Listed(v)
      /\ autosave' = [autosave EXCEPT !.flight = None,
                        !.saved = IF autosave.flight.live THEN v ELSE autosave.saved]
  BY <1>2 DEF Tabs!AnswerRename
<1>4. /\ views' \in Versions
      /\ \A id \in Ids : views'[id] # None => views'[id] = views[id] \/ True(views'[id])
  BY <1>1, <1>2, <1>3, ListedIs
<1>5. /\ autosave' \in Autosaves /\ autosave'.flight = None
      /\ autosave'.saved # None => autosave'.saved = autosave.saved \/ True(autosave'.saved)
  BY <1>1, <1>2, <1>3 DEF Autosaves
<1>6. PageType' /\ DraftsKept'
  BY <1>1, <1>4, <1>5 DEF ViewsInvariant, DraftsKept, PageType, Tabs!AnswerRename, Tabs!api,
     Tabs!shown
<1>7. ServerInOrder' /\ PageIsTrue' /\ WritesAreTrue'
  BY <1>4, <1>5, TruthOfThePage DEF Tabs!AnswerRename
<1> QED
  BY <1>6, <1>7 DEF ViewsInvariant

-----------------------------------------------------------------------------
LEMMA ViewsInit ==
  ASSUME Tabs!ViewsAssumption, Tabs!Init
  PROVE  ViewsInvariant
<1>1. server \in Versions /\ ServerInOrder
  <2>1. PICK n \in Names :
          server = [id \in Ids |-> IF id \in fresh THEN None
                      ELSE [id |-> id, name |-> n, config |-> Default, version |-> 1]]
    BY DEF Tabs!Init
  <2>2. \A id \in Ids : [id |-> id, name |-> n, config |-> Default, version |-> 1] \in Tabs!View
    BY DEF Tabs!ViewsAssumption, Tabs!View
  <2> QED
    BY <2>1, <2>2 DEF Versions, ServerInOrder
<1>2. [saved |-> None, queue |-> <<>>, flight |-> None] \in Autosaves
  BY DEF Autosaves
<1>3. [got |-> None] \in ViewLoads
  BY DEF ViewLoads
<1>4. drafts \in [DOMAIN drafts -> Shown] /\ DOMAIN drafts = {}
  BY DEF Tabs!Init
<1>5. PageType
  BY <1>1, <1>2, <1>3, <1>4 DEF PageType, Tabs!Init, Tabs!ViewsAssumption, Versions,
     Tabs!Tabs, Shown
<1>6. DraftsKept /\ PageIsTrue /\ WritesAreTrue
  BY DEF Tabs!Init, DraftsKept, PageIsTrue, WritesAreTrue
<1> QED
  BY <1>1, <1>5, <1>6 DEF ViewsInvariant

LEMMA ViewsNext ==
  ASSUME Tabs!ViewsAssumption, ViewsInvariant, [Tabs!Next]_(Tabs!vars)
  PROVE  ViewsInvariant' /\ Tabs!WriteKeepsTheRest
<1>1. CASE Tabs!Execute
  BY <1>1, ExecuteCallStep
<1>2. CASE Tabs!ExecuteRename
  BY <1>2, ExecuteRenameStep
<1>3. CASE Tabs!Others
  <2>1. ViewsInvariant'
    BY <1>3, OtherEditStep, OtherDeleteStep DEF Tabs!Others
  <2>2. call' = call /\ autosave' = autosave
    BY <1>3 DEF Tabs!Others, Tabs!OtherEdit, Tabs!OtherDelete
  <2> QED
    BY <2>1, <2>2 DEF Tabs!WriteKeepsTheRest
<1>4. CASE UNCHANGED Tabs!api /\ ViewsInvariant'
  BY <1>4 DEF Tabs!api, Tabs!WriteKeepsTheRest
<1>5. CASE Tabs!Loading
  <2>1. ViewsInvariant'
    BY <1>5, ServeViewsStep, FailViewsStep, ReceiveViewsStep,
       RefreshViewsStep DEF Tabs!Loading
  <2>2. UNCHANGED Tabs!api
    BY <1>5 DEF Tabs!Loading, Tabs!ServeLoad, Tabs!FailLoad, Tabs!ReceiveLoad,
       Tabs!RefreshViews
  <2> QED
    BY <1>4, <2>1, <2>2
<1>6. CASE Tabs!Reader
  <2>1. ViewsInvariant'
    BY <1>6, EditViewStep, SelectStep, RenameStep, ResetDraftStep, SaveStep, OpenCreateStep,
       OpenOtherStep, CloseDialogStep, WriteStep DEF Tabs!Reader, Shown
  <2>2. UNCHANGED Tabs!api
    BY <1>6 DEF Tabs!Reader, Tabs!Edit, Tabs!Select, Tabs!Rename, Tabs!ResetDraft, Tabs!Save,
       Tabs!OpenCreate, Tabs!OpenOther, Tabs!Open,
                Tabs!CloseDialog, Tabs!Write
  <2> QED
    BY <1>4, <2>1, <2>2
<1>7. CASE Tabs!FailCall \/ Tabs!AnswerSave \/ Tabs!AnswerCreate \/ Tabs!AnswerDelete
  <2>1. ViewsInvariant'
    BY <1>7, FailCallStep, AnswerSaveStep, AnswerCreateStep, AnswerDeleteStep
  <2>2. UNCHANGED Tabs!api
    BY <1>7 DEF Tabs!FailCall, Tabs!AnswerSave, Tabs!AnswerCreate, Tabs!AnswerDelete
  <2> QED
    BY <1>4, <2>1, <2>2
<1>8. CASE Tabs!SkipRename \/ Tabs!SendRename \/ Tabs!FailRename \/ Tabs!AnswerRename
  <2>1. ViewsInvariant'
    BY <1>8, SkipRenameStep, SendRenameStep, FailRenameStep, AnswerRenameStep
  <2>2. UNCHANGED Tabs!api
    BY <1>8 DEF Tabs!SkipRename, Tabs!SendRename, Tabs!FailRename, Tabs!AnswerRename
  <2> QED
    BY <1>4, <2>1, <2>2
<1>9. CASE UNCHANGED Tabs!vars
  <2>1. UNCHANGED <<Tabs!api, Tabs!list, Tabs!shown, autosave, dialog, call, load, error, wanted, events>>
    BY <1>9 DEF Tabs!vars
  <2>2. PageType' /\ DraftsKept' /\ ServerInOrder'
    BY <2>1 DEF ViewsInvariant, PageType, DraftsKept, ServerInOrder, Tabs!api, Tabs!list,
       Tabs!shown
  <2>3. PageIsTrue'
    BY <2>1 DEF ViewsInvariant, PageIsTrue, True, NameIsTrue, ConfigIsTrue, Past, Latest,
       Tabs!api,
                Tabs!list
  <2>4. WritesAreTrue'
    BY <2>1 DEF ViewsInvariant, WritesAreTrue, True, NameIsTrue, ConfigIsTrue, Past, Latest,
                Tabs!api
  <2> QED
    BY <1>4, <2>1, <2>2, <2>3, <2>4 DEF ViewsInvariant
<1> QED
  BY <1>1, <1>2, <1>3, <1>5, <1>6, <1>7, <1>8, <1>9 DEF Tabs!Next, Tabs!Answering

\* The inductive invariant of the saved views, for any number of views, names and
\* configurations.
THEOREM ViewsStaySound ==
  ASSUME Tabs!ViewsAssumption
  PROVE  Tabs!Spec => []ViewsInvariant
<1>1. Tabs!Init => ViewsInvariant
  BY ViewsInit
<1>2. ViewsInvariant /\ [Tabs!Next]_(Tabs!vars) => ViewsInvariant'
  BY ViewsNext
<1> QED
  BY <1>1, <1>2, PTL DEF Tabs!Spec

\* The variables have their types (entity-view-toolbar.tsx).
THEOREM ViewsTypeCorrect ==
  ASSUME Tabs!ViewsAssumption
  PROVE  Tabs!Spec => []Tabs!TypeOK
<1>1. ViewsInvariant => Tabs!TypeOK
  BY DEF ViewsInvariant, PageType, Versions, Autosaves, PageCalls, Tabs!TypeOK, Shown
<1> QED
  BY <1>1, ViewsStaySound, PTL

\* The drafts of the tabs survive switching, saving, refusals, deletions of other views
\* and loads (entity-view-toolbar.tsx, docs/entity-views.md).
THEOREM DraftsSurvive ==
  ASSUME Tabs!ViewsAssumption
  PROVE  Tabs!Spec => []Tabs!DraftIsKept
<1>1. ViewsInvariant => Tabs!DraftIsKept
  BY DEF ViewsInvariant, DraftsKept, Tabs!DraftIsKept
<1> QED
  BY <1>1, ViewsStaySound, PTL

\* A save keeps the name, and a rename the configuration, that anybody gave the view
\* meanwhile (entity_views.go).
THEOREM SavesKeepTheRest ==
  ASSUME Tabs!ViewsAssumption
  PROVE  Tabs!Spec => [][Tabs!WriteKeepsTheRest]_(Tabs!vars)
<1>1. ViewsInvariant /\ [Tabs!Next]_(Tabs!vars) => [Tabs!WriteKeepsTheRest]_(Tabs!vars)
  BY ViewsNext
<1> QED
  BY <1>1, ViewsStaySound, PTL DEF Tabs!Spec

-----------------------------------------------------------------------------
\* Fields.  As long as no load crosses a write, a field that was acknowledged has the same
\* value wherever the screen would take it from (MineHolds), and what was committed and
\* not answered is in the queue or under way (AskedIsPending).

FormLoads == [got : Form!Records \cup {None}]

\* The screen, its queue and the server's record.
FormType ==
  /\ form \in Forms /\ server \in Form!Records /\ late \in Form!Patches \cup {None}
  /\ draft \in Form!Records /\ typing \in Fields \cup {None} /\ dirty \in BOOLEAN
  /\ saved \in Form!Records \cup {None} /\ persisted \in Form!Records \cup {None}
  /\ queue \in Seq(Form!Commits) /\ flight \in Form!Flights \cup {None} /\ load \in FormLoads \cup {None}
  /\ flight # None =>
       flight.requests # <<>> /\ (flight.stage = "done" => flight.answer # None)
  /\ mine \in [Fields -> Values \cup {None}] /\ asked \in [Fields -> Values \cup {None}]
  /\ crossed \in BOOLEAN /\ events \in Nat

\* Before the first load there is nothing to write.
NothingYet ==
  /\ saved = None => ~Form!Pending /\ typing = None /\ \A f \in Fields : mine[f] = None
  /\ saved # None => persisted # None

\* The driver's list has one field, a mark that is entered and committed at once.
OneMark ==
  form = "boarding" =>
    typing = None /\ \A i \in DOMAIN queue : DOMAIN queue[i].patch = {Status}

\* A write puts the commit in; where only what was changed is sent, it is of the commit.
FlightFits ==
  flight # None =>
    /\ \A f \in DOMAIN flight.patch : flight.next[f] = flight.patch[f]
    /\ form \in {"boarding", "passengers"} /\ ~crossed =>
         \A i \in DOMAIN flight.requests : flight.requests[i] \subseteq DOMAIN flight.patch

\* No load comes between a commit and its outcome; in the driver's list one that does
\* is ignored.
Quiet == ~crossed => IF form = "boarding" THEN ~Form!Unmarked ELSE load # None => ~Form!Pending

AllLive ==
  ~crossed =>
    (\A i \in DOMAIN queue : queue[i].live) /\ (flight # None => flight.live)

AskedIsPending ==
  ~crossed => \A f \in {f \in Fields : asked[f] # None} :
    \/ flight # None /\ f \in DOMAIN flight.patch
    \/ \E i \in DOMAIN queue : f \in DOMAIN queue[i].patch

PersistedIsSaved == ~crossed /\ Form!Of.resets = "always" /\ saved # None => persisted = saved

\* What the server acknowledged of a field is what is saved, written and loaded of it.
MineHolds(f) ==
  /\ server[f] = mine[f]
  /\ \A i \in DOMAIN queue : f \in DOMAIN queue[i].patch => queue[i].patch[f] = mine[f]
  /\ flight # None /\ f \in DOMAIN flight.patch => flight.patch[f] = mine[f]
  /\ form \notin {"boarding", "passengers"} =>
       /\ saved[f] = mine[f]
       /\ flight # None => flight.next[f] = mine[f]
       /\ load # None /\ load.got # None => load.got[f] = mine[f]
MineIsTrue == ~crossed => \A f \in Fields : mine[f] # None => MineHolds(f)

FieldsInvariant ==
  /\ FormType /\ NothingYet /\ OneMark /\ FlightFits /\ Quiet /\ AllLive /\ AskedIsPending
  /\ PersistedIsSaved /\ MineIsTrue

-----------------------------------------------------------------------------
\* The screens, and the operators on records.

LEMMA FormsAre ==
  ASSUME Form!FieldsAssumption, FormType
  PROVE  /\ Form!Of.body \in {"all", "changed", "status apart"} /\ Form!Of.fields \in SUBSET Fields
         /\ Form!Of.resets \in {"always", "other row", "other row, none unsaved"}
         /\ form = "passengers" => Form!Of.body = "changed" /\ Form!Of.resets = "always"
         /\ form = "boarding" =>
              /\ Form!Of.body = "all" /\ Form!Of.fields = {Status} /\ Form!Of.patch = "field"
              /\ Form!Of.reload = "refresh" /\ Form!Of.resets = "other row, none unsaved"
         /\ form # "passengers" => Form!Of.body # "changed"
         /\ form # "boarding" => Form!Of.resets \in {"always", "other row"}
         /\ Form!Of.reload = "reopen" => Form!Of.resets = "always"
         /\ form = "preferences" => Form!Of.resets = "always"
BY DEF Form!FieldsAssumption, FormType, Form!Of, Form!Plain, Form!Payment, Form!Rates,
   Form!Preferences, Form!Notifications,
       Form!Numbers, Form!StatusForm, Form!Navigation, Form!Passengers, Form!Company,
       Form!Profile, Form!Detail, Form!Trip, Form!Review,
       Form!Boarding, Form!FieldForm

LEMMA PatchesAre ==
  ASSUME NEW p \in Form!Patches
  PROVE  DOMAIN p \in SUBSET Fields /\ \A f \in DOMAIN p : p[f] \in Values
BY DEF Form!Patches

LEMMA PatchOf ==
  ASSUME NEW S \in SUBSET Fields, NEW r \in Form!Records
  PROVE  [f \in S |-> r[f]] \in Form!Patches
<1>1. [f \in S |-> r[f]] \in [S -> Values]
  BY DEF Form!Records
<1> QED
  BY <1>1 DEF Form!Patches

LEMMA PutIs ==
  ASSUME NEW base, NEW patch
  PROVE  /\ base \in Form!Records /\ patch \in Form!Patches => Form!Put(base, patch) \in Form!Records
         /\ \A f \in Fields : Form!Put(base, patch)[f] = IF f \in DOMAIN patch THEN patch[f] ELSE base[f]
<1>1. \A f \in Fields : Form!Put(base, patch)[f] = IF f \in DOMAIN patch THEN patch[f] ELSE base[f]
  BY DEF Form!Put
<1>2. ASSUME base \in Form!Records, patch \in Form!Patches
      PROVE  Form!Put(base, patch) \in Form!Records
  BY <1>2, PatchesAre DEF Form!Put, Form!Records
<1> QED
  BY <1>1, <1>2

LEMMA OneRequest ==
  ASSUME NEW X, NEW S \in X
  PROVE  <<S>> \in Seq(X) /\ <<S>> # <<>> /\ DOMAIN <<S>> = {1} /\ <<S>>[1] = S
OBVIOUS

LEMMA TwoRequests ==
  ASSUME NEW X, NEW S \in X, NEW T \in X
  PROVE  /\ <<S>> \o <<>> = <<S>> /\ <<>> \o <<T>> = <<T>>
         /\ <<S>> \o <<T>> \in Seq(X) /\ <<S>> \o <<T>> # <<>>
<1>1. <<S>> \o <<>> = <<S>> /\ <<>> \o <<T>> = <<T>>
  OBVIOUS
<1>2. <<S>> \in Seq(X) /\ <<T>> \in Seq(X) /\ Len(<<S>>) = 1 /\ Len(<<T>>) = 1
  OBVIOUS
<1>3. <<S>> \o <<T>> \in Seq(X) /\ Len(<<S>> \o <<T>>) = 2
  BY <1>2
<1> QED
  BY <1>1, <1>3

LEMMA RequestsAre ==
  ASSUME Form!FieldsAssumption, FormType, NEW next \in Form!Records
  PROVE  /\ Form!Requests(next) \in Seq(SUBSET Fields) /\ Form!Requests(next) # <<>>
         /\ form = "boarding" => \A i \in DOMAIN Form!Requests(next) : Form!Requests(next)[i] = {Status}
         /\ form = "passengers" =>
              \A i \in DOMAIN Form!Requests(next) : Form!Requests(next)[i] = Form!Changed(next, persisted)
<1> DEFINE new == Form!Changed(next, persisted)
           rest == Fields \ {Status}
<1>1. new \in SUBSET Fields /\ {Status} \in SUBSET Fields /\ rest \in SUBSET Fields
  BY DEF Form!Changed, Form!FieldsAssumption
<1>2. CASE Form!Of.body = "all"
  <2>1. PICK S \in SUBSET Fields : S = Form!Of.fields
    BY FormsAre
  <2>2. Form!Requests(next) = <<S>>
    BY <1>2, <2>1 DEF Form!Requests
  <2>3. /\ Form!Requests(next) \in Seq(SUBSET Fields) /\ Form!Requests(next) # <<>>
        /\ \A i \in DOMAIN Form!Requests(next) : Form!Requests(next)[i] = S
    BY <2>1, <2>2, OneRequest
  <2>4. form # "passengers" /\ (form = "boarding" => S = {Status})
    BY <1>2, <2>1, FormsAre
  <2> QED
    BY <2>3, <2>4
<1>3. CASE Form!Of.body = "changed"
  <2>1. Form!Requests(next) = <<new>>
    BY <1>3 DEF Form!Requests
  <2>2. form # "boarding"
    BY <1>3, FormsAre
  <2> HIDE DEF new
  <2>3. /\ Form!Requests(next) \in Seq(SUBSET Fields) /\ Form!Requests(next) # <<>>
        /\ \A i \in DOMAIN Form!Requests(next) : Form!Requests(next)[i] = new
    BY <1>1, <2>1, OneRequest
  <2> QED
    BY <2>2, <2>3 DEF new
<1>4. CASE Form!Of.body = "status apart"
  <2>1. Form!Requests(next) =
          (IF Status \in new THEN <<{Status}>> ELSE <<>>)
            \o (IF Status \in new /\ new \cap rest = {} THEN <<>> ELSE <<rest>>)
    BY <1>4 DEF Form!Requests
  <2>2. form # "boarding" /\ form # "passengers"
    BY <1>4, FormsAre
  <2> HIDE DEF new, rest
  <2>3. CASE Status \in new /\ new \cap rest = {}
    <3>1. Form!Requests(next) = <<{Status}>> \o <<>>
      BY <2>1, <2>3
    <3> QED
      BY <1>1, <2>2, <3>1, OneRequest, TwoRequests
  <2>4. CASE Status \in new /\ new \cap rest # {}
    <3>1. Form!Requests(next) = <<{Status}>> \o <<rest>>
      BY <2>1, <2>4
    <3> QED
      BY <1>1, <2>2, <3>1, OneRequest, TwoRequests
  <2>5. CASE Status \notin new
    <3>1. Form!Requests(next) = <<>> \o <<rest>>
      BY <2>1, <2>5
    <3> QED
      BY <1>1, <2>2, <3>1, OneRequest, TwoRequests
  <2> QED
    BY <2>3, <2>4, <2>5
<1> QED
  BY <1>2, <1>3, <1>4, FormsAre

\* A queue whose commits belong to an earlier generation.
LEMMA ResetIs ==
  ASSUME FormType, NEW value \in Form!Records, Form!Reset(value)
  PROVE  /\ saved' = value /\ queue' \in Seq(Form!Commits) /\ flight' \in Form!Flights \cup {None}
         /\ DOMAIN queue' = DOMAIN queue
         /\ \A i \in DOMAIN queue : queue'[i].patch = queue[i].patch
         /\ flight = None => flight' = None
         /\ flight # None =>
              /\ flight'.patch = flight.patch /\ flight'.next = flight.next
              /\ flight'.requests = flight.requests /\ flight'.stage = flight.stage
              /\ flight'.answer = flight.answer
<1>1. queue' = [i \in DOMAIN queue |-> [queue[i] EXCEPT !.live = FALSE]]
  BY DEF Form!Reset
<1>2. /\ queue \in Seq(Form!Commits) /\ DOMAIN queue = 1 .. Len(queue) /\ Len(queue) \in Nat
      /\ \A i \in DOMAIN queue : queue[i] \in Form!Commits
  BY DEF FormType
<1>3. \A c \in Form!Commits : /\ [c EXCEPT !.live = FALSE] \in Form!Commits
                              /\ [c EXCEPT !.live = FALSE].patch = c.patch
  BY DEF Form!Commits
<1>4. queue' \in Seq(Form!Commits)
  BY <1>1, <1>2, <1>3
<1>5. CASE flight # None
  <2>1. flight \in Form!Flights /\ flight' = [flight EXCEPT !.live = FALSE]
    BY <1>5 DEF FormType, Form!Reset
  <2>2. flight' \in Form!Flights
    BY <2>1 DEF Form!Flights
  <2>3. flight'.patch = flight.patch /\ flight'.next = flight.next
    BY <2>1 DEF Form!Flights
  <2>4. flight'.requests = flight.requests
    BY <2>1 DEF Form!Flights
  <2>5. flight'.stage = flight.stage
    BY <2>1 DEF Form!Flights
  <2>6. flight'.answer = flight.answer
    BY <2>1 DEF Form!Flights
  <2> QED
    BY <1>1, <1>2, <1>3, <1>4, <1>5, <2>2, <2>3, <2>4, <2>5, <2>6 DEF Form!Reset
<1>6. CASE flight = None
  BY <1>1, <1>2, <1>3, <1>4, <1>6 DEF Form!Reset
<1> QED
  BY <1>5, <1>6

\* What a commit is decided by: no later one gives its field another value.
LEMMA DecidedIs ==
  ASSUME NEW patch, NEW later, NEW f \in DOMAIN patch
  PROVE  f \in Form!Decided(patch, later) <=>
           \A i \in DOMAIN later : f \in DOMAIN later[i].patch => later[i].patch[f] = patch[f]
BY DEF Form!Decided

LEMMA ForgetIs ==
  ASSUME FormType, NEW S
  PROVE  /\ Form!Forget(S) \in [Fields -> Values \cup {None}]
         /\ \A f \in Fields : Form!Forget(S)[f] # None => f \notin S /\ Form!Forget(S)[f] = asked[f]
BY DEF FormType, Form!Forget

\* What every step remembers.
LEMMA RememberIs ==
  ASSUME FormType, Form!Remember, form' = form
  PROVE  /\ crossed' \in BOOLEAN /\ (~crossed' => ~crossed) /\ Quiet'
         /\ ~crossed' /\ Form!Reopen => (Form!Pending => form = "boarding")
         /\ Form!Of' = Form!Of
<1>1. Form!Of' = Form!Of
  BY DEF Form!Of
<1> QED
  BY <1>1 DEF FormType, Form!Remember, Quiet

\* A step that leaves the queue, the write under way and what was committed alone.
LEMMA QueueKept ==
  ASSUME FieldsInvariant, UNCHANGED <<form, queue, flight, asked>>, ~crossed' => ~crossed,
         typing' # None => form # "boarding"
  PROVE  OneMark' /\ FlightFits' /\ AllLive' /\ AskedIsPending'
BY DEF FieldsInvariant, OneMark, FlightFits, AllLive, AskedIsPending

-----------------------------------------------------------------------------
\* The server, and the loads.

LEMMA OtherChangeStep ==
  ASSUME Form!FieldsAssumption, FieldsInvariant, Form!Remember, NEW f \in Fields,
         NEW v \in Values,
         Form!OtherChange(f, v)
  PROVE  FieldsInvariant'
<1>1. FormType
  BY DEF FieldsInvariant
<1>2. /\ crossed' \in BOOLEAN /\ (~crossed' => ~crossed) /\ Quiet' /\ Form!Of' = Form!Of
  BY <1>1, RememberIs DEF Form!OtherChange
<1>3. /\ server' \in Form!Records /\ \A g \in Fields : g # f => server'[g] = server[g]
      /\ mine' \in [Fields -> Values \cup {None}]
      /\ \A g \in Fields : mine'[g] # None => mine'[g] = mine[g] /\ g # f
  BY <1>1 DEF Form!OtherChange, FormType, Form!Records
<1>4. FormType'
  <2>1. events' \in Nat
    BY <1>1 DEF Form!OtherChange, FormType, Form!Event
  <2> QED
    BY <1>1, <1>2, <1>3, <2>1 DEF FormType, Form!OtherChange, Form!hands
<1>5. NothingYet' /\ PersistedIsSaved'
  BY <1>2, <1>3
  DEF FieldsInvariant, NothingYet, PersistedIsSaved, Form!Pending, Form!OtherChange,
      Form!hands
<1>6. OneMark' /\ FlightFits' /\ AllLive' /\ AskedIsPending'
  BY <1>2, QueueKept DEF FieldsInvariant, OneMark, Form!OtherChange, Form!hands
<1>7. MineIsTrue'
  BY <1>2, <1>3 DEF FieldsInvariant, MineIsTrue, MineHolds, Form!OtherChange
<1> QED
  BY <1>2, <1>4, <1>5, <1>6, <1>7 DEF FieldsInvariant

LEMMA LateExecuteStep ==
  ASSUME Form!FieldsAssumption, FieldsInvariant, Form!Remember, Form!LateExecute
  PROVE  FieldsInvariant'
<1>1. FormType
  BY DEF FieldsInvariant
<1>2. /\ crossed' \in BOOLEAN /\ (~crossed' => ~crossed) /\ Quiet' /\ Form!Of' = Form!Of
  BY <1>1, RememberIs DEF Form!LateExecute
<1>3. /\ server' \in Form!Records /\ mine' \in [Fields -> Values \cup {None}]
      /\ \A g \in Fields : mine'[g] # None => mine'[g] = mine[g] /\ server'[g] = server[g]
  <2>1. late \in Form!Patches /\ server' = Form!Put(server, late)
    BY <1>1 DEF Form!LateExecute, FormType
  <2>2. server' \in Form!Records
    BY <1>1, <2>1, PutIs DEF FormType
  <2>3. mine' = [f \in Fields |-> IF server[f] # server'[f] THEN None ELSE mine[f]]
    BY DEF Form!LateExecute, Form!Changed
  <2> QED
    BY <1>1, <2>2, <2>3 DEF FormType
<1>4. FormType'
  BY <1>1, <1>2, <1>3 DEF FormType, Form!LateExecute, Form!hands
<1>5. NothingYet' /\ PersistedIsSaved'
  BY <1>2, <1>3
  DEF FieldsInvariant, NothingYet, PersistedIsSaved, Form!Pending, Form!LateExecute,
      Form!hands
<1>6. OneMark' /\ FlightFits' /\ AllLive' /\ AskedIsPending'
  BY <1>2, QueueKept DEF FieldsInvariant, OneMark, Form!LateExecute, Form!hands
<1>7. MineIsTrue'
  BY <1>2, <1>3 DEF FieldsInvariant, MineIsTrue, MineHolds, Form!LateExecute
<1> QED
  BY <1>2, <1>4, <1>5, <1>6, <1>7 DEF FieldsInvariant

\* A load is begun, answered, or given up.
LEMMA LoadStep ==
  ASSUME Form!FieldsAssumption, FieldsInvariant, Form!Remember,
         UNCHANGED <<form, Form!record, Form!hands, saved, persisted, queue, flight, mine, asked>>,
         events' \in Nat, load' \in {None, Form!Waiting, [got |-> server]}
  PROVE  FieldsInvariant'
<1>1. FormType
  BY DEF FieldsInvariant
<1>2. /\ crossed' \in BOOLEAN /\ (~crossed' => ~crossed) /\ Quiet' /\ Form!Of' = Form!Of
  BY <1>1, RememberIs
<1>3. load' \in FormLoads \cup {None}
  BY <1>1 DEF Form!Waiting, FormLoads, FormType
<1>4. FormType'
  BY <1>1, <1>2, <1>3 DEF FormType, Form!record, Form!hands
<1>5. NothingYet' /\ PersistedIsSaved'
  BY <1>2 DEF FieldsInvariant, NothingYet, PersistedIsSaved, Form!Pending, Form!hands
<1>6. OneMark' /\ FlightFits' /\ AllLive' /\ AskedIsPending'
  BY <1>2, QueueKept DEF FieldsInvariant, OneMark, Form!hands
<1>7. MineIsTrue'
  <2>1. load' # None /\ load'.got # None => load'.got = server
    BY DEF Form!Waiting
  <2> QED
    BY <1>2, <2>1 DEF FieldsInvariant, MineIsTrue, MineHolds, Form!record
<1> QED
  BY <1>2, <1>4, <1>5, <1>6, <1>7 DEF FieldsInvariant

LEMMA FailLoadStep ==
  ASSUME Form!FieldsAssumption, FieldsInvariant, Form!Remember, Form!FailLoad
  PROVE  FieldsInvariant'
<1>1. FormType
  BY DEF FieldsInvariant
<1>2. CASE form = "preferences" /\ saved = None /\ persisted # None
  <2>1. /\ crossed' \in BOOLEAN /\ (~crossed' => ~crossed) /\ Quiet' /\ Form!Of' = Form!Of
    BY <1>1, RememberIs DEF Form!FailLoad
  <2>2. saved' = persisted /\ draft' = persisted /\ load' = None /\ persisted \in Form!Records
    BY <1>1, <1>2 DEF Form!FailLoad, FormType
  <2>3. FormType'
    BY <1>1, <2>1, <2>2 DEF FormType, Form!FailLoad, Form!record
  <2>4. NothingYet' /\ PersistedIsSaved'
    BY <1>2, <2>1, <2>2
    DEF FieldsInvariant, NothingYet, PersistedIsSaved, Form!Pending, Form!FailLoad
  <2>5. OneMark' /\ FlightFits' /\ AllLive' /\ AskedIsPending'
    BY <2>1, QueueKept DEF FieldsInvariant, OneMark, Form!FailLoad
  <2>6. MineIsTrue'
    BY <1>2 DEF FieldsInvariant, NothingYet, MineIsTrue, Form!FailLoad
  <2> QED
    BY <2>1, <2>3, <2>4, <2>5, <2>6 DEF FieldsInvariant
<1>3. CASE ~(form = "preferences" /\ saved = None /\ persisted # None)
  BY <1>1, <1>3, LoadStep DEF Form!FailLoad, FormType, Form!hands
<1> QED
  BY <1>2, <1>3

\* Nothing is under way when a load resets the queue.
LEMMA ResetStep ==
  ASSUME Form!FieldsAssumption, FieldsInvariant, Form!Remember, NEW value \in Form!Records,
         Form!Reset(value),
         UNCHANGED <<form, Form!record, typing, mine, asked>>, draft' \in Form!Records,
         dirty' \in BOOLEAN, load' \in FormLoads \cup {None}, events' \in Nat,
         persisted' = value, ~crossed' => ~Form!Pending,
         ~crossed' /\ form \notin {"boarding", "passengers"} => load' = None \/ load' = load,
         ~crossed' /\ form \notin {"boarding", "passengers"} =>
           \A f \in Fields : mine[f] # None => value[f] = mine[f],
         typing # None => saved # None
  PROVE  FieldsInvariant'
<1>1. FormType
  BY DEF FieldsInvariant
<1>2. /\ crossed' \in BOOLEAN /\ (~crossed' => ~crossed) /\ Quiet' /\ Form!Of' = Form!Of
  BY <1>1, RememberIs
<1>3. /\ saved' = value /\ queue' \in Seq(Form!Commits) /\ flight' \in Form!Flights \cup {None}
      /\ DOMAIN queue' = DOMAIN queue
      /\ \A i \in DOMAIN queue : queue'[i].patch = queue[i].patch
      /\ flight = None => flight' = None
      /\ flight # None =>
           /\ flight'.patch = flight.patch /\ flight'.next = flight.next
           /\ flight'.requests = flight.requests /\ flight'.stage = flight.stage
           /\ flight'.answer = flight.answer
  BY <1>1, ResetIs
<1>4. value # None
  BY DEF Form!FieldsAssumption
<1>5. FormType'
  <2>1. flight' # None =>
          flight'.requests # <<>> /\ (flight'.stage = "done" => flight'.answer # None)
    BY <1>1, <1>3 DEF FormType
  <2> QED
    BY <1>1, <1>2, <1>3, <2>1 DEF FormType, Form!record
<1>6. NothingYet'
  BY <1>3, <1>4 DEF NothingYet
<1>7. OneMark' /\ FlightFits'
  BY <1>2, <1>3 DEF FieldsInvariant, OneMark, FlightFits
<1>8. PersistedIsSaved'
  BY <1>3 DEF PersistedIsSaved
<1>9. ASSUME ~crossed'
      PROVE  DOMAIN queue' = {} /\ flight' = None /\ \A f \in Fields : asked[f] = None
  <2>1. queue = <<>> /\ flight = None
    BY <1>9 DEF Form!Pending
  <2>2. DOMAIN queue = {}
    BY <2>1
  <2> QED
    BY <1>2, <1>3, <1>9, <2>1, <2>2 DEF FieldsInvariant, AskedIsPending
<1>10. AllLive' /\ AskedIsPending'
  BY <1>9 DEF AllLive, AskedIsPending
<1>11. MineIsTrue'
  BY <1>2, <1>3, <1>9 DEF FieldsInvariant, MineIsTrue, MineHolds, Form!record
<1> QED
  BY <1>2, <1>5, <1>6, <1>7, <1>8, <1>10, <1>11 DEF FieldsInvariant

LEMMA ReceiveLoadStep ==
  ASSUME Form!FieldsAssumption, FieldsInvariant, Form!Remember, Form!ReceiveLoad
  PROVE  FieldsInvariant'
<1>1. FormType
  BY DEF FieldsInvariant
<1>2. PICK value \in Form!Records : value = load.got /\ load.got # None /\ load # None
  BY <1>1 DEF Form!ReceiveLoad, FormType, FormLoads, Form!Waiting
<1>3. CASE Form!ResetsOn(value)
  <2>1. Form!Reset(value) /\ persisted' = value /\ draft' \in Form!Records
    BY <1>1, <1>2, <1>3 DEF Form!ReceiveLoad, FormType
  <2>2. ~crossed' => ~Form!Pending
    <3>1. CASE form = "boarding"
      <4>1. ~dirty
        BY <1>1, <1>3, <3>1, FormsAre DEF Form!ResetsOn
      <4>2. crossed' = (crossed \/ Form!Unmarked')
        BY <3>1 DEF Form!Remember, Form!ReceiveLoad
      <4> QED
        BY <1>1, <3>1, <4>1, <4>2 DEF FieldsInvariant, Quiet, Form!Unmarked, FormType
    <3>2. CASE form # "boarding"
      <4>1. ~crossed' => ~crossed
        BY <3>2 DEF Form!Remember, Form!ReceiveLoad
      <4> QED
        BY <1>2, <3>2, <4>1 DEF FieldsInvariant, Quiet
    <3> QED
      BY <3>1, <3>2
  <2>3. ~crossed' => ~crossed
    BY <1>1, RememberIs DEF Form!ReceiveLoad
  <2>4. ~crossed' /\ form \notin {"boarding", "passengers"} =>
          \A f \in Fields : mine[f] # None => value[f] = mine[f]
    BY <1>2, <2>3 DEF FieldsInvariant, MineIsTrue, MineHolds
  <2>5. typing # None => saved # None
    BY DEF FieldsInvariant, NothingYet
  <2>6. /\ UNCHANGED <<form, Form!record, typing, mine, asked>> /\ dirty' \in BOOLEAN
        /\ load' = None /\ events' \in Nat
    BY <1>1 DEF Form!ReceiveLoad, FormType
  <2> QED
    BY <2>1, <2>2, <2>4, <2>5, <2>6, ResetStep
<1>4. CASE ~Form!ResetsOn(value)
  <2>1. /\ UNCHANGED <<form, Form!record, Form!hands, saved, queue, flight, mine, asked, events>>
        /\ persisted' = value /\ load' = None
    BY <1>2, <1>4 DEF Form!ReceiveLoad, Form!hands
  <2>2. /\ crossed' \in BOOLEAN /\ (~crossed' => ~crossed) /\ Quiet' /\ Form!Of' = Form!Of
    BY <1>1, <2>1, RememberIs
  <2>3. FormType'
    BY <1>1, <2>1, <2>2 DEF FormType, Form!record, Form!hands
  <2>4. Form!Of.resets # "always"
    BY <1>4 DEF Form!ResetsOn
  <2>5. NothingYet' /\ PersistedIsSaved'
    BY <2>1, <2>2, <2>4
    DEF FieldsInvariant, NothingYet, PersistedIsSaved, Form!Pending, Form!hands,
        Form!FieldsAssumption
  <2>6. OneMark' /\ FlightFits' /\ AllLive' /\ AskedIsPending'
    BY <2>1, <2>2, QueueKept DEF FieldsInvariant, OneMark, Form!hands
  <2>7. MineIsTrue'
    BY <2>1, <2>2 DEF FieldsInvariant, MineIsTrue, MineHolds, Form!record
  <2> QED
    BY <2>2, <2>3, <2>5, <2>6, <2>7 DEF FieldsInvariant
<1> QED
  BY <1>3, <1>4

LEMMA ReopenStep ==
  ASSUME Form!FieldsAssumption, FieldsInvariant, Form!Remember, Form!Reopen
  PROVE  FieldsInvariant'
<1>1. FormType
  BY DEF FieldsInvariant
<1>2. PICK value \in Form!Records : value = persisted
  BY <1>1 DEF Form!Reopen, FieldsInvariant, NothingYet, FormType
<1>3. Form!Reset(value) /\ persisted' = value /\ draft' \in Form!Records
  BY <1>2 DEF Form!Reopen
<1>4. form # "boarding" /\ Form!Of.resets = "always"
  BY <1>1, FormsAre DEF Form!Reopen
<1>5. ~crossed' => ~crossed /\ ~Form!Pending
  BY <1>1, <1>4, RememberIs DEF Form!Reopen
<1>6. ~crossed' /\ form \notin {"boarding", "passengers"} =>
        \A f \in Fields : mine[f] # None => value[f] = mine[f]
  BY <1>2, <1>4, <1>5
  DEF Form!Reopen, FieldsInvariant, MineIsTrue, MineHolds, PersistedIsSaved
<1>7. /\ UNCHANGED <<form, Form!record, typing, mine, asked>> /\ dirty' \in BOOLEAN
      /\ load' = load /\ load' \in FormLoads \cup {None} /\ events' \in Nat
      /\ typing # None => saved # None
  BY <1>1 DEF Form!Reopen, FormType, Form!Event
<1> QED
  BY <1>3, <1>5, <1>6, <1>7, ResetStep

-----------------------------------------------------------------------------
\* Commits.

LEMMA LonelyLoads ==
  ASSUME Form!FieldsAssumption, FieldsInvariant, Form!Remember,
         Form!Refresh \/ Form!Retry \/ Form!ServeLoad
  PROVE  FieldsInvariant'
<1>1. /\ UNCHANGED <<form, Form!record, Form!hands, saved, persisted, queue, flight, mine, asked>>
      /\ load' \in {None, Form!Waiting, [got |-> server]}
  BY DEF Form!Refresh, Form!Retry, Form!ServeLoad
<1>2. events' \in Nat
  BY DEF Form!Refresh, Form!Retry, Form!ServeLoad, Form!Event, FieldsInvariant, FormType
<1> QED
  BY <1>1, <1>2, LoadStep

LEMMA TypeStep ==
  ASSUME Form!FieldsAssumption, FieldsInvariant, Form!Remember, NEW f \in Fields,
         NEW v \in Values,
         Form!Type(f, v)
  PROVE  FieldsInvariant'
<1>1. FormType
  BY DEF FieldsInvariant
<1>2. /\ crossed' \in BOOLEAN /\ (~crossed' => ~crossed) /\ Quiet' /\ Form!Of' = Form!Of
  BY <1>1, RememberIs DEF Form!Type
<1>3. draft' \in Form!Records
  BY <1>1 DEF Form!Type, FormType, Form!Records
<1>4. events' \in Nat
  BY <1>1 DEF Form!Type, FormType, Form!Event
<1>5. FormType'
  BY <1>1, <1>2, <1>3, <1>4 DEF FormType, Form!Type, Form!record
<1>6. NothingYet' /\ PersistedIsSaved'
  BY <1>2 DEF FieldsInvariant, NothingYet, PersistedIsSaved, Form!Pending, Form!Type
<1>7. OneMark' /\ FlightFits' /\ AllLive' /\ AskedIsPending'
  BY <1>2, QueueKept DEF Form!Type
<1>8. MineIsTrue'
  BY <1>2 DEF FieldsInvariant, MineIsTrue, MineHolds, Form!Type, Form!record
<1> QED
  BY <1>2, <1>5, <1>6, <1>7, <1>8 DEF FieldsInvariant

LEMMA CommitAdded ==
  ASSUME NEW X, NEW s \in Seq(X), NEW c \in X
  PROVE  /\ Append(s, c) \in Seq(X) /\ DOMAIN Append(s, c) = DOMAIN s \cup {Len(s) + 1}
         /\ Append(s, c)[Len(s) + 1] = c
         /\ \A i \in DOMAIN s : Append(s, c)[i] = s[i]
OBVIOUS

LEMMA CommitStep ==
  ASSUME Form!FieldsAssumption, FieldsInvariant, Form!Remember, NEW f \in Fields,
         NEW d \in Form!Records,
         Form!Commit(f, d), saved # None, form = "boarding" => f = Status,
         draft' \in Form!Records, typing' = None, events' \in Nat
  PROVE  FieldsInvariant'
<1>1. FormType
  BY DEF FieldsInvariant
<1>2. /\ crossed' \in BOOLEAN /\ (~crossed' => ~crossed) /\ Quiet' /\ Form!Of' = Form!Of
  BY <1>1, RememberIs DEF Form!Commit
<1>3. PICK patch \in Form!Patches :
        /\ patch = [g \in IF Form!Of.patch = "draft" THEN Fields ELSE {f} |-> d[g]]
        /\ form = "boarding" => DOMAIN patch = {Status}
  <2>1. (IF Form!Of.patch = "draft" THEN Fields ELSE {f}) \in SUBSET Fields
    OBVIOUS
  <2>2. [g \in IF Form!Of.patch = "draft" THEN Fields ELSE {f} |-> d[g]] \in Form!Patches
    BY <2>1, PatchOf
  <2> QED
    BY <1>1, <2>2, FormsAre
<1>4. PICK c \in Form!Commits : c = [patch |-> patch, live |-> TRUE]
  BY DEF Form!Commits
<1>5. /\ queue' = Append(queue, c)
      /\ mine' = [g \in Fields |-> IF g \in DOMAIN patch THEN None ELSE mine[g]]
      /\ asked' = Form!Put(asked, patch) /\ dirty' = TRUE
      /\ UNCHANGED <<form, Form!record, saved, persisted, flight, load>>
  BY <1>3, <1>4 DEF Form!Commit
<1>6. /\ queue' \in Seq(Form!Commits) /\ DOMAIN queue' = DOMAIN queue \cup {Len(queue) + 1}
      /\ queue'[Len(queue) + 1] = c /\ \A i \in DOMAIN queue : queue'[i] = queue[i]
  BY <1>1, <1>5, CommitAdded DEF FormType
<1>7. c.patch = patch /\ c.live
  BY <1>4
<1>8. /\ asked' \in [Fields -> Values \cup {None}]
      /\ mine' \in [Fields -> Values \cup {None}]
      /\ \A g \in Fields : mine'[g] # None => g \notin DOMAIN patch /\ mine'[g] = mine[g]
      /\ \A g \in Fields : asked'[g] # None => g \in DOMAIN patch \/ asked'[g] = asked[g]
  BY <1>1, <1>5, PatchesAre DEF FormType, Form!Put
<1>9. FormType'
  BY <1>1, <1>2, <1>5, <1>6, <1>8, <1>7 DEF FormType, Form!record
<1>10. NothingYet' /\ PersistedIsSaved'
  BY <1>2, <1>5 DEF FieldsInvariant, NothingYet, PersistedIsSaved
<1>11. OneMark' /\ FlightFits' /\ AllLive'
  BY <1>2, <1>3, <1>5, <1>6, <1>7 DEF FieldsInvariant, OneMark, FlightFits, AllLive
<1>12. AskedIsPending'
  BY <1>2, <1>5, <1>6, <1>7, <1>8 DEF FieldsInvariant, AskedIsPending
<1>13. MineIsTrue'
  BY <1>2, <1>5, <1>6, <1>7, <1>8 DEF FieldsInvariant, MineIsTrue, MineHolds, Form!record
<1> QED
  BY <1>2, <1>9, <1>10, <1>11, <1>12, <1>13 DEF FieldsInvariant

LEMMA LeaveStep ==
  ASSUME Form!FieldsAssumption, FieldsInvariant, Form!Remember, Form!Leave
  PROVE  FieldsInvariant'
<1>1. FormType
  BY DEF FieldsInvariant
<1>2. PICK f \in Fields : f = typing
  BY <1>1 DEF Form!Leave, FormType
<1>3. /\ saved # None /\ form # "boarding" /\ draft \in Form!Records /\ draft' = draft
      /\ Form!Commit(f, draft) /\ typing' = None /\ events' \in Nat
  BY <1>1, <1>2 DEF Form!Leave, FieldsInvariant, NothingYet, OneMark, FormType
<1> QED
  BY <1>3, CommitStep

LEMMA ChooseStep ==
  ASSUME Form!FieldsAssumption, FieldsInvariant, Form!Remember, NEW f \in Fields,
         NEW v \in Values,
         Form!Choose(f, v)
  PROVE  FieldsInvariant'
<1>1. FormType
  BY DEF FieldsInvariant
<1>2. PICK d \in Form!Records : d = draft'
  BY <1>1 DEF Form!Choose, FormType, Form!Records
<1>3. /\ saved # None /\ draft' \in Form!Records /\ Form!Commit(f, d) /\ typing' = None
      /\ f \in Form!Of.fields
  BY <1>2 DEF Form!Choose
<1>4. events' \in Nat
  BY <1>1 DEF Form!Choose, Form!Event, FormType
<1>5. form = "boarding" => f = Status
  BY <1>1, <1>3, FormsAre
<1> QED
  BY <1>3, <1>4, <1>5, CommitStep

-----------------------------------------------------------------------------
\* The queue.

LEMMA RestIs ==
  ASSUME NEW X, NEW s \in Seq(X), s # <<>>
  PROVE  /\ Head(s) \in X /\ Tail(s) \in Seq(X) /\ 1 \in DOMAIN s /\ Head(s) = s[1]
         /\ \A i \in DOMAIN Tail(s) : i + 1 \in DOMAIN s /\ Tail(s)[i] = s[i + 1]
         /\ \A i \in DOMAIN s : i = 1 \/ (i - 1 \in DOMAIN Tail(s) /\ Tail(s)[i - 1] = s[i])
OBVIOUS

\* The first commit leaves the queue: who still waits for one?
LEMMA NextCommit ==
  ASSUME FieldsInvariant, queue # <<>>, queue' = Tail(queue)
  PROVE  /\ Head(queue) \in Form!Commits /\ Head(queue).patch \in Form!Patches
         /\ queue' \in Seq(Form!Commits)
         /\ saved # None
         /\ 1 \in DOMAIN queue /\ Head(queue) = queue[1]
         /\ \A i \in DOMAIN queue' : i + 1 \in DOMAIN queue /\ queue'[i] = queue[i + 1]
         /\ \A i \in DOMAIN queue :
              i = 1 \/ (i - 1 \in DOMAIN queue' /\ queue'[i - 1] = queue[i])
<1>1. queue \in Seq(Form!Commits) /\ saved # None
  BY DEF FieldsInvariant, FormType, NothingYet, Form!Pending
<1>2. Head(queue) \in Form!Commits
  BY <1>1, RestIs
<1>3. Head(queue).patch \in Form!Patches
  BY <1>2 DEF Form!Commits
<1> QED
  BY <1>1, <1>2, <1>3, RestIs

LEMMA SkipStep ==
  ASSUME Form!FieldsAssumption, FieldsInvariant, Form!Remember, Form!Skip
  PROVE  FieldsInvariant'
<1>1. FormType
  BY DEF FieldsInvariant
<1>2. /\ crossed' \in BOOLEAN /\ (~crossed' => ~crossed) /\ Quiet' /\ Form!Of' = Form!Of
  BY <1>1, RememberIs DEF Form!Skip
<1>3. PICK first \in Form!Commits : first = Head(queue)
  BY NextCommit DEF Form!Skip
<1>4. /\ first.patch \in Form!Patches /\ queue' \in Seq(Form!Commits) /\ saved # None
      /\ 1 \in DOMAIN queue /\ first = queue[1]
      /\ \A i \in DOMAIN queue' : i + 1 \in DOMAIN queue /\ queue'[i] = queue[i + 1]
      /\ \A i \in DOMAIN queue :
           i = 1 \/ (i - 1 \in DOMAIN queue' /\ queue'[i - 1] = queue[i])
  BY <1>3, NextCommit DEF Form!Skip
<1>5. PICK S \in SUBSET Fields :
        /\ asked' = IF first.live THEN Form!Forget(S) ELSE asked
        /\ \A f \in DOMAIN first.patch \ S :
             \E i \in DOMAIN queue' : f \in DOMAIN queue'[i].patch
  <2>1. Form!Decided(first.patch, queue') \in SUBSET Fields
    BY <1>4, PatchesAre DEF Form!Decided
  <2>2. asked' = IF first.live THEN Form!Forget(Form!Decided(first.patch, queue')) ELSE asked
    BY <1>3 DEF Form!Skip
  <2> QED
    BY <2>1, <2>2, DecidedIs
<1>6. /\ asked' \in [Fields -> Values \cup {None}]
      /\ first.live => \A f \in Fields : asked'[f] # None => f \notin S /\ asked'[f] = asked[f]
  BY <1>1, <1>5, ForgetIs DEF FormType
<1>7. /\ UNCHANGED <<form, Form!record, Form!hands, saved, persisted, flight, load, mine, events>>
      /\ flight = None
  BY DEF Form!Skip
<1>8. FormType'
  BY <1>1, <1>2, <1>4, <1>6, <1>7 DEF FormType, Form!record, Form!hands
<1>9. NothingYet' /\ PersistedIsSaved'
  BY <1>2, <1>4, <1>7 DEF FieldsInvariant, NothingYet, PersistedIsSaved, Form!hands
<1>10. OneMark' /\ FlightFits' /\ AllLive'
  BY <1>2, <1>4, <1>7 DEF FieldsInvariant, OneMark, FlightFits, AllLive, Form!hands
<1>11. AskedIsPending'
  <2>1. SUFFICES ASSUME ~crossed', NEW f \in Fields, asked'[f] # None
                 PROVE  \E i \in DOMAIN queue' : f \in DOMAIN queue'[i].patch
    BY DEF AskedIsPending
  <2>2. first.live
    BY <1>2, <1>4, <2>1 DEF FieldsInvariant, AllLive
  <2>3. f \notin S /\ asked[f] # None
    BY <1>6, <2>1, <2>2
  <2>4. PICK i \in DOMAIN queue : f \in DOMAIN queue[i].patch
    BY <1>2, <1>7, <2>1, <2>3 DEF FieldsInvariant, AskedIsPending
  <2> QED
    BY <1>4, <1>5, <2>3, <2>4
<1>12. MineIsTrue'
  BY <1>2, <1>4, <1>7 DEF FieldsInvariant, MineIsTrue, MineHolds, Form!record
<1> QED
  BY <1>2, <1>8, <1>9, <1>10, <1>11, <1>12 DEF FieldsInvariant

LEMMA SendFormStep ==
  ASSUME Form!FieldsAssumption, FieldsInvariant, Form!Remember, Form!Send
  PROVE  FieldsInvariant'
<1>1. FormType
  BY DEF FieldsInvariant
<1>2. /\ crossed' \in BOOLEAN /\ (~crossed' => ~crossed) /\ Quiet' /\ Form!Of' = Form!Of
  BY <1>1, RememberIs DEF Form!Send
<1>3. PICK first \in Form!Commits : first = Head(queue)
  BY NextCommit DEF Form!Send
<1>4. /\ first.patch \in Form!Patches /\ queue' \in Seq(Form!Commits) /\ saved \in Form!Records
      /\ saved # None /\ 1 \in DOMAIN queue /\ first = queue[1]
      /\ \A i \in DOMAIN queue' : i + 1 \in DOMAIN queue /\ queue'[i] = queue[i + 1]
      /\ \A i \in DOMAIN queue :
           i = 1 \/ (i - 1 \in DOMAIN queue' /\ queue'[i - 1] = queue[i])
  BY <1>1, <1>3, NextCommit DEF Form!Send, FormType
<1>5. PICK patch \in Form!Patches : patch = first.patch
  BY <1>4
<1>6. PICK next \in Form!Records :
        /\ next = Form!Put(saved, patch)
        /\ \A f \in Fields : next[f] = IF f \in DOMAIN patch THEN patch[f] ELSE saved[f]
  BY <1>4, PutIs
<1>7. PICK requests \in Seq(SUBSET Fields) :
        /\ requests = Form!Requests(next) /\ requests # <<>>
        /\ form = "boarding" => \A i \in DOMAIN requests : requests[i] = {Status}
        /\ form = "passengers" => \A i \in DOMAIN requests : requests[i] = Form!Changed(next, persisted)
  BY <1>1, RequestsAre
<1>8. PICK fl \in Form!Flights :
        fl = [patch |-> patch, next |-> next, requests |-> requests, live |-> TRUE,
              stage |-> "sent", answer |-> None]
  BY DEF Form!Flights
<1>9. /\ fl.patch = patch /\ fl.next = next /\ fl.requests = requests /\ fl.live
      /\ fl.stage = "sent"
  BY <1>8
<1>10. /\ flight' = fl /\ flight = None /\ first.live /\ flight' # None
       /\ UNCHANGED <<form, Form!record, Form!hands, saved, persisted, load, mine, asked, events>>
  BY <1>3, <1>5, <1>6, <1>7, <1>8 DEF Form!Send, Form!FieldsAssumption
<1>11. FormType'
  BY <1>1, <1>2, <1>4, <1>7, <1>9, <1>10 DEF FormType, Form!record, Form!hands
<1>12. NothingYet' /\ PersistedIsSaved'
  BY <1>2, <1>4, <1>10 DEF FieldsInvariant, NothingYet, PersistedIsSaved, Form!hands
<1>13. OneMark' /\ AllLive'
  BY <1>2, <1>4, <1>9, <1>10 DEF FieldsInvariant, OneMark, AllLive, Form!hands
<1>14. FlightFits'
  <2>1. \A f \in DOMAIN patch : next[f] = patch[f]
    BY <1>6, PatchesAre
  <2>2. ASSUME form = "boarding"
        PROVE  \A i \in DOMAIN requests : requests[i] \subseteq DOMAIN patch
    BY <1>4, <1>5, <1>7, <2>2 DEF FieldsInvariant, OneMark
  <2>3. ASSUME form = "passengers", ~crossed
        PROVE  \A i \in DOMAIN requests : requests[i] \subseteq DOMAIN patch
    <3>1. persisted = saved
      BY <1>1, <1>4, <2>3, FormsAre DEF FieldsInvariant, PersistedIsSaved
    <3>2. Form!Changed(next, persisted) \subseteq DOMAIN patch
      BY <1>6, <3>1 DEF Form!Changed
    <3> QED
      BY <1>7, <2>3, <3>2
  <2> QED
    BY <1>2, <1>9, <1>10, <2>1, <2>2, <2>3 DEF FlightFits
<1>15. AskedIsPending'
  <2>1. SUFFICES ASSUME ~crossed', NEW f \in Fields, asked[f] # None
                 PROVE  \/ f \in DOMAIN patch
                        \/ \E i \in DOMAIN queue' : f \in DOMAIN queue'[i].patch
    BY <1>9, <1>10 DEF AskedIsPending
  <2>2. PICK i \in DOMAIN queue : f \in DOMAIN queue[i].patch
    BY <1>2, <1>10, <2>1 DEF FieldsInvariant, AskedIsPending
  <2> QED
    BY <1>4, <1>5, <2>2
<1>16. MineIsTrue'
  <2>1. SUFFICES ASSUME ~crossed', NEW f \in Fields, mine[f] # None
                 PROVE  MineHolds(f)'
    BY <1>10 DEF MineIsTrue
  <2>2. MineHolds(f)
    BY <1>2, <2>1 DEF FieldsInvariant, MineIsTrue
  <2>3. \A i \in DOMAIN queue' : f \in DOMAIN queue'[i].patch => queue'[i].patch[f] = mine[f]
    BY <1>4, <2>2 DEF MineHolds
  <2>4. f \in DOMAIN patch => patch[f] = mine[f]
    BY <1>4, <1>5, <2>2 DEF MineHolds
  <2>5. form \notin {"boarding", "passengers"} => saved[f] = mine[f] /\ next[f] = mine[f]
    BY <1>6, <2>2, <2>4 DEF MineHolds
  <2> QED
    BY <1>9, <1>10, <2>2, <2>3, <2>4, <2>5 DEF MineHolds, Form!record
<1> QED
  BY <1>2, <1>11, <1>12, <1>13, <1>14, <1>15, <1>16 DEF FieldsInvariant

\* The write under way goes on, or is refused.
LEMMA FlightStep ==
  ASSUME Form!FieldsAssumption, FieldsInvariant, Form!Remember, flight # None,
         flight' \in Form!Flights, flight' # None,
         flight'.patch = flight.patch, flight'.next = flight.next,
         flight'.live = flight.live, flight'.requests # <<>>,
         \A i \in DOMAIN flight'.requests :
           \E j \in DOMAIN flight.requests : flight'.requests[i] = flight.requests[j],
         flight'.stage = "done" => flight'.answer # None,
         late' \in Form!Patches \cup {None}, events' \in Nat, server' \in Form!Records,
         \A f \in Fields : mine[f] # None /\ MineHolds(f) /\ ~crossed => server'[f] = mine[f],
         UNCHANGED <<form, Form!hands, saved, persisted, queue, load, mine, asked>>
  PROVE  FieldsInvariant'
<1>1. FormType
  BY DEF FieldsInvariant
<1>2. /\ crossed' \in BOOLEAN /\ (~crossed' => ~crossed) /\ Quiet' /\ Form!Of' = Form!Of
  BY <1>1, RememberIs
<1>3. FormType'
  BY <1>1, <1>2 DEF FormType, Form!hands
<1>4. NothingYet' /\ PersistedIsSaved'
  BY <1>2 DEF FieldsInvariant, NothingYet, PersistedIsSaved, Form!Pending, Form!hands
<1>5. OneMark' /\ AllLive' /\ AskedIsPending'
  BY <1>2 DEF FieldsInvariant, OneMark, AllLive, AskedIsPending, Form!hands
<1>6. FlightFits'
  BY <1>2 DEF FieldsInvariant, FlightFits
<1>7. MineIsTrue'
  BY <1>2 DEF FieldsInvariant, MineIsTrue, MineHolds
<1> QED
  BY <1>2, <1>3, <1>4, <1>5, <1>6, <1>7 DEF FieldsInvariant

LEMMA FlightIs ==
  ASSUME FormType, flight # None
  PROVE  /\ flight \in Form!Flights /\ flight.patch \in Form!Patches /\ flight.next \in Form!Records
         /\ flight.requests \in Seq(SUBSET Fields) /\ flight.requests # <<>>
         /\ flight.answer \in Form!Records \cup {None}
         /\ flight.stage = "done" => flight.answer # None
<1>1. flight \in Form!Flights /\ flight.requests # <<>>
      /\ (flight.stage = "done" => flight.answer # None)
  BY DEF FormType
<1>2. flight.patch \in Form!Patches /\ flight.next \in Form!Records
  BY <1>1 DEF Form!Flights
<1>3. flight.requests \in Seq(SUBSET Fields) /\ flight.answer \in Form!Records \cup {None}
  BY <1>1 DEF Form!Flights
<1> QED
  BY <1>1, <1>2, <1>3

\* The fields that the next request writes, as it has them.
LEMMA SentIs ==
  ASSUME FormType, flight # None
  PROVE  /\ 1 \in DOMAIN flight.requests
         /\ Head(flight.requests) = flight.requests[1]
         /\ Head(flight.requests) \in SUBSET Fields
         /\ [f \in Head(flight.requests) |-> flight.next[f]] \in Form!Patches
<1>1. flight.requests \in Seq(SUBSET Fields) /\ flight.requests # <<>> /\ flight.next \in Form!Records
  BY FlightIs
<1>2. 1 \in DOMAIN flight.requests /\ Head(flight.requests) = flight.requests[1]
      /\ Head(flight.requests) \in SUBSET Fields
  BY <1>1, RestIs
<1> QED
  BY <1>1, <1>2, PatchOf

LEMMA StageIs ==
  ASSUME NEW fl \in Form!Flights, NEW st \in {"sent", "done", "refused"}
  PROVE  /\ [fl EXCEPT !.stage = st] \in Form!Flights
         /\ [fl EXCEPT !.stage = st].patch = fl.patch
         /\ [fl EXCEPT !.stage = st].next = fl.next
         /\ [fl EXCEPT !.stage = st].requests = fl.requests
         /\ [fl EXCEPT !.stage = st].live = fl.live
         /\ [fl EXCEPT !.stage = st].stage = st
<1>1. [fl EXCEPT !.stage = st] \in Form!Flights
  BY DEF Form!Flights
<1>2. /\ [fl EXCEPT !.stage = st].patch = fl.patch
      /\ [fl EXCEPT !.stage = st].next = fl.next
      /\ [fl EXCEPT !.stage = st].requests = fl.requests
      /\ [fl EXCEPT !.stage = st].live = fl.live
      /\ [fl EXCEPT !.stage = st].stage = st
  BY DEF Form!Flights
<1> QED
  BY <1>1, <1>2

LEMMA AnsweredIs ==
  ASSUME NEW fl \in Form!Flights, NEW a \in Form!Records \cup {None}
  PROVE  /\ [fl EXCEPT !.stage = "done", !.answer = a] \in Form!Flights
         /\ [fl EXCEPT !.stage = "done", !.answer = a].patch = fl.patch
         /\ [fl EXCEPT !.stage = "done", !.answer = a].next = fl.next
         /\ [fl EXCEPT !.stage = "done", !.answer = a].requests = fl.requests
         /\ [fl EXCEPT !.stage = "done", !.answer = a].live = fl.live
         /\ [fl EXCEPT !.stage = "done", !.answer = a].answer = a
<1>1. [fl EXCEPT !.stage = "done", !.answer = a] \in Form!Flights
  BY DEF Form!Flights
<1>2. /\ [fl EXCEPT !.stage = "done", !.answer = a].patch = fl.patch
      /\ [fl EXCEPT !.stage = "done", !.answer = a].next = fl.next
      /\ [fl EXCEPT !.stage = "done", !.answer = a].requests = fl.requests
  BY DEF Form!Flights
<1>3. /\ [fl EXCEPT !.stage = "done", !.answer = a].live = fl.live
      /\ [fl EXCEPT !.stage = "done", !.answer = a].answer = a
  BY DEF Form!Flights
<1> QED
  BY <1>1, <1>2, <1>3

\* A request writes fields of the commit, or what the screen knows to be saved.
LEMMA ExecuteStep ==
  ASSUME Form!FieldsAssumption, FieldsInvariant, Form!Remember, Form!Execute
  PROVE  FieldsInvariant'
<1>1. FormType
  BY DEF FieldsInvariant
<1>2. flight # None
  BY DEF Form!Execute, Form!Sent
<1>3. PICK put \in Form!Patches :
        /\ put = [f \in Head(flight.requests) |-> flight.next[f]]
        /\ DOMAIN put = flight.requests[1] /\ 1 \in DOMAIN flight.requests
        /\ DOMAIN put \subseteq Fields
        /\ \A f \in DOMAIN put : put[f] = flight.next[f]
  BY <1>1, <1>2, SentIs
<1>4. server' = Form!Put(server, put)
  BY <1>3 DEF Form!Execute
<1>5. /\ server' \in Form!Records
      /\ \A f \in Fields : server'[f] = IF f \in DOMAIN put THEN put[f] ELSE server[f]
  BY <1>1, <1>4, PutIs DEF FormType
<1>6. PICK a \in Form!Records : a = server'
  BY <1>5
<1>7. PICK fl \in Form!Flights : fl = flight
  BY <1>1, <1>2 DEF FormType
<1>8. flight' = [fl EXCEPT !.stage = "done", !.answer = a]
  BY <1>6, <1>7 DEF Form!Execute
<1>9. /\ flight' \in Form!Flights /\ flight' # None
      /\ flight'.patch = flight.patch /\ flight'.next = flight.next
      /\ flight'.requests = flight.requests /\ flight'.live = flight.live
      /\ flight'.answer # None
  <2>1. a \in Form!Records \cup {None}
    OBVIOUS
  <2>2. PICK new : new = [fl EXCEPT !.stage = "done", !.answer = a]
    OBVIOUS
  <2>3. /\ new \in Form!Flights
        /\ new.patch = fl.patch /\ new.next = fl.next
        /\ new.requests = fl.requests /\ new.live = fl.live /\ new.answer = a
    BY <2>1, <2>2, AnsweredIs
  <2>4. flight' = new
    BY <1>8, <2>2
  <2>5. a # None /\ new # None
    BY <2>3 DEF Form!FieldsAssumption
  <2> QED
    BY <1>7, <2>3, <2>4, <2>5
<1>10. ASSUME NEW f \in Fields, mine[f] # None, MineHolds(f), ~crossed
       PROVE  server'[f] = mine[f]
  <2>1. CASE f \notin DOMAIN put
    BY <1>5, <1>10, <2>1 DEF MineHolds
  <2>2. CASE f \in DOMAIN put
    <3>1. server'[f] = flight.next[f]
      BY <1>3, <1>5, <2>2
    <3>2. CASE form \notin {"boarding", "passengers"}
      BY <1>2, <1>10, <3>1, <3>2 DEF MineHolds
    <3>3. CASE form \in {"boarding", "passengers"}
      <4>1. f \in DOMAIN flight.patch /\ flight.next[f] = flight.patch[f]
        BY <1>2, <1>3, <1>10, <2>2, <3>3 DEF FieldsInvariant, FlightFits
      <4> QED
        BY <1>2, <1>10, <3>1, <4>1 DEF MineHolds
    <3> QED
      BY <3>2, <3>3
  <2> QED
    BY <2>1, <2>2
<1>11. UNCHANGED <<form, late, Form!hands, saved, persisted, queue, load, mine, asked, events>>
  BY DEF Form!Execute
<1>12. /\ flight'.requests # <<>> /\ late' \in Form!Patches \cup {None} /\ events' \in Nat
       /\ \A i \in DOMAIN flight'.requests :
            \E j \in DOMAIN flight.requests : flight'.requests[i] = flight.requests[j]
  BY <1>1, <1>2, <1>9, <1>11, FlightIs DEF FormType
<1> QED
  BY <1>2, <1>5, <1>9, <1>10, <1>11, <1>12, FlightStep

LEMMA RefuseStep ==
  ASSUME Form!FieldsAssumption, FieldsInvariant, Form!Remember, Form!Refuse \/ Form!GiveUp
  PROVE  FieldsInvariant'
<1>1. FormType
  BY DEF FieldsInvariant
<1>2. flight # None
  BY DEF Form!Refuse, Form!GiveUp, Form!Sent
<1>3. PICK fl \in Form!Flights : fl = flight
  BY <1>1, <1>2 DEF FormType
<1>4. flight' = [fl EXCEPT !.stage = "refused"]
  BY <1>3 DEF Form!Refuse, Form!GiveUp
<1>5. /\ flight' \in Form!Flights /\ flight' # None
      /\ flight'.patch = flight.patch /\ flight'.next = flight.next
      /\ flight'.requests = flight.requests /\ flight'.live = flight.live
      /\ flight'.stage # "done"
  <2>1. "refused" \in {"sent", "done", "refused"}
    OBVIOUS
  <2>2. PICK st : st = "refused"
    OBVIOUS
  <2>3. /\ flight' \in Form!Flights
        /\ flight'.patch = fl.patch /\ flight'.next = fl.next
        /\ flight'.requests = fl.requests /\ flight'.live = fl.live /\ flight'.stage = st
    BY <1>4, <2>1, <2>2, StageIs
  <2>4. st # "done" /\ flight' # None
    BY <2>2, <2>3 DEF Form!FieldsAssumption
  <2> QED
    BY <1>3, <2>3, <2>4
<1>6. late' \in Form!Patches \cup {None}
  BY <1>1, <1>2, SentIs DEF Form!Refuse, Form!GiveUp, FormType, Form!record
<1>7. events' \in Nat
  BY <1>1 DEF Form!Refuse, Form!GiveUp, FormType, Form!Event
<1>8. UNCHANGED <<form, server, Form!hands, saved, persisted, queue, load, mine, asked>>
  BY DEF Form!Refuse, Form!GiveUp, Form!record
<1>9. /\ flight'.requests # <<>> /\ server' \in Form!Records
      /\ \A i \in DOMAIN flight'.requests :
           \E j \in DOMAIN flight.requests : flight'.requests[i] = flight.requests[j]
      /\ \A f \in Fields : mine[f] # None /\ MineHolds(f) /\ ~crossed => server'[f] = mine[f]
  BY <1>1, <1>2, <1>5, <1>8, FlightIs DEF FormType, MineHolds
<1> QED
  BY <1>2, <1>5, <1>6, <1>7, <1>8, <1>9, FlightStep

LEMMA LongerTail ==
  ASSUME NEW X, NEW s \in Seq(X), Len(s) > 1
  PROVE  Tail(s) \in Seq(X) /\ Tail(s) # <<>>
<1>1. Tail(s) \in Seq(X) /\ Len(Tail(s)) = Len(s) - 1 /\ Len(s) \in Nat
  OBVIOUS
<1>2. PICK t \in Seq(X) : t = Tail(s)
  BY <1>1
<1>3. t # <<>>
  BY <1>1, <1>2
<1> QED
  BY <1>2, <1>3

LEMMA NextRequestStep ==
  ASSUME Form!FieldsAssumption, FieldsInvariant, Form!Remember, Form!NextRequest
  PROVE  FieldsInvariant'
<1>1. FormType
  BY DEF FieldsInvariant
<1>2. flight # None
  BY DEF Form!NextRequest
<1>3. PICK fl \in Form!Flights : fl = flight
  BY <1>1, <1>2 DEF FormType
<1>4. /\ fl.requests \in Seq(SUBSET Fields) /\ fl.requests # <<>>
      /\ Tail(fl.requests) \in Seq(SUBSET Fields) /\ Tail(fl.requests) # <<>>
  BY <1>1, <1>2, <1>3, FlightIs, LongerTail DEF Form!NextRequest
<1>5. flight' = [fl EXCEPT !.requests = Tail(fl.requests), !.stage = "sent"]
  BY <1>3 DEF Form!NextRequest
<1>6. flight' \in Form!Flights
  BY <1>4, <1>5 DEF Form!Flights
<1>7. flight'.patch = flight.patch /\ flight'.next = flight.next /\ flight'.live = flight.live
  BY <1>3, <1>5 DEF Form!Flights
<1>8. flight'.requests = Tail(fl.requests) /\ flight'.stage # "done"
  BY <1>5 DEF Form!Flights
<1>9. flight' # None
  BY <1>6 DEF Form!FieldsAssumption
<1>10. \A i \in DOMAIN flight'.requests :
         \E j \in DOMAIN flight.requests : flight'.requests[i] = flight.requests[j]
  <2>1. \A i \in DOMAIN Tail(fl.requests) :
          i + 1 \in DOMAIN fl.requests /\ Tail(fl.requests)[i] = fl.requests[i + 1]
    BY <1>4, RestIs
  <2> QED
    BY <1>3, <1>8, <2>1
<1>11. UNCHANGED <<form, Form!record, Form!hands, saved, persisted, queue, load, mine, asked, events>>
  BY DEF Form!NextRequest
<1>12. /\ late' \in Form!Patches \cup {None} /\ events' \in Nat /\ server' \in Form!Records
       /\ \A f \in Fields : mine[f] # None /\ MineHolds(f) /\ ~crossed => server'[f] = mine[f]
  BY <1>1, <1>11 DEF FormType, MineHolds, Form!record
<1> QED
  BY <1>2, <1>4, <1>6, <1>7, <1>8, <1>9, <1>10, <1>11, <1>12, FlightStep

-----------------------------------------------------------------------------
\* Outcomes.

\* Who of the fields that were asked for is not decided by a write still waits.
LEMMA StillAsked ==
  ASSUME FieldsInvariant, flight # None, ~crossed,
         NEW f \in Fields, Form!Forget(Form!Decided(flight.patch, queue))[f] # None
  PROVE  \E i \in DOMAIN queue : f \in DOMAIN queue[i].patch
<1>1. PICK S : S = Form!Decided(flight.patch, queue)
  OBVIOUS
<1>2. f \notin S /\ asked[f] # None
  BY <1>1, ForgetIs DEF FieldsInvariant
<1>3. CASE f \in DOMAIN flight.patch
  BY <1>1, <1>2, <1>3, DecidedIs
<1>4. CASE f \notin DOMAIN flight.patch
  BY <1>2, <1>4 DEF FieldsInvariant, AskedIsPending
<1> QED
  BY <1>3, <1>4

LEMMA AcknowledgeRefusalStep ==
  ASSUME Form!FieldsAssumption, FieldsInvariant, Form!Remember, Form!AcknowledgeRefusal
  PROVE  FieldsInvariant'
<1>1. FormType
  BY DEF FieldsInvariant
<1>2. /\ crossed' \in BOOLEAN /\ (~crossed' => ~crossed) /\ Quiet' /\ Form!Of' = Form!Of
  BY <1>1, RememberIs DEF Form!AcknowledgeRefusal
<1>3. /\ flight # None /\ flight' = None /\ asked' = Form!Forget(Form!Decided(flight.patch, queue))
      /\ UNCHANGED <<form, Form!record, Form!hands, saved, persisted, queue, load, mine, events>>
  BY DEF Form!AcknowledgeRefusal
<1>4. asked' \in [Fields -> Values \cup {None}]
  BY <1>1, <1>3, ForgetIs
<1>5. FormType'
  BY <1>1, <1>2, <1>3, <1>4 DEF FormType, Form!record, Form!hands
<1>6. NothingYet' /\ PersistedIsSaved'
  BY <1>2, <1>3 DEF FieldsInvariant, NothingYet, PersistedIsSaved, Form!Pending, Form!hands
<1>7. OneMark' /\ FlightFits' /\ AllLive'
  BY <1>2, <1>3 DEF FieldsInvariant, OneMark, FlightFits, AllLive, Form!hands
<1>8. AskedIsPending'
  BY <1>2, <1>3, StillAsked DEF AskedIsPending
<1>9. MineIsTrue'
  BY <1>2, <1>3 DEF FieldsInvariant, MineIsTrue, MineHolds, Form!record
<1> QED
  BY <1>2, <1>5, <1>6, <1>7, <1>8, <1>9 DEF FieldsInvariant

LEMMA AcknowledgeStep ==
  ASSUME Form!FieldsAssumption, FieldsInvariant, Form!Remember, Form!Acknowledge
  PROVE  FieldsInvariant'
<1>1. FormType
  BY DEF FieldsInvariant
<1>2. /\ crossed' \in BOOLEAN /\ (~crossed' => ~crossed) /\ Quiet' /\ Form!Of' = Form!Of
  BY <1>1, RememberIs DEF Form!Acknowledge
<1>3. flight # None /\ flight.stage = "done"
  BY DEF Form!Acknowledge
<1>4. /\ flight \in Form!Flights /\ flight.patch \in Form!Patches /\ flight.next \in Form!Records
      /\ flight.answer \in Form!Records
  BY <1>1, <1>3, FlightIs
<1>5. PICK result \in Form!Records :
        result = IF Form!Of.body = "changed" THEN flight.answer ELSE flight.next
  BY <1>4
<1>6. PICK told \in SUBSET Fields :
        told = Form!Decided(flight.patch, queue) /\ told \subseteq DOMAIN flight.patch
  BY <1>4, PatchesAre DEF Form!Decided
<1>7. /\ saved' = Form!Stored(result)
      /\ persisted' = IF Form!Of.resets = "always" THEN result ELSE persisted
      /\ draft' = IF Form!Of.body = "changed"
                  THEN [f \in Fields |-> IF draft[f] = flight.next[f] THEN result[f] ELSE draft[f]]
                  ELSE draft
      /\ dirty' = (dirty /\ \E f \in DOMAIN flight.patch : draft[f] # flight.patch[f])
      /\ mine' = [f \in Fields |->
            IF f \in told /\ server[f] = flight.next[f] THEN flight.next[f] ELSE mine[f]]
      /\ asked' = Form!Forget(told)
      /\ flight' = None
      /\ UNCHANGED <<form, Form!record, typing, queue, load, events>>
  BY <1>5, <1>6 DEF Form!Acknowledge
<1>8. saved # None /\ saved \in Form!Records /\ persisted # None /\ persisted \in Form!Records
  BY <1>1, <1>3 DEF FieldsInvariant, NothingYet, Form!Pending, FormType
<1>9. saved' \in Form!Records /\ persisted' \in Form!Records /\ draft' \in Form!Records /\ dirty' \in BOOLEAN
  <2>1. saved' \in Form!Records /\ persisted' \in Form!Records
    BY <1>5, <1>7, <1>8 DEF Form!Stored
  <2>2. draft' \in Form!Records
    BY <1>1, <1>5, <1>7 DEF FormType, Form!Records
  <2>3. dirty' \in BOOLEAN
    BY <1>7
  <2> QED
    BY <2>1, <2>2, <2>3
<1>10. asked' \in [Fields -> Values \cup {None}] /\ mine' \in [Fields -> Values \cup {None}]
  BY <1>1, <1>4, <1>7, ForgetIs DEF FormType, Form!Records
<1>11. FormType'
  BY <1>1, <1>2, <1>7, <1>9, <1>10 DEF FormType, Form!record
<1>12. persisted' # None /\ saved' # None
  BY <1>9 DEF Form!FieldsAssumption
<1>13. NothingYet'
  BY <1>12 DEF NothingYet
<1>14. OneMark' /\ FlightFits' /\ AllLive'
  BY <1>2, <1>7 DEF FieldsInvariant, OneMark, FlightFits, AllLive
<1>15. AskedIsPending'
  BY <1>2, <1>3, <1>6, <1>7, StillAsked DEF AskedIsPending
<1>16. ~crossed' => saved' = result
  BY <1>2, <1>3, <1>7 DEF FieldsInvariant, AllLive, Form!Stored
<1>17. PersistedIsSaved'
  BY <1>2, <1>7, <1>16 DEF PersistedIsSaved
<1>18. MineIsTrue'
  <2>1. SUFFICES ASSUME ~crossed', NEW f \in Fields, mine'[f] # None
                 PROVE  MineHolds(f)'
    BY DEF MineIsTrue
  <2>2. form \notin {"boarding", "passengers"} =>
          saved'[f] = flight.next[f] /\ load = None
    <3>1. form # "passengers" => Form!Of.body # "changed"
      BY <1>1, FormsAre
    <3>2. form # "boarding" => load = None
      BY <1>2, <1>3, <2>1 DEF FieldsInvariant, Quiet, Form!Pending
    <3> QED
      BY <1>5, <1>16, <2>1, <3>1, <3>2
  <2>3. CASE f \in told /\ server[f] = flight.next[f]
    <3>1. mine'[f] = flight.next[f] /\ server'[f] = mine'[f]
      BY <1>7, <2>3 DEF Form!record
    <3>2. flight.next[f] = flight.patch[f] /\ f \in DOMAIN flight.patch
      BY <1>3, <1>6, <2>3 DEF FieldsInvariant, FlightFits
    <3>3. \A i \in DOMAIN queue :
            f \in DOMAIN queue[i].patch => queue[i].patch[f] = flight.patch[f]
      BY <1>6, <2>3, <3>2, DecidedIs
    <3> QED
      BY <1>7, <2>2, <3>1, <3>2, <3>3 DEF MineHolds
  <2>4. CASE ~(f \in told /\ server[f] = flight.next[f])
    <3>1. mine'[f] = mine[f]
      BY <1>7, <2>4
    <3>2. MineHolds(f)
      BY <1>2, <2>1, <3>1 DEF FieldsInvariant, MineIsTrue
    <3> QED
      BY <1>3, <1>7, <2>2, <3>1, <3>2 DEF MineHolds, Form!record
  <2> QED
    BY <2>3, <2>4
<1> QED
  BY <1>2, <1>11, <1>13, <1>14, <1>15, <1>17, <1>18 DEF FieldsInvariant

-----------------------------------------------------------------------------

LEMMA FieldsInit ==
  ASSUME Form!FieldsAssumption, Form!Init
  PROVE  FieldsInvariant
<1>1. server \in Form!Records /\ draft \in Form!Records
  BY DEF Form!Init, Form!Records
<1>2. queue \in Seq(Form!Commits) /\ DOMAIN queue = {}
  BY DEF Form!Init
<1>3. load \in FormLoads /\ load # None => load.got = None
  BY DEF Form!Init, Form!Waiting, FormLoads
<1>4. /\ persisted \in Form!Records \cup {None}
      /\ mine = [f \in Fields |-> None] /\ asked = [f \in Fields |-> None]
  BY DEF Form!Init
<1>5. FormType
  BY <1>1, <1>2, <1>3, <1>4 DEF Form!Init, FormType, Form!Waiting, FormLoads
<1>6. NothingYet /\ OneMark /\ FlightFits /\ Quiet /\ AllLive /\ AskedIsPending
  BY <1>2, <1>4
  DEF Form!Init, NothingYet, OneMark, FlightFits, Quiet, AllLive, AskedIsPending,
      Form!Pending, Form!Unmarked
<1>7. PersistedIsSaved /\ MineIsTrue
  BY <1>4 DEF Form!Init, PersistedIsSaved, MineIsTrue
<1> QED
  BY <1>5, <1>6, <1>7 DEF FieldsInvariant

LEMMA FieldsNext ==
  ASSUME Form!FieldsAssumption, FieldsInvariant, [Form!Next]_(Form!vars)
  PROVE  FieldsInvariant'
<1>1. CASE UNCHANGED Form!vars
  <2>1. UNCHANGED <<form, server, late, draft, typing, dirty, saved, persisted, queue, flight,
                    load, mine, asked, crossed, events>>
    BY <1>1 DEF Form!vars, Form!record, Form!hands
  <2>2. FormType'
    BY <2>1 DEF FieldsInvariant, FormType
  <2>3. NothingYet' /\ Quiet'
    BY <2>1 DEF FieldsInvariant, NothingYet, Quiet, Form!Pending, Form!Unmarked
  <2>4. OneMark' /\ FlightFits' /\ AllLive' /\ AskedIsPending'
    BY <2>1, QueueKept DEF FieldsInvariant, OneMark
  <2>5. PersistedIsSaved' /\ MineIsTrue'
    BY <2>1 DEF FieldsInvariant, PersistedIsSaved, MineIsTrue, MineHolds, Form!Of
  <2> QED
    BY <2>2, <2>3, <2>4, <2>5 DEF FieldsInvariant
<1>2. CASE Form!Remember /\ \E f \in Fields, v \in Values : Form!Type(f, v) \/ Form!Choose(f, v) \/ Form!OtherChange(f, v)
  BY <1>2, TypeStep, ChooseStep, OtherChangeStep
<1>3. CASE Form!Remember /\ Form!Loading
  BY <1>3, LonelyLoads, FailLoadStep, ReceiveLoadStep, ReopenStep DEF Form!Loading
<1>4. CASE Form!Remember /\ Form!Saving
  BY <1>4, LeaveStep, SkipStep, SendFormStep, ExecuteStep, RefuseStep, NextRequestStep,
     AcknowledgeStep, AcknowledgeRefusalStep, LateExecuteStep DEF Form!Saving
<1> QED
  BY <1>1, <1>2, <1>3, <1>4 DEF Form!Next, Form!Step

\* The invariant from which the theorems follow.
THEOREM FieldsStaySound == ASSUME Form!FieldsAssumption PROVE Form!Spec => []FieldsInvariant
<1>1. Form!Init => FieldsInvariant
  BY FieldsInit
<1>2. FieldsInvariant /\ [Form!Next]_(Form!vars) => FieldsInvariant'
  BY FieldsNext
<1> QED
  BY <1>1, <1>2, PTL DEF Form!Spec

\* Where no load runs beside a write, the reader learns the outcome of every commit, and
\* a field that the server acknowledged is not taken back by a write of another
\* (lib/autosave.ts, boarding-select.tsx).
THEOREM EditsSurvive == ASSUME Form!FieldsAssumption PROVE Form!Spec => []Form!EditsAreKept
<1>1. ASSUME FieldsInvariant
      PROVE  Form!EditsAreKept
  <2>1. SUFFICES ASSUME ~crossed
                 PROVE  Form!EditIsKept /\ Form!AcknowledgedIsKept
    BY DEF Form!EditsAreKept
  <2>2. Form!EditIsKept
    BY <1>1, <2>1 DEF Form!EditIsKept, FieldsInvariant, AskedIsPending, AllLive
  <2>3. Form!AcknowledgedIsKept
    BY <1>1, <2>1 DEF Form!AcknowledgedIsKept, FieldsInvariant, MineIsTrue, MineHolds
  <2> QED
    BY <2>2, <2>3
<1>2. FieldsInvariant => Form!EditsAreKept
  BY <1>1
<1> QED
  BY <1>2, FieldsStaySound, PTL

-----------------------------------------------------------------------------
\* A form that is loaded once never has a load beside a write.
Settled == Form!Of.reload = "never" => ~crossed /\ (saved # None => load = None)

\* Every request of a write has fields.
RequestsFit == flight # None => \A i \in DOMAIN flight.requests : flight.requests[i] # {}

LEMMA ReloadIs ==
  ASSUME Form!FieldsAssumption, form \in Forms
  PROVE  /\ form = "passengers" => Form!Of.reload = "never"
         /\ Form!Of.reload = "never" => form # "boarding"
         /\ Form!Of.fields # {}
BY DEF Form!FieldsAssumption, Form!Of, Form!Plain, Form!Payment, Form!Rates,
   Form!Preferences, Form!Notifications,
       Form!Numbers, Form!StatusForm, Form!Navigation, Form!Passengers, Form!Company,
       Form!Profile, Form!Detail, Form!Trip, Form!Review,
       Form!Boarding, Form!FieldForm

LEMMA SettledNext ==
  ASSUME Form!FieldsAssumption, FieldsInvariant, FieldsInvariant', Settled,
         [Form!Next]_(Form!vars)
  PROVE  Settled'
<1>1. CASE UNCHANGED Form!vars
  BY <1>1 DEF Settled, Form!vars, Form!Of
<1>2. CASE Form!Step /\ Form!Remember
  <2>1. form' = form /\ Form!Of' = Form!Of
    BY <1>2 DEF Form!Step, Form!Loading, Form!Saving, Form!Type, Form!Choose, Form!Commit,
       Form!OtherChange, Form!Refresh, Form!Retry,
       Form!ServeLoad, Form!FailLoad, Form!ReceiveLoad, Form!Reopen, Form!Leave, Form!Skip,
       Form!Send, Form!Execute, Form!Refuse, Form!GiveUp,
       Form!NextRequest, Form!Acknowledge, Form!AcknowledgeRefusal, Form!LateExecute, Form!Of
  <2>2. SUFFICES ASSUME Form!Of.reload = "never"
                 PROVE  ~crossed' /\ (saved' # None => load' = None)
    BY <2>1 DEF Settled
  <2>3. ~Form!Reopen /\ form # "boarding"
    BY <2>2, ReloadIs DEF Form!Reopen, FieldsInvariant, FormType
  <2>4. saved' # None => load' = None
    <3>1. CASE Form!Loading
      BY <2>2, <3>1 DEF Settled, Form!Loading, Form!Refresh, Form!Retry, Form!ServeLoad,
         Form!FailLoad, Form!ReceiveLoad,
         Form!Reopen, Form!Waiting, Form!FieldsAssumption
    <3>2. CASE ~Form!Loading
      <4>1. load' = load
        BY <1>2, <3>2 DEF Form!Step, Form!Saving, Form!Type, Form!Choose, Form!Commit,
           Form!OtherChange, Form!Leave, Form!Skip, Form!Send,
           Form!Execute, Form!Refuse, Form!GiveUp, Form!NextRequest, Form!Acknowledge,
           Form!AcknowledgeRefusal, Form!LateExecute
      <4>2. saved' = saved \/ Form!Acknowledge
        BY <1>2, <3>2 DEF Form!Step, Form!Saving, Form!Type, Form!Choose, Form!Commit,
           Form!OtherChange, Form!Leave, Form!Skip, Form!Send,
           Form!Execute, Form!Refuse, Form!GiveUp, Form!NextRequest, Form!AcknowledgeRefusal,
           Form!LateExecute
      <4>3. Form!Acknowledge => saved # None
        BY DEF Form!Acknowledge, FieldsInvariant, NothingYet, Form!Pending
      <4> QED
        BY <2>2, <4>1, <4>2, <4>3 DEF Settled
    <3> QED
      BY <3>1, <3>2
  <2>5. Form!Pending' => load' = None
    BY <2>4 DEF FieldsInvariant, NothingYet
  <2>6. crossed' = (crossed \/ (Form!Pending' /\ load' # None) \/ (Form!Pending /\ Form!Reopen))
    BY <1>2, <2>3 DEF Form!Remember
  <2> QED
    BY <2>2, <2>3, <2>4, <2>5, <2>6 DEF Settled
<1> QED
  BY <1>1, <1>2 DEF Form!Next

LEMMA NewFields ==
  ASSUME NEW one \in Form!Records, NEW two \in Form!Records, one # two
  PROVE  Form!Changed(one, two) # {}
BY DEF Form!Records, Form!Changed

LEMMA RequestsHaveFields ==
  ASSUME Form!FieldsAssumption, FormType, NEW next \in Form!Records,
         Form!Of.body = "changed" => Form!Changed(next, persisted) # {}
  PROVE  \A i \in DOMAIN Form!Requests(next) : Form!Requests(next)[i] # {}
<1> DEFINE new == Form!Changed(next, persisted)
           rest == Fields \ {Status}
<1>1. rest # {} /\ {Status} # {} /\ new \in SUBSET Fields /\ {Status} \in SUBSET Fields
      /\ rest \in SUBSET Fields
  BY DEF Form!FieldsAssumption, Form!Changed
<1>2. CASE Form!Of.body = "all"
  <2>1. Form!Requests(next) = <<Form!Of.fields>>
    BY <1>2 DEF Form!Requests
  <2> QED
    BY <2>1, ReloadIs DEF FormType
<1>3. CASE Form!Of.body = "changed"
  <2>1. Form!Requests(next) = <<new>>
    BY <1>3 DEF Form!Requests
  <2> HIDE DEF new
  <2>2. DOMAIN Form!Requests(next) = {1} /\ Form!Requests(next)[1] = new
    BY <2>1
  <2>3. new # {}
    BY <1>3 DEF new
  <2> QED
    BY <2>2, <2>3
<1>4. CASE Form!Of.body = "status apart"
  <2>1. Form!Requests(next) =
          (IF Status \in new THEN <<{Status}>> ELSE <<>>)
            \o (IF Status \in new /\ new \cap rest = {} THEN <<>> ELSE <<rest>>)
    BY <1>4 DEF Form!Requests
  <2> HIDE DEF new, rest
  <2>2. CASE Status \in new /\ new \cap rest = {}
    <3>1. Form!Requests(next) = <<{Status}>>
      BY <1>1, <2>1, <2>2, TwoRequests
    <3> QED
      BY <1>1, <3>1, OneRequest
  <2>3. CASE Status \in new /\ new \cap rest # {}
    <3>1. Form!Requests(next) = <<{Status}>> \o <<rest>>
      BY <2>1, <2>3
    <3>2. \A i \in DOMAIN Form!Requests(next) :
            Form!Requests(next)[i] = {Status} \/ Form!Requests(next)[i] = rest
      BY <3>1
    <3> QED
      BY <1>1, <3>2
  <2>4. CASE Status \notin new
    <3>1. Form!Requests(next) = <<rest>>
      BY <1>1, <2>1, <2>4, TwoRequests
    <3> QED
      BY <1>1, <3>1, OneRequest
  <2> QED
    BY <2>2, <2>3, <2>4
<1> QED
  BY <1>2, <1>3, <1>4, FormsAre

LEMMA RequestsNext ==
  ASSUME Form!FieldsAssumption, FieldsInvariant, Settled, RequestsFit, [Form!Next]_(Form!vars)
  PROVE  RequestsFit'
<1>1. FormType
  BY DEF FieldsInvariant
<1>2. CASE flight' = flight
  BY <1>2 DEF RequestsFit
<1>3. CASE \E value : Form!Reset(value) /\ flight # None
  <2>1. flight' = [flight EXCEPT !.live = FALSE] /\ flight \in Form!Flights
    BY <1>1, <1>3 DEF Form!Reset, FormType
  <2>2. flight'.requests = flight.requests
    BY <2>1 DEF Form!Flights
  <2> QED
    BY <1>3, <2>2 DEF RequestsFit
<1>4. CASE Form!Send
  <2>1. PICK next \in Form!Records :
          /\ next = Form!Put(saved, Head(queue).patch) /\ next # saved /\ saved \in Form!Records
    BY <1>1, <1>4, NextCommit, PutIs DEF Form!Send, FormType
  <2>2. Form!Of.body = "changed" => Form!Changed(next, persisted) # {}
    <3>1. SUFFICES ASSUME Form!Of.body = "changed"
                   PROVE  Form!Changed(next, persisted) # {}
      OBVIOUS
    <3>2. form = "passengers" /\ Form!Of.resets = "always"
      BY <1>1, <3>1, FormsAre
    <3>3. ~crossed
      BY <1>1, <3>2, ReloadIs DEF Settled, FormType
    <3>4. persisted = saved
      BY <2>1, <3>2, <3>3 DEF FieldsInvariant, PersistedIsSaved, Form!FieldsAssumption
    <3> QED
      BY <2>1, <3>4, NewFields
  <2>3. flight'.requests = Form!Requests(next)
    BY <1>4, <2>1 DEF Form!Send
  <2>4. \A i \in DOMAIN Form!Requests(next) : Form!Requests(next)[i] # {}
    BY <1>1, <2>2, RequestsHaveFields
  <2> QED
    BY <2>3, <2>4 DEF RequestsFit
<1>5. CASE Form!Execute \/ Form!Refuse \/ Form!GiveUp
  <2>1. flight # None /\ flight \in Form!Flights
    BY <1>1, <1>5 DEF Form!Execute, Form!Refuse, Form!GiveUp, Form!Sent, FormType
  <2>2. \/ flight' = [flight EXCEPT !.stage = "done", !.answer = server']
        \/ flight' = [flight EXCEPT !.stage = "refused"]
    BY <1>5 DEF Form!Execute, Form!Refuse, Form!GiveUp
  <2>3. flight'.requests = flight.requests
    BY <2>1, <2>2 DEF Form!Flights
  <2> QED
    BY <2>1, <2>3 DEF RequestsFit
<1>6. CASE Form!NextRequest
  <2>1. flight \in Form!Flights /\ flight # None /\ flight.requests \in Seq(SUBSET Fields)
        /\ flight.requests # <<>>
    BY <1>1, <1>6, FlightIs DEF Form!NextRequest
  <2>2. flight' = [flight EXCEPT !.requests = Tail(flight.requests), !.stage = "sent"]
    BY <1>6 DEF Form!NextRequest
  <2>3. flight'.requests = Tail(flight.requests)
    BY <2>1, <2>2 DEF Form!Flights
  <2>4. \A i \in DOMAIN Tail(flight.requests) :
          i + 1 \in DOMAIN flight.requests /\ Tail(flight.requests)[i] = flight.requests[i + 1]
    BY <2>1, RestIs
  <2> QED
    BY <2>1, <2>3, <2>4 DEF RequestsFit
<1>7. CASE flight' = None
  BY <1>7 DEF RequestsFit
<1>8. \/ flight' = flight \/ flight' = None \/ Form!Send \/ Form!Execute \/ Form!Refuse \/ Form!GiveUp
      \/ Form!NextRequest \/ \E value : Form!Reset(value) /\ flight # None
  BY DEF Form!Next, Form!vars, Form!Step, Form!Loading, Form!Saving, Form!Type, Form!Choose,
     Form!Commit, Form!OtherChange, Form!Refresh, Form!Retry,
     Form!ServeLoad, Form!FailLoad, Form!ReceiveLoad, Form!Reopen, Form!Leave, Form!Skip,
     Form!Acknowledge, Form!AcknowledgeRefusal,
     Form!LateExecute, Form!Reset
<1> QED
  BY <1>2, <1>3, <1>4, <1>5, <1>6, <1>7, <1>8

\* The variables have their types, and no write is without a request or a request without
\* a field (lib/autosave.ts and its screens).
THEOREM FieldsTypeCorrect == ASSUME Form!FieldsAssumption PROVE Form!Spec => []Form!TypeOK
<1>1. Form!Init => Settled /\ RequestsFit
  BY DEF Form!Init, Settled, RequestsFit
<1>2. FieldsInvariant /\ FieldsInvariant' /\ Settled /\ RequestsFit /\ [Form!Next]_(Form!vars)
        => Settled' /\ RequestsFit'
  BY SettledNext, RequestsNext
<1>3. FieldsInvariant /\ RequestsFit => Form!TypeOK
  BY DEF FieldsInvariant, FormType, RequestsFit, Form!TypeOK
<1> QED
  BY <1>1, <1>2, <1>3, FieldsStaySound, PTL DEF Form!Spec

\* In a form that is loaded once, in whatever order it is edited, refused and answered,
\* no load runs beside a write: it loses no edit and takes none back (payment settings,
\* rates, preferences, notifications, numbers, statuses, navigation, passengers).
THEOREM LoadedOnceLosesNothing ==
  ASSUME Form!FieldsAssumption
  PROVE  Form!Spec => [](Form!Of.reload = "never" => Form!EditIsKept /\ Form!AcknowledgedIsKept)
<1>1. Form!Init => Settled
  BY DEF Form!Init, Settled
<1>2. FieldsInvariant /\ FieldsInvariant' /\ Settled /\ [Form!Next]_(Form!vars) => Settled'
  BY SettledNext
<1>3. Form!EditsAreKept /\ Settled => (Form!Of.reload = "never" => Form!EditIsKept /\ Form!AcknowledgedIsKept)
  BY DEF Form!EditsAreKept, Settled
<1> QED
  BY <1>1, <1>2, <1>3, FieldsStaySound, EditsSurvive, PTL DEF Form!Spec

-----------------------------------------------------------------------------
\* Feeds.  An answer is a page of what there was, from where it was asked to its last row
\* (AnswersAreWhole), the log and the inbox wait for one load of their own filter (OneCall)
\* and of the ledger's loads of older rows those are known that a reload has overtaken
\* (OlderLoads); a further page begins below a row that is shown (GoesBelow); so merging one
\* into the list leaves no hole between them (ListIsWhole), unless it was overtaken.

ListPages ==
  [filter : {"all", "payment", "expense", "unread"}, before : Lists!Items \cup {0}, shown : Lists!Tagged,
   next : Lists!Items \cup {0}, busy : BOOLEAN, loading : BOOLEAN, paginated : BOOLEAN,
   badge : 0 .. MaxItems]

Marks == [item : Lists!Items \cup {Lists!All}, stored : BOOLEAN, marked : {0, 1}]

\* The rows, the list and its loads.
FeedType ==
  /\ feed \in Kinds /\ tags \in [Lists!Items -> Lists!Tags \cup {None}] /\ visible \in SUBSET Lists!Items
  /\ page \in ListPages /\ calls \in [Lists!Slots -> Lists!Calls \cup {None}]
  /\ closing \in Lists!Filters \cup {None} /\ marking \in Marks \cup {None}
  /\ known \in SUBSET Lists!Items /\ fresh \in BOOLEAN /\ overtaken \in SUBSET Lists!Slots
  /\ crossed \in BOOLEAN /\ events \in Nat
  /\ page.filter \in Lists!Filters /\ \A s \in Lists!Slots : calls[s] # None => calls[s].filter \in Lists!Filters

\* Only drawn rows are visible, and only visible rows are known and shown; the next page
\* begins at a row that is shown.
RowsInOrder ==
  /\ \A i \in visible : tags[i] # None
  /\ known \subseteq visible /\ DOMAIN page.shown \subseteq visible
  /\ page.next # 0 => page.next \in DOMAIN page.shown

\* Each list has what is its own.
Kept ==
  /\ feed # "ledger" => closing = None
  /\ feed # "inbox" => marking = None /\ ~page.paginated
  /\ marking # None => (marking.item # Lists!All => marking.item \in visible)

\* The ledger may wait for several loads: those of older rows are of its filter, and some of
\* them were asked for before the list was begun anew.
OlderLoads ==
  /\ \A s \in overtaken : calls[s] # None /\ calls[s].before # 0
  /\ feed # "ledger" => overtaken = {}
  /\ feed = "ledger" =>
       \A s \in Lists!Slots : calls[s] # None /\ calls[s].before # 0 => calls[s].filter = page.filter

\* Another list waits for one load, of its filter; that of the log is of its page.
OneCall ==
  ~crossed /\ feed # "ledger" =>
    /\ \A s, t \in Lists!Slots : calls[s] # None /\ calls[t] # None => s = t
    /\ (page.busy <=> \E s \in Lists!Slots : calls[s] # None)
    /\ \A s \in Lists!Slots : calls[s] # None => calls[s].filter = page.filter
    /\ feed = "activity" => \A s \in Lists!Slots : calls[s] # None => calls[s].before = page.before

\* A page is what there was of a filter from one row to another.
AnswerIsWhole(c) ==
  /\ c.answer.seen \subseteq visible /\ DOMAIN c.answer.items \subseteq visible
  /\ c.answer.next # 0 => c.answer.next \in DOMAIN c.answer.items
  /\ feed # "inbox" =>
       \A i \in DOMAIN c.answer.items : Lists!Match(c.filter, c.answer.items[i])
  /\ \A i \in c.answer.seen :
       Lists!Match(c.filter, tags[i]) /\ (c.before = 0 \/ i < c.before)
         /\ (c.answer.next = 0 \/ \E j \in DOMAIN c.answer.items : j <= i)
         => i \in DOMAIN c.answer.items
\* The rows of such an answer are to go into the list that there is.
Adds(s) == ~crossed /\ s \notin overtaken /\ (feed = "ledger" => calls[s].before # 0)
AnswersAreWhole ==
  \A s \in Lists!Slots : calls[s] # None /\ calls[s].served =>
    AnswerIsWhole(calls[s]) /\ (Adds(s) => known \subseteq calls[s].answer.seen)

\* A further page goes below the rows that are shown.
GoesBelow ==
  ~crossed =>
    /\ page.paginated => fresh
    /\ \A s \in Lists!Slots \ overtaken : calls[s] # None /\ calls[s].before # 0 =>
         fresh /\ \E j \in DOMAIN page.shown : j <= calls[s].before
    /\ ~fresh /\ feed # "inbox" => DOMAIN page.shown = {}

\* What was there is shown, down to the last row.
ListIsWhole ==
  ~crossed =>
    /\ feed # "inbox" => \A i \in DOMAIN page.shown : Lists!Match(page.filter, page.shown[i])
    /\ fresh => \A i \in known :
         Lists!Match(page.filter, tags[i])
           /\ (page.next = 0 \/ \E j \in DOMAIN page.shown : j <= i)
           => i \in DOMAIN page.shown

FeedsInvariant ==
  /\ FeedType /\ RowsInOrder /\ Kept /\ OlderLoads /\ OneCall /\ AnswersAreWhole /\ GoesBelow
  /\ ListIsWhole

-----------------------------------------------------------------------------
\* Rows and pages.

\* A set of rows has a first and a last one.
LEMMA LeastRow ==
  ASSUME NEW S \in SUBSET Nat, S # {}
  PROVE  Lists!Min(S) \in S /\ \A i \in S : Lists!Min(S) <= i
<1> DEFINE R == {ss \in Nat \X Nat : ss[1] < ss[2]}
<1>1. IsWellFoundedOn(R, Nat)
  BY NatLessThanWellFounded DEF OpToRel
<1>2. PICK x \in S : \A y \in S : ~ (<<y, x>> \in R)
  <2> HIDE DEF R
  <2> QED
    BY <1>1, WFMin
<1>3. \A y \in S : <<y, x>> \in Nat \X Nat /\ <<y, x>>[1] = y /\ <<y, x>>[2] = x
  OBVIOUS
<1>4. \A y \in S : ~ (y < x)
  BY <1>2, <1>3
<1>5. \A y \in S : x <= y
  BY <1>4
<1>6. \E i \in S : \A y \in S : i <= y
  BY <1>5
<1> QED
  BY <1>6 DEF Lists!Min

LEMMA LastRow ==
  ASSUME Lists!FeedsAssumption, NEW S \in SUBSET Lists!Items, S # {}
  PROVE  \E m \in S : \A i \in S : i <= m
<1>1. MaxItems \in Nat /\ \A i \in S : i \in Nat /\ MaxItems - i \in Nat
  BY DEF Lists!FeedsAssumption, Lists!Items
<1> DEFINE D == {MaxItems - i : i \in S}
<1>2. D \in SUBSET Nat /\ D # {}
  BY <1>1
<1>3. Lists!Min(D) \in D /\ \A d \in D : Lists!Min(D) <= d
  <2> HIDE DEF D
  <2> QED
    BY <1>2, LeastRow
<1>4. PICK m \in S : Lists!Min(D) = MaxItems - m
  BY <1>3
<1>5. \A i \in S : MaxItems - m <= MaxItems - i
  BY <1>3, <1>4
<1>6. \A i \in S : i <= m
  BY <1>1, <1>5
<1> QED
  BY <1>6

\* Sets of rows are finite.
LEMMA RowsAreFinite ==
  ASSUME Lists!FeedsAssumption, NEW S \in SUBSET Lists!Items
  PROVE  IsFiniteSet(S) /\ Cardinality(S) \in 0 .. MaxItems
<1>1. MaxItems \in Nat
  BY DEF Lists!FeedsAssumption
<1>2. IsFiniteSet(Lists!Items) /\ Cardinality(Lists!Items) = MaxItems
  BY <1>1, FS_Interval DEF Lists!Items
<1>3. IsFiniteSet(S) /\ Cardinality(S) <= MaxItems
  BY <1>2, FS_Subset
<1> QED
  BY <1>1, <1>3, FS_CardinalityType

\* The newest rows of a set: there are some, and none is skipped.
LEMMA NewestRows ==
  ASSUME Lists!FeedsAssumption, NEW all \in SUBSET Lists!Items, all # {}, NEW first,
         first = {i \in all : Cardinality({j \in all : j > i}) < PageSize}
  PROVE  first # {} /\ \A i \in all, j \in first : j <= i => i \in first
<1>1. PageSize \in Nat /\ PageSize > 0 /\ \A i \in all : i \in Nat
  BY DEF Lists!FeedsAssumption, Lists!Items
<1>2. first # {}
  <2>1. PICK m \in all : \A i \in all : i <= m
    BY LastRow
  <2>2. {j \in all : j > m} = {}
    BY <1>1, <2>1
  <2>3. Cardinality({j \in all : j > m}) = 0
    BY <2>2, FS_EmptySet
  <2> QED
    BY <1>1, <2>3
<1>3. ASSUME NEW i \in all, NEW j \in first, j <= i
      PROVE  i \in first
  <2> DEFINE newer(k) == {l \in all : l > k}
  <2>1. newer(i) \subseteq newer(j)
    BY <1>1, <1>3
  <2>2. newer(j) \in SUBSET Lists!Items
    OBVIOUS
  <2>3. IsFiniteSet(newer(j)) /\ Cardinality(newer(j)) \in Nat
    <3> HIDE DEF newer
    <3> QED
      BY <2>2, RowsAreFinite
  <2>4. Cardinality(newer(i)) <= Cardinality(newer(j))
    <3> HIDE DEF newer
    <3> QED
      BY <2>1, <2>3, FS_Subset
  <2>5. Cardinality(newer(j)) < PageSize
    OBVIOUS
  <2>6. Cardinality(newer(i)) \in Nat
    <3>1. newer(i) \in SUBSET Lists!Items
      OBVIOUS
    <3> HIDE DEF newer
    <3> QED
      BY <3>1, RowsAreFinite, FS_CardinalityType
  <2>7. Cardinality(newer(i)) < PageSize
    <3> HIDE DEF newer
    <3> QED
      BY <1>1, <2>3, <2>4, <2>5, <2>6
  <2> QED
    BY <2>7
<1> QED
  BY <1>2, <1>3

\* What rows are tagged with.
LEMMA TagsAre ==
  ASSUME Lists!FeedsAssumption, FeedType
  PROVE  /\ Lists!Tags \subseteq {"payment", "expense", "unread", "read"}
         /\ Lists!Filters \subseteq {"all", "payment", "expense", "unread"}
         /\ None \notin {"payment", "expense", "unread", "read", "all"} \cup Lists!Calls
  BY DEF Lists!FeedsAssumption, FeedType, Lists!Tags, Lists!Filters

\* The module of the lists counts as the library does.
LEMMA CountsAre == \A S : Lists!Cardinality(S) = Cardinality(S)
  BY DEF Lists!Cardinality, Cardinality

\* The answer is what there is of a filter from one row to another.
LEMMA PageIs ==
  ASSUME Lists!FeedsAssumption, FeedType, RowsInOrder, NEW c \in Lists!Calls, NEW a,
         a = Lists!Page(c)
  PROVE  /\ a \in Lists!Answers /\ a.seen = visible /\ DOMAIN a.items \subseteq visible
         /\ a.next # 0 => a.next \in DOMAIN a.items
         /\ \A i \in DOMAIN a.items : Lists!Match(c.filter, a.items[i])
         /\ \A i \in visible :
              Lists!Match(c.filter, tags[i]) /\ (c.before = 0 \/ i < c.before)
                /\ (a.next = 0 \/ \E j \in DOMAIN a.items : j <= i)
              => i \in DOMAIN a.items
<1>1. PICK all : all = {i \in visible : /\ Lists!Match(c.filter, tags[i])
                                        /\ c.before = 0 \/ i < c.before}
  OBVIOUS
<1>2. PICK first : first = {i \in all : Cardinality({j \in all : j > i}) < PageSize}
  OBVIOUS
<1>3. a = [items |-> [i \in first |-> tags[i]], next |-> IF first = all THEN 0 ELSE Lists!Min(first),
           seen |-> visible, badge |-> Cardinality(Lists!Unread)]
  <2>1. first = {i \in all : Lists!Cardinality({j \in all : j > i}) < PageSize}
    BY <1>2, CountsAre
  <2>2. Lists!Cardinality(Lists!Unread) = Cardinality(Lists!Unread)
    BY CountsAre
  <2> QED
    BY <1>1, <2>1, <2>2 DEF Lists!Page
<1>4. /\ all \in SUBSET Lists!Items /\ all \subseteq visible /\ first \subseteq all
      /\ Lists!Unread \in SUBSET Lists!Items /\ visible \in SUBSET Lists!Items
  BY <1>1, <1>2 DEF FeedType, Lists!Unread
<1>5. \A i \in Lists!Items : i \in Nat /\ i # 0
  BY DEF Lists!Items
<1>6. all # {} => first # {} /\ \A i \in all, j \in first : j <= i => i \in first
  BY <1>2, <1>4, NewestRows
<1>7. first # {} => Lists!Min(first) \in first
  <2>1. first \in SUBSET Nat
    BY <1>4, <1>5
  <2> QED
    BY <2>1, LeastRow
<1>8. first # all => Lists!Min(first) \in first /\ Lists!Min(first) # 0
  BY <1>4, <1>5, <1>6, <1>7
<1>9. /\ a.seen = visible /\ a.items = [i \in first |-> tags[i]]
      /\ a.next = (IF first = all THEN 0 ELSE Lists!Min(first)) /\ a.badge = Cardinality(Lists!Unread)
  BY <1>3
<1>10. DOMAIN a.items = first /\ \A i \in first : a.items[i] = tags[i]
  BY <1>9
<1>11. a \in Lists!Answers
  <2>1. \A i \in visible : tags[i] \in {"payment", "expense", "unread", "read"}
    BY TagsAre DEF FeedType, RowsInOrder
  <2>2. a.items \in [first -> {"payment", "expense", "unread", "read"}]
    BY <1>4, <1>9, <2>1
  <2>3. a.items \in Lists!Tagged
    BY <1>4, <2>2 DEF Lists!Tagged
  <2>4. a.next \in Lists!Items \cup {0}
    BY <1>4, <1>8, <1>9
  <2>5. Cardinality(Lists!Unread) \in 0 .. MaxItems
    BY <1>4, RowsAreFinite
  <2>6. a = [items |-> a.items, next |-> a.next, seen |-> a.seen, badge |-> a.badge]
    BY <1>3
  <2> QED
    BY <1>4, <1>9, <2>3, <2>4, <2>5, <2>6 DEF Lists!Answers
<1>12. \A i \in DOMAIN a.items : Lists!Match(c.filter, a.items[i])
  BY <1>1, <1>2, <1>10
<1>13. ASSUME NEW i \in visible, Lists!Match(c.filter, tags[i]), c.before = 0 \/ i < c.before,
              a.next = 0 \/ \E j \in DOMAIN a.items : j <= i
       PROVE  i \in DOMAIN a.items
  <2>1. i \in all
    BY <1>1, <1>13
  <2>2. a.next = 0 => first = all
    BY <1>8, <1>9
  <2> QED
    BY <1>6, <1>10, <1>13, <2>1, <2>2
<1> QED
  BY <1>4, <1>8, <1>9, <1>10, <1>11, <1>12, <1>13

\* ListPages side by side.
LEMMA OverIs ==
  ASSUME NEW one \in Lists!Tagged, NEW two \in Lists!Tagged, NEW both, both = Lists!Over(one,
         two)
  PROVE  /\ both \in Lists!Tagged /\ DOMAIN both = DOMAIN one \cup DOMAIN two
         /\ \A i \in DOMAIN both : both[i] = one[i] \/ (i \in DOMAIN two /\ both[i] = two[i])
<1>1. PICK S \in SUBSET Lists!Items : one \in [S -> {"payment", "expense", "unread", "read"}]
  BY DEF Lists!Tagged
<1>2. PICK T \in SUBSET Lists!Items : two \in [T -> {"payment", "expense", "unread", "read"}]
  BY DEF Lists!Tagged
<1>3. both \in [S \cup T -> {"payment", "expense", "unread", "read"}]
  BY <1>1, <1>2 DEF Lists!Over
<1>4. S \cup T \in SUBSET Lists!Items
  OBVIOUS
<1>5. both \in Lists!Tagged
  BY <1>3, <1>4 DEF Lists!Tagged
<1> QED
  BY <1>1, <1>2, <1>5 DEF Lists!Over

-----------------------------------------------------------------------------
\* The server.

\* Nothing that was visible is hidden or drawn again, and what is read matches no more
\* filters than before.
OnlyMore ==
  /\ visible \subseteq visible' /\ \A i \in visible' : tags'[i] # None
  /\ \A i \in visible, f \in Lists!Filters : Lists!Match(f, tags'[i]) => Lists!Match(f, tags[i])

\* ListPages and lists stay whole while the server's rows change.
LEMMA RowsStep ==
  ASSUME FeedsInvariant, OnlyMore, UNCHANGED <<feed, page, calls, known, fresh, overtaken,
         crossed>>
  PROVE  RowsInOrder' /\ OlderLoads' /\ OneCall' /\ AnswersAreWhole' /\ GoesBelow' /\ ListIsWhole'
<1>1. UNCHANGED <<page, calls, known, fresh, overtaken, crossed>>
  OBVIOUS
<1>2. RowsInOrder' /\ OlderLoads' /\ OneCall' /\ GoesBelow'
  BY <1>1 DEF FeedsInvariant, OnlyMore, RowsInOrder, OlderLoads, OneCall, GoesBelow
<1>3. ASSUME NEW s \in Lists!Slots, calls[s] # None, calls[s].served
      PROVE  AnswerIsWhole(calls[s])' /\ (Adds(s) => known \subseteq calls[s].answer.seen)
  <2>1. AnswerIsWhole(calls[s]) /\ (Adds(s) => known \subseteq calls[s].answer.seen)
    BY <1>3 DEF FeedsInvariant, AnswersAreWhole
  <2>2. calls[s].filter \in Lists!Filters
    BY <1>3 DEF FeedsInvariant, FeedType
  <2>3. calls'[s] = calls[s]
    BY <1>1
  <2>4. AnswerIsWhole(calls[s])'
    BY <1>1, <2>1, <2>2, <2>3 DEF AnswerIsWhole, OnlyMore, Lists!Match
  <2> QED
    BY <2>1, <2>4
<1>4. AnswersAreWhole'
  BY <1>1, <1>3 DEF AnswersAreWhole, Adds
<1>5. ListIsWhole'
  <2>1. page.filter \in Lists!Filters /\ known \subseteq visible
    BY DEF FeedsInvariant, FeedType, RowsInOrder
  <2> QED
    BY <1>1, <2>1 DEF FeedsInvariant, ListIsWhole, OnlyMore, Lists!Match
<1> QED
  BY <1>2, <1>4, <1>5

\* A row is drawn and becomes visible later.
LEMMA DrawStep ==
  ASSUME Lists!FeedsAssumption, FeedsInvariant,
         (\E tag \in Lists!Tags : Lists!Draw(tag)) \/ \E i \in Lists!Items : Lists!Publish(i)
  PROVE  FeedsInvariant'
<1>1. /\ UNCHANGED <<feed, Lists!list>>
      /\ UNCHANGED <<page, calls, closing, marking, known, fresh, overtaken, crossed, events>>
  BY DEF Lists!Draw, Lists!Publish, Lists!list, Lists!history
<1>2. /\ tags' \in [Lists!Items -> Lists!Tags \cup {None}] /\ visible' \in SUBSET Lists!Items
      /\ visible \subseteq visible' /\ \A i \in visible' : tags'[i] # None
      /\ \A i \in visible : tags'[i] = tags[i]
  <2>1. CASE \E tag \in Lists!Tags : Lists!Draw(tag)
    <3>1. PICK tag \in Lists!Tags : Lists!Draw(tag)
      BY <2>1
    <3>2. PICK i \in Lists!Items : tags[i] = None /\ tags' = [tags EXCEPT ![i] = tag]
      BY <3>1 DEF Lists!Draw
    <3>3. visible' = visible /\ i \notin visible
      BY <3>1, <3>2 DEF Lists!Draw, FeedsInvariant, RowsInOrder
    <3>4. tag # None
      BY TagsAre DEF FeedsInvariant
    <3> QED
      BY <3>2, <3>3, <3>4 DEF FeedsInvariant, FeedType, RowsInOrder
  <2>2. CASE \E i \in Lists!Items : Lists!Publish(i)
    BY <2>2 DEF Lists!Publish, FeedsInvariant, FeedType, RowsInOrder
  <2> QED
    BY <2>1, <2>2
<1>3. FeedType'
  BY <1>1, <1>2 DEF FeedsInvariant, FeedType, Lists!Tags, Lists!Filters
<1>4. Kept'
  BY <1>1, <1>2 DEF FeedsInvariant, Kept
<1>5. OnlyMore
  BY <1>2 DEF OnlyMore
<1> QED
  BY <1>1, <1>3, <1>4, <1>5, RowsStep DEF FeedsInvariant

\* What is read matches no more filters of the inbox than what is not.
LEMMA ReadMatches ==
  ASSUME Lists!FeedsAssumption, FeedsInvariant, feed = "inbox", NEW f \in Lists!Filters,
         NEW tag,
         Lists!Match(f, "read")
  PROVE  Lists!Match(f, tag)
  BY DEF Lists!Filters, Lists!Match

\* A notification is read, here or elsewhere.
LEMMA MarkedReadStep ==
  ASSUME Lists!FeedsAssumption, FeedsInvariant,
         (\E i \in Lists!Items : Lists!ReadElsewhere(i)) \/ Lists!StoreRead
  PROVE  FeedsInvariant'
<1>1. feed = "inbox"
  BY DEF Lists!ReadElsewhere, Lists!StoreRead, FeedsInvariant, Kept
<1>2. "read" \in Lists!Tags /\ "read" # None
  BY <1>1, TagsAre DEF Lists!Tags, FeedsInvariant
<1>3. /\ tags' \in [Lists!Items -> Lists!Tags \cup {None}]
      /\ \A i \in Lists!Items : tags'[i] = tags[i] \/ (i \in visible /\ tags'[i] = "read")
  <2>1. CASE \E i \in Lists!Items : Lists!ReadElsewhere(i)
    BY <1>2, <2>1 DEF Lists!ReadElsewhere, FeedsInvariant, FeedType, Lists!Unread
  <2>2. CASE Lists!StoreRead
    <3>1. tags' = [i \in Lists!Items |-> IF i \in visible /\ marking.item \in {Lists!All, i}
                                   THEN "read" ELSE tags[i]]
      BY <2>2 DEF Lists!StoreRead
    <3> QED
      BY <1>2, <3>1 DEF FeedsInvariant, FeedType
  <2> QED
    BY <2>1, <2>2
<1>4. OnlyMore /\ visible' = visible
  <2>1. visible' = visible /\ visible \subseteq Lists!Items
    BY DEF Lists!ReadElsewhere, Lists!StoreRead, FeedsInvariant, FeedType
  <2>2. \A i \in visible, f \in Lists!Filters : Lists!Match(f, tags'[i]) => Lists!Match(f, tags[i])
    BY <1>1, <1>3, <2>1, ReadMatches
  <2> QED
    BY <1>2, <1>3, <2>1, <2>2 DEF OnlyMore, FeedsInvariant, RowsInOrder
<1>5. UNCHANGED <<feed, page, calls, closing, known, fresh, overtaken, crossed>> /\ events' \in Nat
  BY DEF Lists!ReadElsewhere, Lists!StoreRead, Lists!Event, Lists!list, Lists!history,
     FeedsInvariant, FeedType
<1>6. marking' \in Marks \cup {None} /\ (marking' # None => marking'.item = marking.item)
      /\ (marking' # None => marking # None)
  <2>1. CASE \E i \in Lists!Items : Lists!ReadElsewhere(i)
    BY <2>1 DEF Lists!ReadElsewhere, Lists!list, FeedsInvariant, FeedType
  <2>2. CASE Lists!StoreRead
    <3>1. marking \in Marks /\ marking' = [marking EXCEPT !.stored = TRUE]
      BY <2>2 DEF Lists!StoreRead, FeedsInvariant, FeedType
    <3> QED
      BY <2>2, <3>1 DEF Marks, Lists!StoreRead
  <2> QED
    BY <2>1, <2>2
<1>7. FeedType'
  BY <1>3, <1>4, <1>5, <1>6 DEF FeedsInvariant, FeedType, Lists!Tags, Lists!Filters
<1>8. Kept'
  BY <1>1, <1>4, <1>5, <1>6 DEF FeedsInvariant, Kept
<1>9. RowsInOrder' /\ OlderLoads' /\ OneCall' /\ GoesBelow' /\ AnswersAreWhole' /\ ListIsWhole'
  BY <1>4, <1>5, RowsStep
<1> QED
  BY <1>7, <1>8, <1>9 DEF FeedsInvariant

\* The server answers with a whole page.
LEMMA ServePageStep ==
  ASSUME Lists!FeedsAssumption, FeedsInvariant, NEW s \in Lists!Slots, Lists!Serve(s)
  PROVE  FeedsInvariant'
<1>1. /\ calls[s] # None
      /\ calls' = [calls EXCEPT ![s].served = TRUE, ![s].answer = Lists!Page(calls[s])]
      /\ UNCHANGED <<feed, tags, visible, page, closing, marking, known, fresh, overtaken, crossed, events>>
  BY DEF Lists!Serve, Lists!server, Lists!history
<1>2. PICK c \in Lists!Calls : c = calls[s]
  BY <1>1 DEF FeedsInvariant, FeedType
<1>3. PICK a : a = Lists!Page(c)
  OBVIOUS
<1>4. /\ a \in Lists!Answers /\ a.seen = visible /\ DOMAIN a.items \subseteq visible
      /\ a.next # 0 => a.next \in DOMAIN a.items
      /\ \A i \in DOMAIN a.items : Lists!Match(c.filter, a.items[i])
      /\ \A i \in visible :
           Lists!Match(c.filter, tags[i]) /\ (c.before = 0 \/ i < c.before)
             /\ (a.next = 0 \/ \E j \in DOMAIN a.items : j <= i)
           => i \in DOMAIN a.items
  BY <1>3, PageIs DEF FeedsInvariant
<1> DEFINE d == [c EXCEPT !.served = TRUE, !.answer = a]
<1>5. d \in Lists!Calls /\ d.filter = c.filter /\ d.before = c.before /\ d.answer = a
  BY <1>4 DEF Lists!Calls
<1>6. calls' = [calls EXCEPT ![s] = d]
  BY <1>1, <1>2, <1>3 DEF FeedsInvariant, FeedType
<1> HIDE DEF d
<1>7. /\ calls' \in [Lists!Slots -> Lists!Calls \cup {None}] /\ calls'[s] = d /\ d # None
      /\ \A t \in Lists!Slots : t # s => calls'[t] = calls[t]
  BY <1>5, <1>6, TagsAre DEF FeedsInvariant, FeedType
<1>8. FeedType'
  BY <1>1, <1>2, <1>5, <1>7 DEF FeedsInvariant, FeedType, Lists!Tags, Lists!Filters
<1>9. RowsInOrder' /\ Kept' /\ ListIsWhole'
  BY <1>1 DEF FeedsInvariant, RowsInOrder, Kept, ListIsWhole
<1>10. OlderLoads' /\ OneCall' /\ GoesBelow'
  <2>1. \A t \in Lists!Slots : /\ calls'[t] # None <=> calls[t] # None
                               /\ calls[t] # None => /\ calls'[t].filter = calls[t].filter
                                                     /\ calls'[t].before = calls[t].before
    BY <1>1, <1>2, <1>5, <1>7
  <2> QED
    BY <1>1, <2>1 DEF FeedsInvariant, FeedType, OlderLoads, OneCall, GoesBelow
<1>11. ASSUME NEW t \in Lists!Slots, calls'[t] # None, calls'[t].served
       PROVE  AnswerIsWhole(calls[t])' /\ (Adds(t)' => known \subseteq calls'[t].answer.seen)
  <2>1. CASE t = s
    <3>1. calls'[t] = d
      BY <1>7, <2>1
    <3>2. known \subseteq visible
      BY DEF FeedsInvariant, RowsInOrder
    <3>3. AnswerIsWhole(calls[t])'
      BY <1>1, <1>4, <1>5, <3>1 DEF AnswerIsWhole
    <3> QED
      BY <1>4, <1>5, <3>1, <3>2, <3>3
  <2>2. CASE t # s
    <3>1. calls'[t] = calls[t]
      BY <1>7, <2>2
    <3> QED
      BY <1>1, <1>11, <3>1 DEF FeedsInvariant, AnswersAreWhole, AnswerIsWhole, Adds
  <2> QED
    BY <2>1, <2>2
<1>12. AnswersAreWhole'
  BY <1>1, <1>11 DEF AnswersAreWhole
<1> QED
  BY <1>8, <1>9, <1>10, <1>12 DEF FeedsInvariant

-----------------------------------------------------------------------------
\* Asking for a page.

\* A call that nobody has answered.
LEMMA CallIs ==
  ASSUME Lists!FeedsAssumption, FeedType, NEW filter \in Lists!Filters,
         NEW before \in Lists!Items \cup {0},
         NEW c, c = Lists!Call(filter, before)
  PROVE  /\ c \in Lists!Calls /\ c # None /\ c.filter = filter /\ c.before = before /\ ~c.served
<1>1. Lists!NoItems \in Lists!Tagged
  <2>1. Lists!NoItems \in [{} -> {"payment", "expense", "unread", "read"}] /\ {} \in SUBSET Lists!Items
    BY DEF Lists!NoItems
  <2> QED
    BY <2>1 DEF Lists!Tagged
<1>2. Lists!NoAnswer \in Lists!Answers
  BY <1>1 DEF Lists!NoAnswer, Lists!Answers, Lists!FeedsAssumption
<1>3. c \in Lists!Calls
  BY <1>2, TagsAre DEF Lists!Call, Lists!Calls
<1> QED
  BY <1>3, TagsAre DEF Lists!Call

\* An empty list.
LEMMA FreshIs ==
  ASSUME Lists!FeedsAssumption, FeedType, NEW filter \in Lists!Filters, NEW p,
         p = Lists!Fresh(filter)
  PROVE  /\ p \in ListPages /\ p.filter = filter /\ p.before = 0 /\ DOMAIN p.shown = {}
         /\ p.next = 0 /\ ~p.paginated /\ ~p.busy
<1>1. Lists!NoItems \in Lists!Tagged /\ DOMAIN Lists!NoItems = {}
  <2>1. Lists!NoItems \in [{} -> {"payment", "expense", "unread", "read"}] /\ {} \in SUBSET Lists!Items
    BY DEF Lists!NoItems
  <2> QED
    BY <2>1 DEF Lists!Tagged
<1> QED
  BY <1>1, TagsAre DEF Lists!Fresh, ListPages, Lists!FeedsAssumption

\* A load begins beside the ones of waiting.
LEMMA AskIs ==
  ASSUME Lists!FeedsAssumption, FeedType,
         NEW waiting \in [Lists!Slots -> Lists!Calls \cup {None}],
         NEW p \in ListPages, NEW filter, NEW before, Lists!Ask(waiting, p, filter, before)
  PROVE  /\ \E s \in Lists!Slots : waiting[s] = None
                             /\ calls' = [waiting EXCEPT ![s] = Lists!Call(filter, before)]
         /\ page' = [p EXCEPT !.busy = TRUE] /\ page' \in ListPages /\ page'.busy
         /\ page'.filter = p.filter /\ page'.before = p.before /\ page'.shown = p.shown
         /\ page'.next = p.next /\ page'.paginated = p.paginated
<1>1. PICK free : free = {s \in Lists!Slots : waiting[s] = None}
  OBVIOUS
<1>2. /\ free # {} /\ calls' = [waiting EXCEPT ![Lists!Min(free)] = Lists!Call(filter, before)]
      /\ page' = [p EXCEPT !.busy = TRUE]
  BY <1>1 DEF Lists!Ask
<1>3. Lists!Min(free) \in free
  <2>1. free \in SUBSET Nat
    BY <1>1 DEF Lists!Slots
  <2> QED
    BY <1>2, <2>1, LeastRow
<1>4. /\ page' \in ListPages /\ page'.busy /\ page'.filter = p.filter /\ page'.before = p.before
      /\ page'.shown = p.shown /\ page'.next = p.next /\ page'.paginated = p.paginated
  BY <1>2 DEF ListPages
<1> QED
  BY <1>1, <1>2, <1>3, <1>4

\* The load of a step is the only one of its list, unless the step is an anomaly.
Begun(filter, before) ==
  /\ filter \in Lists!Filters /\ before \in Lists!Items \cup {0} /\ page'.busy
  /\ ~crossed' => page'.filter = filter /\ (feed = "activity" => page'.before = before)
  /\ \E s \in Lists!Slots :
       /\ calls'[s] = Lists!Call(filter, before)
       /\ \A t \in Lists!Slots : t # s => calls'[t] = None \/ (crossed' /\ calls'[t] = calls[t])

\* It goes below what is shown.
Below(before) ==
  /\ page'.paginated => fresh'
  /\ before # 0 => fresh' /\ \E j \in DOMAIN page'.shown : j <= before
  /\ ~fresh' /\ feed # "inbox" => DOMAIN page'.shown = {}

LEMMA BeginStep ==
  ASSUME Lists!FeedsAssumption, FeedsInvariant, NEW filter, NEW before, Begun(filter, before),
         ~crossed' => Below(before), UNCHANGED <<feed, tags, visible>>,
         calls' \in [Lists!Slots -> Lists!Calls \cup {None}], overtaken' = {},
         feed = "ledger" => \A s \in Lists!Slots : calls'[s] # None => calls'[s].before = 0
  PROVE  /\ OlderLoads' /\ OneCall' /\ AnswersAreWhole' /\ GoesBelow'
         /\ \A s \in Lists!Slots : calls'[s] # None => calls'[s].filter \in Lists!Filters
<1>1. PICK s \in Lists!Slots :
        /\ calls'[s] = Lists!Call(filter, before)
        /\ \A t \in Lists!Slots : t # s => calls'[t] = None \/ (crossed' /\ calls'[t] = calls[t])
  BY DEF Begun
<1>2. /\ calls'[s] # None /\ calls'[s].filter = filter /\ calls'[s].before = before
      /\ ~calls'[s].served
  BY <1>1, CallIs DEF FeedsInvariant, Begun
<1>3. OneCall'
  BY <1>1, <1>2 DEF OneCall, Begun
<1>4. ASSUME NEW t \in Lists!Slots, calls'[t] # None, calls'[t].served
      PROVE  AnswerIsWhole(calls[t])' /\ (Adds(t)' => known' \subseteq calls'[t].answer.seen)
  <2>1. crossed' /\ calls'[t] = calls[t]
    BY <1>1, <1>2, <1>4
  <2>2. AnswerIsWhole(calls[t])
    BY <1>4, <2>1 DEF FeedsInvariant, AnswersAreWhole
  <2> QED
    BY <2>1, <2>2 DEF AnswerIsWhole, Adds
<1>5. AnswersAreWhole'
  BY <1>4 DEF AnswersAreWhole
<1>6. GoesBelow'
  BY <1>1, <1>2 DEF GoesBelow, Below
<1>7. \A t \in Lists!Slots : calls'[t] # None => calls'[t].filter \in Lists!Filters
  BY <1>1, <1>2 DEF FeedsInvariant, FeedType, Begun
<1>8. OlderLoads'
  BY DEF OlderLoads
<1> QED
  BY <1>3, <1>5, <1>6, <1>7, <1>8

\* Nobody waits for the loads before.
LEMMA AskAlone ==
  ASSUME Lists!FeedsAssumption, FeedsInvariant, NEW p \in ListPages,
         NEW filter \in Lists!Filters,
         NEW before \in Lists!Items \cup {0}, Lists!Ask(Lists!Dropped, p, filter, before),
         p.filter = filter,
         feed = "activity" => p.before = before
  PROVE  Begun(filter, before) /\ calls' \in [Lists!Slots -> Lists!Calls \cup {None}]
<1>1. PICK waiting : waiting = Lists!Dropped
  OBVIOUS
<1>2. waiting = Lists!NoCalls /\ waiting \in [Lists!Slots -> Lists!Calls \cup {None}]
  BY <1>1 DEF Lists!Dropped, Lists!NoCalls
<1>3. Lists!Ask(waiting, p, filter, before)
  BY <1>1
<1>4. PICK s \in Lists!Slots : calls' = [waiting EXCEPT ![s] = Lists!Call(filter, before)]
  BY <1>2, <1>3, AskIs DEF FeedsInvariant
<1>5. Lists!Call(filter, before) \in Lists!Calls
  BY CallIs DEF FeedsInvariant
<1>6. page'.busy /\ page'.filter = p.filter /\ page'.before = p.before
  BY <1>2, <1>3, AskIs DEF FeedsInvariant
<1>7. /\ calls' \in [Lists!Slots -> Lists!Calls \cup {None}] /\ calls'[s] = Lists!Call(filter, before)
      /\ \A t \in Lists!Slots : t # s => calls'[t] = None
  BY <1>2, <1>4, <1>5 DEF Lists!NoCalls
<1> QED
  BY <1>6, <1>7 DEF Begun

\* An undisturbed list that is not busy waits for nothing.
LEMMA AskBeside ==
  ASSUME Lists!FeedsAssumption, FeedsInvariant, NEW p \in ListPages,
         NEW filter \in Lists!Filters,
         NEW before \in Lists!Items \cup {0}, Lists!Ask(calls, p, filter, before),
         ~crossed' => /\ p.filter = filter /\ (feed = "activity" => p.before = before)
                      /\ \A s \in Lists!Slots : calls[s] = None
  PROVE  Begun(filter, before) /\ calls' \in [Lists!Slots -> Lists!Calls \cup {None}]
<1>1. PICK waiting : waiting = calls
  OBVIOUS
<1>2. waiting \in [Lists!Slots -> Lists!Calls \cup {None}]
  BY <1>1 DEF FeedsInvariant, FeedType
<1>3. Lists!Ask(waiting, p, filter, before)
  BY <1>1
<1>4. PICK s \in Lists!Slots : calls' = [waiting EXCEPT ![s] = Lists!Call(filter, before)]
  BY <1>2, <1>3, AskIs DEF FeedsInvariant
<1>5. Lists!Call(filter, before) \in Lists!Calls
  BY CallIs DEF FeedsInvariant
<1>6. page'.busy /\ page'.filter = p.filter /\ page'.before = p.before
  BY <1>2, <1>3, AskIs DEF FeedsInvariant
<1>7. /\ calls' \in [Lists!Slots -> Lists!Calls \cup {None}] /\ calls'[s] = Lists!Call(filter, before)
      /\ \A t \in Lists!Slots : t # s => calls'[t] = calls[t]
  BY <1>1, <1>2, <1>4, <1>5
<1>8. \A t \in Lists!Slots : t # s => calls'[t] = None \/ (crossed' /\ calls'[t] = calls[t])
  <2>1. crossed' \/ ~crossed'
    OBVIOUS
  <2> QED
    BY <1>7, <2>1
<1> QED
  BY <1>6, <1>7, <1>8 DEF Begun

LEMMA NothingAwaited ==
  ASSUME FeedsInvariant, feed # "ledger", ~crossed, ~page.busy
  PROVE  \A s \in Lists!Slots : calls[s] = None
  BY DEF FeedsInvariant, OneCall

\* What a load that begins leaves alone, and what is true of it.
LEMMA BeganStep ==
  ASSUME Lists!FeedsAssumption, FeedsInvariant, NEW filter, NEW before, Begun(filter, before),
         ~crossed' => Below(before), UNCHANGED <<feed, tags, visible, marking, known>>,
         overtaken' = {},
         feed = "ledger" => \A s \in Lists!Slots : calls'[s] # None => calls'[s].before = 0,
         calls' \in [Lists!Slots -> Lists!Calls \cup {None}], page' \in ListPages, page'.filter \in Lists!Filters,
         closing' \in Lists!Filters \cup {None}, {fresh', crossed'} \subseteq BOOLEAN, events' \in Nat
  PROVE  FeedType' /\ OlderLoads' /\ OneCall' /\ AnswersAreWhole' /\ GoesBelow'
<1>1. /\ OlderLoads' /\ OneCall' /\ AnswersAreWhole' /\ GoesBelow'
      /\ \A s \in Lists!Slots : calls'[s] # None => calls'[s].filter \in Lists!Filters
  BY BeginStep
<1>2. Lists!Tags' = Lists!Tags /\ Lists!Filters' = Lists!Filters
  BY DEF Lists!Tags, Lists!Filters
<1>3. FeedType'
  BY <1>1, <1>2 DEF FeedsInvariant, FeedType
<1> QED
  BY <1>1, <1>3

\* A list that stays as it was is as whole as it was.
LEMMA RowsKept ==
  ASSUME FeedsInvariant, UNCHANGED <<feed, tags, visible, known, fresh>>,
         page'.shown = page.shown, page'.next = page.next, page'.filter = page.filter,
         ~crossed' => ~crossed
  PROVE  RowsInOrder' /\ ListIsWhole'
  BY DEF FeedsInvariant, RowsInOrder, ListIsWhole

\* So is one that is begun anew.
LEMMA RowsGone ==
  ASSUME FeedsInvariant, UNCHANGED <<feed, tags, visible, known>>, ~fresh',
         DOMAIN page'.shown = {}, page'.next = 0
  PROVE  RowsInOrder' /\ ListIsWhole'
  BY DEF FeedsInvariant, RowsInOrder, ListIsWhole

\* An event is counted.
LEMMA EventCounts ==
  ASSUME FeedType, Lists!Event
  PROVE  events' \in Nat
  BY DEF FeedType, Lists!Event

-----------------------------------------------------------------------------
\* The ledger and the log.

\* Another filter.
LEMMA FilterStep ==
  ASSUME Lists!FeedsAssumption, FeedsInvariant, NEW filter \in Lists!Filters,
         \/ Lists!LedgerFilter(filter)
         \/ Lists!SelectLog(filter) /\ ~ (filter = page.filter /\ page.before = 0)
  PROVE  FeedsInvariant'
<1>1. /\ Lists!Ask(Lists!Dropped, Lists!Fresh(filter), filter, 0) /\ fresh' = FALSE
      /\ UNCHANGED <<feed, tags, visible, closing, marking, known>> /\ Lists!Event
      /\ crossed' \in BOOLEAN /\ overtaken' = {}
  BY DEF Lists!LedgerFilter, Lists!SelectLog, Lists!server, FeedsInvariant, FeedType,
     OlderLoads
<1>2. PICK p : p = Lists!Fresh(filter)
  OBVIOUS
<1>3. /\ p \in ListPages /\ p.filter = filter /\ p.before = 0 /\ DOMAIN p.shown = {}
      /\ p.next = 0 /\ ~p.paginated
  BY <1>2, FreshIs DEF FeedsInvariant
<1>4. Lists!Ask(Lists!Dropped, p, filter, 0)
  BY <1>1, <1>2
<1>5. Begun(filter, 0) /\ calls' \in [Lists!Slots -> Lists!Calls \cup {None}]
  BY <1>3, <1>4, AskAlone
<1>6. /\ page' \in ListPages /\ page'.filter = filter /\ DOMAIN page'.shown = {}
      /\ page'.next = 0 /\ ~page'.paginated
  <2>1. PICK waiting : waiting = Lists!Dropped
    OBVIOUS
  <2>2. waiting \in [Lists!Slots -> Lists!Calls \cup {None}]
    BY <2>1 DEF Lists!Dropped, Lists!NoCalls
  <2>3. Lists!Ask(waiting, p, filter, 0)
    BY <1>4, <2>1
  <2> QED
    BY <1>3, <2>2, <2>3, AskIs DEF FeedsInvariant
<1>7. Below(0)
  BY <1>6 DEF Below
<1>8. events' \in Nat /\ closing' \in Lists!Filters \cup {None}
  BY <1>1, EventCounts DEF FeedsInvariant, FeedType
<1>9. feed = "ledger" => \A s \in Lists!Slots : calls'[s] # None => calls'[s].before = 0
  <2>1. PICK waiting : waiting = Lists!Dropped
    OBVIOUS
  <2>2. waiting \in [Lists!Slots -> Lists!Calls \cup {None}] /\ waiting = Lists!NoCalls
    BY <2>1 DEF Lists!Dropped, Lists!NoCalls
  <2>3. PICK s \in Lists!Slots : calls' = [waiting EXCEPT ![s] = Lists!Call(filter, 0)]
    BY <1>3, <1>4, <2>1, <2>2, AskIs DEF FeedsInvariant
  <2>4. Lists!Call(filter, 0).before = 0
    BY DEF Lists!Call
  <2> QED
    BY <2>2, <2>3, <2>4 DEF Lists!NoCalls
<1>12. FeedType' /\ OlderLoads' /\ OneCall' /\ AnswersAreWhole' /\ GoesBelow'
  BY <1>1, <1>5, <1>6, <1>7, <1>8, <1>9, BeganStep
<1>10. RowsInOrder' /\ ListIsWhole'
  BY <1>1, <1>6, RowsGone
<1>11. Kept'
  BY <1>1, <1>6 DEF FeedsInvariant, Kept
<1> QED
  BY <1>10, <1>11, <1>12 DEF FeedsInvariant

\* A press of the table that is shown empties it.
LEMMA EmptyStep ==
  ASSUME Lists!FeedsAssumption, FeedsInvariant, NEW filter \in Lists!Filters,
         Lists!SelectLog(filter),
         filter = page.filter, page.before = 0
  PROVE  FeedsInvariant'
<1>1. /\ page' = [Lists!Fresh(filter) EXCEPT !.busy = page.busy] /\ calls' = calls
      /\ fresh' = FALSE /\ Lists!Event /\ feed = "activity"
      /\ UNCHANGED <<feed, tags, visible, closing, marking, known, overtaken, crossed>>
  BY DEF Lists!SelectLog, Lists!server
<1>2. PICK p : p = Lists!Fresh(filter)
  OBVIOUS
<1>3. /\ p \in ListPages /\ p.filter = filter /\ p.before = 0 /\ DOMAIN p.shown = {}
      /\ p.next = 0 /\ ~p.paginated
  BY <1>2, FreshIs DEF FeedsInvariant
<1>4. page \in ListPages
  BY DEF FeedsInvariant, FeedType
<1>5. /\ page' \in ListPages /\ page'.filter = page.filter /\ page'.before = page.before
      /\ DOMAIN page'.shown = {} /\ page'.next = 0 /\ ~page'.paginated
      /\ page'.busy = page.busy
  <2>1. page' = [p EXCEPT !.busy = page.busy]
    BY <1>1, <1>2
  <2> QED
    BY <1>3, <1>4, <2>1 DEF ListPages
<1>6. RowsInOrder' /\ ListIsWhole'
  BY <1>1, <1>5, RowsGone
<1>7. FeedType'
  <2>1. events' \in Nat
    BY <1>1, EventCounts DEF FeedsInvariant
  <2>2. Lists!Tags' = Lists!Tags /\ Lists!Filters' = Lists!Filters
    BY <1>1 DEF Lists!Tags, Lists!Filters
  <2>3. /\ \A s \in Lists!Slots : calls'[s] # None => calls'[s].filter \in Lists!Filters
        /\ calls' \in [Lists!Slots -> Lists!Calls \cup {None}] /\ fresh' \in BOOLEAN
    BY <1>1 DEF FeedsInvariant, FeedType
  <2>4. page'.filter \in Lists!Filters
    BY <1>5 DEF FeedsInvariant, FeedType
  <2> QED
    BY <1>1, <1>5, <2>1, <2>2, <2>3, <2>4 DEF FeedsInvariant, FeedType
<1>8. Kept'
  BY <1>1, <1>5 DEF FeedsInvariant, Kept
<1>9. OlderLoads' /\ OneCall'
  BY <1>1, <1>5 DEF FeedsInvariant, OlderLoads, OneCall
<1>10. AnswersAreWhole'
  BY <1>1 DEF FeedsInvariant, AnswersAreWhole, AnswerIsWhole, Adds
<1>11. ~crossed => \A s \in Lists!Slots : calls[s] # None => calls[s].before = 0
  BY <1>1 DEF FeedsInvariant, OneCall
<1>12. GoesBelow'
  BY <1>1, <1>5, <1>11 DEF GoesBelow
<1> QED
  BY <1>6, <1>7, <1>8, <1>9, <1>10, <1>12 DEF FeedsInvariant

\* A next page of what is shown.
LEMMA BelowNext ==
  ASSUME FeedsInvariant, ~crossed, page.next # 0, feed # "inbox" \/ fresh
  PROVE  fresh /\ \A i \in DOMAIN page.shown : \E j \in DOMAIN page.shown : j <= i
<1>1. DOMAIN page.shown # {}
  BY DEF FeedsInvariant, RowsInOrder
<1>2. fresh
  BY <1>1 DEF FeedsInvariant, GoesBelow
<1>3. \A i \in DOMAIN page.shown : i \in Nat
  BY DEF FeedsInvariant, RowsInOrder, FeedType, Lists!Items
<1> QED
  BY <1>2, <1>3

\* A load for the list as it is: its next page, or its newest rows.
LEMMA NextLoadStep ==
  ASSUME Lists!FeedsAssumption, FeedsInvariant,
         NEW filter \in Lists!Filters, NEW before \in Lists!Items \cup {0},
         Lists!Ask(calls, page, filter, before),
         UNCHANGED <<feed, tags, visible, marking, closing, known, fresh, overtaken>>,
         feed # "ledger", crossed' \in BOOLEAN, events' \in Nat,
         ~crossed' => /\ ~crossed /\ filter = page.filter /\ \A s \in Lists!Slots : calls[s] = None
                      /\ feed = "activity" => page.before = before
                      /\ before # 0 => fresh /\ \E j \in DOMAIN page.shown : j <= before
  PROVE  FeedsInvariant'
<1>1. page \in ListPages /\ calls \in [Lists!Slots -> Lists!Calls \cup {None}]
  BY DEF FeedsInvariant, FeedType
<1>2. /\ page' \in ListPages /\ page'.busy /\ page'.filter = page.filter
      /\ page'.before = page.before /\ page'.shown = page.shown /\ page'.next = page.next
      /\ page'.paginated = page.paginated
  BY <1>1, AskIs DEF FeedsInvariant
<1>3. Begun(filter, before) /\ calls' \in [Lists!Slots -> Lists!Calls \cup {None}]
  BY <1>1, AskBeside
<1>4. ~crossed' => Below(before)
  BY <1>2 DEF Below, FeedsInvariant, GoesBelow
<1>5. RowsInOrder' /\ ListIsWhole'
  BY <1>2, RowsKept
<1>6. /\ {fresh', crossed'} \subseteq BOOLEAN /\ closing' \in Lists!Filters \cup {None}
      /\ page'.filter \in Lists!Filters /\ overtaken' = {}
  BY <1>2 DEF FeedsInvariant, FeedType, OlderLoads
<1>7. FeedType' /\ OlderLoads' /\ OneCall' /\ AnswersAreWhole' /\ GoesBelow'
  BY <1>2, <1>3, <1>4, <1>6, BeganStep
<1>8. Kept'
  BY <1>2 DEF FeedsInvariant, Kept
<1> QED
  BY <1>5, <1>7, <1>8 DEF FeedsInvariant

\* A load of the ledger begins beside those that are under way.
LEMMA LedgerLoadStep ==
  ASSUME Lists!FeedsAssumption, FeedsInvariant, feed = "ledger",
         NEW filter \in Lists!Filters, NEW before \in Lists!Items \cup {0},
         Lists!Ask(calls, page, filter, before),
         UNCHANGED <<feed, tags, visible, marking, known, fresh, overtaken, crossed, events>>,
         closing' = closing \/ closing' = None,
         before # 0 => filter = page.filter,
         before # 0 /\ ~crossed => fresh /\ \E j \in DOMAIN page.shown : j <= before
  PROVE  FeedsInvariant'
<1>1. page \in ListPages /\ calls \in [Lists!Slots -> Lists!Calls \cup {None}]
  BY DEF FeedsInvariant, FeedType
<1>2. /\ page' \in ListPages /\ page'.filter = page.filter
      /\ page'.before = page.before /\ page'.shown = page.shown /\ page'.next = page.next
      /\ page'.paginated = page.paginated
  BY <1>1, AskIs DEF FeedsInvariant
<1>3. PICK s \in Lists!Slots : calls[s] = None /\ calls' = [calls EXCEPT ![s] = Lists!Call(filter, before)]
  BY <1>1, AskIs DEF FeedsInvariant
<1>4. PICK c : c = Lists!Call(filter, before)
  OBVIOUS
<1>5. c \in Lists!Calls /\ c # None /\ c.filter = filter /\ c.before = before /\ ~c.served
  BY <1>4, CallIs DEF FeedsInvariant
<1>6. /\ calls' \in [Lists!Slots -> Lists!Calls \cup {None}] /\ calls'[s] = c
      /\ \A t \in Lists!Slots : t # s => calls'[t] = calls[t]
  BY <1>1, <1>3, <1>4, <1>5
<1>7. FeedType'
  <2>1. Lists!Tags' = Lists!Tags /\ Lists!Filters' = Lists!Filters
    BY DEF Lists!Tags, Lists!Filters
  <2> QED
    BY <1>2, <1>5, <1>6, <2>1 DEF FeedsInvariant, FeedType
<1>8. RowsInOrder' /\ ListIsWhole' /\ Kept'
  BY <1>2, RowsKept DEF FeedsInvariant, Kept
<1>9. s \notin overtaken
  BY <1>3 DEF FeedsInvariant, OlderLoads
<1>10. OlderLoads' /\ OneCall'
  <2>1. \A t \in overtaken : t # s /\ calls'[t] = calls[t]
    BY <1>6, <1>9 DEF FeedsInvariant, FeedType
  <2> QED
    BY <1>2, <1>5, <1>6, <2>1 DEF FeedsInvariant, OlderLoads, OneCall
<1>11. GoesBelow'
  BY <1>2, <1>5, <1>6 DEF FeedsInvariant, GoesBelow
<1>12. AnswersAreWhole'
  BY <1>5, <1>6 DEF FeedsInvariant, AnswersAreWhole, AnswerIsWhole, Adds
<1> QED
  BY <1>7, <1>8, <1>10, <1>11, <1>12 DEF FeedsInvariant

\* The ledger's next page, the reload after an operation, and the refreshes.
LEMMA LoadsStep ==
  ASSUME Lists!FeedsAssumption, FeedsInvariant,
         Lists!LedgerMore \/ Lists!ReloadLedger \/ Lists!RefreshLog \/ Lists!PollInbox \/ Lists!InboxMore
  PROVE  FeedsInvariant'
<1>0. /\ page.filter \in Lists!Filters /\ page.next \in Lists!Items \cup {0} /\ 0 \in Lists!Items \cup {0}
      /\ crossed \in BOOLEAN /\ fresh \in BOOLEAN /\ events \in Nat
      /\ closing \in Lists!Filters \cup {None}
  BY DEF FeedsInvariant, FeedType, ListPages
<1>1. page.next # 0 => page.next \in DOMAIN page.shown
  BY DEF FeedsInvariant, RowsInOrder
<1>2. CASE Lists!LedgerMore
  <2>1. /\ page.next # 0 /\ Lists!Ask(calls, page, page.filter, page.next) /\ feed = "ledger"
        /\ UNCHANGED <<feed, tags, visible, marking, known, fresh, overtaken, closing, crossed,
                       events>>
    BY <1>2 DEF Lists!LedgerMore, Lists!server, Lists!history
  <2>2. ~crossed => fresh /\ \E j \in DOMAIN page.shown : j <= page.next
    BY <1>1, <2>1, BelowNext
  <2> QED
    BY <1>0, <2>1, <2>2, LedgerLoadStep
<1>3. CASE Lists!ReloadLedger
  <2>1. /\ closing # None /\ Lists!Ask(calls, page, closing, 0) /\ closing' = None
        /\ UNCHANGED <<feed, tags, visible, marking, known, fresh, overtaken, crossed, events>>
    BY <1>3 DEF Lists!ReloadLedger, Lists!server, Lists!history
  <2>2. feed = "ledger" /\ closing \in Lists!Filters
    BY <1>0, <2>1 DEF FeedsInvariant, Kept
  <2> QED
    BY <1>0, <2>1, <2>2, LedgerLoadStep
<1>4. CASE Lists!RefreshLog \/ Lists!PollInbox
  <2>1. /\ ~page.busy /\ Lists!Ask(calls, page, page.filter, 0)
        /\ feed = "activity" => page.before = 0
        /\ feed # "ledger"
        /\ UNCHANGED <<feed, tags, visible, marking, known, fresh, overtaken, closing, crossed,
                       events>>
    BY <1>4 DEF Lists!RefreshLog, Lists!PollInbox, Lists!server, Lists!history
  <2>2. ~crossed => \A s \in Lists!Slots : calls[s] = None
    BY <2>1, NothingAwaited
  <2> QED
    BY <1>0, <2>1, <2>2, NextLoadStep
<1>5. CASE Lists!InboxMore
  <2>1. /\ page.next # 0 /\ ~page.busy /\ Lists!Ask(calls, page, page.filter, page.next)
        /\ feed = "inbox" /\ Lists!Event /\ crossed' = (crossed \/ ~fresh)
        /\ UNCHANGED <<feed, tags, visible, marking, known, fresh, overtaken, closing>>
    BY <1>5 DEF Lists!InboxMore, Lists!server
  <2>2. ~crossed' => ~crossed /\ fresh
    BY <2>1
  <2>3. ~crossed' => \E j \in DOMAIN page.shown : j <= page.next
    BY <1>1, <2>1, <2>2, BelowNext
  <2>4. ~crossed => \A s \in Lists!Slots : calls[s] = None
    BY <2>1, NothingAwaited
  <2>5. crossed' \in BOOLEAN /\ events' \in Nat
    BY <1>0, <2>1, EventCounts DEF FeedsInvariant
  <2> QED
    BY <1>0, <2>1, <2>2, <2>3, <2>4, <2>5, NextLoadStep
<1> QED
  BY <1>2, <1>3, <1>4, <1>5

\* The log's next page, which may be the one that was asked for, and its first page again.
LEMMA LogStep ==
  ASSUME Lists!FeedsAssumption, FeedsInvariant, Lists!LogMore \/ Lists!RestartLog
  PROVE  FeedsInvariant'
<1>0. /\ page \in ListPages /\ page.filter \in Lists!Filters /\ 0 \in Lists!Items \cup {0} /\ feed = "activity"
      /\ {crossed, fresh} \subseteq BOOLEAN /\ closing \in Lists!Filters \cup {None}
  BY DEF FeedsInvariant, FeedType, Lists!LogMore, Lists!RestartLog
<1>1. ASSUME NEW p \in ListPages, NEW before \in Lists!Items \cup {0},
             Lists!Ask(Lists!Dropped, p, page.filter, before),
             p.filter = page.filter, p.before = before, p.shown = page.shown,
             p.next = page.next, p.paginated = page.paginated,
             UNCHANGED <<feed, tags, visible, closing, marking, known, fresh, overtaken, crossed>>,
             events' \in Nat,
             before # 0 /\ ~crossed => fresh /\ \E j \in DOMAIN page.shown : j <= before
      PROVE  FeedsInvariant'
  <2>1. Begun(page.filter, before) /\ calls' \in [Lists!Slots -> Lists!Calls \cup {None}]
    BY <1>0, <1>1, AskAlone
  <2>2. /\ page' \in ListPages /\ page'.filter = page.filter /\ page'.shown = page.shown
        /\ page'.next = page.next /\ page'.paginated = page.paginated
    <3>1. PICK waiting : waiting = Lists!Dropped
      OBVIOUS
    <3>2. waiting \in [Lists!Slots -> Lists!Calls \cup {None}]
      BY <3>1 DEF Lists!Dropped, Lists!NoCalls
    <3>3. Lists!Ask(waiting, p, page.filter, before)
      BY <1>1, <3>1
    <3> QED
      BY <1>1, <3>2, <3>3, AskIs DEF FeedsInvariant
  <2>3. ~crossed' => Below(before)
    BY <1>1, <2>2 DEF Below, FeedsInvariant, GoesBelow
  <2>4. FeedType' /\ OlderLoads' /\ OneCall' /\ AnswersAreWhole' /\ GoesBelow'
    <3>1. overtaken' = {}
      BY <1>0, <1>1 DEF FeedsInvariant, OlderLoads
    <3> QED
      BY <1>0, <1>1, <2>1, <2>2, <2>3, <3>1, BeganStep
  <2>5. RowsInOrder' /\ ListIsWhole'
    BY <1>1, <2>2, RowsKept
  <2>6. Kept'
    BY <1>1, <2>2 DEF FeedsInvariant, Kept
  <2> QED
    BY <2>4, <2>5, <2>6 DEF FeedsInvariant
<1>2. CASE Lists!RestartLog
  <2>1. PICK p : p = [page EXCEPT !.before = 0]
    OBVIOUS
  <2>2. /\ p \in ListPages /\ p.filter = page.filter /\ p.before = 0 /\ p.shown = page.shown
        /\ p.next = page.next /\ p.paginated = page.paginated
    BY <1>0, <2>1 DEF ListPages
  <2>3. /\ Lists!Ask(Lists!Dropped, p, page.filter, 0) /\ Lists!Event
        /\ UNCHANGED <<feed, tags, visible, closing, marking, known, fresh, overtaken, crossed>>
    BY <1>2, <2>1 DEF Lists!RestartLog, Lists!server, Lists!history
  <2>4. events' \in Nat
    BY <2>3, EventCounts DEF FeedsInvariant
  <2> QED
    BY <1>0, <1>1, <2>2, <2>3, <2>4
<1>3. CASE Lists!LogMore
  <2>1. /\ page.next # 0
        /\ UNCHANGED <<feed, tags, visible, closing, marking, known, fresh, overtaken, crossed, events>>
        /\ \/ page' = [page EXCEPT !.loading = TRUE] /\ calls' = calls
           \/ Lists!Ask(Lists!Dropped, [page EXCEPT !.loading = TRUE, !.before = Lists!LastShown],
                  page.filter, Lists!LastShown)
    BY <1>3 DEF Lists!LogMore, Lists!server, Lists!history
  <2>2. page.next \in DOMAIN page.shown /\ DOMAIN page.shown \in SUBSET Lists!Items
    BY <2>1 DEF FeedsInvariant, RowsInOrder, FeedType
  <2>3. PICK last : last = Lists!LastShown
    OBVIOUS
  <2>4. last \in DOMAIN page.shown
    <3>1. PICK S : S = DOMAIN page.shown
      OBVIOUS
    <3>2. S \in SUBSET Nat /\ S # {}
      BY <2>2, <3>1 DEF Lists!Items
    <3>3. Lists!Min(S) \in S
      BY <3>2, LeastRow
    <3> QED
      BY <2>3, <3>1, <3>3 DEF Lists!LastShown
  <2>5. CASE page' = [page EXCEPT !.loading = TRUE] /\ calls' = calls
    <3>1. /\ page' \in ListPages /\ page'.filter = page.filter /\ page'.before = page.before
          /\ page'.shown = page.shown /\ page'.next = page.next
          /\ page'.paginated = page.paginated /\ page'.busy = page.busy
      BY <1>0, <2>5 DEF ListPages
    <3>2. Lists!Tags' = Lists!Tags /\ Lists!Filters' = Lists!Filters
      BY <2>1 DEF Lists!Tags, Lists!Filters
    <3>3. FeedType'
      BY <2>1, <2>5, <3>1, <3>2 DEF FeedsInvariant, FeedType
    <3>4. RowsInOrder' /\ ListIsWhole'
      BY <2>1, <3>1, RowsKept
    <3>5. Kept' /\ OlderLoads' /\ OneCall' /\ GoesBelow'
      BY <2>1, <2>5, <3>1 DEF FeedsInvariant, Kept, OlderLoads, OneCall, GoesBelow
    <3>6. AnswersAreWhole'
      BY <2>1, <2>5 DEF FeedsInvariant, AnswersAreWhole, AnswerIsWhole, Adds
    <3> QED
      BY <3>3, <3>4, <3>5, <3>6 DEF FeedsInvariant
  <2>6. CASE Lists!Ask(Lists!Dropped, [page EXCEPT !.loading = TRUE, !.before = Lists!LastShown],
                 page.filter, Lists!LastShown)
    <3>1. PICK p : p = [page EXCEPT !.loading = TRUE, !.before = last]
      OBVIOUS
    <3>2. /\ p \in ListPages /\ p.filter = page.filter /\ p.before = last
          /\ p.shown = page.shown /\ p.next = page.next /\ p.paginated = page.paginated
      BY <1>0, <2>2, <2>4, <3>1 DEF ListPages
    <3>3. Lists!Ask(Lists!Dropped, p, page.filter, last)
      BY <2>3, <2>6, <3>1
    <3>4. ~crossed => fresh
      BY <1>0, <2>1, BelowNext
    <3>5. \E j \in DOMAIN page.shown : j <= last
      BY <2>2, <2>4 DEF Lists!Items
    <3>6. events' \in Nat /\ last \in Lists!Items \cup {0}
      BY <2>1, <2>2, <2>4 DEF FeedsInvariant, FeedType
    <3> QED
      BY <1>0, <1>1, <2>1, <3>2, <3>3, <3>4, <3>5, <3>6
  <2> QED
    BY <2>1, <2>5, <2>6
<1> QED
  BY <1>2, <1>3

-----------------------------------------------------------------------------
\* The inbox.

\* Another filter of the inbox: its rows come with the first page.
LEMMA InboxFilterStep ==
  ASSUME Lists!FeedsAssumption, FeedsInvariant, NEW filter \in Lists!Filters,
         Lists!InboxFilter(filter)
  PROVE  FeedsInvariant'
<1>0. page \in ListPages /\ feed = "inbox" /\ Lists!Event
  BY DEF FeedsInvariant, FeedType, Lists!InboxFilter
<1>1. PICK p : p = [page EXCEPT !.filter = filter, !.paginated = FALSE, !.loading = TRUE]
  OBVIOUS
<1>2. /\ p \in ListPages /\ p.filter = filter /\ ~p.paginated /\ p.shown = page.shown
      /\ p.next = page.next
  BY <1>0, <1>1, TagsAre DEF ListPages, FeedsInvariant
<1>3. /\ Lists!Ask(Lists!Dropped, p, filter, 0) /\ fresh' = FALSE /\ crossed' = FALSE
      /\ UNCHANGED <<feed, tags, visible, closing, marking, known, overtaken>>
      /\ overtaken = {}
  BY <1>0, <1>1 DEF Lists!InboxFilter, Lists!server, FeedsInvariant, OlderLoads
<1>4. Begun(filter, 0) /\ calls' \in [Lists!Slots -> Lists!Calls \cup {None}]
  BY <1>0, <1>2, <1>3, AskAlone
<1>5. /\ page' \in ListPages /\ page'.filter = filter /\ page'.shown = page.shown
      /\ page'.next = page.next /\ ~page'.paginated
  <2>1. PICK waiting : waiting = Lists!Dropped
    OBVIOUS
  <2>2. waiting \in [Lists!Slots -> Lists!Calls \cup {None}]
    BY <2>1 DEF Lists!Dropped, Lists!NoCalls
  <2>3. Lists!Ask(waiting, p, filter, 0)
    BY <1>3, <2>1
  <2> QED
    BY <1>2, <2>2, <2>3, AskIs DEF FeedsInvariant
<1>6. Below(0)
  BY <1>0, <1>5 DEF Below
<1>7. events' \in Nat /\ closing' \in Lists!Filters \cup {None}
  BY <1>0, <1>3, EventCounts DEF FeedsInvariant, FeedType
<1>8. FeedType' /\ OlderLoads' /\ OneCall' /\ AnswersAreWhole' /\ GoesBelow'
  BY <1>0, <1>3, <1>4, <1>5, <1>6, <1>7, BeganStep
<1>9. RowsInOrder' /\ ListIsWhole' /\ Kept'
  BY <1>0, <1>3, <1>5 DEF FeedsInvariant, RowsInOrder, ListIsWhole, Kept
<1> QED
  BY <1>8, <1>9 DEF FeedsInvariant

\* Marks, and an operation of the ledger, change what is shown of a row and no more.
LEMMA MarksStep ==
  ASSUME Lists!FeedsAssumption, FeedsInvariant,
         \/ Lists!OperationDone \/ Lists!HearRead \/ Lists!FailRead
         \/ \E i \in Lists!Items \cup {Lists!All} : Lists!MarkRead(i)
  PROVE  FeedsInvariant'
<1>1. /\ UNCHANGED <<feed, tags, visible, calls, known, fresh, overtaken, crossed>>
      /\ events' \in Nat
  BY EventCounts DEF Lists!OperationDone, Lists!HearRead, Lists!FailRead, Lists!MarkRead,
     Lists!server, Lists!history,
     FeedsInvariant, FeedType
<1>2. /\ page \in ListPages /\ page.filter \in Lists!Filters /\ closing \in Lists!Filters \cup {None}
      /\ marking \in Marks \cup {None} /\ DOMAIN page.shown \subseteq visible
      /\ visible \subseteq Lists!Items
  BY DEF FeedsInvariant, FeedType, RowsInOrder
<1>3. /\ closing' \in Lists!Filters \cup {None} /\ (feed # "ledger" => closing' = closing)
  BY <1>2 DEF Lists!OperationDone, Lists!HearRead, Lists!FailRead, Lists!MarkRead
<1>4. /\ marking' \in Marks \cup {None} /\ (feed # "inbox" => marking' = None)
      /\ (marking' # None => (marking'.item # Lists!All => marking'.item \in visible))
  <2>1. CASE Lists!OperationDone
    BY <1>2, <2>1 DEF Lists!OperationDone, FeedsInvariant, Kept
  <2>2. CASE Lists!HearRead \/ Lists!FailRead
    BY <2>2 DEF Lists!HearRead, Lists!FailRead
  <2>3. CASE \E i \in Lists!Items \cup {Lists!All} : Lists!MarkRead(i)
    <3>1. PICK i \in Lists!Items \cup {Lists!All} : Lists!MarkRead(i)
      BY <2>3
    <3>2. PICK n \in {0, 1} : marking' = [item |-> i, stored |-> FALSE, marked |-> n]
      BY <3>1 DEF Lists!MarkRead
    <3>3. marking' \in Marks /\ marking'.item = i
      BY <3>2 DEF Marks
    <3>4. feed = "inbox" /\ (i # Lists!All => i \in visible)
      BY <1>2, <3>1 DEF Lists!MarkRead
    <3> QED
      BY <3>3, <3>4
  <2> QED
    BY <2>1, <2>2, <2>3
<1>5. /\ page' \in ListPages /\ page'.filter = page.filter /\ page'.before = page.before
      /\ DOMAIN page'.shown = DOMAIN page.shown /\ page'.next = page.next
      /\ page'.paginated = page.paginated /\ page'.busy = page.busy
      /\ (feed # "inbox" => page'.shown = page.shown)
  <2>1. CASE Lists!HearRead
    <3>1. PICK shown : shown = [i \in DOMAIN page.shown |->
                                  IF marking.item \in {Lists!All, i} THEN "read" ELSE page.shown[i]]
      OBVIOUS
    <3>2. PICK badge : badge = IF marking.item = Lists!All THEN 0
                               ELSE IF page.badge >= marking.marked
                                    THEN page.badge - marking.marked ELSE 0
      OBVIOUS
    <3>3. page' = [page EXCEPT !.busy = page.busy, !.shown = shown, !.badge = badge]
      BY <1>2, <2>1, <3>1, <3>2 DEF Lists!HearRead, ListPages
    <3>4. shown \in Lists!Tagged /\ DOMAIN shown = DOMAIN page.shown
      <4>1. PICK S \in SUBSET Lists!Items :
              page.shown \in [S -> {"payment", "expense", "unread", "read"}]
        BY <1>2 DEF ListPages, Lists!Tagged
      <4>2. shown \in [S -> {"payment", "expense", "unread", "read"}]
        BY <3>1, <4>1
      <4> QED
        BY <4>1, <4>2 DEF Lists!Tagged
    <3>5. badge \in 0 .. MaxItems
      <4>1. page.badge \in 0 .. MaxItems /\ MaxItems \in Nat /\ marking.marked \in {0, 1}
        BY <1>2, <2>1 DEF Lists!HearRead, ListPages, Marks, Lists!FeedsAssumption
      <4> QED
        BY <3>2, <4>1
    <3>6. feed = "inbox"
      BY <2>1 DEF Lists!HearRead, FeedsInvariant, Kept
    <3> QED
      BY <1>2, <3>3, <3>4, <3>5, <3>6 DEF ListPages
  <2>2. CASE ~Lists!HearRead
    <3>1. page' = page
      BY <2>2 DEF Lists!OperationDone, Lists!FailRead, Lists!MarkRead
    <3> QED
      BY <1>2, <3>1
  <2> QED
    BY <2>1, <2>2
<1>6. Lists!Tags' = Lists!Tags /\ Lists!Filters' = Lists!Filters
  BY <1>1 DEF Lists!Tags, Lists!Filters
<1>7. FeedType'
  BY <1>1, <1>3, <1>4, <1>5, <1>6 DEF FeedsInvariant, FeedType
<1>8. RowsInOrder' /\ OlderLoads' /\ OneCall' /\ GoesBelow'
  BY <1>1, <1>5 DEF FeedsInvariant, RowsInOrder, OlderLoads, OneCall, GoesBelow
<1>9. Kept'
  BY <1>1, <1>3, <1>4, <1>5 DEF FeedsInvariant, Kept
<1>10. ListIsWhole'
  BY <1>1, <1>5 DEF FeedsInvariant, ListIsWhole
<1>11. AnswersAreWhole'
  BY <1>1 DEF FeedsInvariant, AnswersAreWhole, AnswerIsWhole, Adds
<1> QED
  BY <1>7, <1>8, <1>9, <1>10, <1>11 DEF FeedsInvariant

-----------------------------------------------------------------------------
\* Answers.

\* A load that ends without an answer leaves the list as it was.
LEMMA FailStep ==
  ASSUME Lists!FeedsAssumption, FeedsInvariant, NEW s \in Lists!Slots, Lists!Fail(s)
  PROVE  FeedsInvariant'
<1>1. /\ calls[s] # None /\ calls' = [calls EXCEPT ![s] = None]
      /\ page' = [page EXCEPT !.busy = FALSE, !.loading = FALSE]
      /\ overtaken' = overtaken \ {s}
      /\ UNCHANGED <<feed, tags, visible, closing, marking, known, fresh, crossed, events>>
  BY DEF Lists!Fail, Lists!server
<1>2. /\ page' \in ListPages /\ page'.filter = page.filter /\ page'.before = page.before
      /\ page'.shown = page.shown /\ page'.next = page.next
      /\ page'.paginated = page.paginated /\ page'.busy = FALSE
  BY <1>1 DEF ListPages, FeedsInvariant, FeedType
<1>3. /\ calls' \in [Lists!Slots -> Lists!Calls \cup {None}] /\ calls'[s] = None
      /\ \A t \in Lists!Slots : t # s => calls'[t] = calls[t]
  BY <1>1 DEF FeedsInvariant, FeedType
<1>4. Lists!Tags' = Lists!Tags /\ Lists!Filters' = Lists!Filters
  BY <1>1 DEF Lists!Tags, Lists!Filters
<1>5. FeedType'
  BY <1>1, <1>2, <1>3, <1>4 DEF FeedsInvariant, FeedType
<1>6. RowsInOrder' /\ ListIsWhole'
  BY <1>1, <1>2, RowsKept
<1>7. Kept'
  BY <1>1, <1>2 DEF FeedsInvariant, Kept
<1>8. ~crossed /\ feed # "ledger" => \A t \in Lists!Slots : calls'[t] = None
  BY <1>1, <1>3 DEF FeedsInvariant, OneCall
<1>9. OlderLoads' /\ OneCall'
  BY <1>1, <1>2, <1>3, <1>8 DEF FeedsInvariant, OlderLoads, OneCall
<1>10. GoesBelow'
  BY <1>1, <1>2, <1>3 DEF FeedsInvariant, GoesBelow
<1>11. AnswersAreWhole'
  <2>1. \A t \in Lists!Slots : calls'[t] # None => calls'[t] = calls[t]
    BY <1>3
  <2> QED
    BY <1>1, <1>3, <2>1 DEF FeedsInvariant, AnswersAreWhole, AnswerIsWhole, Adds
<1> QED
  BY <1>5, <1>6, <1>7, <1>9, <1>10, <1>11 DEF FeedsInvariant

\* What a page shows when an answer is merged into the list.
LEMMA MergedIs ==
  ASSUME Lists!FeedsAssumption, FeedsInvariant, NEW c \in Lists!Calls, NEW m,
         m = Lists!Merged(c)
  PROVE  /\ m \in Lists!Tagged /\ DOMAIN c.answer.items \subseteq DOMAIN m
         /\ IF c.before # 0 \/ page.paginated
            THEN DOMAIN m = DOMAIN page.shown \cup DOMAIN c.answer.items
            ELSE m = c.answer.items
         /\ \A i \in DOMAIN m :
              \/ i \in DOMAIN page.shown /\ m[i] = page.shown[i]
              \/ i \in DOMAIN c.answer.items /\ m[i] = c.answer.items[i]
<1>1. PICK one : one = page.shown
  OBVIOUS
<1>2. PICK two : two = c.answer.items
  OBVIOUS
<1>3. one \in Lists!Tagged /\ two \in Lists!Tagged
  BY <1>1, <1>2 DEF FeedsInvariant, FeedType, ListPages, Lists!Calls, Lists!Answers
<1>4. CASE c.before # 0
  <2>1. m = Lists!Over(one, two)
    BY <1>1, <1>2, <1>4 DEF Lists!Merged
  <2>2. DOMAIN m = DOMAIN one \cup DOMAIN two /\ m \in Lists!Tagged
    BY <1>3, <2>1, OverIs
  <2>3. \A i \in DOMAIN m : \/ i \in DOMAIN one /\ m[i] = one[i]
                            \/ i \in DOMAIN two /\ m[i] = two[i]
    BY <2>1 DEF Lists!Over
  <2> QED
    BY <1>1, <1>2, <1>4, <2>2, <2>3
<1>5. CASE c.before = 0 /\ page.paginated
  <2>1. m = Lists!Over(two, one)
    BY <1>1, <1>2, <1>5 DEF Lists!Merged
  <2>2. DOMAIN m = DOMAIN two \cup DOMAIN one /\ m \in Lists!Tagged
    BY <1>3, <2>1, OverIs
  <2>3. \A i \in DOMAIN m : \/ i \in DOMAIN one /\ m[i] = one[i]
                            \/ i \in DOMAIN two /\ m[i] = two[i]
    BY <2>1 DEF Lists!Over
  <2> QED
    BY <1>1, <1>2, <1>5, <2>2, <2>3
<1>6. CASE c.before = 0 /\ ~page.paginated
  <2>1. m = two
    BY <1>2, <1>6 DEF Lists!Merged
  <2> QED
    BY <1>2, <1>3, <1>6, <2>1
<1> QED
  BY <1>4, <1>5, <1>6

\* What the list is after an answer.
LEMMA HeardIs ==
  ASSUME Lists!FeedsAssumption, FeedsInvariant, NEW s \in Lists!Slots, Lists!Hear(s), NEW c,
         c = calls[s]
  PROVE  /\ c \in Lists!Calls /\ c # None /\ c.served /\ AnswerIsWhole(c) /\ c.filter \in Lists!Filters
         /\ calls' \in [Lists!Slots -> Lists!Calls \cup {None}] /\ calls'[s] = None
         /\ \A t \in Lists!Slots : t # s => calls'[t] = calls[t]
         /\ page' \in ListPages /\ page'.shown = Lists!Merged(c) /\ ~page'.busy
         /\ page'.filter = page.filter /\ page'.before = page.before
         /\ page'.next = (IF c.before = 0 /\ page.paginated THEN page.next ELSE c.answer.next)
         /\ page'.paginated = (feed = "inbox" /\ (page.paginated \/ c.before # 0))
         /\ known' = (IF c.before = 0 /\ ~page.paginated THEN c.answer.seen ELSE known)
         /\ fresh' = (fresh \/ c.before = 0)
         /\ overtaken' = (IF feed = "ledger" /\ c.before = 0
                          THEN {t \in Lists!Slots : calls[t] # None /\ calls[t].before # 0}
                          ELSE overtaken) \ {s}
         /\ crossed' = IF feed = "ledger" /\ c.before = 0 THEN c.filter # page.filter
                       ELSE crossed \/ s \in overtaken
         /\ UNCHANGED <<feed, tags, visible, closing, marking, events>>
<1>1. /\ c # None /\ c.served /\ calls' = [calls EXCEPT ![s] = None]
      /\ UNCHANGED <<feed, tags, visible, closing, marking, events>>
      /\ fresh' = (fresh \/ c.before = 0)
      /\ known' = (IF c.before = 0 /\ ~page.paginated THEN c.answer.seen ELSE known)
  BY DEF Lists!Hear, Lists!server
<1>11. /\ overtaken' = (IF feed = "ledger" /\ c.before = 0
                        THEN {t \in Lists!Slots : calls[t] # None /\ calls[t].before # 0}
                        ELSE overtaken) \ {s}
       /\ crossed' = IF feed = "ledger" /\ c.before = 0 THEN c.filter # page.filter
                     ELSE crossed \/ s \in overtaken
  BY DEF Lists!Hear, Lists!Overtake
<1>2. c \in Lists!Calls /\ c.filter \in Lists!Filters /\ AnswerIsWhole(c)
  BY <1>1 DEF FeedsInvariant, FeedType, AnswersAreWhole
<1>3. /\ calls' \in [Lists!Slots -> Lists!Calls \cup {None}] /\ calls'[s] = None
      /\ \A t \in Lists!Slots : t # s => calls'[t] = calls[t]
  BY <1>1 DEF FeedsInvariant, FeedType
<1>4. PICK m : m = Lists!Merged(c)
  OBVIOUS
<1>5. m \in Lists!Tagged
  BY <1>2, <1>4, MergedIs
<1>6. PICK next : next = IF c.before = 0 /\ page.paginated THEN page.next ELSE c.answer.next
  OBVIOUS
<1>7. PICK several : several = (feed = "inbox" /\ (page.paginated \/ c.before # 0))
  OBVIOUS
<1>8. /\ page \in ListPages /\ next \in Lists!Items \cup {0} /\ several \in BOOLEAN
      /\ c.answer.badge \in 0 .. MaxItems
  BY <1>2, <1>6, <1>7 DEF FeedsInvariant, FeedType, ListPages, Lists!Calls, Lists!Answers
<1>9. page' = [page EXCEPT !.busy = FALSE, !.loading = FALSE, !.badge = c.answer.badge,
                           !.shown = m, !.next = next, !.paginated = several]
  BY <1>4, <1>6, <1>7, <1>8 DEF Lists!Hear, ListPages
<1>10. /\ page' \in ListPages /\ page'.shown = m /\ ~page'.busy /\ page'.filter = page.filter
       /\ page'.before = page.before /\ page'.next = next /\ page'.paginated = several
  BY <1>5, <1>8, <1>9 DEF ListPages
<1> QED
  BY <1>1, <1>2, <1>3, <1>4, <1>6, <1>7, <1>10, <1>11

\* An answer that comes leaves the list whole.
LEMMA HearPageStep ==
  ASSUME Lists!FeedsAssumption, FeedsInvariant, NEW s \in Lists!Slots, Lists!Hear(s)
  PROVE  FeedsInvariant'
<1>1. PICK c : c = calls[s]
  OBVIOUS
<1>2. /\ c \in Lists!Calls /\ c # None /\ c.served /\ AnswerIsWhole(c) /\ c.filter \in Lists!Filters
      /\ calls' \in [Lists!Slots -> Lists!Calls \cup {None}] /\ calls'[s] = None
      /\ \A t \in Lists!Slots : t # s => calls'[t] = calls[t]
  BY <1>1, HeardIs
<1>3. PICK m : m = Lists!Merged(c)
  OBVIOUS
<1>4. /\ page' \in ListPages /\ page'.shown = m /\ ~page'.busy
      /\ page'.filter = page.filter /\ page'.before = page.before
      /\ page'.next = (IF c.before = 0 /\ page.paginated THEN page.next ELSE c.answer.next)
      /\ page'.paginated = (feed = "inbox" /\ (page.paginated \/ c.before # 0))
  BY <1>1, <1>3, HeardIs
<1>5. /\ known' = (IF c.before = 0 /\ ~page.paginated THEN c.answer.seen ELSE known)
      /\ fresh' = (fresh \/ c.before = 0)
      /\ UNCHANGED <<feed, tags, visible, closing, marking, events>>
  BY <1>1, HeardIs
<1>20. PICK cut \in BOOLEAN : cut = (feed = "ledger" /\ c.before = 0)
  OBVIOUS
<1>21. /\ overtaken' = (IF cut THEN {t \in Lists!Slots : calls[t] # None /\ calls[t].before # 0}
                        ELSE overtaken) \ {s}
       /\ crossed' = IF cut THEN c.filter # page.filter ELSE crossed \/ s \in overtaken
  BY <1>1, <1>20, HeardIs
<1>22. feed # "inbox" => ~page.paginated
  BY DEF FeedsInvariant, Kept
<1>23. feed # "ledger" => overtaken = {}
  BY DEF FeedsInvariant, OlderLoads
<1>6. /\ DOMAIN c.answer.items \subseteq DOMAIN m
      /\ IF c.before # 0 \/ page.paginated
         THEN DOMAIN m = DOMAIN page.shown \cup DOMAIN c.answer.items
         ELSE m = c.answer.items
      /\ \A i \in DOMAIN m :
           \/ i \in DOMAIN page.shown /\ m[i] = page.shown[i]
           \/ i \in DOMAIN c.answer.items /\ m[i] = c.answer.items[i]
  <2>1. Lists!FeedsAssumption /\ FeedsInvariant /\ c \in Lists!Calls /\ m = Lists!Merged(c)
    BY <1>2, <1>3
  <2> HIDE DEF FeedsInvariant
  <2> QED
    BY ONLY <2>1, MergedIs
<1>7. /\ c.answer.seen \subseteq visible /\ DOMAIN c.answer.items \subseteq visible
      /\ c.answer.next # 0 => c.answer.next \in DOMAIN c.answer.items
  BY <1>2 DEF AnswerIsWhole
<1>8. /\ known \subseteq visible /\ DOMAIN page.shown \subseteq visible /\ visible \subseteq Lists!Items
      /\ page.next # 0 => page.next \in DOMAIN page.shown
      /\ \A i \in visible : tags[i] # None
  BY DEF FeedsInvariant, RowsInOrder, FeedType
<1>9. FeedType'
  <2>1. Lists!Tags' = Lists!Tags /\ Lists!Filters' = Lists!Filters
    BY <1>5 DEF Lists!Tags, Lists!Filters
  <2>2. known' \in SUBSET Lists!Items /\ fresh' \in BOOLEAN
    BY <1>5, <1>7, <1>8 DEF FeedsInvariant, FeedType
  <2> QED
    BY <1>2, <1>4, <1>5, <1>21, <2>1, <2>2 DEF FeedsInvariant, FeedType
<1>10. RowsInOrder'
  <2>1. known' \subseteq visible' /\ DOMAIN page'.shown \subseteq visible'
    BY <1>4, <1>5, <1>6, <1>7, <1>8
  <2>2. page'.next # 0 => page'.next \in DOMAIN page'.shown
    BY <1>4, <1>6, <1>7, <1>8
  <2> QED
    BY <1>5, <1>8, <2>1, <2>2 DEF RowsInOrder
<1>11. Kept'
  BY <1>4, <1>5 DEF FeedsInvariant, Kept
<1>12. ~crossed' /\ feed # "ledger" => \A t \in Lists!Slots : calls'[t] = None
  BY <1>1, <1>2, <1>20, <1>21 DEF FeedsInvariant, OneCall
<1>13. OneCall' /\ OlderLoads'
  <2>1. OneCall'
    BY <1>4, <1>5, <1>12 DEF OneCall
  <2>2. OlderLoads'
    <3>1. \A t \in overtaken' :
            t # s /\ t \in Lists!Slots /\ calls'[t] = calls[t] /\ calls[t] # None /\ calls[t].before # 0
      BY <1>2, <1>21 DEF FeedsInvariant, FeedType, OlderLoads
    <3>2. feed' # "ledger" => overtaken' = {}
      BY <1>5, <1>20, <1>21, <1>23
    <3>3. \A t \in Lists!Slots : calls'[t] # None => calls'[t] = calls[t]
      BY <1>2
    <3>4. feed' = "ledger" => \A t \in Lists!Slots : calls'[t] # None /\ calls'[t].before # 0
                                              => calls'[t].filter = page'.filter
      BY <1>4, <1>5, <3>3 DEF FeedsInvariant, OlderLoads
    <3> QED
      BY <3>1, <3>2, <3>4 DEF OlderLoads
  <2> QED
    BY <2>1, <2>2
<1>15. ASSUME ~crossed'
       PROVE  /\ c.filter = page.filter
              /\ ~cut => ~crossed /\ known \subseteq c.answer.seen /\ (page.paginated => fresh)
              /\ c.before # 0 => fresh /\ \E j \in DOMAIN page.shown : j <= c.before
  <2>1. CASE cut
    BY <1>15, <1>20, <1>21, <2>1
  <2>2. CASE ~cut
    <3>1. ~crossed /\ s \notin overtaken
      BY <1>15, <1>21, <2>2
    <3>2. c.filter = page.filter
      BY <1>1, <1>2, <1>20, <2>2, <3>1 DEF FeedsInvariant, OneCall, OlderLoads
    <3>3. known \subseteq c.answer.seen
      BY <1>1, <1>2, <1>20, <2>2, <3>1 DEF FeedsInvariant, AnswersAreWhole, Adds
    <3>4. /\ page.paginated => fresh
          /\ c.before # 0 => fresh /\ \E j \in DOMAIN page.shown : j <= c.before
      BY <1>1, <1>2, <3>1 DEF FeedsInvariant, GoesBelow
    <3> QED
      BY <3>1, <3>2, <3>3, <3>4
  <2> QED
    BY <2>1, <2>2
<1>24. ASSUME ~crossed', NEW t \in Lists!Slots, t \notin overtaken', calls'[t] # None,
              calls'[t].before # 0
       PROVE  calls'[t] = calls[t] /\ ~cut /\ c.before # 0 /\ t \notin overtaken
  <2>1. t # s /\ calls'[t] = calls[t] /\ feed = "ledger"
    BY <1>2, <1>12, <1>24
  <2>2. ~cut
    BY <1>21, <1>24, <2>1
  <2> QED
    BY <1>20, <1>21, <1>24, <2>1, <2>2
<1>14. AnswersAreWhole'
  <2>1. \A t \in Lists!Slots : calls'[t] # None => calls'[t] = calls[t]
    BY <1>2
  <2>2. ASSUME NEW t \in Lists!Slots, calls'[t] # None, calls'[t].served
        PROVE  AnswerIsWhole(calls[t])'
    BY <1>5, <2>1, <2>2 DEF FeedsInvariant, AnswersAreWhole, AnswerIsWhole
  <2>3. ASSUME NEW t \in Lists!Slots, calls'[t] # None, calls'[t].served, Adds(t)'
        PROVE  known' \subseteq calls'[t].answer.seen
    <3>1. ~crossed' /\ t \notin overtaken' /\ feed = "ledger" /\ calls'[t].before # 0
      BY <1>5, <1>12, <2>3 DEF Adds
    <3>2. calls'[t] = calls[t] /\ ~cut /\ c.before # 0 /\ t \notin overtaken
      BY <1>24, <2>3, <3>1
    <3>3. known' = known /\ ~crossed
      BY <1>5, <1>15, <3>1, <3>2
    <3> QED
      BY <2>3, <3>1, <3>2, <3>3 DEF FeedsInvariant, AnswersAreWhole, Adds
  <2> QED
    BY <2>2, <2>3 DEF AnswersAreWhole
<1>16. GoesBelow'
  <2>1. ASSUME ~crossed', NEW t \in Lists!Slots \ overtaken', calls'[t] # None, calls'[t].before # 0
        PROVE  fresh' /\ \E j \in DOMAIN m : j <= calls'[t].before
    <3>1. calls'[t] = calls[t] /\ ~cut /\ c.before # 0 /\ t \notin overtaken
      BY <1>24, <2>1
    <3>2. fresh /\ \E j \in DOMAIN page.shown : j <= calls[t].before
      BY <1>15, <2>1, <3>1 DEF FeedsInvariant, GoesBelow
    <3> QED
      BY <1>5, <1>6, <3>1, <3>2
  <2>2. ~crossed' => (page'.paginated => fresh') /\ fresh'
    BY <1>4, <1>5, <1>15
  <2> QED
    BY <1>4, <2>1, <2>2 DEF GoesBelow
<1>17. ASSUME ~crossed', feed # "inbox", NEW i \in DOMAIN m
       PROVE  Lists!Match(page.filter, m[i])
  <2>1. c.before # 0 /\ i \in DOMAIN page.shown => Lists!Match(page.filter, page.shown[i])
    BY <1>15, <1>17, <1>20 DEF FeedsInvariant, ListIsWhole
  <2>2. i \in DOMAIN c.answer.items => Lists!Match(page.filter, c.answer.items[i])
    BY <1>2, <1>15, <1>17 DEF AnswerIsWhole
  <2> QED
    BY <1>6, <1>17, <1>22, <2>1, <2>2
<1>18. ASSUME ~crossed', fresh', NEW i \in known', Lists!Match(page.filter, tags[i]),
              page'.next = 0 \/ \E j \in DOMAIN m : j <= i
       PROVE  i \in DOMAIN m
  <2>1. ASSUME i \in c.answer.seen, c.before = 0 \/ i < c.before,
               c.answer.next = 0 \/ \E j \in DOMAIN c.answer.items : j <= i
        PROVE  i \in DOMAIN m
    BY <1>2, <1>6, <1>15, <1>18, <2>1 DEF AnswerIsWhole
  <2>2. ASSUME ~crossed, fresh, i \in known, page.next = 0 \/ \E j \in DOMAIN page.shown : j <= i
        PROVE  i \in DOMAIN page.shown
    BY <1>18, <2>2 DEF FeedsInvariant, ListIsWhole
  <2>3. CASE c.before = 0 /\ ~page.paginated
    BY <1>4, <1>5, <1>6, <1>18, <2>1, <2>3
  <2>4. CASE c.before = 0 /\ page.paginated
    <3>1. /\ ~crossed /\ i \in known /\ fresh /\ page'.next = page.next
          /\ i \in c.answer.seen
      BY <1>4, <1>5, <1>15, <1>18, <1>20, <1>22, <2>4
    <3>2. CASE page.next = 0
      BY <1>6, <2>2, <2>4, <3>1, <3>2
    <3>3. CASE \E j \in DOMAIN m : j <= i
      BY <1>6, <2>1, <2>2, <2>4, <3>1, <3>3
    <3> QED
      BY <1>18, <3>1, <3>2, <3>3
  <2>5. CASE c.before # 0
    <3>1. /\ ~crossed /\ i \in known /\ fresh /\ page'.next = c.answer.next
          /\ i \in c.answer.seen
      BY <1>4, <1>5, <1>15, <1>18, <1>20, <2>5
    <3>0. Lists!Items \subseteq Nat /\ i \in Nat /\ c.before \in Nat
      <4>1. Lists!Items \subseteq Nat
        BY DEF Lists!Items
      <4>2. c.before \in Lists!Items \cup {0}
        BY <1>2 DEF Lists!Calls
      <4>3. i \in Lists!Items
        BY <1>8, <3>1
      <4>4. i \in Nat
        BY <4>3 DEF Lists!Items
      <4>5. c.before \in Nat
        BY <4>2 DEF Lists!Items
      <4> QED
        BY <4>1, <4>4, <4>5
    <3>2. PICK k \in DOMAIN page.shown : k <= c.before
      BY <1>15, <1>18, <2>5
    <3>3. k \in Nat
      BY <1>8, <3>0, <3>2
    <3>4. CASE i < c.before
      BY <1>6, <1>18, <2>1, <2>2, <2>5, <3>1, <3>4
    <3>5. CASE ~ (i < c.before)
      <4>1. k <= i
        BY <3>0, <3>2, <3>3, <3>5
      <4> QED
        BY <1>6, <2>2, <2>5, <3>1, <4>1
    <3> QED
      BY <3>4, <3>5
  <2> QED
    BY <2>3, <2>4, <2>5
<1>19. ListIsWhole'
  BY <1>4, <1>5, <1>17, <1>18 DEF ListIsWhole
<1> QED
  BY <1>9, <1>10, <1>11, <1>13, <1>14, <1>16, <1>19 DEF FeedsInvariant

-----------------------------------------------------------------------------
\* The first load finds nothing to be whole.
LEMMA FeedsStart == Lists!FeedsAssumption /\ Lists!Init => FeedsInvariant
<1> SUFFICES ASSUME Lists!FeedsAssumption, Lists!Init
             PROVE  FeedsInvariant
  OBVIOUS
<1>1. PICK filter \in Lists!Filters :
        /\ page = [Lists!Fresh(filter) EXCEPT !.busy = TRUE]
        /\ calls = [Lists!NoCalls EXCEPT ![1] = Lists!Call(filter, 0)]
  BY DEF Lists!Init
<1>2. /\ feed \in Kinds /\ tags \in [Lists!Items -> Lists!Tags \cup {None}] /\ visible \in SUBSET Lists!Items
      /\ \A i \in visible : tags[i] # None
      /\ closing = None /\ marking = None /\ known = {} /\ fresh = FALSE /\ crossed = FALSE
      /\ events = 0 /\ overtaken = {}
  BY DEF Lists!Init, Lists!Items, Lists!FeedsAssumption
<1>3. /\ Lists!Filters \subseteq {"all", "payment", "expense", "unread"}
      /\ None \notin Lists!Calls
  BY <1>2 DEF Lists!Filters, Lists!FeedsAssumption
<1>4. Lists!NoItems \in Lists!Tagged /\ DOMAIN Lists!NoItems = {}
  <2>1. Lists!NoItems \in [{} -> {"payment", "expense", "unread", "read"}] /\ {} \in SUBSET Lists!Items
    BY DEF Lists!NoItems
  <2> QED
    BY <2>1 DEF Lists!Tagged
<1>5. /\ page \in ListPages /\ page.filter = filter /\ page.before = 0 /\ DOMAIN page.shown = {}
      /\ page.next = 0 /\ ~page.paginated /\ page.busy
  <2>1. PICK p : p = Lists!Fresh(filter)
    OBVIOUS
  <2>2. PICK none : none = Lists!NoItems
    OBVIOUS
  <2>3. 0 \in 0 .. MaxItems /\ filter \in {"all", "payment", "expense", "unread"}
    BY <1>3 DEF Lists!FeedsAssumption
  <2>4. p = [filter |-> filter, before |-> 0, shown |-> none, next |-> 0, busy |-> FALSE,
             loading |-> TRUE, paginated |-> FALSE, badge |-> 0]
    BY <2>1, <2>2 DEF Lists!Fresh
  <2>5. p \in ListPages /\ p.filter = filter /\ p.before = 0 /\ p.shown = none /\ p.next = 0
        /\ ~p.paginated
    BY <1>4, <2>2, <2>3, <2>4 DEF ListPages
  <2>6. page = [p EXCEPT !.busy = TRUE]
    BY <1>1, <2>1
  <2> QED
    BY <1>4, <2>2, <2>5, <2>6 DEF ListPages
<1>6. PICK c : c = Lists!Call(filter, 0)
  OBVIOUS
<1>7. c \in Lists!Calls /\ c # None /\ c.filter = filter /\ c.before = 0 /\ ~c.served
  <2>1. Lists!NoAnswer \in Lists!Answers
    BY <1>4 DEF Lists!NoAnswer, Lists!Answers, Lists!FeedsAssumption
  <2>2. c \in Lists!Calls
    BY <1>3, <1>6, <2>1 DEF Lists!Call, Lists!Calls
  <2> QED
    BY <1>3, <1>6, <2>2 DEF Lists!Call
<1>8. /\ calls \in [Lists!Slots -> Lists!Calls \cup {None}] /\ calls[1] = c
      /\ \A s \in Lists!Slots : s # 1 => calls[s] = None
  BY <1>1, <1>6, <1>7 DEF Lists!NoCalls, Lists!Slots
<1>9. FeedType
  BY <1>2, <1>5, <1>7, <1>8 DEF FeedType
<1>10. RowsInOrder /\ Kept
  BY <1>2, <1>5 DEF RowsInOrder, Kept
<1>11. 1 \in Lists!Slots
  BY DEF Lists!Slots
<1>12. OneCall /\ OlderLoads
  BY <1>2, <1>5, <1>7, <1>8, <1>11 DEF OneCall, OlderLoads
<1>13. AnswersAreWhole
  BY <1>7, <1>8 DEF AnswersAreWhole
<1>14. GoesBelow /\ ListIsWhole
  BY <1>2, <1>5, <1>7, <1>8 DEF GoesBelow, ListIsWhole
<1> QED
  BY <1>9, <1>10, <1>12, <1>13, <1>14 DEF FeedsInvariant

LEMMA FeedsStep == Lists!FeedsAssumption /\ FeedsInvariant /\ [Lists!Next]_(Lists!vars) => FeedsInvariant'
<1> SUFFICES ASSUME Lists!FeedsAssumption, FeedsInvariant, [Lists!Next]_(Lists!vars)
             PROVE  FeedsInvariant'
  OBVIOUS
<1>1. CASE (\E tag \in Lists!Tags : Lists!Draw(tag)) \/ \E i \in Lists!Items : Lists!Publish(i)
  BY <1>1, DrawStep
<1>2. CASE (\E i \in Lists!Items : Lists!ReadElsewhere(i)) \/ Lists!StoreRead
  BY <1>2, MarkedReadStep
<1>3. CASE \E s \in Lists!Slots : Lists!Serve(s) \/ Lists!Fail(s) \/ Lists!Hear(s)
  BY <1>3, ServePageStep, FailStep, HearPageStep
<1>4. ASSUME NEW filter \in Lists!Filters,
             Lists!LedgerFilter(filter) \/ Lists!SelectLog(filter) \/ Lists!InboxFilter(filter)
      PROVE  FeedsInvariant'
  BY <1>4, FilterStep, EmptyStep, InboxFilterStep
<1>5. CASE Lists!LedgerMore \/ Lists!ReloadLedger \/ Lists!RefreshLog \/ Lists!PollInbox \/ Lists!InboxMore
  BY <1>5, LoadsStep
<1>6. CASE Lists!LogMore \/ Lists!RestartLog
  BY <1>6, LogStep
<1>7. CASE Lists!OperationDone \/ Lists!HearRead \/ Lists!FailRead \/ \E i \in Lists!Items \cup {Lists!All} : Lists!MarkRead(i)
  BY <1>7, MarksStep
<1>8. CASE UNCHANGED Lists!vars
  <2>1. UNCHANGED <<feed, tags, visible, page, calls, closing, marking, known, fresh,
                    overtaken, crossed, events>>
    BY <1>8 DEF Lists!vars, Lists!server, Lists!list, Lists!history
  <2>2. FeedType' /\ RowsInOrder' /\ Kept'
    BY <2>1 DEF FeedsInvariant, FeedType, RowsInOrder, Kept, Lists!Tags, Lists!Filters
  <2>3. OlderLoads' /\ OneCall' /\ GoesBelow' /\ ListIsWhole'
    BY <2>1 DEF FeedsInvariant, OlderLoads, OneCall, GoesBelow, ListIsWhole
  <2>4. AnswersAreWhole'
    BY <2>1 DEF FeedsInvariant, AnswersAreWhole, AnswerIsWhole, Adds
  <2> QED
    BY <2>2, <2>3, <2>4 DEF FeedsInvariant
<1> QED
  BY <1>1, <1>2, <1>3, <1>4, <1>5, <1>6, <1>7, <1>8 DEF Lists!Next

\* Answers, pages and lists stay whole, and every list waits for its own load, in every
\* reachable state of the ledger, the log and the inbox (FeedsInvariant).
THEOREM FeedsStaySound == ASSUME Lists!FeedsAssumption PROVE Lists!Spec => []FeedsInvariant
<1>1. Lists!Init => FeedsInvariant
  BY FeedsStart
<1>2. FeedsInvariant /\ [Lists!Next]_(Lists!vars) => FeedsInvariant'
  BY FeedsStep
<1> QED
  BY <1>1, <1>2, PTL DEF Lists!Spec

\* Every reachable state of a list that is read page by page is well formed, and it shows
\* nothing that is not visible (TypeOK of Feeds).
THEOREM FeedsTypeCorrect == ASSUME Lists!FeedsAssumption PROVE Lists!Spec => []Lists!TypeOK
<1>1. FeedsInvariant => Lists!TypeOK
  BY DEF FeedsInvariant, FeedType, RowsInOrder, OlderLoads, ListPages, Lists!TypeOK
<1> QED
  BY <1>1, FeedsStaySound, PTL

\* A list shows the rows of its filter without a hole, however pages, refreshes, filters,
\* marks and new rows cross, and also after a reload of the ledger that a page under way was
\* heard before; but not once a page that a reload overtook has been heard (Overtake), nor
\* with a reload under the filter left, nor below the rows of an inbox's filter before:
\* those lists are not whole in the code (FeedIsWhole of Feeds).
THEOREM FeedsAreWhole == ASSUME Lists!FeedsAssumption PROVE Lists!Spec => []Lists!FeedIsWhole
<1>1. ASSUME FeedsInvariant
      PROVE  Lists!FeedIsWhole
  <2>1. PICK S : S = DOMAIN page.shown
    OBVIOUS
  <2>2. S \in SUBSET Nat
    BY <1>1, <2>1 DEF FeedsInvariant, RowsInOrder, FeedType, Lists!Items
  <2>3. page.next # 0 => S # {}
    BY <1>1, <2>1 DEF FeedsInvariant, RowsInOrder
  <2>4. page.next # 0 => Lists!LastShown \in DOMAIN page.shown
    BY <2>1, <2>2, <2>3, LeastRow DEF Lists!LastShown
  <2>5. ASSUME NEW i \in known, page.next # 0, i >= Lists!LastShown
        PROVE  \E j \in DOMAIN page.shown : j <= i
    BY <2>1, <2>2, <2>4, <2>5
  <2> QED
    BY <1>1, <2>5 DEF FeedsInvariant, ListIsWhole, Lists!FeedIsWhole
<1> QED
  BY <1>1, FeedsStaySound, PTL

-----------------------------------------------------------------------------
\* Deletion.  A transaction that deletes has found what the developer was shown, row by
\* row; what it has deleted or unlinked is still as it was shown, and everything that
\* refers to a row it deletes was touched by it too, and what no preview reads only together
\* with the row it refers to (Consented); two transactions touch
\* different rows (TouchedOnce).

RowStates == [to : Records \cup {None}, version : Nat]
Tokens == UNION {[S -> RowStates] : S \in SUBSET Records}

DialogStates ==
  [target : Removal!Targets \cup {None}, revision : Nat, preview : Tokens \cup {None},
   loading : BOOLEAN, deleting : BOOLEAN]

Questions ==
  [dev : Devs, target : Removal!Targets, revision : Nat, answer : [rows : Tokens] \cup {None}]

Requests ==
  [dev : Devs \cup {None}, target : Removal!Targets \cup {None}, token : Tokens \cup {None},
   pc : {"none", "sent", "begun", "locked", "deleting", "done", "refused"},
   snap : [Records -> RowStates] \cup {None}, gone : SUBSET Records, cleared : SUBSET Records]

\* The rows, the dialogs, and the requests under way.
DeletionType ==
  /\ db \in [Records -> RowStates] /\ dialogs \in [Devs -> DialogStates]
  /\ reads \in SUBSET Questions /\ calls \in [Calls -> Requests] /\ events \in 0 .. MaxEvents
  /\ \A r \in Records : Removal!Exists(db, r) => db[r].to \in May[r]
  /\ \A q \in reads : q.revision = dialogs[q.dev].revision

\* What a transaction has deleted or unlinked.
Touched(k) == k.gone \cup k.cleared

\* What a request has at each of its steps.
InOrder(k) ==
  /\ k.pc \in {"sent", "begun", "locked"} => Touched(k) = {}
  /\ k.pc \in {"sent", "begun", "locked", "deleting"} => k.token \in Tokens
  /\ k.pc \in {"begun", "locked", "deleting"} => k.snap \in [Records -> RowStates]

\* A row that no preview reads goes along with the one that it refers to.
Follows(k, r) == r \in Beyond /\ k.snap[r].to \in k.gone

\* A transaction touches rows that were shown and that are as they were in its snapshot,
\* and whoever refers to a row that it deletes is touched as well.
Consented(k, d) ==
  /\ k.token = Removal!Preview(k.snap, k.target)
  /\ \A r \in k.gone : r \in Removal!Deletes(k.target, k.token) \/ Follows(k, r)
  /\ \A r \in k.cleared : r \in Unlinked /\ (r \in DOMAIN k.token \/ Follows(k, r))
  /\ \A r \in Touched(k) : d[r] = k.snap[r]
  /\ \A s \in Records : Removal!Exists(d, s) /\ d[s].to \in k.gone => s \in Touched(k)

CallsSound ==
  \A c \in Calls : /\ InOrder(calls[c])
                   /\ calls[c].pc = "deleting" => Consented(calls[c], db)

\* No two transactions touch one row.
TouchedOnce ==
  \A a, b \in Calls :
    a # b /\ calls[a].pc = "deleting" /\ calls[b].pc = "deleting" =>
      Touched(calls[a]) \cap Touched(calls[b]) = {}

DeletionInvariant == DeletionType /\ Removal!ForeignKeys /\ CallsSound /\ TouchedOnce

-----------------------------------------------------------------------------
\* What there is of the scope of a target.
LEMMA ScopeIs ==
  ASSUME Removal!DeletionAssumption, NEW d \in [Records -> RowStates], NEW target
  PROVE  /\ Removal!Scope(d, target) \subseteq Records
         /\ \A r \in Removal!Scope(d, target) : Removal!Exists(d, r)
         /\ target = Company => \A r \in Records : Removal!Exists(d, r) => r \in Removal!Scope(d, target)
         /\ target # Company =>
              \A s \in Records \ Beyond :
                Removal!Exists(d, s) /\ d[s].to \in Removal!Scope(d, target) \ (Unlinked \ {target})
                  => s \in Removal!Scope(d, target)
<1>1. PICK all : all = {r \in Records \ Beyond : Removal!Exists(d, r)}
  OBVIOUS
<1>2. CASE target = Company
  <2>1. Removal!Scope(d, target) = {r \in Records : Removal!Exists(d, r)}
    BY <1>2 DEF Removal!Scope
  <2> QED
    BY <1>2, <2>1
<1>3. CASE target # Company
  <2> DEFINE Whole(S) == /\ {target} \cap all \subseteq S
                         /\ \A r \in all : d[r].to \in S \ (Unlinked \ {target}) => r \in S
  <2>1. Removal!Scope(d, target) = {r \in all : \A S \in SUBSET all : Whole(S) => r \in S}
    BY <1>1, <1>3 DEF Removal!Scope
  <2>2. ASSUME NEW s \in Records \ Beyond, Removal!Exists(d, s),
               d[s].to \in Removal!Scope(d, target) \ (Unlinked \ {target})
        PROVE  s \in Removal!Scope(d, target)
    <3>1. s \in all
      BY <1>1, <2>2
    <3>2. ASSUME NEW S \in SUBSET all, Whole(S)
          PROVE  s \in S
      <4>1. d[s].to \in S
        BY <2>1, <2>2, <3>2
      <4> QED
        BY <2>2, <3>1, <3>2, <4>1
    <3> HIDE DEF Whole
    <3> QED
      BY <2>1, <3>1, <3>2
  <2> HIDE DEF Whole
  <2> QED
    BY <1>1, <1>3, <2>1, <2>2
<1> QED
  BY <1>2, <1>3

\* The token of a preview.
LEMMA PreviewIs ==
  ASSUME Removal!DeletionAssumption, NEW d \in [Records -> RowStates], NEW target, NEW token,
         token = Removal!Preview(d, target)
  PROVE  /\ token \in Tokens /\ DOMAIN token = Removal!Scope(d, target)
         /\ \A r \in DOMAIN token : r \in Records /\ token[r] = d[r]
<1>1. PICK S : S = Removal!Scope(d, target)
  OBVIOUS
<1>2. S \in SUBSET Records
  BY <1>1, ScopeIs
<1>3. token = [r \in S |-> d[r]]
  BY <1>1 DEF Removal!Preview
<1>4. token \in [S -> RowStates]
  BY <1>2, <1>3
<1>5. token \in Tokens
  BY <1>2, <1>4 DEF Tokens
<1> QED
  BY <1>1, <1>2, <1>3, <1>5

\* Who refers to a row that is deleted was shown, but for what no preview reads.
LEMMA ReferringWasShown ==
  ASSUME Removal!DeletionAssumption, NEW d \in [Records -> RowStates], NEW target, NEW token,
         token = Removal!Preview(d, target), NEW s \in Records, s \notin Beyond \/ target = Company,
         Removal!Exists(d, s), d[s].to \in Removal!Deletes(target, token)
  PROVE  s \in DOMAIN token /\ (s \in Removal!Deletes(target, token) \/ s \in Unlinked)
<1>1. DOMAIN token = Removal!Scope(d, target)
  BY PreviewIs
<1>2. Removal!Deletes(target, token) =
        {r \in Removal!Scope(d, target) : r = target \/ target = Company \/ r \notin Unlinked}
  BY <1>1 DEF Removal!Deletes
<1>3. s \in Removal!Scope(d, target)
  <2>1. CASE target = Company
    BY <2>1, ScopeIs
  <2>2. CASE target # Company
    <3>1. d[s].to \in Removal!Scope(d, target) \ (Unlinked \ {target})
      BY <1>2, <2>2
    <3> QED
      BY <2>2, <3>1, ScopeIs
  <2> QED
    BY <2>1, <2>2
<1> QED
  BY <1>1, <1>2, <1>3

\* A row that a transaction has touched is held.
LEMMA TouchedIsHeld ==
  ASSUME NEW c \in Calls, calls[c].pc = "deleting"
  PROVE  Touched(calls[c]) \subseteq Removal!Held(c)
  BY DEF Removal!Held, Removal!Active, Touched

LEMMA EventIs ==
  ASSUME Removal!DeletionAssumption, events \in 0 .. MaxEvents,
         events' = events \/ Removal!Event
  PROVE  events' \in 0 .. MaxEvents
  BY DEF Removal!DeletionAssumption, Removal!Event

-----------------------------------------------------------------------------
\* The dialog asks and listens; rows and requests stay as they are.
LEMMA DialogsStep ==
  ASSUME DeletionInvariant, UNCHANGED <<db, calls>>, dialogs' \in [Devs -> DialogStates],
         reads' \in SUBSET Questions, \A q \in reads' : q.revision = dialogs'[q.dev].revision,
         events' \in 0 .. MaxEvents
  PROVE  DeletionInvariant'
<1>1. DeletionType'
  BY DEF DeletionInvariant, DeletionType
<1>2. Removal!ForeignKeys' /\ CallsSound' /\ TouchedOnce'
  BY DEF DeletionInvariant, Removal!ForeignKeys, CallsSound, TouchedOnce
<1> QED
  BY <1>1, <1>2 DEF DeletionInvariant

LEMMA AskStep ==
  ASSUME Removal!DeletionAssumption, DeletionInvariant, NEW u \in Devs,
         NEW target \in Removal!Targets,
         Removal!Ask(u, target), UNCHANGED <<db, calls>>, events' \in 0 .. MaxEvents
  PROVE  DeletionInvariant'
<1>1. PICK revision : revision = dialogs[u].revision + 1
  OBVIOUS
<1>2. revision \in Nat
  BY <1>1 DEF DeletionInvariant, DeletionType, DialogStates
<1>3. PICK w : w = Removal!Waiting(target, revision)
  OBVIOUS
<1>4. w \in DialogStates /\ w.revision = revision
  BY <1>2, <1>3 DEF Removal!Waiting, DialogStates
<1>5. PICK n : n = [dev |-> u, target |-> target, revision |-> revision, answer |-> None]
  OBVIOUS
<1>6. n \in Questions /\ n.dev = u /\ n.revision = revision
  BY <1>2, <1>5 DEF Questions
<1>7. dialogs' = [dialogs EXCEPT ![u] = w] /\ reads' = {q \in reads : q.dev # u} \cup {n}
  BY <1>1, <1>3, <1>5 DEF Removal!Ask
<1>8. dialogs' \in [Devs -> DialogStates] /\ dialogs'[u] = w
      /\ \A v \in Devs : v # u => dialogs'[v] = dialogs[v]
  BY <1>4, <1>7 DEF DeletionInvariant, DeletionType
<1>9. reads' \in SUBSET Questions
  BY <1>6, <1>7 DEF DeletionInvariant, DeletionType
<1>10. ASSUME NEW q \in reads'
       PROVE  q.revision = dialogs'[q.dev].revision
  <2>1. CASE q = n
    BY <1>4, <1>6, <1>8, <2>1
  <2>2. CASE q \in reads /\ q.dev # u
    <3>1. q.dev \in Devs /\ q.revision = dialogs[q.dev].revision
      BY <2>2 DEF DeletionInvariant, DeletionType, Questions
    <3> QED
      BY <1>8, <2>2, <3>1
  <2> QED
    BY <1>7, <2>1, <2>2
<1> QED
  BY <1>8, <1>9, <1>10, DialogsStep

LEMMA OpenDialogStep ==
  ASSUME Removal!DeletionAssumption, DeletionInvariant, NEW u \in Devs,
         NEW target \in Removal!Targets,
         Removal!Open(u, target)
  PROVE  DeletionInvariant'
<1>1. events' \in 0 .. MaxEvents
  BY EventIs DEF Removal!Open, DeletionInvariant, DeletionType
<1> QED
  BY <1>1, AskStep DEF Removal!Open

LEMMA RefreshStep ==
  ASSUME Removal!DeletionAssumption, DeletionInvariant, NEW u \in Devs, Removal!Refresh(u)
  PROVE  DeletionInvariant'
<1>1. events' \in 0 .. MaxEvents
  BY EventIs DEF Removal!Refresh, DeletionInvariant, DeletionType
<1>2. dialogs[u].target \in Removal!Targets
  BY DEF Removal!Refresh, DeletionInvariant, DeletionType, DialogStates
<1> QED
  BY <1>1, <1>2, AskStep DEF Removal!Refresh

\* A dialog changes and is asked nothing more than before.
LEMMA DialogStep ==
  ASSUME Removal!DeletionAssumption, DeletionInvariant, NEW u \in Devs,
         NEW w \in DialogStates,
         dialogs' = [dialogs EXCEPT ![u] = w], w.revision = dialogs[u].revision
  PROVE  /\ dialogs' \in [Devs -> DialogStates]
         /\ \A v \in Devs : dialogs'[v].revision = dialogs[v].revision
  BY DEF DeletionInvariant, DeletionType

\* Questions that were asked before fit their dialogs.
LEMMA QuestionsFit ==
  ASSUME DeletionInvariant, NEW q \in reads, NEW r, r.dev = q.dev, r.revision = q.revision,
         \A v \in Devs : dialogs'[v].revision = dialogs[v].revision
  PROVE  r.revision = dialogs'[r.dev].revision
<1>1. q.dev \in Devs /\ q.revision = dialogs[q.dev].revision
  BY DEF DeletionInvariant, DeletionType, Questions
<1> QED
  BY <1>1

LEMMA CloseStep ==
  ASSUME Removal!DeletionAssumption, DeletionInvariant, NEW u \in Devs, Removal!Close(u)
  PROVE  DeletionInvariant'
<1>1. PICK w : w = [Removal!Closed EXCEPT !.revision = dialogs[u].revision]
  OBVIOUS
<1>2. w \in DialogStates /\ w.revision = dialogs[u].revision
  <2>1. dialogs[u].revision \in Nat
    BY DEF DeletionInvariant, DeletionType, DialogStates
  <2> QED
    BY <1>1, <2>1 DEF Removal!Closed, DialogStates
<1>3. /\ dialogs' = [dialogs EXCEPT ![u] = w] /\ reads' = {q \in reads : q.dev # u}
      /\ UNCHANGED <<db, calls, events>>
  BY <1>1 DEF Removal!Close
<1>4. /\ dialogs' \in [Devs -> DialogStates]
      /\ \A v \in Devs : dialogs'[v].revision = dialogs[v].revision
  BY <1>2, <1>3, DialogStep
<1>5. reads' \in SUBSET Questions /\ events' \in 0 .. MaxEvents
  BY <1>3 DEF DeletionInvariant, DeletionType
<1>6. \A q \in reads' : q.revision = dialogs'[q.dev].revision
  BY <1>3, <1>4, QuestionsFit
<1> QED
  BY <1>3, <1>4, <1>5, <1>6, DialogsStep

LEMMA ServePreviewStep ==
  ASSUME Removal!DeletionAssumption, DeletionInvariant, NEW q \in reads,
         Removal!ServePreview(q)
  PROVE  DeletionInvariant'
<1>1. PICK token : token = Removal!Preview(db, q.target)
  OBVIOUS
<1>2. PICK answer : answer = [rows |-> token]
  OBVIOUS
<1>3. PICK n : n = [q EXCEPT !.answer = answer]
  OBVIOUS
<1>4. q \in Questions /\ db \in [Records -> RowStates]
  BY DEF DeletionInvariant, DeletionType
<1>5. token \in Tokens
  BY <1>1, <1>4, PreviewIs DEF Questions
<1>6. n \in Questions /\ n.dev = q.dev /\ n.revision = q.revision
  BY <1>2, <1>3, <1>4, <1>5 DEF Questions
<1>7. /\ reads' = (reads \ {q}) \cup {n} /\ UNCHANGED <<db, dialogs, calls, events>>
  BY <1>1, <1>2, <1>3 DEF Removal!ServePreview
<1>8. /\ reads' \in SUBSET Questions /\ events' \in 0 .. MaxEvents
      /\ dialogs' \in [Devs -> DialogStates]
  BY <1>6, <1>7 DEF DeletionInvariant, DeletionType
<1>9. \A r \in reads' : r.revision = dialogs'[r.dev].revision
  BY <1>6, <1>7, QuestionsFit
<1> QED
  BY <1>7, <1>8, <1>9, DialogsStep

LEMMA HearPreviewStep ==
  ASSUME Removal!DeletionAssumption, DeletionInvariant, NEW q \in reads,
         Removal!HearPreview(q)
  PROVE  DeletionInvariant'
<1>1. q \in Questions /\ q.answer # None
  BY DEF Removal!HearPreview, DeletionInvariant, DeletionType
<1>2. PICK u : u = q.dev
  OBVIOUS
<1>3. u \in Devs /\ q.answer.rows \in Tokens
  BY <1>1, <1>2 DEF Questions
<1>4. PICK shown : shown = IF DOMAIN q.answer.rows = {} /\ q.target # Company THEN None
                           ELSE q.answer.rows
  OBVIOUS
<1>5. PICK w : w = [dialogs[u] EXCEPT !.loading = FALSE, !.preview = shown]
  OBVIOUS
<1>6. dialogs[u] \in DialogStates /\ shown \in Tokens \cup {None}
  BY <1>3, <1>4 DEF DeletionInvariant, DeletionType
<1>7. w \in DialogStates /\ w.revision = dialogs[u].revision
  BY <1>5, <1>6 DEF DialogStates
<1>8. /\ dialogs' = [dialogs EXCEPT ![u] = w] /\ reads' = reads \ {q}
      /\ UNCHANGED <<db, calls, events>>
  BY <1>2, <1>3, <1>4, <1>5 DEF Removal!HearPreview, DeletionInvariant, DeletionType
<1>9. /\ dialogs' \in [Devs -> DialogStates]
      /\ \A v \in Devs : dialogs'[v].revision = dialogs[v].revision
  BY <1>3, <1>7, <1>8, DialogStep
<1>10. reads' \in SUBSET Questions /\ events' \in 0 .. MaxEvents
  BY <1>8 DEF DeletionInvariant, DeletionType
<1>11. \A r \in reads' : r.revision = dialogs'[r.dev].revision
  BY <1>8, <1>9, QuestionsFit
<1> QED
  BY <1>8, <1>9, <1>10, <1>11, DialogsStep

LEMMA LosePreviewStep ==
  ASSUME Removal!DeletionAssumption, DeletionInvariant, NEW q \in reads,
         Removal!LosePreview(q)
  PROVE  DeletionInvariant'
<1>1. PICK u : u = q.dev
  OBVIOUS
<1>2. u \in Devs
  BY <1>1 DEF DeletionInvariant, DeletionType, Questions
<1>3. PICK w : w = [dialogs[u] EXCEPT !.loading = FALSE]
  OBVIOUS
<1>4. dialogs[u] \in DialogStates
  BY <1>2 DEF DeletionInvariant, DeletionType
<1>5. w \in DialogStates /\ w.revision = dialogs[u].revision
  BY <1>3, <1>4 DEF DialogStates
<1>6. /\ dialogs' = [dialogs EXCEPT ![u] = w] /\ reads' = reads \ {q} /\ UNCHANGED <<db, calls>>
  BY <1>1, <1>3 DEF Removal!LosePreview
<1>7. /\ dialogs' \in [Devs -> DialogStates]
      /\ \A v \in Devs : dialogs'[v].revision = dialogs[v].revision
  BY <1>2, <1>5, <1>6, DialogStep
<1>8. reads' \in SUBSET Questions
  BY <1>6 DEF DeletionInvariant, DeletionType
<1>9. events' \in 0 .. MaxEvents
  BY EventIs DEF Removal!LosePreview, DeletionInvariant, DeletionType
<1>10. \A r \in reads' : r.revision = dialogs'[r.dev].revision
  BY <1>6, <1>7, QuestionsFit
<1> QED
  BY <1>6, <1>7, <1>8, <1>9, <1>10, DialogsStep

-----------------------------------------------------------------------------
\* A request goes one step further; the rows stay as they are.
LEMMA CallStep ==
  ASSUME Removal!DeletionAssumption, DeletionInvariant, NEW c \in Calls, NEW k \in Requests,
         calls' = [calls EXCEPT ![c] = k], UNCHANGED db, dialogs' \in [Devs -> DialogStates],
         \A u \in Devs : dialogs'[u].revision = dialogs[u].revision,
         UNCHANGED reads, events' \in 0 .. MaxEvents,
         InOrder(k), k.pc = "deleting" => Consented(k, db),
         k.pc = "deleting" =>
           \A b \in Calls \ {c} : calls[b].pc = "deleting" =>
             Touched(k) \cap Touched(calls[b]) = {}
  PROVE  DeletionInvariant'
<1>1. /\ calls' \in [Calls -> Requests] /\ calls'[c] = k
      /\ \A b \in Calls : b # c => calls'[b] = calls[b]
  BY DEF DeletionInvariant, DeletionType
<1>2. \A q \in reads' : q.revision = dialogs'[q.dev].revision
  BY QuestionsFit
<1>3. DeletionType'
  BY <1>1, <1>2 DEF DeletionInvariant, DeletionType
<1>4. Removal!ForeignKeys'
  BY DEF DeletionInvariant, Removal!ForeignKeys
<1>5. ASSUME NEW b \in Calls
      PROVE  InOrder(calls'[b]) /\ (calls'[b].pc = "deleting" => Consented(calls'[b], db))
  BY <1>1 DEF DeletionInvariant, CallsSound
<1>6. CallsSound'
  BY <1>5 DEF CallsSound
<1>7. ASSUME NEW a \in Calls, NEW b \in Calls, a # b, calls'[a].pc = "deleting",
             calls'[b].pc = "deleting"
      PROVE  Touched(calls'[a]) \cap Touched(calls'[b]) = {}
  <2>1. CASE a = c
    BY <1>1, <1>7, <2>1
  <2>2. CASE b = c
    <3>1. Touched(k) \cap Touched(calls[a]) = {}
      BY <1>1, <1>7, <2>2
    <3> QED
      BY <1>1, <1>7, <2>2, <3>1
  <2>3. CASE a # c /\ b # c
    BY <1>1, <1>7, <2>3 DEF DeletionInvariant, TouchedOnce
  <2> QED
    BY <2>1, <2>2, <2>3
<1>8. TouchedOnce'
  BY <1>7 DEF TouchedOnce
<1> QED
  BY <1>3, <1>4, <1>6, <1>8 DEF DeletionInvariant

\* What is known of a request.
LEMMA RequestIs ==
  ASSUME DeletionInvariant, NEW c \in Calls, NEW k, k = calls[c]
  PROVE  /\ k \in Requests /\ InOrder(k) /\ (k.pc = "deleting" => Consented(k, db))
         /\ k.dev \in Devs \cup {None}
  BY DEF DeletionInvariant, DeletionType, CallsSound, Requests

LEMMA NoRequest ==
  ASSUME Removal!DeletionAssumption
  PROVE  Removal!NoCall \in Requests /\ Removal!NoCall.gone = {} /\ Removal!NoCall.cleared = {} /\ Removal!NoCall.pc = "none"
  BY DEF Removal!NoCall, Requests

\* A request that ends is no longer bound to anything.
LEMMA EndedIs ==
  ASSUME NEW k \in Requests, k.pc \in {"none", "done", "refused"}
  PROVE  InOrder(k) /\ k.pc # "deleting"
  BY DEF InOrder

LEMMA RefusalIs ==
  ASSUME Removal!DeletionAssumption, DeletionInvariant, NEW c \in Calls, Removal!Refuse(c),
         UNCHANGED db,
         UNCHANGED <<dialogs, reads>>, events' \in 0 .. MaxEvents
  PROVE  DeletionInvariant'
<1>1. PICK n : n = Removal!NoCall
  OBVIOUS
<1>2. PICK k : k = [n EXCEPT !.dev = calls[c].dev, !.pc = "refused"]
  OBVIOUS
<1>3. k \in Requests /\ k.pc = "refused"
  <2>1. n \in Requests /\ calls[c].dev \in Devs \cup {None}
    BY <1>1, NoRequest, RequestIs
  <2> QED
    BY <1>2, <2>1 DEF Requests
<1>4. calls' = [calls EXCEPT ![c] = k]
  BY <1>1, <1>2 DEF Removal!Refuse
<1>5. InOrder(k)
  BY <1>3, EndedIs
<1>6. dialogs' \in [Devs -> DialogStates] /\ \A u \in Devs : dialogs'[u].revision = dialogs[u].revision
  BY DEF DeletionInvariant, DeletionType
<1> QED
  BY <1>3, <1>4, <1>5, <1>6, CallStep

LEMMA RemoveStep ==
  ASSUME Removal!DeletionAssumption, DeletionInvariant, NEW u \in Devs, NEW c \in Calls,
         Removal!Remove(u, c)
  PROVE  DeletionInvariant'
<1>1. PICK n : n = Removal!NoCall
  OBVIOUS
<1>2. PICK shown : shown = dialogs[u]
  OBVIOUS
<1>3. PICK k : k = [n EXCEPT !.dev = u, !.target = shown.target, !.token = shown.preview,
                             !.pc = "sent"]
  OBVIOUS
<1>4. shown \in DialogStates /\ n \in Requests /\ Touched(n) = {}
  BY <1>1, <1>2, NoRequest DEF DeletionInvariant, DeletionType, Touched
<1>5. calls' = [calls EXCEPT ![c] = k] /\ UNCHANGED <<db, reads, events>>
  BY <1>1, <1>2, <1>3 DEF Removal!Remove
<1>6. shown.preview \in Tokens /\ shown.target \in Removal!Targets \cup {None}
  BY <1>2, <1>4 DEF Removal!Remove, DialogStates
<1>7. k \in Requests
  BY <1>3, <1>4, <1>6 DEF Requests
<1>8. /\ k.pc = "sent" /\ k.target = shown.target /\ k.token = shown.preview
      /\ k.gone = n.gone /\ k.cleared = n.cleared
  BY <1>3, <1>4 DEF Requests
<1>9. PICK w : w = [shown EXCEPT !.deleting = TRUE]
  OBVIOUS
<1>10. w \in DialogStates /\ w.revision = dialogs[u].revision
  BY <1>2, <1>4, <1>9 DEF DialogStates
<1>11. dialogs' = [dialogs EXCEPT ![u] = w]
  BY <1>2, <1>9 DEF Removal!Remove
<1>12. /\ dialogs' \in [Devs -> DialogStates]
       /\ \A v \in Devs : dialogs'[v].revision = dialogs[v].revision
  BY <1>10, <1>11, DialogStep
<1>13. InOrder(k)
  BY <1>4, <1>6, <1>8 DEF InOrder, Touched
<1>14. events' \in 0 .. MaxEvents
  BY <1>5 DEF DeletionInvariant, DeletionType
<1> QED
  BY <1>5, <1>7, <1>8, <1>12, <1>13, <1>14, CallStep

LEMMA HearDeletionStep ==
  ASSUME Removal!DeletionAssumption, DeletionInvariant, NEW c \in Calls, Removal!Hear(c)
  PROVE  DeletionInvariant'
<1>1. PICK n : n = Removal!NoCall
  OBVIOUS
<1>2. PICK u : u = calls[c].dev
  OBVIOUS
<1>3. /\ n \in Requests /\ InOrder(n) /\ n.pc # "deleting" /\ u \in Devs \cup {None}
  BY <1>1, <1>2, NoRequest, EndedIs, RequestIs
<1>4. calls' = [calls EXCEPT ![c] = n] /\ UNCHANGED <<db, reads, events>>
  BY <1>1 DEF Removal!Hear
<1>5. /\ dialogs' \in [Devs -> DialogStates]
      /\ \A v \in Devs : dialogs'[v].revision = dialogs[v].revision
  <2>1. CASE u = None
    BY <1>2, <2>1 DEF Removal!Hear, DeletionInvariant, DeletionType
  <2>2. CASE u # None
    <3>1. u \in Devs /\ dialogs[u] \in DialogStates
      BY <1>3, <2>2 DEF DeletionInvariant, DeletionType
    <3>2. PICK w : w = IF calls[c].pc = "done" THEN [Removal!Closed EXCEPT !.revision = dialogs[u].revision]
                       ELSE [dialogs[u] EXCEPT !.preview = None, !.deleting = FALSE]
      OBVIOUS
    <3>3. dialogs' = [dialogs EXCEPT ![u] = w]
      BY <1>2, <2>2, <3>1, <3>2 DEF Removal!Hear, DeletionInvariant, DeletionType
    <3>4. w \in DialogStates /\ w.revision = dialogs[u].revision
      <4>1. CASE calls[c].pc = "done"
        <5>1. dialogs[u].revision \in Nat
          BY <3>1 DEF DialogStates
        <5> QED
          BY <3>2, <4>1, <5>1 DEF Removal!Closed, DialogStates
      <4>2. CASE calls[c].pc # "done"
        BY <3>1, <3>2, <4>2 DEF DialogStates
      <4> QED
        BY <4>1, <4>2
    <3> QED
      BY <3>1, <3>3, <3>4, DialogStep
  <2> QED
    BY <2>1, <2>2
<1>6. events' \in 0 .. MaxEvents
  BY <1>4 DEF DeletionInvariant, DeletionType
<1> QED
  BY <1>3, <1>4, <1>5, <1>6, CallStep

\* Nobody waits for the request any more.
LEMMA Unheard ==
  ASSUME NEW old \in Requests, NEW k, k = [old EXCEPT !.dev = None]
  PROVE  /\ k \in Requests
         /\ k.pc = old.pc /\ k.target = old.target /\ k.token = old.token /\ k.snap = old.snap
         /\ k.gone = old.gone /\ k.cleared = old.cleared
  BY DEF Requests

LEMMA GiveUpDeletionStep ==
  ASSUME Removal!DeletionAssumption, DeletionInvariant, NEW c \in Calls, Removal!GiveUp(c)
  PROVE  DeletionInvariant'
<1>1. PICK old : old = calls[c]
  OBVIOUS
<1>2. PICK k : k = [old EXCEPT !.dev = None]
  OBVIOUS
<1>3. PICK u : u = old.dev
  OBVIOUS
<1>4. /\ old \in Requests /\ InOrder(old) /\ (old.pc = "deleting" => Consented(old, db))
      /\ u \in Devs
  BY <1>1, <1>3, RequestIs DEF Removal!GiveUp
<1>5. k \in Requests
  BY <1>2, <1>4, Unheard
<1>6. /\ k.pc = old.pc /\ k.target = old.target /\ k.token = old.token /\ k.snap = old.snap
      /\ k.gone = old.gone /\ k.cleared = old.cleared
  BY <1>2, <1>4, Unheard
<1>7. InOrder(k) /\ (k.pc = "deleting" => Consented(k, db)) /\ Touched(k) = Touched(old)
  <2>1. Touched(k) = Touched(old)
    BY <1>6 DEF Touched
  <2>2. InOrder(k)
    BY <1>4, <1>6, <2>1 DEF InOrder
  <2>3. Consented(old, db) => Consented(k, db)
    BY <1>6, <2>1 DEF Consented, Follows
  <2> QED
    BY <1>4, <1>6, <2>1, <2>2, <2>3
<1>8. calls' = [calls EXCEPT ![c] = k] /\ UNCHANGED <<db, reads>>
  BY <1>1, <1>2 DEF Removal!GiveUp
<1>9. PICK w : w = [dialogs[u] EXCEPT !.preview = None, !.deleting = FALSE]
  OBVIOUS
<1>10. dialogs[u] \in DialogStates
  BY <1>4 DEF DeletionInvariant, DeletionType
<1>11. w \in DialogStates /\ w.revision = dialogs[u].revision
  BY <1>9, <1>10 DEF DialogStates
<1>12. dialogs' = [dialogs EXCEPT ![u] = w]
  BY <1>1, <1>3, <1>4, <1>9 DEF Removal!GiveUp, DeletionInvariant, DeletionType
<1>13. /\ dialogs' \in [Devs -> DialogStates]
       /\ \A v \in Devs : dialogs'[v].revision = dialogs[v].revision
  BY <1>4, <1>11, <1>12, DialogStep
<1>14. events' \in 0 .. MaxEvents
  BY EventIs DEF Removal!GiveUp, DeletionInvariant, DeletionType
<1>15. ASSUME k.pc = "deleting", NEW b \in Calls \ {c}, calls[b].pc = "deleting"
       PROVE  Touched(k) \cap Touched(calls[b]) = {}
  BY <1>1, <1>6, <1>7, <1>15 DEF DeletionInvariant, TouchedOnce
<1> QED
  BY <1>5, <1>7, <1>8, <1>13, <1>14, <1>15, CallStep

-----------------------------------------------------------------------------
\* The transaction.

\* Nothing but the requests changes.
LEMMA OnlyCalls ==
  ASSUME DeletionInvariant, UNCHANGED <<dialogs, reads, events>>
  PROVE  /\ dialogs' \in [Devs -> DialogStates] /\ events' \in 0 .. MaxEvents
         /\ \A u \in Devs : dialogs'[u].revision = dialogs[u].revision
  BY DEF DeletionInvariant, DeletionType

LEMMA BeginDeletionStep ==
  ASSUME Removal!DeletionAssumption, DeletionInvariant, NEW c \in Calls,
         Removal!Begin(c) \/ Removal!BeginCleanup(c)
  PROVE  DeletionInvariant'
<1>1. PICK old : old = calls[c]
  OBVIOUS
<1>2. PICK d : d = db
  OBVIOUS
<1>3. PICK pc : pc = IF Removal!Begin(c) THEN "begun" ELSE "locked"
  OBVIOUS
<1>4. PICK k : k = [old EXCEPT !.pc = pc, !.snap = d]
  OBVIOUS
<1>5. /\ calls' = [calls EXCEPT ![c] = k] /\ old.pc = "sent"
      /\ UNCHANGED <<db, dialogs, reads, events>>
  <2>1. CASE Removal!Begin(c)
    BY <1>1, <1>2, <1>3, <1>4, <2>1 DEF Removal!Begin, DeletionInvariant, DeletionType
  <2>2. CASE ~Removal!Begin(c)
    BY <1>1, <1>2, <1>3, <1>4, <2>2 DEF Removal!BeginCleanup, DeletionInvariant, DeletionType
  <2> QED
    BY <2>1, <2>2
<1>6. d \in [Records -> RowStates] /\ pc \in {"begun", "locked"}
  BY <1>2, <1>3 DEF DeletionInvariant, DeletionType
<1>7. old \in Requests /\ InOrder(old)
  BY <1>1, RequestIs
<1>8. /\ k \in Requests /\ k.pc = pc /\ k.snap = d /\ k.token = old.token
      /\ k.gone = old.gone /\ k.cleared = old.cleared
  BY ONLY <1>4, <1>6, <1>7 DEF Requests
<1>9. InOrder(k) /\ k.pc # "deleting"
  BY <1>5, <1>6, <1>7, <1>8 DEF InOrder, Touched
<1> QED
  BY <1>5, <1>8, <1>9, CallStep, OnlyCalls

LEMMA NextStageIs ==
  ASSUME NEW old \in Requests, NEW pc \in {"locked", "deleting"}, NEW k,
         k = [old EXCEPT !.pc = pc]
  PROVE  /\ k \in Requests /\ k.pc = pc /\ k.snap = old.snap /\ k.token = old.token
         /\ k.target = old.target /\ k.gone = old.gone /\ k.cleared = old.cleared
  BY DEF Requests

LEMMA LockRecordStep ==
  ASSUME Removal!DeletionAssumption, DeletionInvariant, NEW c \in Calls, Removal!LockRecord(c)
  PROVE  DeletionInvariant'
<1>1. UNCHANGED <<db, dialogs, reads, events>>
  BY DEF Removal!LockRecord
<1>2. CASE Removal!Refuse(c)
  BY <1>1, <1>2, RefusalIs, OnlyCalls
<1>3. CASE ~Removal!Refuse(c)
  <2>1. PICK old : old = calls[c]
    OBVIOUS
  <2>2. PICK k : k = [old EXCEPT !.pc = "locked"]
    OBVIOUS
  <2>3. calls' = [calls EXCEPT ![c] = k] /\ old.pc = "begun"
    BY <1>3, <2>1, <2>2 DEF Removal!LockRecord
  <2>4. old \in Requests /\ InOrder(old)
    BY <2>1, RequestIs
  <2>5. /\ k \in Requests /\ k.pc = "locked" /\ k.snap = old.snap /\ k.token = old.token
        /\ k.gone = old.gone /\ k.cleared = old.cleared
    BY <2>2, <2>4, NextStageIs
  <2>6. InOrder(k) /\ k.pc # "deleting"
    BY <2>3, <2>4, <2>5 DEF InOrder, Touched
  <2> QED
    BY <1>1, <2>3, <2>5, <2>6, CallStep, OnlyCalls
<1> QED
  BY <1>2, <1>3

LEMMA ValidateStep ==
  ASSUME Removal!DeletionAssumption, DeletionInvariant, NEW c \in Calls, Removal!Validate(c)
  PROVE  DeletionInvariant'
<1>1. UNCHANGED <<db, dialogs, reads, events>>
  BY DEF Removal!Validate
<1>2. CASE Removal!Refuse(c)
  BY <1>1, <1>2, RefusalIs, OnlyCalls
<1>3. CASE ~Removal!Refuse(c)
  <2>1. PICK old : old = calls[c]
    OBVIOUS
  <2>2. PICK k : k = [old EXCEPT !.pc = "deleting"]
    OBVIOUS
  <2>3. /\ calls' = [calls EXCEPT ![c] = k] /\ old.pc = "locked"
        /\ Removal!Preview(old.snap, old.target) = old.token
    BY <1>3, <2>1, <2>2 DEF Removal!Validate
  <2>4. old \in Requests /\ InOrder(old)
    BY <2>1, RequestIs
  <2>5. /\ k \in Requests /\ k.pc = "deleting" /\ k.snap = old.snap /\ k.token = old.token
        /\ k.target = old.target /\ k.gone = old.gone /\ k.cleared = old.cleared
    BY <2>2, <2>4, NextStageIs
  <2>6. k.gone = {} /\ k.cleared = {}
    BY <2>3, <2>4, <2>5 DEF InOrder, Touched
  <2>7. InOrder(k)
    BY <2>3, <2>4, <2>5 DEF InOrder
  <2>8. Touched(k) = {}
    BY <2>6 DEF Touched
  <2>9. Consented(k, db)
    BY <2>3, <2>5, <2>6, <2>8 DEF Consented
  <2> QED
    BY <1>1, <2>3, <2>5, <2>7, <2>8, <2>9, CallStep, OnlyCalls
<1> QED
  BY <1>2, <1>3

LEMMA AbortStep ==
  ASSUME Removal!DeletionAssumption, DeletionInvariant, NEW c \in Calls, Removal!Abort(c)
  PROVE  DeletionInvariant'
<1>1. events' \in 0 .. MaxEvents
  BY EventIs DEF Removal!Abort, DeletionInvariant, DeletionType
<1> QED
  BY <1>1, RefusalIs DEF Removal!Abort

\* A row goes: whoever refers to it goes before it, or was shown as one that stays.
LEMMA DeleteRowStep ==
  ASSUME Removal!DeletionAssumption, DeletionInvariant, NEW c \in Calls, NEW r \in Records,
         Removal!DeleteRow(c, r)
  PROVE  DeletionInvariant'
<1>1. UNCHANGED <<db, dialogs, reads, events>>
  BY DEF Removal!DeleteRow
<1>2. CASE Removal!Refuse(c)
  BY <1>1, <1>2, RefusalIs, OnlyCalls
<1>3. CASE ~Removal!Refuse(c)
  <2>1. PICK old : old = calls[c]
    OBVIOUS
  <2>2. PICK referring : referring = Removal!Referring(c, r)
    OBVIOUS
  <2>3. /\ referring \subseteq Records
        /\ \A s \in referring : Removal!Exists(db, s) /\ db[s].to = r /\ s \notin old.gone
        /\ \A s \in Records : Removal!Exists(db, s) /\ db[s].to = r => s \in old.gone \cup referring
    BY <2>1, <2>2 DEF Removal!Referring
  <2>13. PICK cascaded : cascaded = Removal!Cascaded(c, r)
    OBVIOUS
  <2>14. cascaded \subseteq referring /\ cascaded = (referring \cap Beyond) \ Unlinked
    BY <2>2, <2>13 DEF Removal!Cascaded
  <2>4. PICK k : k = [old EXCEPT !.gone = old.gone \cup {r} \cup cascaded,
                                 !.cleared = old.cleared \cup (referring \ cascaded)]
    OBVIOUS
  <2>5. /\ calls' = [calls EXCEPT ![c] = k] /\ old.pc = "deleting"
        /\ r \in Removal!Deletes(old.target, old.token) \ old.gone
        /\ \A s \in Removal!Deletes(old.target, old.token) \ old.gone : old.snap[s].to # r
        /\ \A s \in {r} \cup referring : db[s] = old.snap[s]
    BY <1>3, <2>1, <2>2, <2>4, <2>13 DEF Removal!DeleteRow, Removal!Unseen,
       DeletionInvariant, DeletionType
  <2>6. /\ old \in Requests /\ InOrder(old) /\ Consented(old, db) /\ old.gone \subseteq Records
        /\ old.cleared \subseteq Records
    BY <2>1, <2>5, RequestIs DEF Requests
  <2>7. /\ k \in Requests /\ k.pc = old.pc /\ k.snap = old.snap /\ k.token = old.token
        /\ k.target = old.target
        /\ k.gone = old.gone \cup {r} \cup cascaded
        /\ k.cleared = old.cleared \cup (referring \ cascaded)
    <3>1. /\ old.gone \cup {r} \cup cascaded \in SUBSET Records
          /\ old.cleared \cup (referring \ cascaded) \in SUBSET Records
      BY <2>3, <2>6, <2>14
    <3> QED
      BY ONLY <2>4, <2>6, <3>1 DEF Requests
  <2>8. Touched(k) = Touched(old) \cup {r} \cup referring
    BY <2>7, <2>14 DEF Touched
  <2>9. InOrder(k)
    BY <2>5, <2>6, <2>7 DEF InOrder
  <2>10. ASSUME NEW s \in referring
         PROVE  /\ s \in cascaded => s \in Removal!Deletes(old.target, old.token) \/ Follows(k, s)
                /\ s \notin cascaded =>
                     s \in Unlinked /\ (s \in DOMAIN old.token \/ Follows(k, s))
    <3>1. old.snap \in [Records -> RowStates] /\ old.token = Removal!Preview(old.snap, old.target)
      BY <2>5, <2>6 DEF InOrder, Consented
    <3>2. Removal!Exists(old.snap, s) /\ old.snap[s].to = r /\ s \notin old.gone /\ s \in Records
      BY <2>3, <2>5 DEF Removal!Exists
    <3>3. s \in Beyond => Follows(k, s)
      BY <2>7, <3>2 DEF Follows
    <3>4. s \notin Beyond => /\ s \in DOMAIN old.token
                             /\ (s \in Removal!Deletes(old.target, old.token) \/ s \in Unlinked)
      BY <2>5, <3>1, <3>2, ReferringWasShown
    <3>5. s \notin Removal!Deletes(old.target, old.token)
      BY <2>5, <3>2
    <3>6. s \in cascaded => s \in Beyond
      BY <2>14
    <3>7. s \notin cascaded => s \notin Beyond \/ s \in Unlinked
      BY <2>14
    <3> QED
      BY <3>3, <3>4, <3>5, <3>6, <3>7
  <2>11. Consented(k, db)
    <3>1. k.token = Removal!Preview(k.snap, k.target)
      BY <2>6, <2>7 DEF Consented
    <3>6. \A s \in Records : Follows(old, s) => Follows(k, s)
      BY <2>7 DEF Follows
    <3>2. \A s \in k.gone : s \in Removal!Deletes(k.target, k.token) \/ Follows(k, s)
      <4>1. \A s \in old.gone : s \in Removal!Deletes(old.target, old.token) \/ Follows(old, s)
        BY <2>6 DEF Consented
      <4> QED
        BY <2>5, <2>6, <2>7, <2>10, <2>14, <3>6, <4>1
    <3>3. \A s \in k.cleared : s \in Unlinked /\ (s \in DOMAIN k.token \/ Follows(k, s))
      <4>1. \A s \in old.cleared : s \in Unlinked /\ (s \in DOMAIN old.token \/ Follows(old, s))
        BY <2>6 DEF Consented
      <4> QED
        BY <2>6, <2>7, <2>10, <3>6, <4>1
    <3>4. \A s \in Touched(k) : db[s] = k.snap[s]
      BY <2>5, <2>6, <2>7, <2>8 DEF Consented
    <3>5. ASSUME NEW s \in Records, Removal!Exists(db, s), db[s].to \in k.gone
          PROVE  s \in Touched(k)
      <4>1. CASE db[s].to = r
        BY <2>3, <2>8, <3>5, <4>1 DEF Touched
      <4>3. db[s].to \notin Beyond
        BY <3>5 DEF Removal!DeletionAssumption, DeletionInvariant, DeletionType
      <4>2. CASE db[s].to # r
        <5>1. db[s].to \in old.gone
          BY <2>7, <2>14, <3>5, <4>2, <4>3
        <5> QED
          BY <2>6, <2>8, <3>5, <5>1 DEF Consented
      <4> QED
        BY <4>1, <4>2
    <3> QED
      BY <3>1, <3>2, <3>3, <3>4, <3>5 DEF Consented
  <2>12. ASSUME NEW b \in Calls \ {c}, calls[b].pc = "deleting"
         PROVE  Touched(k) \cap Touched(calls[b]) = {}
    <3>1. Touched(calls[b]) \subseteq Removal!HeldByOthers(c)
      BY <2>12, TouchedIsHeld DEF Removal!HeldByOthers
    <3>2. r \notin Removal!HeldByOthers(c) /\ referring \cap Removal!HeldByOthers(c) = {}
      BY <2>2 DEF Removal!DeleteRow
    <3>3. Touched(old) \cap Touched(calls[b]) = {}
      BY <2>1, <2>5, <2>12 DEF DeletionInvariant, TouchedOnce
    <3> QED
      BY <2>8, <3>1, <3>2, <3>3
  <2> QED
    BY <1>1, <2>5, <2>7, <2>9, <2>11, <2>12, CallStep, OnlyCalls
<1> QED
  BY <1>2, <1>3

-----------------------------------------------------------------------------
\* The rows change.  Transactions under way keep the rows that they touched, and whoever
\* refers to a row that they delete.
LEMMA Undisturbed ==
  ASSUME NEW k, NEW d, Consented(k, db), \A r \in Touched(k) : d[r] = db[r],
         \A s \in Records : Removal!Exists(d, s) /\ d[s].to \in k.gone => s \in Touched(k)
  PROVE  Consented(k, d)
  BY DEF Consented

\* Somebody else writes a row that no transaction holds.
LEMMA OtherWrites ==
  ASSUME Removal!DeletionAssumption, DeletionInvariant, NEW r \in Records, NEW to \in May[r],
         Removal!Writable(r), events < MaxEvents, events' = events + 1,
         db' = [db EXCEPT ![r] = [to |-> to, version |-> events + 2]],
         to # None => Removal!Exists(db, to),
         to # None => Removal!Writable(to) \/ (Removal!Exists(db, r) /\ db[r].to = to),
         UNCHANGED <<dialogs, reads, calls>>
  PROVE  DeletionInvariant'
<1>1. PICK row : row = [to |-> to, version |-> events + 2]
  OBVIOUS
<1>2. events \in Nat /\ to \in Records \cup {None}
  BY DEF Removal!DeletionAssumption, DeletionInvariant, DeletionType
<1>3. row \in RowStates /\ row.to = to /\ row.version > 0
  BY <1>1, <1>2 DEF RowStates
<1>4. /\ db' \in [Records -> RowStates] /\ db'[r] = row
      /\ \A s \in Records : s # r => db'[s] = db[s]
  BY <1>1, <1>3 DEF DeletionInvariant, DeletionType
<1>5. DeletionType'
  <2>1. \A s \in Records : Removal!Exists(db', s) => db'[s].to \in May[s]
    BY <1>3, <1>4 DEF DeletionInvariant, DeletionType, Removal!Exists
  <2>2. events' \in 0 .. MaxEvents
    BY EventIs DEF Removal!Event, DeletionInvariant, DeletionType
  <2> QED
    BY <1>4, <2>1, <2>2 DEF DeletionInvariant, DeletionType
<1>6. Removal!ForeignKeys'
  <2>1. ASSUME NEW s \in Records, Removal!Exists(db', s), db'[s].to # None
        PROVE  Removal!Exists(db', db'[s].to)
    <3>1. db'[s].to \in Records
      BY <1>4, <2>1 DEF RowStates
    <3>2. Removal!Exists(db, db'[s].to)
      BY <1>3, <1>4, <2>1 DEF DeletionInvariant, Removal!ForeignKeys, Removal!Exists
    <3> QED
      BY <1>3, <1>4, <3>1, <3>2 DEF Removal!Exists
  <2> QED
    BY <2>1 DEF Removal!ForeignKeys
<1>7. ASSUME NEW c \in Calls, calls[c].pc = "deleting"
      PROVE  Consented(calls[c], db')
  <2>1. PICK k : k = calls[c]
    OBVIOUS
  <2>2. k \in Requests /\ Consented(k, db) /\ Touched(k) \subseteq Removal!Held(c)
    BY <1>7, <2>1, RequestIs, TouchedIsHeld
  <2>3. r \notin Touched(k)
    BY <2>2 DEF Removal!Writable
  <2>4. Touched(k) \subseteq Records
    BY <2>2 DEF Touched, Requests
  <2>5. \A s \in Touched(k) : db'[s] = db[s]
    BY <1>4, <2>3, <2>4
  <2>6. ASSUME NEW s \in Records, Removal!Exists(db', s), db'[s].to \in k.gone
        PROVE  s \in Touched(k)
    <3>1. CASE s # r
      BY <1>4, <2>2, <2>6, <3>1 DEF Consented, Removal!Exists
    <3>2. CASE s = r
      <4>1. to \in k.gone /\ to \in Touched(k)
        BY <1>3, <1>4, <2>6, <3>2 DEF Touched
      <4>2. to # None
        BY <2>4, <4>1 DEF Removal!DeletionAssumption
      <4>3. ~Removal!Writable(to)
        BY <2>2, <4>1 DEF Removal!Writable
      <4>4. Removal!Exists(db, r) /\ db[r].to \in k.gone
        BY <4>1, <4>2, <4>3
      <4> QED
        BY <2>2, <3>2, <4>4 DEF Consented
    <3> QED
      BY <3>1, <3>2
  <2>7. Consented(k, db')
    BY <2>2, <2>5, <2>6 DEF Consented
  <2> QED
    BY <2>1, <2>7
<1>8. CallsSound' /\ TouchedOnce'
  BY <1>7 DEF DeletionInvariant, CallsSound, TouchedOnce
<1> QED
  BY <1>5, <1>6, <1>8 DEF DeletionInvariant

LEMMA InsertStep ==
  ASSUME Removal!DeletionAssumption, DeletionInvariant, NEW r \in Records,
         NEW to \in Records \cup {None},
         Removal!Insert(r, to)
  PROVE  DeletionInvariant'
  BY OtherWrites DEF Removal!Insert, Removal!Event

LEMMA UpdateStep ==
  ASSUME Removal!DeletionAssumption, DeletionInvariant, NEW r \in Records,
         NEW to \in Records \cup {None},
         Removal!Update(r, to)
  PROVE  DeletionInvariant'
<1>1. to # None => Removal!Exists(db, to)
  BY DEF Removal!Update, DeletionInvariant, Removal!ForeignKeys
<1>2. to # None => Removal!Writable(to) \/ (Removal!Exists(db, r) /\ db[r].to = to)
  BY DEF Removal!Update
<1> QED
  BY <1>1, <1>2, OtherWrites DEF Removal!Update, Removal!Event

\* What a deletion leaves.
LEMMA CommitIs ==
  ASSUME Removal!DeletionAssumption, DeletionInvariant, NEW c \in Calls, Removal!Commit(c),
         NEW k, k = calls[c]
  PROVE  /\ k \in Requests /\ Consented(k, db) /\ Removal!Deletes(k.target, k.token) \subseteq k.gone
         /\ k.pc = "deleting" /\ k.snap \in [Records -> RowStates]
         /\ db' \in [Records -> RowStates] /\ UNCHANGED <<dialogs, reads, events>>
         /\ \A r \in k.gone : r \in Records /\ db'[r] = Removal!Absent /\ ~Removal!Exists(db', r)
         /\ \A r \in k.cleared \ k.gone : r \in Records /\ db'[r].to = None /\ db'[r].version > 0
         /\ \A r \in Records : r \notin Touched(k) => db'[r] = db[r]
<1>1. /\ k \in Requests /\ InOrder(k) /\ Consented(k, db) /\ k.pc = "deleting"
      /\ Removal!Deletes(k.target, k.token) \subseteq k.gone /\ UNCHANGED <<dialogs, reads, events>>
  BY RequestIs DEF Removal!Commit
<1>2. PICK d : d = db
  OBVIOUS
<1>3. d \in [Records -> RowStates]
  BY <1>2 DEF DeletionInvariant, DeletionType
<1>4. db' = [r \in Records |->
               IF r \in k.gone THEN Removal!Absent
               ELSE IF r \in k.cleared THEN [to |-> None, version |-> d[r].version + 1] ELSE d[r]]
  BY <1>2 DEF Removal!Commit
<1>5. ASSUME NEW r \in Records
      PROVE  /\ db'[r] \in RowStates
             /\ r \in k.gone => db'[r] = Removal!Absent /\ ~Removal!Exists(db', r)
             /\ r \in k.cleared \ k.gone => db'[r].to = None /\ db'[r].version > 0
             /\ r \notin k.gone \cup k.cleared => db'[r] = d[r]
  <2>1. d[r] \in RowStates /\ d[r].version \in Nat
    BY <1>3 DEF RowStates
  <2>2. CASE r \in k.gone
    <3>1. db'[r] = Removal!Absent
      BY <1>4, <2>2
    <3> QED
      BY <2>2, <3>1 DEF Removal!Absent, RowStates, Removal!Exists
  <2>3. CASE r \in k.cleared \ k.gone
    <3>1. db'[r] = [to |-> None, version |-> d[r].version + 1]
      BY <1>4, <2>3
    <3> QED
      BY <2>1, <2>3, <3>1 DEF RowStates
  <2>4. CASE r \notin k.gone \cup k.cleared
    <3>1. db'[r] = d[r]
      BY <1>4, <2>4
    <3> QED
      BY <2>1, <2>4, <3>1
  <2> QED
    BY <2>2, <2>3, <2>4
<1>6. db' \in [Records -> RowStates]
  BY <1>4, <1>5
<1>7. k.gone \subseteq Records /\ k.cleared \subseteq Records
  BY <1>1 DEF Requests
<1>8. k.snap \in [Records -> RowStates]
  BY <1>1 DEF InOrder
<1> QED
  BY <1>1, <1>2, <1>5, <1>6, <1>7, <1>8 DEF Touched

LEMMA CommitDeletionStep ==
  ASSUME Removal!DeletionAssumption, DeletionInvariant, NEW c \in Calls, Removal!Commit(c)
  PROVE  DeletionInvariant'
<1>1. PICK k : k = calls[c]
  OBVIOUS
<1>2. /\ k \in Requests /\ Consented(k, db) /\ Removal!Deletes(k.target, k.token) \subseteq k.gone
      /\ k.pc = "deleting"
      /\ db' \in [Records -> RowStates] /\ UNCHANGED <<dialogs, reads, events>>
      /\ \A r \in k.gone : r \in Records /\ db'[r] = Removal!Absent /\ ~Removal!Exists(db', r)
      /\ \A r \in k.cleared \ k.gone : r \in Records /\ db'[r].to = None /\ db'[r].version > 0
      /\ \A r \in Records : r \notin Touched(k) => db'[r] = db[r]
  BY <1>1, CommitIs
<1>3. PICK n : n = [k EXCEPT !.pc = "done", !.snap = None]
  OBVIOUS
<1>4. n \in Requests /\ n.pc = "done"
  BY ONLY <1>2, <1>3 DEF Requests
<1>5. calls' = [calls EXCEPT ![c] = n]
  BY <1>1, <1>3 DEF Removal!Commit, DeletionInvariant, DeletionType
<1>6. /\ calls' \in [Calls -> Requests] /\ calls'[c] = n
      /\ \A b \in Calls : b # c => calls'[b] = calls[b]
  BY <1>4, <1>5 DEF DeletionInvariant, DeletionType
<1>7. DeletionType'
  <2>1. ASSUME NEW r \in Records, Removal!Exists(db', r)
        PROVE  db'[r].to \in May[r]
    <3>1. CASE r \in k.cleared
      BY <1>2, <2>1, <3>1 DEF Consented, Removal!DeletionAssumption
    <3>2. CASE r \notin k.cleared
      BY <1>2, <2>1, <3>2 DEF Touched, Removal!Exists, DeletionInvariant, DeletionType
    <3> QED
      BY <3>1, <3>2
  <2> QED
    BY <1>2, <1>6, <2>1 DEF DeletionInvariant, DeletionType
<1>8. ASSUME NEW s \in Records, Removal!Exists(db', s), db'[s].to # None
      PROVE  s \notin Touched(k) /\ db'[s] = db[s] /\ Removal!Exists(db, s)
  BY <1>2, <1>8 DEF Touched, Removal!Exists
<1>9. Removal!ForeignKeys'
  <2>1. ASSUME NEW s \in Records, Removal!Exists(db', s), db'[s].to # None
        PROVE  Removal!Exists(db', db'[s].to)
    <3>1. PICK to : to = db'[s].to
      OBVIOUS
    <3>2. to \in Records
      BY <1>2, <2>1, <3>1 DEF RowStates
    <3>3. Removal!Exists(db, to)
      BY <1>8, <2>1, <3>1 DEF DeletionInvariant, Removal!ForeignKeys
    <3>4. to \notin k.gone
      BY <1>2, <1>8, <2>1, <3>1 DEF Consented
    <3>5. Removal!Exists(db', to)
      BY <1>2, <3>2, <3>3, <3>4 DEF Touched, Removal!Exists
    <3> QED
      BY <3>1, <3>5
  <2> QED
    BY <2>1 DEF Removal!ForeignKeys
<1>10. ASSUME NEW b \in Calls, calls'[b].pc = "deleting"
       PROVE  b # c /\ calls[b].pc = "deleting" /\ Consented(calls[b], db')
  <2>1. b # c /\ calls'[b] = calls[b]
    BY <1>4, <1>6, <1>10
  <2>2. PICK other : other = calls[b]
    OBVIOUS
  <2>3. /\ other \in Requests /\ Consented(other, db)
        /\ Touched(other) \cap Touched(k) = {}
    BY <1>1, <1>2, <1>10, <2>1, <2>2, RequestIs DEF DeletionInvariant, TouchedOnce
  <2>4. Touched(other) \subseteq Records
    BY <2>3 DEF Touched, Requests
  <2>5. \A r \in Touched(other) : db'[r] = db[r]
    BY <1>2, <2>3, <2>4
  <2>6. ASSUME NEW s \in Records, Removal!Exists(db', s), db'[s].to \in other.gone
        PROVE  s \in Touched(other)
    <3>1. db'[s].to # None
      BY <2>4, <2>6 DEF Touched, Removal!DeletionAssumption
    <3> QED
      BY <1>8, <2>3, <2>6, <3>1 DEF Consented
  <2>7. Consented(other, db')
    BY <2>3, <2>5, <2>6 DEF Consented
  <2> QED
    BY <1>10, <2>1, <2>2, <2>7
<1>11. CallsSound'
  <2>1. \A b \in Calls : InOrder(calls'[b])
    <3>1. InOrder(n)
      BY <1>4, EndedIs
    <3> QED
      BY <1>6, <3>1 DEF DeletionInvariant, CallsSound
  <2>2. ASSUME NEW b \in Calls, calls'[b].pc = "deleting"
        PROVE  Consented(calls'[b], db')
    <3>1. b # c /\ Consented(calls[b], db')
      BY <1>10, <2>2
    <3>2. calls'[b] = calls[b]
      BY <1>6, <3>1
    <3> QED
      BY <3>1, <3>2
  <2> QED
    BY <2>1, <2>2 DEF CallsSound
<1>12. TouchedOnce'
  BY <1>6, <1>10 DEF DeletionInvariant, TouchedOnce
<1> QED
  BY <1>7, <1>9, <1>11, <1>12 DEF DeletionInvariant

-----------------------------------------------------------------------------
LEMMA DeletionStarts == Removal!DeletionAssumption /\ Removal!Init => DeletionInvariant
<1> SUFFICES ASSUME Removal!DeletionAssumption, Removal!Init
             PROVE  DeletionInvariant
  OBVIOUS
<1>1. /\ Removal!Absent \in RowStates
      /\ [to : Records \cup {None}, version : {1}] \subseteq RowStates
  BY DEF Removal!Absent, RowStates
<1>2. db \in [Records -> RowStates] /\ \A r \in Records : Removal!Exists(db, r) => db[r].to \in May[r]
  BY <1>1 DEF Removal!Init
<1>3. Removal!Closed \in DialogStates
  BY DEF Removal!Closed, DialogStates
<1>4. \A c \in Calls : calls[c] = Removal!NoCall
  BY DEF Removal!Init
<1>5. DeletionType
  BY <1>2, <1>3, NoRequest DEF Removal!Init, DeletionType, Removal!DeletionAssumption
<1>6. Removal!ForeignKeys
  BY DEF Removal!Init, Removal!ForeignKeys
<1>7. CallsSound /\ TouchedOnce
  BY <1>4, NoRequest DEF CallsSound, TouchedOnce, InOrder
<1> QED
  BY <1>5, <1>6, <1>7 DEF DeletionInvariant

LEMMA DeletionNext == Removal!DeletionAssumption /\ DeletionInvariant /\ [Removal!Next]_(Removal!vars) => DeletionInvariant'
<1> SUFFICES ASSUME Removal!DeletionAssumption, DeletionInvariant, [Removal!Next]_(Removal!vars)
             PROVE  DeletionInvariant'
  OBVIOUS
<1>1. ASSUME NEW u \in Devs, (\E target \in Removal!Targets : Removal!Open(u, target)) \/ Removal!Refresh(u) \/ Removal!Close(u)
      PROVE  DeletionInvariant'
  BY <1>1, OpenDialogStep, RefreshStep, CloseStep
<1>2. ASSUME NEW u \in Devs, NEW c \in Calls, Removal!Remove(u, c)
      PROVE  DeletionInvariant'
  BY <1>2, RemoveStep
<1>3. ASSUME NEW q \in reads, Removal!ServePreview(q) \/ Removal!HearPreview(q) \/ Removal!LosePreview(q)
      PROVE  DeletionInvariant'
  BY <1>3, ServePreviewStep, HearPreviewStep, LosePreviewStep
<1>4. ASSUME NEW c \in Calls, Removal!Hear(c) \/ Removal!GiveUp(c) \/ Removal!Begin(c) \/ Removal!BeginCleanup(c)
      PROVE  DeletionInvariant'
  BY <1>4, HearDeletionStep, GiveUpDeletionStep, BeginDeletionStep
<1>5. ASSUME NEW c \in Calls, Removal!LockRecord(c) \/ Removal!Validate(c) \/ Removal!Commit(c) \/ Removal!Abort(c)
      PROVE  DeletionInvariant'
  BY <1>5, LockRecordStep, ValidateStep, CommitDeletionStep, AbortStep
<1>6. ASSUME NEW c \in Calls, NEW r \in Records, Removal!DeleteRow(c, r)
      PROVE  DeletionInvariant'
  BY <1>6, DeleteRowStep
<1>7. ASSUME NEW r \in Records, NEW to \in Records \cup {None}, Removal!Insert(r, to) \/ Removal!Update(r, to)
      PROVE  DeletionInvariant'
  BY <1>7, InsertStep, UpdateStep
<1>8. CASE UNCHANGED Removal!vars
  BY <1>8 DEF Removal!vars, DeletionInvariant, DeletionType, Removal!ForeignKeys, CallsSound,
     TouchedOnce
<1> QED
  BY <1>1, <1>2, <1>3, <1>4, <1>5, <1>6, <1>7, <1>8 DEF Removal!Next

\* Transactions touch what was shown and nothing that another one touches, and every
\* reference has its row, in every reachable state of deletions and other people's writes
\* (DeletionInvariant).
THEOREM DeletionStaysSound == ASSUME Removal!DeletionAssumption PROVE Removal!Spec => []DeletionInvariant
<1>1. Removal!Init => DeletionInvariant
  BY DeletionStarts
<1>2. DeletionInvariant /\ [Removal!Next]_(Removal!vars) => DeletionInvariant'
  BY DeletionNext
<1> QED
  BY <1>1, <1>2, PTL DEF Removal!Spec

\* Every reachable state of the dialogs and the requests is well formed (TypeOK of Deletion).
THEOREM DeletionTypeCorrect == ASSUME Removal!DeletionAssumption PROVE Removal!Spec => []Removal!TypeOK
<1>1. DeletionInvariant => Removal!TypeOK
  BY DEF DeletionInvariant, DeletionType, DialogStates, Questions, Requests, Removal!TypeOK
<1> QED
  BY <1>1, DeletionStaysSound, PTL

\* A commit takes the rows that were shown.
LEMMA CommitTakes ==
  ASSUME Removal!DeletionAssumption, DeletionInvariant
  PROVE  Removal!CommitTakesTheShown
<1>1. ASSUME NEW c \in Calls, Removal!Commit(c)
      PROVE  /\ \A r \in Records : db'[r] # db[r] =>
                  \/ r \in DOMAIN calls[c].token /\ calls[c].token[r] = db[r]
                  \/ r \in Beyond /\ db[r].to # None /\ ~Removal!Exists(db', db[r].to)
             /\ \A r \in Removal!Deletes(calls[c].target, calls[c].token) : ~Removal!Exists(db', r)
  <2>1. PICK k : k = calls[c]
    OBVIOUS
  <2>2. /\ Consented(k, db) /\ Removal!Deletes(k.target, k.token) \subseteq k.gone
        /\ k.snap \in [Records -> RowStates]
        /\ \A r \in k.gone : r \in Records /\ ~Removal!Exists(db', r)
        /\ \A r \in Records : r \notin Touched(k) => db'[r] = db[r]
    BY <1>1, <2>1, CommitIs
  <2>3. ASSUME NEW r \in Records, db'[r] # db[r]
        PROVE  \/ r \in DOMAIN k.token /\ k.token[r] = db[r]
               \/ r \in Beyond /\ db[r].to # None /\ ~Removal!Exists(db', db[r].to)
    <3>1. r \in Touched(k)
      BY <2>2, <2>3
    <3>2. r \in DOMAIN k.token \/ Follows(k, r)
      BY <2>2, <3>1 DEF Consented, Touched, Removal!Deletes
    <3>3. db[r] = k.snap[r] /\ k.token = Removal!Preview(k.snap, k.target)
      BY <2>2, <3>1 DEF Consented
    <3>4. r \in DOMAIN k.token => k.token[r] = k.snap[r]
      BY <2>2, <3>3, PreviewIs
    <3>5. Follows(k, r) => r \in Beyond /\ db[r].to # None /\ ~Removal!Exists(db', db[r].to)
      BY <2>2, <3>3 DEF Follows, Removal!DeletionAssumption
    <3> QED
      BY <3>2, <3>3, <3>4, <3>5
  <2> QED
    BY <2>1, <2>2, <2>3
<1> QED
  BY <1>1 DEF Removal!CommitTakesTheShown

\* A deletion takes or unlinks the rows that the developer was shown, as he was shown
\* them, and besides only rows that no preview reads, along with the row they refer to; and
\* it leaves no reference without its row, however previews, deletions and other people's
\* writes cross (DeletionAsShown of Deletion).
THEOREM DeletionsAreAsShown == ASSUME Removal!DeletionAssumption PROVE Removal!Spec => Removal!DeletionAsShown
<1>1. DeletionInvariant /\ [Removal!Next]_(Removal!vars) => [Removal!DeletionStep]_(Removal!vars)
  <2> SUFFICES ASSUME DeletionInvariant, [Removal!Next]_(Removal!vars)
               PROVE  Removal!DeletionStep
    OBVIOUS
  <2>1. Removal!CommitTakesTheShown
    BY CommitTakes
  <2>2. Removal!ForeignKeys'
    BY DeletionNext DEF DeletionInvariant
  <2> QED
    BY <2>1, <2>2 DEF Removal!DeletionStep
<1> QED
  BY <1>1, DeletionStaysSound, PTL DEF Removal!Spec, Removal!DeletionAsShown
=============================================================================
