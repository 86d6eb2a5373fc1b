------------------------------- MODULE Fields -------------------------------
(***************************************************************************)
(* Forms that save one field at a time (lib/autosave.ts, useFieldAutosave) *)
(* and the screens that use them. A field is committed when the reader     *)
(* leaves it; commits wait for each other, and each sends what the screen  *)
(* knows to be saved with the committed field put in. Meanwhile loads put  *)
(* the screen back to what the server has, other people edit the record,   *)
(* and requests are refused, lost or done late. A behaviour is one of one  *)
(* screen.                                                                 *)
(***************************************************************************)
EXTENDS Naturals, Sequences, FiniteSets

CONSTANTS
  Fields,
  Status,     \* the field of a trip that has a request of its own
  Values,
  Forms,      \* the screens to look at
  None,
  MaxEvents   \* bound on edits, changes by others, loads and requests given up

Records == [Fields -> Values]

\* Some fields with their values.
Patches == UNION {[S -> Values] : S \in SUBSET Fields}

\* What waits, and what is under way.
Commits == [patch : Patches, live : BOOLEAN]
Flights ==
  [patch : Patches, next : Records, requests : Seq(SUBSET Fields), live : BOOLEAN,
   stage : {"sent", "done", "refused"}, answer : Records \cup {None}]

FieldsAssumption ==
  /\ IsFiniteSet(Fields) /\ Status \in Fields /\ Fields # {Status}
  /\ Forms \subseteq {"payment", "rates", "preferences", "notifications", "numbers", "status",
                     "navigation", "passengers", "company", "profile", "detail", "trip",
                     "review", "boarding", "field"}
  /\ None \notin Fields \cup Values /\ None \notin Records /\ None \notin Flights
  /\ None # [got |-> None]
  /\ MaxEvents \in Nat

VARIABLES
  form,       \* which screen it is
  server,     \* the record
  draft,      \* what the fields show
  saved,      \* the queue's saved value, or None
  persisted,  \* what the screen itself last heard the record to be, or None
  queue,      \* commits that wait; "live" while no load has reset the queue since
  flight,     \* the write under way, or None
  late,       \* a request that the browser gave up and the server has not seen yet
  load,       \* the load under way, or None
  typing,     \* the field that the reader is in
  mine,       \* history: a field as the server last acknowledged it to this reader, or
              \* None once it was committed again or somebody else changed it
  dirty,      \* BoardingSelect: the choice is not known to be saved
  asked,      \* history: what a field was last committed as, or None once the reader knows
              \* the outcome
  crossed,    \* history: a load and a write were under way together (or see Unmarked)
  events

record == <<server, late>>
hands == <<draft, typing, dirty>>
vars == <<form, record, hands, saved, persisted, queue, flight, load, mine, asked, crossed,
          events>>

-----------------------------------------------------------------------------
\* The screens: which fields a write sends, what a commit puts in, when the record is
\* loaded again, when such a load resets the queue, and whether the fields follow it.
Plain ==
  [body |-> "all", patch |-> "field", reload |-> "never", resets |-> "always",
   follows |-> TRUE, fields |-> Fields]

Payment       == Plain
Rates         == Plain
Preferences   == Plain
Notifications == Plain
Numbers       == Plain
StatusForm    == Plain
Navigation    == [Plain EXCEPT !.patch = "draft"]
Passengers    == [Plain EXCEPT !.body = "changed"]
Company       == [Plain EXCEPT !.reload = "refresh"]
Profile       == [Company EXCEPT !.fields = {Status}]
Detail        == [Plain EXCEPT !.reload = "refresh"]
Trip          == [Detail EXCEPT !.body = "status apart"]
Review        == [Detail EXCEPT !.resets = "other row", !.follows = FALSE]
Boarding      == [Detail EXCEPT !.resets = "other row, none unsaved", !.fields = {Status}]
FieldForm     == [Plain EXCEPT !.reload = "reopen"]

Of == CASE form = "payment" -> Payment [] form = "rates" -> Rates
        [] form = "preferences" -> Preferences [] form = "notifications" -> Notifications
        [] form = "numbers" -> Numbers [] form = "status" -> StatusForm
        [] form = "navigation" -> Navigation [] form = "passengers" -> Passengers
        [] form = "company" -> Company [] form = "profile" -> Profile
        [] form = "detail" -> Detail [] form = "trip" -> Trip
        [] form = "review" -> Review [] form = "boarding" -> Boarding
        [] form = "field" -> FieldForm

Event == events < MaxEvents /\ events' = events + 1

Put(base, patch) == [f \in Fields |-> IF f \in DOMAIN patch THEN patch[f] ELSE base[f]]
Changed(one, two) == {f \in Fields : one[f] # two[f]}

-----------------------------------------------------------------------------
\* The server (external).

OtherChange(f, v) ==
  /\ v # server[f] /\ Event
  /\ server' = [server EXCEPT ![f] = v]
  /\ mine' = [mine EXCEPT ![f] = None]
  /\ UNCHANGED <<form, late, hands, saved, persisted, queue, flight, load, asked>>

\* A request that was given up is done after all. The reader was told of an error;
\* what it overwrites is no longer vouched for (see the README).
LateExecute ==
  /\ late # None /\ late' = None
  /\ server' = Put(server, late)
  /\ mine' = [f \in Fields |-> IF f \in Changed(server, server') THEN None ELSE mine[f]]
  /\ UNCHANGED <<form, hands, saved, persisted, queue, flight, load, asked, events>>

-----------------------------------------------------------------------------
\* Loads.

Waiting == [got |-> None]

Refresh ==
  /\ Of.reload = "refresh" /\ typing = None /\ Event
  /\ load' = Waiting
  /\ UNCHANGED <<form, record, hands, saved, persisted, queue, flight, mine, asked>>

\* The first load may be tried again.
Retry ==
  /\ saved = None /\ load = None
  /\ load' = Waiting
  /\ UNCHANGED <<form, record, hands, saved, persisted, queue, flight, mine, asked, events>>

ServeLoad ==
  /\ load = Waiting /\ load' = [got |-> server]
  /\ UNCHANGED <<form, record, hands, saved, persisted, queue, flight, mine, asked, events>>

\* The preferences remembered from an earlier visit stand in for those of the server.
FailLoad ==
  /\ load = Waiting /\ load' = None
  /\ IF form = "preferences" /\ saved = None /\ persisted # None
     THEN saved' = persisted /\ draft' = persisted
     ELSE UNCHANGED <<saved, draft>>
  /\ UNCHANGED <<form, record, typing, dirty, persisted, queue, flight, mine, asked, events>>

\* initialize(): what waits or is under way belongs to an earlier generation.
Reset(value) ==
  /\ saved' = value
  /\ queue' = [i \in DOMAIN queue |-> [queue[i] EXCEPT !.live = FALSE]]
  /\ flight' = IF flight = None THEN None ELSE [flight EXCEPT !.live = FALSE]

\* Mutant of ResetsOn: a list loaded again resets the marks that are not saved yet.
ResetsAnyway(value) == TRUE

\* A list that is loaded again gives its row; the row's effect runs when it is another.
ResetsOn(value) ==
  CASE Of.resets = "always" -> TRUE
    [] Of.resets = "other row" -> value # persisted
    [] Of.resets = "other row, none unsaved" ->
         (persisted = None \/ value[Status] # persisted[Status]) /\ ~dirty

ReceiveLoad ==
  /\ load \notin {None, Waiting} /\ load' = None
  /\ persisted' = load.got
  /\ IF ResetsOn(load.got)
     THEN /\ Reset(load.got)
          /\ draft' = IF Of.follows \/ saved = None THEN load.got ELSE draft
     ELSE UNCHANGED <<saved, queue, flight, draft>>
  /\ UNCHANGED <<form, record, typing, dirty, mine, asked, events>>

\* The editor is closed and opened for the same record again; its row was patched by
\* the answers since.
Reopen ==
  /\ Of.reload = "reopen" /\ saved # None /\ typing = None /\ Event
  /\ Reset(persisted)
  /\ draft' = persisted
  /\ UNCHANGED <<form, record, typing, dirty, persisted, load, mine, asked>>

-----------------------------------------------------------------------------
\* The reader.

\* A text; the marks of the driver's list are choices.
Type(f, v) ==
  /\ saved # None /\ f \in Of.fields /\ typing \in {None, f} /\ Event
  /\ form # "boarding"
  /\ draft' = [draft EXCEPT ![f] = v] /\ typing' = f
  /\ UNCHANGED <<form, record, dirty, saved, persisted, queue, flight, load, mine, asked>>

\* commit(). The places of a route are put in together, so that a place whose save
\* failed goes with the next.
Commit(f, d) ==
  LET patch == [g \in IF Of.patch = "draft" THEN Fields ELSE {f} |-> d[g]] IN
  /\ queue' = Append(queue, [patch |-> patch, live |-> TRUE])
  /\ mine' = [g \in Fields |-> IF g \in DOMAIN patch THEN None ELSE mine[g]]
  /\ asked' = Put(asked, patch)
  /\ dirty' = TRUE
  /\ UNCHANGED <<form, record, saved, persisted, flight, load>>

Leave ==
  /\ typing # None /\ typing' = None
  /\ Commit(typing, draft)
  /\ UNCHANGED <<draft, events>>

\* A select, a switch, a mark: entered and committed at once.
Choose(f, v) ==
  /\ saved # None /\ f \in Of.fields /\ typing = None /\ Event
  /\ draft' = [draft EXCEPT ![f] = v]
  /\ Commit(f, draft')
  /\ UNCHANGED typing

-----------------------------------------------------------------------------
\* The queue.

\* Fields of a commit that no later one gives another value.
Decided(patch, later) ==
  {f \in DOMAIN patch : \A i \in DOMAIN later :
     f \in DOMAIN later[i].patch => later[i].patch[f] = patch[f]}

Forget(S) == [f \in Fields |-> IF f \in S THEN None ELSE asked[f]]

\* Nothing is sent for a commit of an earlier generation, which also tells the reader
\* nothing, and for one that changes nothing.
Skip ==
  /\ flight = None /\ queue # <<>>
  /\ LET first == Head(queue) IN
     /\ ~first.live \/ Put(saved, first.patch) = saved
     /\ asked' = IF first.live THEN Forget(Decided(first.patch, Tail(queue))) ELSE asked
  /\ queue' = Tail(queue)
  /\ UNCHANGED <<form, record, hands, saved, persisted, flight, load, mine, events>>

\* The fields of each request of a write. A trip's status has its own, which comes
\* first; the rest is sent if anything of it is new or the status is not.
Requests(next) ==
  LET new == Changed(next, persisted)
      rest == Fields \ {Status}
  IN  CASE Of.body = "all" -> <<Of.fields>>
        [] Of.body = "changed" -> <<new>>
        [] Of.body = "status apart" ->
             (IF Status \in new THEN <<{Status}>> ELSE <<>>)
               \o (IF Status \in new /\ new \cap rest = {} THEN <<>> ELSE <<rest>>)

Send ==
  /\ flight = None /\ queue # <<>>
  /\ LET first == Head(queue)
         next == Put(saved, first.patch)
     IN  /\ first.live /\ next # saved
         /\ flight' = [patch |-> first.patch, next |-> next, requests |-> Requests(next),
                       live |-> TRUE, stage |-> "sent", answer |-> None]
  /\ queue' = Tail(queue)
  /\ UNCHANGED <<form, record, hands, saved, persisted, load, mine, asked, events>>

Sent == flight # None /\ flight.stage = "sent"

Execute ==
  /\ Sent
  /\ server' = Put(server, [f \in Head(flight.requests) |-> flight.next[f]])
  /\ flight' = [flight EXCEPT !.stage = "done", !.answer = server']
  /\ UNCHANGED <<form, late, hands, saved, persisted, queue, load, mine, asked, events>>

\* The API or the screen's own check refuses, or the answer is lost on its way back.
Refuse ==
  /\ flight # None /\ flight.stage \in {"sent", "done"}
  /\ flight' = [flight EXCEPT !.stage = "refused"]
  /\ UNCHANGED <<form, record, hands, saved, persisted, queue, load, mine, asked, events>>

\* The request times out, or its connection breaks; the server may still do it.
GiveUp ==
  /\ Sent /\ late = None /\ Event
  /\ late' = [f \in Head(flight.requests) |-> flight.next[f]]
  /\ flight' = [flight EXCEPT !.stage = "refused"]
  /\ UNCHANGED <<form, server, hands, saved, persisted, queue, load, mine, asked>>

NextRequest ==
  /\ flight # None /\ flight.stage = "done" /\ Len(flight.requests) > 1
  /\ flight' = [flight EXCEPT !.requests = Tail(@), !.stage = "sent"]
  /\ UNCHANGED <<form, record, hands, saved, persisted, queue, load, mine, asked, events>>

Stored(result) == IF flight.live THEN result ELSE saved

\* Passengers are answered with the whole list; fields that the reader has not changed
\* since the write follow it.
Acknowledge ==
  /\ flight # None /\ flight.stage = "done" /\ Len(flight.requests) = 1
  /\ LET result == IF Of.body = "changed" THEN flight.answer ELSE flight.next
         told == Decided(flight.patch, queue)
     IN  /\ saved' = Stored(result)
         /\ persisted' = IF Of.resets = "always" THEN result ELSE persisted
         /\ draft' = IF Of.body = "changed"
                     THEN [f \in Fields |-> IF draft[f] = flight.next[f] THEN result[f] ELSE draft[f]]
                     ELSE draft
         /\ dirty' = (dirty /\ \E f \in DOMAIN flight.patch : draft[f] # flight.patch[f])
         /\ mine' = [f \in Fields |->
               IF f \in told /\ server[f] = flight.next[f] THEN flight.next[f] ELSE mine[f]]
         /\ asked' = Forget(told)
  /\ flight' = None
  /\ UNCHANGED <<form, record, typing, queue, load, events>>

\* A toast says so; the fields keep what was entered.
AcknowledgeRefusal ==
  /\ flight # None /\ flight.stage = "refused" /\ flight' = None
  /\ asked' = Forget(Decided(flight.patch, queue))
  /\ UNCHANGED <<form, record, hands, saved, persisted, queue, load, mine, events>>

-----------------------------------------------------------------------------
Init ==
  /\ form \in Forms
  /\ \E v \in Values : server = [f \in Fields |-> v]
  /\ late = None
  /\ draft = server /\ typing = None /\ dirty = FALSE
  /\ saved = None
  /\ persisted \in IF form = "preferences" THEN {None} \cup Records ELSE {None}
  /\ queue = <<>> /\ flight = None /\ load = Waiting
  /\ mine = [f \in Fields |-> None] /\ asked = mine /\ crossed = FALSE
  /\ events = 0

Loading == Refresh \/ Retry \/ ServeLoad \/ FailLoad \/ ReceiveLoad \/ Reopen
Saving ==
  \/ Leave \/ Skip \/ Send \/ Execute \/ Refuse \/ GiveUp \/ NextRequest
  \/ Acknowledge \/ AcknowledgeRefusal \/ LateExecute

Step ==
  \/ \E f \in Fields, v \in Values : Type(f, v) \/ Choose(f, v) \/ OtherChange(f, v)
  \/ Loading \/ Saving

Pending == queue # <<>> \/ flight # None

\* A passenger of the driver's list is marked to and fro, and the first of the marks is
\* acknowledged while the last, which is the same, still waits: the list takes it for saved.
Unmarked == Pending /\ ~dirty

Remember ==
  crossed' = (crossed \/ IF form = "boarding" THEN Unmarked'
                         ELSE (Pending' /\ load' # None) \/ (Pending /\ Reopen))

Next == Step /\ Remember

Spec == Init /\ [][Next]_vars
-----------------------------------------------------------------------------
\* The variables have their types; a draft is only ahead of what was loaded.
TypeOK ==
  /\ form \in Forms /\ server \in Records /\ draft \in Records
  /\ saved \in {None} \cup Records /\ persisted \in {None} \cup Records
  /\ typing \in Fields \cup {None}
  /\ {mine, asked} \subseteq [Fields -> Values \cup {None}]
  /\ flight # None =>
       flight.requests # <<>> /\ \A i \in DOMAIN flight.requests : flight.requests[i] # {}

\* Of what was committed the reader learns that it is saved or refused, or it is still on
\* its way (lib/autosave.ts).
EditIsKept ==
  \A f \in {f \in Fields : asked[f] # None} :
    \/ flight # None /\ f \in DOMAIN flight.patch
    \/ \E i \in DOMAIN queue : queue[i].live /\ f \in DOMAIN queue[i].patch

\* A field that the server acknowledged keeps its value when this reader saves other
\* fields: writes "merge against the last acknowledged server value"
\* (docs/interface-settings.md).
AcknowledgedIsKept == \A f \in Fields : mine[f] # None => server[f] = mine[f]

\* Where no load runs beside a write no commit is lost and no saved field is taken back,
\* however commits, refusals, lost answers and other people's edits come; and a mark of
\* the driver's list survives any load (BoardingSelect's "dirty") but for Unmarked.
EditsAreKept == ~crossed => EditIsKept /\ AcknowledgedIsKept
=============================================================================
