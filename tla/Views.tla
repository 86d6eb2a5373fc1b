-------------------------------- MODULE Views --------------------------------
(***************************************************************************)
(* The saved views of a collection (entity-view-toolbar.tsx,               *)
(* entity-data-view.tsx, lib/entity-views.ts): tabs over one list, each    *)
(* with a configuration that its reader changes as a draft and saves,      *)
(* copies, renames or deletes, while others of the company edit the same   *)
(* views. A save and a rename carry the version they were made from.       *)
(***************************************************************************)
EXTENDS Naturals, Sequences, FiniteSets

CONSTANTS
  Ids,        \* views that are or may be saved
  ReadOnly,   \* those that the reader may not edit (canEdit)
  Standard,   \* the built-in view
  Names,      \* a name with its visibility
  Configs, Default,
  Stale,      \* configurations with a column that is gone
  None,
  MaxEvents   \* bound on edits, saves, renames, reloads and edits by others

Tabs == Ids \cup {Standard}

ViewsAssumption ==
  /\ IsFiniteSet(Ids) /\ ReadOnly \subseteq Ids /\ Standard \notin Ids
  /\ Default \in Configs \ Stale /\ None \notin Tabs \cup Configs \cup Names
  /\ MaxEvents \in Nat

VARIABLES
  server,     \* id -> the saved view, or None
  fresh,      \* identifiers that no view had yet
  views,      \* the same, as the toolbar knows it
  restored,   \* the views were loaded, and the remembered one is chosen
  active, config, drafts,
  autosave,   \* of the settings dialog: the view saved last, its commits and the one under way
  dialog,     \* None, or the dialog that is open
  call,       \* the save, creation or deletion under way, or None
  load,       \* the load of the views under way, or None
  error,      \* an error is shown, and with it the button that loads the views again
  wanted,     \* history: the reader's unsaved edit of a tab
  events

api == <<server, fresh>>
list == <<views, restored>>
shown == <<active, config, drafts>>
vars == <<api, list, shown, autosave, dialog, call, load, error, wanted, events>>

View == [id : Ids, name : Names, config : Configs, version : Nat]

Event == events < MaxEvents /\ events' = events + 1

\* normalizeViewConfig: what the list no longer has is left out.
Normal(c) == IF c \in Stale THEN Default ELSE c

Present == {Standard} \cup {id \in Ids : views[id] # None}
Current == IF active = Standard THEN None ELSE views[active]
Base(t) == IF t = Standard \/ views[t] = None THEN Default ELSE views[t].config
Dirty == config # Base(active)   \* sameViewConfig
Draft(t) == IF t \in DOMAIN drafts THEN drafts[t] ELSE Base(t)
Discard(t) == [u \in DOMAIN drafts \ {t} |-> drafts[u]]
Editable(t) == t \in Ids \ ReadOnly /\ views[t] # None

-----------------------------------------------------------------------------
\* The API (external to the toolbar): entity_views.go.

OtherEdit(id, name, c) ==
  /\ server[id] # None /\ Event
  /\ server' = [server EXCEPT ![id] =
       [id |-> id, name |-> name, config |-> c, version |-> server[id].version + 1]]
  /\ server'[id].name # server[id].name \/ server'[id].config # server[id].config
  /\ UNCHANGED <<fresh, list, shown, autosave, dialog, call, load, error, wanted>>

OtherDelete(id) ==
  /\ server[id] # None /\ Event
  /\ server' = [server EXCEPT ![id] = None]
  /\ UNCHANGED <<fresh, list, shown, autosave, dialog, call, load, error, wanted>>

\* Mutant of Accepted: the version is not compared.
AnyVersion(view) == server[view.id] # None /\ view.id \notin ReadOnly

\* FOR UPDATE; canEdit; the version.
Accepted(view) ==
  /\ server[view.id] # None /\ view.id \notin ReadOnly
  /\ server[view.id].version = view.version

Stored(view) == [view EXCEPT !.version = server[view.id].version + 1]

-----------------------------------------------------------------------------
\* The views of the collection.

\* A list that loads in between asks again, which only serves the answer later.
ServeLoad ==
  /\ load = [got |-> None]
  /\ load' = [got |-> server]
  /\ UNCHANGED <<api, list, shown, autosave, dialog, call, error, wanted, events>>

FailLoad ==
  /\ load # None /\ load' = None /\ error' = TRUE
  /\ UNCHANGED <<api, list, shown, autosave, dialog, call, wanted, events>>

\* initialize(): commits that wait and the one under way belong to the past.
Initialized(view) ==
  [saved |-> view,
   queue |-> [i \in DOMAIN autosave.queue |-> [autosave.queue[i] EXCEPT !.live = FALSE]],
   flight |-> IF autosave.flight = None THEN None ELSE [autosave.flight EXCEPT !.live = FALSE]]

Show(t, c) == active' = t /\ config' = Normal(c)

\* The first load opens the tab of the last visit, whatever was changed before it came.
ReceiveLoad(last) ==
  /\ load # None /\ load.got # None /\ load' = None
  /\ views' = load.got /\ restored' = TRUE /\ error' = FALSE
  /\ LET at == IF restored THEN active ELSE last
         view == IF at = Standard THEN None ELSE load.got[at]
     IN  /\ autosave' = IF restored \/ view # None THEN Initialized(view) ELSE autosave
         /\ IF restored \/ view = None
            THEN UNCHANGED <<active, config, wanted>>
            ELSE Show(at, view.config) /\ wanted' = [t \in Tabs |-> None]
  /\ UNCHANGED <<api, drafts, dialog, call, events>>

\* "Обновить виды"; in the dialogs of a view it closes them.
RefreshViews ==
  /\ error /\ Event
  /\ dialog # None => dialog.kind # "create" /\ call = None
  /\ dialog' = None /\ load' = [got |-> None]
  /\ UNCHANGED <<api, list, shown, autosave, call, error, wanted>>

-----------------------------------------------------------------------------
\* The reader. A dialog is modal.

\* Filters, sorting, columns, the board: applyConfig.
Edit(c) ==
  /\ dialog = None /\ c # config /\ Event
  /\ config' = c
  /\ wanted' = [wanted EXCEPT ![active] = c]
  /\ UNCHANGED <<api, list, active, drafts, autosave, dialog, call, load, error>>

\* Mutant of Stash: the draft of a tab that is left is not put aside.
NoStash == drafts

Stash ==
  IF Dirty THEN [t \in {active} \cup DOMAIN drafts |-> IF t = active THEN config ELSE drafts[t]]
           ELSE Discard(active)

\* Opening the tab one is on shows what was put aside before (see the README).
Select(t) ==
  /\ dialog = None /\ t \in Present
  /\ drafts' = Stash
  /\ autosave' = Initialized(IF t = Standard THEN None ELSE views[t])
  /\ Show(t, Draft(t))
  /\ error' = FALSE
  /\ wanted' = IF Dirty /\ t # active THEN wanted ELSE [wanted EXCEPT ![active] = None]
  /\ UNCHANGED <<api, views, restored, dialog, call, load, events>>

ResetDraft ==
  /\ dialog = None /\ call = None /\ Dirty
  /\ drafts' = Discard(active)
  /\ Show(active, Base(active))
  /\ wanted' = [wanted EXCEPT ![active] = None] /\ error' = FALSE
  /\ UNCHANGED <<api, list, autosave, dialog, call, load, events>>

\* saveCurrent
Save ==
  /\ dialog = None /\ call = None /\ Dirty /\ Editable(active) /\ Event
  /\ call' = [kind |-> "save", view |-> [Current EXCEPT !.config = config], stage |-> "sent"]
  /\ error' = FALSE
  /\ UNCHANGED <<api, list, shown, autosave, dialog, load, wanted>>

Open(kind, t, c) ==
  /\ dialog = None /\ call = None
  /\ dialog' = [kind |-> kind, target |-> t, config |-> c]
  /\ autosave' = IF kind = "edit" THEN Initialized(views[t]) ELSE autosave
  /\ error' = FALSE
  /\ UNCHANGED <<api, list, shown, call, load, wanted, events>>

\* The button, and the menu of the tab shown, copy what is shown; the menu of another tab
\* copies what is saved, that of the built-in one its draft that was put aside.
OpenCreate ==
  /\ restored
  /\ \/ Open("create", None, config)
     \/ Open("create", None, Draft(Standard))
     \/ \E t \in Present \ {Standard, active} : Open("create", None, views[t].config)

OpenOther == \E t \in Ids, kind \in {"edit", "delete"} : Editable(t) /\ Open(kind, t, Default)

CloseDialog ==
  /\ dialog # None /\ call = None
  /\ dialog' = None
  /\ UNCHANGED <<api, list, shown, autosave, call, load, error, wanted, events>>

\* write: the server names the new view.
Write ==
  /\ dialog # None /\ dialog.kind # "edit" /\ call = None /\ restored
  /\ \E name \in Names, id \in Ids :
       /\ IF dialog.kind = "delete" THEN id = dialog.target ELSE id \in fresh
       /\ call' = [kind |-> dialog.kind, stage |-> "sent",
                   view |-> [id |-> id, name |-> name, config |-> dialog.config, version |-> 1]]
  /\ error' = FALSE
  /\ UNCHANGED <<api, list, shown, autosave, dialog, load, wanted, events>>

\* The name is left, or the visibility chosen.
Rename(name) ==
  /\ dialog # None /\ dialog.kind = "edit" /\ Event
  /\ autosave' = [autosave EXCEPT !.queue =
       Append(@, [name |-> name, live |-> TRUE])]
  /\ UNCHANGED <<api, list, shown, dialog, call, load, error, wanted>>

-----------------------------------------------------------------------------
\* A save, a creation, a deletion.

ExecuteSave ==
  /\ call.kind = "save" /\ Accepted(call.view)
  /\ server' = [server EXCEPT ![call.view.id] = Stored(call.view)]
  /\ UNCHANGED fresh

ExecuteCreate ==
  /\ call.kind = "create" /\ call.view.id \in fresh
  /\ server' = [server EXCEPT ![call.view.id] = call.view]
  /\ fresh' = fresh \ {call.view.id}

ExecuteDelete ==
  /\ call.kind = "delete" /\ server[call.view.id] # None
  /\ server' = [server EXCEPT ![call.view.id] = None]
  /\ UNCHANGED fresh

Execute ==
  /\ call # None /\ call.stage = "sent"
  /\ ExecuteSave \/ ExecuteCreate \/ ExecuteDelete
  /\ call' = [call EXCEPT !.stage = "done", !.view =
       IF server'[@.id] = None THEN @ ELSE server'[@.id]]
  /\ UNCHANGED <<list, shown, autosave, dialog, load, error, wanted, events>>

\* Refused, timed out, or the answer is lost.
FailCall ==
  /\ call # None /\ call' = None /\ error' = TRUE
  /\ UNCHANGED <<api, list, shown, autosave, dialog, load, wanted, events>>

Done(kind) == call # None /\ call.stage = "done" /\ call.kind = kind

Listed(view) == [views EXCEPT ![view.id] = IF @ = None THEN None ELSE view]

\* A draft that was put aside and is not what was saved stays.
Kept(view) ==
  IF view.id \in DOMAIN drafts /\ drafts[view.id] # view.config
  THEN drafts ELSE Discard(view.id)

AnswerSave ==
  /\ Done("save") /\ call' = None
  /\ LET view == call.view IN
     /\ views' = Listed(view)
     /\ drafts' = Kept(view)
     /\ autosave' = IF active = view.id THEN Initialized(view) ELSE autosave
     /\ wanted' = [wanted EXCEPT ![view.id] = IF @ = view.config THEN None ELSE @]
  /\ UNCHANGED <<api, restored, active, config, dialog, load, error, events>>

\* The new view is opened; what was not saved of the tab one was on is gone.
AnswerCreate ==
  /\ Done("create") /\ call' = None /\ dialog' = None
  /\ LET view == call.view IN
     /\ views' = [views EXCEPT ![view.id] = view]
     /\ drafts' = Discard(view.id)
     /\ Show(view.id, view.config)
     /\ autosave' = Initialized(view)
     /\ wanted' = [wanted EXCEPT ![view.id] = None, ![active] = None]
  /\ UNCHANGED <<api, restored, load, error, events>>

AnswerDelete ==
  /\ Done("delete") /\ call' = None /\ dialog' = None
  /\ LET id == call.view.id IN
     /\ views' = [views EXCEPT ![id] = None]
     /\ drafts' = Discard(id)
     /\ IF active = id
        THEN /\ Show(Standard, Draft(Standard))
             /\ autosave' = Initialized(None)
        ELSE UNCHANGED <<active, config, autosave>>
     /\ wanted' = [wanted EXCEPT ![id] = None]
  /\ UNCHANGED <<api, restored, load, error, events>>

-----------------------------------------------------------------------------
\* The commits of the settings dialog (lib/autosave.ts).

Next1 == Head(autosave.queue)
Renamed == [autosave.saved EXCEPT !.name = Next1.name]
Idle == autosave.flight = None /\ autosave.queue # <<>>
Useless == Next1.live /\ autosave.saved # None => Renamed = autosave.saved

SkipRename ==
  /\ Idle /\ Useless
  /\ autosave' = [autosave EXCEPT !.queue = Tail(@)]
  /\ UNCHANGED <<api, list, shown, dialog, call, load, error, wanted, events>>

SendRename ==
  /\ Idle /\ ~Useless
  /\ autosave' = [autosave EXCEPT !.queue = Tail(@),
       !.flight = [view |-> Renamed, live |-> TRUE, stage |-> "sent"]]
  /\ UNCHANGED <<api, list, shown, dialog, call, load, error, wanted, events>>

ExecuteRename ==
  LET flight == autosave.flight IN
  /\ flight # None /\ flight.stage = "sent" /\ Accepted(flight.view)
  /\ server' = [server EXCEPT ![flight.view.id] = Stored(flight.view)]
  /\ autosave' = [autosave EXCEPT !.flight.stage = "done",
                                  !.flight.view = server'[flight.view.id]]
  /\ UNCHANGED <<fresh, list, shown, dialog, call, load, error, wanted, events>>

FailRename ==
  /\ autosave.flight # None
  /\ autosave' = [autosave EXCEPT !.flight = None]
  /\ error' = TRUE
  /\ UNCHANGED <<api, list, shown, dialog, call, load, wanted, events>>

AnswerRename ==
  LET flight == autosave.flight IN
  /\ flight # None /\ flight.stage = "done"
  /\ views' = Listed(flight.view)
  /\ autosave' = [autosave EXCEPT !.flight = None,
                                  !.saved = IF flight.live THEN flight.view ELSE @]
  /\ error' = FALSE
  /\ UNCHANGED <<api, restored, shown, dialog, call, load, wanted, events>>

-----------------------------------------------------------------------------
Init ==
  /\ fresh \in SUBSET (Ids \ ReadOnly)
  /\ \E n \in Names :
       server = [id \in Ids |-> IF id \in fresh THEN None
                   ELSE [id |-> id, name |-> n, config |-> Default, version |-> 1]]
  /\ views = [id \in Ids |-> None] /\ restored = FALSE
  /\ active = Standard /\ config = Default /\ drafts = <<>>
  /\ autosave = [saved |-> None, queue |-> <<>>, flight |-> None]
  /\ dialog = None /\ call = None /\ load = [got |-> None] /\ error = FALSE
  /\ wanted = [t \in Tabs |-> None]
  /\ events = 0

Others ==
  \E id \in Ids : OtherDelete(id) \/ \E n \in Names, c \in Configs : OtherEdit(id, n, c)

Loading == ServeLoad \/ FailLoad \/ (\E t \in Tabs : ReceiveLoad(t)) \/ RefreshViews

Reader ==
  \/ \E c \in Configs \ Stale : Edit(c)
  \/ \E t \in Tabs : Select(t)
  \/ \E n \in Names : Rename(n)
  \/ ResetDraft \/ Save \/ OpenCreate \/ OpenOther \/ CloseDialog \/ Write

Answering ==
  \/ Execute \/ FailCall \/ AnswerSave \/ AnswerCreate \/ AnswerDelete
  \/ SkipRename \/ SendRename \/ ExecuteRename \/ FailRename \/ AnswerRename

Next == Others \/ Loading \/ Reader \/ Answering

Spec == Init /\ [][Next]_vars
-----------------------------------------------------------------------------
\* The variables have their types.
TypeOK ==
  /\ fresh \subseteq Ids /\ {server, views} \subseteq [Ids -> View \cup {None}]
  /\ active \in Tabs /\ config \in Configs \ Stale
  /\ DOMAIN drafts \subseteq Tabs /\ \A t \in DOMAIN drafts : drafts[t] \in Configs \ Stale
  /\ autosave.saved \in View \cup {None}
  /\ call # None => call.view \in View
  /\ wanted \in [Tabs -> (Configs \ Stale) \cup {None}]

\* The drafts of the tabs are kept while the reader switches between them, saves, renames
\* or deletes other views, is refused and loads the views again (docs/entity-views.md,
\* "the drafts of switching between tabs are kept"); an edit made while its tab is being
\* saved is not taken for saved. A new view takes the draft of the tab it was made on, and
\* opening the tab one is on is excepted.
DraftIsKept ==
  \A t \in Tabs : wanted[t] # None /\ t \in Present =>
    IF t = active THEN config = wanted[t] ELSE t \in DOMAIN drafts /\ drafts[t] = wanted[t]

\* A save keeps the name and a rename the configuration that anybody gave the view
\* meanwhile, for each is refused once the view is another (entity_views.go).
WriteKeepsTheRest ==
  call' # call \/ autosave' # autosave =>
    \A id \in Ids : server[id] # None /\ server'[id] # None =>
      server'[id].name = server[id].name \/ server'[id].config = server[id].config
WritesKeepTheRest == [][WriteKeepsTheRest]_vars
=============================================================================
