------------------------------ MODULE Deletion ------------------------------
(* Deleting a record with all that depends on it, or the whole company's working data  *)
(* (backend/cmd/api/entity_deletion.go, company_cleanup.go), from the dialog that      *)
(* shows what goes (src/components/use-record-deletion.tsx).                           *)
(*                                                                                     *)
(* The developer confirms a preview: the server reads what depends on the record,      *)
(* returns a token of the rows' versions, and deletes only what has that token.  Other *)
(* people write the same rows meanwhile, each in a short transaction of its own; the   *)
(* deletion is a serializable transaction of several statements.                       *)
EXTENDS Naturals, FiniteSets

CONSTANTS
  Records,       \* rows of the company
  May,           \* what each record may refer to, None included when it need not
  Unlinked,      \* records that outlive the one they refer to, with the reference cleared
  Beyond,        \* records that no preview reads: they go, or lose their reference, silently
  Company,       \* the target that stands for all working data
  Devs,          \* developers with the dialog open
  Calls,         \* bound: deletions under way at a time
  None,
  MaxEvents      \* bound: openings, other people's writes, failures

DeletionAssumption ==
  /\ May \in [Records -> SUBSET (Records \cup {None})]
  /\ Unlinked \subseteq {r \in Records : None \in May[r]}
  /\ Beyond \subseteq Records /\ \A r \in Records : May[r] \cap Beyond = {}
  /\ Company \notin Records /\ None \notin Records \cup {Company}
  /\ MaxEvents \in Nat

VARIABLES
  db,        \* the committed rows: what each refers to and its version
  dialogs,   \* the dialog of each developer
  reads,     \* previews asked for and on their way
  calls,     \* the DELETE requests and their transactions
  events

vars == <<db, dialogs, reads, calls, events>>

Targets == (Records \ Beyond) \cup {Company}
Absent == [to |-> None, version |-> 0]
Exists(d, r) == d[r].version > 0

Closed == [target |-> None, revision |-> 0, preview |-> None, loading |-> FALSE, deleting |-> FALSE]
NoCall == [dev |-> None, target |-> None, token |-> None, pc |-> "none", snap |-> None,
           gone |-> {}, cleared |-> {}]

Event == events < MaxEvents /\ events' = events + 1

-----------------------------------------------------------------------------
(* deletionSets and readDeletionPreview. *)

\* What a preview reads: what refers to the record, and to that, until a record that
\* stays; the least set that is whole in this sense.  The trip of a GPS point, of the
\* driver's ledger and of an expense, and the booking of a public request are not read;
\* the cleanup of the company reads every table.
Scope(d, target) ==
  LET all == {r \in Records \ Beyond : Exists(d, r)}
      Whole(S) == /\ {target} \cap all \subseteq S
                  /\ \A r \in all : d[r].to \in S \ (Unlinked \ {target}) => r \in S
  IN IF target = Company THEN {r \in Records : Exists(d, r)}
     ELSE {r \in all : \A S \in SUBSET all : Whole(S) => r \in S}

\* The token stands for every row of the preview with its version.
Preview(d, target) == [r \in Scope(d, target) |-> d[r]]
Deletes(target, token) == {r \in DOMAIN token : r = target \/ target = Company \/ r \notin Unlinked}

-----------------------------------------------------------------------------
(* The dialog. *)

Waiting(target, revision) ==
  [target |-> target, revision |-> revision, preview |-> None, loading |-> TRUE, deleting |-> FALSE]

\* Only the latest question of the dialog is still listened to: the others are aborted.
Ask(u, target) ==
  LET revision == dialogs[u].revision + 1
  IN /\ dialogs' = [dialogs EXCEPT ![u] = Waiting(target, revision)]
     /\ reads' = {q \in reads : q.dev # u}
                   \cup {[dev |-> u, target |-> target, revision |-> revision, answer |-> None]}

Open(u, target) ==
  /\ dialogs[u].target = None /\ Event
  /\ Ask(u, target)
  /\ UNCHANGED <<db, calls>>

Refresh(u) ==
  /\ dialogs[u].target # None /\ dialogs[u].preview = None
  /\ ~dialogs[u].loading /\ ~dialogs[u].deleting /\ Event
  /\ Ask(u, dialogs[u].target)
  /\ UNCHANGED <<db, calls>>

Close(u) ==
  /\ dialogs[u].target # None /\ ~dialogs[u].deleting
  /\ dialogs' = [dialogs EXCEPT ![u] = [Closed EXCEPT !.revision = dialogs[u].revision]]
  /\ reads' = {q \in reads : q.dev # u}
  /\ UNCHANGED <<db, calls, events>>

\* A read-only snapshot answers the question; a record that is gone has no preview.
ServePreview(q) ==
  /\ q \in reads /\ q.answer = None
  /\ reads' = (reads \ {q}) \cup {[q EXCEPT !.answer = [rows |-> Preview(db, q.target)]]}
  /\ UNCHANGED <<db, dialogs, calls, events>>

HearPreview(q) ==
  /\ q \in reads /\ q.answer # None
  /\ reads' = reads \ {q}
  /\ dialogs' = [dialogs EXCEPT
       ![q.dev].loading = FALSE,
       ![q.dev].preview = IF DOMAIN q.answer.rows = {} /\ q.target # Company THEN None
                          ELSE q.answer.rows]
  /\ UNCHANGED <<db, calls, events>>

LosePreview(q) ==
  /\ q \in reads /\ Event
  /\ reads' = reads \ {q}
  /\ dialogs' = [dialogs EXCEPT ![q.dev].loading = FALSE]
  /\ UNCHANGED <<db, calls>>

Remove(u, c) ==
  /\ dialogs[u].preview # None /\ ~dialogs[u].loading /\ ~dialogs[u].deleting
  /\ calls[c].pc = "none"
  /\ calls' = [calls EXCEPT ![c] =
       [NoCall EXCEPT !.dev = u, !.target = dialogs[u].target, !.token = dialogs[u].preview,
                      !.pc = "sent"]]
  /\ dialogs' = [dialogs EXCEPT ![u].deleting = TRUE]
  /\ UNCHANGED <<db, reads, events>>

\* The developer hears that it is done, or has to look at the composition again.
Hear(c) ==
  /\ calls[c].pc \in {"done", "refused"}
  /\ LET u == calls[c].dev
     IN dialogs' = IF u = None THEN dialogs
                   ELSE [dialogs EXCEPT ![u] =
                          IF calls[c].pc = "done" THEN [Closed EXCEPT !.revision = dialogs[u].revision]
                          ELSE [@ EXCEPT !.preview = None, !.deleting = FALSE]]
  /\ calls' = [calls EXCEPT ![c] = NoCall]
  /\ UNCHANGED <<db, reads, events>>

\* The gateway gives the request up after 15 s, or its answer is lost; it may go on.
GiveUp(c) ==
  /\ calls[c].dev # None /\ Event
  /\ dialogs' = [dialogs EXCEPT ![calls[c].dev].preview = None, ![calls[c].dev].deleting = FALSE]
  /\ calls' = [calls EXCEPT ![c].dev = None]
  /\ UNCHANGED <<db, reads>>

-----------------------------------------------------------------------------
(* The transaction. *)

Active == {c \in Calls : calls[c].pc \in {"begun", "locked", "deleting"}}
Refuse(c) == calls' = [calls EXCEPT ![c] = [NoCall EXCEPT !.dev = calls[c].dev, !.pc = "refused"]]

\* Rows a transaction holds: the record FOR UPDATE, what it deleted or unlinked so far.
Held(c) ==
  IF c \notin Active THEN {}
  ELSE calls[c].gone \cup calls[c].cleared
         \cup (IF calls[c].pc # "begun" /\ calls[c].target # Company THEN {calls[c].target} ELSE {})
HeldByOthers(c) == UNION {Held(o) : o \in Calls \ {c}}

\* LOCK TABLE of the cleanup keeps every other writer out until it ends.
TablesLocked(c) == \E o \in Active \ {c} : calls[o].target = Company /\ calls[o].pc # "begun"

\* The snapshot is that of the first statement.
Begin(c) ==
  /\ calls[c].pc = "sent" /\ calls[c].target # Company
  /\ calls' = [calls EXCEPT ![c].pc = "begun", ![c].snap = db]
  /\ UNCHANGED <<db, dialogs, reads, events>>

\* The cleanup locks the tables before it reads anything.
BeginCleanup(c) ==
  /\ calls[c].pc = "sent" /\ calls[c].target = Company
  /\ \A o \in Active : calls[o].gone = {}
  /\ ~TablesLocked(c)
  /\ calls' = [calls EXCEPT ![c].pc = "locked", ![c].snap = db]
  /\ UNCHANGED <<db, dialogs, reads, events>>

\* SELECT ... FOR UPDATE: the record must be there, unchanged since the snapshot.
LockRecord(c) ==
  /\ calls[c].pc = "begun" /\ calls[c].target \notin HeldByOthers(c)
  /\ LET x == calls[c].target
     IN IF ~Exists(calls[c].snap, x) \/ db[x] # calls[c].snap[x] THEN Refuse(c)
        ELSE calls' = [calls EXCEPT ![c].pc = "locked"]
  /\ UNCHANGED <<db, dialogs, reads, events>>

\* Mutant of Validate: the count of the rows is compared, not their versions.
ValidateCount(c) ==
  /\ calls[c].pc = "locked"
  /\ IF Cardinality(DOMAIN Preview(calls[c].snap, calls[c].target)) # Cardinality(DOMAIN calls[c].token)
       THEN Refuse(c) ELSE calls' = [calls EXCEPT ![c].pc = "deleting"]
  /\ UNCHANGED <<db, dialogs, reads, events>>

Validate(c) ==
  /\ calls[c].pc = "locked"
  /\ IF Preview(calls[c].snap, calls[c].target) # calls[c].token
       THEN Refuse(c) ELSE calls' = [calls EXCEPT ![c].pc = "deleting"]
  /\ UNCHANGED <<db, dialogs, reads, events>>

\* What still refers to a row, as the foreign key's trigger sees it.
Referring(c, r) == {s \in Records \ calls[c].gone : Exists(db, s) /\ db[s].to = r}
Unseen(c, s) == db[s] # calls[c].snap[s]

\* ON DELETE CASCADE: such a row goes together with the one it refers to.
Cascaded(c, r) == (Referring(c, r) \cap Beyond) \ Unlinked

\* Children go before what they refer to.  A row changed since the snapshot, or a
\* reference made since, ends the transaction; a reference that may be cleared is.
DeleteRow(c, r) ==
  /\ calls[c].pc = "deleting" /\ ~TablesLocked(c)
  /\ r \in Deletes(calls[c].target, calls[c].token) \ calls[c].gone
  /\ \A s \in Deletes(calls[c].target, calls[c].token) \ calls[c].gone : calls[c].snap[s].to # r
  /\ r \notin HeldByOthers(c) /\ Referring(c, r) \cap HeldByOthers(c) = {}
  /\ IF \E s \in {r} \cup Referring(c, r) : Unseen(c, s) THEN Refuse(c)
     ELSE calls' = [calls EXCEPT ![c].gone = @ \cup {r} \cup Cascaded(c, r),
                                ![c].cleared = @ \cup (Referring(c, r) \ Cascaded(c, r))]
  /\ UNCHANGED <<db, dialogs, reads, events>>

Commit(c) ==
  /\ calls[c].pc = "deleting"
  /\ Deletes(calls[c].target, calls[c].token) \subseteq calls[c].gone
  /\ db' = [r \in Records |->
       IF r \in calls[c].gone THEN Absent
       ELSE IF r \in calls[c].cleared THEN [to |-> None, version |-> db[r].version + 1] ELSE db[r]]
  /\ calls' = [calls EXCEPT ![c].pc = "done", ![c].snap = None]
  /\ UNCHANGED <<dialogs, reads, events>>

\* A deadlock, a lock timeout, a failed activity entry, a cancelled request.
Abort(c) ==
  /\ c \in Active /\ Event
  /\ Refuse(c)
  /\ UNCHANGED <<db, dialogs, reads>>

-----------------------------------------------------------------------------
(* Other people's transactions, which lock what they write and what they refer to. *)

Writable(r) == r \notin UNION {Held(c) : c \in Calls} /\ ~TablesLocked(None)

Insert(r, to) ==
  /\ ~Exists(db, r) /\ Writable(r) /\ to \in May[r] /\ Event
  /\ to # None => Exists(db, to) /\ Writable(to)
  /\ db' = [db EXCEPT ![r] = [to |-> to, version |-> events + 2]]
  /\ UNCHANGED <<dialogs, reads, calls>>

Update(r, to) ==
  /\ Exists(db, r) /\ Writable(r) /\ to \in May[r] /\ Event
  /\ to \notin {None, db[r].to} => Exists(db, to) /\ Writable(to)
  /\ db' = [db EXCEPT ![r] = [to |-> to, version |-> events + 2]]
  /\ UNCHANGED <<dialogs, reads, calls>>

-----------------------------------------------------------------------------
Init ==
  /\ db \in [Records -> {Absent} \cup [to : Records \cup {None}, version : {1}]]
  /\ \A r \in Records : Exists(db, r) =>
       db[r].to \in May[r] /\ (db[r].to # None => Exists(db, db[r].to))
  /\ dialogs = [u \in Devs |-> Closed]
  /\ reads = {}
  /\ calls = [c \in Calls |-> NoCall]
  /\ events = 0

Next ==
  \/ \E u \in Devs :
       \/ \E target \in Targets : Open(u, target)
       \/ Refresh(u) \/ Close(u)
       \/ \E c \in Calls : Remove(u, c)
  \/ \E q \in reads : ServePreview(q) \/ HearPreview(q) \/ LosePreview(q)
  \/ \E c \in Calls :
       \/ Hear(c) \/ GiveUp(c) \/ Begin(c) \/ BeginCleanup(c) \/ LockRecord(c) \/ Validate(c)
       \/ Commit(c) \/ Abort(c)
       \/ \E r \in Records : DeleteRow(c, r)
  \/ \E r \in Records, to \in Records \cup {None} : Insert(r, to) \/ Update(r, to)

Spec == Init /\ [][Next]_vars

-----------------------------------------------------------------------------
(* Properties. *)

\* The foreign keys: what a row refers to exists (entity_deletion.go:171-192).
ForeignKeys ==
  \A r \in Records : Exists(db, r) /\ db[r].to # None => Exists(db, db[r].to)

\* Type correctness.
TypeOK ==
  /\ \A r \in Records : Exists(db, r) => db[r].to \in May[r]
  /\ \A u \in Devs : dialogs[u].target \in Targets \cup {None}
  /\ \A q \in reads : q.dev \in Devs /\ q.revision = dialogs[q.dev].revision
  /\ \A c \in Calls : calls[c].gone \subseteq Records /\ calls[c].dev \in Devs \cup {None}
  /\ events \in 0 .. MaxEvents

\* A deletion takes or unlinks exactly the rows the developer was shown, in the versions
\* he was shown, whatever others wrote since (entity_deletion.go:78, "IDs and values in a
\* changed dependency invalidate consent even if its count stays equal"); a row that no
\* preview reads changes only along with the row that it refers to.
CommitTakesTheShown ==
  \A c \in Calls : Commit(c) =>
    /\ \A r \in Records : db'[r] # db[r] =>
         \/ r \in DOMAIN calls[c].token /\ calls[c].token[r] = db[r]
         \/ r \in Beyond /\ db[r].to # None /\ ~Exists(db', db[r].to)
    /\ \A r \in Deletes(calls[c].target, calls[c].token) : ~Exists(db', r)
DeletionStep == CommitTakesTheShown /\ ForeignKeys'
DeletionAsShown == [][DeletionStep]_vars

=============================================================================
