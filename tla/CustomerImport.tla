--------------------------- MODULE CustomerImport ---------------------------
(* Customers are imported from a file: the server previews it, the dialog shows  *)
(* the report, and its token commits what was shown                              *)
(* (components/customer-import-dialog.tsx, app/api/customers/import/route.ts,    *)
(* cmd/api/customer_import.go).  Others add, change and delete customers, an     *)
(* answer may be lost and a request that was given up may still be carried out.  *)
EXTENDS Naturals

CONSTANTS
  Phones,     \* customers, by their phone
  Files,      \* files, each a set of phones
  MaxEvents,  \* bound: what others do, pages and lost answers
  None

ImportAssumption ==
  Files \subseteq SUBSET Phones /\ None \notin Files /\ MaxEvents \in Nat

VARIABLES
  customers,  \* each phone's customer: a version, 0 if there is none
  runs,       \* tokens that were committed
  page,       \* the dialog: file, policy, report, the call under way and its answer
  late,       \* commits given up and not yet carried out
  since,      \* history: phones that had a customer at some time since the last preview
  stamp,      \* versions given out
  events

vars == <<customers, runs, page, late, since, stamp, events>>

Event == events < MaxEvents /\ events' = events + 1
Present == {p \in Phones : customers[p] # 0}

\* A token is the digest of the file, the policy and the customers that it meets; the
\* report says which phones are new and, if the policy is so, which are changed.
Token(file, policy) == [file |-> file, policy |-> policy, met |-> [p \in file |-> customers[p]]]
Creates(token) == {p \in token.file : token.met[p] = 0}
Updates(token) == IF token.policy = "update" THEN token.file \ Creates(token) ELSE {}

\* Of a report the model also keeps whether its token had been committed before the preview.
Report(token, committed, again) == [token |-> token, committed |-> committed, again |-> again]

NewPage == [file |-> None, policy |-> "skip", report |-> None, call |-> None, answer |-> None]

-----------------------------------------------------------------------------
\* The dialog.  Nothing in it can be changed while a call is under way, and a committed
\* report leaves only itself.
Free == page.call = None /\ (page.report # None => ~page.report.committed)

ChooseFile(file) ==
  /\ Free /\ file # page.file
  /\ page' = [page EXCEPT !.file = file, !.report = None]
  /\ UNCHANGED <<customers, runs, late, stamp, events>>

ChoosePolicy(policy) ==
  /\ Free /\ policy # page.policy
  /\ page' = [page EXCEPT !.policy = policy, !.report = None]
  /\ UNCHANGED <<customers, runs, late, stamp, events>>

\* Without a report the button previews; with one that has work it commits that.
Submit ==
  /\ Free /\ page.file # None
  /\ page.report # None => Creates(page.report.token) \cup Updates(page.report.token) # {}
  /\ page' = [page EXCEPT !.call = [file |-> page.file, policy |-> page.policy, report |-> page.report]]
  /\ UNCHANGED <<customers, runs, late, stamp, events>>

\* A request that nobody waits for any more may still be carried out.
Pending == IF page.call # None /\ page.answer = None /\ page.call.report # None THEN {page.call} ELSE {}

\* No answer in a minute (half a minute between the web server and the API).
TimeOut ==
  /\ page.call # None /\ Event
  /\ page' = [page EXCEPT !.call = None, !.answer = None]
  /\ late' = late \cup Pending
  /\ UNCHANGED <<customers, runs, stamp>>

\* The page is left.
Leave ==
  /\ page # NewPage /\ Event
  /\ page' = NewPage /\ late' = late \cup Pending
  /\ UNCHANGED <<customers, runs, stamp>>

-----------------------------------------------------------------------------
\* The server: one transaction, imports one after the other.  A token that was committed
\* gives its report again; any other must still be the digest of what is met now.
AnyToken(c) == TRUE
Met(c) == c.report.token = Token(c.file, c.policy)

Written(token) == Creates(token) \cup Updates(token)
Import(token) ==
  /\ customers' = [p \in Phones |-> IF p \in Written(token) THEN stamp + 1 ELSE customers[p]]
  /\ stamp' = stamp + 1 /\ runs' = runs \cup {token}

Repeated(c) == c.report.token \in runs
Refused == [report |-> None]
Done(c) == [report |-> [c.report EXCEPT !.committed = TRUE]]

Preview ==
  /\ page.call # None /\ page.answer = None /\ page.call.report = None
  /\ LET token == Token(page.call.file, page.call.policy)
     IN  page' = [page EXCEPT !.answer = [report |-> Report(token, FALSE, token \in runs)]]
  /\ UNCHANGED <<customers, runs, late, stamp, events>>

Commit ==
  /\ page.call # None /\ page.answer = None /\ page.call.report # None
  /\ LET c == page.call IN
     \/ Repeated(c) /\ page' = [page EXCEPT !.answer = Done(c)] /\ UNCHANGED <<customers, stamp, runs>>
     \/ ~Repeated(c) /\ Met(c) /\ Import(c.report.token) /\ page' = [page EXCEPT !.answer = Done(c)]
     \/ ~Repeated(c) /\ ~Met(c) /\ page' = [page EXCEPT !.answer = Refused] /\ UNCHANGED <<customers, stamp, runs>>
  /\ UNCHANGED <<late, events>>

LateCommit(c) ==
  /\ late' = late \ {c}
  /\ IF Repeated(c) \/ ~Met(c) THEN UNCHANGED <<customers, stamp, runs>> ELSE Import(c.report.token)
  /\ UNCHANGED <<page, events>>

\* The answer: a new report, or a refusal that takes the old one away.
Hear ==
  /\ page.answer # None
  /\ page' = [page EXCEPT !.report = page.answer.report, !.call = None, !.answer = None]
  /\ UNCHANGED <<customers, runs, late, stamp, events>>

\* Others add, change or delete a customer.
Others(p) ==
  /\ Event
  /\ \/ stamp' = stamp + 1 /\ customers' = [customers EXCEPT ![p] = stamp + 1]
     \/ customers[p] # 0 /\ customers' = [customers EXCEPT ![p] = 0] /\ UNCHANGED stamp
  /\ UNCHANGED <<runs, page, late>>

Init ==
  /\ customers \in [Phones -> {0, 1}] /\ runs = {} /\ page = NewPage /\ late = {}
  /\ since = {} /\ stamp = 1 /\ events = 0

Step ==
  \/ \E file \in Files : ChooseFile(file)
  \/ \E policy \in {"skip", "update"} : ChoosePolicy(policy)
  \/ Submit \/ TimeOut \/ Leave \/ Commit \/ Hear
  \/ \E c \in late : LateCommit(c)
  \/ \E p \in Phones : Others(p)

Next ==
  \/ Step /\ since' = since \cup {p \in Phones : customers'[p] # 0}
  \/ Preview /\ since' = Present

Spec == Init /\ [][Next]_vars

-----------------------------------------------------------------------------
(* An import writes what its report said, over customers that are still what the  *)
(* report was made of: the digest compared again inside the transaction.          *)
ImportStep ==
  \A token \in runs' \ runs :
    \A p \in Phones : /\ customers'[p] # customers[p] => p \in Written(token)
                      /\ p \in token.file => token.met[p] = customers[p]

(* A committed report is of the file and the policy on the page, and everybody it *)
(* says was created has been there since it was previewed, unless its token had   *)
(* been committed before: the preview of a file whose customers were deleted has  *)
(* the token of their first import, whose report is then given again.             *)
ReportIsTrue ==
  page.report # None =>
    /\ page.report.token.file = page.file /\ page.report.token.policy = page.policy
    /\ (page.report.committed /\ ~page.report.again) => Creates(page.report.token) \subseteq since
=============================================================================
