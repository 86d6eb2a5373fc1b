------------------------------ MODULE Searches ------------------------------
(* The search boxes that ask the server: the place picker of a route (box        *)
(* "picker", components/route-place-picker.tsx) asks when told to; the search of *)
(* the whole office ("shell", components/app-shell.tsx), its phone version       *)
(* ("dock", components/mobile-dock.tsx) and the search by a record's number      *)
(* ("numbers", components/record-number-results.tsx) ask a moment after the last *)
(* letter.  The user types on, closes, reopens and chooses while questions are   *)
(* under way, and learns his role late.                                          *)
EXTENDS Naturals

CONSTANTS
  Boxes,      \* the boxes of the run, of the four above
  Texts,      \* texts long enough to be searched for
  Short,      \* a text that is too short
  MaxEvents,  \* bound: what the user does
  None

SearchesAssumption ==
  /\ Boxes \subseteq {"picker", "shell", "dock", "numbers"}
  /\ Short \notin Texts /\ None \notin Texts \cup {Short} /\ MaxEvents \in Nat

VARIABLES
  box,      \* the box of this behaviour
  open,     \* its dialog is open
  role,     \* the role the page believes in; "owner" until the identity is read
  query,    \* the text in the field
  timer,    \* the pause before a search is running
  call,     \* the text of the question whose answer will be heard, or None
  loading,  \* the spinner
  found,    \* the text whose results are kept, or None
  error,    \* a failure is shown
  places,   \* picker: the company's own places, "no", "asked" or "kept"
  events

vars == <<box, open, role, query, timer, call, loading, found, error, places, events>>

Debounced == box # "picker"
Event == events < MaxEvents /\ events' = events + 1

\* Who may search: the two searches leave out two roles, numbers also only know office roles.
Excluded == {"driver", "accountant"}

\* The effect of the debounced boxes for the values they have next: the cleanup stops the
\* timer and aborts the question, whose answer is then ignored wherever it has got to; a
\* timer is started when there is something to ask.
Abandon == call' = None
KeepAsking == UNCHANGED call

Restart ==
  /\ Abandon
  /\ timer' = (Debounced /\ open' /\ query' \in Texts /\ role' \notin Excluded)

\* What the spinner shows after a letter: the shell forgets the accountant.
Spinner(text) ==
  CASE box = "shell" -> text \in Texts /\ role # "driver"
    [] box = "dock" -> text \in Texts /\ role \notin Excluded
    [] OTHER -> FALSE

\* The results that a letter clears; numbers keep theirs and compare the texts instead.
Cleared == found' = IF box = "numbers" THEN found ELSE None

\* The field is typed in.
Type(text) ==
  /\ open /\ text # query
  /\ Event
  /\ query' = text /\ loading' = Spinner(text) /\ error' = FALSE
  /\ UNCHANGED <<box, open, role, places>>
  /\ Cleared /\ Restart

\* The picker opens empty and asks for the company's places; the others as they were left.
Open ==
  /\ ~open
  /\ Event
  /\ open' = TRUE
  /\ IF box = "picker"
     THEN query' = Short /\ found' = None /\ error' = FALSE /\ places' = "asked"
     ELSE UNCHANGED <<query, found, error, places>>
  /\ UNCHANGED <<box, role, loading>>
  /\ Restart

\* Closed by hand or because something was chosen.  The dock forgets its text, the shell
\* keeps it with its results, and a window that grows closes the dock without clearing it.
Close(cleared) ==
  /\ open
  /\ box # "dock" => ~cleared
  /\ Event
  /\ open' = FALSE
  /\ IF cleared THEN query' = Short /\ found' = None /\ error' = FALSE ELSE UNCHANGED <<query, found, error>>
  /\ loading' = (loading /\ ~cleared /\ box # "picker")
  /\ places' = IF places = "asked" THEN "no" ELSE places
  /\ UNCHANGED <<box, role>>
  /\ Restart

\* The identity arrives after the page.
LearnRole(r) ==
  /\ role = "owner" /\ r # role /\ box # "picker"
  /\ Event
  /\ role' = r /\ UNCHANGED <<box, open, query, loading, found, error, places>>
  /\ Restart

\* The picker asks when told to, one question at a time.
Search ==
  /\ box = "picker" /\ open /\ ~loading /\ query \in Texts
  /\ Event
  /\ call' = query /\ loading' = TRUE /\ error' = FALSE /\ found' = None
  /\ UNCHANGED <<box, open, role, query, timer, places>>

\* The pause is over.
Ask ==
  /\ timer
  /\ timer' = FALSE /\ call' = query
  /\ loading' = (loading \/ box = "shell")
  /\ error' = (error /\ box # "shell")
  /\ UNCHANGED <<box, open, role, query, found, places, events>>

\* Both halves of the answer are good (customers and bookings; one list elsewhere).
Answer ==
  /\ call # None
  /\ found' = call /\ call' = None /\ loading' = FALSE /\ error' = FALSE
  /\ UNCHANGED <<box, open, role, query, timer, places, events>>

\* Nothing or only one half is: the shell keeps the good half beside its error.
Fail ==
  /\ call # None
  /\ \/ found' = None
     \/ box = "shell" /\ found' = call
  /\ call' = None /\ loading' = FALSE /\ error' = TRUE
  /\ UNCHANGED <<box, open, role, query, timer, places, events>>

\* The company's places arrive, or do not; the failure shares the line of the search's.
Places ==
  /\ places = "asked"
  /\ \/ places' = "kept" /\ UNCHANGED error
     \/ places' = "no" /\ error' = TRUE
  /\ UNCHANGED <<box, open, role, query, timer, call, loading, found, events>>

Init ==
  /\ box \in Boxes /\ open = FALSE /\ role = "owner" /\ query = Short
  /\ timer = FALSE /\ call = None /\ loading = FALSE /\ found = None /\ error = FALSE
  /\ places = "no" /\ events = 0

Next ==
  \/ \E text \in Texts \cup {Short} : Type(text)
  \/ \E cleared \in BOOLEAN : Close(cleared)
  \/ \E r \in {"dispatcher", "driver", "accountant"} : LearnRole(r)
  \/ Open \/ Search \/ Ask \/ Answer \/ Fail \/ Places

Spec == Init /\ [][Next]_vars

-----------------------------------------------------------------------------
\* What the user sees as results: numbers show theirs only for the text they answer.
Shown == open /\ found # None /\ (box = "numbers" => found = query)

(* While a box is open, the results in it answer the text in it, a spinner means  *)
(* that the answer to that text is on its way, and a text that may be searched    *)
(* for is being searched, or found, or its failure is shown: the version counter  *)
(* of the picker, the abort of the effects and the comparison of the texts.  An   *)
(* accountant or a driver who is found out while he waits is not covered: the     *)
(* code leaves his spinner turning.                                               *)
AnswersTheQuestion ==
  open =>
    /\ Shown => found = query
    /\ call # None => call = query
    /\ (loading /\ role \notin Excluded) => timer \/ call = query
    /\ (Debounced /\ query \in Texts /\ role \notin Excluded) =>
         timer \/ call = query \/ found = query \/ error
=============================================================================
