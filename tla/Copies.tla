------------------------------- MODULE Copies -------------------------------
(* Screens that keep a copy of something the server holds and renew it while     *)
(* the user changes it, here or elsewhere.  The copy of this behaviour is one of *)
(*   "name", "logo"  the head of every page (components/app-shell.tsx), whose    *)
(*                   first read is shared by the pages of half a minute,         *)
(*   "secrets"       the keys of the integrations                                *)
(*                   (components/integration-secrets-settings.tsx),              *)
(*   "rates"         the exchange rates (components/exchange-rate-settings.tsx), *)
(*   "money"         the month's summary (components/finance-overview.tsx),      *)
(*   "statuses"      the status catalogue (components/route-status-field.tsx,    *)
(*                   components/entity-related-records.tsx).                     *)
(* What the server holds is a version number.                                    *)
EXTENDS Naturals

CONSTANTS
  Kinds,      \* the copies of the run, of the six above
  MaxReads,   \* bound: reads
  MaxEvents,  \* bound: changes, pages and lapses of the cache
  None

CopiesAssumption ==
  /\ Kinds \subseteq {"name", "logo", "secrets", "rates", "money", "statuses"}
  /\ MaxReads \in Nat /\ MaxEvents \in Nat

VARIABLES
  kind,    \* the copy of this behaviour
  server,  \* the version the server holds
  shown,   \* the version on the screen, or None
  told,    \* what this page was last told by an own change, or the newest version read
           \* since, and the number of reads that had been asked for by then
  reads,   \* reads under way or kept by the cache: a number each, and what was read
  asked,   \* reads asked for
  save,    \* the user's own change: "no", "sent" or "done", and the version it became
  cache,   \* name, logo: the read that the next page shares, or None
  page,    \* name, logo: the read this page waits for, or None
  heard,   \* name, logo: this page has heard of an own change
  events

vars == <<kind, server, shown, told, reads, asked, save, cache, page, heard, events>>

Event == events < MaxEvents /\ events' = events + 1
NoSave == [stage |-> "no", version |-> 0]
Head == kind \in {"name", "logo"}
Asked(n) == [n |-> n, got |-> None]
Told(version) == [version |-> version, by |-> asked]
Newer(version) == IF told.version = None \/ version >= told.version THEN Told(version) ELSE told

\* Reads whose answer nobody will hear are forgotten.
Keep(S, kept, waited) == IF Head THEN {r \in S : r.n \in {kept, waited}} ELSE S

-----------------------------------------------------------------------------
\* A timer, the focus or a live message asks again.  Secrets do not while they are being
\* written, rates not while they are being read.
Refresh ==
  /\ ~Head /\ asked < MaxReads
  /\ kind = "secrets" => save = NoSave
  /\ kind = "rates" => reads = {}
  /\ asked' = asked + 1
  /\ reads' = reads \cup {Asked(asked + 1)}
  /\ UNCHANGED <<kind, server, shown, told, save, cache, page, heard, events>>

\* A page opens: it shares the read that is kept or asks for its own.
OpenPage ==
  /\ Head /\ Event
  /\ shown' = None /\ told' = [version |-> None, by |-> 0] /\ heard' = FALSE
  /\ IF cache # None
     THEN page' = cache /\ reads' = Keep(reads, cache, cache) /\ UNCHANGED <<asked, cache>>
     ELSE /\ asked < MaxReads
          /\ asked' = asked + 1 /\ cache' = asked + 1 /\ page' = asked + 1
          /\ reads' = {Asked(asked + 1)}
  /\ UNCHANGED <<kind, server, save>>

\* Half a minute is over.
Lapse ==
  /\ cache # None /\ Event
  /\ cache' = None /\ reads' = Keep(reads, None, page)
  /\ UNCHANGED <<kind, server, shown, told, asked, save, page, heard>>

\* The server answers a read.
Read(r) ==
  /\ r.got = None
  /\ reads' = (reads \ {r}) \cup {[r EXCEPT !.got = server]}
  /\ UNCHANGED <<kind, server, shown, told, asked, save, cache, page, heard, events>>

\* Which answers are used.  A read of the secrets is void once a later one or a save has
\* begun, the name once an own change was heard; nothing else is compared.
AnyRead(r) == TRUE
Current(r) ==
  CASE kind = "secrets" -> r.n = asked
    [] kind = "name" -> ~heard
    [] OTHER -> TRUE

\* The answer arrives.
Arrive(r) ==
  /\ r.got # None
  /\ Head => r.n = page
  /\ IF Current(r) THEN shown' = r.got /\ told' = Newer(r.got) ELSE UNCHANGED <<shown, told>>
  /\ page' = None
  /\ reads' = IF Head THEN Keep(reads, cache, None) ELSE reads \ {r}
  /\ UNCHANGED <<kind, server, asked, save, cache, heard, events>>

\* It does not.  A failed read of the head empties the cache, whoever filled it since.
Lose(r) ==
  /\ Head => r.n \in {page, cache}
  /\ page' = IF r.n = page THEN None ELSE page
  /\ cache' = None
  /\ reads' = Keep(reads \ {r}, None, page')
  /\ UNCHANGED <<kind, server, shown, told, asked, save, heard, events>>

\* Somebody else changes it.
Others ==
  /\ Event
  /\ server' = server + 1
  /\ UNCHANGED <<kind, shown, told, reads, asked, save, cache, page, heard>>

\* The user changes it, where this browser can: a save of the secrets makes the reads
\* before it void (the counter of its reads moves on).
Save ==
  /\ save = NoSave /\ kind \notin {"rates", "money"} /\ Event
  /\ save' = [NoSave EXCEPT !.stage = "sent"]
  /\ asked' = IF kind = "secrets" THEN asked + 1 ELSE asked
  /\ UNCHANGED <<kind, server, shown, told, reads, cache, page, heard>>

Commit ==
  /\ save.stage = "sent"
  /\ server' = server + 1 /\ save' = [stage |-> "done", version |-> server']
  /\ UNCHANGED <<kind, shown, told, reads, asked, cache, page, heard, events>>

\* Its answer is shown as it is, and every page's head hears of it.
Saved ==
  /\ save.stage = "done"
  /\ shown' = save.version /\ told' = Told(save.version)
  /\ save' = NoSave
  /\ heard' = Head
  /\ cache' = None /\ reads' = Keep(reads, None, page)
  /\ UNCHANGED <<kind, server, asked, page, events>>

\* It fails, or its answer is lost after it was carried out.
SaveFails ==
  /\ save # NoSave
  /\ save' = NoSave
  /\ UNCHANGED <<kind, server, shown, told, reads, asked, cache, page, heard, events>>

Init ==
  /\ kind \in Kinds /\ server = 0 /\ shown = None /\ told = [version |-> None, by |-> 0]
  /\ reads = {} /\ asked = 0 /\ save = NoSave /\ cache = None /\ page = None
  /\ heard = FALSE /\ events = 0

Next ==
  \/ Refresh \/ OpenPage \/ Lapse \/ Others \/ Save \/ Commit \/ Saved \/ SaveFails
  \/ \E r \in reads : Read(r) \/ Arrive(r) \/ Lose(r)

Spec == Init /\ [][Next]_vars

-----------------------------------------------------------------------------
(* A page is never put back by a read to a version older than the user's own      *)
(* change, or than a version read since: the counter of the secrets, the flag of  *)
(* the rates, the version of the head's name.  The logo, the summary and the      *)
(* catalogue have no such guard.                                                  *)
ShowsTheNewest == kind \notin {"logo", "money", "statuses"} => shown = told.version

(* Whatever puts a page back was asked for before the newer version came, or is   *)
(* the answer to the user's own change: a copy that is asked for later catches up. *)
OnlyOldAnswersGoBack ==
  (shown # None /\ shown' # None /\ shown' < shown) =>
    \/ \E r \in reads : r.got = shown' /\ r.n <= told.by
    \/ save.stage = "done" /\ shown' = save.version
=============================================================================
