------------------------------- MODULE Feeds --------------------------------
(***************************************************************************)
(* The lists that are read page by page, newest first: the ledger of the    *)
(* company's cash (accounting-workspace.tsx), the log of actions            *)
(* (activity-history.tsx) and the inbox of notifications                    *)
(* (notifications-inbox.tsx).  Rows arrive and become visible out of order  *)
(* while pages are under way; each list has its own rules for a reload, a   *)
(* new filter and the next page.  A behaviour is one of one list.           *)
(***************************************************************************)
EXTENDS Naturals, FiniteSets, FiniteSetsExt

CONSTANTS
  Kinds,      \* the lists to look at
  Old,        \* rows there are in the beginning
  MaxItems,   \* bound on the rows
  PageSize,   \* rows of a page (fifty)
  None,
  MaxEvents   \* bound on what users and others do

Items == 1 .. MaxItems   \* a greater number is a newer row
Slots == {1, 2}          \* bound on the loads that overlap
All == 0                 \* "Прочитать все"

\* Rows as an answer, or a page, has them; and the loads.
Tagged == UNION {[S -> {"payment", "expense", "unread", "read"}] : S \in SUBSET Items}
Answers == [items : Tagged, next : Items \cup {0}, seen : SUBSET Items, badge : 0 .. MaxItems]
Calls ==
  [filter : {"all", "payment", "expense", "unread"}, before : Items \cup {0},
   served : BOOLEAN, answer : Answers]

FeedsAssumption ==
  /\ Kinds \subseteq {"ledger", "activity", "inbox"}
  /\ MaxItems \in Nat /\ Old \in 0 .. MaxItems /\ PageSize \in Nat \ {0} /\ MaxEvents \in Nat
  /\ None \notin Nat \cup {"payment", "expense", "unread", "read", "all"} \cup Calls

VARIABLES
  feed,
  tags,      \* what a row is filtered by, or None: its kind, or whether it was read
  visible,   \* rows whose transactions are over
  page,      \* the component's state
  calls,     \* loads whose answers are still awaited
  closing,   \* ledger: the filter an operation was started under, until the list is reloaded
  marking,   \* inbox: the PATCH under way
  known,     \* history: the rows visible when the list was last begun anew
  fresh,     \* history: the first page of this filter has come
  overtaken, \* history: ledger loads of older rows, asked for before the list was begun anew
  crossed,   \* history: the list has the strays or the hole that the code leaves (README.md)
  events

server == <<tags, visible>>
history == <<known, fresh, overtaken, crossed>>
list == <<page, calls, closing, marking, history>>
vars == <<feed, server, list, events>>

\* The log has two tables, the inbox hides what was read, the ledger has kinds.
Tags == IF feed = "inbox" THEN {"unread", "read"} ELSE {"payment", "expense"}
Filters == CASE feed = "ledger" -> {"all", "payment"}
             [] feed = "activity" -> {"payment", "expense"}
             [] feed = "inbox" -> {"all", "unread"}
Match(filter, tag) == filter = "all" \/ filter = tag
Unread == {i \in visible : tags[i] = "unread"}

NoCalls == [s \in Slots |-> None]
NoItems == [i \in {} |-> None]
NoAnswer == [items |-> NoItems, next |-> 0, seen |-> {}, badge |-> 0]
Call(filter, before) ==
  [filter |-> filter, before |-> before, served |-> FALSE, answer |-> NoAnswer]
Fresh(filter) == [filter |-> filter, before |-> 0, shown |-> NoItems, next |-> 0,
                  busy |-> FALSE, loading |-> TRUE, paginated |-> FALSE, badge |-> 0]
LastShown == Min(DOMAIN page.shown)

Event == events < MaxEvents /\ events' = events + 1

-----------------------------------------------------------------------------
\* The server.

Draw(tag) ==
  /\ \E i \in Items :
       /\ tags[i] = None /\ \A j \in 1 .. i - 1 : tags[j] # None
       /\ tags' = [tags EXCEPT ![i] = tag]
  /\ feed = "inbox" => tag = "unread"
  /\ UNCHANGED <<feed, visible, list, events>>

\* A row gets its number or its date before its transaction ends.
Publish(i) ==
  /\ tags[i] # None /\ i \notin visible
  /\ visible' = visible \cup {i}
  /\ UNCHANGED <<feed, tags, list, events>>

ReadElsewhere(i) ==
  /\ feed = "inbox" /\ i \in Unread /\ Event
  /\ tags' = [tags EXCEPT ![i] = "read"]
  /\ UNCHANGED <<feed, visible, list>>

\* LIMIT 51: the first fifty, and whether there are more.
Page(call) ==
  LET all   == {i \in visible : /\ Match(call.filter, tags[i])
                                /\ call.before = 0 \/ i < call.before}
      first == {i \in all : Cardinality({j \in all : j > i}) < PageSize}
  IN [items |-> [i \in first |-> tags[i]], next |-> IF first = all THEN 0 ELSE Min(first),
      seen |-> visible, badge |-> Cardinality(Unread)]

Serve(s) ==
  /\ calls[s] # None /\ ~calls[s].served
  /\ calls' = [calls EXCEPT ![s].served = TRUE, ![s].answer = Page(calls[s])]
  /\ UNCHANGED <<feed, server, page, closing, marking, history, events>>

-----------------------------------------------------------------------------
\* The loads.

\* Mutant of Dropped: a new filter or page does not disown the loads before it.
KeptCalls == calls

\* generation.current++, controller.abort(): nobody hears the loads before.
Dropped == NoCalls

\* The page asks for what is before a row, or for the newest rows.
Ask(waiting, p, filter, before) ==
  LET free == {s \in Slots : waiting[s] = None} IN
  /\ free # {}
  /\ calls' = [waiting EXCEPT ![Min(free)] = Call(filter, before)]
  /\ page' = [p EXCEPT !.busy = TRUE]

\* A refusal, a timeout, a lost connection.
Fail(s) ==
  /\ calls[s] # None /\ calls' = [calls EXCEPT ![s] = None]
  /\ page' = [page EXCEPT !.busy = FALSE, !.loading = FALSE]
  /\ overtaken' = overtaken \ {s}
  /\ UNCHANGED <<feed, server, closing, marking, known, fresh, crossed, events>>

Over(one, two) ==
  [i \in DOMAIN one \cup DOMAIN two |-> IF i \in DOMAIN one THEN one[i] ELSE two[i]]

\* An older page goes below what there is; a first page takes its place, but for an
\* inbox of several pages, where it goes above.
Merged(call) ==
  CASE call.before # 0 -> Over(page.shown, call.answer.items)
    [] call.before = 0 /\ page.paginated -> Over(call.answer.items, page.shown)
    [] OTHER -> call.answer.items

\* A first page of the ledger cuts the list back while loads of older rows go on.
\* Such a load goes below the new list, whatever lies between them; and a reload under
\* a filter that was left shows rows of that one. The next reload repairs either.
Overtake(s) ==
  LET cut == feed = "ledger" /\ calls[s].before = 0 IN
  /\ overtaken' = (IF cut THEN {t \in Slots : calls[t] # None /\ calls[t].before # 0}
                           ELSE overtaken) \ {s}
  /\ crossed' = IF cut THEN calls[s].filter # page.filter ELSE crossed \/ s \in overtaken

Hear(s) ==
  LET call   == calls[s]
      above  == call.before = 0 /\ page.paginated
  IN
  /\ call # None /\ call.served
  /\ calls' = [calls EXCEPT ![s] = None]
  /\ page' = [page EXCEPT
       !.busy = FALSE, !.loading = FALSE, !.badge = call.answer.badge,
       !.shown = Merged(call), !.next = IF above THEN @ ELSE call.answer.next,
       !.paginated = feed = "inbox" /\ (@ \/ call.before # 0)]
  /\ known' = IF call.before = 0 /\ ~above THEN call.answer.seen ELSE known
  /\ fresh' = (fresh \/ call.before = 0)
  /\ Overtake(s)
  /\ UNCHANGED <<feed, server, closing, marking, events>>

-----------------------------------------------------------------------------
\* The ledger.

\* Another filter or period, or a change of the page around it: the list is begun anew.
LedgerFilter(filter) ==
  /\ feed = "ledger" /\ Event
  /\ Ask(Dropped, Fresh(filter), filter, 0)
  /\ fresh' = FALSE /\ crossed' = FALSE /\ overtaken' = {}
  /\ UNCHANGED <<feed, server, closing, marking, known>>

LedgerMore ==
  /\ feed = "ledger" /\ page.next # 0 /\ ~page.busy
  /\ Ask(calls, page, page.filter, page.next)
  /\ UNCHANGED <<feed, server, closing, marking, history, events>>

\* changed(): the balances first, then the list, under the filter of the beginning.
OperationDone ==
  /\ feed = "ledger" /\ closing = None /\ Event
  /\ closing' = page.filter
  /\ UNCHANGED <<feed, server, page, calls, marking, history>>

ReloadLedger ==
  /\ closing # None
  /\ Ask(calls, page, closing, 0)
  /\ closing' = None
  /\ UNCHANGED <<feed, server, marking, history, events>>

-----------------------------------------------------------------------------
\* The log of actions: its load belongs to the effect of [kind, before].

\* A press of the table that is shown empties it and asks for nothing.
SelectLog(filter) ==
  /\ feed = "activity" /\ Event
  /\ IF filter = page.filter /\ page.before = 0
     THEN page' = [Fresh(filter) EXCEPT !.busy = page.busy] /\ calls' = calls
     ELSE Ask(Dropped, Fresh(filter), filter, 0)
  /\ fresh' = FALSE
  /\ UNCHANGED <<feed, server, closing, marking, known, overtaken, crossed>>

\* InfiniteSentinel: the last row is the new "before"; the same one loads nothing.
LogMore ==
  /\ feed = "activity" /\ page.next # 0 /\ ~page.loading
  /\ IF page.before = LastShown
     THEN page' = [page EXCEPT !.loading = TRUE] /\ calls' = calls
     ELSE Ask(Dropped, [page EXCEPT !.loading = TRUE, !.before = LastShown],
              page.filter, LastShown)
  /\ UNCHANGED <<feed, server, closing, marking, history, events>>

\* A message, the focus, every thirty seconds: while the first page is shown alone.
RefreshLog ==
  /\ feed = "activity" /\ page.before = 0 /\ ~page.busy
  /\ Ask(calls, page, page.filter, 0)
  /\ UNCHANGED <<feed, server, closing, marking, history, events>>

\* forceRefresh: back to the first page.
RestartLog ==
  /\ feed = "activity" /\ page.before # 0 /\ Event
  /\ Ask(Dropped, [page EXCEPT !.before = 0], page.filter, 0)
  /\ UNCHANGED <<feed, server, closing, marking, history>>

-----------------------------------------------------------------------------
\* The inbox.

\* The rows of the other filter stay until the first page of this one comes.
InboxFilter(filter) ==
  /\ feed = "inbox" /\ filter # page.filter /\ Event
  /\ Ask(Dropped, [page EXCEPT !.filter = filter, !.paginated = FALSE, !.loading = TRUE],
         filter, 0)
  /\ fresh' = FALSE /\ crossed' = FALSE
  /\ UNCHANGED <<feed, server, closing, marking, known, overtaken>>

\* Mutant of PollInbox: a refresh that is dropped during a load is not made up for.
PollOnce ==
  /\ feed = "inbox" /\ ~page.busy /\ ~fresh
  /\ Ask(calls, page, page.filter, 0)
  /\ UNCHANGED <<feed, server, closing, marking, history, events>>

\* A message, a mark, the opened bell, every minute: dropped while a load is under way.
PollInbox ==
  /\ feed = "inbox" /\ ~page.busy
  /\ Ask(calls, page, page.filter, 0)
  /\ UNCHANGED <<feed, server, closing, marking, history, events>>

InboxMore ==
  /\ feed = "inbox" /\ page.next # 0 /\ ~page.busy /\ Event
  /\ Ask(calls, page, page.filter, page.next)
  /\ crossed' = (crossed \/ ~fresh)
  /\ UNCHANGED <<feed, server, closing, marking, known, fresh, overtaken>>

\* read(): one notification, or all of them.
MarkRead(i) ==
  /\ feed = "inbox" /\ marking = None /\ Event
  /\ IF i = All THEN page.badge # 0 ELSE i \in DOMAIN page.shown
  /\ marking' = [item |-> i, stored |-> FALSE,
                 marked |-> IF i # All /\ page.shown[i] = "unread" THEN 1 ELSE 0]
  /\ UNCHANGED <<feed, server, page, calls, closing, history>>

StoreRead ==
  /\ marking # None /\ ~marking.stored
  /\ tags' = [i \in Items |-> IF i \in visible /\ marking.item \in {All, i}
                              THEN "read" ELSE tags[i]]
  /\ marking' = [marking EXCEPT !.stored = TRUE]
  /\ UNCHANGED <<feed, visible, page, calls, closing, history, events>>

HearRead ==
  /\ marking # None /\ marking.stored
  /\ marking' = None
  /\ page' = [page EXCEPT
       !.shown = [i \in DOMAIN @ |-> IF marking.item \in {All, i} THEN "read" ELSE @[i]],
       !.badge = IF marking.item = All THEN 0
                 ELSE IF @ >= marking.marked THEN @ - marking.marked ELSE 0]
  /\ UNCHANGED <<feed, server, calls, closing, history, events>>

\* The answer is lost or late; the server may have marked the rows.
FailRead ==
  /\ marking # None /\ marking' = None
  /\ UNCHANGED <<feed, server, page, calls, closing, history, events>>

-----------------------------------------------------------------------------
Init ==
  /\ feed \in Kinds
  /\ tags \in [Items -> Tags \cup {None}]
  /\ \A i \in Items : (tags[i] = None) = (i > Old)
  /\ visible = 1 .. Old
  /\ \E filter \in Filters :
       /\ page = [Fresh(filter) EXCEPT !.busy = TRUE]
       /\ calls = [NoCalls EXCEPT ![1] = Call(filter, 0)]
  /\ closing = None /\ marking = None
  /\ known = {} /\ fresh = FALSE /\ overtaken = {} /\ crossed = FALSE /\ events = 0

Next ==
  \/ \E tag \in Tags : Draw(tag)
  \/ \E i \in Items : Publish(i) \/ ReadElsewhere(i)
  \/ \E s \in Slots : Serve(s) \/ Fail(s) \/ Hear(s)
  \/ \E filter \in Filters : LedgerFilter(filter) \/ SelectLog(filter) \/ InboxFilter(filter)
  \/ LedgerMore \/ OperationDone \/ ReloadLedger
  \/ LogMore \/ RefreshLog \/ RestartLog
  \/ PollInbox \/ InboxMore
  \/ \E i \in Items \cup {All} : MarkRead(i)
  \/ StoreRead \/ HearRead \/ FailRead

Spec == Init /\ [][Next]_vars

\* A request ends, the minute's timer runs while the page is seen, and of the loads that
\* are repeated for ever not all fail.
LiveSpec ==
  /\ Spec
  /\ WF_vars(PollInbox) /\ WF_vars(StoreRead) /\ WF_vars(HearRead \/ FailRead)
  /\ \A s \in Slots : SF_vars(Serve(s)) /\ SF_vars(Hear(s))

-----------------------------------------------------------------------------
TypeOK ==
  /\ feed \in Kinds /\ tags \in [Items -> Tags \cup {None}]
  /\ visible \subseteq {i \in Items : tags[i] # None}
  /\ page.filter \in Filters /\ page.next \in Items \cup {0} /\ page.before \in Items \cup {0}
  /\ DOMAIN page.shown \subseteq visible /\ page.badge \in 0 .. MaxItems
  /\ {page.busy, page.loading, page.paginated, fresh, crossed} \subseteq BOOLEAN
  /\ overtaken \subseteq {s \in Slots : calls[s] # None}
  /\ closing \in Filters \cup {None}

\* A list shows the rows of its filter without a hole: whatever was there when it was
\* begun and is not older than its last row, or all of that when it says that there is
\* no more, however pages, reloads, filters and new rows cross; but for the lists that
\* the code is known to spoil (crossed): a ledger below which an older page lands that
\* was asked for before a reload cut it back, or that a reload under the filter left
\* before has filled; an inbox that goes on below the rows of the filter left before
\* (accounting-workspace.tsx loadLedger, activity-history.tsx load,
\* notifications-inbox.tsx loadPage).
FeedIsWhole ==
  fresh /\ ~crossed =>
    /\ feed # "inbox" => \A i \in DOMAIN page.shown : Match(page.filter, page.shown[i])
    /\ \A i \in known : Match(page.filter, tags[i]) /\ (page.next = 0 \/ i >= LastShown)
                          => i \in DOMAIN page.shown

\* When the rows no longer change, the bell counts the unread ones, whatever loads and
\* marks overtook one another (useInbox).
BadgeIsTrue == page.badge = Cardinality(Unread)
BadgeCatchesUp == feed = "inbox" => <>[]BadgeIsTrue
=============================================================================
