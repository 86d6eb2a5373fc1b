----------------------------- MODULE Collection -----------------------------
(* The records of one screen (src/components/entity-data-view.tsx): the conditions     *)
(* that choose what is shown (src/lib/entity-query.ts, entity-filters.tsx,             *)
(* advanced-filter-builder.tsx), the selection and the bulk change of what is selected *)
(* (src/hooks/use-entity-selection.ts).                                                *)
(*                                                                                     *)
(* A query is a tree: a group joins its rules, which are conditions and groups.  The   *)
(* filters of old views, one value for a column, stand beside it until it is applied.  *)
EXTENDS Naturals, Sequences, FiniteSets

CONSTANTS
  Ids,           \* records of the screen
  Fields,        \* columns a condition may be about
  Values,        \* values of a column
  None,          \* a condition without a value yet, a column without an old filter
  Saved,         \* saved views: [values, query]
  MaxDepth,      \* normalizeQuery: groups below the root (3)
  MaxNodes,      \* normalizeQuery: conditions and groups (40)
  MaxConditions, \* the builder: conditions (30)
  MaxGroups,     \* bound: groups of a draft, which the builder does not limit
  MaxEvents      \* bound: what users and other people do

CollectionAssumption ==
  /\ {MaxDepth, MaxNodes, MaxConditions, MaxGroups, MaxEvents} \subseteq Nat
  /\ MaxDepth > 0 /\ None \notin Values

VARIABLES
  rows,      \* sourceItems: the loaded records and their columns
  removed,   \* removedIds
  values,    \* filters of an old view
  query,     \* queryGroup
  draft,     \* the conditions in the open dialog
  selected,
  run,       \* the bulk change that is running
  deletion,  \* the record being deleted, and the selection its handler knows
  seen,      \* history: records shown since the filters were applied
  strays,    \* history: failures, since then, of a bulk change begun under other filters
  events

vars == <<rows, removed, values, query, draft, selected, run, deletion, seen, strays, events>>

-----------------------------------------------------------------------------
(* Trees of conditions. *)

Rule(f, op, v) == [field |-> f, op |-> op, value |-> v]
Group(combinator, rules) == [combinator |-> combinator, rules |-> rules]
NoQuery == Group("and", <<>>)
IsGroup(node) == "rules" \in DOMAIN node
Members(group) == {group.rules[i] : i \in DOMAIN group.rules}

RECURSIVE Conditions(_), CountRules(_), CountNodes(_), Fits(_, _), Matches(_, _)

Conditions(group) == UNION {IF IsGroup(n) THEN Conditions(n) ELSE {n} : n \in Members(group)}

CountRules(rules) ==
  IF rules = <<>> THEN 0
  ELSE (IF IsGroup(Head(rules)) THEN CountRules(Head(rules).rules) ELSE 1) + CountRules(Tail(rules))

CountNodes(rules) ==
  IF rules = <<>> THEN 0
  ELSE 1 + (IF IsGroup(Head(rules)) THEN CountNodes(Head(rules).rules) ELSE 0)
         + CountNodes(Tail(rules))

CountQuery(group) == CountRules(group.rules)
Nodes(group) == CountNodes(group.rules)

Fits(group, depth) ==
  depth <= MaxDepth /\ \A n \in Members(group) : IsGroup(n) => Fits(n, depth + 1)

\* An unfinished condition never hides a record, an empty root neither.
Matches(node, item) ==
  IF ~IsGroup(node)
    THEN node.value = None \/ ((item[node.field] = node.value) <=> node.op = "is")
    ELSE IF node.combinator = "or" THEN \E n \in Members(node) : Matches(n, item)
                                   ELSE \A n \in Members(node) : Matches(n, item)

MatchesQuery(group, item) == group = NoQuery \/ Matches(group, item)

\* Mutant of AppendQueryRule: the condition joins an alternative instead of narrowing it.
AppendToAny(group, rule) == [group EXCEPT !.rules = Append(@, rule)]

\* A column condition narrows the whole expression, an existing OR included.
AppendQueryRule(group, rule) ==
  IF group.rules = <<>> THEN Group("and", <<rule>>)
  ELSE IF group.combinator = "and" THEN [group EXCEPT !.rules = Append(@, rule)]
  ELSE Group("and", <<group, rule>>)

MayAppend(group) == Fits(group, 0) /\ Nodes(group) <= MaxNodes

RECURSIVE RemoveColumnConditions(_, _), CleanRules(_, _, _)

RemoveColumnConditions(group, f) ==
  LET Left(n) == IF ~IsGroup(n) THEN (IF n.field = f THEN <<>> ELSE <<n>>)
                 ELSE LET nested == RemoveColumnConditions(n, f)
                      IN IF nested.rules = <<>> THEN <<>> ELSE <<nested>>
      kept[i \in 0 .. Len(group.rules)] ==
        IF i = 0 THEN <<>> ELSE kept[i - 1] \o Left(group.rules[i])
  IN [group EXCEPT !.rules = kept[Len(group.rules)]]

\* The nodes are counted in the order they are written: after the last one that is
\* allowed everything is dropped, and so is a group too deep or left empty.
CleanRules(rules, depth, count) ==
  IF rules = <<>> \/ count >= MaxNodes THEN [rules |-> <<>>, count |-> count]
  ELSE LET node == Head(rules)
           nested == IF IsGroup(node) /\ depth < MaxDepth
                       THEN CleanRules(node.rules, depth + 1, count + 1)
                       ELSE [rules |-> <<>>, count |-> count + 1]
           rest == CleanRules(Tail(rules), depth, nested.count)
           kept == IF ~IsGroup(node) THEN <<node>>
                   ELSE IF nested.rules = <<>> THEN <<>>
                   ELSE <<[node EXCEPT !.rules = nested.rules]>>
       IN [rules |-> kept \o rest.rules, count |-> rest.count]

NormalizeQuery(group) ==
  LET clean == CleanRules(group.rules, 0, 0).rules
  IN IF clean = <<>> THEN NoQuery ELSE [group EXCEPT !.rules = clean]

\* queryWithLegacyFilters: the old filters become conditions beside the query.
Legacy(filters) == {Rule(f, "is", filters[f]) : f \in {g \in Fields : filters[g] # None}}
AnyOrder(S) == CHOOSE s \in [1 .. Cardinality(S) -> S] : {s[i] : i \in DOMAIN s} = S

QueryWithLegacyFilters(filters, group) ==
  IF Legacy(filters) = {} THEN group
  ELSE Group("and", AnyOrder(Legacy(filters)) \o (IF group = NoQuery THEN <<>> ELSE <<group>>))

NoFilters == [f \in Fields |-> None]
Composed == QueryWithLegacyFilters(values, query)

-----------------------------------------------------------------------------
(* The builder. *)

RECURSIVE Complete(_), Edits(_, _, _)

Complete(group) ==
  \A n \in Members(group) : IF IsGroup(n) THEN n.rules # <<>> /\ Complete(n) ELSE n.value # None

Groups(group) == Nodes(group) - CountQuery(group)

\* A condition's column, operator or value; a new column starts it over.
Updates(rule) ==
  {Rule(f, "is", None) : f \in Fields} \cup {[rule EXCEPT !.op = op] : op \in {"is", "isNot"}}
    \cup {[rule EXCEPT !.value = v] : v \in Values}

\* Groups are offered two levels deep: the filters of an old view may add one more.
Additions(depth, total) ==
  IF total >= MaxConditions THEN {}
  ELSE {Rule(f, "is", None) : f \in Fields} \cup (IF depth < MaxDepth - 1 THEN {NoQuery} ELSE {})

\* What one press makes of a group; total counts the conditions of the whole draft.
Edits(group, depth, total) ==
  LET With(n) == [group EXCEPT !.rules = Append(@, n)]
      Without(i) == [group EXCEPT !.rules = [j \in 1 .. Len(@) - 1 |-> IF j < i THEN @[j] ELSE @[j + 1]]]
      Changed(i) == IF IsGroup(group.rules[i]) THEN Edits(group.rules[i], depth + 1, total)
                                               ELSE Updates(group.rules[i])
  IN {[group EXCEPT !.combinator = c] : c \in {"and", "or"}}
     \cup {With(n) : n \in Additions(depth, total)}
     \cup {Without(i) : i \in DOMAIN group.rules}
     \cup UNION {{[group EXCEPT !.rules[i] = n] : n \in Changed(i)} : i \in DOMAIN group.rules}

-----------------------------------------------------------------------------
(* The screen. *)

Items == [Fields -> Values]
Idle == [on |-> FALSE, left |-> {}, failed |-> {}, outdated |-> FALSE]
NoDeletion == [id |-> None, known |-> {}]

Chosen(filters, group, loaded, gone) ==
  {r \in DOMAIN loaded \ gone :
     /\ \A f \in Fields : filters[f] \in {None, loaded[r][f]}
     /\ MatchesQuery(group, loaded[r])}

Shown == Chosen(values, query, rows, removed)

\* A user acts when no dialog is open, unless he acts in it.
Free == draft = None /\ deletion.id = None
Event == events < MaxEvents /\ events' = events + 1

\* What is selected is pruned when the records change; what is shown has been seen.
Prune(S) == selected' = S \cap DOMAIN rows'
Look(before) == seen' = before \cup Chosen(values', query', rows', removed')

\* Mutant of ApplyConfig: what was selected under other filters stays selected.
ApplyAndKeep(filters, group) ==
  /\ values' = filters
  /\ query' = NormalizeQuery(group)
  /\ run' = IF run.on THEN [run EXCEPT !.outdated = TRUE] ELSE run
  /\ UNCHANGED <<rows, removed, selected, deletion>>
  /\ Look({})
  /\ strays' = {}

\* applyConfig: the configuration is normalised and the selection dropped.
ApplyConfig(filters, group) ==
  /\ values' = filters
  /\ query' = NormalizeQuery(group)
  /\ selected' = {}
  /\ run' = IF run.on THEN [run EXCEPT !.outdated = TRUE] ELSE run
  /\ UNCHANGED <<rows, removed, deletion>>
  /\ Look({})
  /\ strays' = {}

SelectView(v) ==
  /\ Free /\ Event
  /\ ApplyConfig(v.values, v.query)
  /\ UNCHANGED draft

\* The filter dialog, opened on all conditions or with one more for a column.
OpenFilters ==
  /\ Free /\ Event
  /\ draft' = Composed
  /\ UNCHANGED <<rows, removed, values, query, selected, run, deletion, seen, strays>>

OpenFiltersFor(f) ==
  /\ Free /\ Event
  /\ LET prepared == AppendQueryRule(Composed, Rule(f, "is", None))
     IN draft' = IF MayAppend(prepared) THEN prepared ELSE Composed
  /\ UNCHANGED <<rows, removed, values, query, selected, run, deletion, seen, strays>>

Edit ==
  /\ draft # None /\ Event
  /\ draft' \in {g \in Edits(draft, 0, CountQuery(draft)) \ {draft} : Groups(g) <= MaxGroups}
  /\ UNCHANGED <<rows, removed, values, query, selected, run, deletion, seen, strays>>

ResetDraft ==
  /\ draft # None /\ CountQuery(draft) > 0 /\ Event
  /\ draft' = NoQuery
  /\ UNCHANGED <<rows, removed, values, query, selected, run, deletion, seen, strays>>

ApplyDraft ==
  /\ draft # None /\ Complete(draft)
  /\ ApplyConfig(NoFilters, draft)
  /\ draft' = None
  /\ UNCHANGED events

CancelDraft ==
  /\ draft # None
  /\ draft' = None
  /\ UNCHANGED <<rows, removed, values, query, selected, run, deletion, seen, strays, events>>

\* The search of a column: refused when there is no room for the condition.
SearchColumn(f, v) ==
  /\ Free /\ Event
  /\ LET next == AppendQueryRule(Composed, Rule(f, "is", v))
     IN MayAppend(next) /\ ApplyConfig(NoFilters, next)
  /\ UNCHANGED draft

HasColumnCondition(group, f) == \E c \in Conditions(group) : c.field = f
Filtered(f) == values[f] # None \/ HasColumnCondition(query, f)

ClearColumn(f) ==
  /\ Free /\ Filtered(f) /\ Event
  /\ ApplyConfig([values EXCEPT ![f] = None], RemoveColumnConditions(query, f))
  /\ UNCHANGED draft

-----------------------------------------------------------------------------
(* Selection, bulk changes, deletion. *)

ToggleOne(r) ==
  /\ Free /\ r \in Shown /\ Event
  /\ selected' = IF r \in selected THEN selected \ {r} ELSE selected \cup {r}
  /\ UNCHANGED <<rows, removed, values, query, draft, run, deletion, seen, strays>>

ToggleAll ==
  /\ Free /\ Shown # {} /\ Event
  /\ selected' = IF Shown \subseteq selected THEN {} ELSE Shown
  /\ UNCHANGED <<rows, removed, values, query, draft, run, deletion, seen, strays>>

StartBulk ==
  /\ Free /\ ~run.on /\ selected # {} /\ Event
  /\ run' = [Idle EXCEPT !.on = TRUE, !.left = selected]
  /\ UNCHANGED <<rows, removed, values, query, draft, selected, deletion, seen, strays>>

\* The records are changed one after another; some are refused.
BulkOne(r, failed) ==
  /\ r \in run.left
  /\ run' = [run EXCEPT !.left = @ \ {r}, !.failed = IF failed THEN @ \cup {r} ELSE @]
  /\ UNCHANGED <<rows, removed, values, query, draft, selected, deletion, seen, strays, events>>

\* What failed stays selected, whatever has been selected meanwhile; the list reloads.
EndBulk ==
  /\ run.on /\ run.left = {}
  /\ UNCHANGED <<rows, removed, values, query, draft, deletion, events>>
  /\ Prune(run.failed)
  /\ strays' = IF run.outdated THEN strays \cup run.failed ELSE strays
  /\ run' = Idle
  /\ UNCHANGED seen

StartDeletion(r) ==
  /\ Free /\ r \in Shown /\ Event
  /\ deletion' = [id |-> r, known |-> selected]
  /\ UNCHANGED <<rows, removed, values, query, draft, selected, run, seen, strays>>

\* The handler filters the selection it knew when the deletion was confirmed.
EndDeletion(done) ==
  /\ deletion.id # None
  /\ removed' = IF done THEN removed \cup {deletion.id} ELSE removed
  /\ UNCHANGED <<rows, values, query, draft, run, seen, events>>
  /\ IF done THEN Prune(deletion.known \ {deletion.id}) ELSE UNCHANGED selected
  /\ UNCHANGED strays
  /\ deletion' = NoDeletion

\* The list is loaded again after other people changed, added or removed a record.
Reload(r) ==
  /\ Event
  /\ UNCHANGED <<removed, values, query, draft, run, deletion, strays>>
  /\ \/ r \in DOMAIN rows /\ rows' = [s \in DOMAIN rows \ {r} |-> rows[s]]
     \/ \E item \in Items :
          rows' = [s \in DOMAIN rows \cup {r} |-> IF s = r THEN item ELSE rows[s]]
  /\ rows' # rows
  /\ Prune(selected)
  /\ Look(seen)

-----------------------------------------------------------------------------
Init ==
  /\ rows \in [Ids -> Items]
  /\ removed = {} /\ draft = None /\ selected = {} /\ run = Idle /\ deletion = NoDeletion
  /\ \E v \in Saved : values = v.values /\ query = NormalizeQuery(v.query)
  /\ seen = Shown /\ strays = {} /\ events = 0

Next ==
  \/ \E v \in Saved : SelectView(v)
  \/ OpenFilters \/ Edit \/ ResetDraft \/ ApplyDraft \/ CancelDraft
  \/ \E f \in Fields : OpenFiltersFor(f) \/ ClearColumn(f) \/ \E v \in Values : SearchColumn(f, v)
  \/ ToggleAll \/ StartBulk \/ EndBulk
  \/ \E done \in BOOLEAN : EndDeletion(done)
  \/ \E r \in Ids :
       ToggleOne(r) \/ StartDeletion(r) \/ Reload(r) \/ \E failed \in BOOLEAN : BulkOne(r, failed)

Spec == Init /\ [][Next]_vars

-----------------------------------------------------------------------------
(* Properties. *)

\* Type correctness: what the state of the screen (entity-data-view.tsx:387-456) may be.
TypeOK ==
  /\ DOMAIN rows \subseteq Ids /\ removed \subseteq Ids
  /\ \A r \in DOMAIN rows : rows[r] \in Items
  /\ values \in [Fields -> Values \cup {None}]
  /\ MayAppend(query)
  /\ selected \subseteq DOMAIN rows
  /\ run.failed \subseteq Ids /\ run.left \subseteq Ids
  /\ deletion.id \in Ids \cup {None}
  /\ events \in 0 .. MaxEvents

\* A column's search only narrows what is shown, an OR and the filters of an old view
\* included, and takes no condition away (appendQueryRule, entity-query.ts:96-97;
\* docs/entity-views.md:86).
SearchNarrows ==
  \A f \in Fields, v \in Values : SearchColumn(f, v) =>
    /\ \A item \in Items : MatchesQuery(query', item) =>
         /\ MatchesQuery(Composed, item)
         /\ item[f] = v
    /\ Conditions(query') = Conditions(Composed) \cup {Rule(f, "is", v)}

\* Clearing a column takes every condition about it away, wherever it is nested, and no
\* other (removeColumnConditions, entity-query.ts:130-141).
ClearIsExact ==
  \A f \in Fields : ClearColumn(f) =>
    /\ ~Filtered(f)'
    /\ Conditions(Composed') = {c \in Conditions(Composed) : c.field # f}

\* What the dialog applies is what was composed in it.  The exception is a draft of more
\* nodes than normalizeQuery keeps, which the builder, counting only conditions, allows.
AppliedAsComposed ==
  ApplyDraft /\ Nodes(draft) <= MaxNodes =>
    query' = IF CountQuery(draft) = 0 THEN NoQuery ELSE draft

\* Search, clearing and applying together: the conditions that choose what is shown are
\* those the user put together.
ComposedStep == SearchNarrows /\ ClearIsExact /\ AppliedAsComposed
FiltersAsComposed == [][ComposedStep]_vars

\* Nothing is selected, and so changed in bulk, that was not shown since the filters were
\* applied, except the failures of a bulk change that outlived them
\* (entity-data-view.tsx:635, use-entity-selection.ts:32).
SelectedWereShown == selected \subseteq seen \cup strays

=============================================================================
