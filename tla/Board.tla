------------------------------- MODULE Board -------------------------------
(***************************************************************************)
(* The kanban board of a list screen (kanban-3.tsx, lib/kanban.ts) and the *)
(* hand-made order of its cards, which belongs to the draft of the view    *)
(* (entity-data-view.tsx). A card is moved by pointer or by keys; a move   *)
(* to another column is shown at once and asked of the API, and returns    *)
(* when it is refused. Meanwhile other cards move, a filter hides some of  *)
(* them, and a load of the list brings others.                             *)
(***************************************************************************)
EXTENDS Naturals, Sequences, SequencesExt, FiniteSets

CONSTANTS
  Cards,      \* 1 .. n; the list has them in their order
  Columns,    \* the statuses
  Steps,      \* pairs of statuses: the moves that the workflow allows
  None,
  MaxEvents   \* bound on the cards taken, loads, filters and the sorting

BoardAssumption ==
  /\ IsFiniteSet(Cards) /\ Cards = 1 .. Cardinality(Cards)
  /\ Steps \subseteq Columns \X Columns
  /\ None \notin Columns /\ None \notin Cards
  /\ MaxEvents \in Nat

VARIABLES
  rows,       \* status of each card in the loaded list, or None
  hidden,     \* cards that a filter or a hidden column keeps from the board
  cardOrder,  \* board.cardOrder of the draft
  sorted,     \* the list is sorted by a column (here: backwards)
  moves,      \* the move of each card that waits for its answer
  drag,       \* the card under the pointer
  grab,       \* the card that the arrow keys carry
  events

vars == <<rows, hidden, cardOrder, sorted, moves, drag, grab, events>>

-----------------------------------------------------------------------------
\* lib/kanban.ts

Without(order, c) == SelectSeq(order, LAMBDA d : d # c)
Place(order, c) == CHOOSE i \in DOMAIN order : order[i] = c

MergeCardOrder(order, ids) ==
  SelectSeq(order, LAMBDA c : c \in ToSet(ids))
    \o SelectSeq(ids, LAMBDA c : c \notin ToSet(order))

\* c becomes the member number "index" (from 0) of those in S.
PlaceKanbanCard(order, c, S, index) ==
  LET next == Without(order, c)
      members == SelectSeq(next, LAMBDA d : d \in S)
  IN  CASE index < Len(members) -> InsertAt(next, Place(next, members[index + 1]), c)
        [] index >= Len(members) /\ members # <<>> ->
             InsertAt(next, Place(next, Last(members)) + 1, c)
        [] OTHER -> Append(next, c)

\* Mutant of MergeVisibleCardOrder: the visible cards come first.
VisibleFirst(previous, visible) ==
  visible \o SelectSeq(previous, LAMBDA c : c \notin ToSet(visible))

\* Cards that are not visible keep their places.
MergeVisibleCardOrder(previous, visible) ==
  LET shown(n) == {i \in 1 .. n : previous[i] \in ToSet(visible)}
  IN  [i \in DOMAIN previous |->
         IF i \in shown(i) THEN visible[Cardinality(shown(i))] ELSE previous[i]]
      \o SubSeq(visible, Cardinality(shown(Len(previous))) + 1, Len(visible))

\* c returns before the card that followed it, or after the one that it followed.
RestoreKanbanCard(order, c, previous) ==
  LET next == Without(order, c)
      at == Place(previous, c)
      after == SelectSeq(SubSeq(previous, at + 1, Len(previous)), LAMBDA d : d \in ToSet(next))
      before == SelectSeq(SubSeq(previous, 1, at - 1), LAMBDA d : d \in ToSet(next))
  IN  CASE after # <<>> -> InsertAt(next, Place(next, Head(after)), c)
        [] after = <<>> /\ before # <<>> -> InsertAt(next, Place(next, Last(before)) + 1, c)
        [] OTHER -> <<c>> \o next

-----------------------------------------------------------------------------
\* The board.

Ids(S) == SelectSeq([c \in Cards |-> c], LAMBDA c : c \in S)
Loaded == {c \in Cards : rows[c] # None}
Items == Loaded \ hidden

Order == IF sorted THEN Reverse(Ids(Items)) ELSE MergeCardOrder(cardOrder, Ids(Items))

\* A move that waits shows its target, unless the list has another status by now.
GroupOf(c) ==
  IF moves[c] # None /\ moves[c].from = rows[c] THEN moves[c].to ELSE rows[c]

Members(g) == {c \in Items : GroupOf(c) = g}

Movable(c) == moves[c] = None /\ \E g \in Columns : <<rows[c], g>> \in Steps
Allowed(c, g) == g = GroupOf(c) \/ <<rows[c], g>> \in Steps

\* onOrderChange: the order goes to the draft; that of the list itself is not kept.
OnOrderChange(next) ==
  LET merged == MergeVisibleCardOrder(cardOrder, next)
  IN  /\ cardOrder' = IF merged = Ids(Loaded) THEN <<>> ELSE merged
      /\ sorted' = FALSE

\* History ("calm"): has something else changed the board since the card was taken?
Stirred(m) == [c \in Cards |-> IF m[c] = None THEN None ELSE [m[c] EXCEPT !.calm = FALSE]]

Refused(c, origin, g) == c \notin Items \/ moves[c] # None \/ ~Allowed(c, g)

\* commit() until onMove has sent the request. Some lists show the new status at once.
Commit(c, origin, g, next, previous) ==
  \/ /\ Refused(c, origin, g)
     /\ UNCHANGED <<rows, cardOrder, sorted, moves>>
  \/ /\ ~Refused(c, origin, g) /\ g = origin
     /\ OnOrderChange(next)
     /\ moves' = Stirred(moves) /\ UNCHANGED rows
  \/ /\ ~Refused(c, origin, g) /\ g # origin
     /\ OnOrderChange(next)
     /\ \E first \in BOOLEAN :
          /\ rows' = IF first THEN [rows EXCEPT ![c] = g] ELSE rows
          /\ moves' = [Stirred(moves) EXCEPT ![c] =
               [from |-> rows[c], to |-> g, previous |-> previous, first |-> first,
                calm |-> (previous = Order)]]

Event == events < MaxEvents /\ events' = events + 1

-----------------------------------------------------------------------------
\* The pointer.

Begin(c) ==
  /\ drag = None /\ grab = None /\ c \in Items /\ Movable(c)
  /\ Event
  /\ drag' = [card |-> c, origin |-> GroupOf(c), previous |-> Order]
  /\ UNCHANGED <<rows, hidden, cardOrder, sorted, moves, grab>>

Drop(g, index) ==
  /\ drag # None /\ drag.card \in Items /\ Allowed(drag.card, g)
  /\ index <= Cardinality(Members(g) \ {drag.card})
  /\ Commit(drag.card, drag.origin, g,
            PlaceKanbanCard(Order, drag.card, Members(g), index), drag.previous)
  /\ drag' = None
  /\ UNCHANGED <<hidden, grab, events>>

CancelDrag ==
  /\ drag # None /\ drag' = None
  /\ UNCHANGED <<rows, hidden, cardOrder, sorted, moves, grab, events>>

-----------------------------------------------------------------------------
\* The keys. The order that they change is the one of the beginning.

Grab(c) ==
  /\ c \in Items /\ Movable(c) /\ Event
  /\ grab # None => grab.card # c
  /\ grab' = [card |-> c, origin |-> GroupOf(c), group |-> GroupOf(c),
              previous |-> Order, order |-> Order]
  /\ UNCHANGED <<rows, hidden, cardOrder, sorted, moves, drag>>

Held == grab # None /\ grab.card \in Items /\ Movable(grab.card)

\* The column that the arrow keys carry it to, and its place there. A card that the
\* list has lost meanwhile is in no column.
Carry(g, index) ==
  Held /\
  LET in == {c \in Items \ {grab.card} : GroupOf(c) = g} IN
  /\ Allowed(grab.card, g)
  /\ index <= Cardinality(in \cap ToSet(grab.order))
  /\ g # grab.group => index = Cardinality(in \cap ToSet(grab.order))
  /\ grab' = [grab EXCEPT !.group = g, !.order = PlaceKanbanCard(@, grab.card, in, index)]
  /\ UNCHANGED <<rows, hidden, cardOrder, sorted, moves, drag, events>>

PutDown ==
  /\ Held /\ grab' = None
  /\ Commit(grab.card, grab.origin, grab.group, grab.order, grab.previous)
  /\ UNCHANGED <<hidden, drag, events>>

Escape ==
  /\ Held /\ grab' = None
  /\ UNCHANGED <<rows, hidden, cardOrder, sorted, moves, drag, events>>

-----------------------------------------------------------------------------
\* The answers.

Accept(c) ==
  /\ moves[c] # None
  /\ rows' = IF rows[c] = None THEN rows ELSE [rows EXCEPT ![c] = moves[c].to]
  /\ moves' = [Stirred(moves) EXCEPT ![c] = None]
  /\ UNCHANGED <<hidden, cardOrder, sorted, drag, grab, events>>

\* The API refuses, the request fails, or its confirmation is declined.
Refuse(c) ==
  /\ moves[c] # None
  /\ rows' = IF moves[c].first /\ rows[c] = moves[c].to
             THEN [rows EXCEPT ![c] = moves[c].from] ELSE rows
  /\ OnOrderChange(RestoreKanbanCard(Order, c, moves[c].previous))
  /\ moves' = [Stirred(moves) EXCEPT ![c] = None]
  /\ UNCHANGED <<hidden, drag, grab, events>>

-----------------------------------------------------------------------------
\* The list.

Change ==
  /\ Event
  /\ moves' = Stirred(moves)
  /\ UNCHANGED <<cardOrder, drag, grab>>

\* A load brings another status of a card, a new card, or one card less.
Reload(c, g) ==
  /\ Change /\ g # rows[c]
  /\ rows' = [rows EXCEPT ![c] = g]
  /\ UNCHANGED <<hidden, sorted>>

Filter(c) ==
  /\ Change
  /\ hidden' = IF c \in hidden THEN hidden \ {c} ELSE hidden \cup {c}
  /\ UNCHANGED <<rows, sorted>>

SetSort ==
  /\ Change
  /\ sorted' = ~sorted
  /\ UNCHANGED <<rows, hidden>>

Init ==
  /\ rows \in [Cards -> Columns]
  /\ hidden = {} /\ cardOrder = <<>> /\ sorted = FALSE
  /\ moves = [c \in Cards |-> None]
  /\ drag = None /\ grab = None /\ events = 0

Next ==
  \/ \E c \in Cards : Begin(c) \/ Grab(c) \/ Accept(c) \/ Refuse(c) \/ Filter(c)
  \/ \E g \in Columns, index \in 0 .. Cardinality(Cards) : Drop(g, index) \/ Carry(g, index)
  \/ \E c \in Cards, g \in Columns \cup {None} : Reload(c, g)
  \/ CancelDrag \/ PutDown \/ Escape \/ SetSort

Spec == Init /\ [][Next]_vars

-----------------------------------------------------------------------------
\* The variables have their types; an order names no card twice.
TypeOK ==
  /\ rows \in [Cards -> Columns \cup {None}]
  /\ hidden \subseteq Cards /\ sorted \in BOOLEAN
  /\ ToSet(cardOrder) \subseteq Cards /\ IsInjective(cardOrder)
  /\ \A c \in Cards : moves[c] # None =>
       /\ {moves[c].from, moves[c].to} \subseteq Columns
       /\ c \in ToSet(moves[c].previous) /\ IsInjective(moves[c].previous)

Before(order, c, d) ==
  c \in ToSet(order) /\ d \in ToSet(order) /\ Place(order, c) < Place(order, d)

SameOrder(S, one, two) == \A c, d \in S : Before(one, c, d) <=> Before(two, c, d)

\* After a refusal only the failed move returns (docs/entity-views.md): the other cards
\* of the board stay in their order, however they were moved, sorted and filtered since,
\* and if nothing else happened the board is the one before the move.
OnlyTheMoveReturns ==
  \A c \in Cards : moves[c] # None /\ Refuse(c) =>
    /\ SameOrder(Items \ {c}, Order, Order')
    /\ moves[c].calm => Order' = moves[c].previous /\ GroupOf(c)' = moves[c].from

\* Hidden cards that this step neither moves nor returns.
Apart == {c \in hidden \cap hidden' : (moves[c] = None) = (moves'[c] = None)}

\* A rearrangement under a filter leaves the hidden cards of a hand-made order at their
\* places (mergeVisibleCardOrder). The keys are excepted: they put back the order that
\* they began with, and with it cards that were hidden since.
HiddenKeepPlaces ==
  cardOrder' # <<>> /\ grab' = grab =>
    \A c \in Apart \cap ToSet(cardOrder) : Place(cardOrder', c) = Place(cardOrder, c)

\* What docs/entity-views.md promises of the board's order: refusals return one card, and
\* cards hidden by a filter keep their places.
BoardStep == OnlyTheMoveReturns /\ HiddenKeepPlaces
BoardIsKept == [][BoardStep]_vars
=============================================================================
