--------------------------- MODULE CashDeskProofs ---------------------------
(***************************************************************************)
(* Theorems of CashDesk for any pages, drivers, bookings, amounts, rates   *)
(* and any number of requests.                                             *)
(*   CashTypeCorrect     the books, locks, requests and pages stay typed;  *)
(*   NobodyOverdraws     no balance becomes negative;                      *)
(*   HandoversSettled    a handover's money moves when it is accepted;     *)
(*   AnswersAreTrue      what a page was told is in the books.             *)
(* They follow from CashInvariant: what a transaction has checked under    *)
(* its locks is still so when it commits, because whatever could take it   *)
(* away needs a lock that the transaction holds.                           *)
(***************************************************************************)
EXTENDS CashDesk, TLAPS

-----------------------------------------------------------------------------
\* Arithmetic of the payroll.

\* Rates are shares of ten thousand.
Share == {n \in Nat : n <= 10000}

\* A share of at most a whole never rounds to more than the whole.
LEMMA RoundWithin ==
  \A gross \in Nat, share \in Share : Round(gross, share) \in 0..gross
<1> SUFFICES ASSUME NEW gross \in Nat, NEW share \in Share
             PROVE  Round(gross, share) \in 0..gross
  OBVIOUS
<1> DEFINE x == gross * share
<1>0. share \in Nat /\ share <= 10000
  BY DEF Share
<1>1. x \in Nat /\ x <= gross * 10000
  BY SMTT(30), <1>0
<1>2. (x + 5000) \div 10000 \in 0..gross
  <2> HIDE DEF x
  <2> QED BY SMTT(30), <1>1
<1> QED
  BY <1>2 DEF Round

\* What is withheld is never negative and leaves the driver no debt (calculatePayroll).
LEMMA WithheldWithin ==
  \A gross \in Nat, rate \in Rates :
    /\ Withheld(gross, rate) \in [Kinds -> Nat]
    /\ Withheld(gross, rate)["income"] + Withheld(gross, rate)["levy"] <= gross
<1> SUFFICES ASSUME NEW gross \in Nat, NEW rate \in Rates
             PROVE  /\ Withheld(gross, rate) \in [Kinds -> Nat]
                    /\ Withheld(gross, rate)["income"] + Withheld(gross, rate)["levy"] <= gross
  OBVIOUS
<1>1. rate["income"] \in Nat /\ rate["levy"] \in Nat /\ rate["income"] + rate["levy"] <= 10000
  BY RatesAssumption DEF Kinds
<1>2. PICK i \in Nat, l \in Nat : i = rate["income"] /\ l = rate["levy"]
  BY <1>1
<1>3. rate["income"] \in Share /\ rate["levy"] \in Share
  <2>1. rate["income"] + rate["levy"] = i + l
    BY <1>2
  <2>2. i + l <= 10000
    BY <1>1, <2>1
  <2>3. i \in Share /\ l \in Share
    BY <2>2 DEF Share
  <2> QED
    BY <1>2, <2>3
<1> DEFINE income == Round(gross, rate["income"])
           levy == Round(gross, rate["levy"])
           parts == [k \in Kinds |-> IF k = "income" THEN income
                      ELSE IF income + levy > gross THEN gross - income ELSE levy]
<1>4. income \in 0..gross /\ levy \in 0..gross
  BY <1>3, RoundWithin, Zenon
<1>5. Withheld(gross, rate) = parts
  BY DEF Withheld
<1>6. parts \in [Kinds -> Nat] /\ parts["income"] + parts["levy"] <= gross
  <2> HIDE DEF income, levy
  <2> QED
    BY <1>4 DEF Kinds
<1> HIDE DEF parts
<1> QED
  BY <1>5, <1>6

-----------------------------------------------------------------------------
\* Types of the actions.

\* An unused request is well formed.
LEMMA BlankTyped == Blank \in Request /\ Blank.answer = None /\ Blank.pc = "none"
BY DEF Blank, Request

\* Initially everything is typed.
LEMMA CashTypeInit == Init => TypeOK
<1> SUFFICES ASSUME Init PROVE TypeOK
  OBVIOUS
<1>1. Opening \in Nat /\ 0 \in Ids \cup {0}
  BY BoundsAssumption
<1>2. Idle \in Desk
  BY DEF Idle, Desk
<1> QED
  BY <1>1, <1>2, BlankTyped DEF Init, TypeOK

\* An answer keeps types, and changes only the request and its locks.
LEMMA ReplyTyped ==
  ASSUME TypeOK, NEW r \in Ids, NEW answer \in {"done", "error"}, Reply(r, answer)
  PROVE  /\ requests' \in [Ids -> Request] /\ company' \in Ids \cup {0}
         /\ locks' \in [Drivers -> Ids \cup {0}]
         /\ \A s \in Ids \ {r} : requests'[s] = requests[s]
         /\ requests'[r].pc = "answered" /\ requests'[r].answer = answer
         /\ answer = "done" => requests'[r] = [requests[r] EXCEPT !.pc = "answered", !.answer = "done"]
         /\ \A s \in Ids \ {r} : company = s => company' = s
         /\ \A s \in Ids \ {r}, d \in Drivers : locks[d] = s => locks'[d] = s
<1>1. requests[r] \in Request /\ requests \in [Ids -> Request]
  BY DEF TypeOK
<1> DEFINE new == IF answer = "done" THEN [requests[r] EXCEPT !.pc = "answered", !.answer = "done"]
                  ELSE [Blank EXCEPT !.pc = "answered", !.answer = "error"]
<1>2. new \in Request /\ new.pc = "answered" /\ new.answer = answer
  <2>1. CASE answer = "done"
    BY <1>1, <2>1 DEF Request
  <2>2. CASE answer = "error"
    BY <2>2, BlankTyped DEF Request
  <2> QED BY <2>1, <2>2
<1>3. requests' = [requests EXCEPT ![r] = new]
  BY <1>1 DEF Reply
<1>4. /\ company' = IF company = r THEN 0 ELSE company
      /\ locks' = [d \in Drivers |-> IF locks[d] = r THEN 0 ELSE locks[d]]
  BY DEF Reply
<1>5. company \in Ids \cup {0} /\ locks \in [Drivers -> Ids \cup {0}]
  BY DEF TypeOK
<1>6. answer = "done" => new = [requests[r] EXCEPT !.pc = "answered", !.answer = "done"]
  OBVIOUS
<1> HIDE DEF new
<1>7. requests' \in [Ids -> Request] /\ requests'[r] = new
      /\ \A s \in Ids \ {r} : requests'[s] = requests[s]
  BY <1>1, <1>2, <1>3
<1>8. company' \in Ids \cup {0} /\ locks' \in [Drivers -> Ids \cup {0}]
  BY <1>4, <1>5
<1>9. /\ \A s \in Ids \ {r} : company = s => company' = s
      /\ \A s \in Ids \ {r}, d \in Drivers : locks[d] = s => locks'[d] = s
  BY <1>4, <1>5
<1> QED
  BY <1>2, <1>6, <1>7, <1>8, <1>9

-----------------------------------------------------------------------------
\* The invariant, request by request.

\* What the answer "done" of request r means (the body of AnswerIsTrue).
Told(r) ==
  LET b == requests[r].body IN
  /\ Keyed(b) => written[requests[r].key] = b
  /\ Resolving(b) => handovers[b.item].status = Target(b.action)
  /\ b.action = "take" => received[b.item] >= b.amount

InOrder(r) ==
  /\ Working(r) \/ requests[r].answer = "done" => Proper(r)
  /\ requests[r].pc \in {"company", "driver", "covered"} /\ LocksCompany(r) => company = r
  /\ requests[r].pc \in {"driver", "covered"} /\ DriverOf(r) # None => locks[DriverOf(r)] = r
  /\ requests[r].pc \in {"driver", "covered"} => Recall(r) = "new"
  /\ requests[r].pc = "covered" => Covered(r)
  /\ requests[r].answer = "done" => Told(r)

BooksInOrder == HandoversWritten /\ CashCovered /\ HandoversSettleOnce

\* The invariant, request by request.
LEMMA InvariantByRequest ==
  CashInvariant <=> TypeOK /\ DialogsInOrder /\ BooksInOrder /\ \A r \in Ids : InOrder(r)
BY DEF CashInvariant, BooksInOrder, InOrder, RequestsInOrder, CompanyHeld, DriversHeld,
       StillNew, StillCovered, AnswerIsTrue, Told

\* Which driver it is, operation by operation.
LEMMA DriverCases ==
  ASSUME NEW r \in Ids
  PROVE  LET b == requests[r].body IN
         /\ Resolving(b) => DriverOf(r) = handovers[b.item].driver
         /\ b.action = "take" => DriverOf(r) = Carrier[b.item]
         /\ ~Resolving(b) /\ b.action # "take" => DriverOf(r) = b.driver
<1>1. requests[r].body.action = "take" => ~Resolving(requests[r].body)
  BY DEF Resolving, Resolutions
<1> QED
  BY <1>1 DEF DriverOf

\* A transaction goes on when its request is new and its handover still open.
LEMMA RecallCases ==
  ASSUME NEW r \in Ids
  PROVE  LET b == requests[r].body  k == requests[r].key IN
         /\ Recall(r) = "new" <=> /\ Keyed(b) => written[k] = None
                                  /\ Resolving(b) => handovers[b.item].status = "pending"
         /\ Recall(r) = "done" => /\ Keyed(b) => written[k] = b
                                  /\ Resolving(b) => handovers[b.item].status = Target(b.action)
                                  /\ b.action # "take"
         /\ Recall(r) \in {"new", "done", "error"}
<1>1. ~(Keyed(requests[r].body) /\ Resolving(requests[r].body))
  BY DEF Keyed
<1>2. Keyed(requests[r].body) \/ Resolving(requests[r].body) => requests[r].body.action # "take"
  BY DEF Keyed, Resolving, Resolutions
<1>3. CASE Known(r)
  <2>1. Recall(r) = IF Repeated(r) THEN "done" ELSE "error"
    BY <1>3 DEF Recall, Verdict
  <2> QED
    BY <1>1, <1>2, <1>3, <2>1 DEF Known, Repeated
<1>4. CASE ~Known(r) /\ Settled(r)
  <2>1. Recall(r) = IF Agreed(r) THEN "done" ELSE "error"
    BY <1>4 DEF Recall, Verdict
  <2> QED
    BY <1>1, <1>2, <1>4, <2>1 DEF Settled, Agreed
<1>5. CASE ~Known(r) /\ ~Settled(r)
  <2>1. Recall(r) = "new"
    BY <1>5 DEF Recall
  <2> QED
    BY <1>5, <2>1 DEF Known, Settled
<1> QED
  BY <1>3, <1>4, <1>5

\* The driver whose row is locked is a driver, if there is one.
LEMMA DriverTyped ==
  ASSUME TypeOK, NEW r \in Ids, Proper(r)
  PROVE  DriverOf(r) \in Drivers \cup {None}
<1>1. CASE Resolving(requests[r].body)
  <2>1. requests[r].body.item \in Keys /\ handovers[requests[r].body.item] # None
    BY <1>1 DEF Proper
  <2>2. handovers[requests[r].body.item] \in Handover
    BY <2>1 DEF TypeOK
  <2> QED
    BY <1>1, <2>2, DriverCases DEF Handover
<1>2. CASE requests[r].body.action = "take"
  BY <1>2, DriverCases, DesksAssumption DEF Proper
<1>3. CASE requests[r].body.action # "take" /\ ~Resolving(requests[r].body)
  BY <1>3, DriverCases DEF Proper, Body
<1> QED
  BY <1>1, <1>2, <1>3

\* A request stays in order when neither it nor the books nor its locks change.
LEMMA OthersStay ==
  ASSUME TypeOK, NEW s \in Ids, InOrder(s), requests'[s] = requests[s], UNCHANGED books,
         company = s => company' = s,
         \A d \in Drivers : locks[d] = s => locks'[d] = s
  PROVE  InOrder(s)'
<1>1. /\ Working(s)' <=> Working(s)
      /\ Proper(s)' <=> Proper(s)
      /\ LocksCompany(s)' <=> LocksCompany(s)
      /\ DriverOf(s)' = DriverOf(s)
      /\ Recall(s)' = Recall(s)
      /\ Covered(s)' <=> Covered(s)
      /\ Told(s)' <=> Told(s)
  BY DEF books, Working, Proper, LocksCompany, DriverOf, Recall, Known, Settled, Repeated, Agreed,
         Covered, Told, TakesTill,
         TakesCash, AmountOf, Giver
<1>2. requests[s].pc \in {"driver", "covered"} /\ DriverOf(s) # None
        => locks'[DriverOf(s)] = s
  BY DriverTyped DEF InOrder, Working
<1> QED
  BY <1>1, <1>2 DEF InOrder

\* The books stay in order when nobody writes them.
LEMMA BooksStay ==
  ASSUME BooksInOrder, UNCHANGED books
  PROVE  BooksInOrder'
BY DEF books, BooksInOrder, HandoversWritten, CashCovered, HandoversSettleOnce

-----------------------------------------------------------------------------
\* The pages.

\* The pages touch neither the books nor the requests under way.
LEMMA PagesTyped ==
  ASSUME TypeOK, DialogsInOrder, NEW c \in Desks,
         \/ \E b \in Orders : Open(c, b) \/ OpenPayment(c, b) \/ Edit(c, b)
         \/ Cancel(c) \/ Hear(c) \/ Reloaded(c) \/ GiveUp(c)
  PROVE  /\ UNCHANGED <<server, requests>>
         /\ desks' \in [Desks -> Desk] /\ used' \subseteq Keys
         /\ DialogsInOrder'
<1>1. desks \in [Desks -> Desk] /\ used \subseteq Keys /\ 0 \in Ids \cup {0}
  BY DEF TypeOK
<1>2. ASSUME NEW b \in Orders, Open(c, b)
      PROVE  /\ UNCHANGED <<server, requests>>
             /\ desks' \in [Desks -> Desk] /\ used' \subseteq Keys
             /\ DialogsInOrder'
  <2>1. Fresh \in Keys
    BY <1>1, <1>2 DEF Open, Fresh
  <2>2. desks' = [desks EXCEPT ![c].form = b, ![c].key = Fresh] /\ Offered(c, b)
    BY <1>2 DEF Open
  <2>3. [desks[c] EXCEPT !.form = b, !.key = Fresh] \in Desk
    BY <1>1, <2>1 DEF Desk
  <2>4. desks' \in [Desks -> Desk] /\ \A e \in Desks \ {c} : desks'[e] = desks[e]
        /\ desks'[c].form = b /\ desks'[c].key = Fresh
    BY <1>1, <2>2, <2>3 DEF Desk
  <2>5. DialogsInOrder'
    BY <2>1, <2>2, <2>4 DEF DialogsInOrder, Offered
  <2> QED
    BY <1>1, <1>2, <2>1, <2>4, <2>5 DEF Open
<1>3. ASSUME NEW b \in Orders, OpenPayment(c, b) \/ Edit(c, b)
      PROVE  /\ UNCHANGED <<server, requests>>
             /\ desks' \in [Desks -> Desk] /\ used' \subseteq Keys
             /\ DialogsInOrder'
  <2>1. /\ UNCHANGED <<server, requests, used>> /\ Offered(c, b)
        /\ \/ b.action = "take"
           \/ desks[c].form # None /\ desks[c].form.action = b.action
    BY <1>3 DEF OpenPayment, Edit
  <2>2. /\ desks' \in [Desks -> Desk] /\ \A e \in Desks \ {c} : desks'[e] = desks[e]
        /\ desks'[c].form = b
        /\ b.action # "take" => desks'[c].key = desks[c].key
    <3>1. CASE OpenPayment(c, b)
      BY ZenonT(60), <1>1, <3>1 DEF OpenPayment, Desk
    <3>2. CASE Edit(c, b)
      BY <1>1, <3>2 DEF Edit, Desk
    <3> QED
      BY <1>3, <3>1, <3>2
  <2>3. DialogsInOrder'
    BY <2>1, <2>2 DEF DialogsInOrder, Offered
  <2> QED
    BY <1>1, <2>1, <2>2, <2>3
<1>4. ASSUME Cancel(c) \/ Hear(c) \/ Reloaded(c) \/ GiveUp(c)
      PROVE  /\ UNCHANGED <<server, requests>>
             /\ desks' \in [Desks -> Desk] /\ used' \subseteq Keys
             /\ DialogsInOrder'
  <2>1. UNCHANGED <<server, requests, used>>
    BY <1>4 DEF Cancel, Hear, Reloaded, GiveUp
  <2>2. /\ desks' \in [Desks -> Desk] /\ \A e \in Desks \ {c} : desks'[e] = desks[e]
        /\ desks'[c].form = None \/ desks'[c].form = desks[c].form
        /\ desks'[c].key = desks[c].key
    <3>1. CASE Cancel(c)
      BY <1>1, <3>1 DEF Cancel, Desk
    <3>2. CASE Hear(c)
      <4>1. desks[c] \in Desk
        BY <1>1
      <4> DEFINE closed == [form |-> None, key |-> desks[c].key, call |-> 0, busy |-> TRUE]
                 kept == [desks[c] EXCEPT !.call = 0, !.busy = FALSE]
      <4>2. desks' = [desks EXCEPT ![c] = closed] \/ desks' = [desks EXCEPT ![c] = kept]
        BY <3>2 DEF Hear
      <4>3. closed \in Desk /\ closed.key = desks[c].key /\ closed.form = None
        BY <1>1, <4>1 DEF Desk
      <4>4. kept \in Desk /\ kept.key = desks[c].key /\ kept.form = desks[c].form
        BY <1>1, <4>1 DEF Desk
      <4> HIDE DEF closed, kept
      <4> QED
        BY <1>1, <4>2, <4>3, <4>4
    <3>3. CASE Reloaded(c) \/ GiveUp(c)
      <4>1. desks[c] \in Desk
        BY <1>1
      <4> DEFINE kept == [desks[c] EXCEPT !.call = 0, !.busy = FALSE]
      <4>2. desks' = [desks EXCEPT ![c] = kept]
        <5>1. CASE Reloaded(c)
          <6>1. desks[c].call = 0 /\ desks' = [desks EXCEPT ![c].busy = FALSE]
            BY <5>1 DEF Reloaded
          <6>2. [desks[c] EXCEPT !.busy = FALSE] = kept
            BY <4>1, <6>1 DEF Desk
          <6> QED
            BY <6>1, <6>2
        <5> QED
          BY <3>3, <5>1 DEF GiveUp
      <4>3. kept \in Desk /\ kept.key = desks[c].key /\ kept.form = desks[c].form
        BY <1>1, <4>1 DEF Desk
      <4> HIDE DEF kept
      <4> QED
        BY <1>1, <4>2, <4>3
    <3> QED
      BY <1>4, <3>1, <3>2, <3>3
  <2>3. DialogsInOrder'
    BY <2>2 DEF DialogsInOrder, Offered
  <2> QED
    BY <1>1, <2>1, <2>2, <2>3
<1> QED
  BY <1>2, <1>3, <1>4

\* When only pages change, everything else stays in order.
LEMMA PagesKeep ==
  ASSUME CashInvariant, UNCHANGED <<server, requests>>,
         desks' \in [Desks -> Desk], used' \subseteq Keys, DialogsInOrder'
  PROVE  CashInvariant'
<1>1. TypeOK'
  BY DEF CashInvariant, TypeOK, server, books
<1>2. UNCHANGED books
  BY DEF server
<1>3. BooksInOrder'
  BY <1>2, BooksStay, InvariantByRequest
<1>4. ASSUME NEW s \in Ids PROVE InOrder(s)'
  BY <1>2, OthersStay, InvariantByRequest DEF server
<1>5. TypeOK' /\ DialogsInOrder' /\ BooksInOrder' /\ \A r \in Ids : InOrder(r)'
  BY <1>1, <1>3, <1>4
<1> QED
  BY <1>5 DEF CashInvariant, BooksInOrder, InOrder, RequestsInOrder, CompanyHeld, DriversHeld,
       StillNew, StillCovered, AnswerIsTrue, Told

-----------------------------------------------------------------------------
\* Requests.

\* A request that is sent holds no lock yet and has checked nothing.
LEMMA SendKeeps ==
  ASSUME CashInvariant, NEW r \in Ids, NEW c \in Desks \cup {None}, NEW k \in Keys \cup {None},
         NEW b \in Body, Send(r, c, k, b), UNCHANGED server,
         desks' \in [Desks -> Desk], used' \subseteq Keys, DialogsInOrder', Proper(r)'
  PROVE  CashInvariant'
<1> DEFINE new == [pc |-> "sent", desk |-> c, key |-> k, body |-> b, answer |-> None]
<1>1. TypeOK /\ requests \in [Ids -> Request] /\ UNCHANGED books
  BY DEF CashInvariant, TypeOK, server
<1>2. new \in Request /\ new.pc = "sent" /\ new.answer # "done"
  BY NoneAssumption DEF Request
<1>3. requests' = [requests EXCEPT ![r] = new]
  BY DEF Send
<1> HIDE DEF new
<1>4. requests' \in [Ids -> Request] /\ requests'[r] = new
      /\ \A s \in Ids \ {r} : requests'[s] = requests[s]
  BY <1>1, <1>2, <1>3
<1>5. TypeOK'
  BY <1>1, <1>4 DEF TypeOK, server, books
<1>6. BooksInOrder'
  BY <1>1, BooksStay, InvariantByRequest
<1>7. InOrder(r)'
  BY <1>2, <1>4 DEF InOrder
<1>8. ASSUME NEW s \in Ids \ {r} PROVE InOrder(s)'
  BY <1>1, <1>4, OthersStay, InvariantByRequest DEF server
<1>9. TypeOK' /\ DialogsInOrder' /\ BooksInOrder' /\ \A s \in Ids : InOrder(s)'
  BY <1>5, <1>6, <1>7, <1>8
<1> QED
  BY <1>9 DEF CashInvariant, BooksInOrder, InOrder, RequestsInOrder, CompanyHeld, DriversHeld,
       StillNew, StillCovered, AnswerIsTrue, Told

\* A page sends what its dialog holds.
LEMMA SubmitKeeps ==
  ASSUME CashInvariant, NEW c \in Desks, NEW r \in Ids, Submit(c, r)
  PROVE  CashInvariant'
<1> DEFINE b == desks[c].form  k == desks[c].key
<1>1. TypeOK /\ DialogsInOrder /\ desks \in [Desks -> Desk] /\ used \subseteq Keys
  BY DEF CashInvariant, TypeOK
<1>2. b \in Orders /\ Offered(c, b) /\ (b.action # "take" => k \in Keys)
  BY <1>1 DEF Submit, DialogsInOrder
<1>3. b \in Body /\ k \in Keys \cup {None}
  BY <1>1, <1>2, OrdersAssumption DEF Desk
<1>4. Send(r, c, k, b) /\ UNCHANGED <<server, used>>
  BY DEF Submit
<1>5. /\ desks' \in [Desks -> Desk]
      /\ \A e \in Desks : desks'[e].form = desks[e].form /\ desks'[e].key = desks[e].key
  <2>1. desks' = [desks EXCEPT ![c].call = r, ![c].busy = TRUE]
    BY DEF Submit
  <2>2. [desks[c] EXCEPT !.call = r, !.busy = TRUE] \in Desk
    BY <1>1 DEF Desk
  <2> QED
    BY <1>1, <2>1, <2>2 DEF Desk
<1>6. DialogsInOrder'
  BY <1>1, <1>5 DEF DialogsInOrder, Offered
<1>7. Proper(r)'
  <2>1. requests'[r].body = b /\ requests'[r].key = k /\ requests'[r].desk = c
    BY <1>1, <1>4 DEF Send, TypeOK
  <2>2. ~Resolving(b) /\ (Keyed(b) => k \in Keys)
    BY <1>2, OrdersAssumption DEF Forms, Resolving, Resolutions, Keyed
  <2>3. /\ b.action \in {"accrual", "tax_payment", "payout", "request_handover", "collection"}
             => b.driver \in Drivers
        /\ b.action = "take" => b.item \in Bookings
    BY <1>2, OrdersAssumption
  <2>4. b.action = "deposit_own_cash" => c \in Office
    BY <1>2 DEF Offered, Office
  <2> HIDE DEF b, k
  <2> QED
    BY <1>3, <2>1, <2>2, <2>3, <2>4 DEF Proper
<1> HIDE DEF b, k
<1> QED
  BY <1>1, <1>3, <1>4, <1>5, <1>6, <1>7, SendKeeps

\* A page settles a handover that there is.
LEMMA ResolveKeeps ==
  ASSUME CashInvariant, NEW c \in Desks, NEW h \in Keys, NEW action \in Resolutions,
         NEW r \in Ids, Resolve(c, h, action, r)
  PROVE  CashInvariant'
<1> DEFINE b == [action |-> action, amount |-> 0, driver |-> None, source |-> "cash",
                 kind |-> "income", item |-> h]
<1>1. TypeOK /\ DialogsInOrder /\ desks \in [Desks -> Desk] /\ used \subseteq Keys
  BY DEF CashInvariant, TypeOK
<1>2. b \in Body /\ b.action = action /\ b.item = h
  BY DEF Body, Kinds
<1>3. Send(r, c, None, b) /\ UNCHANGED <<server, used>> /\ handovers[h] # None
  BY DEF Resolve
<1>4. /\ desks' \in [Desks -> Desk]
      /\ \A e \in Desks : desks'[e].form = desks[e].form /\ desks'[e].key = desks[e].key
  <2>1. desks' = [desks EXCEPT ![c].call = r, ![c].busy = TRUE]
    BY DEF Resolve
  <2>2. [desks[c] EXCEPT !.call = r, !.busy = TRUE] \in Desk
    BY <1>1 DEF Desk
  <2> QED
    BY <1>1, <2>1, <2>2 DEF Desk
<1>5. DialogsInOrder'
  BY <1>1, <1>4 DEF DialogsInOrder, Offered
<1> HIDE DEF b
<1>6. Proper(r)'
  <2>1. requests'[r].body = b
    BY <1>1, <1>3 DEF Send, TypeOK
  <2>2. action \notin {"accrual", "tax_payment", "payout", "request_handover", "collection",
                       "take", "deposit_own_cash"} /\ ~Keyed(b)
    BY <1>2 DEF Resolutions, Keyed, Resolving
  <2>3. handovers'[h] # None
    BY <1>3 DEF server, books
  <2> QED
    BY <1>2, <2>1, <2>2, <2>3 DEF Proper
<1> QED
  BY <1>1, <1>2, <1>3, <1>4, <1>5, <1>6, SendKeeps

\* A collection that no page offers names its driver.
LEMMA CollectKeeps ==
  ASSUME CashInvariant, NEW b \in Orders, NEW r \in Ids, Collect(b, r)
  PROVE  CashInvariant'
<1>1. TypeOK /\ DialogsInOrder /\ desks \in [Desks -> Desk] /\ used \subseteq Keys
  BY DEF CashInvariant, TypeOK
<1>2. Send(r, None, None, b) /\ UNCHANGED <<server, desks, used>> /\ b.action = "collection"
  BY DEF Collect
<1>3. b \in Body /\ b.driver \in Drivers
  BY <1>2, OrdersAssumption
<1>4. DialogsInOrder'
  BY <1>1, <1>2 DEF DialogsInOrder, Offered
<1>5. Proper(r)'
  <2>1. requests'[r].body = b
    BY <1>1, <1>2 DEF Send, TypeOK
  <2>2. ~Resolving(b) /\ ~Keyed(b)
    BY <1>2 DEF Resolving, Resolutions, Keyed
  <2> QED
    BY <1>2, <1>3, <2>1, <2>2 DEF Proper
<1> QED
  BY <1>1, <1>2, <1>3, <1>4, <1>5, SendKeeps

-----------------------------------------------------------------------------
\* The transactions before they commit.

\* A step of transaction r that writes nothing and takes nobody else's lock.
LEMMA StepKeeps ==
  ASSUME CashInvariant, NEW r \in Ids, UNCHANGED <<books, desks, used>>,
         requests' \in [Ids -> Request], company' \in Ids \cup {0},
         locks' \in [Drivers -> Ids \cup {0}],
         \A s \in Ids \ {r} : requests'[s] = requests[s],
         \A s \in Ids \ {r} : company = s => company' = s,
         \A s \in Ids \ {r}, d \in Drivers : locks[d] = s => locks'[d] = s,
         InOrder(r)'
  PROVE  CashInvariant'
<1>1. TypeOK /\ UNCHANGED books
  BY DEF CashInvariant
<1>2. TypeOK' /\ DialogsInOrder'
  BY <1>1 DEF CashInvariant, TypeOK, DialogsInOrder, Offered, books
<1>3. BooksInOrder'
  BY <1>1, BooksStay, InvariantByRequest
<1>4. ASSUME NEW s \in Ids \ {r} PROVE InOrder(s)'
  BY <1>1, OthersStay, InvariantByRequest
<1>5. TypeOK' /\ DialogsInOrder' /\ BooksInOrder' /\ \A s \in Ids : InOrder(s)'
  BY <1>2, <1>3, <1>4
<1> QED
  BY <1>5 DEF CashInvariant, BooksInOrder, InOrder, RequestsInOrder, CompanyHeld, DriversHeld,
       StillNew, StillCovered, AnswerIsTrue, Told

\* An error ends the transaction.
LEMMA ErrorKeeps ==
  ASSUME CashInvariant, NEW r \in Ids, Reply(r, "error"), UNCHANGED <<books, desks, used>>
  PROVE  CashInvariant'
<1>1. TypeOK
  BY DEF CashInvariant
<1>2. requests'[r].pc = "answered" /\ requests'[r].answer = "error"
  BY <1>1, ReplyTyped
<1>3. InOrder(r)'
  BY <1>2 DEF InOrder, Working
<1> QED
  BY <1>1, <1>3, ReplyTyped, StepKeeps

\* A request that fails leaves the books alone.
LEMMA AbortKeeps ==
  ASSUME CashInvariant, NEW r \in Ids, Abort(r)
  PROVE  CashInvariant'
BY ErrorKeeps DEF Abort

\* A repetition is answered with what the books already say.
LEMMA RepeatKeeps ==
  ASSUME CashInvariant, NEW r \in Ids, Repeat(r)
  PROVE  CashInvariant'
<1>1. TypeOK /\ Proper(r) /\ UNCHANGED <<books, desks, used>>
  BY InvariantByRequest DEF Repeat, InOrder, Working
<1>2. Recall(r) \in {"done", "error"} /\ Reply(r, Recall(r))
  BY RecallCases DEF Repeat
<1>3. CASE Recall(r) = "error"
  BY <1>1, <1>2, <1>3, ErrorKeeps
<1>4. CASE Recall(r) = "done"
  <2>1. Reply(r, "done")
    BY <1>2, <1>4
  <2>2. /\ requests'[r] = [requests[r] EXCEPT !.pc = "answered", !.answer = "done"]
        /\ requests[r] \in Request
    BY <1>1, <2>1, ReplyTyped DEF TypeOK
  <2>3. /\ requests'[r].pc = "answered" /\ requests'[r].answer = "done"
        /\ requests'[r].body = requests[r].body /\ requests'[r].key = requests[r].key
        /\ requests'[r].desk = requests[r].desk
    BY <2>2 DEF Request
  <2>4. Proper(r)'
    BY <1>1, <2>3 DEF Proper, books
  <2>5. Told(r)
    BY <1>4, RecallCases DEF Told
  <2>6. Told(r)'
    BY <1>1, <2>3, <2>5 DEF Told, books
  <2>7. InOrder(r)'
    BY <2>3, <2>4, <2>6 DEF InOrder
  <2> QED
    BY <1>1, <2>1, <2>7, ReplyTyped, StepKeeps
<1> QED
  BY <1>2, <1>3, <1>4

\* The company's row is locked by one transaction at a time.
LEMMA EnterKeeps ==
  ASSUME CashInvariant, NEW r \in Ids, Enter(r)
  PROVE  CashInvariant'
<1>1. TypeOK /\ InOrder(r) /\ UNCHANGED <<books, locks, desks, used>> /\ requests[r].pc = "sent"
  BY InvariantByRequest DEF Enter
<1>2. requests \in [Ids -> Request] /\ company \in Ids \cup {0}
      /\ locks \in [Drivers -> Ids \cup {0}]
  BY <1>1 DEF TypeOK
<1>3. requests' = [requests EXCEPT ![r].pc = "company"]
  BY DEF Enter
<1>4. /\ LocksCompany(r) => company = 0 /\ company' = r
      /\ ~LocksCompany(r) => company' = company
  BY DEF Enter
<1>5. [requests[r] EXCEPT !.pc = "company"] \in Request
  BY <1>2 DEF Request
<1>6. /\ requests' \in [Ids -> Request]
      /\ \A s \in Ids \ {r} : requests'[s] = requests[s]
      /\ requests'[r].pc = "company" /\ requests'[r].answer = requests[r].answer
      /\ requests'[r].body = requests[r].body /\ requests'[r].key = requests[r].key
      /\ requests'[r].desk = requests[r].desk
  BY <1>2, <1>3, <1>5 DEF Request
<1>7. /\ company' \in Ids \cup {0}
      /\ \A s \in Ids \ {r} : company = s => company' = s
  BY <1>2, <1>4 DEF Ids
<1>8. Proper(r)' /\ (LocksCompany(r)' <=> LocksCompany(r))
      /\ (requests'[r].answer = "done" => Told(r)')
  BY <1>1, <1>6 DEF InOrder, Working, Proper, LocksCompany, Told, books
<1>9. InOrder(r)'
  BY <1>4, <1>6, <1>8 DEF InOrder
<1> QED
  BY <1>1, <1>2, <1>6, <1>7, <1>9, StepKeeps

\* So is a driver's row.
LEMMA LockDriverKeeps ==
  ASSUME CashInvariant, NEW r \in Ids, LockDriver(r)
  PROVE  CashInvariant'
<1>1. TypeOK /\ InOrder(r) /\ UNCHANGED <<books, company, desks, used>>
      /\ requests[r].pc = "company" /\ Recall(r) = "new"
  BY InvariantByRequest DEF LockDriver
<1>2. requests \in [Ids -> Request] /\ locks \in [Drivers -> Ids \cup {0}]
      /\ company \in Ids \cup {0}
  BY <1>1 DEF TypeOK
<1>3. Proper(r) /\ DriverOf(r) \in Drivers \cup {None}
  BY <1>1, DriverTyped DEF InOrder, Working
<1>4. requests' = [requests EXCEPT ![r].pc = "driver"]
  BY DEF LockDriver
<1>5. [requests[r] EXCEPT !.pc = "driver"] \in Request
  BY <1>2 DEF Request
<1>6. /\ requests' \in [Ids -> Request]
      /\ \A s \in Ids \ {r} : requests'[s] = requests[s]
      /\ requests'[r].pc = "driver" /\ requests'[r].answer = requests[r].answer
      /\ requests'[r].body = requests[r].body /\ requests'[r].key = requests[r].key
      /\ requests'[r].desk = requests[r].desk
  BY <1>2, <1>4, <1>5 DEF Request
<1>7. /\ locks' \in [Drivers -> Ids \cup {0}]
      /\ \A s \in Ids \ {r}, d \in Drivers : locks[d] = s => locks'[d] = s
      /\ DriverOf(r) # None => locks'[DriverOf(r)] = r
  <2>1. CASE DriverOf(r) = None
    BY <1>2, <2>1 DEF LockDriver
  <2>2. CASE DriverOf(r) # None
    BY <1>2, <1>3, <2>2 DEF LockDriver, Ids
  <2> QED
    BY <2>1, <2>2
<1>8. /\ Proper(r)' /\ (LocksCompany(r)' <=> LocksCompany(r))
      /\ DriverOf(r)' = DriverOf(r) /\ Recall(r)' = Recall(r)
      /\ (requests'[r].answer = "done" => Told(r)')
  BY <1>1, <1>3, <1>6 DEF InOrder, Proper, LocksCompany, DriverOf, Recall, Known, Settled,
                          Repeated, Agreed, Told, books
<1>9. InOrder(r)'
  BY <1>1, <1>6, <1>7, <1>8 DEF InOrder
<1> QED
  BY <1>1, <1>2, <1>6, <1>7, <1>9, StepKeeps

\* What the balances cover stays covered while the transaction holds its locks.
LEMMA WeighKeeps ==
  ASSUME CashInvariant, NEW r \in Ids, Weigh(r)
  PROVE  CashInvariant'
<1>1. CASE Covered(r) /\ Reserved(r)
  <2>1. TypeOK /\ InOrder(r) /\ UNCHANGED <<books, company, locks, desks, used>>
        /\ requests[r].pc = "driver"
    BY <1>1, InvariantByRequest DEF Weigh
  <2>2. requests \in [Ids -> Request] /\ company \in Ids \cup {0}
        /\ locks \in [Drivers -> Ids \cup {0}]
    BY <2>1 DEF TypeOK
  <2>3. requests' = [requests EXCEPT ![r].pc = "covered"]
    BY <1>1 DEF Weigh
  <2>4. [requests[r] EXCEPT !.pc = "covered"] \in Request
    BY <2>2 DEF Request
  <2>5. /\ requests' \in [Ids -> Request]
        /\ \A s \in Ids \ {r} : requests'[s] = requests[s]
        /\ requests'[r].pc = "covered" /\ requests'[r].answer = requests[r].answer
        /\ requests'[r].body = requests[r].body /\ requests'[r].key = requests[r].key
        /\ requests'[r].desk = requests[r].desk
    BY <2>2, <2>3, <2>4 DEF Request
  <2>6. /\ Proper(r)' /\ (LocksCompany(r)' <=> LocksCompany(r))
        /\ DriverOf(r)' = DriverOf(r) /\ Recall(r)' = Recall(r)
        /\ (requests'[r].answer = "done" => Told(r)')
    BY <2>1, <2>5 DEF InOrder, Working, Proper, LocksCompany, DriverOf, Recall, Known, Settled,
                      Repeated, Agreed, Told, books
  <2>7. Covered(r)'
    BY <1>1, <2>1, <2>5 DEF Covered, TakesTill, TakesCash, AmountOf, Giver, DriverOf, books
  <2>8. InOrder(r)'
    BY <2>1, <2>5, <2>6, <2>7 DEF InOrder
  <2> QED
    BY <2>1, <2>2, <2>5, <2>8, StepKeeps
<1>2. CASE ~(Covered(r) /\ Reserved(r))
  BY <1>2, ErrorKeeps DEF Weigh
<1> QED
  BY <1>1, <1>2

-----------------------------------------------------------------------------
\* What a commit does to the books.

\* The amount of a request under way is a natural number.
LEMMA AmountTyped ==
  ASSUME TypeOK, NEW r \in Ids, Proper(r)
  PROVE  AmountOf(r) \in Nat /\ requests[r].body.amount \in Nat
<1>1. requests[r].body.amount \in Nat
  BY DEF Proper, Body
<1>2. CASE Resolving(requests[r].body)
  <2>1. requests[r].body.item \in Keys /\ handovers[requests[r].body.item] # None
    BY <1>2 DEF Proper
  <2>2. handovers[requests[r].body.item] \in Handover
    BY <2>1 DEF TypeOK
  <2> QED
    BY <1>1, <1>2, <2>2 DEF AmountOf, Handover
<1>3. CASE ~Resolving(requests[r].body)
  BY <1>1, <1>3 DEF AmountOf
<1> QED
  BY <1>2, <1>3

\* Cash is taken from the office's own purse, or from the driver whose row is locked.
LEMMA GiverTyped ==
  ASSUME TypeOK, NEW r \in Ids, Proper(r), TakesCash(r)
  PROVE  /\ requests[r].body.action = "deposit_own_cash" => Giver(r) \in Office
         /\ requests[r].body.action # "deposit_own_cash"
              => Giver(r) = DriverOf(r) /\ Giver(r) \in Drivers
         /\ Giver(r) \in Custodians
<1> DEFINE b == requests[r].body
<1>1. b.action \in {"deposit_own_cash", "accept_handover", "collection"}
  BY DEF TakesCash
<1>2. CASE b.action = "deposit_own_cash"
  BY <1>2 DEF Proper, Giver, Custodians
<1>3. CASE b.action = "accept_handover"
  <2>1. Resolving(b)
    BY <1>3 DEF Resolving, Resolutions
  <2>2. b.item \in Keys /\ handovers[b.item] # None
    BY <2>1 DEF Proper
  <2>3. handovers[b.item] \in Handover
    BY <2>2 DEF TypeOK
  <2> QED
    BY <1>3, <2>1, <2>3, DriverCases DEF Giver, Handover, Custodians
<1>4. CASE b.action = "collection"
  <2>1. ~Resolving(b)
    BY <1>4 DEF Resolving, Resolutions
  <2> QED
    BY <1>4, <2>1, DriverCases DEF Giver, Custodians, Proper
<1> QED
  BY <1>1, <1>2, <1>3, <1>4

\* Only what is paid from the till, after the check, lowers it.
LEMMA TillAfter ==
  ASSUME TypeOK, CashCovered, NEW r \in Ids, Proper(r), Covered(r), Booked(r)
  PROVE  till' \in Int /\ till' >= 0 /\ (till' >= till \/ TakesTill(r))
<1> DEFINE b == requests[r].body
<1>1. till \in Int /\ till >= 0 /\ AmountOf(r) \in Nat /\ b.amount \in Nat
  BY AmountTyped DEF TypeOK, CashCovered
<1>2. till' = till + (IF b.action = "receipt" \/ TakesCash(r) THEN AmountOf(r) ELSE 0)
                   - (IF TakesTill(r) THEN b.amount ELSE 0)
  BY DEF Booked
<1>3. TakesTill(r) => b.amount <= till
  BY DEF Covered
<1> QED
  BY <1>1, <1>2, <1>3

\* Only the giver of a checked amount is left with less cash.
LEMMA CashAfter ==
  ASSUME TypeOK, CashCovered, NEW r \in Ids, Proper(r), Covered(r), Booked(r)
  PROVE  /\ cash' \in [Custodians -> Int]
         /\ \A x \in Custodians : cash'[x] >= 0
         /\ \A x \in Custodians : cash'[x] >= cash[x] \/ (TakesCash(r) /\ x = Giver(r))
<1> DEFINE b == requests[r].body
<1>1. cash \in [Custodians -> Int] /\ (\A x \in Custodians : cash[x] >= 0)
      /\ AmountOf(r) \in Nat /\ b.amount \in Nat
  BY AmountTyped DEF TypeOK, CashCovered
<1>2. CASE TakesCash(r)
  <2>1. cash' = [cash EXCEPT ![Giver(r)] = @ - AmountOf(r)]
    BY <1>2 DEF Booked
  <2>2. AmountOf(r) <= cash[Giver(r)] /\ Giver(r) \in Custodians
    BY <1>2, GiverTyped DEF Covered
  <2> QED
    BY <1>1, <1>2, <2>1, <2>2
<1>3. CASE ~TakesCash(r) /\ b.action = "take"
  <2> DEFINE taker == IF requests[r].desk \in Office THEN requests[r].desk ELSE Carrier[b.item]
  <2>1. cash' = [cash EXCEPT ![taker] = @ + b.amount - received[b.item]]
    BY <1>3 DEF Booked
  <2>2. b.item \in Bookings
    BY <1>3 DEF Proper
  <2>3. received[b.item] \in Nat
    BY <2>2 DEF TypeOK
  <2>4. b.amount \in received[b.item]..Price
    BY <1>3 DEF Covered
  <2>5. b.amount - received[b.item] \in Nat
    BY <1>1, <2>3, <2>4, BoundsAssumption
  <2>6. taker \in Custodians
    BY <2>2, DesksAssumption DEF Custodians
  <2> HIDE DEF taker
  <2> QED
    BY <1>1, <2>1, <2>3, <2>5, <2>6
<1>4. CASE ~TakesCash(r) /\ b.action # "take"
  <2>1. cash' = cash
    BY <1>4 DEF Booked
  <2> QED
    BY <1>1, <2>1
<1> QED
  BY <1>2, <1>3, <1>4

\* Salary and withholdings grow by accruals and fall by checked payments only.
LEMMA SalaryAfter ==
  ASSUME TypeOK, CashCovered, NEW r \in Ids, Proper(r), Covered(r), Booked(r)
  PROVE  /\ owed' \in [Drivers -> Int] /\ withheld' \in [Drivers -> [Kinds -> Int]]
         /\ \A d \in Drivers : /\ owed'[d] >= 0
                               /\ owed'[d] >= owed[d] \/ requests[r].body.action = "payout"
         /\ \A d \in Drivers, k \in Kinds :
              /\ withheld'[d][k] >= 0
              /\ withheld'[d][k] >= withheld[d][k] \/ requests[r].body.action = "tax_payment"
<1> DEFINE b == requests[r].body
<1>1. /\ owed \in [Drivers -> Int] /\ withheld \in [Drivers -> [Kinds -> Int]]
      /\ \A d \in Drivers : owed[d] >= 0
      /\ \A d \in Drivers, k \in Kinds : withheld[d][k] >= 0
      /\ b.amount \in Nat /\ b.kind \in Kinds
  BY AmountTyped DEF TypeOK, CashCovered, Proper, Body
<1>2. CASE b.action = "accrual"
  <2>1. PICK rate \in Rates : Accrued(b.driver, b.amount, rate)
    BY <1>2 DEF Booked
  <2>2. b.driver \in Drivers
    BY <1>2 DEF Proper
  <2>3. PICK parts : parts = Withheld(b.amount, rate)
    OBVIOUS
  <2>4. parts \in [Kinds -> Nat] /\ parts["income"] + parts["levy"] <= b.amount
    BY <1>1, <2>3, WithheldWithin, Zenon
  <2>5. /\ owed' = [owed EXCEPT ![b.driver] = @ + b.amount - parts["income"] - parts["levy"]]
        /\ withheld' = [withheld EXCEPT ![b.driver] = [k \in Kinds |-> @[k] + parts[k]]]
    BY <2>1, <2>3 DEF Accrued
  <2>6. parts["income"] \in Nat /\ parts["levy"] \in Nat
    BY <2>4 DEF Kinds
  <2>7. \E more \in Nat : owed' = [owed EXCEPT ![b.driver] = @ + more]
    <3>1. b.amount - parts["income"] - parts["levy"] \in Nat
      BY <1>1, <2>4, <2>6
    <3>2. owed[b.driver] + b.amount - parts["income"] - parts["levy"]
            = owed[b.driver] + (b.amount - parts["income"] - parts["levy"])
      BY <1>1, <2>2, <2>6
    <3> QED
      BY <2>5, <3>1, <3>2
  <2>8. /\ owed' \in [Drivers -> Int]
        /\ \A d \in Drivers : owed'[d] >= 0 /\ owed'[d] >= owed[d]
    BY <1>1, <2>2, <2>7
  <2>9. /\ withheld' \in [Drivers -> [Kinds -> Int]]
        /\ \A d \in Drivers, k \in Kinds :
             withheld'[d][k] >= 0 /\ withheld'[d][k] >= withheld[d][k]
    BY <1>1, <2>2, <2>4, <2>5
  <2> QED
    BY <2>8, <2>9
<1>3. CASE b.action = "payout"
  <2>1. owed' = [owed EXCEPT ![b.driver] = @ - b.amount] /\ withheld' = withheld
    BY <1>3 DEF Booked
  <2>2. b.driver \in Drivers /\ b.amount <= owed[b.driver]
    BY <1>3 DEF Proper, Covered
  <2> QED
    BY <1>1, <1>3, <2>1, <2>2
<1>4. CASE b.action = "tax_payment"
  <2>1. owed' = owed /\ withheld' = [withheld EXCEPT ![b.driver][b.kind] = @ - b.amount]
    BY <1>4 DEF Booked
  <2>2. b.driver \in Drivers /\ b.amount <= withheld[b.driver][b.kind]
    BY <1>4 DEF Proper, Covered
  <2>3. \A d \in Drivers, k \in Kinds :
          withheld'[d][k] = IF d = b.driver /\ k = b.kind THEN withheld[d][k] - b.amount
                            ELSE withheld[d][k]
    BY <1>1, <2>1
  <2>4. withheld' \in [Drivers -> [Kinds -> Int]]
    <3> DEFINE left == [withheld[b.driver] EXCEPT ![b.kind] = @ - b.amount]
    <3>1. left \in [Kinds -> Int]
      BY <1>1, <2>2
    <3>2. withheld' = [withheld EXCEPT ![b.driver] = left]
      BY <2>1
    <3> HIDE DEF left
    <3> QED
      BY <1>1, <3>1, <3>2
  <2>5. \A d \in Drivers, k \in Kinds : withheld'[d][k] >= 0
    BY <1>1, <2>2, <2>3
  <2>6. owed' \in [Drivers -> Int] /\ \A d \in Drivers : owed'[d] >= 0 /\ owed'[d] >= owed[d]
    BY <1>1, <2>1
  <2> QED
    BY <1>4, <2>4, <2>5, <2>6
<1>5. CASE b.action \notin {"accrual", "payout", "tax_payment"}
  <2>1. owed' = owed /\ withheld' = withheld
    BY <1>5 DEF Booked
  <2> QED
    BY <1>1, <2>1
<1> QED
  BY <1>2, <1>3, <1>4, <1>5

\* What was received for a booking only grows.
LEMMA ReceivedAfter ==
  ASSUME TypeOK, NEW r \in Ids, Proper(r), Covered(r), Booked(r)
  PROVE  LET b == requests[r].body IN
         /\ received' \in [Bookings -> Nat]
         /\ \A x \in Bookings : received'[x] >= received[x]
         /\ \A x \in Bookings : received'[x] = received[x] \/ (b.action = "take" /\ x = b.item)
         /\ b.action = "take" => received'[b.item] = b.amount
<1> DEFINE b == requests[r].body
<1>1. received \in [Bookings -> Nat] /\ b.amount \in Nat
  BY AmountTyped DEF TypeOK
<1>2. CASE b.action = "take"
  <2>1. received' = [received EXCEPT ![b.item] = b.amount]
    BY <1>2 DEF Booked
  <2>2. b.item \in Bookings /\ b.amount \in received[b.item]..Price
    BY <1>2 DEF Proper, Covered
  <2>3. b.amount >= received[b.item]
    BY <1>1, <2>2, BoundsAssumption
  <2> QED
    BY <1>1, <1>2, <2>1, <2>2, <2>3
<1>3. CASE b.action # "take"
  <2>1. received' = received
    BY <1>3 DEF Booked
  <2> QED
    BY <1>1, <1>3, <2>1
<1> QED
  BY <1>2, <1>3

\* A recorded request keeps its body.
LEMMA WrittenAfter ==
  ASSUME TypeOK, NEW r \in Ids, Proper(r), Recall(r) = "new", Booked(r)
  PROVE  LET b == requests[r].body  k == requests[r].key IN
         /\ written' \in [Keys -> Body \cup {None}]
         /\ \A x \in Keys : written[x] # None => written'[x] = written[x]
         /\ \A x \in Keys : written'[x] = written[x] \/ (Keyed(b) /\ x = k)
         /\ Keyed(b) => written[k] = None /\ written'[k] = b /\ b # None
<1> DEFINE b == requests[r].body  k == requests[r].key
<1>1. written \in [Keys -> Body \cup {None}] /\ b \in Body /\ b # None
  BY NoneAssumption DEF TypeOK, Proper
<1>2. CASE Keyed(b)
  <2>1. written' = [written EXCEPT ![k] = b]
    BY <1>2 DEF Booked
  <2>2. k \in Keys /\ written[k] = None
    BY <1>2, RecallCases DEF Proper
  <2> HIDE DEF b, k
  <2>3. /\ written' \in [Keys -> Body \cup {None}]
        /\ \A x \in Keys : x # k => written'[x] = written[x]
        /\ written'[k] = b
    BY <1>1, <2>1, <2>2
  <2> QED
    BY <1>1, <1>2, <2>2, <2>3 DEF b, k
<1>3. CASE ~Keyed(b)
  <2>1. written' = written
    BY <1>3 DEF Booked
  <2> QED
    BY <1>1, <1>3, <2>1
<1> QED
  BY <1>2, <1>3

\* A handover keeps its driver and amount, and is settled while it is pending.
LEMMA HandoversAfter ==
  ASSUME TypeOK, HandoversWritten, NEW r \in Ids, Proper(r), Recall(r) = "new", Booked(r)
  PROVE  LET b == requests[r].body IN
         /\ handovers' \in [Keys -> Handover \cup {None}]
         /\ \A h \in Keys : handovers[h] # None =>
              /\ handovers'[h] # None
              /\ handovers'[h].driver = handovers[h].driver
              /\ handovers'[h].amount = handovers[h].amount
              /\ \/ handovers'[h].status = handovers[h].status
                 \/ /\ Resolving(b) /\ h = b.item /\ handovers[h].status = "pending"
                    /\ handovers'[h].status = Target(b.action)
         /\ \A h \in Keys : handovers[h] = None /\ handovers'[h] # None =>
              /\ handovers'[h].status = "pending"
              /\ Keyed(b) /\ h = requests[r].key
         /\ Resolving(b) => handovers'[b.item].status = Target(b.action)
<1> DEFINE b == requests[r].body  k == requests[r].key
<1>1. handovers \in [Keys -> Handover \cup {None}] /\ b \in Body
  BY DEF TypeOK, Proper
<1>2. CASE Resolving(b)
  <2>1. handovers' = [handovers EXCEPT ![b.item].status = Target(b.action)]
    BY <1>2 DEF Booked
  <2>2. b.item \in Keys /\ handovers[b.item] # None /\ handovers[b.item].status = "pending"
    BY <1>2, RecallCases DEF Proper
  <2>3. handovers[b.item] \in Handover
    BY <1>1, <2>2
  <2>4. Target(b.action) \in Statuses
    BY <1>2 DEF Resolving, Resolutions, Target, Statuses
  <2> DEFINE new == [handovers[b.item] EXCEPT !.status = Target(b.action)]
  <2>5. /\ new \in Handover /\ new.driver = handovers[b.item].driver
        /\ new.amount = handovers[b.item].amount /\ new.status = Target(b.action)
    BY <2>3, <2>4 DEF Handover
  <2>6. handovers' = [handovers EXCEPT ![b.item] = new]
    BY <2>1
  <2>7. new # None
    BY <2>5, NoneAssumption
  <2> HIDE DEF new
  <2>8. /\ handovers' \in [Keys -> Handover \cup {None}] /\ handovers'[b.item] = new
        /\ \A h \in Keys : h # b.item => handovers'[h] = handovers[h]
    BY <1>1, <2>2, <2>5, <2>6
  <2> QED
    BY <1>2, <2>2, <2>5, <2>7, <2>8
<1>3. CASE b.action = "request_handover"
  <2>1. ~Resolving(b) /\ Keyed(b)
    BY <1>3 DEF Resolving, Resolutions, Keyed
  <2> DEFINE new == [driver |-> b.driver, amount |-> b.amount, status |-> "pending"]
  <2>2. handovers' = [handovers EXCEPT ![k] = new]
    BY <1>3, <2>1 DEF Booked
  <2>3. k \in Keys /\ written[k] = None
    BY <2>1, RecallCases DEF Proper
  <2>4. handovers[k] = None
    BY <2>3 DEF HandoversWritten
  <2>5. new \in Handover /\ new.status = "pending"
    BY <1>1, <1>3 DEF Proper, Handover, Statuses, Body
  <2>6. new # None
    BY <2>5, NoneAssumption
  <2> HIDE DEF new
  <2>7. /\ handovers' \in [Keys -> Handover \cup {None}] /\ handovers'[k] = new
        /\ \A h \in Keys : h # k => handovers'[h] = handovers[h]
    BY <1>1, <2>2, <2>3, <2>5
  <2> QED
    BY <2>1, <2>3, <2>4, <2>5, <2>6, <2>7
<1>4. CASE ~Resolving(b) /\ b.action # "request_handover"
  <2>1. handovers' = handovers
    BY <1>4 DEF Booked
  <2> QED
    BY <1>1, <1>4, <2>1
<1> QED
  BY <1>2, <1>3, <1>4

\* An accepted handover, and no other, has its collection.
LEMMA CollectedAfter ==
  ASSUME TypeOK, HandoversWritten, HandoversSettleOnce, NEW r \in Ids, Proper(r),
         Recall(r) = "new", Booked(r)
  PROVE  collected' \subseteq Keys /\ HandoversSettleOnce'
<1> DEFINE b == requests[r].body
<1>1. b.action = "accept_handover" => Resolving(b) /\ Target(b.action) = "accepted"
  BY DEF Resolving, Resolutions, Target
<1>2. Resolving(b) => b.item \in Keys /\ handovers[b.item] # None
                      /\ handovers[b.item].status = "pending"
  BY RecallCases DEF Proper
<1>3. Resolving(b) /\ b.action # "accept_handover" => Target(b.action) # "accepted"
  BY DEF Resolving, Resolutions, Target
<1>4. collected' = IF b.action = "accept_handover" THEN collected \cup {b.item} ELSE collected
  BY DEF Booked
<1>5. collected' \subseteq Keys
  BY <1>1, <1>2, <1>4 DEF TypeOK
<1>6. ASSUME NEW h \in Keys
      PROVE  h \in collected' <=> handovers'[h] # None /\ handovers'[h].status = "accepted"
  <2>1. h \in collected <=> handovers[h] # None /\ handovers[h].status = "accepted"
    BY DEF HandoversSettleOnce
  <2>2. CASE Resolving(b) /\ h = b.item
    <3>1. handovers'[h] # None /\ handovers'[h].status = Target(b.action)
      BY <1>2, <2>2, HandoversAfter
    <3> QED
      BY <1>1, <1>2, <1>3, <1>4, <2>1, <2>2, <3>1
  <2>3. CASE ~(Resolving(b) /\ h = b.item)
    <3>1. h \in collected' <=> h \in collected
      BY <1>1, <1>4, <2>3
    <3>2. CASE handovers[h] # None
      BY <2>1, <2>3, <3>1, <3>2, HandoversAfter
    <3>3. CASE handovers[h] = None
      BY <2>1, <3>1, <3>3, HandoversAfter
    <3> QED
      BY <3>2, <3>3
  <2> QED
    BY <2>2, <2>3
<1> QED
  BY <1>5, <1>6 DEF HandoversSettleOnce

-----------------------------------------------------------------------------
\* What a commit leaves of the other transactions.

\* Everything but a driver's own receipt and a direct collection locks the company.
LEMMA WhoLocksCompany ==
  ASSUME NEW r \in Ids,
         LET b == requests[r].body IN
           \/ Keyed(b) \/ Resolving(b) \/ TakesTill(r)
           \/ b.action \in {"deposit_own_cash", "payout", "tax_payment"}
  PROVE  LocksCompany(r)
<1>1. requests[r].body.action # "collection" /\ requests[r].body.action # "take"
  BY DEF Keyed, Resolving, Resolutions, TakesTill
<1> QED
  BY <1>1 DEF LocksCompany

\* So no two transactions under way do such things, and none share a driver's row.
LEMMA LocksApart ==
  ASSUME CashInvariant, NEW r \in Ids, NEW s \in Ids \ {r},
         requests[r].pc \in {"driver", "covered"}, requests[s].pc \in {"driver", "covered"}
  PROVE  /\ ~(LocksCompany(r) /\ LocksCompany(s))
         /\ DriverOf(r) # None => DriverOf(r) # DriverOf(s)
<1>1. InOrder(r) /\ InOrder(s)
  BY InvariantByRequest
<1> QED
  BY <1>1 DEF InOrder

\* A transaction that commits leaves what another one has checked.
LEMMA StillCoveredAfter ==
  ASSUME CashInvariant, NEW r \in Ids, NEW s \in Ids \ {r},
         requests[r].pc = "covered", requests[s].pc = "covered",
         requests'[s] = requests[s], Booked(r)
  PROVE  Covered(s)'
<1> DEFINE b == requests[s].body
<1>1. /\ TypeOK /\ CashCovered /\ HandoversWritten
      /\ Proper(r) /\ Proper(s) /\ Covered(r) /\ Covered(s)
      /\ Recall(r) = "new" /\ Recall(s) = "new"
  BY InvariantByRequest DEF InOrder, Working, BooksInOrder
<1>2. /\ ~(LocksCompany(r) /\ LocksCompany(s))
      /\ DriverOf(r) # None => DriverOf(r) # DriverOf(s)
  BY LocksApart
<1>3. AmountOf(s)' = AmountOf(s) /\ (TakesCash(s)' <=> TakesCash(s))
      /\ (TakesCash(s) => Giver(s)' = Giver(s))
  <2>1. CASE Resolving(b)
    <3>1. b.item \in Keys /\ handovers[b.item] # None
      BY <1>1, <2>1 DEF Proper
    <3>2. /\ handovers'[b.item].amount = handovers[b.item].amount
          /\ handovers'[b.item].driver = handovers[b.item].driver
      BY <1>1, <3>1, HandoversAfter
    <3> QED
      BY <2>1, <3>2 DEF AmountOf, TakesCash, Giver, DriverOf
  <2>2. CASE ~Resolving(b)
    BY <2>2 DEF AmountOf, TakesCash, Giver, DriverOf
  <2> QED
    BY <2>1, <2>2
<1>4. TakesTill(s) => b.amount <= till'
  <2> SUFFICES ASSUME TakesTill(s) PROVE b.amount <= till'
    OBVIOUS
  <2>1. ~TakesTill(r)
    BY <1>2, WhoLocksCompany
  <2>2. till' \in Int /\ till' >= till /\ till \in Int /\ b.amount \in Nat
    BY <1>1, <2>1, TillAfter, AmountTyped DEF TypeOK
  <2>3. b.amount <= till
    BY <1>1 DEF Covered
  <2> QED
    BY <2>2, <2>3
<1>5. TakesCash(s) => AmountOf(s) <= cash'[Giver(s)]
  <2> SUFFICES ASSUME TakesCash(s) PROVE AmountOf(s) <= cash'[Giver(s)]
    OBVIOUS
  <2>1. Giver(s) \in Custodians /\ AmountOf(s) \in Nat /\ AmountOf(s) <= cash[Giver(s)]
    BY <1>1, GiverTyped, AmountTyped DEF Covered
  <2>2. ~(TakesCash(r) /\ Giver(r) = Giver(s))
    <3> SUFFICES ASSUME TakesCash(r), Giver(r) = Giver(s) PROVE FALSE
      OBVIOUS
    <3>1. Office \cap Drivers = {} /\ None \notin Drivers
      BY DesksAssumption DEF Office
    <3>2. requests[r].body.action = "deposit_own_cash" /\ b.action = "deposit_own_cash"
      BY <1>1, <1>2, <3>1, GiverTyped
    <3> QED
      BY <1>2, <3>2, WhoLocksCompany
  <2>3. cash'[Giver(s)] >= cash[Giver(s)] /\ cash'[Giver(s)] \in Int /\ cash[Giver(s)] \in Int
    BY <1>1, <2>1, <2>2, CashAfter DEF TypeOK
  <2> QED
    BY <2>1, <2>3
<1>6. b.action = "payout" => b.amount <= owed'[b.driver]
  <2> SUFFICES ASSUME b.action = "payout" PROVE b.amount <= owed'[b.driver]
    OBVIOUS
  <2>1. requests[r].body.action # "payout"
    BY <1>2, WhoLocksCompany
  <2>2. b.driver \in Drivers /\ b.amount \in Nat /\ b.amount <= owed[b.driver]
    BY <1>1, AmountTyped DEF Proper, Covered
  <2>3. owed'[b.driver] >= owed[b.driver] /\ owed'[b.driver] \in Int /\ owed[b.driver] \in Int
    BY <1>1, <2>1, <2>2, SalaryAfter DEF TypeOK
  <2> QED
    BY <2>2, <2>3
<1>7. b.action = "tax_payment" => b.amount <= withheld'[b.driver][b.kind]
  <2> SUFFICES ASSUME b.action = "tax_payment" PROVE b.amount <= withheld'[b.driver][b.kind]
    OBVIOUS
  <2>1. requests[r].body.action # "tax_payment"
    BY <1>2, WhoLocksCompany
  <2>2. /\ b.driver \in Drivers /\ b.kind \in Kinds /\ b.amount \in Nat
        /\ b.amount <= withheld[b.driver][b.kind]
    BY <1>1, AmountTyped DEF Proper, Covered, Body
  <2>3. /\ withheld'[b.driver][b.kind] >= withheld[b.driver][b.kind]
        /\ withheld'[b.driver][b.kind] \in Int /\ withheld[b.driver][b.kind] \in Int
    BY <1>1, <2>1, <2>2, SalaryAfter DEF TypeOK
  <2> QED
    BY <2>2, <2>3
<1>8. b.action = "take" => b.amount \in received'[b.item]..Price
  <2> SUFFICES ASSUME b.action = "take" PROVE b.amount \in received'[b.item]..Price
    OBVIOUS
  <2>1. b.item \in Bookings /\ b.amount \in received[b.item]..Price
    BY <1>1 DEF Proper, Covered
  <2>2. DriverOf(s) = Carrier[b.item] /\ DriverOf(s) \in Drivers /\ None \notin Drivers
    BY <2>1, DriverCases, DesksAssumption
  <2>3. ~(requests[r].body.action = "take" /\ requests[r].body.item = b.item)
    <3> SUFFICES ASSUME requests[r].body.action = "take", requests[r].body.item = b.item
                 PROVE  FALSE
      OBVIOUS
    <3>1. DriverOf(r) = Carrier[b.item]
      BY DriverCases
    <3> QED
      BY <1>2, <2>2, <3>1
  <2>4. received'[b.item] = received[b.item]
    BY <1>1, <2>1, <2>3, ReceivedAfter
  <2> QED
    BY <2>1, <2>4
<1> QED
  BY <1>3, <1>4, <1>5, <1>6, <1>7, <1>8 DEF Covered, TakesTill

\* Every other request stays in order when r commits.
LEMMA OthersAfterCommit ==
  ASSUME CashInvariant, NEW r \in Ids, NEW s \in Ids \ {r}, requests[r].pc = "covered",
         requests'[s] = requests[s], Booked(r), company = s => company' = s,
         \A d \in Drivers : locks[d] = s => locks'[d] = s
  PROVE  InOrder(s)'
<1> DEFINE b == requests[s].body
<1>1. /\ TypeOK /\ CashCovered /\ HandoversWritten /\ Proper(r) /\ Covered(r)
      /\ Recall(r) = "new" /\ InOrder(s)
  BY InvariantByRequest DEF InOrder, Working, BooksInOrder
<1>2. ASSUME Proper(s), Resolving(b)
      PROVE  /\ b.item \in Keys /\ handovers[b.item] # None /\ handovers'[b.item] # None
             /\ handovers'[b.item].driver = handovers[b.item].driver
  <2>1. b.item \in Keys /\ handovers[b.item] # None
    BY <1>2 DEF Proper
  <2> QED
    BY <1>1, <2>1, HandoversAfter
<1>3. Proper(s) => Proper(s)' /\ DriverOf(s)' = DriverOf(s) /\ DriverOf(s) \in Drivers \cup {None}
  <2> SUFFICES ASSUME Proper(s)
               PROVE  Proper(s)' /\ DriverOf(s)' = DriverOf(s)
                      /\ DriverOf(s) \in Drivers \cup {None}
    OBVIOUS
  <2>1. DriverOf(s) \in Drivers \cup {None}
    BY <1>1, DriverTyped
  <2>2. CASE Resolving(b)
    BY <1>2, <2>1, <2>2 DEF Proper, DriverOf
  <2>3. CASE ~Resolving(b)
    BY <2>1, <2>3 DEF Proper, DriverOf
  <2> QED
    BY <2>2, <2>3
<1>4. requests[s].pc \in {"driver", "covered"} => Recall(s)' = "new"
  <2> SUFFICES ASSUME requests[s].pc \in {"driver", "covered"} PROVE Recall(s)' = "new"
    OBVIOUS
  <2>1. Proper(s) /\ Recall(s) = "new"
    BY <1>1 DEF InOrder, Working
  <2>2. ~(LocksCompany(r) /\ LocksCompany(s))
    BY LocksApart
  <2>3. ASSUME Keyed(b) PROVE written'[requests[s].key] = None
    <3>1. requests[s].key \in Keys /\ written[requests[s].key] = None
      BY <2>1, <2>3, RecallCases DEF Proper
    <3>2. ~Keyed(requests[r].body)
      BY <2>2, <2>3, WhoLocksCompany
    <3> QED
      BY <1>1, <3>1, <3>2, WrittenAfter
  <2>4. ASSUME Resolving(b) PROVE handovers'[b.item].status = "pending"
    <3>1. handovers[b.item].status = "pending"
      BY <2>1, <2>4, RecallCases
    <3>2. ~Resolving(requests[r].body)
      BY <2>2, <2>4, WhoLocksCompany
    <3>3. b.item \in Keys /\ handovers[b.item] # None
      BY <1>2, <2>1, <2>4
    <3> QED
      BY <1>1, <3>1, <3>2, <3>3, HandoversAfter
  <2> QED
    BY <2>3, <2>4 DEF Recall, Known, Settled
<1>5. requests[s].pc = "covered" => Covered(s)'
  BY StillCoveredAfter
<1>6. requests[s].answer = "done" => Told(s)'
  <2> SUFFICES ASSUME requests[s].answer = "done" PROVE Told(s)'
    OBVIOUS
  <2>1. Proper(s) /\ Told(s)
    BY <1>1 DEF InOrder
  <2>2. ASSUME Keyed(b) PROVE written'[requests[s].key] = b
    <3>1. requests[s].key \in Keys /\ written[requests[s].key] = b /\ b # None
      BY <2>1, <2>2, NoneAssumption DEF Proper, Told
    <3> QED
      BY <1>1, <3>1, WrittenAfter
  <2>3. ASSUME Resolving(b) PROVE handovers'[b.item].status = Target(b.action)
    <3>1. b.item \in Keys /\ handovers[b.item] # None
      BY <1>2, <2>1, <2>3
    <3>2. handovers[b.item].status = Target(b.action) /\ Target(b.action) # "pending"
      BY <2>1, <2>3 DEF Told, Target, Resolving, Resolutions
    <3> QED
      BY <1>1, <3>1, <3>2, HandoversAfter
  <2>4. ASSUME b.action = "take" PROVE received'[b.item] >= b.amount
    <3>1. b.item \in Bookings /\ received[b.item] >= b.amount /\ b.amount \in Nat
      BY <1>1, <2>1, <2>4, AmountTyped DEF Proper, Told
    <3>2. /\ received'[b.item] >= received[b.item]
          /\ received'[b.item] \in Nat /\ received[b.item] \in Nat
      BY <1>1, <3>1, ReceivedAfter DEF TypeOK
    <3> QED
      BY <3>1, <3>2
  <2> QED
    BY <2>2, <2>3, <2>4 DEF Told
<1>7. /\ requests'[s].pc = requests[s].pc /\ requests'[s].answer = requests[s].answer
      /\ (Working(s)' <=> Working(s)) /\ (LocksCompany(s)' <=> LocksCompany(s))
  BY DEF Working, LocksCompany
<1>8. requests[s].pc \in {"driver", "covered"} => Proper(s)
  BY <1>1 DEF InOrder, Working
<1> QED
  BY <1>1, <1>3, <1>4, <1>5, <1>6, <1>7, <1>8 DEF InOrder

\* The commit itself.
LEMMA CommitKeeps ==
  ASSUME CashInvariant, NEW r \in Ids, Commit(r)
  PROVE  CashInvariant'
<1>1. /\ TypeOK /\ CashCovered /\ HandoversWritten /\ HandoversSettleOnce
      /\ Proper(r) /\ Covered(r) /\ Recall(r) = "new"
      /\ requests[r].pc = "covered" /\ Booked(r) /\ Reply(r, "done")
      /\ UNCHANGED <<desks, used>>
  BY InvariantByRequest DEF Commit, InOrder, Working, BooksInOrder
<1>2. /\ requests' \in [Ids -> Request] /\ company' \in Ids \cup {0}
      /\ locks' \in [Drivers -> Ids \cup {0}]
      /\ requests'[r] = [requests[r] EXCEPT !.pc = "answered", !.answer = "done"]
      /\ requests[r] \in Request
  BY <1>1, ReplyTyped DEF TypeOK
<1>3. TypeOK'
  <2>1. till' \in Int /\ cash' \in [Custodians -> Int]
    BY <1>1, TillAfter, CashAfter
  <2>2. owed' \in [Drivers -> Int] /\ withheld' \in [Drivers -> [Kinds -> Int]]
    BY <1>1, SalaryAfter
  <2>3. received' \in [Bookings -> Nat]
    BY <1>1, ReceivedAfter
  <2>4. handovers' \in [Keys -> Handover \cup {None}]
    BY <1>1, HandoversAfter
  <2>5. collected' \subseteq Keys
    BY <1>1, CollectedAfter
  <2>6. written' \in [Keys -> Body \cup {None}]
    BY <1>1, WrittenAfter
  <2> QED
    BY <1>1, <1>2, <2>1, <2>2, <2>3, <2>4, <2>5, <2>6 DEF TypeOK
<1>4. DialogsInOrder'
  BY <1>1 DEF CashInvariant, DialogsInOrder, Offered
<1>5. BooksInOrder'
  <2>1. CashCovered'
    BY <1>1, TillAfter, CashAfter, SalaryAfter DEF CashCovered
  <2>2. HandoversSettleOnce'
    BY <1>1, CollectedAfter
  <2>3. HandoversWritten'
    <3> SUFFICES ASSUME NEW h \in Keys, handovers'[h] # None PROVE written'[h] # None
      BY DEF HandoversWritten
    <3>1. CASE handovers[h] # None
      BY <1>1, <3>1, WrittenAfter DEF HandoversWritten
    <3>2. CASE handovers[h] = None
      BY <1>1, <3>2, HandoversAfter, WrittenAfter
    <3> QED
      BY <3>1, <3>2
  <2> QED
    BY <2>1, <2>2, <2>3 DEF BooksInOrder
<1>6. InOrder(r)'
  <2>1. /\ requests'[r].pc = "answered" /\ requests'[r].answer = "done"
        /\ requests'[r].body = requests[r].body /\ requests'[r].key = requests[r].key
        /\ requests'[r].desk = requests[r].desk
    BY <1>2 DEF Request
  <2>2. Proper(r)'
    <3>1. Resolving(requests[r].body) => handovers'[requests[r].body.item] # None
      BY <1>1, HandoversAfter DEF Proper
    <3> QED
      BY <1>1, <2>1, <3>1 DEF Proper
  <2>3. Told(r)'
    <3>1. Keyed(requests[r].body) => written'[requests[r].key] = requests[r].body
      BY <1>1, WrittenAfter
    <3>2. Resolving(requests[r].body)
            => handovers'[requests[r].body.item].status = Target(requests[r].body.action)
      BY <1>1, HandoversAfter
    <3>3. requests[r].body.action = "take"
            => received'[requests[r].body.item] >= requests[r].body.amount
      BY <1>1, ReceivedAfter, AmountTyped
    <3> QED
      BY <2>1, <3>1, <3>2, <3>3 DEF Told
  <2> QED
    BY <2>1, <2>2, <2>3 DEF InOrder
<1>7. ASSUME NEW s \in Ids \ {r} PROVE InOrder(s)'
  BY <1>1, ReplyTyped, OthersAfterCommit
<1>8. TypeOK' /\ DialogsInOrder' /\ BooksInOrder' /\ \A s \in Ids : InOrder(s)'
  BY <1>3, <1>4, <1>5, <1>6, <1>7
<1> QED
  BY <1>8 DEF CashInvariant, BooksInOrder, InOrder, RequestsInOrder, CompanyHeld, DriversHeld,
       StillNew, StillCovered, AnswerIsTrue, Told

-----------------------------------------------------------------------------
\* The theorems.

\* The books are opened with nothing promised and no request sent.
LEMMA CashInit == Init => CashInvariant
<1> SUFFICES ASSUME Init PROVE CashInvariant
  OBVIOUS
<1>1. TypeOK
  BY CashTypeInit
<1>2. DialogsInOrder
  BY DEF Init, DialogsInOrder, Idle
<1>3. BooksInOrder
  <2>1. Opening >= 0 /\ 0 >= 0
    BY BoundsAssumption
  <2>2. CashCovered
    BY <2>1 DEF Init, CashCovered
  <2>3. HandoversWritten /\ HandoversSettleOnce
    BY DEF Init, HandoversWritten, HandoversSettleOnce
  <2> QED
    BY <2>2, <2>3 DEF BooksInOrder
<1>4. ASSUME NEW r \in Ids PROVE InOrder(r)
  <2>1. requests[r].pc = "none" /\ requests[r].answer # "done"
    BY BlankTyped, NoneAssumption DEF Init
  <2> QED
    BY <2>1 DEF InOrder, Working
<1> QED
  BY <1>1, <1>2, <1>3, <1>4, InvariantByRequest

\* The cash invariant is inductive.
LEMMA CashNext == CashInvariant /\ [Next]_vars => CashInvariant'
<1> SUFFICES ASSUME CashInvariant, [Next]_vars PROVE CashInvariant'
  OBVIOUS
<1>1. TypeOK /\ DialogsInOrder /\ desks \in [Desks -> Desk] /\ used \subseteq Keys
  BY DEF CashInvariant, TypeOK
<1>2. CASE UNCHANGED vars
  <2>1. DialogsInOrder'
    BY <1>1, <1>2 DEF vars, DialogsInOrder, Offered
  <2> QED
    BY <1>1, <1>2, <2>1, PagesKeep DEF vars
<1>3. ASSUME NEW c \in Desks,
             \/ \E b \in Orders : Open(c, b) \/ OpenPayment(c, b) \/ Edit(c, b)
             \/ Cancel(c) \/ Hear(c) \/ Reloaded(c) \/ GiveUp(c)
      PROVE  CashInvariant'
  BY <1>1, <1>3, PagesTyped, PagesKeep
<1>4. ASSUME NEW c \in Desks, NEW r \in Ids, Submit(c, r)
      PROVE  CashInvariant'
  BY <1>4, SubmitKeeps
<1>5. ASSUME NEW c \in Desks, NEW r \in Ids, NEW h \in Keys, NEW a \in Resolutions,
             Resolve(c, h, a, r)
      PROVE  CashInvariant'
  BY <1>5, ResolveKeeps
<1>6. ASSUME NEW r \in Ids, NEW b \in Orders, Collect(b, r)
      PROVE  CashInvariant'
  BY <1>6, CollectKeeps
<1>7. ASSUME NEW r \in Ids,
             Enter(r) \/ Repeat(r) \/ LockDriver(r) \/ Weigh(r) \/ Commit(r) \/ Abort(r)
      PROVE  CashInvariant'
  BY <1>7, EnterKeeps, RepeatKeeps, LockDriverKeeps, WeighKeeps, CommitKeeps, AbortKeeps
<1> QED
  BY <1>2, <1>3, <1>4, <1>5, <1>6, <1>7 DEF Next

\* The invariant holds of every reachable state.
LEMMA CashInvariantHolds == Spec => []CashInvariant
BY CashInit, CashNext, PTL DEF Spec

\* The books, the locks, the requests and the pages stay typed.
THEOREM CashTypeCorrect == Spec => []TypeOK
<1>1. CashInvariant => TypeOK
  BY DEF CashInvariant
<1> QED
  BY <1>1, CashInvariantHolds, PTL

\* Whatever operations, receipts, collections and handovers run side by side, and
\* whatever is sent again, nobody gives away cash or salary that is not there.
THEOREM NobodyOverdraws == Spec => []CashCovered
<1>1. CashInvariant => CashCovered
  BY DEF CashInvariant
<1> QED
  BY <1>1, CashInvariantHolds, PTL

\* A handover's money moves exactly when it is accepted, however the decisions cross.
THEOREM HandoversSettled == Spec => []HandoversSettleOnce
<1>1. CashInvariant => HandoversSettleOnce
  BY DEF CashInvariant
<1> QED
  BY <1>1, CashInvariantHolds, PTL

\* What a page was told is recorded is in the books and stays there, with the fields
\* that were sent.
THEOREM AnswersAreTrue == Spec => []AnswerIsTrue
<1>1. CashInvariant => AnswerIsTrue
  BY DEF CashInvariant
<1> QED
  BY <1>1, CashInvariantHolds, PTL

=============================================================================
