-------------------------- MODULE OrderIntakeProofs --------------------------
(***************************************************************************)
(* What OrderIntake guarantees for every set of sales, letters and handlers,  *)
(* and that it implements OrderBook: the handlers, the keys and the effects    *)
(* are behind the book.                                                        *)
(***************************************************************************)
EXTENDS OrderIntake, Sequences, FiniteSetTheorems, TLAPS

-----------------------------------------------------------------------------
(* Type correctness *)

\* From these steps on a handler has an order in hand.
HoldSteps == {"stock", "points", "charge", "remember", "mark", "reply"}

\* A handler that is serving has a request, and later an order's id.
Serving ==
    \A h \in Handlers :
        /\ pc[h] \in Steps => req[h] \in Request
        /\ pc[h] \in HoldSteps => found[h] \in OrderIds

TypeInv == TypeOK /\ Serving /\ IsFiniteSet(orders)

LEMMA TypeInit == Init => TypeInv
BY IntakeAssumption, FS_EmptySet DEF Init, TypeInv, TypeOK, Serving, Steps, HoldSteps

LEMMA RowOfHandler ==
    ASSUME TypeInv, NEW h \in Handlers, pc[h] \in Steps
    PROVE  /\ req[h] \in Request
           /\ req[h].uuid \in Uuids
           /\ req[h].letter \in Letters
           /\ req[h].path \in Paths
BY DEF TypeInv, TypeOK, Serving, Request

LEMMA AfterStep ==
    ASSUME TypeInv, NEW h \in Handlers, pc[h] \in Steps
    PROVE  /\ AfterFinding(h) \in Steps
           /\ AfterInsertion(req[h]) \subseteq Steps
           /\ StatusAtInsertion(req[h]) \in Statuses
<1>1. req[h].path \in Paths /\ MethodOf[req[h].uuid] \in Methods
    BY RowOfHandler, IntakeAssumption
<1>2. QED
    BY <1>1 DEF AfterFinding, AfterInsertion, StatusAtInsertion, Steps, Statuses, Paths, Methods

\* A letter's orders are a finite set, so counting them gives a number.
LEMMA BookIsFinite ==
    ASSUME TypeInv, NEW l
    PROVE  IsFiniteSet(BookOf(l)) /\ Cardinality(BookOf(l)) \in Nat
<1>1. BookOf(l) \in SUBSET orders
    BY DEF BookOf
<1>2. QED
    BY <1>1, FS_Subset, FS_CardinalityType DEF TypeInv

\* The row an INSERT adds.
NewRow(h) == [uuid |-> req[h].uuid, letter |-> req[h].letter,
              number |-> seq[h], status |-> StatusAtInsertion(req[h])]

LEMMA TypeReceive ==
    ASSUME TypeInv, NEW h \in Handlers, NEW u \in Uuids, NEW l \in Letters,
           NEW p \in Paths, Receive(h, u, l, p)
    PROVE  TypeInv'
BY DEF TypeInv, TypeOK, Serving, Receive, Goto, Request, Steps, HoldSteps, effects

\* Leaving keeps the types of what a handler holds.
LEMMA TypeLeave ==
    ASSUME TypeInv, NEW h \in Handlers, Leave(h)
    PROVE  /\ pc' \in [Handlers -> Steps \cup {"idle"}]
           /\ req' \in [Handlers -> Request \cup {NoRequest}]
           /\ seq' \in [Handlers -> Nat]
           /\ found' \in [Handlers -> OrderIds \cup {None}]
           /\ Serving'
BY DEF TypeInv, TypeOK, Serving, Leave, Goto, Steps, HoldSteps

LEMMA TypeServe ==
    ASSUME TypeInv, NEW h \in Handlers, Serve(h)
    PROVE  TypeInv'
<1> USE DEF TypeInv, HoldSteps, effects
<1>1. CASE CacheHit(h)
  <2>1. pc[h] \in Steps /\ AfterFinding(h) \in Steps
      BY <1>1, AfterStep DEF CacheHit, Steps
  <2>2. found' \in [Handlers -> OrderIds \cup {None}] /\ found'[h] \in OrderIds
      BY <1>1 DEF CacheHit, RowsOf, IdOf, OrderRow, OrderIds, TypeOK
  <2> QED BY <1>1, <2>1, <2>2 DEF CacheHit, Goto, TypeOK, Serving
<1>2. CASE CacheMiss(h)
    BY <1>2 DEF CacheMiss, Stay, Goto, Steps, TypeOK, Serving
<1>3. CASE LookupFindsOrder(h)
  <2>1. pc[h] \in Steps /\ AfterFinding(h) \in Steps /\ req[h].uuid \in Uuids
      BY <1>3, AfterStep, RowOfHandler DEF LookupFindsOrder, Steps
  <2>2. found' \in [Handlers -> OrderIds \cup {None}] /\ found'[h] \in OrderIds
      BY <1>3 DEF LookupFindsOrder, RowsOf, IdOf, OrderRow, OrderIds, TypeOK
  <2> QED BY <1>3, <2>1, <2>2 DEF LookupFindsOrder, Goto, StoreKey, TypeOK, Serving
<1>4. CASE LookupFindsNothing(h)
    BY <1>4 DEF LookupFindsNothing, Stay, Goto, Steps, TypeOK, Serving
<1>5. CASE TakeNumber(h)
  <2>1. Cardinality(BookOf(req[h].letter)) + 1 \in Nat
      BY BookIsFinite
  <2> QED BY <1>5, <2>1 DEF TakeNumber, Goto, Steps, TypeOK, Serving
<1>6. CASE Insert(h)
  <2>1. pc[h] \in Steps
      BY <1>6 DEF Insert, Steps
  <2>2. NewRow(h) \in OrderRow
      BY <2>1, RowOfHandler, AfterStep DEF NewRow, OrderRow, TypeOK
  <2>3. orders' = orders \cup {NewRow(h)} /\ found' = [found EXCEPT ![h] = IdOf(NewRow(h))]
      BY <1>6 DEF Insert, NewRow
  <2>4. IdOf(NewRow(h)) \in OrderIds
      BY <2>2 DEF OrderRow, IdOf, OrderIds
  <2>5. PICK step \in Steps : pc' = [pc EXCEPT ![h] = step]
      BY <1>6, <2>1, AfterStep DEF Insert, Goto
  <2>6. IsFiniteSet(orders')
      BY <2>3, FS_AddElement
  <2>7. UNCHANGED <<effects, cached, req, seq, receipts>>
      BY <1>6 DEF Insert
  <2> QED BY <2>1, <2>2, <2>3, <2>4, <2>5, <2>6, <2>7 DEF TypeOK, Serving
<1>7. CASE InsertConflict(h)
    BY <1>7, TypeLeave DEF InsertConflict, GiveUp, TypeOK
<1>8. CASE ReduceStock(h)
    BY <1>8, RowOfHandler DEF ReduceStock, Stay, Goto, Steps, TypeOK, Serving
<1>9. CASE AwardPoints(h)
    BY <1>9, RowOfHandler DEF AwardPoints, Stay, Goto, Steps, TypeOK, Serving
<1>10. CASE Charge(h)
    BY <1>10, RowOfHandler DEF Charge, Stay, Goto, Steps, TypeOK, Serving
<1>11. CASE ChargeFails(h)
  <2>1. charges' \in [Uuids -> Nat]
      BY <1>11, RowOfHandler DEF ChargeFails, TypeOK, Steps
  <2>2. CASE Leave(h)
      BY <1>11, <2>1, <2>2, TypeLeave DEF ChargeFails, TypeOK
  <2>3. CASE Stay(h, "reply")
      BY <1>11, <2>1, <2>3 DEF ChargeFails, Stay, Goto, Steps, TypeOK, Serving
  <2> QED BY <1>11, <2>2, <2>3 DEF ChargeFails
<1>12. CASE Remember(h)
    BY <1>12, RowOfHandler DEF Remember, StoreKey, Stay, Goto, Steps, TypeOK, Serving
<1>13. CASE MarkSynced(h)
    BY <1>13, RowOfHandler DEF MarkSynced, Stay, Goto, Steps, TypeOK, Serving
<1>14. CASE Reply(h)
  <2>1. req[h].uuid \in Uuids /\ found[h] \in OrderIds
      BY <1>14, RowOfHandler DEF Reply, Steps, Serving
  <2> QED BY <1>14, <2>1, TypeLeave DEF Reply, TypeOK, Receipt
<1>15. QED
    BY <1>1, <1>2, <1>3, <1>4, <1>5, <1>6, <1>7, <1>8, <1>9, <1>10, <1>11,
       <1>12, <1>13, <1>14 DEF Serve

LEMMA TypeStep == TypeInv /\ [Next]_vars => TypeInv'
<1> SUFFICES ASSUME TypeInv, [Next]_vars PROVE TypeInv'
    OBVIOUS
<1>1. CASE UNCHANGED vars
    BY <1>1 DEF vars, TypeInv, TypeOK, Serving
<1>2. ASSUME NEW h \in Handlers, Interrupted(h) PROVE TypeInv'
    BY <1>2, TypeLeave DEF Interrupted, GiveUp, TypeInv, TypeOK, effects
<1>3. ASSUME NEW u \in Uuids, Forget(u) PROVE TypeInv'
    BY <1>3 DEF Forget, TypeInv, TypeOK, Serving, effects
<1>4. QED
    BY <1>1, <1>2, <1>3, TypeReceive, TypeServe DEF Next

\* Every column and every local variable keeps its type.
THEOREM TypeCorrect == Spec => []TypeOK
<1>1. Spec => []TypeInv
    BY TypeInit, TypeStep, PTL DEF Spec
<1>2. TypeInv => TypeOK
    BY DEF TypeInv
<1>3. QED
    BY <1>1, <1>2, PTL

-----------------------------------------------------------------------------
(* What a step leaves alone *)

HandlerStep(h) ==
    \/ \E u \in Uuids, l \in Letters, p \in Paths : Receive(h, u, l, p)
    \/ Serve(h)
    \/ Interrupted(h)

\* Orders are only ever added, and only by an INSERT.
LEMMA OrdersChange ==
    ASSUME [Next]_vars
    PROVE  UNCHANGED orders \/ \E h \in Handlers : Insert(h)
<1>1. ASSUME NEW h \in Handlers, Serve(h) PROVE UNCHANGED orders \/ Insert(h)
    BY <1>1 DEF Serve, CacheHit, CacheMiss, LookupFindsOrder, LookupFindsNothing,
       TakeNumber, InsertConflict, GiveUp, ReduceStock, AwardPoints, Charge,
       ChargeFails, Remember, MarkSynced, Reply
<1>2. QED
    BY <1>1 DEF Next, Receive, Interrupted, GiveUp, Forget, vars

\* A handler's locals are its own.
LEMMA OthersUntouched ==
    ASSUME TypeInv, NEW h \in Handlers, NEW g \in Handlers, g # h, HandlerStep(h)
    PROVE  pc'[g] = pc[g] /\ req'[g] = req[g] /\ seq'[g] = seq[g] /\ found'[g] = found[g]
<1> USE DEF TypeInv, TypeOK, Leave, Stay, Goto
<1>1. CASE Serve(h)
    BY <1>1 DEF Serve, CacheHit, CacheMiss, LookupFindsOrder, LookupFindsNothing,
       TakeNumber, Insert, InsertConflict, GiveUp, ReduceStock, AwardPoints, Charge,
       ChargeFails, Remember, MarkSynced, Reply
<1>2. QED
    BY <1>1 DEF HandlerStep, Receive, Interrupted, GiveUp

\* A step of Next is a handler's, Redis's, or none.
LEMMA StepCases ==
    ASSUME [Next]_vars
    PROVE  \/ \E h \in Handlers : HandlerStep(h)
           \/ UNCHANGED <<orders, pc, req, seq, found, receipts, effects>>
BY DEF Next, HandlerStep, Forget, vars, effects

-----------------------------------------------------------------------------
(* The order numbers *)

\* The unique constraint on client_uuid.
OneOrderPerSale == \A o, p \in orders : o.uuid = p.uuid => o = p

\* A letter's orders after the step.
NextBook(l) == {o \in orders' : o.letter = l}

\* A drawn number may have been overtaken, but never runs ahead of the count.
NumbersDrawn ==
    \A h \in Handlers :
        pc[h] = "insert" => seq[h] \in 1..(Cardinality(BookOf(req[h].letter)) + 1)

BookInv == BookIsGapless /\ OneOrderPerSale /\ NumbersDrawn

\* An INSERT that goes through extends its letter's book by the next number.
LEMMA InsertExtendsBook ==
    ASSUME TypeInv, BookInv, NEW h \in Handlers, Insert(h)
    PROVE  /\ seq[h] = Cardinality(BookOf(req[h].letter)) + 1
           /\ orders' = orders \cup {NewRow(h)}
           /\ NewRow(h) \in OrderRow
           /\ NewRow(h) \notin orders
           /\ NewRow(h).uuid = req[h].uuid
           /\ IdOf(NewRow(h)) = <<req[h].letter, seq[h]>>
           /\ \A o \in orders : o.uuid # req[h].uuid
           /\ NextBook(req[h].letter) = BookOf(req[h].letter) \cup {NewRow(h)}
           /\ Cardinality(NextBook(req[h].letter)) = Cardinality(BookOf(req[h].letter)) + 1
           /\ \A l \in Letters : l # req[h].letter => NextBook(l) = BookOf(l)
<1> DEFINE l == req[h].letter
<1>1. pc[h] = "insert" /\ pc[h] \in Steps
    BY DEF Insert, Steps
<1>2. l \in Letters /\ req[h].uuid \in Uuids /\ seq[h] \in Nat
    BY <1>1, RowOfHandler DEF TypeInv, TypeOK
<1>3. NewRow(h) \in OrderRow
    BY <1>1, <1>2, AfterStep DEF NewRow, OrderRow
<1>4. orders' = orders \cup {NewRow(h)}
    BY DEF Insert, NewRow
<1>5. NewRow(h).letter = l /\ NewRow(h).number = seq[h] /\ NewRow(h).uuid = req[h].uuid
    BY DEF NewRow
<1>6. \A o \in orders : o.uuid # req[h].uuid
    BY DEF Insert, UuidTaken, RowsOf
<1>7. seq[h] \notin {o.number : o \in BookOf(l)}
    BY DEF Insert, NumberTaken, BookOf
<1>8. Cardinality(BookOf(l)) \in Nat /\ IsFiniteSet(BookOf(l))
    BY BookIsFinite
<1>9. seq[h] = Cardinality(BookOf(l)) + 1
    BY <1>1, <1>2, <1>7, <1>8 DEF BookInv, BookIsGapless, NumbersDrawn
<1>10. NextBook(l) = BookOf(l) \cup {NewRow(h)}
    BY <1>4, <1>5 DEF BookOf, NextBook
<1>11. NewRow(h) \notin orders /\ NewRow(h) \notin BookOf(l)
    BY <1>5, <1>6 DEF BookOf
<1>12. Cardinality(NextBook(l)) = Cardinality(BookOf(l)) + 1
    BY <1>8, <1>10, <1>11, FS_AddElement
<1>13. \A m \in Letters : m # l => NextBook(m) = BookOf(m)
    BY <1>4, <1>5 DEF BookOf, NextBook
<1>14. QED
    BY <1>3, <1>4, <1>5, <1>6, <1>9, <1>10, <1>11, <1>12, <1>13 DEF IdOf

LEMMA GaplessStep ==
    ASSUME TypeInv, BookInv, [Next]_vars
    PROVE  BookIsGapless'
<1>1. CASE UNCHANGED orders
    BY <1>1 DEF BookInv, BookIsGapless, BookOf
<1>2. ASSUME NEW h \in Handlers, Insert(h) PROVE BookIsGapless'
  <2> DEFINE n == Cardinality(BookOf(req[h].letter))
  <2>1. n \in Nat
      BY BookIsFinite
  <2>2. {o.number : o \in NextBook(req[h].letter)} = 1..(n + 1)
    <3>1. {o.number : o \in NextBook(req[h].letter)}
              = {o.number : o \in BookOf(req[h].letter)} \cup {seq[h]}
      <4>1. NextBook(req[h].letter) = BookOf(req[h].letter) \cup {NewRow(h)}
          BY <1>2, InsertExtendsBook
      <4>2. NewRow(h).number = seq[h]
          BY DEF NewRow
      <4> QED BY <4>1, <4>2
    <3>2. {o.number : o \in BookOf(req[h].letter)} = 1..n
        BY <1>2, RowOfHandler DEF Insert, Steps, BookInv, BookIsGapless
    <3>3. seq[h] = n + 1
        BY <1>2, InsertExtendsBook
    <3> QED BY <2>1, <3>1, <3>2, <3>3
  <2>3. \A l \in Letters :
            {o.number : o \in NextBook(l)} = 1..Cardinality(NextBook(l))
      BY <1>2, <2>2, InsertExtendsBook DEF BookInv, BookIsGapless
  <2> QED BY <2>3 DEF BookIsGapless, NextBook, BookOf
<1>3. QED
    BY <1>1, <1>2, OrdersChange

LEMMA OneOrderStep ==
    ASSUME TypeInv, BookInv, [Next]_vars
    PROVE  OneOrderPerSale'
<1>1. CASE UNCHANGED orders
    BY <1>1 DEF BookInv, OneOrderPerSale
<1>2. ASSUME NEW h \in Handlers, Insert(h) PROVE OneOrderPerSale'
    BY <1>2, InsertExtendsBook DEF BookInv, OneOrderPerSale
<1>3. QED
    BY <1>1, <1>2, OrdersChange

\* No step makes a letter's count smaller.
LEMMA CountGrows ==
    ASSUME TypeInv, BookInv, [Next]_vars, NEW l \in Letters
    PROVE  /\ Cardinality(BookOf(l)) \in Nat
           /\ Cardinality(NextBook(l)) \in Nat
           /\ Cardinality(BookOf(l)) =< Cardinality(NextBook(l))
<1>1. Cardinality(BookOf(l)) \in Nat
    BY BookIsFinite
<1>2. CASE UNCHANGED orders
    BY <1>1, <1>2 DEF BookOf, NextBook
<1>3. ASSUME NEW h \in Handlers, Insert(h)
      PROVE  \/ Cardinality(NextBook(l)) = Cardinality(BookOf(l))
             \/ Cardinality(NextBook(l)) = Cardinality(BookOf(l)) + 1
    BY <1>3, InsertExtendsBook
<1>4. QED
    BY <1>1, <1>2, <1>3, OrdersChange

LEMMA DrawnStep ==
    ASSUME TypeInv, BookInv, [Next]_vars
    PROVE  NumbersDrawn'
<1>1. CASE UNCHANGED <<orders, pc, req, seq, found, receipts, effects>>
    BY <1>1 DEF BookInv, NumbersDrawn, BookOf
<1>2. ASSUME NEW h \in Handlers, HandlerStep(h), NEW g \in Handlers, pc'[g] = "insert"
      PROVE  seq'[g] \in 1..(Cardinality(NextBook(req'[g].letter)) + 1)
  <2>1. CASE g # h
    <3>1. pc[g] = "insert" /\ seq'[g] = seq[g] /\ req'[g] = req[g]
        BY <1>2, <2>1, OthersUntouched
    <3>2. req[g].letter \in Letters
        BY <3>1, RowOfHandler DEF Steps
    <3> DEFINE a == Cardinality(BookOf(req[g].letter))
               b == Cardinality(NextBook(req[g].letter))
    <3>3. a \in Nat /\ b \in Nat /\ a =< b
        BY <3>2, CountGrows
    <3>4. seq[g] \in 1..(a + 1)
        BY <3>1 DEF BookInv, NumbersDrawn
    <3>5. seq[g] \in 1..(b + 1)
        BY <3>3, <3>4
    <3> QED BY <3>1, <3>5
  <2>2. CASE g = h
    <3>1. TakeNumber(h)
        BY <1>2, <2>2 DEF TypeInv, TypeOK, HandlerStep, Serve, Receive, Interrupted, CacheHit,
           CacheMiss, LookupFindsOrder, LookupFindsNothing, Insert, InsertConflict,
           GiveUp, ReduceStock, AwardPoints, Charge, ChargeFails, Remember, MarkSynced, Reply, Leave, Stay, Goto,
           AfterFinding, AfterInsertion
    <3>2. Cardinality(BookOf(req[h].letter)) \in Nat
        BY BookIsFinite
    <3>3. /\ req' = req
          /\ orders' = orders
          /\ seq'[h] = Cardinality(BookOf(req[h].letter)) + 1
        BY <3>1 DEF TakeNumber, TypeInv, TypeOK
    <3>4. NextBook(req'[h].letter) = BookOf(req[h].letter)
        BY <3>3 DEF BookOf, NextBook
    <3> QED BY <2>2, <3>2, <3>3, <3>4
  <2> QED BY <2>1, <2>2
<1>3. QED
    BY <1>1, <1>2, StepCases DEF NumbersDrawn, NextBook, BookOf

LEMMA BookInit == Init => BookInv
<1> SUFFICES ASSUME Init PROVE BookInv
    OBVIOUS
<1>1. \A l : BookOf(l) = {}
    BY DEF Init, BookOf
<1>2. BookIsGapless
    BY <1>1, FS_EmptySet DEF BookIsGapless
<1>3. QED
    BY <1>2 DEF Init, BookInv, OneOrderPerSale, NumbersDrawn

\* For any number of sales, letters and concurrent requests, a letter's order
\* numbers are 1..n: the race in generateOrderNumber can cost a request its
\* answer, but can leave neither a gap nor a repetition in the book.
THEOREM NumbersAreGapless == Spec => []BookIsGapless
<1>1. TypeInv /\ BookInv /\ [Next]_vars => TypeInv' /\ BookInv'
    BY TypeStep, GaplessStep, OneOrderStep, DrawnStep DEF BookInv
<1>2. Spec => [](TypeInv /\ BookInv)
    BY <1>1, TypeInit, BookInit, PTL DEF Spec
<1>3. BookInv => BookIsGapless
    BY DEF BookInv
<1>4. QED
    BY <1>2, <1>3, PTL

-----------------------------------------------------------------------------
(* The answers and the cache *)

HasOrder(u) == \E o \in orders : o.uuid = u

\* What a handler has in hand is the order of the sale it serves.
Holding ==
    \A h \in Handlers :
        pc[h] \in HoldSteps =>
            \E o \in orders : o.uuid = req[h].uuid /\ IdOf(o) = found[h]

Answered ==
    \A r \in receipts : \E o \in orders : o.uuid = r.uuid /\ IdOf(o) = r.id

AnswerInv == Holding /\ Answered /\ CacheOnlyOfOrders

LEMMA OrdersStay ==
    ASSUME [Next]_vars
    PROVE  orders \subseteq orders'
<1>1. ASSUME NEW h \in Handlers, Insert(h) PROVE orders \subseteq orders'
    BY <1>1 DEF Insert
<1>2. QED
    BY <1>1, OrdersChange

\* How a handler comes to have an order in hand.
LEMMA HoldsAfterStep ==
    ASSUME TypeInv, AnswerInv, NEW h \in Handlers, HandlerStep(h), pc'[h] \in HoldSteps
    PROVE  \E o \in orders' : o.uuid = req'[h].uuid /\ IdOf(o) = found'[h]
<1> USE DEF TypeInv, TypeOK, Leave, Stay, Goto, HoldSteps
<1>1. CASE CacheHit(h)
    BY <1>1 DEF CacheHit, RowsOf
<1>2. CASE LookupFindsOrder(h)
    BY <1>2 DEF LookupFindsOrder, RowsOf
<1>3. CASE Insert(h)
  <2>1. NewRow(h) \in orders' /\ found'[h] = IdOf(NewRow(h)) /\ req' = req
      BY <1>3 DEF Insert, NewRow
  <2>2. NewRow(h).uuid = req[h].uuid
      BY DEF NewRow
  <2> QED BY <2>1, <2>2
<1>4. CASE pc[h] \in HoldSteps /\ req' = req /\ found' = found /\ orders' = orders
    BY <1>4 DEF AnswerInv, Holding
<1>5. CASE Serve(h) /\ ~CacheHit(h) /\ ~LookupFindsOrder(h) /\ ~Insert(h)
    BY <1>4, <1>5 DEF Serve, CacheMiss, LookupFindsNothing, TakeNumber, InsertConflict,
       GiveUp, ReduceStock, AwardPoints, Charge, ChargeFails, Remember, MarkSynced, Reply
<1>6. QED
    BY <1>1, <1>2, <1>3, <1>5 DEF HandlerStep, Receive, Interrupted, GiveUp

LEMMA HoldingStep ==
    ASSUME TypeInv, AnswerInv, [Next]_vars
    PROVE  Holding'
<1>1. CASE UNCHANGED <<orders, pc, req, seq, found, receipts, effects>>
    BY <1>1 DEF AnswerInv, Holding
<1>2. ASSUME NEW h \in Handlers, HandlerStep(h), NEW g \in Handlers, pc'[g] \in HoldSteps
      PROVE  \E o \in orders' : o.uuid = req'[g].uuid /\ IdOf(o) = found'[g]
  <2>1. CASE g = h
      BY <1>2, <2>1, HoldsAfterStep
  <2>2. CASE g # h
      BY <1>2, <2>2, OthersUntouched, OrdersStay DEF AnswerInv, Holding
  <2> QED BY <2>1, <2>2
<1>3. QED
    BY <1>1, <1>2, StepCases DEF Holding, IdOf

LEMMA AnsweredStep ==
    ASSUME TypeInv, AnswerInv, [Next]_vars
    PROVE  Answered'
<1>1. CASE UNCHANGED receipts
    BY <1>1, OrdersStay DEF AnswerInv, Answered, IdOf
<1>2. ASSUME NEW h \in Handlers, Reply(h) PROVE Answered'
  <2>1. \E o \in orders : o.uuid = req[h].uuid /\ IdOf(o) = found[h]
      BY <1>2 DEF AnswerInv, Holding, Reply, HoldSteps
  <2>2. receipts' = receipts \cup {[uuid |-> req[h].uuid, id |-> found[h]]}
      BY <1>2 DEF Reply
  <2> QED BY <2>1, <2>2, OrdersStay DEF AnswerInv, Answered, IdOf
<1>3. UNCHANGED receipts \/ \E h \in Handlers : Reply(h)
    BY DEF Next, Receive, Interrupted, GiveUp, Forget, vars, Serve, CacheHit, CacheMiss,
       LookupFindsOrder, LookupFindsNothing, TakeNumber, Insert, InsertConflict,
       ReduceStock, AwardPoints, Charge, ChargeFails, Remember, MarkSynced
<1>4. QED
    BY <1>1, <1>2, <1>3

LEMMA CacheStep ==
    ASSUME TypeInv, AnswerInv, [Next]_vars
    PROVE  CacheOnlyOfOrders'
<1>1. ASSUME NEW h \in Handlers, HasOrder(req[h].uuid), StoreKey(req[h].uuid)
      PROVE  CacheOnlyOfOrders'
    BY <1>1, OrdersStay DEF AnswerInv, CacheOnlyOfOrders, StoreKey, HasOrder
<1>2. CASE cached' \subseteq cached
    BY <1>2, OrdersStay DEF AnswerInv, CacheOnlyOfOrders
<1>3. ASSUME NEW h \in Handlers, LookupFindsOrder(h) PROVE CacheOnlyOfOrders'
    BY <1>1, <1>3 DEF LookupFindsOrder, RowsOf, HasOrder
<1>4. ASSUME NEW h \in Handlers, Remember(h) PROVE CacheOnlyOfOrders'
    BY <1>1, <1>4 DEF Remember, AnswerInv, Holding, HoldSteps, HasOrder
<1>5. \/ cached' \subseteq cached
      \/ \E h \in Handlers : LookupFindsOrder(h) \/ Remember(h)
    BY DEF Next, Receive, Interrupted, GiveUp, Forget, vars, Serve, CacheHit, CacheMiss,
       LookupFindsNothing, TakeNumber, Insert, InsertConflict, ReduceStock, AwardPoints,
       Charge, ChargeFails, MarkSynced, Reply
<1>6. QED
    BY <1>2, <1>3, <1>4, <1>5

LEMMA AnswerInit == Init => AnswerInv
BY DEF Init, AnswerInv, Holding, Answered, CacheOnlyOfOrders, HoldSteps

LEMMA IntakeInv == Spec => [](TypeInv /\ BookInv /\ AnswerInv)
<1>1. TypeInv /\ BookInv /\ AnswerInv /\ [Next]_vars => (TypeInv /\ BookInv /\ AnswerInv)'
    BY TypeStep, GaplessStep, OneOrderStep, DrawnStep, HoldingStep, AnsweredStep,
       CacheStep DEF BookInv, AnswerInv
<1>2. QED
    BY <1>1, TypeInit, BookInit, AnswerInit, PTL DEF Spec

\* However a sale is retried, duplicated or interrupted, every client that is
\* told it succeeded is told of the same, existing order.
THEOREM AnswersAlwaysAgree == Spec => []AnswersAgree
<1>1. TypeInv /\ BookInv /\ AnswerInv => AnswersAgree
    BY DEF BookInv, OneOrderPerSale, AnswerInv, Answered, AnswersAgree
<1>2. QED
    BY <1>1, IntakeInv, PTL

\* Redis never holds an idempotency key of a sale that was not recorded.
THEOREM CacheIsTruthful == Spec => []CacheOnlyOfOrders
<1>1. TypeInv /\ BookInv /\ AnswerInv => CacheOnlyOfOrders
    BY DEF AnswerInv
<1>2. QED
    BY <1>1, IntakeInv, PTL

-----------------------------------------------------------------------------
(* Stock, charges and points *)

Moved(u) == stockRuns[u] + charges[u]

\* The steps before an effect on stock or on the customer's account.
EffectSteps == {"stock", "charge"}

CompletedSale(u) == \E o \in orders : o.uuid = u /\ o.status = "completed"

\* The one handler that inserted a sale is the only one that acts on it.
OneActor ==
    \A g, h \in Handlers :
        pc[g] \in EffectSteps /\ pc[h] \in EffectSteps /\ req[g].uuid = req[h].uuid
            => g = h

NotYetMoved == \A h \in Handlers : pc[h] \in EffectSteps => Moved(req[h].uuid) = 0

StockOfCompleted == \A h \in Handlers : pc[h] = "stock" => CompletedSale(req[h].uuid)

PointsOfMembers ==
    \A h \in Handlers :
        pc[h] = "points" => req[h].uuid \in MemberSales /\ CompletedSale(req[h].uuid)

\* The unique constraint on order_number.
OneOrderPerNumber == \A o, p \in orders : IdOf(o) = IdOf(p) => o = p

EffectInv ==
    /\ EffectsAtMostOnce /\ PointsOnlyOfCompleted
    /\ OneActor /\ NotYetMoved /\ StockOfCompleted /\ PointsOfMembers
    /\ OneOrderPerNumber

LEMMA EffectInit == Init => EffectInv
BY DEF Init, EffectInv, EffectsAtMostOnce, PointsOnlyOfCompleted, OneActor, NotYetMoved,
   StockOfCompleted, PointsOfMembers, OneOrderPerNumber, EffectSteps, Moved

LEMMA NumberStep ==
    ASSUME TypeInv, BookInv, EffectInv, [Next]_vars
    PROVE  OneOrderPerNumber'
<1>1. CASE UNCHANGED orders
    BY <1>1 DEF EffectInv, OneOrderPerNumber, IdOf
<1>2. ASSUME NEW h \in Handlers, Insert(h) PROVE OneOrderPerNumber'
  <2>1. \A o \in orders : IdOf(o) # IdOf(NewRow(h))
      BY <1>2 DEF Insert, NumberTaken, NewRow, IdOf
  <2>2. orders' = orders \cup {NewRow(h)}
      BY <1>2 DEF Insert, NewRow
  <2> QED BY <2>1, <2>2 DEF EffectInv, OneOrderPerNumber, IdOf
<1>3. QED
    BY <1>1, <1>2, OrdersChange

\* A handler comes to an effect only by its own INSERT.
LEMMA ComesToEffect ==
    ASSUME TypeInv, NEW h \in Handlers, HandlerStep(h), pc'[h] \in EffectSteps
    PROVE  Insert(h)
BY DEF TypeInv, TypeOK, EffectSteps, HandlerStep, Serve, Receive, Interrupted, CacheHit,
   CacheMiss, LookupFindsOrder, LookupFindsNothing, TakeNumber, InsertConflict, GiveUp,
   ReduceStock, AwardPoints, Charge, ChargeFails, Remember, MarkSynced, Reply, Leave,
   Stay, Goto, AfterFinding

\* An effect is one step of the handler that had it before it.
LEMMA EffectChanges ==
    ASSUME TypeInv, NEW h \in Handlers, HandlerStep(h)
    PROVE  \/ UNCHANGED <<stockRuns, charges>>
           \/ /\ pc[h] \in EffectSteps
              /\ pc'[h] \notin EffectSteps
              /\ UNCHANGED orders
              /\ \/ stockRuns' = [stockRuns EXCEPT ![req[h].uuid] = @ + 1] /\ UNCHANGED charges
                 \/ charges' = [charges EXCEPT ![req[h].uuid] = @ + 1] /\ UNCHANGED stockRuns
<1> USE DEF TypeInv, TypeOK, EffectSteps, Stay, Leave, Goto
<1>1. CASE ReduceStock(h)
    BY <1>1 DEF ReduceStock
<1>2. CASE Charge(h)
    BY <1>2 DEF Charge
<1>3. CASE ChargeFails(h)
    BY <1>3 DEF ChargeFails
<1>4. QED
    BY <1>1, <1>2, <1>3 DEF HandlerStep, Serve, Receive, Interrupted, CacheHit, CacheMiss,
       LookupFindsOrder, LookupFindsNothing, TakeNumber, Insert, InsertConflict, GiveUp,
       AwardPoints, Remember, MarkSynced, Reply, effects

\* What the INSERT of a sale finds: nothing was done for it, and nobody else is
\* about to do anything.
LEMMA FreshSale ==
    ASSUME TypeInv, AnswerInv, EffectInv, NEW h \in Handlers, Insert(h)
    PROVE  /\ Moved(req[h].uuid) = 0
           /\ \A g \in Handlers : pc[g] \in EffectSteps => req[g].uuid # req[h].uuid
           /\ UNCHANGED <<stockRuns, charges, req>>
<1>1. ~HasOrder(req[h].uuid) /\ req[h].uuid \in Uuids
    BY RowOfHandler DEF Insert, UuidTaken, RowsOf, HasOrder, Steps
<1>2. stockRuns[req[h].uuid] \in Nat /\ charges[req[h].uuid] \in Nat
    BY <1>1 DEF TypeInv, TypeOK
<1>3. Moved(req[h].uuid) = 0
    BY <1>1, <1>2 DEF EffectInv, EffectsAtMostOnce, HasOrder, Moved
<1>4. \A g \in Handlers : pc[g] \in EffectSteps => HasOrder(req[g].uuid)
    BY DEF AnswerInv, Holding, HasOrder, EffectSteps, HoldSteps
<1>5. QED
    BY <1>1, <1>3, <1>4 DEF Insert, effects

LEMMA OneActorStep ==
    ASSUME TypeInv, AnswerInv, EffectInv, NEW h \in Handlers, HandlerStep(h)
    PROVE  OneActor'
<1> SUFFICES ASSUME NEW f \in Handlers, NEW g \in Handlers, pc'[f] \in EffectSteps,
                    pc'[g] \in EffectSteps, req'[f].uuid = req'[g].uuid
             PROVE  f = g
    BY DEF OneActor
<1>1. CASE f # h /\ g # h
    BY <1>1, OthersUntouched DEF EffectInv, OneActor
<1>2. CASE f = h /\ g # h
  <2>1. Insert(h) /\ pc[g] = pc'[g] /\ req[g] = req'[g]
      BY <1>2, ComesToEffect, OthersUntouched
  <2> QED BY <1>2, <2>1, FreshSale
<1>3. CASE f # h /\ g = h
  <2>1. Insert(h) /\ pc[f] = pc'[f] /\ req[f] = req'[f]
      BY <1>3, ComesToEffect, OthersUntouched
  <2> QED BY <1>3, <2>1, FreshSale
<1>4. QED
    BY <1>1, <1>2, <1>3

LEMMA NotYetMovedStep ==
    ASSUME TypeInv, AnswerInv, EffectInv, NEW h \in Handlers, HandlerStep(h)
    PROVE  NotYetMoved'
<1> SUFFICES ASSUME NEW g \in Handlers, pc'[g] \in EffectSteps
             PROVE  stockRuns'[req'[g].uuid] + charges'[req'[g].uuid] = 0
    BY DEF NotYetMoved, Moved
<1>1. CASE g = h
  <2>1. Insert(h)
      BY <1>1, ComesToEffect
  <2> QED BY <1>1, <2>1, FreshSale DEF Moved
<1>2. CASE g # h
  <2>1. pc[g] \in EffectSteps /\ req'[g] = req[g]
      BY <1>2, OthersUntouched
  <2>2. Moved(req[g].uuid) = 0
      BY <2>1 DEF EffectInv, NotYetMoved
  <2>3. req[g].uuid \in Uuids
      BY <2>1, RowOfHandler DEF EffectSteps, Steps
  <2>4. pc[h] \in EffectSteps => req[h].uuid # req[g].uuid
      BY <1>2, <2>1 DEF EffectInv, OneActor
  <2> QED BY <2>1, <2>2, <2>3, <2>4, EffectChanges DEF Moved, TypeInv, TypeOK
<1>3. QED
    BY <1>1, <1>2

LEMMA EffectsOnceStep ==
    ASSUME TypeInv, AnswerInv, EffectInv, NEW h \in Handlers, HandlerStep(h), [Next]_vars
    PROVE  EffectsAtMostOnce'
<1> SUFFICES ASSUME NEW u \in Uuids
             PROVE  /\ stockRuns'[u] + charges'[u] =< 1
                    /\ stockRuns'[u] + charges'[u] = 1 => \E o \in orders' : o.uuid = u
    BY DEF EffectsAtMostOnce
<1>1. CASE stockRuns'[u] = stockRuns[u] /\ charges'[u] = charges[u]
    BY <1>1, OrdersStay DEF EffectInv, EffectsAtMostOnce
<1>2. CASE pc[h] \in EffectSteps /\ req[h].uuid = u
  <2>1. stockRuns[u] + charges[u] = 0
      BY <1>2 DEF EffectInv, NotYetMoved, Moved
  <2>2. stockRuns[u] \in Nat /\ charges[u] \in Nat
      BY DEF TypeInv, TypeOK
  <2>3. \E o \in orders' : o.uuid = u
      BY <1>2, OrdersStay DEF AnswerInv, Holding, EffectSteps, HoldSteps
  <2>4. stockRuns'[u] + charges'[u] =< 1
      BY <1>2, <2>1, <2>2, EffectChanges DEF TypeInv, TypeOK
  <2> QED BY <2>3, <2>4
<1>3. QED
    BY <1>1, <1>2, EffectChanges DEF TypeInv, TypeOK

LEMMA CompletedStays ==
    ASSUME NEW u, CompletedSale(u), [Next]_vars
    PROVE  \E o \in orders' : o.uuid = u /\ o.status = "completed"
BY OrdersStay DEF CompletedSale

\* Only createOrder's branch for a completed order leads to the stock.
LEMMA StockStep ==
    ASSUME TypeInv, AnswerInv, EffectInv, NEW h \in Handlers, HandlerStep(h), [Next]_vars
    PROVE  StockOfCompleted'
<1> SUFFICES ASSUME NEW g \in Handlers, pc'[g] = "stock"
             PROVE  \E o \in orders' : o.uuid = req'[g].uuid /\ o.status = "completed"
    BY DEF StockOfCompleted, CompletedSale
<1>1. CASE g # h
    BY <1>1, OthersUntouched, CompletedStays DEF EffectInv, StockOfCompleted
<1>2. CASE g = h
  <2>1. Insert(h)
      BY <1>2, ComesToEffect DEF EffectSteps
  <2>2. "stock" \in AfterInsertion(req[h])
      BY <1>2, <2>1 DEF Insert, Goto, TypeInv, TypeOK
  <2>3. MethodOf[req[h].uuid] = "cash" /\ req[h].path = "online"
      BY <2>1, <2>2, RowOfHandler DEF AfterInsertion, Insert, Steps, Paths
  <2>4. NewRow(h).status = "completed" /\ NewRow(h).uuid = req[h].uuid
      BY <2>3 DEF NewRow, StatusAtInsertion
  <2>5. NewRow(h) \in orders' /\ req' = req
      BY <2>1 DEF Insert, NewRow
  <2> QED BY <1>2, <2>4, <2>5
<1>3. QED
    BY <1>1, <1>2

\* The points follow the stock of a member's completed sale, or a look at the
\* order that a sync found or created.
LEMMA PointsOfMembersStep ==
    ASSUME TypeInv, AnswerInv, EffectInv, NEW h \in Handlers, HandlerStep(h), [Next]_vars
    PROVE  PointsOfMembers'
<1> SUFFICES ASSUME NEW g \in Handlers, pc'[g] = "points"
             PROVE  /\ req'[g].uuid \in MemberSales
                    /\ \E o \in orders' : o.uuid = req'[g].uuid /\ o.status = "completed"
    BY DEF PointsOfMembers, CompletedSale
<1>1. CASE g # h
    BY <1>1, OthersUntouched, CompletedStays DEF EffectInv, PointsOfMembers
<1>2. CASE g = h
  <2>1. ReduceStock(h) \/ MarkSynced(h)
      BY <1>2, RowOfHandler DEF TypeInv, TypeOK, HandlerStep, Serve, Receive, Interrupted,
         CacheHit, CacheMiss, LookupFindsOrder, LookupFindsNothing, TakeNumber, Insert,
         InsertConflict, GiveUp, AwardPoints, Charge, ChargeFails, Remember, Reply, Leave,
         Stay, Goto, AfterFinding, AfterInsertion
  <2>2. CASE ReduceStock(h)
    <3>1. req[h].uuid \in MemberSales /\ req' = req /\ pc[h] = "stock"
        BY <1>2, <2>2 DEF ReduceStock, Stay, Goto, TypeInv, TypeOK
    <3> QED BY <1>2, <3>1, CompletedStays DEF EffectInv, StockOfCompleted
  <2>3. CASE MarkSynced(h)
    <3>1. req[h].uuid \in MemberSales /\ req' = req /\ pc[h] = "mark"
        BY <1>2, <2>3 DEF MarkSynced, Stay, Goto, TypeInv, TypeOK
    <3>2. PICK o \in orders : IdOf(o) = found[h] /\ o.status = "completed"
        BY <1>2, <2>3 DEF MarkSynced, Stay, Goto, TypeInv, TypeOK
    <3>3. PICK p \in orders : p.uuid = req[h].uuid /\ IdOf(p) = found[h]
        BY <3>1 DEF AnswerInv, Holding, HoldSteps
    <3>4. o = p
        BY <3>2, <3>3 DEF EffectInv, OneOrderPerNumber
    <3> QED BY <1>2, <3>1, <3>2, <3>3, <3>4, OrdersStay
  <2> QED BY <2>1, <2>2, <2>3
<1>3. QED
    BY <1>1, <1>2

LEMMA PointsOnlyStep ==
    ASSUME TypeInv, EffectInv, NEW h \in Handlers, HandlerStep(h), [Next]_vars
    PROVE  PointsOnlyOfCompleted'
<1>1. CASE awarded' = awarded
    BY <1>1, OrdersStay DEF EffectInv, PointsOnlyOfCompleted
<1>2. CASE AwardPoints(h)
  <2>1. req[h].uuid \in MemberSales /\ CompletedSale(req[h].uuid)
      BY <1>2 DEF AwardPoints, EffectInv, PointsOfMembers
  <2>2. awarded' \subseteq awarded \cup {req[h].uuid}
      BY <1>2 DEF AwardPoints
  <2> QED BY <2>1, <2>2, CompletedStays, OrdersStay DEF EffectInv, PointsOnlyOfCompleted
<1>3. QED
    BY <1>1, <1>2 DEF HandlerStep, Serve, Receive, Interrupted, CacheHit, CacheMiss,
       LookupFindsOrder, LookupFindsNothing, TakeNumber, Insert, InsertConflict, GiveUp,
       ReduceStock, Charge, ChargeFails, Remember, MarkSynced, Reply, effects

LEMMA EffectStep ==
    ASSUME TypeInv, BookInv, AnswerInv, EffectInv, [Next]_vars
    PROVE  EffectInv'
<1>1. CASE UNCHANGED <<orders, pc, req, seq, found, receipts, effects>>
    BY <1>1 DEF EffectInv, EffectsAtMostOnce, PointsOnlyOfCompleted, OneActor, NotYetMoved,
       StockOfCompleted, PointsOfMembers, OneOrderPerNumber, CompletedSale, Moved, IdOf, effects
<1>2. ASSUME NEW h \in Handlers, HandlerStep(h) PROVE EffectInv'
    BY <1>2, NumberStep, OneActorStep, NotYetMovedStep, EffectsOnceStep, StockStep,
       PointsOfMembersStep, PointsOnlyStep DEF EffectInv
<1>3. QED
    BY <1>1, <1>2, StepCases

LEMMA EffectsInv == Spec => [](EffectInv)
<1>1. TypeInv /\ BookInv /\ AnswerInv /\ EffectInv /\ [Next]_vars => EffectInv'
    BY EffectStep
<1>2. QED
    BY <1>1, IntakeInv, EffectInit, PTL DEF Spec

\* A sale moves stock or charges QRIS at most once, and not without an order,
\* for any number of retries, duplicates and crashes: only the handler whose
\* INSERT went through acts on it, and it acts once.
THEOREM EffectsHappenAtMostOnce == Spec => []EffectsAtMostOnce
<1>1. EffectInv => EffectsAtMostOnce
    BY DEF EffectInv
<1>2. QED
    BY <1>1, EffectsInv, PTL

\* Points are only ever given for a completed sale of a member.
THEOREM PointsAreEarned == Spec => []PointsOnlyOfCompleted
<1>1. EffectInv => PointsOnlyOfCompleted
    BY DEF EffectInv
<1>2. QED
    BY <1>1, EffectsInv, PTL

-----------------------------------------------------------------------------
(* The book: every step enters a sale, answers, or stutters. *)

\* The book of a letter, as ImplementsOrderBook maps the table to it.
Pages(l) == [n \in 1..Cardinality(BookOf(l)) |-> EntryAt(l, n)]

ImplInv == TypeInv /\ BookInv /\ AnswerInv /\ OneOrderPerNumber

LEMMA ImplementationInv == Spec => []ImplInv
<1>1. EffectInv => OneOrderPerNumber
    BY DEF EffectInv
<1>2. QED
    BY <1>1, IntakeInv, EffectsInv, PTL DEF ImplInv

LEMMA SaleOfOne == ASSUME NEW o PROVE SaleOf({o}) = o.uuid
BY DEF SaleOf

\* The entry at a number is the sale of the one order that has it.
LEMMA EntryOfOrder ==
    ASSUME ImplInv, NEW o \in orders
    PROVE  /\ o.letter \in Letters
           /\ o.number \in 1..Cardinality(BookOf(o.letter))
           /\ EntryAt(o.letter, o.number) = o.uuid
<1>1. o.letter \in Letters
    BY DEF ImplInv, TypeInv, TypeOK, OrderRow
<1>2. o \in BookOf(o.letter)
    BY DEF BookOf
<1>3. o.number \in 1..Cardinality(BookOf(o.letter))
    BY <1>1, <1>2 DEF ImplInv, BookInv, BookIsGapless
<1>4. {p \in BookOf(o.letter) : p.number = o.number} = {o}
    BY <1>2 DEF ImplInv, OneOrderPerNumber, IdOf, BookOf
<1>5. QED
    BY <1>1, <1>3, <1>4, SaleOfOne DEF EntryAt

\* Every number up to the count has an order.
LEMMA OrderAtNumber ==
    ASSUME ImplInv, NEW l \in Letters, NEW n \in 1..Cardinality(BookOf(l))
    PROVE  \E o \in orders : o.letter = l /\ o.number = n /\ EntryAt(l, n) = o.uuid
                             /\ o.uuid \in Uuids
<1>1. n \in {o.number : o \in BookOf(l)}
    BY DEF ImplInv, BookInv, BookIsGapless
<1>2. PICK o \in orders : o.letter = l /\ o.number = n
    BY <1>1 DEF BookOf
<1>3. QED
    BY <1>2, EntryOfOrder DEF ImplInv, TypeInv, TypeOK, OrderRow

LEMMA PagesAreSeq ==
    ASSUME ImplInv, NEW l \in Letters
    PROVE  /\ Pages(l) \in Seq(Uuids)
           /\ Len(Pages(l)) = Cardinality(BookOf(l))
           /\ \A n \in 1..Cardinality(BookOf(l)) : Pages(l)[n] = EntryAt(l, n)
<1> DEFINE k == Cardinality(BookOf(l))
<1>1. k \in Nat
    BY BookIsFinite DEF ImplInv
<1>2. \A n \in 1..k : EntryAt(l, n) \in Uuids
    BY OrderAtNumber
<1> HIDE DEF k
<1>3. [n \in 1..k |-> EntryAt(l, n)] \in Seq(Uuids)
    BY <1>1, <1>2
<1>4. Len([n \in 1..k |-> EntryAt(l, n)]) = k
    BY <1>1
<1>5. QED
    BY <1>3, <1>4 DEF k, Pages


NextEntryAt(l, n) == SaleOf({o \in NextBook(l) : o.number = n})

NextPages(l) == [n \in 1..Cardinality(NextBook(l)) |-> NextEntryAt(l, n)]

\* The book, and the book after a step.
LEMMA BookAsPages ==
    /\ [l \in Letters |-> [n \in 1..Cardinality(BookOf(l)) |-> EntryAt(l, n)]]
           = [l \in Letters |-> Pages(l)]
    /\ [l \in Letters |-> [n \in 1..Cardinality(BookOf(l)) |-> EntryAt(l, n)]]'
           = [l \in Letters |-> NextPages(l)]
<1>1. \A l : BookOf(l)' = NextBook(l)
    BY DEF BookOf, NextBook
<1>2. \A l, n : EntryAt(l, n)' = NextEntryAt(l, n)
    BY <1>1 DEF EntryAt, NextEntryAt
<1>3. QED
    BY <1>1, <1>2 DEF Pages, NextPages

LEMMA PagesStay ==
    ASSUME NEW l, NextBook(l) = BookOf(l)
    PROVE  NextPages(l) = Pages(l)
BY DEF NextPages, Pages, NextEntryAt, EntryAt

\* An INSERT appends its sale to its letter's book.
LEMMA InsertAppends ==
    ASSUME ImplInv, NEW h \in Handlers, Insert(h)
    PROVE  NextPages(req[h].letter) = Append(Pages(req[h].letter), req[h].uuid)
<1> DEFINE l == req[h].letter
           k == Cardinality(BookOf(l))
<1>1. l \in Letters /\ req[h].uuid \in Uuids /\ k \in Nat
    BY RowOfHandler, BookIsFinite DEF ImplInv, Insert, Steps
<1>2. /\ NextBook(l) = BookOf(l) \cup {NewRow(h)}
      /\ NewRow(h).number = k + 1 /\ NewRow(h).uuid = req[h].uuid
      /\ Cardinality(NextBook(l)) = k + 1
  <2>1. NewRow(h).number = seq[h]
      BY DEF NewRow
  <2> QED BY <2>1, InsertExtendsBook DEF ImplInv
<1>3. \A o \in BookOf(l) : o.number \in 1..k
    BY <1>1 DEF ImplInv, BookInv, BookIsGapless
<1>4. ASSUME NEW n \in 1..k PROVE NextEntryAt(l, n) = EntryAt(l, n)
  <2>1. {o \in NextBook(l) : o.number = n} = {o \in BookOf(l) : o.number = n}
      BY <1>1, <1>2, <1>4
  <2> QED BY <2>1 DEF NextEntryAt, EntryAt
<1>5. NextEntryAt(l, k + 1) = req[h].uuid
  <2>1. {o \in NextBook(l) : o.number = k + 1} = {NewRow(h)}
      BY <1>1, <1>2, <1>3
  <2> QED BY <1>2, <2>1, SaleOfOne DEF NextEntryAt
<1>6. /\ Pages(l) \in Seq(Uuids) /\ Len(Pages(l)) = k
      /\ \A n \in 1..k : Pages(l)[n] = EntryAt(l, n)
    BY <1>1, PagesAreSeq
<1>7. NextPages(l) = [n \in 1..(k + 1) |-> NextEntryAt(l, n)]
    BY <1>2 DEF NextPages
<1> DEFINE p == Pages(l)
           u == req[h].uuid
           q == NextPages(l)
<1> HIDE DEF l, k, p, u, q
<1>8. \A n \in 1..(k + 1) : NextEntryAt(l, n) \in Uuids
    BY <1>1, <1>4, <1>5, OrderAtNumber DEF k, u, l
<1>9. q \in Seq(Uuids) /\ Len(q) = k + 1 /\ \A n \in 1..(k + 1) : q[n] = NextEntryAt(l, n)
    BY <1>1, <1>7, <1>8 DEF q
<1>10. q = Append(p, u)
    BY <1>1, <1>4, <1>5, <1>6, <1>9 DEF p, u
<1>11. QED
    BY <1>10 DEF p, q, u, l

LEMMA InitialBook == Init => Book!Init
<1> SUFFICES ASSUME Init PROVE Book!Init
    OBVIOUS
<1>1. \A l : BookOf(l) = {}
    BY DEF Init, BookOf
<1>2. \A l : Pages(l) = << >>
    BY <1>1, FS_EmptySet DEF Pages
<1>3. QED
    BY <1>2, BookAsPages DEF Init, Book!Init

LEMMA BookStep == ImplInv /\ [Next]_vars => [Book!Next]_(Book!vars)
<1> SUFFICES ASSUME ImplInv, [Next]_vars PROVE [Book!Next]_(Book!vars)
    OBVIOUS
<1>1. CASE UNCHANGED <<orders, receipts>>
  <2>1. \A l : NextBook(l) = BookOf(l)
      BY <1>1 DEF NextBook, BookOf
  <2>2. [l \in Letters |-> NextPages(l)] = [l \in Letters |-> Pages(l)]
      BY <2>1, PagesStay
  <2> QED BY <1>1, <2>2, BookAsPages DEF Book!vars
<1>2. ASSUME NEW h \in Handlers, Insert(h) PROVE Book!Next
  <2> DEFINE l == req[h].letter
             u == req[h].uuid
  <2>1. l \in Letters /\ u \in Uuids
      BY <1>2, RowOfHandler DEF ImplInv, Insert, Steps
  <2>2. ~ Book!Recorded(u)
    <3>1. ASSUME NEW m \in Letters, NEW n \in 1..Len(Pages(m)) PROVE Pages(m)[n] # u
      <4>1. Len(Pages(m)) = Cardinality(BookOf(m)) /\ Pages(m)[n] = EntryAt(m, n)
          BY PagesAreSeq
      <4>2. PICK o \in orders : EntryAt(m, n) = o.uuid
          BY <4>1, OrderAtNumber
      <4> QED BY <1>2, <4>1, <4>2 DEF Insert, UuidTaken, RowsOf
    <3> QED BY <3>1, BookAsPages DEF Book!Recorded
  <2>3. \A m \in Letters : NextPages(m) = IF m = l THEN Append(Pages(l), u) ELSE Pages(m)
      BY <1>2, InsertAppends, InsertExtendsBook, PagesStay DEF ImplInv
  <2>4. [m \in Letters |-> NextPages(m)]
            = [[m \in Letters |-> Pages(m)] EXCEPT ![l] = Append(@, u)]
      BY <2>1, <2>3
  <2>5. UNCHANGED receipts
      BY <1>2 DEF Insert
  <2>6. Book!Enter(l, u)
      BY <2>2, <2>4, <2>5, BookAsPages DEF Book!Enter
  <2> QED BY <2>1, <2>6 DEF Book!Next
<1>3. ASSUME NEW h \in Handlers, Reply(h) PROVE Book!Next
  <2>1. PICK o \in orders : o.uuid = req[h].uuid /\ IdOf(o) = found[h]
      BY <1>3 DEF ImplInv, AnswerInv, Holding, Reply, HoldSteps
  <2>2. /\ o.letter \in Letters /\ o.number \in 1..Len(Pages(o.letter))
        /\ Pages(o.letter)[o.number] = o.uuid
      BY EntryOfOrder, PagesAreSeq
  <2>3. receipts' = receipts \cup {[uuid |-> o.uuid, id |-> <<o.letter, o.number>>]}
      BY <1>3, <2>1 DEF Reply, IdOf
  <2>4. [l \in Letters |-> NextPages(l)] = [l \in Letters |-> Pages(l)]
    <3>1. \A l : NextBook(l) = BookOf(l)
        BY <1>3 DEF Reply, NextBook, BookOf
    <3> QED BY <3>1, PagesStay
  <2>5. Book!Answer(o.letter, o.number)
      BY <2>2, <2>3, <2>4, BookAsPages DEF Book!Answer
  <2> QED BY <2>2, <2>5, BookAsPages DEF Book!Next
<1>4. \/ UNCHANGED <<orders, receipts>>
      \/ \E h \in Handlers : Insert(h) \/ Reply(h)
    BY DEF Next, Receive, Interrupted, GiveUp, Forget, vars, Serve, CacheHit, CacheMiss,
       LookupFindsOrder, LookupFindsNothing, TakeNumber, InsertConflict, ReduceStock,
       AwardPoints, Charge, ChargeFails, Remember, MarkSynced
<1>5. QED
    BY <1>1, <1>2, <1>3, <1>4

\* The intake implements the append-only order book: whatever is raced, retried
\* or lost, a sale is entered once, at the end of its letter's book, and
\* answers name the place it has.
THEOREM IntakeImplementsBook == Spec => ImplementsOrderBook
<1>1. QED
    BY ImplementationInv, InitialBook, BookStep, PTL DEF Spec, ImplementsOrderBook, Book!Spec
=============================================================================
