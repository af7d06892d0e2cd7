---------------------------- MODULE BooksProofs ----------------------------
(***************************************************************************)
(* What the rest of the books guarantee, for any cashiers, sales, products and*)
(* runs of the seeds: the drawer, the catalog, the seeds, the equipment and the*)
(* reports; and at last all the books side by side, as MCBooks has them.     *)
(***************************************************************************)
EXTENDS MCBooks, FiguresProofs

-----------------------------------------------------------------------------
(* The drawer: type correctness *)

\* What a request holds at its step.
TasksFit ==
    \A r \in Requests :
        /\ step[r] = "insert" => task[r] \in OpenTask
        /\ step[r] \in {"check", "sum", "write"} =>
              /\ task[r] \in CloseTask
              /\ task[r].shift \in Started

TypeInv == DrawerTypeOK /\ TasksFit

LEMMA TypeInit == DrawerInit => TypeInv
BY DrawerAssumption DEF DrawerInit, TypeInv, DrawerTypeOK, TasksFit, Shift, Sale, ShiftIds

\* A request that is answered, or goes on with what belongs to its step.
LEMMA TypeEndTask ==
    ASSUME TypeInv, NEW r \in Requests, EndTask(r), UNCHANGED shift
    PROVE  /\ step' \in [Requests -> {"idle", "insert", "check", "sum", "write"}]
           /\ task' \in [Requests -> {NoTask} \cup OpenTask \cup CloseTask]
           /\ TasksFit'
BY DEF TypeInv, DrawerTypeOK, TasksFit, EndTask, Proceed, Started

LEMMA TypeProceed ==
    ASSUME TypeInv, NEW r \in Requests, NEW at \in {"check", "sum", "write"},
           NEW t \in CloseTask, t.shift \in Started, Proceed(r, at, t), UNCHANGED shift
    PROVE  /\ step' \in [Requests -> {"idle", "insert", "check", "sum", "write"}]
           /\ task' \in [Requests -> {NoTask} \cup OpenTask \cup CloseTask]
           /\ TasksFit'
BY DEF TypeInv, DrawerTypeOK, TasksFit, Proceed, Started

LEMMA OpenHasStarted == \A s \in ShiftIds : Open(s) => s \in Started
BY DEF Open, Started

LEMMA TypePassCheck ==
    ASSUME TypeInv, NEW r \in Requests, NEW t \in CloseTask, t.shift \in Started,
           PassCheck(r, t), UNCHANGED <<shift, sale>>
    PROVE  TypeInv'
<1> DEFINE u == [t EXCEPT !.upTo = IF t.by = "cron" THEN {x \in Sales : Made(x)} ELSE @]
<1>1. u \in CloseTask /\ u.shift \in Started
    BY DEF CloseTask
<1>2. Proceed(r, "sum", u)
    BY DEF PassCheck
<1>3. contended' \subseteq ShiftIds
    BY DEF PassCheck, TypeInv, DrawerTypeOK, CloseTask
<1> HIDE DEF u
<1>4. QED
    BY <1>1, <1>2, <1>3, TypeProceed DEF TypeInv, DrawerTypeOK

\* The requests.
LEMMA TypeRequest ==
    ASSUME TypeInv, NEW r \in Requests, ShiftRequest(r) \/ (\E s \in ShiftIds : AutoFind(r, s))
    PROVE  TypeInv'
<1>1. \A by \in Closers, s \in ShiftIds :
          CloseJob(by, s) \in CloseTask /\ CloseJob(by, s).shift = s
    BY DEF CloseJob, CloseTask
<1>2. ASSUME NEW by \in Closers, NEW s \in ShiftIds, Open(s), Proceed(r, "check", CloseJob(by, s)),
             UNCHANGED <<shift, sale, contended>>
      PROVE  TypeInv'
    BY <1>1, <1>2, OpenHasStarted, TypeProceed DEF TypeInv, DrawerTypeOK
<1>3. ASSUME NEW c \in Cashiers, CloseFind(r, c) PROVE TypeInv'
  <2>1. PICK s \in OpenOf(c) : Proceed(r, "check", CloseJob("cashier", s))
      BY <1>3 DEF CloseFind
  <2>2. QED BY <1>2, <1>3, <2>1 DEF CloseFind, OpenOf, Closers
<1>4. ASSUME NEW c \in Cashiers, NEW by \in {"open", "start"}, OpenLook(r, c, by) PROVE TypeInv'
  <2>1. [by |-> by, cashier |-> c] \in OpenTask
      BY DEF OpenTask
  <2>2. QED BY <1>4, <2>1 DEF OpenLook, Proceed, TypeInv, DrawerTypeOK, TasksFit, Started
<1>5. ASSUME NEW s \in ShiftIds, ForceFind(r, s) PROVE TypeInv'
    BY <1>1, <1>5, OpenHasStarted, TypePassCheck DEF ForceFind, Closers
<1>6. ASSUME NEW s \in ShiftIds, AutoFind(r, s) PROVE TypeInv'
    BY <1>2, <1>6 DEF AutoFind, Closers
<1>7. QED
    BY <1>3, <1>4, <1>5, <1>6 DEF ShiftRequest

\* The row that is inserted, and the one that is written.
LEMMA TypeInsert ==
    ASSUME TypeInv, NEW r \in Requests, Insert(r)
    PROVE  TypeInv'
<1>1. task[r] \in OpenTask
    BY DEF Insert, TypeInv, TasksFit
<1>2. PICK s \in ShiftIds, due \in {"never", "later", "overdue"} :
          shift' = [shift EXCEPT ![s] = NewShift(task[r], due)]
    BY DEF Insert
<1>3. NewShift(task[r], due) \in Shift /\ NewShift(task[r], due).status = "open"
    BY <1>1 DEF NewShift, OpenTask, Shift
<1>4. shift' \in [ShiftIds -> Shift] /\ Started \subseteq Started'
    BY <1>2, <1>3 DEF TypeInv, DrawerTypeOK, Started
<1>5. QED
    BY <1>4 DEF Insert, EndTask, Proceed, TypeInv, DrawerTypeOK, TasksFit

LEMMA TypeWrite ==
    ASSUME TypeInv, NEW r \in Requests, Write(r)
    PROVE  TypeInv'
<1>1. task[r] \in CloseTask
    BY DEF Write, TypeInv, TasksFit
<1>2. shift' \in [ShiftIds -> Shift] /\ Started \subseteq Started'
    BY <1>1 DEF Write, TypeInv, DrawerTypeOK, Started, CloseTask, Shift
<1>3. QED
    BY <1>2 DEF Write, EndTask, Proceed, TypeInv, DrawerTypeOK, TasksFit

LEMMA TypeRequestStep ==
    ASSUME TypeInv, NEW r \in Requests, RequestStep(r) \/ Abandon(r)
    PROVE  TypeInv'
<1>1. CASE InsertRefused(r) \/ Abandon(r)
    BY <1>1, TypeEndTask DEF InsertRefused, Abandon, TypeInv, DrawerTypeOK
<1>2. CASE Check(r)
  <2>1. task[r] \in CloseTask /\ task[r].shift \in Started
      BY <1>2 DEF Check, TypeInv, TasksFit
  <2>2. QED BY <1>2, <2>1, TypeEndTask, TypePassCheck DEF Check, TypeInv, DrawerTypeOK
<1>3. CASE SumSales(r)
  <2>1. task[r] \in CloseTask /\ task[r].shift \in Started
      BY <1>3 DEF SumSales, TypeInv, TasksFit
  <2>2. PICK found \in SUBSET Sales : Proceed(r, "write", [task[r] EXCEPT !.counted = found])
      BY <1>3, <2>1 DEF SumSales, CloseTask
  <2>3. [task[r] EXCEPT !.counted = found] \in CloseTask
        /\ [task[r] EXCEPT !.counted = found].shift \in Started
      BY <2>1 DEF CloseTask
  <2>4. QED BY <1>3, <2>2, <2>3, TypeProceed DEF SumSales, TypeInv, DrawerTypeOK
<1>4. QED
    BY <1>1, <1>2, <1>3, TypeInsert, TypeWrite DEF RequestStep

\* Time and sales.
LEMMA TypeTime ==
    ASSUME TypeInv, NEW s \in ShiftIds, TimePasses(s)
    PROVE  TypeInv'
BY DEF TimePasses, TypeInv, DrawerTypeOK, TasksFit, Started, Shift

LEMMA CurrentIsAShift == \A c \in Cashiers : /\ Current(c) \in ShiftIds \cup {0}
                                             /\ Current(c) # 0 => Current(c) \in OpenOf(c)
BY DEF Current, OpenOf, ShiftIds

LEMMA TypeSale ==
    ASSUME TypeInv, NEW x \in Sales, SaleStep(x)
    PROVE  TypeInv'
<1>1. Started \subseteq ShiftIds
    BY DEF Started
<1>2. ASSUME NEW row \in Sale, sale' = [sale EXCEPT ![x] = row], UNCHANGED <<shift, step, task, contended>>
      PROVE  TypeInv'
    BY <1>2 DEF TypeInv, DrawerTypeOK, TasksFit, Started
<1>3. ASSUME NEW c \in Cashiers, NEW m \in Methods, Sell(x, c, m) PROVE TypeInv'
  <2> DEFINE calm == \A r \in Requests : ~ \E s \in OpenOf(c) : Closing(r, s)
             row == Row(c, m, IF m = "cash" THEN "completed" ELSE "pending", Current(c), calm)
  <2>1. calm \in BOOLEAN
      OBVIOUS
  <2> HIDE DEF calm
  <2>2. row \in Sale
      BY <1>1, <2>1, CurrentIsAShift, DrawerAssumption DEF Row, Sale
  <2>3. sale' = [sale EXCEPT ![x] = row]
      BY <1>3 DEF Sell, calm
  <2> HIDE DEF row
  <2>4. QED BY <1>2, <1>3, <2>2, <2>3 DEF Sell
<1>4. ASSUME NEW c \in Cashiers, SellOffline(x, c) PROVE TypeInv'
  <2> DEFINE row == [Row(c, "cash", "queued", Current(c), FALSE) EXCEPT !.since = {}]
  <2>1. row \in Sale
      BY <1>1, CurrentIsAShift DEF Row, Sale
  <2> HIDE DEF row
  <2>2. sale' = [sale EXCEPT ![x] = row]
      BY <1>4 DEF SellOffline, row
  <2>3. QED BY <1>2, <1>4, <2>1, <2>2 DEF SellOffline
<1>5. ASSUME Sync(x) PROVE TypeInv'
  <2> DEFINE row == [sale[x] EXCEPT !.state = "completed", !.since = Started]
  <2>1. row \in Sale
      BY <1>1 DEF TypeInv, DrawerTypeOK, Sale
  <2>2. sale' = [sale EXCEPT ![x] = row]
      BY <1>5 DEF Sync, TypeInv, DrawerTypeOK, Sale
  <2> HIDE DEF row
  <2>3. QED BY <1>2, <1>5, <2>1, <2>2 DEF Sync
<1>6. ASSUME NEW state \in {"completed", "voided"}, Settle(x, state) PROVE TypeInv'
    BY <1>6 DEF Settle, TypeInv, DrawerTypeOK, TasksFit, Started, Sale
<1>7. QED
    BY <1>3, <1>4, <1>5, <1>6 DEF SaleStep

LEMMA TypeNext == TypeInv /\ [DrawerNext]_drawerVars => TypeInv'
<1> SUFFICES ASSUME TypeInv, [DrawerNext]_drawerVars PROVE TypeInv'
    OBVIOUS
<1>1. CASE UNCHANGED drawerVars
    BY <1>1 DEF drawerVars, TypeInv, DrawerTypeOK, TasksFit, Started
<1>2. CASE DrawerNext
    BY <1>2, TypeRequest, TypeRequestStep, TypeTime, TypeSale DEF DrawerNext
<1>3. QED
    BY <1>1, <1>2

LEMMA DrawerKeepsItsTypes == DrawerInit /\ [][DrawerNext]_drawerVars => []DrawerTypeOK
<1>1. TypeInv => DrawerTypeOK
    BY DEF TypeInv
<1>2. QED
    BY <1>1, TypeInit, TypeNext, PTL

\* The rows, the sales and the requests keep their shape.
THEOREM TypeCorrect == DrawerSpec => []DrawerTypeOK
BY DrawerKeepsItsTypes, PTL DEF DrawerSpec

-----------------------------------------------------------------------------
(* The drawer: what a step changes *)

\* Rows of CashRegister stay, with their cashier.
LEMMA RowsStay ==
    ASSUME TypeInv, [DrawerNext]_drawerVars, NEW s \in Started
    PROVE  s \in Started' /\ shift'[s].cashier = shift[s].cashier
<1>1. ASSUME NEW r \in Requests, Insert(r) PROVE s \in Started' /\ shift'[s].cashier = shift[s].cashier
    BY <1>1 DEF Insert, Started, TypeInv, DrawerTypeOK
<1>2. ASSUME NEW r \in Requests, Write(r) PROVE s \in Started' /\ shift'[s].cashier = shift[s].cashier
    BY <1>2 DEF Write, Started, TypeInv, DrawerTypeOK, Shift
<1>3. ASSUME NEW t \in ShiftIds, TimePasses(t)
      PROVE  s \in Started' /\ shift'[s].cashier = shift[s].cashier
    BY <1>3 DEF TimePasses, Started, TypeInv, DrawerTypeOK, Shift
<1>4. CASE UNCHANGED shift
    BY <1>4 DEF Started
<1>5. QED
    BY <1>1, <1>2, <1>3, <1>4 DEF DrawerNext, drawerVars, ShiftRequest, RequestStep, SaleStep,
       OpenLook, InsertRefused, CloseFind, AutoFind, Check, ForceFind, SumSales, Abandon, Sell,
       SellOffline, Sync, Settle

\* The rows a step writes, one by one.
LEMMA RowChanges ==
    ASSUME TypeInv, [DrawerNext]_drawerVars, NEW s \in ShiftIds
    PROVE  \/ shift'[s] = shift[s]
           \/ /\ s \notin Started /\ shift'[s].status = "open" /\ shift'[s].counted = {}
              /\ Started = 1..(s - 1) /\ OpenOf(shift'[s].cashier) = {}
              /\ \A t \in ShiftIds \ {s} : shift'[t] = shift[t]
           \/ /\ Open(s) /\ shift'[s].status = "open" /\ shift'[s].counted = shift[s].counted
           \/ \E r \in Requests : /\ Write(r) /\ task[r].shift = s
                                  /\ shift'[s].status = "closed"
                                  /\ shift'[s].counted = task[r].counted
<1> DEFINE goal == \/ shift'[s] = shift[s]
                   \/ /\ s \notin Started /\ shift'[s].status = "open" /\ shift'[s].counted = {}
                      /\ Started = 1..(s - 1) /\ OpenOf(shift'[s].cashier) = {}
                      /\ \A t \in ShiftIds \ {s} : shift'[t] = shift[t]
                   \/ /\ Open(s) /\ shift'[s].status = "open" /\ shift'[s].counted = shift[s].counted
                   \/ \E r \in Requests : /\ Write(r) /\ task[r].shift = s
                                          /\ shift'[s].status = "closed"
                                          /\ shift'[s].counted = task[r].counted
<1>1. ASSUME NEW r \in Requests, Insert(r) PROVE goal
  <2>1. PICK n \in ShiftIds, due \in {"never", "later", "overdue"} :
            /\ Started = 1..(n - 1)
            /\ shift' = [shift EXCEPT ![n] = NewShift(task[r], due)]
      BY <1>1 DEF Insert
  <2>2. CASE n # s
      BY <2>1, <2>2 DEF TypeInv, DrawerTypeOK
  <2>3. CASE n = s
    <3>1. shift'[s] = NewShift(task[r], due) /\ \A t \in ShiftIds \ {s} : shift'[t] = shift[t]
        BY <2>1, <2>3 DEF TypeInv, DrawerTypeOK
    <3>2. s \notin Started
        BY <2>1, <2>3 DEF ShiftIds
    <3>3. QED
        BY <1>1, <2>1, <2>3, <3>1, <3>2 DEF Insert, NewShift, IndexAllows
  <2>4. QED BY <2>2, <2>3
<1>2. ASSUME NEW r \in Requests, Write(r) PROVE goal
  <2>1. CASE task[r].shift # s
      BY <1>2, <2>1 DEF Write, TypeInv, DrawerTypeOK
  <2>2. CASE task[r].shift = s
    <3>1. shift'[s].status = "closed" /\ shift'[s].counted = task[r].counted
        BY <1>2, <2>2 DEF Write, TypeInv, DrawerTypeOK, Shift
    <3>2. QED BY <1>2, <2>2, <3>1
  <2>3. QED BY <2>1, <2>2
<1>3. ASSUME NEW t \in ShiftIds, TimePasses(t) PROVE goal
  <2>1. CASE t # s
      BY <1>3, <2>1 DEF TimePasses, TypeInv, DrawerTypeOK
  <2>2. CASE t = s
      BY <1>3, <2>2 DEF TimePasses, TypeInv, DrawerTypeOK, Shift, Open
  <2>3. QED BY <2>1, <2>2
<1>4. CASE UNCHANGED shift
    BY <1>4
<1>5. goal
    BY <1>1, <1>2, <1>3, <1>4 DEF DrawerNext, drawerVars, ShiftRequest, RequestStep, SaleStep,
       OpenLook, InsertRefused, CloseFind, AutoFind, Check, ForceFind, SumSales, Abandon, Sell,
       SellOffline, Sync, Settle
<1>6. QED
    BY <1>5

\* A sale that has a row keeps what the sums look at, except for its state.
LEMMA SalesStay ==
    ASSUME TypeInv, [DrawerNext]_drawerVars, NEW x \in Sales, Made(x)
    PROVE  /\ Made(x)'
           /\ sale'[x].since = sale[x].since /\ sale'[x].cashier = sale[x].cashier
           /\ sale'[x].taken = sale[x].taken /\ sale'[x].calm = sale[x].calm
           /\ sale'[x].method = sale[x].method
<1> DEFINE goal == /\ Made(x)'
                   /\ sale'[x].since = sale[x].since /\ sale'[x].cashier = sale[x].cashier
                   /\ sale'[x].taken = sale[x].taken /\ sale'[x].calm = sale[x].calm
                   /\ sale'[x].method = sale[x].method
<1>1. sale \in [Sales -> Sale]
    BY DEF TypeInv, DrawerTypeOK
<1>2. ASSUME NEW y \in Sales, NEW state \in {"completed", "voided"}, Settle(y, state)
      PROVE  goal
    BY <1>1, <1>2 DEF Settle, Made, Sale
<1>3. CASE sale'[x] = sale[x]
    BY <1>3 DEF Made
<1>4. ASSUME NEW y \in Sales, SaleStep(y)
      PROVE  \/ sale'[x] = sale[x]
             \/ \E state \in {"completed", "voided"} : Settle(y, state)
    BY <1>1, <1>4 DEF SaleStep, Sell, SellOffline, Sync, Made
<1>5. goal
    BY <1>2, <1>3, <1>4 DEF DrawerNext, drawerVars, ShiftRequest, RequestStep,
       OpenLook, Insert, InsertRefused, CloseFind, AutoFind, Check, ForceFind, SumSales, Write, Abandon,
       TimePasses
<1>6. QED
    BY <1>5

\* contended only grows.
LEMMA ContendedStays ==
    ASSUME [DrawerNext]_drawerVars
    PROVE  contended \subseteq contended'
BY DEF DrawerNext, drawerVars, ShiftRequest, RequestStep, SaleStep, OpenLook, Insert,
   InsertRefused, CloseFind, AutoFind, Check, PassCheck, ForceFind, SumSales, Write, Abandon,
   TimePasses, Sell, SellOffline, Sync, Settle

\* A request that is closing a shift after a step was doing so before, has just
\* taken the sum, or has just passed the check while the shift was open.
LEMMA ClosingChanges ==
    ASSUME TypeInv, [DrawerNext]_drawerVars, NEW q \in Requests, NEW s \in ShiftIds, Closing(q, s)'
    PROVE  \/ Closing(q, s) /\ step'[q] = step[q] /\ task'[q] = task[q]
           \/ Closing(q, s) /\ SumSales(q)
           \/ \E t \in CloseTask : /\ t.shift = s /\ Open(s) /\ PassCheck(q, t)
                                   /\ UNCHANGED <<shift, sale>>
<1> DEFINE goal == \/ Closing(q, s) /\ step'[q] = step[q] /\ task'[q] = task[q]
                   \/ Closing(q, s) /\ SumSales(q)
                   \/ \E t \in CloseTask : /\ t.shift = s /\ Open(s) /\ PassCheck(q, t)
                                           /\ UNCHANGED <<shift, sale>>
<1> USE DEF Closing
<1>1. CASE step'[q] = step[q] /\ task'[q] = task[q]
    BY <1>1
<1>2. ASSUME NEW r \in Requests, NEW at \in {"idle", "insert", "check"}, NEW t, Proceed(r, at, t) PROVE goal
    BY <1>1, <1>2 DEF Proceed, TypeInv, DrawerTypeOK
<1>3. ASSUME NEW r \in Requests, EndTask(r) PROVE goal
    BY <1>2, <1>3 DEF EndTask
<1>4. ASSUME NEW r \in Requests, NEW t \in CloseTask, Open(t.shift), PassCheck(r, t),
             UNCHANGED <<shift, sale>>
      PROVE  goal
  <2>1. CASE r # q
      BY <1>1, <1>4, <2>1 DEF PassCheck, Proceed, TypeInv, DrawerTypeOK
  <2>2. CASE r = q
    <3>1. task'[q].shift = t.shift
        BY <1>4, <2>2 DEF PassCheck, Proceed, TypeInv, DrawerTypeOK, CloseTask
    <3>2. QED BY <1>4, <2>2, <3>1
  <2>3. QED BY <2>1, <2>2
<1>5. ASSUME NEW r \in Requests, Check(r) PROVE goal
    BY <1>3, <1>4, <1>5 DEF Check, TypeInv, TasksFit
<1>6. ASSUME NEW r \in Requests, NEW t \in ShiftIds, ForceFind(r, t) PROVE goal
  <2>1. CloseJob("admin", t) \in CloseTask /\ CloseJob("admin", t).shift = t
      BY DEF CloseJob, CloseTask, Closers
  <2>2. QED BY <1>4, <1>6, <2>1 DEF ForceFind
<1>7. ASSUME NEW r \in Requests, SumSales(r) PROVE goal
  <2>1. CASE r # q
      BY <1>1, <1>7, <2>1 DEF SumSales, Proceed, TypeInv, DrawerTypeOK
  <2>2. CASE r = q
    <3>1. task[q] \in CloseTask
        BY <1>7, <2>2 DEF SumSales, TypeInv, TasksFit
    <3>2. task'[q].shift = task[q].shift
        BY <1>7, <2>2, <3>1 DEF SumSales, Proceed, TypeInv, DrawerTypeOK, CloseTask
    <3>3. QED BY <1>7, <2>2, <3>2 DEF SumSales
  <2>3. QED BY <2>1, <2>2
<1>8. ASSUME NEW r \in Requests, ShiftRequest(r) \/ \E t \in ShiftIds : AutoFind(r, t) PROVE goal
    BY <1>2, <1>6, <1>8 DEF ShiftRequest, OpenLook, CloseFind, AutoFind
<1>9. ASSUME NEW r \in Requests, RequestStep(r) \/ Abandon(r) PROVE goal
    BY <1>3, <1>5, <1>7, <1>9 DEF RequestStep, Insert, InsertRefused, Write, Abandon
<1>10. goal
    BY <1>1, <1>8, <1>9 DEF DrawerNext, drawerVars, SaleStep, TimePasses, Sell, SellOffline, Sync, Settle
<1>11. QED
    BY <1>10

-----------------------------------------------------------------------------
(* One open shift *)

\* When a shift was started while another of the same cashier was there, that one
\* was closed.
Ordered ==
    \A s, t \in ShiftIds :
        Open(s) /\ t \in Started /\ t > s => shift[t].cashier # shift[s].cashier

LEMMA OrderedNext == TypeInv /\ Ordered /\ [DrawerNext]_drawerVars => Ordered'
<1> SUFFICES ASSUME TypeInv, Ordered, [DrawerNext]_drawerVars,
                    NEW s \in ShiftIds, NEW t \in ShiftIds, Open(s)', t \in Started', t > s
             PROVE  shift'[t].cashier # shift'[s].cashier
    BY DEF Ordered
<1>1. CASE s \in Started /\ t \in Started
  <2>1. Open(s)
      BY <1>1, RowChanges DEF Open, Started
  <2>2. QED BY <1>1, <2>1, RowsStay DEF Ordered
<1>2. CASE s \notin Started
  <2>1. Started = 1..(s - 1) /\ \A u \in ShiftIds \ {s} : shift'[u] = shift[u]
      BY <1>2, RowChanges DEF Open, Started
  <2>2. t \in Started
      BY <2>1 DEF Started, ShiftIds
  <2>3. QED BY <2>1, <2>2 DEF ShiftIds
<1>3. CASE s \in Started /\ t \notin Started
  <2>1. OpenOf(shift'[t].cashier) = {} /\ \A u \in ShiftIds \ {t} : shift'[u] = shift[u]
    <3>1. \A r \in Requests : Write(r) => task[r].shift \in Started
        BY DEF Write, TypeInv, TasksFit
    <3>2. shift'[t] # shift[t] /\ ~Open(t)
        BY <1>3 DEF Started, Open
    <3>3. QED BY <1>3, <3>1, <3>2, RowChanges
  <2>2. shift'[s] = shift[s]
      BY <2>1 DEF ShiftIds
  <2>3. QED BY <2>1, <2>2 DEF Open, OpenOf
<1>4. QED
    BY <1>1, <1>2, <1>3

LEMMA AtMostOne ==
    ASSUME NEW S, \A x, y \in S : x = y
    PROVE  Cardinality(S) <= 1
<1>1. CASE S = {}
    BY <1>1, FS_EmptySet
<1>2. ASSUME NEW x \in S PROVE Cardinality(S) <= 1
  <2>1. S = {x}
      BY <1>2
  <2>2. QED BY <2>1, FS_Singleton
<1>3. QED
    BY <1>1, <1>2

LEMMA OneOpen == Ordered => OneOpenShift
<1> SUFFICES ASSUME Ordered, NEW c \in Cashiers PROVE Cardinality(OpenOf(c)) <= 1
    BY DEF OneOpenShift
<1>1. ASSUME NEW s \in OpenOf(c), NEW t \in OpenOf(c) PROVE s = t
  <2>1. ~(s < t) /\ ~(t < s)
      BY OpenHasStarted DEF OpenOf, Ordered, ShiftIds
  <2>2. QED BY <2>1 DEF OpenOf, ShiftIds
<1>2. QED
    BY <1>1, AtMostOne

\* However openShift and startShift overlap, the index keeps a cashier from having
\* two open shifts.
THEOREM OnlyOneIsOpen == DrawerSpec => []OneOpenShift
<1>1. DrawerInit => Ordered
    BY DEF DrawerInit, Ordered, Open
<1>2. QED
    BY <1>1, TypeInit, TypeNext, OrderedNext, OneOpen, PTL DEF DrawerSpec

-----------------------------------------------------------------------------
(* Who closes what *)

\* Two requests that close one shift are remembered, and one that closes a shift
\* that is closed already is one of two.
Contention ==
    /\ \A q, r \in Requests, s \in ShiftIds :
          q # r /\ Closing(q, s) /\ Closing(r, s) => s \in contended
    /\ \A r \in Requests, s \in ShiftIds :
          Closing(r, s) /\ ~Open(s) => s \in contended

\* Who passes the check leaves the others where they are.
LEMMA OthersGoOn ==
    ASSUME TypeInv, NEW q \in Requests, NEW t \in CloseTask, PassCheck(q, t),
           NEW r \in Requests \ {q}, NEW s \in ShiftIds, Closing(r, s)'
    PROVE  Closing(r, s)
BY DEF PassCheck, Proceed, Closing, TypeInv, DrawerTypeOK

LEMMA ContentionNext == TypeInv /\ Contention /\ [DrawerNext]_drawerVars => Contention'
<1> SUFFICES ASSUME TypeInv, Contention, [DrawerNext]_drawerVars
             PROVE  Contention'
    OBVIOUS
<1>1. ASSUME NEW q \in Requests, NEW r \in Requests, NEW s \in ShiftIds,
             q # r, Closing(q, s)', Closing(r, s)',
             NEW t \in CloseTask, t.shift = s, PassCheck(q, t)
      PROVE  s \in contended'
  <2>1. Closing(r, s)
      BY <1>1, OthersGoOn
  <2>2. QED BY <1>1, <2>1 DEF PassCheck
<1>2. ASSUME NEW q \in Requests, NEW r \in Requests, NEW s \in ShiftIds,
             q # r, Closing(q, s)', Closing(r, s)'
      PROVE  s \in contended'
  <2>1. CASE Closing(q, s) /\ Closing(r, s)
      BY <1>2, <2>1, ContendedStays DEF Contention
  <2>2. QED
      BY <1>1, <1>2, <2>1, ClosingChanges
<1>3. ASSUME NEW r \in Requests, NEW s \in ShiftIds, Closing(r, s)', ~Open(s)'
      PROVE  s \in contended'
  <2>1. CASE Closing(r, s) /\ ~Open(s)
      BY <2>1, ContendedStays DEF Contention
  <2>2. CASE Closing(r, s) /\ Open(s)
    <3>1. PICK q \in Requests : Write(q) /\ task[q].shift = s
        BY <1>3, <2>2, RowChanges DEF Open
    <3>2. Closing(q, s) /\ q # r
        BY <1>3, <3>1 DEF Write, EndTask, Proceed, Closing, TypeInv, DrawerTypeOK
    <3>3. QED BY <2>2, <3>2, ContendedStays DEF Contention
  <2>3. CASE ~Closing(r, s)
      BY <1>3, <2>3, ClosingChanges DEF Open
  <2>4. QED BY <2>1, <2>2, <2>3
<1>4. QED
    BY <1>2, <1>3 DEF Contention

-----------------------------------------------------------------------------
(* What a shift was closed with *)

\* created_at and the cashier of a sale put it into this shift and no later one.
Belongs(s, x) ==
    /\ Made(x)
    /\ s \in sale[x].since /\ sale[x].cashier = shift[s].cashier
    /\ \A t \in sale[x].since : shift[t].cashier = shift[s].cashier => t <= s

SinceStarted == \A x \in Sales : sale[x].since \subseteq Started

\* A total has only such sales, and so has one that is about to be written,
\* unless two requests close the shift.
Counting ==
    /\ \A s \in ShiftIds : s \notin contended => \A x \in shift[s].counted : Belongs(s, x)
    /\ \A r \in Requests :
          step[r] = "write" /\ task[r].shift \notin contended
          => \A x \in task[r].counted : Belongs(task[r].shift, x)

LEMMA SinceStartedNext == TypeInv /\ SinceStarted /\ [DrawerNext]_drawerVars => SinceStarted'
<1> SUFFICES ASSUME TypeInv, SinceStarted, [DrawerNext]_drawerVars, NEW x \in Sales
             PROVE  sale'[x].since \subseteq Started'
    BY DEF SinceStarted
<1>1. Started \subseteq Started'
    BY RowsStay
<1>2. ASSUME NEW y \in Sales, SaleStep(y) PROVE sale'[x].since \subseteq Started
  <2>1. sale \in [Sales -> Sale] /\ sale[x].since \subseteq Started
      BY DEF SinceStarted, TypeInv, DrawerTypeOK
  <2>2. ASSUME NEW c \in Cashiers, NEW m \in Methods, Sell(y, c, m)
        PROVE  sale'[x].since \subseteq Started
      BY <2>1, <2>2 DEF Sell, Row
  <2>3. ASSUME NEW c \in Cashiers, SellOffline(y, c) PROVE sale'[x].since \subseteq Started
      BY <2>1, <2>3 DEF SellOffline, Row
  <2>4. ASSUME Sync(y) PROVE sale'[x].since \subseteq Started
      BY <2>1, <2>4 DEF Sync, Sale
  <2>5. ASSUME NEW state \in {"completed", "voided"}, Settle(y, state)
        PROVE  sale'[x].since \subseteq Started
      BY <2>1, <2>5 DEF Settle, Sale
  <2>6. QED BY <1>2, <2>2, <2>3, <2>4, <2>5 DEF SaleStep
<1>3. CASE UNCHANGED sale
    BY <1>1, <1>3 DEF SinceStarted
<1>4. QED
    BY <1>1, <1>2, <1>3 DEF DrawerNext, drawerVars, ShiftRequest, RequestStep, OpenLook, Insert,
       InsertRefused, CloseFind, AutoFind, Check, ForceFind, SumSales, Write, Abandon, TimePasses

LEMMA BelongsStays ==
    ASSUME TypeInv, SinceStarted, [DrawerNext]_drawerVars, NEW s \in ShiftIds, NEW x \in Sales,
           Belongs(s, x)
    PROVE  Belongs(s, x)'
<1>1. Made(x)' /\ sale'[x].since = sale[x].since /\ sale'[x].cashier = sale[x].cashier
    BY SalesStay DEF Belongs
<1>2. \A t \in sale[x].since : shift'[t].cashier = shift[t].cashier
    BY RowsStay DEF SinceStarted
<1>3. QED
    BY <1>1, <1>2 DEF Belongs

\* The sum of an open shift.
LEMMA SumBelongs ==
    ASSUME TypeInv, SinceStarted, Ordered, NEW s \in ShiftIds, Open(s),
           NEW x \in Sales, InDrawer(s, x)
    PROVE  Belongs(s, x)
<1>1. Made(x) /\ s \in sale[x].since /\ sale[x].cashier = shift[s].cashier
    BY DEF InDrawer, Made
<1>2. ASSUME NEW t \in sale[x].since, shift[t].cashier = shift[s].cashier PROVE t <= s
  <2>1. t \in Started /\ t \in ShiftIds
      BY DEF SinceStarted, Started
  <2>2. ~(t > s)
      BY <1>2, <2>1 DEF Ordered
  <2>3. QED BY <2>1, <2>2 DEF ShiftIds
<1>3. QED
    BY <1>1, <1>2 DEF Belongs

\* What the sum puts into a task.
LEMMA SumTask ==
    ASSUME TypeInv, NEW r \in Requests, SumSales(r)
    PROVE  /\ task[r] \in CloseTask
           /\ step'[r] = "write" /\ task'[r].shift = task[r].shift /\ task'[r].by = task[r].by
           /\ task'[r].upTo = task[r].upTo
           /\ \A x \in Sales : x \in task'[r].counted <=>
                  InDrawer(task[r].shift, x) /\ (task[r].by = "cron" => x \in task[r].upTo)
           /\ UNCHANGED <<shift, sale>>
<1>1. task[r] \in CloseTask
    BY DEF SumSales, TypeInv, TasksFit
<1>2. QED
    BY <1>1 DEF SumSales, Proceed, TypeInv, DrawerTypeOK, CloseTask

LEMMA CountingNext ==
    TypeInv /\ Ordered /\ SinceStarted /\ Contention /\ Counting /\ [DrawerNext]_drawerVars
    => Counting'
<1> SUFFICES ASSUME TypeInv, Ordered, SinceStarted, Contention, Counting,
                    [DrawerNext]_drawerVars
             PROVE  Counting'
    OBVIOUS
<1>1. ASSUME NEW s \in ShiftIds, s \notin contended', NEW x \in shift'[s].counted
      PROVE  Belongs(s, x)'
  <2>1. s \notin contended
      BY <1>1, ContendedStays
  <2>2. ASSUME NEW r \in Requests, Write(r), task[r].shift = s, x \in task[r].counted
        PROVE  Belongs(s, x) /\ x \in Sales
      BY <2>1, <2>2 DEF Counting, Write, TypeInv, TasksFit, CloseTask
  <2>3. ASSUME x \in shift[s].counted PROVE Belongs(s, x) /\ x \in Sales
      BY <2>1, <2>3 DEF Counting, TypeInv, DrawerTypeOK, Shift
  <2>4. Belongs(s, x) /\ x \in Sales
      BY <1>1, <2>2, <2>3, RowChanges
  <2>5. QED BY <2>4, BelongsStays
<1>2. ASSUME NEW r \in Requests, step'[r] = "write", NEW s, s = task'[r].shift,
             s \notin contended', NEW x \in task'[r].counted
      PROVE  Belongs(s, x)'
  <2>1. TypeInv'
      BY TypeNext
  <2>2. task'[r] \in CloseTask
      BY <1>2, <2>1 DEF TypeInv, TasksFit
  <2>3. s \in ShiftIds /\ x \in Sales /\ Closing(r, s)'
      BY <1>2, <2>2 DEF CloseTask, Closing
  <2>4. s \notin contended
      BY <1>2, ContendedStays
  <2>5. CASE Closing(r, s) /\ step'[r] = step[r] /\ task'[r] = task[r]
    <3>1. Belongs(s, x)
        BY <1>2, <2>4, <2>5 DEF Counting
    <3>2. QED BY <2>3, <3>1, BelongsStays
  <2>6. CASE Closing(r, s) /\ SumSales(r)
    <3>1. Open(s) /\ InDrawer(s, x)
        BY <1>2, <2>3, <2>4, <2>6, SumTask DEF Contention
    <3>2. Belongs(s, x)
        BY <2>3, <3>1, SumBelongs
    <3>3. QED BY <2>3, <3>2, BelongsStays
  <2>7. ASSUME NEW t \in CloseTask, PassCheck(r, t) PROVE FALSE
      BY <1>2, <2>7 DEF PassCheck, Proceed, TypeInv, DrawerTypeOK
  <2>8. QED BY <2>3, <2>5, <2>6, <2>7, ClosingChanges
<1>3. QED
    BY <1>1, <1>2 DEF Counting

LEMMA NothingTwice == Counting /\ TypeInv => CountedOnce
<1> SUFFICES ASSUME Counting, TypeInv, NEW s \in ShiftIds, NEW t \in ShiftIds, s # t,
                    NEW x \in shift[s].counted \cap shift[t].counted, {s, t} \cap contended = {}
             PROVE  FALSE
    BY DEF CountedOnce
<1>1. Belongs(s, x) /\ Belongs(t, x)
    BY DEF Counting
<1>2. s <= t /\ t <= s
    BY <1>1 DEF Belongs
<1>3. QED
    BY <1>2 DEF ShiftIds

LEMMA FiguresStay ==
    TypeInv /\ Contention /\ [DrawerNext]_drawerVars =>
        [\A s \in ShiftIds :
            shift[s].status = "closed" /\ s \notin contended => shift'[s] = shift[s]]_drawerVars
<1> SUFFICES ASSUME TypeInv, Contention, [DrawerNext]_drawerVars, NEW s \in ShiftIds,
                    shift[s].status = "closed", s \notin contended
             PROVE  shift'[s] = shift[s]
    OBVIOUS
<1>1. ASSUME NEW r \in Requests, Write(r), task[r].shift = s PROVE FALSE
  <2>1. Closing(r, s) /\ ~Open(s)
      BY <1>1 DEF Write, Closing, Open
  <2>2. QED BY <2>1 DEF Contention
<1>2. QED
    BY <1>1, RowChanges DEF Started, Open

-----------------------------------------------------------------------------
(* The cash of a calm sale *)

Calm(x) ==
    /\ sale[x].calm /\ sale[x].method = "cash" /\ sale[x].state = "completed"
    /\ sale[x].taken # 0

\* It belongs to the shift it was made in, which is open or has counted it; who
\* closes that shift began after the sale, and will count it or has.
CalmSales ==
    \A x \in Sales : Calm(x) =>
        /\ sale[x].taken \in sale[x].since
        /\ sale[x].cashier = shift[sale[x].taken].cashier
        /\ shift[sale[x].taken].status = "closed" => x \in shift[sale[x].taken].counted
        /\ \A r \in Requests : Closing(r, sale[x].taken) =>
              /\ task[r].by = "cron" => x \in task[r].upTo
              /\ step[r] = "write" => x \in task[r].counted

\* Cash never waits for the gateway, and what the queue holds is not called calm.
CashIsTaken ==
    \A x \in Sales : /\ sale[x].state = "pending" => sale[x].method # "cash"
                     /\ sale[x].state = "queued" => ~sale[x].calm

LEMMA CashIsTakenNext == TypeInv /\ CashIsTaken /\ [DrawerNext]_drawerVars => CashIsTaken'
<1> SUFFICES ASSUME TypeInv, CashIsTaken, [DrawerNext]_drawerVars PROVE CashIsTaken'
    OBVIOUS
<1>1. sale \in [Sales -> Sale]
    BY DEF TypeInv, DrawerTypeOK
<1>2. ASSUME NEW x \in Sales, SaleStep(x) PROVE CashIsTaken'
  <2>1. ASSUME NEW c \in Cashiers, NEW m \in Methods, Sell(x, c, m) PROVE CashIsTaken'
      BY <1>1, <2>1 DEF Sell, Row, CashIsTaken
  <2>2. ASSUME NEW c \in Cashiers, SellOffline(x, c) PROVE CashIsTaken'
      BY <1>1, <2>2 DEF SellOffline, Row, CashIsTaken
  <2>3. ASSUME Sync(x) PROVE CashIsTaken'
      BY <1>1, <2>3 DEF Sync, CashIsTaken, Sale
  <2>4. ASSUME NEW state \in {"completed", "voided"}, Settle(x, state) PROVE CashIsTaken'
      BY <1>1, <2>4 DEF Settle, CashIsTaken, Sale
  <2>5. QED BY <1>2, <2>1, <2>2, <2>3, <2>4 DEF SaleStep
<1>3. CASE UNCHANGED sale
    BY <1>3 DEF CashIsTaken
<1>4. QED
    BY <1>2, <1>3 DEF DrawerNext, drawerVars, ShiftRequest, RequestStep, OpenLook, Insert,
       InsertRefused, CloseFind, AutoFind, Check, ForceFind, SumSales, Write, Abandon, TimePasses

\* Where a calm sale comes from.
LEMMA CalmBegins ==
    ASSUME TypeInv, CashIsTaken, [DrawerNext]_drawerVars, NEW x \in Sales, Calm(x)'
    PROVE  \/ Calm(x)
           \/ \E c \in Cashiers :
                 /\ Current(c) # 0 /\ \A r \in Requests : ~ \E s \in OpenOf(c) : Closing(r, s)
                 /\ sale'[x].taken = Current(c) /\ sale'[x].since = Started
                 /\ sale'[x].cashier = c
                 /\ UNCHANGED <<shift, step, task>>
<1> DEFINE goal == \/ Calm(x)
                   \/ \E c \in Cashiers :
                         /\ Current(c) # 0 /\ \A r \in Requests : ~ \E s \in OpenOf(c) : Closing(r, s)
                         /\ sale'[x].taken = Current(c) /\ sale'[x].since = Started
                         /\ sale'[x].cashier = c
                         /\ UNCHANGED <<shift, step, task>>
<1>1. sale \in [Sales -> Sale]
    BY DEF TypeInv, DrawerTypeOK
<1>2. CASE sale'[x] = sale[x]
    BY <1>2 DEF Calm
<1>3. ASSUME NEW c \in Cashiers, NEW m \in Methods, Sell(x, c, m) PROVE goal
  <2> DEFINE calm == \A r \in Requests : ~ \E s \in OpenOf(c) : Closing(r, s)
  <2>1. sale'[x] = Row(c, m, IF m = "cash" THEN "completed" ELSE "pending", Current(c), calm)
      BY <1>1, <1>3 DEF Sell
  <2>2. /\ sale'[x].taken = Current(c) /\ sale'[x].since = Started
        /\ sale'[x].cashier = c /\ sale'[x].calm = calm
      BY <2>1 DEF Row
  <2>3. calm /\ Current(c) # 0
      BY <2>2 DEF Calm
  <2>4. QED BY <1>3, <2>2, <2>3 DEF Sell
<1>4. ASSUME NEW c \in Cashiers, SellOffline(x, c) PROVE goal
    BY <1>1, <1>4 DEF SellOffline, Row, Calm
<1>5. ASSUME Sync(x) PROVE goal
    BY <1>1, <1>5 DEF Sync, Calm, CashIsTaken, Sale
<1>6. ASSUME NEW state \in {"completed", "voided"}, Settle(x, state) PROVE goal
    BY <1>1, <1>6 DEF Settle, Calm, CashIsTaken, Sale
<1>7. ASSUME NEW y \in Sales, SaleStep(y) PROVE goal
  <2>1. CASE y # x
    <3>1. sale'[x] = sale[x]
        BY <1>1, <1>7, <2>1 DEF SaleStep, Sell, SellOffline, Sync, Settle
    <3>2. QED BY <1>2, <3>1
  <2>2. CASE y = x
      BY <1>3, <1>4, <1>5, <1>6, <1>7, <2>2 DEF SaleStep
  <2>3. QED BY <2>1, <2>2
<1>8. goal
    BY <1>2, <1>7 DEF DrawerNext, drawerVars, ShiftRequest, RequestStep, OpenLook, Insert,
       InsertRefused, CloseFind, AutoFind, Check, ForceFind, SumSales, Write, Abandon, TimePasses
<1>9. QED
    BY <1>8

\* What passing the check puts into a task.
LEMMA CheckTask ==
    ASSUME TypeInv, NEW r \in Requests, NEW t \in CloseTask, PassCheck(r, t)
    PROVE  /\ step'[r] = "sum" /\ task'[r].by = t.by
           /\ t.by = "cron" => task'[r].upTo = {x \in Sales : Made(x)}
BY DEF PassCheck, Proceed, TypeInv, DrawerTypeOK, CloseTask

LEMMA CalmSalesNext ==
    TypeInv /\ SinceStarted /\ CashIsTaken /\ CalmSales /\ [DrawerNext]_drawerVars => CalmSales'
<1> SUFFICES ASSUME TypeInv, SinceStarted, CashIsTaken, CalmSales, [DrawerNext]_drawerVars,
                    NEW x \in Sales, Calm(x)', NEW s, s = sale'[x].taken
             PROVE  /\ s \in sale'[x].since
                    /\ sale'[x].cashier = shift'[s].cashier
                    /\ shift'[s].status = "closed" => x \in shift'[s].counted
                    /\ \A r \in Requests : Closing(r, s)' =>
                          /\ task'[r].by = "cron" => x \in task'[r].upTo
                          /\ step'[r] = "write" => x \in task'[r].counted
    BY DEF CalmSales
<1>1. CASE ~Calm(x)
  <2>1. PICK c \in Cashiers :
            /\ Current(c) # 0 /\ \A r \in Requests : ~ \E u \in OpenOf(c) : Closing(r, u)
            /\ s = Current(c) /\ sale'[x].since = Started /\ sale'[x].cashier = c
            /\ UNCHANGED <<shift, step, task>>
      BY <1>1, CalmBegins
  <2>2. s \in OpenOf(c) /\ s \in ShiftIds /\ Open(s) /\ shift[s].cashier = c
      BY <2>1, CurrentIsAShift DEF OpenOf
  <2>3. s \in Started
      BY <2>2, OpenHasStarted
  <2>4. \A r \in Requests : ~Closing(r, s)'
      BY <2>1, <2>2 DEF Closing
  <2>5. QED BY <2>1, <2>2, <2>3, <2>4 DEF Open
<1>2. CASE Calm(x)
  <2>1. Made(x)
      BY <1>2 DEF Calm, Made
  <2>2. s = sale[x].taken /\ sale'[x].since = sale[x].since /\ sale'[x].cashier = sale[x].cashier
      BY <2>1, SalesStay
  <2>3. s \in sale[x].since /\ sale[x].cashier = shift[s].cashier /\ s \in Started /\ s \in ShiftIds
      BY <1>2, <2>2 DEF CalmSales, SinceStarted, Started
  <2>4. shift'[s].cashier = shift[s].cashier
      BY <2>3, RowsStay
  <2>5. \A r \in Requests : Closing(r, s) =>
            /\ task[r].by = "cron" => x \in task[r].upTo
            /\ step[r] = "write" => x \in task[r].counted
      BY <1>2, <2>2 DEF CalmSales
  <2>6. ASSUME shift'[s].status = "closed" PROVE x \in shift'[s].counted
    <3>1. ASSUME NEW r \in Requests, Write(r), task[r].shift = s,
                 shift'[s].counted = task[r].counted
          PROVE  x \in shift'[s].counted
        BY <2>5, <3>1 DEF Write, Closing
    <3>2. CASE shift'[s] = shift[s]
        BY <1>2, <2>2, <2>6, <3>2 DEF CalmSales
    <3>3. QED BY <2>3, <2>6, <3>1, <3>2, RowChanges
  <2>7. ASSUME NEW r \in Requests, Closing(r, s)'
        PROVE  /\ task'[r].by = "cron" => x \in task'[r].upTo
               /\ step'[r] = "write" => x \in task'[r].counted
    <3>1. CASE Closing(r, s) /\ step'[r] = step[r] /\ task'[r] = task[r]
        BY <2>5, <3>1
    <3>2. CASE Closing(r, s) /\ SumSales(r)
      <4>1. InDrawer(s, x)
          BY <1>2, <2>3 DEF Calm, InDrawer
      <4>2. task[r].shift = s
          BY <3>2 DEF Closing
      <4>3. QED BY <2>5, <3>2, <4>1, <4>2, SumTask
    <3>3. ASSUME NEW t \in CloseTask, PassCheck(r, t)
          PROVE  /\ task'[r].by = "cron" => x \in task'[r].upTo
                 /\ step'[r] # "write"
        BY <2>1, <3>3, CheckTask
    <3>4. QED BY <2>3, <2>7, <3>1, <3>2, <3>3, ClosingChanges
  <2>8. QED BY <2>2, <2>3, <2>4, <2>6, <2>7
<1>3. QED
    BY <1>1, <1>2

-----------------------------------------------------------------------------
DrawerInv ==
    /\ TypeInv /\ Ordered /\ SinceStarted /\ Contention /\ Counting /\ CashIsTaken /\ CalmSales

LEMMA DrawerInvInit == DrawerInit => DrawerInv
<1> SUFFICES ASSUME DrawerInit PROVE DrawerInv
    OBVIOUS
<1>1. TypeInv
    BY TypeInit
<1>2. Ordered /\ Contention
    BY DEF DrawerInit, Ordered, Contention, Closing, Open
<1>3. SinceStarted /\ Counting /\ CashIsTaken /\ CalmSales
    BY DEF DrawerInit, SinceStarted, Counting, CashIsTaken, CalmSales, Calm
<1>4. QED
    BY <1>1, <1>2, <1>3 DEF DrawerInv

LEMMA DrawerInvNext == DrawerInv /\ [DrawerNext]_drawerVars => DrawerInv'
BY TypeNext, OrderedNext, SinceStartedNext, ContentionNext, CountingNext, CashIsTakenNext,
   CalmSalesNext DEF DrawerInv

LEMMA CalmIsCounted == CalmSales => CalmSalesAreCounted
BY DEF CalmSales, CalmSalesAreCounted, Calm

\* However cashier, cron and admin close shifts while sales go on: no sale is in
\* the totals of two shifts unless two of them closed one at once, a cash sale made
\* while nobody was closing is in the total of its shift, and a total is final.
THEOREM MoneyIsCounted == DrawerSpec => MoneyIsCountedOnce
<1>1. DrawerInv => CountedOnce /\ CalmSalesAreCounted
    BY NothingTwice, CalmIsCounted DEF DrawerInv
<1>2. DrawerInv /\ [DrawerNext]_drawerVars =>
          [\A s \in ShiftIds :
              shift[s].status = "closed" /\ s \notin contended => shift'[s] = shift[s]]_drawerVars
    BY FiguresStay DEF DrawerInv
<1>3. QED
    BY <1>1, <1>2, DrawerInvInit, DrawerInvNext, PTL
       DEF DrawerSpec, MoneyIsCountedOnce, FiguresAreFinal

-----------------------------------------------------------------------------
(* The catalog *)

\* A logged change is of a product, to a price that was given.
ChangesAreGiven ==
    \A r \in Editors : edit[r].at = "log" => edit[r].entry \in ProductRows /\ edit[r].price # Same

\* A product belongs to itself.
ProductsAreTheirOwn == \A p \in ProductRows : There(p) => entry[p].of = p

\* A product nobody disturbed has one request at most, whose row is as it was read.
OneEditEach ==
    \A r \in Editors : edit[r] # NoEdit /\ edit[r].entry \notin disturbed /\ edit[r].entry \in ProductRows =>
        /\ \A q \in Editors : edit[q] # NoEdit /\ edit[q].entry = edit[r].entry => q = r
        /\ There(edit[r].entry)
        /\ edit[r].at \in {"log", "write"} => edit[r].read = entry[edit[r].entry]

LastPrice(p) == priceLog[p][Len(priceLog[p])].to

Writing(r, p) == edit[r].at = "write" /\ edit[r].entry = p

\* The last change logged is that of the row, or of the request about to write it.
LogLeads ==
    \A p \in ProductRows \ disturbed : There(p) /\ Len(priceLog[p]) > 0 =>
        /\ \A r \in Editors : Writing(r, p) => LastPrice(p) = Merged(edit[r].price, edit[r].read.price)
        /\ (\A r \in Editors : ~Writing(r, p)) => LastPrice(p) = entry[p].price

CatalogInv ==
    /\ CatalogTypeOK /\ ChangesAreGiven /\ ProductsAreTheirOwn /\ OneEditEach /\ LogLeads
    /\ SoldProductStays /\ DeletedStaysHidden

\* What the step of a request says of the record it holds.
LEMMA EditKinds ==
    ASSUME CatalogTypeOK, NEW r \in Editors
    PROVE  /\ NotEditing(r) <=> edit[r].at = "idle"
           /\ edit[r].at \in {"log", "write"} => edit[r] \in Edit
           /\ edit[r].at \in {"hide", "drop"} => edit[r] \in Removal
           /\ ~NotEditing(r) => edit[r].entry \in CatalogRows
BY DEF CatalogTypeOK, NotEditing, NoEdit, Edit, Removal, CatalogRows

LEMMA ItemKinds ==
    ASSUME CatalogTypeOK, NEW i \in BasketItems
    PROVE  /\ item[i].state = "none" <=> item[i] = NoItem
           /\ item[i].state # "none" => item[i] \in Item
BY DEF CatalogTypeOK, NoItem, Item

LEMMA EntryKinds ==
    ASSUME CatalogTypeOK, NEW e \in CatalogRows
    PROVE  /\ There(e) => entry[e] \in Entry
           /\ ~There(e) => entry[e] = NoEntry
<1>1. CASE entry[e] = NoEntry
    BY <1>1 DEF NoEntry, There
<1>2. CASE entry[e] \in Entry
    BY <1>2 DEF Entry, There
<1>3. QED
    BY <1>1, <1>2 DEF CatalogTypeOK

LEMMA CatalogInvInit == CatalogInit => CatalogInv
BY CatalogAssumption DEF CatalogInit, CatalogInv, CatalogTypeOK, ChangesAreGiven, ProductsAreTheirOwn,
    OneEditEach, LogLeads, SoldProductStays, DeletedStaysHidden, NoEdit, NoEntry, NoItem, There,
    CatalogRows

LEMMA CreateKeeps ==
    ASSUME CatalogInv, NEW e \in CatalogRows, NEW p \in ProductRows, NEW price \in Prices, Create(e, p, price)
    PROVE  CatalogInv'
<1> DEFINE new == [there |-> TRUE, price |-> price, active |-> TRUE, of |-> p, hidden |-> FALSE]
<1>1. new \in Entry
    BY DEF Entry
<1>2. entry' = [entry EXCEPT ![e] = new] /\ ~There(e)
    BY DEF Create
<1>3. UNCHANGED <<priceLog, edit, item, disturbed>> /\ (e \in ProductRows => e = p /\ priceLog[p] = <<>> /\ e \notin disturbed)
    BY DEF Create
<1>4. new.there = TRUE /\ new.of = p /\ new.hidden = FALSE
    OBVIOUS
<1> HIDE DEF new
<1>5. CatalogTypeOK'
    BY <1>1, <1>2, <1>3 DEF CatalogInv, CatalogTypeOK
<1>6. \A f \in CatalogRows : There(f)' <=> There(f) \/ f = e
    BY <1>2, <1>4 DEF There, CatalogInv, CatalogTypeOK
<1>7. \A f \in CatalogRows : f # e => entry'[f] = entry[f]
    BY <1>2 DEF CatalogInv, CatalogTypeOK
<1>8. entry'[e] = new
    BY <1>2 DEF CatalogInv, CatalogTypeOK
<1>9. ChangesAreGiven' /\ ProductsAreTheirOwn'
    BY <1>3, <1>4, <1>6, <1>7, <1>8 DEF CatalogInv, ChangesAreGiven, ProductsAreTheirOwn, CatalogRows, There
<1>10. OneEditEach'
    BY <1>2, <1>3, <1>6, <1>7 DEF CatalogInv, OneEditEach, CatalogRows, There
<1>11. LogLeads'
    BY <1>2, <1>3, <1>6, <1>7 DEF CatalogInv, LogLeads, CatalogRows, There, LastPrice, Writing
<1>12. SoldProductStays' /\ DeletedStaysHidden'
  <2>1. \A i \in BasketItems : item[i].state = "sold" => item[i].product \in CatalogRows
    BY ItemKinds DEF CatalogInv, Item, CatalogRows
  <2>2. QED
    BY <1>3, <1>4, <1>6, <1>7, <1>8, <2>1 DEF CatalogInv, SoldProductStays, DeletedStaysHidden, There, CatalogRows
<1>13. QED
    BY <1>5, <1>9, <1>10, <1>11, <1>12 DEF CatalogInv

\* A request that begins at a row others are at disturbs it.
LEMMA BeginsKeep ==
    ASSUME CatalogInv, NEW r \in Editors, NEW e \in CatalogRows, NEW new \in Edit \cup Removal,
           NotEditing(r), There(e), new.entry = e, edit' = [edit EXCEPT ![r] = new],
           disturbed' = IF \E q \in Editors : edit[q] # NoEdit /\ edit[q].entry = e
                        THEN disturbed \cup {e} ELSE disturbed,
           new.at = "log" => Logs(e, entry[e].price, new.price),
           new.at \in {"log", "write"} => new.read = entry[e],
           new.at = "write" => ~Logs(e, entry[e].price, new.price),
           UNCHANGED <<entry, priceLog, item>>
    PROVE  CatalogInv'
<1>1. CatalogTypeOK'
    BY DEF CatalogInv, CatalogTypeOK
<1>2. edit'[r] = new /\ \A q \in Editors : q # r => edit'[q] = edit[q]
    BY DEF CatalogInv, CatalogTypeOK
<1>3. disturbed \subseteq disturbed'
    OBVIOUS
<1>4. \A f \in CatalogRows : There(f)' <=> There(f)
    BY DEF There
<1>5. ChangesAreGiven' /\ ProductsAreTheirOwn' /\ SoldProductStays' /\ DeletedStaysHidden'
  <2>1. ChangesAreGiven'
    BY <1>2 DEF CatalogInv, ChangesAreGiven, Logs
  <2>2. ProductsAreTheirOwn'
    BY <1>4 DEF CatalogInv, ProductsAreTheirOwn, There
  <2>3. SoldProductStays'
    BY <1>4 DEF CatalogInv, SoldProductStays, There
  <2>4. DeletedStaysHidden'
    BY <1>3, <1>4 DEF CatalogInv, DeletedStaysHidden, There
  <2>5. QED
    BY <2>1, <2>2, <2>3, <2>4
<1>6. e \notin disturbed' => \A q \in Editors : edit[q] # NoEdit => edit[q].entry # e
    OBVIOUS
<1>7. OneEditEach'
  <2> SUFFICES ASSUME NEW q \in Editors, edit'[q] # NoEdit, edit'[q].entry \notin disturbed', edit'[q].entry \in ProductRows
               PROVE  /\ \A k \in Editors : edit'[k] # NoEdit /\ edit'[k].entry = edit'[q].entry => k = q
                      /\ entry'[edit'[q].entry].there
                      /\ edit'[q].at \in {"log", "write"} => edit'[q].read = entry'[edit'[q].entry]
    BY DEF OneEditEach, There, NoEdit
  <2>1. CASE q = r
    BY <1>2, <1>6, <2>1 DEF There
  <2>2. CASE q # r
    BY <1>2, <1>3, <1>6, <2>2 DEF There, CatalogInv, OneEditEach
  <2>3. QED
    BY <2>1, <2>2
<1>8. LogLeads'
  <2> SUFFICES ASSUME NEW p \in ProductRows \ disturbed', There(p)', Len(priceLog'[p]) > 0
               PROVE  /\ \A q \in Editors : Writing(q, p)' => LastPrice(p)' = Merged(edit[q].price, edit[q].read.price)'
                      /\ (\A q \in Editors : ~Writing(q, p)') => LastPrice(p)' = entry'[p].price
    BY DEF LogLeads
  <2>1. There(p) /\ LastPrice(p)' = LastPrice(p) /\ p \notin disturbed /\ Len(priceLog[p]) > 0 /\ entry'[p] = entry[p]
    BY <1>3 DEF There, LastPrice
  <2>2. CASE e = p
    <3>1. LastPrice(p) = entry[p].price
        BY <1>6, <2>1, <2>2 DEF LogLeads, CatalogInv, Writing, NoEdit
    <3>2. new.at = "write" => Merged(new.price, new.read.price) = entry[p].price
        BY <2>2 DEF Merged, Logs
    <3>3. \A q \in Editors : Writing(q, p)' => q = r /\ new.at = "write"
        BY <1>2, <1>6, <2>2 DEF Writing, NoEdit
    <3>4. QED
        BY <1>2, <2>1, <2>2, <3>1, <3>2, <3>3 DEF Merged, Writing
  <2>3. CASE e # p
    <3>1. \A q \in Editors : Writing(q, p)' <=> Writing(q, p)
        BY <1>2, <2>3 DEF Writing, NotEditing, NoEdit
    <3>2. \A q \in Editors : Writing(q, p) => edit'[q] = edit[q]
        BY <1>2, <2>3 DEF Writing, NotEditing, NoEdit
    <3>3. QED
        BY <2>1, <3>1, <3>2 DEF LogLeads, CatalogInv, Merged
  <2>4. QED
    BY <2>2, <2>3
<1>9. QED
    BY <1>1, <1>5, <1>7, <1>8 DEF CatalogInv

LEMMA BeginEditKeeps ==
    ASSUME CatalogInv, NEW r \in Editors, NEW e \in CatalogRows, NEW price \in Prices \cup {Same},
           NEW active \in BOOLEAN \cup {Same}, BeginEdit(r, e, price, active)
    PROVE  CatalogInv'
<1> DEFINE new == [at |-> IF Logs(e, entry[e].price, price) THEN "log" ELSE "write",
                   entry |-> e, read |-> entry[e], price |-> price, active |-> active]
<1>1. new \in Edit
    BY EntryKinds DEF Edit, BeginEdit, CatalogInv
<1>2. /\ new.entry = e /\ new.read = entry[e] /\ new.price = price
      /\ new.at = "log" <=> Logs(e, entry[e].price, price)
      /\ new.at = "write" <=> ~Logs(e, entry[e].price, price)
    OBVIOUS
<1>3. edit' = [edit EXCEPT ![r] = new]
    BY DEF BeginEdit
<1> HIDE DEF new
<1>4. QED
    BY <1>1, <1>2, <1>3, BeginsKeep DEF BeginEdit

LEMMA BeginDeleteKeeps ==
    ASSUME CatalogInv, NEW r \in Editors, NEW p \in ProductRows, BeginDelete(r, p)
    PROVE  CatalogInv'
<1> DEFINE new == [at |-> IF \E i \in Goods(p) : item[i].state = "sold" THEN "hide" ELSE "drop",
                   entry |-> p]
<1>1. new \in Removal /\ new.entry = p /\ new.at \notin {"log", "write"}
    BY DEF Removal
<1>2. edit' = [edit EXCEPT ![r] = new]
    BY DEF BeginDelete
<1>3. p \in CatalogRows
    BY DEF CatalogRows
<1> HIDE DEF new
<1>4. QED
    BY <1>1, <1>2, <1>3, BeginsKeep DEF BeginDelete

\* A request that ends leaves the others' products alone, and its own in order.
LEMMA EndsKeep ==
    ASSUME CatalogInv, NEW r \in Editors, ~NotEditing(r), EndEdit(r), UNCHANGED <<priceLog, item>>,
           disturbed \subseteq disturbed', disturbed' \subseteq CatalogRows,
           entry' \in [CatalogRows -> {NoEntry} \cup Entry],
           NEW e, e = edit[r].entry,
           \A p \in ProductRows : p # e => entry'[p] = entry[p],
           e \in ProductRows /\ entry'[e].there => There(e) /\ entry'[e].of = e,
           \A i \in BasketItems : item[i].state = "sold" /\ item[i].product = e => entry'[e].there,
           e \in ProductRows \ disturbed' /\ entry'[e].there =>
               /\ entry'[e].hidden => ~entry'[e].active
               /\ Len(priceLog[e]) > 0 => LastPrice(e) = entry'[e].price
    PROVE  CatalogInv'
<1>1. edit'[r] = NoEdit /\ \A q \in Editors : q # r => edit'[q] = edit[q]
    BY DEF CatalogInv, CatalogTypeOK, EndEdit
<1>2. CatalogTypeOK'
    BY DEF CatalogInv, CatalogTypeOK, EndEdit
<1>3. ChangesAreGiven'
    BY <1>1 DEF CatalogInv, ChangesAreGiven, NoEdit
<1>4. ProductsAreTheirOwn'
    BY DEF CatalogInv, ProductsAreTheirOwn, There
<1>5. SoldProductStays'
  <2>1. \A i \in BasketItems : item[i].state = "sold" => item[i].product \in ProductRows
    BY ItemKinds DEF CatalogInv, Item
  <2>2. QED
    BY <2>1 DEF CatalogInv, SoldProductStays, There
<1>6. DeletedStaysHidden'
    BY DEF CatalogInv, DeletedStaysHidden, There
<1>7. e \in ProductRows \ disturbed' => \A q \in Editors : q # r /\ edit[q] # NoEdit => edit[q].entry # e
    BY DEF CatalogInv, OneEditEach, NotEditing
<1>8. OneEditEach'
  <2> SUFFICES ASSUME NEW q \in Editors, edit'[q] # NoEdit, edit'[q].entry \notin disturbed', edit'[q].entry \in ProductRows
               PROVE  /\ \A k \in Editors : edit'[k] # NoEdit /\ edit'[k].entry = edit'[q].entry => k = q
                      /\ entry'[edit'[q].entry].there
                      /\ edit'[q].at \in {"log", "write"} => edit'[q].read = entry'[edit'[q].entry]
    BY DEF OneEditEach, There, NoEdit
  <2>1. q # r /\ edit'[q] = edit[q] /\ edit[q].entry # e
    BY <1>1, <1>7
  <2>2. QED
    BY <1>1, <2>1 DEF CatalogInv, OneEditEach, There
<1>9. LogLeads'
  <2> SUFFICES ASSUME NEW p \in ProductRows \ disturbed', entry'[p].there, Len(priceLog'[p]) > 0
               PROVE  /\ \A q \in Editors : Writing(q, p)' => LastPrice(p)' = Merged(edit[q].price, edit[q].read.price)'
                      /\ (\A q \in Editors : ~Writing(q, p)') => LastPrice(p)' = entry'[p].price
    BY DEF LogLeads, There
  <2>1. LastPrice(p)' = LastPrice(p) /\ p \notin disturbed /\ Len(priceLog[p]) > 0
    BY DEF LastPrice
  <2>2. CASE e = p
    <3>1. \A q \in Editors : ~Writing(q, p)'
        BY <1>1, <1>7, <2>2 DEF Writing, NoEdit
    <3>2. QED
        BY <2>1, <2>2, <3>1
  <2>3. CASE e # p
    <3>1. \A q \in Editors : Writing(q, p)' <=> Writing(q, p)
        BY <1>1, <2>3 DEF Writing, NotEditing, NoEdit
    <3>2. \A q \in Editors : Writing(q, p) => edit'[q] = edit[q]
        BY <1>1, <2>3 DEF Writing, NotEditing, NoEdit
    <3>3. There(p) /\ entry'[p] = entry[p]
        BY <2>3 DEF There
    <3>4. QED
        BY <2>1, <3>1, <3>2, <3>3 DEF LogLeads, CatalogInv, Merged
  <2>4. QED
    BY <2>2, <2>3
<1>10. QED
    BY <1>2, <1>3, <1>4, <1>5, <1>6, <1>8, <1>9 DEF CatalogInv

LEMMA StopEditKeeps ==
    ASSUME CatalogInv, NEW r \in Editors, StopEdit(r)
    PROVE  CatalogInv'
<1> DEFINE e == edit[r].entry
<1>1. e \in CatalogRows
    BY EditKinds DEF CatalogInv, StopEdit
<1>2. entry' = entry /\ disturbed' = disturbed \cup {e}
    BY DEF StopEdit
<1>3. e \in ProductRows /\ entry'[e].there => There(e) /\ entry'[e].of = e
    BY <1>2 DEF CatalogInv, ProductsAreTheirOwn, There
<1>4. \A i \in BasketItems : item[i].state = "sold" /\ item[i].product = e => entry'[e].there
    BY <1>2 DEF CatalogInv, SoldProductStays, There
<1>5. entry' \in [CatalogRows -> {NoEntry} \cup Entry] /\ disturbed' \subseteq CatalogRows
    BY <1>1, <1>2 DEF CatalogInv, CatalogTypeOK
<1>6. ~NotEditing(r) /\ EndEdit(r) /\ UNCHANGED <<priceLog, item>>
    BY DEF StopEdit
<1> HIDE DEF e
<1>7. e = edit[r].entry
    BY DEF e
<1>8. QED
    BY <1>2, <1>3, <1>4, <1>5, <1>6, <1>7, EndsKeep

LEMMA WriteEntryKeeps ==
    ASSUME CatalogInv, NEW r \in Editors, WriteEntry(r)
    PROVE  CatalogInv'
<1> DEFINE e == edit[r].entry
           written == [entry[e] EXCEPT !.price = Merged(edit[r].price, edit[r].read.price),
                                       !.active = Merged(edit[r].active, edit[r].read.active),
                                       !.hidden = @ /\ edit[r].active # TRUE]
<1>1. edit[r] \in Edit /\ e \in CatalogRows /\ ~NotEditing(r) /\ EndEdit(r) /\ UNCHANGED <<priceLog, item, disturbed>>
    BY EditKinds DEF CatalogInv, WriteEntry, Edit
<1>2. entry' = IF ~There(e) THEN entry ELSE [entry EXCEPT ![e] = written]
    BY <1>1 DEF WriteEntry, CatalogInv, CatalogTypeOK
<1>3. There(e) => /\ written \in Entry /\ written.there /\ written.of = entry[e].of
                  /\ written.price = Merged(edit[r].price, edit[r].read.price)
                  /\ written.active = Merged(edit[r].active, edit[r].read.active)
                  /\ written.hidden => entry[e].hidden /\ edit[r].active # TRUE
  <2>1. Merged(edit[r].price, edit[r].read.price) \in Prices /\ Merged(edit[r].active, edit[r].read.active) \in BOOLEAN
    BY <1>1 DEF Merged, Edit, Entry
  <2>2. There(e) => entry[e] \in Entry
    BY <1>1, EntryKinds DEF CatalogInv
  <2>3. QED
    BY <2>1, <2>2 DEF Entry
<1>4. ~NotEditing(r) /\ edit[r] # NoEdit
    BY <1>1 DEF NotEditing
<1>5. e \in ProductRows \ disturbed => There(e) /\ edit[r].read = entry[e]
    BY <1>4 DEF WriteEntry, CatalogInv, OneEditEach
<1>6. e \in ProductRows \ disturbed /\ Len(priceLog[e]) > 0 => LastPrice(e) = written.price
    BY <1>3, <1>5 DEF WriteEntry, CatalogInv, LogLeads, Writing
<1>7. e \in ProductRows \ disturbed /\ written.hidden => ~written.active
  <2> SUFFICES ASSUME e \in ProductRows \ disturbed, written.hidden PROVE ~written.active
    OBVIOUS
  <2>1. entry[e].hidden /\ edit[r].active # TRUE /\ ~entry[e].active
    BY <1>3, <1>5 DEF CatalogInv, DeletedStaysHidden
  <2>2. edit[r].active = FALSE \/ edit[r].active = Same
    BY <1>1, <2>1 DEF Edit
  <2>3. QED
    BY <1>3, <1>5, <2>1, <2>2 DEF Merged
<1> HIDE DEF e, written
<1>8. entry' \in [CatalogRows -> {NoEntry} \cup Entry]
    BY <1>1, <1>2, <1>3 DEF CatalogInv, CatalogTypeOK
<1>9. \A p \in ProductRows : p # e => entry'[p] = entry[p]
    BY <1>2 DEF CatalogInv, CatalogTypeOK, CatalogRows
<1>10. entry'[e] = IF There(e) THEN written ELSE entry[e]
    BY <1>1, <1>2 DEF CatalogInv, CatalogTypeOK
<1>11. e \in ProductRows /\ entry'[e].there => There(e) /\ entry'[e].of = e
    BY <1>3, <1>10 DEF CatalogInv, ProductsAreTheirOwn, There
<1>12. \A i \in BasketItems : item[i].state = "sold" /\ item[i].product = e => entry'[e].there
    BY <1>3, <1>10 DEF CatalogInv, SoldProductStays, There
<1>13. e \in ProductRows \ disturbed' /\ entry'[e].there =>
               /\ entry'[e].hidden => ~entry'[e].active
               /\ Len(priceLog[e]) > 0 => LastPrice(e) = entry'[e].price
    BY <1>1, <1>5, <1>6, <1>7, <1>10
<1>14. disturbed' \subseteq CatalogRows /\ disturbed \subseteq disturbed' /\ e = edit[r].entry
    BY <1>1 DEF CatalogInv, CatalogTypeOK, e
<1>15. QED
    BY <1>1, <1>8, <1>9, <1>11, <1>12, <1>13, <1>14, EndsKeep

\* Nobody is about to write the product whose only request is another.
LEMMA AloneIsLogged ==
    ASSUME CatalogInv, NEW r \in Editors, edit[r] # NoEdit, edit[r].at \notin {"log", "write"},
           edit[r].entry \in ProductRows \ disturbed, There(edit[r].entry), Len(priceLog[edit[r].entry]) > 0
    PROVE  LastPrice(edit[r].entry) = entry[edit[r].entry].price
<1>1. \A q \in Editors : ~Writing(q, edit[r].entry)
    BY DEF CatalogInv, OneEditEach, Writing, NoEdit
<1>2. QED
    BY <1>1 DEF CatalogInv, LogLeads

LEMMA HideKeeps ==
    ASSUME CatalogInv, NEW r \in Editors, Hide(r)
    PROVE  CatalogInv'
<1> DEFINE e == edit[r].entry
           hidden == [entry[e] EXCEPT !.active = FALSE, !.hidden = TRUE]
<1>1. e \in ProductRows /\ ~NotEditing(r) /\ EndEdit(r) /\ UNCHANGED <<priceLog, item, disturbed>>
    BY EditKinds DEF CatalogInv, Hide, Removal
<1>2. entry' = IF There(e) THEN [entry EXCEPT ![e] = hidden] ELSE entry
    BY <1>1 DEF Hide, CatalogInv, CatalogTypeOK
<1>3. e \in CatalogRows
    BY <1>1 DEF CatalogRows
<1>4. There(e) => /\ hidden \in Entry /\ hidden.there /\ hidden.of = entry[e].of
                  /\ hidden.price = entry[e].price /\ ~hidden.active
    BY <1>3, EntryKinds DEF Entry, CatalogInv
<1>5. edit[r] # NoEdit /\ edit[r].at \notin {"log", "write"}
    BY <1>1 DEF NotEditing, Hide
<1>6. e \in ProductRows \ disturbed /\ There(e) /\ Len(priceLog[e]) > 0 => LastPrice(e) = hidden.price
    BY <1>4, <1>5, AloneIsLogged
<1> HIDE DEF e, hidden
<1>8. entry' \in [CatalogRows -> {NoEntry} \cup Entry]
    BY <1>3, <1>2, <1>4 DEF CatalogInv, CatalogTypeOK
<1>9. \A p \in ProductRows : p # e => entry'[p] = entry[p]
    BY <1>2 DEF CatalogInv, CatalogTypeOK, CatalogRows
<1>10. entry'[e] = IF There(e) THEN hidden ELSE entry[e]
    BY <1>3, <1>2 DEF CatalogInv, CatalogTypeOK
<1>11. e \in ProductRows /\ entry'[e].there => There(e) /\ entry'[e].of = e
    BY <1>4, <1>10 DEF CatalogInv, ProductsAreTheirOwn, There
<1>12. \A i \in BasketItems : item[i].state = "sold" /\ item[i].product = e => entry'[e].there
    BY <1>4, <1>10 DEF CatalogInv, SoldProductStays, There
<1>13. e \in ProductRows \ disturbed' /\ entry'[e].there =>
               /\ entry'[e].hidden => ~entry'[e].active
               /\ Len(priceLog[e]) > 0 => LastPrice(e) = entry'[e].price
    BY <1>1, <1>4, <1>6, <1>10, <1>11
<1>14. disturbed' \subseteq CatalogRows /\ disturbed \subseteq disturbed' /\ e = edit[r].entry
    BY <1>1 DEF CatalogInv, CatalogTypeOK, e
<1>15. QED
    BY <1>1, <1>8, <1>9, <1>11, <1>12, <1>13, <1>14, EndsKeep

LEMMA DropKeeps ==
    ASSUME CatalogInv, NEW r \in Editors, Drop(r)
    PROVE  CatalogInv'
<1> DEFINE e == edit[r].entry
<1>1. e \in ProductRows /\ ~NotEditing(r) /\ EndEdit(r) /\ UNCHANGED <<priceLog, item, disturbed>>
    BY EditKinds DEF CatalogInv, Drop, Removal
<1>2. entry' = IF Unsold(e)
               THEN [f \in CatalogRows |-> IF There(f) /\ entry[f].of = e THEN NoEntry ELSE entry[f]]
               ELSE entry
    BY DEF Drop
<1>3. e \in CatalogRows
    BY <1>1 DEF CatalogRows
<1>5. edit[r] # NoEdit /\ edit[r].at \notin {"log", "write"}
    BY <1>1 DEF NotEditing, Drop
<1>6. e \in ProductRows \ disturbed /\ There(e) /\ Len(priceLog[e]) > 0 => LastPrice(e) = entry[e].price
    BY <1>5, AloneIsLogged
<1> HIDE DEF e
<1>8. entry' \in [CatalogRows -> {NoEntry} \cup Entry]
    BY <1>2 DEF CatalogInv, CatalogTypeOK
<1>9. \A p \in ProductRows : p # e => entry'[p] = entry[p]
    BY <1>2 DEF CatalogInv, ProductsAreTheirOwn, CatalogRows
<1>10. entry'[e] = IF Unsold(e) THEN NoEntry ELSE entry[e]
  <2>1. There(e) => entry[e].of = e
    BY <1>1 DEF CatalogInv, ProductsAreTheirOwn
  <2>2. ~There(e) => entry[e] = NoEntry
    BY <1>3, EntryKinds DEF CatalogInv
  <2>3. QED
    BY <1>2, <1>3, <2>1, <2>2
<1>11. e \in ProductRows /\ entry'[e].there => There(e) /\ entry'[e].of = e
    BY <1>10 DEF CatalogInv, ProductsAreTheirOwn, There, NoEntry
<1>12. \A i \in BasketItems : item[i].state = "sold" /\ item[i].product = e => entry'[e].there
    BY <1>10 DEF CatalogInv, SoldProductStays, There, Unsold, Goods
<1>13. e \in ProductRows \ disturbed' /\ entry'[e].there =>
               /\ entry'[e].hidden => ~entry'[e].active
               /\ Len(priceLog[e]) > 0 => LastPrice(e) = entry'[e].price
  <2>1. CASE Unsold(e)
    BY <1>10, <2>1 DEF NoEntry
  <2>2. CASE ~Unsold(e)
    BY <1>1, <1>6, <1>10, <2>2 DEF CatalogInv, DeletedStaysHidden, There
  <2>3. QED
    BY <2>1, <2>2
<1>14. disturbed' \subseteq CatalogRows /\ disturbed \subseteq disturbed' /\ e = edit[r].entry
    BY <1>1 DEF CatalogInv, CatalogTypeOK, e
<1>15. QED
    BY <1>1, <1>8, <1>9, <1>11, <1>12, <1>13, <1>14, EndsKeep

LEMMA LogPriceKeeps ==
    ASSUME CatalogInv, NEW r \in Editors, LogPrice(r)
    PROVE  CatalogInv'
<1> DEFINE e == edit[r].entry
           row == [from |-> edit[r].read.price, to |-> edit[r].price]
           new == [edit[r] EXCEPT !.at = "write"]
<1>1. edit[r] \in Edit /\ e \in ProductRows /\ edit[r].price # Same /\ edit[r].at = "log" /\ edit[r] # NoEdit
    BY EditKinds DEF CatalogInv, LogPrice, ChangesAreGiven, NoEdit
<1>2. /\ priceLog' = [priceLog EXCEPT ![e] = Append(@, row)]
      /\ edit' = [edit EXCEPT ![r] = new]
      /\ Len(priceLog[e]) < MaxLog
      /\ UNCHANGED <<entry, item, disturbed>>
    BY DEF LogPrice, CatalogInv, CatalogTypeOK
<1>3. new \in Edit /\ new.at = "write" /\ new.entry = e /\ new.price = edit[r].price /\ new.read = edit[r].read /\ new # NoEdit
    BY <1>1 DEF Edit, NoEdit
<1>4. row \in Change
    BY <1>1 DEF Edit, Entry, Change
<1>5. row.to = edit[r].price
    OBVIOUS
<1> HIDE DEF e, row, new
<1>6. /\ \A p \in ProductRows : p # e => priceLog'[p] = priceLog[p]
      /\ priceLog'[e] = Append(priceLog[e], row)
      /\ edit'[r] = new
      /\ \A q \in Editors : q # r => edit'[q] = edit[q]
    BY <1>1, <1>2 DEF CatalogInv, CatalogTypeOK
<1>7. /\ Append(priceLog[e], row) \in Seq(Change)
      /\ Len(Append(priceLog[e], row)) = Len(priceLog[e]) + 1
      /\ Append(priceLog[e], row)[Len(priceLog[e]) + 1] = row
      /\ Len(priceLog[e]) \in Nat
    BY <1>1, <1>4 DEF CatalogInv, CatalogTypeOK
<1>8. CatalogTypeOK'
  <2>1. priceLog' \in [ProductRows -> Seq(Change)] /\ edit' \in [Editors -> {NoEdit} \cup Edit \cup Removal]
    BY <1>2, <1>3, <1>7 DEF CatalogInv, CatalogTypeOK
  <2>2. \A p \in ProductRows : Len(priceLog'[p]) <= MaxLog
    BY <1>2, <1>6, <1>7, CatalogAssumption DEF CatalogInv, CatalogTypeOK
  <2>3. QED
    BY <1>2, <2>1, <2>2 DEF CatalogInv, CatalogTypeOK
<1>9. \A p \in ProductRows : LastPrice(p)' = IF p = e THEN edit[r].price ELSE LastPrice(p)
    BY <1>1, <1>5, <1>6, <1>7 DEF LastPrice
<1>10. ChangesAreGiven' /\ ProductsAreTheirOwn' /\ SoldProductStays' /\ DeletedStaysHidden'
  <2>1. ChangesAreGiven'
    BY <1>3, <1>6 DEF CatalogInv, ChangesAreGiven
  <2>2. ProductsAreTheirOwn' /\ SoldProductStays' /\ DeletedStaysHidden'
    BY <1>2 DEF CatalogInv, ProductsAreTheirOwn, SoldProductStays, DeletedStaysHidden, There
  <2>3. QED
    BY <2>1, <2>2
<1>11. OneEditEach'
  <2> SUFFICES ASSUME NEW q \in Editors, edit'[q] # NoEdit, edit'[q].entry \notin disturbed', edit'[q].entry \in ProductRows
               PROVE  /\ \A k \in Editors : edit'[k] # NoEdit /\ edit'[k].entry = edit'[q].entry => k = q
                      /\ entry'[edit'[q].entry].there
                      /\ edit'[q].at \in {"log", "write"} => edit'[q].read = entry'[edit'[q].entry]
    BY DEF OneEditEach, There, NoEdit
  <2>1. \A k \in Editors : /\ edit'[k] # NoEdit <=> edit[k] # NoEdit
                           /\ edit'[k].entry = edit[k].entry
                           /\ edit[k] # NoEdit /\ edit'[k].at \in {"log", "write"} => edit[k].at \in {"log", "write"} /\ edit'[k].read = edit[k].read
    BY <1>1, <1>3, <1>6 DEF e
  <2>2. QED
    BY <1>2, <2>1 DEF CatalogInv, OneEditEach, There
<1>12. LogLeads'
  <2> SUFFICES ASSUME NEW p \in ProductRows \ disturbed', entry'[p].there, Len(priceLog'[p]) > 0
               PROVE  /\ \A q \in Editors : Writing(q, p)' => LastPrice(p)' = Merged(edit[q].price, edit[q].read.price)'
                      /\ (\A q \in Editors : ~Writing(q, p)') => LastPrice(p)' = entry'[p].price
    BY DEF LogLeads, There
  <2>1. CASE e = p
    <3>1. \A q \in Editors : Writing(q, p)' <=> q = r
        BY <1>1, <1>2, <1>3, <1>6, <2>1 DEF Writing, CatalogInv, OneEditEach, NoEdit, e
    <3>2. LastPrice(p)' = Merged(new.price, new.read.price)
        BY <1>1, <1>3, <1>9, <2>1 DEF Merged
    <3>3. QED
        BY <1>6, <3>1, <3>2 DEF Merged
  <2>2. CASE e # p
    <3>1. \A q \in Editors : /\ Writing(q, p)' <=> Writing(q, p)
                             /\ Writing(q, p) => edit'[q] = edit[q]
        BY <1>1, <1>3, <1>6, <2>2 DEF Writing, e
    <3>2. LastPrice(p)' = LastPrice(p) /\ There(p) /\ Len(priceLog[p]) > 0 /\ entry'[p] = entry[p] /\ p \notin disturbed
        BY <1>2, <1>6, <1>9, <2>2 DEF There
    <3>3. QED
        BY <3>1, <3>2 DEF LogLeads, CatalogInv, Merged
  <2>3. QED
    BY <2>1, <2>2
<1>13. QED
    BY <1>8, <1>10, <1>11, <1>12 DEF CatalogInv

\* Orders look at the catalog only.
LEMMA OrdersKeep ==
    ASSUME CatalogInv, NEW i \in BasketItems, InsertItem(i) \/ \E p \in ProductRows : ReadBasket(i, p)
    PROVE  CatalogInv'
<1>1. UNCHANGED <<entry, priceLog, edit, disturbed>>
    BY DEF InsertItem, ReadBasket
<1>2. item' \in [BasketItems -> {NoItem} \cup Item] /\ \A j \in BasketItems : item'[j].state = "sold" => entry[item'[j].product].there
  <2>1. CASE InsertItem(i)
    <3>1. item[i] \in Item
        BY <2>1, ItemKinds DEF InsertItem, CatalogInv
    <3>2. DEFINE sold == [item[i] EXCEPT !.state = "sold"]
    <3>3. sold \in Item /\ sold.product = item[i].product
        BY <3>1 DEF Item
    <3>4. item' = [item EXCEPT ![i] = IF There(item[i].product) THEN sold ELSE NoItem]
        BY <2>1 DEF InsertItem, CatalogInv, CatalogTypeOK
    <3> HIDE DEF sold
    <3>5. QED
        BY <3>3, <3>4 DEF CatalogInv, CatalogTypeOK, SoldProductStays, There, NoItem
  <2>2. ASSUME NEW p \in ProductRows, ReadBasket(i, p)
        PROVE  item' \in [BasketItems -> {NoItem} \cup Item] /\ \A j \in BasketItems : item'[j].state = "sold" => entry[item'[j].product].there
    <3>1. [state |-> "read", product |-> p, price |-> entry[p].price] \in Item
        BY <2>2, EntryKinds DEF ReadBasket, Item, Entry, CatalogInv, CatalogRows
    <3>2. PICK row \in Item : item' = [item EXCEPT ![i] = row] /\ row.state = "read"
        BY <2>2, <3>1 DEF ReadBasket
    <3>3. QED
        BY <3>2 DEF CatalogInv, CatalogTypeOK, SoldProductStays, There
  <2>3. QED
    BY <2>1, <2>2
<1>3. QED
    BY <1>1, <1>2 DEF CatalogInv, CatalogTypeOK, ChangesAreGiven, ProductsAreTheirOwn, OneEditEach, LogLeads,
        SoldProductStays, DeletedStaysHidden, There, LastPrice, Writing, NoItem, Merged, NoEdit

LEMMA CatalogInvNext == CatalogInv /\ [CatalogNext]_catalogVars => CatalogInv'
<1> SUFFICES ASSUME CatalogInv, [CatalogNext]_catalogVars PROVE CatalogInv'
    OBVIOUS
<1>1. ASSUME NEW e \in CatalogRows, NEW p \in ProductRows, NEW price \in Prices, Create(e, p, price) PROVE CatalogInv'
    BY <1>1, CreateKeeps
<1>2. ASSUME NEW r \in Editors, NEW e \in CatalogRows, NEW price \in Prices \cup {Same},
             NEW active \in BOOLEAN \cup {Same}, BeginEdit(r, e, price, active) PROVE CatalogInv'
    BY <1>2, BeginEditKeeps
<1>3. ASSUME NEW r \in Editors, LogPrice(r) \/ WriteEntry(r) \/ Hide(r) \/ Drop(r) \/ StopEdit(r) PROVE CatalogInv'
    BY <1>3, LogPriceKeeps, WriteEntryKeeps, HideKeeps, DropKeeps, StopEditKeeps
<1>4. ASSUME NEW r \in Editors, NEW p \in ProductRows, BeginDelete(r, p) PROVE CatalogInv'
    BY <1>4, BeginDeleteKeeps
<1>5. ASSUME NEW i \in BasketItems, InsertItem(i) \/ \E p \in ProductRows : ReadBasket(i, p) PROVE CatalogInv'
    BY <1>5, OrdersKeep
<1>6. CASE UNCHANGED catalogVars
    BY <1>6 DEF CatalogInv, CatalogTypeOK, ChangesAreGiven, ProductsAreTheirOwn, OneEditEach, LogLeads,
        SoldProductStays, DeletedStaysHidden, There, LastPrice, Writing, NoItem, Merged, NoEdit, catalogVars
<1>7. QED
    BY <1>1, <1>2, <1>3, <1>4, <1>5, <1>6 DEF CatalogNext

LEMMA LogsExplain == CatalogInv => LogExplainsPrice
<1> SUFFICES ASSUME CatalogInv, NEW p \in ProductRows, There(p), Len(priceLog[p]) > 0, p \notin disturbed,
                    \A r \in Editors : NotEditing(r) \/ edit[r].entry # p
             PROVE  LastPrice(p) = entry[p].price
    BY DEF LogExplainsPrice, LastPrice
<1>1. \A r \in Editors : ~Writing(r, p)
    BY DEF Writing, NotEditing, NoEdit
<1>2. QED
    BY <1>1 DEF CatalogInv, LogLeads

\* A product that was sold keeps its row, the last entry of the price log leads to
\* the price of the row, and what was deleted after a sale stays hidden, unless
\* updates of the product overlapped or stopped half-way (products.service.ts update
\* and remove), whatever editors and orders there are.
THEOREM CatalogRemembers == CatalogSpec => [](CatalogTypeOK /\ HistoryIsKept)
<1>1. CatalogInv => CatalogTypeOK /\ HistoryIsKept
    BY LogsExplain DEF CatalogInv, HistoryIsKept
<1>2. QED
    BY CatalogInvInit, CatalogInvNext, <1>1, PTL DEF CatalogSpec

-----------------------------------------------------------------------------
(* The seeds *)

SeededNames == BomProducts \cup {OwnProduct}

\* The types of what the runs look at.
SeedRowsOK ==
    /\ keptRow \in [KeptRows -> {"none", "seeded", "changed"}]
    /\ material \in [SeedMaterials -> SeededMaterial]
    /\ goods \in Seq(SeededGoods)
    /\ run \in [Seeders -> {NoRun} \cup SeedRun \cup BomRun]
    /\ changes \in 0..MaxChanges /\ torn \subseteq SeededNames

\* The row in hand is one of the product the run names, and what is left to do is
\* of the loop's kind.
Named(r, table) ==
    /\ r.at \in {"stock", "move", "found", "recipe", "update", "empty", "entries"} =>
          r.row \in DOMAIN table /\ table[r.row].name = r.name
    /\ r.at \in {"new", "update", "empty", "entries"} => r.name \in BomProducts
    /\ r.at \in {"first", "last"} => r.todo \subseteq KeptRows
    /\ r.at \in {"stock", "move", "found", "cost"} => r.todo \subseteq SeedMaterials
    /\ r.at \in {"products", "new", "update", "empty", "entries"} => r.todo \subseteq BomProducts

RowsAreNamed == \A k \in ActiveRuns : Named(run[k], goods)

\* Two runs at a time have torn every recipe.
RunsAreAlone == \A k, l \in ActiveRuns : k = l \/ torn = SeededNames

OneRowEach == \A p \in SeededNames \ torn : \A i, j \in RowsOf(p) : i = j

\* A run that is to create its product has found none.
Fresh(r, table) == r.at \in {"create", "new"} => \A i \in DOMAIN table : table[i].name # r.name

NewIsNew == \A k \in ActiveRuns : run[k].name \notin torn => Fresh(run[k], goods)

Partial(left) == [m \in SeedMaterials |-> IF m \in left THEN 0 ELSE 1]

\* What a recipe has while its run writes it.
Left(r, table) ==
    /\ r.at = "recipe" => table[r.row].recipe = NoRecipe
    /\ r.at = "entries" => table[r.row].recipe = Partial(r.left)

EntriesAreLeft == \A k \in ActiveRuns : run[k].name \notin torn => Left(run[k], goods)

\* A recipe is whole, or its run is at it.
InHand(r, i, table) ==
    /\ r.row = i
    /\ \/ r.at \in {"stock", "move", "found", "recipe"} /\ table[i].recipe = NoRecipe
       \/ r.at = "entries"

RecipesAreMade ==
    \A p \in SeededNames \ torn : \A i \in RowsOf(p) :
        goods[i].recipe = OnceEach \/ \E k \in ActiveRuns : InHand(run[k], i, goods)

\* The runs that will write the movement of a material.
Movers(m) == {k \in ActiveRuns : run[k].at = "move" /\ m \in run[k].left}

MovesAreFirst ==
    \A m \in SeedMaterials :
        /\ OwnProduct \notin torn /\ Movers(m) # {} => material[m].seeded = 0
        /\ material[m].seeded = 0 \/ material[m].seeded + Cardinality(Movers(m)) <= Cardinality(Seeders)

SeedInv ==
    /\ SeedRowsOK /\ RowsAreNamed /\ RunsAreAlone /\ OneRowEach /\ NewIsNew /\ EntriesAreLeft
    /\ RecipesAreMade /\ MovesAreFirst /\ SeededOnce

RecipesInv ==
    /\ RowsAreNamed /\ RunsAreAlone /\ OneRowEach /\ NewIsNew /\ EntriesAreLeft /\ RecipesAreMade

\* Only one run is under way at a product that is not torn.
LEMMA OnlyRun ==
    ASSUME SeedInv, NEW p \in SeededNames \ torn, NEW k \in ActiveRuns
    PROVE  ActiveRuns = {k}
BY DEF SeedInv, RunsAreAlone

LEMMA RunKinds ==
    ASSUME SeedInv, NEW k \in ActiveRuns
    PROVE  k \in Seeders /\ run[k] \in SeedRun \cup BomRun /\ run[k] # NoRun
           /\ run[k].name \in SeededNames
BY DEF SeedInv, SeedRowsOK, ActiveRuns, SeedRun, BomRun, SeededNames

\* What a run does to its own product, and what is then true of it, is all that
\* the step of one run can change.
LEMMA RunStep ==
    ASSUME SeedInv, NEW k \in ActiveRuns, NEW new \in {NoRun} \cup SeedRun \cup BomRun,
           run' = [run EXCEPT ![k] = new],
           goods' \in Seq(SeededGoods), Len(goods') >= Len(goods),
           \A i \in DOMAIN goods : goods'[i].name = goods[i].name,
           \A i \in DOMAIN goods : goods[i].name # run[k].name => goods'[i] = goods[i],
           \A i \in DOMAIN goods' \ DOMAIN goods : goods'[i].name = run[k].name,
           torn' = torn \/ (torn' = torn \ {run[k].name} /\ ActiveRuns = {k}),
           new # NoRun => /\ Named(new, goods')
                          /\ new.name \notin torn' => Fresh(new, goods') /\ Left(new, goods'),
           run[k].name \notin torn' => \A i \in DOMAIN goods' : goods'[i].name = run[k].name =>
               /\ \A j \in DOMAIN goods' : goods'[j].name = run[k].name => j = i
               /\ goods'[i].recipe = OnceEach \/ (new # NoRun /\ InHand(new, i, goods'))
    PROVE  RecipesInv'
<1>1. k \in Seeders /\ run[k] \in SeedRun \cup BomRun /\ run[k] # NoRun
    BY RunKinds
<1>2. run'[k] = new /\ \A l \in Seeders : l # k => run'[l] = run[l]
    BY <1>1 DEF SeedInv, SeedRowsOK
<1>3. /\ \A l \in Seeders : l # k => (l \in ActiveRuns' <=> l \in ActiveRuns)
      /\ k \in ActiveRuns' <=> new # NoRun
      /\ ActiveRuns' \subseteq ActiveRuns
    BY <1>1, <1>2 DEF ActiveRuns, NoRun
<1>4. torn' \subseteq torn
    OBVIOUS
<1>5. DOMAIN goods = 1..Len(goods) /\ DOMAIN goods' = 1..Len(goods') /\ Len(goods) \in Nat /\ Len(goods') \in Nat
    BY DEF SeedInv, SeedRowsOK
<1>6. DOMAIN goods \subseteq DOMAIN goods'
    BY <1>5
<1>7. \A l \in ActiveRuns' : l # k => l \in ActiveRuns /\ run'[l] = run[l]
    BY <1>2, <1>3 DEF ActiveRuns
<1>8. RowsAreNamed'
  <2> SUFFICES ASSUME NEW l \in ActiveRuns' PROVE Named(run'[l], goods')
    BY DEF RowsAreNamed, Named
  <2>1. CASE l = k
    BY <1>2, <1>3, <2>1
  <2>2. CASE l # k
    BY <1>6, <1>7, <2>2 DEF SeedInv, RowsAreNamed, Named
  <2>3. QED
    BY <2>1, <2>2
\* The others find everything torn.
<1>9. \A l \in ActiveRuns' : l # k => SeededNames \subseteq torn'
    BY <1>3, <1>7 DEF SeedInv, RunsAreAlone
<1>10. RunsAreAlone'
  <2> SUFFICES ASSUME NEW l \in ActiveRuns', NEW j \in ActiveRuns', l # j PROVE torn' = SeededNames
    BY DEF RunsAreAlone, SeededNames
  <2>1. torn = SeededNames
    BY <1>3 DEF SeedInv, RunsAreAlone
  <2>2. QED
    BY <1>9, <2>1
<1>11. \A l \in ActiveRuns' : l # k => run'[l].name \in torn'
    BY <1>7, <1>9, RunKinds
<1>12. NewIsNew' /\ EntriesAreLeft'
  <2> SUFFICES ASSUME NEW l \in ActiveRuns', run'[l].name \notin torn' PROVE Fresh(run'[l], goods') /\ Left(run'[l], goods')
    BY DEF NewIsNew, EntriesAreLeft, Fresh, Left, NoRecipe, Partial
  <2>1. l = k
    BY <1>11
  <2>2. QED
    BY <1>2, <1>3, <2>1
\* The other products have their rows.
<1>13. \A p \in SeededNames \ torn' : p # run[k].name =>
            /\ p \notin torn
            /\ \A i \in DOMAIN goods' : goods'[i].name = p => i \in DOMAIN goods /\ goods'[i] = goods[i] /\ i \in RowsOf(p)
  <2>1. \A p \in SeededNames \ torn' : p # run[k].name => p \notin torn
    OBVIOUS
  <2>2. \A i \in DOMAIN goods' : goods'[i].name # run[k].name => i \in DOMAIN goods /\ goods'[i] = goods[i] /\ i \in RowsOf(goods[i].name)
    BY DEF RowsOf
  <2>3. QED
    BY <2>1, <2>2
<1>14. OneRowEach'
  <2> SUFFICES ASSUME NEW p \in SeededNames \ torn', NEW i \in DOMAIN goods', NEW j \in DOMAIN goods',
                      goods'[i].name = p, goods'[j].name = p
               PROVE  i = j
    BY DEF OneRowEach, RowsOf, SeededNames
  <2>1. CASE p = run[k].name
    BY <2>1
  <2>2. CASE p # run[k].name
    BY <1>13, <2>2 DEF SeedInv, OneRowEach
  <2>3. QED
    BY <2>1, <2>2
<1>15. RecipesAreMade'
  <2> SUFFICES ASSUME NEW p \in SeededNames \ torn', NEW i \in DOMAIN goods', goods'[i].name = p
               PROVE  goods'[i].recipe = OnceEach \/ \E l \in ActiveRuns' : InHand(run'[l], i, goods')
    BY DEF RecipesAreMade, RowsOf, SeededNames, OnceEach, InHand, NoRecipe
  <2>1. CASE p = run[k].name
    BY <1>2, <1>3, <2>1
  <2>2. CASE p # run[k].name
    <3>1. i \in DOMAIN goods /\ goods'[i] = goods[i] /\ goods[i].name = p /\ p \notin torn /\ i \in RowsOf(p)
        BY <1>13, <2>2
    <3>2. ActiveRuns = {k}
        BY <3>1, OnlyRun
    <3>3. ~InHand(run[k], i, goods)
        BY <1>1, <2>2, <3>1 DEF InHand, SeedInv, RowsAreNamed, Named
    <3>4. QED
        BY <3>1, <3>2, <3>3 DEF SeedInv, RecipesAreMade
  <2>3. QED
    BY <2>1, <2>2
<1>16. QED
    BY <1>8, <1>10, <1>12, <1>14, <1>15 DEF RecipesInv

\* The rows of the product a run is at.
LEMMA OwnRows ==
    ASSUME SeedInv, NEW k \in ActiveRuns, run[k].name \notin torn, NEW i \in DOMAIN goods, goods[i].name = run[k].name
    PROVE  /\ \A j \in DOMAIN goods : goods[j].name = run[k].name => j = i
           /\ goods[i].recipe = OnceEach \/ InHand(run[k], i, goods)
<1>1. run[k].name \in SeededNames \ torn /\ i \in RowsOf(run[k].name)
    BY RunKinds DEF RowsOf
<1>2. ActiveRuns = {k}
    BY <1>1, OnlyRun
<1>3. QED
    BY <1>1, <1>2 DEF SeedInv, OneRowEach, RecipesAreMade, RowsOf

-----------------------------------------------------------------------------
LEMMA SeedersAreCounted == Cardinality(Seeders) \in Nat
BY SeedingAssumption, FS_CardinalityType

LEMMA MaterialsAreCounted == SeedInv => \A m \in SeedMaterials : material[m].seeded \in Nat
BY SeedersAreCounted DEF SeedInv, SeedRowsOK, SeededMaterial

\* The movements of the seed, where no run becomes a mover.
LEMMA MovesStay ==
    ASSUME SeedInv, \A m \in SeedMaterials : material'[m].seeded = material[m].seeded,
           \A m \in SeedMaterials : Movers(m)' \subseteq Movers(m),
           OwnProduct \in torn => OwnProduct \in torn'
    PROVE  MovesAreFirst' /\ SeededOnce'
<1>1. SeededOnce'
    BY DEF SeedInv, SeededOnce
<1>2. ASSUME NEW m \in SeedMaterials
      PROVE  /\ OwnProduct \notin torn' /\ Movers(m)' # {} => material'[m].seeded = 0
             /\ material'[m].seeded = 0 \/ material'[m].seeded + Cardinality(Movers(m)') <= Cardinality(Seeders)
  <2>1. IsFiniteSet(Movers(m))
    BY SeedingAssumption, FS_Subset DEF Movers, ActiveRuns
  <2>2. Cardinality(Movers(m)') <= Cardinality(Movers(m)) /\ Cardinality(Movers(m)') \in Nat /\ Cardinality(Movers(m)) \in Nat
    BY <2>1, FS_Subset, FS_CardinalityType
  <2>3. Cardinality(Seeders) \in Nat
    BY SeedersAreCounted
  <2>4. material[m].seeded \in Nat
    BY <2>3 DEF SeedInv, SeedRowsOK, SeededMaterial
  <2>5. QED
    BY <2>2, <2>3, <2>4 DEF SeedInv, MovesAreFirst
<1>3. MovesAreFirst'
    BY <1>2 DEF MovesAreFirst
<1>4. QED
    BY <1>1, <1>3

\* A run that is no mover after its step adds none.
LEMMA NoNewMover ==
    ASSUME SeedInv, NEW k \in ActiveRuns, NEW new, run' = [run EXCEPT ![k] = new], new # NoRun => new.at # "move",
           NEW m \in SeedMaterials
    PROVE  Movers(m)' \subseteq Movers(m)
BY RunKinds DEF SeedInv, SeedRowsOK, Movers, ActiveRuns

\* A run goes on and writes at most a row it keeps.
LEMMA RunOnly ==
    ASSUME SeedInv, NEW k \in ActiveRuns, NEW new \in {NoRun} \cup SeedRun \cup BomRun,
           run' = [run EXCEPT ![k] = new], UNCHANGED <<material, goods, changes, torn>>,
           keptRow' \in [KeptRows -> {"none", "seeded", "changed"}],
           new # NoRun => /\ Named(new, goods) /\ new.at # "move"
                          /\ new.name \notin torn => Fresh(new, goods) /\ Left(new, goods),
           run[k].name \notin torn => \A i \in DOMAIN goods :
               goods[i].name = run[k].name /\ InHand(run[k], i, goods) =>
                   goods[i].recipe = OnceEach \/ (new # NoRun /\ InHand(new, i, goods))
    PROVE  SeedInv'
<1>1. goods' \in Seq(SeededGoods) /\ Len(goods') >= Len(goods)
    BY DEF SeedInv, SeedRowsOK
<1>2. run[k].name \notin torn' => \A i \in DOMAIN goods' : goods'[i].name = run[k].name =>
               /\ \A j \in DOMAIN goods' : goods'[j].name = run[k].name => j = i
               /\ goods'[i].recipe = OnceEach \/ (new # NoRun /\ InHand(new, i, goods'))
    BY OwnRows
<1>3. RecipesInv'
  <2>1. goods' = goods /\ torn' = torn
    OBVIOUS
  <2>2. QED
    BY <1>1, <1>2, <2>1, RunStep
<1>4. MovesAreFirst' /\ SeededOnce'
    BY MovesStay, NoNewMover
<1>5. SeedRowsOK'
    BY RunKinds DEF SeedInv, SeedRowsOK
<1>6. QED
    BY <1>3, <1>4, <1>5 DEF SeedInv, RecipesInv

LEMMA KeepRowKeeps ==
    ASSUME SeedInv, NEW k \in Seeders, NEW r \in KeptRows, KeepRow(k, r)
    PROVE  SeedInv'
<1> DEFINE new == [run[k] EXCEPT !.at = run[k].at, !.todo = run[k].todo \ {r}]
<1>1. run[k] # NoRun /\ run[k].kind = "seed"
    BY DEF KeepRow, NoRun
<1>2. k \in ActiveRuns /\ run[k] \in SeedRun
    BY <1>1, RunKinds DEF ActiveRuns, BomRun
<1>3. run[k].at \in {"first", "last"} /\ Named(run[k], goods)
    BY <1>2 DEF KeepRow, SeedInv, RowsAreNamed
<1>4. new \in SeedRun /\ new.at = run[k].at /\ new.todo \subseteq run[k].todo /\ new.name = run[k].name
    BY <1>2 DEF SeedRun
<1>5. run' = [run EXCEPT ![k] = new]
    BY DEF KeepRow, Proceeds, SeedInv, SeedRowsOK
<1>6. keptRow' \in [KeptRows -> {"none", "seeded", "changed"}]
    BY DEF KeepRow, Upserted, SeedInv, SeedRowsOK
<1> HIDE DEF new
<1>7. Named(new, goods) /\ Fresh(new, goods) /\ Left(new, goods) /\ new.at # "move"
    BY <1>3, <1>4 DEF Named, Fresh, Left
<1>8. \A i \in DOMAIN goods : ~InHand(run[k], i, goods)
    BY <1>3 DEF InHand
<1>9. QED
    BY <1>2, <1>4, <1>5, <1>6, <1>7, <1>8, RunOnly DEF KeepRow

LEMMA FindOwnKeeps ==
    ASSUME SeedInv, NEW k \in Seeders, FindOwn(k)
    PROVE  SeedInv'
<1>1. k \in ActiveRuns /\ run[k] \in SeedRun /\ run[k].at = "first" /\ run[k].name = OwnProduct
    BY RunKinds DEF FindOwn, RunAt, ActiveRuns, NoRun, BomRun, SeedRun
<1>2. \A i \in DOMAIN goods : ~InHand(run[k], i, goods)
    BY <1>1 DEF InHand
<1>3. keptRow' \in [KeptRows -> {"none", "seeded", "changed"}]
    BY DEF FindOwn, SeedInv, SeedRowsOK
<1>4. CASE RowsOf(OwnProduct) = {}
  <2> DEFINE new == [run[k] EXCEPT !.at = "create"]
  <2>1. new \in SeedRun /\ new.at = "create" /\ new.name = OwnProduct
    BY <1>1 DEF SeedRun
  <2>2. run' = [run EXCEPT ![k] = new]
    BY <1>4 DEF FindOwn
  <2> HIDE DEF new
  <2>3. Named(new, goods) /\ Fresh(new, goods) /\ Left(new, goods)
    BY <1>4, <2>1 DEF Named, Fresh, Left, RowsOf
  <2>4. QED
    BY <1>1, <1>2, <1>3, <2>1, <2>2, <2>3, RunOnly DEF FindOwn
<1>5. CASE RowsOf(OwnProduct) # {}
  <2>1. PICK i \in RowsOf(OwnProduct) : run' = [run EXCEPT ![k].at = "stock", ![k].todo = SeedMaterials, ![k].row = i]
    BY <1>5 DEF FindOwn
  <2> DEFINE new == [run[k] EXCEPT !.at = "stock", !.todo = SeedMaterials, !.row = i]
  <2>2. i \in DOMAIN goods /\ goods[i].name = OwnProduct /\ i \in Nat
    BY DEF RowsOf, SeedInv, SeedRowsOK
  <2>3. new \in SeedRun /\ new.at = "stock" /\ new.name = OwnProduct /\ new.row = i /\ new.todo = SeedMaterials
    BY <1>1, <2>2 DEF SeedRun
  <2>4. run' = [run EXCEPT ![k] = new]
    BY <2>1 DEF SeedInv, SeedRowsOK
  <2> HIDE DEF new
  <2>5. Named(new, goods) /\ Fresh(new, goods) /\ Left(new, goods)
    BY <2>2, <2>3 DEF Named, Fresh, Left
  <2>6. QED
    BY <1>1, <1>2, <1>3, <2>3, <2>4, <2>5, RunOnly DEF FindOwn
<1>6. QED
    BY <1>4, <1>5

LEMMA WholeIsMore == OnceEach # NoRecipe
BY SeedingAssumption DEF OnceEach, NoRecipe

LEMMA FindRecipeKeeps ==
    ASSUME SeedInv, NEW k \in Seeders, FindRecipe(k)
    PROVE  SeedInv'
<1>1. k \in ActiveRuns /\ run[k] \in SeedRun /\ run[k].at = "stock" /\ run[k].name = OwnProduct
    BY RunKinds DEF FindRecipe, RunAt, ActiveRuns, NoRun, BomRun, SeedRun
<1>2. run[k].row \in DOMAIN goods /\ goods[run[k].row].name = OwnProduct
    BY <1>1 DEF SeedInv, RowsAreNamed, Named
<1>3. keptRow' \in [KeptRows -> {"none", "seeded", "changed"}]
    BY DEF FindRecipe, SeedInv, SeedRowsOK
<1>4. CASE HasRecipe(run[k].row)
  <2> DEFINE new == [run[k] EXCEPT !.at = "last", !.todo = LastRows]
  <2>1. new \in SeedRun /\ new.at = "last" /\ new.name = OwnProduct /\ new.todo = LastRows
    BY <1>1 DEF SeedRun, KeptRows
  <2>2. run' = [run EXCEPT ![k] = new]
    BY <1>4 DEF FindRecipe, Proceeds, SeedInv, SeedRowsOK
  <2> HIDE DEF new
  <2>3. Named(new, goods) /\ Fresh(new, goods) /\ Left(new, goods)
    BY <2>1 DEF Named, Fresh, Left, KeptRows
  <2>4. \A i \in DOMAIN goods : ~InHand(run[k], i, goods)
    BY <1>1, <1>4 DEF InHand, HasRecipe
  <2>5. QED
    BY <1>1, <1>3, <2>1, <2>2, <2>3, <2>4, RunOnly DEF FindRecipe
<1>5. CASE ~HasRecipe(run[k].row)
  <2> DEFINE new == [run[k] EXCEPT !.at = "recipe", !.todo = {}]
  <2>1. new \in SeedRun /\ new.at = "recipe" /\ new.name = OwnProduct /\ new.row = run[k].row /\ new # NoRun
    BY <1>1 DEF SeedRun, NoRun
  <2>2. run' = [run EXCEPT ![k] = new]
    BY <1>5 DEF FindRecipe, Proceeds, SeedInv, SeedRowsOK
  <2> HIDE DEF new
  <2>3. Named(new, goods) /\ Fresh(new, goods) /\ Left(new, goods)
    BY <1>2, <1>5, <2>1 DEF Named, Fresh, Left, HasRecipe
  <2>4. \A i \in DOMAIN goods : InHand(run[k], i, goods) => InHand(new, i, goods)
    BY <1>1, <2>1 DEF InHand
  <2>5. QED
    BY <1>1, <1>3, <2>1, <2>2, <2>3, <2>4, RunOnly DEF FindRecipe
<1>6. QED
    BY <1>4, <1>5

LEMMA EndSeedRunKeeps ==
    ASSUME SeedInv, NEW k \in Seeders, EndSeedRun(k) \/ EndBom(k)
    PROVE  SeedInv'
<1>1. k \in ActiveRuns /\ run[k].at \in {"last", "products"}
    BY DEF EndSeedRun, EndBom, RunAt, ActiveRuns, NoRun
<1>2. \A i \in DOMAIN goods : ~InHand(run[k], i, goods)
    BY <1>1 DEF InHand
<1>3. keptRow' \in [KeptRows -> {"none", "seeded", "changed"}]
    BY DEF EndSeedRun, EndBom, SeedInv, SeedRowsOK
<1>4. run' = [run EXCEPT ![k] = NoRun] /\ UNCHANGED <<material, goods, changes, torn>>
    BY DEF EndSeedRun, EndBom
<1>5. QED
    BY <1>1, <1>2, <1>3, <1>4, RunOnly

LEMMA FindAdminKeeps ==
    ASSUME SeedInv, NEW k \in Seeders, FindAdmin(k)
    PROVE  SeedInv'
<1>1. k \in ActiveRuns /\ run[k] \in BomRun /\ run[k].at = "cost"
    BY RunKinds DEF FindAdmin, RunAt, ActiveRuns, NoRun, SeedRun
<1>2. \A i \in DOMAIN goods : ~InHand(run[k], i, goods)
    BY <1>1 DEF InHand
<1>3. keptRow' \in [KeptRows -> {"none", "seeded", "changed"}]
    BY DEF FindAdmin, SeedInv, SeedRowsOK
<1> DEFINE next == [run[k] EXCEPT !.at = "products", !.todo = BomProducts]
<1>4. next \in BomRun /\ next.at = "products" /\ next.todo = BomProducts
    BY <1>1 DEF BomRun
<1>5. PICK new \in {next, NoRun} : run' = [run EXCEPT ![k] = new]
    BY DEF FindAdmin
<1> HIDE DEF next
<1>6. Named(next, goods) /\ Fresh(next, goods) /\ Left(next, goods)
    BY <1>4 DEF Named, Fresh, Left
<1>7. new \in {NoRun} \cup SeedRun \cup BomRun /\ (new # NoRun => new = next) /\ next.at # "move"
    BY <1>4, <1>5
<1>8. UNCHANGED <<material, goods, changes, torn>>
    BY DEF FindAdmin
<1>9. QED
    BY <1>1, <1>2, <1>3, <1>5, <1>6, <1>7, <1>8, RunOnly

LEMMA TakeProductKeeps ==
    ASSUME SeedInv, NEW k \in Seeders, NEW p \in BomProducts, TakeProduct(k, p)
    PROVE  SeedInv'
<1>1. k \in ActiveRuns /\ run[k] \in BomRun /\ run[k].at = "products"
    BY RunKinds DEF TakeProduct, RunAt, ActiveRuns, NoRun, SeedRun
<1>2. \A i \in DOMAIN goods : ~InHand(run[k], i, goods)
    BY <1>1 DEF InHand
<1>3. keptRow' \in [KeptRows -> {"none", "seeded", "changed"}]
    BY DEF TakeProduct, SeedInv, SeedRowsOK
<1>7. run[k].todo \subseteq BomProducts
    BY <1>1 DEF SeedInv, RowsAreNamed, Named
<1>4. CASE RowsOf(p) = {}
  <2> DEFINE new == [run[k] EXCEPT !.at = "new", !.name = p]
  <2>1. new \in BomRun /\ new.at = "new" /\ new.name = p /\ new.todo = run[k].todo
    BY <1>1 DEF BomRun
  <2>2. run' = [run EXCEPT ![k] = new]
    BY <1>4 DEF TakeProduct, SeedInv, SeedRowsOK
  <2> HIDE DEF new
  <2>3. Named(new, goods) /\ Fresh(new, goods) /\ Left(new, goods)
    BY <1>4, <1>7, <2>1 DEF Named, Fresh, Left, RowsOf
  <2>4. QED
    BY <1>1, <1>2, <1>3, <2>1, <2>2, <2>3, RunOnly DEF TakeProduct
<1>5. CASE RowsOf(p) # {}
  <2>1. PICK i \in RowsOf(p) : run' = [run EXCEPT ![k].at = "update", ![k].name = p, ![k].row = i]
    BY <1>5 DEF TakeProduct
  <2> DEFINE new == [run[k] EXCEPT !.at = "update", !.name = p, !.row = i]
  <2>2. i \in DOMAIN goods /\ goods[i].name = p /\ i \in Nat
    BY DEF RowsOf, SeedInv, SeedRowsOK
  <2>3. new \in BomRun /\ new.at = "update" /\ new.name = p /\ new.row = i /\ new.todo = run[k].todo
    BY <1>1, <2>2 DEF BomRun
  <2>4. run' = [run EXCEPT ![k] = new]
    BY <2>1 DEF SeedInv, SeedRowsOK
  <2> HIDE DEF new
  <2>5. Named(new, goods) /\ Fresh(new, goods) /\ Left(new, goods)
    BY <1>7, <2>2, <2>3 DEF Named, Fresh, Left
  <2>6. QED
    BY <1>1, <1>2, <1>3, <2>3, <2>4, <2>5, RunOnly DEF TakeProduct
<1>6. QED
    BY <1>4, <1>5

LEMMA UpdateProductKeeps ==
    ASSUME SeedInv, NEW k \in Seeders, UpdateProduct(k)
    PROVE  SeedInv'
<1>1. k \in ActiveRuns /\ run[k] \in BomRun /\ run[k].at = "update"
    BY RunKinds DEF UpdateProduct, RunAt, ActiveRuns, NoRun, SeedRun
<1>2. \A i \in DOMAIN goods : ~InHand(run[k], i, goods)
    BY <1>1 DEF InHand
<1>3. keptRow' \in [KeptRows -> {"none", "seeded", "changed"}]
    BY DEF UpdateProduct, SeedInv, SeedRowsOK
<1> DEFINE new == [run[k] EXCEPT !.at = "empty"]
<1>4. /\ new \in BomRun /\ new.at = "empty" /\ new.name = run[k].name /\ new.row = run[k].row
      /\ new.todo = run[k].todo
    BY <1>1 DEF BomRun
<1>5. run' = [run EXCEPT ![k] = new]
    BY DEF UpdateProduct, SeedInv, SeedRowsOK
<1>6. Named(run[k], goods)
    BY <1>1 DEF SeedInv, RowsAreNamed
<1> HIDE DEF new
<1>7. Named(new, goods) /\ Fresh(new, goods) /\ Left(new, goods)
    BY <1>1, <1>4, <1>6 DEF Named, Fresh, Left
<1>8. QED
    BY <1>1, <1>2, <1>3, <1>4, <1>5, <1>7, RunOnly DEF UpdateProduct

\* A recipe with nothing left to enter is whole.
LEMMA NothingLeft == Partial({}) = OnceEach
BY DEF Partial, OnceEach

LEMMA EndProductKeeps ==
    ASSUME SeedInv, NEW k \in Seeders, EndProduct(k)
    PROVE  SeedInv'
<1>1. k \in ActiveRuns /\ run[k] \in BomRun /\ run[k].at = "entries" /\ run[k].left = {}
    BY RunKinds DEF EndProduct, RunAt, ActiveRuns, NoRun, SeedRun
<1>2. keptRow' \in [KeptRows -> {"none", "seeded", "changed"}]
    BY DEF EndProduct, SeedInv, SeedRowsOK
<1> DEFINE new == [run[k] EXCEPT !.at = "products", !.todo = @ \ {run[k].name}, !.name = OwnProduct]
<1>3. run' = [run EXCEPT ![k] = new] /\ new.at = "products" /\ new \in BomRun /\ new.todo = run[k].todo \ {run[k].name}
    BY <1>1 DEF EndProduct, BomRun, SeedInv, SeedRowsOK
<1>4. run[k].todo \subseteq BomProducts
    BY <1>1 DEF SeedInv, RowsAreNamed, Named
<1> HIDE DEF new
<1>5. Named(new, goods) /\ Fresh(new, goods) /\ Left(new, goods)
    BY <1>3, <1>4 DEF Named, Fresh, Left
<1>6. run[k].name \notin torn => \A i \in DOMAIN goods : InHand(run[k], i, goods) => goods[i].recipe = OnceEach
    BY <1>1, NothingLeft DEF InHand, SeedInv, EntriesAreLeft, Left
<1>7. UNCHANGED <<material, goods, changes, torn>>
    BY DEF EndProduct
<1>8. new \in {NoRun} \cup SeedRun \cup BomRun /\ new.at # "move" /\ run' = [run EXCEPT ![k] = new]
    BY <1>3
<1>9. QED
    BY <1>1, <1>2, <1>5, <1>6, <1>7, <1>8, RunOnly

LEMMA CreateOwnKeeps ==
    ASSUME SeedInv, NEW k \in Seeders, CreateOwn(k)
    PROVE  SeedInv'
<1> DEFINE row == [name |-> run[k].name, recipe |-> NoRecipe]
           new == [run[k] EXCEPT !.at = "stock", !.todo = SeedMaterials, !.row = Len(goods) + 1]
<1>1. k \in ActiveRuns /\ run[k] \in SeedRun /\ run[k].at = "create"
    BY RunKinds DEF CreateOwn, RunAt, ActiveRuns, NoRun, SeedRun, BomRun
<1>2. Named(run[k], goods) /\ run[k].name \in SeededNames
    BY <1>1, RunKinds DEF SeedInv, RowsAreNamed
<1>3. row \in SeededGoods /\ row.name = run[k].name /\ row.recipe = NoRecipe
    BY <1>2 DEF SeededGoods, SeededNames, NoRecipe
<1>4. goods \in Seq(SeededGoods)
    BY DEF SeedInv, SeedRowsOK
<1> DEFINE more == Append(goods, row)
<1>5. /\ more \in Seq(SeededGoods) /\ Len(more) = Len(goods) + 1
      /\ \A i \in 1..Len(goods) : more[i] = goods[i]
      /\ more[Len(goods) + 1] = row
    BY <1>3, <1>4, AppendProperties
<1>6. goods' = more
    BY <1>1 DEF CreateOwn, SeedRun
<1>7. Len(goods) \in Nat /\ DOMAIN goods = 1..Len(goods) /\ DOMAIN more = 1..(Len(goods) + 1)
    BY <1>4, <1>5
<1>8. run' = [run EXCEPT ![k] = new]
    BY <1>1, <1>5, <1>6 DEF CreateOwn, SeedInv, SeedRowsOK
<1>9. new \in SeedRun /\ new.at = "stock" /\ new.todo = SeedMaterials /\ new.row = Len(goods) + 1 /\ new.name = run[k].name /\ new # NoRun
  <2>1. Len(goods) + 1 \in Nat
    BY <1>7
  <2>2. new \in SeedRun
    BY <1>1, <2>1 DEF SeedRun
  <2>3. new.at = "stock" /\ new.todo = SeedMaterials /\ new.row = Len(goods) + 1 /\ new.name = run[k].name
    BY <1>1 DEF SeedRun
  <2>4. new # NoRun
    BY <2>2 DEF SeedRun, NoRun
  <2>5. QED
    BY <2>2, <2>3, <2>4
<1> HIDE DEF row, new, more
<1>10. Named(new, goods')
    BY <1>2, <1>3, <1>1, <1>5, <1>6, <1>7, <1>9 DEF Named
<1>11. Fresh(new, goods') /\ Left(new, goods')
    BY <1>3, <1>5, <1>6, <1>9 DEF Fresh, Left
<1>12. run[k].name \notin torn => \A i \in DOMAIN goods : goods[i].name # run[k].name
    BY <1>1 DEF SeedInv, NewIsNew, Fresh
<1>13. run[k].name \notin torn => \A i \in DOMAIN goods' : goods'[i].name = run[k].name => i = Len(goods) + 1
    BY <1>5, <1>6, <1>7, <1>12
<1>14. UNCHANGED <<keptRow, material, changes, torn>>
    BY DEF CreateOwn
<1>15. RecipesInv'
  <2>1. InHand(new, Len(goods) + 1, goods')
    BY <1>3, <1>5, <1>6, <1>9 DEF InHand
  <2>2. run[k].name \notin torn' => \A i \in DOMAIN goods' : goods'[i].name = run[k].name =>
               /\ \A j \in DOMAIN goods' : goods'[j].name = run[k].name => j = i
               /\ goods'[i].recipe = OnceEach \/ (new # NoRun /\ InHand(new, i, goods'))
    BY <1>9, <1>13, <1>14, <2>1
  <2>3. \A i \in DOMAIN goods : goods'[i] = goods[i]
    BY <1>5, <1>6, <1>7
  <2>4. \A i \in DOMAIN goods' \ DOMAIN goods : goods'[i].name = run[k].name
    BY <1>3, <1>5, <1>6, <1>7
  <2>5. goods' \in Seq(SeededGoods) /\ Len(goods') >= Len(goods)
    BY <1>5, <1>6, <1>7
  <2>6. QED
    BY <1>1, <1>8, <1>9, <1>10, <1>11, <1>14, <2>2, <2>3, <2>4, <2>5, RunStep
<1>16. MovesAreFirst' /\ SeededOnce'
    BY <1>1, <1>8, <1>9, <1>14, MovesStay, NoNewMover
<1>17. SeedRowsOK'
    BY <1>5, <1>6, <1>8, <1>9, <1>14 DEF SeedInv, SeedRowsOK
<1>18. QED
    BY <1>15, <1>16, <1>17 DEF SeedInv, RecipesInv

LEMMA CreateBomProductKeeps ==
    ASSUME SeedInv, NEW k \in Seeders, CreateBomProduct(k)
    PROVE  SeedInv'
<1> DEFINE row == [name |-> run[k].name, recipe |-> NoRecipe]
           new == [run[k] EXCEPT !.at = "entries", !.left = SeedMaterials, !.row = Len(goods) + 1]
<1>1. k \in ActiveRuns /\ run[k] \in BomRun /\ run[k].at = "new"
    BY RunKinds DEF CreateBomProduct, RunAt, ActiveRuns, NoRun, SeedRun, BomRun
<1>2. Named(run[k], goods) /\ run[k].name \in SeededNames
    BY <1>1, RunKinds DEF SeedInv, RowsAreNamed
<1>3. row \in SeededGoods /\ row.name = run[k].name /\ row.recipe = NoRecipe
    BY <1>2 DEF SeededGoods, SeededNames, NoRecipe
<1>4. goods \in Seq(SeededGoods)
    BY DEF SeedInv, SeedRowsOK
<1> DEFINE more == Append(goods, row)
<1>5. /\ more \in Seq(SeededGoods) /\ Len(more) = Len(goods) + 1
      /\ \A i \in 1..Len(goods) : more[i] = goods[i]
      /\ more[Len(goods) + 1] = row
    BY <1>3, <1>4, AppendProperties
<1>6. goods' = more
    BY <1>1 DEF CreateBomProduct, SeedRun
<1>7. Len(goods) \in Nat /\ DOMAIN goods = 1..Len(goods) /\ DOMAIN more = 1..(Len(goods) + 1)
    BY <1>4, <1>5
<1>8. run' = [run EXCEPT ![k] = new]
    BY <1>1, <1>5, <1>6 DEF CreateBomProduct, SeedInv, SeedRowsOK
<1>9. new \in BomRun /\ new.at = "entries" /\ new.left = SeedMaterials /\ new.todo = run[k].todo /\ new.row = Len(goods) + 1 /\ new.name = run[k].name /\ new # NoRun
  <2>1. Len(goods) + 1 \in Nat
    BY <1>7
  <2>2. new \in BomRun
    BY <1>1, <2>1 DEF BomRun
  <2>3. new.at = "entries" /\ new.left = SeedMaterials /\ new.todo = run[k].todo /\ new.row = Len(goods) + 1 /\ new.name = run[k].name
    BY <1>1 DEF BomRun
  <2>4. new # NoRun
    BY <2>2 DEF BomRun, NoRun
  <2>5. QED
    BY <2>2, <2>3, <2>4
<1> HIDE DEF row, new, more
<1>10. Named(new, goods')
    BY <1>2, <1>3, <1>1, <1>5, <1>6, <1>7, <1>9 DEF Named
<1>11. Fresh(new, goods') /\ Left(new, goods')
    BY <1>3, <1>5, <1>6, <1>9 DEF Fresh, Left, Partial, NoRecipe
<1>12. run[k].name \notin torn => \A i \in DOMAIN goods : goods[i].name # run[k].name
    BY <1>1 DEF SeedInv, NewIsNew, Fresh
<1>13. run[k].name \notin torn => \A i \in DOMAIN goods' : goods'[i].name = run[k].name => i = Len(goods) + 1
    BY <1>5, <1>6, <1>7, <1>12
<1>14. UNCHANGED <<keptRow, material, changes, torn>>
    BY DEF CreateBomProduct
<1>15. RecipesInv'
  <2>1. InHand(new, Len(goods) + 1, goods')
    BY <1>3, <1>5, <1>6, <1>9 DEF InHand
  <2>2. run[k].name \notin torn' => \A i \in DOMAIN goods' : goods'[i].name = run[k].name =>
               /\ \A j \in DOMAIN goods' : goods'[j].name = run[k].name => j = i
               /\ goods'[i].recipe = OnceEach \/ (new # NoRun /\ InHand(new, i, goods'))
    BY <1>9, <1>13, <1>14, <2>1
  <2>3. \A i \in DOMAIN goods : goods'[i] = goods[i]
    BY <1>5, <1>6, <1>7
  <2>4. \A i \in DOMAIN goods' \ DOMAIN goods : goods'[i].name = run[k].name
    BY <1>3, <1>5, <1>6, <1>7
  <2>5. goods' \in Seq(SeededGoods) /\ Len(goods') >= Len(goods)
    BY <1>5, <1>6, <1>7
  <2>6. QED
    BY <1>1, <1>8, <1>9, <1>10, <1>11, <1>14, <2>2, <2>3, <2>4, <2>5, RunStep
<1>16. MovesAreFirst' /\ SeededOnce'
    BY <1>1, <1>8, <1>9, <1>14, MovesStay, NoNewMover
<1>17. SeedRowsOK'
    BY <1>5, <1>6, <1>8, <1>9, <1>14 DEF SeedInv, SeedRowsOK
<1>18. QED
    BY <1>15, <1>16, <1>17 DEF SeedInv, RecipesInv

-----------------------------------------------------------------------------
\* A step of a run that leaves the products as they are.
LEMMA GoodsStay ==
    ASSUME SeedInv, NEW k \in ActiveRuns, NEW new \in SeedRun \cup BomRun,
           run' = [run EXCEPT ![k] = new], UNCHANGED <<goods, torn>>,
           new.name = run[k].name, Named(new, goods),
           new.name \notin torn => Fresh(new, goods) /\ Left(new, goods),
           \A i \in DOMAIN goods : InHand(run[k], i, goods) => InHand(new, i, goods)
    PROVE  RecipesInv'
<1>1. goods' \in Seq(SeededGoods) /\ Len(goods') >= Len(goods)
    BY DEF SeedInv, SeedRowsOK
<1>2. new # NoRun
    BY DEF SeedRun, BomRun, NoRun
<1>3. run[k].name \notin torn' => \A i \in DOMAIN goods' : goods'[i].name = run[k].name =>
               /\ \A j \in DOMAIN goods' : goods'[j].name = run[k].name => j = i
               /\ goods'[i].recipe = OnceEach \/ (new # NoRun /\ InHand(new, i, goods'))
    BY <1>2, OwnRows
<1>4. goods' = goods /\ torn' = torn
    OBVIOUS
<1>5. QED
    BY <1>1, <1>3, <1>4, RunStep

LEMMA RowSet ==
    ASSUME NEW S, NEW r \in [there: BOOLEAN, amount: Int, seeded: S]
    PROVE  /\ [r EXCEPT !.there = TRUE, !.amount = SeedStock] \in [there: BOOLEAN, amount: Int, seeded: S]
           /\ [r EXCEPT !.there = TRUE, !.amount = SeedStock].seeded = r.seeded
<1>1. SeedStock \in Int
    BY SeedingAssumption
<1>2. QED
    BY <1>1

LEMMA RowSold ==
    ASSUME NEW S, NEW r \in [there: BOOLEAN, amount: Int, seeded: S]
    PROVE  /\ [r EXCEPT !.amount = r.amount - 1] \in [there: BOOLEAN, amount: Int, seeded: S]
           /\ [r EXCEPT !.amount = r.amount - 1].seeded = r.seeded
OBVIOUS

\* The stock of a material is set; nothing says that it was.
LEMMA MaterialSet ==
    ASSUME SeedInv, NEW m \in SeedMaterials,
           material' = [material EXCEPT ![m].there = TRUE, ![m].amount = SeedStock]
    PROVE  /\ material' \in [SeedMaterials -> SeededMaterial]
           /\ \A n \in SeedMaterials : material'[n].seeded = material[n].seeded
<1> DEFINE row == [material[m] EXCEPT !.there = TRUE, !.amount = SeedStock]
<1>1. material[m] \in SeededMaterial
    BY DEF SeedInv, SeedRowsOK
<1>2. row \in SeededMaterial /\ row.seeded = material[m].seeded
  <2> DEFINE S == 0..Cardinality(Seeders)
             r == material[m]
  <2>1. r \in [there: BOOLEAN, amount: Int, seeded: S]
    BY <1>1 DEF SeededMaterial
  <2> HIDE DEF S, r
  <2>2. /\ [r EXCEPT !.there = TRUE, !.amount = SeedStock] \in [there: BOOLEAN, amount: Int, seeded: S]
        /\ [r EXCEPT !.there = TRUE, !.amount = SeedStock].seeded = r.seeded
    BY <2>1, RowSet
  <2>3. QED
    BY <2>2 DEF S, r, SeededMaterial
<1>3. material' = [material EXCEPT ![m] = row]
    BY DEF SeedInv, SeedRowsOK
<1> HIDE DEF row
<1>4. QED
    BY <1>2, <1>3 DEF SeedInv, SeedRowsOK

LEMMA SetCostKeeps ==
    ASSUME SeedInv, NEW k \in Seeders, NEW m \in SeedMaterials, SetCost(k, m)
    PROVE  SeedInv'
<1> DEFINE new == [run[k] EXCEPT !.at = "cost", !.todo = run[k].todo \ {m}]
<1>1. k \in ActiveRuns /\ run[k] \in BomRun /\ run[k].at = "cost"
    BY RunKinds DEF SetCost, RunAt, ActiveRuns, NoRun, SeedRun
<1>2. run[k].todo \subseteq SeedMaterials
    BY <1>1 DEF SeedInv, RowsAreNamed, Named
<1>3. new \in BomRun /\ new.at = "cost" /\ new.name = run[k].name /\ new.todo = run[k].todo \ {m}
    BY <1>1 DEF BomRun
<1>4. run' = [run EXCEPT ![k] = new]
    BY DEF SetCost, Proceeds, SeedInv, SeedRowsOK
<1> HIDE DEF new
<1>5. Named(new, goods) /\ Fresh(new, goods) /\ Left(new, goods)
    BY <1>2, <1>3 DEF Named, Fresh, Left
<1>6. \A i \in DOMAIN goods : ~InHand(run[k], i, goods)
    BY <1>1 DEF InHand
<1>7. UNCHANGED <<keptRow, goods, changes, torn>> /\ material' = [material EXCEPT ![m].there = TRUE, ![m].amount = SeedStock]
    BY DEF SetCost
<1>8. RecipesInv'
    BY <1>1, <1>3, <1>4, <1>5, <1>6, <1>7, GoodsStay
<1>9. MovesAreFirst' /\ SeededOnce'
  <2>1. \A n \in SeedMaterials : Movers(n)' \subseteq Movers(n)
    BY <1>1, <1>3, <1>4, NoNewMover
  <2>2. \A n \in SeedMaterials : material'[n].seeded = material[n].seeded
    BY <1>7, MaterialSet
  <2>3. QED
    BY <1>7, <2>1, <2>2, MovesStay
<1>10. SeedRowsOK'
    BY <1>3, <1>4, <1>7, MaterialSet DEF SeedInv, SeedRowsOK
<1>11. QED
    BY <1>8, <1>9, <1>10 DEF SeedInv, RecipesInv

LEMMA UpsertMaterialKeeps ==
    ASSUME SeedInv, NEW k \in Seeders, NEW m \in SeedMaterials, UpsertMaterial(k, m)
    PROVE  SeedInv'
<1> DEFINE at == IF material[m].seeded = 0 THEN "move" ELSE "found"
           new == [run[k] EXCEPT !.at = at, !.left = {m}]
<1>1. k \in ActiveRuns /\ run[k] \in SeedRun /\ run[k].at = "stock"
    BY RunKinds DEF UpsertMaterial, RunAt, ActiveRuns, NoRun, BomRun
<1>2. Named(run[k], goods)
    BY <1>1 DEF SeedInv, RowsAreNamed
<1>3. /\ new \in SeedRun /\ new.at \in {"move", "found"} /\ new.name = run[k].name /\ new.row = run[k].row
      /\ new.todo = run[k].todo /\ new.left = {m} /\ (new.at = "move" => material[m].seeded = 0)
    BY <1>1 DEF SeedRun
<1>4. run' = [run EXCEPT ![k] = new]
    BY DEF UpsertMaterial, SeedInv, SeedRowsOK
<1> HIDE DEF new
<1>5. Named(new, goods) /\ Fresh(new, goods) /\ Left(new, goods)
    BY <1>1, <1>2, <1>3 DEF Named, Fresh, Left
<1>6. \A i \in DOMAIN goods : InHand(run[k], i, goods) => InHand(new, i, goods)
    BY <1>1, <1>3 DEF InHand
<1>7. UNCHANGED <<keptRow, goods, changes, torn>> /\ material' = [material EXCEPT ![m].there = TRUE, ![m].amount = SeedStock]
    BY DEF UpsertMaterial
<1>8. RecipesInv'
    BY <1>1, <1>3, <1>4, <1>5, <1>6, <1>7, GoodsStay
<1>9. \A n \in SeedMaterials : Movers(n)' \subseteq Movers(n) \/ material'[n].seeded = 0
  <2> SUFFICES ASSUME NEW n \in SeedMaterials, material'[n].seeded # 0, NEW l \in Movers(n)' PROVE l \in Movers(n)
    OBVIOUS
  <2>1. material[n].seeded # 0
    BY <1>7, MaterialSet
  <2>2. l # k
    BY <1>1, <1>3, <1>4, <2>1 DEF Movers, SeedInv, SeedRowsOK, ActiveRuns
  <2>3. QED
    BY <1>1, <1>4, <2>2 DEF Movers, SeedInv, SeedRowsOK, ActiveRuns
<1>10. MovesAreFirst'
  <2>1. ASSUME NEW n \in SeedMaterials, Movers(n)' \subseteq Movers(n)
        PROVE  /\ OwnProduct \notin torn' /\ Movers(n)' # {} => material'[n].seeded = 0
               /\ material'[n].seeded = 0 \/ material'[n].seeded + Cardinality(Movers(n)') <= Cardinality(Seeders)
    <3>1. IsFiniteSet(Movers(n))
        BY SeedingAssumption, FS_Subset DEF Movers, ActiveRuns
    <3>2. Cardinality(Movers(n)') <= Cardinality(Movers(n)) /\ Cardinality(Movers(n)') \in Nat /\ Cardinality(Movers(n)) \in Nat
        BY <2>1, <3>1, FS_Subset, FS_CardinalityType
    <3>3. Cardinality(Seeders) \in Nat
        BY SeedingAssumption, FS_CardinalityType
    <3>4. material[n].seeded \in Nat /\ material'[n].seeded = material[n].seeded
        BY <1>7, MaterialSet, MaterialsAreCounted
    <3>5. QED
        BY <1>7, <2>1, <3>2, <3>3, <3>4 DEF SeedInv, MovesAreFirst
  <2>2. QED
    BY <1>9, <2>1 DEF MovesAreFirst
<1>11. SeededOnce'
  <2>1. \A n \in SeedMaterials : material'[n].seeded = material[n].seeded
    BY <1>7, MaterialSet
  <2>2. QED
    BY <1>7, <2>1 DEF SeedInv, SeededOnce
<1>12. SeedRowsOK'
    BY <1>3, <1>4, <1>7, MaterialSet DEF SeedInv, SeedRowsOK
<1>13. QED
    BY <1>8, <1>10, <1>11, <1>12 DEF SeedInv, RecipesInv

LEMMA MovementKeeps ==
    ASSUME SeedInv, NEW k \in Seeders, NEW m \in SeedMaterials, Movement(k, m)
    PROVE  SeedInv'
<1> DEFINE new == [run[k] EXCEPT !.at = "stock", !.todo = @ \ {m}]
           more == IF FirstMovement(k) THEN material[m].seeded + 1 ELSE material[m].seeded
<1>1. k \in ActiveRuns /\ run[k] \in SeedRun /\ run[k].at \in {"move", "found"} /\ m \in run[k].left
    BY RunKinds DEF Movement, ActiveRuns, NoRun, BomRun
<1>2. Named(run[k], goods) /\ run[k].name = OwnProduct
    BY <1>1 DEF SeedInv, RowsAreNamed, SeedRun
<1>3. /\ new \in SeedRun /\ new.at = "stock" /\ new.name = run[k].name /\ new.row = run[k].row
      /\ new.todo = run[k].todo \ {m}
    BY <1>1 DEF SeedRun
<1>4. run' = [run EXCEPT ![k] = new]
    BY DEF Movement, SeedInv, SeedRowsOK
<1> HIDE DEF new
<1>5. Named(new, goods) /\ Fresh(new, goods) /\ Left(new, goods)
    BY <1>1, <1>2, <1>3 DEF Named, Fresh, Left
<1>6. \A i \in DOMAIN goods : InHand(run[k], i, goods) => InHand(new, i, goods)
    BY <1>1, <1>3 DEF InHand
<1>7. UNCHANGED <<keptRow, goods, changes, torn>> /\ material' = [material EXCEPT ![m].seeded = more]
    BY DEF Movement, SeedInv, SeedRowsOK
<1>8. RecipesInv'
    BY <1>1, <1>3, <1>4, <1>5, <1>6, <1>7, GoodsStay
<1>9. \A n \in SeedMaterials : /\ Movers(n)' \subseteq Movers(n) \ {k}
                               /\ Movers(n) \subseteq Seeders
                               /\ IsFiniteSet(Movers(n))
                               /\ Cardinality(Movers(n)) \in Nat
                               /\ Cardinality(Movers(n)) <= Cardinality(Seeders)
  <2>1. \A n \in SeedMaterials : Movers(n) \subseteq Seeders
    BY DEF Movers, ActiveRuns
  <2>2. \A n \in SeedMaterials : Movers(n)' \subseteq Movers(n) \ {k}
    BY <1>1, <1>3, <1>4 DEF Movers, SeedInv, SeedRowsOK, ActiveRuns
  <2>3. QED
    BY <2>1, <2>2, SeedingAssumption, FS_Subset, FS_CardinalityType
<1>10. Cardinality(Seeders) \in Nat
    BY SeedingAssumption, FS_CardinalityType
<1>11. \A n \in SeedMaterials : /\ Cardinality(Movers(n)') \in Nat
                                /\ Cardinality(Movers(n)') <= Cardinality(Movers(n))
                                /\ k \in Movers(n) => Cardinality(Movers(n)') <= Cardinality(Movers(n)) - 1
  <2> TAKE n \in SeedMaterials
  <2>1. IsFiniteSet(Movers(n) \ {k}) /\ Cardinality(Movers(n) \ {k}) \in Nat
        /\ Cardinality(Movers(n) \ {k}) = IF k \in Movers(n) THEN Cardinality(Movers(n)) - 1 ELSE Cardinality(Movers(n))
    BY <1>9, FS_RemoveElement, FS_CardinalityType
  <2>2. Cardinality(Movers(n)') \in Nat /\ Cardinality(Movers(n)') <= Cardinality(Movers(n) \ {k})
    BY <1>9, <2>1, FS_Subset, FS_CardinalityType
  <2>3. QED
    BY <1>9, <2>1, <2>2
<1>12. FirstMovement(k) => k \in Movers(m)
    BY <1>1 DEF FirstMovement, Movers
<1>13. material[m] \in SeededMaterial /\ \A n \in SeedMaterials : material[n].seeded \in Nat
    BY <1>10 DEF SeedInv, SeedRowsOK, SeededMaterial
<1>14. more \in 0..Cardinality(Seeders)
  <2>1. CASE FirstMovement(k)
    <3>1. Cardinality(Movers(m)) >= 1
        BY <1>9, <1>12, <2>1, FS_EmptySet
    <3>2. material[m].seeded + 1 <= Cardinality(Seeders)
        BY <1>9, <1>10, <1>13, <3>1 DEF SeedInv, MovesAreFirst
    <3>3. QED
        BY <1>10, <1>13, <2>1, <3>2
  <2>2. CASE ~FirstMovement(k)
    BY <1>13, <2>2 DEF SeededMaterial
  <2>3. QED
    BY <2>1, <2>2
<1>15. /\ \A n \in SeedMaterials : n # m => material'[n] = material[n]
       /\ material'[m].seeded = more
       /\ material' \in [SeedMaterials -> SeededMaterial]
  <2> DEFINE row == [material[m] EXCEPT !.seeded = more]
  <2>1. row \in SeededMaterial /\ row.seeded = more
    BY <1>13, <1>14 DEF SeededMaterial
  <2>2. material' = [material EXCEPT ![m] = row]
    BY <1>7
  <2> HIDE DEF row, more
  <2>3. QED
    BY <2>1, <2>2 DEF SeedInv, SeedRowsOK
<1>16. MovesAreFirst'
  <2>1. ASSUME NEW n \in SeedMaterials
        PROVE  OwnProduct \notin torn' /\ Movers(n)' # {} => material'[n].seeded = 0
    <3>1. OwnProduct \notin torn => ActiveRuns = {k}
        BY <1>1, OnlyRun DEF SeededNames
    <3>2. OwnProduct \notin torn => Movers(n)' = {}
        BY <1>9, <3>1 DEF Movers
    <3>3. QED
        BY <1>7, <3>2
  <2>2. ASSUME NEW n \in SeedMaterials
        PROVE  material'[n].seeded = 0 \/ material'[n].seeded + Cardinality(Movers(n)') <= Cardinality(Seeders)
    <3>1. material[n].seeded = 0 \/ material[n].seeded + Cardinality(Movers(n)) <= Cardinality(Seeders)
        BY DEF SeedInv, MovesAreFirst
    <3>2. CASE n = m /\ FirstMovement(k)
        <4>1. material'[n].seeded = material[n].seeded + 1
            BY <1>15, <3>2
        <4>2. Cardinality(Movers(n)') <= Cardinality(Movers(n)) - 1
            BY <1>11, <1>12, <3>2
        <4>3. QED
            BY <1>9, <1>10, <1>11, <1>13, <3>1, <4>1, <4>2
    <3>3. CASE n # m \/ ~FirstMovement(k)
        <4>1. material'[n].seeded = material[n].seeded
            BY <1>15, <3>3
        <4>2. QED
            BY <1>9, <1>10, <1>11, <1>13, <3>1, <4>1
    <3>4. QED
        BY <3>2, <3>3
  <2>3. QED
    BY <2>1, <2>2 DEF MovesAreFirst
<1>17. SeededOnce'
  <2>1. OwnProduct \notin torn /\ FirstMovement(k) => material[m].seeded = 0
    BY <1>12 DEF SeedInv, MovesAreFirst
  <2>2. QED
    BY <1>7, <1>15, <2>1 DEF SeedInv, SeededOnce
<1>18. SeedRowsOK'
    BY <1>3, <1>4, <1>7, <1>15 DEF SeedInv, SeedRowsOK
<1>19. QED
    BY <1>8, <1>16, <1>17, <1>18 DEF SeedInv, RecipesInv

\* A run writes the recipe of the row in its hands.
LEMMA RecipeWritten ==
    ASSUME SeedInv, NEW k \in ActiveRuns, NEW new \in SeedRun \cup BomRun, new # NoRun, new.at # "move",
           run' = [run EXCEPT ![k] = new], UNCHANGED <<keptRow, material, changes>>,
           run[k].at \in {"recipe", "empty", "entries"},
           NEW amounts \in [SeedMaterials -> Nat],
           goods' = [goods EXCEPT ![run[k].row].recipe = amounts],
           torn' = torn \/ ( /\ torn' = torn \ {run[k].name} /\ ActiveRuns = {k} /\ run[k].name \in BomProducts),
           new.name = run[k].name, new.row = run[k].row, Named(new, goods), new.at \notin {"create", "new", "recipe"},
           run[k].name \notin torn' => \A j \in DOMAIN goods : goods[j].name = run[k].name => j = run[k].row,
           run[k].name \notin torn' => amounts = OnceEach \/ new.at = "entries",
           run[k].name \notin torn' /\ new.at = "entries" => amounts = Partial(new.left)
    PROVE  SeedInv'
<1> DEFINE i == run[k].row
           row == [goods[i] EXCEPT !.recipe = amounts]
<1>1. i \in DOMAIN goods /\ goods[i].name = run[k].name
    BY DEF SeedInv, RowsAreNamed, Named
<1>2. goods \in Seq(SeededGoods) /\ Len(goods) \in Nat /\ DOMAIN goods = 1..Len(goods)
    BY DEF SeedInv, SeedRowsOK
<1>3. goods[i] \in SeededGoods
    BY <1>1, <1>2, ElementOfSeq
<1>4. row \in SeededGoods /\ row.name = goods[i].name /\ row.recipe = amounts
    BY <1>3 DEF SeededGoods
<1>5. goods' = [goods EXCEPT ![i] = row]
    BY <1>1, <1>2
<1> HIDE DEF row
<1>6. /\ goods' \in Seq(SeededGoods) /\ Len(goods') = Len(goods)
      /\ \A j \in 1..Len(goods) : goods'[j] = IF j = i THEN row ELSE goods[j]
    BY <1>1, <1>2, <1>4, <1>5, ExceptSeq
<1>7. DOMAIN goods' = DOMAIN goods
    BY <1>2, <1>6
<1>8. \A j \in DOMAIN goods : goods'[j].name = goods[j].name /\ (goods[j].name # run[k].name => goods'[j] = goods[j])
    BY <1>1, <1>2, <1>4, <1>6
<1>9. goods'[i].recipe = amounts /\ goods'[i].name = run[k].name
    BY <1>1, <1>2, <1>4, <1>6
<1>10. Named(new, goods')
    BY <1>7, <1>8 DEF Named
<1>11. new.name \notin torn' => Fresh(new, goods') /\ Left(new, goods')
    BY <1>9 DEF Fresh, Left
<1>12. run[k].name \notin torn' => \A j \in DOMAIN goods' : goods'[j].name = run[k].name =>
               /\ \A l \in DOMAIN goods' : goods'[l].name = run[k].name => l = j
               /\ goods'[j].recipe = OnceEach \/ (new # NoRun /\ InHand(new, j, goods'))
    BY <1>7, <1>8, <1>9 DEF InHand
<1>13. RecipesInv'
  <2>1. torn' = torn \/ (torn' = torn \ {run[k].name} /\ ActiveRuns = {k})
    OBVIOUS
  <2>2. goods' \in Seq(SeededGoods) /\ Len(goods') >= Len(goods)
    BY <1>2, <1>6
  <2>3. \A j \in DOMAIN goods' \ DOMAIN goods : goods'[j].name = run[k].name
    BY <1>7
  <2>4. new \in {NoRun} \cup SeedRun \cup BomRun
    OBVIOUS
  <2>5. QED
    BY <1>8, <1>10, <1>11, <1>12, <2>1, <2>2, <2>3, <2>4, RunStep
<1>14. OwnProduct \in torn => OwnProduct \in torn'
    BY SeedingAssumption
<1>15. MovesAreFirst' /\ SeededOnce'
    BY <1>14, MovesStay, NoNewMover
<1>16. SeedRowsOK'
    BY <1>6 DEF SeedInv, SeedRowsOK
<1>17. QED
    BY <1>13, <1>15, <1>16 DEF SeedInv, RecipesInv

\* A product that is not torn has the row in hand only.
LEMMA OnlyRow ==
    ASSUME SeedInv, NEW k \in ActiveRuns, run[k].name \notin torn, run[k].at \in {"recipe", "empty", "entries"}
    PROVE  \A j \in DOMAIN goods : goods[j].name = run[k].name => j = run[k].row
<1>1. run[k].row \in DOMAIN goods /\ goods[run[k].row].name = run[k].name
    BY DEF SeedInv, RowsAreNamed, Named
<1>2. QED
    BY <1>1, OwnRows

LEMMA HandsHold ==
    ASSUME SeedInv, NEW k \in ActiveRuns, run[k].at \in {"recipe", "empty", "entries"}
    PROVE  /\ run[k].row \in DOMAIN goods
           /\ goods[run[k].row] \in SeededGoods
           /\ goods[run[k].row].recipe \in [SeedMaterials -> Nat]
<1>1. run[k].row \in DOMAIN goods
    BY DEF SeedInv, RowsAreNamed, Named
<1>2. goods \in Seq(SeededGoods) /\ DOMAIN goods = 1..Len(goods)
    BY DEF SeedInv, SeedRowsOK
<1>3. goods[run[k].row] \in SeededGoods
    BY <1>1, <1>2, ElementOfSeq
<1>4. QED
    BY <1>1, <1>3 DEF SeededGoods

LEMMA CreateRecipeKeeps ==
    ASSUME SeedInv, NEW k \in Seeders, CreateRecipe(k)
    PROVE  SeedInv'
<1> DEFINE new == [run[k] EXCEPT !.at = "last", !.todo = LastRows]
           old == goods[run[k].row].recipe
           amounts == [m \in SeedMaterials |-> old[m] + 1]
<1>1. k \in ActiveRuns /\ run[k] \in SeedRun /\ run[k].at = "recipe"
    BY RunKinds DEF CreateRecipe, RunAt, ActiveRuns, NoRun, BomRun
<1>2. new \in SeedRun /\ new.at = "last" /\ new.name = run[k].name /\ new.row = run[k].row /\ new.todo = LastRows /\ new # NoRun
    BY <1>1 DEF SeedRun, KeptRows, NoRun
<1>3. run' = [run EXCEPT ![k] = new]
    BY DEF CreateRecipe, Proceeds, SeedInv, SeedRowsOK
<1>4. old \in [SeedMaterials -> Nat] /\ run[k].row \in DOMAIN goods
    BY <1>1, HandsHold
<1>5. amounts \in [SeedMaterials -> Nat]
    BY <1>4
<1>6. goods' = [goods EXCEPT ![run[k].row].recipe = amounts]
    BY <1>4 DEF CreateRecipe
<1>7. run[k].name \notin torn => amounts = OnceEach
    BY <1>1 DEF SeedInv, EntriesAreLeft, Left, NoRecipe, OnceEach
<1>8. UNCHANGED <<keptRow, material, changes, torn>>
    BY DEF CreateRecipe
<1> HIDE DEF new, old, amounts
<1>9. Named(new, goods)
    BY <1>2 DEF Named, KeptRows
<1>10. run[k].name \notin torn => \A j \in DOMAIN goods : goods[j].name = run[k].name => j = run[k].row
    BY <1>1, OnlyRow
<1>11. QED
    BY <1>1, <1>2, <1>3, <1>5, <1>6, <1>7, <1>8, <1>9, <1>10, RecipeWritten

LEMMA EmptyRecipeKeeps ==
    ASSUME SeedInv, NEW k \in Seeders, EmptyRecipe(k)
    PROVE  SeedInv'
<1> DEFINE new == [run[k] EXCEPT !.at = "entries", !.left = SeedMaterials]
<1>1. k \in ActiveRuns /\ run[k] \in BomRun /\ run[k].at = "empty"
    BY RunKinds DEF EmptyRecipe, RunAt, ActiveRuns, NoRun, SeedRun
<1>2. /\ new \in BomRun /\ new.at = "entries" /\ new.name = run[k].name /\ new.row = run[k].row
      /\ new.todo = run[k].todo /\ new.left = SeedMaterials /\ new # NoRun
    BY <1>1 DEF BomRun, NoRun
<1>3. run' = [run EXCEPT ![k] = new]
    BY DEF EmptyRecipe, SeedInv, SeedRowsOK
<1>4. Named(run[k], goods)
    BY <1>1 DEF SeedInv, RowsAreNamed
<1>5. NoRecipe \in [SeedMaterials -> Nat] /\ NoRecipe = Partial(SeedMaterials)
    BY DEF NoRecipe, Partial
<1>6. goods' = [goods EXCEPT ![run[k].row].recipe = NoRecipe]
    BY DEF EmptyRecipe, Emptied
<1>7. UNCHANGED <<keptRow, material, changes>>
    BY DEF EmptyRecipe
<1>8. torn' = torn \/ ( /\ torn' = torn \ {run[k].name} /\ ActiveRuns = {k} /\ Cardinality(RowsOf(run[k].name)) = 1)
    BY DEF EmptyRecipe
<1> HIDE DEF new
<1>9. Named(new, goods) /\ run[k].name \in BomProducts
    BY <1>1, <1>2, <1>4 DEF Named
<1>10. run[k].name \notin torn' => \A j \in DOMAIN goods : goods[j].name = run[k].name => j = run[k].row
  <2>1. CASE run[k].name \notin torn
    BY <1>1, <2>1, OnlyRow
  <2>2. CASE Cardinality(RowsOf(run[k].name)) = 1
    <3>1. Len(goods) \in Nat /\ RowsOf(run[k].name) \subseteq 1..Len(goods)
        BY DEF RowsOf, SeedInv, SeedRowsOK
    <3>2. IsFiniteSet(RowsOf(run[k].name))
      <4>1. IsFiniteSet(1..Len(goods))
        BY <3>1, FS_Interval
      <4>2. QED
        BY <3>1, <4>1, FS_Subset
    <3>3. PICK x : RowsOf(run[k].name) = {x}
        BY <2>2, <3>2, FS_Singleton
    <3>4. run[k].row \in RowsOf(run[k].name)
        BY <1>1, <1>4 DEF Named, RowsOf
    <3>5. QED
        BY <3>3, <3>4 DEF RowsOf
  <2>3. QED
    BY <1>8, <2>1, <2>2
<1>11. QED
    BY <1>1, <1>2, <1>3, <1>5, <1>6, <1>7, <1>8, <1>9, <1>10, RecipeWritten

LEMMA AddEntryKeeps ==
    ASSUME SeedInv, NEW k \in Seeders, NEW m \in SeedMaterials, AddEntry(k, m)
    PROVE  SeedInv'
<1> DEFINE new == [run[k] EXCEPT !.left = @ \ {m}]
           old == goods[run[k].row].recipe
           amounts == [old EXCEPT ![m] = @ + 1]
<1>1. k \in ActiveRuns /\ run[k] \in BomRun /\ run[k].at = "entries" /\ m \in run[k].left
    BY RunKinds DEF AddEntry, RunAt, ActiveRuns, NoRun, SeedRun
<1>2. /\ new \in BomRun /\ new.at = "entries" /\ new.name = run[k].name /\ new.row = run[k].row
      /\ new.todo = run[k].todo /\ new.left = run[k].left \ {m} /\ new # NoRun
    BY <1>1 DEF BomRun, NoRun
<1>3. run' = [run EXCEPT ![k] = new]
    BY DEF AddEntry, SeedInv, SeedRowsOK
<1>4. Named(run[k], goods)
    BY <1>1 DEF SeedInv, RowsAreNamed
<1>5. old \in [SeedMaterials -> Nat] /\ goods[run[k].row] \in SeededGoods /\ run[k].row \in DOMAIN goods
    BY <1>1, HandsHold
<1>6. amounts \in [SeedMaterials -> Nat]
    BY <1>5
<1>7. goods' = [goods EXCEPT ![run[k].row].recipe = amounts]
    BY <1>5 DEF AddEntry
<1>8. UNCHANGED <<keptRow, material, changes, torn>>
    BY DEF AddEntry
<1>9. run[k].name \notin torn => amounts = Partial(run[k].left \ {m})
  <2> SUFFICES ASSUME run[k].name \notin torn PROVE amounts = Partial(run[k].left \ {m})
    OBVIOUS
  <2>1. old = Partial(run[k].left)
    BY <1>1 DEF SeedInv, EntriesAreLeft, Left
  <2> HIDE DEF old
  <2>2. QED
    BY <1>1, <2>1 DEF Partial
<1> HIDE DEF new, old, amounts
<1>10. Named(new, goods)
    BY <1>1, <1>2, <1>4 DEF Named
<1>11. run[k].name \notin torn => \A j \in DOMAIN goods : goods[j].name = run[k].name => j = run[k].row
    BY <1>1, OnlyRow
<1>12. QED
    BY <1>1, <1>2, <1>3, <1>6, <1>7, <1>8, <1>9, <1>10, <1>11, RecipeWritten

LEMMA StartRunKeeps ==
    ASSUME SeedInv, NEW k \in Seeders, NEW kind \in {"seed", "bom"}, StartRun(k, kind)
    PROVE  SeedInv'
<1>1. PICK new \in SeedRun \cup BomRun :
          /\ run' = [run EXCEPT ![k] = new] /\ new # NoRun /\ new.at \in {"first", "cost"}
          /\ new.at = "first" => new.todo = FirstRows
          /\ new.at = "cost" => new.todo = SeedMaterials
  <2>1. CASE kind = "seed"
    <3> DEFINE new == StartedRun(kind, "first", FirstRows)
    <3>1. new \in SeedRun /\ new # NoRun /\ new.at = "first" /\ new.todo = FirstRows
        BY <2>1 DEF StartedRun, SeedRun, KeptRows, NoRun
    <3>2. run' = [run EXCEPT ![k] = new]
        BY <2>1 DEF StartRun
    <3> HIDE DEF new
    <3>3. QED
        BY <3>1, <3>2
  <2>2. CASE kind = "bom"
    <3> DEFINE new == StartedRun(kind, "cost", SeedMaterials)
    <3>1. new \in BomRun /\ new # NoRun /\ new.at = "cost" /\ new.todo = SeedMaterials
        BY <2>2 DEF StartedRun, BomRun, NoRun
    <3>2. run' = [run EXCEPT ![k] = new]
        BY <2>2 DEF StartRun
    <3> HIDE DEF new
    <3>3. QED
        BY <3>1, <3>2
  <2>3. QED
    BY <2>1, <2>2
<1>2. run[k] = NoRun /\ UNCHANGED <<keptRow, material, goods, changes>>
    BY DEF StartRun
<1>3. run'[k] = new /\ \A l \in Seeders : l # k => run'[l] = run[l]
    BY <1>1 DEF SeedInv, SeedRowsOK
<1>4. ActiveRuns' = ActiveRuns \cup {k} /\ k \notin ActiveRuns /\ ActiveRuns \subseteq Seeders
    BY <1>1, <1>2, <1>3 DEF ActiveRuns, NoRun
<1>5. \A l \in ActiveRuns' : l # k => l \in ActiveRuns /\ run'[l] = run[l]
    BY <1>3, <1>4
<1>6. torn' = SeededNames \/ (torn' = torn /\ ActiveRuns = {})
    BY DEF StartRun, SeededNames
<1>7. RowsAreNamed'
  <2> SUFFICES ASSUME NEW l \in ActiveRuns' PROVE Named(run'[l], goods')
    BY DEF RowsAreNamed, Named
  <2>1. CASE l = k
    BY <1>1, <1>3, <2>1 DEF Named, KeptRows
  <2>2. CASE l # k
    BY <1>2, <1>5, <2>2 DEF SeedInv, RowsAreNamed, Named
  <2>3. QED
    BY <2>1, <2>2
<1>8. RunsAreAlone'
    BY <1>4, <1>6 DEF RunsAreAlone, SeededNames
<1>9. OneRowEach'
    BY <1>2, <1>6 DEF SeedInv, OneRowEach, SeededNames, RowsOf
<1>10. NewIsNew' /\ EntriesAreLeft'
  <2> SUFFICES ASSUME NEW l \in ActiveRuns', run'[l].name \notin torn' PROVE Fresh(run'[l], goods') /\ Left(run'[l], goods')
    BY DEF NewIsNew, EntriesAreLeft, Fresh, Left, NoRecipe, Partial
  <2>1. l = k
    BY <1>4, <1>5, <1>6, RunKinds
  <2>2. QED
    BY <1>1, <1>3, <2>1 DEF Fresh, Left
<1>11. RecipesAreMade'
  <2> SUFFICES ASSUME NEW p \in SeededNames \ torn', NEW i \in DOMAIN goods, goods[i].name = p
               PROVE  goods[i].recipe = OnceEach
    BY <1>2 DEF RecipesAreMade, RowsOf, SeededNames, OnceEach
  <2>1. p \notin torn /\ ActiveRuns = {}
    BY <1>6
  <2>2. QED
    BY <2>1 DEF SeedInv, RecipesAreMade, RowsOf
<1>12. MovesAreFirst' /\ SeededOnce'
  <2>1. \A m \in SeedMaterials : Movers(m)' \subseteq Movers(m)
    BY <1>1, <1>3, <1>5 DEF Movers
  <2>2. OwnProduct \in torn => OwnProduct \in torn'
    BY <1>6 DEF SeededNames
  <2>3. QED
    BY <1>2, <2>1, <2>2, MovesStay
<1>13. SeedRowsOK'
    BY <1>1, <1>2, <1>6 DEF SeedInv, SeedRowsOK, SeededNames
<1>14. QED
    BY <1>7, <1>8, <1>9, <1>10, <1>11, <1>12, <1>13 DEF SeedInv

LEMMA DiesKeeps ==
    ASSUME SeedInv, NEW k \in Seeders, Dies(k)
    PROVE  SeedInv'
<1>1. k \in ActiveRuns /\ run' = [run EXCEPT ![k] = NoRun] /\ UNCHANGED <<keptRow, material, goods, changes>>
    BY DEF Dies, ActiveRuns
<1>2. \A l \in Seeders : l # k => run'[l] = run[l]
    BY <1>1 DEF SeedInv, SeedRowsOK
<1>3. ActiveRuns' = ActiveRuns \ {k} /\ ActiveRuns \subseteq Seeders
    BY <1>1, <1>2 DEF ActiveRuns, SeedInv, SeedRowsOK
<1>4. \A l \in ActiveRuns' : l \in ActiveRuns /\ run'[l] = run[l]
    BY <1>2, <1>3
<1>5. /\ torn \subseteq torn' /\ torn' \subseteq SeededNames
      /\ run[k].at \in {"entries", "recipe", "stock", "move", "found"} => run[k].name \in torn'
    BY <1>1, RunKinds DEF Dies, SeedInv, SeedRowsOK, SeededNames
<1>6. RowsAreNamed'
    BY <1>1, <1>4 DEF SeedInv, RowsAreNamed, Named
<1>7. RunsAreAlone'
    BY <1>4, <1>5 DEF SeedInv, RunsAreAlone, SeededNames
<1>8. OneRowEach'
    BY <1>1, <1>5 DEF SeedInv, OneRowEach, SeededNames, RowsOf
<1>9. NewIsNew' /\ EntriesAreLeft'
    BY <1>1, <1>4, <1>5 DEF SeedInv, NewIsNew, EntriesAreLeft, Fresh, Left, NoRecipe, Partial
<1>10. RecipesAreMade'
  <2> SUFFICES ASSUME NEW p \in SeededNames \ torn', NEW i \in DOMAIN goods, goods[i].name = p
               PROVE  goods[i].recipe = OnceEach
    BY <1>1 DEF RecipesAreMade, RowsOf, SeededNames, OnceEach
  <2>1. p \in SeededNames \ torn /\ i \in RowsOf(p)
    BY <1>5 DEF RowsOf
  <2>2. ActiveRuns = {k}
    BY <1>1, <2>1, OnlyRun
  <2>3. ~InHand(run[k], i, goods)
    BY <1>1, <1>5 DEF InHand, SeedInv, RowsAreNamed, Named
  <2>4. QED
    BY <2>1, <2>2, <2>3 DEF SeedInv, RecipesAreMade
<1>11. MovesAreFirst' /\ SeededOnce'
  <2>1. \A m \in SeedMaterials : Movers(m)' \subseteq Movers(m)
    BY <1>4 DEF Movers
  <2>2. QED
    BY <1>1, <1>5, <2>1, MovesStay
<1>12. SeedRowsOK'
    BY <1>1, <1>5 DEF SeedInv, SeedRowsOK, SeededNames
<1>13. QED
    BY <1>6, <1>7, <1>8, <1>9, <1>10, <1>11, <1>12 DEF SeedInv

\* The shop and its administrators do not touch what the runs look at.
LEMMA ShopKeeps ==
    ASSUME SeedInv, (\E m \in SeedMaterials : SellPortion(m)) \/ (\E r \in KeptRows : ChangeRow(r)) \/ (\E i \in DOMAIN goods : ChangePrice(i))
    PROVE  SeedInv'
<1>1. UNCHANGED <<goods, run, torn>>
    BY DEF SellPortion, ChangeRow, ChangePrice
<1>2. material' \in [SeedMaterials -> SeededMaterial] /\ \A n \in SeedMaterials : material'[n].seeded = material[n].seeded
  <2>1. ASSUME NEW m \in SeedMaterials, SellPortion(m)
        PROVE  material' \in [SeedMaterials -> SeededMaterial] /\ \A n \in SeedMaterials : material'[n].seeded = material[n].seeded
    <3> DEFINE row == [material[m] EXCEPT !.amount = material[m].amount - 1]
    <3>1. material[m] \in SeededMaterial
        BY DEF SeedInv, SeedRowsOK
    <3>2. row \in SeededMaterial /\ row.seeded = material[m].seeded
        BY <3>1, RowSold DEF SeededMaterial
    <3>3. material' = [material EXCEPT ![m] = row]
        BY <2>1 DEF SellPortion, SeedInv, SeedRowsOK
    <3> HIDE DEF row
    <3>4. QED
        BY <3>2, <3>3 DEF SeedInv, SeedRowsOK
  <2>2. CASE (\E r \in KeptRows : ChangeRow(r)) \/ (\E i \in DOMAIN goods : ChangePrice(i))
    BY <2>2 DEF ChangeRow, ChangePrice, SeedInv, SeedRowsOK
  <2>3. QED
    BY <2>1, <2>2
<1>3. keptRow' \in [KeptRows -> {"none", "seeded", "changed"}] /\ changes' \in 0..MaxChanges
    BY SeedingAssumption DEF SellPortion, ChangeRow, ChangePrice, SeedInv, SeedRowsOK
<1>4. SeedRowsOK'
    BY <1>1, <1>2, <1>3 DEF SeedInv, SeedRowsOK
<1>5. MovesAreFirst' /\ SeededOnce'
  <2>1. \A m \in SeedMaterials : Movers(m)' \subseteq Movers(m)
    BY <1>1 DEF Movers, ActiveRuns
  <2>2. QED
    BY <1>1, <1>2, <2>1, MovesStay
<1>6. RecipesInv'
    BY <1>1 DEF SeedInv, RecipesInv, RowsAreNamed, RunsAreAlone, OneRowEach, NewIsNew, EntriesAreLeft,
        RecipesAreMade, ActiveRuns, Named, Fresh, Left, InHand, RowsOf, SeededNames, Partial, NoRecipe, OnceEach, NoRun
<1>7. QED
    BY <1>4, <1>5, <1>6 DEF SeedInv, RecipesInv

LEMMA SeedInvInit == SeedInit => SeedInv
<1> SUFFICES ASSUME SeedInit PROVE SeedInv
    OBVIOUS
<1>1. ActiveRuns = {} /\ goods = <<>> /\ torn = {}
    BY DEF SeedInit, ActiveRuns
<1>2. \A m \in SeedMaterials : material[m] = NoMaterial /\ material[m].seeded = 0
    BY DEF SeedInit, NoMaterial
<1>3. NoMaterial \in SeededMaterial
    BY SeedersAreCounted DEF NoMaterial, SeededMaterial
<1>4. SeedRowsOK
    BY <1>3, SeedingAssumption DEF SeedInit, SeedRowsOK
<1>5. MovesAreFirst /\ SeededOnce
    BY <1>2 DEF MovesAreFirst, SeededOnce
<1>6. QED
    BY <1>1, <1>4, <1>5 DEF SeedInv, RowsAreNamed, RunsAreAlone, OneRowEach, NewIsNew, EntriesAreLeft, RecipesAreMade, RowsOf

LEMMA SeedInvNext == SeedInv /\ [SeedNext]_seedVars => SeedInv'
<1> SUFFICES ASSUME SeedInv, [SeedNext]_seedVars PROVE SeedInv'
    OBVIOUS
<1>1. ASSUME NEW k \in Seeders, NEW kind \in {"seed", "bom"}, StartRun(k, kind) PROVE SeedInv'
    BY <1>1, StartRunKeeps
<1>2. ASSUME NEW k \in Seeders, NEW r \in KeptRows, KeepRow(k, r) PROVE SeedInv'
    BY <1>2, KeepRowKeeps
<1>3. ASSUME NEW k \in Seeders, NEW m \in SeedMaterials,
             UpsertMaterial(k, m) \/ SetCost(k, m) \/ AddEntry(k, m) \/ Movement(k, m) PROVE SeedInv'
    BY <1>3, UpsertMaterialKeeps, SetCostKeeps, AddEntryKeeps, MovementKeeps
<1>4. ASSUME NEW k \in Seeders, NEW p \in BomProducts, TakeProduct(k, p) PROVE SeedInv'
    BY <1>4, TakeProductKeeps
<1>5. ASSUME NEW k \in Seeders, FindOwn(k) \/ CreateOwn(k) \/ FindRecipe(k) \/ CreateRecipe(k) \/ EndSeedRun(k) PROVE SeedInv'
    BY <1>5, FindOwnKeeps, CreateOwnKeeps, FindRecipeKeeps, CreateRecipeKeeps, EndSeedRunKeeps
<1>6. ASSUME NEW k \in Seeders,
             FindAdmin(k) \/ CreateBomProduct(k) \/ UpdateProduct(k) \/ EmptyRecipe(k) \/ EndProduct(k) \/ EndBom(k) \/ Dies(k) PROVE SeedInv'
    BY <1>6, FindAdminKeeps, CreateBomProductKeeps, UpdateProductKeeps, EmptyRecipeKeeps, EndProductKeeps, EndSeedRunKeeps, DiesKeeps
<1>7. CASE (\E m \in SeedMaterials : SellPortion(m)) \/ (\E r \in KeptRows : ChangeRow(r)) \/ (\E i \in DOMAIN goods : ChangePrice(i))
    BY <1>7, ShopKeeps
<1>8. CASE UNCHANGED seedVars
  <2>1. SeedRowsOK'
    BY <1>8 DEF seedVars, SeedInv, SeedRowsOK
  <2>2. RecipesInv'
    BY <1>8 DEF seedVars, SeedInv, RecipesInv, RowsAreNamed, RunsAreAlone, OneRowEach, NewIsNew, EntriesAreLeft,
        RecipesAreMade, ActiveRuns, Named, Fresh, Left, InHand, RowsOf, SeededNames, Partial, NoRecipe, OnceEach, NoRun
  <2>3. \A m \in SeedMaterials : Movers(m)' \subseteq Movers(m)
    BY <1>8 DEF Movers, ActiveRuns, seedVars
  <2>4. MovesAreFirst' /\ SeededOnce'
    BY <1>8, <2>3, MovesStay DEF seedVars
  <2>5. QED
    BY <2>1, <2>2, <2>4 DEF SeedInv, RecipesInv
<1>9. QED
    BY <1>1, <1>2, <1>3, <1>4, <1>5, <1>6, <1>7, <1>8 DEF SeedNext

LEMMA WholeWhenDone == SeedInv => RecipesAreWhole
<1> SUFFICES ASSUME SeedInv, NEW p \in SeededNames \ torn, ActiveRuns = {}
             PROVE  Cardinality(RowsOf(p)) <= 1 /\ \A i \in RowsOf(p) : goods[i].recipe = OnceEach
    BY DEF RecipesAreWhole, SeededNames
<1>1. \A i \in RowsOf(p) : goods[i].recipe = OnceEach
    BY DEF SeedInv, RecipesAreMade
<1>2. \A i, j \in RowsOf(p) : i = j
    BY DEF SeedInv, OneRowEach
<1>3. RowsOf(p) = {} \/ \E i : RowsOf(p) = {i}
    BY <1>2
<1>4. Cardinality(RowsOf(p)) <= 1
  <2>1. CASE RowsOf(p) = {}
    BY <2>1, FS_EmptySet
  <2>2. ASSUME NEW i, RowsOf(p) = {i} PROVE Cardinality(RowsOf(p)) <= 1
    <3>1. Cardinality({i}) = 1
        BY FS_Singleton
    <3>2. QED
        BY <2>2, <3>1
  <2>3. QED
    BY <1>3, <2>1, <2>2
<1>5. QED
    BY <1>1, <1>4

LEMMA ChangesAreKept ==
    ASSUME SeedInv, [SeedNext]_seedVars, NEW r \in KeptRows, keptRow[r] = "changed"
    PROVE  keptRow'[r] = "changed"
<1>1. ASSUME NEW k \in Seeders, NEW q \in KeptRows, KeepRow(k, q) PROVE keptRow'[r] = "changed"
    BY <1>1 DEF KeepRow, Upserted, SeedInv, SeedRowsOK
<1>2. ASSUME NEW q \in KeptRows, ChangeRow(q) PROVE keptRow'[r] = "changed"
    BY <1>2 DEF ChangeRow, SeedInv, SeedRowsOK
<1>3. CASE UNCHANGED keptRow
    BY <1>3
<1>4. ASSUME NEW k \in Seeders, NEW m \in SeedMaterials,
             UpsertMaterial(k, m) \/ SetCost(k, m) \/ AddEntry(k, m) \/ Movement(k, m)
      PROVE  UNCHANGED keptRow
    BY <1>4 DEF UpsertMaterial, SetCost, AddEntry, Movement
<1>5. ASSUME NEW k \in Seeders, NEW p \in BomProducts, TakeProduct(k, p) PROVE UNCHANGED keptRow
    BY <1>5 DEF TakeProduct
<1>6. ASSUME NEW k \in Seeders, FindOwn(k) \/ CreateOwn(k) \/ FindRecipe(k) \/ CreateRecipe(k) \/ EndSeedRun(k)
      PROVE  UNCHANGED keptRow
    BY <1>6 DEF FindOwn, CreateOwn, FindRecipe, CreateRecipe, EndSeedRun
<1>7. ASSUME NEW k \in Seeders,
             FindAdmin(k) \/ CreateBomProduct(k) \/ UpdateProduct(k) \/ EmptyRecipe(k) \/ EndProduct(k) \/ EndBom(k) \/ Dies(k)
      PROVE  UNCHANGED keptRow
    BY <1>7 DEF FindAdmin, CreateBomProduct, UpdateProduct, EmptyRecipe, EndProduct, EndBom, Dies
<1>8. ASSUME NEW k \in Seeders, NEW kind \in {"seed", "bom"}, StartRun(k, kind) PROVE UNCHANGED keptRow
    BY <1>8 DEF StartRun
<1>9. CASE (\E m \in SeedMaterials : SellPortion(m)) \/ (\E i \in DOMAIN goods : ChangePrice(i))
    BY <1>9 DEF SellPortion, ChangePrice
<1>10. CASE UNCHANGED seedVars
    BY <1>10 DEF seedVars
<1>11. QED
    BY <1>1, <1>2, <1>3, <1>4, <1>5, <1>6, <1>7, <1>8, <1>9, <1>10 DEF SeedNext

\* A price of an administrator's is overwritten by the update of the run that has the
\* product in hand, which is one of seed-bom.ts, and by nothing else.
LEMMA OthersKeepTheirPrice ==
    ASSUME SeedInv, [SeedNext]_seedVars, repriced \subseteq Nat
    PROVE  /\ repriced' \subseteq Nat
           /\ \A i \in repriced \ repriced' : goods[i].name \in BomProducts
<1>1. ASSUME NEW k \in Seeders, UpdateProduct(k)
      PROVE  /\ repriced' \subseteq Nat
             /\ \A i \in repriced \ repriced' : goods[i].name \in BomProducts
  <2>1. k \in ActiveRuns /\ run[k].at = "update"
    BY <1>1 DEF UpdateProduct, RunAt, ActiveRuns, NoRun
  <2>2. goods[run[k].row].name = run[k].name /\ run[k].name \in BomProducts
    BY <2>1 DEF SeedInv, RowsAreNamed, Named
  <2>3. repriced' = repriced \ {run[k].row}
    BY <1>1 DEF UpdateProduct
  <2>4. \A i \in repriced \ repriced' : i = run[k].row
    BY <2>3
  <2>5. QED
    BY <2>2, <2>3, <2>4
<1>2. ASSUME NEW i \in DOMAIN goods, ChangePrice(i)
      PROVE  repriced' \subseteq Nat /\ repriced \ repriced' = {}
  <2>1. i \in Nat
    BY DEF SeedInv, SeedRowsOK
  <2>2. repriced' = repriced \cup {i}
    BY <1>2 DEF ChangePrice
  <2>3. QED
    BY <2>1, <2>2
<1>3. ASSUME NEW k \in Seeders, NEW m \in SeedMaterials,
             UpsertMaterial(k, m) \/ SetCost(k, m) \/ AddEntry(k, m) \/ Movement(k, m)
      PROVE  UNCHANGED repriced
    BY <1>3 DEF UpsertMaterial, SetCost, AddEntry, Movement
<1>4. ASSUME NEW k \in Seeders, NEW p \in BomProducts, TakeProduct(k, p) PROVE UNCHANGED repriced
    BY <1>4 DEF TakeProduct
<1>5. ASSUME NEW k \in Seeders, FindOwn(k) \/ CreateOwn(k) \/ FindRecipe(k) \/ CreateRecipe(k) \/ EndSeedRun(k)
      PROVE  UNCHANGED repriced
    BY <1>5 DEF FindOwn, CreateOwn, FindRecipe, CreateRecipe, EndSeedRun
<1>6. ASSUME NEW k \in Seeders,
             FindAdmin(k) \/ CreateBomProduct(k) \/ EmptyRecipe(k) \/ EndProduct(k) \/ EndBom(k) \/ Dies(k)
      PROVE  UNCHANGED repriced
    BY <1>6 DEF FindAdmin, CreateBomProduct, EmptyRecipe, EndProduct, EndBom, Dies
<1>7. ASSUME NEW k \in Seeders, NEW kind \in {"seed", "bom"}, StartRun(k, kind) PROVE UNCHANGED repriced
    BY <1>7 DEF StartRun
<1>8. ASSUME NEW k \in Seeders, NEW q \in KeptRows, KeepRow(k, q) PROVE UNCHANGED repriced
    BY <1>8 DEF KeepRow
<1>9. CASE (\E m \in SeedMaterials : SellPortion(m)) \/ (\E r \in KeptRows : ChangeRow(r))
    BY <1>9 DEF SellPortion, ChangeRow
<1>10. CASE UNCHANGED seedVars
    BY <1>10 DEF seedVars
<1>11. QED
    BY <1>1, <1>2, <1>3, <1>4, <1>5, <1>6, <1>7, <1>8, <1>9, <1>10 DEF SeedNext

\* The seeds (prisma/seed.ts, seed-bom.ts) may be run again, also after one died: of an
\* administrator's choices only the prices and costs of the products of seed-bom.ts
\* are lost, which it sets anew, and no row or recipe entry is there twice unless two
\* of them overlapped or one died over the product.
THEOREM SeedsMayRunAgain == SeedSpec => []SeedTypeOK /\ SeedsRunAgain
<1> DEFINE Inv == SeedInv /\ repriced \subseteq Nat
<1>1. Inv => SeedTypeOK /\ RecipesAreWhole /\ SeededOnce
    BY WholeWhenDone DEF SeedInv, SeedRowsOK, SeedTypeOK, SeededNames
<1>2. Inv /\ [SeedNext]_seedVars =>
          [/\ \A r \in KeptRows : keptRow[r] = "changed" => keptRow'[r] = "changed"
           /\ \A i \in repriced \ repriced' : goods[i].name \in BomProducts]_seedVars
    BY ChangesAreKept, OthersKeepTheirPrice
<1>3. SeedInit => Inv
    BY SeedInvInit DEF SeedInit
<1>4. Inv /\ [SeedNext]_seedVars => Inv'
    BY SeedInvNext, OthersKeepTheirPrice
<1>5. QED
    BY <1>1, <1>2, <1>3, <1>4, PTL DEF SeedSpec, SeedsRunAgain, ChoicesAreKept

-----------------------------------------------------------------------------
(* The equipment *)

\* A rounded quotient of numbers is one, for a divisor above nothing.
LEMMA PerMonthIsANumber ==
    ASSUME NEW worth \in Nat, NEW life \in Nat, life > 0 PROVE PerMonth(worth, life) \in Nat
BY DEF PerMonth


LEMMA RowsAreThereOrNot ==
    ASSUME AssetsTypeOK, NEW e \in Equipment
    PROVE  asset[e].there => asset[e] \in AssetRow
<1>1. asset[e] \in AssetRow \/ asset[e] = NoAsset
    BY DEF AssetsTypeOK
<1>2. ~NoAsset.there
    BY DEF NoAsset
<1> QED
    BY <1>1, <1>2

LEMMA UpdatesInHand ==
    ASSUME AssetsTypeOK, NEW k \in Updates
    PROVE  update[k].at = "write" => update[k] \in Update
BY DEF AssetsTypeOK, Update, NoUpdate

LEMMA WrittenIsARow ==
    ASSUME NEW worth \in Worths, NEW life \in Lives \ {0}
    PROVE  [there |-> TRUE, worth |-> worth, life |-> life, monthly |-> PerMonth(worth, life)]
              \in AssetRow
<1>1. worth \in Nat /\ life \in Nat /\ life > 0
    BY AssetsAssumption
<1>2. PerMonth(worth, life) \in Nat
    BY <1>1, PerMonthIsANumber
<1> QED
    BY <1>2 DEF AssetRow

LEMMA AssetsKeepTheirFigure ==
    ASSUME AssetsTypeOK, DepreciationFits, [AssetsNext]_assetVars
    PROVE  AssetsTypeOK' /\ DepreciationFits'
<1> USE DEF NoUpdate
<1>1. ASSUME NEW e \in Equipment, NEW worth \in Worths, NEW life \in Lives, CreateAsset(e, worth, life)
      PROVE  AssetsTypeOK' /\ DepreciationFits'
  <2>1. [there |-> TRUE, worth |-> worth, life |-> life, monthly |-> PerMonth(worth, life)]
              \in AssetRow
    BY <1>1, WrittenIsARow, AssetsAssumption DEF CreateAsset
  <2>2. AssetsTypeOK'
    BY <2>1, <1>1 DEF CreateAsset, AssetsTypeOK
  <2>3. DepreciationFits'
    BY <1>1 DEF CreateAsset, AssetsTypeOK, DepreciationFits
  <2> QED
    BY <2>2, <2>3
<1>2. ASSUME NEW k \in Updates, WriteAsset(k) PROVE AssetsTypeOK' /\ DepreciationFits'
  <2>1. update[k] \in Update
    BY <1>2, UpdatesInHand DEF WriteAsset
  <2>2. Written(asset[update[k].of], update[k]) \in AssetRow
    BY <2>1, WrittenIsARow DEF Update, Written
  <2>3. AssetsTypeOK'
    BY <2>1, <2>2, <1>2 DEF WriteAsset, AssetsTypeOK
  <2>4. DepreciationFits'
    BY <1>2, <2>1 DEF WriteAsset, AssetsTypeOK, DepreciationFits, Written, Update
  <2> QED
    BY <2>3, <2>4
<1>3. ASSUME NEW k \in Updates, UpdateDies(k) PROVE AssetsTypeOK' /\ DepreciationFits'
    BY <1>3 DEF UpdateDies, AssetsTypeOK, DepreciationFits
<1>4. ASSUME NEW k \in Updates, NEW e \in Equipment, NEW worth \in Worths \cup {NotGiven},
             NEW life \in Lives \cup {NotGiven}, ReadAsset(k, e, worth, life)
      PROVE  AssetsTypeOK' /\ DepreciationFits'
  <2>1. asset[e] \in AssetRow
    BY <1>4, RowsAreThereOrNot DEF ReadAsset
  <2>2. GivenOr(worth, asset[e].worth) \in Worths
    BY <2>1 DEF GivenOr, AssetRow
  <2>3. GivenOr(life, asset[e].life) \in Lives \ {0}
    <3>1. GivenOr(life, asset[e].life) \in Lives /\ GivenOr(life, asset[e].life) > 0
      BY <2>1, <1>4 DEF GivenOr, AssetRow, ReadAsset
    <3> QED
      BY <3>1
  <2>4. [at |-> "write", of |-> e, given |-> [worth |-> worth, life |-> life],
           worth |-> GivenOr(worth, asset[e].worth), life |-> GivenOr(life, asset[e].life)] \in Update
    BY <2>2, <2>3 DEF Update, Given
  <2> HIDE DEF NoUpdate
  <2>5. AssetsTypeOK'
    BY <2>4, <1>4 DEF ReadAsset, AssetsTypeOK
  <2> QED
    BY <2>5, <1>4 DEF ReadAsset, DepreciationFits
<1>5. CASE UNCHANGED assetVars
    BY <1>5 DEF assetVars, AssetsTypeOK, DepreciationFits
<1> QED
    BY <1>1, <1>2, <1>3, <1>4, <1>5 DEF AssetsNext

\* The figure that closePeriod takes from the profit each month (finance.service,
\* createAsset and updateAsset) fits the row it stands in, whatever requests are
\* under way.
THEOREM DepreciationIsRight == AssetsSpec => [](AssetsTypeOK /\ DepreciationFits)
<1>1. AssetsInit => AssetsTypeOK /\ DepreciationFits
    BY DEF AssetsInit, AssetsTypeOK, DepreciationFits, NoAsset, NoUpdate
<1>2. AssetsTypeOK /\ DepreciationFits /\ [AssetsNext]_assetVars => (AssetsTypeOK /\ DepreciationFits)'
    BY AssetsKeepTheirFigure
<1> QED
    BY <1>1, <1>2, PTL DEF AssetsSpec

-----------------------------------------------------------------------------
(* The reports *)

TakenSoFar == Cardinality(Taken)

\* The orders are numbered as they are taken.
TakenInOrder == Taken = 1..TakenSoFar

Uncancelled == {b \in client.known : bill[b].status # "voided"}

\* What the queries found is what each of them would find now.
ReportFollows ==
    Reporting =>
       /\ client.known \cup client.late \subseteq Taken
       /\ client.asked \subseteq Queries[client.doing]
       /\ ~client.stirred => client.late = {} /\ \A q \in client.asked : client.found[q] = Uncancelled

\* Of the orders there were at the start, those before a place have been seen.
SeenUpTo(place) == \A b \in client.due : TakenSoFar - b < place => b \in client.seen

\* At its n-th page the walk has seen the pages before it, and once the rows are
\* there the page itself; an order that comes in between only pushes the others on.
WalkFollows ==
    Walking =>
       /\ client.due \subseteq Taken
       /\ client.at = "half" <=> client.first # "neither"
       /\ client.at = "ask" \/ client.first = "count" => SeenUpTo((client.page - 1) * PageSize)
       /\ client.at = "shown" \/ client.first = "rows" => SeenUpTo(client.page * PageSize)
       /\ client.first = "count" /\ ~client.slipped => client.total = TakenSoFar
       /\ client.at = "shown" /\ ~client.slipped =>
             \A b \in client.due : client.total - b < client.page * PageSize => b \in client.seen

ReportsInv == ReportsTypeOK /\ TakenInOrder /\ ReportFollows /\ WalkFollows

LEMMA TasksApart ==
    ASSUME ReportsTypeOK
    PROVE  /\ Reporting => client \in ReportTask
           /\ Walking => client \in WalkTask
           /\ ~(Reporting /\ Walking)
           /\ client = Nothing => ~Reporting /\ ~Walking
           /\ TakenSoFar \in Nat /\ IsFiniteSet(Taken) /\ Taken \subseteq Bills
<1>1. /\ client = Nothing => client.doing = "nothing"
      /\ client \in ReportTask => client.doing \in {"kpi", "analytics"}
      /\ client \in WalkTask => client.doing = "pages"
    BY DEF Nothing, ReportTask, WalkTask
<1>2. client \in {Nothing} \cup ReportTask \cup WalkTask
    BY DEF ReportsTypeOK
<1>3. IsFiniteSet(Bills) /\ Taken \subseteq Bills
    BY FS_Interval, ReportsAssumption DEF Bills, Taken
<1>4. IsFiniteSet(Taken)
    BY <1>3, FS_Subset
<1>5. TakenSoFar \in Nat
    BY <1>4, FS_CardinalityType DEF TakenSoFar
<1> QED
    BY <1>1, <1>2, <1>3, <1>4, <1>5 DEF Reporting, Walking

LEMMA ReportsStart == ReportsInit => ReportsInv
<1> SUFFICES ASSUME ReportsInit PROVE ReportsInv
    OBVIOUS
<1>1. ReportsTypeOK
    BY DEF ReportsInit, ReportsTypeOK
<1>2. Taken = {} /\ TakenSoFar = 0
    BY FS_EmptySet DEF ReportsInit, Taken, TakenSoFar
<1>3. ~Reporting /\ ~Walking
    BY <1>1, TasksApart DEF ReportsInit
<1> QED
    BY <1>1, <1>2, <1>3 DEF ReportsInv, TakenInOrder, ReportFollows, WalkFollows

\* An order comes or is voided: what that does to the task in hand.
LEMMA CameToAReport ==
    ASSUME ReportsTypeOK, Reporting, NEW b \in Bills, NEW dated \in {"before", "between", "after"}
    PROVE  LET told == Came(b, dated)
           IN /\ told \in ReportTask /\ told.doing = client.doing /\ told.asked = client.asked
              /\ told.found = client.found /\ (client.stirred => told.stirred)
              /\ told.known \subseteq client.known \cup {b} /\ told.late \subseteq client.late \cup {b}
              /\ ~told.stirred => told.late = client.late
                                  /\ (told.known = client.known \/ client.asked = {})
<1>1. client \in ReportTask /\ ~Walking
    BY TasksApart
<1>2. CASE dated = "before"
  <2> DEFINE x == client.stirred \/ client.asked # {}
             known == client.known \cup {b}
  <2>1. x \in BOOLEAN /\ known \in SUBSET Bills
    BY <1>1 DEF ReportTask
  <2>2. Came(b, dated) = [client EXCEPT !.known = known, !.stirred = x]
    BY <1>1, <1>2 DEF Came
  <2>3. (client.stirred => x) /\ (~x => client.asked = {}) /\ known \subseteq client.known \cup {b}
    OBVIOUS
  <2> DEFINE told == [client EXCEPT !.known = known, !.stirred = x]
  <2> HIDE DEF x, known
  <2>4. told \in ReportTask
    BY <1>1, <2>1 DEF ReportTask
  <2>5. /\ told.doing = client.doing /\ told.asked = client.asked /\ told.found = client.found
        /\ told.late = client.late /\ told.known = known /\ told.stirred = x
    BY <1>1 DEF ReportTask
  <2> HIDE DEF told
  <2>6. Came(b, dated) = told
    BY <2>2 DEF told
  <2> QED
    BY <2>3, <2>4, <2>5, <2>6
<1>3. CASE dated = "between"
  <2> DEFINE late == client.late \cup {b}
  <2>1. late \in SUBSET Bills
    BY <1>1 DEF ReportTask
  <2>2. Came(b, dated) = [client EXCEPT !.late = late, !.stirred = TRUE]
    BY <1>1, <1>3 DEF Came
  <2>3. late \subseteq client.late \cup {b}
    OBVIOUS
  <2> DEFINE told == [client EXCEPT !.late = late, !.stirred = TRUE]
  <2> HIDE DEF late
  <2>4. told \in ReportTask
    BY <1>1, <2>1 DEF ReportTask
  <2>5. /\ told.doing = client.doing /\ told.asked = client.asked /\ told.found = client.found
        /\ told.late = late /\ told.known = client.known /\ told.stirred
    BY <1>1 DEF ReportTask
  <2> HIDE DEF told
  <2>6. Came(b, dated) = told
    BY <2>2 DEF told
  <2> QED
    BY <2>3, <2>4, <2>5, <2>6
<1>4. CASE dated = "after"
  <2>1. Came(b, dated) = client
    BY <1>1, <1>4 DEF Came
  <2> QED
    BY <1>1, <2>1
<1> QED
    BY <1>2, <1>3, <1>4

LEMMA CameElsewhere ==
    ASSUME ReportsTypeOK, ~Reporting, NEW b \in Bills, NEW dated \in {"before", "between", "after"}
    PROVE  /\ Walking => /\ Came(b, dated) = [client EXCEPT !.slipped = client.slipped \/ client.at = "half"]
                         /\ Came(b, dated) \in WalkTask
           /\ ~Walking => Came(b, dated) = client
<1>1. Walking => Came(b, dated) = [client EXCEPT !.slipped = client.slipped \/ client.at = "half"]
    BY DEF Came
<1>2. ~Walking => Came(b, dated) = client
    BY DEF Came
<1>3. ASSUME Walking PROVE Came(b, dated) \in WalkTask
  <2> DEFINE x == client.slipped \/ client.at = "half"
  <2>1. client \in WalkTask /\ x \in BOOLEAN
    BY <1>3, TasksApart
  <2>2. Came(b, dated) = [client EXCEPT !.slipped = x]
    BY <1>1, <1>3
  <2> HIDE DEF x
  <2> QED
    BY <2>1, <2>2 DEF WalkTask
<1> QED
    BY <1>1, <1>2, <1>3

LEMMA GoneIs ==
    ASSUME ReportsTypeOK, NEW b \in Bills
    PROVE  /\ Gone(b) \in {Nothing} \cup ReportTask \cup WalkTask
           /\ ~Reporting => Gone(b) = client
           /\ Reporting => Gone(b) = [client EXCEPT !.stirred = client.stirred
                              \/ (b \in client.known /\ client.asked # {})]
<1>1. ~Reporting => Gone(b) = client
    BY DEF Gone
<1>2. Reporting => Gone(b) = [client EXCEPT !.stirred = client.stirred
                              \/ (b \in client.known /\ client.asked # {})]
    BY DEF Gone
<1>3. ASSUME Reporting PROVE Gone(b) \in ReportTask
  <2> DEFINE x == client.stirred \/ (b \in client.known /\ client.asked # {})
  <2>1. client \in ReportTask /\ x \in BOOLEAN
    BY <1>3, TasksApart
  <2>2. Gone(b) = [client EXCEPT !.stirred = x]
    BY <1>2, <1>3
  <2> HIDE DEF x
  <2> QED
    BY <2>1, <2>2 DEF ReportTask
<1> QED
    BY <1>1, <1>2, <1>3 DEF ReportsTypeOK

LEMMA TakeBillKeeps ==
    ASSUME ReportsInv, NEW b \in Bills, NEW s \in DayShifts \cup {NoShift}, TakeBill(b, s)
    PROVE  ReportsInv'
<1>1. /\ b = TakenSoFar + 1 /\ bill' = [bill EXCEPT ![b] = [status |-> "live", shift |-> s]]
      /\ dayShift' = dayShift /\ ReportsTypeOK
    BY DEF TakeBill, TakenSoFar, ReportsInv
<1>0. PICK dated \in {"before", "between", "after"} : client' = Came(b, dated)
    BY DEF TakeBill
<1>2. TakenSoFar \in Nat /\ IsFiniteSet(Taken) /\ Taken = 1..TakenSoFar /\ b \notin Taken
    BY <1>1, TasksApart DEF ReportsInv, TakenInOrder
<1>3. Taken' = Taken \cup {b}
    BY <1>1 DEF Taken, ReportsTypeOK
<1>4. TakenSoFar' = TakenSoFar + 1
    BY <1>2, <1>3, FS_AddElement DEF TakenSoFar
<1>5. TakenInOrder'
    BY <1>1, <1>2, <1>3, <1>4 DEF TakenInOrder
<1>6. ReportsTypeOK'
  <2>1. client' \in {Nothing} \cup ReportTask \cup WalkTask
    BY <1>0, <1>1, CameToAReport, CameElsewhere DEF ReportsTypeOK
  <2> QED
    BY <1>1, <2>1 DEF ReportsTypeOK
<1>7. CASE Reporting
  <2>1. client \in ReportTask /\ ~Walking
    BY <1>1, <1>7, TasksApart
  <2>3. /\ client'.doing = client.doing /\ client'.asked = client.asked
        /\ client'.found = client.found /\ (client.stirred => client'.stirred)
        /\ client'.known \subseteq client.known \cup {b} /\ client'.late \subseteq client.late \cup {b}
        /\ ~client'.stirred => client'.late = client.late
                              /\ (client'.known = client.known \/ client.asked = {})
    BY <1>0, <1>1, <1>7, CameToAReport
  <2>4. client.known \cup client.late \subseteq Taken
    BY <1>7 DEF ReportsInv, ReportFollows
  <2>5. client'.known = client.known => Uncancelled' = Uncancelled
    BY <2>4, <1>1, <1>2 DEF Uncancelled, ReportsTypeOK, Taken
  <2>6. ReportFollows'
    <3>1. (client.known \cup client.late \subseteq Taken)'
      BY <2>3, <2>4, <1>3
    <3>2. ASSUME ~client'.stirred, NEW q \in client'.asked PROVE client'.found[q] = Uncancelled'
      BY <3>2, <2>3, <2>5, <1>7 DEF ReportsInv, ReportFollows
    <3> QED
      BY <3>1, <3>2, <2>3, <1>7 DEF ReportsInv, ReportFollows, Reporting
  <2>7. WalkFollows'
    BY <2>3, <1>7 DEF WalkFollows, Walking, Reporting
  <2> QED
    BY <2>6, <2>7, <1>5, <1>6 DEF ReportsInv
<1>8. CASE Walking
  <2>1. client \in WalkTask /\ ~Reporting
    BY <1>1, <1>8, TasksApart
  <2>2. client' = [client EXCEPT !.slipped = client.slipped \/ client.at = "half"]
    BY <1>0, <1>1, <1>8, <2>1, CameElsewhere
  <2>3. /\ client'.doing = client.doing /\ client'.page = client.page /\ client'.at = client.at
        /\ client'.first = client.first /\ client'.total = client.total /\ client'.seen = client.seen
        /\ client'.due = client.due /\ (client.slipped => client'.slipped)
        /\ client.at = "half" => client'.slipped
    BY <2>1, <2>2, <1>2 DEF WalkTask
  <2>4. \A place \in Int : SeenUpTo(place) => SeenUpTo(place)'
    <3> SUFFICES ASSUME NEW place \in Int, SeenUpTo(place), NEW d \in client.due,
                        (TakenSoFar + 1) - d < place
                 PROVE  d \in client.seen
      BY <2>3, <1>4 DEF SeenUpTo
    <3>1. d \in Int
      BY <2>1 DEF WalkTask, Bills
    <3>2. TakenSoFar - d < place
      BY <3>1, <1>2
    <3> QED
      BY <3>2 DEF SeenUpTo
  <2>5. client.page * PageSize \in Int /\ (client.page - 1) * PageSize \in Int
    BY <2>1, ReportsAssumption DEF WalkTask
  <2>6. WalkFollows'
    <3>1. client.first = "count" => client.at = "half"
      BY <1>8 DEF ReportsInv, WalkFollows
    <3>2. (client.due \subseteq Taken)'
      BY <2>3, <1>3, <1>8 DEF ReportsInv, WalkFollows
    <3>3. client.at = "ask" \/ client.first = "count" => SeenUpTo((client.page - 1) * PageSize)'
      <4>1. client.at = "ask" \/ client.first = "count" => SeenUpTo((client.page - 1) * PageSize)
        BY <1>8 DEF ReportsInv, WalkFollows
      <4>2. SeenUpTo((client.page - 1) * PageSize) => \A d \in client.due :
              TakenSoFar' - d < (client.page - 1) * PageSize => d \in client.seen
        BY <2>4, <2>5, <2>3 DEF SeenUpTo
      <4> QED
        BY <4>1, <4>2, <2>3 DEF SeenUpTo
    <3>4. client.at = "shown" \/ client.first = "rows" => SeenUpTo(client.page * PageSize)'
      <4>1. client.at = "shown" \/ client.first = "rows" => SeenUpTo(client.page * PageSize)
        BY <1>8 DEF ReportsInv, WalkFollows
      <4>2. SeenUpTo(client.page * PageSize) => \A d \in client.due :
              TakenSoFar' - d < client.page * PageSize => d \in client.seen
        BY <2>4, <2>5, <2>3 DEF SeenUpTo
      <4> QED
        BY <4>1, <4>2, <2>3 DEF SeenUpTo
    <3>5. client.at = "shown" /\ ~client'.slipped =>
             \A d \in client.due : client.total - d < client.page * PageSize => d \in client.seen
      BY <2>3, <1>8 DEF ReportsInv, WalkFollows
    <3>6. client.at = "half" <=> client.first # "neither"
      BY <1>8 DEF ReportsInv, WalkFollows
    <3> QED
      BY <3>1, <3>2, <3>3, <3>4, <3>5, <3>6, <2>3 DEF WalkFollows
  <2>7. ReportFollows'
    BY <2>3, <1>8 DEF ReportFollows, Walking, Reporting
  <2> QED
    BY <2>6, <2>7, <1>5, <1>6 DEF ReportsInv
<1>9. CASE ~Reporting /\ ~Walking
  <2>1. client' = client
    BY <1>0, <1>1, <1>9, CameElsewhere
  <2>2. ReportFollows' /\ WalkFollows'
    BY <2>1, <1>9 DEF ReportFollows, WalkFollows, Reporting, Walking
  <2> QED
    BY <2>2, <1>5, <1>6 DEF ReportsInv
<1> QED
    BY <1>7, <1>8, <1>9

\* The void of a bill: the number of those taken stays.
LEMMA VoidBillKeeps ==
    ASSUME ReportsInv, NEW b \in Bills, VoidBill(b) PROVE ReportsInv'
<1>1. /\ bill[b].status = "live" /\ bill' = [bill EXCEPT ![b].status = "voided"]
      /\ client' = Gone(b) /\ dayShift' = dayShift /\ ReportsTypeOK
    BY DEF VoidBill, ReportsInv
<1>2. b \in Taken /\ Taken' = Taken /\ TakenSoFar' = TakenSoFar
    BY <1>1 DEF Taken, ReportsTypeOK, TakenSoFar
<1>3. TakenInOrder'
    BY <1>2 DEF ReportsInv, TakenInOrder
<1>4. ReportsTypeOK'
    BY <1>1, GoneIs DEF ReportsTypeOK
<1>5. CASE Reporting
  <2>1. client \in ReportTask /\ ~Walking
    BY <1>1, <1>5, TasksApart
  <2>2. client' = [client EXCEPT !.stirred = client.stirred \/ (b \in client.known /\ client.asked # {})]
    BY <1>1, <1>5, GoneIs
  <2>3. /\ client'.doing = client.doing /\ client'.known = client.known /\ client'.asked = client.asked
        /\ client'.late = client.late
        /\ client'.found = client.found /\ (client.stirred => client'.stirred)
        /\ b \in client.known /\ client.asked # {} => client'.stirred
    BY <2>1, <2>2 DEF ReportTask
  <2>4. b \notin client.known => Uncancelled' = Uncancelled
    BY <2>3, <1>1, <2>1 DEF Uncancelled, ReportsTypeOK, ReportTask
  <2>5. ReportFollows'
    BY <2>3, <2>4, <1>2, <1>5 DEF ReportsInv, ReportFollows, Reporting
  <2>6. WalkFollows'
    BY <2>3, <1>5 DEF WalkFollows, Walking, Reporting
  <2> QED
    BY <2>5, <2>6, <1>3, <1>4 DEF ReportsInv
<1>6. CASE Walking
  <2>3. client' = client
    BY <1>1, <1>6, TasksApart, GoneIs
  <2>4. ReportFollows' /\ WalkFollows'
    BY <2>3, <1>2, <1>6 DEF ReportsInv, ReportFollows, WalkFollows, SeenUpTo, Walking, Reporting
  <2> QED
    BY <2>4, <1>3, <1>4 DEF ReportsInv
<1>7. CASE ~Reporting /\ ~Walking
  <2>1. client' = client
    BY <1>1, <1>7, GoneIs
  <2>2. ReportFollows' /\ WalkFollows'
    BY <2>1, <1>7 DEF ReportFollows, WalkFollows, Reporting, Walking
  <2> QED
    BY <2>2, <1>3, <1>4 DEF ReportsInv
<1> QED
    BY <1>5, <1>6, <1>7

LEMMA QueryKeeps ==
    ASSUME ReportsInv, NEW q \in AllQueries, Query(q) PROVE ReportsInv'
<1> DEFINE counted == {b \in Ranged(q) : Counts(q, b)}
<1>1. /\ Reporting /\ q \in Queries[client.doing]
      /\ client' = [client EXCEPT !.asked = client.asked \cup {q},
                                  !.found = [client.found EXCEPT ![q] = counted]]
      /\ bill' = bill /\ dayShift' = dayShift /\ ReportsTypeOK
    BY DEF Query, ReportsInv
<1>2. client \in ReportTask
    BY <1>1, TasksApart
<1>3. counted \in SUBSET Bills /\ (client.late = {} => counted = Uncancelled)
    BY <1>2 DEF Uncancelled, ReportTask, Ranged, Counts
<1> HIDE DEF counted
<1>4. client' \in ReportTask
  <2>1. client.asked \cup {q} \in SUBSET AllQueries
    BY <1>2 DEF ReportTask
  <2>2. [client.found EXCEPT ![q] = counted] \in [AllQueries -> SUBSET Bills]
    BY <1>2, <1>3 DEF ReportTask
  <2> QED
    BY <1>1, <1>2, <2>1, <2>2 DEF ReportTask
<1>5. /\ client'.doing = client.doing /\ client'.known = client.known /\ client'.late = client.late
      /\ client'.asked = client.asked \cup {q} /\ client'.stirred = client.stirred
      /\ client'.found = [client.found EXCEPT ![q] = counted]
    BY <1>1, <1>2 DEF ReportTask
<1>6. ReportsTypeOK' /\ TakenInOrder'
    BY <1>1, <1>4 DEF ReportsTypeOK, ReportsInv, TakenInOrder, TakenSoFar, Taken
<1>7. Uncancelled' = Uncancelled /\ Taken' = Taken
    BY <1>1, <1>5 DEF Uncancelled, Taken
<1>8. ReportFollows'
  <2>1. \A p \in client.asked : p # q => client'.found[p] = client.found[p]
    BY <1>2, <1>5 DEF ReportTask
  <2>2. client'.found[q] = counted
    BY <1>2, <1>5 DEF ReportTask
  <2> QED
    BY <1>1, <1>3, <1>5, <1>7, <2>1, <2>2 DEF ReportsInv, ReportFollows, Reporting
<1>9. WalkFollows'
    BY <1>1, <1>5 DEF WalkFollows, Walking, Reporting
<1> QED
    BY <1>6, <1>8, <1>9 DEF ReportsInv

LEMMA PagesAreNumbers ==
    ASSUME NEW page \in Nat \ {0}
    PROVE  /\ Skip(page) = (page - 1) * PageSize /\ Skip(page) \in Nat /\ page * PageSize \in Nat
           /\ Skip(page) + PageSize = page * PageSize
           /\ ((page + 1) - 1) * PageSize = page * PageSize
<1>1. PageSize \in Nat /\ page - 1 \in Nat
    BY ReportsAssumption
<1>2. (page - 1) * PageSize \in Nat /\ page * PageSize \in Nat
    BY <1>1
<1>3. (page - 1) * PageSize + PageSize = page * PageSize
    BY <1>1
<1>4. (page + 1) - 1 = page
    OBVIOUS
<1> QED
    BY <1>2, <1>3, <1>4 DEF Skip

LEMMA AskPageKeeps ==
    ASSUME ReportsInv, NEW q \in {"rows", "count"}, AskPage(q) PROVE ReportsInv'
<1>1. /\ Walking /\ client.at \in {"ask", "half"} /\ client.first # q
      /\ bill' = bill /\ dayShift' = dayShift /\ ReportsTypeOK
    BY DEF AskPage, ReportsInv
<1>2. client \in WalkTask /\ ~Reporting /\ TakenSoFar \in Nat
    BY <1>1, TasksApart
<1> DEFINE at == IF client.at = "ask" THEN "half" ELSE "shown"
           first == IF client.at = "ask" THEN q ELSE "neither"
           total == IF q = "count" THEN TakenSoFar ELSE client.total
           seen == IF q = "rows" THEN client.seen \cup OnPage(client.page) ELSE client.seen
<1>3. client' = [client EXCEPT !.at = at, !.first = first, !.total = total, !.seen = seen]
    BY DEF AskPage, TakenSoFar
<1>4. at \in {"half", "shown"} /\ first \in {"neither", "rows", "count"} /\ total \in Nat /\ seen \in SUBSET Bills
    BY <1>2 DEF WalkTask, OnPage, Taken
<1>5. /\ client' \in WalkTask /\ client'.doing = "pages" /\ client'.page = client.page /\ client'.due = client.due
      /\ client'.slipped = client.slipped /\ client'.at = at /\ client'.first = first
      /\ client'.total = total /\ client'.seen = seen
  <2> HIDE DEF at, first, total, seen
  <2> QED
    BY <1>2, <1>3, <1>4 DEF WalkTask
<1>6. ReportsTypeOK' /\ TakenInOrder' /\ Taken' = Taken /\ TakenSoFar' = TakenSoFar
    BY <1>1, <1>5 DEF ReportsTypeOK, ReportsInv, TakenInOrder, TakenSoFar, Taken
<1>7. ReportFollows'
    BY <1>5 DEF ReportFollows, Reporting
<1> DEFINE n == client.page * PageSize
           before == (client.page - 1) * PageSize
           N == TakenSoFar
           due == client.due
<1>8. /\ n \in Nat /\ before \in Nat /\ before + PageSize = n /\ Skip(client.page) = before
    BY <1>2, PagesAreNumbers DEF WalkTask, Skip
<1>9. /\ due \subseteq Taken /\ due \subseteq Bills
      /\ client.at = "ask" <=> client.first = "neither"
      /\ client.at = "ask" \/ client.first = "count" =>
            \A b \in due : N - b < before => b \in client.seen
      /\ client.first = "rows" => \A b \in due : N - b < n => b \in client.seen
      /\ client.first = "count" /\ ~client.slipped => client.total = N
    BY <1>1, <1>2 DEF ReportsInv, WalkFollows, WalkTask, SeenUpTo, Taken
<1>10. q = "rows" => \A b \in due : N - b < n => b \in seen
  <2> SUFFICES ASSUME q = "rows", NEW b \in due, N - b < n PROVE b \in client.seen \cup OnPage(client.page)
    OBVIOUS
  <2>1. client.at = "ask" \/ client.first = "count"
    BY <1>1, <1>2, <1>9 DEF WalkTask
  <2>2. CASE N - b < before
    BY <2>1, <2>2, <1>9
  <2>3. CASE ~(N - b < before)
    <3>1. b \in Int /\ b \in Taken /\ PageSize \in Nat
      BY <1>9, ReportsAssumption DEF Bills
    <3>2. b <= N
      BY <3>1, <1>2 DEF ReportsInv, TakenInOrder
    <3>3. N - b \in Nat /\ before <= N - b /\ N - b <= before + PageSize - 1
      BY <3>1, <3>2, <2>3, <1>2, <1>8
    <3>4. Place(b) \in Skip(client.page)..(Skip(client.page) + PageSize - 1)
      BY <3>1, <3>3, <1>8 DEF Place, TakenSoFar
    <3> QED
      BY <3>1, <3>4 DEF OnPage
  <2> QED
    BY <2>2, <2>3
<1>11. WalkFollows'
  <2> SUFFICES /\ due \subseteq Taken
               /\ at = "half" <=> first # "neither"
               /\ at = "ask" \/ first = "count" => \A b \in due : N - b < before => b \in seen
               /\ at = "shown" \/ first = "rows" => \A b \in due : N - b < n => b \in seen
               /\ first = "count" /\ ~client.slipped => total = N
               /\ at = "shown" /\ ~client.slipped => \A b \in due : total - b < n => b \in seen
    <3> HIDE DEF at, first, total, seen
    <3> QED
      BY <1>5, <1>6 DEF WalkFollows, SeenUpTo
  <2>1. due \subseteq Taken /\ (at = "half" <=> first # "neither")
    BY <1>1, <1>9
  <2>2. at = "ask" \/ first = "count" => \A b \in due : N - b < before => b \in seen
    BY <1>1, <1>9
  <2>3. at = "shown" \/ first = "rows" => \A b \in due : N - b < n => b \in seen
    <3>1. CASE q = "rows"
      BY <3>1, <1>10
    <3>2. CASE q = "count"
      <4>1. at = "shown" => client.first = "rows"
        BY <3>2, <1>1, <1>2, <1>9 DEF WalkTask
      <4> QED
        BY <4>1, <3>2, <1>1, <1>9
    <3> QED
      BY <3>1, <3>2
  <2>4. first = "count" /\ ~client.slipped => total = N
    BY <1>1
  <2>5. at = "shown" /\ ~client.slipped => total = N
    <3>1. CASE q = "count"
      BY <3>1
    <3>2. CASE q = "rows"
      <4>1. at = "shown" => client.first = "count"
        BY <3>2, <1>1, <1>2, <1>9 DEF WalkTask
      <4> QED
        BY <4>1, <3>2, <1>9
    <3> QED
      BY <3>1, <3>2
  <2> HIDE DEF at, first, total, seen, n, before, N
  <2> QED
    BY <2>1, <2>2, <2>3, <2>4, <2>5
<1> QED
    BY <1>6, <1>7, <1>11 DEF ReportsInv

LEMMA NextPageKeeps == ASSUME ReportsInv, NextPage PROVE ReportsInv'
<1>1. /\ Walking /\ client.at = "shown" /\ bill' = bill /\ dayShift' = dayShift /\ ReportsTypeOK
      /\ client' = [client EXCEPT !.page = client.page + 1, !.at = "ask"]
    BY DEF NextPage, ReportsInv
<1>2. client \in WalkTask
    BY <1>1, TasksApart
<1>3. /\ client' \in WalkTask /\ client'.doing = "pages" /\ client'.page = client.page + 1
      /\ client'.due = client.due /\ client'.at = "ask" /\ client'.first = client.first
      /\ client'.total = client.total /\ client'.seen = client.seen
  <2> DEFINE page == client.page + 1
  <2>1. page \in Nat \ {0} /\ client' = [client EXCEPT !.page = page, !.at = "ask"]
    BY <1>1, <1>2 DEF WalkTask
  <2> HIDE DEF page
  <2> QED
    BY <2>1, <1>2 DEF WalkTask, page
<1>4. ReportsTypeOK' /\ TakenInOrder' /\ Taken' = Taken /\ TakenSoFar' = TakenSoFar
    BY <1>1, <1>3 DEF ReportsTypeOK, ReportsInv, TakenInOrder, TakenSoFar, Taken
<1>5. ReportFollows'
    BY <1>3 DEF ReportFollows, Reporting
<1>6. /\ client.due \subseteq Taken /\ client.first = "neither" /\ SeenUpTo(client.page * PageSize)
    BY <1>1, <1>2 DEF ReportsInv, WalkFollows, WalkTask
<1>7. (client'.page - 1) * PageSize = client.page * PageSize
    BY <1>2, <1>3, PagesAreNumbers DEF WalkTask
<1>8. WalkFollows'
    BY <1>3, <1>4, <1>6, <1>7 DEF WalkFollows, SeenUpTo
<1> QED
    BY <1>4, <1>5, <1>8 DEF ReportsInv

LEMMA TasksBegin ==
    ASSUME ReportsInv,
           \/ \E kind \in {"kpi", "analytics"} : StartReport(kind)
           \/ StartWalk \/ EndReport \/ LeavePages \/ \E s \in DayShifts : ShiftGoesOn(s)
    PROVE  ReportsInv'
<1>1. bill' = bill /\ ReportsTypeOK
    BY DEF StartReport, StartWalk, EndReport, LeavePages, ShiftGoesOn, ReportsInv
<1>2. dayShift' \in [DayShifts -> {"none", "open", "closed"}]
    BY DEF StartReport, StartWalk, EndReport, LeavePages, ShiftGoesOn, ReportsInv, ReportsTypeOK
<1>3. TakenInOrder' /\ Taken' = Taken /\ TakenSoFar' = TakenSoFar
    BY <1>1 DEF ReportsInv, TakenInOrder, TakenSoFar, Taken
<1>4. ASSUME NEW kind \in {"kpi", "analytics"}, StartReport(kind) PROVE ReportsInv'
  <2> DEFINE row == Report(kind, InRange(kind), DaysShifts)
  <2>1. /\ row \in ReportTask /\ row.doing = kind /\ row.known \subseteq Taken /\ row.asked = {}
        /\ row.late = {}
    BY TasksApart, <1>1 DEF Report, ReportTask, InRange, DaysShifts
  <2> HIDE DEF row
  <2>2. client' = row
    BY <1>4 DEF StartReport, row
  <2>3. ReportsTypeOK'
    BY <1>1, <1>2, <2>1, <2>2 DEF ReportsTypeOK
  <2>4. ReportFollows' /\ WalkFollows'
    BY <2>1, <2>2, <1>3 DEF ReportFollows, WalkFollows, Walking
  <2> QED
    BY <1>3, <2>3, <2>4 DEF ReportsInv
<1>5. CASE StartWalk
  <2> DEFINE row == Walk(Taken)
  <2>1. /\ row \in WalkTask /\ row.doing = "pages" /\ row.due = Taken /\ row.page = 1 /\ row.at = "ask"
        /\ row.first = "neither"
    BY TasksApart, <1>1 DEF Walk, WalkTask
  <2> HIDE DEF row
  <2>2. client' = row
    BY <1>5 DEF StartWalk, row
  <2>3. ReportsTypeOK'
    BY <1>1, <1>2, <2>1, <2>2 DEF ReportsTypeOK
  <2>4. SeenUpTo((1 - 1) * PageSize)'
    <3> SUFFICES ASSUME NEW b \in Taken PROVE ~(TakenSoFar - b < (1 - 1) * PageSize)
      BY <2>1, <2>2, <1>3 DEF SeenUpTo
    <3>1. b \in 1..TakenSoFar /\ TakenSoFar \in Nat /\ (1 - 1) * PageSize = 0
      BY <1>1, TasksApart, ReportsAssumption DEF ReportsInv, TakenInOrder
    <3> QED
      BY <3>1
  <2>5. ReportFollows' /\ WalkFollows'
    BY <2>1, <2>2, <2>4, <1>3 DEF ReportFollows, WalkFollows, Reporting
  <2> QED
    BY <1>3, <2>3, <2>5 DEF ReportsInv
<1>6. CASE EndReport \/ LeavePages
  <2>1. client' = Nothing
    BY <1>6 DEF EndReport, LeavePages
  <2>2. ReportsTypeOK'
    BY <1>1, <1>2, <2>1 DEF ReportsTypeOK
  <2>3. ReportFollows' /\ WalkFollows'
    BY <2>1 DEF ReportFollows, WalkFollows, Reporting, Walking, Nothing
  <2> QED
    BY <1>3, <2>2, <2>3 DEF ReportsInv
<1>7. CASE \E s \in DayShifts : ShiftGoesOn(s)
  <2>1. client' = client
    BY <1>7 DEF ShiftGoesOn
  <2>2. ReportsTypeOK'
    BY <1>1, <1>2, <2>1 DEF ReportsTypeOK
  <2>3. ReportFollows' /\ WalkFollows'
    BY <2>1, <1>1, <1>3 DEF ReportsInv, ReportFollows, WalkFollows, Uncancelled, SeenUpTo, Reporting, Walking
  <2> QED
    BY <1>3, <2>2, <2>3 DEF ReportsInv
<1> QED
    BY <1>4, <1>5, <1>6, <1>7

LEMMA ReportsStep == ReportsInv /\ [ReportsNext]_reportVars => ReportsInv'
<1> SUFFICES ASSUME ReportsInv, [ReportsNext]_reportVars PROVE ReportsInv'
    OBVIOUS
<1>1. CASE UNCHANGED reportVars
    BY <1>1 DEF reportVars, ReportsInv, ReportsTypeOK, TakenInOrder, TakenSoFar, Taken, ReportFollows,
                WalkFollows, Uncancelled, SeenUpTo, Reporting, Walking
<1> QED
    BY <1>1, TakeBillKeeps, VoidBillKeeps, QueryKeeps, AskPageKeeps, NextPageKeeps, TasksBegin DEF ReportsNext

\* The dashboard and the analytics (finance.service.ts getDashboardKpi and
\* getAnalytics) are drawn from queries that agree unless one of their orders came or
\* was voided in between, or is dated between the two ends of the dashboard's range;
\* and who pages through the orders (getHistory) misses none that was there at the
\* start unless one came between the two queries of a page, for any number of orders
\* and any size of the page.
THEOREM ReportsAreWhole == ReportsSpec => [](ReportsTypeOK /\ FiguresAgree /\ PagesMissNothing)
<1>1. ReportsInv => ReportsTypeOK /\ FiguresAgree /\ PagesMissNothing
  <2> SUFFICES ASSUME ReportsInv PROVE FiguresAgree /\ PagesMissNothing
    BY DEF ReportsInv
  <2>1. FiguresAgree
    BY DEF ReportsInv, FiguresAgree, ReportAnswered, ReportFollows
  <2>2. PagesMissNothing
    <3> SUFFICES ASSUME Walking, client.at = "shown", LastPage, ~client.slipped, NEW b \in client.due
                 PROVE  b \in client.seen
      BY DEF PagesMissNothing
    <3>1. client \in WalkTask
      BY TasksApart DEF ReportsInv
    <3>2. b \in Nat /\ b > 0 /\ client.total \in Nat /\ client.page * PageSize \in Nat
      BY <3>1, ReportsAssumption DEF WalkTask, Bills
    <3>3. client.total - b < client.page * PageSize
      BY <3>2 DEF LastPage
    <3> QED
      BY <3>3 DEF ReportsInv, WalkFollows
  <2> QED
    BY <2>1, <2>2
<1> QED
    BY <1>1, ReportsStart, ReportsStep, PTL DEF ReportsSpec

-----------------------------------------------------------------------------
(* The books side by side: what holds of a part holds of it among the others. *)

LEMMA BooksHaveDrawer == BooksSpec => DrawerInit /\ [][DrawerNext]_drawerVars
<1>1. BooksInit => DrawerInit
    BY DEF BooksInit
<1>2. [BooksNext]_booksVars => [DrawerNext]_drawerVars
    BY DEF BooksNext, booksVars
<1> QED
    BY <1>1, <1>2, PTL DEF BooksSpec

LEMMA BooksHaveShare == BooksSpec => ShareSpec
<1>1. BooksInit => ShareInit
    BY DEF BooksInit
<1>2. [BooksNext]_booksVars => [ShareNext]_shareVars
    BY DEF BooksNext, booksVars
<1> QED
    BY <1>1, <1>2, PTL DEF BooksSpec, ShareSpec

LEMMA BooksHavePoints == BooksSpec => PointsSpec
<1>1. BooksInit => PointsInit
    BY DEF BooksInit
<1>2. [BooksNext]_booksVars => [PointsNext]_memberVars
    BY DEF BooksNext, booksVars
<1> QED
    BY <1>1, <1>2, PTL DEF BooksSpec, PointsSpec

LEMMA BooksHaveStock == BooksSpec => InventorySpec
<1>1. BooksInit => InventoryInit
    BY DEF BooksInit
<1>2. [BooksNext]_booksVars => [InventoryNext]_inventoryVars
    BY DEF BooksNext, booksVars
<1> QED
    BY <1>1, <1>2, PTL DEF BooksSpec, InventorySpec

LEMMA BooksHaveCatalog == BooksSpec => CatalogSpec
<1>1. BooksInit => CatalogInit
    BY DEF BooksInit
<1>2. [BooksNext]_booksVars => [CatalogNext]_catalogVars
    BY DEF BooksNext, booksVars
<1> QED
    BY <1>1, <1>2, PTL DEF BooksSpec, CatalogSpec

LEMMA BooksHavePrices == BooksSpec => PricingInit /\ [][PricingNext]_priceVars
<1>1. BooksInit => PricingInit
    BY DEF BooksInit
<1>2. [BooksNext]_booksVars => [PricingNext]_priceVars
    BY DEF BooksNext, booksVars
<1> QED
    BY <1>1, <1>2, PTL DEF BooksSpec

LEMMA BooksHaveReports == BooksSpec => ReportsSpec
<1>1. BooksInit => ReportsInit
    BY DEF BooksInit
<1>2. [BooksNext]_booksVars => [ReportsNext]_reportVars
    BY DEF BooksNext, booksVars
<1> QED
    BY <1>1, <1>2, PTL DEF BooksSpec, ReportsSpec

LEMMA BooksHaveAssets == BooksSpec => AssetsSpec
<1>1. BooksInit => AssetsInit
    BY DEF BooksInit
<1>2. [BooksNext]_booksVars => [AssetsNext]_assetVars
    BY DEF BooksNext, booksVars
<1> QED
    BY <1>1, <1>2, PTL DEF BooksSpec, AssetsSpec

LEMMA BooksHaveSeeds == BooksSpec => SeedSpec
<1>1. BooksInit => SeedInit
    BY DEF BooksInit
<1>2. [BooksNext]_booksVars => [SeedNext]_seedVars
    BY DEF BooksNext, booksVars
<1> QED
    BY <1>1, <1>2, PTL DEF BooksSpec, SeedSpec

\* No interleaving of the parts leaves a row or a request out of its shape.
THEOREM BooksTypeCorrect == BooksSpec => []BooksTypeOK
<1>1. BooksSpec => [](DrawerTypeOK /\ ShareTypeOK /\ PointsTypeOK /\ InventoryTypeOK)
    BY BooksHaveDrawer, DrawerKeepsItsTypes, BooksHaveShare, SharesStayExact, BooksHavePoints,
       PointsStayExplained, BooksHaveStock, StockStaysExplained, PTL
<1>2. BooksSpec => [](CatalogTypeOK /\ PricingTypeOK)
  <2>1. PricingInv => PricingTypeOK
    BY DEF PricingInv
  <2> QED
    BY <2>1, BooksHaveCatalog, CatalogRemembers, BooksHavePrices, PricesStayAsTheyShould, PTL
<1>3. BooksSpec => [](ReportsTypeOK /\ AssetsTypeOK /\ SeedTypeOK)
    BY BooksHaveReports, ReportsAreWhole, BooksHaveAssets, DepreciationIsRight, BooksHaveSeeds,
       SeedsMayRunAgain, PTL
<1> QED
    BY <1>1, <1>2, <1>3, PTL DEF BooksTypeOK

\* What the admin reads adds up beside the other parts of the books: the shares of a
\* closed month (rounded as a whole), the depreciation in its profit, the figures of a
\* report and its pages (unless orders came or were voided between its queries).
THEOREM FiguresStayWhole == BooksSpec => []FiguresAreWhole
BY BooksHaveShare, SharesStayExact, BooksHaveAssets, DepreciationIsRight, BooksHaveReports,
   ReportsAreWhole, PTL DEF FiguresAreWhole
=============================================================================
