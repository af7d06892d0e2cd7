------------------------------- MODULE CashDrawer -------------------------------
(***************************************************************************)
(* Shifts, rows of CashRegister.  A cashier opens one (openShift of the      *)
(* finance service, startShift of the orders service) and closes it with a   *)
(* count of the drawer (closeShift); a cron job closes the ones that are     *)
(* overdue (autoCloseShift) and an admin closes any (forceCloseShift).  The  *)
(* total a shift is closed with is a sum over the orders of the cashier      *)
(* since it started, and sales go on while the sum is taken.                 *)
(*                                                                         *)
(* pg_try_advisory_lock is called through $executeRaw, which answers with    *)
(* the number of rows: it is always 1, so the locks of closeShift and        *)
(* autoCloseShift (on different keys anyway) are always "acquired".          *)
(*                                                                         *)
(* created_at >= shift_start holds for the sales made after the row was      *)
(* inserted, so a sale carries the shifts that had started by then.          *)
(***************************************************************************)
EXTENDS Naturals, FiniteSets

CONSTANTS
    Cashiers,     \* cashiers assigned to an active outlet
    Sales,        \* sales the cashiers may make
    Methods,      \* the payment methods they use
    Requests,     \* requests and cron tasks the backend may be running at once
    MaxShifts     \* bound: rows of CashRegister

ASSUME DrawerAssumption ==
    Cashiers # {} /\ MaxShifts \in Nat /\ Methods \subseteq {"cash", "split", "qris"}

ShiftIds == 1..MaxShifts

VARIABLES
    shift,        \* the rows of CashRegister
    sale,         \* the sales, as rows of Order or still in the till's queue
    step, task,   \* where each request is, and what it holds
    contended     \* shifts that two closers were closing at the same time

drawerVars == <<shift, sale, step, task, contended>>

Closers == {"cashier", "cron", "admin"}

\* due: where the time stands against planned_close_at; "never" when it is null.
\* counted: the sales whose cash system_cash_total adds to opening_balance.
Shift == [status: {"none", "open", "closed"}, cashier: Cashiers,
          due: {"never", "later", "overdue"}, counted: SUBSET Sales]

Sale == [state: {"none", "queued", "pending", "completed", "voided"},
         method: {"cash", "split", "qris"}, cashier: Cashiers,
         since: SUBSET ShiftIds,   \* shifts started before created_at
         taken: ShiftIds \cup {0}, \* the open shift when the money was taken
         calm: BOOLEAN]            \* nobody was closing that shift then

NoTask == [by |-> "none"]
OpenTask  == [by: {"open", "start"}, cashier: Cashiers]
CloseTask == [by: Closers, shift: ShiftIds, upTo: SUBSET Sales, counted: SUBSET Sales]

DrawerTypeOK ==
    /\ shift \in [ShiftIds -> Shift]
    /\ sale \in [Sales -> Sale]
    /\ step \in [Requests -> {"idle", "insert", "check", "sum", "write"}]
    /\ task \in [Requests -> {NoTask} \cup OpenTask \cup CloseTask]
    /\ contended \subseteq ShiftIds

DrawerInit ==
    /\ shift = [s \in ShiftIds |->
                 [status |-> "none", cashier |-> CHOOSE c \in Cashiers : TRUE, due |-> "never",
                  counted |-> {}]]
    /\ sale = [x \in Sales |->
                 [state |-> "none", method |-> "cash", cashier |-> CHOOSE c \in Cashiers : TRUE,
                  since |-> {}, taken |-> 0, calm |-> TRUE]]
    /\ step = [r \in Requests |-> "idle"]
    /\ task = [r \in Requests |-> NoTask]
    /\ contended = {}

-----------------------------------------------------------------------------
Open(s) == shift[s].status = "open"
Started == {s \in ShiftIds : shift[s].status # "none"}
OpenOf(c) == {s \in ShiftIds : Open(s) /\ shift[s].cashier = c}
Made(x) == sale[x].state \notin {"none", "queued"}   \* has a row of Order

Proceed(r, at, t) ==
    /\ step' = [step EXCEPT ![r] = at]
    /\ task' = [task EXCEPT ![r] = t]

\* The request is answered or throws.
EndTask(r) == Proceed(r, "idle", NoTask)

-----------------------------------------------------------------------------
(* Opening: openShift and startShift look for an open shift and then insert. *)

\* The lookup finds no open shift.  It looks at one outlet and compares a DATE
\* column (the UTC date) with local midnight, so it may well miss one; when it
\* finds one, nothing changes: openShift refuses and startShift answers with it.
OpenLook(r, c, by) ==
    /\ step[r] = "idle"
    /\ Proceed(r, "insert", [by |-> by, cashier |-> c])
    /\ UNCHANGED <<shift, sale, contended>>

\* The partial unique index on cashier_id WHERE status = 'open'.
IndexAllows_NoIndex(c) == c \in Cashiers
IndexAllows(c) == OpenOf(c) = {}

NewShift(t, due) ==
    [status |-> "open", cashier |-> t.cashier, due |-> due, counted |-> {}]

\* openShift gives every shift a planned_close_at, possibly one that is over;
\* startShift gives none.
Insert(r) ==
    /\ step[r] = "insert"
    /\ IndexAllows(task[r].cashier)
    /\ \E s \in ShiftIds :
          /\ Started = 1..(s - 1)
          /\ \E due \in (IF task[r].by = "start" THEN {"never"} ELSE {"later", "overdue"}) :
                shift' = [shift EXCEPT ![s] = NewShift(task[r], due)]
    /\ EndTask(r)
    /\ UNCHANGED <<sale, contended>>

InsertRefused(r) ==
    /\ step[r] = "insert"
    /\ ~IndexAllows(task[r].cashier)
    /\ EndTask(r)
    /\ UNCHANGED <<shift, sale, contended>>

-----------------------------------------------------------------------------
(* Closing: find, check that it is open, sum, write. *)

Closing(r, s) == step[r] \in {"sum", "write"} /\ task[r].shift = s

CloseJob(by, s) == [by |-> by, shift |-> s, upTo |-> {}, counted |-> {}]

CloseFind(r, c) ==
    /\ step[r] = "idle"
    /\ \E s \in OpenOf(c) : Proceed(r, "check", CloseJob("cashier", s))
    /\ UNCHANGED <<shift, sale, contended>>

\* Variant: the comparison with planned_close_at is the wrong way round.
AutoFind_NotOverdue(r, s) ==
    /\ step[r] = "idle"
    /\ Open(s) /\ shift[s].due = "later"
    /\ Proceed(r, "check", CloseJob("cron", s))
    /\ UNCHANGED <<shift, sale, contended>>

\* checkAutoCloseShifts lists the overdue shifts and closes them in parallel.
AutoFind(r, s) ==
    /\ step[r] = "idle"
    /\ Open(s) /\ shift[s].due = "overdue"
    /\ Proceed(r, "check", CloseJob("cron", s))
    /\ UNCHANGED <<shift, sale, contended>>

\* Goes on to the sum.  The cron reads the clock here and only counts sales
\* made before it.
PassCheck(r, t) ==
    /\ Proceed(r, "sum", [t EXCEPT !.upTo = IF t.by = "cron" THEN {x \in Sales : Made(x)} ELSE @])
    /\ contended' = IF \E q \in Requests \ {r} : Closing(q, t.shift)
                    THEN contended \cup {t.shift} ELSE contended

\* Variant: the second look at the status is left out.
Check_NoSecondLook(r) ==
    /\ step[r] = "check"
    /\ PassCheck(r, task[r])
    /\ UNCHANGED <<shift, sale>>

Check(r) ==
    /\ step[r] = "check"
    /\ IF Open(task[r].shift)
       THEN PassCheck(r, task[r])
       ELSE EndTask(r) /\ UNCHANGED contended
    /\ UNCHANGED <<shift, sale>>

\* forceCloseShift reads the row and goes straight to the sum.
ForceFind(r, s) ==
    /\ step[r] = "idle"
    /\ Open(s)
    /\ PassCheck(r, CloseJob("admin", s))
    /\ UNCHANGED <<shift, sale>>

InDrawer(s, x) ==
    /\ sale[x].state = "completed"
    /\ sale[x].method \in {"cash", "split"}
    /\ sale[x].cashier = shift[s].cashier
    /\ s \in sale[x].since

SumSales(r) ==
    LET t == task[r]
        found == {x \in Sales : InDrawer(t.shift, x)}
    IN /\ step[r] = "sum"
       /\ Proceed(r, "write",
                  [t EXCEPT !.counted = IF t.by = "cron" THEN found \cap t.upTo ELSE found])
       /\ UNCHANGED <<shift, sale, contended>>

Write(r) ==
    LET t == task[r]
    IN /\ step[r] = "write"
       /\ shift' = [shift EXCEPT ![t.shift].status = "closed",
                                 ![t.shift].counted = t.counted]
       /\ EndTask(r)
       /\ UNCHANGED <<sale, contended>>

\* An error, caught by the cron and thrown to the client otherwise, or the end
\* of the process.
Abandon(r) ==
    /\ step[r] # "idle"
    /\ EndTask(r)
    /\ UNCHANGED <<shift, sale, contended>>

-----------------------------------------------------------------------------
(* Time and sales. *)

\* planned_close_at is 30 minutes past.
TimePasses(s) ==
    /\ Open(s) /\ shift[s].due = "later"
    /\ shift' = [shift EXCEPT ![s].due = "overdue"]
    /\ UNCHANGED <<sale, step, task, contended>>

Current(c) == IF OpenOf(c) = {} THEN 0 ELSE CHOOSE s \in OpenOf(c) : TRUE
Row(c, m, state, taken, calm) ==
    [state |-> state, method |-> m, cashier |-> c, since |-> Started, taken |-> taken, calm |-> calm]

\* The intake asks for no open shift.  A cash sale is completed at once, the
\* others wait for the gateway.
Sell(x, c, m) ==
    /\ sale[x].state = "none"
    /\ sale' = [sale EXCEPT ![x] =
                  Row(c, m, IF m = "cash" THEN "completed" ELSE "pending", Current(c),
                      \A r \in Requests : ~ \E s \in OpenOf(c) : Closing(r, s))]
    /\ UNCHANGED <<shift, step, task, contended>>

\* A cash sale made offline gets its row, and created_at, when the till syncs.
SellOffline(x, c) ==
    /\ sale[x].state = "none"
    /\ sale' = [sale EXCEPT ![x] = [Row(c, "cash", "queued", Current(c), FALSE) EXCEPT !.since = {}]]
    /\ UNCHANGED <<shift, step, task, contended>>

Sync(x) ==
    /\ sale[x].state = "queued"
    /\ sale' = [sale EXCEPT ![x].state = "completed", ![x].since = Started]
    /\ UNCHANGED <<shift, step, task, contended>>

Settle(x, state) ==
    /\ \/ sale[x].state = "pending" /\ state \in {"completed", "voided"}
       \/ sale[x].state = "completed" /\ state = "voided"
    /\ sale' = [sale EXCEPT ![x].state = state]
    /\ UNCHANGED <<shift, step, task, contended>>

-----------------------------------------------------------------------------
RequestStep(r) ==
    Insert(r) \/ InsertRefused(r) \/ Check(r) \/ SumSales(r) \/ Write(r)

ShiftRequest(r) ==
    \/ \E c \in Cashiers : CloseFind(r, c) \/ \E by \in {"open", "start"} : OpenLook(r, c, by)
    \/ \E s \in ShiftIds : ForceFind(r, s)

SaleStep(x) ==
    \/ \E c \in Cashiers, m \in Methods : Sell(x, c, m)
    \/ \E c \in Cashiers : SellOffline(x, c)
    \/ Sync(x)
    \/ \E state \in {"completed", "voided"} : Settle(x, state)

DrawerNext ==
    \/ \E r \in Requests : ShiftRequest(r) \/ RequestStep(r) \/ Abandon(r)
    \/ \E r \in Requests, s \in ShiftIds : AutoFind(r, s)
    \/ \E s \in ShiftIds : TimePasses(s)
    \/ \E x \in Sales : SaleStep(x)

\* The cron comes every 15 minutes and not every one of its rounds fails.
DrawerFairness ==
    /\ \A s \in ShiftIds : SF_drawerVars(\E r \in Requests : AutoFind(r, s))
    /\ \A r \in Requests : /\ WF_drawerVars(InsertRefused(r))
                          /\ SF_drawerVars(Check(r))
                          /\ SF_drawerVars(SumSales(r))
                          /\ SF_drawerVars(Write(r))

DrawerSpec == DrawerInit /\ [][DrawerNext]_drawerVars /\ DrawerFairness

-----------------------------------------------------------------------------
(* Properties *)

\* A cashier has one open shift at most, whatever openShift and startShift saw
\* before they insert.
OneOpenShift == \A c \in Cashiers : Cardinality(OpenOf(c)) <= 1

\* The figures of a closed shift do not change, unless two closers had passed
\* the check before either wrote.
FiguresAreFinal ==
    [][\A s \in ShiftIds :
          shift[s].status = "closed" /\ s \notin contended => shift'[s] = shift[s]]_drawerVars

\* No sale is in the totals of two shifts, unless one of them had two closers:
\* the sum has no upper bound, so the late one also counts the next shift's.
CountedOnce ==
    \A s, t \in ShiftIds :
       s # t /\ shift[s].counted \cap shift[t].counted # {} => {s, t} \cap contended # {}

\* A cash sale made online while nobody was closing is in the total of the
\* shift it was made in.  (The others may be in the next one, or in none.)
CalmSalesAreCounted ==
    \A x \in Sales :
       LET s == sale[x].taken
       IN /\ sale[x].state = "completed" /\ sale[x].method = "cash" /\ sale[x].calm
          /\ s # 0 /\ shift[s].status = "closed"
          => x \in shift[s].counted

\* A shift that is overdue is closed in the end, whatever the cashier does.
OverdueIsClosed ==
    \A s \in ShiftIds : Open(s) /\ shift[s].due = "overdue" ~> ~Open(s)

\* The cash of a sale goes into the count of one shift, into that of the shift it
\* was taken in when nobody was closing, and for good.
MoneyIsCountedOnce == []CountedOnce /\ []CalmSalesAreCounted /\ FiguresAreFinal
=============================================================================
