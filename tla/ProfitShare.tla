------------------------------ MODULE ProfitShare ------------------------------
(***************************************************************************)
(* The profit share of one month.  closePeriod adds up the month             *)
(* (getProfitShare), inserts a row of ProfitShareLog and then the share of   *)
(* each cashier, rows of ProfitShareDetail, in three calls without a         *)
(* transaction; payProfitShare marks the log as paid.  Meanwhile orders are  *)
(* voided and shifts are closed.                                             *)
(*                                                                         *)
(* getProfitShare counts the orders made inside a shift; the details count   *)
(* all orders of the cashiers who closed one, inside a shift or not.         *)
(***************************************************************************)
EXTENDS Integers, FiniteSets, Functions

CONSTANTS
    Sellers,      \* cashiers who sold in the month
    Closings,     \* calls of closePeriod
    Payments,     \* calls of payProfitShare
    Amounts,      \* what a cashier may have sold in his shifts
    Strays,       \* and outside them
    CostAmounts,  \* cost of goods, expenses and depreciation of the month
    OrdersExists  \* the database has the table "orders" the raw query names

ASSUME ShareAssumption ==
    /\ IsFiniteSet(Sellers)
    /\ Amounts \subseteq Nat /\ Strays \subseteq Nat /\ CostAmounts \subseteq Nat
    /\ OrdersExists \in BOOLEAN

VARIABLES
    books,        \* the orders and shifts of the month, by cashier
    costs,
    log,          \* the row of ProfitShareLog, with a count of its payments and
                  \* cashier_share in fifths of a rupiah, for it is not rounded
    detail,       \* share_amount by cashier; its domain is empty before
    closing,      \* where each call of closePeriod is and what it holds
    paying,       \* the calls of payProfitShare that saw is_paid = false
    current,      \* the calls whose figures are still those of the books
    broken,       \* a call ended between the log and its details
    overlap       \* two calls of payProfitShare ran at the same time

shareVars == <<books, costs, log, detail, closing, paying, current, broken, overlap>>

\* closed: he has closed a shift of the month.
Books == [inShift: Amounts, stray: Strays, closed: BOOLEAN]
NoLog == [revenue |-> 0, net |-> 0, share |-> 0, paid |-> -1, by |-> 0]

ShareTypeOK ==
    /\ books \in [Sellers -> Books] /\ costs \in CostAmounts
    /\ log \in {NoLog} \cup [revenue: Nat, net: Int, share: Nat, paid: Nat, by: Closings]
    /\ \E paid \in SUBSET Sellers : detail \in [paid -> Int]
    /\ closing \in [Closings -> [at: {"idle", "look", "insert", "details", "done"},
                                 revenue: Nat, net: Int]]
    /\ paying \subseteq Payments /\ current \subseteq Closings
    /\ broken \in BOOLEAN /\ overlap \in BOOLEAN

NotClosing == [at |-> "idle", revenue |-> 0, net |-> 0]

ShareInit ==
    /\ books \in [Sellers -> Books]
    /\ costs \in CostAmounts
    /\ log = NoLog
    /\ detail = <<>>
    /\ closing = [k \in Closings |-> NotClosing]
    /\ paying = {}
    /\ current = {} /\ broken = FALSE /\ overlap = FALSE

-----------------------------------------------------------------------------
\* Math.round(a / b), halves upwards.
Rounded(a, b) == (2 * a + b) \div (2 * b)

\* 40% of a positive profit, in fifths; the owner has the rest.
CashierShare(net) == IF net > 0 THEN 2 * net ELSE 0

\* Math.round of it: what the details are to add up to.
ToShareOut(share) == Rounded(share, 5)

Revenue == SumFunction([c \in Sellers |-> books[c].inShift])

\* getProfitShare: without a shift, or without an order in one, it throws.
\* opex is dated by day and assets by month, so that they are one sum here.
Compute(k) ==
    /\ closing[k].at = "idle"
    /\ Revenue > 0
    /\ closing' = [closing EXCEPT ![k] = [at |-> "look", revenue |-> Revenue, net |-> Revenue - costs]]
    /\ current' = current \cup {k}
    /\ UNCHANGED <<books, costs, log, detail, paying, broken, overlap>>

GoOn(k, at) == closing' = [closing EXCEPT ![k].at = at]

Look(k) ==
    /\ closing[k].at = "look"
    /\ GoOn(k, IF log = NoLog THEN "insert" ELSE "done")
    /\ UNCHANGED <<books, costs, log, detail, paying, current, broken, overlap>>

\* period_month is unique: of two calls the second one throws.
InsertLog(k) ==
    /\ closing[k].at = "insert"
    /\ IF log = NoLog
       THEN /\ log' = [revenue |-> closing[k].revenue, net |-> closing[k].net,
                        share |-> CashierShare(closing[k].net), paid |-> 0, by |-> k]
            /\ GoOn(k, IF closing[k].net > 0 THEN "details" ELSE "done")
       ELSE GoOn(k, "done") /\ UNCHANGED log
    /\ UNCHANGED <<books, costs, detail, paying, current, broken, overlap>>

\* aggregateOrdersByCashier: cashiers with a closed shift and an order.
Sold(c) == books[c].inShift + books[c].stray
Listed == {c \in Sellers : books[c].closed /\ Sold(c) > 0}

ShareAmount(c, revenue, net) == Rounded(2 * net * Sold(c), 5 * revenue)

\* Variant: the rounding differences are left.
WithRest_Left(amount, first, share) == amount

\* What is missing to the share of all cashiers goes to the first detail.
WithRest(amount, first, share) ==
    [amount EXCEPT ![first] = @ + share - SumFunction(amount)]

\* The details are sorted by sales, so the first one has the largest.
InsertDetails(k) ==
    LET amount == [c \in Listed |-> ShareAmount(c, log.revenue, log.net)]
    IN /\ closing[k].at = "details"
       /\ OrdersExists
       /\ IF Listed = {} THEN UNCHANGED detail
          ELSE \E first \in {c \in Listed : \A d \in Listed : Sold(d) <= Sold(c)} :
                  detail' = WithRest(amount, first, ToShareOut(log.share))
       /\ GoOn(k, "done")
       /\ UNCHANGED <<books, costs, log, paying, current, broken, overlap>>

\* An error, or the end of the process: without the table the query throws.
StopClosing(k) ==
    /\ closing[k].at \in {"look", "insert", "details"}
    /\ GoOn(k, "done")
    /\ broken' = (broken \/ closing[k].at = "details")
    /\ UNCHANGED <<books, costs, log, detail, paying, current, overlap>>

-----------------------------------------------------------------------------
FindLog(p) ==
    /\ log # NoLog /\ log.paid = 0
    /\ paying' = paying \cup {p}
    /\ overlap' = (overlap \/ paying \ {p} # {})
    /\ UNCHANGED <<books, costs, log, detail, closing, current, broken>>

\* The update has no condition on is_paid.
PayShare(p) ==
    /\ p \in paying
    /\ paying' = paying \ {p}
    /\ log' = [log EXCEPT !.paid = @ + 1]
    /\ UNCHANGED <<books, costs, detail, closing, current, broken, overlap>>

-----------------------------------------------------------------------------
\* An order of the month is voided, or one of the till is synced late.
BooksChange(c) ==
    /\ \/ \E a \in Amounts \ {books[c].inShift} : books' = [books EXCEPT ![c].inShift = a]
       \/ \E a \in Strays \ {books[c].stray} : books' = [books EXCEPT ![c].stray = a]
    /\ current' = {}
    /\ UNCHANGED <<costs, log, detail, closing, paying, broken, overlap>>

ShiftCloses(c) ==
    /\ ~books[c].closed
    /\ books' = [books EXCEPT ![c].closed = TRUE]
    /\ current' = {}
    /\ UNCHANGED <<costs, log, detail, closing, paying, broken, overlap>>

ShareNext ==
    \/ \E k \in Closings :
          Compute(k) \/ Look(k) \/ InsertLog(k) \/ InsertDetails(k) \/ StopClosing(k)
    \/ \E p \in Payments : FindLog(p) \/ PayShare(p)
    \/ \E c \in Sellers : BooksChange(c) \/ ShiftCloses(c)

ShareSpec == ShareInit /\ [][ShareNext]_shareVars

-----------------------------------------------------------------------------
(* Properties *)

\* However the shares are rounded, and whatever happens to the books, the
\* details add up to the cashier_share of the log, rounded as a whole: it keeps
\* its fraction in the log, so that the two differ by half a rupiah at most.
DetailsAddUp ==
    DOMAIN detail # {} =>
       LET paidOut == SumFunction(detail)
       IN  /\ paidOut = ToShareOut(log.share)
           /\ -5 <= 2 * (5 * paidOut - log.share) /\ 2 * (5 * paidOut - log.share) <= 5

\* In a month whose sales were all made in closed shifts, and did not change
\* while the period was closed, no cashier is further from the exact share than
\* the roundings of all of them.
RestIsRounding ==
    LET whole == /\ log.by \in current
                 /\ \A c \in Sellers : books[c].stray = 0 /\ books[c].closed
        room == 5 * log.revenue * Cardinality(DOMAIN detail)
        off(c) == 5 * log.revenue * detail[c] - 2 * log.net * Sold(c)
    IN whole => \A c \in DOMAIN detail : -room <= 2 * off(c) /\ 2 * off(c) <= room

\* The share of a month is paid once, unless two calls ran at the same time.
PaidOnce == log.paid > 1 => overlap

\* A period closed with a profit gets its details, unless the call was cut
\* short: it cannot be closed again.
ClosedHasDetails ==
    /\ log.net > 0 /\ log.by \in current
    /\ \E c \in Sellers : books[c].closed /\ Sold(c) > 0
    /\ \A k \in Closings : closing[k].at # "details"
    => DOMAIN detail # {} \/ broken

\* closePeriod and payProfitShare together: every rupiah of the cashiers' share
\* has an owner, the right one, and is paid once.
SharesAreExact == DetailsAddUp /\ RestIsRounding /\ ClosedHasDetails /\ PaidOnce
=============================================================================
