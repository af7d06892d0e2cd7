--------------------------------- MODULE Reports ---------------------------------
(***************************************************************************)
(* What an administrator is shown of the orders: the dashboard and the        *)
(* analytics, each drawn from several queries that run in parallel and outside *)
(* a transaction, and the list of orders, read page by page with a count of    *)
(* its own, while orders are taken and voided.                                *)
(***************************************************************************)
EXTENDS Naturals, FiniteSets

CONSTANTS
    MaxBills,     \* bound: orders taken, numbered from the oldest
    DayShifts,    \* shifts of the day
    PageSize,     \* limit
    RawTablesExist  \* the database has the tables that the raw SQL names

ASSUME ReportsAssumption == MaxBills \in Nat /\ PageSize \in Nat \ {0} /\ RawTablesExist \in BOOLEAN

Bills == 1..MaxBills
Queries == [kpi |-> {"sum", "methods"},
            analytics |-> {"trend", "byQty", "byRevenue", "payments", "hours"}]
RawQueries == Queries.analytics \cup {"methods"}
NoShift == "none"

VARIABLES
    bill,         \* the orders: their status, and the shift open when they were made
    dayShift,     \* the shifts
    client        \* what the administrator's page is waiting for

reportVars == <<bill, dayShift, client>>

Nothing == [doing |-> "nothing"]

\* shifts: the day's shifts that were found first; known: the orders there are with a
\* created_at in the report's range; late: those dated between the two ends of it that
\* the two queries of the dashboard take from the clock; found: what each query asked
\* counted; stirred: the queries did not have the same orders before them, since one
\* came or was voided after the first of them, or is dated between the ends.
\* total, rows: the answers for a page; seen: the orders shown so far; slipped: an
\* order came between the two queries of a page.
AllQueries == RawQueries \cup {"sum"}
Report(kind, known, shifts) ==
    [doing |-> kind, shifts |-> shifts, known |-> known, late |-> {}, asked |-> {},
     found |-> [q \in AllQueries |-> {}], stirred |-> FALSE]
Walk(due) ==
    [doing |-> "pages", page |-> 1, at |-> "ask", first |-> "neither", total |-> 0, seen |-> {},
     due |-> due, slipped |-> FALSE]

ReportTask == [doing: {"kpi", "analytics"}, shifts: SUBSET DayShifts, known: SUBSET Bills,
               late: SUBSET Bills, asked: SUBSET AllQueries,
               found: [AllQueries -> SUBSET Bills], stirred: BOOLEAN]
WalkTask == [doing: {"pages"}, page: Nat \ {0}, at: {"ask", "half", "shown"},
             first: {"neither", "rows", "count"}, total: Nat, seen: SUBSET Bills,
             due: SUBSET Bills, slipped: BOOLEAN]

ReportsTypeOK ==
    /\ bill \in [Bills -> [status: {"none", "live", "voided"}, shift: DayShifts \cup {NoShift}]]
    /\ dayShift \in [DayShifts -> {"none", "open", "closed"}]
    /\ client \in {Nothing} \cup ReportTask \cup WalkTask

ReportsInit ==
    /\ bill = [b \in Bills |-> [status |-> "none", shift |-> NoShift]]
    /\ dayShift = [s \in DayShifts |-> "none"]
    /\ client = Nothing

-----------------------------------------------------------------------------
Taken == {b \in Bills : bill[b].status # "none"}
Reporting == client.doing \in {"kpi", "analytics"}
Walking == client.doing = "pages"

\* What an order that is committed now is to the page's task.  It got its date when its
\* transaction began, which may be before the end of a report's range although the
\* report is under way.
Came(b, dated) ==
    CASE Reporting /\ dated = "before" ->
            [client EXCEPT !.known = @ \cup {b}, !.stirred = @ \/ client.asked # {}]
      [] Reporting /\ dated = "between" ->
            [client EXCEPT !.late = @ \cup {b}, !.stirred = TRUE]
      [] Walking -> [client EXCEPT !.slipped = @ \/ client.at = "half"]
      [] OTHER -> client

\* A cashier's order, in the open shift if there is one.
TakeBill(b, s) ==
    /\ b = Cardinality(Taken) + 1
    /\ s # NoShift => dayShift[s] = "open"
    /\ bill' = [bill EXCEPT ![b] = [status |-> "live", shift |-> s]]
    /\ \E dated \in {"before", "between", "after"} :
          /\ dated # "after" => Reporting /\ (client.doing = "kpi" => s \in client.shifts)
          /\ dated = "between" => client.doing = "kpi"
          /\ client' = Came(b, dated)
    /\ UNCHANGED dayShift

Gone(b) ==
    IF Reporting THEN [client EXCEPT !.stirred = @ \/ (b \in client.known /\ client.asked # {})]
                 ELSE client

VoidBill(b) ==
    /\ bill[b].status = "live"
    /\ bill' = [bill EXCEPT ![b].status = "voided"]
    /\ client' = Gone(b)
    /\ UNCHANGED dayShift

ShiftGoesOn(s) ==
    /\ dayShift[s] # "closed"
    /\ dayShift' = [dayShift EXCEPT ![s] = IF @ = "none" THEN "open" ELSE "closed"]
    /\ UNCHANGED <<bill, client>>

-----------------------------------------------------------------------------
(* getDashboardKpi, getAnalytics *)

DaysShifts == {s \in DayShifts : dayShift[s] # "none"}

\* The orders there are whose created_at is in the report's range, which ends now: those
\* of the day's shifts, or all of the last weeks.  Without a shift there is no query.
InRange(kind) == {b \in Taken : kind = "kpi" => bill[b].shift \in DaysShifts}

StartReport(kind) ==
    /\ client = Nothing
    /\ kind = "kpi" => DaysShifts # {}
    /\ client' = Report(kind, InRange(kind), DaysShifts)
    /\ UNCHANGED <<bill, dayShift>>

Counts(q, b) == bill[b].status # "voided"

\* The query of the methods takes the end of its range after that of the sum.
Ranged(q) == client.known \cup IF q = "methods" THEN client.late ELSE {}

\* The queries run in parallel, each on what is committed when it runs.
Query(q) ==
    /\ Reporting /\ q \in Queries[client.doing] \ client.asked
    /\ q \in RawQueries => RawTablesExist
    /\ client' = [client EXCEPT !.asked = @ \cup {q},
                                !.found[q] = {b \in Ranged(q) : Counts(q, b)}]
    /\ UNCHANGED <<bill, dayShift>>

ReportAnswered == Reporting /\ client.asked = Queries[client.doing]

\* The answer is shown, or a query fails and with it the report.
EndReport ==
    /\ Reporting
    /\ ReportAnswered \/ ~RawTablesExist
    /\ client' = Nothing
    /\ UNCHANGED <<bill, dayShift>>

-----------------------------------------------------------------------------
(* getHistory *)

\* Page after page, from the newest order on.  due: what was there at the start.
StartWalk ==
    /\ client = Nothing
    /\ client' = Walk(Taken)
    /\ UNCHANGED <<bill, dayShift>>

Skip(page) == (page - 1) * PageSize

\* The place of an order in the list, from 0.
Place(b) == Cardinality(Taken) - b

OnPage(page) == {b \in Taken : Place(b) \in Skip(page)..(Skip(page) + PageSize - 1)}

\* findOrders: the rows and the count, in parallel.
AskPage(q) ==
    /\ Walking /\ client.at \in {"ask", "half"} /\ client.first # q
    /\ client' = [client EXCEPT !.at = IF @ = "ask" THEN "half" ELSE "shown",
                                !.first = IF client.at = "ask" THEN q ELSE "neither",
                                !.total = IF q = "count" THEN Cardinality(Taken) ELSE @,
                                !.seen = IF q = "rows" THEN @ \cup OnPage(client.page) ELSE @]
    /\ UNCHANGED <<bill, dayShift>>

\* The button for the next page works while current_page < total_pages.
LastPage == client.page * PageSize >= client.total

NextPage ==
    /\ Walking /\ client.at = "shown" /\ ~LastPage
    /\ client' = [client EXCEPT !.page = @ + 1, !.at = "ask"]
    /\ UNCHANGED <<bill, dayShift>>

LeavePages ==
    /\ Walking /\ client.at = "shown" /\ client' = Nothing
    /\ UNCHANGED <<bill, dayShift>>

ReportsNext ==
    \/ \E b \in Bills : VoidBill(b) \/ \E s \in DayShifts \cup {NoShift} : TakeBill(b, s)
    \/ \E s \in DayShifts : ShiftGoesOn(s)
    \/ \E kind \in {"kpi", "analytics"} : StartReport(kind)
    \/ \E q \in AllQueries : Query(q)
    \/ EndReport \/ StartWalk \/ NextPage \/ LeavePages
    \/ \E q \in {"rows", "count"} : AskPage(q)

ReportsSpec == ReportsInit /\ [][ReportsNext]_reportVars

-----------------------------------------------------------------------------
(* Properties *)

\* The figures of one answer are of the same orders, unless one of them came or was
\* voided between its queries or is dated between their two readings of the clock.
FiguresAgree ==
    ReportAnswered /\ ~client.stirred =>
       \A p, q \in client.asked : client.found[p] = client.found[q]

\* Who has turned the pages to the last has seen every order that was there at the
\* start, however many came, unless one came between the two queries of a page.
PagesMissNothing ==
    Walking /\ client.at = "shown" /\ LastPage /\ ~client.slipped => client.due \subseteq client.seen
=============================================================================
