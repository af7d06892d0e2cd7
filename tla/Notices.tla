--------------------------------- MODULE Notices ---------------------------------
(***************************************************************************)
(* What the jobs of finance.cron.ts announce before it is too late: that a       *)
(* shift is about to be closed by the job (sendAutoCloseWarnings, each quarter   *)
(* of an hour, like the job that closes it, and again in each quarter until it   *)
(* is closed), and that the month that ended is not closed or not paid           *)
(* (checkUnpaidProfitShare, on the first at eight).  The rows go to SystemLog    *)
(* and the mails to EMAIL_ALERT_TO, the administrator's: nothing reaches the     *)
(* cashier, whom the source's comment names.  A job whose time comes while the   *)
(* process is down does not run later.                                           *)
(***************************************************************************)
EXTENDS Integers, FiniteSets

CONSTANTS
    NoticeShifts,    \* shifts
    Ahead,           \* AUTO_CLOSE_WARNING_MS, in quarters of an hour
    Grace,           \* AUTO_CLOSE_GRACE_MS, in quarters of an hour
    MaxQuarters,     \* bound: quarters of an hour
    FirstMonth,      \* the month of the start, 0 for January
    MaxMonths        \* bound: months

ASSUME NoticesAssumption == /\ Ahead \in Nat \ {0} /\ Grace \in Nat /\ MaxQuarters \in Nat
                            /\ FirstMonth \in 0..11 /\ MaxMonths \in Nat

VARIABLES
    quarter,      \* the time of the day
    watched,      \* the shifts, each with its planned end
    due,          \* the jobs of this quarter that have not started
    warning,      \* the round of warnings under way
    warned,       \* shifts with a row in SystemLog that announces the end
    hoped,        \* shifts that this round ought to announce
    promised,     \* shifts that a round ought to have announced
    running,      \* the process is up
    month,        \* months since the start
    period,       \* the profit share of each month: "none", "closed" or "paid"
    reminder,     \* the reminder under way: the log it read
    reminded      \* months a reminder was sent for

dayVars == <<quarter, watched, due, warning, warned, hoped, promised>>
monthVars == <<month, period, reminder, reminded>>
noticeVars == <<quarter, watched, due, warning, warned, hoped, promised, running,
                month, period, reminder, reminded>>

NoWarning == [at |-> "idle", list |-> {}]
NoReminder == [at |-> "idle", of |-> 0]
Unopened == [is |-> "none", plan |-> 0]
Months == 0..MaxMonths

NoticesTypeOK ==
    /\ quarter \in 0..MaxQuarters /\ running \in BOOLEAN /\ due \subseteq {"warn", "close"}
    /\ watched \in [NoticeShifts -> [is: {"none", "open", "closed", "auto"}, plan: 0..MaxQuarters]]
    /\ warning \in [at: {"idle", "loop"}, list: SUBSET NoticeShifts]
    /\ warned \subseteq NoticeShifts /\ hoped \subseteq NoticeShifts
    /\ promised \subseteq NoticeShifts
    /\ month \in Months /\ period \in [Months -> {"none", "closed", "paid"}]
    /\ reminder \in [at: {"idle", "due", "send"}, of: Int]
    /\ reminded \subseteq [of: Int, sent: Months]

NoticesInit ==
    /\ quarter = 0 /\ watched = [s \in NoticeShifts |-> Unopened] /\ due = {} /\ running = TRUE
    /\ warning = NoWarning /\ warned = {} /\ hoped = {} /\ promised = {}
    /\ month = 0 /\ period = [m \in Months |-> "none"] /\ reminder = NoReminder /\ reminded = {}

-----------------------------------------------------------------------------
(* The warnings of a shift's end *)

IsOpen(s) == watched[s].is = "open"

OpenWatched(s, plan) ==
    /\ watched[s] = Unopened /\ plan > quarter
    /\ watched' = [watched EXCEPT ![s] = [is |-> "open", plan |-> plan]]
    /\ UNCHANGED <<quarter, due, warning, warned, hoped, promised, running, monthVars>>

CashierCloses(s) ==
    /\ IsOpen(s) /\ watched' = [watched EXCEPT ![s].is = "closed"]
    /\ UNCHANGED <<quarter, due, warning, warned, hoped, promised, running, monthVars>>

\* The next quarter; the jobs of the one before have ended.
Quarter ==
    /\ quarter < MaxQuarters /\ due = {} /\ warning = NoWarning
    /\ quarter' = quarter + 1
    /\ due' = IF running THEN {"warn", "close"} ELSE {}
    /\ hoped' = IF running THEN {s \in NoticeShifts : /\ IsOpen(s) /\ quarter' < watched[s].plan
                                                      /\ watched[s].plan <= quarter' + Ahead}
                ELSE {}
    /\ UNCHANGED <<watched, warning, warned, promised, running, monthVars>>

\* Variant: only those that end in just ninety minutes.
Near_Exactly(s) == IsOpen(s) /\ watched[s].plan = quarter + Ahead

Near(s) == IsOpen(s) /\ watched[s].plan > quarter /\ watched[s].plan <= quarter + Ahead

StartWarnings ==
    /\ "warn" \in due /\ due' = due \ {"warn"}
    /\ warning' = [at |-> "loop", list |-> {s \in NoticeShifts : Near(s)}]
    /\ UNCHANGED <<quarter, watched, warned, hoped, promised, running, monthVars>>

\* The mail to EMAIL_ALERT_TO, whose error is caught and which a cashier without an
\* address is spared, and then the row in SystemLog.
WarnOf(s) ==
    /\ s \in warning.list
    /\ warning' = [warning EXCEPT !.list = @ \ {s}]
    /\ warned' = warned \cup {s}
    /\ UNCHANGED <<quarter, watched, due, hoped, promised, running, monthVars>>

EndWarnings ==
    /\ warning.at = "loop" /\ warning.list = {} /\ warning' = NoWarning
    /\ promised' = promised \cup hoped /\ hoped' = {}
    /\ UNCHANGED <<quarter, watched, due, warned, running, monthVars>>

\* The row's error is not caught: the shifts that are left are not warned.
WarningsFail ==
    /\ warning.list # {} /\ warning' = NoWarning /\ hoped' = {}
    /\ UNCHANGED <<quarter, watched, due, warned, promised, running, monthVars>>

\* findMany throws, of either job: it has done nothing in this quarter.
JobFails(j) ==
    /\ j \in due /\ due' = due \ {j}
    /\ hoped' = IF j = "warn" THEN {} ELSE hoped
    /\ UNCHANGED <<quarter, watched, warning, warned, promised, running, monthVars>>

OverdueShift(s) == IsOpen(s) /\ watched[s].plan <= quarter - Grace

\* checkAutoCloseShifts; what it does to a shift is CashDrawer's.
CloseOverdue ==
    /\ "close" \in due /\ due' = due \ {"close"}
    /\ watched' = [s \in NoticeShifts |-> IF OverdueShift(s) THEN [watched[s] EXCEPT !.is = "auto"]
                                          ELSE watched[s]]
    /\ UNCHANGED <<quarter, warning, warned, hoped, promised, running, monthVars>>

-----------------------------------------------------------------------------
(* The reminder of the profit share *)

\* closePeriod, and payProfitShare.
PeriodGoesOn(m) ==
    /\ m <= month /\ period[m] # "paid"
    /\ period' = [period EXCEPT ![m] = IF @ = "none" THEN "closed" ELSE "paid"]
    /\ UNCHANGED <<dayVars, running, month, reminder, reminded>>

\* The first of the month, eight o'clock.
NextMonth ==
    /\ month < MaxMonths /\ reminder = NoReminder /\ month' = month + 1
    /\ reminder' = IF running THEN [at |-> "due", of |-> 0] ELSE NoReminder
    /\ UNCHANGED <<dayVars, running, period, reminded>>

\* getMonth() and getFullYear() of now; January looks back to the year before.
Previous(y, m) == IF m = 0 THEN [year |-> y - 1, month |-> 12] ELSE [year |-> y, month |-> m]

\* new Date(year, month - 1, 1), in months since the start.
PeriodOf(p) == p.year * 12 + (p.month - 1) - FirstMonth

ReadPeriod ==
    LET now == FirstMonth + month
        of == PeriodOf(Previous(now \div 12, now % 12))
    IN  /\ reminder.at = "due"
        /\ reminder' = IF of \in Months /\ period[of] = "paid" THEN NoReminder
                       ELSE [at |-> "send", of |-> of]
        /\ UNCHANGED <<dayVars, running, month, period, reminded>>

\* The query throws: there is no reminder this month.
ReadPeriodFails ==
    /\ reminder.at = "due" /\ reminder' = NoReminder
    /\ UNCHANGED <<dayVars, running, month, period, reminded>>

\* sendAlert, whose error is caught.
SendReminder(sent) ==
    /\ reminder.at = "send" /\ reminder' = NoReminder
    /\ reminded' = IF sent THEN reminded \cup {[of |-> reminder.of, sent |-> month]} ELSE reminded
    /\ UNCHANGED <<dayVars, running, month, period>>

-----------------------------------------------------------------------------
\* The process ends with its jobs, and starts again.
ProcessFlips ==
    /\ running' = ~running /\ due' = {} /\ warning' = NoWarning /\ hoped' = {}
    /\ reminder' = NoReminder
    /\ UNCHANGED <<quarter, watched, warned, promised, month, period, reminded>>

NoticesNext ==
    \/ \E s \in NoticeShifts : CashierCloses(s) \/ WarnOf(s)
                               \/ \E plan \in 1..MaxQuarters : OpenWatched(s, plan)
    \/ Quarter \/ StartWarnings \/ EndWarnings \/ WarningsFail \/ CloseOverdue
    \/ \E m \in Months : PeriodGoesOn(m)
    \/ \E j \in {"warn", "close"} : JobFails(j)
    \/ NextMonth \/ ReadPeriod \/ ReadPeriodFails \/ \E sent \in BOOLEAN : SendReminder(sent)
    \/ ProcessFlips

NoticesSpec == NoticesInit /\ [][NoticesNext]_noticeVars

-----------------------------------------------------------------------------
(* Properties *)

\* A shift that the job closed had a warning in SystemLog, when a round of warnings
\* ran to its end in the hour and a half before, whatever of the other rounds failed
\* or was missed; and its cashier had the time of grace.
ClosedWithWarning ==
    \A s \in NoticeShifts :
       watched[s].is = "auto" => /\ s \in promised => s \in warned
                                 /\ quarter >= watched[s].plan + Grace

\* Every reminder is of the month that has just ended, in January as well.
ReminderIsOfLastMonth == \A r \in reminded : r.of = r.sent - 1

\* The administrator is told of a shift before the job closes it, and of the right
\* period.
NoticesAreRight == ClosedWithWarning /\ ReminderIsOfLastMonth
=============================================================================
