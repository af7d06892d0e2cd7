------------------------------- MODULE AdminPages --------------------------------
(***************************************************************************)
(* The pages of the admin: a list that is loaded, a form and switches that    *)
(* change it, requests whose answers come in any order or not at all.  The    *)
(* pages are written apart from each other, each with its own script; what    *)
(* tells them apart is a record.  The list is one row, its switch and its     *)
(* content, and the number of rows that were added.                           *)
(***************************************************************************)
EXTENDS Naturals, FiniteSets

CONSTANTS
    MaxSent,    \* bound: requests a page sends
    MaxContent  \* bound: contents a row has had

ASSUME AdminAssumption == MaxSent \in Nat /\ MaxContent \in Nat

\* form: what the form can do.  guarded: the button that adds is off while that is
\* under way.  switch: where the value comes from that is turned over.  reloads: the
\* list is loaded again after a change.  query: the list depends on a filter, a page
\* or a period that is chosen, or it is loaded now and then.
Page(form, guarded, switch, reloads, query) ==
    [form |-> form, guarded |-> guarded, switch |-> switch, reloads |-> reloads, query |-> query]
Viewer(query) == Page({}, FALSE, "none", TRUE, query)

ProductsPage     == Page({"new", "row"}, FALSE, "dialog",     TRUE,  "none")
CategoriesPage   == Page({"new", "row"}, FALSE, "list",       TRUE,  "none")
CashiersPage     == Page({"new"},        FALSE, "list",       TRUE,  "none")
DiscountsPage    == Page({"new"},        FALSE, "list",       TRUE,  "none")
AssetsPage       == Page({"new", "row"}, FALSE, "none",       TRUE,  "none")
OpexPage         == Page({"new"},        TRUE,  "none",       TRUE,  "none")
StockPage        == Page({"row"},        FALSE, "none",       TRUE,  "none")
WastePage        == Page({"new"},        TRUE,  "none",       TRUE,  "none")
BomPage          == Page({"new", "row"}, TRUE,  "none",       TRUE,  "chosen")
TransactionsPage == Page({},             FALSE, "list",       TRUE,  "chosen")
FlagsPage        == Page({},             FALSE, "optimistic", FALSE, "none")
SettingsPage     == Page({},             FALSE, "list",       TRUE,  "none")
ShiftsPage       == Viewer("chosen")
SystemLogsPage   == Viewer("chosen")
AuditLogsPage    == Viewer("chosen")
AnalyticsPage    == Viewer("chosen")
MembersPage      == Viewer("chosen")
MemberPage       == Viewer("chosen")
ProfitSharePage  == Viewer("chosen")
DashboardPage    == Viewer("sometimes")
HealthPage       == Viewer("sometimes")
CashPage         == Viewer("none")
MemberStatsPage  == Viewer("none")

\* Pages that behave alike are one record.
AllPages == {ProductsPage, CategoriesPage, CashiersPage, DiscountsPage, AssetsPage, OpexPage,
             StockPage, WastePage, BomPage, TransactionsPage, FlagsPage, SettingsPage,
             ShiftsPage, SystemLogsPage, AuditLogsPage, AnalyticsPage, MembersPage, MemberPage,
             ProfitSharePage, DashboardPage, HealthPage, CashPage, MemberStatsPage}

VARIABLES
    kind,      \* the page
    served,    \* the rows in the database
    list,      \* the list the page shows, and the query it answers
    filter,    \* the filter that is chosen
    dialog,    \* the products page's copy of the row
    copyTimers,    \* timeouts of 300 ms that will refresh the copy
    pageForm,  \* the form: closed, or what it will send
    asks,      \* the requests, in the order they were sent
    newest,    \* the last load the list comes from
    foreign,   \* somebody else changed the row, and a load has read that since
    missed,    \* a load failed, was overtaken by another, or the copy was made early
    refused    \* a change was refused

adminVars == <<kind, served, list, filter, dialog, copyTimers, pageForm, asks, newest,
               foreign, missed, refused>>

Sent == 1..MaxSent
RowState == [on: BOOLEAN, content: 0..MaxContent, added: Nat]
FirstRow == [on |-> TRUE, content |-> 0, added |-> 0]
Closed == [open |-> FALSE, new |-> FALSE, content |-> 0]
Unsent == [what |-> "none", at |-> "unsent", query |-> 0, row |-> FirstRow]

AdminTypeOK ==
    /\ kind \in AllPages /\ served \in RowState /\ dialog \in RowState
    /\ list \in [row: RowState, query: 0..1] /\ filter \in 0..1
    /\ pageForm \in [open: BOOLEAN, new: BOOLEAN, content: 0..MaxContent]
    /\ asks \in [Sent -> [what: {"none", "load", "add", "change", "switch"}, query: 0..1,
                          at: {"unsent", "sent", "done", "refused", "over"}, row: RowState]]
    /\ newest \in 0..MaxSent /\ copyTimers \in Nat
    /\ {missed, refused} \subseteq BOOLEAN /\ foreign \in {"no", "unread", "read"}

AdminInit ==
    /\ kind \in AllPages /\ served = FirstRow
    /\ list = [row |-> FirstRow, query |-> 0] /\ filter = 0
    /\ dialog = FirstRow /\ copyTimers = 0 /\ pageForm = Closed
    /\ asks = [n \in Sent |-> Unsent] /\ newest = 0
    /\ foreign = "no" /\ missed = FALSE /\ refused = FALSE

-----------------------------------------------------------------------------
NextToSend(n) == asks[n].at = "unsent" /\ \A m \in 1..(n - 1) : asks[m].at # "unsent"
UnderWay(what) == \E n \in Sent : asks[n].what = what /\ asks[n].at \in {"sent", "done", "refused"}
OtherLoad(n) == \E m \in Sent \ {n} : asks[m].what = "load" /\ asks[m].at \in {"sent", "done"}
Calm == \A n \in Sent : asks[n].at \in {"unsent", "over"}

Asked(n, what, row) ==
    [what |-> what, at |-> "sent", query |-> filter, row |-> row]

\* Another filter, page or period: the list is loaded, or an effect loads it.
ChooseFilter(n) ==
    /\ kind.query = "chosen" /\ NextToSend(n)
    /\ filter' = 1 - filter
    /\ asks' = [asks EXCEPT ![n] = [Asked(n, "load", FirstRow) EXCEPT !.query = 1 - filter]]
    /\ UNCHANGED <<kind, served, list, dialog, copyTimers, pageForm, newest, foreign, missed, refused>>

\* A timer of the page.
LoadAgain(n) ==
    /\ kind.query = "sometimes" /\ NextToSend(n)
    /\ asks' = [asks EXCEPT ![n] = Asked(n, "load", FirstRow)]
    /\ UNCHANGED <<kind, served, list, filter, dialog, copyTimers, pageForm, newest, foreign,
                   missed, refused>>

OpenForm(new) ==
    /\ ~pageForm.open /\ (IF new THEN "new" ELSE "row") \in kind.form
    /\ pageForm' = [open |-> TRUE, new |-> new, content |-> IF new THEN 0 ELSE list.row.content]
    /\ UNCHANGED <<kind, served, list, filter, dialog, copyTimers, asks, newest, foreign, missed,
                   refused>>

Type ==
    /\ pageForm.open /\ pageForm.content < MaxContent
    /\ pageForm' = [pageForm EXCEPT !.content = @ + 1]
    /\ UNCHANGED <<kind, served, list, filter, dialog, copyTimers, asks, newest, foreign, missed,
                   refused>>

Save(n) ==
    /\ pageForm.open /\ NextToSend(n)
    /\ kind.guarded /\ pageForm.new => ~UnderWay("add")
    /\ asks' = [asks EXCEPT ![n] =
                  Asked(n, IF pageForm.new THEN "add" ELSE "change",
                          [list.row EXCEPT !.content = pageForm.content])]
    /\ UNCHANGED <<kind, served, list, filter, dialog, copyTimers, pageForm, newest, foreign, missed,
                   refused>>

\* Toggles, voids and flags: the value shown, turned over.
Flip(n) ==
    LET row == IF kind.switch = "dialog" THEN dialog ELSE list.row
        new == [row EXCEPT !.on = ~@]
    IN  /\ kind.switch # "none" /\ NextToSend(n)
        /\ asks' = [asks EXCEPT ![n] = Asked(n, "switch", new)]
        /\ list' = IF kind.switch = "optimistic" THEN [list EXCEPT !.row.on = new.on] ELSE list
        /\ UNCHANGED <<kind, served, filter, dialog, copyTimers, pageForm, newest, foreign, missed,
                       refused>>

\* The backend: a PATCH writes the fields it is sent, in the order they come.
Serve(n, ok) ==
    LET c == asks[n]
        overtakes == c.what = "switch" /\ \E m \in 1..(n - 1) : asks[m].at = "sent"
    IN  /\ c.at = "sent"
        /\ asks' = [asks EXCEPT ![n].at = IF ok THEN "done" ELSE "refused",
                                ![n].row = IF c.what = "load" THEN served ELSE @]
        /\ served' = IF ~ok THEN served
                     ELSE CASE c.what = "load"   -> served
                            [] c.what = "add"    -> [served EXCEPT !.added = @ + 1]
                            [] c.what = "change" -> [served EXCEPT !.content = c.row.content]
                            [] c.what = "switch" -> [served EXCEPT !.on = c.row.on]
        /\ missed' = (missed \/ (overtakes /\ kind.switch = "optimistic"))
        /\ foreign' = IF c.what = "load" /\ ok /\ foreign = "unread" /\ ~OtherLoad(n)
                       THEN "read" ELSE foreign
        /\ UNCHANGED <<kind, list, filter, dialog, copyTimers, pageForm, newest, refused>>

\* What comes back is shown, whatever was sent since.
Loaded(n) ==
    /\ asks[n].what = "load" /\ asks[n].at \in {"done", "refused"}
    /\ list' = IF asks[n].at = "done" THEN [row |-> asks[n].row, query |-> asks[n].query] ELSE list
    /\ missed' = (missed \/ asks[n].at = "refused" \/ n < newest)
    /\ newest' = n
    /\ asks' = [asks EXCEPT ![n].at = "over"]
    /\ UNCHANGED <<kind, served, filter, dialog, copyTimers, pageForm, foreign, refused>>

\* Variant: the list is left as it was.
Reloads_Not == FALSE

Reloads == kind.reloads

\* A change that went through closes the form and loads the list again.
Changed(n, m) ==
    /\ asks[n].what \in {"add", "change", "switch"} /\ asks[n].at = "done" /\ NextToSend(m)
    /\ asks' = IF Reloads THEN [asks EXCEPT ![n].at = "over", ![m] = Asked(m, "load", FirstRow)]
               ELSE [asks EXCEPT ![n].at = "over"]
    /\ pageForm' = IF asks[n].what = "switch" THEN pageForm ELSE Closed
    /\ copyTimers' = IF asks[n].what = "switch" /\ kind.switch = "dialog" THEN copyTimers + 1 ELSE copyTimers
    /\ UNCHANGED <<kind, served, list, filter, dialog, newest, foreign, missed, refused>>

\* The form stays open.  The flags page puts its old list back, a copy of the
\* array whose elements are the very objects it had changed.
NotChanged(n) ==
    /\ asks[n].what \in {"add", "change", "switch"} /\ asks[n].at = "refused"
    /\ asks' = [asks EXCEPT ![n].at = "over"]
    /\ refused' = TRUE
    /\ UNCHANGED <<kind, served, list, filter, dialog, copyTimers, pageForm, newest, foreign, missed>>

\* The dialog takes its row from the list, which may not have been loaded yet.
CopyToDialog ==
    /\ copyTimers > 0 /\ copyTimers' = copyTimers - 1
    /\ dialog' = list.row
    /\ missed' = (missed \/ UnderWay("load"))
    /\ UNCHANGED <<kind, served, list, filter, pageForm, asks, newest, foreign, refused>>

\* Another admin, or the tills.
OthersChange ==
    /\ foreign = "no" /\ foreign' = "unread"
    /\ served' = [served EXCEPT !.on = ~@]
    /\ UNCHANGED <<kind, list, filter, dialog, copyTimers, pageForm, asks, newest, missed, refused>>

AdminNext ==
    \/ \E new \in BOOLEAN : OpenForm(new)
    \/ Type \/ CopyToDialog \/ OthersChange
    \/ \E n \in Sent :
          \/ ChooseFilter(n) \/ LoadAgain(n) \/ Save(n) \/ Flip(n) \/ Loaded(n) \/ NotChanged(n)
          \/ \E ok \in BOOLEAN : Serve(n, ok)
          \/ \E m \in Sent : Changed(n, m)

AdminSpec == AdminInit /\ [][AdminNext]_adminVars

-----------------------------------------------------------------------------
(* Properties *)

\* Once nothing is under way, the page shows what is in the database and what its
\* filter asks for, unless somebody else changed it since, a load failed, requests
\* overtook each other, or a switch of the flags page was refused.
ListIsCurrent ==
    /\ Calm /\ copyTimers = 0 /\ foreign # "unread" /\ ~missed /\ ~(refused /\ kind = FlagsPage)
    => /\ list.row = served /\ list.query = filter
       /\ kind = ProductsPage /\ foreign = "no" => dialog.on = served.on
=============================================================================
