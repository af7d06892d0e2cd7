------------------------------ MODULE HouseProofs ------------------------------
(***************************************************************************)
(* The admin's pages, for any number of requests and contents; and what is    *)
(* proved of the parts of the house, one at a time, holds when they stand     *)
(* side by side: a step of MCHouse is a step of one of them and leaves the     *)
(* others as they are.                                                        *)
(***************************************************************************)
EXTENDS MCHouse, AccountsProofs, TillProofs, HousekeepingProofs

-----------------------------------------------------------------------------
(* The admin's pages *)

\* Requests are sent one after the other; the list comes from the last load that came,
\* unless loads overtook each other.
AsksInOrder ==
    \A n \in Sent :
       /\ asks[n].at = "unsent" <=> asks[n].what = "none"
       /\ \A m \in Sent : m < n /\ asks[m].at = "unsent" => asks[n].at = "unsent"
       /\ asks[n].what = "load" /\ asks[n].at = "over" /\ ~missed => n <= newest

AskRow == [what: {"none", "load", "add", "change", "switch"}, query: 0..1,
           at: {"unsent", "sent", "done", "refused", "over"}, row: RowState]

LastLoad(n) ==
    asks[n].what = "load" /\ \A m \in Sent : n < m => asks[m].what # "load"

LoadsOver == \A n \in Sent : asks[n].what = "load" => asks[n].at = "over"

\* A change went through and the page has not heard of it.
Waits(what) == \E n \in Sent : asks[n].what = what /\ asks[n].at = "done"

\* What the last load brings, and what the list shows when there is none on its way,
\* is in the database, field by field, unless a change of the field went through and is
\* still to be loaded.
FieldFollows(field, what) ==
    ~Waits(what) =>
       /\ \A n \in Sent :
             LastLoad(n) /\ asks[n].at = "done" => asks[n].row[field] = served[field]
       /\ LoadsOver => list.row[field] = served[field]

ListFollows ==
    kind.reloads /\ foreign # "unread" /\ ~missed =>
       /\ FieldFollows("on", "switch")
       /\ FieldFollows("content", "change")
       /\ FieldFollows("added", "add")

QueryFollows ==
    ~missed => /\ \A n \in Sent : LastLoad(n) => asks[n].query = filter
               /\ LoadsOver => list.query = filter

\* The flags page only switches: its list is what was switched last, and the switches
\* reach the database in their order.
OnlySwitches ==
    kind = FlagsPage =>
       /\ \A n \in Sent : asks[n].what \in {"none", "switch"}
       /\ ~pageForm.open /\ foreign # "read"
       /\ list.row.content = served.content /\ list.row.added = served.added

SwitchesFollow ==
    kind = FlagsPage /\ foreign = "no" /\ ~missed /\ ~refused =>
       /\ \A n \in Sent :
             asks[n].at # "unsent" /\ (\A m \in Sent : n < m => asks[m].at = "unsent")
             => list.row.on = asks[n].row.on
       /\ \A n \in Sent :
             asks[n].at \in {"done", "over"} =>
                \A m \in Sent : m < n => asks[m].at # "sent"
       /\ (\A n \in Sent : asks[n].at \notin {"sent", "refused"}) => list.row.on = served.on

DialogFollows ==
    kind = ProductsPage /\ foreign = "no" /\ ~missed /\ ~Waits("switch") /\ copyTimers = 0
    => dialog.on = served.on

AdminInv ==
    /\ AdminTypeOK /\ AsksInOrder /\ ListFollows /\ QueryFollows /\ OnlySwitches
    /\ SwitchesFollow /\ DialogFollows

LEMMA PagesAreKnown ==
    ASSUME kind \in AllPages
    PROVE  /\ kind.reloads \in BOOLEAN
           /\ kind.reloads <=> kind # FlagsPage
           /\ kind.switch = "optimistic" <=> kind = FlagsPage
           /\ kind = FlagsPage => kind.form = {} /\ kind.query = "none"
           /\ kind = ProductsPage => kind.switch = "dialog" /\ kind # FlagsPage
<1> USE DEF Viewer, Page, ProductsPage, CategoriesPage, CashiersPage, DiscountsPage,
       AssetsPage, OpexPage, StockPage, WastePage, BomPage, TransactionsPage, FlagsPage,
       SettingsPage, ShiftsPage, SystemLogsPage, AuditLogsPage, AnalyticsPage, MembersPage,
       MemberPage, ProfitSharePage, DashboardPage, HealthPage, CashPage, MemberStatsPage
<1>1. kind = FlagsPage =>
         /\ kind.reloads = FALSE /\ kind.switch = "optimistic"
         /\ kind.form = {} /\ kind.query = "none"
  OBVIOUS
<1>2. kind # FlagsPage => kind.reloads = TRUE /\ kind.switch # "optimistic"
  <2>1. CASE kind \in {ProductsPage, CategoriesPage, CashiersPage, DiscountsPage, AssetsPage,
                     OpexPage, StockPage, WastePage, BomPage, TransactionsPage, SettingsPage}
    BY <2>1
  <2>2. CASE kind \in {ShiftsPage, SystemLogsPage, AuditLogsPage, AnalyticsPage, MembersPage,
                     MemberPage, ProfitSharePage, DashboardPage, HealthPage, CashPage,
                     MemberStatsPage}
    BY <2>2
  <2>3. QED
    BY <2>1, <2>2 DEF AllPages
<1>3. kind = ProductsPage => kind.switch = "dialog"
  OBVIOUS
<1>4. QED
  BY <1>1, <1>2, <1>3

LEMMA LoadIsAsked ==
    \A q \in 0..1 :
       [what |-> "load", at |-> "sent", query |-> q, row |-> FirstRow] \in AskRow
BY AdminAssumption DEF AskRow, FirstRow, RowState

LEMMA AdminTypes ==
    ASSUME AdminInv
    PROVE  /\ served \in RowState /\ dialog \in RowState
           /\ list \in [row: RowState, query: 0..1] /\ filter \in 0..1
           /\ pageForm \in [open: BOOLEAN, new: BOOLEAN, content: 0..MaxContent]
           /\ asks \in [Sent -> AskRow]
           /\ newest \in 0..MaxSent /\ copyTimers \in Nat
           /\ {missed, refused} \subseteq BOOLEAN /\ foreign \in {"no", "unread", "read"}
BY DEF AdminInv, AdminTypeOK, AskRow

LEMMA AdminKinds ==
    ASSUME AdminInv
    PROVE  /\ kind.reloads \in BOOLEAN
           /\ kind.reloads <=> kind # FlagsPage
           /\ kind.switch = "optimistic" <=> kind = FlagsPage
           /\ kind = FlagsPage => kind.form = {} /\ kind.query = "none"
           /\ kind = ProductsPage => kind.switch = "dialog" /\ kind # FlagsPage
BY PagesAreKnown DEF AdminInv, AdminTypeOK

LEMMA SentIsNat == Sent \subseteq Nat \ {0}
BY AdminAssumption DEF Sent

LEMMA EarlierOnes == \A n \in Sent : 1..(n - 1) = {m \in Sent : m < n}
BY AdminAssumption DEF Sent

LEMMA AdminInvNext ==
    ASSUME AdminInv, [AdminNext]_adminVars PROVE AdminInv'
<1> USE AdminAssumption, AdminTypes, SentIsNat DEF AdminInv
<1>1. ASSUME NEW n \in Sent, ChooseFilter(n) PROVE AdminInv'
  <2>1. /\ asks' \in [Sent -> AskRow]
        /\ asks'[n] = [what |-> "load", at |-> "sent", query |-> 1 - filter, row |-> FirstRow]
        /\ \A m \in Sent \ {n} : asks'[m] = asks[m]
        /\ asks[n].at = "unsent" /\ \A m \in Sent : m < n => asks[m].at # "unsent"
        /\ filter' = 1 - filter /\ kind # FlagsPage
        /\ UNCHANGED <<kind, served, list, dialog, copyTimers, pageForm,
                       newest, foreign, missed, refused>>
    <3>1. asks' \in [Sent -> AskRow]
      <4>1. [Asked(n, "load", FirstRow) EXCEPT !.query = 1 - filter]
              = [what |-> "load", at |-> "sent", query |-> 1 - filter, row |-> FirstRow]
        BY DEF Asked
      <4>2. asks' = [asks EXCEPT ![n] = [what |-> "load", at |-> "sent", query |-> 1 - filter,
                                         row |-> FirstRow]]
        BY <1>1, <4>1 DEF ChooseFilter
      <4>3. QED
        BY <4>2, LoadIsAsked
    <3>2. asks'[n] = [what |-> "load", at |-> "sent", query |-> 1 - filter, row |-> FirstRow]
      BY <1>1 DEF ChooseFilter, Asked
    <3>3. QED
      BY <3>1, <3>2, <1>1, EarlierOnes, AdminKinds DEF ChooseFilter, Asked, NextToSend,
         FirstRow, RowState, AskRow, AsksInOrder, OnlySwitches
  <2>2. AdminTypeOK'
    BY <1>1, <2>1 DEF AdminTypeOK, AskRow
  <2>3. AsksInOrder'
    <3>1. \A l \in Sent : asks'[l].at = "unsent" <=> asks'[l].what = "none"
      BY <2>1 DEF AsksInOrder
    <3>2. \A l, k \in Sent : k < l /\ asks'[k].at = "unsent" => asks'[l].at = "unsent"
      BY <2>1 DEF AsksInOrder
    <3>3. \A l \in Sent :
             asks'[l].what = "load" /\ asks'[l].at = "over" /\ ~missed' => l <= newest'
      BY <2>1 DEF AsksInOrder
    <3>4. QED
      BY <3>1, <3>2, <3>3 DEF AsksInOrder
  <2>4. ListFollows'
    BY <1>1, <2>1, AdminKinds DEF ListFollows, FieldFollows, AsksInOrder, LastLoad,
       LoadsOver, Waits
  <2>5. QueryFollows'
    BY <1>1, <2>1 DEF QueryFollows, AsksInOrder, LastLoad, LoadsOver
  <2>6. OnlySwitches'
    BY <1>1, <2>1, AdminKinds DEF OnlySwitches
  <2>7. SwitchesFollow'
    BY <1>1, <2>1, AdminKinds DEF SwitchesFollow, AsksInOrder, OnlySwitches
  <2>8. DialogFollows'
    BY <1>1, <2>1, AdminKinds DEF DialogFollows, Waits
  <2>9. QED
    BY <2>2, <2>3, <2>4, <2>5, <2>6, <2>7, <2>8
<1>2. ASSUME NEW n \in Sent, LoadAgain(n) PROVE AdminInv'
  <2>1. /\ asks' \in [Sent -> AskRow]
        /\ asks'[n] = [what |-> "load", at |-> "sent", query |-> filter, row |-> FirstRow]
        /\ \A m \in Sent \ {n} : asks'[m] = asks[m]
        /\ asks[n].at = "unsent" /\ \A m \in Sent : m < n => asks[m].at # "unsent"
        /\ kind # FlagsPage
        /\ UNCHANGED <<kind, served, list, filter, dialog, copyTimers, pageForm,
                       newest, foreign, missed, refused>>
    <3>1. asks' \in [Sent -> AskRow]
      <4>1. asks' = [asks EXCEPT ![n] = [what |-> "load", at |-> "sent", query |-> filter,
                                         row |-> FirstRow]]
        BY <1>2 DEF LoadAgain, Asked
      <4>2. QED
        BY <4>1, LoadIsAsked
    <3>2. QED
      BY <3>1, <1>2, EarlierOnes, AdminKinds DEF LoadAgain, Asked, NextToSend, FirstRow,
         RowState, AskRow, AsksInOrder, OnlySwitches
  <2>2. AdminTypeOK'
    BY <1>2, <2>1 DEF AdminTypeOK, AskRow
  <2>3. AsksInOrder'
    <3>1. \A l \in Sent : asks'[l].at = "unsent" <=> asks'[l].what = "none"
      BY <2>1 DEF AsksInOrder
    <3>2. \A l, k \in Sent : k < l /\ asks'[k].at = "unsent" => asks'[l].at = "unsent"
      BY <2>1 DEF AsksInOrder
    <3>3. \A l \in Sent :
             asks'[l].what = "load" /\ asks'[l].at = "over" /\ ~missed' => l <= newest'
      BY <2>1 DEF AsksInOrder
    <3>4. QED
      BY <3>1, <3>2, <3>3 DEF AsksInOrder
  <2>4. ListFollows'
    BY <1>2, <2>1, AdminKinds DEF ListFollows, FieldFollows, AsksInOrder, LastLoad,
       LoadsOver, Waits
  <2>5. QueryFollows'
    BY <1>2, <2>1 DEF QueryFollows, AsksInOrder, LastLoad, LoadsOver
  <2>6. OnlySwitches'
    BY <1>2, <2>1, AdminKinds DEF OnlySwitches
  <2>7. SwitchesFollow'
    BY <1>2, <2>1, AdminKinds DEF SwitchesFollow, AsksInOrder, OnlySwitches
  <2>8. DialogFollows'
    BY <1>2, <2>1, AdminKinds DEF DialogFollows, Waits
  <2>9. QED
    BY <2>2, <2>3, <2>4, <2>5, <2>6, <2>7, <2>8
<1>3. ASSUME NEW n \in Sent, Save(n) PROVE AdminInv'
  <2>1. /\ asks' \in [Sent -> AskRow]
        /\ asks'[n].what \in {"add", "change"}
        /\ asks'[n].at = "sent"
        /\ asks'[n].query = filter
        /\ \A m \in Sent \ {n} : asks'[m] = asks[m]
        /\ asks[n].at = "unsent" /\ \A m \in Sent : m < n => asks[m].at # "unsent"
        /\ kind # FlagsPage
        /\ UNCHANGED <<kind, served, list, filter, dialog, copyTimers, pageForm,
                       newest, foreign, missed, refused>>
    BY <1>3, EarlierOnes, AdminKinds DEF Save, Asked, NextToSend, RowState, AskRow,
       AsksInOrder, OnlySwitches
  <2>2. AdminTypeOK'
    BY <1>3, <2>1 DEF AdminTypeOK, AskRow
  <2>3. AsksInOrder'
    <3>1. \A l \in Sent : asks'[l].at = "unsent" <=> asks'[l].what = "none"
      BY <2>1 DEF AsksInOrder
    <3>2. \A l, k \in Sent : k < l /\ asks'[k].at = "unsent" => asks'[l].at = "unsent"
      BY <2>1 DEF AsksInOrder
    <3>3. \A l \in Sent :
             asks'[l].what = "load" /\ asks'[l].at = "over" /\ ~missed' => l <= newest'
      BY <2>1 DEF AsksInOrder
    <3>4. QED
      BY <3>1, <3>2, <3>3 DEF AsksInOrder
  <2>4. ListFollows'
    <3>1. /\ \A l \in Sent : asks'[l].what = "load" <=> asks[l].what = "load"
          /\ \A l \in Sent : asks[l].what = "load" => asks'[l] = asks[l]
      BY <2>1 DEF AsksInOrder
    <3>2. /\ \A l \in Sent : LastLoad(l)' => LastLoad(l) /\ asks'[l] = asks[l]
          /\ LoadsOver' => LoadsOver
      BY <3>1 DEF LastLoad, LoadsOver
    <3>3. \A what \in {"switch", "change", "add"} : Waits(what) => Waits(what)'
      BY <2>1 DEF Waits
    <3>4. QED
      BY <2>1, <3>2, <3>3, AdminKinds DEF ListFollows, FieldFollows
  <2>5. QueryFollows'
    BY <1>3, <2>1 DEF QueryFollows, AsksInOrder, LastLoad, LoadsOver
  <2>6. OnlySwitches'
    BY <1>3, <2>1, AdminKinds DEF OnlySwitches
  <2>7. SwitchesFollow'
    BY <1>3, <2>1, AdminKinds DEF SwitchesFollow, AsksInOrder, OnlySwitches
  <2>8. DialogFollows'
    BY <1>3, <2>1, AdminKinds DEF DialogFollows, Waits
  <2>9. QED
    BY <2>2, <2>3, <2>4, <2>5, <2>6, <2>7, <2>8
<1>4. ASSUME NEW n \in Sent, Flip(n) PROVE AdminInv'
  <2>1. /\ asks' \in [Sent -> AskRow]
        /\ asks'[n].what = "switch" /\ asks'[n].at = "sent" /\ asks'[n].query = filter
        /\ \A m \in Sent \ {n} : asks'[m] = asks[m]
        /\ asks[n].at = "unsent" /\ \A m \in Sent : m < n => asks[m].at # "unsent"
        /\ kind = FlagsPage => list'.row.on = asks'[n].row.on
        /\ kind # FlagsPage => list' = list
        /\ list'.row.content = list.row.content
        /\ list'.row.added = list.row.added
        /\ list'.query = list.query
        /\ list' \in [row: RowState, query: 0..1]
        /\ UNCHANGED <<kind, served, filter, dialog, copyTimers, pageForm,
                       newest, foreign, missed, refused>>
    <3>1. asks' \in [Sent -> AskRow]
      <4> DEFINE new == [(IF kind.switch = "dialog" THEN dialog ELSE list.row) EXCEPT !.on = ~@]
      <4>1. asks' = [asks EXCEPT ![n] = [what |-> "switch", at |-> "sent", query |-> filter,
                                         row |-> new]]
        BY <1>4 DEF Flip, Asked
      <4>2. new \in RowState
        BY DEF RowState
      <4>3. QED
        BY <4>1, <4>2 DEF AskRow
    <3>2. QED
      BY <3>1, <1>4, EarlierOnes, AdminKinds DEF Flip, Asked, NextToSend, RowState,
         AskRow, AsksInOrder, OnlySwitches
  <2>2. AdminTypeOK'
    BY <1>4, <2>1 DEF AdminTypeOK, AskRow
  <2>3. AsksInOrder'
    <3>1. \A l \in Sent : asks'[l].at = "unsent" <=> asks'[l].what = "none"
      BY <2>1 DEF AsksInOrder
    <3>2. \A l, k \in Sent : k < l /\ asks'[k].at = "unsent" => asks'[l].at = "unsent"
      BY <2>1 DEF AsksInOrder
    <3>3. \A l \in Sent :
             asks'[l].what = "load" /\ asks'[l].at = "over" /\ ~missed' => l <= newest'
      BY <2>1 DEF AsksInOrder
    <3>4. QED
      BY <3>1, <3>2, <3>3 DEF AsksInOrder
  <2>4. ListFollows'
    <3>1. /\ \A l \in Sent : asks'[l].what = "load" <=> asks[l].what = "load"
          /\ \A l \in Sent : asks[l].what = "load" => asks'[l] = asks[l]
      BY <2>1 DEF AsksInOrder
    <3>2. /\ \A l \in Sent : LastLoad(l)' => LastLoad(l) /\ asks'[l] = asks[l]
          /\ LoadsOver' => LoadsOver
      BY <3>1 DEF LastLoad, LoadsOver
    <3>3. \A what \in {"switch", "change", "add"} : Waits(what) => Waits(what)'
      BY <2>1 DEF Waits
    <3>4. QED
      BY <2>1, <3>2, <3>3, AdminKinds DEF ListFollows, FieldFollows
  <2>5. QueryFollows'
    BY <1>4, <2>1 DEF QueryFollows, AsksInOrder, LastLoad, LoadsOver
  <2>6. OnlySwitches'
    BY <1>4, <2>1, AdminKinds DEF OnlySwitches
  <2>7. SwitchesFollow'
    <3>1. \A l \in Sent : l # n => asks'[l] = asks[l] /\ (n < l => asks[l].at = "unsent")
      BY <2>1 DEF AsksInOrder
    <3>2. \A l \in Sent :
             asks'[l].at # "unsent" /\ (\A m \in Sent : l < m => asks'[m].at = "unsent") => l = n
      <4>1. \A l \in Sent : l = n \/ l < n \/ n < l
        OBVIOUS
      <4>2. asks'[n].at # "unsent"
        BY <2>1
      <4>3. QED
        BY <3>1, <4>1, <4>2
    <3>3. \A l, m \in Sent : asks'[l].at \in {"done", "over"} /\ m < l => l # n /\ m # n
      BY <2>1, <3>1
    <3>4. QED
      BY <2>1, <3>1, <3>2, <3>3 DEF SwitchesFollow
  <2>8. DialogFollows'
    BY <1>4, <2>1, AdminKinds DEF DialogFollows, Waits
  <2>9. QED
    BY <2>2, <2>3, <2>4, <2>5, <2>6, <2>7, <2>8
<1>5. ASSUME NEW n \in Sent, NEW ok \in BOOLEAN, Serve(n, ok) PROVE AdminInv'
  <2>1. /\ asks' \in [Sent -> AskRow]
        /\ asks'[n].what = asks[n].what /\ asks'[n].query = asks[n].query
        /\ asks'[n].at = (IF ok THEN "done" ELSE "refused")
        /\ asks'[n].row = (IF asks[n].what = "load" THEN served ELSE asks[n].row)
        /\ \A m \in Sent \ {n} : asks'[m] = asks[m]
        /\ asks[n].at = "sent" /\ asks[n].what # "none"
        /\ served' \in RowState
        /\ served'.on = (IF ok /\ asks[n].what = "switch" THEN asks[n].row.on ELSE served.on)
        /\ ~(ok /\ asks[n].what = "change") => served'.content = served.content
        /\ ~(ok /\ asks[n].what = "add") => served'.added = served.added
        /\ missed' \in BOOLEAN /\ (~missed' => ~missed)
        /\ ~missed' /\ asks[n].what = "switch" /\ kind = FlagsPage
              => \A m \in Sent : m < n => asks[m].at # "sent"
        /\ foreign' = IF asks[n].what = "load" /\ ok /\ foreign = "unread" /\ ~OtherLoad(n)
                       THEN "read" ELSE foreign
        /\ UNCHANGED <<kind, list, filter, dialog, copyTimers, pageForm,
                       newest, refused>>
    <3>1. asks' \in [Sent -> AskRow]
      <4> DEFINE r == [asks[n] EXCEPT !.at = IF ok THEN "done" ELSE "refused",
                                      !.row = IF asks[n].what = "load" THEN served ELSE asks[n].row]
      <4>1. asks[n] \in AskRow
        OBVIOUS
      <4>2. r \in AskRow
        BY <4>1 DEF AskRow
      <4>3. asks' = [asks EXCEPT ![n] = r]
        BY <1>5 DEF Serve
      <4>4. QED
        BY <4>2, <4>3
    <3>2. /\ asks'[n].what = asks[n].what /\ asks'[n].query = asks[n].query
          /\ asks'[n].at = (IF ok THEN "done" ELSE "refused")
      BY <1>5, EarlierOnes, AdminKinds DEF Serve, AskRow, AsksInOrder, OnlySwitches
    <3>3. asks'[n].row = (IF asks[n].what = "load" THEN served ELSE asks[n].row)
      BY <1>5, EarlierOnes, AdminKinds DEF Serve, AskRow, AsksInOrder, OnlySwitches
    <3>4. \A m \in Sent \ {n} : asks'[m] = asks[m]
      BY <1>5, EarlierOnes, AdminKinds DEF Serve, AskRow, AsksInOrder, OnlySwitches
    <3>5. asks[n].at = "sent" /\ asks[n].what # "none"
      BY <1>5, EarlierOnes, AdminKinds DEF Serve, AskRow, AsksInOrder, OnlySwitches
    <3>6. served' \in RowState
      <4>1. CASE ~ok \/ asks[n].what \in {"load", "none"}
        BY <1>5, <4>1 DEF Serve, AsksInOrder
      <4>2. CASE ok /\ asks[n].what \in {"add", "change", "switch"}
        BY <1>5, <4>2 DEF Serve, RowState, AskRow
      <4>3. QED
        BY <4>1, <4>2 DEF AskRow
    <3>7. served'.on = (IF ok /\ asks[n].what = "switch" THEN asks[n].row.on ELSE served.on)
      <4>1. CASE ~ok
        BY <1>5, <4>1 DEF Serve
      <4>2. CASE asks[n].what = "load"
        BY <1>5, <4>2 DEF Serve
      <4>3. CASE ok /\ asks[n].what = "add"
        BY <1>5, <4>3 DEF Serve, RowState
      <4>4. CASE ok /\ asks[n].what = "change"
        BY <1>5, <4>4 DEF Serve, RowState
      <4>5. CASE ok /\ asks[n].what = "switch"
        BY <1>5, <4>5 DEF Serve, RowState
      <4>6. QED
        BY <1>5, <4>1, <4>2, <4>3, <4>4, <4>5 DEF AskRow, AsksInOrder, Serve
    <3>8. ~(ok /\ asks[n].what = "change") => served'.content = served.content
      <4>1. CASE ~ok
        BY <1>5, <4>1 DEF Serve
      <4>2. CASE asks[n].what = "load"
        BY <1>5, <4>2 DEF Serve
      <4>3. CASE ok /\ asks[n].what = "add"
        BY <1>5, <4>3 DEF Serve, RowState
      <4>4. CASE ok /\ asks[n].what = "change"
        BY <1>5, <4>4 DEF Serve, RowState
      <4>5. CASE ok /\ asks[n].what = "switch"
        BY <1>5, <4>5 DEF Serve, RowState
      <4>6. QED
        BY <1>5, <4>1, <4>2, <4>3, <4>4, <4>5 DEF AskRow, AsksInOrder, Serve
    <3>9. ~(ok /\ asks[n].what = "add") => served'.added = served.added
      <4>1. CASE ~ok
        BY <1>5, <4>1 DEF Serve
      <4>2. CASE asks[n].what = "load"
        BY <1>5, <4>2 DEF Serve
      <4>3. CASE ok /\ asks[n].what = "add"
        BY <1>5, <4>3 DEF Serve, RowState
      <4>4. CASE ok /\ asks[n].what = "change"
        BY <1>5, <4>4 DEF Serve, RowState
      <4>5. CASE ok /\ asks[n].what = "switch"
        BY <1>5, <4>5 DEF Serve, RowState
      <4>6. QED
        BY <1>5, <4>1, <4>2, <4>3, <4>4, <4>5 DEF AskRow, AsksInOrder, Serve
    <3>10. missed' \in BOOLEAN /\ (~missed' => ~missed)
      BY <1>5, EarlierOnes, AdminKinds DEF Serve, AskRow, AsksInOrder, OnlySwitches
    <3>11. ~missed' /\ asks[n].what = "switch" /\ kind = FlagsPage
              => \A m \in Sent : m < n => asks[m].at # "sent"
      BY <1>5, EarlierOnes, AdminKinds DEF Serve, AskRow, AsksInOrder, OnlySwitches
    <3>12. foreign' = IF asks[n].what = "load" /\ ok /\ foreign = "unread" /\ ~OtherLoad(n)
                       THEN "read" ELSE foreign
      BY <1>5, EarlierOnes, AdminKinds DEF Serve, AskRow, AsksInOrder, OnlySwitches
    <3>13. QED
      BY <3>1, <3>2, <3>3, <3>4, <3>5, <3>6, <3>7, <3>8, <3>9, <3>10, <3>11, <3>12, <1>5,
         EarlierOnes, AdminKinds DEF Serve, RowState, AskRow, AsksInOrder, OnlySwitches
  <2>2. AdminTypeOK'
    BY <1>5, <2>1 DEF AdminTypeOK, AskRow
  <2>3. AsksInOrder'
    <3>1. \A l \in Sent : asks'[l].at = "unsent" <=> asks'[l].what = "none"
      BY <2>1 DEF AsksInOrder
    <3>2. \A l, k \in Sent : k < l /\ asks'[k].at = "unsent" => asks'[l].at = "unsent"
      BY <2>1 DEF AsksInOrder
    <3>3. \A l \in Sent :
             asks'[l].what = "load" /\ asks'[l].at = "over" /\ ~missed' => l <= newest'
      BY <2>1 DEF AsksInOrder
    <3>4. QED
      BY <3>1, <3>2, <3>3 DEF AsksInOrder
  <2>4. ListFollows'
    <3>1. /\ \A what \in {"switch", "change", "add"} : Waits(what) => Waits(what)'
          /\ ok => \A what \in {"switch", "change", "add"} : asks[n].what = what => Waits(what)'
      BY <2>1 DEF Waits
    <3>2. /\ \A l \in Sent : LastLoad(l)' => LastLoad(l)
          /\ LoadsOver' => LoadsOver /\ asks[n].what # "load"
      BY <2>1 DEF LastLoad, LoadsOver
    <3>3. CASE asks[n].what = "load"
      <4>1. /\ served'.on = served.on /\ served'.content = served.content
            /\ served'.added = served.added
        BY <2>1, <3>3
      <4>2. ~LoadsOver' /\ (~missed' => ~missed) /\ asks'[n].row = served
        BY <2>1, <3>2, <3>3
      <4>3. \A l \in Sent \ {n} :
               foreign' # "unread" /\ LastLoad(l) /\ asks[l].at = "done" => foreign # "unread"
        BY <2>1, <3>3 DEF LastLoad, OtherLoad
      <4>4. QED
        BY <2>1, <3>1, <3>2, <4>1, <4>2, <4>3 DEF ListFollows, FieldFollows
    <3>4. CASE asks[n].what # "load"
      <4>1. foreign' = foreign /\ (~missed' => ~missed)
        BY <2>1, <3>4
      <4>2. /\ ~Waits("switch")' => served'.on = served.on
            /\ ~Waits("change")' => served'.content = served.content
            /\ ~Waits("add")' => served'.added = served.added
        BY <2>1, <3>1
      <4>3. \A l \in Sent : LastLoad(l) => asks'[l] = asks[l]
        BY <2>1, <3>4 DEF LastLoad
      <4>4. QED
        BY <2>1, <3>1, <3>2, <4>1, <4>2, <4>3 DEF ListFollows, FieldFollows
    <3>5. QED
      BY <3>3, <3>4
  <2>5. QueryFollows'
    BY <1>5, <2>1 DEF QueryFollows, AsksInOrder, LastLoad, LoadsOver
  <2>6. OnlySwitches'
    BY <1>5, <2>1, AdminKinds DEF OnlySwitches
  <2>7. SwitchesFollow'
    <3>1. SUFFICES ASSUME kind = FlagsPage, foreign = "no", ~missed', ~refused
                 PROVE  SwitchesFollow'
      BY <2>1 DEF SwitchesFollow
    <3>2. asks[n].what = "switch" /\ ~missed /\ \A k \in Sent : k < n => asks[k].at # "sent"
      BY <2>1, <3>1 DEF OnlySwitches
    <3>3. \A l \in Sent : l < n => asks'[l].at # "sent"
      BY <2>1, <3>2
    <3>4. \A l \in Sent : n < l => asks[l].at \notin {"done", "over"}
      BY <2>1, <3>1, <3>2 DEF SwitchesFollow
    <3>5. \A l \in Sent : asks[l].at \in {"unsent", "sent", "done", "refused", "over"}
      BY DEF AskRow
    <3>6. /\ \A l \in Sent : asks'[l].row = asks[l].row
          /\ \A l \in Sent : asks'[l].at = "unsent" <=> asks[l].at = "unsent"
      BY <2>1, <3>2
    <3>7. (\A l \in Sent : asks'[l].at \notin {"sent", "refused"}) => list.row.on = served'.on
      <4>1. SUFFICES ASSUME \A l \in Sent : asks'[l].at \notin {"sent", "refused"}
                     PROVE  list.row.on = served'.on
        OBVIOUS
      <4>2. ok /\ \A l \in Sent : n < l => asks[l].at = "unsent"
        BY <2>1, <3>4, <3>5, <4>1
      <4>3. QED
        BY <2>1, <3>1, <3>2, <4>2 DEF SwitchesFollow
    <3>8. QED
      BY <2>1, <3>1, <3>2, <3>3, <3>4, <3>6, <3>7 DEF SwitchesFollow
  <2>8. DialogFollows'
    BY <1>5, <2>1, AdminKinds DEF DialogFollows, Waits
  <2>9. QED
    BY <2>2, <2>3, <2>4, <2>5, <2>6, <2>7, <2>8
<1>6. ASSUME NEW n \in Sent, Loaded(n) PROVE AdminInv'
  <2>1. /\ asks' \in [Sent -> AskRow]
        /\ asks'[n].what = "load"
        /\ asks'[n].at = "over"
        /\ asks'[n].query = asks[n].query
        /\ \A m \in Sent \ {n} : asks'[m] = asks[m]
        /\ asks[n].what = "load"
        /\ asks[n].at \in {"done", "refused"}
        /\ kind # FlagsPage
        /\ n \in 0..MaxSent
        /\ asks[n].at = "done" => list'.row = asks[n].row /\ list'.query = asks[n].query
        /\ list' \in [row: RowState, query: 0..1]
        /\ missed' \in BOOLEAN /\ newest' = n
        /\ ~missed' => ~missed /\ asks[n].at = "done" /\ newest <= n
        /\ UNCHANGED <<kind, served, filter, dialog, copyTimers, pageForm,
                       foreign, refused>>
    BY <1>6, AdminKinds DEF Loaded, RowState, Sent, AskRow, AsksInOrder, OnlySwitches
  <2>2. AdminTypeOK'
    BY <1>6, <2>1 DEF AdminTypeOK, AskRow
  <2>3. AsksInOrder'
    <3>1. \A l \in Sent : asks'[l].at = "unsent" <=> asks'[l].what = "none"
      BY <2>1 DEF AsksInOrder
    <3>2. \A l, k \in Sent : k < l /\ asks'[k].at = "unsent" => asks'[l].at = "unsent"
      BY <2>1 DEF AsksInOrder
    <3>3. \A l \in Sent :
             asks'[l].what = "load" /\ asks'[l].at = "over" /\ ~missed' => l <= newest'
      BY <2>1 DEF AsksInOrder
    <3>4. QED
      BY <3>1, <3>2, <3>3 DEF AsksInOrder
  <2>4. ListFollows'
    <3>1. \A what \in {"switch", "change", "add"} : Waits(what) => Waits(what)'
      BY <2>1 DEF Waits
    <3>2. \A l \in Sent :
             LastLoad(l)' /\ asks'[l].at = "done" =>
                LastLoad(l) /\ asks[l].at = "done" /\ asks'[l] = asks[l]
      BY <2>1 DEF LastLoad
    <3>3. LoadsOver' /\ ~missed' => LastLoad(n) /\ asks[n].at = "done"
      BY <2>1 DEF LoadsOver, LastLoad, AsksInOrder
    <3>4. QED
      BY <2>1, <3>1, <3>2, <3>3 DEF ListFollows, FieldFollows
  <2>5. QueryFollows'
    BY <1>6, <2>1 DEF QueryFollows, AsksInOrder, LastLoad, LoadsOver
  <2>6. OnlySwitches'
    BY <1>6, <2>1, AdminKinds DEF OnlySwitches
  <2>7. SwitchesFollow'
    BY <1>6, <2>1, AdminKinds DEF SwitchesFollow, AsksInOrder, OnlySwitches
  <2>8. DialogFollows'
    BY <1>6, <2>1, AdminKinds DEF DialogFollows, Waits
  <2>9. QED
    BY <2>2, <2>3, <2>4, <2>5, <2>6, <2>7, <2>8
<1>7. ASSUME NEW n \in Sent, NEW m \in Sent, Changed(n, m), kind # FlagsPage PROVE AdminInv'
  <2>1. /\ asks' \in [Sent -> AskRow]
        /\ asks'[n].what = asks[n].what
        /\ asks'[n].at = "over"
        /\ asks'[n].query = asks[n].query
        /\ asks'[m].what = "load" /\ asks'[m].at = "sent" /\ asks'[m].query = filter
        /\ \A l \in Sent \ {n, m} : asks'[l] = asks[l]
        /\ asks[n].what \in {"add", "change", "switch"} /\ asks[n].at = "done" /\ m # n
        /\ asks[m].at = "unsent" /\ \A l \in Sent : l < m => asks[l].at # "unsent"
        /\ copyTimers' = IF asks[n].what = "switch" /\ kind.switch = "dialog"
                          THEN copyTimers + 1 ELSE copyTimers
        /\ pageForm' \in [open: BOOLEAN, new: BOOLEAN, content: 0..MaxContent]
        /\ UNCHANGED <<kind, served, list, filter, dialog, newest, foreign,
                       missed, refused>>
    <3>1. asks' \in [Sent -> AskRow]
      <4>1. [asks[n] EXCEPT !.at = "over"] \in AskRow
        BY DEF AskRow
      <4>2. asks' = [[asks EXCEPT ![n] = [asks[n] EXCEPT !.at = "over"]] EXCEPT ![m] =
                       [what |-> "load", at |-> "sent", query |-> filter, row |-> FirstRow]]
        BY <1>7, AdminKinds DEF Changed, Reloads, Asked, NextToSend
      <4>3. QED
        BY <4>1, <4>2, LoadIsAsked
    <3>2. asks'[n].what = asks[n].what /\ asks'[n].at = "over" /\ asks'[n].query = asks[n].query
      BY <1>7, AdminKinds DEF Changed, Reloads, Asked, NextToSend, AskRow
    <3>3. asks'[m].what = "load" /\ asks'[m].at = "sent" /\ asks'[m].query = filter
      BY <1>7, AdminKinds DEF Changed, Reloads, Asked, NextToSend, AskRow
    <3>4. \A l \in Sent \ {n, m} : asks'[l] = asks[l]
      BY <1>7, AdminKinds DEF Changed, Reloads, Asked, NextToSend, AskRow
    <3>5. copyTimers' = IF asks[n].what = "switch" /\ kind.switch = "dialog"
                          THEN copyTimers + 1 ELSE copyTimers
      BY <1>7 DEF Changed, Closed
    <3>6. pageForm' \in [open: BOOLEAN, new: BOOLEAN, content: 0..MaxContent]
      BY <1>7 DEF Changed, Closed
    <3>7. QED
      BY <3>1, <3>2, <3>3, <3>4, <3>5, <3>6, <1>7, EarlierOnes, AdminKinds DEF Changed,
         Reloads, Asked, NextToSend, FirstRow, Closed, RowState, AskRow, AsksInOrder,
         OnlySwitches
  <2>2. AdminTypeOK'
    BY <1>7, <2>1 DEF AdminTypeOK, AskRow
  <2>3. AsksInOrder'
    <3>1. \A l \in Sent : asks'[l].at = "unsent" <=> asks'[l].what = "none"
      BY <2>1 DEF AsksInOrder
    <3>2. \A l, k \in Sent : k < l /\ asks'[k].at = "unsent" => asks'[l].at = "unsent"
      BY <2>1 DEF AsksInOrder
    <3>3. \A l \in Sent :
             asks'[l].what = "load" /\ asks'[l].at = "over" /\ ~missed' => l <= newest'
      BY <2>1 DEF AsksInOrder
    <3>4. QED
      BY <3>1, <3>2, <3>3 DEF AsksInOrder
  <2>4. ListFollows'
    <3>1. \A l \in Sent : LastLoad(l)' => l = m
      BY <2>1 DEF LastLoad, AsksInOrder
    <3>2. ~LoadsOver'
      BY <2>1 DEF LoadsOver
    <3>3. QED
      BY <2>1, <3>1, <3>2 DEF ListFollows, FieldFollows
  <2>5. QueryFollows'
    BY <1>7, <2>1 DEF QueryFollows, AsksInOrder, LastLoad, LoadsOver
  <2>6. OnlySwitches'
    BY <1>7, <2>1, AdminKinds DEF OnlySwitches
  <2>7. SwitchesFollow'
    BY <1>7, <2>1, AdminKinds DEF SwitchesFollow, AsksInOrder, OnlySwitches
  <2>8. DialogFollows'
    BY <1>7, <2>1, AdminKinds DEF DialogFollows, Waits
  <2>9. QED
    BY <2>2, <2>3, <2>4, <2>5, <2>6, <2>7, <2>8
<1>8. ASSUME NEW n \in Sent, NEW m \in Sent, Changed(n, m), kind = FlagsPage PROVE AdminInv'
  <2>1. /\ asks' \in [Sent -> AskRow]
        /\ asks'[n].what = asks[n].what
        /\ asks'[n].at = "over"
        /\ asks'[n].query = asks[n].query
        /\ asks'[n].row = asks[n].row
        /\ \A l \in Sent \ {n} : asks'[l] = asks[l]
        /\ asks[n].what = "switch" /\ asks[n].at = "done"
        /\ kind # ProductsPage /\ ~kind.reloads
        /\ UNCHANGED <<kind, served, list, filter, dialog, copyTimers, pageForm,
                       newest, foreign, missed, refused>>
    <3>1. asks' \in [Sent -> AskRow]
      <4>1. [asks[n] EXCEPT !.at = "over"] \in AskRow
        BY DEF AskRow
      <4>2. asks' = [asks EXCEPT ![n] = [asks[n] EXCEPT !.at = "over"]]
        BY <1>8, AdminKinds DEF Changed, Reloads
      <4>3. QED
        BY <4>1, <4>2
    <3>2. QED
      BY <3>1, <1>8, EarlierOnes, AdminKinds DEF Changed, Reloads, NextToSend, RowState,
         Closed, AskRow, AsksInOrder, OnlySwitches
  <2>2. AdminTypeOK'
    BY <1>8, <2>1 DEF AdminTypeOK, AskRow
  <2>3. AsksInOrder'
    <3>1. \A l \in Sent : asks'[l].at = "unsent" <=> asks'[l].what = "none"
      BY <2>1 DEF AsksInOrder
    <3>2. \A l, k \in Sent : k < l /\ asks'[k].at = "unsent" => asks'[l].at = "unsent"
      BY <2>1 DEF AsksInOrder
    <3>3. \A l \in Sent :
             asks'[l].what = "load" /\ asks'[l].at = "over" /\ ~missed' => l <= newest'
      BY <2>1 DEF AsksInOrder
    <3>4. QED
      BY <3>1, <3>2, <3>3 DEF AsksInOrder
  <2>4. ListFollows'
    BY <1>8, <2>1, AdminKinds DEF ListFollows, FieldFollows, AsksInOrder, LastLoad,
       LoadsOver, Waits
  <2>5. QueryFollows'
    BY <1>8, <2>1 DEF QueryFollows, AsksInOrder, LastLoad, LoadsOver
  <2>6. OnlySwitches'
    BY <1>8, <2>1, AdminKinds DEF OnlySwitches
  <2>7. SwitchesFollow'
    BY <1>8, <2>1, AdminKinds DEF SwitchesFollow, AsksInOrder, OnlySwitches
  <2>8. DialogFollows'
    BY <1>8, <2>1, AdminKinds DEF DialogFollows, Waits
  <2>9. QED
    BY <2>2, <2>3, <2>4, <2>5, <2>6, <2>7, <2>8
<1>9. ASSUME NEW n \in Sent, NotChanged(n) PROVE AdminInv'
  <2>1. /\ asks' \in [Sent -> AskRow]
        /\ asks'[n].what = asks[n].what
        /\ asks'[n].at = "over"
        /\ asks'[n].query = asks[n].query
        /\ \A m \in Sent \ {n} : asks'[m] = asks[m]
        /\ asks[n].what \in {"add", "change", "switch"}
        /\ asks[n].at = "refused"
        /\ refused' = TRUE
        /\ UNCHANGED <<kind, served, list, filter, dialog, copyTimers, pageForm,
                       newest, foreign, missed>>
    <3>1. asks' \in [Sent -> AskRow]
      <4>1. [asks[n] EXCEPT !.at = "over"] \in AskRow
        BY DEF AskRow
      <4>2. asks' = [asks EXCEPT ![n] = [asks[n] EXCEPT !.at = "over"]]
        BY <1>9 DEF NotChanged
      <4>3. QED
        BY <4>1, <4>2
    <3>2. QED
      BY <3>1, <1>9, AdminKinds DEF NotChanged, RowState, AskRow, AsksInOrder,
         OnlySwitches
  <2>2. AdminTypeOK'
    BY <1>9, <2>1 DEF AdminTypeOK, AskRow
  <2>3. AsksInOrder'
    <3>1. \A l \in Sent : asks'[l].at = "unsent" <=> asks'[l].what = "none"
      BY <2>1 DEF AsksInOrder
    <3>2. \A l, k \in Sent : k < l /\ asks'[k].at = "unsent" => asks'[l].at = "unsent"
      BY <2>1 DEF AsksInOrder
    <3>3. \A l \in Sent :
             asks'[l].what = "load" /\ asks'[l].at = "over" /\ ~missed' => l <= newest'
      BY <2>1 DEF AsksInOrder
    <3>4. QED
      BY <3>1, <3>2, <3>3 DEF AsksInOrder
  <2>4. ListFollows'
    <3>1. /\ \A l \in Sent : asks'[l].what = "load" <=> asks[l].what = "load"
          /\ \A l \in Sent : asks[l].what = "load" => asks'[l] = asks[l]
      BY <2>1 DEF AsksInOrder
    <3>2. /\ \A l \in Sent : LastLoad(l)' => LastLoad(l) /\ asks'[l] = asks[l]
          /\ LoadsOver' => LoadsOver
      BY <3>1 DEF LastLoad, LoadsOver
    <3>3. \A what \in {"switch", "change", "add"} : Waits(what) => Waits(what)'
      BY <2>1 DEF Waits
    <3>4. QED
      BY <2>1, <3>2, <3>3, AdminKinds DEF ListFollows, FieldFollows
  <2>5. QueryFollows'
    BY <1>9, <2>1 DEF QueryFollows, AsksInOrder, LastLoad, LoadsOver
  <2>6. OnlySwitches'
    BY <1>9, <2>1, AdminKinds DEF OnlySwitches
  <2>7. SwitchesFollow'
    BY <1>9, <2>1, AdminKinds DEF SwitchesFollow, AsksInOrder, OnlySwitches
  <2>8. DialogFollows'
    BY <1>9, <2>1, AdminKinds DEF DialogFollows, Waits
  <2>9. QED
    BY <2>2, <2>3, <2>4, <2>5, <2>6, <2>7, <2>8
<1>10. ASSUME NEW new \in BOOLEAN, OpenForm(new) PROVE AdminInv'
  <2>1. AdminTypeOK'
    BY <1>10 DEF OpenForm, AdminTypeOK, AskRow, RowState
  <2>2. AsksInOrder'
    BY <1>10 DEF OpenForm, AsksInOrder, AskRow
  <2>3. ListFollows'
    BY <1>10 DEF OpenForm, ListFollows, FieldFollows, AsksInOrder, LastLoad, LoadsOver,
       Waits
  <2>4. QueryFollows'
    BY <1>10 DEF OpenForm, QueryFollows, AsksInOrder, LastLoad, LoadsOver
  <2>5. OnlySwitches'
    BY <1>10, AdminKinds DEF OpenForm, OnlySwitches
  <2>6. SwitchesFollow'
    BY <1>10 DEF OpenForm, SwitchesFollow, AsksInOrder, OnlySwitches
  <2>7. DialogFollows'
    BY <1>10 DEF OpenForm, DialogFollows, Waits
  <2>8. QED
    BY <2>1, <2>2, <2>3, <2>4, <2>5, <2>6, <2>7
<1>11. ASSUME Type PROVE AdminInv'
  <2>1. AdminTypeOK'
    BY <1>11 DEF Type, AdminTypeOK, AskRow, RowState
  <2>2. AsksInOrder'
    BY <1>11 DEF Type, AsksInOrder, AskRow
  <2>3. ListFollows'
    BY <1>11 DEF Type, ListFollows, FieldFollows, AsksInOrder, LastLoad, LoadsOver, Waits
  <2>4. QueryFollows'
    BY <1>11 DEF Type, QueryFollows, AsksInOrder, LastLoad, LoadsOver
  <2>5. OnlySwitches'
    BY <1>11, AdminKinds DEF Type, OnlySwitches
  <2>6. SwitchesFollow'
    BY <1>11 DEF Type, SwitchesFollow, AsksInOrder, OnlySwitches
  <2>7. DialogFollows'
    BY <1>11 DEF Type, DialogFollows, Waits
  <2>8. QED
    BY <2>1, <2>2, <2>3, <2>4, <2>5, <2>6, <2>7
<1>12. ASSUME CopyToDialog PROVE AdminInv'
  <2>1. AdminTypeOK'
    BY <1>12 DEF CopyToDialog, UnderWay, AdminTypeOK, AskRow, RowState
  <2>2. AsksInOrder'
    BY <1>12 DEF CopyToDialog, UnderWay, AsksInOrder, AskRow
  <2>3. ListFollows'
    BY <1>12 DEF CopyToDialog, UnderWay, ListFollows, FieldFollows, AsksInOrder, LastLoad,
       LoadsOver, Waits
  <2>4. QueryFollows'
    BY <1>12 DEF CopyToDialog, UnderWay, QueryFollows, AsksInOrder, LastLoad, LoadsOver
  <2>5. OnlySwitches'
    BY <1>12, AdminKinds DEF CopyToDialog, UnderWay, OnlySwitches
  <2>6. SwitchesFollow'
    BY <1>12 DEF CopyToDialog, UnderWay, SwitchesFollow, AsksInOrder, OnlySwitches
  <2>7. DialogFollows'
    <3>1. ~missed' => LoadsOver
      BY <1>12 DEF CopyToDialog, UnderWay, LoadsOver, AskRow, AsksInOrder
    <3>2. kind = ProductsPage /\ foreign = "no" /\ ~missed' /\ ~Waits("switch")
            => list.row.on = served.on
      BY <1>12, <3>1, AdminKinds DEF CopyToDialog, ListFollows, FieldFollows
    <3>3. QED
      BY <1>12, <3>2 DEF CopyToDialog, DialogFollows, Waits
  <2>8. QED
    BY <2>1, <2>2, <2>3, <2>4, <2>5, <2>6, <2>7
<1>13. ASSUME OthersChange PROVE AdminInv'
  <2>1. AdminTypeOK'
    BY <1>13 DEF OthersChange, AdminTypeOK, AskRow, RowState
  <2>2. AsksInOrder'
    BY <1>13 DEF OthersChange, AsksInOrder, AskRow
  <2>3. ListFollows'
    BY <1>13 DEF OthersChange, ListFollows, FieldFollows, AsksInOrder, LastLoad,
       LoadsOver, Waits
  <2>4. QueryFollows'
    BY <1>13 DEF OthersChange, QueryFollows, AsksInOrder, LastLoad, LoadsOver
  <2>5. OnlySwitches'
    BY <1>13, AdminKinds DEF OthersChange, OnlySwitches
  <2>6. SwitchesFollow'
    BY <1>13 DEF OthersChange, SwitchesFollow, AsksInOrder, OnlySwitches
  <2>7. DialogFollows'
    BY <1>13 DEF OthersChange, DialogFollows, Waits
  <2>8. QED
    BY <2>1, <2>2, <2>3, <2>4, <2>5, <2>6, <2>7
<1>14. CASE UNCHANGED adminVars
  BY <1>14 DEF adminVars, AdminTypeOK, AskRow, AsksInOrder, ListFollows, QueryFollows,
     OnlySwitches, SwitchesFollow, DialogFollows, FieldFollows, LastLoad, LoadsOver, Waits
<1>15. QED
  BY <1>1, <1>2, <1>3, <1>4, <1>5, <1>6, <1>7, <1>8, <1>9, <1>10, <1>11, <1>12, <1>13, <1>14
     DEF AdminNext

\* On every page of the admin, whatever is typed, switched, filtered and loaded: once
\* nothing is under way the list is what the database holds and what the filter asks
\* for, unless another admin changed it since, a load failed or was overtaken by another,
\* or a switch of the flags was refused.
THEOREM PagesAreCurrent == AdminSpec => [](AdminTypeOK /\ ListIsCurrent)
<1>1. AdminInit => AdminInv
  <2>1. SUFFICES ASSUME AdminInit PROVE AdminInv
    OBVIOUS
  <2>2. FirstRow \in RowState /\ 0 \in 0..MaxContent /\ 0 \in 0..MaxSent
    BY AdminAssumption DEF FirstRow, RowState
  <2>3. AdminTypeOK
    <3>1. Unsent \in AskRow
      BY <2>2 DEF Unsent, AskRow
    <3>2. asks \in [Sent -> AskRow]
      BY <2>1, <3>1 DEF AdminInit
    <3>3. list \in [row: RowState, query: 0..1] /\ served \in RowState /\ dialog \in RowState
      BY <2>1, <2>2 DEF AdminInit
    <3>4. pageForm \in [open: BOOLEAN, new: BOOLEAN, content: 0..MaxContent]
      BY <2>1, <2>2 DEF AdminInit, Closed
    <3>5. QED
      BY <2>1, <2>2, <3>2, <3>3, <3>4 DEF AdminInit, AdminTypeOK, AskRow
  <2>4. \A n \in Sent : asks[n].what = "none" /\ asks[n].at = "unsent"
    BY <2>1 DEF AdminInit, Unsent
  <2>5. AsksInOrder /\ ListFollows /\ QueryFollows /\ OnlySwitches /\ SwitchesFollow
        /\ DialogFollows
    BY <2>1, <2>4 DEF AdminInit, Closed, AsksInOrder, ListFollows, FieldFollows, LastLoad,
       LoadsOver, QueryFollows, OnlySwitches, SwitchesFollow, DialogFollows
  <2>6. QED
    BY <2>3, <2>5 DEF AdminInv
<1>2. AdminInv => AdminTypeOK /\ ListIsCurrent
  <2>1. SUFFICES ASSUME AdminInv, Calm, copyTimers = 0, foreign # "unread", ~missed,
                        ~(refused /\ kind = FlagsPage)
                 PROVE  /\ list.row = served /\ list.query = filter
                        /\ kind = ProductsPage /\ foreign = "no" => dialog.on = served.on
    BY DEF AdminInv, ListIsCurrent
  <2>2. /\ LoadsOver /\ ~Waits("switch") /\ ~Waits("change") /\ ~Waits("add")
        /\ \A n \in Sent : asks[n].at \notin {"sent", "refused"}
    BY <2>1 DEF Calm, LoadsOver, Waits, AdminInv, AsksInOrder
  <2>3. list.row.on = served.on /\ list.row.content = served.content
        /\ list.row.added = served.added
    <3>1. CASE kind = FlagsPage
      BY <2>1, <2>2, <3>1 DEF AdminInv, OnlySwitches, SwitchesFollow, AdminTypeOK
    <3>2. CASE kind # FlagsPage
      BY <2>1, <2>2, <3>2, AdminKinds DEF AdminInv, ListFollows, FieldFollows
    <3>3. QED
      BY <3>1, <3>2
  <2>4. list.row = served
    BY <2>1, <2>3, AdminTypes DEF RowState
  <2>5. list.query = filter
    BY <2>1, <2>2 DEF AdminInv, QueryFollows
  <2>6. kind = ProductsPage /\ foreign = "no" => dialog.on = served.on
    BY <2>1, <2>2 DEF AdminInv, DialogFollows
  <2>7. QED
    BY <2>4, <2>5, <2>6
<1>3. QED
  BY <1>1, <1>2, AdminInvNext, PTL DEF AdminSpec

-----------------------------------------------------------------------------
(* The parts side by side *)

LEMMA HouseHasLockout == HouseSpec => LockoutSpec
<1>1. HouseInit => LockoutInit
    BY DEF HouseInit
<1>2. [HouseNext]_houseVars => [LockoutNext]_lockoutVars
    BY DEF HouseNext, houseVars
<1>3. QED
    BY <1>1, <1>2, PTL DEF HouseSpec, LockoutSpec

LEMMA HouseHasOtp == HouseSpec => OtpSpec
<1>1. HouseInit => OtpInit
    BY DEF HouseInit
<1>2. [HouseNext]_houseVars => [OtpNext]_otpVars
    BY DEF HouseNext, houseVars
<1>3. QED
    BY <1>1, <1>2, PTL DEF HouseSpec, OtpSpec

LEMMA HouseHasLimit == HouseSpec => LimitSpec
<1>1. HouseInit => LimitInit
    BY DEF HouseInit
<1>2. [HouseNext]_houseVars => [LimitNext]_limitVars
    BY DEF HouseNext, houseVars
<1>3. QED
    BY <1>1, <1>2, PTL DEF HouseSpec, LimitSpec

LEMMA HouseHasLetters == HouseSpec => DeadLettersSpec
<1>1. HouseInit => DeadLettersInit
    BY DEF HouseInit
<1>2. [HouseNext]_houseVars => [DeadLettersNext]_deadLetterVars
    BY DEF HouseNext, houseVars
<1>3. QED
    BY <1>1, <1>2, PTL DEF HouseSpec, DeadLettersSpec

LEMMA HouseHasNotices == HouseSpec => NoticesSpec
<1>1. HouseInit => NoticesInit
    BY DEF HouseInit
<1>2. [HouseNext]_houseVars => [NoticesNext]_noticeVars
    BY DEF HouseNext, houseVars
<1>3. QED
    BY <1>1, <1>2, PTL DEF HouseSpec, NoticesSpec

LEMMA HouseHasHealth == HouseSpec => HealthSpec
<1>1. HouseInit => HealthInit
    BY DEF HouseInit
<1>2. [HouseNext]_houseVars => [HealthNext]_healthVars
    BY DEF HouseNext, houseVars
<1>3. QED
    BY <1>1, <1>2, PTL DEF HouseSpec, HealthSpec

LEMMA HouseHasShift == HouseSpec => TillShiftSpec
<1>1. HouseInit => TillShiftInit
    BY DEF HouseInit
<1>2. [HouseNext]_houseVars => [TillShiftNext]_tillShiftVars
    BY DEF HouseNext, houseVars
<1>3. QED
    BY <1>1, <1>2, PTL DEF HouseSpec, TillShiftSpec

LEMMA HouseHasMember == HouseSpec => TillMemberSpec
<1>1. HouseInit => TillMemberInit
    BY DEF HouseInit
<1>2. [HouseNext]_houseVars => [TillMemberNext]_tillMemberVars
    BY DEF HouseNext, houseVars
<1>3. QED
    BY <1>1, <1>2, PTL DEF HouseSpec, TillMemberSpec

LEMMA HouseHasCache == HouseSpec => AppCacheSpec
<1>1. HouseInit => AppCacheInit
    BY DEF HouseInit
<1>2. [HouseNext]_houseVars => [AppCacheNext]_cacheVars
    BY DEF HouseNext, houseVars
<1>3. QED
    BY <1>1, <1>2, PTL DEF HouseSpec, AppCacheSpec

LEMMA HouseHasSession == HouseSpec => SessionSpec
<1>1. HouseInit => SessionInit
    BY DEF HouseInit
<1>2. [HouseNext]_houseVars => [SessionNext]_sessionVars
    BY DEF HouseNext, houseVars
<1>3. QED
    BY <1>1, <1>2, PTL DEF HouseSpec, SessionSpec

LEMMA HouseHasFlags == HouseSpec => FlagsSpec
<1>1. HouseInit => FlagsInit
    BY DEF HouseInit
<1>2. [HouseNext]_houseVars => [FlagsNext]_flagVars
    BY DEF HouseNext, houseVars
<1>3. QED
    BY <1>1, <1>2, PTL DEF HouseSpec, FlagsSpec

LEMMA HouseHasBackup == HouseSpec => BackupSpec
<1>1. HouseInit => BackupInit
    BY DEF HouseInit
<1>2. [HouseNext]_houseVars => [BackupNext]_backupVars
    BY DEF HouseNext, houseVars
<1>3. QED
    BY <1>1, <1>2, PTL DEF HouseSpec, BackupSpec

LEMMA HouseHasTill == HouseSpec => TillSpec
<1>1. HouseInit => TillInit
    BY DEF HouseInit
<1>2. [HouseNext]_houseVars => [TillNext]_tillVars
    BY DEF HouseNext, houseVars
<1>3. QED
    BY <1>1, <1>2, PTL DEF HouseSpec, TillSpec

LEMMA HouseHasPages == HouseSpec => AdminSpec
<1>1. HouseInit => AdminInit
    BY DEF HouseInit
<1>2. [HouseNext]_houseVars => [AdminNext]_adminVars
    BY DEF HouseNext, houseVars
<1>3. QED
    BY <1>1, <1>2, PTL DEF HouseSpec, AdminSpec

LEMMA HouseHasQueue == HouseSpec => TillSyncInit /\ [][TillSyncNext]_tillSyncVars
<1>1. HouseInit => TillSyncInit
    BY DEF HouseInit
<1>2. [HouseNext]_houseVars => [TillSyncNext]_tillSyncVars
    BY DEF HouseNext, houseVars
<1>3. QED
    BY <1>1, <1>2, PTL DEF HouseSpec

------------------------------------------------------------------------------
\* All rows, requests and copies of all parts keep their types.
THEOREM HouseTypeCorrect == HouseSpec => []HouseTypeOK
<1>1. HouseSpec => [](/\ TillTypeOK /\ TillSyncTypeOK /\ AppCacheTypeOK /\ TillShiftTypeOK
                      /\ TillMemberTypeOK)
    BY HouseHasTill, HouseHasQueue, HouseHasCache, HouseHasShift, HouseHasMember, TillPaysOnce,
       QueueStaysKept, CopiesAreWhole, TheTillKnows, TheTotalIsRight, PTL
<1>2. HouseSpec => [](LockoutTypeOK /\ OtpTypeOK /\ LimitTypeOK /\ SessionTypeOK /\ AdminTypeOK)
    BY HouseHasLockout, HouseHasOtp, HouseHasLimit, HouseHasSession, HouseHasPages,
       LocksAfterFailures, CodesAreSpent, FewPass, SessionsEndInTime, PagesAreCurrent, PTL
<1>3. HouseSpec => [](/\ DeadLettersTypeOK /\ FlagsTypeOK /\ NoticesTypeOK /\ MonitorTypeOK
                      /\ BackupTypeOK)
    BY HouseHasLetters, HouseHasFlags, HouseHasNotices, HouseHasHealth, HouseHasBackup,
       LettersTypeCorrect, SwitchesReach, NoticesComeInTime, PagesAreRight, BackupsStayWhole, PTL
<1>4. QED
    BY <1>1, <1>2, <1>3, PTL DEF HouseTypeOK

\* Beside the other parts too, the till is paid once for a sale (TillPaysOnce) and the
\* admin's lists show what is in the database (PagesAreCurrent), with the exceptions
\* those two name: lost answers, ended countdowns, reloads and answers nobody waited for;
\* loads that failed or overtook each other.
THEOREM PagesSellAndShow == HouseSpec => [](TillSellsOnce /\ ListIsCurrent)
BY HouseHasTill, HouseHasPages, TillPaysOnce, PagesAreCurrent, PTL

\* However the parts take turns, who tries again and again is stopped: the cashier by
\* the count of failures (unless his lock could not be written), the admin by the code
\* (unless two had read it at once or the store was exchanged under one), either by the
\* limit of requests.
THEOREM GuessesStopped == HouseSpec => []GuessesAreLimited
<1>1. LimitLocks /\ CodeIsUsedOnce /\ ThreeTries /\ PassedIsBounded => GuessesAreLimited
    BY DEF GuessesAreLimited
<1>2. QED
    BY <1>1, HouseHasLockout, HouseHasOtp, HouseHasLimit, LocksAfterFailures, CodesAreSpent,
       FewPass, PTL

\* Who should know is told, and told what is so: the admin of shifts about to be closed
\* (NoticesComeInTime), whoever looks after the containers (PagesAreRight), the cashier at
\* the till (TheTillKnows) and the customer who redeems (TheTotalIsRight), with the
\* exceptions each of the four names.
THEOREM PeopleAreToldInTime == HouseSpec => []PeopleAreTold
<1>1. NoticesAreRight /\ PagedAtThreshold /\ TillKnowsShift /\ OutletIsKept /\ TotalFollowsRedeem
        => PeopleAreTold
    BY DEF PeopleAreTold
<1>2. QED
    BY <1>1, HouseHasNotices, HouseHasHealth, HouseHasShift, HouseHasMember, NoticesComeInTime,
       PagesAreRight, TheTillKnows, TheTotalIsRight, PTL

\* Beside the other parts too, no sale of the queue is lost (NothingIsLost) and no dead
\* letter is handled twice (LettersAreHandled) unless two calls or two jobs met at it, a
\* worker died, or an attempt failed after its write.
THEOREM NothingGoesAstray == HouseSpec => [](QueueIsKept /\ HandledOnce)
BY HouseHasQueue, HouseHasLetters, QueueStaysKept, LettersAreHandled, PTL

\* What is served from a copy is true beside the other parts: the shell, which may be of
\* a newer build than its worker, and the answers of the service worker, unless workers
\* met, requests overlapped or an answer could not be stored; and the flags, unless a
\* read was overtaken.
THEOREM CopiesStayTrue == HouseSpec => CopiesAreTrue
BY HouseHasCache, HouseHasFlags, CopiesAreWhole, SwitchesReach, PTL DEF CopiesAreTrue

\* Beside the other parts too, who logged out is out (SessionsEndInTime), and once a
\* backup was reported a whole copy is on the disk (BackupsStayWhole), unless a restore
\* took up a backup that was being encrypted.
THEOREM SessionsAndBackups == HouseSpec => [](SessionsEnd /\ BackupsAreWhole)
BY HouseHasSession, HouseHasBackup, SessionsEndInTime, BackupsStayWhole, PTL
=============================================================================
