--------------------------------- MODULE TillSync --------------------------------
(***************************************************************************)
(* The till while it is offline, and what it does when it comes back.  Cash  *)
(* sales are put in the browser's database with their receipts; the handler  *)
(* of the "online" event sends the pending ones as one batch, up to three    *)
(* times, and then prints the pending receipts; a page that is loaded online *)
(* sends them as well.  Handlers may overlap: each works on the list it read *)
(* when it began.                                                            *)
(***************************************************************************)
EXTENDS Naturals, FiniteSets

CONSTANTS
    OfflineSales,   \* client_uuids of the sales made offline
    Handlers,       \* runs of the event handler, or of onMount
    MaxTries,       \* maxRetries of sync_pending_orders
    BatchIsValid    \* SyncBatchDto accepts what the till sends

ASSUME TillSyncAssumption == MaxTries \in Nat \ {0} /\ BatchIsValid \in BOOLEAN

VARIABLES
    offline,     \* is_offline
    localOrder,  \* sync_status in db.orders
    receipt,     \* print_status in db.receipts
    recorded,    \* the sales the backend has an order for
    handler,     \* the running handlers
    copies,      \* how often a receipt came out, in part or whole, until it was cut
    cut          \* receipts that two handlers had to print at the same time, or whose
                 \* printing broke off: half way through, or before the write that
                 \* says they are printed

tillSyncVars == <<offline, localOrder, receipt, recorded, handler, copies, cut>>

\* prints: the handler of the event; onMount only syncs.  hand: the receipt it prints.
Idle == [at |-> "idle", list |-> {}, hand |-> {}, try |-> 0, prints |-> FALSE]
HandlerRow == [at: {"idle", "send", "sent", "count", "print", "paper", "mark"},
               list: SUBSET OfflineSales, hand: SUBSET OfflineSales,
               try: 0..MaxTries, prints: BOOLEAN]

TillSyncTypeOK ==
    /\ offline \in BOOLEAN
    /\ localOrder \in [OfflineSales -> {"none", "pending", "synced"}]
    /\ receipt \in [OfflineSales -> {"none", "pending", "printed", "failed"}]
    /\ recorded \subseteq OfflineSales
    /\ handler \in [Handlers -> HandlerRow]
    /\ copies \in [OfflineSales -> Nat] /\ cut \subseteq OfflineSales

TillSyncInit ==
    /\ offline \in BOOLEAN
    /\ localOrder = [x \in OfflineSales |-> "none"]
    /\ receipt = [x \in OfflineSales |-> "none"]
    /\ recorded = {}
    /\ handler = [h \in Handlers |-> Idle]
    /\ copies = [x \in OfflineSales |-> 0] /\ cut = {}

-----------------------------------------------------------------------------
\* process_payment offline, for cash; the receipt is a second write.
SaveLocally(x) ==
    /\ offline
    /\ localOrder[x] = "none"
    /\ localOrder' = [localOrder EXCEPT ![x] = "pending"]
    /\ \E saved \in {"none", "pending"} : receipt' = [receipt EXCEPT ![x] = saved]
    /\ UNCHANGED <<offline, recorded, handler, copies, cut>>

Pending == {x \in OfflineSales : localOrder[x] = "pending"}

Begin(h, prints) ==
    handler' = [handler EXCEPT ![h] =
        IF Pending # {} THEN [Idle EXCEPT !.at = "send", !.list = Pending, !.prints = prints]
        ELSE IF prints THEN [Idle EXCEPT !.at = "count", !.prints = TRUE] ELSE Idle]

GoOffline ==
    /\ ~offline
    /\ offline' = TRUE
    /\ UNCHANGED <<localOrder, receipt, recorded, handler, copies, cut>>

GoOnline(h) ==
    /\ offline /\ handler[h] = Idle
    /\ offline' = FALSE
    /\ Begin(h, TRUE)
    /\ UNCHANGED <<localOrder, receipt, recorded, copies, cut>>

\* The page is loaded anew, which ends what was running, a print as well.
LoadPage(h, isOffline) ==
    /\ offline' = isOffline
    /\ handler' = [g \in Handlers |->
          IF g = h /\ ~isOffline /\ Pending # {}
          THEN [Idle EXCEPT !.at = "send", !.list = Pending] ELSE Idle]
    /\ cut' = cut \cup UNION {handler[g].hand : g \in Handlers}
    /\ UNCHANGED <<localOrder, receipt, recorded, copies>>

-----------------------------------------------------------------------------
(* sync_pending_orders *)

SendBatch(h) ==
    /\ handler[h].at = "send"
    /\ handler' = [handler EXCEPT ![h].at = "sent"]
    /\ UNCHANGED <<offline, localOrder, receipt, recorded, copies, cut>>

\* syncBatchOrders, one sale after the other; it goes on after the till has
\* stopped listening.
BackendRecords(h, x) ==
    /\ handler[h].at \in {"send", "sent"} /\ x \in handler[h].list \ recorded
    /\ handler[h].at = "send" => handler[h].try > 0
    /\ BatchIsValid
    /\ recorded' = recorded \cup {x}
    /\ UNCHANGED <<offline, localOrder, receipt, handler, copies, cut>>

AfterSync(h) ==
    IF handler[h].prints THEN [Idle EXCEPT !.at = "count", !.prints = TRUE] ELSE Idle

\* Variant: the whole list is marked.
Synced_All(h, ok) == handler[h].list

Synced(h, ok) == ok

\* An answer says of each sale whether it went through.  That ends the loop,
\* also when some did not: they wait for the next time.
AnswerBatch(h, ok) ==
    /\ handler[h].at = "sent" /\ BatchIsValid
    /\ localOrder' = [x \in OfflineSales |-> IF x \in Synced(h, ok) THEN "synced" ELSE localOrder[x]]
    /\ handler' = [handler EXCEPT ![h] = AfterSync(h)]
    /\ UNCHANGED <<offline, receipt, recorded, copies, cut>>

\* Variant: a list that could not be sent is given up.
GivenUp_Dropped(h) == [x \in OfflineSales |-> IF x \in handler[h].list THEN "none" ELSE localOrder[x]]

GivenUp(h) == localOrder

\* No answer, or one that is not OK: after a pause the same list again.
BatchFails(h) ==
    /\ handler[h].at = "sent"
    /\ IF handler[h].try + 1 < MaxTries
       THEN /\ handler' = [handler EXCEPT ![h].at = "send", ![h].try = @ + 1]
            /\ UNCHANGED localOrder
       ELSE /\ handler' = [handler EXCEPT ![h] = AfterSync(h)]
            /\ localOrder' = GivenUp(h)
    /\ UNCHANGED <<offline, receipt, recorded, copies, cut>>

-----------------------------------------------------------------------------
(* print_pending_receipts *)

Unprinted == {x \in OfflineSales : receipt[x] = "pending"}

\* What a handler has still to print, or to mark as printed.
ToPrint(h) == IF handler[h].at \in {"print", "paper", "mark"} THEN handler[h].list \cup handler[h].hand
              ELSE {}

ListReceipts(h) ==
    /\ handler[h].at = "count"
    /\ handler' = [handler EXCEPT ![h] = IF Unprinted = {} THEN Idle
                                         ELSE [Idle EXCEPT !.at = "print", !.list = Unprinted]]
    /\ cut' = cut \cup (Unprinted \cap UNION {ToPrint(g) : g \in Handlers})
    /\ UNCHANGED <<offline, localOrder, receipt, recorded, copies>>

Out(x) == IF x \in cut THEN copies ELSE [copies EXCEPT ![x] = @ + 1]

\* By Bluetooth, chunk by chunk; without it in a window, which the browser may refuse.
PrintReceipt(h, x, way) ==
    /\ handler[h].at = "print" /\ x \in handler[h].list
    /\ copies' = IF way = "blocked" THEN copies ELSE Out(x)
    /\ handler' = [handler EXCEPT ![h].at = IF way = "bluetooth" THEN "paper" ELSE "mark",
                                  ![h].list = @ \ {x}, ![h].hand = {x}]
    /\ UNCHANGED <<offline, localOrder, receipt, recorded, cut>>

\* The last chunk is on paper; or one fails, and the receipt is printed in a window.
PaperEnds(h, x, way) ==
    /\ handler[h].at = "paper" /\ x \in handler[h].hand
    /\ copies' = IF way = "window" THEN Out(x) ELSE copies
    /\ cut' = IF way = "bluetooth" THEN cut ELSE cut \cup {x}
    /\ handler' = [handler EXCEPT ![h].at = "mark"]
    /\ UNCHANGED <<offline, localOrder, receipt, recorded>>

\* The write of print_status.  An error before or in it is caught and written instead.
MarkReceipt(h, x, status) ==
    /\ handler[h].at = "mark" /\ x \in handler[h].hand
    /\ receipt' = [receipt EXCEPT ![x] = status]
    /\ handler' = [handler EXCEPT ![h] = IF handler[h].list = {} THEN Idle
                                         ELSE [@ EXCEPT !.at = "print", !.hand = {}]]
    /\ UNCHANGED <<offline, localOrder, recorded, copies, cut>>

\* When that write fails as well, nothing is printed any more and this one is pending.
MarkFails(h) ==
    /\ handler[h].at = "mark"
    /\ cut' = cut \cup handler[h].hand
    /\ handler' = [handler EXCEPT ![h] = Idle]
    /\ UNCHANGED <<offline, localOrder, receipt, recorded, copies>>

PrintStep(h) ==
    \/ ListReceipts(h) \/ MarkFails(h)
    \/ \E x \in OfflineSales, way \in {"bluetooth", "window", "blocked"} :
          PrintReceipt(h, x, way) \/ PaperEnds(h, x, way)
    \/ \E x \in OfflineSales, status \in {"printed", "failed"} : MarkReceipt(h, x, status)

TillSyncNext ==
    \/ GoOffline
    \/ \E x \in OfflineSales : SaveLocally(x)
    \/ \E h \in Handlers :
          \/ GoOnline(h) \/ SendBatch(h) \/ BatchFails(h) \/ PrintStep(h)
          \/ \E isOffline \in BOOLEAN : LoadPage(h, isOffline)
          \/ \E x \in OfflineSales : BackendRecords(h, x)
          \/ \E ok \in SUBSET (handler[h].list \cap recorded) : AnswerBatch(h, ok)

\* The network comes and goes again and again; not every try fails and not
\* every load of the page comes before the answer.
TillSyncFairness ==
    /\ WF_tillSyncVars(GoOffline)
    /\ \A h \in Handlers : /\ SF_tillSyncVars(GoOnline(h))
                          /\ SF_tillSyncVars(SendBatch(h))
                          /\ WF_tillSyncVars(PrintStep(h))
    /\ \A x \in OfflineSales :
          /\ SF_tillSyncVars(\E h \in Handlers : BackendRecords(h, x))
          /\ SF_tillSyncVars(\E h \in Handlers : \E ok \in SUBSET (handler[h].list \cap recorded) :
                                x \in ok /\ AnswerBatch(h, ok))

TillSyncSpec == TillSyncInit /\ [][TillSyncNext]_tillSyncVars /\ TillSyncFairness

-----------------------------------------------------------------------------
(* Properties *)

\* A sale only leaves the queue when the backend has its order, whatever
\* handlers overlap and answers get lost.
SyncedIsRecorded == \A x \in OfflineSales : localOrder[x] = "synced" => x \in recorded

\* However often the till comes back online or is loaded anew, a receipt comes out
\* once, unless two handlers had it on their lists at the same time or its printing
\* broke off: the Bluetooth printer was lost half way, or the page was loaded or the
\* write of its status failed after it was out.
PrintedOnce == \A x \in OfflineSales \ cut : copies[x] <= 1

\* "Pesanan disimpan dan akan di-sync nanti": a sale made offline reaches the
\* backend in the end, and the till knows.
OfflineSalesAreSynced == \A x \in OfflineSales : localOrder[x] = "pending" ~> localOrder[x] = "synced"

\* Nothing that was sold offline is lost from the queue, and nothing is printed twice
\* without one of those accidents.
QueueIsKept == SyncedIsRecorded /\ PrintedOnce
=============================================================================
