------------------------------- MODULE TillProofs -------------------------------
(* What the till keeps for any number of sales, handlers, requests, outlets and *)
(* members: its payment dialog, its queue, the shift and the outlet, the member, *)
(* and what its service worker serves.                                          *)
EXTENDS Till, TillSync, TillShift, TillMember, AppCache, TLAPS

-----------------------------------------------------------------------------
(* The queue: type correctness *)

\* The rows a handler goes on with.
LEMMA HandlerRows ==
    /\ \A list \in SUBSET OfflineSales, prints \in BOOLEAN :
          [Idle EXCEPT !.at = "send", !.list = list, !.prints = prints] \in HandlerRow
    /\ \A list \in SUBSET OfflineSales : [Idle EXCEPT !.at = "send", !.list = list] \in HandlerRow
    /\ Idle \in HandlerRow
    /\ [Idle EXCEPT !.at = "count", !.prints = TRUE] \in HandlerRow
    /\ \A list \in SUBSET OfflineSales : [Idle EXCEPT !.at = "print", !.list = list] \in HandlerRow
<1>1. 0 \in 0..MaxTries
    BY TillSyncAssumption
<1>2. QED
    BY <1>1 DEF HandlerRow, Idle

LEMMA QueueTypeInit == TillSyncInit => TillSyncTypeOK
<1> SUFFICES ASSUME TillSyncInit PROVE TillSyncTypeOK
    OBVIOUS
<1>1. offline \in BOOLEAN /\ cut \subseteq OfflineSales
    BY DEF TillSyncInit
<1>2. /\ localOrder \in [OfflineSales -> {"none", "pending", "synced"}]
      /\ receipt \in [OfflineSales -> {"none", "pending", "printed", "failed"}]
      /\ recorded \subseteq OfflineSales
      /\ handler \in [Handlers -> HandlerRow]
      /\ copies \in [OfflineSales -> Nat]
    BY HandlerRows DEF TillSyncInit
<1>3. QED
    BY <1>1, <1>2 DEF TillSyncTypeOK

LEMMA AfterSyncFits ==
    ASSUME NEW h PROVE AfterSync(h) \in HandlerRow /\ AfterSync(h).at \in {"idle", "count"}
BY HandlerRows DEF AfterSync, Idle

LEMMA OutFits ==
    ASSUME TillSyncTypeOK, NEW x \in OfflineSales
    PROVE  Out(x) \in [OfflineSales -> Nat] /\ copies \in [OfflineSales -> Nat]
BY DEF Out, TillSyncTypeOK

LEMMA QueueTypeHandler ==
    ASSUME TillSyncTypeOK, NEW h \in Handlers,
           SendBatch(h) \/ BatchFails(h) \/ PrintStep(h)
    PROVE  TillSyncTypeOK'
<1>1. handler[h] \in HandlerRow
    BY DEF TillSyncTypeOK
<1>2. ASSUME NEW row \in HandlerRow, handler' = [handler EXCEPT ![h] = row]
      PROVE  handler' \in [Handlers -> HandlerRow]
    BY <1>2 DEF TillSyncTypeOK
<1>3. CASE SendBatch(h)
    BY <1>1, <1>3 DEF SendBatch, TillSyncTypeOK, HandlerRow
<1>4. CASE BatchFails(h)
  <2>1. CASE handler[h].try + 1 < MaxTries
    <3> DEFINE row == [handler[h] EXCEPT !.at = "send", !.try = @ + 1]
    <3>1. row \in HandlerRow
      <4>1. handler[h].try + 1 \in 0..MaxTries
          BY <1>1, <2>1, TillSyncAssumption DEF HandlerRow
      <4>2. QED BY <1>1, <4>1 DEF HandlerRow
    <3>2. handler' = [handler EXCEPT ![h] = row] /\ UNCHANGED localOrder
        BY <1>1, <1>4, <2>1 DEF BatchFails, HandlerRow, TillSyncTypeOK
    <3> HIDE DEF row
    <3>3. QED BY <1>2, <1>4, <3>1, <3>2 DEF BatchFails, TillSyncTypeOK
  <2>2. CASE ~(handler[h].try + 1 < MaxTries)
    <3>1. handler' = [handler EXCEPT ![h] = AfterSync(h)] /\ UNCHANGED localOrder
        BY <1>4, <2>2 DEF BatchFails, GivenUp
    <3>2. QED BY <1>2, <1>4, <3>1, AfterSyncFits DEF BatchFails, TillSyncTypeOK
  <2>3. QED BY <2>1, <2>2
<1>5. CASE ListReceipts(h)
  <2> DEFINE row == IF Unprinted = {} THEN Idle ELSE [Idle EXCEPT !.at = "print", !.list = Unprinted]
  <2>1. row \in HandlerRow
      BY HandlerRows DEF Unprinted
  <2>2. handler' = [handler EXCEPT ![h] = row]
      BY <1>5 DEF ListReceipts
  <2>3. cut' \subseteq OfflineSales
      BY <1>5 DEF ListReceipts, Unprinted, TillSyncTypeOK
  <2> HIDE DEF row
  <2>4. QED BY <1>2, <1>5, <2>1, <2>2, <2>3 DEF ListReceipts, TillSyncTypeOK
<1>6. ASSUME NEW x \in OfflineSales, NEW way \in {"bluetooth", "window", "blocked"}, PrintReceipt(h, x, way)
      PROVE  TillSyncTypeOK'
  <2>1. PICK at \in {"paper", "mark"} :
            handler' = [handler EXCEPT ![h] = [handler[h] EXCEPT !.at = at, !.list = @ \ {x}, !.hand = {x}]]
      BY <1>1, <1>6 DEF PrintReceipt, TillSyncTypeOK, HandlerRow
  <2> DEFINE row == [handler[h] EXCEPT !.at = at, !.list = @ \ {x}, !.hand = {x}]
  <2>2. row \in HandlerRow
      BY <1>1 DEF HandlerRow
  <2> HIDE DEF row
  <2>3. handler' \in [Handlers -> HandlerRow]
      BY <1>2, <2>1, <2>2 DEF row
  <2>4. QED BY <1>6, <2>3, OutFits DEF PrintReceipt, TillSyncTypeOK
<1>7. ASSUME NEW x \in OfflineSales, NEW way \in {"bluetooth", "window", "blocked"}, PaperEnds(h, x, way)
      PROVE  TillSyncTypeOK'
  <2> DEFINE row == [handler[h] EXCEPT !.at = "mark"]
  <2>1. row \in HandlerRow
      BY <1>1 DEF HandlerRow
  <2>2. handler' = [handler EXCEPT ![h] = row]
      BY <1>7 DEF PaperEnds, TillSyncTypeOK
  <2> HIDE DEF row
  <2>3. cut' \subseteq OfflineSales
      BY <1>7 DEF PaperEnds, TillSyncTypeOK
  <2>4. QED BY <1>2, <1>7, <2>1, <2>2, <2>3, OutFits DEF PaperEnds, TillSyncTypeOK
<1>8. ASSUME NEW x \in OfflineSales, NEW status \in {"printed", "failed"}, MarkReceipt(h, x, status)
      PROVE  TillSyncTypeOK'
  <2> DEFINE row == IF handler[h].list = {} THEN Idle ELSE [handler[h] EXCEPT !.at = "print", !.hand = {}]
  <2>1. row \in HandlerRow
      BY <1>1, HandlerRows DEF HandlerRow
  <2>2. handler' = [handler EXCEPT ![h] = row]
      BY <1>8 DEF MarkReceipt
  <2> HIDE DEF row
  <2>3. receipt' \in [OfflineSales -> {"none", "pending", "printed", "failed"}]
      BY <1>8 DEF MarkReceipt, TillSyncTypeOK
  <2>4. QED BY <1>2, <1>8, <2>1, <2>2, <2>3 DEF MarkReceipt, TillSyncTypeOK
<1>9. CASE MarkFails(h)
  <2>1. cut' \subseteq OfflineSales
      BY <1>1, <1>9 DEF MarkFails, TillSyncTypeOK, HandlerRow
  <2>2. QED BY <1>2, <1>9, <2>1, HandlerRows DEF MarkFails, TillSyncTypeOK
<1>10. QED
    BY <1>3, <1>4, <1>5, <1>6, <1>7, <1>8, <1>9 DEF PrintStep

LEMMA QueueTypeOther ==
    ASSUME TillSyncTypeOK,
           \/ GoOffline
           \/ \E x \in OfflineSales : SaveLocally(x)
           \/ \E h \in Handlers :
                 \/ GoOnline(h)
                 \/ \E isOffline \in BOOLEAN : LoadPage(h, isOffline)
                 \/ \E x \in OfflineSales : BackendRecords(h, x)
                 \/ \E ok \in SUBSET (handler[h].list \cap recorded) : AnswerBatch(h, ok)
    PROVE  TillSyncTypeOK'
<1>1. Pending \subseteq OfflineSales
    BY DEF Pending
<1>2. CASE GoOffline
    BY <1>2 DEF GoOffline, TillSyncTypeOK
<1>3. ASSUME NEW x \in OfflineSales, SaveLocally(x) PROVE TillSyncTypeOK'
    BY <1>3 DEF SaveLocally, TillSyncTypeOK
<1>4. ASSUME NEW h \in Handlers, GoOnline(h) PROVE TillSyncTypeOK'
    BY <1>1, <1>4, HandlerRows DEF GoOnline, Begin, TillSyncTypeOK
<1>5. ASSUME NEW h \in Handlers, NEW isOffline \in BOOLEAN, LoadPage(h, isOffline) PROVE TillSyncTypeOK'
  <2>1. \A g \in Handlers : handler'[g] \in HandlerRow
      BY <1>1, <1>5, HandlerRows DEF LoadPage
  <2>2. handler' \in [Handlers -> HandlerRow]
      BY <1>5, <2>1 DEF LoadPage
  <2>3. cut' \subseteq OfflineSales
      BY <1>5 DEF LoadPage, TillSyncTypeOK, HandlerRow
  <2>4. QED BY <1>5, <2>2, <2>3 DEF LoadPage, TillSyncTypeOK
<1>6. ASSUME NEW h \in Handlers, NEW x \in OfflineSales, BackendRecords(h, x) PROVE TillSyncTypeOK'
    BY <1>6 DEF BackendRecords, TillSyncTypeOK
<1>7. ASSUME NEW h \in Handlers, NEW ok \in SUBSET (handler[h].list \cap recorded), AnswerBatch(h, ok)
      PROVE  TillSyncTypeOK'
    BY <1>7, AfterSyncFits DEF AnswerBatch, Synced, TillSyncTypeOK
<1>8. QED
    BY <1>2, <1>3, <1>4, <1>5, <1>6, <1>7

LEMMA QueueTypeNext == TillSyncTypeOK /\ [TillSyncNext]_tillSyncVars => TillSyncTypeOK'
<1> SUFFICES ASSUME TillSyncTypeOK, [TillSyncNext]_tillSyncVars PROVE TillSyncTypeOK'
    OBVIOUS
<1>1. CASE UNCHANGED tillSyncVars
    BY <1>1 DEF tillSyncVars, TillSyncTypeOK
<1>2. CASE TillSyncNext
    BY <1>2, QueueTypeHandler, QueueTypeOther DEF TillSyncNext
<1>3. QED
    BY <1>1, <1>2

-----------------------------------------------------------------------------
(* The queue *)

LEMMA SyncedNext ==
    TillSyncTypeOK /\ SyncedIsRecorded /\ [TillSyncNext]_tillSyncVars => SyncedIsRecorded'
<1> SUFFICES ASSUME TillSyncTypeOK, SyncedIsRecorded, [TillSyncNext]_tillSyncVars
             PROVE  SyncedIsRecorded'
    OBVIOUS
<1> USE DEF SyncedIsRecorded
<1>1. ASSUME NEW x \in OfflineSales, SaveLocally(x) PROVE SyncedIsRecorded'
    BY <1>1 DEF SaveLocally, TillSyncTypeOK
<1>2. ASSUME NEW h \in Handlers, NEW x \in OfflineSales, BackendRecords(h, x)
      PROVE  SyncedIsRecorded'
    BY <1>2 DEF BackendRecords
<1>3. ASSUME NEW h \in Handlers, NEW ok \in SUBSET (handler[h].list \cap recorded), AnswerBatch(h, ok)
      PROVE  SyncedIsRecorded'
    BY <1>3 DEF AnswerBatch, Synced
<1>4. CASE UNCHANGED <<localOrder, recorded>>
    BY <1>4
<1>5. ASSUME NEW h \in Handlers, BatchFails(h) PROVE UNCHANGED <<localOrder, recorded>>
    BY <1>5 DEF BatchFails, GivenUp
<1>6. QED
    BY <1>1, <1>2, <1>3, <1>4, <1>5 DEF TillSyncNext, tillSyncVars, GoOffline, GoOnline, LoadPage,
       SendBatch, PrintStep, ListReceipts, PrintReceipt, PaperEnds, MarkReceipt, MarkFails

-----------------------------------------------------------------------------
(* The receipts *)

\* A sale that is not saved yet has no receipt and is on no list of receipts.  Of a
\* receipt that was not cut: one handler has it to print at most, then it is pending;
\* and unless it is in a handler's hand, a pending one has not come out.
Printer ==
    /\ \A x \in OfflineSales : localOrder[x] = "none" => receipt[x] = "none"
    /\ \A h \in Handlers : \A x \in ToPrint(h) : localOrder[x] # "none"
    /\ \A h \in Handlers : /\ handler[h].at \notin {"paper", "mark"} => handler[h].hand = {}
                          /\ handler[h].list \cap handler[h].hand = {}
                          /\ \A x, y \in handler[h].hand : x = y
    /\ \A x \in OfflineSales \ cut :
         /\ \A g, h \in Handlers : x \in ToPrint(g) /\ x \in ToPrint(h) => g = h
         /\ \A h \in Handlers : x \in ToPrint(h) => receipt[x] = "pending"
         /\ copies[x] <= 1
         /\ receipt[x] \in {"none", "pending"} =>
               copies[x] = 0 \/ \E h \in Handlers : x \in handler[h].hand

LEMMA PrinterInit == TillSyncInit => Printer
BY DEF TillSyncInit, Printer, ToPrint, Idle

\* Handlers that do not print leave the printer alone.
LEMMA PrinterKept ==
    ASSUME TillSyncTypeOK, Printer, UNCHANGED <<receipt, copies>>, cut \subseteq cut',
           \A x \in OfflineSales : localOrder'[x] = "none" => localOrder[x] = "none",
           \A h \in Handlers : \/ handler'[h] = handler[h]
                               \/ /\ handler'[h].at \in {"idle", "send", "sent", "count"}
                                  /\ handler'[h].hand = {}
                                  /\ handler[h].hand \subseteq cut'
    PROVE  Printer'
<1>1. \A h \in Handlers : \/ handler'[h] = handler[h] /\ ToPrint(h)' = ToPrint(h)
                          \/ ToPrint(h)' = {} /\ handler'[h].hand = {} /\ handler[h].hand \subseteq cut'
    BY DEF ToPrint
<1>2. \A h \in Handlers : ToPrint(h)' \subseteq ToPrint(h)
    BY <1>1
<1>3. \A h \in Handlers : \A x \in ToPrint(h)' : localOrder'[x] # "none"
  <2>1. \A h \in Handlers : ToPrint(h) \subseteq OfflineSales
      BY DEF ToPrint, TillSyncTypeOK, HandlerRow
  <2>2. QED BY <1>2, <2>1 DEF Printer
<1>4. \A h \in Handlers : /\ handler'[h].at \notin {"paper", "mark"} => handler'[h].hand = {}
                          /\ handler'[h].list \cap handler'[h].hand = {}
                          /\ \A x, y \in handler'[h].hand : x = y
    BY DEF Printer
<1>5. ASSUME NEW x \in OfflineSales \ cut'
      PROVE  /\ \A g, h \in Handlers : x \in ToPrint(g)' /\ x \in ToPrint(h)' => g = h
             /\ \A h \in Handlers : x \in ToPrint(h)' => receipt'[x] = "pending"
             /\ copies'[x] <= 1
             /\ receipt'[x] \in {"none", "pending"} =>
                   copies'[x] = 0 \/ \E h \in Handlers : x \in handler'[h].hand
  <2>1. x \in OfflineSales \ cut
      OBVIOUS
  <2>2. \A h \in Handlers : x \in handler[h].hand => x \in handler'[h].hand
      BY <1>1
  <2>3. QED BY <1>2, <2>1, <2>2 DEF Printer
<1>6. \A x \in OfflineSales : localOrder'[x] = "none" => receipt'[x] = "none"
    BY DEF Printer
<1>7. QED
    BY <1>3, <1>4, <1>5, <1>6 DEF Printer

\* What a handler has to print comes from its lists.
LEMMA ToPrintIsOffline == TillSyncTypeOK => \A h \in Handlers : ToPrint(h) \subseteq OfflineSales
BY DEF ToPrint, TillSyncTypeOK, HandlerRow

\* A handler begins with a receipt.
LEMMA PrintReceiptKeeps ==
    ASSUME TillSyncTypeOK, Printer, NEW h \in Handlers, NEW x \in OfflineSales,
           NEW way \in {"bluetooth", "window", "blocked"}, PrintReceipt(h, x, way)
    PROVE  Printer'
<1>1. handler[h] \in HandlerRow /\ handler[h].at = "print" /\ x \in handler[h].list /\ handler[h].hand = {}
    BY DEF PrintReceipt, TillSyncTypeOK, Printer
<1>2. /\ handler'[h].at \in {"paper", "mark"} /\ handler'[h].list = handler[h].list \ {x} /\ handler'[h].hand = {x}
      /\ \A g \in Handlers \ {h} : handler'[g] = handler[g]
    BY <1>1 DEF PrintReceipt, TillSyncTypeOK, HandlerRow
<1>3. \A g \in Handlers : ToPrint(g)' = ToPrint(g)
    BY <1>1, <1>2 DEF ToPrint
<1>4. x \in ToPrint(h)
    BY <1>1 DEF ToPrint
<1>5. UNCHANGED <<localOrder, receipt, cut>>
    BY DEF PrintReceipt
<1>6. \A g \in Handlers : /\ handler'[g].at \notin {"paper", "mark"} => handler'[g].hand = {}
                          /\ handler'[g].list \cap handler'[g].hand = {}
                          /\ \A y, z \in handler'[g].hand : y = z
    BY <1>2 DEF Printer
<1>7. ASSUME NEW y \in OfflineSales \ cut
      PROVE  /\ copies'[y] <= 1
             /\ receipt[y] \in {"none", "pending"} =>
                   copies'[y] = 0 \/ \E g \in Handlers : y \in handler'[g].hand
  <2>1. CASE y = x
    <3>1. receipt[x] = "pending" /\ \A g \in Handlers : x \in ToPrint(g) => g = h
        BY <1>4, <2>1 DEF Printer
    <3>2. \A g \in Handlers : x \notin handler[g].hand
      <4>1. ASSUME NEW g \in Handlers, x \in handler[g].hand PROVE FALSE
        <5>1. handler[g].at \in {"paper", "mark"}
            BY <4>1 DEF Printer
        <5>2. x \in ToPrint(g)
            BY <4>1, <5>1 DEF ToPrint
        <5>3. QED BY <1>1, <3>1, <4>1, <5>2
      <4>2. QED BY <4>1
    <3>3. copies[x] = 0
        BY <2>1, <3>1, <3>2 DEF Printer
    <3>4. copies'[x] \in {0, 1}
        BY <3>3 DEF PrintReceipt, Out, TillSyncTypeOK
    <3>5. QED BY <1>2, <2>1, <3>4
  <2>2. CASE y # x
    <3>1. copies'[y] = copies[y]
        BY <2>2 DEF PrintReceipt, Out, TillSyncTypeOK
    <3>2. \A g \in Handlers : y \in handler[g].hand => y \in handler'[g].hand
        BY <1>1, <1>2
    <3>3. QED BY <3>1, <3>2 DEF Printer
  <2>3. QED BY <2>1, <2>2
<1>8. QED
    BY <1>3, <1>5, <1>6, <1>7 DEF Printer

\* The Bluetooth printer is done with it, or lost.
LEMMA PaperEndsKeeps ==
    ASSUME TillSyncTypeOK, Printer, NEW h \in Handlers, NEW x \in OfflineSales,
           NEW way \in {"bluetooth", "window", "blocked"}, PaperEnds(h, x, way)
    PROVE  Printer'
<1>1. handler[h] \in HandlerRow /\ handler[h].at = "paper" /\ x \in handler[h].hand
    BY DEF PaperEnds, TillSyncTypeOK
<1>2. /\ handler'[h].at = "mark" /\ handler'[h].list = handler[h].list /\ handler'[h].hand = handler[h].hand
      /\ \A g \in Handlers \ {h} : handler'[g] = handler[g]
    BY <1>1 DEF PaperEnds, TillSyncTypeOK, HandlerRow
<1>3. \A g \in Handlers : ToPrint(g)' = ToPrint(g) /\ handler'[g].hand = handler[g].hand
    BY <1>1, <1>2 DEF ToPrint
<1>4. UNCHANGED <<localOrder, receipt>> /\ cut \subseteq cut'
    BY DEF PaperEnds
<1>5. \A g \in Handlers : /\ handler'[g].at \notin {"paper", "mark"} => handler'[g].hand = {}
                          /\ handler'[g].list \cap handler'[g].hand = {}
                          /\ \A y, z \in handler'[g].hand : y = z
    BY <1>2 DEF Printer
<1>6. \A y \in OfflineSales \ cut' : copies'[y] = copies[y]
    BY DEF PaperEnds, Out, TillSyncTypeOK
<1>7. QED
    BY <1>3, <1>4, <1>5, <1>6 DEF Printer

\* It is written that the receipt is printed, or that it is not.
LEMMA MarkReceiptKeeps ==
    ASSUME TillSyncTypeOK, Printer, NEW h \in Handlers, NEW x \in OfflineSales,
           NEW status \in {"printed", "failed"}, MarkReceipt(h, x, status)
    PROVE  Printer'
<1>1. handler[h] \in HandlerRow /\ handler[h].at = "mark" /\ handler[h].hand = {x} /\ x \notin handler[h].list
    BY DEF MarkReceipt, TillSyncTypeOK, Printer
<1>2. /\ handler'[h].hand = {} /\ handler'[h].at \in {"idle", "print"} /\ ToPrint(h)' = handler[h].list
      /\ \A g \in Handlers \ {h} : handler'[g] = handler[g]
  <2>1. CASE handler[h].list = {}
    <3>1. handler'[h] = Idle
        BY <2>1 DEF MarkReceipt, TillSyncTypeOK
    <3>2. QED BY <2>1, <3>1 DEF Idle, ToPrint, MarkReceipt, TillSyncTypeOK
  <2>2. CASE handler[h].list # {}
    <3>1. handler'[h] = [handler[h] EXCEPT !.at = "print", !.hand = {}]
        BY <2>2 DEF MarkReceipt, TillSyncTypeOK
    <3>2. handler'[h].at = "print" /\ handler'[h].hand = {} /\ handler'[h].list = handler[h].list
        BY <1>1, <3>1 DEF HandlerRow
    <3>3. QED BY <3>2 DEF ToPrint, MarkReceipt, TillSyncTypeOK
  <2>3. QED BY <2>1, <2>2
<1>3. \A g \in Handlers : ToPrint(g)' = ToPrint(g) \ (IF g = h THEN {x} ELSE {})
    BY <1>1, <1>2 DEF ToPrint
<1>4. UNCHANGED <<localOrder, copies, cut>> /\ receipt' = [receipt EXCEPT ![x] = status]
    BY DEF MarkReceipt
<1>5. x \in ToPrint(h) /\ localOrder[x] # "none"
    BY <1>1 DEF ToPrint, Printer
<1>6. \A g \in Handlers : /\ handler'[g].at \notin {"paper", "mark"} => handler'[g].hand = {}
                          /\ handler'[g].list \cap handler'[g].hand = {}
                          /\ \A y, z \in handler'[g].hand : y = z
    BY <1>2 DEF Printer
<1>7. \A y \in OfflineSales : localOrder'[y] = "none" => receipt'[y] = "none"
    BY <1>4, <1>5 DEF Printer, TillSyncTypeOK
<1>8. \A g \in Handlers : \A y \in ToPrint(g)' : localOrder'[y] # "none"
    BY <1>3, <1>4 DEF Printer
<1>9. ASSUME NEW y \in OfflineSales \ cut'
      PROVE  /\ \A g, k \in Handlers : y \in ToPrint(g)' /\ y \in ToPrint(k)' => g = k
             /\ \A g \in Handlers : y \in ToPrint(g)' => receipt'[y] = "pending"
             /\ copies'[y] <= 1
             /\ receipt'[y] \in {"none", "pending"} =>
                   copies'[y] = 0 \/ \E g \in Handlers : y \in handler'[g].hand
  <2>1. \A g, k \in Handlers : y \in ToPrint(g)' /\ y \in ToPrint(k)' => g = k
      BY <1>3, <1>4 DEF Printer
  <2>2. CASE y = x
    <3>1. \A g \in Handlers : x \notin ToPrint(g)'
        BY <1>3, <1>4, <1>5, <2>2 DEF Printer
    <3>2. receipt'[x] \notin {"none", "pending"}
        BY <1>4 DEF TillSyncTypeOK
    <3>3. QED BY <1>4, <2>1, <2>2, <3>1, <3>2 DEF Printer
  <2>3. CASE y # x
    <3>1. receipt'[y] = receipt[y]
        BY <1>4, <2>3 DEF TillSyncTypeOK
    <3>2. \A g \in Handlers : y \in handler[g].hand => y \in handler'[g].hand
        BY <1>1, <1>2, <2>3
    <3>3. QED BY <1>3, <1>4, <2>1, <3>1, <3>2 DEF Printer
  <2>4. QED BY <2>2, <2>3
<1>10. QED
    BY <1>6, <1>7, <1>8, <1>9 DEF Printer

\* A handler reads what is pending.
LEMMA ListReceiptsKeeps ==
    ASSUME TillSyncTypeOK, Printer, NEW h \in Handlers, ListReceipts(h)
    PROVE  Printer'
<1>1. handler[h].at = "count" /\ ToPrint(h) = {} /\ handler[h].hand = {}
    BY DEF ListReceipts, ToPrint, Printer
<1>2. /\ handler'[h].at \in {"idle", "print"} /\ handler'[h].hand = {} /\ ToPrint(h)' = Unprinted
      /\ \A g \in Handlers \ {h} : handler'[g] = handler[g]
  <2>1. CASE Unprinted = {}
    <3>1. handler'[h] = Idle
        BY <2>1 DEF ListReceipts, TillSyncTypeOK
    <3>2. QED BY <2>1, <3>1 DEF Idle, ToPrint, ListReceipts, TillSyncTypeOK
  <2>2. CASE Unprinted # {}
    <3>1. handler'[h] = [Idle EXCEPT !.at = "print", !.list = Unprinted]
        BY <2>2 DEF ListReceipts, TillSyncTypeOK
    <3>2. QED BY <3>1 DEF Idle, ToPrint, ListReceipts, TillSyncTypeOK
  <2>3. QED BY <2>1, <2>2
<1>3. \A g \in Handlers \ {h} : ToPrint(g)' = ToPrint(g)
    BY <1>2 DEF ToPrint
<1>4. /\ UNCHANGED <<localOrder, receipt, copies>> /\ cut \subseteq cut'
      /\ \A g \in Handlers : \A x \in Unprinted : x \in ToPrint(g) => x \in cut'
    BY DEF ListReceipts
<1>5. \A x \in Unprinted : receipt[x] = "pending" /\ localOrder[x] # "none" /\ x \in OfflineSales
    BY DEF Unprinted, Printer
<1>6. \A g \in Handlers : /\ handler'[g].at \notin {"paper", "mark"} => handler'[g].hand = {}
                          /\ handler'[g].list \cap handler'[g].hand = {}
                          /\ \A y, z \in handler'[g].hand : y = z
    BY <1>2 DEF Printer
<1>7. \A g \in Handlers : handler'[g].hand = handler[g].hand
    BY <1>1, <1>2
<1>8. \A g \in Handlers : \A y \in ToPrint(g)' : localOrder'[y] # "none"
    BY <1>2, <1>3, <1>4, <1>5 DEF Printer
<1>9. ASSUME NEW y \in OfflineSales \ cut'
      PROVE  /\ \A g, k \in Handlers : y \in ToPrint(g)' /\ y \in ToPrint(k)' => g = k
             /\ \A g \in Handlers : y \in ToPrint(g)' => receipt[y] = "pending"
  <2>1. y \in OfflineSales \ cut
      BY <1>4
  <2>2. \A g, k \in Handlers \ {h} : y \in ToPrint(g)' /\ y \in ToPrint(k)' => g = k
      BY <1>3, <2>1 DEF Printer
  <2>3. \A g \in Handlers \ {h} : y \in Unprinted => y \notin ToPrint(g)'
      BY <1>3, <1>4
  <2>4. \A g \in Handlers : y \in ToPrint(g)' => receipt[y] = "pending"
      BY <1>2, <1>3, <1>5, <2>1 DEF Printer
  <2>5. QED BY <1>2, <2>2, <2>3, <2>4
<1>10. QED
    BY <1>4, <1>6, <1>7, <1>8, <1>9 DEF Printer

LEMMA PrinterNext == TillSyncTypeOK /\ Printer /\ [TillSyncNext]_tillSyncVars => Printer'
<1> SUFFICES ASSUME TillSyncTypeOK, Printer, [TillSyncNext]_tillSyncVars PROVE Printer'
    OBVIOUS
<1>1. ASSUME NEW x \in OfflineSales, SaveLocally(x) PROVE Printer'
  <2>1. /\ localOrder[x] = "none" /\ receipt[x] = "none" /\ \A h \in Handlers : x \notin ToPrint(h)
      BY <1>1 DEF SaveLocally, Printer
  <2>2. /\ \A h \in Handlers : ToPrint(h)' = ToPrint(h)
        /\ \A y \in OfflineSales \ {x} : localOrder'[y] = localOrder[y] /\ receipt'[y] = receipt[y]
        /\ localOrder'[x] = "pending" /\ receipt'[x] \in {"none", "pending"}
        /\ UNCHANGED <<handler, copies, cut>>
      BY <1>1 DEF SaveLocally, ToPrint, TillSyncTypeOK
  <2>3. \A h \in Handlers : ToPrint(h) \subseteq OfflineSales
      BY ToPrintIsOffline
  <2>4. \A y \in OfflineSales : localOrder'[y] = "none" => receipt'[y] = "none"
      BY <2>2 DEF Printer
  <2>5. \A h \in Handlers : \A y \in ToPrint(h)' : localOrder'[y] # "none" /\ y # x
      BY <2>1, <2>2, <2>3 DEF Printer
  <2>6. ASSUME NEW y \in OfflineSales \ cut
        PROVE  /\ \A h \in Handlers : y \in ToPrint(h) => receipt'[y] = "pending"
               /\ receipt'[y] \in {"none", "pending"} =>
                     copies[y] = 0 \/ \E h \in Handlers : y \in handler[h].hand
    <3>1. CASE y = x
        BY <2>1, <3>1 DEF Printer
    <3>2. CASE y # x
        BY <2>2, <3>2 DEF Printer
    <3>3. QED BY <3>1, <3>2
  <2>7. QED BY <2>2, <2>4, <2>5, <2>6 DEF Printer
<1>2. ASSUME NEW h \in Handlers, GoOnline(h) PROVE Printer'
  <2>1. /\ handler[h].hand = {} /\ handler'[h].at \in {"idle", "send", "count"} /\ handler'[h].hand = {}
        /\ \A g \in Handlers \ {h} : handler'[g] = handler[g]
      BY <1>2 DEF GoOnline, Begin, Idle, TillSyncTypeOK
  <2>2. QED BY <1>2, <2>1, PrinterKept DEF GoOnline
<1>3. ASSUME NEW h \in Handlers, NEW isOffline \in BOOLEAN, LoadPage(h, isOffline) PROVE Printer'
  <2>1. \A g \in Handlers : /\ handler'[g].at \in {"idle", "send"} /\ handler'[g].hand = {}
                            /\ handler[g].hand \subseteq cut'
      BY <1>3 DEF LoadPage, Idle
  <2>2. QED BY <1>3, <2>1, PrinterKept DEF LoadPage
<1>4. ASSUME NEW h \in Handlers, SendBatch(h) \/ BatchFails(h) PROVE Printer'
  <2>1. handler[h].hand = {} /\ handler[h] \in HandlerRow
      BY <1>4 DEF SendBatch, BatchFails, Printer, TillSyncTypeOK
  <2>2. \A g \in Handlers \ {h} : handler'[g] = handler[g]
      BY <1>4 DEF SendBatch, BatchFails, TillSyncTypeOK
  <2>3. handler'[h].at \in {"idle", "send", "sent", "count"} /\ handler'[h].hand = {}
    <3>1. CASE SendBatch(h)
      <4>1. handler'[h] = [handler[h] EXCEPT !.at = "sent"]
          BY <3>1 DEF SendBatch, TillSyncTypeOK
      <4>2. QED BY <2>1, <4>1 DEF HandlerRow
    <3>2. CASE BatchFails(h) /\ handler[h].try + 1 < MaxTries
      <4>1. handler'[h] = [handler[h] EXCEPT !.at = "send", !.try = handler[h].try + 1]
          BY <2>1, <3>2 DEF BatchFails, TillSyncTypeOK, HandlerRow
      <4>2. QED BY <2>1, <4>1 DEF HandlerRow
    <3>3. CASE BatchFails(h) /\ ~(handler[h].try + 1 < MaxTries)
      <4>1. handler'[h] = AfterSync(h)
          BY <3>3 DEF BatchFails, TillSyncTypeOK
      <4>2. QED BY <4>1 DEF AfterSync, Idle
    <3>4. QED BY <1>4, <3>1, <3>2, <3>3
  <2>4. QED BY <1>4, <2>1, <2>2, <2>3, PrinterKept DEF SendBatch, BatchFails, GivenUp
<1>5. ASSUME NEW h \in Handlers, NEW ok \in SUBSET (handler[h].list \cap recorded), AnswerBatch(h, ok)
      PROVE  Printer'
  <2>1. handler[h].hand = {}
      BY <1>5 DEF AnswerBatch, Printer
  <2>3. /\ handler'[h].at \in {"idle", "count"} /\ handler'[h].hand = {}
        /\ \A g \in Handlers \ {h} : handler'[g] = handler[g]
      BY <1>5 DEF AnswerBatch, AfterSync, Idle, TillSyncTypeOK
  <2>2. \A x \in OfflineSales : localOrder'[x] = "none" => localOrder[x] = "none"
      BY <1>5 DEF AnswerBatch
  <2>4. QED BY <1>5, <2>1, <2>2, <2>3, PrinterKept DEF AnswerBatch
<1>6. ASSUME NEW h \in Handlers, MarkFails(h) PROVE Printer'
  <2>1. /\ handler'[h].at = "idle" /\ handler'[h].hand = {} /\ handler[h].hand \subseteq cut'
        /\ \A g \in Handlers \ {h} : handler'[g] = handler[g]
      BY <1>6 DEF MarkFails, Idle, TillSyncTypeOK
  <2>2. QED BY <1>6, <2>1, PrinterKept DEF MarkFails
<1>7. ASSUME NEW h \in Handlers, PrintStep(h) PROVE Printer'
    BY <1>6, <1>7, ListReceiptsKeeps, PrintReceiptKeeps, PaperEndsKeeps, MarkReceiptKeeps DEF PrintStep
<1>8. CASE UNCHANGED <<localOrder, receipt, handler, copies, cut>>
    BY <1>8 DEF Printer, ToPrint
<1>9. QED
    BY <1>1, <1>2, <1>3, <1>4, <1>5, <1>7, <1>8 DEF TillSyncNext, tillSyncVars, GoOffline, BackendRecords

-----------------------------------------------------------------------------
LEMMA PrinterIsCareful == Printer => PrintedOnce
BY DEF Printer, PrintedOnce

LEMMA QueueStaysKept ==
    TillSyncInit /\ [][TillSyncNext]_tillSyncVars => [](TillSyncTypeOK /\ QueueIsKept)
<1>1. TillSyncInit => SyncedIsRecorded
    BY DEF TillSyncInit, SyncedIsRecorded
<1>2. SyncedIsRecorded /\ Printer => QueueIsKept
    BY PrinterIsCareful DEF QueueIsKept
<1>3. QED
    BY <1>1, <1>2, QueueTypeInit, QueueTypeNext, SyncedNext, PrinterInit, PrinterNext, PTL

\* However handlers overlap, answers get lost and pages are loaded anew: no sale
\* leaves the queue before the backend has its order, and a receipt comes out twice
\* only when two handlers had it on their lists at a time or when its printing broke
\* off before it was marked (the printer lost, the page loaded anew, the write failed).
THEOREM NothingIsLost == TillSyncSpec => []QueueIsKept
BY QueueStaysKept, PTL DEF TillSyncSpec

\* The browser's rows and the handlers keep their shape.
THEOREM QueueTypeCorrect == TillSyncSpec => []TillSyncTypeOK
BY QueueTypeInit, QueueTypeNext, PTL DEF TillSyncSpec

-----------------------------------------------------------------------------
(* The member *)

LEMMA MemberTypeNext ==
    TillMemberTypeOK /\ [TillMemberNext]_tillMemberVars => TillMemberTypeOK'
<1> SUFFICES ASSUME TillMemberTypeOK, [TillMemberNext]_tillMemberVars PROVE TillMemberTypeOK'
    OBVIOUS
<1> USE DEF TillMemberTypeOK
<1>1. CASE \/ OpenLookup \/ TickRedeem \/ SearchAgain \/ SelectMember \/ CloseLookup
           \/ RemoveMember \/ MountSidebar
    BY <1>1 DEF OpenLookup, TickRedeem, SearchAgain, SelectMember, CloseLookup, RemoveMember,
                MountSidebar, Clear
<1>2. CASE Found \/ NotFound
    BY <1>2 DEF Found, NotFound
<1>3. CASE LoadTill
    BY <1>3 DEF LoadTill, Clear
<1>4. ASSUME NEW m \in Members \cup {Failing}, Search(m) PROVE TillMemberTypeOK'
    BY <1>4 DEF Search
<1>5. ASSUME NEW r \in PointCalls, ProcessPoints(r) \/ PointsProcessed(r) PROVE TillMemberTypeOK'
    BY <1>5 DEF ProcessPoints, PointsProcessed
<1>6. CASE UNCHANGED tillMemberVars
    BY <1>6 DEF tillMemberVars
<1>7. QED
    BY <1>1, <1>2, <1>3, <1>4, <1>5, <1>6 DEF TillMemberNext

LEMMA TotalFollowsNext ==
    TillMemberTypeOK /\ TotalFollowsRedeem /\ [TillMemberNext]_tillMemberVars => TotalFollowsRedeem'
<1> SUFFICES ASSUME TillMemberTypeOK, TotalFollowsRedeem, [TillMemberNext]_tillMemberVars
             PROVE  TotalFollowsRedeem'
    OBVIOUS
<1> USE DEF TillMemberTypeOK, TotalFollowsRedeem
<1>1. CASE OpenLookup \/ TickRedeem \/ SearchAgain \/ MountSidebar
    BY <1>1 DEF OpenLookup, TickRedeem, SearchAgain, MountSidebar
<1>2. CASE SelectMember
    BY <1>2 DEF SelectMember
<1>3. CASE CloseLookup \/ RemoveMember \/ LoadTill \/ NotFound
    BY <1>3 DEF CloseLookup, RemoveMember, LoadTill, NotFound, Clear
<1>4. CASE Found
    BY <1>4 DEF Found
<1>5. ASSUME NEW m \in Members \cup {Failing}, Search(m) PROVE TotalFollowsRedeem'
    BY <1>5 DEF Search
<1>6. ASSUME NEW r \in PointCalls, ProcessPoints(r) \/ PointsProcessed(r)
      PROVE  TotalFollowsRedeem'
    BY <1>6 DEF ProcessPoints, PointsProcessed
<1>7. CASE UNCHANGED tillMemberVars
    BY <1>7 DEF tillMemberVars
<1>8. QED
    BY <1>1, <1>2, <1>3, <1>4, <1>5, <1>6, <1>7 DEF TillMemberNext

\* What the customer is told is what the sale will redeem, through searches, removals
\* and sales, for any number of members and calls; unless since the member was chosen
\* the sidebar was mounted anew, or a lookup came back when no dialog waited for it.
THEOREM TheTotalIsRight == TillMemberSpec => [](TillMemberTypeOK /\ TotalFollowsRedeem)
<1>1. TillMemberInit => TillMemberTypeOK /\ TotalFollowsRedeem
    BY DEF TillMemberInit, TillMemberTypeOK, TotalFollowsRedeem
<1>2. QED
    BY <1>1, MemberTypeNext, TotalFollowsNext, PTL DEF TillMemberSpec

-----------------------------------------------------------------------------
(* The outlet and the shift *)

LEMMA CallUnderWay ==
    ASSUME TillShiftTypeOK, NEW r \in Asking
    PROVE  call[r] \in Call /\ r \in TillCalls
BY DEF TillShiftTypeOK, Asking

LEMMA NoCallIsNoCall == NoCall \notin Call
BY DEF NoCall, Call

LEMMA ShiftTypeInit == TillShiftInit => TillShiftTypeOK
<1> SUFFICES ASSUME TillShiftInit PROVE TillShiftTypeOK
    OBVIOUS
<1>1. call \in [TillCalls -> Call \cup {NoCall}]
    BY DEF TillShiftInit
<1>2. QED
    BY <1>1 DEF TillShiftInit, TillShiftTypeOK, NewVisit, Somewhere

LEMMA ShiftTypeNext == TillShiftTypeOK /\ [TillShiftNext]_tillShiftVars => TillShiftTypeOK'
<1> SUFFICES ASSUME TillShiftTypeOK, [TillShiftNext]_tillShiftVars PROVE TillShiftTypeOK'
    OBVIOUS
<1> USE DEF TillShiftTypeOK, Somewhere, pages, belief, requests
<1>1. ASSUME NEW page \in {"login", "mount"}, LoadTillPage(page), UNCHANGED shiftAt,
             savedAt' \in Somewhere, otherTab' \in BOOLEAN
      PROVE  TillShiftTypeOK'
    BY <1>1 DEF LoadTillPage, NewVisit
<1>2. CASE LogOut \/ OpenPage \/ SentAway
    BY <1>1, <1>2 DEF LogOut, OpenPage, SentAway
<1>3. CASE BackToLogin \/ ChangeOutlet
    BY <1>3 DEF BackToLogin, ChangeOutlet, Leave, NewVisit
<1>4. CASE LogIn \/ Elsewhere
  <2>1. mingled' \in BOOLEAN
    BY <1>4 DEF LogIn, Elsewhere
  <2>2. CASE LogIn
    BY <2>1, <2>2 DEF LogIn, NewVisit
  <2>3. CASE Elsewhere
    BY <2>1, <2>3 DEF Elsewhere
  <2>4. QED
    BY <1>4, <2>2, <2>3
<1>5. CASE OutletsGiven \/ OutletsRefused \/ TryAgain
    BY <1>5 DEF OutletsGiven, OutletsRefused, TryAgain
<1>6. CASE ConfirmSelection
    BY <1>6 DEF ConfirmSelection, NewVisit
<1>7. CASE Mount
  <2>1. otherTab' \in BOOLEAN
    BY <1>7 DEF Mount
  <2>2. outlet' \in Somewhere /\ place' \in {"outlets", "pos"}
    BY <1>7 DEF Mount
  <2>3. offer' \in [list: {"asked", "failed", "given"}, picked: Somewhere]
    BY <1>7 DEF Mount, NewVisit
  <2>4. checking' \in BOOLEAN /\ poll' \in {"none", "pending", "on", "leaked"}
    BY <1>7 DEF Mount
  <2>5. QED
    BY <1>7, <2>1, <2>2, <2>3, <2>4 DEF Mount
<1>8. ASSUME NEW o \in Outlets, SelectOutlet(o) PROVE TillShiftTypeOK'
    BY <1>8 DEF SelectOutlet
<1>9. ASSUME NEW o \in Somewhere, OtherTab(o) PROVE TillShiftTypeOK'
    BY <1>9 DEF OtherTab
<1>10. ASSUME NEW kind \in {"check", "open", "close"}, SendShift(kind)
       PROVE  call' \in [TillCalls -> Call \cup {NoCall}] /\ mingled' \in BOOLEAN
    BY <1>10 DEF SendShift, Call
<1>11. CASE CheckShift \/ OpenShift \/ CloseShift
    BY <1>10, <1>11 DEF CheckShift, OpenShift, CloseShift
<1>12. ASSUME NEW r \in TillCalls, r \in Asking, NEW answer \in {"yes", "no"}, ServeWith(r, answer)
       PROVE  call' \in [TillCalls -> Call \cup {NoCall}]
    BY <1>12, CallUnderWay DEF ServeWith, Call
<1>13. ASSUME NEW r \in TillCalls, ServeCheck(r) \/ ServeOpen(r) \/ ServeClose(r)
       PROVE  TillShiftTypeOK'
  <2>1. r \in Asking /\ call[r].outlet \in Somewhere
    BY <1>13, CallUnderWay DEF ServeCheck, ServeOpen, ServeClose, Unserved, Call
  <2>2. QED
    BY <1>12, <1>13, <2>1 DEF ServeCheck, ServeOpen, ServeClose
<1>14. ASSUME NEW r \in TillCalls, ShiftAnswered(r) \/ NotAnswered(r) PROVE TillShiftTypeOK'
  <2>1. call' \in [TillCalls -> Call \cup {NoCall}]
    BY <1>14 DEF ShiftAnswered, NotAnswered
  <2>2. r \in Asking /\ call[r] \in Call
    BY <1>14, CallUnderWay DEF ShiftAnswered, NotAnswered
  <2>3. Believe(call[r]) \in BOOLEAN /\ Settles(call[r]) \in BOOLEAN
    BY <2>2 DEF Believe, Settles, Call
  <2>4. believed' \in BOOLEAN /\ checking' \in BOOLEAN
    BY <1>14, <2>3 DEF ShiftAnswered, NotAnswered
  <2>5. disturbed' \in BOOLEAN /\ mingled' \in BOOLEAN
    BY <1>14, <2>3 DEF ShiftAnswered, NotAnswered
  <2>6. QED
    BY <1>14, <2>1, <2>4, <2>5 DEF ShiftAnswered, NotAnswered
<1>15. CASE UNCHANGED tillShiftVars
    BY <1>15 DEF tillShiftVars
<1>16. QED
    BY <1>2, <1>3, <1>4, <1>5, <1>6, <1>7, <1>8, <1>9, <1>11, <1>13, <1>14, <1>15
    DEF TillShiftNext

\* The outlet the till works for is the one that is kept, or another tab has
\* written.
OutletInv ==
    /\ outlet # NoOutlet => outlet = savedAt \/ otherTab
    /\ place = "pos" => outlet # NoOutlet

LEMMA OutletNext ==
    TillShiftTypeOK /\ OutletInv /\ [TillShiftNext]_tillShiftVars => OutletInv'
<1> SUFFICES ASSUME TillShiftTypeOK, OutletInv, [TillShiftNext]_tillShiftVars PROVE OutletInv'
    OBVIOUS
<1> USE DEF OutletInv, TillShiftTypeOK, pages, belief, requests
<1>1. CASE LogOut \/ OpenPage \/ SentAway
    BY <1>1 DEF LogOut, OpenPage, SentAway, LoadTillPage
<1>2. CASE BackToLogin \/ ChangeOutlet \/ LogIn \/ Elsewhere
    BY <1>2 DEF BackToLogin, ChangeOutlet, Leave, LogIn, Elsewhere
<1>3. CASE OutletsGiven \/ OutletsRefused \/ TryAgain \/ ConfirmSelection
    BY <1>3 DEF OutletsGiven, OutletsRefused, TryAgain, ConfirmSelection
<1>4. CASE Mount
    BY <1>4 DEF Mount
<1>5. ASSUME NEW o \in Outlets, SelectOutlet(o) PROVE OutletInv'
    BY <1>5 DEF SelectOutlet
<1>6. ASSUME NEW o \in Somewhere, OtherTab(o) PROVE OutletInv'
    BY <1>6 DEF OtherTab
<1>7. CASE CheckShift \/ OpenShift \/ CloseShift
    BY <1>7 DEF CheckShift, OpenShift, CloseShift
<1>8. ASSUME NEW r \in TillCalls, \/ ServeCheck(r) \/ ServeOpen(r) \/ ServeClose(r)
                                  \/ ShiftAnswered(r) \/ NotAnswered(r)
      PROVE  OutletInv'
    BY <1>8 DEF ServeCheck, ServeOpen, ServeClose, ShiftAnswered, NotAnswered
<1>9. CASE UNCHANGED tillShiftVars
    BY <1>9 DEF tillShiftVars
<1>10. QED
    BY <1>1, <1>2, <1>3, <1>4, <1>5, <1>6, <1>7, <1>8, <1>9 DEF TillShiftNext

\* What the belief rests on: while nobody disturbs it, it is the shift.
Rests == ~disturbed => (believed <=> shiftAt # NoOutlet)

\* What a request, alone under way, knows: what it found or did when it was served,
\* and before that, and when it did nothing, the belief still holds.
Knows(c) ==
    CASE c.answer = "none" -> Rests
      [] c.kind = "check" /\ c.answer # "none" -> (c.answer = "yes" <=> shiftAt # NoOutlet)
      [] c.kind # "check" /\ c.answer = "no" -> Rests
      [] c.kind = "open" /\ c.answer = "yes" -> shiftAt # NoOutlet
      [] c.kind = "close" /\ c.answer = "yes" -> shiftAt = NoOutlet

ShiftInv ==
    /\ Asking = {} => Rests
    /\ ~mingled => \A r \in Asking : Asking = {r} /\ Knows(call[r])
    /\ \A r \in Asking : call[r].kind = "open" => call[r].outlet # NoOutlet

LEMMA ShiftInvInit == TillShiftInit => ShiftInv
BY DEF TillShiftInit, ShiftInv, Asking, Rests

\* A request is sent when the others, if there are any, mark it.
LEMMA SentKnows ==
    ASSUME TillShiftTypeOK, ShiftInv, NEW kind \in {"check", "open", "close"}, SendShift(kind),
           UNCHANGED <<shiftAt, believed, disturbed>>, kind = "open" => outlet # NoOutlet
    PROVE  ShiftInv'
<1>1. PICK r \in TillCalls \ Asking :
         call' = [call EXCEPT ![r] = [kind |-> kind, answer |-> "none",
                                      outlet |-> IF kind = "open" THEN outlet ELSE NoOutlet]]
    BY DEF SendShift
<1>2. Asking' = Asking \cup {r} /\ \A q \in Asking : call'[q] = call[q]
    BY <1>1 DEF Asking, TillShiftTypeOK, NoCall
<1>3. call'[r].answer = "none" /\ call'[r].kind = kind
      /\ (kind = "open" => call'[r].outlet = outlet)
    BY <1>1 DEF TillShiftTypeOK
<1>4. mingled' = (Asking # {})
    BY DEF SendShift
<1>5. Rests' = Rests
    BY DEF Rests
<1>6. ~mingled' => Asking' = {r} /\ Knows(call[r])'
    BY <1>2, <1>3, <1>4, <1>5 DEF ShiftInv, Knows
<1>7. QED
    BY <1>2, <1>3, <1>6 DEF ShiftInv

\* A request is served: it alone knows what it did, or it was not alone.
LEMMA ServedKnows ==
    ASSUME TillShiftTypeOK, ShiftInv, NEW r \in Asking, NEW answer \in {"yes", "no"},
           ServeWith(r, answer), UNCHANGED mingled,
           ~mingled /\ Rests => Knows(call[r])',
           call[r].answer = "none"
    PROVE  ShiftInv'
<1>1. call[r] \in Call /\ r \in TillCalls
    BY CallUnderWay
<1>2. /\ Asking' = Asking /\ call'[r] = [call[r] EXCEPT !.answer = answer]
      /\ \A q \in Asking \ {r} : call'[q] = call[q]
    BY <1>1 DEF ServeWith, Asking, TillShiftTypeOK, NoCall, Call
<1>3. \A q \in Asking : call'[q].kind = call[q].kind /\ call'[q].outlet = call[q].outlet
    BY <1>1, <1>2 DEF Call
<1>4. ~mingled => Rests
    BY DEF ShiftInv, Knows
<1>5. ~mingled' => Asking' = {r} /\ Knows(call[r])'
    BY <1>2, <1>4 DEF ShiftInv
<1>6. QED
    BY <1>1, <1>2, <1>3, <1>5 DEF ShiftInv

LEMMA ShiftInvNext ==
    TillShiftTypeOK /\ OutletInv /\ ShiftInv /\ [TillShiftNext]_tillShiftVars => ShiftInv'
<1> SUFFICES ASSUME TillShiftTypeOK, OutletInv, ShiftInv, [TillShiftNext]_tillShiftVars
             PROVE  ShiftInv'
    OBVIOUS
<1> USE DEF pages, belief, requests
<1>1. ASSUME call' = [r \in TillCalls |-> NoCall], disturbed' = TRUE PROVE ShiftInv'
    BY <1>1 DEF ShiftInv, Asking, Rests
<1>2. CASE LogOut \/ OpenPage \/ SentAway
    BY <1>1, <1>2 DEF LogOut, OpenPage, SentAway, LoadTillPage
<1>3. ASSUME UNCHANGED call, disturbed' = TRUE, mingled' = (Asking # {}) PROVE ShiftInv'
  <2>1. Asking' = Asking /\ Rests'
    BY <1>3 DEF Asking, Rests
  <2>2. QED
    BY <1>3, <2>1 DEF ShiftInv
<1>4. CASE LogIn \/ Elsewhere
    BY <1>3, <1>4 DEF LogIn, Elsewhere
<1>5. ASSUME UNCHANGED <<shiftAt, believed, call, mingled, disturbed>> PROVE ShiftInv'
  <2>1. Asking' = Asking /\ Rests' = Rests
    BY <1>5 DEF Asking, Rests
  <2>2. QED
    BY <1>5, <2>1 DEF ShiftInv, Knows
<1>6. CASE OutletsGiven \/ OutletsRefused \/ TryAgain
    BY <1>5, <1>6 DEF OutletsGiven, OutletsRefused, TryAgain
<1>7. CASE ConfirmSelection \/ BackToLogin \/ ChangeOutlet \/ Mount
    BY <1>5, <1>7 DEF ConfirmSelection, BackToLogin, ChangeOutlet, Leave, Mount
<1>8. ASSUME NEW o \in Somewhere, OtherTab(o) \/ SelectOutlet(o) PROVE ShiftInv'
    BY <1>5, <1>8 DEF OtherTab, SelectOutlet
<1>9. CASE CheckShift
    BY <1>9, SentKnows DEF CheckShift
<1>10. CASE OpenShift
    BY <1>10, SentKnows DEF OpenShift
<1>11. CASE CloseShift
    BY <1>11, SentKnows DEF CloseShift
<1>12. ASSUME NEW r \in Asking, call[r].answer = "none", NEW answer \in {"yes", "no"},
              ServeWith(r, answer)
       PROVE  call'[r].answer = answer /\ call'[r].kind = call[r].kind
    BY <1>12, CallUnderWay DEF ServeWith, TillShiftTypeOK, Call
<1>13. ASSUME NEW r \in TillCalls, ServeCheck(r) PROVE ShiftInv'
  <2> DEFINE answer == IF shiftAt # NoOutlet THEN "yes" ELSE "no"
  <2>1. /\ r \in Asking /\ call[r].answer = "none" /\ call[r].kind = "check"
        /\ ServeWith(r, answer) /\ UNCHANGED <<shiftAt, mingled>>
    BY <1>13 DEF ServeCheck, Unserved
  <2>2. Knows(call[r])'
    BY <1>12, <2>1 DEF Knows
  <2>3. QED
    BY <2>1, <2>2, ServedKnows
<1>14. ASSUME NEW r \in TillCalls, ServeOpen(r) \/ ServeClose(r) PROVE ShiftInv'
  <2>1. /\ r \in Asking /\ call[r].answer = "none" /\ call[r].kind \in {"open", "close"}
        /\ UNCHANGED <<mingled, believed, disturbed>>
    BY <1>14 DEF ServeOpen, ServeClose, Unserved
  <2>2. CASE ServeWith(r, "no") /\ UNCHANGED shiftAt
    <3>1. ~mingled /\ Rests => Knows(call[r])'
      BY <1>12, <2>1, <2>2 DEF Knows, Rests
    <3>2. QED
      BY <2>1, <2>2, <3>1, ServedKnows
  <2>3. CASE /\ ServeWith(r, "yes")
             /\ \/ call[r].kind = "open" /\ shiftAt' = call[r].outlet
                \/ call[r].kind = "close" /\ shiftAt' = NoOutlet
    <3>1. Knows(call[r])'
      BY <1>12, <2>1, <2>3 DEF Knows, ShiftInv
    <3>2. QED
      BY <2>1, <2>3, <3>1, ServedKnows
  <2>4. QED
    BY <1>14, <2>2, <2>3 DEF ServeOpen, ServeClose, Unserved
<1>15. ASSUME NEW r \in TillCalls, r \in Asking, call' = [call EXCEPT ![r] = NoCall],
              mingled' = (mingled /\ Asking # {r}), ~mingled \/ Asking = {r} => Rests'
       PROVE  ShiftInv'
  <2>1. Asking' = Asking \ {r} /\ \A q \in Asking' : call'[q] = call[q]
    BY <1>15 DEF Asking, TillShiftTypeOK, NoCall
  <2>2. ~mingled => Asking = {r}
    BY <1>15 DEF ShiftInv
  <2>3. CASE Asking = {r}
    BY <1>15, <2>1, <2>3 DEF ShiftInv
  <2>4. CASE Asking # {r}
    BY <1>15, <2>1, <2>2, <2>4 DEF ShiftInv
  <2>5. QED
    BY <2>3, <2>4
<1>16. ASSUME NEW r \in TillCalls, ShiftAnswered(r) PROVE ShiftInv'
  <2> DEFINE c == call[r]
  <2>1. c \in Call /\ r \in Asking /\ c.answer # "none"
    BY <1>16, CallUnderWay DEF ShiftAnswered
  <2>2. /\ believed' = Believe(c) /\ shiftAt' = shiftAt
        /\ disturbed' = (mingled \/ (disturbed /\ ~Settles(c)))
    BY <1>16 DEF ShiftAnswered
  <2>3. CASE mingled
    <3>1. Rests'
      BY <2>2, <2>3 DEF Rests
    <3>2. QED
      BY <1>15, <1>16, <3>1 DEF ShiftAnswered
  <2>4. CASE ~mingled
    <3>1. Knows(c)
      BY <2>1, <2>4 DEF ShiftInv
    <3>2. ASSUME c.kind = "check" PROVE Rests'
      <4>1. believed' <=> c.answer = "yes"
        BY <2>2, <3>2 DEF Believe
      <4>2. c.answer = "yes" <=> shiftAt # NoOutlet
        BY <2>1, <3>1, <3>2 DEF Knows, Call
      <4>3. QED
        BY <2>2, <4>1, <4>2 DEF Rests
    <3>3. ASSUME c.kind # "check", c.answer = "yes" PROVE Rests'
      <4>1. believed' <=> c.kind = "open"
        BY <2>1, <2>2, <3>3 DEF Believe, Call
      <4>2. c.kind = "open" <=> shiftAt # NoOutlet
        BY <2>1, <3>1, <3>3 DEF Knows, Call
      <4>3. QED
        BY <2>2, <4>1, <4>2 DEF Rests
    <3>4. ASSUME c.kind # "check", c.answer = "no" PROVE Rests'
      <4>1. believed' <=> believed
        BY <2>1, <2>2, <3>4 DEF Believe, Call
      <4>2. ~Settles(c)
        BY <3>4 DEF Settles
      <4>3. disturbed' <=> disturbed
        BY <2>2, <2>4, <4>2
      <4>4. Rests
        BY <2>1, <3>1, <3>4 DEF Knows, Call
      <4>5. QED
        BY <2>2, <4>1, <4>3, <4>4 DEF Rests
    <3>5. Rests'
      BY <2>1, <3>2, <3>3, <3>4 DEF Call
    <3>6. QED
      BY <1>15, <1>16, <3>5 DEF ShiftAnswered
  <2>5. QED
    BY <2>3, <2>4 DEF TillShiftTypeOK
<1>17. ASSUME NEW r \in TillCalls, NotAnswered(r) PROVE ShiftInv'
  <2>1. Rests'
    BY <1>17 DEF NotAnswered, Rests
  <2>2. QED
    BY <1>15, <1>17, <2>1 DEF NotAnswered
<1>18. CASE UNCHANGED tillShiftVars
    BY <1>5, <1>18 DEF tillShiftVars
<1>19. QED
    BY <1>2, <1>4, <1>6, <1>7, <1>8, <1>9, <1>10, <1>11, <1>13, <1>14, <1>16, <1>17, <1>18
    DEF TillShiftNext, Somewhere

\* However checks, openings and closings overlap: a request that was answered and ran
\* alone tells the till whether its cashier has a shift, and the outlet it sells for is
\* the one a reload comes back to, for any number of requests and outlets.
THEOREM TheTillKnows == TillShiftSpec => [](TillShiftTypeOK /\ TillKnowsShift /\ OutletIsKept)
<1>1. TillShiftInit => OutletInv
    BY DEF TillShiftInit, OutletInv
<1>2. OutletInv => OutletIsKept
    BY DEF OutletInv, OutletIsKept
<1>3. ShiftInv => TillKnowsShift
    BY DEF ShiftInv, Rests, TillKnowsShift
<1>4. QED
    BY <1>1, <1>2, <1>3, ShiftTypeInit, ShiftTypeNext, OutletNext, ShiftInvInit, ShiftInvNext, PTL
    DEF TillShiftSpec

------------------------------------------------------------------------------
(* The service worker *)

FetchRow == [at: {"sent", "store"}, by: Versions, answer: 0..(MaxData + 1)]
LoadRow == [at: {"sent", "store"}, by: Versions, route: Routes, page: 0..MaxVersions]

\* One worker is on its way in at a time, and one answers or takes over.
OneNew == \A v, w \in Versions :
             In(v, {"installing", "waiting"}) /\ In(w, {"installing", "waiting"}) => v = w
OneOld == \A v, w \in Versions :
             In(v, {"activating", "active"}) /\ In(w, {"activating", "active"}) => v = w

\* The caches a worker has listed are those of the other builds, and it is the one
\* that takes over.
Listing ==
    /\ listed # {} => \E v \in Versions : In(v, {"activating"})
    /\ \A v \in Versions : In(v, {"activating"}) => \A n \in listed : n[2] # v

\* A build's shell from its install on, unless two workers met.
ShellKept ==
    \A v \in Versions \ workersCrowded :
       /\ In(v, {"installing", "waiting"}) => \A w \in Versions : ~In(w, {"activating"})
       /\ In(v, {"installing", "waiting", "activating", "active"}) => <<"app-shell", v>> \in names
       /\ In(v, {"waiting", "activating", "active"}) => \A r \in Routes : shell[v][r] \in v..deployed

\* A worker's build was deployed, and the page it is sent is of a build deployed since.
PagesKept ==
    /\ \A v \in Versions : ~In(v, {"none"}) => v <= deployed
    /\ \A l \in Loads : pageLoads[l] # NoFetch =>
          /\ In(pageLoads[l].by, {"active", "gone"})
          /\ pageLoads[l].at = "store" => pageLoads[l].page \in pageLoads[l].by..deployed

\* Who takes over only lets newer builds' caches stand.
OldOnesGo ==
    /\ \A v \in Versions : In(v, {"activating"}) /\ listed # {} => \A n \in names \ listed : n[2] >= v
    /\ OldCachesGo

\* The answers of a build before it answers, and while its requests keep apart.
AnswersKept ==
    /\ \A f \in Fetches : fetching[f] # NoFetch => In(fetching[f].by, {"active", "gone"})
    /\ \A v \in Versions : ~In(v, {"active", "gone"}) => answers[v] = 0 /\ heard[v] = 0
    /\ \A v \in Versions \ shellCrossed : In(v, {"active"}) =>
          /\ \A f, g \in Fetches :
                /\ fetching[f] # NoFetch /\ fetching[f].by = v
                /\ fetching[g] # NoFetch /\ fetching[g].by = v
                => f = g
          /\ \A f \in Fetches :
                fetching[f] # NoFetch /\ fetching[f].by = v =>
                   /\ <<"api-cache", v>> \in names
                   /\ fetching[f].at = "store" => fetching[f].answer = heard[v]
          /\ (\A f \in Fetches : ~(fetching[f].at = "store" /\ fetching[f].by = v))
                => answers[v] = heard[v]

CacheTypes ==
    /\ AppCacheTypeOK /\ fetching \in [Fetches -> {NoFetch} \cup FetchRow]
    /\ pageLoads \in [Loads -> {NoFetch} \cup LoadRow]

ShellInv == CacheTypes /\ OneNew /\ OneOld /\ Listing /\ ShellKept /\ PagesKept
CacheInv == ShellInv /\ OldOnesGo /\ AnswersKept

LEMMA CacheInvInit == AppCacheInit => CacheInv
<1> SUFFICES ASSUME AppCacheInit PROVE CacheInv
    OBVIOUS
<1>1. /\ 1 \in Versions /\ 1 \in 1..(MaxData + 1) /\ 0 \in 0..(MaxData + 1)
      /\ 0 \in 0..MaxVersions
    BY AppCacheAssumption DEF Versions
<1>2. CacheTypes
    BY <1>1 DEF AppCacheInit, CacheTypes, AppCacheTypeOK, NoPages
<1>3. OneNew /\ OneOld /\ Listing /\ ShellKept /\ PagesKept
    BY DEF AppCacheInit, OneNew, OneOld, Listing, ShellKept, PagesKept, In
<1>4. OldOnesGo /\ AnswersKept
    BY DEF AppCacheInit, OldOnesGo, AnswersKept, OldCachesGo, In, NoFetch
<1>5. QED
    BY <1>2, <1>3, <1>4 DEF CacheInv, ShellInv

LEMMA FetchUnderWay ==
    ASSUME CacheTypes, NEW f \in Fetches, fetching[f].at # "idle"
    PROVE  fetching[f] \in FetchRow
BY DEF CacheTypes, NoFetch

LEMMA LoadUnderWay ==
    ASSUME CacheTypes, NEW l \in Loads, pageLoads[l].at # "idle"
    PROVE  pageLoads[l] \in LoadRow
BY DEF CacheTypes, NoFetch

LEMMA CacheTypesNext == CacheTypes /\ [AppCacheNext]_cacheVars => CacheTypes'
<1> SUFFICES ASSUME CacheTypes, [AppCacheNext]_cacheVars PROVE CacheTypes'
    OBVIOUS
<1> USE DEF CacheTypes, AppCacheTypeOK
<1>1. CASE Deploy
  <2>1. deployed' \in Versions
    BY <1>1, AppCacheAssumption DEF Deploy, Versions
  <2>2. QED
    BY <1>1, <2>1 DEF Deploy
<1>2. CASE DataChange
    BY <1>2, AppCacheAssumption DEF DataChange
<1>3. ASSUME NEW v \in Versions, Install(v) PROVE CacheTypes'
    BY <1>3 DEF Install, Move, Kinds
<1>4. ASSUME NEW v \in Versions, AddShell(v) PROVE CacheTypes'
  <2>1. v..deployed \subseteq 0..MaxVersions /\ 0 \in 0..MaxVersions
    BY AppCacheAssumption DEF Versions
  <2>2. Added(v) \subseteq [Routes -> 0..MaxVersions] /\ NoPages \in [Routes -> 0..MaxVersions]
    BY <2>1 DEF Added, NoPages
  <2>3. shell' \in [Versions -> [Routes -> 0..MaxVersions]]
    BY <1>4, <2>2 DEF AddShell
  <2>4. QED
    BY <1>4, <2>3 DEF AddShell, Move
<1>5. ASSUME NEW v \in Versions, InstallFails(v) PROVE CacheTypes'
    BY <1>5 DEF InstallFails, Move
<1>6. ASSUME NEW v \in Versions, Activate(v) PROVE CacheTypes'
    BY <1>6 DEF Activate, In
<1>7. ASSUME NEW v \in Versions, ListCaches(v) PROVE CacheTypes'
    BY <1>7 DEF ListCaches, Foreign
<1>8. ASSUME NEW v \in Versions, TakeOver(v) PROVE CacheTypes'
  <2>1. 0 \in 0..(MaxData + 1)
    BY AppCacheAssumption
  <2>2. QED
    BY <1>8, <2>1, AppCacheAssumption DEF TakeOver, Move, NoPages
<1>9. ASSUME NEW f \in Fetches, NEW v \in Versions, Fetch(f, v) PROVE CacheTypes'
  <2>1. 0 \in 0..(MaxData + 1)
    BY AppCacheAssumption
  <2>2. QED
    BY <1>9, <2>1 DEF Fetch, FetchRow, Kinds
<1>10. ASSUME NEW f \in Fetches, NetworkAnswers(f) PROVE CacheTypes'
  <2>1. fetching[f] \in FetchRow
    BY <1>10, FetchUnderWay DEF NetworkAnswers
  <2>2. data \in 0..(MaxData + 1)
    BY AppCacheAssumption
  <2>3. QED
    BY <1>10, <2>1, <2>2 DEF NetworkAnswers, FetchRow
<1>11. ASSUME NEW f \in Fetches, NetworkFails(f) PROVE CacheTypes'
    BY <1>11 DEF NetworkFails
<1>12. ASSUME NEW f \in Fetches, StoreAnswer(f) PROVE CacheTypes'
  <2>1. fetching[f] \in FetchRow
    BY <1>12, FetchUnderWay DEF StoreAnswer
  <2>2. QED
    BY <1>12, <2>1 DEF StoreAnswer, FetchRow, Kept
<1>13. CASE UNCHANGED cacheVars
    BY <1>13 DEF cacheVars
<1>14. ASSUME NEW f \in Fetches, StoreFails(f) PROVE CacheTypes'
  <2>1. fetching[f] \in FetchRow
    BY <1>14, FetchUnderWay DEF StoreFails
  <2>2. QED
    BY <1>14, <2>1 DEF StoreFails, FetchRow
<1>15. ASSUME NEW l \in Loads, NEW v \in Versions, NEW r \in Routes, FetchPage(l, v, r)
       PROVE  CacheTypes'
  <2>1. [at |-> "sent", by |-> v, route |-> r, page |-> 0] \in LoadRow
    BY AppCacheAssumption DEF LoadRow
  <2>2. QED
    BY <1>15, <2>1 DEF FetchPage, LoadRow, Kinds
<1>16. ASSUME NEW l \in Loads, PageComes(l) PROVE CacheTypes'
  <2>1. pageLoads[l] \in LoadRow
    BY <1>16, LoadUnderWay DEF PageComes
  <2>2. deployed \in 0..MaxVersions
    BY AppCacheAssumption DEF Versions
  <2>3. [pageLoads[l] EXCEPT !.at = "store", !.page = deployed] \in LoadRow
    BY <2>1, <2>2 DEF LoadRow
  <2>4. pageLoads' = [pageLoads EXCEPT ![l] = [pageLoads[l] EXCEPT !.at = "store", !.page = deployed]]
    BY <1>16 DEF PageComes
  <2>5. pageLoads' \in [Loads -> {NoFetch} \cup LoadRow]
    BY <2>3, <2>4
  <2>6. QED
    BY <1>16, <2>5 DEF PageComes, LoadRow
<1>17. ASSUME NEW l \in Loads, PageFails(l) PROVE CacheTypes'
    BY <1>17 DEF PageFails
<1>18. ASSUME NEW l \in Loads, StorePage(l) PROVE CacheTypes'
  <2>1. pageLoads[l] \in LoadRow
    BY <1>18, LoadUnderWay DEF StorePage
  <2>2. shell' \in [Versions -> [Routes -> 0..MaxVersions]]
    BY <1>18, <2>1 DEF StorePage, LoadRow
  <2>3. QED
    BY <1>18, <2>2 DEF StorePage
<1>19. QED
    BY <1>1, <1>2, <1>3, <1>4, <1>5, <1>6, <1>7, <1>8, <1>9, <1>10, <1>11, <1>12, <1>13,
       <1>14, <1>15, <1>16, <1>17, <1>18
    DEF AppCacheNext

LEMMA ShellInvNext == ShellInv /\ [AppCacheNext]_cacheVars => ShellInv'
<1> SUFFICES ASSUME ShellInv, [AppCacheNext]_cacheVars PROVE ShellInv'
    OBVIOUS
<1>0. CacheTypes /\ CacheTypes'
    BY CacheTypesNext DEF ShellInv
<1>a. worker \in [Versions -> {"none", "installing", "waiting", "activating", "active", "gone"}]
    BY <1>0 DEF CacheTypes, AppCacheTypeOK
<1>b. /\ shell \in [Versions -> [Routes -> 0..MaxVersions]] /\ workersCrowded \subseteq Versions
      /\ pageLoads \in [Loads -> {NoFetch} \cup LoadRow]
      /\ deployed \in Versions
    BY <1>0 DEF CacheTypes, AppCacheTypeOK
<1>d. Versions \subseteq Nat /\ 0..MaxVersions \subseteq Nat /\ deployed \in Nat
    BY <1>b, AppCacheAssumption DEF Versions
<1>c. \A l \in Loads : pageLoads[l] # NoFetch =>
         pageLoads[l].by \in Versions /\ pageLoads[l].page \in Nat
    BY <1>b, <1>d DEF LoadRow
<1> DEFINE Rest == OneNew' /\ OneOld' /\ Listing' /\ ShellKept' /\ PagesKept'
<1> USE DEF ShellInv, OneNew, OneOld, Listing, ShellKept, PagesKept, In, Move
<1>1. ASSUME UNCHANGED <<worker, shell, listed, workersCrowded, pageLoads>>, names \subseteq names',
             deployed' \in Nat, deployed <= deployed'
      PROVE  Rest
  <2>1. \A w \in Versions : w..deployed \subseteq w..deployed'
    BY <1>1, <1>b, <1>d
  <2>2. OneNew' /\ OneOld' /\ Listing'
    BY <1>1
  <2>3. ShellKept'
    BY <1>1, <2>1
  <2>4. PagesKept'
    BY <1>1, <1>b, <1>d, <1>c, <2>1
  <2>5. QED
    BY <2>2, <2>3, <2>4
<1>2. ASSUME NEW v \in Versions, Install(v) PROVE Rest
  <2>1. /\ v = deployed /\ worker' = [worker EXCEPT ![v] = "installing"] /\ worker[v] = "none"
        /\ \A w \in Versions : worker[w] \notin {"installing", "waiting"}
        /\ names' = names \cup {<<"app-shell", v>>}
        /\ workersCrowded' = IF \E w \in Versions : worker[w] = "activating"
                             THEN workersCrowded \cup {v} ELSE workersCrowded
        /\ UNCHANGED <<shell, listed, pageLoads, deployed>>
    BY <1>2 DEF Install
  <2>2. OneNew' /\ OneOld' /\ Listing'
    BY <1>a, <2>1
  <2>3. ShellKept'
    BY <1>a, <1>b, <1>d, <2>1
  <2>4. PagesKept'
    BY <1>a, <1>b, <1>d, <1>c, <2>1
  <2>5. QED
    BY <2>2, <2>3, <2>4
<1>3. ASSUME NEW v \in Versions, AddShell(v) PROVE Rest
  <2>1. /\ worker[v] = "installing" /\ worker' = [worker EXCEPT ![v] = "waiting"]
        /\ UNCHANGED <<names, listed, pageLoads, deployed, workersCrowded>>
        /\ \A w \in Versions \ {v} : shell'[w] = shell[w]
        /\ <<"app-shell", v>> \in names => \A r \in Routes : shell'[v][r] \in v..deployed
    BY <1>3, <1>b, <1>d DEF AddShell, Added
  <2>2. OneNew' /\ OneOld' /\ Listing'
    BY <1>a, <2>1
  <2>3. ShellKept'
    BY <1>a, <2>1
  <2>4. PagesKept'
    BY <1>a, <1>b, <1>d, <1>c, <2>1
  <2>5. QED
    BY <2>2, <2>3, <2>4
<1>4. ASSUME NEW v \in Versions, InstallFails(v) PROVE Rest
    BY <1>4, <1>a, <1>b, <1>d, <1>c DEF InstallFails
<1>5. ASSUME NEW v \in Versions, Activate(v) PROVE Rest
  <2>1. worker' = [w \in Versions |-> IF w = v THEN "activating"
                                      ELSE IF worker[w] = "active" THEN "gone" ELSE worker[w]]
    BY <1>5 DEF Activate
  <2>2. /\ worker[v] = "waiting" /\ \A w \in Versions : worker[w] # "activating"
        /\ UNCHANGED <<names, shell, listed, workersCrowded, pageLoads, deployed>>
    BY <1>5 DEF Activate
  <2>3. OneNew' /\ OneOld'
    BY <2>1, <2>2
  <2>4. Listing'
    BY <2>1, <2>2
  <2>5. ShellKept'
    BY <2>1, <2>2
  <2>6. PagesKept'
    BY <1>c, <2>1, <2>2
  <2>7. QED
    BY <2>3, <2>4, <2>5, <2>6
<1>6. ASSUME NEW v \in Versions, ListCaches(v) PROVE Rest
    BY <1>6 DEF ListCaches, Foreign
<1>7. ASSUME NEW v \in Versions, TakeOver(v) PROVE Rest
  <2>1. worker[v] = "activating" /\ worker' = [worker EXCEPT ![v] = "active"]
    BY <1>7 DEF TakeOver
  <2>2. \A w \in Versions \ {v} : worker[w] \notin {"activating", "active"}
    BY <2>1
  <2>3. /\ names' = names \ listed /\ listed' = {}
        /\ UNCHANGED <<workersCrowded, pageLoads, deployed>>
        /\ \A w \in Versions : <<"app-shell", w>> \in names' => shell'[w] = shell[w]
    BY <1>7 DEF TakeOver
  <2>4. <<"app-shell", v>> \in names => <<"app-shell", v>> \in names'
    BY <2>1, <2>3
  <2>5. \A w \in Versions \ workersCrowded : worker[w] \notin {"installing", "waiting"}
    BY <2>1
  <2>6. OneNew' /\ OneOld' /\ Listing'
    BY <1>a, <2>1, <2>2, <2>3
  <2>7. ShellKept'
    BY <1>a, <2>1, <2>2, <2>3, <2>4, <2>5
  <2>8. PagesKept'
    BY <1>a, <1>c, <2>1, <2>3
  <2>9. QED
    BY <2>6, <2>7, <2>8
<1>8. ASSUME NEW f \in Fetches, NEW v \in Versions, Fetch(f, v) PROVE Rest
  <2>1. /\ UNCHANGED <<worker, shell, listed, workersCrowded, pageLoads, deployed>>
        /\ names \subseteq names'
    BY <1>8 DEF Fetch
  <2>2. QED
    BY <1>1, <1>b, <1>d, <2>1
<1>9. ASSUME NEW f \in Fetches,
             NetworkAnswers(f) \/ NetworkFails(f) \/ StoreAnswer(f) \/ StoreFails(f)
      PROVE  Rest
  <2>1. UNCHANGED <<worker, shell, listed, workersCrowded, pageLoads, deployed, names>>
    BY <1>9 DEF NetworkAnswers, NetworkFails, StoreAnswer, StoreFails
  <2>2. QED
    BY <1>1, <1>b, <1>d, <2>1
<1>10. ASSUME Deploy \/ DataChange \/ UNCHANGED cacheVars PROVE Rest
  <2>1. /\ UNCHANGED <<worker, shell, listed, workersCrowded, names, pageLoads>>
        /\ deployed' \in {deployed, deployed + 1}
    BY <1>10 DEF Deploy, DataChange, cacheVars
  <2>2. deployed' \in Nat /\ deployed <= deployed'
    BY <1>b, <1>d, <2>1
  <2>3. QED
    BY <1>1, <2>1, <2>2
<1>11. ASSUME NEW l \in Loads, NEW v \in Versions, NEW r \in Routes, FetchPage(l, v, r) PROVE Rest
  <2>1. /\ worker[v] = "active" /\ names \subseteq names'
        /\ pageLoads' = [pageLoads EXCEPT ![l] = [at |-> "sent", by |-> v, route |-> r, page |-> 0]]
        /\ UNCHANGED <<worker, shell, listed, workersCrowded, deployed>>
    BY <1>11 DEF FetchPage
  <2>2. pageLoads'[l].at = "sent" /\ pageLoads'[l].by = v
    BY <1>b, <1>d, <2>1
  <2>3. \A k \in Loads \ {l} : pageLoads'[k] = pageLoads[k]
    BY <1>b, <1>d, <2>1
  <2>4. OneNew' /\ OneOld' /\ Listing' /\ ShellKept'
    BY <2>1
  <2>5. PagesKept'
    BY <2>1, <2>2, <2>3
  <2>6. QED
    BY <2>4, <2>5
<1>12. ASSUME NEW l \in Loads, PageComes(l) PROVE Rest
  <2>1. pageLoads[l] \in LoadRow /\ pageLoads[l] # NoFetch
    BY <1>0, <1>12, LoadUnderWay DEF PageComes, NoFetch
  <2>2. /\ pageLoads' = [pageLoads EXCEPT ![l] = [pageLoads[l] EXCEPT !.at = "store", !.page = deployed]]
        /\ UNCHANGED <<worker, shell, listed, workersCrowded, deployed, names>>
    BY <1>12 DEF PageComes
  <2>3. pageLoads'[l].by = pageLoads[l].by /\ pageLoads'[l].page = deployed
    BY <1>b, <1>d, <2>1, <2>2 DEF LoadRow
  <2>4. \A k \in Loads \ {l} : pageLoads'[k] = pageLoads[k]
    BY <1>b, <1>d, <2>2
  <2>5. /\ pageLoads[l].by \in Versions /\ worker[pageLoads[l].by] \in {"active", "gone"}
    BY <1>c, <2>1
  <2>6. pageLoads[l].by <= deployed /\ pageLoads[l].by \in Nat /\ deployed \in Nat
    BY <1>d, <2>5
  <2>7. deployed \in pageLoads[l].by..deployed
    BY <2>6
  <2>8. OneNew' /\ OneOld' /\ Listing' /\ ShellKept'
    BY <2>2
  <2>9. PagesKept'
    BY <2>2, <2>3, <2>4, <2>5, <2>7
  <2>10. QED
    BY <2>8, <2>9
<1>13. ASSUME NEW l \in Loads, PageFails(l) PROVE Rest
  <2>1. /\ \A k \in Loads : pageLoads'[k] # NoFetch => pageLoads'[k] = pageLoads[k]
        /\ UNCHANGED <<worker, shell, listed, workersCrowded, deployed, names>>
    BY <1>13, <1>b, <1>d DEF PageFails
  <2>2. QED
    BY <2>1
<1>14. ASSUME NEW l \in Loads, StorePage(l) PROVE Rest
  <2> DEFINE v == pageLoads[l].by
  <2>1. pageLoads[l] \in LoadRow /\ pageLoads[l] # NoFetch /\ pageLoads[l].at = "store"
    BY <1>0, <1>14, LoadUnderWay DEF StorePage, NoFetch
  <2>2. /\ \A k \in Loads : pageLoads'[k] # NoFetch => pageLoads'[k] = pageLoads[k]
        /\ UNCHANGED <<worker, listed, workersCrowded, deployed, names>>
    BY <1>14, <1>b, <1>d DEF StorePage
  <2>3. v \in Versions /\ pageLoads[l].route \in Routes /\ pageLoads[l].page \in v..deployed
    BY <2>1 DEF LoadRow
  <2>4. \A w \in Versions, r \in Routes :
           shell'[w][r] = shell[w][r] \/ (w = v /\ shell'[w][r] \in v..deployed)
    BY <1>14, <1>b, <1>d, <2>3 DEF StorePage
  <2> HIDE DEF v
  <2>5. OneNew' /\ OneOld' /\ Listing'
    BY <2>2
  <2>6. ShellKept'
    BY <2>2, <2>4
  <2>7. PagesKept'
    BY <2>2
  <2>8. QED
    BY <2>5, <2>6, <2>7
<1>15. Rest
    BY <1>2, <1>3, <1>4, <1>5, <1>6, <1>7, <1>8, <1>9, <1>10, <1>11, <1>12, <1>13, <1>14
    DEF AppCacheNext
<1>16. QED
    BY <1>0, <1>15

LEMMA OldOnesGoNext == CacheInv /\ [AppCacheNext]_cacheVars => OldOnesGo'
<1> SUFFICES ASSUME CacheInv, [AppCacheNext]_cacheVars PROVE OldOnesGo'
    OBVIOUS
<1>0. CacheTypes /\ ShellInv
    BY DEF CacheInv, ShellInv
<1>a. worker \in [Versions -> {"none", "installing", "waiting", "activating", "active", "gone"}]
    BY <1>0 DEF CacheTypes, AppCacheTypeOK
<1>b. deployed \in Nat /\ Versions \subseteq Nat /\ names \subseteq Kinds \X Versions
    BY <1>0 DEF CacheTypes, AppCacheTypeOK, Versions
<1>c. \A n \in names : n[2] \in Versions
    BY <1>b
<1>d. \A v \in Versions : worker[v] # "none" => v <= deployed
    BY <1>0, <1>a DEF ShellInv, PagesKept, In
<1> USE DEF CacheInv, OldOnesGo, OldCachesGo, In, Move
<1>1. ASSUME UNCHANGED <<worker, listed, names>>, deployed' \in Nat, deployed <= deployed'
      PROVE  OldOnesGo'
    BY <1>1, <1>b
<1>2. ASSUME NEW v \in Versions, Install(v) PROVE OldOnesGo'
  <2>1. /\ v = deployed /\ worker' = [worker EXCEPT ![v] = "installing"] /\ worker[v] = "none"
        /\ names' = names \cup {<<"app-shell", v>>} /\ listed' = listed /\ deployed' = deployed
    BY <1>2 DEF Install
  <2>2. \A n \in names' : n \in names \/ n[2] = v
    BY <2>1
  <2>3. QED
    BY <1>a, <1>b, <1>c, <1>d, <2>1, <2>2
<1>3. ASSUME NEW v \in Versions, AddShell(v) PROVE OldOnesGo'
    BY <1>3, <1>a DEF AddShell
<1>4. ASSUME NEW v \in Versions, InstallFails(v) PROVE OldOnesGo'
    BY <1>4, <1>a DEF InstallFails
<1>5. ASSUME NEW v \in Versions, Activate(v) PROVE OldOnesGo'
  <2>1. worker' = [w \in Versions |-> IF w = v THEN "activating"
                                      ELSE IF worker[w] = "active" THEN "gone" ELSE worker[w]]
    BY <1>5 DEF Activate
  <2>2. /\ worker[v] = "waiting" /\ \A w \in Versions : worker[w] # "activating"
        /\ UNCHANGED <<names, listed, deployed>>
    BY <1>5 DEF Activate
  <2>3. listed = {}
    BY <1>0, <2>2 DEF ShellInv, Listing
  <2>4. QED
    BY <2>1, <2>2, <2>3
<1>6. ASSUME NEW v \in Versions, ListCaches(v) PROVE OldOnesGo'
  <2>1. /\ listed' = {n \in names : n[2] # v} /\ UNCHANGED <<names, worker, deployed>>
        /\ worker[v] = "activating"
    BY <1>6 DEF ListCaches, Foreign
  <2>2. \A w \in Versions : worker[w] = "activating" => w = v
    BY <1>0, <2>1 DEF ShellInv, OneOld
  <2>3. \A n \in names \ listed' : n[2] = v
    BY <2>1
  <2>4. QED
    BY <1>b, <2>1, <2>2, <2>3
<1>7. ASSUME NEW v \in Versions, TakeOver(v) PROVE OldOnesGo'
  <2>1. /\ worker[v] = "activating" /\ worker' = [worker EXCEPT ![v] = "active"]
        /\ names' = names \ listed /\ deployed' = deployed
        /\ listed # {} \/ {n \in names : n[2] # v} = {}
    BY <1>7 DEF TakeOver, Foreign
  <2>2. \A w \in Versions \ {v} : worker[w] \notin {"activating", "active"}
    BY <1>0, <2>1 DEF ShellInv, OneOld
  <2>3. \A n \in names' : n[2] >= v
    BY <1>b, <2>1
  <2>4. QED
    BY <1>a, <2>1, <2>2, <2>3
<1>8. ASSUME NEW f \in Fetches, NEW v \in Versions, Fetch(f, v) PROVE OldOnesGo'
  <2>1. /\ worker[v] = "active" /\ names' = names \cup {<<"api-cache", v>>}
        /\ UNCHANGED <<worker, listed, deployed>>
    BY <1>8 DEF Fetch
  <2>2. \A w \in Versions \ {v} : worker[w] \notin {"activating", "active"}
    BY <1>0, <2>1 DEF ShellInv, OneOld
  <2>3. \A n \in names' : n \in names \/ n[2] = v
    BY <2>1
  <2>4. QED
    BY <1>b, <2>1, <2>2, <2>3
<1>9. ASSUME NEW f \in Fetches,
             NetworkAnswers(f) \/ NetworkFails(f) \/ StoreAnswer(f) \/ StoreFails(f)
      PROVE  OldOnesGo'
    BY <1>1, <1>9, <1>b DEF NetworkAnswers, NetworkFails, StoreAnswer, StoreFails
<1>10. CASE Deploy \/ DataChange \/ UNCHANGED cacheVars
    BY <1>1, <1>10, <1>b DEF Deploy, DataChange, cacheVars
<1>11. ASSUME NEW l \in Loads, NEW v \in Versions, NEW r \in Routes, FetchPage(l, v, r)
       PROVE  OldOnesGo'
  <2>1. /\ worker[v] = "active" /\ names' = names \cup {<<"app-shell", v>>}
        /\ UNCHANGED <<worker, listed, deployed>>
    BY <1>11 DEF FetchPage
  <2>2. \A w \in Versions \ {v} : worker[w] \notin {"activating", "active"}
    BY <1>0, <2>1 DEF ShellInv, OneOld
  <2>3. \A n \in names' : n \in names \/ n[2] = v
    BY <2>1
  <2>4. QED
    BY <1>b, <2>1, <2>2, <2>3
<1>12. ASSUME NEW l \in Loads, PageComes(l) \/ PageFails(l) \/ StorePage(l) PROVE OldOnesGo'
    BY <1>1, <1>12, <1>b DEF PageComes, PageFails, StorePage
<1>13. QED
    BY <1>2, <1>3, <1>4, <1>5, <1>6, <1>7, <1>8, <1>9, <1>10, <1>11, <1>12 DEF AppCacheNext


LEMMA AnswersKeptNext == CacheInv /\ [AppCacheNext]_cacheVars => AnswersKept'
<1> SUFFICES ASSUME CacheInv, [AppCacheNext]_cacheVars PROVE AnswersKept'
    OBVIOUS
<1>0. CacheTypes /\ CacheTypes' /\ ShellInv
    BY CacheTypesNext DEF CacheInv, ShellInv
<1>a. /\ worker \in [Versions -> {"none", "installing", "waiting", "activating", "active", "gone"}]
      /\ fetching \in [Fetches -> {NoFetch} \cup FetchRow]
      /\ answers \in [Versions -> 0..(MaxData + 1)] /\ heard \in [Versions -> 0..(MaxData + 1)]
      /\ shellCrossed \subseteq Versions
    BY <1>0 DEF CacheTypes, AppCacheTypeOK
<1> USE DEF CacheInv, AnswersKept, In, Move
<1>1. ASSUME UNCHANGED <<fetching, heard, shellCrossed, answers>>, names \subseteq names',
             \A v \in Versions : worker'[v] = "active" => worker[v] = "active",
             \A v \in Versions :
                 worker'[v] \notin {"active", "gone"} <=> worker[v] \notin {"active", "gone"}
      PROVE  AnswersKept'
  <2>1. \A f \in Fetches : fetching[f] # NoFetch => fetching[f].by \in Versions
    BY <1>a DEF FetchRow
  <2>2. QED
    BY <1>1, <2>1
<1>2. ASSUME NEW v \in Versions, Install(v) \/ AddShell(v) \/ InstallFails(v) PROVE AnswersKept'
  <2>1. /\ worker[v] \in {"none", "installing"} /\ names \subseteq names'
        /\ UNCHANGED <<fetching, heard, shellCrossed, answers>>
        /\ \E state \in {"installing", "waiting", "none"} : worker' = [worker EXCEPT ![v] = state]
    BY <1>2 DEF Install, AddShell, InstallFails
  <2>2. QED
    BY <1>1, <1>a, <2>1
<1>3. ASSUME NEW v \in Versions, Activate(v) PROVE AnswersKept'
  <2>1. worker' = [w \in Versions |-> IF w = v THEN "activating"
                                      ELSE IF worker[w] = "active" THEN "gone" ELSE worker[w]]
    BY <1>3 DEF Activate
  <2>2. worker[v] = "waiting" /\ UNCHANGED <<names, fetching, heard, shellCrossed, answers>>
    BY <1>3 DEF Activate
  <2>3. QED
    BY <1>1, <2>1, <2>2
<1>4. ASSUME NEW v \in Versions, ListCaches(v) PROVE AnswersKept'
    BY <1>1, <1>4 DEF ListCaches
<1>5. ASSUME NEW v \in Versions, TakeOver(v) PROVE AnswersKept'
  <2>1. /\ worker[v] = "activating" /\ worker' = [worker EXCEPT ![v] = "active"]
        /\ UNCHANGED <<fetching, heard, shellCrossed>>
        /\ \A w \in Versions : answers'[w] \in {0, answers[w]}
    BY <1>5 DEF TakeOver
  <2>2. \A w \in Versions \ {v} : worker[w] \notin {"activating", "active"}
    BY <1>0, <2>1 DEF ShellInv, OneOld
  <2>3. answers[v] = 0 /\ heard[v] = 0 /\ answers'[v] = 0 /\ heard'[v] = 0
    BY <2>1
  <2>4. \A f \in Fetches : fetching[f] # NoFetch => fetching[f].by # v
    BY <2>1
  <2>5. \A f \in Fetches : fetching[f].at = "store" => fetching[f] # NoFetch
    BY DEF NoFetch
  <2>6. \A w \in Versions : worker'[w] = "active" => w = v
    BY <1>a, <2>1, <2>2
  <2>7. \A w \in Versions : worker'[w] \notin {"active", "gone"} =>
                               answers[w] = 0 /\ heard[w] = 0 /\ answers'[w] = 0 /\ heard'[w] = 0
    BY <1>a, <2>1
  <2>8. \A f \in Fetches : fetching'[f] # NoFetch => worker'[fetching'[f].by] \in {"active", "gone"}
    BY <1>a, <2>1 DEF FetchRow
  <2>9. \A w \in Versions \ shellCrossed : worker'[w] = "active" =>
          /\ \A f, g \in Fetches :
                /\ fetching[f] # NoFetch /\ fetching[f].by = w
                /\ fetching[g] # NoFetch /\ fetching[g].by = w
                => f = g
          /\ \A f \in Fetches :
                fetching[f] # NoFetch /\ fetching[f].by = w =>
                   /\ <<"api-cache", w>> \in names'
                   /\ fetching[f].at = "store" => fetching[f].answer = heard[w]
          /\ answers'[w] = heard[w]
    BY <2>1, <2>3, <2>4, <2>6
  <2>10. QED
    BY <2>1, <2>7, <2>8, <2>9
<1>6. ASSUME NEW f \in Fetches, NEW v \in Versions, Fetch(f, v) PROVE AnswersKept'
  <2>1. /\ fetching[f] = NoFetch /\ worker[v] = "active"
        /\ fetching' = [fetching EXCEPT ![f] = [at |-> "sent", by |-> v, answer |-> 0]]
        /\ names' = names \cup {<<"api-cache", v>>} /\ UNCHANGED <<worker, heard, answers>>
        /\ shellCrossed \subseteq shellCrossed'
        /\ v \notin shellCrossed' => \A g \in Fetches : fetching[g] = NoFetch
    BY <1>6 DEF Fetch
  <2>2. fetching'[f] = [at |-> "sent", by |-> v, answer |-> 0]
    BY <1>a, <2>1
  <2>3. fetching'[f].at = "sent" /\ fetching'[f].by = v
    BY <2>2
  <2>4. \A g \in Fetches \ {f} : fetching'[g] = fetching[g]
    BY <1>a, <2>1
  <2>5. fetching[f].at # "store"
    BY <2>1 DEF NoFetch
  <2>6. \A g \in Fetches : fetching'[g] # NoFetch => worker'[fetching'[g].by] \in {"active", "gone"}
    BY <2>1, <2>3, <2>4
  <2>7. \A w \in Versions \ shellCrossed' : worker'[w] = "active" =>
          /\ \A g, h \in Fetches :
                /\ fetching'[g] # NoFetch /\ fetching'[g].by = w
                /\ fetching'[h] # NoFetch /\ fetching'[h].by = w
                => g = h
          /\ \A g \in Fetches :
                fetching'[g] # NoFetch /\ fetching'[g].by = w =>
                   /\ <<"api-cache", w>> \in names'
                   /\ fetching'[g].at = "store" => fetching'[g].answer = heard'[w]
          /\ (\A g \in Fetches : ~(fetching'[g].at = "store" /\ fetching'[g].by = w))
                => answers'[w] = heard'[w]
    <3> SUFFICES ASSUME NEW w \in Versions \ shellCrossed', worker[w] = "active"
                 PROVE  /\ \A g, h \in Fetches :
                              /\ fetching'[g] # NoFetch /\ fetching'[g].by = w
                              /\ fetching'[h] # NoFetch /\ fetching'[h].by = w
                              => g = h
                        /\ \A g \in Fetches :
                              fetching'[g] # NoFetch /\ fetching'[g].by = w =>
                                 /\ <<"api-cache", w>> \in names'
                                 /\ fetching'[g].at = "store" => fetching'[g].answer = heard'[w]
                        /\ (\A g \in Fetches : ~(fetching'[g].at = "store" /\ fetching'[g].by = w))
                              => answers'[w] = heard'[w]
      BY <2>1
    <3>1. w = v
      BY <1>0, <2>1 DEF ShellInv, OneOld
    <3>2. \A g \in Fetches \ {f} : fetching'[g] = NoFetch
      BY <2>1, <2>4, <3>1
    <3>3. \A g \in Fetches : fetching[g].at # "store"
      BY <2>1, <3>1 DEF NoFetch
    <3>4. answers[w] = heard[w]
      BY <2>1, <3>3
    <3>5. QED
      BY <2>1, <2>3, <3>1, <3>2, <3>4
  <2>8. QED
    BY <2>1, <2>6, <2>7
<1>7. ASSUME NEW f \in Fetches, NetworkAnswers(f) PROVE AnswersKept'
  <2> DEFINE v == fetching[f].by
  <2>1. fetching[f] \in FetchRow /\ fetching[f].at = "sent" /\ fetching[f] # NoFetch
    BY <1>0, <1>7, FetchUnderWay DEF NetworkAnswers, NoFetch
  <2>2. /\ fetching' = [fetching EXCEPT ![f] = [fetching[f] EXCEPT !.at = "store", !.answer = data]]
        /\ heard' = [heard EXCEPT ![v] = data]
        /\ UNCHANGED <<worker, names, answers, shellCrossed>>
    BY <1>7 DEF NetworkAnswers
  <2>3. v \in Versions
    BY <2>1 DEF FetchRow
  <2>4. /\ fetching'[f].at = "store" /\ fetching'[f].by = v /\ fetching'[f].answer = data
        /\ heard'[v] = data
    BY <1>a, <2>1, <2>2, <2>3 DEF FetchRow
  <2>5. /\ \A g \in Fetches \ {f} : fetching'[g] = fetching[g]
        /\ \A w \in Versions \ {v} : heard'[w] = heard[w]
    BY <1>a, <2>2
  <2> HIDE DEF v
  <2>6. v = fetching[f].by
    BY DEF v
  <2>7. worker[v] \in {"active", "gone"}
    BY <2>1, <2>6
  <2>8. QED
    BY <2>1, <2>2, <2>3, <2>4, <2>5, <2>6, <2>7
<1>8. ASSUME NEW f \in Fetches, NetworkFails(f) PROVE AnswersKept'
  <2>1. /\ fetching[f].at = "sent" /\ fetching' = [fetching EXCEPT ![f] = NoFetch]
        /\ UNCHANGED <<worker, names, answers, heard, shellCrossed>>
    BY <1>8 DEF NetworkFails
  <2>2. fetching'[f] = NoFetch /\ \A g \in Fetches \ {f} : fetching'[g] = fetching[g]
    BY <1>a, <2>1
  <2>3. \A g \in Fetches : fetching'[g].at = "store" <=> fetching[g].at = "store"
    BY <2>1, <2>2 DEF NoFetch
  <2>4. QED
    BY <2>1, <2>2, <2>3
<1>9. ASSUME NEW f \in Fetches, StoreAnswer(f) PROVE AnswersKept'
  <2> DEFINE v == fetching[f].by
  <2>1. fetching[f] \in FetchRow /\ fetching[f].at = "store" /\ fetching[f] # NoFetch
    BY <1>0, <1>9, FetchUnderWay DEF StoreAnswer, NoFetch
  <2>2. /\ fetching' = [fetching EXCEPT ![f] = NoFetch]
        /\ answers' = IF <<"api-cache", v>> \in names
                      THEN [answers EXCEPT ![v] = fetching[f].answer] ELSE answers
        /\ UNCHANGED <<worker, names, heard, shellCrossed>>
    BY <1>9 DEF StoreAnswer, Kept
  <2>3. v \in Versions
    BY <2>1 DEF FetchRow
  <2>4. /\ <<"api-cache", v>> \in names => answers'[v] = fetching[f].answer
        /\ \A w \in Versions \ {v} : answers'[w] = answers[w]
    BY <1>a, <2>2, <2>3
  <2>5. fetching'[f] = NoFetch /\ \A g \in Fetches \ {f} : fetching'[g] = fetching[g]
    BY <1>a, <2>2
  <2>6. fetching'[f].at # "store"
    BY <2>5 DEF NoFetch
  <2> HIDE DEF v
  <2>7. v = fetching[f].by
    BY DEF v
  <2>8. worker[v] \in {"active", "gone"}
    BY <2>1, <2>7
  <2>9. v \notin shellCrossed /\ worker[v] = "active" =>
          /\ fetching[f].answer = heard[v] /\ <<"api-cache", v>> \in names
          /\ \A g \in Fetches \ {f} : fetching[g] # NoFetch => fetching[g].by # v
    BY <2>1, <2>3, <2>7
  <2>10. \A w \in Versions : worker[w] \notin {"active", "gone"} => w # v
    BY <2>8
  <2>11. \A w \in Versions \ shellCrossed : worker[w] = "active" =>
          ((\A g \in Fetches : ~(fetching'[g].at = "store" /\ fetching'[g].by = w))
              => answers'[w] = heard[w])
    <3> SUFFICES ASSUME NEW w \in Versions \ shellCrossed, worker[w] = "active",
                        \A g \in Fetches : ~(fetching'[g].at = "store" /\ fetching'[g].by = w)
                 PROVE  answers'[w] = heard[w]
      OBVIOUS
    <3>1. CASE w = v
      BY <2>4, <2>9, <3>1
    <3>2. CASE w # v
      <4>1. \A g \in Fetches : ~(fetching[g].at = "store" /\ fetching[g].by = w)
        BY <2>5, <2>7, <3>2
      <4>2. QED
        BY <2>4, <3>2, <4>1
    <3>3. QED
      BY <3>1, <3>2
  <2>12. \A w \in Versions : worker[w] \notin {"active", "gone"} => answers'[w] = 0 /\ heard[w] = 0
    BY <2>4, <2>10
  <2>13. \A g \in Fetches : fetching'[g] # NoFetch => g # f /\ fetching'[g] = fetching[g]
    BY <2>5
  <2>14. QED
    BY <2>2, <2>6, <2>11, <2>12, <2>13
<1>10. CASE Deploy \/ DataChange \/ UNCHANGED cacheVars
  <2>1. UNCHANGED <<worker, fetching, heard, shellCrossed, answers, names>>
    BY <1>10 DEF Deploy, DataChange, cacheVars
  <2>2. QED
    BY <1>1, <2>1
<1>11. ASSUME NEW l \in Loads,
              \/ PageComes(l) \/ PageFails(l) \/ StorePage(l)
              \/ \E v \in Versions, r \in Routes : FetchPage(l, v, r)
       PROVE  AnswersKept'
  <2>1. /\ UNCHANGED <<worker, fetching, heard, shellCrossed, answers>>
        /\ names \subseteq names'
    BY <1>11 DEF PageComes, PageFails, StorePage, FetchPage
  <2>2. QED
    BY <1>1, <2>1
<1>12. ASSUME NEW f \in Fetches, StoreFails(f) PROVE AnswersKept'
  <2>1. fetching[f] \in FetchRow /\ fetching[f].at = "store"
    BY <1>0, <1>12, FetchUnderWay DEF StoreFails
  <2>2. /\ fetching' = [fetching EXCEPT ![f] = NoFetch]
        /\ shellCrossed' = shellCrossed \cup {fetching[f].by}
        /\ UNCHANGED <<worker, names, answers, heard>>
    BY <1>12 DEF StoreFails
  <2>3. fetching'[f] = NoFetch /\ \A g \in Fetches \ {f} : fetching'[g] = fetching[g]
    BY <1>a, <2>2
  <2>4. \A g \in Fetches : fetching'[g] # NoFetch => g # f /\ fetching'[g] = fetching[g]
    BY <2>3
  <2>5. fetching[f].by \notin Versions \ shellCrossed'
    BY <2>2
  <2>6. \A w \in Versions \ shellCrossed', g \in Fetches :
           (fetching'[g].at = "store" /\ fetching'[g].by = w)
              <=> (fetching[g].at = "store" /\ fetching[g].by = w)
    BY <2>3, <2>5 DEF NoFetch
  <2>7. QED
    BY <2>2, <2>4, <2>6
<1>13. QED
    BY <1>2, <1>3, <1>4, <1>5, <1>6, <1>7, <1>8, <1>9, <1>10, <1>11, <1>12 DEF AppCacheNext

\* For any builds, requests and changes: offline the till has all its pages, none older
\* than the worker that serves them, and the newest answers it had, unless workers met,
\* requests overlapped or an answer could not be stored.
THEOREM CopiesAreWhole == AppCacheSpec => [](AppCacheTypeOK /\ CachesAreWhole)
<1>1. CacheInv => AppCacheTypeOK /\ CachesAreWhole
  <2> SUFFICES ASSUME CacheInv PROVE CachesAreWhole
    BY DEF CacheInv, ShellInv, CacheTypes
  <2>1. ShellIsWhole /\ OldCachesGo
    BY DEF CacheInv, ShellInv, ShellKept, OldOnesGo, ShellIsWhole, In
  <2>2. NewestIsKept
    BY DEF CacheInv, AnswersKept, NewestIsKept
  <2>3. QED
    BY <2>1, <2>2 DEF CachesAreWhole
<1>2. CacheInv /\ [AppCacheNext]_cacheVars => CacheInv'
    BY ShellInvNext, OldOnesGoNext, AnswersKeptNext DEF CacheInv
<1>3. QED
    BY <1>1, <1>2, CacheInvInit, PTL DEF AppCacheSpec

-----------------------------------------------------------------------------
(* The payment dialog *)

\* Every order is for a sale whose cart was built, and so is the cart on the page.
OrdersAreSales ==
    /\ {cart, saved} \subseteq begun \cup {0}
    /\ \A u \in Uuids :
          /\ orders[u].sale \in begun \cup {0}
          /\ orders[u].status = "unsent" <=> orders[u].sale = 0
          /\ orders[u].status = "pending" => orders[u].method = "qris"

\* What is waited for was sent, and nothing is sent meanwhile; what is said to be
\* completed is.
AwaitedIsSent ==
    /\ sent # NoUuid => orders[sent].status # "unsent"
    /\ waiting => /\ qrisInfo # NoUuid /\ sent = NoUuid /\ ~payDialog
                  /\ orders[qrisInfo].status # "unsent"
    /\ \A e \in events : qrisInfo # NoUuid /\ orders[e[1]].status = "completed"

\* A cart with an order cannot be paid: its request is under way, its payment is
\* waited for, or a success covers the page; or else an answer was lost or the cart
\* came back.
SoldIsCovered ==
    \A u \in Uuids :
       orders[u].sale # 0 /\ orders[u].sale = cart =>
          \/ cart \in lost \cup again
          \/ sent = u
          \/ waiting /\ qrisInfo = u
          \/ success # NoUuid /\ ~payDialog

OneOrderEach ==
    \A u, v \in Uuids :
       u # v /\ orders[u].sale # 0 /\ orders[u].sale = orders[v].sale =>
          orders[u].sale \in lost \cup again

\* A success is alone on the page, unless an answer was crossed.
SuccessIsAlone ==
    success # NoUuid /\ ~crossed =>
       /\ sent = NoUuid /\ ~payDialog /\ ~waiting
       /\ orders[success].status = "completed" /\ cart = orders[success].sale

TillInv ==
    /\ TillTypeOK /\ OrdersAreSales /\ AwaitedIsSent /\ SoldIsCovered /\ OneOrderEach
    /\ SuccessIsAlone

LEMMA TillInvNext ==
    ASSUME TillInv, [TillNext]_tillVars PROVE TillInv'
<1> USE TillAssumption DEF cartVars, qrisVars, ghostVars
<1>1. ASSUME NEW s \in Carts, NewCart(s) PROVE TillInv'
  <2>1. TillTypeOK'
    BY <1>1 DEF NewCart, InTheWay, TillInv, TillTypeOK, OrdersAreSales, AwaitedIsSent,
       OrderOf
  <2>2. OrdersAreSales'
    BY <1>1 DEF NewCart, InTheWay, TillInv, TillTypeOK, OrdersAreSales, OrderOf
  <2>3. AwaitedIsSent'
    BY <1>1 DEF NewCart, InTheWay, TillInv, TillTypeOK, AwaitedIsSent
  <2>4. SoldIsCovered'
    BY <1>1 DEF NewCart, InTheWay, TillInv, TillTypeOK, OrdersAreSales, AwaitedIsSent,
       SoldIsCovered
  <2>5. OneOrderEach'
    BY <1>1 DEF NewCart, InTheWay, TillInv, TillTypeOK, OrdersAreSales, AwaitedIsSent,
       SoldIsCovered, OneOrderEach
  <2>6. SuccessIsAlone'
    BY <1>1 DEF NewCart, InTheWay, TillInv, TillTypeOK, OrdersAreSales, AwaitedIsSent,
       SuccessIsAlone
  <2>7. QED
    BY <2>1, <2>2, <2>3, <2>4, <2>5, <2>6 DEF TillInv
<1>2. ASSUME EmptyCart PROVE TillInv'
  <2>1. TillTypeOK'
    BY <1>2 DEF EmptyCart, InTheWay, TillInv, TillTypeOK, OrdersAreSales, AwaitedIsSent,
       OrderOf
  <2>2. OrdersAreSales'
    BY <1>2 DEF EmptyCart, InTheWay, TillInv, TillTypeOK, OrdersAreSales, OrderOf
  <2>3. AwaitedIsSent'
    BY <1>2 DEF EmptyCart, InTheWay, TillInv, TillTypeOK, AwaitedIsSent
  <2>4. SoldIsCovered'
    BY <1>2 DEF EmptyCart, InTheWay, TillInv, TillTypeOK, OrdersAreSales, AwaitedIsSent,
       SoldIsCovered
  <2>5. OneOrderEach'
    BY <1>2 DEF EmptyCart, InTheWay, TillInv, TillTypeOK, OrdersAreSales, AwaitedIsSent,
       SoldIsCovered, OneOrderEach
  <2>6. SuccessIsAlone'
    BY <1>2 DEF EmptyCart, InTheWay, TillInv, TillTypeOK, OrdersAreSales, AwaitedIsSent,
       SuccessIsAlone
  <2>7. QED
    BY <2>1, <2>2, <2>3, <2>4, <2>5, <2>6 DEF TillInv
<1>3. ASSUME TogglePayDialog PROVE TillInv'
  <2>1. TillTypeOK'
    BY <1>3 DEF TogglePayDialog, InTheWay, TillInv, TillTypeOK, OrdersAreSales,
       AwaitedIsSent, OrderOf
  <2>2. OrdersAreSales'
    BY <1>3 DEF TogglePayDialog, InTheWay, TillInv, TillTypeOK, OrdersAreSales, OrderOf
  <2>3. AwaitedIsSent'
    BY <1>3 DEF TogglePayDialog, InTheWay, TillInv, TillTypeOK, AwaitedIsSent
  <2>4. SoldIsCovered'
    BY <1>3 DEF TogglePayDialog, InTheWay, TillInv, TillTypeOK, OrdersAreSales,
       AwaitedIsSent, SoldIsCovered
  <2>5. OneOrderEach'
    BY <1>3 DEF TogglePayDialog, InTheWay, TillInv, TillTypeOK, OrdersAreSales,
       AwaitedIsSent, SoldIsCovered, OneOrderEach
  <2>6. SuccessIsAlone'
    BY <1>3 DEF TogglePayDialog, InTheWay, TillInv, TillTypeOK, OrdersAreSales,
       AwaitedIsSent, SuccessIsAlone
  <2>7. QED
    BY <2>1, <2>2, <2>3, <2>4, <2>5, <2>6 DEF TillInv
<1>4. ASSUME NEW u \in Uuids, NEW method \in {"cash", "qris"}, Pay(u, method) PROVE TillInv'
  <2>1. TillTypeOK'
    BY <1>4 DEF Pay, MayPay, TillInv, TillTypeOK, OrdersAreSales, AwaitedIsSent, OrderOf
  <2>2. OrdersAreSales'
    BY <1>4 DEF Pay, MayPay, TillInv, TillTypeOK, OrdersAreSales, OrderOf
  <2>3. AwaitedIsSent'
    BY <1>4 DEF Pay, MayPay, TillInv, TillTypeOK, AwaitedIsSent
  <2>4. SoldIsCovered'
    BY <1>4 DEF Pay, MayPay, TillInv, TillTypeOK, OrdersAreSales, AwaitedIsSent,
       SoldIsCovered
  <2>5. OneOrderEach'
    BY <1>4 DEF Pay, MayPay, TillInv, TillTypeOK, OrdersAreSales, AwaitedIsSent,
       SoldIsCovered, OneOrderEach
  <2>6. SuccessIsAlone'
    BY <1>4 DEF Pay, MayPay, TillInv, TillTypeOK, OrdersAreSales, AwaitedIsSent,
       SuccessIsAlone
  <2>7. QED
    BY <2>1, <2>2, <2>3, <2>4, <2>5, <2>6 DEF TillInv
<1>5. ASSUME NEW u \in Uuids, BackendTakes(u) PROVE TillInv'
  <2>1. TillTypeOK'
    BY <1>5 DEF BackendTakes, TillInv, TillTypeOK, OrdersAreSales, AwaitedIsSent, OrderOf
  <2>2. OrdersAreSales'
    BY <1>5 DEF BackendTakes, TillInv, TillTypeOK, OrdersAreSales, OrderOf
  <2>3. AwaitedIsSent'
    BY <1>5 DEF BackendTakes, TillInv, TillTypeOK, AwaitedIsSent
  <2>4. SoldIsCovered'
    BY <1>5 DEF BackendTakes, TillInv, TillTypeOK, OrdersAreSales, AwaitedIsSent,
       SoldIsCovered
  <2>5. OneOrderEach'
    BY <1>5 DEF BackendTakes, TillInv, TillTypeOK, OrdersAreSales, AwaitedIsSent,
       SoldIsCovered, OneOrderEach
  <2>6. SuccessIsAlone'
    BY <1>5 DEF BackendTakes, TillInv, TillTypeOK, OrdersAreSales, AwaitedIsSent,
       SuccessIsAlone
  <2>7. QED
    BY <2>1, <2>2, <2>3, <2>4, <2>5, <2>6 DEF TillInv
<1>6. ASSUME NEW u \in Uuids, AnswerCash(u) PROVE TillInv'
  <2>1. TillTypeOK'
    <3>1. {cart', saved'} \subseteq Carts \cup {0} /\ begun' \subseteq Carts
      BY <1>6 DEF AnswerCash, Answer, TillInv, TillTypeOK, OrdersAreSales, AwaitedIsSent,
         OrderOf
    <3>2. {payDialog', waiting', crossed'} \subseteq BOOLEAN
      BY <1>6 DEF AnswerCash, Answer, TillInv, TillTypeOK, OrdersAreSales, AwaitedIsSent,
         OrderOf
    <3>3. {sent', qrisInfo', success'} \subseteq Uuids \cup {NoUuid}
      BY <1>6 DEF AnswerCash, Answer, TillInv, TillTypeOK, OrdersAreSales, AwaitedIsSent,
         OrderOf
    <3>4. events' \subseteq Uuids \X {"poll", "stream"} /\ timers' \in Nat
      BY <1>6 DEF AnswerCash, Answer, TillInv, TillTypeOK, OrdersAreSales, AwaitedIsSent,
         OrderOf
    <3>5. lost' \subseteq Carts /\ again' \subseteq Carts
      BY <1>6 DEF AnswerCash, Answer, TillInv, TillTypeOK, OrdersAreSales, AwaitedIsSent,
         OrderOf
    <3>6. QED
      BY <1>6, <3>1, <3>2, <3>3, <3>4, <3>5 DEF AnswerCash, Answer, TillInv, TillTypeOK,
         OrdersAreSales, AwaitedIsSent, OrderOf
  <2>2. OrdersAreSales'
    BY <1>6 DEF AnswerCash, Answer, TillInv, TillTypeOK, OrdersAreSales, OrderOf
  <2>3. AwaitedIsSent'
    BY <1>6 DEF AnswerCash, Answer, TillInv, TillTypeOK, AwaitedIsSent
  <2>4. SoldIsCovered'
    BY <1>6 DEF AnswerCash, Answer, TillInv, TillTypeOK, OrdersAreSales, AwaitedIsSent,
       SoldIsCovered
  <2>5. OneOrderEach'
    BY <1>6 DEF AnswerCash, Answer, TillInv, TillTypeOK, OrdersAreSales, AwaitedIsSent,
       SoldIsCovered, OneOrderEach
  <2>6. SuccessIsAlone'
    BY <1>6 DEF AnswerCash, Answer, TillInv, TillTypeOK, OrdersAreSales, AwaitedIsSent,
       SuccessIsAlone
  <2>7. QED
    BY <2>1, <2>2, <2>3, <2>4, <2>5, <2>6 DEF TillInv
<1>7. ASSUME NEW u \in Uuids, AnswerLost(u) PROVE TillInv'
  <2>1. TillTypeOK'
    <3>1. {cart', saved'} \subseteq Carts \cup {0} /\ begun' \subseteq Carts
      BY <1>7 DEF AnswerLost, TillInv, TillTypeOK, OrdersAreSales, AwaitedIsSent, OrderOf
    <3>2. {payDialog', waiting', crossed'} \subseteq BOOLEAN
      BY <1>7 DEF AnswerLost, TillInv, TillTypeOK, OrdersAreSales, AwaitedIsSent, OrderOf
    <3>3. {sent', qrisInfo', success'} \subseteq Uuids \cup {NoUuid}
      BY <1>7 DEF AnswerLost, TillInv, TillTypeOK, OrdersAreSales, AwaitedIsSent, OrderOf
    <3>4. events' \subseteq Uuids \X {"poll", "stream"} /\ timers' \in Nat
      BY <1>7 DEF AnswerLost, TillInv, TillTypeOK, OrdersAreSales, AwaitedIsSent, OrderOf
    <3>5. lost' \subseteq Carts /\ again' \subseteq Carts
      BY <1>7 DEF AnswerLost, TillInv, TillTypeOK, OrdersAreSales, AwaitedIsSent, OrderOf
    <3>6. QED
      BY <1>7, <3>1, <3>2, <3>3, <3>4, <3>5 DEF AnswerLost, TillInv, TillTypeOK,
         OrdersAreSales, AwaitedIsSent, OrderOf
  <2>2. OrdersAreSales'
    BY <1>7 DEF AnswerLost, TillInv, TillTypeOK, OrdersAreSales, OrderOf
  <2>3. AwaitedIsSent'
    BY <1>7 DEF AnswerLost, TillInv, TillTypeOK, AwaitedIsSent
  <2>4. SoldIsCovered'
    BY <1>7 DEF AnswerLost, TillInv, TillTypeOK, OrdersAreSales, AwaitedIsSent,
       SoldIsCovered
  <2>5. OneOrderEach'
    BY <1>7 DEF AnswerLost, TillInv, TillTypeOK, OrdersAreSales, AwaitedIsSent,
       SoldIsCovered, OneOrderEach
  <2>6. SuccessIsAlone'
    BY <1>7 DEF AnswerLost, TillInv, TillTypeOK, OrdersAreSales, AwaitedIsSent,
       SuccessIsAlone
  <2>7. QED
    BY <2>1, <2>2, <2>3, <2>4, <2>5, <2>6 DEF TillInv
<1>8. ASSUME NEW u \in Uuids, AnswerQris(u) PROVE TillInv'
  <2>1. TillTypeOK'
    BY <1>8 DEF AnswerQris, Answer, TillInv, TillTypeOK, OrdersAreSales, AwaitedIsSent,
       OrderOf
  <2>2. OrdersAreSales'
    BY <1>8 DEF AnswerQris, Answer, TillInv, TillTypeOK, OrdersAreSales, OrderOf
  <2>3. AwaitedIsSent'
    BY <1>8 DEF AnswerQris, Answer, TillInv, TillTypeOK, AwaitedIsSent
  <2>4. SoldIsCovered'
    BY <1>8 DEF AnswerQris, Answer, TillInv, TillTypeOK, OrdersAreSales, AwaitedIsSent,
       SoldIsCovered
  <2>5. OneOrderEach'
    BY <1>8 DEF AnswerQris, Answer, TillInv, TillTypeOK, OrdersAreSales, AwaitedIsSent,
       SoldIsCovered, OneOrderEach
  <2>6. SuccessIsAlone'
    BY <1>8 DEF AnswerQris, Answer, TillInv, TillTypeOK, OrdersAreSales, AwaitedIsSent,
       SuccessIsAlone
  <2>7. QED
    BY <2>1, <2>2, <2>3, <2>4, <2>5, <2>6 DEF TillInv
<1>9. ASSUME NEW u \in Uuids, QrisPaid(u) PROVE TillInv'
  <2>1. TillTypeOK'
    BY <1>9 DEF QrisPaid, TillInv, TillTypeOK, OrdersAreSales, AwaitedIsSent, OrderOf
  <2>2. OrdersAreSales'
    BY <1>9 DEF QrisPaid, TillInv, TillTypeOK, OrdersAreSales, OrderOf
  <2>3. AwaitedIsSent'
    BY <1>9 DEF QrisPaid, TillInv, TillTypeOK, AwaitedIsSent
  <2>4. SoldIsCovered'
    BY <1>9 DEF QrisPaid, TillInv, TillTypeOK, OrdersAreSales, AwaitedIsSent, SoldIsCovered
  <2>5. OneOrderEach'
    BY <1>9 DEF QrisPaid, TillInv, TillTypeOK, OrdersAreSales, AwaitedIsSent,
       SoldIsCovered, OneOrderEach
  <2>6. SuccessIsAlone'
    BY <1>9 DEF QrisPaid, TillInv, TillTypeOK, OrdersAreSales, AwaitedIsSent, SuccessIsAlone
  <2>7. QED
    BY <2>1, <2>2, <2>3, <2>4, <2>5, <2>6 DEF TillInv
<1>10. ASSUME NEW u \in Uuids, NEW via \in {"poll", "stream"}, Seen(u, via) PROVE TillInv'
  <2>1. TillTypeOK'
    BY <1>10 DEF Seen, Message, TillInv, TillTypeOK, OrdersAreSales, AwaitedIsSent, OrderOf
  <2>2. OrdersAreSales'
    BY <1>10 DEF Seen, Message, TillInv, TillTypeOK, OrdersAreSales, OrderOf
  <2>3. AwaitedIsSent'
    BY <1>10 DEF Seen, Message, TillInv, TillTypeOK, AwaitedIsSent
  <2>4. SoldIsCovered'
    BY <1>10 DEF Seen, Message, TillInv, TillTypeOK, OrdersAreSales, AwaitedIsSent,
       SoldIsCovered
  <2>5. OneOrderEach'
    BY <1>10 DEF Seen, Message, TillInv, TillTypeOK, OrdersAreSales, AwaitedIsSent,
       SoldIsCovered, OneOrderEach
  <2>6. SuccessIsAlone'
    BY <1>10 DEF Seen, Message, TillInv, TillTypeOK, OrdersAreSales, AwaitedIsSent,
       SuccessIsAlone
  <2>7. QED
    BY <2>1, <2>2, <2>3, <2>4, <2>5, <2>6 DEF TillInv
<1>11. ASSUME NEW u \in Uuids, NEW via \in {"poll", "stream"}, QrisSuccess(u, via) PROVE TillInv'
  <2>1. TillTypeOK'
    <3>1. {cart', saved'} \subseteq Carts \cup {0} /\ begun' \subseteq Carts
      BY <1>11 DEF QrisSuccess, StopWaiting, TillInv, TillTypeOK, OrdersAreSales,
         AwaitedIsSent, OrderOf
    <3>2. {payDialog', waiting', crossed'} \subseteq BOOLEAN
      BY <1>11 DEF QrisSuccess, StopWaiting, TillInv, TillTypeOK, OrdersAreSales,
         AwaitedIsSent, OrderOf
    <3>3. {sent', qrisInfo', success'} \subseteq Uuids \cup {NoUuid}
      BY <1>11 DEF QrisSuccess, StopWaiting, TillInv, TillTypeOK, OrdersAreSales,
         AwaitedIsSent, OrderOf
    <3>4. events' \subseteq Uuids \X {"poll", "stream"} /\ timers' \in Nat
      BY <1>11 DEF QrisSuccess, StopWaiting, TillInv, TillTypeOK, OrdersAreSales,
         AwaitedIsSent, OrderOf
    <3>5. lost' \subseteq Carts /\ again' \subseteq Carts
      BY <1>11 DEF QrisSuccess, StopWaiting, TillInv, TillTypeOK, OrdersAreSales,
         AwaitedIsSent, OrderOf
    <3>6. QED
      BY <1>11, <3>1, <3>2, <3>3, <3>4, <3>5 DEF QrisSuccess, StopWaiting, TillInv,
         TillTypeOK, OrdersAreSales, AwaitedIsSent, OrderOf
  <2>2. OrdersAreSales'
    BY <1>11 DEF QrisSuccess, StopWaiting, TillInv, TillTypeOK, OrdersAreSales, OrderOf
  <2>3. AwaitedIsSent'
    BY <1>11 DEF QrisSuccess, StopWaiting, TillInv, TillTypeOK, AwaitedIsSent
  <2>4. SoldIsCovered'
    BY <1>11 DEF QrisSuccess, StopWaiting, TillInv, TillTypeOK, OrdersAreSales,
       AwaitedIsSent, SoldIsCovered
  <2>5. OneOrderEach'
    BY <1>11 DEF QrisSuccess, StopWaiting, TillInv, TillTypeOK, OrdersAreSales,
       AwaitedIsSent, SoldIsCovered, OneOrderEach
  <2>6. SuccessIsAlone'
    BY <1>11 DEF QrisSuccess, StopWaiting, TillInv, TillTypeOK, OrdersAreSales,
       AwaitedIsSent, SuccessIsAlone
  <2>7. QED
    BY <2>1, <2>2, <2>3, <2>4, <2>5, <2>6 DEF TillInv
<1>12. ASSUME CancelWaiting PROVE TillInv'
  <2>1. TillTypeOK'
    BY <1>12 DEF CancelWaiting, StopWaiting, TillInv, TillTypeOK, OrdersAreSales,
       AwaitedIsSent, OrderOf
  <2>2. OrdersAreSales'
    BY <1>12 DEF CancelWaiting, StopWaiting, TillInv, TillTypeOK, OrdersAreSales, OrderOf
  <2>3. AwaitedIsSent'
    BY <1>12 DEF CancelWaiting, StopWaiting, TillInv, TillTypeOK, AwaitedIsSent
  <2>4. SoldIsCovered'
    BY <1>12 DEF CancelWaiting, StopWaiting, TillInv, TillTypeOK, OrdersAreSales,
       AwaitedIsSent, SoldIsCovered
  <2>5. OneOrderEach'
    BY <1>12 DEF CancelWaiting, StopWaiting, TillInv, TillTypeOK, OrdersAreSales,
       AwaitedIsSent, SoldIsCovered, OneOrderEach
  <2>6. SuccessIsAlone'
    BY <1>12 DEF CancelWaiting, StopWaiting, TillInv, TillTypeOK, OrdersAreSales,
       AwaitedIsSent, SuccessIsAlone
  <2>7. QED
    BY <2>1, <2>2, <2>3, <2>4, <2>5, <2>6 DEF TillInv
<1>13. ASSUME CountdownEnds PROVE TillInv'
  <2>1. TillTypeOK'
    BY <1>13 DEF CountdownEnds, StopWaiting, TillInv, TillTypeOK, OrdersAreSales,
       AwaitedIsSent, OrderOf
  <2>2. OrdersAreSales'
    BY <1>13 DEF CountdownEnds, StopWaiting, TillInv, TillTypeOK, OrdersAreSales, OrderOf
  <2>3. AwaitedIsSent'
    BY <1>13 DEF CountdownEnds, StopWaiting, TillInv, TillTypeOK, AwaitedIsSent
  <2>4. SoldIsCovered'
    BY <1>13 DEF CountdownEnds, StopWaiting, TillInv, TillTypeOK, OrdersAreSales,
       AwaitedIsSent, SoldIsCovered
  <2>5. OneOrderEach'
    BY <1>13 DEF CountdownEnds, StopWaiting, TillInv, TillTypeOK, OrdersAreSales,
       AwaitedIsSent, SoldIsCovered, OneOrderEach
  <2>6. SuccessIsAlone'
    BY <1>13 DEF CountdownEnds, StopWaiting, TillInv, TillTypeOK, OrdersAreSales,
       AwaitedIsSent, SuccessIsAlone
  <2>7. QED
    BY <2>1, <2>2, <2>3, <2>4, <2>5, <2>6 DEF TillInv
<1>14. ASSUME NewOrder PROVE TillInv'
  <2>1. TillTypeOK'
    BY <1>14 DEF NewOrder, ResetPos, TillInv, TillTypeOK, OrdersAreSales, AwaitedIsSent,
       OrderOf
  <2>2. OrdersAreSales'
    BY <1>14 DEF NewOrder, ResetPos, TillInv, TillTypeOK, OrdersAreSales, OrderOf
  <2>3. AwaitedIsSent'
    BY <1>14 DEF NewOrder, ResetPos, TillInv, TillTypeOK, AwaitedIsSent
  <2>4. SoldIsCovered'
    BY <1>14 DEF NewOrder, ResetPos, TillInv, TillTypeOK, OrdersAreSales, AwaitedIsSent,
       SoldIsCovered
  <2>5. OneOrderEach'
    BY <1>14 DEF NewOrder, ResetPos, TillInv, TillTypeOK, OrdersAreSales, AwaitedIsSent,
       SoldIsCovered, OneOrderEach
  <2>6. SuccessIsAlone'
    BY <1>14 DEF NewOrder, ResetPos, TillInv, TillTypeOK, OrdersAreSales, AwaitedIsSent,
       SuccessIsAlone
  <2>7. QED
    BY <2>1, <2>2, <2>3, <2>4, <2>5, <2>6 DEF TillInv
<1>15. ASSUME TimerFires PROVE TillInv'
  <2>1. TillTypeOK'
    <3>1. {cart', saved'} \subseteq Carts \cup {0} /\ begun' \subseteq Carts
      <4>1. CASE success # NoUuid
        BY <1>15, <4>1 DEF TimerFires, ResetPos, TillInv, TillTypeOK
      <4>2. CASE success = NoUuid
        BY <1>15, <4>2 DEF TimerFires, TillInv, TillTypeOK
      <4>3. QED
        BY <4>1, <4>2
    <3>2. {payDialog', waiting', crossed'} \subseteq BOOLEAN
      BY <1>15 DEF TimerFires, ResetPos, TillInv, TillTypeOK, OrdersAreSales,
         AwaitedIsSent, OrderOf
    <3>3. {sent', qrisInfo', success'} \subseteq Uuids \cup {NoUuid}
      BY <1>15 DEF TimerFires, ResetPos, TillInv, TillTypeOK, OrdersAreSales,
         AwaitedIsSent, OrderOf
    <3>4. events' \subseteq Uuids \X {"poll", "stream"} /\ timers' \in Nat
      BY <1>15 DEF TimerFires, ResetPos, TillInv, TillTypeOK, OrdersAreSales,
         AwaitedIsSent, OrderOf
    <3>5. lost' \subseteq Carts /\ again' \subseteq Carts
      BY <1>15 DEF TimerFires, ResetPos, TillInv, TillTypeOK, OrdersAreSales,
         AwaitedIsSent, OrderOf
    <3>6. QED
      BY <1>15, <3>1, <3>2, <3>3, <3>4, <3>5 DEF TimerFires, ResetPos, TillInv,
         TillTypeOK, OrdersAreSales, AwaitedIsSent, OrderOf
  <2>2. OrdersAreSales'
    BY <1>15 DEF TimerFires, ResetPos, TillInv, TillTypeOK, OrdersAreSales, OrderOf
  <2>3. AwaitedIsSent'
    BY <1>15 DEF TimerFires, ResetPos, TillInv, TillTypeOK, AwaitedIsSent
  <2>4. SoldIsCovered'
    BY <1>15 DEF TimerFires, ResetPos, TillInv, TillTypeOK, OrdersAreSales, AwaitedIsSent,
       SoldIsCovered
  <2>5. OneOrderEach'
    BY <1>15 DEF TimerFires, ResetPos, TillInv, TillTypeOK, OrdersAreSales, AwaitedIsSent,
       SoldIsCovered, OneOrderEach
  <2>6. SuccessIsAlone'
    BY <1>15 DEF TimerFires, ResetPos, TillInv, TillTypeOK, OrdersAreSales, AwaitedIsSent,
       SuccessIsAlone
  <2>7. QED
    BY <2>1, <2>2, <2>3, <2>4, <2>5, <2>6 DEF TillInv
<1>16. ASSUME Reload PROVE TillInv'
  <2>1. TillTypeOK'
    BY <1>16 DEF Reload, TillInv, TillTypeOK, OrdersAreSales, AwaitedIsSent, OrderOf
  <2>2. OrdersAreSales'
    BY <1>16 DEF Reload, TillInv, TillTypeOK, OrdersAreSales, OrderOf
  <2>3. AwaitedIsSent'
    BY <1>16 DEF Reload, TillInv, TillTypeOK, AwaitedIsSent
  <2>4. SoldIsCovered'
    BY <1>16 DEF Reload, TillInv, TillTypeOK, OrdersAreSales, AwaitedIsSent, SoldIsCovered
  <2>5. OneOrderEach'
    BY <1>16 DEF Reload, TillInv, TillTypeOK, OrdersAreSales, AwaitedIsSent,
       SoldIsCovered, OneOrderEach
  <2>6. SuccessIsAlone'
    BY <1>16 DEF Reload, TillInv, TillTypeOK, OrdersAreSales, AwaitedIsSent, SuccessIsAlone
  <2>7. QED
    BY <2>1, <2>2, <2>3, <2>4, <2>5, <2>6 DEF TillInv
<1>17. CASE UNCHANGED tillVars
  BY <1>17 DEF tillVars, TillInv, TillTypeOK, OrdersAreSales, AwaitedIsSent,
     SoldIsCovered, OneOrderEach, SuccessIsAlone
<1>18. QED
  BY <1>1, <1>2, <1>3, <1>4, <1>5, <1>6, <1>7, <1>8, <1>9, <1>10, <1>11, <1>12, <1>13,
     <1>14, <1>15, <1>16, <1>17 DEF TillNext

\* However often the cashier presses, closes, cancels and reloads (process_payment, the
\* QRIS waiting): a sale is paid for once, unless an answer was lost, a countdown ended or
\* a reload brought its cart back; and until an answer comes that is not the one waited
\* for, a success is shown for a paid order and the cart it throws away is its own.
THEOREM TillPaysOnce == TillSpec => [](TillTypeOK /\ TillSellsOnce)
<1>1. TillInit => TillInv
  <2>1. SUFFICES ASSUME TillInit PROVE TillInv
    OBVIOUS
  <2>2. TillTypeOK
    BY <2>1 DEF TillInit, TillTypeOK, OrderOf
  <2>3. OrdersAreSales /\ AwaitedIsSent /\ SoldIsCovered /\ OneOrderEach /\ SuccessIsAlone
    BY <2>1 DEF TillInit, OrdersAreSales, AwaitedIsSent, SoldIsCovered, OneOrderEach,
                SuccessIsAlone
  <2>4. QED
    BY <2>2, <2>3 DEF TillInv
<1>2. TillInv => TillTypeOK /\ TillSellsOnce
  BY DEF TillInv, TillTypeOK, OrdersAreSales, OneOrderEach, SuccessIsAlone, TillSellsOnce,
         PaidOnceAtTill, SuccessIsPaid, SoldCartIsReset, OrderOf
<1>3. QED
  BY <1>1, <1>2, TillInvNext, PTL DEF TillSpec
=============================================================================
