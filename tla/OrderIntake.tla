----------------------------- MODULE OrderIntake -----------------------------
(***************************************************************************)
(* How a sale becomes a row of the "Order" table: OrdersService.createOrder *)
(* (POST /orders) and processSingleOfflineOrder / createOrderWithCache (one *)
(* order of POST /orders/sync-batch), running concurrently for several      *)
(* requests, with repeated client_uuids, a Redis that may be down or forget,*)
(* and a process that may die or lose its database at any await.            *)
(*                                                                         *)
(* Each request is run by a handler slot; every awaited call of the code is *)
(* one action.  Orders are created on one calendar day, so a number is the  *)
(* pair of a cashier letter and a sequence (TRX-YYYYMMDD-{letter}{seq}).    *)
(***************************************************************************)
EXTENDS Naturals, FiniteSets

CONSTANTS
    Uuids,        \* client_uuids, chosen by the clients
    Letters,      \* cashier letters ('X' when the cashier has none)
    Handlers,     \* requests the backend may be serving at the same time
    MethodOf,     \* payment method of the sale with a given client_uuid
    MemberSales,  \* the sales that carry a member_id
    None          \* no order id

Methods == {"cash", "qris", "split"}

ASSUME IntakeAssumption ==
    /\ MethodOf \in [Uuids -> Methods]
    /\ MemberSales \subseteq Uuids
    /\ None \notin (Letters \X Nat)
    /\ None \notin Uuids

VARIABLES
    orders,     \* rows of "Order", as they are inserted (OrderLifecycle goes on)
    cached,     \* client_uuids with an idempotency:<uuid> key in Redis
    stockRuns,  \* times reduceStockForOrder went through for the order
    charges,    \* times a QRIS charge was made at Midtrans for the order
    awarded,    \* client_uuids whose member points have been processed
    pc,         \* where each handler is: the await it is at
    req,        \* the request it serves
    seq,        \* the sequence number generateOrderNumber gave it
    found,      \* id of the order it found or created
    receipts    \* every successful answer sent to a client

vars == <<orders, cached, stockRuns, charges, awarded,
          pc, req, seq, found, receipts>>

effects == <<stockRuns, charges, awarded>>

-----------------------------------------------------------------------------
(* Types *)

OrderIds == Letters \X Nat
Statuses == {"completed", "pending_sync"}
Paths    == {"online", "sync"}
Steps    == {"cache", "lookup", "number", "insert", "stock", "points", "charge",
             "remember", "mark", "reply"}

\* What a handler holds between two requests: its locals are gone.
NoRequest == [uuid |-> None, letter |-> None, path |-> "none"]

OrderRow == [uuid: Uuids, letter: Letters, number: Nat, status: Statuses]
Request  == [uuid: Uuids, letter: Letters, path: Paths]
Receipt  == [uuid: Uuids, id: OrderIds]

TypeOK ==
    /\ orders \subseteq OrderRow
    /\ cached \subseteq Uuids
    /\ stockRuns \in [Uuids -> Nat]
    /\ charges \in [Uuids -> Nat]
    /\ awarded \subseteq Uuids
    /\ pc \in [Handlers -> Steps \cup {"idle"}]
    /\ req \in [Handlers -> Request \cup {NoRequest}]
    /\ seq \in [Handlers -> Nat]
    /\ found \in [Handlers -> OrderIds \cup {None}]
    /\ receipts \subseteq Receipt

-----------------------------------------------------------------------------
(* The tables as the handlers read them *)

IdOf(o) == <<o.letter, o.number>>

\* findOrderByClientUuid, and the SELECT ... FOR UPDATE with the same filter.
\* The row lock ends with the statement (it runs outside a transaction) and a
\* row that does not exist yet cannot be locked, so it is a plain read.
RowsOf(u) == {o \in orders : o.uuid = u}

\* prisma.order.count({ order_number: { startsWith: TRX-date-letter } })
BookOf(l) == {o \in orders : o.letter = l}

\* The unique constraints on client_uuid and on order_number; the variants are
\* a database that lacks one of them.
UuidTaken_NoConstraint(u) == FALSE

UuidTaken(u) == RowsOf(u) # {}

NumberTaken_NoConstraint(l, n) == FALSE

NumberTaken(l, n) == \E o \in orders : o.letter = l /\ o.number = n

-----------------------------------------------------------------------------
Init ==
    /\ orders = {}
    /\ cached = {}
    /\ stockRuns = [u \in Uuids |-> 0]
    /\ charges = [u \in Uuids |-> 0]
    /\ awarded = {}
    /\ pc = [h \in Handlers |-> "idle"]
    /\ req = [h \in Handlers |-> NoRequest]
    /\ seq = [h \in Handlers |-> 0]
    /\ found = [h \in Handlers |-> None]
    /\ receipts = {}

Goto(h, step) == pc' = [pc EXCEPT ![h] = step]

\* The handler returns or throws.
Leave(h) ==
    /\ Goto(h, "idle")
    /\ req' = [req EXCEPT ![h] = NoRequest]
    /\ seq' = [seq EXCEPT ![h] = 0]
    /\ found' = [found EXCEPT ![h] = None]

Stay(h, step) == Goto(h, step) /\ UNCHANGED <<req, seq, found>>

\* A request reaches the backend: a first attempt, a retry or a duplicate of
\* one still being served.
Receive(h, u, l, p) ==
    /\ pc[h] = "idle"
    /\ Goto(h, "cache")
    /\ req' = [req EXCEPT ![h] = [uuid |-> u, letter |-> l, path |-> p]]
    /\ UNCHANGED <<orders, effects, cached, seq, found, receipts>>

\* The handler has the existing order in hand: createOrder returns it as it is,
\* processSingleOfflineOrder goes on to mark it.
\* Variant: the order found is treated like the order created.
AfterFinding_AsCreated(h) == IF req[h].path = "online" THEN "stock" ELSE "mark"

AfterFinding(h) == IF req[h].path = "online" THEN "reply" ELSE "mark"

\* getIdempotencyKey answers and the row it stands for is read back.
CacheHit(h) ==
    /\ pc[h] = "cache"
    /\ req[h].uuid \in cached
    /\ \E o \in RowsOf(req[h].uuid) : found' = [found EXCEPT ![h] = IdOf(o)]
    /\ Goto(h, AfterFinding(h))
    /\ UNCHANGED <<orders, effects, cached, req, seq, receipts>>

\* No key, a key without its row, or a Redis that is not available.
CacheMiss(h) ==
    /\ pc[h] = "cache"
    /\ Stay(h, "lookup")
    /\ UNCHANGED <<orders, effects, cached, receipts>>

\* setIdempotencyKey stores the key, or does nothing while Redis is away.
StoreKey(u) == cached' \in {cached, cached \cup {u}}

\* Variant: the row the lock query found is not read back.
LookupFindsOrder_NotReadBack(h) ==
    /\ pc[h] = "lookup"
    /\ RowsOf(req[h].uuid) # {}
    /\ StoreKey(req[h].uuid)
    /\ Goto(h, AfterFinding(h))
    /\ UNCHANGED <<orders, effects, req, seq, found, receipts>>

LookupFindsOrder(h) ==
    /\ pc[h] = "lookup"
    /\ \E o \in RowsOf(req[h].uuid) : found' = [found EXCEPT ![h] = IdOf(o)]
    /\ StoreKey(req[h].uuid)
    /\ Goto(h, AfterFinding(h))
    /\ UNCHANGED <<orders, effects, req, seq, receipts>>

\* Variant: the key is claimed before there is an order.
LookupFindsNothing_ClaimsKey(h) ==
    /\ pc[h] = "lookup"
    /\ RowsOf(req[h].uuid) = {}
    /\ StoreKey(req[h].uuid)
    /\ Stay(h, "number")
    /\ UNCHANGED <<orders, effects, receipts>>

LookupFindsNothing(h) ==
    /\ pc[h] = "lookup"
    /\ RowsOf(req[h].uuid) = {}
    /\ Stay(h, "number")
    /\ UNCHANGED <<orders, effects, cached, receipts>>

\* generateOrderNumber counts the letter's orders and releases the advisory
\* lock in its finally block, before the order is inserted.  The lock itself
\* keeps nobody out: $executeRaw answers the row count of the SELECT, 1, also
\* when pg_try_advisory_lock is false.
\*
\* Variant: the count is taken after a number has been reserved.
TakeNumber_SkipsOne(h) ==
    /\ pc[h] = "number"
    /\ seq' = [seq EXCEPT ![h] = Cardinality(BookOf(req[h].letter)) + 2]
    /\ Goto(h, "insert")
    /\ UNCHANGED <<orders, effects, cached, req, found, receipts>>

TakeNumber(h) ==
    /\ pc[h] = "number"
    /\ seq' = [seq EXCEPT ![h] = Cardinality(BookOf(req[h].letter)) + 1]
    /\ Goto(h, "insert")
    /\ UNCHANGED <<orders, effects, cached, req, found, receipts>>

StatusAtInsertion(r) ==
    LET m == MethodOf[r.uuid]
    IN IF (r.path = "online" /\ m = "cash") \/ (r.path = "sync" /\ m # "qris")
       THEN "completed" ELSE "pending_sync"

\* createOrder goes on to stock for a completed order and to the charge for
\* qris and split (a split whose qris_amount is 0 is not charged);
\* createOrderWithCache only remembers the order.
AfterInsertion(r) ==
    IF r.path = "sync" THEN {"remember"}
    ELSE IF MethodOf[r.uuid] = "cash" THEN {"stock"}
    ELSE IF MethodOf[r.uuid] = "qris" THEN {"charge"}
    ELSE {"charge", "remember"}

\* The INSERT, under the unique constraints on client_uuid and order_number.
Insert(h) ==
    LET r == req[h]
        o == [uuid |-> r.uuid, letter |-> r.letter, number |-> seq[h],
              status |-> StatusAtInsertion(r)]
    IN /\ pc[h] = "insert"
       /\ ~UuidTaken(r.uuid)
       /\ ~NumberTaken(r.letter, seq[h])
       /\ orders' = orders \cup {o}
       /\ found' = [found EXCEPT ![h] = IdOf(o)]
       /\ \E step \in AfterInsertion(r) : Goto(h, step)
       /\ UNCHANGED <<effects, cached, req, seq, receipts>>

\* A handler that ends with an error: the client gets an error or no answer.
GiveUp(h) ==
    /\ Leave(h)
    /\ UNCHANGED <<orders, cached, receipts>>

\* The INSERT breaks a unique constraint (Prisma P2002): nothing catches it.
\*
\* Variant: the conflict is taken for a number that was lost and a new number
\* is drawn, without another look for the client_uuid.
InsertConflict_DrawsAgain(h) ==
    /\ pc[h] = "insert"
    /\ UuidTaken(req[h].uuid) \/ NumberTaken(req[h].letter, seq[h])
    /\ Stay(h, "number")
    /\ UNCHANGED <<orders, effects, cached, receipts>>

InsertConflict(h) ==
    /\ pc[h] = "insert"
    /\ \/ UuidTaken(req[h].uuid)
       \/ NumberTaken(req[h].letter, seq[h])
    /\ GiveUp(h)
    /\ UNCHANGED effects

\* A database error, a rejected input (unknown product, QRIS below the
\* minimum, split amounts that do not add up), or the process dies.
Interrupted(h) ==
    /\ pc[h] \in Steps
    /\ GiveUp(h)
    /\ UNCHANGED effects

\* reduceStockForOrder, awaited; a failure is logged and forgotten.
ReduceStock(h) ==
    LET u == req[h].uuid
    IN /\ pc[h] = "stock"
       /\ \/ stockRuns' = [stockRuns EXCEPT ![u] = @ + 1]
          \/ UNCHANGED stockRuns
       /\ Stay(h, IF u \in MemberSales THEN "points" ELSE "remember")
       /\ UNCHANGED <<orders, charges, awarded, cached, receipts>>

\* process_member_points; skipped by its cooldown or swallowed when it fails.
AwardPoints(h) ==
    LET u == req[h].uuid
    IN /\ pc[h] = "points"
       /\ awarded' \in {awarded, awarded \cup {u}}
       /\ Stay(h, IF req[h].path = "online" THEN "remember" ELSE "reply")
       /\ UNCHANGED <<orders, stockRuns, charges, cached, receipts>>

\* createQris: the charge is made.  With a QR code its reference is written to
\* payment_gateway_ref and createOrder returns at once, without storing the
\* idempotency key; without one it goes on.
Charge(h) ==
    /\ pc[h] = "charge"
    /\ charges' = [charges EXCEPT ![req[h].uuid] = @ + 1]
    /\ \E step \in {"reply", "remember"} : Stay(h, step)
    /\ UNCHANGED <<orders, stockRuns, awarded, cached, receipts>>

\* createQris throws, with the charge made or not, or its reference cannot be
\* written: production rethrows, the sandbox writes a mock reference and returns.
ChargeFails(h) ==
    /\ pc[h] = "charge"
    /\ \/ charges' = [charges EXCEPT ![req[h].uuid] = @ + 1]
       \/ UNCHANGED charges
    /\ Leave(h) \/ Stay(h, "reply")
    /\ UNCHANGED <<orders, stockRuns, awarded, cached, receipts>>

\* setIdempotencyKey for the order just created.
Remember(h) ==
    /\ pc[h] = "remember"
    /\ StoreKey(req[h].uuid)
    /\ Stay(h, IF req[h].path = "online" THEN "reply" ELSE "mark")
    /\ UNCHANGED <<orders, effects, receipts>>

\* processSingleOfflineOrder writes synced_from_offline, which no code reads,
\* and goes on to the points when the order it found or created is completed.
\* Variant: the status of the order is not looked at.
MarkSynced_AnyStatus(h) ==
    /\ pc[h] = "mark"
    /\ Stay(h, IF req[h].uuid \in MemberSales THEN "points" ELSE "reply")
    /\ UNCHANGED <<orders, effects, cached, receipts>>

MarkSynced(h) ==
    LET u == req[h].uuid
        done == \E o \in orders : IdOf(o) = found[h] /\ o.status = "completed"
    IN /\ pc[h] = "mark"
       /\ Stay(h, IF u \in MemberSales /\ done THEN "points" ELSE "reply")
       /\ UNCHANGED <<orders, effects, cached, receipts>>

\* { success: true, data: order } or { status: 'success', server_id }.
Reply(h) ==
    /\ pc[h] = "reply"
    /\ receipts' = receipts \cup {[uuid |-> req[h].uuid, id |-> found[h]]}
    /\ Leave(h)
    /\ UNCHANGED <<orders, effects, cached>>

\* A key expires (30 days), is evicted, or Redis loses its memory.
Forget(u) ==
    /\ u \in cached
    /\ cached' = cached \ {u}
    /\ UNCHANGED <<orders, effects, pc, req, seq, found, receipts>>

-----------------------------------------------------------------------------
Serve(h) ==
    \/ CacheHit(h) \/ CacheMiss(h)
    \/ LookupFindsOrder(h) \/ LookupFindsNothing(h)
    \/ TakeNumber(h) \/ Insert(h) \/ InsertConflict(h)
    \/ ReduceStock(h) \/ AwardPoints(h)
    \/ Charge(h) \/ ChargeFails(h)
    \/ Remember(h) \/ MarkSynced(h) \/ Reply(h)

Next ==
    \/ \E h \in Handlers :
          \/ \E u \in Uuids, l \in Letters, p \in Paths : Receive(h, u, l, p)
          \/ Serve(h)
          \/ Interrupted(h)
    \/ \E u \in Uuids : Forget(u)

Spec == Init /\ [][Next]_vars

FairSpec == Spec /\ \A h \in Handlers : WF_vars(Serve(h))

-----------------------------------------------------------------------------
(* Safety *)

\* The numbers of a letter's orders are 1..n without a gap or a repetition,
\* although generateOrderNumber only counts rows and its lock excludes nobody:
\* a count that is overtaken meets the unique order_number and is given up.
BookIsGapless ==
    \A l \in Letters : {o.number : o \in BookOf(l)} = 1..Cardinality(BookOf(l))

\* Whatever is retried or raced, a client that is told "success" is told of an
\* order that exists and is its own, and every answer about one client_uuid
\* names the same order (createOrder, processSingleOfflineOrder).
AnswersAgree ==
    \A r \in receipts :
        /\ \E o \in orders : o.uuid = r.uuid /\ IdOf(o) = r.id
        /\ \A s \in receipts : s.uuid = r.uuid => s.id = r.id

\* Redis never vouches for an order that is not in the table: the key of
\* setIdempotencyKey outlives crashes, so it may only follow the INSERT.
CacheOnlyOfOrders == \A u \in cached : \E o \in orders : o.uuid = u

\* Creating, retrying and syncing the same sale moves stock at most once and
\* charges QRIS at most once, and does neither for a sale without an order.
EffectsAtMostOnce ==
    \A u \in Uuids :
        /\ stockRuns[u] + charges[u] =< 1
        /\ stockRuns[u] + charges[u] = 1 => \E o \in orders : o.uuid = u

\* Points are only given for the recorded, completed sale of a member, on
\* whichever path the sale came and however its requests were interleaved: an
\* unpaid QRIS order earns nothing by being synced again.
PointsOnlyOfCompleted ==
    \A u \in awarded : u \in MemberSales
                       /\ \E o \in orders : o.uuid = u /\ o.status = "completed"

\* The sale at a number of a letter's book, for the abstract specification.
SaleOf(os) == IF os = {} THEN None ELSE (CHOOSE o \in os : TRUE).uuid

EntryAt(l, n) == SaleOf({o \in BookOf(l) : o.number = n})

Book == INSTANCE OrderBook WITH
            book <- [l \in Letters |->
                        [n \in 1..Cardinality(BookOf(l)) |-> EntryAt(l, n)]]

\* The order table and the answers implement the append-only order book.
ImplementsOrderBook == Book!Spec

(* Liveness *)

\* No request is kept for ever: neither the lock retries nor a lost race keep
\* a handler from answering or failing.
EveryRequestEnds == \A h \in Handlers : pc[h] = "cache" ~> pc[h] = "idle"

-----------------------------------------------------------------------------
(* What the repository says, and the code does not do *)

\* 0002-use-prisma-orm.md:43 "multi-table writes (e.g., order + stock
\* deduction)" are one transaction: once nobody is serving the sale, a
\* completed order has had its stock deducted.
CompletedOrderMovedStock ==
    \A o \in orders :
        (o.status = "completed" /\ \A h \in Handlers : req[h].uuid # o.uuid)
            => stockRuns[o.uuid] = 1
=============================================================================
