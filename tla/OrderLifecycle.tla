---------------------------- MODULE OrderLifecycle ----------------------------
(***************************************************************************)
(* What happens to an order after it has been created: Midtrans reports on  *)
(* its QRIS charge (OrdersService.handleMidtransWebhook), an admin voids it  *)
(* directly or by approving a request (voidOrder, requestVoidApproval,       *)
(* approveVoidRequest, rejectVoidRequest, executeVoid), and a cron job voids *)
(* the charges nobody paid (finance.cron checkExpiredQrisOrders).            *)
(*                                                                         *)
(* All of these write the same row, none of them under a condition, and     *)
(* every awaited call is one action.  Notifications may be repeated, late,   *)
(* reordered or never come; Redis may lose the key that marks a transaction  *)
(* as processed; the database may fail and the process may die between any   *)
(* two steps.                                                                *)
(***************************************************************************)
EXTENDS Naturals, FiniteSets

CONSTANTS
    Orders,        \* the orders under study
    Charged,       \* those with a QRIS charge (qris and split); the rest is cash
    WithExpiry,    \* those whose qris_expiry_at column has a value (no code of the
                   \* backend writes it; a row may get one from outside)
    Workers,       \* requests and jobs the backend may be running at once
    VoidApproval,  \* the values FEATURE_VOID_APPROVAL takes (it can be toggled)
    Ageing,        \* whether time passes
    Stamps,        \* what a notification says of its time (see Accepted)
    Faults         \* what may go wrong: "crash", "error", "forget"

ASSUME LifecycleAssumption ==
    /\ Charged \subseteq Orders
    /\ WithExpiry \subseteq Charged
    /\ VoidApproval \subseteq BOOLEAN
    /\ Ageing \in BOOLEAN
    /\ Stamps \subseteq {"true", "none", "ahead"} /\ Stamps # {}
    /\ Faults \subseteq {"crash", "error", "forget"}

VARIABLES
    status, payment, \* the columns status and payment_status
    voidedBy,        \* the orders with voided_by set
    stockOut,        \* times reduceStockForOrder went through
    stockBack,       \* times restoreStockForOrder went through
    refunds,         \* OrderRefund rows of the order
    request,         \* status of its VoidApprovalRequest row
    approved,        \* the orders an admin has ever approved the void of
    txn, age,        \* the transaction at Midtrans, and how old it is
    notices,         \* notifications Midtrans has sent (it may send them again)
    processed,       \* the orders with a webhook:midtrans:<transaction> key
    dlq,             \* the orders with an entry in the dead letter queue
    unqueued,        \* orders a webhook of which broke off without such an entry
    unvoided,        \* orders a void of which broke off
    launched,        \* settlements that launched reduceStockForOrder
    reducing,        \* launched reductions that have not ended
    pc, job,         \* where each worker is, and what it works on
    seen             \* the status of the order when the worker read it

order   == <<status, payment, voidedBy>>
stock   == <<stockOut, stockBack, reducing>>
gateway == <<txn, age, notices>>
brokenOff == <<unqueued, unvoided>>
webhook == <<processed, dlq, launched, brokenOff>>
locals  == <<pc, job, seen>>
vars == <<order, stock, refunds, request, approved, gateway, webhook, locals>>

Cash == Orders \ Charged

Statuses == {"pending_sync", "completed", "voided"}
Payments == {"paid", "unpaid", "expire", "failed", "expired"}
Events   == {"pending", "settlement", "expire", "cancel"}
Ages     == {"fresh", "late", "over"}
Requests == {"none", "pending", "approved", "rejected"}

WebhookSteps == {"key", "find", "update", "audit", "setKey"}
VoidSteps    == {"void", "restore", "setVoided", "refund"}
RequestSteps == {"ask", "look", "create", "approve", "setApproved", "reject", "setRejected"}
CronSteps    == {"expired", "giveBack", "setExpired"}
Steps        == WebhookSteps \cup VoidSteps \cup RequestSteps \cup CronSteps

Notice == [order: Orders, event: Events]
NoJob  == [order |-> "none", event |-> "none"]
Job    == [order: Orders, event: Events \cup {"none"}]

\* Named bound: counters are exact up to Limit and stay there.
Limit == 2
More(n) == IF n < Limit THEN n + 1 ELSE n

TypeOK ==
    /\ status \in [Orders -> Statuses]
    /\ payment \in [Orders -> Payments]
    /\ voidedBy \subseteq Orders
    /\ stockOut \in [Orders -> 0..Limit]
    /\ stockBack \in [Orders -> 0..Limit]
    /\ refunds \in [Orders -> 0..Limit]
    /\ request \in [Orders -> Requests]
    /\ approved \subseteq Orders
    /\ txn \in [Orders -> Events \cup {"none"}]
    /\ age \in [Orders -> Ages]
    /\ notices \subseteq Notice
    /\ processed \subseteq Orders
    /\ dlq \subseteq Orders
    /\ unqueued \subseteq Orders /\ unvoided \subseteq Orders
    /\ launched \in [Orders -> 0..Limit]
    /\ reducing \in [Orders -> 0..Limit]
    /\ pc \in [Workers -> Steps \cup {"idle"}]
    /\ job \in [Workers -> Job \cup {NoJob}]
    /\ seen \in [Workers -> Statuses \cup {"none"}]

-----------------------------------------------------------------------------
\* The orders as createOrder left them: a cash order is completed, with its
\* stock deducted or not (the deduction may fail, and a synced order has none);
\* a charged order waits for Midtrans.
Init ==
    /\ status = [o \in Orders |-> IF o \in Cash THEN "completed" ELSE "pending_sync"]
    /\ payment = [o \in Orders |-> IF o \in Cash THEN "paid" ELSE "unpaid"]
    /\ voidedBy = {}
    /\ stockOut \in {f \in [Orders -> {0, 1}] : \A o \in Charged : f[o] = 0}
    /\ stockBack = [o \in Orders |-> 0]
    /\ refunds = [o \in Orders |-> 0]
    /\ request = [o \in Orders |-> "none"]
    /\ approved = {}
    /\ txn = [o \in Orders |-> IF o \in Charged THEN "pending" ELSE "none"]
    /\ age = [o \in Orders |-> "fresh"]
    /\ notices = [order: Charged, event: {"pending"}]
    /\ processed = {}
    /\ dlq = {} /\ unqueued = {} /\ unvoided = {}
    /\ launched = [o \in Orders |-> 0]
    /\ reducing = [o \in Orders |-> 0]
    /\ pc = [w \in Workers |-> "idle"]
    /\ job = [w \in Workers |-> NoJob]
    /\ seen = [w \in Workers |-> "none"]

Goto(w, step) == pc' = [pc EXCEPT ![w] = step] /\ UNCHANGED <<job, seen>>

Start(w, step, o, event) ==
    /\ pc[w] = "idle"
    /\ pc' = [pc EXCEPT ![w] = step]
    /\ job' = [job EXCEPT ![w] = [order |-> o, event |-> event]]
    /\ UNCHANGED <<order, stock, refunds, request, approved, gateway, webhook, seen>>

\* The handler returns, or throws to its caller.
Leave(w) ==
    /\ pc' = [pc EXCEPT ![w] = "idle"]
    /\ job' = [job EXCEPT ![w] = NoJob]
    /\ seen' = [seen EXCEPT ![w] = "none"]

Continue(w, more, step) == IF more THEN Goto(w, step) ELSE Leave(w)

-----------------------------------------------------------------------------
(* Midtrans *)

\* The customer pays, the charge is cancelled or denied, or it expires; the
\* notification is sent, and from then on may arrive at any time.
Report(o, event) ==
    /\ txn[o] = "pending"
    /\ event \in (IF age[o] = "over" THEN {"expire", "cancel"}
                                     ELSE {"settlement", "expire", "cancel"})
    /\ txn' = [txn EXCEPT ![o] = event]
    /\ notices' = notices \cup {[order |-> o, event |-> event]}
    /\ UNCHANGED <<order, stock, refunds, request, approved, age, webhook, locals>>

\* WEBHOOK_TIMESTAMP_TOLERANCE_MS (5 minutes) and then QRIS_EXPIRY_SECONDS (15)
\* have passed since the charge was made.
Older(o) ==
    /\ Ageing
    /\ o \in Charged
    /\ \/ age[o] = "fresh" /\ age' = [age EXCEPT ![o] = "late"]
       \/ age[o] = "late" /\ age' = [age EXCEPT ![o] = "over"]
    /\ UNCHANGED <<order, stock, refunds, request, approved, txn, notices, webhook, locals>>

\* verifyWebhookSignature: a notification says when its transaction was created,
\* and is refused once that is more than five minutes ago ("true"), or when it is
\* more than a minute ahead of the backend's clock ("ahead").  One without a time,
\* or with one that cannot be read, is taken in however old it is ("none").
Accepted(o, stamp) ==
    CASE stamp = "true" -> age[o] = "fresh"
      [] stamp = "ahead" -> FALSE
      [] stamp = "none" -> TRUE

-----------------------------------------------------------------------------
(* handleMidtransWebhook *)

Deliver(w, n) == n \in notices /\ Start(w, "key", n.order, n.event)

\* The processed key and the signature.
\* Variant: the key is claimed before the notification is processed.
CheckKey_ClaimsKey(w) ==
    LET o == job[w].order
    IN /\ pc[w] = "key"
       /\ \E stamp \in Stamps :
             /\ Continue(w, o \notin processed /\ Accepted(o, stamp), "find")
             /\ processed' = IF Accepted(o, stamp) THEN processed \cup {o} ELSE processed
       /\ UNCHANGED <<order, stock, refunds, request, approved, gateway, dlq, launched, brokenOff>>

CheckKey(w) ==
    LET o == job[w].order
    IN /\ pc[w] = "key"
       /\ \E stamp \in Stamps : Continue(w, o \notin processed /\ Accepted(o, stamp), "find")
       /\ UNCHANGED <<order, stock, refunds, request, approved, gateway, webhook>>

FindOrder(w) ==
    /\ pc[w] = "find"
    /\ seen' = [seen EXCEPT ![w] = status[job[w].order]]
    /\ pc' = [pc EXCEPT ![w] = "update"]
    /\ UNCHANGED <<order, stock, refunds, request, approved, gateway, webhook, job>>

\* Variant: the pending notification is taken for a success.
NewStatus_PendingIsDone(event) ==
    CASE event \in {"settlement", "pending"} -> "completed"
      [] event \in {"expire", "cancel"} -> "voided"

NewStatus(event) ==
    CASE event = "settlement" -> "completed"
      [] event = "pending" -> "pending_sync"
      [] event \in {"expire", "cancel"} -> "voided"

\* Variant: Midtrans' own word is stored.
NewPayment_AsReported(event) == event

NewPayment(event) ==
    CASE event = "settlement" -> "paid"
      [] event = "pending" -> "unpaid"
      [] event = "expire" -> "expire"
      [] event = "cancel" -> "failed"

\* The row is updated whatever it has become since it was read, and the rest is
\* for an order that was not completed when it was read.
\* Variant: the rest is for an order that was still pending.
Update_OnlyPending(w) ==
    LET o == job[w].order
        e == job[w].event
    IN /\ pc[w] = "update"
       /\ status' = [status EXCEPT ![o] = NewStatus(e)]
       /\ payment' = [payment EXCEPT ![o] = NewPayment(e)]
       /\ Continue(w, seen[w] = "pending_sync" /\ NewStatus(e) = "completed", "audit")
       /\ UNCHANGED <<voidedBy, stock, refunds, request, approved, gateway, webhook>>

Update(w) ==
    LET o == job[w].order
        e == job[w].event
    IN /\ pc[w] = "update"
       /\ status' = [status EXCEPT ![o] = NewStatus(e)]
       /\ payment' = [payment EXCEPT ![o] = NewPayment(e)]
       /\ Continue(w, seen[w] # "completed" /\ NewStatus(e) = "completed", "audit")
       /\ UNCHANGED <<voidedBy, stock, refunds, request, approved, gateway, webhook>>

\* The audit entry is written and reduceStockForOrder started without waiting.
\* (Member points, whose errors are swallowed, are left to another module.)
Launch(w) ==
    LET o == job[w].order
    IN /\ pc[w] = "audit"
       /\ launched' = [launched EXCEPT ![o] = More(@)]
       /\ reducing' = [reducing EXCEPT ![o] = More(@)]
       /\ Goto(w, "setKey")
       /\ UNCHANGED <<order, stockOut, stockBack, refunds, request, approved,
                      gateway, processed, dlq, brokenOff>>

\* Variant: the key is never written.
SetKey_Forgotten(w) ==
    /\ pc[w] = "setKey"
    /\ Leave(w)
    /\ UNCHANGED <<order, stock, refunds, request, approved, gateway, webhook>>

SetKey(w) ==
    /\ pc[w] = "setKey"
    /\ processed' = processed \cup {job[w].order}
    /\ Leave(w)
    /\ UNCHANGED <<order, stock, refunds, request, approved, gateway, dlq, launched, brokenOff>>

\* A query throws: the notification goes to the dead letter queue, or that insert
\* fails too and is only logged; Midtrans is answered 200 either way, so that it
\* does not come again.  No code retries the entry.  (The RedisService catches its
\* own errors, at the first step and the last.)
\* Variant: the failure is only logged.
Fail_OnlyLogged(w) ==
    /\ "error" \in Faults
    /\ pc[w] \in {"find", "update", "audit"}
    /\ Leave(w)
    /\ UNCHANGED <<order, stock, refunds, request, approved, gateway, webhook>>

Fail(w) ==
    /\ "error" \in Faults
    /\ pc[w] \in {"find", "update", "audit"}
    /\ \/ dlq' = dlq \cup {job[w].order} /\ UNCHANGED unqueued
       \/ unqueued' = unqueued \cup {job[w].order} /\ UNCHANGED dlq
    /\ Leave(w)
    /\ UNCHANGED <<order, stock, refunds, request, approved, gateway, processed, launched,
                   unvoided>>

\* A launched reduction goes through, or its error is logged.
Reduce(o) ==
    /\ reducing[o] > 0
    /\ reducing' = [reducing EXCEPT ![o] = @ - 1]
    /\ stockOut' \in {stockOut, [stockOut EXCEPT ![o] = More(@)]}
    /\ UNCHANGED <<order, stockBack, refunds, request, approved, gateway, webhook, locals>>

\* The key's day is over, or it was in the memory of a process that is gone.
Forget(o) ==
    /\ "forget" \in Faults
    /\ o \in processed
    /\ processed' = processed \ {o}
    /\ UNCHANGED <<order, stock, refunds, request, approved, gateway, dlq, launched, brokenOff,
                   locals>>

-----------------------------------------------------------------------------
(* Voiding *)

\* voidOrder: the flag decides between executeVoid and requestVoidApproval.
VoidOrder(w, o) ==
    \E on \in VoidApproval : Start(w, IF on THEN "ask" ELSE "void", o, "none")

\* executeVoid reads the order ...
ReadForVoid(w) ==
    /\ pc[w] = "void"
    /\ Continue(w, status[job[w].order] # "voided", "restore")
    /\ UNCHANGED <<order, stock, refunds, request, approved, gateway, webhook>>

\* ... restores its stock, whose error it swallows ...
Restore(w, here, next) ==
    /\ pc[w] = here
    /\ stockBack' \in {stockBack, [stockBack EXCEPT ![job[w].order] = More(@)]}
    /\ Goto(w, next)
    /\ UNCHANGED <<order, stockOut, reducing, refunds, request, approved, gateway, webhook>>

\* ... updates the row, whatever it has become ...
\* Variant: only the payment is undone, as if the status told of the sale alone.
SetVoided_KeepsStatus(w) ==
    /\ pc[w] = "setVoided"
    /\ payment' = [payment EXCEPT ![job[w].order] = "failed"]
    /\ voidedBy' = voidedBy \cup {job[w].order}
    /\ Goto(w, "refund")
    /\ UNCHANGED <<status, stock, refunds, request, approved, gateway, webhook>>

SetVoided(w) ==
    /\ pc[w] = "setVoided"
    /\ status' = [status EXCEPT ![job[w].order] = "voided"]
    /\ payment' = [payment EXCEPT ![job[w].order] = "failed"]
    /\ voidedBy' = voidedBy \cup {job[w].order}
    /\ Goto(w, "refund")
    /\ UNCHANGED <<stock, refunds, request, approved, gateway, webhook>>

\* ... and records a refund of the whole amount.
Refund(w) ==
    /\ pc[w] = "refund"
    /\ refunds' = [refunds EXCEPT ![job[w].order] = More(@)]
    /\ Leave(w)
    /\ UNCHANGED <<order, stock, request, approved, gateway, webhook>>

\* requestVoidApproval reads the order ...
Ask(w) ==
    /\ pc[w] = "ask"
    /\ Continue(w, status[job[w].order] # "voided", "look")
    /\ UNCHANGED <<order, stock, refunds, request, approved, gateway, webhook>>

\* ... looks for a request of it that is still open ...
LookForRequest(w) ==
    /\ pc[w] = "look"
    /\ Continue(w, request[job[w].order] # "pending", "create")
    /\ UNCHANGED <<order, stock, refunds, request, approved, gateway, webhook>>

\* ... and inserts one; order_id is unique, so a second insert is refused.
CreateRequest(w) ==
    LET o == job[w].order
    IN /\ pc[w] = "create"
       /\ request' = IF request[o] = "none" THEN [request EXCEPT ![o] = "pending"]
                                            ELSE request
       /\ Leave(w)
       /\ UNCHANGED <<order, stock, refunds, approved, gateway, webhook>>

\* approveVoidRequest and rejectVoidRequest read the request ...
ReadRequest(w, here, next) ==
    /\ pc[w] = here
    /\ Continue(w, request[job[w].order] = "pending", next)
    /\ UNCHANGED <<order, stock, refunds, request, approved, gateway, webhook>>

\* ... and resolve it, whatever it has become; the approval goes on to executeVoid.
\* Variant: the approval is recorded and the void left to somebody else.
SetApproved_Only(w) ==
    /\ pc[w] = "setApproved"
    /\ request' = [request EXCEPT ![job[w].order] = "approved"]
    /\ approved' = approved \cup {job[w].order}
    /\ Leave(w)
    /\ UNCHANGED <<order, stock, refunds, gateway, webhook>>

SetApproved(w) ==
    /\ pc[w] = "setApproved"
    /\ request' = [request EXCEPT ![job[w].order] = "approved"]
    /\ approved' = approved \cup {job[w].order}
    /\ Goto(w, "void")
    /\ UNCHANGED <<order, stock, refunds, gateway, webhook>>

\* Variant: a rejection goes on like an approval.
SetRejected_Voids(w) ==
    /\ pc[w] = "setRejected"
    /\ request' = [request EXCEPT ![job[w].order] = "rejected"]
    /\ Goto(w, "void")
    /\ UNCHANGED <<order, stock, refunds, approved, gateway, webhook>>

SetRejected(w) ==
    /\ pc[w] = "setRejected"
    /\ request' = [request EXCEPT ![job[w].order] = "rejected"]
    /\ Leave(w)
    /\ UNCHANGED <<order, stock, refunds, approved, gateway, webhook>>

-----------------------------------------------------------------------------
(* checkExpiredQrisOrders; FEATURE_QRIS_EXPIRY_ENFORCEMENT is enabled *)

Unpaid(o) == status[o] = "pending_sync" /\ payment[o] = "unpaid"

\* The cron's query: qris_expiry_at is not null and has passed.
ListExpired(w) ==
    LET o == job[w].order
    IN /\ pc[w] = "expired"
       /\ Continue(w, Unpaid(o) /\ o \in WithExpiry /\ age[o] = "over", "giveBack")
       /\ UNCHANGED <<order, stock, refunds, request, approved, gateway, webhook>>

\* voidExpiredQrisOrder restores the stock and voids what was listed.
SetExpired(w) ==
    LET o == job[w].order
    IN /\ pc[w] = "setExpired"
       /\ status' = [status EXCEPT ![o] = "voided"]
       /\ payment' = [payment EXCEPT ![o] = "expired"]
       /\ voidedBy' = voidedBy \ {o}
       /\ Leave(w)
       /\ UNCHANGED <<stock, refunds, request, approved, gateway, webhook>>

-----------------------------------------------------------------------------
\* A query of a void, of a request or of the cron throws, and the caller is told;
\* what was written before stays.  (Only the errors of restoring are swallowed.)
QueryFails(w) ==
    /\ "error" \in Faults
    /\ pc[w] \in (VoidSteps \cup RequestSteps \cup CronSteps) \ {"restore", "giveBack"}
    /\ unvoided' = IF pc[w] \in VoidSteps THEN unvoided \cup {job[w].order} ELSE unvoided
    /\ Leave(w)
    /\ UNCHANGED <<order, stock, refunds, request, approved, gateway, processed, dlq, launched,
                   unqueued>>

\* The process dies between two steps.
Interrupted(w) ==
    /\ "crash" \in Faults
    /\ pc[w] \in Steps
    /\ unqueued' = IF pc[w] \in WebhookSteps THEN unqueued \cup {job[w].order} ELSE unqueued
    /\ unvoided' = IF pc[w] \in VoidSteps THEN unvoided \cup {job[w].order} ELSE unvoided
    /\ Leave(w)
    /\ UNCHANGED <<order, stock, refunds, request, approved, gateway, processed, dlq, launched>>

Work(w) ==
    \/ CheckKey(w) \/ FindOrder(w) \/ Update(w) \/ Launch(w) \/ SetKey(w)
    \/ ReadForVoid(w) \/ Restore(w, "restore", "setVoided") \/ SetVoided(w) \/ Refund(w)
    \/ Ask(w) \/ LookForRequest(w) \/ CreateRequest(w)
    \/ ReadRequest(w, "approve", "setApproved") \/ SetApproved(w)
    \/ ReadRequest(w, "reject", "setRejected") \/ SetRejected(w)
    \/ ListExpired(w) \/ Restore(w, "giveBack", "setExpired") \/ SetExpired(w)

Begin(w) ==
    \/ \E n \in notices : Deliver(w, n)
    \/ \E o \in Orders : VoidOrder(w, o)
    \/ \E o \in Orders, step \in {"approve", "reject", "expired"} : Start(w, step, o, "none")

Next ==
    \/ \E w \in Workers : Begin(w) \/ Work(w) \/ Fail(w) \/ QueryFails(w) \/ Interrupted(w)
    \/ \E o \in Orders : Older(o) \/ Reduce(o) \/ Forget(o) \/ \E e \in Events : Report(o, e)

Spec == Init /\ [][Next]_vars

\* A running handler goes on; Midtrans repeats a notification until it has been
\* taken in; the cron comes again; and time passes (if it does).
FairSpec ==
    /\ Spec
    /\ \A w \in Workers : WF_vars(Work(w))
    /\ \A o \in Charged :
          /\ WF_vars(Older(o))
          /\ WF_vars(age[o] = "over" /\ Report(o, "expire"))
          /\ SF_vars(\E w \in Workers : Start(w, "expired", o, "none"))
          /\ \A e \in Events \ {"pending"} :
                SF_vars(\E w \in Workers : Deliver(w, [order |-> o, event |-> e]))

-----------------------------------------------------------------------------
(* Safety *)

\* No charged order is paid, and no stock is moved for it, unless Midtrans
\* reported the settlement of its charge: whatever notifications come, in
\* whatever order, and whoever voids the order in between.
PaidOnlyIfSettled ==
    \A o \in Charged :
        (payment[o] = "paid" \/ launched[o] > 0) => txn[o] = "settlement"

\* A transaction is only marked as processed, so that its notifications are
\* ignored from then on, when its stock reduction has been started.
KeyMeansLaunched == \A o \in processed : launched[o] > 0

Busy(o) == \E w \in Workers : job[w].order = o

\* When the database fails in the middle of a settlement, the order may be
\* completed without its stock reduction and a repeated notification will not
\* make up for it; but the dead letter queue then has an entry of the order,
\* unless the insert of that entry failed too or the process died.
LostEffectsAreInDlq ==
    \A o \in Charged :
        (status[o] = "completed" /\ launched[o] = 0 /\ ~Busy(o)) => o \in dlq \cup unqueued

\* Served one at a time, and as long as the key is kept, the notifications of a
\* settled charge start one stock reduction, however often and in whatever
\* order they come (orders.service.ts:908 "prevent duplicate processing").
StockLaunchedOnce == \A o \in Orders : launched[o] =< 1

\* ... and a completed order leaves that status only when an admin voids it, not
\* because a notification comes late or again.
CompletedIsFinal ==
    [][\A o \in Orders :
           (status[o] = "completed" /\ status'[o] # "completed") => o \in voidedBy']_vars

\* Voided one at a time, a cash order is refunded at most once (the test at
\* orders.service.spec.ts:1029 expects a second void to be refused).
CashRefundedOnce == \A o \in Cash : refunds[o] =< 1

\* With the flag on, every void and every refund was approved by an admin.
VoidNeedsApproval ==
    FALSE \notin VoidApproval => \A o \in Orders :
        (o \in voidedBy \/ refunds[o] > 0) => o \in approved

\* An approval is carried out: once nobody works on the order, its refund is
\* recorded - unless Midtrans had ended the charge before, and its notification
\* voided the order between the approval and the void, or a void of it broke off
\* (a query of executeVoid threw, or the process died), which leaves it approved.
ApprovedIsRefunded ==
    \A o \in Orders :
        (request[o] = "approved" /\ ~Busy(o)) =>
            refunds[o] > 0 \/ txn[o] \in {"expire", "cancel"} \/ o \in unvoided

(* Liveness *)

\* A payment the customer made takes effect (PAYMENT_TESTING.md:89 "Order
\* status updates to `completed`", after the charge is processed).
SettlementTakesEffect == \A o \in Charged : txn[o] = "settlement" ~> launched[o] > 0
=============================================================================
