------------------------- MODULE OrderLifecycleProofs -------------------------
(* What OrderLifecycle guarantees for any orders and any number of workers. *)
EXTENDS OrderLifecycle, TLAPS

-----------------------------------------------------------------------------
(* Type correctness *)

\* A worker that is busy works on an order, and at the steps of a webhook on a
\* notification Midtrans has sent.
Working ==
    \A w \in Workers :
        /\ pc[w] \in Steps => job[w] \in Job
        /\ pc[w] \in WebhookSteps => job[w] \in notices

TypeInv ==
    /\ TypeOK
    /\ Working
    /\ \A n \in notices : n.order \in Charged
    /\ \A o \in Cash : txn[o] = "none"

LEMMA TypeInit == Init => TypeInv
BY LifecycleAssumption DEF Init, TypeInv, TypeOK, Working, Cash, Statuses, Payments, Events,
   Ages, Requests, Steps, WebhookSteps, VoidSteps, RequestSteps, CronSteps, Notice, Limit

LEMMA MoreIsBounded == \A n \in 0..Limit : More(n) \in 0..Limit /\ More(n) > 0
BY DEF More, Limit

\* What an event makes of an order.
LEMMA NewValues ==
    ASSUME NEW e \in Events
    PROVE  /\ NewStatus(e) \in Statuses
           /\ NewPayment(e) \in Payments
           /\ NewStatus(e) = "completed" => e = "settlement"
           /\ NewPayment(e) = "paid" => e = "settlement"
<1>1. CASE e = "settlement"
    BY <1>1 DEF NewStatus, NewPayment, Statuses, Payments
<1>2. CASE e = "pending"
    BY <1>2 DEF NewStatus, NewPayment, Statuses, Payments
<1>3. CASE e = "expire"
    BY <1>3 DEF NewStatus, NewPayment, Statuses, Payments
<1>4. CASE e = "cancel"
    BY <1>4 DEF NewStatus, NewPayment, Statuses, Payments
<1>5. QED
    BY <1>1, <1>2, <1>3, <1>4 DEF Events

\* What a worker holds when it goes on to another step of its job.
LEMMA TypeGoto ==
    ASSUME TypeInv, NEW w \in Workers, NEW step \in Steps, Goto(w, step),
           UNCHANGED notices, pc[w] \in Steps,
           step \in WebhookSteps => pc[w] \in WebhookSteps
    PROVE  /\ pc' \in [Workers -> Steps \cup {"idle"}]
           /\ job' \in [Workers -> Job \cup {NoJob}]
           /\ seen' \in [Workers -> Statuses \cup {"none"}]
           /\ Working'
BY DEF TypeInv, TypeOK, Working, Goto

LEMMA TypeLeave ==
    ASSUME TypeInv, NEW w \in Workers, Leave(w), UNCHANGED notices
    PROVE  /\ pc' \in [Workers -> Steps \cup {"idle"}]
           /\ job' \in [Workers -> Job \cup {NoJob}]
           /\ seen' \in [Workers -> Statuses \cup {"none"}]
           /\ Working'
BY DEF TypeInv, TypeOK, Working, Leave, Steps, WebhookSteps, VoidSteps, RequestSteps, CronSteps

LEMMA TypeContinue ==
    ASSUME TypeInv, NEW w \in Workers, NEW more, NEW step \in Steps, Continue(w, more, step),
           UNCHANGED notices, pc[w] \in Steps,
           step \in WebhookSteps => pc[w] \in WebhookSteps
    PROVE  /\ pc' \in [Workers -> Steps \cup {"idle"}]
           /\ job' \in [Workers -> Job \cup {NoJob}]
           /\ seen' \in [Workers -> Statuses \cup {"none"}]
           /\ Working'
BY TypeGoto, TypeLeave DEF Continue

LEMMA TypeBegin ==
    ASSUME TypeInv, NEW w \in Workers, Begin(w)
    PROVE  TypeInv'
<1> USE DEF TypeInv, TypeOK, Working, Start, order, stock, gateway, webhook, brokenOff
<1>1. ASSUME NEW n \in notices, Deliver(w, n) PROVE TypeInv'
  <2>1. n \in Job /\ n = [order |-> n.order, event |-> n.event]
      BY DEF Notice, Job
  <2> QED BY <1>1, <2>1 DEF Deliver, Steps, WebhookSteps
<1>2. ASSUME NEW o \in Orders, NEW step \in (Steps \ WebhookSteps), Start(w, step, o, "none")
      PROVE  TypeInv'
  <2>1. [order |-> o, event |-> "none"] \in Job
      BY DEF Job
  <2> QED BY <1>2, <2>1
<1>3. {"ask", "void", "approve", "reject", "expired"} \subseteq Steps \ WebhookSteps
    BY DEF Steps, WebhookSteps, VoidSteps, RequestSteps, CronSteps
<1>4. ASSUME NEW o \in Orders, VoidOrder(w, o) PROVE TypeInv'
  <2>1. PICK step \in {"ask", "void"} : Start(w, step, o, "none")
      BY <1>4 DEF VoidOrder
  <2> QED BY <1>2, <1>3, <2>1
<1>5. QED
    BY <1>1, <1>2, <1>3, <1>4 DEF Begin

\* The job of a worker that is at a step.
LEMMA JobOfWorker ==
    ASSUME TypeInv, NEW w \in Workers, pc[w] \in Steps
    PROVE  /\ job[w].order \in Orders
           /\ pc[w] \in WebhookSteps =>
                /\ job[w].order \in Charged
                /\ job[w].event \in Events
                /\ job[w] \in notices
BY DEF TypeInv, TypeOK, Working, Job, Notice

LEMMA TypeWebhook ==
    ASSUME TypeInv, NEW w \in Workers,
           CheckKey(w) \/ FindOrder(w) \/ Update(w) \/ Launch(w) \/ SetKey(w) \/ Fail(w)
    PROVE  TypeInv'
<1> USE DEF order, stock, gateway, webhook, brokenOff, Steps, WebhookSteps
<1> DEFINE o == job[w].order
<1>1. pc[w] \in WebhookSteps /\ o \in Orders /\ job[w].event \in Events
    BY JobOfWorker DEF CheckKey, FindOrder, Update, Launch, SetKey, Fail
<1>2. CASE CheckKey(w)
    BY <1>1, <1>2, TypeContinue DEF CheckKey, TypeInv, TypeOK
<1>3. CASE FindOrder(w)
    BY <1>1, <1>3 DEF FindOrder, TypeInv, TypeOK, Working
<1>4. CASE Update(w)
    BY <1>1, <1>4, TypeContinue, NewValues DEF Update, TypeInv, TypeOK
<1>5. CASE Launch(w)
    BY <1>1, <1>5, TypeGoto, MoreIsBounded DEF Launch, TypeInv, TypeOK
<1>6. CASE SetKey(w)
    BY <1>1, <1>6, TypeLeave DEF SetKey, TypeInv, TypeOK
<1>7. CASE Fail(w)
    BY <1>1, <1>7, TypeLeave DEF Fail, TypeInv, TypeOK
<1>8. QED
    BY <1>2, <1>3, <1>4, <1>5, <1>6, <1>7

LEMMA TypeRestore ==
    ASSUME TypeInv, NEW w \in Workers, NEW here \in Steps, NEW next \in Steps \ WebhookSteps,
           Restore(w, here, next)
    PROVE  TypeInv'
<1>1. job[w].order \in Orders
    BY JobOfWorker DEF Restore
<1>2. stockBack' \in [Orders -> 0..Limit]
    BY <1>1, MoreIsBounded DEF Restore, TypeInv, TypeOK
<1>3. QED
    BY <1>2, TypeGoto DEF Restore, TypeInv, TypeOK, order, gateway, webhook, brokenOff

LEMMA TypeRead ==
    ASSUME TypeInv, NEW w \in Workers, NEW here \in Steps, NEW next \in Steps \ WebhookSteps,
           ReadRequest(w, here, next)
    PROVE  TypeInv'
BY TypeContinue DEF ReadRequest, TypeInv, TypeOK, order, stock, gateway, webhook, brokenOff

LEMMA TypeOther ==
    ASSUME TypeInv, NEW w \in Workers,
           \/ ReadForVoid(w) \/ SetVoided(w) \/ Refund(w) \/ Ask(w) \/ LookForRequest(w) \/ CreateRequest(w)
           \/ SetApproved(w) \/ SetRejected(w) \/ ListExpired(w) \/ SetExpired(w)
           \/ QueryFails(w) \/ Interrupted(w)
    PROVE  TypeInv'
<1> USE DEF order, stock, gateway, webhook, brokenOff
<1> DEFINE o == job[w].order
<1>0. {"restore", "refund", "look", "create", "void", "giveBack"} \subseteq Steps \ WebhookSteps
    BY DEF Steps, WebhookSteps, VoidSteps, RequestSteps, CronSteps
<1>1. pc[w] \in Steps /\ o \in Orders
    BY JobOfWorker DEF ReadForVoid, SetVoided, Refund, Ask, LookForRequest, CreateRequest,
       SetApproved, SetRejected, ListExpired, SetExpired, QueryFails, Interrupted, Steps, VoidSteps, RequestSteps,
       CronSteps
<1>2. CASE ReadForVoid(w)
    BY <1>0, <1>1, <1>2, TypeContinue DEF ReadForVoid, TypeInv, TypeOK
<1>3. CASE SetVoided(w)
    BY <1>0, <1>1, <1>3, TypeGoto DEF SetVoided, TypeInv, TypeOK, Statuses, Payments
<1>4. CASE Refund(w)
    BY <1>1, <1>4, TypeLeave, MoreIsBounded DEF Refund, TypeInv, TypeOK
<1>5. CASE Ask(w)
    BY <1>0, <1>1, <1>5, TypeContinue DEF Ask, TypeInv, TypeOK
<1>6. CASE CreateRequest(w)
    BY <1>1, <1>6, TypeLeave DEF CreateRequest, TypeInv, TypeOK, Requests
<1>7. CASE SetApproved(w)
    BY <1>0, <1>1, <1>7, TypeGoto DEF SetApproved, TypeInv, TypeOK, Requests
<1>8. CASE SetRejected(w)
    BY <1>1, <1>8, TypeLeave DEF SetRejected, TypeInv, TypeOK, Requests
<1>9. CASE ListExpired(w)
    BY <1>0, <1>1, <1>9, TypeContinue DEF ListExpired, TypeInv, TypeOK
<1>10. CASE SetExpired(w)
    BY <1>1, <1>10, TypeLeave DEF SetExpired, TypeInv, TypeOK, Statuses, Payments
<1>11. CASE Interrupted(w)
    BY <1>1, <1>11, TypeLeave DEF Interrupted, TypeInv, TypeOK
<1>12. CASE LookForRequest(w)
    BY <1>0, <1>1, <1>12, TypeContinue DEF LookForRequest, TypeInv, TypeOK
<1>13. CASE QueryFails(w)
    BY <1>1, <1>13, TypeLeave DEF QueryFails, TypeInv, TypeOK
<1>14. QED
    BY <1>2, <1>3, <1>4, <1>5, <1>6, <1>7, <1>8, <1>9, <1>10, <1>11,
       <1>12, <1>13

\* Midtrans, the clock, Redis and the reductions that run on their own.
Outside(o) == Older(o) \/ Reduce(o) \/ Forget(o) \/ \E e \in Events : Report(o, e)

LEMMA TypeOutside ==
    ASSUME TypeInv, NEW o \in Orders, Outside(o)
    PROVE  TypeInv'
<1> USE DEF order, stock, gateway, webhook, brokenOff, locals
<1>1. CASE Older(o)
    BY <1>1 DEF Older, TypeInv, TypeOK, Working, Ages
<1>2. CASE Reduce(o)
  <2>1. stockOut' \in [Orders -> 0..Limit] /\ reducing' \in [Orders -> 0..Limit]
      BY <1>2, MoreIsBounded DEF Reduce, TypeInv, TypeOK, Limit
  <2> QED BY <1>2, <2>1 DEF Reduce, TypeInv, TypeOK, Working
<1>3. CASE Forget(o)
    BY <1>3 DEF Forget, TypeInv, TypeOK, Working
<1>4. ASSUME NEW e \in Events, Report(o, e) PROVE TypeInv'
  <2>1. o \in Charged
      BY <1>4 DEF Report, TypeInv, Cash
  <2> QED BY <1>4, <2>1 DEF Report, TypeInv, TypeOK, Working, Notice
<1>5. QED
    BY <1>1, <1>2, <1>3, <1>4 DEF Outside

Step(w) == Begin(w) \/ Work(w) \/ Fail(w) \/ QueryFails(w) \/ Interrupted(w)

LEMMA StepCases ==
    ASSUME [Next]_vars
    PROVE  \/ \E w \in Workers : Step(w)
           \/ \E o \in Orders : Outside(o)
           \/ UNCHANGED vars
BY DEF Next, Step, Outside

LEMMA TypeStep ==
    ASSUME TypeInv, [Next]_vars
    PROVE  TypeInv'
<1>1. CASE UNCHANGED vars
    BY <1>1 DEF vars, order, stock, gateway, webhook, brokenOff, locals, TypeInv, TypeOK, Working
<1>2. ASSUME NEW w \in Workers, Step(w) PROVE TypeInv'
  <2>1. {"restore", "setVoided", "giveBack", "setExpired", "approve", "setApproved",
         "reject", "setRejected"} \subseteq Steps \ WebhookSteps
      BY DEF Steps, WebhookSteps, VoidSteps, RequestSteps, CronSteps
  <2> QED BY <1>2, <2>1, TypeBegin, TypeWebhook, TypeRestore, TypeRead, TypeOther
          DEF Step, Work
<1>3. QED
    BY <1>1, <1>2, StepCases, TypeOutside

\* Every column, key and local variable keeps its type.
THEOREM TypeCorrect == Spec => []TypeOK
<1>1. Spec => []TypeInv
    BY TypeInit, TypeStep, PTL DEF Spec
<1>2. TypeInv => TypeOK
    BY DEF TypeInv
<1>3. QED
    BY <1>1, <1>2, PTL

-----------------------------------------------------------------------------
(* Settlements *)

\* Midtrans only speaks of a settlement that happened.
TrueNotices == \A n \in notices : n.event = "settlement" => txn[n.order] = "settlement"

\* A worker launches and closes settlements only, and closes what it launched.
LaunchingSettled ==
    \A w \in Workers :
        /\ pc[w] \in {"audit", "setKey"} => job[w].event = "settlement"
        /\ pc[w] = "setKey" => launched[job[w].order] > 0

SettledInv == TrueNotices /\ LaunchingSettled /\ PaidOnlyIfSettled /\ KeyMeansLaunched

LEMMA SettledInit == Init => SettledInv
BY LifecycleAssumption DEF Init, SettledInv, TrueNotices, LaunchingSettled, PaidOnlyIfSettled,
   KeyMeansLaunched, Cash

\* A worker's locals are its own.
LEMMA OthersUntouched ==
    ASSUME TypeInv, NEW w \in Workers, NEW v \in Workers, v # w, Step(w)
    PROVE  pc'[v] = pc[v] /\ job'[v] = job[v] /\ seen'[v] = seen[v]
<1> USE DEF TypeInv, TypeOK, Goto, Leave, Continue
<1>1. CASE Begin(w)
    BY <1>1 DEF Begin, Deliver, VoidOrder, Start
<1>2. CASE Work(w)
    BY <1>2 DEF Work, CheckKey, FindOrder, Update, Launch, SetKey, ReadForVoid, Restore,
       SetVoided, Refund, Ask, LookForRequest, CreateRequest, ReadRequest, SetApproved, SetRejected,
       ListExpired, SetExpired
<1>3. QED
    BY <1>1, <1>2 DEF Step, Fail, QueryFails, Interrupted

\* A step towards the launch or the key is the webhook's own.
LEMMA LocalsOfLaunch ==
    ASSUME TypeInv, SettledInv, NEW w \in Workers, Step(w), pc'[w] \in {"audit", "setKey"}
    PROVE  \/ Update(w) /\ pc'[w] = "audit" /\ NewStatus(job[w].event) = "completed"
              /\ job' = job
           \/ Launch(w) /\ pc'[w] = "setKey" /\ job' = job
<1> USE DEF TypeInv, TypeOK, Goto, Leave, Continue
<1>1. ~Begin(w)
    BY DEF Begin, Deliver, VoidOrder, Start
<1>2. CASE Work(w)
    BY <1>2 DEF Work, CheckKey, FindOrder, Update, Launch, SetKey, ReadForVoid, Restore,
       SetVoided, Refund, Ask, LookForRequest, CreateRequest, ReadRequest, SetApproved, SetRejected,
       ListExpired, SetExpired
<1>3. QED
    BY <1>1, <1>2 DEF Step, Fail, QueryFails, Interrupted

\* What becomes of the columns and counters the invariant speaks of: a payment
\* is recorded by a webhook, a launch follows it, and nothing takes a launch back.
LEMMA LaunchedGrows ==
    ASSUME TypeInv, [Next]_vars
    PROVE  \/ UNCHANGED launched
           \/ \E w \in Workers : Launch(w)
<1> USE DEF order, stock, gateway, webhook, brokenOff, locals
<1>1. ASSUME NEW w \in Workers, Step(w) PROVE UNCHANGED launched \/ Launch(w)
    BY <1>1 DEF Step, Begin, Deliver, VoidOrder, Start, Work, CheckKey, FindOrder, Update,
       SetKey, ReadForVoid, Restore, SetVoided, Refund, Ask, LookForRequest, CreateRequest, ReadRequest,
       SetApproved, SetRejected, ListExpired, SetExpired, Fail, QueryFails, Interrupted
<1>2. QED
    BY <1>1, StepCases DEF Outside, Older, Reduce, Forget, Report, vars

LEMMA GatewayChanges ==
    ASSUME TypeInv, [Next]_vars
    PROVE  \/ UNCHANGED <<txn, notices>>
           \/ \E o \in Orders, e \in Events : Report(o, e) /\ UNCHANGED <<payment, launched, processed, locals>>
<1> USE DEF order, stock, gateway, webhook, brokenOff, locals
<1>1. ASSUME NEW w \in Workers, Step(w) PROVE UNCHANGED <<txn, notices>>
    BY <1>1 DEF Step, Begin, Deliver, VoidOrder, Start, Work, CheckKey, FindOrder, Update,
       Launch, SetKey, ReadForVoid, Restore, SetVoided, Refund, Ask, LookForRequest, CreateRequest,
       ReadRequest, SetApproved, SetRejected, ListExpired, SetExpired, Fail, QueryFails, Interrupted
<1>2. QED
    BY <1>1, StepCases DEF Outside, Older, Reduce, Forget, Report, vars

\* A settlement is never unmade at Midtrans.
LEMMA SettledStays ==
    ASSUME TypeInv, [Next]_vars, NEW o \in Orders, txn[o] = "settlement"
    PROVE  txn'[o] = "settlement"
BY GatewayChanges DEF Report, TypeInv, TypeOK

LEMMA LaunchedStays ==
    ASSUME TypeInv, [Next]_vars, NEW o \in Orders, launched[o] > 0
    PROVE  launched'[o] > 0
<1>1. ASSUME NEW w \in Workers, Launch(w) PROVE launched'[o] > 0
    BY <1>1, JobOfWorker, MoreIsBounded DEF Launch, TypeInv, TypeOK, Steps, WebhookSteps
<1>2. QED
    BY <1>1, LaunchedGrows

LEMMA NoticesStep ==
    ASSUME TypeInv, SettledInv, [Next]_vars
    PROVE  TrueNotices'
<1>1. CASE UNCHANGED <<txn, notices>>
    BY <1>1 DEF SettledInv, TrueNotices
<1>2. ASSUME NEW o \in Orders, NEW e \in Events, Report(o, e) PROVE TrueNotices'
  <2>1. txn' = [txn EXCEPT ![o] = e] /\ txn[o] = "pending"
        /\ notices' = notices \cup {[order |-> o, event |-> e]}
      BY <1>2 DEF Report
  <2>2. \A n \in notices : n.order \in Orders
      BY DEF TypeInv, TypeOK, Notice
  <2> QED BY <2>1, <2>2 DEF SettledInv, TrueNotices, TypeInv, TypeOK
<1>3. QED
    BY <1>1, <1>2, GatewayChanges

LEMMA LaunchingStep ==
    ASSUME TypeInv, SettledInv, [Next]_vars
    PROVE  LaunchingSettled'
<1>1. CASE UNCHANGED locals
  <2>1. \A w \in Workers : pc[w] = "setKey" => job[w].order \in Orders
      BY JobOfWorker DEF Steps, WebhookSteps
  <2> QED BY <1>1, <2>1, LaunchedStays DEF SettledInv, LaunchingSettled, locals
<1>2. ASSUME NEW w \in Workers, Step(w), NEW v \in Workers, pc'[v] \in {"audit", "setKey"}
      PROVE  /\ job'[v].event = "settlement"
             /\ pc'[v] = "setKey" => launched'[job'[v].order] > 0
  <2>1. CASE v # w
    <3>1. pc[v] = pc'[v] /\ job[v] = job'[v]
        BY <1>2, <2>1, OthersUntouched
    <3>2. job[v].order \in Orders
        BY <1>2, <3>1, JobOfWorker DEF Steps, WebhookSteps
    <3> QED BY <1>2, <3>1, <3>2, LaunchedStays DEF SettledInv, LaunchingSettled
  <2>2. CASE v = w /\ Update(w) /\ pc'[w] = "audit" /\ job' = job
             /\ NewStatus(job[w].event) = "completed"
      BY <2>2, JobOfWorker, NewValues DEF Update, Steps, WebhookSteps
  <2>3. CASE v = w /\ Launch(w) /\ pc'[w] = "setKey" /\ job' = job
    <3>1. job[w].order \in Orders /\ job[w].event = "settlement"
        BY <2>3, JobOfWorker DEF Launch, Steps, WebhookSteps, SettledInv, LaunchingSettled
    <3>2. launched'[job[w].order] > 0
        BY <2>3, <3>1, MoreIsBounded DEF Launch, TypeInv, TypeOK
    <3> QED BY <2>3, <3>1, <3>2
  <2> QED BY <1>2, <2>1, <2>2, <2>3, LocalsOfLaunch
<1>3. QED
    BY <1>1, <1>2, StepCases DEF LaunchingSettled, Outside, Older, Reduce, Forget, Report, vars

\* An order is only ever paid by a webhook.
LEMMA PaymentChanges ==
    ASSUME TypeInv, [Next]_vars, NEW o \in Orders, payment'[o] = "paid"
    PROVE  \/ payment[o] = "paid"
           \/ \E w \in Workers : Update(w) /\ job[w].order = o /\ NewPayment(job[w].event) = "paid"
<1> USE DEF TypeInv, TypeOK, order, stock, gateway, webhook, brokenOff, locals
<1>1. ASSUME NEW w \in Workers, Update(w)
      PROVE  payment[o] = "paid" \/ (job[w].order = o /\ NewPayment(job[w].event) = "paid")
    BY <1>1 DEF Update
<1>2. ASSUME NEW w \in Workers, SetVoided(w) \/ SetExpired(w)
      PROVE  payment[o] = "paid"
    BY <1>2 DEF SetVoided, SetExpired
<1>3. ASSUME NEW w \in Workers, Step(w), ~Update(w), ~SetVoided(w), ~SetExpired(w)
      PROVE  UNCHANGED payment
    BY <1>3 DEF Step, Begin, Deliver, VoidOrder, Start, Work, CheckKey, FindOrder, Launch,
       SetKey, ReadForVoid, Restore, Refund, Ask, LookForRequest, CreateRequest, ReadRequest, SetApproved,
       SetRejected, ListExpired, Fail, QueryFails, Interrupted
<1>4. ASSUME NEW p \in Orders, Outside(p) PROVE UNCHANGED payment
    BY <1>4 DEF Outside, Older, Reduce, Forget, Report
<1>5. QED
    BY <1>1, <1>2, <1>3, <1>4, StepCases DEF vars

LEMMA PaidStep ==
    ASSUME TypeInv, SettledInv, [Next]_vars
    PROVE  PaidOnlyIfSettled'
<1> SUFFICES ASSUME NEW o \in Charged, payment'[o] = "paid" \/ launched'[o] > 0
             PROVE  txn'[o] = "settlement"
    BY DEF PaidOnlyIfSettled
<1>1. o \in Orders
    BY LifecycleAssumption
<1>2. CASE payment'[o] = "paid"
  <2>1. ASSUME NEW w \in Workers, Update(w), job[w].order = o,
               NewPayment(job[w].event) = "paid"
        PROVE  txn[o] = "settlement"
    <3>1. job[w] \in notices /\ job[w].event = "settlement"
        BY <2>1, JobOfWorker, NewValues DEF Update, Steps, WebhookSteps
    <3> QED BY <2>1, <3>1 DEF SettledInv, TrueNotices
  <2> QED BY <1>1, <1>2, <2>1, PaymentChanges, SettledStays DEF SettledInv, PaidOnlyIfSettled
<1>3. CASE launched'[o] > 0
  <2>1. ASSUME NEW w \in Workers, Launch(w)
        PROVE  launched[o] > 0 \/ txn[o] = "settlement"
    <3>1. job[w] \in notices /\ job[w].event = "settlement"
        BY <2>1, JobOfWorker DEF Launch, Steps, WebhookSteps, SettledInv, LaunchingSettled
    <3>2. job[w].order = o \/ launched'[o] = launched[o]
        BY <1>1, <2>1 DEF Launch, TypeInv, TypeOK
    <3> QED BY <1>3, <3>1, <3>2 DEF SettledInv, TrueNotices
  <2> QED BY <1>1, <1>3, <2>1, LaunchedGrows, SettledStays DEF SettledInv, PaidOnlyIfSettled
<1>4. QED
    BY <1>2, <1>3

LEMMA KeyStep ==
    ASSUME TypeInv, SettledInv, [Next]_vars
    PROVE  KeyMeansLaunched'
<1> USE DEF order, stock, gateway, webhook, brokenOff, locals
<1>1. \/ processed' \subseteq processed
      \/ \E w \in Workers : SetKey(w)
  <2>1. ASSUME NEW w \in Workers, Step(w) PROVE UNCHANGED processed \/ SetKey(w)
      BY <2>1 DEF Step, Begin, Deliver, VoidOrder, Start, Work, CheckKey, FindOrder, Update,
         Launch, ReadForVoid, Restore, SetVoided, Refund, Ask, LookForRequest, CreateRequest, ReadRequest,
         SetApproved, SetRejected, ListExpired, SetExpired, Fail, QueryFails, Interrupted
  <2> QED BY <2>1, StepCases DEF Outside, Older, Reduce, Forget, Report, vars
<1>2. processed \subseteq Orders
    BY DEF TypeInv, TypeOK
<1>3. CASE processed' \subseteq processed
    BY <1>2, <1>3, LaunchedStays DEF SettledInv, KeyMeansLaunched
<1>4. ASSUME NEW w \in Workers, SetKey(w) PROVE KeyMeansLaunched'
  <2>1. job[w].order \in Orders /\ launched[job[w].order] > 0
      BY <1>4, JobOfWorker DEF SetKey, Steps, WebhookSteps, SettledInv, LaunchingSettled
  <2> QED BY <1>2, <1>4, <2>1, LaunchedStays DEF SetKey, SettledInv, KeyMeansLaunched
<1>5. QED
    BY <1>1, <1>3, <1>4

LEMMA LifecycleInv == Spec => [](TypeInv /\ SettledInv)
<1>1. TypeInv /\ SettledInv /\ [Next]_vars => (TypeInv /\ SettledInv)'
    BY TypeStep, NoticesStep, LaunchingStep, PaidStep, KeyStep DEF SettledInv
<1>2. QED
    BY <1>1, TypeInit, SettledInit, PTL DEF Spec

\* For any orders and workers, with crashes, errors and lost keys: no charged
\* order is paid, and no stock reduction started, without a settlement.
THEOREM PaidOnlyWhenSettled == Spec => []PaidOnlyIfSettled
<1>1. SettledInv => PaidOnlyIfSettled
    BY DEF SettledInv
<1>2. QED
    BY <1>1, LifecycleInv, PTL

\* A key that makes the backend ignore a settlement is only ever stored for an
\* order whose stock reduction has been started.
THEOREM KeysAreEarned == Spec => []KeyMeansLaunched
<1>1. SettledInv => KeyMeansLaunched
    BY DEF SettledInv
<1>2. QED
    BY <1>1, LifecycleInv, PTL

-----------------------------------------------------------------------------
(* The 4-eyes approval *)

\* With the flag on, a worker only comes to the void of an approved order.
VoidingApproved ==
    FALSE \notin VoidApproval =>
        \A w \in Workers : pc[w] \in VoidSteps => job[w].order \in approved

ApprovalInv == VoidingApproved /\ VoidNeedsApproval

LEMMA ApprovalInit == Init => ApprovalInv
BY DEF Init, ApprovalInv, VoidingApproved, VoidNeedsApproval, VoidSteps

LEMMA ApprovedStays ==
    ASSUME [Next]_vars
    PROVE  approved \subseteq approved'
<1> USE DEF order, stock, gateway, webhook, brokenOff, locals
<1>1. ASSUME NEW w \in Workers, Step(w) PROVE approved \subseteq approved'
    BY <1>1 DEF Step, Begin, Deliver, VoidOrder, Start, Work, CheckKey, FindOrder, Update,
       Launch, SetKey, ReadForVoid, Restore, SetVoided, Refund, Ask, LookForRequest, CreateRequest,
       ReadRequest, SetApproved, SetRejected, ListExpired, SetExpired, Fail, QueryFails, Interrupted
<1>2. QED
    BY <1>1, StepCases DEF Outside, Older, Reduce, Forget, Report, vars

LEMMA VoidingStep ==
    ASSUME TypeInv, ApprovalInv, [Next]_vars
    PROVE  VoidingApproved'
<1> SUFFICES ASSUME FALSE \notin VoidApproval, NEW v \in Workers, pc'[v] \in VoidSteps
             PROVE  job'[v].order \in approved'
    BY DEF VoidingApproved
<1>1. CASE UNCHANGED locals
    BY <1>1, ApprovedStays DEF ApprovalInv, VoidingApproved, locals
<1>2. ASSUME NEW w \in Workers, Step(w) PROVE job'[v].order \in approved'
  <2>1. CASE v # w
      BY <1>2, <2>1, OthersUntouched, ApprovedStays DEF ApprovalInv, VoidingApproved
  <2>2. CASE v = w
    <3> USE DEF TypeInv, TypeOK, Goto, Leave, Continue, VoidSteps
    <3>1. CASE SetApproved(w)
        BY <2>2, <3>1 DEF SetApproved
    <3>2. CASE pc[w] \in VoidSteps /\ job' = job
        BY <2>2, <3>2, ApprovedStays DEF ApprovalInv, VoidingApproved
    <3>3. CASE Begin(w)
        BY <2>2, <3>3, LifecycleAssumption DEF Begin, Deliver, VoidOrder, Start
    <3>4. CASE Work(w) /\ ~SetApproved(w)
        BY <2>2, <3>2, <3>4 DEF Work, CheckKey, FindOrder, Update, Launch, SetKey,
           ReadForVoid, Restore, SetVoided, Refund, Ask, LookForRequest, CreateRequest, ReadRequest,
           SetRejected, ListExpired, SetExpired
    <3> QED BY <1>2, <2>2, <3>1, <3>3, <3>4 DEF Step, Fail, QueryFails, Interrupted
  <2> QED BY <2>1, <2>2
<1>3. QED
    BY <1>1, <1>2, StepCases DEF Outside, Older, Reduce, Forget, Report, vars

LEMMA VoidNeedsStep ==
    ASSUME TypeInv, ApprovalInv, [Next]_vars
    PROVE  VoidNeedsApproval'
<1> SUFFICES ASSUME FALSE \notin VoidApproval, NEW o \in Orders,
                    o \in voidedBy' \/ refunds'[o] > 0
             PROVE  o \in approved'
    BY DEF VoidNeedsApproval
<1> USE DEF TypeInv, TypeOK, order, stock, gateway, webhook, brokenOff, locals
<1>1. CASE voidedBy' \subseteq voidedBy /\ refunds' = refunds
    BY <1>1, ApprovedStays DEF ApprovalInv, VoidNeedsApproval
<1>2. ASSUME NEW w \in Workers, SetVoided(w) PROVE o \in approved'
  <2>1. job[w].order \in approved
      BY <1>2 DEF SetVoided, VoidSteps, ApprovalInv, VoidingApproved
  <2> QED BY <1>2, <2>1 DEF SetVoided, ApprovalInv, VoidNeedsApproval
<1>3. ASSUME NEW w \in Workers, Refund(w) PROVE o \in approved'
  <2>1. job[w].order \in approved
      BY <1>3 DEF Refund, VoidSteps, ApprovalInv, VoidingApproved
  <2>2. o = job[w].order \/ refunds'[o] = refunds[o]
      BY <1>3 DEF Refund
  <2> QED BY <1>3, <2>1, <2>2 DEF Refund, ApprovalInv, VoidNeedsApproval
<1>4. ASSUME NEW w \in Workers, Step(w), ~SetVoided(w), ~Refund(w)
      PROVE  voidedBy' \subseteq voidedBy /\ refunds' = refunds
    BY <1>4 DEF Step, Begin, Deliver, VoidOrder, Start, Work, CheckKey, FindOrder, Update,
       Launch, SetKey, ReadForVoid, Restore, Ask, LookForRequest, CreateRequest, ReadRequest, SetApproved,
       SetRejected, ListExpired, SetExpired, Fail, QueryFails, Interrupted
<1>5. ASSUME NEW p \in Orders, Outside(p)
      PROVE  voidedBy' \subseteq voidedBy /\ refunds' = refunds
    BY <1>5 DEF Outside, Older, Reduce, Forget, Report
<1>6. QED
    BY <1>1, <1>2, <1>3, <1>4, <1>5, StepCases DEF vars

\* With FEATURE_VOID_APPROVAL on, no order is voided by an admin and no refund
\* recorded that was not approved, whoever asks, approves and rejects at once.
THEOREM VoidsAreApproved == Spec => []VoidNeedsApproval
<1>1. TypeInv /\ ApprovalInv /\ [Next]_vars => (TypeInv /\ ApprovalInv)'
    BY TypeStep, VoidingStep, VoidNeedsStep DEF ApprovalInv
<1>2. ApprovalInv => VoidNeedsApproval
    BY DEF ApprovalInv
<1>3. QED
    BY <1>1, <1>2, TypeInit, ApprovalInit, PTL DEF Spec

-----------------------------------------------------------------------------
(* Lost effects *)

\* The effects of an order's settlement are started, recorded as lost, broken off
\* without a record, or in the hands of a worker.
Settling(o) ==
    \/ launched[o] > 0
    \/ o \in dlq \cup unqueued
    \/ \E w \in Workers : pc[w] = "audit" /\ job[w].order = o

\* So it is with every order that is completed, or was so when a webhook read it.
CompletedIsSettling ==
    \A o \in Charged :
        /\ status[o] = "completed" => Settling(o)
        /\ \A w \in Workers :
              (pc[w] = "update" /\ job[w].order = o /\ seen[w] = "completed") => Settling(o)

LEMMA CompletedInit == Init => CompletedIsSettling
BY LifecycleAssumption DEF Init, CompletedIsSettling, Cash

\* Nothing takes an order out of that state.
LEMMA SettlingStays ==
    ASSUME TypeInv, [Next]_vars, NEW o \in Charged, Settling(o)
    PROVE  Settling(o)'
<1> USE DEF order, stock, gateway, webhook, brokenOff, locals
<1>1. o \in Orders
    BY LifecycleAssumption
<1>2. CASE launched[o] > 0
    BY <1>1, <1>2, LaunchedStays DEF Settling
<1>3. CASE o \in dlq \cup unqueued
  <2>1. ASSUME NEW w \in Workers, Step(w)
        PROVE  dlq \subseteq dlq' /\ unqueued \subseteq unqueued'
      BY <2>1 DEF Step, Begin, Deliver, VoidOrder, Start, Work, CheckKey, FindOrder, Update,
         Launch, SetKey, ReadForVoid, Restore, SetVoided, Refund, Ask, LookForRequest, CreateRequest,
         ReadRequest, SetApproved, SetRejected, ListExpired, SetExpired, Fail, QueryFails, Interrupted
  <2>2. dlq \subseteq dlq' /\ unqueued \subseteq unqueued'
      BY <2>1, StepCases DEF Outside, Older, Reduce, Forget, Report, vars
  <2> QED BY <1>3, <2>2 DEF Settling
<1>4. ASSUME NEW v \in Workers, pc[v] = "audit", job[v].order = o PROVE Settling(o)'
  <2>1. CASE pc'[v] = pc[v] /\ job'[v] = job[v]
      BY <1>4, <2>1 DEF Settling
  <2>2. CASE Launch(v)
    <3>1. launched'[o] > 0
        BY <1>1, <1>4, <2>2, MoreIsBounded DEF Launch, TypeInv, TypeOK
    <3> QED BY <3>1 DEF Settling
  <2>3. CASE Fail(v) \/ Interrupted(v)
      BY <1>4, <2>3 DEF Fail, Interrupted, WebhookSteps, Settling
  <2>4. CASE Step(v) /\ ~Launch(v) /\ ~Fail(v) /\ ~Interrupted(v)
      BY <1>4, <2>4 DEF Step, Begin, Deliver, VoidOrder, Start, Work, CheckKey, FindOrder,
         Update, SetKey, ReadForVoid, Restore, SetVoided, Refund, Ask, LookForRequest, CreateRequest,
         ReadRequest, SetApproved, SetRejected, ListExpired, SetExpired, QueryFails, VoidSteps, RequestSteps, CronSteps
  <2> QED BY <2>1, <2>2, <2>3, <2>4, StepCases, OthersUntouched
          DEF Outside, Older, Reduce, Forget, Report, vars
<1>5. QED
    BY <1>2, <1>3, <1>4 DEF Settling

\* Only a webhook completes an order, and then goes on to its effects or had
\* read it as completed before.
LEMMA CompletedBy ==
    ASSUME TypeInv, [Next]_vars, NEW o \in Charged, status'[o] = "completed"
    PROVE  \/ status[o] = "completed"
           \/ \E w \in Workers :
                 /\ pc[w] = "update" /\ job[w].order = o
                 /\ \/ seen[w] = "completed"
                    \/ pc'[w] = "audit" /\ job'[w] = job[w]
<1> USE DEF TypeInv, TypeOK, order, stock, gateway, webhook, brokenOff, locals
<1>0. o \in Orders
    BY LifecycleAssumption
<1>1. ASSUME NEW w \in Workers, Update(w), status[o] # "completed"
      PROVE  /\ pc[w] = "update" /\ job[w].order = o
             /\ \/ seen[w] = "completed"
                \/ pc'[w] = "audit" /\ job'[w] = job[w]
    BY <1>0, <1>1 DEF Update, Continue, Goto
<1>2. ASSUME NEW w \in Workers, SetVoided(w) \/ SetExpired(w)
      PROVE  status[o] = "completed"
    BY <1>0, <1>2 DEF SetVoided, SetExpired
<1>3. ASSUME NEW w \in Workers, Step(w), ~Update(w), ~SetVoided(w), ~SetExpired(w)
      PROVE  UNCHANGED status
    BY <1>3 DEF Step, Begin, Deliver, VoidOrder, Start, Work, CheckKey, FindOrder, Launch,
       SetKey, ReadForVoid, Restore, Refund, Ask, LookForRequest, CreateRequest, ReadRequest, SetApproved,
       SetRejected, ListExpired, Fail, QueryFails, Interrupted
<1>4. ASSUME NEW p \in Orders, Outside(p) PROVE UNCHANGED status
    BY <1>4 DEF Outside, Older, Reduce, Forget, Report
<1>5. QED
    BY <1>1, <1>2, <1>3, <1>4, StepCases DEF vars

\* A worker sees the status an order has when it reads it.
LEMMA SeesStatus ==
    ASSUME TypeInv, [Next]_vars, NEW w \in Workers, pc'[w] = "update"
    PROVE  \/ pc[w] = "update" /\ job'[w] = job[w] /\ seen'[w] = seen[w]
           \/ job'[w] = job[w] /\ seen'[w] = status[job[w].order]
<1> USE DEF TypeInv, TypeOK, order, stock, gateway, webhook, brokenOff, locals
<1>1. CASE Step(w)
    BY <1>1 DEF Step, Begin, Deliver, VoidOrder, Start, Work, CheckKey, FindOrder, Update,
       Launch, SetKey, ReadForVoid, Restore, SetVoided, Refund, Ask, LookForRequest, CreateRequest,
       ReadRequest, SetApproved, SetRejected, ListExpired, SetExpired, Fail, QueryFails, Interrupted,
       Goto, Leave, Continue
<1>2. QED
    BY <1>1, StepCases, OthersUntouched DEF Outside, Older, Reduce, Forget, Report, vars

LEMMA CompletedStep ==
    ASSUME TypeInv, CompletedIsSettling, [Next]_vars
    PROVE  CompletedIsSettling'
<1>1. ASSUME NEW o \in Charged, status'[o] = "completed" PROVE Settling(o)'
  <2>1. CASE Settling(o)
      BY <2>1, SettlingStays
  <2>2. ASSUME NEW w \in Workers, pc'[w] = "audit", job[w].order = o, job'[w] = job[w]
        PROVE  Settling(o)'
      BY <2>2 DEF Settling
  <2> QED BY <1>1, <2>1, <2>2, CompletedBy DEF CompletedIsSettling
<1>2. ASSUME NEW o \in Charged, NEW w \in Workers, pc'[w] = "update", job'[w].order = o,
             seen'[w] = "completed"
      PROVE  Settling(o)'
    BY <1>2, SeesStatus, SettlingStays DEF CompletedIsSettling
<1>3. QED
    BY <1>1, <1>2 DEF CompletedIsSettling

\* However the database fails and whenever the process dies: a completed order
\* whose effects were not started has an entry in the dead letter queue, unless
\* the insert of that entry failed too or the process died in a notification of it.
THEOREM LostEffectsAreRemembered == Spec => []LostEffectsAreInDlq
<1>1. TypeInv /\ CompletedIsSettling /\ [Next]_vars => (TypeInv /\ CompletedIsSettling)'
    BY TypeStep, CompletedStep
<1>2. TypeInv /\ CompletedIsSettling => LostEffectsAreInDlq
    BY LifecycleAssumption DEF TypeInv, TypeOK, CompletedIsSettling, Settling,
       LostEffectsAreInDlq, Busy, Limit
<1>3. QED
    BY <1>1, <1>2, TypeInit, CompletedInit, PTL DEF Spec

-----------------------------------------------------------------------------
(* Approvals are carried out *)

Ended(o) == txn[o] \in {"expire", "cancel"}

At(steps, o) == \E w \in Workers : pc[w] \in steps /\ job[w].order = o

\* Whatever Midtrans has said of a charge, but that it is pending, is so.
EndedNotices == \A n \in notices : n.event # "pending" => txn[n.order] = n.event

\* The cron finds no order to void (its column is never written).
CronIsIdle == \A w \in Workers : pc[w] \notin {"giveBack", "setExpired"}

\* What excuses an order from its refund.
Excused(o) == Ended(o) \/ o \in unvoided

\* A voided order has its refund, is about to get it, or is excused.
VoidedIsRefunded ==
    \A o \in Orders :
        status[o] = "voided" => refunds[o] > 0 \/ Excused(o) \/ At({"refund"}, o)

\* So is an approved one, or a worker is still on its way to the void.
ApprovedIsVoided ==
    \A o \in Orders :
        request[o] = "approved" => refunds[o] > 0 \/ Excused(o) \/ At(VoidSteps, o)

CarriedOut == EndedNotices /\ CronIsIdle /\ VoidedIsRefunded /\ ApprovedIsVoided

LEMMA CarriedOutInit == Init => CarriedOut
BY LifecycleAssumption DEF Init, CarriedOut, EndedNotices, CronIsIdle, VoidedIsRefunded,
   ApprovedIsVoided, Cash

LEMMA EndedNoticesStep ==
    ASSUME TypeInv, EndedNotices, [Next]_vars
    PROVE  EndedNotices'
<1>1. CASE UNCHANGED <<txn, notices>>
    BY <1>1 DEF EndedNotices
<1>2. ASSUME NEW o \in Orders, NEW e \in Events, Report(o, e) PROVE EndedNotices'
  <2>1. txn' = [txn EXCEPT ![o] = e] /\ txn[o] = "pending"
        /\ notices' = notices \cup {[order |-> o, event |-> e]}
      BY <1>2 DEF Report
  <2>2. \A n \in notices : n.order \in Orders
      BY DEF TypeInv, TypeOK, Notice
  <2>3. \A n \in notices : n.event # "pending" => n.order # o
      BY <2>1 DEF EndedNotices
  <2> QED BY <2>1, <2>2, <2>3 DEF EndedNotices, TypeInv, TypeOK
<1>3. QED
    BY <1>1, <1>2, GatewayChanges

LEMMA EndedStays ==
    ASSUME TypeInv, [Next]_vars, NEW o \in Orders, Ended(o)
    PROVE  Ended(o)'
BY GatewayChanges DEF Report, Ended, TypeInv, TypeOK

LEMMA ExcusedStays ==
    ASSUME TypeInv, [Next]_vars, NEW o \in Orders, Excused(o)
    PROVE  Excused(o)'
<1> USE DEF order, stock, gateway, webhook, brokenOff, locals
<1>1. ASSUME NEW w \in Workers, Step(w) PROVE unvoided \subseteq unvoided'
    BY <1>1 DEF Step, Begin, Deliver, VoidOrder, Start, Work, CheckKey, FindOrder, Update,
       Launch, SetKey, ReadForVoid, Restore, SetVoided, Refund, Ask, LookForRequest, CreateRequest,
       ReadRequest, SetApproved, SetRejected, ListExpired, SetExpired, Fail, QueryFails, Interrupted
<1>2. unvoided \subseteq unvoided'
    BY <1>1, StepCases DEF Outside, Older, Reduce, Forget, Report, vars
<1>3. QED
    BY <1>2, EndedStays DEF Excused

\* Where the worker that takes a step is afterwards.
LEMMA HowWorkersMove ==
    ASSUME TypeInv, NEW w \in Workers, Step(w)
    PROVE  \/ /\ pc[w] = "idle"
              /\ pc'[w] \in {"key", "ask", "void", "approve", "reject", "expired"}
           \/ pc[w] \in Steps /\ pc'[w] = "idle"
           \/ pc[w] \in Steps /\ pc'[w] \in Steps /\ job' = job
<1> USE DEF TypeInv, TypeOK, Goto, Leave, Continue
<1>1. CASE Begin(w)
    BY <1>1 DEF Begin, Deliver, VoidOrder, Start
<1>2. CASE Work(w)
    BY <1>2 DEF Work, CheckKey, FindOrder, Update, Launch, SetKey, ReadForVoid, Restore,
       SetVoided, Refund, Ask, LookForRequest, CreateRequest, ReadRequest, SetApproved, SetRejected,
       ListExpired, SetExpired, Steps, WebhookSteps, VoidSteps, RequestSteps, CronSteps
<1>3. CASE Fail(w) \/ QueryFails(w) \/ Interrupted(w)
    BY <1>3 DEF Fail, QueryFails, Interrupted, Steps, WebhookSteps
<1>4. QED
    BY <1>1, <1>2, <1>3 DEF Step

LEMMA CronIsIdleStep ==
    ASSUME TypeInv, CronIsIdle, WithExpiry = {}, [Next]_vars
    PROVE  CronIsIdle'
<1> USE DEF TypeInv, TypeOK, Goto, Leave, Continue, CronIsIdle
<1>1. ASSUME NEW w \in Workers, Step(w) PROVE pc'[w] \notin {"giveBack", "setExpired"}
  <2>1. CASE Begin(w) \/ Fail(w) \/ QueryFails(w) \/ Interrupted(w)
      BY <2>1 DEF Begin, Deliver, VoidOrder, Start, Fail, QueryFails, Interrupted
  <2>2. CASE Work(w)
      BY <2>2 DEF Work, CheckKey, FindOrder, Update, Launch, SetKey, ReadForVoid, Restore,
         SetVoided, Refund, Ask, LookForRequest, CreateRequest, ReadRequest, SetApproved, SetRejected,
         ListExpired, SetExpired
  <2> QED BY <1>1, <2>1, <2>2 DEF Step
<1>2. QED
    BY <1>1, StepCases, OthersUntouched DEF Outside, Older, Reduce, Forget, Report, vars, locals

\* What a step does to the refunds: one of them records one, and none removes any.
LEMMA RefundsGrow ==
    ASSUME [Next]_vars
    PROVE  UNCHANGED refunds \/ \E w \in Workers : Refund(w)
<1> USE DEF order, stock, gateway, webhook, brokenOff, locals
<1>1. ASSUME NEW w \in Workers, Step(w) PROVE UNCHANGED refunds \/ Refund(w)
    BY <1>1 DEF Step, Begin, Deliver, VoidOrder, Start, Work, CheckKey, FindOrder, Update,
       Launch, SetKey, ReadForVoid, Restore, SetVoided, Ask, LookForRequest, CreateRequest,
       ReadRequest, SetApproved, SetRejected, ListExpired, SetExpired, Fail, QueryFails, Interrupted
<1>2. QED
    BY <1>1, StepCases DEF Outside, Older, Reduce, Forget, Report, vars

LEMMA RefundedStays ==
    ASSUME TypeInv, [Next]_vars, NEW o \in Orders, refunds[o] > 0
    PROVE  refunds'[o] > 0
<1>1. ASSUME NEW w \in Workers, Refund(w) PROVE refunds'[o] > 0
    BY <1>1, JobOfWorker, MoreIsBounded DEF Refund, TypeInv, TypeOK, Steps, VoidSteps
<1>2. QED
    BY <1>1, RefundsGrow

\* ... and to the status: four actions write it.
LEMMA StatusChanges ==
    ASSUME [Next]_vars
    PROVE  \/ UNCHANGED status
           \/ \E w \in Workers : Update(w) \/ SetVoided(w) \/ SetExpired(w)
<1> USE DEF order, stock, gateway, webhook, brokenOff, locals
<1>1. ASSUME NEW w \in Workers, Step(w), ~Update(w), ~SetVoided(w), ~SetExpired(w)
      PROVE  UNCHANGED status
    BY <1>1 DEF Step, Begin, Deliver, VoidOrder, Start, Work, CheckKey, FindOrder, Launch,
       SetKey, ReadForVoid, Restore, Refund, Ask, LookForRequest, CreateRequest, ReadRequest, SetApproved,
       SetRejected, ListExpired, Fail, QueryFails, Interrupted
<1>2. QED
    BY <1>1, StepCases DEF Outside, Older, Reduce, Forget, Report, vars

\* A worker at a refund records it, or is broken off.
LEMMA RefundIsRecorded ==
    ASSUME TypeInv, [Next]_vars, NEW o \in Orders, At({"refund"}, o)
    PROVE  At({"refund"}, o)' \/ refunds'[o] > 0 \/ o \in unvoided'
<1> PICK v \in Workers : pc[v] = "refund" /\ job[v].order = o
    BY DEF At
<1>1. CASE pc'[v] = pc[v] /\ job'[v] = job[v]
    BY <1>1 DEF At
<1>2. CASE Refund(v)
    BY <1>2, MoreIsBounded DEF Refund, TypeInv, TypeOK
<1>3. CASE QueryFails(v) \/ Interrupted(v)
    BY <1>3 DEF QueryFails, Interrupted, VoidSteps
<1>4. CASE Step(v) /\ ~Refund(v) /\ ~QueryFails(v) /\ ~Interrupted(v)
    BY <1>4 DEF Step, Begin, Deliver, VoidOrder, Start, Work, CheckKey, FindOrder, Update,
       Launch, SetKey, ReadForVoid, Restore, SetVoided, Ask, LookForRequest, CreateRequest, ReadRequest,
       SetApproved, SetRejected, ListExpired, SetExpired, Fail
<1>5. QED
    BY <1>1, <1>2, <1>3, <1>4, StepCases, OthersUntouched
    DEF Outside, Older, Reduce, Forget, Report, vars, locals

\* A worker on its way to a void arrives, is broken off, or finds the order voided.
LEMMA VoidIsCarriedOut ==
    ASSUME TypeInv, [Next]_vars, NEW o \in Orders, At(VoidSteps, o)
    PROVE  \/ At(VoidSteps, o)' \/ refunds'[o] > 0 \/ o \in unvoided'
           \/ status[o] = "voided" /\ UNCHANGED status
<1> USE DEF VoidSteps
<1> PICK v \in Workers : pc[v] \in VoidSteps /\ job[v].order = o
    BY DEF At
<1>1. CASE pc'[v] = pc[v] /\ job'[v] = job[v]
    BY <1>1 DEF At
<1>2. CASE ReadForVoid(v)
    BY <1>2 DEF ReadForVoid, Continue, Goto, At, TypeInv, TypeOK, order
<1>3. CASE Restore(v, "restore", "setVoided") \/ SetVoided(v)
    BY <1>3 DEF Restore, SetVoided, Goto, At, TypeInv, TypeOK
<1>4. CASE Refund(v)
    BY <1>4, MoreIsBounded DEF Refund, TypeInv, TypeOK
<1>5. CASE QueryFails(v) \/ Interrupted(v)
    BY <1>5 DEF QueryFails, Interrupted
<1>6. ASSUME Step(v), ~QueryFails(v), ~Interrupted(v)
      PROVE  ReadForVoid(v) \/ Restore(v, "restore", "setVoided") \/ SetVoided(v) \/ Refund(v)
    BY <1>6 DEF Step, Begin, Deliver, VoidOrder, Start, Work, CheckKey, FindOrder, Update,
       Launch, SetKey, Restore, Ask, LookForRequest, CreateRequest, ReadRequest, SetApproved,
       SetRejected, ListExpired, SetExpired, Fail
<1>7. QED
    BY <1>1, <1>2, <1>3, <1>4, <1>5, <1>6, StepCases, OthersUntouched
    DEF Outside, Older, Reduce, Forget, Report, vars, locals

LEMMA VoidedIsRefundedStep ==
    ASSUME TypeInv, CarriedOut, [Next]_vars
    PROVE  VoidedIsRefunded'
<1> SUFFICES ASSUME NEW o \in Orders, status'[o] = "voided"
             PROVE  refunds'[o] > 0 \/ Excused(o)' \/ At({"refund"}, o)'
    BY DEF VoidedIsRefunded
<1>1. CASE status[o] = "voided"
    BY <1>1, RefundedStays, ExcusedStays, RefundIsRecorded DEF CarriedOut, VoidedIsRefunded, Excused
<1>2. ASSUME NEW w \in Workers, Update(w), status[o] # "voided"
      PROVE  Ended(o)
  <2>1. job[w] \in notices /\ job[w].event \in Events
      BY <1>2, JobOfWorker DEF Update, Steps, WebhookSteps
  <2>2. job[w].order = o /\ NewStatus(job[w].event) = "voided"
      BY <1>2 DEF Update, TypeInv, TypeOK
  <2>3. job[w].event \in {"expire", "cancel"}
      BY <2>1, <2>2 DEF NewStatus, Events
  <2> QED BY <2>1, <2>2, <2>3 DEF CarriedOut, EndedNotices, Ended
<1>3. ASSUME NEW w \in Workers, SetVoided(w), status[o] # "voided"
      PROVE  At({"refund"}, o)'
    BY <1>3 DEF SetVoided, Goto, At, TypeInv, TypeOK
<1>4. ASSUME NEW w \in Workers
      PROVE  ~SetExpired(w)
    BY DEF SetExpired, CarriedOut, CronIsIdle
<1>5. QED
    BY <1>1, <1>2, <1>3, <1>4, StatusChanges, EndedStays DEF Excused

LEMMA ApprovedIsVoidedStep ==
    ASSUME TypeInv, CarriedOut, [Next]_vars
    PROVE  ApprovedIsVoided'
<1> SUFFICES ASSUME NEW o \in Orders, request'[o] = "approved"
             PROVE  refunds'[o] > 0 \/ Excused(o)' \/ At(VoidSteps, o)'
    BY DEF ApprovedIsVoided
<1> USE DEF order, stock, gateway, webhook, brokenOff, locals
<1>1. request[o] = "approved" \/ \E w \in Workers : SetApproved(w) /\ job[w].order = o
  <2>1. ASSUME NEW w \in Workers, Step(w)
        PROVE  request[o] = "approved" \/ (SetApproved(w) /\ job[w].order = o)
      BY <2>1 DEF Step, Begin, Deliver, VoidOrder, Start, Work, CheckKey, FindOrder, Update,
         Launch, SetKey, ReadForVoid, Restore, SetVoided, Refund, Ask, LookForRequest, CreateRequest,
         ReadRequest, SetApproved, SetRejected, ListExpired, SetExpired, Fail, QueryFails, Interrupted,
         TypeInv, TypeOK
  <2> QED BY <2>1, StepCases DEF Outside, Older, Reduce, Forget, Report, vars
<1>2. ASSUME NEW w \in Workers, SetApproved(w), job[w].order = o
      PROVE  At(VoidSteps, o)'
    BY <1>2 DEF SetApproved, Goto, At, VoidSteps, TypeInv, TypeOK
<1>3. CASE status[o] = "voided" /\ UNCHANGED status
  <2>1. At({"refund"}, o)' => At(VoidSteps, o)'
      BY DEF At, VoidSteps
  <2> QED BY <1>3, <2>1, VoidedIsRefundedStep DEF VoidedIsRefunded
<1>4. CASE request[o] = "approved"
    BY <1>3, <1>4, RefundedStays, ExcusedStays, VoidIsCarriedOut
    DEF CarriedOut, ApprovedIsVoided, Excused
<1>5. QED
    BY <1>1, <1>2, <1>4

\* An approval is carried out, for any orders and workers and whatever fails: when
\* nobody works on an approved order any more, its refund is recorded, Midtrans had
\* ended the charge, or a void of it was broken off by a query that threw or by the
\* end of the process.  (WithExpiry is empty because no code writes qris_expiry_at.)
THEOREM ApprovalsAreCarriedOut ==
    ASSUME WithExpiry = {}
    PROVE  Spec => []ApprovedIsRefunded
<1>1. TypeInv /\ CarriedOut /\ [Next]_vars => (TypeInv /\ CarriedOut)'
    BY TypeStep, EndedNoticesStep, CronIsIdleStep, VoidedIsRefundedStep, ApprovedIsVoidedStep
    DEF CarriedOut
<1>2. CarriedOut => ApprovedIsRefunded
    BY DEF CarriedOut, ApprovedIsVoided, ApprovedIsRefunded, Excused, Ended, At, Busy
<1>3. QED
    BY <1>1, <1>2, TypeInit, CarriedOutInit, PTL DEF Spec

-----------------------------------------------------------------------------
(* One request at a time *)

OneWorker == \A v, w \in Workers : v = w

\* A step is the worker's, or no worker moves.
LEMMA OneAtATime ==
    ASSUME TypeInv, [Next]_vars
    PROVE  \/ \E w \in Workers : Step(w)
           \/ UNCHANGED locals
BY StepCases DEF Outside, Older, Reduce, Forget, Report, vars

LEMMA KeysChange ==
    ASSUME TypeInv, [Next]_vars
    PROVE  \/ UNCHANGED processed
           \/ \E w \in Workers : SetKey(w)
           \/ \E o \in Orders : Forget(o)
<1> USE DEF order, stock, gateway, webhook, brokenOff, locals
<1>1. ASSUME NEW w \in Workers, Step(w) PROVE UNCHANGED processed \/ SetKey(w)
    BY <1>1 DEF Step, Begin, Deliver, VoidOrder, Start, Work, CheckKey, FindOrder, Update,
       Launch, ReadForVoid, Restore, SetVoided, Refund, Ask, LookForRequest, CreateRequest, ReadRequest,
       SetApproved, SetRejected, ListExpired, SetExpired, Fail, QueryFails, Interrupted
<1>2. QED
    BY <1>1, StepCases DEF Outside, Older, Reduce, Report, vars

\* Past the check of the key, its order has no key.
Unprocessed ==
    \A w \in Workers : pc[w] \in {"find", "update", "audit"} => job[w].order \notin processed

\* What was launched has its key, or is about to get it.
LaunchedHasKey ==
    \A o \in Orders : launched[o] > 0 => o \in processed \/ At({"setKey"}, o)

OnceInv == Unprocessed /\ LaunchedHasKey /\ StockLaunchedOnce

LEMMA OnceInit == Init => OnceInv
BY DEF Init, OnceInv, Unprocessed, LaunchedHasKey, StockLaunchedOnce

LEMMA UnprocessedStep ==
    ASSUME TypeInv, Unprocessed, OneWorker, [Next]_vars
    PROVE  Unprocessed'
<1> SUFFICES ASSUME NEW w \in Workers, pc'[w] \in {"find", "update", "audit"}
             PROVE  job'[w].order \notin processed'
    BY DEF Unprocessed
<1> USE DEF order, stock, gateway, webhook, brokenOff, locals
<1>1. CASE UNCHANGED locals
    BY <1>1, KeysChange DEF SetKey, Leave, Forget, Unprocessed, TypeInv, TypeOK
<1>2. CASE Step(w)
    BY <1>2 DEF Step, Begin, Deliver, VoidOrder, Start, Work, CheckKey, FindOrder, Update,
       Launch, SetKey, ReadForVoid, Restore, SetVoided, Refund, Ask, LookForRequest, CreateRequest,
       ReadRequest, SetApproved, SetRejected, ListExpired, SetExpired, Fail, QueryFails, Interrupted,
       Goto, Leave, Continue, Unprocessed, TypeInv, TypeOK
<1>3. QED
    BY <1>1, <1>2, OneAtATime DEF OneWorker

LEMMA LaunchedHasKeyStep ==
    ASSUME TypeInv, OnceInv, "crash" \notin Faults, "forget" \notin Faults, [Next]_vars
    PROVE  LaunchedHasKey'
<1> SUFFICES ASSUME NEW o \in Orders, launched'[o] > 0
             PROVE  o \in processed' \/ At({"setKey"}, o)'
    BY DEF LaunchedHasKey
<1>1. CASE o \in processed
    BY <1>1, KeysChange DEF SetKey, Forget
<1>2. ASSUME NEW v \in Workers, pc[v] = "setKey", job[v].order = o
      PROVE  o \in processed' \/ At({"setKey"}, o)'
  <2>1. CASE SetKey(v)
      BY <1>2, <2>1 DEF SetKey
  <2>2. CASE pc'[v] = pc[v] /\ job'[v] = job[v]
      BY <1>2, <2>2 DEF At
  <2>3. Step(v) => SetKey(v)
      BY <1>2 DEF Step, Begin, Deliver, VoidOrder, Start, Work, CheckKey, FindOrder, Update,
         Launch, ReadForVoid, Restore, SetVoided, Refund, Ask, LookForRequest, CreateRequest, ReadRequest,
         SetApproved, SetRejected, ListExpired, SetExpired, Fail, QueryFails, Interrupted,
         VoidSteps, RequestSteps, CronSteps
  <2> QED BY <2>1, <2>2, <2>3, OneAtATime, OthersUntouched DEF locals
<1>3. ASSUME NEW w \in Workers, Launch(w), launched[o] = 0
      PROVE  At({"setKey"}, o)'
    BY <1>3 DEF Launch, Goto, At, TypeInv, TypeOK
<1>4. CASE launched[o] = 0
    BY <1>3, <1>4, LaunchedGrows
<1>5. launched[o] \in Nat
    BY DEF TypeInv, TypeOK
<1>6. QED
    BY <1>1, <1>2, <1>4, <1>5 DEF OnceInv, LaunchedHasKey, At

LEMMA OnceStep ==
    ASSUME TypeInv, OnceInv, OneWorker, [Next]_vars
    PROVE  StockLaunchedOnce'
<1>1. ASSUME NEW w \in Workers, Launch(w) PROVE StockLaunchedOnce'
  <2>1. job[w].order \in Orders /\ ~At({"setKey"}, job[w].order)
      BY <1>1, JobOfWorker DEF Launch, Steps, WebhookSteps, OneWorker, At
  <2>2. launched[job[w].order] = 0
      BY <1>1, <2>1 DEF Launch, OnceInv, Unprocessed, LaunchedHasKey, TypeInv, TypeOK
  <2> QED BY <1>1, <2>1, <2>2 DEF Launch, More, Limit, OnceInv, StockLaunchedOnce, TypeInv, TypeOK
<1>2. QED
    BY <1>1, LaunchedGrows DEF OnceInv, StockLaunchedOnce

\* Served one at a time, with no crash and the key kept, the notifications of any
\* order start one stock reduction, whatever the database refuses in between.
THEOREM LaunchesHappenOnce ==
    ASSUME OneWorker, "crash" \notin Faults, "forget" \notin Faults
    PROVE  Spec => []StockLaunchedOnce
<1>1. TypeInv /\ OnceInv /\ [Next]_vars => (TypeInv /\ OnceInv)'
    BY TypeStep, UnprocessedStep, LaunchedHasKeyStep, OnceStep DEF OnceInv
<1>2. OnceInv => StockLaunchedOnce
    BY DEF OnceInv
<1>3. QED
    BY <1>1, <1>2, TypeInit, OnceInit, PTL DEF Spec

\* What the worker read is still so when it writes: the status a webhook has
\* seen, and the pending order the cron gives back.
StillSeen ==
    \A w \in Workers :
        /\ pc[w] = "update" => seen[w] = status[job[w].order]
        /\ pc[w] \in {"giveBack", "setExpired"} => status[job[w].order] = "pending_sync"

\* A completed charge has its key, or is about to get it.
CompletedHasKey ==
    \A o \in Charged :
        status[o] = "completed" => o \in processed \/ At({"audit", "setKey"}, o)

FinalInv == Unprocessed /\ StillSeen /\ CompletedHasKey

LEMMA FinalInit == Init => FinalInv
BY LifecycleAssumption DEF Init, FinalInv, Unprocessed, StillSeen, CompletedHasKey, Cash

LEMMA StillSeenStep ==
    ASSUME TypeInv, StillSeen, OneWorker, [Next]_vars
    PROVE  StillSeen'
<1> USE DEF order, stock, gateway, webhook, brokenOff, locals
<1>1. CASE UNCHANGED locals
  <2>1. \A w \in Workers : ~Step(w) \/ UNCHANGED status
      BY <1>1 DEF Step, Begin, Deliver, VoidOrder, Start, Work, CheckKey, FindOrder, Update,
         Launch, SetKey, ReadForVoid, Restore, SetVoided, Refund, Ask, LookForRequest, CreateRequest,
         ReadRequest, SetApproved, SetRejected, ListExpired, SetExpired, Fail, QueryFails, Interrupted, Goto, Leave,
         Continue, TypeInv, TypeOK
  <2>2. UNCHANGED status
      BY <2>1, StepCases DEF Outside, Older, Reduce, Forget, Report, vars
  <2> QED BY <1>1, <2>2 DEF StillSeen
<1>2. ASSUME NEW w \in Workers, Step(w) PROVE StillSeen'
  <2> USE DEF Goto, Leave, Continue, OneWorker, StillSeen, TypeInv, TypeOK
  <2>1. CASE Begin(w) \/ Fail(w) \/ QueryFails(w) \/ Interrupted(w)
      BY <1>2, <2>1, HowWorkersMove DEF Begin, Deliver, VoidOrder, Start, Fail, QueryFails, Interrupted
  <2>2. CASE Work(w)
      BY <2>2 DEF Work, CheckKey, FindOrder, Update,
         Launch, SetKey, ReadForVoid, Restore, SetVoided, Refund, Ask, LookForRequest, CreateRequest,
         ReadRequest, SetApproved, SetRejected, ListExpired, SetExpired, Unpaid
  <2> QED BY <1>2, <2>1, <2>2 DEF Step
<1>3. QED
    BY <1>1, <1>2, OneAtATime

LEMMA CompletedHasKeyStep ==
    ASSUME TypeInv, FinalInv, OneWorker, Faults = {}, [Next]_vars
    PROVE  CompletedHasKey'
<1> SUFFICES ASSUME NEW o \in Charged, status'[o] = "completed"
             PROVE  o \in processed' \/ At({"audit", "setKey"}, o)'
    BY DEF CompletedHasKey
<1>0. o \in Orders
    BY LifecycleAssumption
<1>1. CASE o \in processed
    BY <1>1, KeysChange DEF SetKey, Forget
<1>2. ASSUME NEW v \in Workers, pc[v] \in {"audit", "setKey"}, job[v].order = o
      PROVE  o \in processed' \/ At({"audit", "setKey"}, o)'
  <2>1. CASE SetKey(v)
      BY <1>2, <2>1 DEF SetKey
  <2>2. CASE Launch(v)
      BY <1>2, <2>2 DEF Launch, Goto, At, TypeInv, TypeOK
  <2>3. CASE pc'[v] = pc[v] /\ job'[v] = job[v]
      BY <1>2, <2>3 DEF At
  <2>4. Step(v) => SetKey(v) \/ Launch(v)
      BY <1>2 DEF Step, Begin, Deliver, VoidOrder, Start, Work, CheckKey, FindOrder, Update,
         ReadForVoid, Restore, SetVoided, Refund, Ask, LookForRequest, CreateRequest, ReadRequest,
         SetApproved, SetRejected, ListExpired, SetExpired, Fail, QueryFails, Interrupted
  <2> QED BY <2>1, <2>2, <2>3, <2>4, OneAtATime, OthersUntouched DEF locals
<1>3. CASE status[o] = "completed"
    BY <1>1, <1>2, <1>3 DEF FinalInv, CompletedHasKey, At
<1>4. ASSUME NEW w \in Workers, pc[w] = "update", job[w].order = o, status[o] # "completed"
      PROVE  seen[w] # "completed"
    BY <1>4 DEF FinalInv, StillSeen
<1>5. ASSUME NEW w \in Workers, pc'[w] = "audit", job[w].order = o, job'[w] = job[w]
      PROVE  At({"audit", "setKey"}, o)'
    BY <1>5 DEF At
<1>6. QED
    BY <1>3, <1>4, <1>5, CompletedBy

\* In a system that serves one request at a time, with no fault: a completed order
\* leaves that status by the hand of an admin only.
THEOREM CompletedStaysCompleted ==
    ASSUME OneWorker, Faults = {}
    PROVE  Spec => CompletedIsFinal
<1>1. TypeInv /\ FinalInv /\ [Next]_vars => (TypeInv /\ FinalInv)'
    BY TypeStep, UnprocessedStep, StillSeenStep, CompletedHasKeyStep DEF FinalInv
<1>2. ASSUME TypeInv, FinalInv, [Next]_vars, NEW o \in Orders,
             status[o] = "completed", status'[o] # "completed"
      PROVE  o \in voidedBy'
  <2>1. ASSUME NEW w \in Workers, Update(w) PROVE FALSE
    <3>1. job[w].order = o /\ o \in Charged
        BY <1>2, <2>1, JobOfWorker DEF Update, TypeInv, TypeOK, Steps, WebhookSteps
    <3>2. o \in processed
        BY <1>2, <2>1, <3>1 DEF Update, FinalInv, CompletedHasKey, At, OneWorker
    <3> QED BY <1>2, <2>1, <3>1, <3>2 DEF Update, FinalInv, Unprocessed
  <2>2. ASSUME NEW w \in Workers, SetVoided(w) PROVE o \in voidedBy'
      BY <1>2, <2>2 DEF SetVoided, TypeInv, TypeOK
  <2>3. ASSUME NEW w \in Workers, SetExpired(w) PROVE FALSE
      BY <1>2, <2>3 DEF SetExpired, FinalInv, StillSeen, TypeInv, TypeOK
  <2> QED BY <1>2, <2>1, <2>2, <2>3, StatusChanges
<1>3. TypeInv /\ FinalInv /\ [Next]_vars =>
      [\A o \in Orders :
          (status[o] = "completed" /\ status'[o] # "completed") => o \in voidedBy']_vars
    BY <1>2
<1>4. QED
    BY <1>1, <1>3, TypeInit, FinalInit, PTL DEF Spec, CompletedIsFinal

\* A cash order that is refunded is voided, so that no later void gets past its
\* first step; a void that is past it has not refunded yet.
VoidsOfCash ==
    \A w \in Workers : job[w].order \in Cash =>
        /\ pc[w] \notin WebhookSteps \cup {"giveBack", "setExpired"}
        /\ pc[w] \in {"restore", "setVoided", "refund"} => refunds[job[w].order] = 0
        /\ pc[w] = "refund" => status[job[w].order] = "voided"

RefundedIsVoided == \A o \in Cash : refunds[o] > 0 => status[o] = "voided"

RefundInv == VoidsOfCash /\ RefundedIsVoided /\ CashRefundedOnce

LEMMA RefundInit == Init => RefundInv
BY DEF Init, RefundInv, VoidsOfCash, RefundedIsVoided, CashRefundedOnce, WebhookSteps, Cash

LEMMA VoidsOfCashStep ==
    ASSUME TypeInv, RefundInv, OneWorker, [Next]_vars
    PROVE  VoidsOfCash'
<1> USE DEF order, stock, gateway, webhook, brokenOff, locals
<1> SUFFICES ASSUME NEW w \in Workers, job'[w].order \in Cash
             PROVE  /\ pc'[w] \notin WebhookSteps \cup {"giveBack", "setExpired"}
                    /\ pc'[w] \in {"restore", "setVoided", "refund"} => refunds'[job'[w].order] = 0
                    /\ pc'[w] = "refund" => status'[job'[w].order] = "voided"
    BY DEF VoidsOfCash
<1>1. CASE UNCHANGED <<locals, status, refunds>>
    BY <1>1 DEF RefundInv, VoidsOfCash
<1>2. CASE Step(w)
  <2> USE DEF Goto, Leave, Continue, RefundInv, VoidsOfCash, RefundedIsVoided, TypeInv, TypeOK,
          WebhookSteps
  <2>1. CASE Begin(w)
    <3>1. ASSUME NEW n \in notices, Deliver(w, n) PROVE FALSE
      <4>1. n.order \in Charged
          BY DEF TypeInv
      <4>2. job'[w].order = n.order
          BY <3>1 DEF Deliver, Start
      <4> QED BY <4>1, <4>2 DEF Cash
    <3> QED BY <2>1, <3>1 DEF Begin, VoidOrder, Start
  <2>2. CASE Fail(w) \/ QueryFails(w) \/ Interrupted(w)
      BY <2>2 DEF Fail, QueryFails, Interrupted, Steps
  <2>3. CASE CheckKey(w) \/ FindOrder(w) \/ Update(w) \/ Launch(w) \/ SetKey(w)
      BY <2>3 DEF CheckKey, FindOrder, Update, Launch, SetKey
  <2>4. CASE ListExpired(w)
      BY <2>4, LifecycleAssumption DEF ListExpired, Cash
  <2>5. CASE ReadForVoid(w)
    <3>1. job[w].order \in Orders
        BY <2>5, JobOfWorker DEF ReadForVoid, Steps, VoidSteps
    <3> QED BY <2>5, <3>1 DEF ReadForVoid, Cash
  <2>6. CASE SetVoided(w)
    <3>1. job[w].order \in Orders
        BY <2>6, JobOfWorker DEF SetVoided, Steps, VoidSteps
    <3> QED BY <2>6, <3>1 DEF SetVoided
  <2>7. CASE \/ Restore(w, "restore", "setVoided") \/ Refund(w)
             \/ Ask(w) \/ LookForRequest(w) \/ CreateRequest(w)
             \/ ReadRequest(w, "approve", "setApproved") \/ SetApproved(w)
             \/ ReadRequest(w, "reject", "setRejected") \/ SetRejected(w)
             \/ Restore(w, "giveBack", "setExpired") \/ SetExpired(w)
      BY <2>7 DEF Restore, Refund, Ask, LookForRequest, CreateRequest, ReadRequest,
         SetApproved, SetRejected, SetExpired
  <2> QED BY <1>2, <2>1, <2>2, <2>3, <2>4, <2>5, <2>6, <2>7 DEF Step, Work
<1>3. QED
    BY <1>1, <1>2, StepCases DEF Outside, Older, Reduce, Forget, Report, vars, OneWorker

LEMMA RefundedIsVoidedStep ==
    ASSUME TypeInv, RefundInv, [Next]_vars
    PROVE  RefundedIsVoided' /\ CashRefundedOnce'
<1> USE DEF TypeInv, TypeOK, order, stock, gateway, webhook, brokenOff, locals, RefundInv
<1>1. ASSUME NEW w \in Workers, Refund(w) PROVE RefundedIsVoided' /\ CashRefundedOnce'
  <2>1. job[w].order \in Orders /\ UNCHANGED status
      BY <1>1, JobOfWorker DEF Refund, Steps, VoidSteps
  <2>2. job[w].order \in Cash =>
            refunds[job[w].order] = 0 /\ status[job[w].order] = "voided"
      BY <1>1 DEF Refund, VoidsOfCash
  <2>3. refunds' = [refunds EXCEPT ![job[w].order] = More(@)]
      BY <1>1 DEF Refund
  <2> QED BY <2>1, <2>2, <2>3 DEF RefundedIsVoided, CashRefundedOnce, Cash, More, Limit
<1>2. CASE UNCHANGED refunds
  <2>1. ASSUME NEW w \in Workers, Update(w) \/ SetExpired(w)
        PROVE  job[w].order \notin Cash
      BY <2>1 DEF Update, SetExpired, VoidsOfCash, WebhookSteps
  <2>2. ASSUME NEW w \in Workers, Update(w) \/ SetExpired(w) PROVE RefundedIsVoided'
      BY <1>2, <2>1, <2>2 DEF Update, SetExpired, RefundedIsVoided, Cash
  <2>3. ASSUME NEW w \in Workers, SetVoided(w) PROVE RefundedIsVoided'
      BY <1>2, <2>3 DEF SetVoided, RefundedIsVoided, Cash
  <2> QED BY <1>2, <2>2, <2>3, StatusChanges DEF RefundedIsVoided, CashRefundedOnce
<1>3. QED
    BY <1>1, <1>2, RefundsGrow

\* In a system that serves one request at a time, whatever goes wrong: a cash
\* order is refunded at most once.
THEOREM CashIsRefundedOnce ==
    ASSUME OneWorker
    PROVE  Spec => []CashRefundedOnce
<1>1. TypeInv /\ RefundInv /\ [Next]_vars => (TypeInv /\ RefundInv)'
    BY TypeStep, VoidsOfCashStep, RefundedIsVoidedStep DEF RefundInv
<1>2. RefundInv => CashRefundedOnce
    BY DEF RefundInv
<1>3. QED
    BY <1>1, <1>2, TypeInit, RefundInit, PTL DEF Spec
=============================================================================
