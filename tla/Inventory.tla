------------------------------- MODULE Inventory -------------------------------
(***************************************************************************)
(* Raw materials and their movements.  An order takes what its recipes say   *)
(* (reduceStockForOrder) and a void gives it back (restoreStockForOrder);    *)
(* the admin counts (submitOpname), records waste and adjusts.  Each writes  *)
(* in one read-committed transaction, whose updates lock the rows of         *)
(* RawMaterial one after the other, in the order of the sold products; the   *)
(* recipes, and what waste checks, are read before it.                       *)
(*                                                                         *)
(* A cost_per_unit is one unit of money, so that a COGS is a quantity.       *)
(***************************************************************************)
EXTENDS Integers, Sequences, FiniteSets, Functions, SequencesExt

CONSTANTS
    Materials,
    StockOrders,   \* the orders
    Entries,       \* the materials of an order, in the order it locks them
    Servings,      \* quantities a recipe may say
    StockJobs,     \* transactions that may run at once
    InitialStock,
    MaxAdmin       \* bound: calls of the admin

ASSUME InventoryAssumption ==
    /\ IsFiniteSet(Materials)
    /\ Entries \in [StockOrders -> Seq(Materials)]
    /\ \A o \in StockOrders : IsInjective(Entries[o])
    /\ Servings \subseteq Nat /\ Servings # {} /\ InitialStock \in Nat \ {0}
    /\ MaxAdmin \in Nat

VARIABLES
    stock,         \* current_stock
    moved,         \* the sum of the StockMovement rows
    drawn,         \* the part of them that decrementBatchStock wrote
    batches,       \* the quantities of the rows of type 'in'
    recipe,        \* quantity_per_serving by material
    used,          \* what each order has taken and been given back
    stockJob,      \* the running calls
    raced,         \* materials a stock-take has overwritten with a stale difference
    unbooked,      \* materials given back to without a row
    adminCalls     \* how many there were

inventoryVars == <<stock, moved, drawn, batches, recipe, used, stockJob, raced, unbooked, adminCalls>>

None == [m \in Materials |-> 0]
NoJob == [op |-> "none"]
StockJob == [op: {"reduce", "restore", "opname", "waste"}, order: StockOrders \cup {0},
             need: [Materials -> Nat], todo: SUBSET Materials, held: SUBSET Materials,
             read: [Materials -> Int], draws: [Materials -> Seq(Nat)]]
UsedRow == [reduce: {"no", "running", "done", "failed"}, restore: {"no", "running", "done", "failed"},
            out: [Materials -> Nat], back: [Materials -> Nat], cogs: Nat, sameRecipe: BOOLEAN]

InventoryTypeOK ==
    /\ stock \in [Materials -> Int] /\ moved \in [Materials -> Int]
    /\ drawn \in [Materials -> Nat] /\ batches \in [Materials -> Seq(Nat)]
    /\ recipe \in [Materials -> Servings]
    /\ used \in [StockOrders -> UsedRow]
    /\ stockJob \in [StockJobs -> {NoJob} \cup StockJob]
    /\ raced \subseteq Materials /\ unbooked \subseteq Materials
    /\ adminCalls \in 0..MaxAdmin

InventoryInit ==
    /\ stock = [m \in Materials |-> InitialStock]
    /\ moved = None /\ drawn = None
    /\ batches = [m \in Materials |-> <<>>]
    /\ recipe \in [Materials -> Servings \ {0}]
    /\ used = [o \in StockOrders |->
                 [reduce |-> "no", restore |-> "no", out |-> None, back |-> None, cogs |-> 0,
                  sameRecipe |-> TRUE]]
    /\ stockJob = [j \in StockJobs |-> NoJob]
    /\ raced = {} /\ unbooked = {} /\ adminCalls = 0

-----------------------------------------------------------------------------
(* Transactions: wait for the rows one by one, then write them together. *)

Job(op, o, need, todo) ==
    [op |-> op, order |-> o, need |-> need, todo |-> todo, held |-> {},
     read |-> IF op = "opname" THEN stock ELSE None, draws |-> [m \in Materials |-> <<>>]]

InRecipe(o) == ToSet(Entries[o])
Needs(o) == [m \in Materials |-> IF m \in InRecipe(o) THEN recipe[m] ELSE 0]

\* The order and its recipes, as they are now, not as they were when it was sold.
BeginForOrder(j, op, o) ==
    /\ stockJob[j] = NoJob
    /\ used[o][op] = "no"
    /\ stockJob' = [stockJob EXCEPT ![j] = 
          Job(op, o, Needs(o), {m \in InRecipe(o) : recipe[m] > 0})]
    /\ used' = [used EXCEPT ![o][op] = "running"]
    /\ UNCHANGED <<stock, moved, drawn, batches, recipe, raced, unbooked, adminCalls>>

Lacking(qty, rows) == LET sum == SumFunction(rows)
                      IN IF qty > sum THEN qty - sum ELSE 0

\* findAvailableBatches looks a batch's deductions up under the wrong key, so
\* that every batch has its whole quantity left, for ever.
DrawFrom(qty, rows) ==
    [i \in DOMAIN rows |->
        LET left == Lacking(qty, SubSeq(rows, 1, i - 1))
        IN IF left < rows[i] THEN left ELSE rows[i]]

\* The order in which a call updates its rows: that of the sold products, or of
\* the items the page sent.
LockOrder(job) == IF job.op = "opname" THEN SetToSeq(Materials) ELSE Entries[job.order]

IsNext(job, m) ==
    \E i \in DOMAIN LockOrder(job) :
       /\ LockOrder(job)[i] = m /\ m \in job.todo
       /\ \A n \in 1..(i - 1) : LockOrder(job)[n] \notin job.todo

\* The update of the row: it waits for the transactions that have updated it.
\* The batches are looked at just before; what none has is the last draw.
Take(j, m) ==
    LET job == stockJob[j]
    IN /\ job.op \notin {"none", "waste"} /\ IsNext(job, m)
       /\ \A k \in StockJobs \ {j} : stockJob[k].op # "none" => m \notin stockJob[k].held
       /\ stockJob' = [stockJob EXCEPT
             ![j].todo = @ \ {m}, ![j].held = @ \cup {m},
             ![j].draws[m] = IF job.op = "reduce"
                             THEN Append(DrawFrom(job.need[m], batches[m]),
                                         Lacking(job.need[m], batches[m]))
                             ELSE <<>>]
       /\ UNCHANGED <<stock, moved, drawn, batches, recipe, used, raced, unbooked, adminCalls>>

Ready(j, op) == stockJob[j].op = op /\ stockJob[j].todo = {}
End(j) == stockJob' = [stockJob EXCEPT ![j] = NoJob]
Free(m) == \A k \in StockJobs : stockJob[k].op # "none" => m \notin stockJob[k].held

\* Each material: what its batches give, and the rest at the current price.
Cogs(job) == SumFunction([m \in Materials |-> SumFunction(job.draws[m])])

FromBatches(job, m) ==
    SumFunctionOnSet(job.draws[m], 1..(Len(job.draws[m]) - 1))

\* A row 'out' for what each batch gives, and one for the whole.
CommitReduce(j) ==
    LET job == stockJob[j]
    IN /\ Ready(j, "reduce")
       /\ stock' = [m \in Materials |-> stock[m] - job.need[m]]
       /\ moved' = [m \in Materials |-> moved[m] - FromBatches(job, m) - job.need[m]]
       /\ drawn' = [m \in Materials |-> drawn[m] + FromBatches(job, m)]
       /\ used' = [used EXCEPT ![job.order].reduce = "done", ![job.order].out = job.need,
                               ![job.order].cogs = Cogs(job)]
       /\ End(j)
       /\ UNCHANGED <<batches, recipe, raced, unbooked, adminCalls>>

Booked(o, m) == used[o].out[m] > 0

\* Variant: the loop ends after the first material.
Restoration_FirstOnly(job) ==
    [m \in Materials |-> IF m = Entries[job.order][1] THEN job.need[m] ELSE 0]

Restoration(job) == job.need

\* A row 'in' only where there is a row 'out'; the stock in any case.
CommitRestore(j) ==
    LET job == stockJob[j]
        back == Restoration(job)
    IN /\ Ready(j, "restore")
       /\ stock' = [m \in Materials |-> stock[m] + back[m]]
       /\ moved' = [m \in Materials |-> moved[m] + IF Booked(job.order, m) THEN back[m] ELSE 0]
       /\ batches' = [m \in Materials |-> IF Booked(job.order, m) /\ back[m] > 0
                         THEN Append(batches[m], back[m]) ELSE batches[m]]
       /\ used' = [used EXCEPT ![job.order].restore = "done", ![job.order].back = back]
       /\ unbooked' = unbooked \cup {m \in Materials : back[m] > 0 /\ ~Booked(job.order, m)}
       /\ End(j)
       /\ UNCHANGED <<drawn, recipe, raced, adminCalls>>

\* An error, the end of the process, or PostgreSQL ending one of two transactions
\* that wait for each other's rows.  The callers log it; no one asks again.
Rollback(j) ==
    LET job == stockJob[j]
    IN /\ job.op # "none"
       /\ used' = IF job.op \in {"reduce", "restore"}
                  THEN [used EXCEPT ![job.order][job.op] = "failed"] ELSE used
       /\ End(j)
       /\ UNCHANGED <<stock, moved, drawn, batches, recipe, raced, unbooked, adminCalls>>

-----------------------------------------------------------------------------
(* The admin *)

AdminCalls == adminCalls < MaxAdmin /\ adminCalls' = adminCalls + 1

\* The counts are those of the moment the items were counted, in the page; the
\* stock is read when the transaction begins.
OpnameBegin(j, physical) ==
    /\ stockJob[j] = NoJob
    /\ AdminCalls
    /\ stockJob' = [stockJob EXCEPT ![j] =
          Job("opname", 0, physical, {m \in Materials : physical[m] # stock[m]})]
    /\ UNCHANGED <<stock, moved, drawn, batches, recipe, used, raced, unbooked>>

Difference(job, m) == job.need[m] - job.read[m]

OpnameCommit(j) ==
    LET job == stockJob[j]
        diff == [m \in Materials |-> IF m \in job.held THEN Difference(job, m) ELSE 0]
    IN /\ Ready(j, "opname")
       /\ stock' = [m \in Materials |-> IF m \in job.held THEN job.need[m] ELSE stock[m]]
       /\ moved' = [m \in Materials |-> moved[m] + diff[m]]
       /\ batches' = [m \in Materials |-> IF diff[m] > 0
                         THEN Append(batches[m], diff[m]) ELSE batches[m]]
       /\ raced' = raced \cup {m \in job.held : stock[m] # job.read[m]}
       /\ End(j)
       /\ UNCHANGED <<drawn, recipe, used, unbooked, adminCalls>>

\* The page and recordWaste look whether there is enough, before the transaction.
WasteBegin(j, m, qty) ==
    /\ stockJob[j] = NoJob
    /\ stock[m] >= qty
    /\ AdminCalls
    /\ stockJob' = [stockJob EXCEPT ![j] = Job("waste", 0, [None EXCEPT ![m] = qty], {m})]
    /\ UNCHANGED <<stock, moved, drawn, batches, recipe, used, raced, unbooked>>

WasteCommit(j, m) ==
    LET job == stockJob[j]
    IN /\ job.op = "waste" /\ m \in job.todo /\ Free(m)
       /\ stock' = [stock EXCEPT ![m] = @ - job.need[m]]
       /\ moved' = [moved EXCEPT ![m] = @ - job.need[m]]
       /\ End(j)
       /\ UNCHANGED <<drawn, batches, recipe, used, raced, unbooked, adminCalls>>

\* adjustStock: 'in' adds, every other type subtracts.
Adjust(m, qty, type) ==
    /\ Free(m)
    /\ AdminCalls
    /\ LET change == IF type = "in" THEN qty ELSE -qty
       IN /\ stock' = [stock EXCEPT ![m] = @ + change]
          /\ moved' = [moved EXCEPT ![m] = @ + change]
    /\ batches' = IF type = "in" THEN [batches EXCEPT ![m] = Append(@, qty)]
                  ELSE batches
    /\ UNCHANGED <<drawn, recipe, used, stockJob, raced, unbooked>>

\* createBomRecipe, updateBomRecipe and deleteBomRecipe (with quantity 0).
ChangeRecipe(m, q) ==
    /\ q # recipe[m]
    /\ AdminCalls
    /\ recipe' = [recipe EXCEPT ![m] = q]
    /\ used' = [o \in StockOrders |-> IF {used[o].reduce, used[o].restore} = {"no"} THEN used[o]
                                       ELSE [used[o] EXCEPT !.sameRecipe = FALSE]]
    /\ UNCHANGED <<stock, moved, drawn, batches, stockJob, raced, unbooked>>

-----------------------------------------------------------------------------
OrderJob(j) ==
    \/ CommitReduce(j) \/ CommitRestore(j) \/ OpnameCommit(j)
    \/ \E m \in Materials : Take(j, m) \/ WasteCommit(j, m)

AdminCall(j) ==
    \/ \E physical \in [Materials -> {InitialStock - 1, InitialStock + 1}] : OpnameBegin(j, physical)
    \/ \E m \in Materials : \E q \in Servings \ {0} : WasteBegin(j, m, q)

InventoryNext ==
    \/ \E j \in StockJobs :
          \/ OrderJob(j) \/ Rollback(j) \/ AdminCall(j)
          \/ \E o \in StockOrders, op \in {"reduce", "restore"} : BeginForOrder(j, op, o)
    \/ \E m \in Materials :
          \/ \E q \in Servings \ {0}, type \in {"in", "adjustment"} : Adjust(m, q, type)
          \/ \E q \in Servings : ChangeRecipe(m, q)

InventorySpec == InventoryInit /\ [][InventoryNext]_inventoryVars

-----------------------------------------------------------------------------
(* Properties *)

\* The rows of StockMovement account for the stock once those of the batches, which
\* say again what an order's own row says, are taken off; unless a stock-take wrote
\* over a newer stock or a void gave back what was never taken.
LedgerExplainsStock ==
    \A m \in Materials :
       \/ stock[m] = InitialStock + moved[m] + drawn[m]
       \/ m \in raced \/ m \in unbooked

\* Whatever the batches looked like, an order's cogs_total has the cost of all
\* it took.
CogsIsWhole ==
    \A o \in StockOrders :
       used[o].reduce = "done" => used[o].cogs = SumFunction(used[o].out)

\* A void gives back what the order took, as long as the recipes stay the same.
VoidGivesBack ==
    \A o \in StockOrders :
       used[o].reduce = "done" /\ used[o].restore = "done" /\ used[o].sameRecipe
       => used[o].back = used[o].out

\* What left the stock is in the ledger (twice what came from batches), in the cost of
\* an order, and given back when the order is voided.
StockIsExplained == LedgerExplainsStock /\ CogsIsWhole /\ VoidGivesBack
=============================================================================
