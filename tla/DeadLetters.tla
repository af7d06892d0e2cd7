------------------------------- MODULE DeadLetters -------------------------------
(***************************************************************************)
(* What is done with what failed: the dead letters of the QRIS webhook        *)
(* (WebhookDLQService) and the jobs that BullMQ runs again when they throw    *)
(* (SyncProcessor, EmailProcessor).  No code adds a job and no route calls    *)
(* retryEntry yet, so that the callers of both are the module's environment.  *)
(* The queue itself is external: an attempt that throws is repeated up to     *)
(* three times, and a job whose worker died is given out once more.           *)
(***************************************************************************)
EXTENDS Naturals, FiniteSets

CONSTANTS
    Letters,     \* dead letters
    Helpers,     \* admins' calls that may be under way
    SyncJobs,    \* sync_order jobs, of one order
    MaxAttempts, \* max_attempts of a letter, attempts of a job (3 in the code)
    MaxRetried   \* bound: retries of a letter that are counted

ASSUME DeadLetterAssumption == MaxAttempts \in Nat \ {0} /\ MaxRetried \in Nat

VARIABLES
    letter,      \* the rows of webhook_dlq
    applied,     \* letters whose payload a retry has processed
    waved,       \* letters that were acknowledged
    started,     \* retries marked, per letter
    crowded,     \* letters that two calls handled at a time
    helper,      \* the calls of retryEntry
    job,         \* the jobs of the queue
    syncOrder,   \* the order: its status, and how often its stock was taken
    shaky        \* an attempt's stock failed, its answer was lost, a worker died or two
                 \* jobs met

letterVars == <<letter, applied, waved, started, crowded, helper>>
jobVars == <<job, syncOrder, shaky>>
deadLetterVars == <<letter, applied, waved, started, crowded, helper, job, syncOrder, shaky>>

MostTaken == 3   \* bound: how often the taken stock is counted

NoHelp == [at |-> "idle"]
HelperRow == [at: {"found", "marked", "processed", "failed"}, letter: Letters,
              attempts: 0..MaxRetried]

DeadLettersTypeOK ==
    /\ letter \in [Letters -> [status: {"none", "pending", "retrying", "failed", "resolved"},
                               attempts: 0..MaxRetried]]
    /\ applied \subseteq Letters /\ waved \subseteq Letters /\ crowded \subseteq Letters
    /\ started \in [Letters -> 0..MaxRetried]
    /\ helper \in [Helpers -> {NoHelp} \cup HelperRow]
    /\ job \in [SyncJobs -> [at: {"none", "waiting", "read", "updated", "done", "failed"},
                             attempts: 0..MaxAttempts]]
    /\ syncOrder \in [status: {"unpaid", "paid", "completed"}, taken: Nat]
    /\ shaky \in BOOLEAN

DeadLettersInit ==
    /\ letter = [d \in Letters |-> [status |-> "none", attempts |-> 0]]
    /\ applied = {} /\ waved = {} /\ crowded = {} /\ started = [d \in Letters |-> 0]
    /\ helper = [h \in Helpers |-> NoHelp]
    /\ job = [j \in SyncJobs |-> [at |-> "none", attempts |-> 0]]
    /\ syncOrder = [status |-> "unpaid", taken |-> 0] /\ shaky = FALSE

-----------------------------------------------------------------------------
(* The dead letters *)

Helped(d) == \E h \in Helpers : helper[h] # NoHelp /\ helper[h].letter = d

\* A webhook fails: a row, unless that fails as well.
AddToDLQ(d) ==
    /\ letter[d].status = "none"
    /\ letter' = [letter EXCEPT ![d].status = "pending"]
    /\ UNCHANGED <<applied, waved, started, crowded, helper, jobVars>>

\* In whatever state the letter is.
AcknowledgeEntry(d) ==
    /\ letter[d].status # "none"
    /\ letter' = [letter EXCEPT ![d].status = "resolved"]
    /\ waved' = waved \cup {d}
    /\ crowded' = IF Helped(d) THEN crowded \cup {d} ELSE crowded
    /\ UNCHANGED <<applied, started, helper, jobVars>>

FindEntry(h, d) ==
    /\ helper[h] = NoHelp /\ letter[d].status \notin {"none", "resolved"}
    /\ helper' = [helper EXCEPT ![h] = [at |-> "found", letter |-> d,
                                        attempts |-> letter[d].attempts]]
    /\ crowded' = IF Helped(d) THEN crowded \cup {d} ELSE crowded
    /\ UNCHANGED <<letter, applied, waved, started, jobVars>>

\* Variant: only what fails is counted.
Counted_Later(h) == helper[h].attempts

\* The count that was read, and one more.
Counted(h) == helper[h].attempts + 1

MarkRetrying(h) ==
    LET d == helper[h].letter
    IN  /\ helper[h].at = "found" /\ started[d] < MaxRetried
        /\ letter' = [letter EXCEPT ![d] = [status |-> "retrying", attempts |-> Counted(h)]]
        /\ started' = [started EXCEPT ![d] = @ + 1]
        /\ helper' = [helper EXCEPT ![h].at = "marked"]
        /\ UNCHANGED <<applied, waved, crowded, jobVars>>

\* The processor, which the caller brings.
Reprocess(h, ok) ==
    /\ helper[h].at = "marked"
    /\ applied' = IF ok THEN applied \cup {helper[h].letter} ELSE applied
    /\ helper' = [helper EXCEPT ![h].at = IF ok THEN "processed" ELSE "failed"]
    /\ UNCHANGED <<letter, waved, started, crowded, jobVars>>

AfterFailure(attempts) == IF attempts + 1 >= MaxAttempts THEN "failed" ELSE "pending"

\* An audit row that cannot be written turns a success into a failure.
FinishRetry(h, audited) ==
    /\ helper[h].at \in {"processed", "failed"}
    /\ letter' = [letter EXCEPT ![helper[h].letter].status =
                    IF helper[h].at = "processed" /\ audited THEN "resolved"
                    ELSE AfterFailure(helper[h].attempts)]
    /\ helper' = [helper EXCEPT ![h] = NoHelp]
    /\ UNCHANGED <<applied, waved, started, crowded, jobVars>>

\* The process ends, or the database fails: "retrying" stays.
RetryDies(h) ==
    /\ helper[h] # NoHelp
    /\ helper' = [helper EXCEPT ![h] = NoHelp]
    /\ UNCHANGED <<letter, applied, waved, started, crowded, jobVars>>

-----------------------------------------------------------------------------
(* The jobs *)

\* The processor's precondition, an order pending_sync and paid.  The webhook
\* writes status and payment in one update, so that nothing else makes one.
OrderIsPaid ==
    /\ syncOrder.status = "unpaid" /\ syncOrder' = [syncOrder EXCEPT !.status = "paid"]
    /\ UNCHANGED <<letterVars, job, shaky>>

AddJob(j) ==
    /\ job[j].at = "none" /\ job' = [job EXCEPT ![j].at = "waiting"]
    /\ UNCHANGED <<letterVars, syncOrder, shaky>>

SyncJobRuns == \E j \in SyncJobs : job[j].at \in {"read", "updated"}

ToSync == syncOrder.status = "paid"

\* syncSingleOrder finds the order, pending_sync and paid or not.
SyncReads(j) ==
    /\ job[j].at = "waiting"
    /\ job' = [job EXCEPT ![j].at = IF ToSync THEN "read" ELSE "done"]
    /\ shaky' = (shaky \/ SyncJobRuns)
    /\ UNCHANGED <<letterVars, syncOrder>>

SyncCompletes(j) ==
    /\ job[j].at = "read"
    /\ job' = [job EXCEPT ![j].at = "updated"]
    /\ syncOrder' = [syncOrder EXCEPT !.status = "completed"]
    /\ UNCHANGED <<letterVars, shaky>>

\* reduceStockForOrder.  Its error is caught and answered, so that the job is
\* done and never repeated.
SyncReduces(j, ok) ==
    /\ job[j].at = "updated"
    /\ job' = [job EXCEPT ![j].at = "done"]
    /\ syncOrder' = [syncOrder EXCEPT !.taken = IF ok /\ @ < MostTaken THEN @ + 1 ELSE @]
    /\ shaky' = (shaky \/ ~ok)
    /\ UNCHANGED letterVars

\* findUnique or the update throws, and the update may have been written all the
\* same: the error is caught and answered, and the job is done.
SyncFails(j, written) ==
    /\ job[j].at = "read" \/ (job[j].at = "waiting" /\ ~written)
    /\ job' = [job EXCEPT ![j].at = "done"]
    /\ syncOrder' = [syncOrder EXCEPT !.status = IF written THEN "completed" ELSE @]
    /\ shaky' = (shaky \/ written)
    /\ UNCHANGED letterVars

\* The worker dies and the job stalls; one time, the queue gives it out again.
JobStalls(j) ==
    /\ job[j].at \in {"read", "updated"}
    /\ job' = [job EXCEPT ![j] = IF @.attempts + 1 < MaxAttempts
                                 THEN [at |-> "waiting", attempts |-> @.attempts + 1]
                                 ELSE [at |-> "failed", attempts |-> @.attempts]]
    /\ shaky' = TRUE
    /\ UNCHANGED <<letterVars, syncOrder>>

DeadLettersNext ==
    \/ \E d \in Letters :
          \/ AddToDLQ(d) \/ AcknowledgeEntry(d)
          \/ \E h \in Helpers : FindEntry(h, d)
    \/ \E h \in Helpers :
          \/ MarkRetrying(h) \/ RetryDies(h)
          \/ \E ok \in BOOLEAN : Reprocess(h, ok) \/ FinishRetry(h, ok)
    \/ OrderIsPaid
    \/ \E j \in SyncJobs :
          \/ AddJob(j) \/ SyncReads(j) \/ SyncCompletes(j) \/ JobStalls(j)
          \/ \E ok \in BOOLEAN : SyncReduces(j, ok) \/ SyncFails(j, ok)

DeadLettersSpec == DeadLettersInit /\ [][DeadLettersNext]_deadLetterVars

-----------------------------------------------------------------------------
(* Properties *)

\* A letter that is resolved was processed by a retry or waved through by an
\* admin, whoever else worked on it meanwhile.
ResolvedIsHandled == \A d \in Letters : letter[d].status = "resolved" => d \in applied \cup waved

\* Every retry counts, those that died on the way too, unless two calls met.
RetriesAreCounted == \A d \in Letters : letter[d].attempts = started[d] \/ d \in crowded

\* A completed order's stock was taken once, when the jobs are through, unless an
\* attempt failed after the status was written, a worker died or two jobs met.
JobsTakeStockOnce ==
    /\ syncOrder.taken <= 1 \/ shaky
    /\ syncOrder.status = "completed" /\ ~SyncJobRuns => syncOrder.taken = 1 \/ shaky

\* Letters and stock jobs that are taken up again: nothing is resolved without
\* being handled, counted short or taken twice.
HandledOnce == ResolvedIsHandled /\ RetriesAreCounted /\ JobsTakeStockOnce
=============================================================================
