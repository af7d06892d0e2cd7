--------------------------- MODULE HousekeepingProofs ---------------------------
(* What the jobs that keep the house guarantee for any letters, helpers, shifts,  *)
(* containers, flags and backups: dead letters, notices, the monitor of the       *)
(* containers, the switches' cache, the backups and their restore.                *)
EXTENDS DeadLetters, Notices, HealthMonitor, Flags, Backup, TLAPS

-----------------------------------------------------------------------------
(* Dead letters: type correctness *)

\* A count that was read is not above the retries that were started: the next one
\* fits.
CountsFit ==
    /\ \A d \in Letters : letter[d].attempts <= started[d]
    /\ \A h \in Helpers : helper[h] # NoHelp => helper[h].attempts <= started[helper[h].letter]

LettersTypeInv == DeadLettersTypeOK /\ CountsFit

LEMMA NoHelpIsNoRow == NoHelp \notin HelperRow
BY DEF NoHelp, HelperRow

LEMMA LettersTypeInit == DeadLettersInit => LettersTypeInv
<1> SUFFICES ASSUME DeadLettersInit PROVE LettersTypeInv
    OBVIOUS
<1>1. 0 \in 0..MaxRetried /\ 0 \in 0..MaxAttempts
    BY DeadLetterAssumption
<1>2. /\ letter \in [Letters -> [status: {"none", "pending", "retrying", "failed", "resolved"},
                                 attempts: 0..MaxRetried]]
      /\ started \in [Letters -> 0..MaxRetried]
      /\ job \in [SyncJobs -> [at: {"none", "waiting", "read", "updated", "done", "failed"},
                               attempts: 0..MaxAttempts]]
      /\ syncOrder \in [status: {"unpaid", "paid", "completed"}, taken: Nat]
    BY <1>1 DEF DeadLettersInit
<1>3. DeadLettersTypeOK
    BY <1>2 DEF DeadLettersInit, DeadLettersTypeOK
<1>4. CountsFit
    BY DEF DeadLettersInit, CountsFit
<1>5. QED
    BY <1>3, <1>4 DEF LettersTypeInv

\* The steps of the letters.
LEMMA LettersTypeLetter ==
    ASSUME LettersTypeInv, NEW d \in Letters,
           AddToDLQ(d) \/ AcknowledgeEntry(d) \/ (\E h \in Helpers : FindEntry(h, d))
    PROVE  LettersTypeInv'
<1>1. CASE AddToDLQ(d)
    BY <1>1 DEF AddToDLQ, LettersTypeInv, DeadLettersTypeOK, CountsFit, jobVars
<1>2. CASE AcknowledgeEntry(d)
    BY <1>2 DEF AcknowledgeEntry, LettersTypeInv, DeadLettersTypeOK, CountsFit, jobVars
<1>3. ASSUME NEW h \in Helpers, FindEntry(h, d) PROVE LettersTypeInv'
  <2>1. [at |-> "found", letter |-> d, attempts |-> letter[d].attempts] \in HelperRow
      BY DEF HelperRow, LettersTypeInv, DeadLettersTypeOK
  <2>2. /\ DeadLettersTypeOK'
      BY <1>3, <2>1 DEF FindEntry, LettersTypeInv, DeadLettersTypeOK, HelperRow, jobVars
  <2>3. CountsFit'
      BY <1>3 DEF FindEntry, LettersTypeInv, DeadLettersTypeOK, CountsFit
  <2>4. QED BY <2>2, <2>3 DEF LettersTypeInv
<1>4. QED BY <1>1, <1>2, <1>3

\* The steps of a retry.
LEMMA LettersTypeHelper ==
    ASSUME LettersTypeInv, NEW h \in Helpers,
           MarkRetrying(h) \/ RetryDies(h) \/ (\E ok \in BOOLEAN : Reprocess(h, ok) \/ FinishRetry(h, ok))
    PROVE  LettersTypeInv'
<1>1. helper[h] # NoHelp => helper[h] \in HelperRow
    BY DEF LettersTypeInv, DeadLettersTypeOK, HelperRow
<1>2. CASE MarkRetrying(h)
  <2>1. helper[h] \in HelperRow
      BY <1>1, <1>2 DEF MarkRetrying, NoHelp
  <2> DEFINE d == helper[h].letter
  <2>2. /\ d \in Letters /\ helper[h].attempts \in 0..MaxRetried
        /\ helper[h].attempts <= started[d] /\ started[d] < MaxRetried /\ started[d] \in 0..MaxRetried
      BY <1>2, <2>1, NoHelpIsNoRow DEF MarkRetrying, HelperRow, LettersTypeInv, CountsFit, DeadLettersTypeOK
  <2>3. Counted(h) \in 0..MaxRetried /\ Counted(h) <= started[d] + 1 /\ started[d] + 1 \in 0..MaxRetried
      BY <2>2, DeadLetterAssumption DEF Counted
  <2>4. [helper[h] EXCEPT !.at = "marked"] \in HelperRow
      BY <2>1 DEF HelperRow
  <2>5. DeadLettersTypeOK'
      BY <1>2, <2>2, <2>3, <2>4 DEF MarkRetrying, LettersTypeInv, DeadLettersTypeOK, HelperRow, jobVars
  <2>6. CountsFit'
    <3>1. \A e \in Letters : started'[e] = IF e = d THEN started[d] + 1 ELSE started[e]
        BY <1>2, <2>2 DEF MarkRetrying, LettersTypeInv, DeadLettersTypeOK
    <3>2. \A e \in Letters : letter'[e].attempts <= started'[e]
        BY <1>2, <2>2, <2>3, <3>1 DEF MarkRetrying, LettersTypeInv, DeadLettersTypeOK, CountsFit
    <3>3. ASSUME NEW g \in Helpers, helper'[g] # NoHelp
          PROVE  helper'[g].attempts <= started'[helper'[g].letter]
      <4>1. helper[g] \in HelperRow /\ helper'[g].attempts = helper[g].attempts
            /\ helper'[g].letter = helper[g].letter
          BY <1>2, <2>1, <3>3 DEF MarkRetrying, LettersTypeInv, DeadLettersTypeOK, HelperRow
      <4>2. helper[g].attempts <= started[helper[g].letter] /\ started[helper[g].letter] \in 0..MaxRetried
          BY <4>1, NoHelpIsNoRow DEF LettersTypeInv, CountsFit, HelperRow, DeadLettersTypeOK
      <4>3. QED BY <2>2, <3>1, <4>1, <4>2, DeadLetterAssumption DEF HelperRow
    <3>4. QED BY <3>2, <3>3 DEF CountsFit
  <2>7. QED BY <2>5, <2>6 DEF LettersTypeInv
<1>3. CASE RetryDies(h)
    BY <1>3 DEF RetryDies, LettersTypeInv, DeadLettersTypeOK, CountsFit, jobVars
<1>4. ASSUME NEW ok \in BOOLEAN, Reprocess(h, ok) PROVE LettersTypeInv'
  <2>1. helper[h] \in HelperRow
      BY <1>1, <1>4 DEF Reprocess, NoHelp
  <2>2. DeadLettersTypeOK'
      BY <1>4, <2>1 DEF Reprocess, LettersTypeInv, DeadLettersTypeOK, HelperRow, jobVars
  <2>3. CountsFit'
      BY <1>4, <2>1, NoHelpIsNoRow DEF Reprocess, LettersTypeInv, DeadLettersTypeOK, CountsFit, HelperRow
  <2>4. QED BY <2>2, <2>3 DEF LettersTypeInv
<1>5. ASSUME NEW ok \in BOOLEAN, FinishRetry(h, ok) PROVE LettersTypeInv'
  <2>1. helper[h] \in HelperRow
      BY <1>1, <1>5 DEF FinishRetry, NoHelp
  <2>2. AfterFailure(helper[h].attempts) \in {"failed", "pending"}
      BY DEF AfterFailure
  <2>3. QED
      BY <1>5, <2>1, <2>2 DEF FinishRetry, LettersTypeInv, DeadLettersTypeOK, CountsFit, HelperRow, jobVars
<1>6. QED BY <1>2, <1>3, <1>4, <1>5

\* The steps of the jobs.
LEMMA LettersTypeJob ==
    ASSUME LettersTypeInv,
           \/ OrderIsPaid
           \/ \E j \in SyncJobs : AddJob(j) \/ SyncReads(j) \/ SyncCompletes(j) \/ JobStalls(j)
                                  \/ \E ok \in BOOLEAN : SyncReduces(j, ok) \/ SyncFails(j, ok)
    PROVE  LettersTypeInv'
<1>1. CASE OrderIsPaid
    BY <1>1 DEF OrderIsPaid, LettersTypeInv, DeadLettersTypeOK, CountsFit, letterVars
<1>2. ASSUME NEW j \in SyncJobs, AddJob(j) PROVE LettersTypeInv'
    BY <1>2 DEF AddJob, LettersTypeInv, DeadLettersTypeOK, CountsFit, letterVars
<1>3. ASSUME NEW j \in SyncJobs, SyncReads(j) PROVE LettersTypeInv'
    BY <1>3 DEF SyncReads, LettersTypeInv, DeadLettersTypeOK, CountsFit, letterVars, SyncJobRuns
<1>4. ASSUME NEW j \in SyncJobs, SyncCompletes(j) PROVE LettersTypeInv'
    BY <1>4 DEF SyncCompletes, LettersTypeInv, DeadLettersTypeOK, CountsFit, letterVars
<1>5. ASSUME NEW j \in SyncJobs, JobStalls(j) PROVE LettersTypeInv'
    BY <1>5, DeadLetterAssumption DEF JobStalls, LettersTypeInv, DeadLettersTypeOK, CountsFit, letterVars
<1>6. ASSUME NEW j \in SyncJobs, NEW ok \in BOOLEAN, SyncReduces(j, ok) PROVE LettersTypeInv'
    BY <1>6 DEF SyncReduces, LettersTypeInv, DeadLettersTypeOK, CountsFit, letterVars
<1>7. ASSUME NEW j \in SyncJobs, NEW written \in BOOLEAN, SyncFails(j, written) PROVE LettersTypeInv'
    BY <1>7 DEF SyncFails, LettersTypeInv, DeadLettersTypeOK, CountsFit, letterVars
<1>8. QED BY <1>1, <1>2, <1>3, <1>4, <1>5, <1>6, <1>7

LEMMA LettersTypeNext == LettersTypeInv /\ [DeadLettersNext]_deadLetterVars => LettersTypeInv'
<1> SUFFICES ASSUME LettersTypeInv, [DeadLettersNext]_deadLetterVars PROVE LettersTypeInv'
    OBVIOUS
<1>1. CASE UNCHANGED deadLetterVars
    BY <1>1 DEF deadLetterVars, letterVars, jobVars, LettersTypeInv, DeadLettersTypeOK, CountsFit
<1>2. QED
    BY <1>1, LettersTypeLetter, LettersTypeHelper, LettersTypeJob DEF DeadLettersNext

\* The rows, the calls and the jobs keep their shape.
THEOREM LettersTypeCorrect == DeadLettersSpec => []DeadLettersTypeOK
<1>1. LettersTypeInv => DeadLettersTypeOK
    BY DEF LettersTypeInv
<1>2. QED
    BY <1>1, LettersTypeInit, LettersTypeNext, PTL DEF DeadLettersSpec

-----------------------------------------------------------------------------
(* What a retry has done before its letter is resolved *)

Handled ==
    /\ ResolvedIsHandled
    /\ \A h \in Helpers : helper[h] # NoHelp /\ helper[h].at = "processed" =>
                           helper[h].letter \in applied

LEMMA HandledNext == LettersTypeInv /\ Handled /\ [DeadLettersNext]_deadLetterVars => Handled'
<1> SUFFICES ASSUME LettersTypeInv, Handled, [DeadLettersNext]_deadLetterVars PROVE Handled'
    OBVIOUS
<1> USE DEF Handled, ResolvedIsHandled
<1>1. CASE UNCHANGED letterVars
    BY <1>1 DEF letterVars
<1>2. ASSUME NEW d \in Letters, AddToDLQ(d) PROVE Handled'
    BY <1>2 DEF AddToDLQ, LettersTypeInv, DeadLettersTypeOK
<1>3. ASSUME NEW d \in Letters, AcknowledgeEntry(d) PROVE Handled'
    BY <1>3 DEF AcknowledgeEntry, LettersTypeInv, DeadLettersTypeOK
<1>4. ASSUME NEW d \in Letters, NEW h \in Helpers, FindEntry(h, d) PROVE Handled'
    BY <1>4 DEF FindEntry, LettersTypeInv, DeadLettersTypeOK
<1>5. ASSUME NEW h \in Helpers, MarkRetrying(h) PROVE Handled'
    BY <1>5 DEF MarkRetrying, LettersTypeInv, DeadLettersTypeOK, NoHelp
<1>6. ASSUME NEW h \in Helpers, RetryDies(h) PROVE Handled'
    BY <1>6 DEF RetryDies, LettersTypeInv, DeadLettersTypeOK
<1>7. ASSUME NEW h \in Helpers, NEW ok \in BOOLEAN, Reprocess(h, ok) PROVE Handled'
    BY <1>7 DEF Reprocess, LettersTypeInv, DeadLettersTypeOK, NoHelp
<1>8. ASSUME NEW h \in Helpers, NEW audited \in BOOLEAN, FinishRetry(h, audited) PROVE Handled'
  <2>1. helper[h] # NoHelp /\ AfterFailure(helper[h].attempts) # "resolved"
      BY <1>8 DEF FinishRetry, NoHelp, AfterFailure
  <2>2. QED BY <1>8, <2>1 DEF FinishRetry, LettersTypeInv, DeadLettersTypeOK
<1>9. QED
    BY <1>1, <1>2, <1>3, <1>4, <1>5, <1>6, <1>7, <1>8
    DEF DeadLettersNext, deadLetterVars, OrderIsPaid, AddJob, SyncReads, SyncCompletes, JobStalls, SyncReduces,
        SyncFails

-----------------------------------------------------------------------------
(* The count of a letter's retries *)

\* While no two calls met at a letter, one call is at it at most, and what it read
\* before it marks the letter is still there.
Counting ==
    \A d \in Letters \ crowded :
        /\ letter[d].attempts = started[d]
        /\ \A g, h \in Helpers :
              helper[g] # NoHelp /\ helper[h] # NoHelp /\ helper[g].letter = d /\ helper[h].letter = d
              => g = h
        /\ \A h \in Helpers :
              helper[h] # NoHelp /\ helper[h].letter = d /\ helper[h].at = "found"
              => helper[h].attempts = letter[d].attempts

LEMMA CountingNext == LettersTypeInv /\ Counting /\ [DeadLettersNext]_deadLetterVars => Counting'
<1> SUFFICES ASSUME LettersTypeInv, Counting, [DeadLettersNext]_deadLetterVars PROVE Counting'
    OBVIOUS
<1> USE DEF Counting
<1>1. CASE UNCHANGED letterVars
    BY <1>1 DEF letterVars
<1>2. ASSUME NEW d \in Letters, AddToDLQ(d) PROVE Counting'
    BY <1>2 DEF AddToDLQ, LettersTypeInv, DeadLettersTypeOK
<1>3. ASSUME NEW d \in Letters, AcknowledgeEntry(d) PROVE Counting'
    BY <1>3 DEF AcknowledgeEntry, LettersTypeInv, DeadLettersTypeOK
<1>4. ASSUME NEW d \in Letters, NEW h \in Helpers, FindEntry(h, d) PROVE Counting'
  <2> DEFINE row == [at |-> "found", letter |-> d, attempts |-> letter[d].attempts]
  <2>1. /\ \A g \in Helpers : helper'[g] = IF g = h THEN row ELSE helper[g]
        /\ letter' = letter /\ started' = started /\ crowded \subseteq crowded'
      BY <1>4 DEF FindEntry, LettersTypeInv, DeadLettersTypeOK
  <2>2. d \notin crowded' => \A g \in Helpers : helper[g] # NoHelp => helper[g].letter # d
      BY <1>4 DEF FindEntry, Helped
  <2>3. row.letter = d /\ row.attempts = letter[d].attempts
      OBVIOUS
  <2> HIDE DEF row
  <2>4. QED BY <1>4, <2>1, <2>2, <2>3
<1>5. ASSUME NEW h \in Helpers, MarkRetrying(h) PROVE Counting'
  <2>1. helper[h] # NoHelp /\ helper[h] \in HelperRow
      BY <1>5 DEF MarkRetrying, NoHelp, LettersTypeInv, DeadLettersTypeOK, HelperRow
  <2> DEFINE d == helper[h].letter
  <2>2. /\ d \in Letters /\ crowded' = crowded
        /\ \A e \in Letters : /\ letter'[e].attempts = IF e = d THEN Counted(h) ELSE letter[e].attempts
                              /\ started'[e] = IF e = d THEN started[d] + 1 ELSE started[e]
      BY <1>5, <2>1 DEF MarkRetrying, HelperRow, LettersTypeInv, DeadLettersTypeOK
  <2>3. /\ helper'[h].letter = d /\ helper'[h].at = "marked"
        /\ \A g \in Helpers \ {h} : helper'[g] = helper[g]
      BY <1>5, <2>1 DEF MarkRetrying, HelperRow, LettersTypeInv, DeadLettersTypeOK
  <2>4. d \notin crowded => Counted(h) = started[d] + 1
      BY <1>5, <2>1, <2>2 DEF MarkRetrying, Counted
  <2> HIDE DEF d
  <2>5. QED BY <2>1, <2>2, <2>3, <2>4 DEF d
<1>6. ASSUME NEW h \in Helpers, RetryDies(h) PROVE Counting'
    BY <1>6 DEF RetryDies, LettersTypeInv, DeadLettersTypeOK
<1>7. ASSUME NEW h \in Helpers, NEW ok \in BOOLEAN, Reprocess(h, ok) PROVE Counting'
    BY <1>7 DEF Reprocess, LettersTypeInv, DeadLettersTypeOK, NoHelp
<1>8. ASSUME NEW h \in Helpers, NEW audited \in BOOLEAN, FinishRetry(h, audited) PROVE Counting'
    BY <1>8 DEF FinishRetry, LettersTypeInv, DeadLettersTypeOK, NoHelp
<1>9. QED
    BY <1>1, <1>2, <1>3, <1>4, <1>5, <1>6, <1>7, <1>8
    DEF DeadLettersNext, deadLetterVars, OrderIsPaid, AddJob, SyncReads, SyncCompletes, JobStalls, SyncReduces,
        SyncFails

-----------------------------------------------------------------------------
(* The stock the jobs take *)

Runs(j) == job[j].at \in {"read", "updated"}

\* While the jobs are apart and nothing fails, the stock of the order is taken
\* once its job is over, and the job is the only one.
Taking ==
    ~shaky =>
        /\ \A i, j \in SyncJobs : Runs(i) /\ Runs(j) => i = j
        /\ \A j \in SyncJobs : /\ job[j].at = "read" => syncOrder.status = "paid"
                               /\ job[j].at = "updated" => syncOrder.status = "completed" /\ syncOrder.taken = 0
        /\ syncOrder.status # "completed" => syncOrder.taken = 0
        /\ syncOrder.status = "completed" /\ (\A j \in SyncJobs : ~Runs(j)) => syncOrder.taken = 1
        /\ syncOrder.taken <= 1

LEMMA TakingNext == LettersTypeInv /\ Taking /\ [DeadLettersNext]_deadLetterVars => Taking'
<1> SUFFICES ASSUME LettersTypeInv, Taking, [DeadLettersNext]_deadLetterVars, ~shaky' PROVE Taking'
    BY DEF Taking
<1>1. CASE UNCHANGED jobVars
    BY <1>1 DEF jobVars, Taking, Runs
<1>2. CASE OrderIsPaid
    BY <1>2 DEF OrderIsPaid, LettersTypeInv, DeadLettersTypeOK, Taking, Runs, MostTaken
<1>3. ASSUME NEW j \in SyncJobs, AddJob(j) PROVE Taking'
    BY <1>3 DEF AddJob, LettersTypeInv, DeadLettersTypeOK, Taking, Runs, MostTaken
<1>4. ASSUME NEW j \in SyncJobs, SyncReads(j) PROVE Taking'
    BY <1>4 DEF SyncReads, SyncJobRuns, ToSync, LettersTypeInv, DeadLettersTypeOK, Taking, Runs, MostTaken
<1>5. ASSUME NEW j \in SyncJobs, SyncCompletes(j) PROVE Taking'
    BY <1>5 DEF SyncCompletes, LettersTypeInv, DeadLettersTypeOK, Taking, Runs, MostTaken
<1>6. ASSUME NEW j \in SyncJobs, JobStalls(j) PROVE Taking'
    BY <1>6 DEF JobStalls
<1>7. ASSUME NEW j \in SyncJobs, NEW ok \in BOOLEAN, SyncReduces(j, ok) PROVE Taking'
  <2>1. /\ ok /\ ~shaky
        /\ job[j].at = "updated" /\ job'[j].at = "done"
        /\ \A i \in SyncJobs : i # j => job'[i] = job[i]
    BY <1>7 DEF SyncReduces, LettersTypeInv, DeadLettersTypeOK
  <2>2. syncOrder.status = "completed" /\ syncOrder.taken = 0
    BY <2>1 DEF Taking
  <2>3. syncOrder'.status = "completed" /\ syncOrder'.taken = 1
    BY <1>7, <2>1, <2>2 DEF SyncReduces, LettersTypeInv, DeadLettersTypeOK, MostTaken
  <2>4. \A i \in SyncJobs : job'[i].at \notin {"read", "updated"}
    BY <2>1 DEF Taking, Runs
  <2>5. QED BY <2>3, <2>4 DEF Taking, Runs
<1>8. ASSUME NEW j \in SyncJobs, NEW written \in BOOLEAN, SyncFails(j, written) PROVE Taking'
  <2>1. ~written /\ syncOrder' = syncOrder /\ ~shaky
      BY <1>8 DEF SyncFails, LettersTypeInv, DeadLettersTypeOK
  <2>2. CASE job[j].at = "waiting"
      BY <1>8, <2>1, <2>2 DEF SyncFails, LettersTypeInv, DeadLettersTypeOK, Taking, Runs
  <2>3. CASE job[j].at = "read"
    <3>1. \A i \in SyncJobs : job'[i].at = IF i = j THEN "done" ELSE job[i].at
        BY <1>8 DEF SyncFails, LettersTypeInv, DeadLettersTypeOK
    <3>2. syncOrder.status = "paid" /\ \A i \in SyncJobs : Runs(i) => i = j
        BY <2>1, <2>3 DEF Taking, Runs
    <3>3. QED BY <2>1, <3>1, <3>2 DEF Taking, Runs
  <2>4. QED BY <1>8, <2>2, <2>3 DEF SyncFails
<1>9. QED
    BY <1>1, <1>2, <1>3, <1>4, <1>5, <1>6, <1>7, <1>8
    DEF DeadLettersNext, deadLetterVars, jobVars, AddToDLQ, AcknowledgeEntry, FindEntry, MarkRetrying,
        RetryDies, Reprocess, FinishRetry

-----------------------------------------------------------------------------
HandledInv == LettersTypeInv /\ Handled /\ Counting /\ Taking

LEMMA HandledInvInit == DeadLettersInit => HandledInv
<1> SUFFICES ASSUME DeadLettersInit PROVE HandledInv
    OBVIOUS
<1>1. LettersTypeInv
    BY LettersTypeInit
<1>2. Handled /\ Counting
    BY DEF DeadLettersInit, Handled, ResolvedIsHandled, Counting
<1>3. Taking
    BY DEF DeadLettersInit, Taking, Runs
<1>4. QED BY <1>1, <1>2, <1>3 DEF HandledInv

LEMMA InvIsHandled == HandledInv => HandledOnce
<1> SUFFICES ASSUME HandledInv PROVE HandledOnce
    OBVIOUS
<1>1. ResolvedIsHandled /\ RetriesAreCounted
    BY DEF HandledInv, Handled, Counting, RetriesAreCounted
<1>2. JobsTakeStockOnce
    BY DEF HandledInv, Taking, Runs, JobsTakeStockOnce, SyncJobRuns
<1>3. QED BY <1>1, <1>2 DEF HandledOnce

\* However admins work on the letters and the queue gives out its jobs: what is
\* resolved was handled, every retry is counted unless two calls met at the letter,
\* and the stock of an order is taken once unless jobs met, a worker died or an
\* attempt failed after it had written the order's status.
THEOREM LettersAreHandled == DeadLettersSpec => []HandledOnce
<1>1. HandledInv /\ [DeadLettersNext]_deadLetterVars => HandledInv'
    BY LettersTypeNext, HandledNext, CountingNext, TakingNext DEF HandledInv
<1>2. QED
    BY <1>1, HandledInvInit, InvIsHandled, PTL DEF DeadLettersSpec

-----------------------------------------------------------------------------
(* The notices *)

LEMMA NoticesTypeInit == NoticesInit => NoticesTypeOK
<1> SUFFICES ASSUME NoticesInit PROVE NoticesTypeOK
    OBVIOUS
<1>1. watched \in [NoticeShifts -> [is: {"none", "open", "closed", "auto"}, plan: 0..MaxQuarters]]
    BY NoticesAssumption DEF NoticesInit, Unopened
<1>2. month \in Months /\ period \in [Months -> {"none", "closed", "paid"}]
    BY NoticesAssumption DEF NoticesInit, Months
<1>3. QED
    BY <1>1, <1>2, NoticesAssumption DEF NoticesInit, NoticesTypeOK, NoWarning, NoReminder

LEMMA NoticesTypeNext == NoticesTypeOK /\ [NoticesNext]_noticeVars => NoticesTypeOK'
<1> SUFFICES ASSUME NoticesTypeOK, [NoticesNext]_noticeVars PROVE NoticesTypeOK'
    OBVIOUS
<1> USE NoticesAssumption DEF NoticesTypeOK, dayVars, monthVars
<1>1. ASSUME NEW s \in NoticeShifts, CashierCloses(s) PROVE NoticesTypeOK'
    BY <1>1 DEF CashierCloses
<1>2. ASSUME NEW s \in NoticeShifts, WarnOf(s) PROVE NoticesTypeOK'
    BY <1>2 DEF WarnOf
<1>3. ASSUME NEW s \in NoticeShifts, NEW plan \in 1..MaxQuarters, OpenWatched(s, plan)
      PROVE  NoticesTypeOK'
    BY <1>3 DEF OpenWatched
<1>4. CASE Quarter
    BY <1>4 DEF Quarter
<1>5. CASE StartWarnings
    BY <1>5 DEF StartWarnings
<1>6. CASE EndWarnings \/ WarningsFail
  <2>1. CASE EndWarnings
    BY <2>1 DEF EndWarnings, NoWarning
  <2>2. CASE WarningsFail
    BY <2>2 DEF WarningsFail, NoWarning
  <2>3. QED
    BY <1>6, <2>1, <2>2
<1>7. CASE CloseOverdue
  <2>1. watched' \in [NoticeShifts -> [is: {"none", "open", "closed", "auto"}, plan: 0..MaxQuarters]]
    BY <1>7 DEF CloseOverdue
  <2>2. QED
    BY <1>7, <2>1 DEF CloseOverdue
<1>a. ASSUME NEW j \in {"warn", "close"}, JobFails(j) PROVE NoticesTypeOK'
    BY <1>a DEF JobFails
<1>b. CASE ReadPeriodFails
    BY <1>b DEF ReadPeriodFails, NoReminder
<1>8. ASSUME NEW m \in Months, PeriodGoesOn(m) PROVE NoticesTypeOK'
    BY <1>8 DEF PeriodGoesOn
<1>9. CASE NextMonth
    BY <1>9 DEF NextMonth, NoReminder, Months
<1>10. CASE ReadPeriod
    BY <1>10 DEF ReadPeriod, NoReminder, PeriodOf, Previous, Months
<1>11. ASSUME NEW sent \in BOOLEAN, SendReminder(sent) PROVE NoticesTypeOK'
    BY <1>11 DEF SendReminder, NoReminder
<1>12. CASE ProcessFlips
    BY <1>12 DEF ProcessFlips, NoReminder, NoWarning
<1>13. CASE UNCHANGED noticeVars
    BY <1>13 DEF noticeVars
<1>14. QED
    BY <1>1, <1>2, <1>3, <1>4, <1>5, <1>6, <1>7, <1>a, <1>b, <1>8, <1>9, <1>10, <1>11, <1>12, <1>13
    DEF NoticesNext

\* A shift that ought to be announced ends soon, and is still open unless its cashier
\* has closed it; the round that will announce it has not ended.
Hope ==
    /\ \A s \in hoped : /\ watched[s].plan > quarter /\ watched[s].plan <= quarter + Ahead
                        /\ watched[s].is \in {"open", "closed"}
    /\ hoped # {} => "warn" \in due \/ warning.at = "loop"
    /\ warning.at = "loop" =>
          /\ "warn" \notin due
          /\ \A s \in hoped : s \in warning.list \/ s \in warned \/ watched[s].is = "closed"

\* What was promised is kept, or the cashier was faster.
Promise == \A s \in promised : s \in warned \/ watched[s].is = "closed"

GraceIsGiven ==
    \A s \in NoticeShifts : watched[s].is = "auto" => quarter >= watched[s].plan + Grace

NoticeInv == Hope /\ Promise /\ GraceIsGiven

LEMMA NoticeInvNext ==
    NoticesTypeOK /\ NoticeInv /\ [NoticesNext]_noticeVars => NoticeInv'
<1> SUFFICES ASSUME NoticesTypeOK, NoticeInv, [NoticesNext]_noticeVars PROVE NoticeInv'
    OBVIOUS
<1> USE NoticesAssumption DEF NoticesTypeOK, NoticeInv, monthVars
<1>1. ASSUME NEW s \in NoticeShifts, CashierCloses(s) PROVE NoticeInv'
  <2>1. /\ UNCHANGED <<quarter, due, warning, warned, hoped, promised>>
        /\ watched'[s].plan = watched[s].plan /\ watched'[s].is = "closed"
        /\ \A r \in NoticeShifts \ {s} : watched'[r] = watched[r]
    BY <1>1 DEF CashierCloses
  <2>2. QED
    BY <2>1 DEF Hope, Promise, GraceIsGiven
<1>2. ASSUME NEW s \in NoticeShifts, WarnOf(s) PROVE NoticeInv'
  <2>1. /\ UNCHANGED <<quarter, due, watched, hoped, promised>>
        /\ warning'.at = warning.at /\ warning'.list = warning.list \ {s}
        /\ warned' = warned \cup {s}
    BY <1>2 DEF WarnOf
  <2>2. QED
    BY <2>1 DEF Hope, Promise, GraceIsGiven
<1>3. ASSUME NEW s \in NoticeShifts, NEW plan \in 1..MaxQuarters, OpenWatched(s, plan)
      PROVE  NoticeInv'
  <2>1. /\ UNCHANGED <<quarter, due, warning, warned, hoped, promised>>
        /\ watched[s].is = "none" /\ watched'[s].is = "open"
        /\ \A r \in NoticeShifts \ {s} : watched'[r] = watched[r]
    BY <1>3 DEF OpenWatched, Unopened
  <2>2. QED
    BY <2>1 DEF Hope, Promise, GraceIsGiven
<1>4. CASE Quarter
  <2>1. /\ UNCHANGED <<watched, warning, warned, promised>> /\ quarter' = quarter + 1
        /\ warning.at = "idle"
    BY <1>4 DEF Quarter, NoWarning
  <2>2. Hope'
    BY <1>4, <2>1 DEF Quarter, Hope, IsOpen
  <2>3. QED
    BY <2>1, <2>2 DEF Promise, GraceIsGiven
<1>5. CASE StartWarnings
  <2>1. /\ UNCHANGED <<quarter, watched, warned, hoped, promised>> /\ "warn" \notin due'
        /\ warning'.at = "loop" /\ warning'.list = {s \in NoticeShifts : Near(s)}
    BY <1>5 DEF StartWarnings
  <2>2. QED
    BY <2>1 DEF Hope, Promise, GraceIsGiven, Near, IsOpen
<1>6. CASE EndWarnings
  <2>1. /\ UNCHANGED <<quarter, watched, due, warned>> /\ warning.at = "loop" /\ warning.list = {}
        /\ promised' = promised \cup hoped /\ hoped' = {} /\ warning'.at = "idle"
    BY <1>6 DEF EndWarnings, NoWarning
  <2>2. QED
    BY <2>1 DEF Hope, Promise, GraceIsGiven
<1>7. CASE WarningsFail \/ ProcessFlips
  <2>1. /\ UNCHANGED <<quarter, watched, warned, promised>> /\ hoped' = {}
        /\ warning'.at = "idle"
    BY <1>7 DEF WarningsFail, ProcessFlips, NoWarning
  <2>2. QED
    BY <2>1 DEF Hope, Promise, GraceIsGiven
<1>a. ASSUME NEW j \in {"warn", "close"}, JobFails(j) PROVE NoticeInv'
  <2>1. /\ UNCHANGED <<quarter, watched, warning, warned, promised>> /\ due' = due \ {j}
        /\ hoped' = IF j = "warn" THEN {} ELSE hoped
    BY <1>a DEF JobFails
  <2>2. Hope'
    BY <2>1 DEF Hope
  <2>3. QED
    BY <2>1, <2>2 DEF Promise, GraceIsGiven
<1>8. CASE CloseOverdue
  <2>1. /\ UNCHANGED <<quarter, warning, warned, hoped, promised>> /\ due' = due \ {"close"}
        /\ \A s \in NoticeShifts :
              /\ watched'[s].plan = watched[s].plan
              /\ watched'[s].is = IF OverdueShift(s) THEN "auto" ELSE watched[s].is
    BY <1>8 DEF CloseOverdue
  <2>2. \A s \in hoped : ~OverdueShift(s)
    BY DEF Hope, OverdueShift
  <2>3. \A s \in NoticeShifts : OverdueShift(s) => watched[s].is = "open" /\ quarter >= watched[s].plan + Grace
    BY DEF OverdueShift, IsOpen
  <2>4. Hope'
    BY <2>1, <2>2 DEF Hope
  <2>5. Promise' /\ GraceIsGiven'
    BY <2>1, <2>3 DEF Promise, GraceIsGiven
  <2>6. QED
    BY <2>4, <2>5
<1>9. ASSUME UNCHANGED dayVars PROVE NoticeInv'
    BY <1>9 DEF dayVars, Hope, Promise, GraceIsGiven
<1>10. ASSUME NEW m \in Months, PeriodGoesOn(m) PROVE NoticeInv'
    BY <1>9, <1>10 DEF PeriodGoesOn
<1>11. CASE NextMonth \/ ReadPeriod \/ ReadPeriodFails
    BY <1>9, <1>11 DEF NextMonth, ReadPeriod, ReadPeriodFails
<1>12. ASSUME NEW sent \in BOOLEAN, SendReminder(sent) PROVE NoticeInv'
    BY <1>9, <1>12 DEF SendReminder
<1>13. CASE UNCHANGED noticeVars
    BY <1>9, <1>13 DEF noticeVars, dayVars
<1>14. QED
    BY <1>1, <1>2, <1>3, <1>4, <1>5, <1>6, <1>7, <1>a, <1>8, <1>10, <1>11, <1>12, <1>13
    DEF NoticesNext

\* The month before, in January as well.
LEMMA PreviousIsBefore ==
    \A now \in Nat : PeriodOf(Previous(now \div 12, now % 12)) = now - 1 - FirstMonth
<1> SUFFICES ASSUME NEW now \in Nat
             PROVE  PeriodOf(Previous(now \div 12, now % 12)) = now - 1 - FirstMonth
    OBVIOUS
<1>a. now \div 12 \in Nat
    OBVIOUS
<1>b. now % 12 \in 0..11
    OBVIOUS
<1>1. now = 12 * (now \div 12) + (now % 12)
    BY SMT
<1> DEFINE y == now \div 12
           m == now % 12
<1> HIDE DEF y, m
<1>2. y \in Nat /\ m \in 0..11 /\ now = 12 * y + m
    BY <1>a, <1>b, <1>1 DEF y, m
<1>3. PeriodOf(Previous(y, m)) = now - 1 - FirstMonth
    BY <1>2, NoticesAssumption DEF PeriodOf, Previous
<1>4. QED
    BY <1>3 DEF y, m

\* The reminder under way, and those that were sent, are of the month before.
ReminderInv ==
    /\ reminder.at = "send" => reminder.of = month - 1
    /\ ReminderIsOfLastMonth

LEMMA ReminderInvNext ==
    NoticesTypeOK /\ ReminderInv /\ [NoticesNext]_noticeVars => ReminderInv'
<1> SUFFICES ASSUME NoticesTypeOK, ReminderInv, [NoticesNext]_noticeVars PROVE ReminderInv'
    OBVIOUS
<1> USE DEF NoticesTypeOK, ReminderInv, ReminderIsOfLastMonth
<1>1. ASSUME UNCHANGED <<month, reminder, reminded>> PROVE ReminderInv'
    BY <1>1
<1>2. ASSUME NEW s \in NoticeShifts,
             \/ CashierCloses(s) \/ WarnOf(s)
             \/ \E plan \in 1..MaxQuarters : OpenWatched(s, plan)
      PROVE  ReminderInv'
    BY <1>1, <1>2 DEF CashierCloses, WarnOf, OpenWatched, monthVars
<1>3. CASE Quarter \/ StartWarnings \/ EndWarnings \/ WarningsFail \/ CloseOverdue
    BY <1>1, <1>3 DEF Quarter, StartWarnings, EndWarnings, WarningsFail, CloseOverdue, monthVars
<1>a. ASSUME NEW j \in {"warn", "close"}, JobFails(j) PROVE ReminderInv'
    BY <1>1, <1>a DEF JobFails, monthVars
<1>4. ASSUME NEW m \in Months, PeriodGoesOn(m) PROVE ReminderInv'
    BY <1>1, <1>4 DEF PeriodGoesOn
<1>5. ASSUME reminder'.at # "send", UNCHANGED reminded PROVE ReminderInv'
    BY <1>5
<1>6. CASE NextMonth \/ ReadPeriodFails \/ ProcessFlips
    BY <1>5, <1>6 DEF NextMonth, ReadPeriodFails, ProcessFlips, NoReminder
<1>7. CASE ReadPeriod
  <2> DEFINE now == FirstMonth + month
             of == PeriodOf(Previous(now \div 12, now % 12))
  <2>1. now \in Nat
    BY NoticesAssumption DEF Months
  <2>2. of = month - 1
    BY <2>1, PreviousIsBefore, NoticesAssumption DEF Months
  <2>3. reminder' = NoReminder \/ reminder' = [at |-> "send", of |-> of]
    BY <1>7 DEF ReadPeriod
  <2> HIDE DEF of
  <2>4. QED
    BY <1>7, <2>2, <2>3 DEF ReadPeriod, NoReminder
<1>8. ASSUME NEW sent \in BOOLEAN, SendReminder(sent) PROVE ReminderInv'
    BY <1>8 DEF SendReminder, NoReminder
<1>9. CASE UNCHANGED noticeVars
    BY <1>1, <1>9 DEF noticeVars
<1>10. QED
    BY <1>2, <1>3, <1>a, <1>4, <1>6, <1>7, <1>8, <1>9 DEF NoticesNext

\* No shift is closed by the job without a row that warns of it, when some round of
\* warnings of the hour and a half before ran to its end, and without the time of
\* grace; and every reminder is of the month that ended: for any number of shifts,
\* quarters and months, through crashes of the process and queries that throw.
THEOREM NoticesComeInTime == NoticesSpec => [](NoticesTypeOK /\ NoticesAreRight)
<1>1. NoticesInit => NoticeInv /\ ReminderInv
  <2> SUFFICES ASSUME NoticesInit PROVE NoticeInv /\ ReminderInv
      OBVIOUS
  <2>1. NoticeInv
    BY DEF NoticesInit, NoticeInv, Hope, Promise, GraceIsGiven, NoWarning, Unopened
  <2>2. ReminderInv
    BY DEF NoticesInit, ReminderInv, ReminderIsOfLastMonth, NoReminder
  <2>3. QED
    BY <2>1, <2>2
<1>2. NoticesTypeOK /\ NoticeInv /\ ReminderInv => NoticesAreRight
  <2>1. NoticeInv => ClosedWithWarning
    BY DEF NoticeInv, Promise, GraceIsGiven, ClosedWithWarning
  <2>2. QED
    BY <2>1 DEF ReminderInv, NoticesAreRight
<1>3. QED
    BY <1>1, <1>2, NoticesTypeInit, NoticesTypeNext, NoticeInvNext, ReminderInvNext, PTL
    DEF NoticesSpec

-----------------------------------------------------------------------------
(* The monitor of the containers *)

CriticalRow == [of: Containers, saw: Sights, bad: 0..(MaxBad + 1)]
MonitorRow == [at: {"status", "health", "read", "write", "fill", "page", "send"},
               left: SUBSET Containers, of: Containers \cup {"none"}, saw: Sights, count: 0..(MaxBad + 1),
               critical: SUBSET CriticalRow]

Active(k) == monitor[k].at # "idle"

\* A monitor at a container has it still to do, and has seen how it is.
RowFits(m) ==
    /\ m.at \in {"health", "read", "write", "fill"} => m.of \in m.left
    /\ m.at \in {"health", "read", "fill"} => m.saw \in {"down", "running"}
    /\ m.at = "write" => m.saw \in {"down", "running", "healthy"}
    /\ m.at \in {"page", "send"} => m.left = {}

MonitorInv == MonitorTypeOK /\ \A k \in Monitors : RowFits(monitor[k])

LEMMA ActiveRow ==
    ASSUME MonitorTypeOK, NEW k \in Monitors
    PROVE  /\ Active(k) => monitor[k] \in MonitorRow
           /\ ~Active(k) => monitor[k] = NoMonitor
BY DEF MonitorTypeOK, Active, MonitorRow, CriticalRow, NoMonitor

\* A step of one monitor: the others keep their rows.
LEMMA MonitorGoesOn ==
    ASSUME MonitorInv, NEW k \in Monitors, NEW row \in MonitorRow \cup {NoMonitor}, RowFits(row),
           monitor' = [monitor EXCEPT ![k] = row]
    PROVE  /\ monitor' \in [Monitors -> MonitorRow \cup {NoMonitor}]
           /\ monitor'[k] = row /\ \A j \in Monitors \ {k} : monitor'[j] = monitor[j]
           /\ \A j \in Monitors : RowFits(monitor'[j])
<1>1. monitor \in [Monitors -> MonitorRow \cup {NoMonitor}]
    BY DEF MonitorInv, MonitorTypeOK, MonitorRow, CriticalRow
<1>2. monitor'[k] = row /\ \A j \in Monitors \ {k} : monitor'[j] = monitor[j]
    BY <1>1
<1>3. QED
    BY <1>1, <1>2 DEF MonitorInv

LEMMA MonitorInvInit == HealthInit => MonitorInv
<1> SUFFICES ASSUME HealthInit PROVE MonitorInv
    OBVIOUS
<1>1. monitor \in [Monitors -> {NoMonitor} \cup MonitorRow]
    BY DEF HealthInit
<1>2. 0 \in 0..(MaxBad + 1)
    BY HealthMonitorAssumption
<1>3. MonitorTypeOK
    BY <1>1, <1>2 DEF HealthInit, MonitorTypeOK, MonitorRow, CriticalRow
<1>4. \A k \in Monitors : RowFits(monitor[k])
    BY DEF HealthInit, RowFits, NoMonitor
<1>5. QED
    BY <1>3, <1>4 DEF MonitorInv

\* The row of a monitor when it starts, and after it has written.
Started == [at |-> "status", left |-> Containers, of |-> "none", saw |-> "nothing", count |-> 0,
            critical |-> {}]
Verdict(k) == [of |-> Of(k), saw |-> monitor[k].saw, bad |-> bad'[Of(k)]]
Written(k) ==
    [monitor[k] EXCEPT !.left = @ \ {Of(k)}, !.saw = "nothing",
                       !.at = IF monitor[k].left = {Of(k)} THEN "page" ELSE "status",
                       !.critical = IF Critical(k) THEN @ \cup {Verdict(k)} ELSE @]

LEMMA StartedFits == Started \in MonitorRow /\ RowFits(Started)
BY HealthMonitorAssumption DEF Started, MonitorRow, Sights, RowFits

LEMMA WriteIsRow ==
    ASSUME MonitorInv, NEW k \in Monitors, WriteCounter(k)
    PROVE  /\ monitor[k] \in MonitorRow /\ Of(k) \in Containers /\ Of(k) \in monitor[k].left
           /\ bad' \in [Containers -> 0..(MaxBad + 1)]
           /\ counter' \in [Containers -> 0..(MaxBad + 1)]
           /\ Written(k) \in MonitorRow /\ RowFits(Written(k))
           /\ monitor' = [monitor EXCEPT ![k] = Written(k)]
<1>1. monitor[k] \in MonitorRow
    BY ActiveRow DEF MonitorInv, WriteCounter, Active
<1>2. Of(k) \in Containers /\ Of(k) \in monitor[k].left
    BY <1>1 DEF MonitorInv, RowFits, WriteCounter, Of, MonitorRow
<1>3. bad' \in [Containers -> 0..(MaxBad + 1)]
  <2> DEFINE n == IF monitor[k].saw = "healthy" THEN 0 ELSE bad[Of(k)] + 1
  <2>1. bad \in [Containers -> 0..(MaxBad + 1)] /\ bad[Of(k)] <= MaxBad
    BY DEF MonitorInv, MonitorTypeOK, WriteCounter
  <2>2. n \in 0..(MaxBad + 1)
    BY <1>2, <2>1, HealthMonitorAssumption
  <2>3. bad' = [bad EXCEPT ![Of(k)] = n]
    BY DEF WriteCounter
  <2> HIDE DEF n
  <2>4. QED
    BY <2>1, <2>2, <2>3
<1>4. counter' \in [Containers -> 0..(MaxBad + 1)]
  <2> DEFINE n == IF monitor[k].saw = "healthy" THEN 0 ELSE monitor[k].count
  <2>1. counter \in [Containers -> 0..(MaxBad + 1)]
    BY DEF MonitorInv, MonitorTypeOK
  <2>2. n \in 0..(MaxBad + 1)
    BY <1>1, HealthMonitorAssumption DEF MonitorRow
  <2>3. counter' = [counter EXCEPT ![Of(k)] = n]
    BY DEF WriteCounter, AfterHealthy
  <2> HIDE DEF n
  <2>4. QED
    BY <2>1, <2>2, <2>3
<1>5. Verdict(k) \in CriticalRow
    BY <1>1, <1>2, <1>3 DEF Verdict, CriticalRow, MonitorRow
<1>6. Written(k) \in MonitorRow
    BY <1>1, <1>5 DEF Written, MonitorRow, Sights
<1>7. RowFits(Written(k))
    BY <1>1, <1>2 DEF Written, RowFits, MonitorRow
<1>8. monitor' = [monitor EXCEPT ![k] = Written(k)]
  <2> DEFINE left == monitor[k].left \ {Of(k)}
             at == IF monitor[k].left = {Of(k)} THEN "page" ELSE "status"
             critical == IF Critical(k) THEN monitor[k].critical \cup {Verdict(k)}
                         ELSE monitor[k].critical
  <2>1. monitor' = [monitor EXCEPT ![k].left = left, ![k].saw = "nothing", ![k].at = at,
                                   ![k].critical = critical]
    BY DEF WriteCounter, Verdict
  <2>2. Written(k) = [monitor[k] EXCEPT !.left = left, !.saw = "nothing", !.at = at,
                                        !.critical = critical]
    BY DEF Written
  <2> HIDE DEF left, at, critical
  <2>3. QED
    BY <1>1, <2>1, <2>2 DEF MonitorInv, MonitorTypeOK, MonitorRow
<1>9. QED
    BY <1>1, <1>2, <1>3, <1>4, <1>6, <1>7, <1>8

LEMMA MonitorInvNext == MonitorInv /\ [HealthNext]_healthVars => MonitorInv'
<1> SUFFICES ASSUME MonitorInv, [HealthNext]_healthVars PROVE MonitorInv'
    OBVIOUS
<1>0. MonitorTypeOK
    BY DEF MonitorInv
<1>1. ASSUME NEW k \in Monitors, NEW row \in MonitorRow \cup {NoMonitor}, RowFits(row),
             monitor' = [monitor EXCEPT ![k] = row], UNCHANGED container,
             countSpoiled' \subseteq Containers,
             counter' \in [Containers -> 0..(MaxBad + 1)], bad' \in [Containers -> 0..(MaxBad + 1)]
      PROVE  MonitorInv'
  <2>1. /\ monitor' \in [Monitors -> MonitorRow \cup {NoMonitor}]
        /\ \A j \in Monitors : RowFits(monitor'[j])
    BY <1>1, MonitorGoesOn
  <2>2. QED
    BY <1>0, <1>1, <2>1 DEF MonitorInv, MonitorTypeOK, MonitorRow, CriticalRow
<1>2. ASSUME NEW k \in Monitors, NEW row \in MonitorRow \cup {NoMonitor}, RowFits(row),
             monitor' = [monitor EXCEPT ![k] = row],
             UNCHANGED <<container, counter, bad, countSpoiled>>
      PROVE  MonitorInv'
    BY <1>0, <1>1, <1>2 DEF MonitorTypeOK
<1>3. ASSUME NEW c \in Containers, NEW state \in {"healthy", "unhealthy", "down"},
             ContainerChanges(c, state)
      PROVE  MonitorInv'
    BY <1>3 DEF ContainerChanges, MonitorInv, MonitorTypeOK
<1>4. ASSUME NEW k \in Monitors, StartMonitor(k) PROVE MonitorInv'
    BY <1>0, <1>1, <1>4, StartedFits DEF StartMonitor, Started, MonitorTypeOK
<1>5. ASSUME NEW k \in Monitors, NEW c \in Containers, InspectStatus(k, c) PROVE MonitorInv'
  <2> DEFINE row == [monitor[k] EXCEPT !.at = "health", !.of = c,
                                       !.saw = IF container[c] = "down" THEN "down" ELSE "running"]
  <2>1. monitor[k] \in MonitorRow
    BY <1>0, <1>5, ActiveRow DEF InspectStatus, Active
  <2>2. row \in MonitorRow /\ RowFits(row)
    BY <1>5, <2>1 DEF InspectStatus, MonitorRow, RowFits, Sights
  <2>3. monitor' = [monitor EXCEPT ![k] = row]
    BY <1>0, <1>5, <2>1 DEF InspectStatus, MonitorTypeOK
  <2> HIDE DEF row
  <2>4. QED
    BY <1>2, <1>5, <2>2, <2>3 DEF InspectStatus
<1>6. ASSUME NEW k \in Monitors, InspectHealth(k) PROVE MonitorInv'
  <2> DEFINE row == IF monitor[k].saw = "running" /\ container[Of(k)] = "healthy"
                    THEN [monitor[k] EXCEPT !.at = "write", !.saw = "healthy"]
                    ELSE [monitor[k] EXCEPT !.at = "read"]
  <2>1. monitor[k] \in MonitorRow /\ monitor[k].at = "health"
    BY <1>0, <1>6, ActiveRow DEF InspectHealth, Active
  <2>2. row \in MonitorRow /\ RowFits(row)
    BY <2>1 DEF MonitorRow, RowFits, Sights, MonitorInv
  <2>3. monitor' = [monitor EXCEPT ![k] = row]
    BY <1>0, <1>6, <2>1 DEF InspectHealth, MonitorTypeOK
  <2> HIDE DEF row
  <2>4. QED
    BY <1>2, <1>6, <2>2, <2>3 DEF InspectHealth
<1>7. ASSUME NEW k \in Monitors, ReadCounter(k) PROVE MonitorInv'
  <2> DEFINE row == [monitor[k] EXCEPT !.at = "write", !.count = counter[Of(k)] + 1]
  <2>1. monitor[k] \in MonitorRow /\ monitor[k].at = "read"
    BY <1>0, <1>7, ActiveRow DEF ReadCounter, Active
  <2>2. counter[Of(k)] + 1 \in 0..(MaxBad + 1)
    BY <1>0, <1>7, <2>1, HealthMonitorAssumption
    DEF ReadCounter, MonitorTypeOK, MonitorInv, RowFits, Of, MonitorRow
  <2>3. row \in MonitorRow /\ RowFits(row)
    BY <2>1, <2>2 DEF MonitorRow, RowFits, Sights, MonitorInv
  <2>4. monitor' = [monitor EXCEPT ![k] = row]
    BY <1>0, <1>7, <2>1 DEF ReadCounter, MonitorTypeOK
  <2> HIDE DEF row
  <2>5. QED
    BY <1>2, <1>7, <2>3, <2>4 DEF ReadCounter
<1>8. ASSUME NEW k \in Monitors, WriteCounter(k) PROVE MonitorInv'
    BY <1>0, <1>1, <1>8, WriteIsRow DEF WriteCounter, MonitorTypeOK
<1>9. ASSUME NEW k \in Monitors, EndMonitor(k) \/ MonitorDies(k) PROVE MonitorInv'
  <2>1. RowFits(NoMonitor)
    BY DEF RowFits, NoMonitor
  <2>2. CASE EndMonitor(k)
    BY <1>2, <2>1, <2>2 DEF EndMonitor
  <2>3. CASE MonitorDies(k)
    <3>1. monitor[k] \in MonitorRow
      BY <1>0, <2>3, ActiveRow DEF MonitorDies
    <3>2. monitor[k].at = "fill" => Of(k) \in Containers
      BY <3>1 DEF MonitorInv, RowFits, Of, MonitorRow
    <3>3. countSpoiled' \subseteq Containers
      BY <1>0, <2>3, <3>2 DEF MonitorDies, MonitorTypeOK
    <3>4. QED
      BY <1>0, <1>1, <2>1, <2>3, <3>3 DEF MonitorDies, MonitorTypeOK
  <2>4. QED
    BY <1>9, <2>2, <2>3
<1>10. ASSUME NEW k \in Monitors, EmptyCounter(k) PROVE MonitorInv'
  <2> DEFINE row == [monitor[k] EXCEPT !.at = "fill"]
  <2>1. monitor[k] \in MonitorRow /\ monitor[k].at = "write"
    BY <1>0, <1>10, ActiveRow DEF EmptyCounter, Active
  <2>2. row \in MonitorRow /\ RowFits(row)
    BY <1>10, <2>1 DEF EmptyCounter, MonitorRow, RowFits, MonitorInv
  <2>3. monitor' = [monitor EXCEPT ![k] = row]
    BY <1>0, <1>10, <2>1 DEF EmptyCounter, MonitorTypeOK
  <2>a. 0 \in 0..(MaxBad + 1)
    BY HealthMonitorAssumption
  <2>4. counter' \in [Containers -> 0..(MaxBad + 1)]
    BY <1>0, <1>10, <2>a DEF EmptyCounter, MonitorTypeOK
  <2> HIDE DEF row
  <2>5. QED
    BY <1>0, <1>1, <1>10, <2>2, <2>3, <2>4 DEF EmptyCounter, MonitorTypeOK
<1>11. ASSUME NEW k \in Monitors, LogAlert(k) PROVE MonitorInv'
  <2> DEFINE row == [monitor[k] EXCEPT !.at = "send"]
  <2>1. monitor[k] \in MonitorRow /\ monitor[k].at = "page"
    BY <1>0, <1>11, ActiveRow DEF LogAlert, Active
  <2>2. row \in MonitorRow /\ RowFits(row)
    BY <2>1 DEF MonitorRow, RowFits, MonitorInv
  <2>3. monitor' = [monitor EXCEPT ![k] = row]
    BY <1>0, <1>11, <2>1 DEF LogAlert, MonitorTypeOK
  <2> HIDE DEF row
  <2>4. QED
    BY <1>2, <1>11, <2>2, <2>3 DEF LogAlert
<1>12. ASSUME NEW k \in Monitors, NEW c \in Containers, PageOut(k, c) PROVE MonitorInv'
  <2> DEFINE left == {p \in monitor[k].critical : p.of # c}
             row == [monitor[k] EXCEPT !.critical = left]
  <2>1. monitor[k] \in MonitorRow /\ monitor[k].at = "send"
    BY <1>0, <1>12, ActiveRow DEF PageOut, Active
  <2>2. monitor' = [monitor EXCEPT ![k] = row]
    BY <1>0, <1>12, <2>1 DEF PageOut, MonitorTypeOK
  <2>3. left \subseteq CriticalRow
    BY <2>1 DEF MonitorRow
  <2> HIDE DEF left
  <2>4. row \in MonitorRow /\ RowFits(row)
    BY <2>1, <2>3 DEF MonitorRow, RowFits, MonitorInv
  <2> HIDE DEF row
  <2>5. QED
    BY <1>2, <1>12, <2>2, <2>4 DEF PageOut
<1>13. CASE UNCHANGED healthVars
    BY <1>13 DEF healthVars, MonitorInv, MonitorTypeOK
<1>14. QED
    BY <1>3, <1>4, <1>5, <1>6, <1>7, <1>8, <1>9, <1>10, <1>11, <1>12, <1>13 DEF HealthNext

\* Two monitors at once spoil every count.
Crossing ==
    \A j, k \in Monitors : Active(j) /\ Active(k) /\ j # k => countSpoiled = Containers

\* Unspoiled, the file counts the bad checks in a row unless it is empty just now, and
\* so does a monitor about to write it.
CountIsBad ==
    \A c \in Containers \ countSpoiled :
       counter[c] = bad[c] \/ \E k \in Monitors : monitor[k].at = "fill" /\ Of(k) = c
NextCount ==
    \A k \in Monitors :
       monitor[k].at \in {"write", "fill"} /\ monitor[k].saw # "healthy" /\ Of(k) \notin countSpoiled
       => monitor[k].count = bad[Of(k)] + 1

\* Who was found critical has been dealt with, and had reached the threshold; who has
\* been dealt with and has reached it was found critical.
DealtWith ==
    \A k \in Monitors : Active(k) => \A p \in monitor[k].critical : p.of \notin monitor[k].left
CriticalIsBad ==
    \A k \in Monitors : Active(k) =>
       \A p \in monitor[k].critical :
          p.saw = "running" /\ p.of \notin countSpoiled => p.bad >= AlertThreshold
BadIsCritical ==
    \A k \in Monitors : Active(k) /\ monitor[k].at # "send" =>
       \A c \in Containers \ (countSpoiled \cup monitor[k].left) :
          bad[c] >= AlertThreshold => \E p \in monitor[k].critical : p.of = c

PageInv == Crossing /\ CountIsBad /\ NextCount /\ DealtWith /\ CriticalIsBad /\ BadIsCritical

LEMMA PageInvInit == HealthInit => PageInv
<1> SUFFICES ASSUME HealthInit PROVE PageInv
    OBVIOUS
<1>1. \A k \in Monitors : ~Active(k) /\ monitor[k].at \notin {"write", "fill"}
    BY DEF HealthInit, Active, NoMonitor
<1>2. CountIsBad
    BY DEF HealthInit, CountIsBad
<1>3. QED
    BY <1>1, <1>2 DEF PageInv, Crossing, NextCount, DealtWith, CriticalIsBad, BadIsCritical

\* A step of a monitor that leaves the counts alone, and what it has found.
LEMMA LooksOnly ==
    ASSUME MonitorInv, PageInv, NEW k \in Monitors, Active(k),
           \A j \in Monitors \ {k} : monitor'[j] = monitor[j],
           /\ monitor'[k].left = monitor[k].left /\ monitor'[k].critical = monitor[k].critical
           /\ Active(k)' /\ monitor[k].at \notin {"fill", "send"},
           UNCHANGED <<counter, bad, countSpoiled>>,
           \/ monitor'[k].at \notin {"write", "fill"} \/ monitor'[k].saw = "healthy"
           \/ /\ Of(k)' = Of(k)
              /\ Of(k) \notin countSpoiled => monitor'[k].count = bad[Of(k)] + 1
    PROVE  PageInv'
<1>1. \A j \in Monitors : Active(j)' <=> Active(j)
    BY DEF Active
<1>a. Crossing'
    BY <1>1 DEF PageInv, Crossing
<1>b. \A j \in Monitors : monitor[j].at = "fill" => monitor'[j].at = "fill" /\ Of(j)' = Of(j)
    BY DEF Of
<1>2. Crossing' /\ CountIsBad'
    BY <1>a, <1>b DEF PageInv, CountIsBad
<1>3. NextCount'
    BY DEF PageInv, NextCount, Of
<1>4. DealtWith' /\ CriticalIsBad' /\ BadIsCritical'
    BY <1>1 DEF PageInv, DealtWith, CriticalIsBad, BadIsCritical
<1>5. QED
    BY <1>2, <1>3, <1>4 DEF PageInv

\* The count is written while nobody else is at work.
LEMMA WritesAlone ==
    ASSUME MonitorInv, PageInv, NEW k \in Monitors, WriteCounter(k),
           \A j \in Monitors \ {k} : ~Active(j)
    PROVE  PageInv'
<1> DEFINE c == Of(k)
           healthy == monitor[k].saw = "healthy"
<1>0. \A j \in Monitors \ {k} : monitor[j].at \notin {"write", "fill"}
    BY DEF Active
<1>1. /\ monitor[k] \in MonitorRow /\ c \in Containers /\ c \in monitor[k].left
      /\ bad' \in [Containers -> 0..(MaxBad + 1)] /\ counter' \in [Containers -> 0..(MaxBad + 1)]
      /\ monitor'[k] = Written(k) /\ \A j \in Monitors \ {k} : monitor'[j] = monitor[j]
      /\ Written(k) \in MonitorRow
    BY WriteIsRow, MonitorGoesOn
<1>2. /\ monitor[k].at \in {"write", "fill"} /\ Active(k) /\ monitor[k].saw \in {"down", "running", "healthy"}
      /\ bad \in [Containers -> 0..(MaxBad + 1)] /\ counter \in [Containers -> 0..(MaxBad + 1)]
    BY DEF WriteCounter, Active, MonitorInv, RowFits, MonitorTypeOK
<1>3. /\ bad'[c] = IF healthy THEN 0 ELSE bad[c] + 1
      /\ counter'[c] = IF healthy THEN 0 ELSE monitor[k].count
      /\ \A d \in Containers \ {c} : bad'[d] = bad[d] /\ counter'[d] = counter[d]
    BY <1>1, <1>2 DEF WriteCounter, AfterHealthy
<1>4. \/ countSpoiled' = countSpoiled
      \/ healthy /\ countSpoiled' = countSpoiled \ {c}
    BY DEF WriteCounter
<1>5. ~healthy /\ c \notin countSpoiled => monitor[k].count = bad'[c]
    BY <1>1, <1>2, <1>3 DEF PageInv, NextCount
<1>6. /\ monitor'[k].left = monitor[k].left \ {c}
      /\ monitor'[k].critical = IF Critical(k) THEN monitor[k].critical \cup {Verdict(k)}
                                ELSE monitor[k].critical
      /\ monitor'[k].at \in {"page", "status"}
    BY <1>1 DEF Written, MonitorRow
<1>7. \A j \in Monitors \ {k} : ~Active(j)' /\ monitor'[j].at \notin {"write", "fill"}
    BY <1>0, <1>1 DEF Active
<1>8. Crossing' /\ NextCount'
    BY <1>6, <1>7 DEF Crossing, NextCount
<1>9. CountIsBad'
  <2>1. ~healthy /\ c \notin countSpoiled => counter'[c] = bad'[c]
    BY <1>3, <1>5
  <2>2. healthy => counter'[c] = bad'[c]
    BY <1>3
  <2>3. \A d \in Containers \ (countSpoiled \cup {c}) : counter[d] = bad[d]
    BY <1>0 DEF CountIsBad, PageInv
  <2>4. QED
    BY <1>3, <1>4, <2>1, <2>2, <2>3 DEF CountIsBad
<1>10. Verdict(k).of = c /\ Verdict(k).saw = monitor[k].saw /\ Verdict(k).bad = bad'[c]
    BY DEF Verdict
<1>11. DealtWith'
    BY <1>2, <1>6, <1>7, <1>10 DEF DealtWith, PageInv
<1>12. CriticalIsBad'
  <2>1. Critical(k) /\ monitor[k].saw = "running" /\ c \notin countSpoiled =>
           bad'[c] >= AlertThreshold
    BY <1>5 DEF Critical, ThresholdReached
  <2>2. Critical(k) => ~healthy
    BY DEF Critical
  <2>3. \A p \in monitor[k].critical : p.of # c
    BY <1>1, <1>2 DEF PageInv, DealtWith
  <2>4. \A p \in monitor'[k].critical :
           p.saw = "running" /\ p.of \notin countSpoiled' => p.bad >= AlertThreshold
    BY <1>2, <1>4, <1>6, <1>10, <2>1, <2>2, <2>3 DEF PageInv, CriticalIsBad
  <2>5. QED
    BY <1>7, <2>4 DEF CriticalIsBad
<1>13. BadIsCritical'
  <2>1. c \notin countSpoiled' /\ bad'[c] >= AlertThreshold =>
           \E p \in monitor'[k].critical : p.of = c
    <3>1. SUFFICES ASSUME c \notin countSpoiled', bad'[c] >= AlertThreshold PROVE Critical(k)
      BY <1>6, <1>10
    <3>2. ~healthy
      BY <1>3, <3>1, HealthMonitorAssumption
    <3>3. monitor[k].count >= AlertThreshold
      BY <1>4, <1>5, <3>1, <3>2
    <3>4. QED
      BY <1>2, <3>2, <3>3 DEF Critical, ThresholdReached
  <2>2. ASSUME NEW d \in Containers \ (countSpoiled' \cup monitor'[k].left), d # c,
               bad'[d] >= AlertThreshold
        PROVE  \E p \in monitor'[k].critical : p.of = d
    <3>1. d \in Containers \ (countSpoiled \cup monitor[k].left) /\ bad[d] >= AlertThreshold
      BY <1>3, <1>4, <1>6, <2>2
    <3>2. \E p \in monitor[k].critical : p.of = d
      BY <1>2, <3>1 DEF PageInv, BadIsCritical
    <3>3. QED
      BY <1>6, <3>2
  <2>3. QED
    BY <1>7, <2>1, <2>2 DEF BadIsCritical
<1>14. QED
    BY <1>8, <1>9, <1>11, <1>12, <1>13 DEF PageInv

\* Where two are at work every count is spoiled, and of the pages nothing is claimed but
\* that those found were dealt with.
LEMMA SpoiledAnyway ==
    ASSUME MonitorInv, PageInv, countSpoiled' = Containers, DealtWith',
           \A k \in Monitors : monitor'[k].at \in {"write", "fill"} => Of(k)' \in Containers,
           \A k \in Monitors : Active(k)' => \A p \in monitor'[k].critical : p.of \in Containers
    PROVE  PageInv'
BY DEF PageInv, Crossing, CountIsBad, NextCount, CriticalIsBad, BadIsCritical

LEMMA PageInvNext == MonitorInv /\ PageInv /\ [HealthNext]_healthVars => PageInv'
<1> SUFFICES ASSUME MonitorInv, PageInv, [HealthNext]_healthVars PROVE PageInv'
    OBVIOUS
<1>0. MonitorTypeOK /\ MonitorInv'
    BY MonitorInvNext DEF MonitorInv
<1>1. ASSUME UNCHANGED <<counter, monitor, bad, countSpoiled>> PROVE PageInv'
    BY <1>1 DEF PageInv, Crossing, CountIsBad, NextCount, DealtWith, CriticalIsBad, BadIsCritical,
                Active, Of
<1>2. ASSUME NEW c \in Containers, NEW state \in {"healthy", "unhealthy", "down"},
             ContainerChanges(c, state)
      PROVE  PageInv'
    BY <1>1, <1>2 DEF ContainerChanges
<1>3. /\ \A k \in Monitors : monitor'[k].at \in {"write", "fill"} => Of(k)' \in Containers
      /\ \A k \in Monitors : Active(k)' => \A p \in monitor'[k].critical : p.of \in Containers
  <2>1. \A k \in Monitors : Active(k)' => monitor'[k] \in MonitorRow
    BY <1>0 DEF MonitorInv, MonitorTypeOK, MonitorRow, CriticalRow, Active, NoMonitor
  <2>2. \A k \in Monitors : RowFits(monitor'[k])
    BY <1>0 DEF MonitorInv
  <2>3. \A k \in Monitors : monitor'[k].at \in {"write", "fill"} => Of(k)' \in Containers
    BY <2>1, <2>2 DEF RowFits, Of, Active, MonitorRow
  <2>4. QED
    BY <2>1, <2>3 DEF MonitorRow, CriticalRow
<1>4. ASSUME NEW k \in Monitors, StartMonitor(k) PROVE PageInv'
  <2>1. /\ monitor'[k] = Started /\ \A j \in Monitors \ {k} : monitor'[j] = monitor[j]
        /\ UNCHANGED <<counter, bad>>
    BY <1>0, <1>4 DEF StartMonitor, Started, MonitorTypeOK
  <2>a. monitor'[k].critical = {} /\ monitor'[k].left = Containers /\ monitor'[k].at = "status"
    BY <2>1 DEF Started
  <2>2. DealtWith'
    BY <2>1, <2>a DEF DealtWith, PageInv, Active
  <2>3. CASE \E j \in Monitors : monitor[j] # NoMonitor
    BY <1>3, <1>4, <2>2, <2>3, SpoiledAnyway DEF StartMonitor
  <2>4. CASE \A j \in Monitors : monitor[j] = NoMonitor
    <3>1. countSpoiled' = countSpoiled
      BY <1>4, <2>4 DEF StartMonitor
    <3>2. \A j \in Monitors \ {k} : ~Active(j)' /\ monitor'[j].at \notin {"write", "fill"}
      BY <2>1, <2>4 DEF Active, NoMonitor
    <3>a. \A j \in Monitors : monitor[j].at # "fill"
      BY <2>4 DEF NoMonitor
    <3>3. Crossing' /\ CountIsBad' /\ NextCount'
      BY <2>1, <2>a, <3>1, <3>2, <3>a DEF PageInv, Crossing, CountIsBad, NextCount
    <3>4. CriticalIsBad' /\ BadIsCritical'
      BY <2>a, <3>2 DEF CriticalIsBad, BadIsCritical
    <3>5. QED
      BY <2>2, <3>3, <3>4 DEF PageInv
  <2>5. QED
    BY <2>3, <2>4
<1>5. ASSUME NEW k \in Monitors, NEW c \in Containers, InspectStatus(k, c) PROVE PageInv'
  <2>1. monitor[k] \in MonitorRow /\ Active(k)
    BY <1>0, <1>5, ActiveRow DEF InspectStatus, Active
  <2>2. /\ \A j \in Monitors \ {k} : monitor'[j] = monitor[j]
        /\ monitor'[k].left = monitor[k].left /\ monitor'[k].critical = monitor[k].critical
        /\ monitor'[k].at = "health" /\ monitor[k].at = "status"
    BY <1>0, <1>5, <2>1 DEF InspectStatus, MonitorTypeOK, MonitorRow
  <2>3. QED
    BY <1>5, <2>1, <2>2, LooksOnly DEF InspectStatus, Active
<1>6. ASSUME NEW k \in Monitors, InspectHealth(k) PROVE PageInv'
  <2>1. monitor[k] \in MonitorRow /\ Active(k)
    BY <1>0, <1>6, ActiveRow DEF InspectHealth, Active
  <2>2. /\ \A j \in Monitors \ {k} : monitor'[j] = monitor[j]
        /\ monitor'[k].left = monitor[k].left /\ monitor'[k].critical = monitor[k].critical
        /\ monitor'[k].at = "read" \/ (monitor'[k].at = "write" /\ monitor'[k].saw = "healthy")
        /\ monitor[k].at = "health"
    BY <1>0, <1>6, <2>1 DEF InspectHealth, MonitorTypeOK, MonitorRow
  <2>3. QED
    BY <1>6, <2>1, <2>2, LooksOnly DEF InspectHealth, Active
<1>7. ASSUME NEW k \in Monitors, ReadCounter(k) PROVE PageInv'
  <2>1. monitor[k] \in MonitorRow /\ Active(k)
    BY <1>0, <1>7, ActiveRow DEF ReadCounter, Active
  <2>2. /\ \A j \in Monitors \ {k} : monitor'[j] = monitor[j]
        /\ monitor'[k].left = monitor[k].left /\ monitor'[k].critical = monitor[k].critical
        /\ monitor'[k].at = "write" /\ Of(k)' = Of(k) /\ monitor[k].at = "read"
        /\ monitor'[k].count = counter[Of(k)] + 1
    BY <1>0, <1>7, <2>1 DEF ReadCounter, MonitorTypeOK, MonitorRow, Of
  <2>3. Of(k) \in Containers
    BY <2>1, <2>2 DEF MonitorInv, RowFits, Of, MonitorRow
  <2>4. Of(k) \notin countSpoiled => counter[Of(k)] = bad[Of(k)]
    <3>1. ASSUME Of(k) \notin countSpoiled, NEW j \in Monitors PROVE monitor[j].at # "fill"
      <4>1. countSpoiled # Containers
        BY <2>3, <3>1
      <4>2. Active(j) => j = k
        BY <2>1, <4>1 DEF PageInv, Crossing
      <4>3. QED
        BY <2>2, <4>2 DEF Active
    <3>2. QED
      BY <2>3, <3>1 DEF PageInv, CountIsBad
  <2>5. QED
    BY <1>7, <2>1, <2>2, <2>4, LooksOnly DEF ReadCounter, Active
<1>8. ASSUME NEW k \in Monitors, WriteCounter(k) PROVE PageInv'
  <2>1. CASE \A j \in Monitors \ {k} : ~Active(j)
    BY <1>8, <2>1, WritesAlone
  <2>2. CASE \E j \in Monitors \ {k} : Active(j)
    <3>1. Active(k)
      BY <1>8 DEF WriteCounter, Active
    <3>2. countSpoiled = Containers
      BY <2>2, <3>1 DEF PageInv, Crossing
    <3>3. ~ \A j \in Monitors \ {k} : monitor[j] = NoMonitor
      BY <2>2 DEF Active, NoMonitor
    <3>4. countSpoiled' = Containers
      BY <1>8, <3>2, <3>3 DEF WriteCounter
    <3>5. /\ monitor[k] \in MonitorRow /\ monitor'[k] = Written(k)
          /\ \A j \in Monitors \ {k} : monitor'[j] = monitor[j]
      BY <1>8, WriteIsRow, MonitorGoesOn
    <3>6. \A p \in monitor'[k].critical : p.of \notin monitor'[k].left
      BY <3>1, <3>5 DEF Written, Verdict, PageInv, DealtWith, MonitorRow
    <3>7. DealtWith'
      BY <3>5, <3>6 DEF DealtWith, PageInv, Active
    <3>8. QED
      BY <1>3, <3>4, <3>7, SpoiledAnyway
  <2>3. QED
    BY <2>1, <2>2
<1>9. ASSUME NEW k \in Monitors, EndMonitor(k) \/ MonitorDies(k) PROVE PageInv'
  <2>1. /\ monitor'[k] = NoMonitor /\ \A j \in Monitors \ {k} : monitor'[j] = monitor[j]
        /\ UNCHANGED <<counter, bad>>
        /\ countSpoiled' = IF monitor[k].at = "fill" THEN countSpoiled \cup {Of(k)} ELSE countSpoiled
    BY <1>0, <1>9 DEF EndMonitor, MonitorDies, MonitorTypeOK
  <2>2. /\ ~Active(k)' /\ monitor'[k].at \notin {"write", "fill"}
        /\ \A j \in Monitors \ {k} : Active(j)' <=> Active(j)
    BY <2>1 DEF Active, NoMonitor
  <2>a. countSpoiled \subseteq countSpoiled' /\ countSpoiled' \subseteq Containers
    BY <1>0, <2>1 DEF MonitorInv, MonitorTypeOK
  <2>3. Crossing'
    BY <2>2, <2>a DEF PageInv, Crossing
  <2>b. CountIsBad'
    <3>1. ASSUME NEW c \in Containers \ countSpoiled', counter[c] # bad[c]
          PROVE  \E j \in Monitors : monitor'[j].at = "fill" /\ Of(j)' = c
      <4>1. PICK j \in Monitors : monitor[j].at = "fill" /\ Of(j) = c
        BY <2>a, <3>1 DEF PageInv, CountIsBad
      <4>2. j # k
        BY <2>1, <3>1, <4>1
      <4>3. QED
        BY <2>1, <4>1, <4>2 DEF Of
    <3>2. QED
      BY <2>1, <3>1 DEF CountIsBad
  <2>4. NextCount'
    BY <2>1, <2>2 DEF PageInv, NextCount, Of
  <2>5. DealtWith' /\ CriticalIsBad' /\ BadIsCritical'
    BY <2>1, <2>2 DEF PageInv, DealtWith, CriticalIsBad, BadIsCritical
  <2>6. QED
    BY <2>3, <2>b, <2>4, <2>5 DEF PageInv
<1>10. ASSUME NEW k \in Monitors, EmptyCounter(k) PROVE PageInv'
  <2>1. monitor[k] \in MonitorRow /\ Active(k) /\ Of(k) \in Containers
    BY <1>0, <1>10, ActiveRow DEF EmptyCounter, Active, MonitorInv, RowFits, Of, MonitorRow
  <2>2. /\ \A j \in Monitors \ {k} : monitor'[j] = monitor[j]
        /\ monitor'[k].left = monitor[k].left /\ monitor'[k].critical = monitor[k].critical
        /\ monitor'[k].at = "fill" /\ Of(k)' = Of(k) /\ monitor[k].at = "write"
        /\ monitor'[k].saw = monitor[k].saw /\ monitor'[k].count = monitor[k].count
        /\ UNCHANGED <<bad, countSpoiled>>
        /\ \A c \in Containers \ {Of(k)} : counter'[c] = counter[c]
    BY <1>0, <1>10, <2>1 DEF EmptyCounter, MonitorTypeOK, MonitorRow, Of
  <2>3. \A j \in Monitors : Active(j)' <=> Active(j)
    BY <2>1, <2>2 DEF Active
  <2>4. Crossing' /\ NextCount'
    BY <2>2, <2>3 DEF PageInv, Crossing, NextCount, Of
  <2>5. CountIsBad'
    BY <2>2 DEF PageInv, CountIsBad, Of
  <2>6. DealtWith' /\ CriticalIsBad' /\ BadIsCritical'
    BY <2>2, <2>3 DEF PageInv, DealtWith, CriticalIsBad, BadIsCritical
  <2>7. QED
    BY <2>4, <2>5, <2>6 DEF PageInv
<1>11. ASSUME NEW k \in Monitors, LogAlert(k) \/ \E c \in Containers : PageOut(k, c)
       PROVE  PageInv'
  <2>1. monitor[k] \in MonitorRow /\ Active(k)
    BY <1>0, <1>11, ActiveRow DEF LogAlert, PageOut, Active
  <2>2. /\ \A j \in Monitors \ {k} : monitor'[j] = monitor[j]
        /\ monitor'[k].left = monitor[k].left /\ monitor'[k].critical \subseteq monitor[k].critical
        /\ monitor'[k].at = "send" /\ monitor[k].at \in {"page", "send"}
        /\ UNCHANGED <<counter, bad, countSpoiled>>
    BY <1>0, <1>11, <2>1 DEF LogAlert, PageOut, MonitorTypeOK, MonitorRow
  <2>3. \A j \in Monitors : Active(j)' <=> Active(j)
    BY <2>1, <2>2 DEF Active
  <2>4. Crossing' /\ CountIsBad'
    BY <2>2, <2>3 DEF PageInv, Crossing, CountIsBad, Of
  <2>5. NextCount'
    BY <2>2 DEF PageInv, NextCount, Of
  <2>6. DealtWith' /\ CriticalIsBad' /\ BadIsCritical'
    BY <2>2, <2>3 DEF PageInv, DealtWith, CriticalIsBad, BadIsCritical
  <2>7. QED
    BY <2>4, <2>5, <2>6 DEF PageInv
<1>12. CASE UNCHANGED healthVars
    BY <1>1, <1>12 DEF healthVars
<1>13. QED
    BY <1>2, <1>4, <1>5, <1>6, <1>7, <1>8, <1>9, <1>10, <1>11, <1>12 DEF HealthNext

\* A running container is on the list of pages from the threshold of bad checks in a
\* row on, and not before, and a stopped one at the threshold at the latest, for any
\* number of containers, monitors and any threshold, unless since it was last well two
\* monitors worked at once or one was killed between emptying and writing its file.
THEOREM PagesAreRight == HealthSpec => [](MonitorTypeOK /\ PagedAtThreshold)
<1>1. MonitorInv /\ PageInv => MonitorTypeOK /\ PagedAtThreshold
  <2> SUFFICES ASSUME MonitorInv, PageInv, NEW k \in Monitors, monitor[k].at = "page"
               PROVE  /\ \A p \in monitor[k].critical :
                            p.saw = "running" /\ p.of \notin countSpoiled =>
                               p.bad >= AlertThreshold
                      /\ \A c \in Containers \ countSpoiled :
                            bad[c] >= AlertThreshold => \E p \in monitor[k].critical : p.of = c
    BY DEF MonitorInv, PagedAtThreshold
  <2>1. Active(k) /\ monitor[k].left = {}
    BY DEF Active, MonitorInv, RowFits
  <2>2. QED
    BY <2>1 DEF PageInv, CriticalIsBad, BadIsCritical
<1>2. QED
    BY <1>1, MonitorInvInit, MonitorInvNext, PageInvInit, PageInvNext, PTL DEF HealthSpec

------------------------------------------------------------------------------
(* The flags *)

\* Before the rows are seeded nothing reads or switches them.
StartsAlone ==
    ~seeded => /\ copy = NoCopy
               /\ \A r \in Readers : reader[r] = NoReader
               /\ \A t \in Togglers : toggler[t] = "idle"

\* What a reader is about to store is the rows, unless they were switched meanwhile.
ReadersHaveRows ==
    \A r \in Readers : reader[r].at = "store" /\ ~reader[r].late => reader[r].map = flagRow

CopyInv == FlagsTypeOK /\ StartsAlone /\ ReadersHaveRows /\ CopyShowsSwitches

LEMMA CopyInvInit == FlagsInit => CopyInv
<1> SUFFICES ASSUME FlagsInit PROVE CopyInv
    OBVIOUS
<1>1. NoMap \in [FlagNames -> Values]
    BY DEF NoMap, Values
<1>2. FlagsTypeOK
  <2>1. NoReader \in [at: {"idle", "query", "store"}, map: [FlagNames -> Values], late: BOOLEAN]
    BY <1>1 DEF NoReader
  <2>2. 0 \in 0..MaxToggles
    BY FlagsAssumption
  <2>3. QED
    BY <1>1, <2>1, <2>2 DEF FlagsInit, FlagsTypeOK
<1>3. StartsAlone /\ ReadersHaveRows /\ CopyShowsSwitches
    BY DEF FlagsInit, StartsAlone, ReadersHaveRows, CopyShowsSwitches, NoReader, Served
<1>4. QED
    BY <1>2, <1>3 DEF CopyInv

LEMMA FlagsTypeNext == FlagsTypeOK /\ [FlagsNext]_flagVars => FlagsTypeOK'
<1> SUFFICES ASSUME FlagsTypeOK, [FlagsNext]_flagVars PROVE FlagsTypeOK'
    OBVIOUS
<1> USE DEF FlagsTypeOK
<1>0. NoReader \in [at: {"idle", "query", "store"}, map: [FlagNames -> Values], late: BOOLEAN]
    BY DEF NoReader, NoMap, Values
<1>1. ASSUME NEW f \in FlagNames, SeedFlag(f) PROVE FlagsTypeOK'
  <2>1. flagRow' \in [FlagNames -> Values]
    BY <1>1 DEF SeedFlag, Seeded, Values
  <2>2. QED
    BY <1>1, <2>1 DEF SeedFlag
<1>2. ASSUME NEW t \in Togglers, NEW f \in FlagNames, ToggleFlag(t, f) PROVE FlagsTypeOK'
  <2>1. flagRow' \in [FlagNames -> Values]
    BY <1>2 DEF ToggleFlag, Values
  <2>2. reader' \in [Readers -> [at: {"idle", "query", "store"}, map: [FlagNames -> Values],
                                 late: BOOLEAN]]
    BY <1>2 DEF ToggleFlag
  <2>3. toggler' \in [Togglers -> {"idle", "drop"}] /\ toggles' \in 0..MaxToggles
    BY <1>2, FlagsAssumption DEF ToggleFlag
  <2>4. QED
    BY <1>2, <2>1, <2>2, <2>3 DEF ToggleFlag
<1>3. ASSUME RestartFlags PROVE FlagsTypeOK'
    BY <1>0, <1>3 DEF RestartFlags
<1>4. ASSUME NEW r \in Readers, BeginRead(r) \/ QueryFlags(r) \/ StopRead(r) PROVE FlagsTypeOK'
  <2>1. CASE BeginRead(r)
    BY <1>0, <2>1 DEF BeginRead
  <2>2. CASE QueryFlags(r)
    BY <2>2 DEF QueryFlags
  <2>3. CASE StopRead(r)
    BY <1>0, <2>3 DEF StopRead
  <2>4. QED
    BY <1>4, <2>1, <2>2, <2>3
<1>5. ASSUME NEW r \in Readers, StoreCopy(r) PROVE FlagsTypeOK'
    BY <1>0, <1>5 DEF StoreCopy
<1>6. ASSUME EndSeed \/ CopyEnds PROVE FlagsTypeOK'
    BY <1>6 DEF EndSeed, CopyEnds, Served
<1>7. ASSUME NEW t \in Togglers, DropCopy(t) PROVE FlagsTypeOK'
    BY <1>7 DEF DropCopy, AfterToggle
<1>8. CASE UNCHANGED flagVars
    BY <1>8 DEF flagVars
<1>9. QED
    BY <1>1, <1>2, <1>3, <1>4, <1>5, <1>6, <1>7, <1>8 DEF FlagsNext

LEMMA CopyInvNext == CopyInv /\ [FlagsNext]_flagVars => CopyInv'
<1> SUFFICES ASSUME CopyInv, [FlagsNext]_flagVars PROVE CopyInv'
    OBVIOUS
<1>0. FlagsTypeOK /\ FlagsTypeOK'
    BY FlagsTypeNext DEF CopyInv
<1> DEFINE Rest == (StartsAlone /\ ReadersHaveRows /\ CopyShowsSwitches)'
<1> USE DEF CopyInv, StartsAlone, ReadersHaveRows, CopyShowsSwitches, Served, TogglePending
<1>1. ASSUME NEW f \in FlagNames, SeedFlag(f) PROVE Rest
    BY <1>0, <1>1 DEF SeedFlag, NoReader, FlagsTypeOK
<1>2. ASSUME NEW t \in Togglers, NEW f \in FlagNames, ToggleFlag(t, f) PROVE Rest
  <2>1. toggler'[t] = "drop"
    BY <1>0, <1>2 DEF ToggleFlag, FlagsTypeOK
  <2>2. \A r \in Readers : reader'[r].at = "store" => reader'[r].late
    <3> SUFFICES ASSUME NEW r \in Readers, reader'[r].at = "store" PROVE reader'[r].late
      OBVIOUS
    <3>1. reader'[r] = [reader[r] EXCEPT !.late = @ \/ reader[r].at = "store"]
      BY <1>2 DEF ToggleFlag
    <3>2. reader[r] \in [at: {"idle", "query", "store"}, map: [FlagNames -> Values], late: BOOLEAN]
      BY <1>0 DEF FlagsTypeOK
    <3>3. QED
      BY <3>1, <3>2
  <2>3. seeded /\ seeded' /\ StartsAlone'
    BY <1>2 DEF ToggleFlag
  <2>4. ReadersHaveRows'
    BY <2>2
  <2>5. CopyShowsSwitches'
    BY <1>2, <2>1
  <2>6. QED
    BY <2>3, <2>4, <2>5
<1>3. ASSUME RestartFlags PROVE Rest
    BY <1>3 DEF RestartFlags, NoReader
<1>4. ASSUME NEW r \in Readers, BeginRead(r) \/ QueryFlags(r) \/ StopRead(r) PROVE Rest
  <2>1. CASE BeginRead(r)
    BY <1>0, <2>1 DEF BeginRead, NoReader, FlagsTypeOK
  <2>2. CASE QueryFlags(r)
    BY <1>0, <2>2 DEF QueryFlags, NoReader, FlagsTypeOK
  <2>3. CASE StopRead(r)
    BY <1>0, <2>3 DEF StopRead, NoReader, FlagsTypeOK
  <2>4. QED
    BY <1>4, <2>1, <2>2, <2>3
<1>5. ASSUME NEW r \in Readers, StoreCopy(r) PROVE Rest
    BY <1>0, <1>5 DEF StoreCopy, NoReader, FlagsTypeOK
<1>6. ASSUME EndSeed \/ CopyEnds PROVE Rest
    BY <1>0, <1>6 DEF EndSeed, CopyEnds, NoReader, FlagsTypeOK
<1>7. ASSUME NEW t \in Togglers, DropCopy(t) PROVE Rest
    BY <1>0, <1>7 DEF DropCopy, AfterToggle, FlagsTypeOK
<1>8. CASE UNCHANGED flagVars
    BY <1>0, <1>8 DEF flagVars, FlagsTypeOK
<1>9. Rest
    BY <1>1, <1>2, <1>3, <1>4, <1>5, <1>6, <1>7, <1>8 DEF FlagsNext
<1>10. QED
    BY <1>0, <1>9

LEMMA StartKeeps ==
    FlagsTypeOK /\ [FlagsNext]_flagVars =>
        \A f \in FlagNames : ~seeded /\ flagRow[f] # "none" => flagRow'[f] = flagRow[f]
BY DEF FlagsTypeOK, FlagsNext, flagVars, SeedFlag, Seeded, ToggleFlag, EndSeed, RestartFlags,
       CopyEnds, BeginRead, QueryFlags, StoreCopy, StopRead, DropCopy

\* For any flags, readers and switches: what is served shows the switches that were
\* answered, unless a read was overtaken, and a start switches nothing.
THEOREM SwitchesReach == FlagsSpec => []FlagsTypeOK /\ SwitchesArrive
<1>1. CopyInv => CopyShowsSwitches /\ FlagsTypeOK
    BY DEF CopyInv
<1>2. FlagsSpec => []CopyInv
    BY CopyInvInit, CopyInvNext, PTL DEF FlagsSpec
<1>3. FlagsSpec => StartKeepsFlags
    BY <1>1, <1>2, StartKeeps, PTL DEF FlagsSpec, StartKeepsFlags
<1>4. QED
    BY <1>1, <1>2, <1>3, PTL DEF SwitchesArrive

------------------------------------------------------------------------------
(* The backups *)

Files == [sql : File, gz : File, enc : File, sum : BOOLEAN]
BackupRow == [script : {"none", "backup.sh", "schedule"}, keyed : BOOLEAN,
         step : StillRunning \cup {"off", "failed", "done"}]

\* A backup past its last writing step, in the form its script leaves it.
Sound(b) == IF backup[b].keyed THEN disk[b].enc = "whole"
            ELSE "whole" \in {disk[b].sql, disk[b].gz}
NoParts(b) == Vouched(b) # "part"

\* What a backup has on the disk at its step.
StepsFit(b) ==
    /\ backup[b].step = "off" => disk[b].enc = "none"
    /\ disk[b].enc # "none" \/ backup[b].step = "encrypt" => backup[b].keyed
    /\ backup[b].step \in {"check", "sum", "clean"} /\ b \notin spoilt => Sound(b) /\ NoParts(b)
    /\ disk[b].sum => backup[b].step \in {"clean", "failed", "done"}
    /\ disk[b].sum /\ b \notin spoilt => NoParts(b)
    /\ b \in aged => backup[b].step \in {"failed", "done"}

\* The restore never takes an encrypted file for one of a script without a key, and
\* only loads into a database it has made.
RestoreFits ==
    /\ restore.form = "enc" =>
          restore.file \in Backups /\ backup[restore.file].keyed /\ backup[restore.file].step # "off"
    /\ restore.step \in {"decrypt", "decrypting"} => restore.form = "enc"
    /\ restore.step \in {"unpack", "unpacking"} => restore.form = "gz"
    /\ restore.form # "dump" => restore.file \in Backups
    /\ restore.step = "load" => base = "empty"
    /\ NothingIsMixed

\* Once a backup is done, one that is done is sound.
DoneIsSound ==
    spoilt = {} /\ (\E b \in Backups : backup[b].step = "done") =>
        \E b \in Backups : backup[b].step = "done" /\ Sound(b)

BackupInv == BackupTypeOK /\ (\A b \in Backups : StepsFit(b)) /\ RestoreFits /\ DoneIsSound

LEMMA BackupInvInit == BackupInit => BackupInv
<1> SUFFICES ASSUME BackupInit PROVE BackupInv
    OBVIOUS
<1>1. BackupTypeOK
    BY BackupAssumption DEF BackupInit, BackupTypeOK, NoFiles, File, StillRunning
<1>2. ASSUME NEW b \in Backups PROVE StepsFit(b)
  <2>1. backup[b].step = "off" /\ disk[b] = NoFiles /\ aged = {}
    BY DEF BackupInit
  <2>2. QED
    BY <2>1 DEF StepsFit, NoFiles
<1>3. RestoreFits /\ DoneIsSound
    BY DEF BackupInit, RestoreFits, NothingIsMixed, DoneIsSound
<1>4. QED
    BY <1>1, <1>2, <1>3 DEF BackupInv

\* The steps of the two scripts.
AllSteps == StillRunning \cup {"off", "failed", "done"}

LEMMA ScriptMoves ==
    ASSUME BackupTypeOK, NEW b \in Backups, NEW step \in AllSteps, GoTo(b, step)
    PROVE  /\ backup' \in [Backups -> BackupRow]
           /\ backup'[b].step = step /\ backup'[b].keyed = backup[b].keyed
           /\ \A c \in Backups \ {b} : backup'[c] = backup[c]
BY DEF BackupTypeOK, GoTo, BackupRow, AllSteps

\* One row of the disk is written anew.
LEMMA RowWritten ==
    ASSUME BackupTypeOK, NEW b \in Backups, NEW row \in Files, disk' = [disk EXCEPT ![b] = row]
    PROVE  /\ disk' \in [Backups -> Files] /\ disk'[b] = row
           /\ \A c \in Backups \ {b} : disk'[c] = disk[c]
BY DEF BackupTypeOK, Files

LEMMA Rows ==
    ASSUME BackupTypeOK, NEW b \in Backups
    PROVE  /\ disk[b] \in Files /\ backup[b] \in BackupRow
           /\ disk[b] = [sql |-> disk[b].sql, gz |-> disk[b].gz, enc |-> disk[b].enc,
                         sum |-> disk[b].sum]
           /\ disk[b].sum \in BOOLEAN /\ backup[b].keyed \in BOOLEAN
           /\ disk[b].sql \in File /\ disk[b].gz \in File /\ disk[b].enc \in File
BY DEF BackupTypeOK, Files, BackupRow

LEMMA OneField ==
    ASSUME NEW r \in [sql : File, gz : File, enc : File, sum : BOOLEAN], NEW x
    PROVE  /\ [r EXCEPT !.sql = x] = [sql |-> x, gz |-> r.gz, enc |-> r.enc, sum |-> r.sum]
           /\ [r EXCEPT !.gz = x] = [sql |-> r.sql, gz |-> x, enc |-> r.enc, sum |-> r.sum]
           /\ [r EXCEPT !.sum = x] = [sql |-> r.sql, gz |-> r.gz, enc |-> r.enc, sum |-> x]
<1>1. [r EXCEPT !.sql = x] = [sql |-> x, gz |-> r.gz, enc |-> r.enc, sum |-> r.sum]
    OBVIOUS
<1>2. [r EXCEPT !.gz = x] = [sql |-> r.sql, gz |-> x, enc |-> r.enc, sum |-> r.sum]
    OBVIOUS
<1>3. [r EXCEPT !.sum = x] = [sql |-> r.sql, gz |-> r.gz, enc |-> r.enc, sum |-> x]
    OBVIOUS
<1>4. QED
    BY <1>1, <1>2, <1>3

\* What each step of a script writes.
LEMMA ZippedWrites ==
    ASSUME BackupTypeOK, NEW b \in Backups, Zipped(b)
    PROVE  /\ backup[b].step = "zip" /\ UNCHANGED <<aged, spoilt, base, clients, restore>>
           /\ \/ /\ GoTo(b, IF backup[b].keyed THEN "encrypt" ELSE "check")
                 /\ disk' = [disk EXCEPT ![b] =
                       [sql |-> "none", gz |-> "whole",
                        enc |-> IF backup[b].keyed THEN "part" ELSE disk[b].enc,
                        sum |-> disk[b].sum]]
              \/ /\ GoTo(b, "failed")
                 /\ disk' = [disk EXCEPT ![b] = [sql |-> "none", gz |-> "none",
                                                 enc |-> disk[b].enc, sum |-> disk[b].sum]]
BY Rows DEF Zipped, BackupTypeOK

LEMMA DumpedWrites ==
    ASSUME BackupTypeOK, NEW b \in Backups, Dumped(b)
    PROVE  /\ backup[b].step = "dump" /\ UNCHANGED <<aged, spoilt, base, clients, restore>>
           /\ \/ GoTo(b, "failed") /\ disk' = disk
              \/ /\ GoTo(b, "header")
                 /\ disk' = [disk EXCEPT ![b] = [sql |-> "whole", gz |-> disk[b].gz,
                                                 enc |-> disk[b].enc, sum |-> disk[b].sum]]
              \/ /\ GoTo(b, "zip")
                 /\ disk' = [disk EXCEPT ![b] = [sql |-> "whole", gz |-> "part",
                                                 enc |-> disk[b].enc, sum |-> disk[b].sum]]
BY Rows DEF Dumped, BackupTypeOK

LEMMA EncryptedWrites ==
    ASSUME BackupTypeOK, NEW b \in Backups, Encrypted(b)
    PROVE  /\ backup[b].step = "encrypt" /\ UNCHANGED <<aged, spoilt, base, clients, restore>>
           /\ \/ /\ GoTo(b, "check")
                 /\ disk' = [disk EXCEPT ![b] =
                       [sql |-> disk[b].sql, gz |-> "none",
                        enc |-> IF b \in spoilt THEN "part" ELSE "whole", sum |-> disk[b].sum]]
              \/ /\ GoTo(b, "failed")
                 /\ disk' = [disk EXCEPT ![b] = [sql |-> disk[b].sql, gz |-> "none",
                                                 enc |-> disk[b].enc, sum |-> disk[b].sum]]
BY Rows DEF Encrypted, BackupTypeOK

LEMMA HeaderWrites ==
    ASSUME BackupTypeOK, NEW b \in Backups, HeaderIsMissing(b)
    PROVE  /\ backup[b].step = "header" /\ UNCHANGED <<aged, spoilt, base, clients, restore>>
           /\ GoTo(b, "failed")
           /\ disk' = [disk EXCEPT ![b] = [disk[b] EXCEPT !.sql = "none"]]
BY DEF HeaderIsMissing, BackupTypeOK

LEMMA SummedWrites ==
    ASSUME BackupTypeOK, NEW b \in Backups, Summed(b), Vouched(b) # "none"
    PROVE  /\ backup[b].step = "sum" /\ UNCHANGED <<aged, spoilt, base, clients, restore>>
           /\ GoTo(b, "clean")
           /\ disk' = [disk EXCEPT ![b] = [sql |-> disk[b].sql, gz |-> disk[b].gz,
                                           enc |-> disk[b].enc, sum |-> TRUE]]
<1>1. disk' = [disk EXCEPT ![b] = [disk[b] EXCEPT !.sum = TRUE]]
    BY DEF Summed, BackupTypeOK
<1>2. [disk[b] EXCEPT !.sum = TRUE] = [sql |-> disk[b].sql, gz |-> disk[b].gz, enc |-> disk[b].enc, sum |-> TRUE]
    BY Rows, OneField DEF Files
<1>3. QED
    BY <1>1, <1>2 DEF Summed

LEMMA DecryptWrites ==
    ASSUME BackupTypeOK, restore.file \in Backups, Decrypt
    PROVE  \E gz \in {"whole", "none"} :
              disk' = [disk EXCEPT ![restore.file] =
                          [sql |-> disk[restore.file].sql, gz |-> gz,
                           enc |-> disk[restore.file].enc, sum |-> disk[restore.file].sum]]
<1>1. disk' = [disk EXCEPT ![restore.file] = [disk[restore.file] EXCEPT !.gz =
                  IF disk[restore.file].enc = "whole" /\ disk[restore.file].gz = "part"
                  THEN "whole" ELSE "none"]]
    BY DEF Decrypt, BackupTypeOK
<1>2. \A gz : [disk[restore.file] EXCEPT !.gz = gz] =
                   [sql |-> disk[restore.file].sql, gz |-> gz,
                    enc |-> disk[restore.file].enc, sum |-> disk[restore.file].sum]
    BY Rows, OneField DEF Files
<1>3. QED
    BY <1>1, <1>2

LEMMA UnpackWrites ==
    ASSUME BackupTypeOK, restore.file \in Backups, Unpack
    PROVE  disk' = [disk EXCEPT ![restore.file] =
                        [disk[restore.file] EXCEPT !.gz = "none", !.sql = "whole"]]
BY DEF Unpack, BackupTypeOK

\* A step of a script that ends between its start and its end.
LEMMA RunMoves ==
    ASSUME BackupInv, NEW b \in Backups, backup[b].step \notin {"off", "done"},
           NEW step \in AllSteps \ {"off", "done"}, GoTo(b, step),
           NEW row \in Files, disk' = [disk EXCEPT ![b] = row],
           UNCHANGED <<aged, spoilt, base, clients, restore>>, StepsFit(b)'
    PROVE  BackupInv'
<1>0. BackupTypeOK /\ (\A c \in Backups : StepsFit(c)) /\ RestoreFits /\ DoneIsSound
    BY DEF BackupInv
<1>1. /\ backup' \in [Backups -> BackupRow]
      /\ backup'[b].step = step /\ backup'[b].keyed = backup[b].keyed
      /\ \A c \in Backups \ {b} : backup'[c] = backup[c]
    BY <1>0, ScriptMoves
<1>2. /\ disk' \in [Backups -> Files] /\ \A c \in Backups \ {b} : disk'[c] = disk[c]
    BY <1>0, RowWritten
<1>3. BackupTypeOK'
    BY <1>0, <1>1, <1>2 DEF BackupTypeOK, BackupRow, Files
<1>4. ASSUME NEW c \in Backups PROVE StepsFit(c)'
  <2>1. CASE c = b
    BY <2>1
  <2>2. CASE c # b
    BY <1>0, <1>1, <1>2, <2>2 DEF StepsFit, Sound, NoParts, Vouched
  <2>3. QED
    BY <2>1, <2>2
<1>5. RestoreFits'
    BY <1>0, <1>1 DEF RestoreFits, NothingIsMixed
<1>6. \A c \in Backups : backup'[c].step = "done" => backup[c].step = "done"
    BY <1>1
<1>7. \A c \in Backups : backup[c].step = "done" => /\ backup'[c].step = "done"
                                                    /\ Sound(c) => Sound(c)'
    BY <1>1, <1>2 DEF Sound
<1>8. DoneIsSound'
    BY <1>0, <1>6, <1>7 DEF DoneIsSound
<1>9. QED
    BY <1>3, <1>4, <1>5, <1>8 DEF BackupInv

\* A step of the restore over one backup's files.
LEMMA RestoreMoves ==
    ASSUME BackupInv, NEW f \in Backups, NEW row \in Files, disk' = [disk EXCEPT ![f] = row],
           UNCHANGED <<backup, aged, base, clients>>, StepsFit(f)', Sound(f) => Sound(f)',
           spoilt \subseteq spoilt', spoilt' \subseteq Backups,
           NEW step \in {"failed", "connect", "decrypting", "unpacking"}, RestoreGoesTo(step),
           step = "decrypting" => restore.form = "enc", step = "unpacking" => restore.form = "gz"
    PROVE  BackupInv'
<1>0. BackupTypeOK /\ (\A c \in Backups : StepsFit(c)) /\ RestoreFits /\ DoneIsSound
    BY DEF BackupInv
<1>1. /\ disk' \in [Backups -> Files] /\ \A c \in Backups \ {f} : disk'[c] = disk[c]
    BY <1>0, RowWritten
<1>2. /\ restore'.step = step /\ restore'.file = restore.file /\ restore'.form = restore.form
      /\ restore'.runs = restore.runs
      /\ restore' = [step |-> step, file |-> restore.file, form |-> restore.form,
                     runs |-> restore.runs]
    BY <1>0 DEF RestoreGoesTo, BackupTypeOK
<1>3. BackupTypeOK'
    BY <1>0, <1>1, <1>2 DEF BackupTypeOK, Files
<1>4. ASSUME NEW c \in Backups PROVE StepsFit(c)' /\ (Sound(c) => Sound(c)')
  <2>1. CASE c = f
    BY <2>1
  <2>2. CASE c # f
    BY <1>0, <1>1, <2>2 DEF StepsFit, Sound, NoParts, Vouched
  <2>3. QED
    BY <2>1, <2>2
<1>5. RestoreFits'
    BY <1>0, <1>2 DEF RestoreFits, NothingIsMixed
<1>6. DoneIsSound'
    BY <1>0, <1>4 DEF DoneIsSound
<1>7. QED
    BY <1>3, <1>4, <1>5, <1>6 DEF BackupInv

\* A step that leaves the files and the scripts alone.
LEMMA OthersMove ==
    ASSUME BackupInv, UNCHANGED <<backup, disk, spoilt>>, BackupTypeOK', RestoreFits',
           \A b \in aged' : b \in aged \/ backup[b].step \in {"failed", "done"}
    PROVE  BackupInv'
<1>0. BackupTypeOK /\ (\A c \in Backups : StepsFit(c)) /\ RestoreFits /\ DoneIsSound
    BY DEF BackupInv
<1>1. ASSUME NEW c \in Backups PROVE StepsFit(c)'
    BY <1>0 DEF StepsFit, Sound, NoParts, Vouched
<1>2. DoneIsSound'
    BY <1>0 DEF DoneIsSound, Sound
<1>3. QED
    BY <1>1, <1>2 DEF BackupInv

LEMMA BackupInvNext == BackupInv /\ [BackupNext]_backupVars => BackupInv'
<1> SUFFICES ASSUME BackupInv, [BackupNext]_backupVars PROVE BackupInv'
    OBVIOUS
<1>0. BackupTypeOK /\ (\A c \in Backups : StepsFit(c)) /\ RestoreFits /\ DoneIsSound
    BY DEF BackupInv
<1>a. /\ backup \in [Backups -> BackupRow] /\ disk \in [Backups -> Files] /\ aged \subseteq Backups
    BY <1>0 DEF BackupTypeOK, BackupRow, Files
<1>b. \A b \in Backups : disk[b] \in Files
    BY <1>a
<1>1. ASSUME NEW b \in Backups, NEW script \in {"backup.sh", "schedule"}, NEW keyed \in BOOLEAN,
             StartBackup(b, script, keyed)
      PROVE  BackupInv'
  <2>1. /\ backup[b].step = "off" /\ UNCHANGED <<aged, spoilt, base, clients, restore>>
        /\ backup' = [backup EXCEPT ![b] = [script |-> script, keyed |-> keyed, step |-> "dump"]]
        /\ disk' = [disk EXCEPT ![b] = [disk[b] EXCEPT !.sql = "part"]]
    BY <1>a, <1>1 DEF StartBackup
  <2>2. /\ backup' \in [Backups -> BackupRow]
        /\ backup'[b].step = "dump" /\ \A c \in Backups \ {b} : backup'[c] = backup[c]
    BY <1>a, <2>1 DEF BackupRow, StillRunning
  <2>3. [disk[b] EXCEPT !.sql = "part"] \in Files
    BY <1>b DEF Files, File
  <2>4. /\ disk' \in [Backups -> Files] /\ \A c \in Backups \ {b} : disk'[c] = disk[c]
        /\ disk'[b].enc = disk[b].enc /\ disk'[b].sum = disk[b].sum
    BY <1>a, <1>b, <2>1, <2>3 DEF Files
  <2>5. BackupTypeOK'
    BY <1>0, <2>1, <2>2, <2>4 DEF BackupTypeOK, BackupRow, Files
  <2>6. StepsFit(b)'
    BY <1>0, <2>1, <2>2, <2>4 DEF StepsFit
  <2>7. ASSUME NEW c \in Backups \ {b} PROVE StepsFit(c)'
    BY <1>0, <2>1, <2>2, <2>4 DEF StepsFit, Sound, NoParts, Vouched
  <2>8. RestoreFits'
    BY <1>0, <2>1, <2>2 DEF RestoreFits, NothingIsMixed
  <2>9. /\ \A c \in Backups : backup'[c].step = "done" => backup[c].step = "done"
        /\ \A c \in Backups : backup[c].step = "done" => /\ backup'[c].step = "done"
                                                         /\ Sound(c) => Sound(c)'
    BY <2>1, <2>2, <2>4 DEF Sound
  <2>10. DoneIsSound'
    BY <1>0, <2>1, <2>9 DEF DoneIsSound
  <2>11. QED
    BY <2>5, <2>6, <2>7, <2>8, <2>10 DEF BackupInv
<1>2. ASSUME NEW b \in Backups, NEW step \in AllSteps, GoTo(b, step), NEW row \in Files,
             disk' = [disk EXCEPT ![b] = row], aged' = aged
      PROVE  /\ backup'[b].step = step /\ backup'[b].keyed = backup[b].keyed
             /\ disk'[b] = row
    BY <1>0, <1>2, ScriptMoves, RowWritten
<1>3. ASSUME NEW b \in Backups, GoTo(b, "failed"), NEW row \in Files,
             backup[b].step \notin {"off", "done"}, disk' = [disk EXCEPT ![b] = row],
             UNCHANGED <<aged, spoilt, base, clients, restore>>,
             row.enc \in {disk[b].enc, "none"}, row.gz \in {disk[b].gz, "none"},
             row.sum => disk[b].sum
      PROVE  BackupInv'
  <2>1. "failed" \in AllSteps \ {"off", "done"}
    BY DEF AllSteps
  <2>2. /\ backup'[b].step = "failed" /\ backup'[b].keyed = backup[b].keyed
        /\ disk'[b] = row
    BY <1>2, <1>3, <2>1
  <2>3. StepsFit(b)'
    BY <1>0, <1>3, <2>2 DEF StepsFit, NoParts, Vouched
  <2>4. QED
    BY <1>3, <2>1, <2>3, RunMoves
<1>4. ASSUME NEW b \in Backups, GoTo(b, "failed"), disk' = disk,
             backup[b].step \notin {"off", "done"}, UNCHANGED <<aged, spoilt, base, clients, restore>>
      PROVE  BackupInv'
  <2>1. disk' = [disk EXCEPT ![b] = disk[b]] /\ disk[b] \in Files
    BY <1>a, <1>4
  <2>2. QED
    BY <1>3, <1>4, <2>1
<1>5. ASSUME NEW b \in Backups, Dumped(b) PROVE BackupInv'
  <2>1. /\ backup[b].step = "dump" /\ UNCHANGED <<aged, spoilt, base, clients, restore>>
    BY <1>0, <1>5, DumpedWrites
  <2>2. ASSUME NEW step \in {"header", "zip"}, NEW row \in Files, GoTo(b, step),
               disk' = [disk EXCEPT ![b] = row], row.enc = disk[b].enc, row.sum = disk[b].sum
        PROVE  BackupInv'
    <3>1. step \in AllSteps \ {"off", "done"}
      BY DEF AllSteps, StillRunning
    <3>2. /\ backup'[b].step = step /\ backup'[b].keyed = backup[b].keyed /\ disk'[b] = row
      BY <1>2, <2>1, <2>2, <3>1
    <3>3. StepsFit(b)'
      BY <1>0, <2>1, <2>2, <3>2 DEF StepsFit
    <3>4. QED
      BY <2>1, <2>2, <3>1, <3>3, RunMoves
  <2>3. CASE GoTo(b, "failed") /\ disk' = disk
    BY <1>4, <2>1, <2>3
  <2>4. CASE /\ GoTo(b, "header")
             /\ disk' = [disk EXCEPT ![b] = [sql |-> "whole", gz |-> disk[b].gz,
                                             enc |-> disk[b].enc, sum |-> disk[b].sum]]
    <3>1. [sql |-> "whole", gz |-> disk[b].gz, enc |-> disk[b].enc, sum |-> disk[b].sum] \in Files
      BY <1>0, Rows DEF Files, File
    <3>2. QED
      BY <2>2, <2>4, <3>1
  <2>5. CASE /\ GoTo(b, "zip")
             /\ disk' = [disk EXCEPT ![b] = [sql |-> "whole", gz |-> "part",
                                             enc |-> disk[b].enc, sum |-> disk[b].sum]]
    <3>1. [sql |-> "whole", gz |-> "part", enc |-> disk[b].enc, sum |-> disk[b].sum] \in Files
      BY <1>0, Rows DEF Files, File
    <3>2. QED
      BY <2>2, <2>5, <3>1
  <2>6. QED
    BY <1>0, <1>5, <2>3, <2>4, <2>5, DumpedWrites
<1>6. ASSUME NEW b \in Backups, HeaderIsMissing(b) PROVE BackupInv'
  <2> DEFINE row == [disk[b] EXCEPT !.sql = "none"]
  <2>1. /\ backup[b].step = "header" /\ UNCHANGED <<aged, spoilt, base, clients, restore>>
        /\ GoTo(b, "failed") /\ disk' = [disk EXCEPT ![b] = row]
    BY <1>0, <1>6, HeaderWrites
  <2>2. row \in Files /\ row.gz = disk[b].gz /\ row.enc = disk[b].enc /\ row.sum = disk[b].sum
    BY <1>b DEF Files, File
  <2> HIDE DEF row
  <2>3. QED
    BY <1>3, <2>1, <2>2
<1>7. ASSUME NEW b \in Backups, Zipped(b) PROVE BackupInv'
  <2> DEFINE next == IF backup[b].keyed THEN "encrypt" ELSE "check"
             row == [sql |-> "none", gz |-> "whole",
                     enc |-> IF backup[b].keyed THEN "part" ELSE disk[b].enc, sum |-> disk[b].sum]
             none == [sql |-> "none", gz |-> "none", enc |-> disk[b].enc, sum |-> disk[b].sum]
  <2>1. /\ backup[b].step = "zip" /\ UNCHANGED <<aged, spoilt, base, clients, restore>>
        /\ \/ GoTo(b, next) /\ disk' = [disk EXCEPT ![b] = row]
           \/ GoTo(b, "failed") /\ disk' = [disk EXCEPT ![b] = none]
    BY <1>0, <1>7, ZippedWrites
  <2>2. row \in Files /\ none \in Files
    BY <1>0, Rows DEF Files, File
  <2>3. next \in AllSteps \ {"off", "done"}
    BY DEF AllSteps, StillRunning
  <2>a. /\ row.gz = "whole" /\ row.sum = disk[b].sum /\ none.gz = "none"
        /\ none.enc = disk[b].enc /\ none.sum = disk[b].sum
        /\ backup[b].keyed => row.enc = "part" /\ next = "encrypt"
        /\ ~backup[b].keyed => row.enc = disk[b].enc /\ next = "check"
    OBVIOUS
  <2> HIDE DEF next, row, none
  <2>4. CASE GoTo(b, next) /\ disk' = [disk EXCEPT ![b] = row]
    <3>1. backup'[b].step = next /\ backup'[b].keyed = backup[b].keyed /\ disk'[b] = row
      BY <1>2, <2>1, <2>2, <2>3, <2>4
    <3>2. CASE backup[b].keyed
      <4>1. StepsFit(b)'
        BY <1>0, <2>1, <2>a, <3>1, <3>2 DEF StepsFit
      <4>2. QED
        BY <2>1, <2>2, <2>3, <2>4, <4>1, RunMoves
    <3>3. CASE ~backup[b].keyed
      <4>1. disk[b].enc = "none" /\ row.enc = "none" /\ next = "check"
        BY <1>0, <2>a, <3>3 DEF StepsFit
      <4>2. StepsFit(b)'
        BY <1>0, <2>1, <2>a, <3>1, <3>3, <4>1 DEF StepsFit, Sound, NoParts, Vouched
      <4>3. QED
        BY <2>1, <2>2, <2>3, <2>4, <4>2, RunMoves
    <3>4. QED
      BY <3>2, <3>3
  <2>5. CASE GoTo(b, "failed") /\ disk' = [disk EXCEPT ![b] = none]
    BY <1>3, <2>1, <2>2, <2>5, <2>a
  <2>6. QED
    BY <2>1, <2>4, <2>5
<1>8. ASSUME NEW b \in Backups, Encrypted(b) PROVE BackupInv'
  <2> DEFINE row == [sql |-> disk[b].sql, gz |-> "none",
                     enc |-> IF b \in spoilt THEN "part" ELSE "whole", sum |-> disk[b].sum]
             none == [sql |-> disk[b].sql, gz |-> "none", enc |-> disk[b].enc, sum |-> disk[b].sum]
  <2>1. /\ backup[b].step = "encrypt" /\ UNCHANGED <<aged, spoilt, base, clients, restore>>
        /\ \/ GoTo(b, "check") /\ disk' = [disk EXCEPT ![b] = row]
           \/ GoTo(b, "failed") /\ disk' = [disk EXCEPT ![b] = none]
    BY <1>0, <1>8, EncryptedWrites
  <2>2. row \in Files /\ none \in Files
    BY <1>0, Rows DEF Files, File
  <2>3. "check" \in AllSteps \ {"off", "done"}
    BY DEF AllSteps, StillRunning
  <2>a. /\ row.sum = disk[b].sum /\ row.gz = "none"
        /\ b \notin spoilt => row.enc = "whole"
        /\ none.gz = "none" /\ none.enc = disk[b].enc /\ none.sum = disk[b].sum
    OBVIOUS
  <2> HIDE DEF row, none
  <2>4. CASE GoTo(b, "check") /\ disk' = [disk EXCEPT ![b] = row]
    <3>1. backup'[b].step = "check" /\ backup'[b].keyed = backup[b].keyed /\ disk'[b] = row
      BY <1>2, <2>1, <2>2, <2>3, <2>4
    <3>2. StepsFit(b)'
      BY <1>0, <2>1, <2>a, <3>1 DEF StepsFit, Sound, NoParts, Vouched
    <3>3. QED
      BY <2>1, <2>2, <2>3, <2>4, <3>2, RunMoves
  <2>5. CASE GoTo(b, "failed") /\ disk' = [disk EXCEPT ![b] = none]
    BY <1>3, <2>1, <2>2, <2>5, <2>a
  <2>6. QED
    BY <2>1, <2>4, <2>5
<1>9. ASSUME NEW b \in Backups, Sized(b) \/ Summed(b) PROVE BackupInv'
  <2>1. /\ backup[b].step \in {"check", "sum"} /\ UNCHANGED <<aged, spoilt, base, clients, restore>>
        /\ StepsFit(b)
    BY <1>0, <1>9 DEF Sized, Summed
  <2>2. ASSUME NEW step \in {"sum", "clean"}, NEW row \in Files, GoTo(b, step),
               disk' = [disk EXCEPT ![b] = row], row.sql = disk[b].sql, row.gz = disk[b].gz,
               row.enc = disk[b].enc, row.sum => step = "clean"
        PROVE  BackupInv'
    <3>1. step \in AllSteps \ {"off", "done"}
      BY DEF AllSteps, StillRunning
    <3>2. /\ backup'[b].step = step /\ backup'[b].keyed = backup[b].keyed /\ disk'[b] = row
      BY <1>2, <2>1, <2>2, <3>1
    <3>3. StepsFit(b)'
      BY <2>1, <2>2, <3>2 DEF StepsFit, Sound, NoParts, Vouched
    <3>4. QED
      BY <2>1, <2>2, <3>1, <3>3, RunMoves
  <2>3. CASE Sized(b)
    <3>1. CASE GoTo(b, "failed")
      BY <1>4, <2>1, <2>3, <3>1 DEF Sized
    <3>2. CASE GoTo(b, "sum")
      <4>1. disk' = [disk EXCEPT ![b] = disk[b]] /\ backup[b].step = "check" /\ ~disk[b].sum
        BY <1>a, <2>1, <2>3 DEF Sized, StepsFit
      <4>2. QED
        BY <1>b, <2>2, <3>2, <4>1
    <3>3. QED
      BY <2>3, <3>1, <3>2 DEF Sized
  <2>4. CASE Summed(b) /\ Vouched(b) = "none"
    BY <1>4, <2>1, <2>4 DEF Summed
  <2>5. CASE Summed(b) /\ Vouched(b) # "none"
    <3> DEFINE row == [sql |-> disk[b].sql, gz |-> disk[b].gz, enc |-> disk[b].enc, sum |-> TRUE]
    <3>1. GoTo(b, "clean") /\ disk' = [disk EXCEPT ![b] = row]
      BY <1>0, <2>5, SummedWrites
    <3>2. row \in Files
      BY <1>0, Rows DEF Files, File
    <3>3. QED
      BY <2>2, <3>1, <3>2
  <2>6. QED
    BY <1>9, <2>3, <2>4, <2>5
<1>10. ASSUME NEW b \in Backups, Cleaned(b) PROVE BackupInv'
  <2>1. /\ backup[b].step = "clean" /\ GoTo(b, "done") /\ UNCHANGED <<aged, spoilt, base, clients, restore>>
        /\ disk' = [c \in Backups |->
              IF c \in aged THEN [disk[c] EXCEPT !.gz = "none", !.enc = "none", !.sum = FALSE]
              ELSE disk[c]]
    BY <1>10 DEF Cleaned, Expendable
  <2>2. /\ backup' \in [Backups -> BackupRow]
        /\ backup'[b].step = "done" /\ backup'[b].keyed = backup[b].keyed
        /\ \A c \in Backups \ {b} : backup'[c] = backup[c]
    BY <1>0, <2>1, ScriptMoves DEF AllSteps
  <2>3. \A c \in Backups \ aged : disk'[c] = disk[c]
    BY <2>1
  <2>4. \A c \in aged : /\ disk'[c] \in Files /\ disk'[c].gz = "none" /\ disk'[c].enc = "none"
                        /\ disk'[c].sum = FALSE
    <3> SUFFICES ASSUME NEW c \in aged
                 PROVE  /\ disk'[c] \in Files /\ disk'[c].gz = "none" /\ disk'[c].enc = "none"
                        /\ disk'[c].sum = FALSE
      OBVIOUS
    <3>1. c \in Backups /\ disk[c] \in Files
      BY <1>a
    <3>2. disk'[c] = [disk[c] EXCEPT !.gz = "none", !.enc = "none", !.sum = FALSE]
      BY <2>1, <3>1
    <3>3. QED
      BY <3>1, <3>2 DEF Files, File
  <2>5. DOMAIN disk' = Backups /\ disk' = [c \in Backups |-> disk'[c]]
    BY <2>1
  <2>6. disk' \in [Backups -> Files]
    BY <1>b, <2>3, <2>4, <2>5
  <2>7. BackupTypeOK'
    BY <1>0, <2>1, <2>2, <2>6 DEF BackupTypeOK, BackupRow, Files
  <2>8. b \notin aged /\ StepsFit(b)
    BY <1>0, <2>1 DEF StepsFit
  <2>9. disk'[b] = disk[b] /\ (b \notin spoilt' => Sound(b)' /\ NoParts(b)')
    BY <2>1, <2>2, <2>3, <2>8 DEF StepsFit, Sound, NoParts, Vouched
  <2>10. StepsFit(b)'
    BY <2>1, <2>2, <2>8, <2>9 DEF StepsFit
  <2>11. ASSUME NEW c \in Backups \ {b} PROVE StepsFit(c)'
    <3>1. StepsFit(c) /\ backup'[c] = backup[c] /\ aged' = aged
      BY <1>0, <2>1, <2>2
    <3>2. CASE c \in aged
      BY <2>4, <3>1, <3>2 DEF StepsFit
    <3>3. CASE c \notin aged
      BY <2>1, <2>3, <3>1, <3>3 DEF StepsFit, Sound, NoParts, Vouched
    <3>4. QED
      BY <3>2, <3>3
  <2>12. RestoreFits'
    BY <1>0, <2>1, <2>2 DEF RestoreFits, NothingIsMixed
  <2>13. DoneIsSound'
    BY <2>1, <2>2, <2>9 DEF DoneIsSound
  <2>14. QED
    BY <2>7, <2>10, <2>11, <2>12, <2>13 DEF BackupInv
<1>11. ASSUME NEW b \in Backups, BackupDies(b) PROVE BackupInv'
    BY <1>4, <1>11 DEF BackupDies, StillRunning
<1>12. ASSUME UNCHANGED <<backup, disk, spoilt>>, BackupTypeOK', RestoreFits', aged' = aged
       PROVE  BackupInv'
    BY <1>12, OthersMove
<1>13. ASSUME NEW b \in Backups, GrowsOld(b) PROVE BackupInv'
  <2>1. /\ backup[b].step \in {"failed", "done"} /\ aged' = aged \cup {b}
        /\ UNCHANGED <<backup, disk, spoilt, base, clients, restore>>
    BY <1>13 DEF GrowsOld
  <2>2. BackupTypeOK' /\ RestoreFits'
    BY <1>0, <2>1 DEF BackupTypeOK, RestoreFits, NothingIsMixed
  <2>3. QED
    BY <2>1, <2>2, OthersMove
<1>14. ASSUME NEW f \in Backups \cup {Own}, NEW form \in {"dump", "sql", "gz", "enc"},
              NEW v \in BOOLEAN, StartRestore(f, form, v)
       PROVE  BackupInv'
  <2> DEFINE next == IF v THEN "verify" ELSE Prepare(form)
  <2>1. /\ restore' = [step |-> next, file |-> f, form |-> form, runs |-> restore.runs + 1]
        /\ (f = Own) <=> (form = "dump")
        /\ Present(f, form) /\ restore.runs < MaxRestores
        /\ UNCHANGED <<backup, disk, aged, spoilt, base, clients>>
    BY <1>14 DEF StartRestore
  <2>2. /\ next \in {"verify", "decrypt", "unpack", "connect"}
        /\ next = "decrypt" => form = "enc"
        /\ next = "unpack" => form = "gz"
    BY DEF Prepare
  <2>3. restore.runs + 1 \in 0..MaxRestores
    BY <1>0, <2>1, BackupAssumption DEF BackupTypeOK
  <2>4. form = "enc" => f \in Backups /\ backup[f].keyed /\ backup[f].step # "off"
    BY <1>0, <2>1 DEF Present, StepsFit
  <2> HIDE DEF next
  <2>5. BackupTypeOK'
    BY <1>0, <2>1, <2>2, <2>3 DEF BackupTypeOK
  <2>6. RestoreFits'
    BY <1>0, <2>1, <2>2, <2>4 DEF RestoreFits, NothingIsMixed
  <2>7. QED
    BY <1>12, <2>1, <2>5, <2>6
<1>15. ASSUME NEW step \in {"failed", "decrypt", "unpack", "connect", "drop", "create", "load", "done"},
              RestoreGoesTo(step), UNCHANGED <<backup, disk, aged, spoilt>>, clients' \in BOOLEAN,
              base' \in {"live", "gone", "empty", "restored"},
              step = "load" => base' = "empty",
              step = "decrypt" => restore.form = "enc", step = "unpack" => restore.form = "gz"
       PROVE  BackupInv'
  <2>1. /\ restore'.step = step /\ restore'.file = restore.file /\ restore'.form = restore.form
        /\ restore' = [step |-> step, file |-> restore.file, form |-> restore.form,
                       runs |-> restore.runs]
    BY <1>0, <1>15 DEF RestoreGoesTo, BackupTypeOK
  <2>2. BackupTypeOK'
    BY <1>0, <1>15, <2>1 DEF BackupTypeOK
  <2>3. RestoreFits'
    BY <1>0, <1>15, <2>1 DEF RestoreFits, NothingIsMixed
  <2>4. QED
    BY <1>12, <1>15, <2>2, <2>3
<1>c. clients \in BOOLEAN /\ base \in {"live", "gone", "empty", "restored"}
    BY <1>0 DEF BackupTypeOK, RestoreFits, NothingIsMixed
<1>16. ASSUME Verify PROVE BackupInv'
  <2>1. \E step \in {"failed", "decrypt", "unpack", "connect"} :
           /\ RestoreGoesTo(step)
           /\ step = "decrypt" => restore.form = "enc"
           /\ step = "unpack" => restore.form = "gz"
    BY <1>16 DEF Verify, Prepare
  <2>2. UNCHANGED <<backup, disk, aged, spoilt, base, clients>>
    BY <1>16 DEF Verify
  <2>3. QED
    BY <1>15, <1>c, <2>1, <2>2
<1>d. ASSUME StartDecrypt PROVE BackupInv'
  <2>f. PICK f \in Backups : f = restore.file
    BY <1>0, <1>d DEF RestoreFits, StartDecrypt
  <2> DEFINE row == [disk[f] EXCEPT !.gz = "part"]
  <2>1. /\ backup[f].keyed /\ UNCHANGED <<backup, aged, base, clients>>
        /\ RestoreGoesTo("decrypting") /\ StepsFit(f) /\ restore.form = "enc"
    BY <1>0, <1>d, <2>f DEF RestoreFits, StartDecrypt
  <2>2. disk' = [disk EXCEPT ![f] = row]
    BY <1>a, <1>d, <2>f DEF StartDecrypt
  <2>3. /\ row \in Files /\ row.enc = disk[f].enc /\ row.sum = disk[f].sum
    BY <1>b DEF Files, File
  <2>4. disk'[f] = row
    BY <1>a, <2>2
  <2>5. spoilt \subseteq spoilt' /\ spoilt' \subseteq Backups
    BY <1>0, <1>d, <2>f DEF StartDecrypt, BackupTypeOK
  <2> HIDE DEF row
  <2>6. StepsFit(f)'
    BY <2>1, <2>3, <2>4, <2>5 DEF StepsFit, Sound, NoParts, Vouched
  <2>7. Sound(f) => Sound(f)'
    BY <2>1, <2>3, <2>4 DEF Sound
  <2>8. QED
    BY <2>1, <2>2, <2>3, <2>5, <2>6, <2>7, RestoreMoves
<1>e. ASSUME StartUnpack PROVE BackupInv'
  <2>f. PICK f \in Backups : f = restore.file
    BY <1>0, <1>e DEF RestoreFits, StartUnpack
  <2>1. UNCHANGED <<backup, aged, spoilt, base, clients>> /\ StepsFit(f) /\ restore.form = "gz"
    BY <1>0, <1>e DEF StartUnpack, RestoreFits
  <2>2. CASE /\ disk[f].gz = "whole" /\ RestoreGoesTo("unpacking")
             /\ disk' = [disk EXCEPT ![restore.file].sql = "part"]
    <3> DEFINE row == [disk[f] EXCEPT !.sql = "part"]
    <3>1. disk' = [disk EXCEPT ![f] = row]
      BY <1>a, <2>f, <2>2
    <3>2. /\ row \in Files /\ row.gz = disk[f].gz /\ row.enc = disk[f].enc /\ row.sum = disk[f].sum
      BY <1>b DEF Files, File
    <3>3. disk'[f] = row
      BY <1>a, <3>1
    <3> HIDE DEF row
    <3>4. StepsFit(f)'
      BY <2>1, <2>2, <3>2, <3>3 DEF StepsFit, Sound, NoParts, Vouched
    <3>5. Sound(f) => Sound(f)'
      BY <2>1, <2>2, <3>2, <3>3 DEF Sound
    <3>6. spoilt \subseteq spoilt' /\ spoilt' \subseteq Backups
      BY <1>0, <2>1 DEF BackupTypeOK
    <3>7. QED
      BY <2>1, <2>2, <3>1, <3>2, <3>4, <3>5, <3>6, RestoreMoves
  <2>3. CASE RestoreGoesTo("failed") /\ UNCHANGED disk
    BY <1>15, <1>c, <2>1, <2>3
  <2>4. QED
    BY <1>e, <2>f, <2>2, <2>3 DEF StartUnpack
<1>17. ASSUME Decrypt PROVE BackupInv'
  <2>f. PICK f \in Backups : f = restore.file
    BY <1>0, <1>17 DEF RestoreFits, Decrypt
  <2>1. /\ backup[f].keyed /\ UNCHANGED <<backup, aged, spoilt, base, clients>>
        /\ RestoreGoesTo("failed") /\ StepsFit(f)
    BY <1>0, <1>17, <2>f DEF RestoreFits, Decrypt
  <2>2. PICK gz \in {"whole", "none"} :
           disk' = [disk EXCEPT ![f] = [sql |-> disk[f].sql, gz |-> gz, enc |-> disk[f].enc,
                                        sum |-> disk[f].sum]]
    BY <1>0, <1>17, <2>f, DecryptWrites
  <2> DEFINE row == [sql |-> disk[f].sql, gz |-> gz, enc |-> disk[f].enc, sum |-> disk[f].sum]
  <2>3. row \in Files
    BY <1>0, <2>1, Rows DEF Files, File
  <2>4. /\ disk'[f].gz \in {"whole", "none"} /\ disk'[f].enc = disk[f].enc
        /\ disk'[f].sum = disk[f].sum /\ disk' = [disk EXCEPT ![f] = row]
    BY <1>a, <2>1, <2>2
  <2> HIDE DEF row
  <2>5. StepsFit(f)'
    BY <2>1, <2>4 DEF StepsFit, Sound, NoParts, Vouched
  <2>6. Sound(f) => Sound(f)'
    BY <2>1, <2>4 DEF Sound
  <2>7. "failed" \in {"failed", "connect", "decrypting", "unpacking"}
    OBVIOUS
  <2>8. spoilt \subseteq spoilt' /\ spoilt' \subseteq Backups
    BY <1>0, <2>1 DEF BackupTypeOK
  <2>9. QED
    BY <2>1, <2>3, <2>4, <2>5, <2>6, <2>7, <2>8, RestoreMoves
<1>18. ASSUME Unpack PROVE BackupInv'
  <2>f. PICK f \in Backups : f = restore.file
    BY <1>0, <1>18 DEF RestoreFits, Unpack
  <2>1. UNCHANGED <<backup, aged, spoilt, base, clients>> /\ StepsFit(f)
    BY <1>0, <1>18 DEF Unpack
  <2> DEFINE row == [disk[f] EXCEPT !.gz = "none", !.sql = "whole"]
  <2>2. disk' = [disk EXCEPT ![f] = row] /\ RestoreGoesTo("connect")
    BY <1>0, <1>18, <2>f, UnpackWrites DEF Unpack
  <2>3. /\ row \in Files /\ row.sql = "whole" /\ row.gz = "none" /\ row.enc = disk[f].enc
        /\ row.sum = disk[f].sum
    BY <1>b DEF Files, File
  <2>4. disk'[f] = row
    BY <1>a, <2>2
  <2> HIDE DEF row
  <2>5. StepsFit(f)'
    BY <2>1, <2>3, <2>4 DEF StepsFit, Sound, NoParts, Vouched
  <2>6. Sound(f) => Sound(f)'
    BY <2>1, <2>3, <2>4 DEF Sound
  <2>7. "connect" \in {"failed", "connect", "decrypting", "unpacking"}
    OBVIOUS
  <2>8. spoilt \subseteq spoilt' /\ spoilt' \subseteq Backups
    BY <1>0, <2>1 DEF BackupTypeOK
  <2>9. QED
    BY <2>1, <2>2, <2>3, <2>5, <2>6, <2>7, <2>8, RestoreMoves
<1>19. ASSUME Disconnect \/ RestoreDies PROVE BackupInv'
    BY <1>15, <1>19, <1>c DEF Disconnect, RestoreDies
<1>20. ASSUME Reconnect PROVE BackupInv'
  <2>1. clients' = TRUE /\ UNCHANGED <<backup, disk, aged, spoilt, base, restore>>
    BY <1>20 DEF Reconnect
  <2>2. BackupTypeOK' /\ RestoreFits'
    BY <1>0, <2>1 DEF BackupTypeOK, RestoreFits, NothingIsMixed
  <2>3. QED
    BY <1>12, <2>1, <2>2
<1>21. ASSUME DropDatabase PROVE BackupInv'
    BY <1>15, <1>21, <1>c DEF DropDatabase
<1>22. ASSUME CreateDatabase PROVE BackupInv'
    BY <1>15, <1>22, <1>c DEF CreateDatabase
<1>23. ASSUME Load PROVE BackupInv'
  <2>1. base = "empty"
    BY <1>0, <1>23 DEF Load, RestoreFits
  <2>2. QED
    BY <1>15, <1>23, <1>c, <2>1 DEF Load
<1>24. CASE UNCHANGED backupVars
  <2>1. BackupTypeOK' /\ RestoreFits' /\ UNCHANGED <<backup, disk, aged, spoilt>>
    BY <1>0, <1>24 DEF backupVars, BackupTypeOK, RestoreFits, NothingIsMixed
  <2>2. QED
    BY <1>12, <2>1
<1>25. QED
    BY <1>1, <1>5, <1>6, <1>7, <1>8, <1>9, <1>10, <1>11, <1>13, <1>14, <1>16, <1>d, <1>17, <1>e, <1>18,
       <1>19, <1>20, <1>21, <1>22, <1>23, <1>24 DEF BackupNext

\* For any number of backups, and of restores one after the other, whatever is killed
\* half way or fails: once a backup was reported a whole copy stays on the disk, unless a
\* restore took up a backup that was being encrypted; a checksum is of a whole file, of
\* such a backup apart; and nothing is loaded over what is there.
THEOREM BackupsStayWhole == BackupSpec => [](BackupTypeOK /\ BackupsAreWhole)
<1>1. BackupInv => BackupTypeOK /\ BackupsAreWhole
  <2> SUFFICES ASSUME BackupInv PROVE BackupsAreWhole
    BY DEF BackupInv
  <2>1. BackupTypeOK /\ (\A c \in Backups : StepsFit(c)) /\ RestoreFits /\ DoneIsSound
    BY DEF BackupInv
  <2>2. \A b \in Backups : Sound(b) => Recoverable(b)
    BY <2>1 DEF Sound, Recoverable
  <2>3. DoneIsRecoverable
    BY <2>1, <2>2 DEF DoneIsSound, DoneIsRecoverable
  <2>4. SumIsOfTheWhole
    BY <2>1 DEF StepsFit, NoParts, Vouched, SumIsOfTheWhole
  <2>5. QED
    BY <2>1, <2>3, <2>4 DEF RestoreFits, BackupsAreWhole
<1>2. QED
    BY <1>1, BackupInvInit, BackupInvNext, PTL DEF BackupSpec
=============================================================================
