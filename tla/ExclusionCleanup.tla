-------------------------- MODULE ExclusionCleanup --------------------------
(***************************************************************************)
(* Removing from one customer's corpus the events that match one new       *)
(* exclusion.  A customer's own exclusion is added and cleaned up by its   *)
(* POST route; a global one is queued per customer and cleaned up by the   *)
(* fan-out worker, as is a customer's own after an operator's recovery.    *)
(* Meanwhile cadence pages and rebuilds write the corpus: each takes the   *)
(* customer's advisory lock, then reads the active exclusions, then        *)
(* commits; a rebuild first deletes the rows of its window.  Only the      *)
(* first batch of a cleanup runs under that lock, and retention deletes    *)
(* old rows without it.                                                    *)
(*                                                                         *)
(* corpus holds only rows the planner's predicates match, in one table.    *)
(***************************************************************************)
EXTENDS FiniteSets, Integers

CONSTANTS
    Rows,         \* matching events the writers may put into the corpus
    Writers,      \* cadence pages and rebuilds
    Workers,      \* runs of the fan-out sweep that may overlap
    Route,        \* the POST request that adds a customer's own exclusion
    Nobody,       \* the lock's holder when it is free
    BatchSize,    \* DEFAULT_DELETE_BATCH_SIZE
    MaxAttempts,  \* MAX_ATTEMPTS
    MaxRecovers,  \* bound: recoveries operators ask for
    MaxCount      \* bound: attempt_count saturates here

ASSUME CleanupAssumption ==
    /\ Route \notin Workers /\ Writers \cap (Workers \cup {Route}) = {}
    /\ Nobody \notin Writers \cup Workers \cup {Route}
    /\ IsFiniteSet(Rows)
    /\ BatchSize \in Nat \ {0} /\ MaxAttempts \in Nat \ {0}
    /\ MaxRecovers \in Nat /\ MaxCount \in Nat /\ MaxAttempts <= MaxCount

Cleaners == Workers \cup {Route}

VARIABLES
    scope,        \* of the exclusion: "global" or "customer"
    exclusion,    \* its row: "absent", "present" or "deleted"
    corpus,       \* matching rows in the customer's corpus
    lock,         \* holder of the customer's advisory lock
    writerPc,     \* "idle", "open" (has the lock) or "resolved"
    sees,         \* the writer's active set has the exclusion
    job,          \* status in triage_exclusion_fanout_job, "none" for no row
    attempts,     \* attempt_count
    due,          \* next_attempt_at <= NOW()
    pc,           \* where each cleaner stands
    batch,        \* rows its running DELETE selected
    attemptCount, \* attempt_count as the worker claimed it
    drainAudited, \* a drain failure in the audit log, not recovered since
    recovers,     \* recoveries so far
    robbed        \* history: a DELETE found rows of its batch gone

writerVars == <<writerPc, sees>>
jobVars == <<job, attempts, due>>
cleanerVars == <<pc, batch, attemptCount>>
operatorVars == <<drainAudited, recovers>>
vars == <<scope, exclusion, corpus, lock, writerVars, jobVars, cleanerVars,
          operatorVars, robbed>>

Init ==
    /\ scope \in {"global", "customer"}
    /\ exclusion = "absent" /\ corpus \in SUBSET Rows /\ lock = Nobody
    /\ writerPc = [w \in Writers |-> "idle"]
    /\ sees = [w \in Writers |-> FALSE]
    /\ job = "none" /\ attempts = 0 /\ due = TRUE
    /\ pc = [c \in Cleaners |-> "idle"]
    /\ batch = [c \in Cleaners |-> {}]
    /\ attemptCount = [c \in Cleaners |-> 0]
    /\ drainAudited = FALSE /\ recovers = 0
    /\ robbed = FALSE

Goto(c, label) == pc' = [pc EXCEPT ![c] = label]
\* The worker's attempt is over, and what it knew of the job with it.
Leave(c, label) ==
    Goto(c, label) /\ attemptCount' = [attemptCount EXCEPT ![c] = 0]
Unlock(p) == lock' = IF lock = p THEN Nobody ELSE lock

-----------------------------------------------------------------------------
(* Writers of the corpus.                                                  *)

OpenWriter(w) ==
    /\ writerPc[w] = "idle" /\ lock = Nobody
    /\ lock' = w
    /\ writerPc' = [writerPc EXCEPT ![w] = "open"]
    /\ UNCHANGED <<scope, exclusion, corpus, sees, jobVars, cleanerVars,
                   operatorVars, robbed>>

ResolveExclusions(w) ==
    /\ writerPc[w] = "open"
    /\ writerPc' = [writerPc EXCEPT ![w] = "resolved"]
    /\ sees' = [sees EXCEPT ![w] = exclusion = "present"]
    /\ UNCHANGED <<scope, exclusion, corpus, lock, jobVars, cleanerVars,
                   operatorVars, robbed>>

\* What the writer adds to the rows it keeps.  A row put back is a new tuple:
\* a DELETE that selected the old one does not remove it.
Put(w, kept, S) ==
    LET new == IF sees[w] THEN {} ELSE S \ kept
    IN  /\ corpus' = kept \cup new
        /\ batch' = [c \in Cleaners |-> batch[c] \ new]

Committed(w) ==
    /\ Unlock(w)
    /\ writerPc' = [writerPc EXCEPT ![w] = "idle"]
    /\ sees' = [sees EXCEPT ![w] = FALSE]
    /\ UNCHANGED <<scope, exclusion, jobVars, pc, attemptCount,
                   operatorVars, robbed>>

CommitCadence(w) ==
    /\ writerPc[w] = "resolved"
    /\ \E S \in SUBSET Rows : Put(w, corpus, S)
    /\ Committed(w)

\* The rows of the window W are deleted and what still qualifies is put back.
CommitRebuild(w) ==
    /\ writerPc[w] = "resolved"
    /\ \E W \in SUBSET Rows : \E S \in SUBSET W : Put(w, corpus \ W, S)
    /\ Committed(w)

\* A failure, a timeout or an abort: ROLLBACK.
AbortWriter(w) ==
    /\ writerPc[w] # "idle"
    /\ Unlock(w)
    /\ writerPc' = [writerPc EXCEPT ![w] = "idle"]
    /\ sees' = [sees EXCEPT ![w] = FALSE]
    /\ UNCHANGED <<scope, exclusion, corpus, jobVars, cleanerVars,
                   operatorVars, robbed>>

\* Retention deletes rows that have grown old, batch by batch, with no lock.
Retention ==
    /\ \E S \in SUBSET corpus \ {{}} : corpus' = corpus \ S
    /\ UNCHANGED <<scope, exclusion, lock, writerVars, jobVars, cleanerVars,
                   operatorVars, robbed>>

-----------------------------------------------------------------------------
(* Batches.  A DELETE finds up to BatchSize rows and removes those that    *)
(* nobody has removed meanwhile; fewer than BatchSize removed counts as no *)
(* more to find, also when another drain, a rebuild or retention was the   *)
(* faster one.                                                             *)

Batches(S) ==
    {T \in SUBSET S : Cardinality(T) =
        IF Cardinality(S) < BatchSize THEN Cardinality(S) ELSE BatchSize}

SelectBatch(c) ==
    /\ pc[c] \in {"first", "drain"}
    /\ \E S \in Batches(corpus) : batch' = [batch EXCEPT ![c] = S]
    /\ Goto(c, "delete")
    /\ UNCHANGED <<scope, exclusion, corpus, lock, writerVars, jobVars,
                   attemptCount, operatorVars, robbed>>

AfterBatch(c) ==
    IF Cardinality(batch[c] \cap corpus) >= BatchSize THEN "check" ELSE "finish"

\* Fault: the drain goes on under the lock of the first batch.
DeleteBatchHolding(c) ==
    /\ pc[c] = "delete"
    /\ corpus' = corpus \ batch[c]
    /\ Goto(c, AfterBatch(c))
    /\ batch' = [batch EXCEPT ![c] = {}]
    /\ robbed' = (robbed \/ ~(batch[c] \subseteq corpus))
    /\ UNCHANGED <<scope, exclusion, lock, writerVars, jobVars, attemptCount,
                   operatorVars>>

\* The end of the first batch's transaction releases the lock.
DeleteBatch(c) ==
    /\ pc[c] = "delete"
    /\ corpus' = corpus \ batch[c]
    /\ Goto(c, AfterBatch(c))
    /\ batch' = [batch EXCEPT ![c] = {}]
    /\ robbed' = (robbed \/ ~(batch[c] \subseteq corpus))
    /\ Unlock(c)
    /\ UNCHANGED <<scope, exclusion, writerVars, jobVars, attemptCount,
                   operatorVars>>

\* shouldContinue, which only the worker gives.
CheckExclusion(c) ==
    /\ pc[c] = "check"
    /\ Goto(c, IF c = Route \/ exclusion = "present" THEN "drain" ELSE "finish")
    /\ UNCHANGED <<scope, exclusion, corpus, lock, writerVars, jobVars, batch,
                   attemptCount, operatorVars, robbed>>

-----------------------------------------------------------------------------
(* Operators and the POST routes.                                          *)

\* One transaction: lock, INSERT of the exclusion, first batch, COMMIT.
AddCustomerExclusion ==
    /\ scope = "customer" /\ exclusion = "absent" /\ lock = Nobody
    /\ exclusion' = "present"
    /\ \E S \in Batches(corpus) :
        /\ corpus' = corpus \ S
        /\ Goto(Route, IF Cardinality(S) >= BatchSize THEN "check" ELSE "finish")
    /\ UNCHANGED <<scope, lock, writerVars, jobVars, batch, attemptCount,
                   operatorVars, robbed>>

\* The exclusion and its job, in one transaction and without the lock.
AddGlobalExclusion ==
    /\ scope = "global" /\ exclusion = "absent"
    /\ exclusion' = "present"
    /\ job' = "pending"
    /\ UNCHANGED <<scope, corpus, lock, writerVars, attempts, due, cleanerVars,
                   operatorVars, robbed>>

\* 500: a job that is born failed, and the audit row; either may not land.
RecordDrainFailure ==
    /\ pc[Route] = "failed"
    /\ \/ job' = "failed" /\ attempts' = MaxAttempts
       \/ UNCHANGED <<job, attempts>>
    /\ drainAudited' \in {drainAudited, TRUE}
    /\ Goto(Route, "partial")
    /\ UNCHANGED <<scope, exclusion, corpus, lock, writerVars, due, batch,
                   attemptCount, recovers, robbed>>

AnswerCreated ==
    /\ pc[Route] = "finish"
    /\ Goto(Route, "created")
    /\ UNCHANGED <<scope, exclusion, corpus, lock, writerVars, jobVars, batch,
                   attemptCount, operatorVars, robbed>>

\* A global exclusion's job goes with it (ON DELETE CASCADE).
DeleteExclusion ==
    /\ exclusion = "present"
    /\ exclusion' = "deleted"
    /\ job' = IF scope = "global" THEN "none" ELSE job
    /\ UNCHANGED <<scope, corpus, lock, writerVars, attempts, due, cleanerVars,
                   operatorVars, robbed>>

\* A failed job is reset; failing that, an audited drain failure of a
\* customer's own exclusion is queued whatever the job's state;
\* neither asks whether a worker is at it.
Recover ==
    /\ recovers < MaxRecovers
    /\ job = "failed" \/ (scope = "customer" /\ drainAudited)
    /\ job' = "pending" /\ attempts' = 0 /\ due' = TRUE
    /\ drainAudited' \in {drainAudited, FALSE}
    /\ recovers' = recovers + 1
    /\ UNCHANGED <<scope, exclusion, corpus, lock, writerVars, cleanerVars,
                   robbed>>

-----------------------------------------------------------------------------
(* The fan-out worker.                                                     *)

CountUp == IF attempts < MaxCount THEN attempts + 1 ELSE attempts

\* What the job's UPDATEs write; they name no status, and no row is no job.
SetJob(status, count) ==
    IF job = "none" THEN UNCHANGED <<job, attempts>>
    ELSE job' = status /\ attempts' = count

\* Fault: the status is left as it is.
SweepKeepingStatus ==
    /\ job = "running"
    /\ UNCHANGED vars

\* The age of a claim does not tell a dead worker from one that is slow.
SweepStuckJobs ==
    /\ job = "running"
    /\ job' = "pending"
    /\ UNCHANGED <<scope, exclusion, corpus, lock, writerVars, attempts, due,
                   cleanerVars, operatorVars, robbed>>

BackoffPasses ==
    /\ ~due
    /\ due' = TRUE
    /\ UNCHANGED <<scope, exclusion, corpus, lock, writerVars, job, attempts,
                   cleanerVars, operatorVars, robbed>>

ClaimPendingJob(k) ==
    /\ pc[k] = "idle" /\ job = "pending" /\ due
    /\ job' = "running"
    /\ attemptCount' = [attemptCount EXCEPT ![k] = attempts]
    /\ Goto(k, "claimed")
    /\ UNCHANGED <<scope, exclusion, corpus, lock, writerVars, attempts, due,
                   batch, operatorVars, robbed>>

LoadExclusion(k) ==
    /\ pc[k] = "claimed"
    /\ Goto(k, IF exclusion = "present" THEN "wait" ELSE "moot")
    /\ UNCHANGED <<scope, exclusion, corpus, lock, writerVars, jobVars, batch,
                   attemptCount, operatorVars, robbed>>

\* Fault: the first batch does not wait for a writer.
TakeNoLock(k) ==
    /\ pc[k] = "wait"
    /\ Goto(k, IF exclusion = "present" THEN "first" ELSE "moot")
    /\ UNCHANGED <<scope, exclusion, corpus, lock, writerVars, jobVars, batch,
                   attemptCount, operatorVars, robbed>>

\* The lock, then the existence check under it.
TakeLock(k) ==
    /\ pc[k] = "wait" /\ lock = Nobody
    /\ IF exclusion = "present"
       THEN lock' = k /\ Goto(k, "first")
       ELSE lock' = lock /\ Goto(k, "moot")
    /\ UNCHANGED <<scope, exclusion, corpus, writerVars, jobVars, batch,
                   attemptCount, operatorVars, robbed>>

FinalizeCompleted(k) ==
    /\ pc[k] \in {"finish", "moot"}
    /\ SetJob("completed", attempts)
    /\ Leave(k, IF pc[k] = "finish" THEN "audit" ELSE "idle")
    /\ UNCHANGED <<scope, exclusion, corpus, lock, writerVars, due, batch,
                   operatorVars, robbed>>

\* customer_add after a cleanup, fanout_failed after the last attempt.
RecordAudit(k) ==
    /\ pc[k] = "audit"
    /\ \/ Goto(k, "idle")
       \/ Goto(k, "thrown")
    /\ UNCHANGED <<scope, exclusion, corpus, lock, writerVars, jobVars, batch,
                   attemptCount, operatorVars, robbed>>

\* A statement of the cleanup fails: ROLLBACK, and the outcome is "retried",
\* or the error is thrown past processJob.
FailCleanup(c) ==
    /\ pc[c] \in {"claimed", "wait", "first", "delete", "check", "drain"}
    /\ Unlock(c)
    /\ batch' = [batch EXCEPT ![c] = {}]
    /\ \/ Goto(c, "failed")
       \/ pc[c] = "wait" /\ Goto(c, "thrown")
    /\ UNCHANGED <<scope, exclusion, corpus, writerVars, jobVars, attemptCount,
                   operatorVars, robbed>>

FinalizeFailure(k) ==
    /\ pc[k] = "failed"
    /\ IF attemptCount[k] + 1 >= MaxAttempts
       THEN SetJob("failed", CountUp) /\ Leave(k, "audit") /\ UNCHANGED due
       ELSE SetJob("pending", CountUp) /\ Leave(k, "idle") /\ due' = FALSE
    /\ UNCHANGED <<scope, exclusion, corpus, lock, writerVars, batch,
                   operatorVars, robbed>>

\* An UPDATE of the job fails.
ThrowFinalize(k) ==
    /\ pc[k] \in {"finish", "moot", "failed"}
    /\ Leave(k, "thrown")
    /\ UNCHANGED <<scope, exclusion, corpus, lock, writerVars, jobVars, batch,
                   operatorVars, robbed>>

\* runFanoutSweep's catch: finalizeRetry at any count, its error swallowed.
CatchThrown(k) ==
    /\ pc[k] = "thrown"
    /\ \/ SetJob("pending", CountUp) /\ due' = FALSE
       \/ UNCHANGED jobVars
    /\ Leave(k, "idle")
    /\ UNCHANGED <<scope, exclusion, corpus, lock, writerVars, batch,
                   operatorVars, robbed>>

\* The process dies; the database rolls its transaction back.
Crash(c) ==
    /\ pc[c] \notin {"idle", "created", "partial", "dead"}
    /\ Unlock(c)
    /\ batch' = [batch EXCEPT ![c] = {}]
    /\ Leave(c, IF c = Route THEN "dead" ELSE "idle")
    /\ UNCHANGED <<scope, exclusion, corpus, writerVars, jobVars, operatorVars,
                   robbed>>

-----------------------------------------------------------------------------
Writer(w) ==
    OpenWriter(w) \/ ResolveExclusions(w) \/ CommitCadence(w)
        \/ CommitRebuild(w) \/ AbortWriter(w)

Cleaner(c) ==
    SelectBatch(c) \/ DeleteBatch(c) \/ CheckExclusion(c) \/ FailCleanup(c)
        \/ Crash(c)

Worker(k) ==
    \/ ClaimPendingJob(k) \/ LoadExclusion(k) \/ TakeLock(k)
    \/ FinalizeCompleted(k) \/ RecordAudit(k) \/ FinalizeFailure(k)
    \/ ThrowFinalize(k) \/ CatchThrown(k)

Operator ==
    \/ AddCustomerExclusion \/ AddGlobalExclusion \/ DeleteExclusion \/ Recover
    \/ RecordDrainFailure \/ AnswerCreated

Next ==
    \/ \E w \in Writers : Writer(w)
    \/ \E c \in Cleaners : Cleaner(c)
    \/ \E k \in Workers : Worker(k)
    \/ Operator \/ SweepStuckJobs \/ BackoffPasses \/ Retention

Spec == Init /\ [][Next]_vars

Outage ==
    \/ \E c \in Cleaners : Crash(c) \/ FailCleanup(c)
    \/ \E k \in Workers :
        \/ ThrowFinalize(k)
        \/ RecordAudit(k) /\ pc'[k] = "thrown"
        \/ CatchThrown(k) /\ UNCHANGED jobVars

\* What a cleaner does next without waiting.  A worker in "wait" or "idle"
\* and the route before its POST have nothing of the kind.
Work(c) ==
    \/ SelectBatch(c) \/ DeleteBatch(c) \/ CheckExclusion(c)
    \/ c = Route /\ (RecordDrainFailure \/ AnswerCreated)
    \/ c \in Workers /\ (\/ LoadExclusion(c) \/ FinalizeCompleted(c)
                        \/ FinalizeFailure(c) \/ RecordAudit(c)
                        \/ CatchThrown(c))

\* The cron service keeps calling the sweep, a waiter gets the lock before
\* long, and outages, however many, come to an end.  Operators owe nothing.
FairSpec ==
    /\ Spec
    /\ <>[][~Outage]_vars
    /\ WF_vars(SweepStuckJobs) /\ WF_vars(BackoffPasses)
    /\ WF_vars(\E k \in Workers : ClaimPendingJob(k))
    /\ \A w \in Writers :
        WF_vars(ResolveExclusions(w) \/ CommitCadence(w) \/ CommitRebuild(w))
    /\ \A c \in Cleaners : WF_vars(Work(c))
    /\ \A k \in Workers : SF_vars(TakeLock(k))

-----------------------------------------------------------------------------
(* Properties.                                                             *)

\* Every variable has its type; who holds the lock has a transaction open.
TypeOK ==
    /\ scope \in {"global", "customer"}
    /\ exclusion \in {"absent", "present", "deleted"}
    /\ corpus \subseteq Rows
    /\ lock \in Writers \cup Cleaners \cup {Nobody}
    /\ writerPc \in [Writers -> {"idle", "open", "resolved"}]
    /\ sees \in [Writers -> BOOLEAN]
    /\ job \in {"none", "pending", "running", "completed", "failed"}
    /\ attempts \in 0..MaxCount /\ due \in BOOLEAN
    /\ pc \in [Cleaners -> {"idle", "claimed", "wait", "first", "delete",
                 "check", "drain", "finish", "moot", "audit", "failed",
                 "thrown", "created", "partial", "dead"}]
    /\ batch \in [Cleaners -> SUBSET Rows]
    /\ attemptCount \in [Cleaners -> 0..MaxCount]
    /\ drainAudited \in BOOLEAN /\ recovers \in 0..MaxRecovers
    /\ robbed \in BOOLEAN
    /\ \A w \in Writers : lock = w <=> writerPc[w] # "idle"
    /\ \A c \in Cleaners : lock = c => pc[c] \in {"first", "delete"}

\* While the exclusion stands, a completed job and a 201 answer mean that no
\* matching row is in the corpus, nor comes back: not from a page that read
\* the active exclusions before this one was added.  The exception is a batch
\* that lost rows to another drain, to a rebuild or to retention before its
\* DELETE came to them, see PartialBatchExhausts.
CompletedMeansClean ==
    exclusion = "present" /\ ~robbed
        /\ (job = "completed" \/ pc[Route] = "created")
        => corpus = {}

\* A global exclusion that stands is enforced on the whole corpus in the
\* end, unless its job failed and waits for an operator: through crashes,
\* errors and retries, and two workers at one job (with the same exception).
EnforcedOrFailed ==
    scope = "global" /\ exclusion = "present" ~>
        exclusion = "deleted" \/ job = "failed"
            \/ (job = "completed" /\ (corpus = {} \/ robbed))

\* retroactive-delete.ts:376: "A partial batch means the predicate is
\* exhausted."  A cleaner that stops has found no more rows.  It does not hold
\* of the code, of one drain beside a rebuild either: the configuration
\* MCExclusionCleanupOverlap refutes it.
PartialBatchExhausts ==
    exclusion = "present" /\ (\E c \in Cleaners : pc[c] = "finish")
        => corpus = {}

=============================================================================
