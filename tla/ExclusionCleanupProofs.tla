----------------------- MODULE ExclusionCleanupProofs -----------------------
(***************************************************************************)
(* CompletedMeansClean for any number of writers and workers, any corpus,  *)
(* batch size and cap of attempts.                                         *)
(*                                                                         *)
(* The argument.  Whoever cleans had the lock, or added the exclusion      *)
(* under it, while no writer held it; so a writer that has resolved since  *)
(* sees the exclusion (Fresh), and the corpus only shrinks.  A batch that  *)
(* is not full held all rows there were, so the DELETE leaves none, unless *)
(* another drain, a rebuild or retention took rows of a full batch first   *)
(* (robbed).                                                               *)
(***************************************************************************)
EXTENDS ExclusionCleanup, FiniteSetTheorems, TLAPS

\* The cleaner has had the lock and has not reached the job yet.
Cleaning(c) == pc[c] \in {"first", "delete", "check", "drain", "finish"}

Fresh == \A w \in Writers : writerPc[w] = "resolved" => sees[w]

\* Nothing happens before the exclusion is there.
BeforeInv ==
    exclusion = "absent" =>
        job = "none" /\ ~drainAudited /\ \A c \in Cleaners : pc[c] = "idle"

\* The POST route cleans up a customer's own exclusion only, and a job is
\* found moot only when the exclusion is gone.
RouteInv == pc[Route] # "idle" => scope = "customer"
MootInv == \A c \in Cleaners : pc[c] = "moot" => exclusion # "present"

FreshInv ==
    exclusion = "present"
        /\ (scope = "customer" \/ job = "completed"
              \/ \E c \in Cleaners : Cleaning(c))
        => Fresh

\* A batch that is not full holds every row.
BatchInv ==
    \A c \in Cleaners :
        exclusion = "present" /\ pc[c] = "delete"
            /\ Cardinality(batch[c]) < BatchSize
            => corpus \subseteq batch[c]

Done == job = "completed" \/ pc[Route] = "created"
            \/ \E c \in Cleaners : pc[c] = "finish"
CleanInv == exclusion = "present" /\ ~robbed /\ Done => corpus = {}

IInv ==
    /\ TypeOK /\ BeforeInv /\ RouteInv /\ MootInv
    /\ FreshInv /\ BatchInv /\ CleanInv

-----------------------------------------------------------------------------
(* Types.                                                                  *)

Labels == {"idle", "claimed", "wait", "first", "delete", "check", "drain",
           "finish", "moot", "audit", "failed", "thrown", "created",
           "partial", "dead"}
Outsiders == Writers \cup Cleaners \cup {Nobody}

Typed ==
    /\ scope \in {"global", "customer"}
    /\ exclusion \in {"absent", "present", "deleted"}
    /\ corpus \subseteq Rows
    /\ writerPc \in [Writers -> {"idle", "open", "resolved"}]
    /\ sees \in [Writers -> BOOLEAN]
    /\ job \in {"none", "pending", "running", "completed", "failed"}
    /\ attempts \in 0..MaxCount /\ due \in BOOLEAN
    /\ pc \in [Cleaners -> Labels]
    /\ batch \in [Cleaners -> SUBSET Rows]
    /\ attemptCount \in [Cleaners -> 0..MaxCount]
    /\ drainAudited \in BOOLEAN /\ recovers \in 0..MaxRecovers
    /\ robbed \in BOOLEAN

\* Who holds the lock has a transaction open.
LockInv ==
    /\ lock \in Outsiders
    /\ \A w \in Writers : lock = w <=> writerPc[w] # "idle"
    /\ \A c \in Cleaners : lock = c => pc[c] \in {"first", "delete"}

LEMMA TypeParts == TypeOK <=> Typed /\ LockInv
BY DEF TypeOK, Typed, LockInv, Labels, Outsiders

LEMMA Apart ==
    /\ \A w \in Writers : w \notin Cleaners /\ w # Nobody
    /\ \A c \in Cleaners : c # Nobody
    /\ Workers \subseteq Cleaners /\ Route \in Cleaners /\ Route \notin Workers
BY CleanupAssumption DEF Cleaners

LEMMA CountTyped ==
    ASSUME attempts \in 0..MaxCount
    PROVE  CountUp \in 0..MaxCount /\ MaxAttempts \in 0..MaxCount /\ 0 \in 0..MaxCount
BY CleanupAssumption DEF CountUp

LEMMA BatchesTyped == ASSUME corpus \subseteq Rows, NEW S \in Batches(corpus)
    PROVE S \in SUBSET Rows /\ S \subseteq corpus
BY DEF Batches

LEMMA CommittedTyped ==
    ASSUME Typed, LockInv, NEW w \in Writers, Committed(w),
           corpus' \subseteq Rows, batch' \in [Cleaners -> SUBSET Rows]
    PROVE  Typed' /\ LockInv'
<1>1. Typed'
  BY DEF Committed, Typed, jobVars, operatorVars
<1>2. LockInv'
  BY Apart DEF Committed, Unlock, Typed, LockInv, Outsiders
<1>3. QED
  BY <1>1, <1>2

LEMMA WriterTyped ==
    ASSUME Typed, LockInv, NEW w \in Writers, Writer(w)
    PROVE  Typed' /\ LockInv'
<1>1. CASE OpenWriter(w)
  <2>1. Typed'
    BY <1>1 DEF OpenWriter, Typed, jobVars, cleanerVars, operatorVars
  <2>2. LockInv'
    BY <1>1, Apart DEF OpenWriter, Typed, LockInv, Outsiders, cleanerVars
  <2>3. QED
    BY <2>1, <2>2
<1>2. CASE ResolveExclusions(w)
  <2>1. Typed'
    BY <1>2 DEF ResolveExclusions, Typed, jobVars, cleanerVars, operatorVars
  <2>2. LockInv'
    BY <1>2, Apart DEF ResolveExclusions, Typed, LockInv, Outsiders, cleanerVars
  <2>3. QED
    BY <2>1, <2>2
<1>3. CASE CommitCadence(w)
  <2>1. corpus' \subseteq Rows /\ batch' \in [Cleaners -> SUBSET Rows]
    BY <1>3 DEF CommitCadence, Put, Typed
  <2>2. QED
    BY <1>3, <2>1, CommittedTyped DEF CommitCadence
<1>4. CASE CommitRebuild(w)
  <2>1. PICK W \in SUBSET Rows : \E S \in SUBSET W : Put(w, corpus \ W, S)
    BY <1>4 DEF CommitRebuild
  <2>2. PICK S \in SUBSET W : Put(w, corpus \ W, S)
    BY <2>1
  <2>3. corpus' \subseteq Rows /\ batch' \in [Cleaners -> SUBSET Rows]
    BY <2>2 DEF Put, Typed
  <2>4. QED
    BY <1>4, <2>3, CommittedTyped DEF CommitRebuild
<1>5. CASE AbortWriter(w)
  <2>1. Typed'
    BY <1>5 DEF AbortWriter, Typed, jobVars, cleanerVars, operatorVars
  <2>2. LockInv'
    BY <1>5, Apart DEF AbortWriter, Unlock, Typed, LockInv, Outsiders, cleanerVars
  <2>3. QED
    BY <2>1, <2>2
<1>6. QED
  BY <1>1, <1>2, <1>3, <1>4, <1>5 DEF Writer

\* A step of one cleaner: what it writes has its type, and it lets the lock go
\* unless it deletes under it, or it takes it.
LEMMA OneCleaner ==
    ASSUME Typed, LockInv, NEW c \in Cleaners, NEW l \in Labels, Goto(c, l),
           UNCHANGED writerPc,
           \/ Unlock(c)
           \/ lock' = lock /\ (lock = c => l \in {"first", "delete"})
           \/ lock = Nobody /\ lock' = c /\ l \in {"first", "delete"}
    PROVE  LockInv' /\ pc' \in [Cleaners -> Labels]
<1>1. pc' = [pc EXCEPT ![c] = l] /\ pc \in [Cleaners -> Labels]
  BY DEF Goto, Typed
<1>2. pc' \in [Cleaners -> Labels]
  BY <1>1
<1>3. \A u \in Cleaners : pc'[u] = IF u = c THEN l ELSE pc[u]
  BY <1>1
<1>4. /\ lock' \in Outsiders
      /\ \A w \in Writers : lock' = w <=> lock = w
      /\ \A u \in Cleaners : lock' = u =>
            \/ u # c /\ lock = u
            \/ u = c /\ l \in {"first", "delete"}
  BY Apart DEF Unlock, LockInv, Outsiders
<1>5. \A w \in Writers : lock' = w <=> writerPc'[w] # "idle"
  BY <1>4 DEF LockInv
<1>6. \A u \in Cleaners : lock' = u => pc'[u] \in {"first", "delete"}
  BY <1>3, <1>4 DEF LockInv
<1>7. QED
  BY <1>2, <1>4, <1>5, <1>6 DEF LockInv, Outsiders

LEMMA CleanerTyped ==
    ASSUME Typed, LockInv, NEW c \in Cleaners, Cleaner(c)
    PROVE  Typed' /\ LockInv'
<1>1. CASE SelectBatch(c)
  <2>1. PICK l \in Labels : Goto(c, l) /\ UNCHANGED writerPc
          /\ (\/ Unlock(c)
              \/ lock' = lock /\ (lock = c => l \in {"first", "delete"})
              \/ lock = Nobody /\ lock' = c /\ l \in {"first", "delete"})
    BY <1>1, Apart DEF SelectBatch, LockInv, Labels, writerVars
  <2>2. LockInv' /\ pc' \in [Cleaners -> Labels]
    BY <2>1, OneCleaner
  <2>3. Typed'
    BY <1>1, <2>2, BatchesTyped DEF SelectBatch, Typed, writerVars, jobVars, operatorVars
  <2>4. QED
    BY <2>2, <2>3
<1>2. CASE DeleteBatch(c)
  <2>1. PICK l \in Labels : Goto(c, l) /\ UNCHANGED writerPc
          /\ (\/ Unlock(c)
              \/ lock' = lock /\ (lock = c => l \in {"first", "delete"})
              \/ lock = Nobody /\ lock' = c /\ l \in {"first", "delete"})
    BY <1>2, Apart DEF DeleteBatch, AfterBatch, LockInv, Labels, writerVars
  <2>2. LockInv' /\ pc' \in [Cleaners -> Labels]
    BY <2>1, OneCleaner
  <2>3. Typed'
    BY <1>2, <2>2 DEF DeleteBatch, Typed, writerVars, jobVars, operatorVars
  <2>4. QED
    BY <2>2, <2>3
<1>3. CASE CheckExclusion(c)
  <2>1. PICK l \in Labels : Goto(c, l) /\ UNCHANGED writerPc
          /\ (\/ Unlock(c)
              \/ lock' = lock /\ (lock = c => l \in {"first", "delete"})
              \/ lock = Nobody /\ lock' = c /\ l \in {"first", "delete"})
    BY <1>3, Apart DEF CheckExclusion, LockInv, Labels, writerVars
  <2>2. LockInv' /\ pc' \in [Cleaners -> Labels]
    BY <2>1, OneCleaner
  <2>3. Typed'
    BY <1>3, <2>2 DEF CheckExclusion, Typed, writerVars, jobVars, operatorVars
  <2>4. QED
    BY <2>2, <2>3
<1>4. CASE FailCleanup(c)
  <2>1. PICK l \in Labels : Goto(c, l) /\ UNCHANGED writerPc
          /\ (\/ Unlock(c)
              \/ lock' = lock /\ (lock = c => l \in {"first", "delete"})
              \/ lock = Nobody /\ lock' = c /\ l \in {"first", "delete"})
    BY <1>4, Apart DEF FailCleanup, LockInv, Labels, writerVars
  <2>2. LockInv' /\ pc' \in [Cleaners -> Labels]
    BY <2>1, OneCleaner
  <2>3. Typed'
    BY <1>4, <2>2 DEF FailCleanup, Typed, writerVars, jobVars, operatorVars
  <2>4. QED
    BY <2>2, <2>3
<1>5. CASE Crash(c)
  <2>1. PICK l \in Labels : Goto(c, l) /\ UNCHANGED writerPc
          /\ (\/ Unlock(c)
              \/ lock' = lock /\ (lock = c => l \in {"first", "delete"})
              \/ lock = Nobody /\ lock' = c /\ l \in {"first", "delete"})
    BY <1>5, Apart DEF Crash, Leave, LockInv, Labels, writerVars
  <2>2. LockInv' /\ pc' \in [Cleaners -> Labels]
    BY <2>1, OneCleaner
  <2>3. Typed'
    BY <1>5, <2>2, CountTyped DEF Crash, Leave, Typed, writerVars, jobVars, operatorVars
  <2>4. QED
    BY <2>2, <2>3
<1>6. QED
  BY <1>1, <1>2, <1>3, <1>4, <1>5 DEF Cleaner

LEMMA WorkerTyped ==
    ASSUME Typed, LockInv, NEW k \in Workers, Worker(k)
    PROVE  Typed' /\ LockInv'
<1>1. CASE ClaimPendingJob(k)
  <2>1. PICK l \in Labels : Goto(k, l) /\ UNCHANGED writerPc
          /\ (\/ Unlock(k)
              \/ lock' = lock /\ (lock = k => l \in {"first", "delete"})
              \/ lock = Nobody /\ lock' = k /\ l \in {"first", "delete"})
    BY <1>1, Apart DEF ClaimPendingJob, LockInv, Labels, writerVars
  <2>2. LockInv' /\ pc' \in [Cleaners -> Labels]
    BY <2>1, OneCleaner, Apart
  <2>3. Typed'
    BY <1>1, <2>2 DEF ClaimPendingJob, Typed, writerVars, jobVars, operatorVars
  <2>4. QED
    BY <2>2, <2>3
<1>2. CASE LoadExclusion(k)
  <2>1. PICK l \in Labels : Goto(k, l) /\ UNCHANGED writerPc
          /\ (\/ Unlock(k)
              \/ lock' = lock /\ (lock = k => l \in {"first", "delete"})
              \/ lock = Nobody /\ lock' = k /\ l \in {"first", "delete"})
    BY <1>2, Apart DEF LoadExclusion, LockInv, Labels, writerVars
  <2>2. LockInv' /\ pc' \in [Cleaners -> Labels]
    BY <2>1, OneCleaner, Apart
  <2>3. Typed'
    BY <1>2, <2>2 DEF LoadExclusion, Typed, writerVars, jobVars, operatorVars
  <2>4. QED
    BY <2>2, <2>3
<1>3. CASE TakeLock(k)
  <2>1. PICK l \in Labels : Goto(k, l) /\ UNCHANGED writerPc
          /\ (\/ Unlock(k)
              \/ lock' = lock /\ (lock = k => l \in {"first", "delete"})
              \/ lock = Nobody /\ lock' = k /\ l \in {"first", "delete"})
    BY <1>3, Apart DEF TakeLock, LockInv, Labels, writerVars
  <2>2. LockInv' /\ pc' \in [Cleaners -> Labels]
    BY <2>1, OneCleaner, Apart
  <2>3. Typed'
    BY <1>3, <2>2 DEF TakeLock, Typed, writerVars, jobVars, operatorVars
  <2>4. QED
    BY <2>2, <2>3
<1>4. CASE FinalizeCompleted(k)
  <2>1. PICK l \in Labels : Goto(k, l) /\ UNCHANGED writerPc
          /\ (\/ Unlock(k)
              \/ lock' = lock /\ (lock = k => l \in {"first", "delete"})
              \/ lock = Nobody /\ lock' = k /\ l \in {"first", "delete"})
    BY <1>4, Apart DEF FinalizeCompleted, Leave, LockInv, Labels, writerVars
  <2>2. LockInv' /\ pc' \in [Cleaners -> Labels]
    BY <2>1, OneCleaner, Apart
  <2>3. Typed'
    BY <1>4, <2>2, CountTyped DEF FinalizeCompleted, Leave, SetJob, Typed, writerVars, jobVars, operatorVars
  <2>4. QED
    BY <2>2, <2>3
<1>5. CASE RecordAudit(k)
  <2>1. PICK l \in Labels : Goto(k, l) /\ UNCHANGED writerPc
          /\ (\/ Unlock(k)
              \/ lock' = lock /\ (lock = k => l \in {"first", "delete"})
              \/ lock = Nobody /\ lock' = k /\ l \in {"first", "delete"})
    BY <1>5, Apart DEF RecordAudit, LockInv, Labels, writerVars
  <2>2. LockInv' /\ pc' \in [Cleaners -> Labels]
    BY <2>1, OneCleaner, Apart
  <2>3. Typed'
    BY <1>5, <2>2 DEF RecordAudit, Typed, writerVars, jobVars, operatorVars
  <2>4. QED
    BY <2>2, <2>3
<1>6. CASE FinalizeFailure(k)
  <2>1. PICK l \in Labels : Goto(k, l) /\ UNCHANGED writerPc
          /\ (\/ Unlock(k)
              \/ lock' = lock /\ (lock = k => l \in {"first", "delete"})
              \/ lock = Nobody /\ lock' = k /\ l \in {"first", "delete"})
    BY <1>6, Apart DEF FinalizeFailure, Leave, LockInv, Labels, writerVars
  <2>2. LockInv' /\ pc' \in [Cleaners -> Labels]
    BY <2>1, OneCleaner, Apart
  <2>3. Typed'
    BY <1>6, <2>2, CountTyped DEF FinalizeFailure, Leave, SetJob, Typed, writerVars, jobVars, operatorVars
  <2>4. QED
    BY <2>2, <2>3
<1>7. CASE ThrowFinalize(k)
  <2>1. PICK l \in Labels : Goto(k, l) /\ UNCHANGED writerPc
          /\ (\/ Unlock(k)
              \/ lock' = lock /\ (lock = k => l \in {"first", "delete"})
              \/ lock = Nobody /\ lock' = k /\ l \in {"first", "delete"})
    BY <1>7, Apart DEF ThrowFinalize, Leave, LockInv, Labels, writerVars
  <2>2. LockInv' /\ pc' \in [Cleaners -> Labels]
    BY <2>1, OneCleaner, Apart
  <2>3. Typed'
    BY <1>7, <2>2, CountTyped DEF ThrowFinalize, Leave, Typed, writerVars, jobVars, operatorVars
  <2>4. QED
    BY <2>2, <2>3
<1>8. CASE CatchThrown(k)
  <2>1. PICK l \in Labels : Goto(k, l) /\ UNCHANGED writerPc
          /\ (\/ Unlock(k)
              \/ lock' = lock /\ (lock = k => l \in {"first", "delete"})
              \/ lock = Nobody /\ lock' = k /\ l \in {"first", "delete"})
    BY <1>8, Apart DEF CatchThrown, Leave, LockInv, Labels, writerVars
  <2>2. LockInv' /\ pc' \in [Cleaners -> Labels]
    BY <2>1, OneCleaner, Apart
  <2>3. Typed'
    BY <1>8, <2>2, CountTyped DEF CatchThrown, Leave, SetJob, Typed, writerVars, jobVars, operatorVars
  <2>4. QED
    BY <2>2, <2>3
<1>9. QED
  BY <1>1, <1>2, <1>3, <1>4, <1>5, <1>6, <1>7, <1>8 DEF Worker

LEMMA OperatorTyped ==
    ASSUME Typed, LockInv, Operator
    PROVE  Typed' /\ LockInv'
<1>1. CASE AddCustomerExclusion
  <2>1. PICK l \in Labels : Goto(Route, l)
    BY <1>1 DEF AddCustomerExclusion, Labels
  <2>2. UNCHANGED <<lock, writerPc>> /\ lock = Nobody
    BY <1>1 DEF AddCustomerExclusion, writerVars
  <2>3. LockInv' /\ pc' \in [Cleaners -> Labels]
    BY <2>1, <2>2, OneCleaner, Apart
  <2>4. Typed'
    BY <1>1, <2>3 DEF AddCustomerExclusion, Typed, writerVars, jobVars, operatorVars
  <2>5. QED
    BY <2>3, <2>4
<1>2. CASE AddGlobalExclusion
  BY <1>2 DEF AddGlobalExclusion, Typed, LockInv, writerVars, cleanerVars, operatorVars
<1>3. CASE DeleteExclusion
  BY <1>3 DEF DeleteExclusion, Typed, LockInv, writerVars, cleanerVars, operatorVars
<1>4. CASE Recover
  <2>1. recovers' \in 0..MaxRecovers /\ attempts' \in 0..MaxCount
    BY <1>4, CountTyped, CleanupAssumption DEF Recover, Typed
  <2>2. /\ UNCHANGED <<scope, exclusion, corpus, lock, writerPc, sees, pc,
                       batch, attemptCount, robbed>>
        /\ job' = "pending" /\ due' \in BOOLEAN
    BY <1>4 DEF Recover, writerVars, cleanerVars
  <2>3. drainAudited' \in BOOLEAN
    BY <1>4 DEF Recover, Typed
  <2>4. Typed'
    BY <2>1, <2>2, <2>3 DEF Typed
  <2>5. LockInv'
    BY <2>2 DEF LockInv
  <2>6. QED
    BY <2>4, <2>5
<1>5. CASE RecordDrainFailure
  <2>1. Goto(Route, "partial") /\ UNCHANGED <<lock, writerPc>> /\ lock # Route
    BY <1>5, Apart DEF RecordDrainFailure, LockInv, writerVars
  <2>2. LockInv' /\ pc' \in [Cleaners -> Labels]
    BY <2>1, OneCleaner, Apart DEF Labels
  <2>3. Typed'
    BY <1>5, <2>2, CountTyped DEF RecordDrainFailure, Typed, writerVars
  <2>4. QED
    BY <2>2, <2>3
<1>6. CASE AnswerCreated
  <2>1. Goto(Route, "created") /\ UNCHANGED <<lock, writerPc>> /\ lock # Route
    BY <1>6, Apart DEF AnswerCreated, LockInv, writerVars
  <2>2. LockInv' /\ pc' \in [Cleaners -> Labels]
    BY <2>1, OneCleaner, Apart DEF Labels
  <2>3. Typed'
    BY <1>6, <2>2 DEF AnswerCreated, Typed, writerVars, jobVars, operatorVars
  <2>4. QED
    BY <2>2, <2>3
<1>7. QED
  BY <1>1, <1>2, <1>3, <1>4, <1>5, <1>6 DEF Operator

LEMMA StepTyped ==
    ASSUME TypeOK, [Next]_vars
    PROVE  TypeOK'
<1>1. Typed /\ LockInv
  BY TypeParts
<1>2. ASSUME NEW w \in Writers, Writer(w) PROVE Typed' /\ LockInv'
  BY <1>1, <1>2, WriterTyped
<1>3. ASSUME NEW c \in Cleaners, Cleaner(c) PROVE Typed' /\ LockInv'
  BY <1>1, <1>3, CleanerTyped
<1>4. ASSUME NEW k \in Workers, Worker(k) PROVE Typed' /\ LockInv'
  BY <1>1, <1>4, WorkerTyped
<1>5. ASSUME Operator PROVE Typed' /\ LockInv'
  BY <1>1, <1>5, OperatorTyped
<1>6. ASSUME SweepStuckJobs PROVE Typed' /\ LockInv'
  BY <1>1, <1>6 DEF SweepStuckJobs, Typed, LockInv, writerVars, cleanerVars, operatorVars
<1>7. ASSUME BackoffPasses PROVE Typed' /\ LockInv'
  BY <1>1, <1>7 DEF BackoffPasses, Typed, LockInv, writerVars, cleanerVars, operatorVars
<1>8. ASSUME UNCHANGED vars PROVE Typed' /\ LockInv'
  BY <1>1, <1>8 DEF Typed, LockInv, vars, writerVars, jobVars, cleanerVars, operatorVars
<1>9. ASSUME Retention PROVE Typed' /\ LockInv'
  BY <1>1, <1>9 DEF Retention, Typed, LockInv, writerVars, jobVars, cleanerVars, operatorVars
<1>10. Typed' /\ LockInv'
  BY <1>2, <1>3, <1>4, <1>5, <1>6, <1>7, <1>8, <1>9 DEF Next
<1>11. QED
  BY <1>10 DEF TypeOK, Typed, LockInv, Labels, Outsiders

LEMMA InitTyped == Init => TypeOK
<1> SUFFICES ASSUME Init PROVE TypeOK
  OBVIOUS
<1>1. 0 \in 0..MaxCount /\ 0 \in 0..MaxRecovers
  BY CleanupAssumption
<1>2. Typed
  BY <1>1 DEF Init, Typed, Labels
<1>3. LockInv
  BY Apart DEF Init, LockInv, Outsiders
<1>4. QED
  BY <1>2, <1>3, TypeParts

\* Every state of the cleanup is well typed, and at all times the holder of
\* the customer's advisory lock is the one whose transaction is open, whoever
\* fails, crashes or is overtaken (TypeOK).
THEOREM CleanupTyped == Spec => []TypeOK
<1>1. Init => TypeOK
  BY InitTyped
<1>2. TypeOK /\ [Next]_vars => TypeOK'
  BY StepTyped
<1>3. QED
  BY <1>1, <1>2, PTL DEF Spec

-----------------------------------------------------------------------------
(* The invariant.                                                          *)

Rest == BeforeInv /\ RouteInv /\ MootInv /\ FreshInv /\ BatchInv /\ CleanInv

LEMMA FullBatch ==
    ASSUME corpus \subseteq Rows, NEW S \in Batches(corpus),
           Cardinality(S) < BatchSize
    PROVE  S = corpus
<1>1. IsFiniteSet(corpus) /\ S \subseteq corpus
  BY FS_Subset, CleanupAssumption DEF Batches
<1>2. Cardinality(S) = Cardinality(corpus)
  BY CleanupAssumption DEF Batches
<1>3. QED
  BY <1>1, <1>2, FS_Subset

\* What a step of one cleaner has to keep for the invariant to survive it.
LEMMA CleanerStep ==
    ASSUME IInv, TypeOK', NEW c \in Cleaners, NEW l \in Labels, Goto(c, l),
           UNCHANGED <<scope, exclusion, writerPc, sees>>,
           exclusion # "absent", corpus' \subseteq corpus, robbed => robbed',
           \A u \in Cleaners : u # c => batch'[u] = batch[u],
           c = Route => scope = "customer",
           exclusion = "present"
             /\ l \in {"first", "delete", "check", "drain", "finish"} => Fresh,
           l = "moot" => exclusion # "present",
           job' = "completed" => job = "completed" \/ pc[c] \in {"finish", "moot"},
           l = "delete" /\ Cardinality(batch'[c]) < BatchSize
             => corpus' \subseteq batch'[c],
           exclusion = "present" /\ ~robbed' /\ l \in {"finish", "created"}
             => corpus' = {}
    PROVE  Rest'
<1>1. \A u \in Cleaners : pc'[u] = IF u = c THEN l ELSE pc[u]
  BY DEF IInv, TypeOK, Goto
<1>2. BeforeInv'
  BY DEF BeforeInv
<1>3. RouteInv'
  BY <1>1, Apart DEF RouteInv, IInv
<1>4. MootInv'
  BY <1>1 DEF MootInv, IInv
<1>5. FreshInv'
  <2>1. SUFFICES ASSUME exclusion = "present",
                        \/ scope = "customer" \/ job' = "completed"
                        \/ \E u \in Cleaners : Cleaning(u)'
                 PROVE  Fresh
    BY DEF FreshInv, Fresh
  <2>2. CASE scope = "customer"
    BY <2>1, <2>2 DEF IInv, FreshInv
  <2>3. CASE job' = "completed"
    BY <2>1, <2>3 DEF IInv, FreshInv, MootInv, Cleaning
  <2>4. CASE \E u \in Cleaners : Cleaning(u)'
    BY <2>1, <2>4, <1>1 DEF IInv, FreshInv, Cleaning
  <2>5. QED
    BY <2>1, <2>2, <2>3, <2>4
<1>6. BatchInv'
  BY <1>1 DEF BatchInv, IInv
<1>7. CleanInv'
  <2>1. SUFFICES ASSUME exclusion = "present", ~robbed', Done' PROVE corpus' = {}
    BY DEF CleanInv
  <2>2. CASE Done
    BY <2>1, <2>2 DEF IInv, CleanInv
  <2>3. CASE ~Done
    BY <2>1, <2>3, <1>1, Apart DEF IInv, MootInv, Done
  <2>4. QED
    BY <2>2, <2>3
<1>8. QED
  BY <1>2, <1>3, <1>4, <1>5, <1>6, <1>7 DEF Rest

\* A cleaner that has begun has an exclusion to clean up; the route's is the
\* customer's own; between the lock and the end no writer is behind.
LEMMA Begun ==
    ASSUME IInv, NEW c \in Cleaners, pc[c] # "idle"
    PROVE  /\ exclusion # "absent"
           /\ c = Route => scope = "customer"
           /\ exclusion = "present" /\ Cleaning(c) => Fresh
BY DEF IInv, BeforeInv, RouteInv, FreshInv

LEMMA OtherBatches ==
    ASSUME IInv, NEW c \in Cleaners, NEW S, batch' = [batch EXCEPT ![c] = S]
    PROVE  batch'[c] = S /\ \A u \in Cleaners : u # c => batch'[u] = batch[u]
BY DEF IInv, TypeOK

LEMMA CleanerInv ==
    ASSUME IInv, TypeOK', NEW c \in Cleaners, Cleaner(c)
    PROVE  Rest'
<1>1. CASE SelectBatch(c)
  <2>1. PICK S \in Batches(corpus) : batch' = [batch EXCEPT ![c] = S]
    BY <1>1 DEF SelectBatch
  <2>2. batch'[c] = S /\ \A u \in Cleaners : u # c => batch'[u] = batch[u]
    BY <2>1, OtherBatches
  <2>3. Cardinality(S) < BatchSize => corpus \subseteq S
    BY FullBatch DEF IInv, TypeOK
  <2>4. pc[c] # "idle" /\ Cleaning(c) /\ "delete" \in Labels
    BY <1>1 DEF SelectBatch, Cleaning, Labels
  <2>5. QED
    BY <1>1, <2>2, <2>3, <2>4, Begun, CleanerStep
       DEF SelectBatch, writerVars, jobVars
<1>2. CASE DeleteBatch(c)
  <2>1. \A u \in Cleaners : u # c => batch'[u] = batch[u]
    BY <1>2, OtherBatches DEF DeleteBatch
  <2>2. pc[c] # "idle" /\ Cleaning(c)
    BY <1>2 DEF DeleteBatch, Cleaning
  <2>3. ASSUME exclusion = "present", ~robbed', AfterBatch(c) = "finish"
        PROVE  corpus' = {}
    <3>1. batch[c] \subseteq corpus
      BY <1>2, <2>3 DEF DeleteBatch
    <3>2. batch[c] \cap corpus = batch[c]
      BY <3>1
    <3>3. IsFiniteSet(batch[c])
      BY FS_Subset, CleanupAssumption DEF IInv, TypeOK
    <3>4. Cardinality(batch[c]) \in Nat
      BY <3>3, FS_CardinalityType
    <3>5. Cardinality(batch[c]) < BatchSize
      BY <2>3, <3>2, <3>4, CleanupAssumption DEF AfterBatch
    <3>6. corpus \subseteq batch[c]
      BY <1>2, <2>3, <3>5 DEF IInv, BatchInv, DeleteBatch
    <3>7. QED
      BY <1>2, <3>6 DEF DeleteBatch
  <2>4. AfterBatch(c) \in {"check", "finish"} /\ AfterBatch(c) \in Labels
    BY DEF AfterBatch, Labels
  <2>5. QED
    BY <1>2, <2>1, <2>2, <2>3, <2>4, Begun, CleanerStep
       DEF DeleteBatch, writerVars, jobVars
<1>3. CASE CheckExclusion(c)
  <2>1. PICK l \in {"drain", "finish"} : Goto(c, l)
          /\ (l = "finish" => exclusion # "present")
    BY <1>3 DEF CheckExclusion
  <2>2. pc[c] # "idle" /\ Cleaning(c) /\ l \in Labels
    BY <1>3 DEF CheckExclusion, Cleaning, Labels
  <2>3. QED
    BY <1>3, <2>1, <2>2, Begun, CleanerStep DEF CheckExclusion, writerVars, jobVars
<1>4. CASE FailCleanup(c)
  <2>1. PICK l \in {"failed", "thrown"} : Goto(c, l)
    BY <1>4 DEF FailCleanup
  <2>2. pc[c] # "idle" /\ l \in Labels
    BY <1>4 DEF FailCleanup, Labels
  <2>3. QED
    BY <1>4, <2>1, <2>2, Begun, OtherBatches, CleanerStep
       DEF FailCleanup, writerVars, jobVars
<1>5. CASE Crash(c)
  <2>1. PICK l \in {"idle", "dead"} : Goto(c, l)
    BY <1>5 DEF Crash, Leave
  <2>2. pc[c] # "idle" /\ l \in Labels
    BY <1>5 DEF Crash, Leave, Labels
  <2>3. QED
    BY <1>5, <2>1, <2>2, Begun, OtherBatches, CleanerStep
       DEF Crash, Leave, writerVars, jobVars
<1>6. QED
  BY <1>1, <1>2, <1>3, <1>4, <1>5 DEF Cleaner

LEMMA SetJobKeeps ==
    ASSUME NEW status, NEW count, SetJob(status, count)
    PROVE  job' \in {job, status}
BY DEF SetJob

LEMMA WorkerInv ==
    ASSUME IInv, TypeOK', NEW k \in Workers, Worker(k)
    PROVE  Rest'
<1> k \in Cleaners /\ k # Route
  BY Apart
<1>1. CASE ClaimPendingJob(k)
  <2>1. exclusion # "absent" /\ "claimed" \in Labels
    BY <1>1 DEF ClaimPendingJob, IInv, BeforeInv, Labels
  <2>2. QED
    BY <1>1, <2>1, CleanerStep DEF ClaimPendingJob, writerVars
<1>2. CASE LoadExclusion(k)
  <2>1. PICK l \in {"wait", "moot"} : Goto(k, l)
          /\ (l = "moot" => exclusion # "present")
    BY <1>2 DEF LoadExclusion
  <2>2. pc[k] # "idle" /\ l \in Labels
    BY <1>2 DEF LoadExclusion, Labels
  <2>3. QED
    BY <1>2, <2>1, <2>2, Begun, CleanerStep DEF LoadExclusion, writerVars, jobVars
<1>3. CASE TakeLock(k)
  <2>1. PICK l \in {"first", "moot"} : Goto(k, l)
          /\ (l = "moot" => exclusion # "present")
    BY <1>3 DEF TakeLock
  <2>2. pc[k] # "idle" /\ l \in Labels
    BY <1>3 DEF TakeLock, Labels
  <2>3. Fresh
    BY <1>3, Apart DEF TakeLock, Fresh, IInv, TypeOK
  <2>4. QED
    BY <1>3, <2>1, <2>2, <2>3, Begun, CleanerStep DEF TakeLock, writerVars, jobVars
<1>4. CASE FinalizeCompleted(k)
  <2>1. PICK l \in {"audit", "idle"} : Goto(k, l)
    BY <1>4 DEF FinalizeCompleted, Leave
  <2>2. pc[k] \in {"finish", "moot"} /\ pc[k] # "idle" /\ l \in Labels
    BY <1>4 DEF FinalizeCompleted, Leave, Labels
  <2>3. QED
    BY <1>4, <2>1, <2>2, Begun, CleanerStep DEF FinalizeCompleted, Leave, writerVars
<1>5. CASE RecordAudit(k)
  <2>1. PICK l \in {"idle", "thrown"} : Goto(k, l)
    BY <1>5 DEF RecordAudit
  <2>2. pc[k] # "idle" /\ l \in Labels
    BY <1>5 DEF RecordAudit, Labels
  <2>3. QED
    BY <1>5, <2>1, <2>2, Begun, CleanerStep DEF RecordAudit, writerVars, jobVars
<1>6. CASE FinalizeFailure(k)
  <2>1. PICK l \in {"audit", "idle"} : Goto(k, l)
    BY <1>6 DEF FinalizeFailure, Leave
  <2>2. pc[k] # "idle" /\ l \in Labels
    BY <1>6 DEF FinalizeFailure, Leave, Labels
  <2>3. job' \in {job, "failed", "pending"}
    BY <1>6, SetJobKeeps DEF FinalizeFailure, Leave
  <2>4. QED
    BY <1>6, <2>1, <2>2, <2>3, Begun, CleanerStep DEF FinalizeFailure, Leave, writerVars
<1>7. CASE ThrowFinalize(k)
  <2>1. pc[k] # "idle" /\ "thrown" \in Labels
    BY <1>7 DEF ThrowFinalize, Leave, Labels
  <2>2. QED
    BY <1>7, <2>1, Begun, CleanerStep DEF ThrowFinalize, Leave, writerVars, jobVars
<1>8. CASE CatchThrown(k)
  <2>1. pc[k] # "idle" /\ "idle" \in Labels
    BY <1>8 DEF CatchThrown, Leave, Labels
  <2>2. job' \in {job, "pending"}
    BY <1>8, SetJobKeeps DEF CatchThrown, Leave, jobVars
  <2>3. QED
    BY <1>8, <2>1, <2>2, Begun, CleanerStep DEF CatchThrown, Leave, writerVars
<1>9. QED
  BY <1>1, <1>2, <1>3, <1>4, <1>5, <1>6, <1>7, <1>8 DEF Worker

LEMMA FreeLock ==
    ASSUME TypeOK, lock = Nobody
    PROVE  \A w \in Writers : writerPc[w] = "idle"
BY Apart DEF TypeOK

LEMMA WriterInv ==
    ASSUME IInv, NEW w \in Writers, Writer(w)
    PROVE  Rest'
<1>1. /\ UNCHANGED <<scope, exclusion, job, pc, drainAudited, robbed>>
      /\ exclusion = "present" /\ Fresh
           => Fresh' /\ corpus' \subseteq corpus /\ batch' = batch
  <2>1. /\ writerPc \in [Writers -> {"idle", "open", "resolved"}]
        /\ sees \in [Writers -> BOOLEAN]
        /\ batch \in [Cleaners -> SUBSET Rows]
    BY DEF IInv, TypeOK
  <2>2. CASE OpenWriter(w)
    BY <2>1, <2>2 DEF OpenWriter, Fresh, jobVars, cleanerVars, operatorVars
  <2>3. CASE ResolveExclusions(w)
    BY <2>1, <2>3 DEF ResolveExclusions, Fresh, jobVars, cleanerVars, operatorVars
  <2>4. ASSUME writerPc[w] = "resolved", Committed(w), NEW kept,
               kept \subseteq corpus, NEW S, Put(w, kept, S)
        PROVE  /\ UNCHANGED <<scope, exclusion, job, pc, drainAudited, robbed>>
               /\ Fresh => Fresh' /\ corpus' \subseteq corpus /\ batch' = batch
    <3>1. UNCHANGED <<scope, exclusion, job, pc, drainAudited, robbed>>
      BY <2>4 DEF Committed, jobVars, operatorVars
    <3>2. Fresh => Fresh'
      BY <2>1, <2>4 DEF Committed, Fresh
    <3>3. ASSUME Fresh PROVE corpus' = kept /\ batch' = [c \in Cleaners |-> batch[c]]
      BY <2>4, <3>3 DEF Fresh, Put
    <3>4. QED
      BY <2>1, <2>4, <3>1, <3>2, <3>3
  <2>5. CASE CommitCadence(w)
    BY <2>4, <2>5 DEF CommitCadence
  <2>6. CASE CommitRebuild(w)
    <3>1. PICK W \in SUBSET Rows : \E S \in SUBSET W : Put(w, corpus \ W, S)
      BY <2>6 DEF CommitRebuild
    <3>2. PICK S \in SUBSET W : Put(w, corpus \ W, S)
      BY <3>1
    <3>3. corpus \ W \subseteq corpus
      OBVIOUS
    <3>4. QED
      BY <2>4, <2>6, <3>2, <3>3 DEF CommitRebuild
  <2>7. CASE AbortWriter(w)
    BY <2>1, <2>7 DEF AbortWriter, Fresh, jobVars, cleanerVars, operatorVars
  <2>8. QED
    BY <2>2, <2>3, <2>5, <2>6, <2>7 DEF Writer
<1>2. BeforeInv' /\ RouteInv' /\ MootInv'
  BY <1>1 DEF IInv, BeforeInv, RouteInv, MootInv
<1>3. FreshInv'
  BY <1>1 DEF IInv, FreshInv, Cleaning
<1>4. \A c \in Cleaners : exclusion = "present" /\ pc[c] \in {"delete", "finish"}
        => Fresh
  BY DEF IInv, FreshInv, Cleaning
<1>5. BatchInv'
  BY <1>1, <1>4 DEF IInv, BatchInv
<1>6. exclusion = "present" /\ Done => Fresh
  BY <1>4 DEF IInv, Done, FreshInv, RouteInv
<1>7. CleanInv'
  BY <1>1, <1>6 DEF IInv, CleanInv, Done
<1>8. QED
  BY <1>2, <1>3, <1>5, <1>7 DEF Rest

LEMMA OperatorInv ==
    ASSUME IInv, TypeOK', Operator
    PROVE  Rest'
<1>1. CASE AddCustomerExclusion
  <2>1. PICK S \in Batches(corpus) : corpus' = corpus \ S
          /\ Goto(Route, IF Cardinality(S) >= BatchSize THEN "check" ELSE "finish")
    BY <1>1 DEF AddCustomerExclusion
  <2>2. \A u \in Cleaners : pc[u] = "idle" /\ pc'[u] = IF u = Route
          THEN IF Cardinality(S) >= BatchSize THEN "check" ELSE "finish"
          ELSE "idle"
    BY <1>1, <2>1 DEF AddCustomerExclusion, Goto, IInv, TypeOK, BeforeInv
  <2>3. job' = "none" /\ scope' = "customer" /\ exclusion' = "present"
    BY <1>1 DEF AddCustomerExclusion, IInv, BeforeInv, jobVars
  <2>4. Fresh'
    BY <1>1, FreeLock DEF AddCustomerExclusion, Fresh, writerVars, IInv
  <2>5. ~(Cardinality(S) >= BatchSize) => corpus' = {}
    <3>1. IsFiniteSet(S)
      BY BatchesTyped, FS_Subset, CleanupAssumption DEF IInv, TypeOK
    <3>2. Cardinality(S) \in Nat
      BY <3>1, FS_CardinalityType
    <3>3. ~(Cardinality(S) >= BatchSize) => S = corpus
      BY <3>2, FullBatch, CleanupAssumption DEF IInv, TypeOK
    <3>4. QED
      BY <2>1, <3>3
  <2>6. Done' => corpus' = {}
    BY <2>2, <2>3, <2>5, Apart DEF Done
  <2>7. QED
    BY <2>2, <2>3, <2>4, <2>6, Apart
       DEF Rest, BeforeInv, RouteInv, MootInv, FreshInv, BatchInv, CleanInv
<1>2. CASE AddGlobalExclusion
  <2>1. /\ scope' = "global" /\ exclusion' = "present" /\ job' = "pending"
        /\ \A u \in Cleaners : pc'[u] = "idle"
    BY <1>2 DEF AddGlobalExclusion, IInv, BeforeInv, cleanerVars
  <2>2. QED
    BY <2>1, Apart DEF Rest, BeforeInv, RouteInv, MootInv, FreshInv, BatchInv,
       CleanInv, Done, Cleaning
<1>3. CASE DeleteExclusion
  BY <1>3 DEF DeleteExclusion, IInv, Rest, BeforeInv, RouteInv, MootInv,
     FreshInv, BatchInv, CleanInv, cleanerVars
<1>4. CASE Recover
  <2>1. /\ UNCHANGED <<scope, exclusion, corpus, writerPc, sees, pc, batch, robbed>>
        /\ job' = "pending" /\ exclusion # "absent"
    BY <1>4 DEF Recover, IInv, BeforeInv, writerVars, cleanerVars
  <2>2. BeforeInv' /\ RouteInv' /\ MootInv'
    BY <2>1 DEF IInv, BeforeInv, RouteInv, MootInv
  <2>3. FreshInv' /\ BatchInv'
    BY <2>1 DEF IInv, FreshInv, BatchInv, Fresh, Cleaning
  <2>4. CleanInv'
    BY <2>1 DEF IInv, CleanInv, Done
  <2>5. QED
    BY <2>2, <2>3, <2>4 DEF Rest
<1>5. CASE RecordDrainFailure
  <2>1. pc[Route] # "idle" /\ Goto(Route, "partial") /\ "partial" \in Labels
    BY <1>5 DEF RecordDrainFailure, Labels
  <2>2. QED
    BY <1>5, <2>1, Apart, Begun, CleanerStep DEF RecordDrainFailure, writerVars
<1>6. CASE AnswerCreated
  <2>1. pc[Route] # "idle" /\ Goto(Route, "created") /\ "created" \in Labels
    BY <1>6 DEF AnswerCreated, Labels
  <2>2. exclusion = "present" /\ ~robbed => corpus = {}
    BY <1>6, Apart DEF AnswerCreated, IInv, CleanInv, Done
  <2>3. QED
    BY <1>6, <2>1, <2>2, Apart, Begun, CleanerStep
       DEF AnswerCreated, writerVars, jobVars
<1>7. QED
  BY <1>1, <1>2, <1>3, <1>4, <1>5, <1>6 DEF Operator

LEMMA StepInv ==
    ASSUME IInv, [Next]_vars
    PROVE  IInv'
<1>1. TypeOK'
  BY StepTyped DEF IInv
<1>2. ASSUME NEW w \in Writers, Writer(w) PROVE Rest'
  BY <1>2, WriterInv
<1>3. ASSUME NEW c \in Cleaners, Cleaner(c) PROVE Rest'
  BY <1>1, <1>3, CleanerInv
<1>4. ASSUME NEW k \in Workers, Worker(k) PROVE Rest'
  BY <1>1, <1>4, WorkerInv
<1>5. ASSUME Operator PROVE Rest'
  BY <1>1, <1>5, OperatorInv
<1>6. ASSUME UNCHANGED <<scope, exclusion, corpus, writerPc, sees, pc, batch,
                         drainAudited, robbed>>,
             job' = job \/ (job # "none" /\ job' = "pending")
      PROVE  Rest'
  <2>1. BeforeInv' /\ RouteInv' /\ MootInv'
    BY <1>6 DEF IInv, BeforeInv, RouteInv, MootInv
  <2>2. FreshInv' /\ BatchInv'
    BY <1>6 DEF IInv, FreshInv, BatchInv, Fresh, Cleaning
  <2>3. CleanInv'
    BY <1>6 DEF IInv, CleanInv, Done
  <2>4. QED
    BY <2>1, <2>2, <2>3 DEF Rest
<1>7. ASSUME SweepStuckJobs PROVE Rest'
  BY <1>6, <1>7 DEF SweepStuckJobs, writerVars, cleanerVars, operatorVars
<1>8. ASSUME BackoffPasses PROVE Rest'
  BY <1>6, <1>8 DEF BackoffPasses, writerVars, cleanerVars, operatorVars
<1>9. ASSUME UNCHANGED vars PROVE Rest'
  BY <1>6, <1>9 DEF vars, writerVars, jobVars, cleanerVars, operatorVars
<1>10. ASSUME Retention PROVE Rest'
  <2>1. /\ UNCHANGED <<scope, exclusion, writerPc, sees, job, pc, batch,
                       drainAudited, robbed>>
        /\ corpus' \subseteq corpus
    BY <1>10 DEF Retention, writerVars, jobVars, cleanerVars, operatorVars
  <2>2. BeforeInv' /\ RouteInv' /\ MootInv'
    BY <2>1 DEF IInv, BeforeInv, RouteInv, MootInv
  <2>3. FreshInv' /\ BatchInv'
    BY <2>1 DEF IInv, FreshInv, BatchInv, Fresh, Cleaning
  <2>4. CleanInv'
    BY <2>1 DEF IInv, CleanInv, Done
  <2>5. QED
    BY <2>2, <2>3, <2>4 DEF Rest
<1>11. Rest'
  BY <1>2, <1>3, <1>4, <1>5, <1>7, <1>8, <1>9, <1>10 DEF Next
<1>12. QED
  BY <1>1, <1>11 DEF IInv, Rest

LEMMA InitInv == Init => IInv
BY InitTyped, Apart DEF Init, IInv, BeforeInv, RouteInv, MootInv, FreshInv,
   BatchInv, CleanInv

\* While an exclusion stands, a completed job and a 201 answer mean that the
\* customer's corpus holds no row it matches and that no writer brings one
\* back, for any number of writers and overlapping workers, batches of any
\* size, rebuilds and retention beside the drain, failures and recoveries,
\* unless a DELETE found rows of its batch already taken by another drain, by
\* a rebuild or by retention (CompletedMeansClean).
THEOREM CleanupIsComplete == Spec => []CompletedMeansClean
<1>1. Init => IInv
  BY InitInv
<1>2. IInv /\ [Next]_vars => IInv'
  BY StepInv
<1>3. IInv => CompletedMeansClean
  BY DEF IInv, CleanInv, Done, CompletedMeansClean
<1>4. QED
  BY <1>1, <1>2, <1>3, PTL DEF Spec
=============================================================================
