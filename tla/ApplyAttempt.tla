---------------------------- MODULE ApplyAttempt ----------------------------
(***************************************************************************)
(* One row of the apply_attempts table and the server-side calls that      *)
(* drive it: creation, confirm, retry of one dispatch, the fan-out of the  *)
(* dispatches that follow the manager-DB stage, and the cleanup sweeps.    *)
(*                                                                         *)
(* Every SQL statement of the code is one step, and so is every call to an *)
(* upstream service (its start and its return are two steps), so calls     *)
(* interleave between a SELECT and the UPDATE that relies on it.  A call   *)
(* may crash between any two of its steps.                                 *)
(*                                                                         *)
(* Time is abstract: row.overdue says that NOW() > expires_at, and a claim *)
(* that is still held may be found stale by any sweep.                     *)
(***************************************************************************)
EXTENDS Naturals

CONSTANTS
    Confirmers,   \* server-side runs of confirmApplyAttempt
    Retriers,     \* server-side runs of retryDispatch
    External,     \* the external services of the plan
    MaxAttempts,  \* APPLY_DISPATCH_MAX_ATTEMPTS
    NoCall        \* a NULL executing_lock or lockToken

Calls == Confirmers \cup Retriers

ASSUME CallsAssumption == NoCall \notin Calls /\ Confirmers \cap Retriers = {}
ASSUME CapAssumption == MaxAttempts \in Nat \ {0}

DB == "MANAGER_DB"
NOTIFY == "MANAGER_NOTIFY"

ASSUME ExternalAssumption == {DB, NOTIFY} \cap External = {}

Dispatches == {DB, NOTIFY} \cup External

DispatchState == {"queued", "in_flight", "succeeded", "failed_retryable",
                  "failed_terminal"}
TerminalStatus == {"succeeded", "failed_terminal", "stale", "expired"}
\* "none" is a row not yet inserted, "gone" a deleted one.
Status == TerminalStatus \cup {"none", "pending", "executing",
                               "failed_retryable", "gone"}

PlannedDispatch == [state: DispatchState, attemptCount: Nat,
                    lockToken: Calls \cup {NoCall}]

VARIABLES
    row,     \* the database row
    pc,      \* where each call stands
    target,  \* the dispatch a retry is for
    src,     \* the status a call last read
    img,     \* the planned_dispatches a call last read or wrote
    task,    \* task[p][d]: how far call p is with running dispatch d
    calls,   \* calls[d]: upstream requests issued for d (history)
    landed   \* the dispatches whose upstream effect took place (history)

vars == <<row, pc, target, src, img, task, calls, landed>>
local == <<target, src, img>>

-----------------------------------------------------------------------------
(* Operations on planned_dispatches.                                       *)

Dispatch(state, attemptCount, lockToken) ==
    [state |-> state, attemptCount |-> attemptCount, lockToken |-> lockToken]

Queued == Dispatch("queued", 0, NoCall)
Plan == [d \in Dispatches |-> Queued]

States(disp) == {disp[d].state : d \in Dispatches}

SetState(disp, d, s) == [disp EXCEPT ![d].state = s]

\* Every dispatch in one of the states `from' goes to state `to'.
Flip(disp, from, to) ==
    [d \in Dispatches |-> IF disp[d].state \in from
                          THEN [disp[d] EXCEPT !.state = to]
                          ELSE disp[d]]

Strip(disp) == [d \in Dispatches |-> [disp[d] EXCEPT !.lockToken = NoCall]]

\* Fault: a claim is not counted.
PromoteUncounted(disp, d) ==
    [disp EXCEPT ![d] =
        Dispatch("in_flight", disp[d].attemptCount, disp[d].lockToken)]

\* A claim promotes one dispatch: confirm the first of the plan, which is
\* MANAGER_DB, and retry its target.
Promote(disp, d) ==
    [disp EXCEPT ![d] =
        Dispatch("in_flight", disp[d].attemptCount + 1, disp[d].lockToken)]

\* Fault: the tokens are not written.
FanOutWithoutTokens(disp, p) ==
    [d \in Dispatches |->
        IF d = DB THEN [disp[d] EXCEPT !.state = "succeeded"]
        ELSE IF disp[d].state = "queued" THEN Promote(disp, d)[d]
        ELSE disp[d]]

FanOut(disp, p) ==
    [d \in Dispatches |->
        IF d = DB THEN [disp[d] EXCEPT !.state = "succeeded"]
        ELSE IF disp[d].state = "queued"
        THEN Dispatch("in_flight", disp[d].attemptCount + 1, p)
        ELSE disp[d]]

\* Fault: dispatches that failed for good are overlooked.
AggregateOverlooking(disp) ==
    IF "failed_retryable" \in States(disp) THEN "failed_retryable"
    ELSE "succeeded"

\* Fault: any failure leaves the row retryable.
AggregateLenient(disp) ==
    IF {"failed_retryable", "failed_terminal"} \cap States(disp) # {}
    THEN "failed_retryable"
    ELSE "succeeded"

Aggregate(disp) ==
    IF "failed_retryable" \in States(disp) THEN "failed_retryable"
    ELSE IF "failed_terminal" \in States(disp) THEN "failed_terminal"
    ELSE "succeeded"

-----------------------------------------------------------------------------
(* Row rewrites shared by the UPDATE statements.                           *)

NewRow(status) ==
    [status |-> status, lock |-> NoCall, overdue |-> FALSE, disp |-> Plan]

\* Terminal statuses move expires_at to the retention horizon; a soft
\* failure keeps the deadline.
Settle(r, status, disp) ==
    [status |-> status, lock |-> NoCall, disp |-> disp,
     overdue |-> status = "failed_retryable" /\ r.overdue]

Expirable(r) ==
    /\ r.lock = NoCall
    /\ r.status \in {"pending", "failed_retryable"}
    /\ r.overdue

Terminalise(r) ==
    IF r.status = "pending"
    THEN Settle(r, "expired", r.disp)
    ELSE Settle(r, "failed_terminal",
                Flip(r.disp, {"failed_retryable", "queued"}, "failed_terminal"))

\* Fault: a stale claim is handed back for a retry.
RecoverStaleLockForRetry(r) ==
    IF r.lock = NoCall THEN r
    ELSE Settle(r, "failed_retryable",
                Strip(Flip(r.disp, {"in_flight"}, "failed_retryable")))

\* The four row-state sweeps of one cleanup transaction, in their order.
RecoverStaleLock(r) ==
    IF r.lock = NoCall THEN r
    ELSE Settle(r, "failed_terminal",
                Strip(Flip(r.disp, {"in_flight", "queued", "failed_retryable"},
                           "failed_terminal")))

\* Fault: the recovery does not look at the dispatch's own claim.
RecoverAllDispatchClaims(r) ==
    IF r.status = "executing" /\ r.lock = NoCall
    THEN [r EXCEPT !.disp = Strip(Flip(r.disp, DispatchState,
                                       "failed_terminal"))]
    ELSE r

\* The claims of one fan-out carry one timestamp, so they age together.
RecoverStaleDispatchClaims(r) ==
    IF r.status = "executing" /\ r.lock = NoCall
    THEN [r EXCEPT !.disp =
            [d \in Dispatches |->
                IF /\ r.disp[d].state = "in_flight"
                   /\ r.disp[d].lockToken # NoCall
                THEN Dispatch("failed_terminal", r.disp[d].attemptCount, NoCall)
                ELSE r.disp[d]]]
    ELSE r

\* Fault: rows abandoned after the fan-out are not finalised.
FinaliseNothing(r) == r

FinaliseAbandoned(r) ==
    IF /\ r.status = "executing"
       /\ r.lock = NoCall
       /\ "in_flight" \notin States(r.disp)
    THEN Settle(r, Aggregate(r.disp), r.disp)
    ELSE r

TerminaliseExpired(r) == IF Expirable(r) THEN Terminalise(r) ELSE r

CleanedUp(r, aged) ==
    TerminaliseExpired(FinaliseAbandoned(
        IF aged THEN RecoverStaleDispatchClaims(RecoverStaleLock(r)) ELSE r))

-----------------------------------------------------------------------------
NoTasks == [d \in Dispatches |-> "none"]

Init ==
    /\ row = NewRow("none")
    /\ pc = [p \in Calls |-> "idle"]
    /\ target = [p \in Calls |-> DB]
    /\ src = [p \in Calls |-> "none"]
    /\ img = [p \in Calls |-> Plan]
    /\ task = [p \in Calls |-> NoTasks]
    /\ calls = [d \in Dispatches |-> 0]
    /\ landed = {}

\* Call p is over: it answers its caller, or throws.
Ends(p) ==
    /\ pc' = [pc EXCEPT ![p] = "idle"]
    /\ target' = [target EXCEPT ![p] = DB]
    /\ src' = [src EXCEPT ![p] = "none"]
    /\ img' = [img EXCEPT ![p] = Plan]
    /\ task' = [task EXCEPT ![p] = NoTasks]

Goes(p, where) == pc' = [pc EXCEPT ![p] = where]

CreateApplyAttempt ==
    /\ row.status = "none"
    /\ row' = NewRow("pending")
    /\ UNCHANGED <<pc, local, task, calls, landed>>

-----------------------------------------------------------------------------
(* Confirm and retry up to the claim.                                      *)

Claimable(p) == IF p \in Confirmers THEN "pending" ELSE "failed_retryable"

\* Step 2b: a retry goes on only if the dispatch it read may be retried.
MayClaim(p, status, disp, d) ==
    /\ status = Claimable(p)
    /\ p \in Retriers => /\ disp[d].state = "failed_retryable"
                         /\ disp[d].attemptCount < MaxAttempts

\* Steps 1 and 2.  Step 2a goes by the host clock, which may disagree with
\* the database's either way.  A confirm that reads failed_retryable always
\* asks the database whether the row expired.
ReadRow(p) ==
    /\ pc[p] = "idle"
    /\ row.status \notin {"none", "gone"}
    /\ \E d \in IF p \in Retriers THEN Dispatches ELSE {DB} :
        \/ /\ row.status \in {"pending", "failed_retryable"}
           /\ row.lock = NoCall
           /\ Goes(p, "expiry")
           /\ target' = [target EXCEPT ![p] = d]
           /\ src' = [src EXCEPT ![p] = row.status]
           /\ img' = [img EXCEPT ![p] = row.disp]
        \/ /\ MayClaim(p, row.status, row.disp, d)
           /\ Goes(p, "select")
           /\ target' = [target EXCEPT ![p] = d]
           /\ UNCHANGED <<src, img>>
    /\ UNCHANGED <<row, task, calls, landed>>

\* terminaliseExpiredAttempt with the status that was read, in step 2a or
\* for a lost claim.
TerminaliseExpiredAttempt(p) ==
    /\ pc[p] \in {"expiry", "lost_expiry"}
    /\ UNCHANGED <<calls, landed>>
    /\ \/ /\ Expirable(row) /\ row.status = src[p]
          /\ row' = Terminalise(row)
          /\ Ends(p)
       \/ /\ ~(Expirable(row) /\ row.status = src[p])
          /\ UNCHANGED row
          /\ IF pc[p] = "expiry" /\ MayClaim(p, src[p], img[p], target[p])
             THEN Goes(p, "select") /\ UNCHANGED <<local, task>>
             ELSE Ends(p)

\* The SELECT of tryClaim, which also fixes the planned_dispatches the
\* UPDATE is going to write.
ClaimSelect(p) ==
    /\ pc[p] = "select"
    /\ IF /\ row.lock = NoCall
          /\ row.status = Claimable(p)
          /\ p \in Retriers => row.disp[target[p]].state = "failed_retryable"
       THEN Goes(p, "claim") /\ img' = [img EXCEPT ![p] = row.disp]
       ELSE Goes(p, "lost") /\ UNCHANGED img
    /\ UNCHANGED <<row, target, src, task, calls, landed>>

\* Fault: the UPDATE relies on the SELECT.
ClaimWhereUnguarded(p) == ~row.overdue

\* The WHERE of tryClaim's UPDATE.
ClaimWhere(p) ==
    /\ row.lock = NoCall
    /\ row.status = Claimable(p)
    /\ ~row.overdue
    /\ p \in Retriers => row.disp[target[p]].state = "failed_retryable"

\* The UPDATE of tryClaim: its WHERE sees the row as it is now, the value
\* it writes was computed from the SELECT.
ClaimUpdate(p) ==
    /\ pc[p] = "claim"
    /\ LET claimed == Promote(img[p], target[p])
       IN  IF ClaimWhere(p)
           THEN /\ row' = [row EXCEPT !.status = "executing", !.lock = p,
                                      !.disp = claimed]
                /\ img' = [img EXCEPT ![p] = claimed]
                /\ Goes(p, IF target[p] = DB THEN "db" ELSE "retry")
                /\ task' = [task EXCEPT ![p][target[p]] = "ready"]
           ELSE Goes(p, "lost") /\ UNCHANGED <<row, img, task>>
    /\ UNCHANGED <<target, src, calls, landed>>

\* resolveLostClaim.
ResolveLostClaim(p) ==
    /\ pc[p] = "lost"
    /\ IF row.lock = NoCall /\ row.status \in {"pending", "failed_retryable"}
       THEN /\ Goes(p, "lost_expiry")
            /\ src' = [src EXCEPT ![p] = row.status]
            /\ UNCHANGED <<target, img, task>>
       ELSE Ends(p)
    /\ UNCHANGED <<row, calls, landed>>

-----------------------------------------------------------------------------
(* Running a dispatch upstream.                                            *)

\* The request goes out.  For MANAGER_DB the draft was read and its
\* fingerprint matched.
StartDispatch(p, d) ==
    /\ task[p][d] = "ready"
    /\ task' = [task EXCEPT ![p][d] = "calling"]
    /\ calls' = [calls EXCEPT ![d] = @ + 1]
    /\ UNCHANGED <<row, pc, local, landed>>

\* A read or a scope check that precedes the request fails.
FailBeforeDispatch(p, d) ==
    /\ task[p][d] = "ready"
    /\ task' = [task EXCEPT ![p][d] = "soft"]
    /\ UNCHANGED <<row, pc, local, calls, landed>>

\* Fault: an error is swallowed.
DispatchReturnsAlways(p, d) ==
    /\ task[p][d] = "calling"
    /\ task' = [task EXCEPT ![p][d] = "ok"]
    /\ landed' \in {landed, landed \cup {d}}
    /\ UNCHANGED <<row, pc, local, calls>>

\* The request returns: it succeeded; or it failed, or its answer was lost,
\* and then its effect may or may not have taken place; or the manager
\* rejected a notification for good (empty hostname).
DispatchReturns(p, d) ==
    /\ task[p][d] = "calling"
    /\ \/ /\ task' = [task EXCEPT ![p][d] = "ok"]
          /\ landed' = landed \cup {d}
       \/ /\ task' = [task EXCEPT ![p][d] = "soft"]
          /\ landed' \in {landed, landed \cup {d}}
       \/ /\ d = NOTIFY
          /\ task' = [task EXCEPT ![p][d] = "hard"]
          /\ UNCHANGED landed
    /\ UNCHANGED <<row, pc, local, calls>>

\* Steps 5b and 5c: the draft drifted, so the plan is stale.
DraftDrifted(p) ==
    /\ pc[p] = "db"
    /\ task[p][DB] = "ready"
    /\ Goes(p, "stale")
    /\ task' = [task EXCEPT ![p] = NoTasks]
    /\ UNCHANGED <<row, local, calls, landed>>

\* Fault: the status of a row is written as the state of a dispatch.
ResultAsStatus(p, d) == IF task[p][d] = "ok" THEN "succeeded" ELSE "stale"

Result(p, d) ==
    IF task[p][d] = "ok" THEN "succeeded"
    ELSE IF task[p][d] = "hard" \/ img[p][d].attemptCount >= MaxAttempts
    THEN "failed_terminal"
    ELSE "failed_retryable"

Returned == {"ok", "soft", "hard"}

-----------------------------------------------------------------------------
(* Commits under the row lock.  A guarded UPDATE that matches no row means *)
(* that the claim was lost; the call ends without a further effect.        *)

WriteStaleAndClear(p) ==
    /\ pc[p] = "stale"
    /\ row' = IF row.lock = p THEN Settle(row, "stale", row.disp) ELSE row
    /\ Ends(p)
    /\ UNCHANGED <<calls, landed>>

CommitDbFailure(p) ==
    /\ pc[p] = "db"
    /\ task[p][DB] = "soft"
    /\ LET result == Result(p, DB)
           failed == SetState(img[p], DB, result)
       IN  row' = IF row.lock # p THEN row
                  ELSE IF result = "failed_retryable"
                  THEN Settle(row, result, failed)
                  ELSE Settle(row, result, Flip(failed, {"queued"}, result))
    /\ Ends(p)
    /\ UNCHANGED <<calls, landed>>

\* commitDbSuccessAndFanOut: one UPDATE gives up the row lock and claims
\* every queued dispatch for p.  A plan always holds MANAGER_NOTIFY, so some
\* dispatch is queued.
CommitDbSuccessAndFanOut(p) ==
    /\ pc[p] = "db"
    /\ task[p][DB] = "ok"
    /\ IF row.lock = p
       THEN LET disp == FanOut(img[p], p)
            IN  /\ row' = [row EXCEPT !.lock = NoCall, !.disp = disp]
                /\ img' = [img EXCEPT ![p] = disp]
                /\ task' = [task EXCEPT ![p] =
                      [d \in Dispatches |->
                          IF disp[d].state = "in_flight" THEN "ready"
                          ELSE "none"]]
                /\ Goes(p, "fan")
                /\ UNCHANGED <<target, src>>
       ELSE UNCHANGED row /\ Ends(p)
    /\ UNCHANGED <<calls, landed>>

\* commitDispatchSuccessAndAdvance and commitDispatchFailureAndAdvance; see
\* RetryFindsNothingQueued for the branch that would advance.
CommitRetry(p) ==
    /\ pc[p] = "retry"
    /\ task[p][target[p]] \in Returned
    /\ LET disp == SetState(img[p], target[p], Result(p, target[p]))
       IN  row' = IF row.lock = p THEN Settle(row, Aggregate(disp), disp)
                  ELSE row
    /\ Ends(p)
    /\ UNCHANGED <<calls, landed>>

-----------------------------------------------------------------------------
(* Commits of the fan-out, each under its own token.                       *)

\* Fault: the UPDATE goes by the dispatch, not by its token.
CommitOneWithoutToken(p, d) ==
    /\ pc[p] = "fan"
    /\ task[p][d] \in Returned
    /\ row' = [row EXCEPT !.disp[d] =
                  Dispatch(Result(p, d), @.attemptCount, NoCall)]
    /\ task' = [task EXCEPT ![p][d] = "none"]
    /\ UNCHANGED <<pc, local, calls, landed>>

CommitOneDispatchResult(p, d) ==
    /\ pc[p] = "fan"
    /\ task[p][d] \in Returned
    /\ row' = IF row.disp[d].lockToken = p
              THEN [row EXCEPT !.disp[d] =
                      Dispatch(Result(p, d), @.attemptCount, NoCall)]
              ELSE row
    /\ task' = [task EXCEPT ![p][d] = "none"]
    /\ UNCHANGED <<pc, local, calls, landed>>

\* finaliseRowFromPostDb, once every task of the fan-out is over: the read,
FinaliseRead(p) ==
    /\ pc[p] = "fan"
    /\ task[p] = NoTasks
    /\ IF row.status = "executing" /\ "in_flight" \notin States(row.disp)
       THEN /\ Goes(p, "finalise")
            /\ img' = [img EXCEPT ![p] = row.disp]
            /\ UNCHANGED <<target, src, task>>
       ELSE Ends(p)
    /\ UNCHANGED <<row, calls, landed>>

\* and the UPDATE.
FinaliseWrite(p) ==
    /\ pc[p] = "finalise"
    /\ row' = IF row.status = "executing" /\ row.lock = NoCall
              THEN Settle(row, Aggregate(img[p]), Strip(img[p]))
              ELSE row
    /\ Ends(p)
    /\ UNCHANGED <<calls, landed>>

-----------------------------------------------------------------------------
(* The surroundings.                                                       *)

\* The server dies under call p; requests in the air may still take effect.
Crash(p) ==
    /\ pc[p] # "idle"
    /\ \E some \in SUBSET {d \in Dispatches : task[p][d] = "calling"} :
          landed' = landed \cup some
    /\ Ends(p)
    /\ UNCHANGED <<row, calls>>

\* expires_at passes.
DeadlinePasses ==
    /\ row.status \notin {"none", "gone"}
    /\ ~row.overdue
    /\ row' = [row EXCEPT !.overdue = TRUE]
    /\ UNCHANGED <<pc, local, task, calls, landed>>

\* The first transaction of runApplyAttemptCleanup.
Cleanup ==
    /\ \E aged \in BOOLEAN : row' = CleanedUp(row, aged)
    /\ row' # row
    /\ UNCHANGED <<pc, local, task, calls, landed>>

\* The second one, purgeRetained.  A succeeded row waits for its audit,
\* which module ApplyAudit models.
PurgeRetained ==
    /\ row.status \in TerminalStatus
    /\ row.overdue
    /\ row' = NewRow("gone")
    /\ UNCHANGED <<pc, local, task, calls, landed>>

\* The trigger on accounts, when the account that made the attempt is
\* deleted.  A succeeded row stays if its audit is not completed.
AccountDeleted ==
    /\ row.status \notin {"none", "gone"}
    /\ row' = NewRow("gone")
    /\ UNCHANGED <<pc, local, task, calls, landed>>

Advance(p) ==
    \/ TerminaliseExpiredAttempt(p)
    \/ ClaimSelect(p)
    \/ ClaimUpdate(p)
    \/ ResolveLostClaim(p)
    \/ \E d \in Dispatches : \/ StartDispatch(p, d)
                             \/ FailBeforeDispatch(p, d)
                             \/ DispatchReturns(p, d)
                             \/ CommitOneDispatchResult(p, d)
    \/ DraftDrifted(p)
    \/ WriteStaleAndClear(p)
    \/ CommitDbFailure(p)
    \/ CommitDbSuccessAndFanOut(p)
    \/ CommitRetry(p)
    \/ FinaliseRead(p)
    \/ FinaliseWrite(p)

Next ==
    \/ CreateApplyAttempt
    \/ \E p \in Calls : ReadRow(p) \/ Advance(p) \/ Crash(p)
    \/ DeadlinePasses
    \/ Cleanup
    \/ PurgeRetained
    \/ AccountDeleted

Spec == Init /\ [][Next]_vars

\* The database clock advances and the cleanup endpoint is called again and
\* again.  Nothing is assumed of the calls: each may crash or hang.
FairSpec == Spec /\ WF_vars(DeadlinePasses) /\ WF_vars(Cleanup)
-----------------------------------------------------------------------------
(* Properties.                                                             *)

Where == {"idle", "expiry", "select", "claim", "lost", "lost_expiry", "db",
          "stale", "retry", "fan", "finalise"}
TaskState == Returned \cup {"none", "ready", "calling"}

InFlight(disp) == {d \in Dispatches : disp[d].state = "in_flight"}
Tokens(disp) == {d \in Dispatches : disp[d].lockToken # NoCall}

\* The type invariant.
TypeOK ==
    /\ row \in [status: Status, lock: Calls \cup {NoCall}, overdue: BOOLEAN,
                disp: [Dispatches -> PlannedDispatch]]
    /\ pc \in [Calls -> Where]
    /\ target \in [Calls -> Dispatches]
    /\ src \in [Calls -> Status]
    /\ img \in [Calls -> [Dispatches -> PlannedDispatch]]
    /\ task \in [Calls -> [Dispatches -> TaskState]]
    /\ calls \in [Dispatches -> Nat]
    /\ landed \subseteq Dispatches

\* The two-state claim of commitDbSuccessAndFanOut: an executing row is held
\* either by the row lock, with one dispatch in flight, or by one token per
\* dispatch in flight after MANAGER_DB succeeded, "never both, never
\* neither"; a row that is not executing is held by nobody.
ClaimDiscipline ==
    /\ row.lock # NoCall =>
          /\ row.status = "executing"
          /\ Tokens(row.disp) = {}
          /\ \E d \in Dispatches : InFlight(row.disp) = {d}
    /\ row.lock = NoCall /\ row.status = "executing" =>
          /\ row.disp[DB].state = "succeeded"
          /\ Tokens(row.disp) = InFlight(row.disp)
          /\ "queued" \notin States(row.disp)
    /\ row.status # "executing" => Tokens(row.disp) = {}

\* No two upstream requests for one dispatch are ever unanswered together:
\* two confirms, a retry racing the sweep, or an executor that outlived its
\* claim never drive the same dispatch twice at a time.
OneRequestPerDispatch ==
    \A d \in Dispatches : \A p, q \in Calls :
        task[p][d] = "calling" /\ task[q][d] = "calling" => p = q

\* Whatever crashes and retries, a dispatch costs at most
\* APPLY_DISPATCH_MAX_ATTEMPTS upstream requests.
RequestsWithinCap == \A d \in Dispatches : calls[d] <= MaxAttempts

\* Agents are notified and external services reconfigured only after the
\* manager database took the draft.
NothingBeforeManagerDb ==
    \A d \in Dispatches \ {DB} :
        calls[d] > 0 => DB \in landed

\* An attempt reported succeeded took effect everywhere: no lost answer,
\* lost claim or abandoned dispatch is ever aggregated into success.
SucceededEverywhere == row.status = "succeeded" => landed = Dispatches

\* What the row says and what its dispatches say agree, whichever dispatch
\* settled last and whoever died before it.  A softly failed attempt can be
\* acted on: it is unclaimed, nothing on it is in flight, some dispatch may be
\* retried, and if the manager DB stage is over nothing waits in the queue,
\* which no retry runs.  A row that succeeded or failed for good holds only
\* settled dispatches; one that expired never ran any.
StatusAgrees ==
    /\ row.status = "failed_retryable" =>
        /\ row.lock = NoCall
        /\ "in_flight" \notin States(row.disp)
        /\ \E d \in Dispatches :
              /\ row.disp[d].state = "failed_retryable"
              /\ row.disp[d].attemptCount < MaxAttempts
        /\ row.disp[DB].state = "succeeded" => "queued" \notin States(row.disp)
    /\ row.status \in {"succeeded", "failed_terminal"} =>
          States(row.disp) \subseteq {"succeeded", "failed_terminal"}
    /\ row.status = "expired" =>
          row.disp = Plan /\ \A d \in Dispatches : calls[d] = 0

\* A retry of a dispatch other than MANAGER_DB finds nothing queued: the
\* branch of commitDispatch*AndAdvance that promotes a sibling, which
\* nobody would run, is never taken.
RetryFindsNothingQueued ==
    \A p \in Calls : pc[p] = "retry" => "queued" \notin States(img[p])

\* Terminal rows never change again before they are deleted: a late
\* executor, retry or sweep has no effect on them.
TerminalIsFinal ==
    [][row.status \in TerminalStatus =>
          \/ row'.status = "gone"
          \/ row' = [row EXCEPT !.overdue = row'.overdue]]_vars

\* What one dispatch came to is never rewritten, even on a row that goes on,
\* and no step lowers its attempt count: a slow writer cannot bring back an
\* older image of planned_dispatches.
SettledDispatchIsFinal ==
    [][row'.status # "gone" =>
          \A d \in Dispatches :
            /\ row.disp[d].state \in {"succeeded", "failed_terminal"} =>
                  row'.disp[d].state = row.disp[d].state
            /\ row'.disp[d].attemptCount >= row.disp[d].attemptCount]_vars

\* "Once attemptCount reaches this value the dispatch is hard-locked into
\* failed_terminal" (apply-attempt-types.ts): no step reopens it.
CapHardLocks ==
    [][row'.status # "gone" =>
          \A d \in Dispatches :
            /\ row.disp[d].state = "failed_terminal"
            /\ row.disp[d].attemptCount >= MaxAttempts
            => row'.disp[d].state = "failed_terminal"]_vars

\* Every attempt comes to an end: no crash, hang or lost claim leaves a row
\* executing or waiting for ever once the sweep keeps running.
AttemptEnds ==
    row.status = "pending" ~> row.status \in TerminalStatus \cup {"gone"}

\* The attempt keeps the contract of module AttemptContract.
Contract == INSTANCE AttemptContract WITH
    status <- row.status,
    air <- {d \in Dispatches : \E p \in Calls : task[p][d] = "calling"}

ContractSpec == Contract!Spec
=============================================================================
