-------------------------- MODULE ApplyAttemptProofs --------------------------
(***************************************************************************)
(* Theorems about ApplyAttempt, for any number of confirms and retries,    *)
(* any set of external services and any cap: first the types, then who may *)
(* drive what, then what the attempt tells its operator; at the end, what  *)
(* holds with one retry at a time.                                         *)
(***************************************************************************)
EXTENDS ApplyAttempt, TLAPS

Rows == [status: Status, lock: Calls \cup {NoCall}, overdue: BOOLEAN,
         disp: [Dispatches -> PlannedDispatch]]
Disps == [Dispatches -> PlannedDispatch]

-----------------------------------------------------------------------------
(* The operations on planned_dispatches and on rows keep their types.      *)

LEMMA FlipType ==
    ASSUME NEW disp \in Disps, NEW from, NEW to \in DispatchState
    PROVE  Flip(disp, from, to) \in Disps
  BY DEF Disps, Flip, PlannedDispatch

LEMMA StripType ==
    ASSUME NEW disp \in Disps
    PROVE  Strip(disp) \in Disps
  BY DEF Disps, Strip, PlannedDispatch

LEMMA SetStateType ==
    ASSUME NEW disp \in Disps, NEW d \in Dispatches, NEW s \in DispatchState
    PROVE  SetState(disp, d, s) \in Disps
  BY DEF Disps, SetState, PlannedDispatch

LEMMA PromoteType ==
    ASSUME NEW disp \in Disps, NEW d \in Dispatches
    PROVE  Promote(disp, d) \in Disps
  BY DEF Disps, Promote, Dispatch, PlannedDispatch, DispatchState

LEMMA FanOutType ==
    ASSUME NEW disp \in Disps, NEW p \in Calls
    PROVE  FanOut(disp, p) \in Disps
  BY DEF Disps, FanOut, Dispatch, PlannedDispatch, DispatchState

LEMMA AggregateType ==
    ASSUME NEW disp
    PROVE  Aggregate(disp) \in {"failed_retryable", "failed_terminal",
                                "succeeded"}
  BY DEF Aggregate

LEMMA SettleType ==
    ASSUME NEW r \in Rows, NEW s \in Status, NEW disp \in Disps
    PROVE  Settle(r, s, disp) \in Rows
  BY DEF Settle, Rows, Disps

LEMMA PlanType == Plan \in Disps
  BY DEF Plan, Queued, Dispatch, Disps, PlannedDispatch, DispatchState

LEMMA NewRowType == ASSUME NEW s \in Status PROVE NewRow(s) \in Rows
  BY PlanType DEF NewRow, Rows, Disps

LEMMA TerminaliseType ==
    ASSUME NEW r \in Rows
    PROVE  Terminalise(r) \in Rows
  <1>1. r.disp \in Disps
    BY DEF Rows, Disps
  <1>2. Flip(r.disp, {"failed_retryable", "queued"}, "failed_terminal") \in Disps
    BY <1>1, FlipType DEF DispatchState
  <1>3. {"expired", "failed_terminal"} \subseteq Status
    BY DEF Status, TerminalStatus
  <1> QED
    BY <1>1, <1>2, <1>3, SettleType DEF Terminalise

LEMMA CleanedUpType ==
    ASSUME NEW r \in Rows, NEW aged \in BOOLEAN
    PROVE  CleanedUp(r, aged) \in Rows
  <1>1. ASSUME NEW s \in Rows PROVE RecoverStaleLock(s) \in Rows
    <2>1. s.disp \in Disps
      BY DEF Rows, Disps
    <2>2. Strip(Flip(s.disp, {"in_flight", "queued", "failed_retryable"},
                     "failed_terminal")) \in Disps
      BY <2>1, FlipType, StripType DEF DispatchState
    <2> QED
      BY <2>2, SettleType DEF RecoverStaleLock, Status, TerminalStatus
  <1>2. ASSUME NEW s \in Rows PROVE RecoverStaleDispatchClaims(s) \in Rows
    BY DEF RecoverStaleDispatchClaims, Dispatch, Rows, PlannedDispatch,
           DispatchState
  <1>3. ASSUME NEW s \in Rows PROVE FinaliseAbandoned(s) \in Rows
    BY AggregateType, SettleType
    DEF FinaliseAbandoned, Rows, Disps, Status, TerminalStatus
  <1>4. ASSUME NEW s \in Rows PROVE TerminaliseExpired(s) \in Rows
    BY TerminaliseType DEF TerminaliseExpired
  <1> DEFINE recovered ==
        IF aged THEN RecoverStaleDispatchClaims(RecoverStaleLock(r)) ELSE r
  <1>5. recovered \in Rows
    BY <1>1, <1>2
  <1>6. FinaliseAbandoned(recovered) \in Rows
    BY <1>3, <1>5
  <1> QED
    BY <1>4, <1>6 DEF CleanedUp

LEMMA ResultType ==
    ASSUME NEW p \in Calls, NEW d \in Dispatches
    PROVE  Result(p, d) \in {"succeeded", "failed_terminal",
                             "failed_retryable"}
  BY DEF Result

-----------------------------------------------------------------------------
(* Type correctness.                                                       *)

LEMMA EndsType ==
    ASSUME TypeOK, NEW p \in Calls, Ends(p)
    PROVE  /\ pc' \in [Calls -> Where]
           /\ target' \in [Calls -> Dispatches]
           /\ src' \in [Calls -> Status]
           /\ img' \in [Calls -> Disps]
           /\ task' \in [Calls -> [Dispatches -> TaskState]]
  BY PlanType
  DEF TypeOK, Ends, Where, Dispatches, Status, Disps, NoTasks, TaskState

\* Every step keeps every variable's type.
LEMMA TypeStep == TypeOK /\ [Next]_vars => TypeOK'
<1> SUFFICES ASSUME TypeOK, [Next]_vars
             PROVE  TypeOK'
  OBVIOUS
<1> USE DEF local
<1>0. /\ row \in Rows
      /\ row.disp \in Disps
      /\ pc \in [Calls -> Where]
      /\ target \in [Calls -> Dispatches]
      /\ src \in [Calls -> Status]
      /\ img \in [Calls -> Disps]
      /\ task \in [Calls -> [Dispatches -> TaskState]]
      /\ calls \in [Dispatches -> Nat]
      /\ landed \subseteq Dispatches
      /\ row.status \in Status
  BY DEF TypeOK, Rows, Disps
<1>a. SUFFICES /\ row' \in Rows
               /\ pc' \in [Calls -> Where]
               /\ target' \in [Calls -> Dispatches]
               /\ src' \in [Calls -> Status]
               /\ img' \in [Calls -> Disps]
               /\ task' \in [Calls -> [Dispatches -> TaskState]]
               /\ calls' \in [Dispatches -> Nat]
               /\ landed' \subseteq Dispatches
  BY DEF TypeOK, Rows, Disps
<1>1. CASE CreateApplyAttempt
  BY <1>0, <1>1, NewRowType DEF CreateApplyAttempt, Status
<1>2. ASSUME NEW p \in Calls, ReadRow(p) PROVE TypeOK'
  <2>1. PICK d \in Dispatches :
          /\ target' = [target EXCEPT ![p] = d]
          /\ src' = src \/ src' = [src EXCEPT ![p] = row.status]
          /\ img' = img \/ img' = [img EXCEPT ![p] = row.disp]
          /\ Goes(p, "expiry") \/ Goes(p, "select")
    BY <1>2 DEF ReadRow, Dispatches
  <2>2. img' \in [Calls -> Disps] /\ src' \in [Calls -> Status]
    BY <1>0, <2>1
  <2>3. pc' \in [Calls -> Where] /\ target' \in [Calls -> Dispatches]
    BY <1>0, <2>1 DEF Goes, Where
  <2>4. UNCHANGED <<row, task, calls, landed>>
    BY <1>2 DEF ReadRow
  <2> QED
    BY <1>0, <2>2, <2>3, <2>4 DEF TypeOK, Rows, Disps
<1>3. ASSUME NEW p \in Calls, TerminaliseExpiredAttempt(p) PROVE TypeOK'
  <2>1. row' \in Rows /\ calls' = calls /\ landed' = landed
    BY <1>0, <1>3, TerminaliseType DEF TerminaliseExpiredAttempt
  <2>2. CASE Ends(p)
    BY <1>0, <2>1, <2>2, EndsType DEF TypeOK, Rows, Disps
  <2>3. CASE Goes(p, "select") /\ UNCHANGED <<local, task>>
    BY <1>0, <2>1, <2>3 DEF Goes, Where, TypeOK, Rows, Disps
  <2> QED
    BY <1>3, <2>2, <2>3 DEF TerminaliseExpiredAttempt
<1>4. ASSUME NEW p \in Calls, ClaimSelect(p) PROVE TypeOK'
  <2>1. img' \in [Calls -> Disps]
    BY <1>0, <1>4 DEF ClaimSelect
  <2>2. pc' \in [Calls -> Where]
    BY <1>0, <1>4 DEF ClaimSelect, Goes, Where
  <2> QED
    BY <1>0, <1>4, <2>1, <2>2 DEF ClaimSelect, TypeOK, Rows, Disps
<1>5. ASSUME NEW p \in Calls, ClaimUpdate(p) PROVE TypeOK'
  <2> DEFINE claimed == Promote(img[p], target[p])
  <2>1. claimed \in Disps
    BY <1>0, PromoteType
  <2>2. CASE ClaimWhere(p)
    <3> HIDE DEF claimed
    <3>1. [row EXCEPT !.status = "executing", !.lock = p, !.disp = claimed]
            \in Rows
      BY <1>0, <2>1 DEF Rows, Disps, Status
    <3>2. [img EXCEPT ![p] = claimed] \in [Calls -> Disps]
      BY <1>0, <2>1
    <3>3. [task EXCEPT ![p][target[p]] = "ready"]
            \in [Calls -> [Dispatches -> TaskState]]
      <4>1. "ready" \in TaskState /\ task[p] \in [Dispatches -> TaskState]
        BY <1>0 DEF TaskState
      <4> QED
        BY <1>0, <4>1
    <3>4. pc' \in [Calls -> Where]
      BY <1>0, <1>5, <2>2 DEF ClaimUpdate, Goes, Where
    <3> QED
      BY <1>0, <1>5, <2>2, <3>1, <3>2, <3>3, <3>4
      DEF ClaimUpdate, claimed, TypeOK, Rows, Disps
  <2>3. CASE ~ClaimWhere(p)
    BY <1>0, <1>5, <2>3 DEF ClaimUpdate, Goes, Where, TypeOK, Rows, Disps
  <2> QED
    BY <2>2, <2>3
<1>6. ASSUME NEW p \in Calls, ResolveLostClaim(p) PROVE TypeOK'
  BY <1>0, <1>6, EndsType
  DEF ResolveLostClaim, Goes, Where, TypeOK, Rows, Disps
<1>7. ASSUME NEW p \in Calls, NEW d \in Dispatches,
             \/ StartDispatch(p, d)
             \/ FailBeforeDispatch(p, d)
             \/ DispatchReturns(p, d)
      PROVE  TypeOK'
  <2>1. ASSUME NEW s \in TaskState
        PROVE  [task EXCEPT ![p][d] = s]
                  \in [Calls -> [Dispatches -> TaskState]]
    BY <1>0
  <2>2. {"calling", "ok", "soft", "hard"} \subseteq TaskState
    BY DEF TaskState, Returned
  <2>3. task' \in [Calls -> [Dispatches -> TaskState]]
    BY <1>7, <2>1, <2>2
    DEF StartDispatch, FailBeforeDispatch, DispatchReturns
  <2>4. calls' \in [Dispatches -> Nat] /\ landed' \subseteq Dispatches
    BY <1>0, <1>7 DEF StartDispatch, FailBeforeDispatch, DispatchReturns
  <2>5. row' = row /\ pc' = pc /\ target' = target /\ src' = src /\ img' = img
    BY <1>7 DEF StartDispatch, FailBeforeDispatch, DispatchReturns
  <2> QED
    BY <1>0, <2>3, <2>4, <2>5 DEF TypeOK, Rows, Disps
<1>8. ASSUME NEW p \in Calls, NEW d \in Dispatches,
             CommitOneDispatchResult(p, d)
      PROVE  TypeOK'
  <2>1. row' \in Rows
    <3>1. Dispatch(Result(p, d), row.disp[d].attemptCount, NoCall)
            \in PlannedDispatch
      BY <1>0, ResultType DEF Dispatch, PlannedDispatch, DispatchState, Disps
    <3> QED
      BY <1>0, <1>8, <3>1 DEF CommitOneDispatchResult, Rows
  <2> QED
    BY <1>0, <1>8, <2>1
    DEF CommitOneDispatchResult, TaskState, TypeOK, Rows, Disps
<1>9. ASSUME NEW p \in Calls, DraftDrifted(p) PROVE TypeOK'
  BY <1>0, <1>9
  DEF DraftDrifted, Goes, Where, NoTasks, TaskState, TypeOK, Rows, Disps
<1>10. ASSUME NEW p \in Calls, WriteStaleAndClear(p) PROVE TypeOK'
  <2>1. row' \in Rows
    BY <1>0, <1>10, SettleType DEF WriteStaleAndClear, Status, TerminalStatus
  <2> QED
    BY <1>0, <1>10, <2>1, EndsType DEF WriteStaleAndClear, TypeOK, Rows, Disps
<1>11. ASSUME NEW p \in Calls, CommitDbFailure(p) PROVE TypeOK'
  <2> DEFINE failed == SetState(img[p], DB, Result(p, DB))
  <2>1. Result(p, DB) \in DispatchState /\ Result(p, DB) \in Status
    BY ResultType DEF DispatchState, Status, TerminalStatus, Dispatches
  <2>2. failed \in Disps
    BY <1>0, <2>1, SetStateType DEF Dispatches
  <2>3. Flip(failed, {"queued"}, Result(p, DB)) \in Disps
    BY <2>1, <2>2, FlipType
  <2>4. row' \in Rows
    BY <1>0, <1>11, <2>1, <2>2, <2>3, SettleType DEF CommitDbFailure
  <2> QED
    BY <1>0, <1>11, <2>4, EndsType DEF CommitDbFailure, TypeOK, Rows, Disps
<1>12. ASSUME NEW p \in Calls, CommitDbSuccessAndFanOut(p) PROVE TypeOK'
  <2>1. FanOut(img[p], p) \in Disps
    BY <1>0, FanOutType
  <2>2. [row EXCEPT !.lock = NoCall, !.disp = FanOut(img[p], p)] \in Rows
    BY <1>0, <2>1 DEF Rows, Disps
  <2>b. row' \in Rows /\ landed' = landed /\ calls' = calls
    BY <1>0, <1>12, <2>2 DEF CommitDbSuccessAndFanOut
  <2>3. CASE row.lock = p
    <3>1. task' \in [Calls -> [Dispatches -> TaskState]]
      BY <1>0, <1>12, <2>3 DEF CommitDbSuccessAndFanOut, TaskState
    <3>2. img' \in [Calls -> Disps] /\ target' = target /\ src' = src
      BY <1>0, <1>12, <2>1, <2>3 DEF CommitDbSuccessAndFanOut
    <3>3. pc' \in [Calls -> Where]
      BY <1>0, <1>12, <2>3 DEF CommitDbSuccessAndFanOut, Goes, Where
    <3> QED
      BY <1>0, <2>b, <3>1, <3>2, <3>3 DEF TypeOK, Rows, Disps
  <2>4. CASE row.lock # p
    BY <1>0, <1>12, <2>b, <2>4, EndsType
    DEF CommitDbSuccessAndFanOut, TypeOK, Rows, Disps
  <2> QED
    BY <2>3, <2>4
<1>13. ASSUME NEW p \in Calls, CommitRetry(p) PROVE TypeOK'
  <2> DEFINE disp == SetState(img[p], target[p], Result(p, target[p]))
  <2>1. disp \in Disps
    BY <1>0, ResultType, SetStateType DEF DispatchState
  <2>2. Aggregate(disp) \in Status
    BY AggregateType DEF Status, TerminalStatus
  <2>3. row' \in Rows
    BY <1>0, <1>13, <2>1, <2>2, SettleType DEF CommitRetry
  <2> QED
    BY <1>0, <1>13, <2>3, EndsType DEF CommitRetry, TypeOK, Rows, Disps
<1>14. ASSUME NEW p \in Calls, FinaliseRead(p) PROVE TypeOK'
  BY <1>0, <1>14, EndsType DEF FinaliseRead, Goes, Where, TypeOK, Rows, Disps
<1>15. ASSUME NEW p \in Calls, FinaliseWrite(p) PROVE TypeOK'
  <2>1. Aggregate(img[p]) \in Status /\ Strip(img[p]) \in Disps
    BY <1>0, AggregateType, StripType DEF Status, TerminalStatus
  <2>2. row' \in Rows
    BY <1>0, <1>15, <2>1, SettleType DEF FinaliseWrite
  <2> QED
    BY <1>0, <1>15, <2>2, EndsType DEF FinaliseWrite, TypeOK, Rows, Disps
<1>16. ASSUME NEW p \in Calls, Crash(p) PROVE TypeOK'
  BY <1>0, <1>16, EndsType DEF Crash, TypeOK, Rows, Disps
<1>17. CASE DeadlinePasses
  BY <1>0, <1>17 DEF DeadlinePasses, Rows
<1>18. CASE Cleanup
  BY <1>0, <1>18, CleanedUpType DEF Cleanup
<1>19. CASE PurgeRetained
  BY <1>0, <1>19, NewRowType DEF PurgeRetained, Status
<1>20. CASE AccountDeleted
  BY <1>0, <1>20, NewRowType DEF AccountDeleted, Status
<1>21. CASE UNCHANGED vars
  BY <1>0, <1>21 DEF vars
<1> QED
  BY <1>1, <1>2, <1>3, <1>4, <1>5, <1>6, <1>7, <1>8, <1>9, <1>10, <1>11,
     <1>12, <1>13, <1>14, <1>15, <1>16, <1>17, <1>18, <1>19, <1>20, <1>21
  DEF Next, Advance, TypeOK, Rows, Disps

\* Every variable keeps its type in every step: in particular no operator
\* writes a state or a status that the table does not know.
THEOREM TypeCorrect == Spec => []TypeOK
<1>1. Init => TypeOK
  BY PlanType, NewRowType
  DEF Init, TypeOK, Rows, Disps, Where, Dispatches, Status, NoTasks, TaskState
<1>2. QED
  BY <1>1, TypeStep, PTL DEF Spec

-----------------------------------------------------------------------------
(***************************************************************************)
(* Who may drive what: for any number of confirms and retries that overlap *)
(* with each other, with the sweeps and with crashes, the claims of an     *)
(* apply attempt keep their discipline, no dispatch is driven by two calls *)
(* at a time, and terminal rows stay as they are.                          *)
(*                                                                         *)
(* The argument.  A call that drives a dispatch under the row lock either  *)
(* has the lock or finds the attempt over; one that drives a dispatch of   *)
(* the fan-out has its token or finds the dispatch failed for good.  Both  *)
(* are stable because MANAGER_DB succeeds once: before it all others are   *)
(* queued, after it none is, so the image that a slow claim writes back is *)
(* of the same side as the row it overwrites.                              *)
(***************************************************************************)

Over == row.status \in TerminalStatus \cup {"gone"}
Passed(disp) == disp[DB].state = "succeeded"
RowPassed == Passed(row.disp) \/ Over
Running(p, d) == task[p][d] \in {"ready", "calling"}

NoneInFlight(disp) == \A d \in Dispatches : disp[d].state # "in_flight"
NoneQueued(disp) == \A d \in Dispatches : disp[d].state # "queued"
NoneHeld(disp) == \A d \in Dispatches : disp[d].lockToken = NoCall
OnlyInFlight(disp, d) ==
    \A e \in Dispatches : disp[e].state = "in_flight" <=> e = d

\* MANAGER_DB goes first: before it succeeds all others are queued, and
\* afterwards none is.
Phase(disp) ==
    /\ Passed(disp) => NoneQueued(disp)
    /\ ~Passed(disp) =>
          \A d \in Dispatches \ {DB} : disp[d].state = "queued"

RowInv ==
    /\ row.lock # NoCall =>
          /\ row.status = "executing"
          /\ NoneHeld(row.disp)
          /\ \E d \in Dispatches : OnlyInFlight(row.disp, d)
    /\ row.lock = NoCall /\ row.status = "executing" =>
          /\ Passed(row.disp)
          /\ \A d \in Dispatches : row.disp[d].lockToken # NoCall
                                     <=> row.disp[d].state = "in_flight"
    /\ row.status # "executing" => NoneHeld(row.disp)
    /\ row.status \in {"pending", "failed_retryable"} => NoneInFlight(row.disp)
    /\ row.status \in {"none", "pending"} => row.disp = Plan
    /\ row.status \in {"executing", "failed_retryable"} => Phase(row.disp)

\* What a call holds that is about to claim, ...
ClaimInv(p) ==
    pc[p] = "claim" =>
        /\ NoneInFlight(img[p]) /\ NoneHeld(img[p]) /\ Phase(img[p])
        /\ p \in Retriers => img[p][target[p]].state = "failed_retryable"
        /\ Passed(img[p]) => RowPassed

\* ... that claimed one dispatch, ...
DriveInv(p) ==
    pc[p] \in {"db", "retry"} =>
        /\ OnlyInFlight(img[p], target[p]) /\ NoneHeld(img[p]) /\ Phase(img[p])
        /\ pc[p] = "db" <=> target[p] = DB
        /\ row.lock = p => row.disp = img[p]
        /\ row.lock = p \/ Over
        /\ \A d \in Dispatches \ {target[p]} : task[p][d] = "none"

\* ... that runs the fan-out, ...
FanInv(p) ==
    pc[p] = "fan" =>
        /\ RowPassed
        /\ \A d \in Dispatches : Running(p, d) =>
              \/ Over
              \/ row.disp[d].state = "failed_terminal"
              \/ /\ row.status = "executing" /\ row.lock = NoCall
                 /\ row.disp[d].lockToken = p

\* ... and that is about to finalise the row.
FinaliseInv(p) ==
    pc[p] = "finalise" =>
        /\ RowPassed
        /\ NoneInFlight(img[p]) /\ NoneQueued(img[p]) /\ Passed(img[p])
        /\ row.status = "executing" /\ row.lock = NoCall => row.disp = img[p]

CallInv(p) ==
    /\ ClaimInv(p) /\ DriveInv(p) /\ FanInv(p) /\ FinaliseInv(p)
    /\ p \in Confirmers => target[p] = DB
    /\ pc[p] \notin {"db", "retry", "fan"} => task[p] = NoTasks

\* A claim in the making cannot reopen a dispatch that the fan-out still runs.
ClaimVersusFan ==
    \A p, q \in Calls : \A d \in Dispatches :
        pc[q] = "claim" /\ Passed(img[q]) /\ pc[p] = "fan" /\ Running(p, d)
            => Over \/ img[q][d].state = "failed_terminal"

OneRuns ==
    \A p, q \in Calls : \A d \in Dispatches :
        Running(p, d) /\ Running(q, d) => p = q

IInv ==
    /\ TypeOK /\ RowInv
    /\ \A p \in Calls : CallInv(p)
    /\ ClaimVersusFan /\ OneRuns

-----------------------------------------------------------------------------
(* Steps that leave the other calls alone.                                 *)

LEMMA Shapes ==
    ASSUME TypeOK
    PROVE  /\ row \in Rows /\ row.disp \in Disps /\ row.status \in Status
           /\ row.lock \in Calls \cup {NoCall}
           /\ pc \in [Calls -> Where]
           /\ target \in [Calls -> Dispatches]
           /\ img \in [Calls -> Disps]
           /\ task \in [Calls -> [Dispatches -> TaskState]]
BY DEF TypeOK, Rows, Disps

\* Once the attempt is over, every call that goes on is harmless.
LEMMA OthersOver ==
    ASSUME IInv, RowInv', Over', NEW q \in Calls, CallInv(q),
           pc'[q] = pc[q], img'[q] = img[q], target'[q] = target[q],
           task'[q] = task[q]
    PROVE  CallInv(q)'
<1>1. row'.status # "executing" /\ row'.lock # q
    BY CallsAssumption DEF RowInv, Over, TerminalStatus, Calls
<1>2. QED
    BY <1>1 DEF CallInv, ClaimInv, DriveInv, FanInv, FinaliseInv, RowPassed,
                Over, Running

\* A call that goes on while the row stays, but for its deadline.
LEMMA OthersSame ==
    ASSUME NEW q \in Calls, CallInv(q),
           row'.status = row.status, row'.lock = row.lock,
           row'.disp = row.disp,
           pc'[q] = pc[q], img'[q] = img[q], target'[q] = target[q],
           task'[q] = task[q]
    PROVE  CallInv(q)'
BY DEF CallInv, ClaimInv, DriveInv, FanInv, FinaliseInv, RowPassed, Over,
       Running, NoTasks

\* No claim is prepared, no fan-out begun and no dispatch taken up.
LEMMA NothingTakenUp ==
    ASSUME IInv, Over => Over',
           \A q \in Calls : pc'[q] = "claim" =>
                pc[q] = "claim" /\ img'[q] = img[q],
           \A q \in Calls : pc'[q] = "fan" => pc[q] = "fan",
           \A q \in Calls : \A d \in Dispatches :
                Running(q, d)' => Running(q, d)
    PROVE  ClaimVersusFan' /\ OneRuns'
<1>1. OneRuns'
    BY DEF IInv, OneRuns
<1>2. ClaimVersusFan'
    <2> SUFFICES ASSUME NEW p \in Calls, NEW q \in Calls, NEW d \in Dispatches,
                        pc'[q] = "claim", Passed(img'[q]), pc'[p] = "fan",
                        Running(p, d)'
                 PROVE  Over' \/ img'[q][d].state = "failed_terminal"
        BY DEF ClaimVersusFan
    <2>1. pc[q] = "claim" /\ Passed(img[q]) /\ pc[p] = "fan" /\ Running(p, d)
        BY DEF Passed
    <2>2. QED
        BY <2>1 DEF IInv, ClaimVersusFan
<1>3. QED
    BY <1>1, <1>2

\* A call that ends.
LEMMA EndsKeeps ==
    ASSUME IInv, TypeOK', RowInv', NEW p \in Calls, Ends(p), Over => Over',
           \A q \in Calls \ {p} :
                /\ pc'[q] = pc[q] /\ img'[q] = img[q]
                /\ target'[q] = target[q] /\ task'[q] = task[q]
                => CallInv(q)'
    PROVE  IInv'
<1>0. TypeOK
    BY DEF IInv
<1>1. /\ pc'[p] = "idle" /\ task'[p] = NoTasks /\ target'[p] = DB
      /\ \A q \in Calls \ {p} :
            /\ pc'[q] = pc[q] /\ img'[q] = img[q]
            /\ target'[q] = target[q] /\ task'[q] = task[q]
    BY <1>0, Shapes DEF Ends
<1>2. CallInv(p)'
    BY <1>1 DEF CallInv, ClaimInv, DriveInv, FanInv, FinaliseInv, NoTasks
<1>3. \A q \in Calls : CallInv(q)'
    BY <1>1, <1>2
<1>4. \A q \in Calls : \A d \in Dispatches :
         Running(q, d)' => Running(q, d)
    BY <1>1 DEF Running, NoTasks
<1>5. ClaimVersusFan' /\ OneRuns'
    <2>1. \A q \in Calls : pc'[q] = "claim" =>
              pc[q] = "claim" /\ img'[q] = img[q]
        BY <1>1
    <2>2. \A q \in Calls : pc'[q] = "fan" => pc[q] = "fan"
        BY <1>1
    <2>3. QED
        BY <1>4, <2>1, <2>2, NothingTakenUp
<1>6. QED
    BY <1>3, <1>5 DEF IInv

LEMMA EndsOver ==
    ASSUME IInv, TypeOK', RowInv', NEW p \in Calls, Ends(p), Over'
    PROVE  IInv'
<1>1. \A q \in Calls : CallInv(q)
    BY DEF IInv
<1>2. \A q \in Calls \ {p} :
        /\ pc'[q] = pc[q] /\ img'[q] = img[q]
        /\ target'[q] = target[q] /\ task'[q] = task[q]
        => CallInv(q)'
    BY <1>1, OthersOver
<1>3. QED
    BY <1>2, EndsKeeps

LEMMA EndsSame ==
    ASSUME IInv, TypeOK', NEW p \in Calls, Ends(p), row' = row
    PROVE  IInv'
<1>1. RowInv' /\ (Over => Over')
    BY DEF IInv, RowInv, Over
<1>2. \A q \in Calls : CallInv(q)
    BY DEF IInv
<1>3. \A q \in Calls \ {p} :
        /\ pc'[q] = pc[q] /\ img'[q] = img[q]
        /\ target'[q] = target[q] /\ task'[q] = task[q]
        => CallInv(q)'
    BY <1>2, OthersSame
<1>4. QED
    BY <1>1, <1>3, EndsKeeps

\* A step of the surroundings: the calls stay where they are.
LEMMA CallsStay ==
    ASSUME IInv, TypeOK', RowInv', Over => Over',
           UNCHANGED <<pc, local, task>>, \A q \in Calls : CallInv(q)'
    PROVE  IInv'
<1>1. ClaimVersusFan' /\ OneRuns'
    BY NothingTakenUp DEF Running, local
<1>2. QED
    BY <1>1 DEF IInv

LEMMA CallsStayOver ==
    ASSUME IInv, TypeOK', RowInv', Over', UNCHANGED <<pc, local, task>>
    PROVE  IInv'
<1>1. \A q \in Calls : CallInv(q)'
    BY OthersOver DEF IInv, local
<1>2. QED
    BY <1>1, CallsStay

-----------------------------------------------------------------------------
(* What the holder of the row lock knows of the others.                    *)

LEMMA HolderAlone ==
    ASSUME IInv, NEW p \in Calls, pc[p] \in {"db", "retry"}, row.lock = p
    PROVE  /\ row.status = "executing" /\ ~Over /\ row.disp = img[p]
           /\ \A q \in Calls \ {p} : pc[q] \notin {"db", "retry"}
<1>1. row.status = "executing" /\ ~Over
    BY CallsAssumption DEF IInv, RowInv, Over, TerminalStatus, Calls
<1>2. CallInv(p) /\ row.disp = img[p] /\ OnlyInFlight(img[p], target[p])
    BY DEF IInv, CallInv, DriveInv
<1>3. \A q \in Calls \ {p} : pc[q] \notin {"db", "retry"}
    BY <1>1 DEF IInv, CallInv, DriveInv
<1>4. QED
    BY <1>1, <1>2, <1>3

LEMMA DbHolderAlone ==
    ASSUME IInv, NEW p \in Calls, pc[p] = "db", row.lock = p
    PROVE  \A q \in Calls \ {p} :
                /\ pc[q] \notin {"db", "retry", "fan", "finalise"}
                /\ pc[q] = "claim" => ~Passed(img[q])
<1>1. ~Over /\ row.disp = img[p]
      /\ \A q \in Calls \ {p} : pc[q] \notin {"db", "retry"}
    BY HolderAlone
<1>2. OnlyInFlight(img[p], DB) /\ DB \in Dispatches
    BY DEF IInv, CallInv, DriveInv, Dispatches
<1>3. ~RowPassed
    BY <1>1, <1>2 DEF OnlyInFlight, RowPassed, Passed
<1>4. QED
    BY <1>1, <1>3 DEF IInv, CallInv, ClaimInv, FanInv, FinaliseInv

\* A plan that has passed MANAGER_DB stays so when another dispatch changes.
LEMMA PhaseSetState ==
    ASSUME NEW disp \in Disps, NEW d \in Dispatches, NEW s \in DispatchState,
           OnlyInFlight(disp, d), NoneHeld(disp), Phase(disp),
           s \notin {"in_flight", "queued"}
    PROVE  /\ NoneInFlight(SetState(disp, d, s))
           /\ NoneHeld(SetState(disp, d, s))
           /\ d # DB => Passed(disp) /\ Passed(SetState(disp, d, s))
           /\ d # DB \/ s # "succeeded" => Phase(SetState(disp, d, s))
<1>1. \A e \in Dispatches :
        SetState(disp, d, s)[e] = [disp[e] EXCEPT
            !.state = IF e = d THEN s ELSE disp[e].state]
    BY DEF SetState, Disps, PlannedDispatch
<1>2. \A e \in Dispatches :
        /\ SetState(disp, d, s)[e].lockToken = disp[e].lockToken
        /\ SetState(disp, d, s)[e].state = IF e = d THEN s ELSE disp[e].state
    BY <1>1 DEF Disps, PlannedDispatch
<1>3. DB \in Dispatches
    BY DEF Dispatches
<1>4. NoneInFlight(SetState(disp, d, s)) /\ NoneHeld(SetState(disp, d, s))
    BY <1>2 DEF NoneInFlight, NoneHeld, OnlyInFlight
<1>5. d # DB => Passed(disp) /\ Passed(SetState(disp, d, s))
    BY <1>2, <1>3 DEF Phase, Passed, OnlyInFlight
<1>6. ASSUME d # DB \/ s # "succeeded" PROVE Phase(SetState(disp, d, s))
    BY <1>2, <1>3, <1>5, <1>6 DEF Phase, Passed, NoneQueued, OnlyInFlight
<1>7. QED
    BY <1>4, <1>5, <1>6

\* A settled row that nobody holds.
LEMMA SettledRow ==
    ASSUME NEW disp \in Disps, NEW s \in Status, NoneHeld(disp),
           row' = Settle(row, s, disp),
           s \in TerminalStatus
             \/ (s = "failed_retryable" /\ NoneInFlight(disp) /\ Phase(disp))
    PROVE  RowInv' /\ (s \in TerminalStatus => Over')
<1>1. row'.status = s /\ row'.lock = NoCall /\ row'.disp = disp
    BY DEF Settle
<1>2. QED
    BY <1>1 DEF RowInv, Over, TerminalStatus

-----------------------------------------------------------------------------
(* The commits under the row lock.                                         *)

LEMMA StepWriteStale ==
    ASSUME IInv, TypeOK', NEW p \in Calls, WriteStaleAndClear(p)
    PROVE  IInv'
<1>1. CASE row.lock # p
    BY <1>1, EndsSame DEF WriteStaleAndClear
<1>2. CASE row.lock = p
    <2>1. row.disp \in Disps /\ NoneHeld(row.disp) /\ row' = Settle(row, "stale", row.disp)
        BY <1>2, Shapes, CallsAssumption
           DEF WriteStaleAndClear, IInv, RowInv, Calls
    <2>2. RowInv' /\ Over'
        BY <2>1, SettledRow DEF TerminalStatus, Status
    <2>3. QED
        BY <2>2, EndsOver DEF WriteStaleAndClear
<1>3. QED
    BY <1>1, <1>2

LEMMA StepCommitDbFailure ==
    ASSUME IInv, TypeOK', NEW p \in Calls, CommitDbFailure(p)
    PROVE  IInv'
<1> DEFINE result == Result(p, DB)
           failed == SetState(img[p], DB, result)
<1>0. TypeOK /\ pc[p] = "db" /\ Ends(p) /\ img[p] \in Disps /\ DB \in Dispatches
    BY Shapes DEF IInv, CommitDbFailure, Dispatches
<1>1. CASE row.lock # p
    BY <1>0, <1>1, EndsSame DEF CommitDbFailure
<1>2. CASE row.lock = p
    <2>1. target[p] = DB /\ OnlyInFlight(img[p], DB) /\ NoneHeld(img[p])
          /\ Phase(img[p])
        BY <1>0 DEF IInv, CallInv, DriveInv
    <2>2. result \in {"failed_retryable", "failed_terminal"}
        BY <1>0 DEF CommitDbFailure, Result
    <2>3. failed \in Disps /\ NoneHeld(failed) /\ NoneInFlight(failed)
          /\ Phase(failed)
        BY <1>0, <2>1, <2>2, SetStateType, PhaseSetState DEF DispatchState
    <2>a. \A q \in Calls \ {p} :
            /\ pc[q] \notin {"db", "retry", "fan", "finalise"}
            /\ pc[q] = "claim" => ~Passed(img[q])
        BY <1>0, <1>2, DbHolderAlone
    <2>4. CASE result = "failed_retryable"
        <3>1. row' = Settle(row, "failed_retryable", failed)
            BY <1>2, <2>4 DEF CommitDbFailure
        <3>2. RowInv'
            BY <2>3, <3>1, SettledRow DEF Status
        <3>3. ~Over /\ row'.status = "failed_retryable"
            BY <1>0, <1>2, <3>1, HolderAlone DEF Settle
        <3>4. ASSUME NEW q \in Calls \ {p},
                     pc'[q] = pc[q], img'[q] = img[q],
                     target'[q] = target[q], task'[q] = task[q]
              PROVE  CallInv(q)'
            <4>1. /\ pc[q] \notin {"db", "retry", "fan", "finalise"}
                  /\ pc[q] = "claim" => ~Passed(img[q])
                BY <2>a, <3>4
            <4>2. QED
                BY <3>4, <4>1 DEF IInv, CallInv, ClaimInv, DriveInv, FanInv,
                                  FinaliseInv, NoTasks
        <3>5. QED
            BY <1>0, <3>2, <3>3, <3>4, EndsKeeps
    <2>5. CASE result = "failed_terminal"
        <3>1. row' = Settle(row, "failed_terminal",
                            Flip(failed, {"queued"}, "failed_terminal"))
            BY <1>2, <2>5 DEF CommitDbFailure
        <3>2. /\ Flip(failed, {"queued"}, "failed_terminal") \in Disps
              /\ NoneHeld(Flip(failed, {"queued"}, "failed_terminal"))
            BY <2>3, FlipType
               DEF Flip, NoneHeld, DispatchState, Disps, PlannedDispatch
        <3>3. RowInv' /\ Over'
            BY <3>1, <3>2, SettledRow DEF Status, TerminalStatus
        <3>4. QED
            BY <1>0, <3>3, EndsOver
    <2>6. QED
        BY <2>2, <2>4, <2>5
<1>3. QED
    BY <1>1, <1>2

LEMMA StepCommitRetry ==
    ASSUME IInv, TypeOK', NEW p \in Calls, CommitRetry(p)
    PROVE  IInv'
<1> DEFINE d == target[p]
           disp == SetState(img[p], d, Result(p, d))
<1>0. TypeOK /\ pc[p] = "retry" /\ Ends(p) /\ img[p] \in Disps
      /\ d \in Dispatches
    BY Shapes DEF IInv, CommitRetry
<1>1. CASE row.lock # p
    BY <1>0, <1>1, EndsSame DEF CommitRetry
<1>2. CASE row.lock = p
    <2>1. d # DB /\ OnlyInFlight(img[p], d) /\ NoneHeld(img[p])
          /\ Phase(img[p])
        BY <1>0 DEF IInv, CallInv, DriveInv
    <2>2. Result(p, d) \in {"succeeded", "failed_retryable",
                            "failed_terminal"}
        BY <1>0, ResultType DEF CommitRetry, Returned
    <2>3. disp \in Disps /\ NoneHeld(disp) /\ NoneInFlight(disp)
          /\ Phase(disp) /\ Passed(disp)
        BY <1>0, <2>1, <2>2, SetStateType, PhaseSetState DEF DispatchState
    <2>4. row' = Settle(row, Aggregate(disp), disp)
        BY <1>2 DEF CommitRetry
    <2>5. Aggregate(disp) \in Status
          /\ Aggregate(disp) \in TerminalStatus \cup {"failed_retryable"}
        BY AggregateType DEF Status, TerminalStatus
    <2>6. RowInv' /\ (Aggregate(disp) \in TerminalStatus => Over')
        BY <2>3, <2>4, <2>5, SettledRow
    <2>7. CASE Over'
        BY <1>0, <2>6, <2>7, EndsOver
    <2>8. CASE ~Over'
        <3>1. row'.status = "failed_retryable" /\ row'.disp = disp
            BY <2>4, <2>5, <2>6, <2>8 DEF Settle
        <3>2. RowPassed' /\ ~Over
            BY <1>0, <1>2, <2>3, <3>1, HolderAlone DEF RowPassed
        <3>3. \A e \in Dispatches : row.disp[e].state = "failed_terminal"
                    => row'.disp[e].state = "failed_terminal"
            BY <1>0, <1>2, <2>1, <3>1, HolderAlone
               DEF SetState, Disps, OnlyInFlight
        <3>4. ASSUME NEW q \in Calls \ {p},
                     pc'[q] = pc[q], img'[q] = img[q],
                     target'[q] = target[q], task'[q] = task[q]
              PROVE  CallInv(q)'
            <4>1. pc[q] \notin {"db", "retry"} /\ row.status = "executing"
                  /\ row.lock # NoCall
                BY <1>0, <1>2, HolderAlone, CallsAssumption DEF Calls
            <4>2. FanInv(q)'
                BY <3>2, <3>3, <3>4, <4>1
                   DEF IInv, CallInv, FanInv, Running
            <4>3. QED
                BY <3>1, <3>2, <3>4, <4>1, <4>2
                   DEF IInv, CallInv, ClaimInv, DriveInv, FinaliseInv, NoTasks
        <3>5. QED
            BY <1>0, <2>6, <3>2, <3>4, EndsKeeps
    <2>9. QED
        BY <2>7, <2>8
<1>3. QED
    BY <1>1, <1>2

-----------------------------------------------------------------------------
(* The fan-out.                                                            *)

LEMMA StepFanOut ==
    ASSUME IInv, TypeOK', NEW p \in Calls, CommitDbSuccessAndFanOut(p)
    PROVE  IInv'
<1>0. TypeOK /\ pc[p] = "db" /\ img[p] \in Disps /\ DB \in Dispatches
      /\ pc \in [Calls -> Where] /\ img \in [Calls -> Disps]
      /\ task \in [Calls -> [Dispatches -> TaskState]] /\ row \in Rows
    BY Shapes DEF IInv, CommitDbSuccessAndFanOut, Dispatches
<1>1. CASE row.lock # p
    BY <1>1, EndsSame DEF CommitDbSuccessAndFanOut
<1>2. CASE row.lock = p
    <2> DEFINE disp == FanOut(img[p], p)
    <2>1. OnlyInFlight(img[p], DB) /\ NoneHeld(img[p]) /\ Phase(img[p])
        BY <1>0 DEF IInv, CallInv, DriveInv
    <2>2. \A d \in Dispatches \ {DB} : img[p][d].state = "queued"
        BY <1>0, <2>1 DEF Phase, OnlyInFlight, Passed
    <2>3. /\ disp \in Disps
          /\ disp[DB].state = "succeeded" /\ disp[DB].lockToken = NoCall
          /\ \A d \in Dispatches \ {DB} :
                disp[d].state = "in_flight" /\ disp[d].lockToken = p
        <3>1. disp \in Disps
            BY <1>0, FanOutType
        <3>2. disp[DB] = [img[p][DB] EXCEPT !.state = "succeeded"]
            BY <1>0 DEF FanOut
        <3>3. disp[DB].state = "succeeded" /\ disp[DB].lockToken = NoCall
            BY <1>0, <2>1, <3>2 DEF Disps, PlannedDispatch, NoneHeld
        <3>4. \A d \in Dispatches \ {DB} :
                disp[d].state = "in_flight" /\ disp[d].lockToken = p
            BY <2>2 DEF FanOut, Dispatch
        <3>5. QED
            BY <3>1, <3>3, <3>4
    <2>4. /\ row' = [row EXCEPT !.lock = NoCall, !.disp = disp]
          /\ img' = [img EXCEPT ![p] = disp]
          /\ task' = [task EXCEPT ![p] = [d \in Dispatches |->
                IF disp[d].state = "in_flight" THEN "ready" ELSE "none"]]
          /\ pc' = [pc EXCEPT ![p] = "fan"]
          /\ UNCHANGED <<target, src>>
        BY <1>2 DEF CommitDbSuccessAndFanOut, Goes
    <2>5. row.status = "executing" /\ ~Over
        BY <1>0, <1>2, HolderAlone
    <2>6. row'.status = "executing" /\ row'.lock = NoCall /\ row'.disp = disp
        BY <1>0, <2>4, <2>5 DEF Rows
    <2>7. RowInv'
        BY <2>3, <2>6, CallsAssumption
           DEF RowInv, Passed, Phase, NoneQueued, Calls
    <2>8. \A q \in Calls \ {p} :
            /\ pc[q] \notin {"db", "retry", "fan", "finalise"}
            /\ pc[q] = "claim" => ~Passed(img[q])
        BY <1>0, <1>2, DbHolderAlone
    <2>9. ASSUME NEW q \in Calls \ {p}
          PROVE  /\ pc'[q] = pc[q] /\ img'[q] = img[q] /\ task'[q] = NoTasks
                 /\ task'[q] = task[q] /\ target'[q] = target[q]
        BY <1>0, <2>4, <2>8 DEF IInv, CallInv
    <2>10. CallInv(p)'
        <3>1. pc'[p] = "fan" /\ task'[p] = [d \in Dispatches |->
                IF disp[d].state = "in_flight" THEN "ready" ELSE "none"]
            BY <1>0, <2>4
        <3>2. FanInv(p)'
            BY <2>3, <2>6, <3>1 DEF FanInv, RowPassed, Passed, Running
        <3>3. p \in Confirmers => target'[p] = DB
            BY <2>4 DEF IInv, CallInv
        <3>4. QED
            BY <3>1, <3>2, <3>3 DEF CallInv, ClaimInv, DriveInv, FinaliseInv
    <2>11. \A q \in Calls : CallInv(q)'
        BY <2>8, <2>9, <2>10
           DEF IInv, CallInv, ClaimInv, DriveInv, FanInv, FinaliseInv, NoTasks
    <2>12. OneRuns'
        BY <2>9 DEF OneRuns, Running, NoTasks
    <2>13. pc'[p] = "fan"
        BY <1>0, <2>4
    <2>14. ClaimVersusFan'
        BY <2>8, <2>9, <2>13 DEF ClaimVersusFan, Running, NoTasks
    <2>15. QED
        BY <2>7, <2>11, <2>12, <2>14 DEF IInv
<1>3. QED
    BY <1>1, <1>2

\* What a call does to its own tasks, when it takes none up and stays.
LEMMA TasksSettle ==
    ASSUME IInv, TypeOK', RowInv', NEW p \in Calls,
           \A q \in Calls : CallInv(q)',
           Over => Over', pc' = pc, img' = img,
           \A q \in Calls : \A d \in Dispatches :
                Running(q, d)' => Running(q, d)
    PROVE  IInv'
<1>1. ClaimVersusFan' /\ OneRuns'
    BY NothingTakenUp
<1>2. QED
    BY <1>1 DEF IInv

LEMMA StepCommitOne ==
    ASSUME IInv, TypeOK', NEW p \in Calls, NEW d \in Dispatches,
           CommitOneDispatchResult(p, d)
    PROVE  IInv'
<1>0. /\ TypeOK /\ row \in Rows /\ row.disp \in Disps
      /\ task \in [Calls -> [Dispatches -> TaskState]]
      /\ pc[p] = "fan" /\ task[p][d] \in Returned
      /\ task' = [task EXCEPT ![p][d] = "none"]
      /\ UNCHANGED <<pc, target, src, img>>
    BY Shapes DEF IInv, CommitOneDispatchResult, local
<1>1. /\ \A q \in Calls : \A e \in Dispatches :
             Running(q, e)' => Running(q, e) /\ (q # p \/ e # d)
      /\ \A q \in Calls \ {p} : task'[q] = task[q]
    BY <1>0 DEF Running
<1>2. CASE row.disp[d].lockToken # p
    <2>1. row' = row
        BY <1>2 DEF CommitOneDispatchResult
    <2>2. RowInv' /\ (Over => Over')
        BY <2>1 DEF IInv, RowInv, Over
    <2>3. CallInv(p)'
        BY <1>0, <1>1, <2>1
           DEF IInv, CallInv, ClaimInv, DriveInv, FanInv, FinaliseInv,
               RowPassed, Over
    <2>4. \A q \in Calls \ {p} : CallInv(q)'
        BY <1>0, <1>1, <2>1, OthersSame DEF IInv
    <2>5. QED
        BY <1>0, <1>1, <2>2, <2>3, <2>4, TasksSettle
<1>3. CASE row.disp[d].lockToken = p
    <2> DEFINE settled == Dispatch(Result(p, d), row.disp[d].attemptCount, NoCall)
    <2>1. row.status = "executing" /\ row.lock = NoCall
          /\ row.disp[d].state = "in_flight" /\ Passed(row.disp)
          /\ NoneQueued(row.disp) /\ d # DB /\ ~Over
        <3>1. p # NoCall
            BY CallsAssumption
        <3>2. row.status = "executing" /\ row.lock = NoCall
            BY <1>3, <3>1 DEF IInv, RowInv, NoneHeld
        <3>3. QED
            BY <1>3, <3>1, <3>2
               DEF IInv, RowInv, Passed, Phase, Over, TerminalStatus
    <2>2. row' = [row EXCEPT !.disp = [row.disp EXCEPT ![d] = settled]]
        BY <1>0, <1>3 DEF CommitOneDispatchResult, Rows, Disps
    <2>3. /\ row'.status = "executing" /\ row'.lock = NoCall
          /\ row'.disp = [row.disp EXCEPT ![d] = settled]
        BY <1>0, <2>1, <2>2 DEF Rows
    <2>4. /\ \A e \in Dispatches \ {d} : row'.disp[e] = row.disp[e]
          /\ row'.disp[d] = settled
        BY <1>0, <2>3 DEF Disps
    <2>5. settled.state \notin {"in_flight", "queued"}
          /\ settled.lockToken = NoCall
        BY ResultType DEF Dispatch
    <2>6. Passed(row.disp)' /\ NoneQueued(row.disp)'
        BY <2>1, <2>4, <2>5 DEF Passed, NoneQueued, Dispatches
    <2>7. RowInv'
        <3>1. \A e \in Dispatches : row'.disp[e].lockToken # NoCall
                                     <=> row'.disp[e].state = "in_flight"
            BY <2>1, <2>4, <2>5 DEF IInv, RowInv
        <3>2. QED
            BY <2>3, <2>6, <3>1 DEF RowInv, Phase
    <2>8. ASSUME NEW q \in Calls PROVE CallInv(q)'
        <3>1. pc[q] \notin {"db", "retry", "finalise"}
            <4>1. row.lock # q
                BY <2>1, CallsAssumption
            <4>2. QED
                BY <2>1, <4>1 DEF IInv, CallInv, DriveInv, FinaliseInv,
                                  NoneInFlight
        <3>2. ClaimInv(q)' /\ RowPassed'
            BY <1>0, <2>6 DEF IInv, CallInv, ClaimInv, RowPassed
        <3>3. FanInv(q)'
            <4> SUFFICES ASSUME pc'[q] = "fan", NEW e \in Dispatches,
                                Running(q, e)'
                         PROVE  \/ row'.disp[e].state = "failed_terminal"
                                \/ row'.disp[e].lockToken = q
                BY <2>3, <3>2 DEF FanInv
            <4>1. Running(q, e) /\ (q # p \/ e # d)
                BY <1>1
            <4>2. \/ row.disp[e].state = "failed_terminal"
                  \/ row.disp[e].lockToken = q
                BY <1>0, <2>1, <4>1 DEF IInv, CallInv, FanInv
            <4>3. e # d
                BY <1>3, <2>1, <4>1, <4>2
            <4>4. QED
                BY <2>4, <4>2, <4>3
        <3>4. pc'[q] \notin {"db", "retry", "fan"} => task'[q] = NoTasks
            BY <1>0, <1>1 DEF IInv, CallInv
        <3>5. q \in Confirmers => target'[q] = DB
            BY <1>0 DEF IInv, CallInv
        <3>6. QED
            BY <1>0, <3>1, <3>2, <3>3, <3>4, <3>5
               DEF CallInv, DriveInv, FinaliseInv
    <2>9. QED
        BY <1>0, <1>1, <2>1, <2>7, <2>8, TasksSettle
<1>4. QED
    BY <1>2, <1>3

LEMMA StepFinaliseRead ==
    ASSUME IInv, TypeOK', NEW p \in Calls, FinaliseRead(p)
    PROVE  IInv'
<1>0. TypeOK /\ pc[p] = "fan" /\ task[p] = NoTasks /\ row' = row
      /\ pc \in [Calls -> Where] /\ img \in [Calls -> Disps]
    BY Shapes DEF IInv, FinaliseRead
<1>1. CASE Ends(p)
    BY <1>0, <1>1, EndsSame
<1>2. CASE ~Ends(p)
    <2>1. /\ row.status = "executing" /\ "in_flight" \notin States(row.disp)
          /\ pc' = [pc EXCEPT ![p] = "finalise"]
          /\ img' = [img EXCEPT ![p] = row.disp]
          /\ UNCHANGED <<target, src, task>>
        BY <1>2 DEF FinaliseRead, Goes
    <2>2. RowInv' /\ (Over => Over')
        BY <1>0 DEF IInv, RowInv, Over
    <2>3. pc'[p] = "finalise" /\ img'[p] = row.disp
          /\ \A q \in Calls \ {p} : pc'[q] = pc[q] /\ img'[q] = img[q]
        BY <1>0, <2>1
    <2>4. /\ Passed(row.disp) /\ RowPassed /\ NoneQueued(row.disp)
          /\ NoneInFlight(row.disp)
        BY <1>0, <2>1
           DEF IInv, CallInv, FanInv, RowPassed, RowInv, Phase, Over,
               TerminalStatus, States, NoneInFlight
    <2>5. CallInv(p)'
        BY <1>0, <2>1, <2>3, <2>4
           DEF IInv, CallInv, ClaimInv, DriveInv, FanInv, FinaliseInv,
               RowPassed, Over, NoTasks
    <2>6. \A q \in Calls \ {p} : CallInv(q)'
        BY <1>0, <2>1, <2>3, OthersSame DEF IInv
    <2>7. ClaimVersusFan' /\ OneRuns'
        <3>1. \A q \in Calls : pc'[q] = "claim" =>
                  pc[q] = "claim" /\ img'[q] = img[q]
            BY <2>3
        <3>2. \A q \in Calls : pc'[q] = "fan" => pc[q] = "fan"
            BY <2>3
        <3>3. \A q \in Calls : \A d \in Dispatches :
                  Running(q, d)' => Running(q, d)
            BY <2>1 DEF Running
        <3>4. QED
            BY <2>2, <3>1, <3>2, <3>3, NothingTakenUp
    <2>8. QED
        BY <2>2, <2>5, <2>6, <2>7 DEF IInv
<1>3. QED
    BY <1>1, <1>2

LEMMA StepFinaliseWrite ==
    ASSUME IInv, TypeOK', NEW p \in Calls, FinaliseWrite(p)
    PROVE  IInv'
<1>0. TypeOK /\ pc[p] = "finalise" /\ Ends(p) /\ img[p] \in Disps
    BY Shapes DEF IInv, FinaliseWrite
<1>1. CASE ~(row.status = "executing" /\ row.lock = NoCall)
    BY <1>0, <1>1, EndsSame DEF FinaliseWrite
<1>2. CASE row.status = "executing" /\ row.lock = NoCall
    <2> DEFINE disp == Strip(img[p])
    <2>1. row.disp = img[p] /\ NoneInFlight(img[p]) /\ NoneQueued(img[p])
          /\ Passed(img[p])
        BY <1>0, <1>2 DEF IInv, CallInv, FinaliseInv
    <2>2. disp \in Disps
          /\ \A d \in Dispatches : /\ disp[d].state = img[p][d].state
                                   /\ disp[d].lockToken = NoCall
        BY <1>0, StripType DEF Strip, Disps, PlannedDispatch
    <2>3. NoneHeld(disp) /\ NoneInFlight(disp) /\ Phase(disp) /\ Passed(disp)
        BY <2>1, <2>2
           DEF NoneHeld, NoneInFlight, NoneQueued, Phase, Passed, Dispatches
    <2>4. row' = Settle(row, Aggregate(img[p]), disp)
        BY <1>2 DEF FinaliseWrite
    <2>5. Aggregate(img[p]) \in Status
          /\ Aggregate(img[p]) \in TerminalStatus \cup {"failed_retryable"}
        BY AggregateType DEF Status, TerminalStatus
    <2>6. RowInv' /\ (Aggregate(img[p]) \in TerminalStatus => Over')
        BY <2>2, <2>3, <2>4, <2>5, SettledRow
    <2>7. CASE Over'
        BY <1>0, <2>6, <2>7, EndsOver
    <2>8. CASE ~Over'
        <3>1. row'.status = "failed_retryable" /\ row'.lock = NoCall
              /\ row'.disp = disp
            BY <2>4, <2>5, <2>6, <2>8 DEF Settle
        <3>2. RowPassed' /\ ~Over
            BY <1>2, <2>3, <3>1 DEF RowPassed, Over, TerminalStatus
        <3>3. ASSUME NEW q \in Calls \ {p},
                     pc'[q] = pc[q], img'[q] = img[q],
                     target'[q] = target[q], task'[q] = task[q]
              PROVE  CallInv(q)'
            <4>1. pc[q] \notin {"db", "retry"}
                BY <1>2, <3>2, CallsAssumption DEF IInv, CallInv, DriveInv
            <4>2. FanInv(q)'
                <5> SUFFICES ASSUME pc[q] = "fan", NEW d \in Dispatches,
                                    Running(q, d)
                             PROVE  row'.disp[d].state = "failed_terminal"
                    BY <3>2, <3>3 DEF FanInv, Running
                <5>1. \/ row.disp[d].state = "failed_terminal"
                      \/ row.disp[d].lockToken = q
                    BY <3>2 DEF IInv, CallInv, FanInv
                <5>2. row.disp[d].lockToken # q
                    BY <1>2, <2>1, CallsAssumption
                       DEF IInv, RowInv, NoneInFlight
                <5>3. QED
                    BY <2>1, <2>2, <3>1, <5>1, <5>2
            <4>3. QED
                BY <3>1, <3>2, <3>3, <4>1, <4>2
                   DEF IInv, CallInv, ClaimInv, DriveInv, FinaliseInv, NoTasks
        <3>4. QED
            BY <1>0, <2>6, <3>2, <3>3, EndsKeeps
    <2>9. QED
        BY <2>7, <2>8
<1>3. QED
    BY <1>1, <1>2

-----------------------------------------------------------------------------
(* Steps up to the claim.                                                  *)

\* A call that moves while it holds nothing.
LEMMA MoveCall ==
    ASSUME IInv, TypeOK', NEW p \in Calls, row' = row,
           pc'[p] \notin {"claim", "db", "retry", "fan", "finalise"},
           task'[p] = NoTasks, p \in Confirmers => target'[p] = DB,
           \A q \in Calls \ {p} :
                /\ pc'[q] = pc[q] /\ img'[q] = img[q]
                /\ target'[q] = target[q] /\ task'[q] = task[q]
    PROVE  IInv'
<1>1. RowInv' /\ (Over => Over')
    BY DEF IInv, RowInv, Over
<1>2. CallInv(p)'
    BY DEF CallInv, ClaimInv, DriveInv, FanInv, FinaliseInv
<1>3. \A q \in Calls : CallInv(q)'
    BY <1>2, OthersSame DEF IInv
<1>4. ClaimVersusFan' /\ OneRuns'
    <2>1. \A q \in Calls : pc'[q] = "claim" =>
              pc[q] = "claim" /\ img'[q] = img[q]
        OBVIOUS
    <2>2. \A q \in Calls : pc'[q] = "fan" => pc[q] = "fan"
        OBVIOUS
    <2>3. \A q \in Calls : \A d \in Dispatches : Running(q, d)' => Running(q, d)
        BY DEF Running, NoTasks
    <2>4. QED
        BY <1>1, <2>1, <2>2, <2>3, NothingTakenUp
<1>5. QED
    BY <1>1, <1>3, <1>4 DEF IInv

LEMMA StepReadRow ==
    ASSUME IInv, TypeOK', NEW p \in Calls, ReadRow(p)
    PROVE  IInv'
<1>0. /\ TypeOK /\ pc \in [Calls -> Where] /\ img \in [Calls -> Disps]
      /\ target \in [Calls -> Dispatches] /\ pc[p] = "idle"
      /\ row' = row /\ task' = task /\ task[p] = NoTasks
    BY Shapes DEF IInv, CallInv, ReadRow
<1>1. PICK d \in IF p \in Retriers THEN Dispatches ELSE {DB} :
        /\ target' = [target EXCEPT ![p] = d]
        /\ img' = img \/ img' = [img EXCEPT ![p] = row.disp]
        /\ Goes(p, "expiry") \/ Goes(p, "select")
    BY DEF ReadRow
<1>2. p \in Confirmers => d = DB
    BY <1>1, CallsAssumption
<1>3. target'[p] = d /\ pc'[p] \in {"expiry", "select"}
    BY <1>0, <1>1 DEF Goes
<1>4. \A q \in Calls \ {p} : pc'[q] = pc[q] /\ img'[q] = img[q]
                                 /\ target'[q] = target[q]
    BY <1>0, <1>1 DEF Goes
<1>5. QED
    BY <1>0, <1>2, <1>3, <1>4, MoveCall

\* An expired row that its sweep or a call closes.
LEMMA TerminalisedRow ==
    ASSUME NEW r \in Rows, r.status \in {"pending", "failed_retryable"},
           NoneHeld(r.disp), row' = Terminalise(r)
    PROVE  RowInv' /\ Over'
<1> DEFINE flipped == Flip(r.disp, {"failed_retryable", "queued"},
                           "failed_terminal")
<1>1. r.disp \in Disps /\ flipped \in Disps
    BY FlipType DEF Rows, Disps, DispatchState
<1>2. NoneHeld(flipped)
    BY <1>1 DEF NoneHeld, Flip, Disps, PlannedDispatch
<1>3. CASE r.status = "pending"
    <2>1. row' = Settle(r, "expired", r.disp)
        BY <1>3 DEF Terminalise
    <2>2. row'.status = "expired" /\ row'.lock = NoCall /\ row'.disp = r.disp
        BY <2>1 DEF Settle
    <2>3. QED
        BY <2>2 DEF RowInv, Over, TerminalStatus
<1>4. CASE r.status # "pending"
    <2>1. row' = Settle(r, "failed_terminal", flipped)
        BY <1>4 DEF Terminalise
    <2>2. row'.status = "failed_terminal" /\ row'.lock = NoCall
          /\ row'.disp = flipped
        BY <2>1 DEF Settle
    <2>3. QED
        BY <1>2, <2>2 DEF RowInv, Over, TerminalStatus
<1>5. QED
    BY <1>3, <1>4

LEMMA StepTerminaliseExpiredAttempt ==
    ASSUME IInv, TypeOK', NEW p \in Calls, TerminaliseExpiredAttempt(p)
    PROVE  IInv'
<1>0. /\ TypeOK /\ pc \in [Calls -> Where] /\ row \in Rows
      /\ pc[p] \in {"expiry", "lost_expiry"} /\ task[p] = NoTasks
    BY Shapes DEF IInv, CallInv, TerminaliseExpiredAttempt
<1>1. CASE Expirable(row) /\ row.status = src[p]
    <2>1. Ends(p) /\ row' = Terminalise(row) /\ NoneHeld(row.disp)
          /\ row.status \in {"pending", "failed_retryable"}
        BY <1>1 DEF TerminaliseExpiredAttempt, IInv, RowInv, Expirable
    <2>2. RowInv' /\ Over'
        BY <1>0, <2>1, TerminalisedRow
    <2>3. QED
        BY <2>1, <2>2, EndsOver
<1>2. CASE ~(Expirable(row) /\ row.status = src[p])
    <2>1. row' = row /\ (Ends(p) \/ (Goes(p, "select") /\ UNCHANGED <<local, task>>))
        BY <1>2 DEF TerminaliseExpiredAttempt
    <2>2. CASE Ends(p)
        BY <2>1, <2>2, EndsSame
    <2>3. CASE Goes(p, "select") /\ UNCHANGED <<local, task>>
        <3>1. pc'[p] = "select" /\ \A q \in Calls \ {p} : pc'[q] = pc[q]
            BY <1>0, <2>3 DEF Goes
        <3>2. p \in Confirmers => target'[p] = DB
            BY <2>3 DEF IInv, CallInv, local
        <3>3. QED
            BY <1>0, <2>1, <2>3, <3>1, <3>2, MoveCall DEF local
    <2>4. QED
        BY <2>1, <2>2, <2>3
<1>3. QED
    BY <1>1, <1>2

LEMMA StepResolveLostClaim ==
    ASSUME IInv, TypeOK', NEW p \in Calls, ResolveLostClaim(p)
    PROVE  IInv'
<1>0. /\ TypeOK /\ pc \in [Calls -> Where] /\ row' = row
      /\ pc[p] = "lost" /\ task[p] = NoTasks
    BY Shapes DEF IInv, CallInv, ResolveLostClaim
<1>1. CASE Ends(p)
    BY <1>0, <1>1, EndsSame
<1>2. CASE ~Ends(p)
    <2>1. Goes(p, "lost_expiry") /\ UNCHANGED <<target, img, task>>
        BY <1>2 DEF ResolveLostClaim
    <2>2. pc'[p] = "lost_expiry" /\ \A q \in Calls \ {p} : pc'[q] = pc[q]
        BY <1>0, <2>1 DEF Goes
    <2>3. p \in Confirmers => target'[p] = DB
        BY <2>1 DEF IInv, CallInv
    <2>4. QED
        BY <1>0, <2>1, <2>2, <2>3, MoveCall
<1>3. QED
    BY <1>1, <1>2

LEMMA StepDraftDrifted ==
    ASSUME IInv, TypeOK', NEW p \in Calls, DraftDrifted(p)
    PROVE  IInv'
<1>0. /\ TypeOK /\ pc \in [Calls -> Where] /\ row' = row
      /\ task \in [Calls -> [Dispatches -> TaskState]]
      /\ Goes(p, "stale") /\ task' = [task EXCEPT ![p] = NoTasks]
      /\ UNCHANGED local
    BY Shapes DEF IInv, DraftDrifted
<1>1. /\ pc'[p] = "stale" /\ task'[p] = NoTasks
      /\ \A q \in Calls \ {p} : pc'[q] = pc[q] /\ task'[q] = task[q]
    BY <1>0 DEF Goes
<1>2. p \in Confirmers => target'[p] = DB
    BY <1>0 DEF IInv, CallInv, local
<1>3. QED
    BY <1>0, <1>1, <1>2, MoveCall DEF local

-----------------------------------------------------------------------------
(* The claim.                                                              *)

LEMMA PlanShape ==
    /\ NoneInFlight(Plan) /\ NoneHeld(Plan) /\ ~Passed(Plan) /\ Phase(Plan)
<1>1. \A d \in Dispatches : Plan[d].state = "queued"
                             /\ Plan[d].lockToken = NoCall
    BY DEF Plan, Queued, Dispatch
<1>2. DB \in Dispatches
    BY DEF Dispatches
<1>3. QED
    BY <1>1, <1>2 DEF NoneInFlight, NoneHeld, Passed, Phase

\* A row that waits for a claim.
LEMMA WaitingRow ==
    ASSUME IInv, NEW p \in Calls, row.lock = NoCall, row.status = Claimable(p)
    PROVE  /\ row.status \in {"pending", "failed_retryable"} /\ ~Over
           /\ NoneInFlight(row.disp) /\ NoneHeld(row.disp) /\ Phase(row.disp)
           /\ p \in Confirmers => ~RowPassed
           /\ \A q \in Calls : pc[q] \notin {"db", "retry"}
           /\ \A q \in Calls : pc[q] = "fan" =>
                \A d \in Dispatches :
                    Running(q, d) => row.disp[d].state = "failed_terminal"
<1>1. row.status \in {"pending", "failed_retryable"} /\ ~Over
    BY DEF Claimable, Over, TerminalStatus
<1>2. NoneInFlight(row.disp) /\ NoneHeld(row.disp) /\ Phase(row.disp)
    BY <1>1, PlanShape DEF IInv, RowInv
<1>3. p \in Confirmers => ~RowPassed
    BY <1>1, PlanShape DEF Claimable, IInv, RowInv, RowPassed
<1>4. \A q \in Calls : pc[q] \notin {"db", "retry"}
    BY <1>1, CallsAssumption DEF IInv, CallInv, DriveInv
<1>5. \A q \in Calls : pc[q] = "fan" =>
        \A d \in Dispatches :
            Running(q, d) => row.disp[d].state = "failed_terminal"
    BY <1>1 DEF IInv, CallInv, FanInv
<1>6. QED
    BY <1>1, <1>2, <1>3, <1>4, <1>5

LEMMA StepClaimSelect ==
    ASSUME IInv, TypeOK', NEW p \in Calls, ClaimSelect(p)
    PROVE  IInv'
<1>0. /\ TypeOK /\ pc \in [Calls -> Where] /\ img \in [Calls -> Disps]
      /\ row' = row /\ task' = task /\ target' = target
      /\ pc[p] = "select" /\ task[p] = NoTasks
      /\ p \in Confirmers => target[p] = DB
    BY Shapes DEF IInv, CallInv, ClaimSelect
<1>1. CASE Goes(p, "lost") /\ UNCHANGED img
    <2>1. pc'[p] = "lost" /\ \A q \in Calls \ {p} : pc'[q] = pc[q]
        BY <1>0, <1>1 DEF Goes
    <2>2. QED
        BY <1>0, <1>1, <2>1, MoveCall
<1>2. CASE ~(Goes(p, "lost") /\ UNCHANGED img)
    <2>1. /\ row.lock = NoCall /\ row.status = Claimable(p)
          /\ p \in Retriers => row.disp[target[p]].state = "failed_retryable"
          /\ Goes(p, "claim") /\ img' = [img EXCEPT ![p] = row.disp]
        BY <1>2 DEF ClaimSelect
    <2>2. /\ pc'[p] = "claim" /\ img'[p] = row.disp
          /\ \A q \in Calls \ {p} : pc'[q] = pc[q] /\ img'[q] = img[q]
        BY <1>0, <2>1 DEF Goes
    <2>3. RowInv' /\ (Over => Over') /\ (RowPassed => RowPassed')
        BY <1>0 DEF IInv, RowInv, Over, RowPassed
    <2>4. CallInv(p)'
        <3>1. Passed(row.disp) => RowPassed'
            BY <2>3 DEF RowPassed
        <3>2. NoneInFlight(row.disp) /\ NoneHeld(row.disp) /\ Phase(row.disp)
            BY <2>1, WaitingRow
        <3>3. QED
            BY <1>0, <2>1, <2>2, <3>1, <3>2
               DEF CallInv, ClaimInv, DriveInv, FanInv, FinaliseInv
    <2>5. \A q \in Calls \ {p} : CallInv(q)'
        BY <1>0, <2>2, OthersSame DEF IInv
    <2>6. OneRuns'
        BY <1>0 DEF IInv, OneRuns, Running
    <2>7. ClaimVersusFan'
        <3> SUFFICES ASSUME NEW q \in Calls, NEW r \in Calls,
                            NEW d \in Dispatches,
                            pc'[r] = "claim", Passed(img'[r]),
                            pc'[q] = "fan", Running(q, d)'
                     PROVE  Over' \/ img'[r][d].state = "failed_terminal"
            BY DEF ClaimVersusFan
        <3>1. q # p /\ pc[q] = "fan" /\ Running(q, d)
            BY <1>0, <2>2 DEF Running
        <3>2. CASE r = p
            BY <2>1, <2>2, <3>1, <3>2, WaitingRow
        <3>3. CASE r # p
            <4>1. pc[r] = "claim" /\ Passed(img[r]) /\ img'[r] = img[r]
                BY <2>2, <3>3 DEF Passed
            <4>2. QED
                BY <2>3, <3>1, <4>1 DEF IInv, ClaimVersusFan
        <3>4. QED
            BY <3>2, <3>3
    <2>8. QED
        BY <2>3, <2>4, <2>5, <2>6, <2>7 DEF IInv
<1>3. QED
    BY <1>1, <1>2

\* What a claim writes.
LEMMA PromoteShape ==
    ASSUME NEW disp \in Disps, NEW d \in Dispatches,
           NoneInFlight(disp), NoneHeld(disp), Phase(disp),
           d = DB => ~Passed(disp), d # DB => Passed(disp)
    PROVE  /\ OnlyInFlight(Promote(disp, d), d) /\ NoneHeld(Promote(disp, d))
           /\ Phase(Promote(disp, d))
           /\ Passed(Promote(disp, d)) <=> d # DB
           /\ \A e \in Dispatches \ {d} : Promote(disp, d)[e] = disp[e]
<1> DEFINE new == Promote(disp, d)
<1>1. /\ new[d].state = "in_flight" /\ new[d].lockToken = disp[d].lockToken
      /\ \A e \in Dispatches \ {d} : new[e] = disp[e]
    BY DEF Promote, Dispatch, Disps
<1>2. DB \in Dispatches
    BY DEF Dispatches
<1> HIDE DEF new
<1>3. OnlyInFlight(new, d) /\ NoneHeld(new)
    BY <1>1 DEF OnlyInFlight, NoneInFlight, NoneHeld
<1>4. Passed(new) <=> d # DB
    BY <1>1, <1>2 DEF Passed
<1>5. Phase(new)
    BY <1>1, <1>2, <1>4 DEF Phase, NoneQueued
<1>6. QED
    BY <1>1, <1>3, <1>4, <1>5 DEF new

LEMMA StepClaimUpdate ==
    ASSUME IInv, TypeOK', NEW p \in Calls, ClaimUpdate(p)
    PROVE  IInv'
<1> DEFINE t == target[p]
           claimed == Promote(img[p], t)
<1>0. /\ TypeOK /\ pc \in [Calls -> Where] /\ img \in [Calls -> Disps]
      /\ row \in Rows /\ task \in [Calls -> [Dispatches -> TaskState]]
      /\ target' = target /\ t \in Dispatches
      /\ pc[p] = "claim" /\ task[p] = NoTasks
      /\ p \in Confirmers => t = DB
    BY Shapes DEF IInv, CallInv, ClaimUpdate
<1>1. CASE ~ClaimWhere(p)
    <2>1. Goes(p, "lost") /\ UNCHANGED <<row, img, task>>
        BY <1>1 DEF ClaimUpdate
    <2>2. pc'[p] = "lost" /\ \A q \in Calls \ {p} : pc'[q] = pc[q]
        BY <1>0, <2>1 DEF Goes
    <2>3. QED
        BY <1>0, <2>1, <2>2, MoveCall
<1>2. CASE ClaimWhere(p)
    <2>1. /\ row.lock = NoCall /\ row.status = Claimable(p)
          /\ p \in Retriers => row.disp[t].state = "failed_retryable"
        BY <1>2 DEF ClaimWhere
    <2>2. /\ row.status \in {"pending", "failed_retryable"} /\ ~Over
          /\ p \in Confirmers => ~RowPassed
          /\ \A q \in Calls : pc[q] \notin {"db", "retry"}
          /\ \A q \in Calls : pc[q] = "fan" =>
                \A d \in Dispatches :
                    Running(q, d) => row.disp[d].state = "failed_terminal"
        BY <2>1, WaitingRow
    <2>3. /\ row' = [row EXCEPT !.status = "executing", !.lock = p,
                                !.disp = claimed]
          /\ img' = [img EXCEPT ![p] = claimed]
          /\ pc' = [pc EXCEPT ![p] = IF t = DB THEN "db" ELSE "retry"]
          /\ task' = [task EXCEPT ![p][t] = "ready"]
        BY <1>2 DEF ClaimUpdate, Goes
    <2>4. /\ NoneInFlight(img[p]) /\ NoneHeld(img[p]) /\ Phase(img[p])
          /\ p \in Retriers => img[p][t].state = "failed_retryable"
          /\ Passed(img[p]) => RowPassed
        BY <1>0 DEF IInv, CallInv, ClaimInv
    <2>5. (t = DB => ~Passed(img[p])) /\ (t # DB => Passed(img[p]))
        <3>1. CASE p \in Confirmers
            BY <1>0, <2>2, <2>4, <3>1
        <3>2. CASE p \in Retriers
            BY <1>0, <2>4, <3>2 DEF Phase, Passed
        <3>3. QED
            BY <3>1, <3>2 DEF Calls
    <2>6. /\ OnlyInFlight(claimed, t) /\ NoneHeld(claimed) /\ Phase(claimed)
          /\ Passed(claimed) <=> t # DB
          /\ \A e \in Dispatches \ {t} : claimed[e] = img[p][e]
        BY <1>0, <2>4, <2>5, PromoteShape
    <2> HIDE DEF claimed
    <2>7. row'.status = "executing" /\ row'.lock = p /\ row'.disp = claimed
        BY <1>0, <2>3 DEF Rows
    <2>8. /\ pc'[p] = IF t = DB THEN "db" ELSE "retry"
          /\ img'[p] = claimed
          /\ \A d \in Dispatches \ {t} : task'[p][d] = "none"
          /\ \A q \in Calls \ {p} : /\ pc'[q] = pc[q] /\ img'[q] = img[q]
                                      /\ task'[q] = task[q]
        BY <1>0, <2>3 DEF NoTasks
    <2>9. RowInv'
        BY <1>0, <2>6, <2>7, CallsAssumption DEF RowInv
    <2>10. CallInv(p)'
        <3>1. pc'[p] \in {"db", "retry"} /\ (pc'[p] = "db" <=> t = DB)
            BY <2>8
        <3>2. DriveInv(p)'
            BY <1>0, <2>6, <2>7, <2>8, <3>1 DEF DriveInv
        <3>3. QED
            BY <1>0, <3>1, <3>2 DEF CallInv, ClaimInv, FanInv, FinaliseInv
    <2>11. RowPassed => t # DB /\ p \in Retriers
        BY <2>1, <2>2 DEF RowPassed, Passed, Calls
    <2>12. RowPassed => Passed(row.disp)' /\ RowPassed'
        BY <2>6, <2>7, <2>11 DEF RowPassed
    <2>13. ASSUME NEW q \in Calls \ {p} PROVE CallInv(q)'
        <3>1. ClaimInv(q)'
            BY <1>0, <2>8, <2>12 DEF IInv, CallInv, ClaimInv
        <3>2. FanInv(q)'
            <4> SUFFICES ASSUME pc[q] = "fan"
                         PROVE  /\ RowPassed'
                                /\ \A d \in Dispatches : Running(q, d) =>
                                      row'.disp[d].state = "failed_terminal"
                BY <2>8 DEF FanInv, Running
            <4>1. RowPassed
                BY DEF IInv, CallInv, FanInv
            <4>2. ASSUME NEW d \in Dispatches, Running(q, d)
                  PROVE  row'.disp[d].state = "failed_terminal"
                <5>1. img[p][d].state = "failed_terminal"
                    BY <1>0, <2>2, <2>5, <2>11, <4>1, <4>2
                       DEF IInv, ClaimVersusFan
                <5>2. d # t
                    BY <2>4, <2>11, <4>1, <5>1
                <5>3. QED
                    BY <2>6, <2>7, <5>1, <5>2
            <4>3. QED
                BY <2>12, <4>1, <4>2
        <3>3. FinaliseInv(q)'
            BY <2>7, <2>8, <2>12, CallsAssumption
               DEF IInv, CallInv, FinaliseInv
        <3>4. pc'[q] \notin {"db", "retry"}
            BY <2>2, <2>8
        <3>5. /\ q \in Confirmers => target'[q] = DB
              /\ pc'[q] \notin {"db", "retry", "fan"} => task'[q] = NoTasks
            BY <1>0, <2>8 DEF IInv, CallInv
        <3>6. QED
            BY <3>1, <3>2, <3>3, <3>4, <3>5 DEF CallInv, DriveInv
    <2>14. ClaimVersusFan'
        <3> SUFFICES ASSUME NEW q \in Calls, NEW r \in Calls,
                            NEW d \in Dispatches,
                            pc'[r] = "claim", Passed(img'[r]),
                            pc'[q] = "fan", Running(q, d)'
                     PROVE  img'[r][d].state = "failed_terminal"
            BY DEF ClaimVersusFan
        <3>1. q # p /\ r # p
            BY <2>8
        <3>2. /\ pc[q] = "fan" /\ Running(q, d)
              /\ pc[r] = "claim" /\ Passed(img[r]) /\ img'[r] = img[r]
            BY <2>8, <3>1 DEF Running, Passed
        <3>3. QED
            BY <2>2, <3>2 DEF IInv, ClaimVersusFan
    <2>15. \A q \in Calls \ {p} : ~Running(q, t)
        <3> SUFFICES ASSUME NEW q \in Calls \ {p}, Running(q, t)
                     PROVE  FALSE
            OBVIOUS
        <3>1. pc[q] = "fan"
            BY <1>0, <2>2 DEF IInv, CallInv, Running, NoTasks
        <3>2. RowPassed /\ row.disp[t].state = "failed_terminal"
            BY <1>0, <2>2, <3>1 DEF IInv, CallInv, FanInv
        <3>3. QED
            BY <2>1, <2>11, <3>2
    <2>16. OneRuns'
        <3> SUFFICES ASSUME NEW q \in Calls, NEW r \in Calls,
                            NEW d \in Dispatches,
                            Running(q, d)', Running(r, d)', q # r
                     PROVE  FALSE
            BY DEF OneRuns
        <3>1. q = p \/ r = p
            BY <2>8 DEF IInv, OneRuns, Running
        <3>2. d = t
            BY <2>8, <3>1 DEF Running
        <3>3. QED
            BY <2>8, <2>15, <3>1, <3>2 DEF Running
    <2>17. QED
        BY <2>9, <2>10, <2>13, <2>14, <2>16 DEF IInv
<1>3. QED
    BY <1>1, <1>2

-----------------------------------------------------------------------------
(* Running a dispatch.                                                     *)

\* A dispatch that runs moves on.
LEMMA TaskMoves ==
    ASSUME IInv, TypeOK', NEW p \in Calls, NEW d \in Dispatches,
           NEW s \in TaskState, task[p][d] \in {"ready", "calling"},
           task' = [task EXCEPT ![p][d] = s],
           UNCHANGED <<row, pc, target, img>>
    PROVE  IInv'
<1>0. TypeOK /\ task \in [Calls -> [Dispatches -> TaskState]]
    BY Shapes DEF IInv
<1>1. /\ \A q \in Calls : \A e \in Dispatches :
             Running(q, e)' => Running(q, e)
      /\ \A e \in Dispatches \ {d} : task'[p][e] = task[p][e]
      /\ \A q \in Calls \ {p} : task'[q] = task[q]
    BY <1>0 DEF Running
<1>2. RowInv' /\ (Over => Over')
    BY DEF IInv, RowInv, Over
<1>3. pc[p] \in {"db", "retry", "fan"}
    BY DEF IInv, CallInv, NoTasks
<1>4. CallInv(p)'
    <2>1. DriveInv(p)'
        <3>1. pc[p] \in {"db", "retry"} => target[p] = d
            BY DEF IInv, CallInv, DriveInv
        <3>2. QED
            BY <1>1, <3>1 DEF IInv, CallInv, DriveInv, Over
    <2>2. FanInv(p)'
        BY <1>1 DEF IInv, CallInv, FanInv, RowPassed, Over
    <2>3. QED
        BY <1>3, <2>1, <2>2 DEF IInv, CallInv, ClaimInv, FinaliseInv
<1>5. \A q \in Calls \ {p} : CallInv(q)'
    BY <1>1, OthersSame DEF IInv
<1>6. QED
    BY <1>1, <1>2, <1>4, <1>5, TasksSettle

LEMMA StepDispatch ==
    ASSUME IInv, TypeOK', NEW p \in Calls, NEW d \in Dispatches,
           \/ StartDispatch(p, d)
           \/ FailBeforeDispatch(p, d)
           \/ DispatchReturns(p, d)
    PROVE  IInv'
<1>1. task[p][d] \in {"ready", "calling"}
    BY DEF StartDispatch, FailBeforeDispatch, DispatchReturns
<1>2. UNCHANGED <<row, pc, target, img>>
    BY DEF StartDispatch, FailBeforeDispatch, DispatchReturns, local
<1>3. PICK s \in TaskState : task' = [task EXCEPT ![p][d] = s]
    BY DEF StartDispatch, FailBeforeDispatch, DispatchReturns, TaskState,
           Returned
<1>4. QED
    BY <1>1, <1>2, <1>3, TaskMoves

-----------------------------------------------------------------------------
(* The surroundings.                                                       *)

LEMMA StepCreate ==
    ASSUME IInv, TypeOK', CreateApplyAttempt
    PROVE  IInv'
<1>1. row.status = "none" /\ UNCHANGED <<pc, local, task>>
      /\ row'.status = "pending" /\ row'.lock = NoCall /\ row'.disp = Plan
    BY DEF CreateApplyAttempt, NewRow
<1>2. ~Over /\ ~RowPassed /\ row.lock = NoCall
    BY <1>1, PlanShape DEF IInv, RowInv, RowPassed, Over, TerminalStatus
<1>3. RowInv'
    BY <1>1, PlanShape DEF RowInv
<1>4. ASSUME NEW q \in Calls PROVE CallInv(q)'
    <2>1. pc[q] \notin {"db", "retry", "fan", "finalise"}
          /\ (pc[q] = "claim" => ~Passed(img[q]))
        BY <1>2, CallsAssumption
           DEF IInv, CallInv, ClaimInv, DriveInv, FanInv, FinaliseInv
    <2>2. QED
        BY <1>1, <2>1
           DEF IInv, CallInv, ClaimInv, DriveInv, FanInv, FinaliseInv, local
<1>5. QED
    BY <1>1, <1>2, <1>3, <1>4, CallsStay

LEMMA StepGone ==
    ASSUME IInv, TypeOK', row' = NewRow("gone"), UNCHANGED <<pc, local, task>>
    PROVE  IInv'
<1>1. row'.status = "gone" /\ row'.lock = NoCall /\ row'.disp = Plan
    BY DEF NewRow
<1>2. RowInv' /\ Over'
    BY <1>1, PlanShape DEF RowInv, Over
<1>3. QED
    BY <1>2, CallsStayOver

LEMMA StepDeadlinePasses ==
    ASSUME IInv, TypeOK', DeadlinePasses
    PROVE  IInv'
<1>1. row \in Rows
    BY Shapes DEF IInv
<1>2. /\ row'.status = row.status /\ row'.lock = row.lock
      /\ row'.disp = row.disp /\ UNCHANGED <<pc, local, task>>
    BY <1>1 DEF DeadlinePasses, Rows
<1>3. RowInv' /\ (Over => Over')
    BY <1>2 DEF IInv, RowInv, Over
<1>4. \A q \in Calls : CallInv(q)'
    BY <1>2, OthersSame DEF IInv, local
<1>5. QED
    BY <1>2, <1>3, <1>4, CallsStay

\* A stale row lock closes the attempt.
LEMMA SweptLock ==
    ASSUME IInv, row.lock # NoCall
    PROVE  /\ CleanedUp(row, FALSE) = row
           /\ CleanedUp(row, TRUE).status = "failed_terminal"
           /\ row' = CleanedUp(row, TRUE) => RowInv' /\ Over'
<1> DEFINE disp == Strip(Flip(row.disp,
                        {"in_flight", "queued", "failed_retryable"},
                        "failed_terminal"))
           new == Settle(row, "failed_terminal", disp)
<1>1. CleanedUp(row, FALSE) = row
    BY DEF CleanedUp, FinaliseAbandoned, TerminaliseExpired, Expirable
<1>2. /\ new.status = "failed_terminal" /\ new.lock = NoCall
      /\ new.disp = disp
    BY DEF Settle
<1>3. RecoverStaleLock(row) = new
    BY DEF RecoverStaleLock
<1>4. NoneHeld(disp)
    <2>1. Flip(row.disp, {"in_flight", "queued", "failed_retryable"},
               "failed_terminal") \in Disps
        BY Shapes, FlipType DEF IInv, DispatchState
    <2>2. QED
        BY <2>1 DEF NoneHeld, Strip, Disps, PlannedDispatch
<1> HIDE DEF new, disp
<1>5. CleanedUp(row, TRUE) = new
    BY <1>2, <1>3 DEF CleanedUp, RecoverStaleDispatchClaims,
                      FinaliseAbandoned, TerminaliseExpired, Expirable
<1>6. row' = new => RowInv' /\ Over'
    BY <1>2, <1>4 DEF RowInv, Over, TerminalStatus
<1>7. QED
    BY <1>1, <1>2, <1>5, <1>6

\* A row that nobody drives is left alone or expired.
LEMMA SweptUnclaimed ==
    ASSUME IInv, row.lock = NoCall, row.status # "executing",
           NEW aged \in BOOLEAN, row' = CleanedUp(row, aged)
    PROVE  row' = row \/ (RowInv' /\ Over')
<1>1. row' = TerminaliseExpired(row)
    BY DEF CleanedUp, RecoverStaleLock, RecoverStaleDispatchClaims,
           FinaliseAbandoned
<1>2. CASE ~Expirable(row)
    BY <1>1, <1>2 DEF TerminaliseExpired
<1>3. CASE Expirable(row)
    <2>1. row \in Rows /\ row' = Terminalise(row) /\ NoneHeld(row.disp)
          /\ row.status \in {"pending", "failed_retryable"}
        BY <1>1, <1>3, Shapes
           DEF TerminaliseExpired, Expirable, IInv, RowInv
    <2>2. QED
        BY <2>1, TerminalisedRow
<1>4. QED
    BY <1>2, <1>3

\* The sweep of dispatch claims: those in flight fail for good.
LEMMA RecoveredClaims ==
    ASSUME IInv, row.lock = NoCall, row.status = "executing",
           NEW r, r = RecoverStaleDispatchClaims(RecoverStaleLock(row))
    PROVE  /\ r \in Rows /\ r.status = "executing" /\ r.lock = NoCall
           /\ NoneInFlight(r.disp) /\ NoneHeld(r.disp)
           /\ NoneQueued(r.disp) /\ Passed(r.disp)
           /\ \A d \in Dispatches :
                 row.disp[d].state \in {"in_flight", "failed_terminal"} =>
                    r.disp[d].state = "failed_terminal"
<1>0. row \in Rows /\ row.disp \in Disps
    BY Shapes DEF IInv
<1> DEFINE disp == [d \in Dispatches |->
                IF /\ row.disp[d].state = "in_flight"
                   /\ row.disp[d].lockToken # NoCall
                THEN Dispatch("failed_terminal", row.disp[d].attemptCount, NoCall)
                ELSE row.disp[d]]
<1>1. r = [row EXCEPT !.disp = disp]
    BY DEF RecoverStaleDispatchClaims, RecoverStaleLock
<1>2. /\ Passed(row.disp) /\ NoneQueued(row.disp)
      /\ \A d \in Dispatches : row.disp[d].lockToken # NoCall
                                 <=> row.disp[d].state = "in_flight"
    BY DEF IInv, RowInv, Phase
<1>3. \A d \in Dispatches :
        /\ row.disp[d].state = "in_flight" =>
              disp[d].state = "failed_terminal" /\ disp[d].lockToken = NoCall
        /\ row.disp[d].state # "in_flight" =>
              disp[d] = row.disp[d] /\ disp[d].lockToken = NoCall
    BY <1>2 DEF Dispatch
<1>4. disp \in Disps
    BY <1>0 DEF Disps, PlannedDispatch, Dispatch, DispatchState
<1>5. DB \in Dispatches
    BY DEF Dispatches
<1> HIDE DEF disp
<1>6. r \in Rows /\ r.status = "executing" /\ r.lock = NoCall /\ r.disp = disp
    BY <1>0, <1>1, <1>4 DEF Rows, Disps
<1>7. QED
    BY <1>2, <1>3, <1>5, <1>6 DEF NoneInFlight, NoneHeld, NoneQueued, Passed

\* A row that the sweep settles from its dispatches.
LEMMA SweptSettled ==
    ASSUME NEW r \in Rows, r.status = "executing", r.lock = NoCall,
           NoneInFlight(r.disp), NoneHeld(r.disp), NoneQueued(r.disp),
           Passed(r.disp), row' = TerminaliseExpired(FinaliseAbandoned(r))
    PROVE  RowInv'
           /\ (Over' \/ (row'.status = "failed_retryable" /\ row'.disp = r.disp))
<1> DEFINE a == Aggregate(r.disp)
           new == Settle(r, a, r.disp)
<1>1. FinaliseAbandoned(r) = new
    BY DEF FinaliseAbandoned, NoneInFlight, States
<1>2. a \in {"failed_retryable", "failed_terminal", "succeeded"}
    BY AggregateType
<1>3. new \in Rows /\ new.status = a /\ new.lock = NoCall /\ new.disp = r.disp
    BY <1>2, SettleType DEF Settle, Rows, Disps, Status, TerminalStatus
<1> HIDE DEF new, a
<1>4. row' = TerminaliseExpired(new)
    BY <1>1
<1>5. CASE Expirable(new)
    <2>1. /\ new.status \in {"pending", "failed_retryable"}
          /\ NoneHeld(new.disp) /\ row' = Terminalise(new)
        BY <1>3, <1>4, <1>5 DEF TerminaliseExpired, Expirable
    <2>2. QED
        BY <1>3, <2>1, TerminalisedRow
<1>6. CASE ~Expirable(new)
    <2>1. row' = new
        BY <1>4, <1>6 DEF TerminaliseExpired
    <2>2. QED
        BY <1>2, <1>3, <2>1 DEF RowInv, Over, TerminalStatus, Phase
<1>7. QED
    BY <1>5, <1>6

\* The row that a sweep leaves when it settles what was abandoned.
LEMMA SweptAbandoned ==
    ASSUME IInv, TypeOK', row.lock = NoCall, row.status = "executing",
           NEW r \in Rows, r.status = "executing", r.lock = NoCall,
           NoneInFlight(r.disp), NoneHeld(r.disp), NoneQueued(r.disp),
           Passed(r.disp), row' = TerminaliseExpired(FinaliseAbandoned(r)),
           \A d \in Dispatches :
              row.disp[d].state \in {"in_flight", "failed_terminal"} =>
                r.disp[d].state = "failed_terminal",
           UNCHANGED <<pc, local, task>>
    PROVE  IInv'
<1>1. RowInv'
      /\ (Over' \/ (row'.status = "failed_retryable" /\ row'.disp = r.disp))
    BY SweptSettled
<1>2. CASE Over'
    BY <1>1, <1>2, CallsStayOver
<1>3. CASE ~Over'
    <2>1. row'.disp = r.disp /\ RowPassed' /\ ~Over
        BY <1>1, <1>3 DEF RowPassed, Over, TerminalStatus
    <2>2. row'.status = "failed_retryable"
        BY <1>1, <1>3
    <2>3. ASSUME NEW q \in Calls PROVE CallInv(q)'
        <3>1. pc[q] \notin {"db", "retry"}
            BY <2>1, CallsAssumption DEF IInv, CallInv, DriveInv
        <3>2. FanInv(q)'
            <4> SUFFICES ASSUME pc[q] = "fan", NEW d \in Dispatches,
                                Running(q, d)
                         PROVE  row'.disp[d].state = "failed_terminal"
                BY <2>1 DEF FanInv, Running, local
            <4>1. \/ row.disp[d].state = "failed_terminal"
                  \/ row.disp[d].lockToken = q
                BY <2>1 DEF IInv, CallInv, FanInv
            <4>2. row.disp[d].lockToken = q => row.disp[d].state = "in_flight"
                BY CallsAssumption DEF IInv, RowInv
            <4>3. QED
                BY <2>1, <4>1, <4>2
        <3>3. QED
            BY <2>1, <2>2, <3>1, <3>2
               DEF IInv, CallInv, ClaimInv, DriveInv, FinaliseInv, local
    <2>4. QED
        BY <1>1, <2>1, <2>3, CallsStay
<1>4. QED
    BY <1>2, <1>3

LEMMA StepCleanup ==
    ASSUME IInv, TypeOK', Cleanup
    PROVE  IInv'
<1>1. PICK aged \in BOOLEAN : row' = CleanedUp(row, aged)
    BY DEF Cleanup
<1>2. row' # row /\ UNCHANGED <<pc, local, task>>
    BY DEF Cleanup
<1>3. CASE row.lock # NoCall
    <2>1. aged = TRUE
        BY <1>1, <1>2, <1>3, SweptLock
    <2>2. RowInv' /\ Over'
        BY <1>1, <1>3, <2>1, SweptLock
    <2>3. QED
        BY <1>2, <2>2, CallsStayOver
<1>4. CASE row.lock = NoCall /\ row.status # "executing"
    <2>1. RowInv' /\ Over'
        BY <1>1, <1>2, <1>4, SweptUnclaimed
    <2>2. QED
        BY <1>2, <2>1, CallsStayOver
<1>5. CASE row.lock = NoCall /\ row.status = "executing"
    <2>0. row \in Rows
        BY Shapes DEF IInv
    <2>1. CASE aged
        <3> DEFINE r == RecoverStaleDispatchClaims(RecoverStaleLock(row))
        <3>1. /\ r \in Rows /\ r.status = "executing" /\ r.lock = NoCall
              /\ NoneInFlight(r.disp) /\ NoneHeld(r.disp)
              /\ NoneQueued(r.disp) /\ Passed(r.disp)
              /\ \A d \in Dispatches :
                    row.disp[d].state \in {"in_flight", "failed_terminal"} =>
                        r.disp[d].state = "failed_terminal"
            BY <1>5, RecoveredClaims
        <3>2. row' = TerminaliseExpired(FinaliseAbandoned(r))
            BY <1>1, <2>1 DEF CleanedUp
        <3> HIDE DEF r
        <3>3. QED
            BY <1>2, <1>5, <3>1, <3>2, SweptAbandoned
    <2>2. CASE ~aged
        <3>1. row' = TerminaliseExpired(FinaliseAbandoned(row))
            BY <1>1, <2>2 DEF CleanedUp
        <3>2. NoneInFlight(row.disp)
            BY <1>2, <1>5, <3>1
               DEF FinaliseAbandoned, TerminaliseExpired, Expirable, States,
                   NoneInFlight
        <3>3. NoneHeld(row.disp) /\ NoneQueued(row.disp) /\ Passed(row.disp)
            BY <1>5, <3>2 DEF IInv, RowInv, NoneInFlight, NoneHeld, Phase
        <3>4. \A d \in Dispatches :
                row.disp[d].state \in {"in_flight", "failed_terminal"} =>
                    row.disp[d].state = "failed_terminal"
            BY <3>2 DEF NoneInFlight
        <3>5. QED
            BY <1>2, <1>5, <2>0, <3>1, <3>2, <3>3, <3>4, SweptAbandoned
    <2>3. QED
        BY <2>1, <2>2
<1>6. QED
    BY <1>3, <1>4, <1>5

-----------------------------------------------------------------------------
(* The invariant and what follows from it.                                 *)

LEMMA IInvInit == Init => IInv
<1> SUFFICES ASSUME Init PROVE IInv
    OBVIOUS
<1>1. TypeOK
    BY PlanType, NewRowType
       DEF Init, TypeOK, Rows, Disps, Where, Dispatches, Status, NoTasks,
           TaskState
<1>2. row.status = "none" /\ row.lock = NoCall /\ row.disp = Plan
    BY DEF Init, NewRow
<1>3. RowInv
    BY <1>2, PlanShape DEF RowInv
<1>4. \A p \in Calls : pc[p] = "idle" /\ task[p] = NoTasks /\ target[p] = DB
    BY DEF Init
<1>5. \A p \in Calls : CallInv(p)
    BY <1>4 DEF CallInv, ClaimInv, DriveInv, FanInv, FinaliseInv
<1>6. ClaimVersusFan /\ OneRuns
    BY <1>4 DEF ClaimVersusFan, OneRuns, Running, NoTasks
<1>7. QED
    BY <1>1, <1>3, <1>5, <1>6 DEF IInv

LEMMA IInvStep == IInv /\ [Next]_vars => IInv'
<1> SUFFICES ASSUME IInv, [Next]_vars PROVE IInv'
    OBVIOUS
<1>0. TypeOK'
    BY TypeStep DEF IInv
<1>1. CASE CreateApplyAttempt
    BY <1>0, <1>1, StepCreate
<1>2. ASSUME NEW p \in Calls, ReadRow(p) PROVE IInv'
    BY <1>0, <1>2, StepReadRow
<1>3. ASSUME NEW p \in Calls, Advance(p) PROVE IInv'
    <2>1. CASE TerminaliseExpiredAttempt(p)
        BY <1>0, <2>1, StepTerminaliseExpiredAttempt
    <2>2. CASE ClaimSelect(p)
        BY <1>0, <2>2, StepClaimSelect
    <2>3. CASE ClaimUpdate(p)
        BY <1>0, <2>3, StepClaimUpdate
    <2>4. CASE ResolveLostClaim(p)
        BY <1>0, <2>4, StepResolveLostClaim
    <2>5. ASSUME NEW d \in Dispatches,
                 \/ StartDispatch(p, d)
                 \/ FailBeforeDispatch(p, d)
                 \/ DispatchReturns(p, d)
          PROVE  IInv'
        BY <1>0, <2>5, StepDispatch
    <2>6. ASSUME NEW d \in Dispatches, CommitOneDispatchResult(p, d)
          PROVE  IInv'
        BY <1>0, <2>6, StepCommitOne
    <2>7. CASE DraftDrifted(p)
        BY <1>0, <2>7, StepDraftDrifted
    <2>8. CASE WriteStaleAndClear(p)
        BY <1>0, <2>8, StepWriteStale
    <2>9. CASE CommitDbFailure(p)
        BY <1>0, <2>9, StepCommitDbFailure
    <2>10. CASE CommitDbSuccessAndFanOut(p)
        BY <1>0, <2>10, StepFanOut
    <2>11. CASE CommitRetry(p)
        BY <1>0, <2>11, StepCommitRetry
    <2>12. CASE FinaliseRead(p)
        BY <1>0, <2>12, StepFinaliseRead
    <2>13. CASE FinaliseWrite(p)
        BY <1>0, <2>13, StepFinaliseWrite
    <2>14. QED
        BY <1>3, <2>1, <2>2, <2>3, <2>4, <2>5, <2>6, <2>7, <2>8, <2>9, <2>10,
           <2>11, <2>12, <2>13 DEF Advance
<1>4. ASSUME NEW p \in Calls, Crash(p) PROVE IInv'
    <2>1. Ends(p) /\ row' = row
        BY <1>4 DEF Crash
    <2>2. QED
        BY <1>0, <2>1, EndsSame
<1>5. CASE DeadlinePasses
    BY <1>0, <1>5, StepDeadlinePasses
<1>6. CASE Cleanup
    BY <1>0, <1>6, StepCleanup
<1>7. CASE PurgeRetained
    <2>1. row' = NewRow("gone") /\ UNCHANGED <<pc, local, task>>
        BY <1>7 DEF PurgeRetained
    <2>2. QED
        BY <1>0, <2>1, StepGone
<1>8. CASE AccountDeleted
    <2>1. row' = NewRow("gone") /\ UNCHANGED <<pc, local, task>>
        BY <1>8 DEF AccountDeleted
    <2>2. QED
        BY <1>0, <2>1, StepGone
<1>9. CASE UNCHANGED vars
    <2>1. row' = row /\ UNCHANGED <<pc, local, task>>
        BY <1>9 DEF vars, local
    <2>2. RowInv' /\ (Over => Over')
        BY <2>1 DEF IInv, RowInv, Over
    <2>3. \A q \in Calls : CallInv(q)'
        BY <2>1, OthersSame DEF IInv, local
    <2>4. QED
        BY <1>0, <2>1, <2>2, <2>3, CallsStay
<1>10. QED
    BY <1>1, <1>2, <1>3, <1>4, <1>5, <1>6, <1>7, <1>8, <1>9 DEF Next

LEMMA Inductive == Spec => []IInv
BY IInvInit, IInvStep, PTL DEF Spec

LEMMA IInvImplies ==
    IInv => ClaimDiscipline /\ OneRequestPerDispatch /\ RetryFindsNothingQueued
<1> SUFFICES ASSUME IInv
             PROVE  /\ ClaimDiscipline /\ OneRequestPerDispatch
                    /\ RetryFindsNothingQueued
    OBVIOUS
<1>1. ClaimDiscipline
    <2>1. ASSUME row.lock # NoCall
          PROVE  /\ row.status = "executing" /\ Tokens(row.disp) = {}
                 /\ \E d \in Dispatches : InFlight(row.disp) = {d}
        BY <2>1 DEF IInv, RowInv, NoneHeld, OnlyInFlight, Tokens, InFlight
    <2>2. ASSUME row.lock = NoCall, row.status = "executing"
          PROVE  /\ row.disp[DB].state = "succeeded"
                 /\ Tokens(row.disp) = InFlight(row.disp)
                 /\ "queued" \notin States(row.disp)
        <3>1. Passed(row.disp) /\ NoneQueued(row.disp)
            BY <2>2 DEF IInv, RowInv, Phase
        <3>2. Tokens(row.disp) = InFlight(row.disp)
            BY <2>2 DEF IInv, RowInv, Tokens, InFlight
        <3>3. QED
            BY <3>1, <3>2 DEF Passed, NoneQueued, States
    <2>3. row.status # "executing" => Tokens(row.disp) = {}
        BY DEF IInv, RowInv, NoneHeld, Tokens
    <2>4. QED
        BY <2>1, <2>2, <2>3 DEF ClaimDiscipline
<1>2. OneRequestPerDispatch
    BY DEF IInv, OneRuns, Running, OneRequestPerDispatch
<1>3. RetryFindsNothingQueued
    <2> SUFFICES ASSUME NEW p \in Calls, pc[p] = "retry"
                 PROVE  NoneQueued(img[p])
        BY DEF RetryFindsNothingQueued, NoneQueued, States
    <2>1. OnlyInFlight(img[p], target[p]) /\ Phase(img[p]) /\ target[p] # DB
        BY DEF IInv, CallInv, DriveInv
    <2>2. target[p] \in Dispatches
        BY Shapes DEF IInv
    <2>3. QED
        BY <2>1, <2>2 DEF OnlyInFlight, Phase
<1>4. QED
    BY <1>1, <1>2, <1>3

\* However many confirms and retries overlap, crash or outlive their claim:
\* an executing row is held by one row lock or by one token per dispatch in
\* flight, no dispatch is driven by two calls at a time, and a retry finds no
\* sibling in the queue that it would have to run.
LEMMA ClaimsExclusive ==
    Spec => [](ClaimDiscipline /\ OneRequestPerDispatch
                               /\ RetryFindsNothingQueued)
BY Inductive, IInvImplies, PTL

\* However many confirms and retries overlap, crash or outlive their claim: an
\* executing row is held by one row lock or by one token per dispatch in flight
\* (apply-attempts-lifecycle.ts, the claims of confirm, retry and the fan-out).
THEOREM ClaimsKeepDiscipline == Spec => []ClaimDiscipline
BY ClaimsExclusive, PTL

\* No dispatch is driven by two calls at a time (the conditional UPDATE that takes
\* a dispatch token, apply-attempts-lifecycle.ts).
THEOREM OneRequestAtATime == Spec => []OneRequestPerDispatch
BY ClaimsExclusive, PTL

\* A retry finds no sibling dispatch in the queue that it would have to run
\* (apply-attempts-lifecycle.ts, retryDispatch).
THEOREM RetryRunsAlone == Spec => []RetryFindsNothingQueued
BY ClaimsExclusive, PTL

\* A row that is over is swept without effect.
LEMMA SweepSparesOver ==
    ASSUME IInv, row.status \in TerminalStatus, NEW aged \in BOOLEAN
    PROVE  CleanedUp(row, aged) = row
<1>1. row.lock = NoCall /\ row.status # "executing"
      /\ row.status \notin {"pending", "failed_retryable"}
    BY DEF IInv, RowInv, TerminalStatus
<1>2. QED
    BY <1>1 DEF CleanedUp, RecoverStaleLock, RecoverStaleDispatchClaims,
                FinaliseAbandoned, TerminaliseExpired, Expirable

LEMMA OverIsFinal ==
    ASSUME IInv, [Next]_vars, row.status \in TerminalStatus
    PROVE  \/ row'.status = "gone"
           \/ row' = [row EXCEPT !.overdue = row'.overdue]
<1>0. row \in Rows /\ row.disp \in Disps
    BY Shapes DEF IInv
<1>1. /\ row.lock = NoCall /\ NoneHeld(row.disp)
      /\ row.status \notin {"none", "executing", "pending", "failed_retryable"}
    BY DEF IInv, RowInv, TerminalStatus
<1>2. row' = row => row' = [row EXCEPT !.overdue = row'.overdue]
    BY <1>0 DEF Rows
<1>3. ASSUME NEW p \in Calls, ReadRow(p) \/ Crash(p) PROVE row' = row
    BY <1>3 DEF ReadRow, Crash
<1>4. ASSUME NEW p \in Calls, Advance(p) PROVE row' = row
    <2>1. p # NoCall /\ row.lock # p
        BY <1>1, CallsAssumption
    <2>2. CASE TerminaliseExpiredAttempt(p)
        BY <1>1, <2>2 DEF TerminaliseExpiredAttempt, Expirable
    <2>3. CASE ClaimSelect(p) \/ ResolveLostClaim(p) \/ DraftDrifted(p)
               \/ FinaliseRead(p)
        BY <2>3 DEF ClaimSelect, ResolveLostClaim, DraftDrifted, FinaliseRead
    <2>4. CASE ClaimUpdate(p)
        BY <1>1, <2>4 DEF ClaimUpdate, ClaimWhere, Claimable
    <2>5. ASSUME NEW d \in Dispatches,
                 \/ StartDispatch(p, d)
                 \/ FailBeforeDispatch(p, d)
                 \/ DispatchReturns(p, d)
          PROVE  row' = row
        BY <2>5 DEF StartDispatch, FailBeforeDispatch, DispatchReturns
    <2>6. ASSUME NEW d \in Dispatches, CommitOneDispatchResult(p, d)
          PROVE  row' = row
        BY <1>1, <2>1, <2>6 DEF CommitOneDispatchResult, NoneHeld
    <2>7. CASE WriteStaleAndClear(p)
        BY <2>1, <2>7 DEF WriteStaleAndClear
    <2>8. CASE CommitDbFailure(p)
        BY <2>1, <2>8 DEF CommitDbFailure
    <2>9. CASE CommitDbSuccessAndFanOut(p)
        BY <2>1, <2>9 DEF CommitDbSuccessAndFanOut
    <2>10. CASE CommitRetry(p)
        BY <2>1, <2>10 DEF CommitRetry
    <2>11. CASE FinaliseWrite(p)
        BY <1>1, <2>11 DEF FinaliseWrite
    <2>12. QED
        BY <1>4, <2>2, <2>3, <2>4, <2>5, <2>6, <2>7, <2>8, <2>9, <2>10, <2>11
           DEF Advance
<1>5. CASE CreateApplyAttempt
    BY <1>1, <1>5 DEF CreateApplyAttempt
<1>6. CASE DeadlinePasses
    BY <1>0, <1>6 DEF DeadlinePasses, Rows
<1>7. CASE Cleanup
    BY <1>7, SweepSparesOver DEF Cleanup
<1>8. CASE PurgeRetained \/ AccountDeleted
    BY <1>8 DEF PurgeRetained, AccountDeleted, NewRow
<1>9. CASE UNCHANGED vars
    BY <1>2, <1>9 DEF vars
<1>10. QED
    BY <1>2, <1>3, <1>4, <1>5, <1>6, <1>7, <1>8, <1>9 DEF Next

\* Terminal rows stay as they are until they are deleted: no late executor,
\* retry or sweep ever rewrites an outcome that was reported.
THEOREM OutcomeStands == Spec => TerminalIsFinal
<1>1. IInv /\ [Next]_vars =>
        [row.status \in TerminalStatus =>
            \/ row'.status = "gone"
            \/ row' = [row EXCEPT !.overdue = row'.overdue]]_vars
    BY OverIsFinal
<1>2. QED
    BY <1>1, Inductive, PTL DEF Spec, TerminalIsFinal

-----------------------------------------------------------------------------
(***************************************************************************)
(* What an attempt tells its operator about the upstream services: nothing *)
(* goes out before the manager database took the draft, and success means  *)
(* that every dispatch took effect, for any number of confirms and retries.*)
(*                                                                         *)
(* The argument.  A dispatch is only written as succeeded after its effect *)
(* took place, and effects stay; so every image of planned_dispatches, the *)
(* stale ones too, is backed by what landed.                               *)
(***************************************************************************)
\* Every dispatch that an image reports as succeeded took effect.
Backed(disp, done) ==
    \A d \in Dispatches : disp[d].state = "succeeded" => d \in done

AllSucceeded(disp) == \A d \in Dispatches : disp[d].state = "succeeded"

RowBacked == Backed(row.disp, landed)
ImagesBacked == \A p \in Calls : Backed(img[p], landed)
TasksBacked ==
    \A p \in Calls : \A d \in Dispatches : task[p][d] = "ok" => d \in landed
FanAfterDb == \A p \in Calls : pc[p] = "fan" => DB \in landed
SuccessIsFull == row.status = "succeeded" => AllSucceeded(row.disp)

EffectInv ==
    /\ RowBacked /\ ImagesBacked /\ TasksBacked /\ FanAfterDb
    /\ SuccessIsFull /\ NothingBeforeManagerDb

-----------------------------------------------------------------------------
(* The operations on planned_dispatches invent no success.                 *)

LEMMA BackedGrows ==
    ASSUME NEW disp, NEW done, NEW more, Backed(disp, done), done \subseteq more
    PROVE  Backed(disp, more)
BY DEF Backed

LEMMA BackedPlan == ASSUME NEW done PROVE Backed(Plan, done)
BY DEF Backed, Plan, Queued, Dispatch

LEMMA BackedFlip ==
    ASSUME NEW disp \in Disps, NEW from, NEW to \in DispatchState, NEW done,
           to # "succeeded", Backed(disp, done)
    PROVE  Backed(Flip(disp, from, to), done)
<1>1. \A d \in Dispatches : Flip(disp, from, to)[d].state \in
                                {to, disp[d].state}
    BY DEF Flip, Disps, PlannedDispatch
<1>2. QED
    BY <1>1 DEF Backed

LEMMA BackedStrip ==
    ASSUME NEW disp \in Disps, NEW done, Backed(disp, done)
    PROVE  Backed(Strip(disp), done)
<1>1. \A d \in Dispatches : Strip(disp)[d].state = disp[d].state
    BY DEF Strip, Disps, PlannedDispatch
<1>2. QED
    BY <1>1 DEF Backed

LEMMA BackedSetState ==
    ASSUME NEW disp \in Disps, NEW d \in Dispatches, NEW s \in DispatchState,
           NEW done, s = "succeeded" => d \in done, Backed(disp, done)
    PROVE  Backed(SetState(disp, d, s), done)
<1>1. /\ SetState(disp, d, s)[d].state = s
      /\ \A e \in Dispatches \ {d} : SetState(disp, d, s)[e] = disp[e]
    BY DEF SetState, Disps, PlannedDispatch
<1>2. QED
    BY <1>1 DEF Backed

LEMMA BackedPromote ==
    ASSUME NEW disp \in Disps, NEW d \in Dispatches, NEW done,
           Backed(disp, done)
    PROVE  Backed(Promote(disp, d), done)
<1>1. /\ Promote(disp, d)[d].state = "in_flight"
      /\ \A e \in Dispatches \ {d} : Promote(disp, d)[e] = disp[e]
    BY DEF Promote, Dispatch, Disps
<1>2. QED
    BY <1>1 DEF Backed

LEMMA BackedFanOut ==
    ASSUME NEW disp \in Disps, NEW p \in Calls, NEW done, DB \in done,
           Backed(disp, done)
    PROVE  Backed(FanOut(disp, p), done)
<1>1. \A d \in Dispatches \ {DB} :
        FanOut(disp, p)[d] = disp[d] \/ FanOut(disp, p)[d].state = "in_flight"
    BY DEF FanOut, Dispatch
<1>2. QED
    BY <1>1 DEF Backed

LEMMA BackedTerminalise ==
    ASSUME NEW r \in Rows, NEW done, Backed(r.disp, done)
    PROVE  Backed(Terminalise(r).disp, done)
<1> DEFINE flipped == Flip(r.disp, {"failed_retryable", "queued"},
                           "failed_terminal")
<1>1. r.disp \in Disps
    BY DEF Rows, Disps
<1>2. Backed(flipped, done)
    BY <1>1, BackedFlip DEF DispatchState
<1> HIDE DEF flipped
<1>3. Terminalise(r).disp \in {r.disp, flipped}
    BY DEF Terminalise, Settle, flipped
<1>4. QED
    BY <1>2, <1>3

LEMMA BackedCleanedUp ==
    ASSUME NEW r \in Rows, NEW aged \in BOOLEAN, NEW done, Backed(r.disp, done)
    PROVE  Backed(CleanedUp(r, aged).disp, done)
<1> DEFINE swept == {s \in Rows : Backed(s.disp, done)}
<1>1. ASSUME NEW s \in swept PROVE RecoverStaleLock(s) \in swept
    <2> DEFINE disp == Strip(Flip(s.disp,
                            {"in_flight", "queued", "failed_retryable"},
                            "failed_terminal"))
    <2>1. s.disp \in Disps
        BY DEF Rows, Disps
    <2>2. disp \in Disps /\ Backed(disp, done)
        BY <2>1, FlipType, StripType, BackedFlip, BackedStrip
           DEF DispatchState
    <2> HIDE DEF disp
    <2>3. Settle(s, "failed_terminal", disp) \in swept
        <3>1. Settle(s, "failed_terminal", disp) \in Rows
            BY <2>2, SettleType DEF Status, TerminalStatus
        <3>2. QED
            BY <2>2, <3>1 DEF Settle
    <2>4. QED
        BY <2>3 DEF RecoverStaleLock, disp
<1>2. ASSUME NEW s \in swept PROVE RecoverStaleDispatchClaims(s) \in swept
    <2>1. RecoverStaleDispatchClaims(s) \in Rows
        BY DEF RecoverStaleDispatchClaims, Dispatch, Rows, PlannedDispatch,
               DispatchState
    <2>2. \A d \in Dispatches :
            \/ RecoverStaleDispatchClaims(s).disp[d] = s.disp[d]
            \/ RecoverStaleDispatchClaims(s).disp[d].state = "failed_terminal"
        BY DEF RecoverStaleDispatchClaims, Dispatch, Rows
    <2>3. QED
        BY <2>1, <2>2 DEF Backed
<1>3. ASSUME NEW s \in swept PROVE FinaliseAbandoned(s) \in swept
    <2>1. s.disp \in Disps
        BY DEF Rows, Disps
    <2>2. Settle(s, Aggregate(s.disp), s.disp) \in Rows
        BY <2>1, AggregateType, SettleType DEF Status, TerminalStatus
    <2>3. FinaliseAbandoned(s).disp = s.disp
        BY DEF FinaliseAbandoned, Settle
    <2>4. QED
        BY <2>2, <2>3 DEF FinaliseAbandoned
<1>4. ASSUME NEW s \in swept PROVE TerminaliseExpired(s) \in swept
    BY TerminaliseType, BackedTerminalise DEF TerminaliseExpired
<1>5. r \in swept
    OBVIOUS
<1> HIDE DEF swept
<1>6. CleanedUp(r, aged) \in swept
    BY <1>1, <1>2, <1>3, <1>4, <1>5 DEF CleanedUp
<1>7. QED
    BY <1>6 DEF swept

-----------------------------------------------------------------------------
(* What a step does to the history and to the calls.                       *)

LEMMA LandedGrows == ASSUME [Next]_vars PROVE landed \subseteq landed'
BY DEF Next, Advance, vars, CreateApplyAttempt, ReadRow,
       TerminaliseExpiredAttempt, ClaimSelect, ClaimUpdate, ResolveLostClaim,
       StartDispatch, FailBeforeDispatch, DispatchReturns,
       CommitOneDispatchResult, DraftDrifted, WriteStaleAndClear,
       CommitDbFailure, CommitDbSuccessAndFanOut, CommitRetry, FinaliseRead,
       FinaliseWrite, Crash, DeadlinePasses, Cleanup, PurgeRetained,
       AccountDeleted

LEMMA ResultBacked ==
    ASSUME EffectInv, NEW p \in Calls, NEW d \in Dispatches
    PROVE  Result(p, d) = "succeeded" => d \in landed
BY DEF Result, EffectInv, TasksBacked

\* Calls take images from the row or from what they are about to write.
LEMMA ImageStep ==
    ASSUME IInv, EffectInv, [Next]_vars, NEW q \in Calls
    PROVE  Backed(img'[q], landed')
<1>0. /\ TypeOK /\ img \in [Calls -> Disps] /\ row.disp \in Disps
      /\ Backed(row.disp, landed) /\ \A p \in Calls : Backed(img[p], landed)
      /\ target \in [Calls -> Dispatches]
    BY Shapes DEF IInv, EffectInv, RowBacked, ImagesBacked
<1>1. landed \subseteq landed'
    BY LandedGrows
<1>2. ASSUME img'[q] = img[q] \/ img'[q] = row.disp \/ img'[q] = Plan
      PROVE  Backed(img'[q], landed')
    BY <1>0, <1>1, <1>2, BackedGrows, BackedPlan
<1>3. ASSUME NEW p \in Calls, Ends(p) PROVE Backed(img'[q], landed')
    <2>1. img'[q] = img[q] \/ img'[q] = Plan
        BY <1>0, <1>3 DEF Ends
    <2>2. QED
        BY <1>2, <2>1
<1>4. ASSUME NEW p \in Calls, ClaimUpdate(p) PROVE Backed(img'[q], landed')
    <2> DEFINE claimed == Promote(img[p], target[p])
    <2>1. Backed(claimed, landed)
        BY <1>0, BackedPromote
    <2> HIDE DEF claimed
    <2>2. img' = img \/ img' = [img EXCEPT ![p] = claimed]
        BY <1>4 DEF ClaimUpdate, claimed
    <2>3. img'[q] = img[q] \/ img'[q] = claimed
        BY <1>0, <2>2
    <2>4. QED
        BY <1>1, <1>2, <2>1, <2>3, BackedGrows
<1>5. ASSUME NEW p \in Calls, CommitDbSuccessAndFanOut(p)
      PROVE  Backed(img'[q], landed')
    <2> DEFINE disp == FanOut(img[p], p)
    <2>1. DB \in landed
        BY <1>5 DEF CommitDbSuccessAndFanOut, EffectInv, TasksBacked,
                    Dispatches
    <2>2. Backed(disp, landed)
        BY <1>0, <2>1, BackedFanOut
    <2> HIDE DEF disp
    <2>3. Ends(p) \/ img' = [img EXCEPT ![p] = disp]
        BY <1>5 DEF CommitDbSuccessAndFanOut, disp
    <2>4. CASE Ends(p)
        BY <1>3, <2>4
    <2>5. CASE img' = [img EXCEPT ![p] = disp]
        <3>1. img'[q] = img[q] \/ img'[q] = disp
            BY <1>0, <2>5
        <3>2. QED
            BY <1>1, <1>2, <2>2, <3>1, BackedGrows
    <2>6. QED
        BY <2>3, <2>4, <2>5
<1>6. ASSUME NEW p \in Calls,
             ReadRow(p) \/ ClaimSelect(p) \/ FinaliseRead(p), ~Ends(p)
      PROVE  Backed(img'[q], landed')
    <2>1. img' = img \/ img' = [img EXCEPT ![p] = row.disp]
        BY <1>6 DEF ReadRow, ClaimSelect, FinaliseRead
    <2>2. img'[q] = img[q] \/ img'[q] = row.disp
        BY <1>0, <2>1
    <2>3. QED
        BY <1>2, <2>2
<1>7. ASSUME NEW p \in Calls,
             \/ TerminaliseExpiredAttempt(p) \/ ResolveLostClaim(p)
             \/ WriteStaleAndClear(p) \/ CommitDbFailure(p)
             \/ CommitRetry(p) \/ FinaliseWrite(p) \/ Crash(p)
      PROVE  Ends(p) \/ img' = img
    BY <1>7 DEF TerminaliseExpiredAttempt, ResolveLostClaim, WriteStaleAndClear,
                CommitDbFailure, CommitRetry, FinaliseWrite, Crash, local
<1>8. ASSUME NEW p \in Calls, NEW d \in Dispatches,
             \/ StartDispatch(p, d) \/ FailBeforeDispatch(p, d)
             \/ DispatchReturns(p, d) \/ CommitOneDispatchResult(p, d)
      PROVE  img' = img
    BY <1>8 DEF StartDispatch, FailBeforeDispatch, DispatchReturns,
                CommitOneDispatchResult, local
<1>9. ASSUME \/ CreateApplyAttempt \/ DeadlinePasses \/ Cleanup
             \/ PurgeRetained \/ AccountDeleted \/ UNCHANGED vars
      PROVE  img' = img
    BY <1>9 DEF CreateApplyAttempt, DeadlinePasses, Cleanup, PurgeRetained,
                AccountDeleted, vars, local
<1>10. ASSUME NEW p \in Calls, DraftDrifted(p) PROVE img' = img
    BY <1>10 DEF DraftDrifted, local
<1>11. ASSUME NEW p \in Calls, ReadRow(p) \/ Advance(p) \/ Crash(p)
       PROVE  Backed(img'[q], landed')
    BY <1>2, <1>3, <1>4, <1>5, <1>6, <1>7, <1>8, <1>10, <1>11 DEF Advance
<1>12. QED
    BY <1>2, <1>9, <1>11 DEF Next

\* An answer is only taken for a success after the effect.
LEMMA TaskStep ==
    ASSUME IInv, EffectInv, [Next]_vars
    PROVE  TasksBacked'
<1>0. task \in [Calls -> [Dispatches -> TaskState]] /\ TasksBacked
    BY Shapes DEF IInv, EffectInv
<1>1. landed \subseteq landed'
    BY LandedGrows
<1>2. ASSUME \A q \in Calls : \A d \in Dispatches :
                task'[q][d] = "ok" => task[q][d] = "ok"
      PROVE  TasksBacked'
    BY <1>0, <1>1, <1>2 DEF TasksBacked
<1>3. ASSUME NEW p \in Calls, NEW s \in [Dispatches -> TaskState \ {"ok"}],
             task' = [task EXCEPT ![p] = s]
      PROVE  TasksBacked'
    <2>1. \A q \in Calls : \A d \in Dispatches :
                task'[q][d] = "ok" => task[q][d] = "ok"
        BY <1>0, <1>3
    <2>2. QED
        BY <1>2, <2>1
<1>4. NoTasks \in [Dispatches -> TaskState \ {"ok"}]
    BY DEF NoTasks, TaskState
<1>5. ASSUME NEW p \in Calls, Ends(p) PROVE TasksBacked'
    BY <1>3, <1>4, <1>5 DEF Ends
<1>6. ASSUME NEW p \in Calls, CommitDbSuccessAndFanOut(p) PROVE TasksBacked'
    <2>1. CASE Ends(p)
        BY <1>5, <2>1
    <2>2. CASE ~Ends(p)
        <3> DEFINE s == [d \in Dispatches |->
                          IF FanOut(img[p], p)[d].state = "in_flight"
                          THEN "ready" ELSE "none"]
        <3>1. s \in [Dispatches -> TaskState \ {"ok"}]
            BY DEF TaskState
        <3>2. task' = [task EXCEPT ![p] = s]
            BY <1>6, <2>2 DEF CommitDbSuccessAndFanOut
        <3> HIDE DEF s
        <3>3. QED
            BY <1>3, <3>1, <3>2
    <2>3. QED
        BY <2>1, <2>2
<1>7. ASSUME NEW p \in Calls, NEW d \in Dispatches, NEW s \in TaskState,
             task' = [task EXCEPT ![p][d] = s], s = "ok" => d \in landed'
      PROVE  TasksBacked'
    BY <1>0, <1>1, <1>7 DEF TasksBacked
<1>8. ASSUME NEW p \in Calls, NEW d \in Dispatches,
             \/ StartDispatch(p, d) \/ FailBeforeDispatch(p, d)
             \/ DispatchReturns(p, d) \/ CommitOneDispatchResult(p, d)
      PROVE  TasksBacked'
    <2>1. PICK s \in TaskState : /\ task' = [task EXCEPT ![p][d] = s]
                                 /\ s = "ok" => d \in landed'
        BY <1>8 DEF StartDispatch, FailBeforeDispatch, DispatchReturns,
                    CommitOneDispatchResult, TaskState, Returned
    <2>2. QED
        BY <1>7, <2>1
<1>9. ASSUME NEW p \in Calls, ClaimUpdate(p) PROVE TasksBacked'
    <2>1. CASE task' = task
        BY <1>2, <2>1
    <2>2. CASE task' # task
        <3>1. task' = [task EXCEPT ![p][target[p]] = "ready"]
              /\ target[p] \in Dispatches /\ "ready" \in TaskState
            BY <1>9, <2>2, Shapes DEF ClaimUpdate, IInv, TaskState
        <3>2. QED
            BY <1>7, <3>1
    <2>3. QED
        BY <2>1, <2>2
<1>10. ASSUME NEW p \in Calls, DraftDrifted(p) PROVE TasksBacked'
    BY <1>3, <1>4, <1>10 DEF DraftDrifted
<1>11. ASSUME NEW p \in Calls,
             \/ TerminaliseExpiredAttempt(p) \/ ResolveLostClaim(p)
             \/ WriteStaleAndClear(p) \/ CommitDbFailure(p)
             \/ CommitRetry(p) \/ FinaliseRead(p) \/ FinaliseWrite(p)
             \/ ReadRow(p) \/ ClaimSelect(p) \/ Crash(p)
      PROVE  Ends(p) \/ task' = task
    BY <1>11 DEF TerminaliseExpiredAttempt, ResolveLostClaim,
                 WriteStaleAndClear, CommitDbFailure, CommitRetry,
                 FinaliseRead, FinaliseWrite, ReadRow, ClaimSelect, Crash
<1>12. ASSUME \/ CreateApplyAttempt \/ DeadlinePasses \/ Cleanup
              \/ PurgeRetained \/ AccountDeleted \/ UNCHANGED vars
       PROVE  task' = task
    BY <1>12 DEF CreateApplyAttempt, DeadlinePasses, Cleanup, PurgeRetained,
                 AccountDeleted, vars
<1>13. ASSUME NEW p \in Calls, ReadRow(p) \/ Advance(p) \/ Crash(p)
       PROVE  TasksBacked'
    BY <1>2, <1>5, <1>6, <1>8, <1>9, <1>10, <1>11, <1>13 DEF Advance
<1>14. QED
    BY <1>2, <1>12, <1>13 DEF Next

-----------------------------------------------------------------------------
(* What a step writes into the row.                                        *)

LEMMA AggregateSuccess ==
    ASSUME NEW disp \in Disps, Aggregate(disp) = "succeeded",
           NoneInFlight(disp), NoneQueued(disp)
    PROVE  AllSucceeded(disp)
<1>1. \A d \in Dispatches : disp[d].state \in DispatchState
    BY DEF Disps, PlannedDispatch
<1>2. \A d \in Dispatches :
        disp[d].state \notin {"failed_retryable", "failed_terminal"}
    BY DEF Aggregate, States
<1>3. QED
    BY <1>1, <1>2 DEF AllSucceeded, NoneInFlight, NoneQueued, DispatchState

\* The sweep reports success only for what succeeded.
LEMMA SettledSuccess ==
    ASSUME NEW r \in Rows, r.status # "succeeded", NoneQueued(r.disp),
           TerminaliseExpired(FinaliseAbandoned(r)).status = "succeeded"
    PROVE  AllSucceeded(TerminaliseExpired(FinaliseAbandoned(r)).disp)
<1> DEFINE f == FinaliseAbandoned(r)
<1>1. ~Expirable(f)
    BY DEF TerminaliseExpired, Terminalise, Settle
<1>2. TerminaliseExpired(f) = f
    BY <1>1 DEF TerminaliseExpired
<1>3. f.status = "succeeded"
    BY <1>2
<1>4. NoneInFlight(r.disp) /\ f = Settle(r, Aggregate(r.disp), r.disp)
    BY <1>3 DEF FinaliseAbandoned, NoneInFlight, States
<1>5. Aggregate(r.disp) = "succeeded" /\ f.disp = r.disp
    BY <1>3, <1>4 DEF Settle
<1>6. r.disp \in Disps
    BY DEF Rows, Disps
<1> HIDE DEF f
<1>7. AllSucceeded(f.disp)
    BY <1>4, <1>5, <1>6, AggregateSuccess
<1>8. QED
    BY <1>2, <1>7 DEF f

LEMMA CleanedSuccess ==
    ASSUME IInv, NEW aged \in BOOLEAN, row.status # "succeeded",
           CleanedUp(row, aged).status = "succeeded"
    PROVE  AllSucceeded(CleanedUp(row, aged).disp)
<1>0. row \in Rows
    BY Shapes DEF IInv
<1>1. row.lock = NoCall
    BY SweptLock
<1>2. row.status = "executing"
    <2> SUFFICES ASSUME row.status # "executing" PROVE FALSE
        OBVIOUS
    <2>1. CleanedUp(row, aged) = TerminaliseExpired(row)
        BY <1>1 DEF CleanedUp, RecoverStaleLock, RecoverStaleDispatchClaims,
                    FinaliseAbandoned
    <2>2. QED
        BY <2>1 DEF TerminaliseExpired, Terminalise, Settle
<1>3. NoneQueued(row.disp)
    BY <1>1, <1>2 DEF IInv, RowInv, Phase
<1>4. CASE aged
    <2> DEFINE r == RecoverStaleDispatchClaims(RecoverStaleLock(row))
    <2>1. r \in Rows /\ r.status = "executing" /\ NoneQueued(r.disp)
        BY <1>1, <1>2, RecoveredClaims
    <2>2. CleanedUp(row, aged) = TerminaliseExpired(FinaliseAbandoned(r))
        BY <1>4 DEF CleanedUp
    <2> HIDE DEF r
    <2>3. QED
        BY <2>1, <2>2, SettledSuccess
<1>5. CASE ~aged
    <2>1. CleanedUp(row, aged) = TerminaliseExpired(FinaliseAbandoned(row))
        BY <1>5 DEF CleanedUp
    <2>2. QED
        BY <1>0, <1>2, <1>3, <2>1, SettledSuccess
<1>6. QED
    BY <1>4, <1>5

LEMMA RowStep ==
    ASSUME IInv, EffectInv, [Next]_vars
    PROVE  RowBacked' /\ SuccessIsFull'
<1>0. /\ row \in Rows /\ row.disp \in Disps /\ Backed(row.disp, landed)
      /\ img \in [Calls -> Disps] /\ \A p \in Calls : Backed(img[p], landed)
      /\ target \in [Calls -> Dispatches] /\ DB \in Dispatches
      /\ \A p \in Calls : p # NoCall
    BY Shapes, CallsAssumption
       DEF IInv, EffectInv, RowBacked, ImagesBacked, Dispatches
<1>1. landed \subseteq landed'
    BY LandedGrows
<1>2. ASSUME Backed(row'.disp, landed),
             row'.status = "succeeded" => AllSucceeded(row'.disp)
      PROVE  RowBacked' /\ SuccessIsFull'
    <2>1. Backed(row'.disp, landed')
        BY <1>1, <1>2, BackedGrows
    <2>2. QED
        BY <1>2, <2>1 DEF RowBacked, SuccessIsFull, AllSucceeded
<1>3. ASSUME row' = row PROVE RowBacked' /\ SuccessIsFull'
    BY <1>0, <1>2, <1>3 DEF EffectInv, SuccessIsFull
<1>4. ASSUME NEW s, s # "succeeded", row' = NewRow(s)
      PROVE  RowBacked' /\ SuccessIsFull'
    BY <1>2, <1>4, BackedPlan DEF NewRow
<1>5. ASSUME NEW s, NEW disp, row' = Settle(row, s, disp), Backed(disp, landed),
             s = "succeeded" => AllSucceeded(disp)
      PROVE  RowBacked' /\ SuccessIsFull'
    BY <1>2, <1>5 DEF Settle
<1>6. ASSUME NEW p \in Calls, TerminaliseExpiredAttempt(p)
      PROVE  RowBacked' /\ SuccessIsFull'
    <2>1. CASE row' = Terminalise(row)
        <3>1. Backed(row'.disp, landed)
            BY <1>0, <2>1, BackedTerminalise
        <3>2. row'.status # "succeeded"
            BY <2>1 DEF Terminalise, Settle
        <3>3. QED
            BY <1>2, <3>1, <3>2
    <2>2. QED
        BY <1>3, <1>6, <2>1 DEF TerminaliseExpiredAttempt
<1>7. ASSUME NEW p \in Calls, ClaimUpdate(p)
      PROVE  RowBacked' /\ SuccessIsFull'
    <2> DEFINE claimed == Promote(img[p], target[p])
    <2>1. Backed(claimed, landed)
        BY <1>0, BackedPromote
    <2> HIDE DEF claimed
    <2>2. row' = row \/ row' = [row EXCEPT !.status = "executing", !.lock = p,
                                         !.disp = claimed]
        BY <1>7 DEF ClaimUpdate, claimed
    <2>3. row' = row \/ (row'.status = "executing" /\ row'.disp = claimed)
        BY <1>0, <2>2 DEF Rows
    <2>4. QED
        BY <1>2, <1>3, <2>1, <2>3
<1>8. ASSUME NEW p \in Calls, WriteStaleAndClear(p)
      PROVE  RowBacked' /\ SuccessIsFull'
    BY <1>0, <1>3, <1>5, <1>8 DEF WriteStaleAndClear
<1>9. ASSUME NEW p \in Calls, CommitDbFailure(p)
      PROVE  RowBacked' /\ SuccessIsFull'
    <2> DEFINE result == Result(p, DB)
               failed == SetState(img[p], DB, result)
    <2>1. result \in {"failed_retryable", "failed_terminal"}
        BY <1>9 DEF CommitDbFailure, Result
    <2>2. failed \in Disps /\ Backed(failed, landed)
        BY <1>0, <2>1, SetStateType, BackedSetState DEF DispatchState
    <2>3. Backed(Flip(failed, {"queued"}, result), landed)
        BY <2>1, <2>2, BackedFlip DEF DispatchState
    <2>4. \/ row' = row
          \/ row' = Settle(row, result, failed)
          \/ row' = Settle(row, result, Flip(failed, {"queued"}, result))
        BY <1>9 DEF CommitDbFailure
    <2> HIDE DEF result, failed
    <2>5. QED
        BY <1>3, <1>5, <2>1, <2>2, <2>3, <2>4
<1>10. ASSUME NEW p \in Calls, CommitDbSuccessAndFanOut(p)
       PROVE  RowBacked' /\ SuccessIsFull'
    <2> DEFINE disp == FanOut(img[p], p)
    <2>1. DB \in landed
        BY <1>10, <1>0 DEF CommitDbSuccessAndFanOut, EffectInv, TasksBacked
    <2>2. Backed(disp, landed)
        BY <1>0, <2>1, BackedFanOut
    <2> HIDE DEF disp
    <2>3. row' = row \/ (row.lock = p /\ row' = [row EXCEPT !.lock = NoCall,
                                                          !.disp = disp])
        BY <1>10 DEF CommitDbSuccessAndFanOut, disp
    <2>4. row' = row \/ (row'.status = "executing" /\ row'.disp = disp)
        BY <1>0, <2>3 DEF IInv, RowInv, Rows
    <2>5. QED
        BY <1>2, <1>3, <2>2, <2>4
<1>11. ASSUME NEW p \in Calls, CommitRetry(p)
       PROVE  RowBacked' /\ SuccessIsFull'
    <2> DEFINE d == target[p]
               s == Result(p, d)
               disp == SetState(img[p], d, s)
    <2>1. /\ d \in Dispatches /\ s \in DispatchState
          /\ s \notin {"in_flight", "queued"}
          /\ s = "succeeded" => d \in landed
        BY <1>0, ResultType, ResultBacked DEF DispatchState
    <2>2. disp \in Disps /\ Backed(disp, landed)
        BY <1>0, <2>1, SetStateType, BackedSetState
    <2>3. OnlyInFlight(img[p], d) /\ NoneHeld(img[p]) /\ Phase(img[p]) /\ d # DB
        BY <1>11 DEF CommitRetry, IInv, CallInv, DriveInv
    <2>4. NoneInFlight(disp) /\ Phase(disp) /\ Passed(disp)
        BY <1>0, <2>1, <2>3, PhaseSetState
    <2>5. Aggregate(disp) = "succeeded" => AllSucceeded(disp)
        BY <2>2, <2>4, AggregateSuccess DEF Phase
    <2>6. row' = row \/ row' = Settle(row, Aggregate(disp), disp)
        BY <1>11 DEF CommitRetry
    <2> HIDE DEF disp
    <2>7. QED
        BY <1>3, <1>5, <2>2, <2>5, <2>6
<1>12. ASSUME NEW p \in Calls, NEW d \in Dispatches,
              CommitOneDispatchResult(p, d)
       PROVE  RowBacked' /\ SuccessIsFull'
    <2> DEFINE settled == Dispatch(Result(p, d), row.disp[d].attemptCount, NoCall)
    <2>1. settled.state = "succeeded" => d \in landed
        BY ResultBacked DEF Dispatch
    <2> HIDE DEF settled
    <2>2. row' = row \/ (row.disp[d].lockToken = p
                         /\ row' = [row EXCEPT !.disp =
                                [row.disp EXCEPT ![d] = settled]])
        BY <1>0, <1>12 DEF CommitOneDispatchResult, settled, Rows, Disps
    <2>3. CASE row' # row
        <3>1. row.status = "executing"
            BY <1>0, <2>2, <2>3 DEF IInv, RowInv, NoneHeld
        <3>2. row'.status = "executing"
              /\ row'.disp = [row.disp EXCEPT ![d] = settled]
            BY <1>0, <2>2, <2>3, <3>1 DEF Rows
        <3>3. Backed(row'.disp, landed)
            BY <1>0, <2>1, <3>2 DEF Backed, Disps
        <3>4. QED
            BY <1>2, <3>2, <3>3
    <2>4. QED
        BY <1>3, <2>3
<1>13. ASSUME NEW p \in Calls, FinaliseWrite(p)
       PROVE  RowBacked' /\ SuccessIsFull'
    <2>1. NoneInFlight(img[p]) /\ NoneQueued(img[p])
        BY <1>13 DEF FinaliseWrite, IInv, CallInv, FinaliseInv
    <2>2. Aggregate(img[p]) = "succeeded" => AllSucceeded(img[p])
        BY <1>0, <2>1, AggregateSuccess
    <2>3. Backed(Strip(img[p]), landed)
        BY <1>0, BackedStrip
    <2>4. AllSucceeded(img[p]) => AllSucceeded(Strip(img[p]))
        <3>1. img[p] \in Disps
            BY <1>0
        <3>2. \A d \in Dispatches : Strip(img[p])[d].state = img[p][d].state
            BY <3>1 DEF Strip, Disps, PlannedDispatch
        <3>3. QED
            BY <3>2 DEF AllSucceeded
    <2>5. row' = row \/ row' = Settle(row, Aggregate(img[p]), Strip(img[p]))
        BY <1>13 DEF FinaliseWrite
    <2>6. QED
        BY <1>3, <1>5, <2>2, <2>3, <2>4, <2>5
<1>14. ASSUME NEW p \in Calls,
              \/ ReadRow(p) \/ Crash(p) \/ ClaimSelect(p) \/ ResolveLostClaim(p)
              \/ DraftDrifted(p) \/ FinaliseRead(p)
       PROVE  row' = row
    BY <1>14 DEF ReadRow, Crash, ClaimSelect, ResolveLostClaim, DraftDrifted,
                 FinaliseRead
<1>15. ASSUME NEW p \in Calls, NEW d \in Dispatches,
              \/ StartDispatch(p, d) \/ FailBeforeDispatch(p, d)
              \/ DispatchReturns(p, d)
       PROVE  row' = row
    BY <1>15 DEF StartDispatch, FailBeforeDispatch, DispatchReturns
<1>16. ASSUME NEW p \in Calls, ReadRow(p) \/ Advance(p) \/ Crash(p)
       PROVE  RowBacked' /\ SuccessIsFull'
    BY <1>3, <1>6, <1>7, <1>8, <1>9, <1>10, <1>11, <1>12, <1>13, <1>14, <1>15,
       <1>16 DEF Advance
<1>17. CASE CreateApplyAttempt \/ PurgeRetained \/ AccountDeleted
    BY <1>4, <1>17 DEF CreateApplyAttempt, PurgeRetained, AccountDeleted
<1>18. CASE DeadlinePasses
    <2>1. row'.status = row.status /\ row'.disp = row.disp
        BY <1>0, <1>18 DEF DeadlinePasses, Rows
    <2>2. QED
        BY <1>0, <1>2, <2>1 DEF EffectInv, SuccessIsFull
<1>19. CASE Cleanup
    <2>1. PICK aged \in BOOLEAN : row' = CleanedUp(row, aged)
        BY <1>19 DEF Cleanup
    <2>2. row.status # "succeeded"
        BY <1>19, SweepSparesOver DEF Cleanup, TerminalStatus
    <2>3. Backed(row'.disp, landed)
        BY <1>0, <2>1, BackedCleanedUp
    <2>4. row'.status = "succeeded" => AllSucceeded(row'.disp)
        BY <2>1, <2>2, CleanedSuccess
    <2>5. QED
        BY <1>2, <2>3, <2>4
<1>20. QED
    BY <1>3, <1>16, <1>17, <1>18, <1>19 DEF Next, vars

-----------------------------------------------------------------------------
(* Who sends what.                                                         *)

\* Only a call whose manager-DB stage succeeded goes on to the fan-out.
LEMMA FanStep ==
    ASSUME IInv, EffectInv, [Next]_vars
    PROVE  FanAfterDb'
<1>0. pc \in [Calls -> Where] /\ DB \in Dispatches /\ landed \subseteq landed'
    BY Shapes, LandedGrows DEF IInv, Dispatches
<1>1. ASSUME NEW p \in Calls, NEW where, where # "fan",
             pc' = [pc EXCEPT ![p] = where]
      PROVE  FanAfterDb'
    BY <1>0, <1>1 DEF EffectInv, FanAfterDb
<1>2. ASSUME pc' = pc PROVE FanAfterDb'
    BY <1>0, <1>2 DEF EffectInv, FanAfterDb
<1>3. ASSUME NEW p \in Calls, Ends(p) PROVE FanAfterDb'
    BY <1>1, <1>3 DEF Ends
<1>4. ASSUME NEW p \in Calls, CommitDbSuccessAndFanOut(p) PROVE FanAfterDb'
    BY <1>0, <1>4 DEF CommitDbSuccessAndFanOut, EffectInv, TasksBacked,
                      FanAfterDb
<1>5. ASSUME NEW p \in Calls,
             \/ ReadRow(p) \/ Crash(p) \/ TerminaliseExpiredAttempt(p)
             \/ ClaimSelect(p) \/ ClaimUpdate(p) \/ ResolveLostClaim(p)
             \/ DraftDrifted(p) \/ WriteStaleAndClear(p)
             \/ CommitDbFailure(p) \/ CommitRetry(p) \/ FinaliseRead(p)
             \/ FinaliseWrite(p)
      PROVE  Ends(p) \/ \E where \in Where \ {"fan"} : Goes(p, where)
    <2>1. {"expiry", "select", "claim", "lost", "lost_expiry", "db", "retry",
           "stale", "finalise"} \subseteq Where \ {"fan"}
        BY DEF Where
    <2>2. QED
        BY <1>5, <2>1
           DEF ReadRow, Crash, TerminaliseExpiredAttempt, ClaimSelect,
               ClaimUpdate, ResolveLostClaim, DraftDrifted, WriteStaleAndClear,
               CommitDbFailure, CommitRetry, FinaliseRead, FinaliseWrite
<1>6. ASSUME NEW p \in Calls, NEW d \in Dispatches,
             \/ StartDispatch(p, d) \/ FailBeforeDispatch(p, d)
             \/ DispatchReturns(p, d) \/ CommitOneDispatchResult(p, d)
      PROVE  pc' = pc
    BY <1>6 DEF StartDispatch, FailBeforeDispatch, DispatchReturns,
                CommitOneDispatchResult
<1>7. ASSUME NEW p \in Calls, ReadRow(p) \/ Advance(p) \/ Crash(p)
      PROVE  FanAfterDb'
    <2>1. CASE CommitDbSuccessAndFanOut(p)
        BY <1>4, <2>1
    <2>2. CASE Ends(p)
        BY <1>3, <2>2
    <2>3. ASSUME NEW where \in Where \ {"fan"}, Goes(p, where) PROVE FanAfterDb'
        BY <1>1, <2>3 DEF Goes
    <2>4. QED
        BY <1>2, <1>5, <1>6, <1>7, <2>1, <2>2, <2>3 DEF Advance
<1>8. ASSUME \/ CreateApplyAttempt \/ DeadlinePasses \/ Cleanup
             \/ PurgeRetained \/ AccountDeleted \/ UNCHANGED vars
      PROVE  pc' = pc
    BY <1>8 DEF CreateApplyAttempt, DeadlinePasses, Cleanup, PurgeRetained,
                AccountDeleted, vars
<1>9. QED
    BY <1>2, <1>7, <1>8 DEF Next

\* Whoever runs a dispatch other than MANAGER_DB has seen MANAGER_DB succeed.
LEMMA RunsAfterDb ==
    ASSUME IInv, EffectInv, NEW p \in Calls, NEW d \in Dispatches \ {DB},
           Running(p, d)
    PROVE  DB \in landed
<1>1. pc[p] \in {"db", "retry", "fan"}
    BY DEF IInv, CallInv, Running, NoTasks
<1>2. CASE pc[p] = "fan"
    BY <1>2 DEF EffectInv, FanAfterDb
<1>3. CASE pc[p] \in {"db", "retry"}
    <2>1. target[p] = d /\ OnlyInFlight(img[p], d) /\ Phase(img[p])
        BY <1>3 DEF IInv, CallInv, DriveInv, Running
    <2>2. Passed(img[p])
        BY <2>1 DEF OnlyInFlight, Phase
    <2>3. QED
        BY <2>2 DEF EffectInv, ImagesBacked, Backed, Passed, Dispatches
<1>4. QED
    BY <1>1, <1>2, <1>3

LEMMA CallsStep ==
    ASSUME IInv, EffectInv, [Next]_vars
    PROVE  NothingBeforeManagerDb'
<1>0. NothingBeforeManagerDb /\ landed \subseteq landed'
      /\ calls \in [Dispatches -> Nat]
    BY LandedGrows DEF EffectInv, IInv, TypeOK
<1>1. ASSUME calls' = calls PROVE NothingBeforeManagerDb'
    BY <1>0, <1>1 DEF NothingBeforeManagerDb
<1>2. ASSUME NEW p \in Calls, NEW d \in Dispatches, StartDispatch(p, d)
      PROVE  NothingBeforeManagerDb'
    <2>1. calls' = [calls EXCEPT ![d] = @ + 1] /\ Running(p, d)
        BY <1>2 DEF StartDispatch, Running
    <2>2. d # DB => DB \in landed'
        BY <1>0, <2>1, RunsAfterDb
    <2>3. \A e \in Dispatches \ {d} : calls'[e] = calls[e]
        BY <1>0, <2>1
    <2>4. QED
        BY <1>0, <2>2, <2>3 DEF NothingBeforeManagerDb
<1>3. QED
    BY <1>1, <1>2
       DEF Next, Advance, vars, CreateApplyAttempt, ReadRow,
           TerminaliseExpiredAttempt, ClaimSelect, ClaimUpdate,
           ResolveLostClaim, FailBeforeDispatch, DispatchReturns,
           CommitOneDispatchResult, DraftDrifted, WriteStaleAndClear,
           CommitDbFailure, CommitDbSuccessAndFanOut, CommitRetry,
           FinaliseRead, FinaliseWrite, Crash, DeadlinePasses, Cleanup,
           PurgeRetained, AccountDeleted

-----------------------------------------------------------------------------
LEMMA EffectInit == Init => EffectInv
<1> SUFFICES ASSUME Init PROVE EffectInv
    OBVIOUS
<1>1. row.status = "none" /\ row.disp = Plan
    BY DEF Init, NewRow
<1>2. RowBacked /\ ImagesBacked
    BY <1>1, BackedPlan DEF Init, RowBacked, ImagesBacked
<1>3. QED
    BY <1>1, <1>2 DEF Init, EffectInv, TasksBacked, FanAfterDb, SuccessIsFull,
                      NothingBeforeManagerDb, NoTasks

LEMMA EffectStep == IInv /\ EffectInv /\ [Next]_vars => EffectInv'
<1> SUFFICES ASSUME IInv, EffectInv, [Next]_vars PROVE EffectInv'
    OBVIOUS
<1>1. ImagesBacked'
    BY ImageStep DEF ImagesBacked
<1>2. QED
    BY <1>1, RowStep, TaskStep, FanStep, CallsStep DEF EffectInv

\* However many confirms and retries overlap, crash or outlive their claim:
\* no agent is notified and no external service is called before the manager
\* database took the draft, and an attempt that is reported succeeded took
\* effect in every service of its plan.
LEMMA EffectsHold == Spec => [](NothingBeforeManagerDb /\ SucceededEverywhere)
<1>1. EffectInv /\ TypeOK => NothingBeforeManagerDb /\ SucceededEverywhere
    BY DEF EffectInv, TypeOK, SuccessIsFull, AllSucceeded, RowBacked, Backed,
           NothingBeforeManagerDb, SucceededEverywhere
<1>2. Spec => []EffectInv
    BY Inductive, EffectInit, EffectStep, PTL DEF Spec
<1>3. QED
    BY <1>1, <1>2, TypeCorrect, PTL

\* No agent is notified and no external service is called before the manager
\* database took the draft (executor of apply-attempts-lifecycle.ts).
THEOREM ManagerDbFirst == Spec => []NothingBeforeManagerDb
BY EffectsHold, PTL

\* An attempt that is reported succeeded took effect in every service of its plan,
\* however many confirms and retries overlap, crash or outlive their claim.
THEOREM SuccessIsReal == Spec => []SucceededEverywhere
BY EffectsHold, PTL

-----------------------------------------------------------------------------
(***************************************************************************)
(* What the row says and what its dispatches say agree, for any number of  *)
(* confirms and retries.                                                   *)
(*                                                                         *)
(* The argument.  No image of planned_dispatches, in the row or in a call, *)
(* old or new, holds a dispatch that may be retried but has no attempt     *)
(* left (Open).  A result is judged by the count in the call's image, which *)
(* under the row lock is what is written, and in the fan-out is the row's  *)
(* as long as the row has the call's token (FanCounts).  The status is     *)
(* Aggregate of an image with nothing queued or in flight.  A row that was *)
(* never claimed has never had a call (Fresh).                             *)
(***************************************************************************)
Open(disp) ==
    \A d \in Dispatches :
        disp[d].state = "failed_retryable" => disp[d].attemptCount < MaxAttempts
Soft(disp) == \E d \in Dispatches : disp[d].state = "failed_retryable"
Whole(disp) ==
    \A d \in Dispatches : disp[d].state \in {"succeeded", "failed_terminal"}
Fresh == {"none", "pending", "expired"}

Agrees(r) ==
    /\ Open(r.disp)
    /\ r.status = "failed_retryable" => Soft(r.disp)
    /\ r.status \in {"succeeded", "failed_terminal"} => Whole(r.disp)
    /\ r.status \in Fresh => r.disp = Plan

ImagesOpen == \A p \in Calls : Open(img[p])
FanCounts ==
    \A p \in Calls : pc[p] = "fan" =>
        \A d \in Dispatches : row.disp[d].lockToken = p =>
            img[p][d].attemptCount = row.disp[d].attemptCount
NeverRan ==
    row.status \in Fresh =>
        /\ \A d \in Dispatches : calls[d] = 0
        /\ \A p \in Calls : task[p] = NoTasks

StatusInv == Agrees(row) /\ ImagesOpen /\ FanCounts /\ NeverRan

-----------------------------------------------------------------------------
(* The operations on planned_dispatches and rows.                          *)

LEMMA OpenPlan == Open(Plan)
BY DEF Open, Plan, Queued, Dispatch

\* A dispatch that is not made retryable keeps an image open.
LEMMA OpenIf ==
    ASSUME NEW old, NEW new, Open(old),
           \A d \in Dispatches :
              new[d].state = "failed_retryable" =>
                /\ old[d].state = "failed_retryable"
                /\ new[d].attemptCount = old[d].attemptCount
    PROVE  Open(new)
BY DEF Open

LEMMA FlipEntry ==
    ASSUME NEW disp \in Disps, NEW from, NEW to \in DispatchState,
           NEW d \in Dispatches
    PROVE  /\ Flip(disp, from, to)[d].attemptCount = disp[d].attemptCount
           /\ Flip(disp, from, to)[d].state =
                 IF disp[d].state \in from THEN to ELSE disp[d].state
BY DEF Flip, Disps, PlannedDispatch

LEMMA StripEntry ==
    ASSUME NEW disp \in Disps, NEW d \in Dispatches
    PROVE  /\ Strip(disp)[d].attemptCount = disp[d].attemptCount
           /\ Strip(disp)[d].state = disp[d].state
BY DEF Strip, Disps, PlannedDispatch

LEMMA OpenPromote ==
    ASSUME NEW disp \in Disps, NEW d \in Dispatches, Open(disp)
    PROVE  Open(Promote(disp, d))
<1>1. /\ Promote(disp, d)[d].state = "in_flight"
      /\ \A e \in Dispatches \ {d} : Promote(disp, d)[e] = disp[e]
    BY DEF Promote, Dispatch, Disps
<1>2. QED
    BY <1>1, OpenIf

LEMMA OpenFanOut ==
    ASSUME NEW disp \in Disps, NEW p \in Calls, Open(disp)
    PROVE  Open(FanOut(disp, p))
<1>1. \A d \in Dispatches :
        \/ FanOut(disp, p)[d] = disp[d]
        \/ FanOut(disp, p)[d].state \in {"in_flight", "succeeded"}
    BY DEF FanOut, Dispatch, Disps, PlannedDispatch
<1>2. QED
    BY <1>1, OpenIf

\* A result that may be retried has an attempt left.
LEMMA OpenResult ==
    ASSUME TypeOK, NEW p \in Calls, NEW d \in Dispatches,
           Result(p, d) = "failed_retryable"
    PROVE  img[p][d].attemptCount < MaxAttempts
<1>1. img[p] \in Disps
    BY Shapes
<1>2. img[p][d].attemptCount \in Nat
    BY <1>1 DEF Disps, PlannedDispatch
<1>3. ~(img[p][d].attemptCount >= MaxAttempts)
    BY DEF Result
<1>4. QED
    BY <1>2, <1>3, CapAssumption

LEMMA OpenSetResult ==
    ASSUME TypeOK, NEW p \in Calls, NEW d \in Dispatches, Open(img[p])
    PROVE  Open(SetState(img[p], d, Result(p, d)))
<1> DEFINE new == SetState(img[p], d, Result(p, d))
<1>1. img[p] \in Disps
    BY Shapes
<1>2. /\ new[d].state = Result(p, d)
      /\ new[d].attemptCount = img[p][d].attemptCount
      /\ \A e \in Dispatches \ {d} : new[e] = img[p][e]
    BY <1>1 DEF SetState, Disps, PlannedDispatch
<1> HIDE DEF new
<1>3. Open(new)
    BY <1>2, OpenResult DEF Open
<1>4. QED
    BY <1>3 DEF new

\* The status of a row that is settled from its dispatches.
LEMMA SettledAgrees ==
    ASSUME NEW r, NEW disp \in Disps, NEW shown, Open(shown),
           NoneInFlight(disp), NoneQueued(disp),
           \A d \in Dispatches : shown[d].state = disp[d].state
    PROVE  Agrees(Settle(r, Aggregate(disp), shown))
<1>1. Settle(r, Aggregate(disp), shown).status = Aggregate(disp)
      /\ Settle(r, Aggregate(disp), shown).disp = shown
    BY DEF Settle
<1>2. \A d \in Dispatches :
        disp[d].state \in {"succeeded", "failed_terminal", "failed_retryable"}
    BY DEF Disps, PlannedDispatch, DispatchState, NoneInFlight, NoneQueued
<1>3. Aggregate(disp) = "failed_retryable" => Soft(shown)
    BY DEF Aggregate, States, Soft
<1>4. Aggregate(disp) # "failed_retryable" => Whole(shown)
    BY <1>2 DEF Aggregate, States, Whole
<1>5. Aggregate(disp) \in {"failed_retryable", "failed_terminal", "succeeded"}
    BY AggregateType
<1> HIDE DEF Soft, Whole, Open
<1>6. QED
    BY <1>1, <1>3, <1>4, <1>5 DEF Agrees, Fresh

LEMMA TerminaliseAgrees ==
    ASSUME NEW r \in Rows, Agrees(r), r.status \in {"pending", "failed_retryable"},
           NoneInFlight(r.disp)
    PROVE  Agrees(Terminalise(r))
<1> DEFINE flipped == Flip(r.disp, {"failed_retryable", "queued"},
                           "failed_terminal")
<1>0. r.disp \in Disps
    BY DEF Rows, Disps
<1>1. CASE r.status = "pending"
    <2>1. Terminalise(r).status = "expired" /\ Terminalise(r).disp = r.disp
        BY <1>1 DEF Terminalise, Settle
    <2>2. r.disp = Plan
        BY <1>1 DEF Agrees, Fresh
    <2>3. QED
        BY <2>1, <2>2 DEF Agrees
<1>2. CASE r.status = "failed_retryable"
    <2>1. Whole(flipped)
        <3>1. \A d \in Dispatches : r.disp[d].state \in DispatchState \ {"in_flight"}
            BY <1>0 DEF Disps, PlannedDispatch, NoneInFlight
        <3>2. \A d \in Dispatches : flipped[d].state =
                IF r.disp[d].state \in {"failed_retryable", "queued"}
                THEN "failed_terminal" ELSE r.disp[d].state
            BY <1>0, FlipEntry DEF DispatchState
        <3>3. QED
            BY <3>1, <3>2 DEF Whole, DispatchState
    <2> HIDE DEF flipped
    <2>2. Open(flipped)
        BY <2>1 DEF Open, Whole
    <2>3. Terminalise(r) = Settle(r, "failed_terminal", flipped)
        BY <1>2 DEF Terminalise, flipped
    <2>4. Terminalise(r).status = "failed_terminal" /\ Terminalise(r).disp = flipped
        BY <2>3 DEF Settle
    <2>5. QED
        BY <2>1, <2>2, <2>4 DEF Agrees, Fresh
<1>3. QED
    BY <1>1, <1>2

\* The sweeps take rows that agree to rows that agree, and no row back to one
\* that was never claimed.
LEMMA CleanedAgrees ==
    ASSUME IInv, Agrees(row), NEW aged \in BOOLEAN
    PROVE  /\ Agrees(CleanedUp(row, aged))
           /\ CleanedUp(row, aged).status \in Fresh => row.status \in Fresh
<1> DEFINE Kept(s) ==
        /\ Agrees(s)
        /\ s.status = "executing" /\ s.lock = NoCall => NoneQueued(s.disp)
        /\ s.status = "failed_retryable" \/ s.status = "pending"
              => NoneInFlight(s.disp)
        /\ s.status \in Fresh => row.status \in Fresh
<1>1. ASSUME NEW s \in Rows, Kept(s)
      PROVE  RecoverStaleLock(s) \in Rows /\ Kept(RecoverStaleLock(s))
    <2> DEFINE flipped == Flip(s.disp,
                            {"in_flight", "queued", "failed_retryable"},
                            "failed_terminal")
               disp == Strip(flipped)
    <2>1. s.disp \in Disps
        BY DEF Rows, Disps
    <2>2. flipped \in Disps /\ disp \in Disps
        BY <2>1, FlipType, StripType DEF DispatchState
    <2>3. Whole(disp)
        <3>1. \A d \in Dispatches : flipped[d].state =
                IF s.disp[d].state \in {"in_flight", "queued", "failed_retryable"}
                THEN "failed_terminal" ELSE s.disp[d].state
            BY <2>1, FlipEntry DEF DispatchState
        <3> HIDE DEF flipped
        <3>2. \A d \in Dispatches : disp[d].state = flipped[d].state
            BY <2>2, StripEntry
        <3>3. \A d \in Dispatches : s.disp[d].state \in DispatchState
            BY <2>1 DEF Disps, PlannedDispatch
        <3> HIDE DEF disp
        <3>4. QED
            BY <3>1, <3>2, <3>3 DEF Whole, DispatchState
    <2> HIDE DEF disp
    <2>4. Open(disp)
        BY <2>3 DEF Open, Whole
    <2> DEFINE new == Settle(s, "failed_terminal", disp)
    <2>5. new.status = "failed_terminal" /\ new.disp = disp
        BY DEF Settle
    <2>6. new \in Rows
        BY <2>2, SettleType DEF Status, TerminalStatus
    <2>7. RecoverStaleLock(s) = IF s.lock = NoCall THEN s ELSE new
        BY DEF RecoverStaleLock, disp
    <2> HIDE DEF new
    <2>8. Kept(new)
        BY <2>3, <2>4, <2>5 DEF Agrees, Fresh
    <2>9. QED
        BY <1>1, <2>6, <2>7, <2>8
<1>2. ASSUME NEW s \in Rows, Kept(s)
      PROVE  /\ RecoverStaleDispatchClaims(s) \in Rows
             /\ Kept(RecoverStaleDispatchClaims(s))
    <2> DEFINE new == RecoverStaleDispatchClaims(s)
    <2>1. new \in Rows /\ new.status = s.status /\ new.lock = s.lock
        BY DEF RecoverStaleDispatchClaims, Dispatch, Rows, PlannedDispatch,
               DispatchState
    <2>2. new = s \/ s.status = "executing"
        BY DEF RecoverStaleDispatchClaims
    <2>3. \A d \in Dispatches :
            new.disp[d] = s.disp[d] \/ new.disp[d].state = "failed_terminal"
        BY DEF RecoverStaleDispatchClaims, Dispatch, Rows
    <2> HIDE DEF new
    <2>4. Open(new.disp)
        BY <1>2, <2>3, OpenIf DEF Agrees
    <2>5. NoneQueued(s.disp) => NoneQueued(new.disp)
        BY <2>3 DEF NoneQueued
    <2>6. Kept(new)
        BY <1>2, <2>1, <2>2, <2>4, <2>5 DEF Agrees, Fresh
    <2>7. QED
        BY <2>1, <2>6 DEF new
<1>3. ASSUME NEW s \in Rows, Kept(s)
      PROVE  FinaliseAbandoned(s) \in Rows /\ Kept(FinaliseAbandoned(s))
    <2>1. CASE FinaliseAbandoned(s) = s
        BY <1>3, <2>1
    <2>2. CASE FinaliseAbandoned(s) # s
        <3> DEFINE new == Settle(s, Aggregate(s.disp), s.disp)
        <3>1. /\ FinaliseAbandoned(s) = new
              /\ NoneInFlight(s.disp) /\ NoneQueued(s.disp)
            BY <1>3, <2>2 DEF FinaliseAbandoned, NoneInFlight, States
        <3>2. s.disp \in Disps /\ Open(s.disp)
            BY <1>3 DEF Rows, Disps, Agrees
        <3>3. Agrees(new)
            BY <3>1, <3>2, SettledAgrees
        <3>4. new \in Rows
            BY <3>2, AggregateType, SettleType DEF Status, TerminalStatus
        <3>5. new.status = Aggregate(s.disp) /\ new.disp = s.disp
            BY DEF Settle
        <3>6. Aggregate(s.disp) \in {"failed_retryable", "failed_terminal",
                                     "succeeded"}
            BY AggregateType
        <3> HIDE DEF new
        <3>7. Kept(new)
            BY <3>1, <3>3, <3>5, <3>6 DEF Fresh
        <3>8. QED
            BY <3>1, <3>4, <3>7
    <2>3. QED
        BY <2>1, <2>2
<1>4. ASSUME NEW s \in Rows, Kept(s)
      PROVE  /\ Agrees(TerminaliseExpired(s))
             /\ TerminaliseExpired(s).status \in Fresh => row.status \in Fresh
    <2>1. CASE ~Expirable(s)
        BY <1>4, <2>1 DEF TerminaliseExpired
    <2>2. CASE Expirable(s)
        <3>1. /\ TerminaliseExpired(s) = Terminalise(s)
              /\ s.status \in {"pending", "failed_retryable"}
            BY <2>2 DEF TerminaliseExpired, Expirable
        <3>2. Agrees(Terminalise(s))
            BY <1>4, <3>1, TerminaliseAgrees
        <3>3. Terminalise(s).status \in Fresh => s.status \in Fresh
            BY DEF Terminalise, Settle, Fresh
        <3>4. QED
            BY <1>4, <3>1, <3>2, <3>3
    <2>3. QED
        BY <2>1, <2>2
<1>5. row \in Rows /\ Kept(row)
    <2>1. Plan \in Disps /\ NoneInFlight(Plan)
        BY PlanType DEF NoneInFlight, Plan, Queued, Dispatch
    <2>2. QED
        BY <2>1, Shapes DEF IInv, RowInv, Phase
<1> HIDE DEF Kept
<1> DEFINE recovered ==
        IF aged THEN RecoverStaleDispatchClaims(RecoverStaleLock(row)) ELSE row
<1>6. recovered \in Rows /\ Kept(recovered)
    BY <1>1, <1>2, <1>5
<1>7. CleanedUp(row, aged) = TerminaliseExpired(FinaliseAbandoned(recovered))
    BY DEF CleanedUp
<1> HIDE DEF recovered
<1>8. FinaliseAbandoned(recovered) \in Rows /\ Kept(FinaliseAbandoned(recovered))
    BY <1>3, <1>6
<1>9. QED
    BY <1>4, <1>7, <1>8

-----------------------------------------------------------------------------
(* What a step writes.                                                     *)

LEMMA StatusRow ==
    ASSUME IInv, StatusInv, [Next]_vars
    PROVE  Agrees(row')
<1>0. /\ TypeOK /\ row \in Rows /\ row.disp \in Disps /\ Agrees(row)
      /\ Open(row.disp)
      /\ img \in [Calls -> Disps] /\ \A p \in Calls : Open(img[p])
      /\ target \in [Calls -> Dispatches] /\ DB \in Dispatches
      /\ \A p \in Calls : p # NoCall
    BY Shapes, CallsAssumption
       DEF IInv, StatusInv, Agrees, ImagesOpen, Dispatches
<1>1. ASSUME NEW s, NEW disp, row' = Settle(row, s, disp), Open(disp),
             s = "failed_retryable" => Soft(disp),
             s \in {"succeeded", "failed_terminal"} => Whole(disp),
             s \notin Fresh
      PROVE  Agrees(row')
    BY <1>1 DEF Settle, Agrees
<1>2. ASSUME row'.status = "executing", Open(row'.disp) PROVE Agrees(row')
    BY <1>2 DEF Agrees, Fresh
<1>3. ASSUME row' = row PROVE Agrees(row')
    BY <1>0, <1>3
<1>4. ASSUME NEW s \in {"pending", "gone"}, row' = NewRow(s) PROVE Agrees(row')
    <2>1. row'.status = s /\ row'.disp = Plan
        BY <1>4 DEF NewRow
    <2>2. QED
        BY <2>1, OpenPlan DEF Agrees
<1>5. ASSUME NEW p \in Calls, TerminaliseExpiredAttempt(p) PROVE Agrees(row')
    <2>1. CASE row' = row
        BY <1>3, <2>1
    <2>2. CASE row' # row
        <3>1. /\ row' = Terminalise(row)
              /\ row.status \in {"pending", "failed_retryable"}
            BY <1>5, <2>2 DEF TerminaliseExpiredAttempt, Expirable
        <3>2. NoneInFlight(row.disp)
            BY <3>1 DEF IInv, RowInv
        <3>3. QED
            BY <1>0, <3>1, <3>2, TerminaliseAgrees
    <2>3. QED
        BY <2>1, <2>2
<1>6. ASSUME NEW p \in Calls, ClaimUpdate(p) PROVE Agrees(row')
    <2> DEFINE claimed == Promote(img[p], target[p])
    <2>1. Open(claimed)
        BY <1>0, OpenPromote
    <2> HIDE DEF claimed
    <2>2. row' = row \/ row' = [row EXCEPT !.status = "executing", !.lock = p,
                                         !.disp = claimed]
        BY <1>6 DEF ClaimUpdate, claimed
    <2>3. row' = row \/ (row'.status = "executing" /\ row'.disp = claimed)
        BY <1>0, <2>2 DEF Rows
    <2>4. QED
        BY <1>2, <1>3, <2>1, <2>3
<1>7. ASSUME NEW p \in Calls, WriteStaleAndClear(p) PROVE Agrees(row')
    BY <1>0, <1>1, <1>3, <1>7 DEF WriteStaleAndClear, Fresh
<1>8. ASSUME NEW p \in Calls, CommitDbFailure(p) PROVE Agrees(row')
    <2> DEFINE result == Result(p, DB)
               failed == SetState(img[p], DB, result)
               flipped == Flip(failed, {"queued"}, result)
    <2>1. result \in {"failed_retryable", "failed_terminal"}
        BY <1>8 DEF CommitDbFailure, Result
    <2>2. failed \in Disps /\ Open(failed) /\ failed[DB].state = result
        <3>1. Open(failed)
            BY <1>0, OpenSetResult
        <3>2. failed \in Disps
            BY <1>0, <2>1, SetStateType DEF DispatchState
        <3>3. failed[DB].state = result
            BY <1>0 DEF SetState, Disps, PlannedDispatch
        <3>4. QED
            BY <3>1, <3>2, <3>3
    <2>3. result = "failed_terminal" => Whole(flipped) /\ Open(flipped)
        <3> SUFFICES ASSUME result = "failed_terminal"
                     PROVE  Whole(flipped) /\ Open(flipped)
            OBVIOUS
        <3>1. OnlyInFlight(img[p], DB) /\ Phase(img[p])
            BY <1>8 DEF CommitDbFailure, IInv, CallInv, DriveInv
        <3>2. \A d \in Dispatches \ {DB} : img[p][d].state = "queued"
            BY <1>0, <3>1 DEF OnlyInFlight, Phase, Passed
        <3>3. \A d \in Dispatches \ {DB} : failed[d] = img[p][d]
            BY <1>0 DEF SetState, Disps
        <3>4. \A d \in Dispatches : flipped[d].state =
                IF failed[d].state = "queued" THEN result ELSE failed[d].state
            BY <2>1, <2>2, FlipEntry DEF DispatchState
        <3>5. Whole(flipped)
            BY <2>2, <3>2, <3>3, <3>4 DEF Whole
        <3>6. QED
            BY <3>5 DEF Whole, Open
    <2>4. result = "failed_retryable" => Soft(failed)
        BY <1>0, <2>2 DEF Soft
    <2>5. \/ row' = row
          \/ result = "failed_retryable" /\ row' = Settle(row, result, failed)
          \/ result = "failed_terminal" /\ row' = Settle(row, result, flipped)
        BY <1>8, <2>1 DEF CommitDbFailure
    <2> HIDE DEF result, failed, flipped
    <2>6. QED
        BY <1>1, <1>3, <2>2, <2>3, <2>4, <2>5 DEF Fresh
<1>9. ASSUME NEW p \in Calls, CommitDbSuccessAndFanOut(p) PROVE Agrees(row')
    <2> DEFINE disp == FanOut(img[p], p)
    <2>1. Open(disp)
        BY <1>0, OpenFanOut
    <2> HIDE DEF disp
    <2>2. row' = row \/ (row.lock = p /\ row' = [row EXCEPT !.lock = NoCall,
                                                          !.disp = disp])
        BY <1>9 DEF CommitDbSuccessAndFanOut, disp
    <2>3. row' = row \/ (row'.status = "executing" /\ row'.disp = disp)
        BY <1>0, <2>2 DEF IInv, RowInv, Rows
    <2>4. QED
        BY <1>2, <1>3, <2>1, <2>3
<1>10. ASSUME NEW p \in Calls, CommitRetry(p) PROVE Agrees(row')
    <2> DEFINE d == target[p]
               s == Result(p, d)
               disp == SetState(img[p], d, s)
    <2>1. d \in Dispatches /\ s \in DispatchState /\ s \notin {"in_flight", "queued"}
        BY <1>0, ResultType DEF DispatchState
    <2>2. disp \in Disps /\ Open(disp)
        BY <1>0, <2>1, SetStateType, OpenSetResult
    <2>3. OnlyInFlight(img[p], d) /\ NoneHeld(img[p]) /\ Phase(img[p]) /\ d # DB
        BY <1>10 DEF CommitRetry, IInv, CallInv, DriveInv
    <2>4. NoneInFlight(disp) /\ Phase(disp) /\ Passed(disp)
        BY <1>0, <2>1, <2>3, PhaseSetState
    <2>5. Agrees(Settle(row, Aggregate(disp), disp))
        BY <2>2, <2>4, SettledAgrees DEF Phase
    <2>6. row' = row \/ row' = Settle(row, Aggregate(disp), disp)
        BY <1>10 DEF CommitRetry
    <2> HIDE DEF disp
    <2>7. QED
        BY <1>3, <2>5, <2>6
<1>11. ASSUME NEW p \in Calls, NEW d \in Dispatches,
              CommitOneDispatchResult(p, d)
       PROVE  Agrees(row')
    <2> DEFINE settled == Dispatch(Result(p, d), row.disp[d].attemptCount, NoCall)
    <2>1. row' = row \/ (row.disp[d].lockToken = p
                         /\ row' = [row EXCEPT !.disp =
                                [row.disp EXCEPT ![d] = settled]])
        BY <1>0, <1>11 DEF CommitOneDispatchResult, Rows, Disps
    <2>2. CASE row' # row
        <3>1. row.status = "executing" /\ row.disp[d].lockToken = p
            BY <1>0, <2>1, <2>2 DEF IInv, RowInv, NoneHeld
        <3>2. img[p][d].attemptCount = row.disp[d].attemptCount
            BY <1>11, <3>1 DEF CommitOneDispatchResult, StatusInv, FanCounts
        <3>3. settled.state = "failed_retryable" =>
                  settled.attemptCount < MaxAttempts
            BY <1>0, <3>2, OpenResult DEF Dispatch
        <3> HIDE DEF settled
        <3>4. row'.status = "executing"
              /\ row'.disp = [row.disp EXCEPT ![d] = settled]
            BY <1>0, <2>1, <2>2, <3>1 DEF Rows
        <3>5. Open(row'.disp)
            BY <1>0, <3>3, <3>4 DEF Open, Disps
        <3>6. QED
            BY <1>2, <3>4, <3>5
    <2>3. QED
        BY <1>3, <2>2
<1>12. ASSUME NEW p \in Calls, FinaliseWrite(p) PROVE Agrees(row')
    <2> DEFINE stripped == Strip(img[p])
    <2>1. NoneInFlight(img[p]) /\ NoneQueued(img[p]) /\ img[p] \in Disps
        BY <1>0, <1>12 DEF FinaliseWrite, IInv, CallInv, FinaliseInv
    <2>2. \A d \in Dispatches :
            /\ stripped[d].state = img[p][d].state
            /\ stripped[d].attemptCount = img[p][d].attemptCount
        BY <2>1, StripEntry
    <2> HIDE DEF stripped
    <2>3. Open(stripped)
        BY <1>0, <2>2, OpenIf
    <2>4. Agrees(Settle(row, Aggregate(img[p]), stripped))
        BY <2>1, <2>2, <2>3, SettledAgrees
    <2>5. row' = row \/ row' = Settle(row, Aggregate(img[p]), stripped)
        BY <1>12 DEF FinaliseWrite, stripped
    <2>6. QED
        BY <1>3, <2>4, <2>5
<1>13. ASSUME NEW p \in Calls,
              \/ ReadRow(p) \/ Crash(p) \/ ClaimSelect(p) \/ ResolveLostClaim(p)
              \/ DraftDrifted(p) \/ FinaliseRead(p)
       PROVE  row' = row
    BY <1>13 DEF ReadRow, Crash, ClaimSelect, ResolveLostClaim, DraftDrifted,
                 FinaliseRead
<1>14. ASSUME NEW p \in Calls, NEW d \in Dispatches,
              \/ StartDispatch(p, d) \/ FailBeforeDispatch(p, d)
              \/ DispatchReturns(p, d)
       PROVE  row' = row
    BY <1>14 DEF StartDispatch, FailBeforeDispatch, DispatchReturns
<1>15. ASSUME NEW p \in Calls, ReadRow(p) \/ Advance(p) \/ Crash(p)
       PROVE  Agrees(row')
    BY <1>3, <1>5, <1>6, <1>7, <1>8, <1>9, <1>10, <1>11, <1>12, <1>13, <1>14,
       <1>15 DEF Advance
<1>16. CASE CreateApplyAttempt \/ PurgeRetained \/ AccountDeleted
    BY <1>4, <1>16 DEF CreateApplyAttempt, PurgeRetained, AccountDeleted
<1>17. CASE DeadlinePasses
    <2>1. row'.status = row.status /\ row'.disp = row.disp
        BY <1>0, <1>17 DEF DeadlinePasses, Rows
    <2>2. QED
        BY <1>0, <2>1 DEF Agrees
<1>18. CASE Cleanup
    BY <1>0, <1>18, CleanedAgrees DEF Cleanup
<1>19. QED
    BY <1>3, <1>15, <1>16, <1>17, <1>18 DEF Next, vars

LEMMA StatusImages ==
    ASSUME IInv, StatusInv, [Next]_vars, NEW q \in Calls
    PROVE  Open(img'[q])
<1>0. /\ img \in [Calls -> Disps] /\ row.disp \in Disps
      /\ Open(row.disp) /\ \A p \in Calls : Open(img[p])
      /\ target \in [Calls -> Dispatches]
    BY Shapes DEF IInv, StatusInv, Agrees, ImagesOpen
<1>1. ASSUME NEW p \in Calls, NEW new, Open(new),
             img' = [img EXCEPT ![p] = new]
      PROVE  Open(img'[q])
    BY <1>0, <1>1
<1>2. ASSUME img' = img PROVE Open(img'[q])
    BY <1>0, <1>2
<1>3. ASSUME NEW p \in Calls, Ends(p) PROVE Open(img'[q])
    BY <1>1, <1>3, OpenPlan DEF Ends
<1>4. ASSUME NEW p \in Calls, ClaimUpdate(p) PROVE Open(img'[q])
    <2> DEFINE claimed == Promote(img[p], target[p])
    <2>1. Open(claimed)
        BY <1>0, OpenPromote
    <2> HIDE DEF claimed
    <2>2. img' = img \/ img' = [img EXCEPT ![p] = claimed]
        BY <1>4 DEF ClaimUpdate, claimed
    <2>3. QED
        BY <1>1, <1>2, <2>1, <2>2
<1>5. ASSUME NEW p \in Calls, CommitDbSuccessAndFanOut(p)
      PROVE  Open(img'[q])
    <2> DEFINE disp == FanOut(img[p], p)
    <2>1. Open(disp)
        BY <1>0, OpenFanOut
    <2> HIDE DEF disp
    <2>2. Ends(p) \/ img' = [img EXCEPT ![p] = disp]
        BY <1>5 DEF CommitDbSuccessAndFanOut, disp
    <2>3. QED
        BY <1>1, <1>3, <2>1, <2>2
<1>6. ASSUME NEW p \in Calls,
             \/ ReadRow(p) \/ ClaimSelect(p) \/ FinaliseRead(p)
             \/ TerminaliseExpiredAttempt(p) \/ ResolveLostClaim(p)
             \/ WriteStaleAndClear(p) \/ CommitDbFailure(p)
             \/ CommitRetry(p) \/ FinaliseWrite(p) \/ Crash(p) \/ DraftDrifted(p)
      PROVE  Ends(p) \/ img' = img \/ img' = [img EXCEPT ![p] = row.disp]
    BY <1>6 DEF ReadRow, ClaimSelect, FinaliseRead, TerminaliseExpiredAttempt,
                ResolveLostClaim, WriteStaleAndClear, CommitDbFailure,
                CommitRetry, FinaliseWrite, Crash, DraftDrifted, local
<1>7. ASSUME NEW p \in Calls, NEW d \in Dispatches,
             \/ StartDispatch(p, d) \/ FailBeforeDispatch(p, d)
             \/ DispatchReturns(p, d) \/ CommitOneDispatchResult(p, d)
      PROVE  img' = img
    BY <1>7 DEF StartDispatch, FailBeforeDispatch, DispatchReturns,
                CommitOneDispatchResult, local
<1>8. ASSUME \/ CreateApplyAttempt \/ DeadlinePasses \/ Cleanup
             \/ PurgeRetained \/ AccountDeleted \/ UNCHANGED vars
      PROVE  img' = img
    BY <1>8 DEF CreateApplyAttempt, DeadlinePasses, Cleanup, PurgeRetained,
                AccountDeleted, vars, local
<1>9. ASSUME NEW p \in Calls, ReadRow(p) \/ Advance(p) \/ Crash(p)
      PROVE  Open(img'[q])
    <2>1. CASE Ends(p) \/ img' = img \/ img' = [img EXCEPT ![p] = row.disp]
        BY <1>0, <1>1, <1>2, <1>3, <2>1
    <2>2. QED
        BY <1>2, <1>4, <1>5, <1>6, <1>7, <1>9, <2>1 DEF Advance
<1>10. QED
    BY <1>2, <1>8, <1>9 DEF Next

\* A row that was claimed never goes back to one that was not.
LEMMA FreshBefore ==
    ASSUME IInv, StatusInv, [Next]_vars, row'.status \in Fresh
    PROVE  row.status \in Fresh
<1>0. row \in Rows
    BY Shapes DEF IInv
<1>1. CASE row'.status = row.status
    BY <1>1
<1>2. ASSUME NEW s, NEW disp, row' = Settle(row, s, disp), s \notin Fresh PROVE FALSE
    BY <1>2 DEF Settle
<1>3. ASSUME NEW p \in Calls, TerminaliseExpiredAttempt(p)
      PROVE  row' = row \/ row.status \in Fresh
    <2>1. row' = row \/ (row' = Terminalise(row) /\ Expirable(row))
        BY <1>3 DEF TerminaliseExpiredAttempt
    <2>2. CASE row' = Terminalise(row) /\ Expirable(row)
        <3>1. row.status = "pending" \/ row'.status = "failed_terminal"
            BY <2>2 DEF Terminalise, Settle
        <3>2. QED
            BY <3>1 DEF Fresh
    <2>3. QED
        BY <2>1, <2>2
<1>4. ASSUME NEW p \in Calls, ClaimUpdate(p) PROVE row' = row
    <2>1. row' = row \/ row'.status = "executing"
        BY <1>0, <1>4 DEF ClaimUpdate, Rows
    <2>2. QED
        BY <2>1 DEF Fresh
<1>5. ASSUME NEW p \in Calls,
             WriteStaleAndClear(p) \/ CommitDbFailure(p) \/ CommitRetry(p)
             \/ FinaliseWrite(p)
      PROVE  row' = row
    <2>1. CASE WriteStaleAndClear(p)
        BY <1>2, <2>1 DEF WriteStaleAndClear, Fresh
    <2>2. CASE CommitDbFailure(p)
        BY <1>2, <2>2, ResultType DEF CommitDbFailure, Fresh, Dispatches
    <2>3. CASE CommitRetry(p)
        BY <1>2, <2>3, AggregateType DEF CommitRetry, Fresh
    <2>4. CASE FinaliseWrite(p)
        BY <1>2, <2>4, AggregateType DEF FinaliseWrite, Fresh
    <2>5. QED
        BY <1>5, <2>1, <2>2, <2>3, <2>4
<1>6. ASSUME NEW p \in Calls, NEW d \in Dispatches, CommitOneDispatchResult(p, d)
      PROVE  row'.status = row.status
    BY <1>0, <1>6 DEF CommitOneDispatchResult, Rows
<1>7. ASSUME NEW p \in Calls, CommitDbSuccessAndFanOut(p)
      PROVE  row'.status = row.status
    BY <1>0, <1>7 DEF CommitDbSuccessAndFanOut, Rows
<1>8. ASSUME NEW p \in Calls,
             \/ ReadRow(p) \/ Crash(p) \/ ClaimSelect(p) \/ ResolveLostClaim(p)
             \/ DraftDrifted(p) \/ FinaliseRead(p)
       PROVE  row' = row
    BY <1>8 DEF ReadRow, Crash, ClaimSelect, ResolveLostClaim, DraftDrifted,
                 FinaliseRead
<1>9. ASSUME NEW p \in Calls, NEW d \in Dispatches,
              \/ StartDispatch(p, d) \/ FailBeforeDispatch(p, d)
              \/ DispatchReturns(p, d)
       PROVE  row' = row
    BY <1>9 DEF StartDispatch, FailBeforeDispatch, DispatchReturns
<1>10. ASSUME NEW p \in Calls, ReadRow(p) \/ Advance(p) \/ Crash(p)
       PROVE  row'.status = row.status \/ row.status \in Fresh
    BY <1>3, <1>4, <1>5, <1>6, <1>7, <1>8, <1>9, <1>10 DEF Advance
<1>11. CASE CreateApplyAttempt
    BY <1>11 DEF CreateApplyAttempt, Fresh
<1>12. ASSUME PurgeRetained \/ AccountDeleted PROVE FALSE
    BY <1>12 DEF PurgeRetained, AccountDeleted, NewRow, Fresh
<1>13. CASE DeadlinePasses
    <2>1. row'.status = row.status
        BY <1>0, <1>13 DEF DeadlinePasses, Rows
    <2>2. QED
        BY <1>1, <2>1
<1>14. CASE Cleanup
    BY <1>14, CleanedAgrees DEF Cleanup, StatusInv
<1>15. QED
    BY <1>1, <1>10, <1>11, <1>12, <1>13, <1>14 DEF Next, vars

LEMMA StatusCalls ==
    ASSUME IInv, StatusInv, [Next]_vars
    PROVE  NeverRan'
<1> SUFFICES ASSUME row'.status \in Fresh
             PROVE  /\ \A d \in Dispatches : calls'[d] = 0
                    /\ \A p \in Calls : task'[p] = NoTasks
    BY DEF NeverRan, NoTasks
<1>0. task \in [Calls -> [Dispatches -> TaskState]] /\ DB \in Dispatches
    BY Shapes DEF IInv, Dispatches
<1>1. /\ \A d \in Dispatches : calls[d] = 0
      /\ \A p \in Calls : task[p] = NoTasks
    BY FreshBefore DEF StatusInv, NeverRan
<1>2. \A p \in Calls : \A d \in Dispatches : task[p][d] = "none"
    BY <1>1 DEF NoTasks
<1>3. ASSUME calls' = calls,
             task' = task \/ \E p \in Calls : task' = [task EXCEPT ![p] = NoTasks]
      PROVE  /\ \A d \in Dispatches : calls'[d] = 0
             /\ \A p \in Calls : task'[p] = NoTasks
    BY <1>0, <1>1, <1>3
<1>4. ASSUME NEW p \in Calls, Advance(p)
      PROVE  calls' = calls /\ (task' = task \/ task' = [task EXCEPT ![p] = NoTasks])
    <2>1. ~ClaimUpdate(p) \/ (calls' = calls /\ task' = task)
        <3> SUFFICES ASSUME ClaimUpdate(p) PROVE calls' = calls /\ task' = task
            OBVIOUS
        <3>1. ~ClaimWhere(p)
            BY Shapes DEF ClaimUpdate, IInv, Rows, Fresh
        <3>2. QED
            BY <3>1 DEF ClaimUpdate
    <2>2. ASSUME NEW d \in Dispatches
          PROVE  /\ ~StartDispatch(p, d) /\ ~FailBeforeDispatch(p, d)
                 /\ ~DispatchReturns(p, d) /\ ~CommitOneDispatchResult(p, d)
        BY <1>2 DEF StartDispatch, FailBeforeDispatch, DispatchReturns,
                    CommitOneDispatchResult, Returned
    <2>3. ~CommitDbSuccessAndFanOut(p)
        BY <1>0, <1>2 DEF CommitDbSuccessAndFanOut
    <2>4. QED
        BY <1>4, <2>1, <2>2, <2>3
           DEF Advance, TerminaliseExpiredAttempt, ClaimSelect, ResolveLostClaim,
               DraftDrifted, WriteStaleAndClear, CommitDbFailure, CommitRetry,
               FinaliseRead, FinaliseWrite, Ends
<1>5. QED
    BY <1>3, <1>4
       DEF Next, vars, CreateApplyAttempt, ReadRow, Crash, Ends, DeadlinePasses,
           Cleanup, PurgeRetained, AccountDeleted

\* A sweep takes tokens away and changes no count.
LEMMA CleanedCounts ==
    ASSUME IInv, NEW aged \in BOOLEAN, NEW d \in Dispatches,
           CleanedUp(row, aged).status = "executing"
    PROVE  \/ CleanedUp(row, aged).disp[d] = row.disp[d]
           \/ CleanedUp(row, aged).disp[d].lockToken = NoCall
<1> DEFINE r == IF aged THEN RecoverStaleDispatchClaims(RecoverStaleLock(row))
                ELSE row
           f == FinaliseAbandoned(r)
<1>1. CleanedUp(row, aged) = TerminaliseExpired(f)
    BY DEF CleanedUp
<1>2. TerminaliseExpired(f) = f
    BY <1>1 DEF TerminaliseExpired, Terminalise, Settle
<1>3. f = r
    BY <1>1, <1>2, AggregateType DEF FinaliseAbandoned, Settle
<1>4. r.status = "executing" /\ CleanedUp(row, aged) = r
    BY <1>1, <1>2, <1>3
<1>5. CASE ~aged
    BY <1>4, <1>5
<1>6. CASE aged
    <2>1. row \in Rows
        BY Shapes DEF IInv
    <2>2. row.lock = NoCall
        BY <1>6, SweptLock
    <2>3. r = RecoverStaleDispatchClaims(row)
        BY <1>6, <2>2 DEF RecoverStaleLock
    <2>4. r.disp[d] = row.disp[d] \/ r.disp[d].lockToken = NoCall
        BY <2>1, <2>3 DEF RecoverStaleDispatchClaims, Dispatch, Rows
    <2>5. QED
        BY <1>4, <2>4
<1>7. QED
    BY <1>5, <1>6

LEMMA StatusFan ==
    ASSUME IInv, IInv', StatusInv, [Next]_vars
    PROVE  FanCounts'
<1>0. /\ TypeOK /\ row \in Rows /\ row.disp \in Disps
      /\ img \in [Calls -> Disps] /\ pc \in [Calls -> Where]
      /\ \A p \in Calls : p # NoCall
    BY Shapes, CallsAssumption DEF IInv
<1>1. SUFFICES ASSUME NEW q \in Calls, pc'[q] = "fan", NEW d \in Dispatches,
                      row'.disp[d].lockToken = q
               PROVE  img'[q][d].attemptCount = row'.disp[d].attemptCount
    BY DEF FanCounts
<1>2. row'.status = "executing" /\ row'.lock = NoCall
    BY <1>0, <1>1 DEF IInv, RowInv, NoneHeld
<1>3. ASSUME pc[q] = "fan", img'[q] = img[q], row'.disp[d] = row.disp[d]
      PROVE  img'[q][d].attemptCount = row'.disp[d].attemptCount
    BY <1>1, <1>3 DEF StatusInv, FanCounts
<1>4. ASSUME NEW p \in Calls, NEW where \in Where \ {"fan"}, Goes(p, where),
             img' = img \/ \E new : img' = [img EXCEPT ![p] = new]
      PROVE  pc[q] = "fan" /\ img'[q] = img[q]
    <2>1. q # p /\ pc'[q] = pc[q]
        BY <1>0, <1>1, <1>4 DEF Goes
    <2>2. QED
        BY <1>0, <1>1, <1>4, <2>1
<1>5. ASSUME NEW p \in Calls, Ends(p) PROVE pc[q] = "fan" /\ img'[q] = img[q]
    <2>1. "idle" \in Where \ {"fan"} /\ Goes(p, "idle")
        BY <1>5 DEF Where, Goes, Ends
    <2>2. QED
        BY <1>4, <1>5, <2>1 DEF Ends
<1>6. ASSUME NEW p \in Calls, CommitDbSuccessAndFanOut(p)
      PROVE  img'[q][d].attemptCount = row'.disp[d].attemptCount
    <2> DEFINE disp == FanOut(img[p], p)
    <2>1. CASE row.lock # p
        BY <1>3, <1>5, <1>6, <2>1 DEF CommitDbSuccessAndFanOut
    <2>2. CASE row.lock = p
        <3>1. NoneHeld(img[p])
            BY <1>6 DEF CommitDbSuccessAndFanOut, IInv, CallInv, DriveInv
        <3>2. disp[d].lockToken \in {NoCall, p}
            BY <1>0, <3>1 DEF FanOut, Dispatch, NoneHeld, Disps, PlannedDispatch
        <3> HIDE DEF disp
        <3>3. row' = [row EXCEPT !.lock = NoCall, !.disp = disp]
              /\ img' = [img EXCEPT ![p] = disp]
            BY <1>6, <2>2 DEF CommitDbSuccessAndFanOut, disp
        <3>4. row'.disp = disp
            BY <1>0, <3>3 DEF Rows
        <3>5. q = p
            BY <1>0, <1>1, <3>2, <3>4
        <3>6. QED
            BY <1>0, <3>3, <3>4, <3>5
    <2>3. QED
        BY <2>1, <2>2
<1>7. ASSUME NEW p \in Calls,
             \/ ReadRow(p) \/ Crash(p) \/ TerminaliseExpiredAttempt(p)
             \/ ClaimSelect(p) \/ ClaimUpdate(p) \/ ResolveLostClaim(p)
             \/ DraftDrifted(p) \/ WriteStaleAndClear(p)
             \/ CommitDbFailure(p) \/ CommitRetry(p) \/ FinaliseRead(p)
             \/ FinaliseWrite(p)
      PROVE  pc[q] = "fan" /\ img'[q] = img[q]
    <2>1. {"expiry", "select", "claim", "lost", "lost_expiry", "db", "retry",
           "stale", "finalise"} \subseteq Where \ {"fan"}
        BY DEF Where
    <2>2. \/ Ends(p)
          \/ /\ \E where \in Where \ {"fan"} : Goes(p, where)
             /\ img' = img \/ \E new : img' = [img EXCEPT ![p] = new]
        BY <1>7, <2>1
           DEF ReadRow, Crash, TerminaliseExpiredAttempt, ClaimSelect,
               ClaimUpdate, ResolveLostClaim, DraftDrifted, WriteStaleAndClear,
               CommitDbFailure, CommitRetry, FinaliseRead, FinaliseWrite, local
    <2>3. QED
        BY <1>4, <1>5, <2>2
<1>8. ASSUME NEW p \in Calls,
             \/ ReadRow(p) \/ Crash(p) \/ TerminaliseExpiredAttempt(p)
             \/ ClaimSelect(p) \/ ClaimUpdate(p) \/ ResolveLostClaim(p)
             \/ DraftDrifted(p) \/ WriteStaleAndClear(p)
             \/ CommitDbFailure(p) \/ CommitRetry(p) \/ FinaliseRead(p)
             \/ FinaliseWrite(p)
      PROVE  row' = row
    <2>1. ASSUME NEW s, NEW disp, row' = Settle(row, s, disp), s # "executing"
          PROVE  FALSE
        BY <1>2, <2>1 DEF Settle
    <2>2. CASE TerminaliseExpiredAttempt(p)
        BY <1>2, <2>2 DEF TerminaliseExpiredAttempt, Terminalise, Settle
    <2>3. CASE ClaimUpdate(p)
        BY <1>0, <1>2, <2>3 DEF ClaimUpdate, Rows
    <2>4. CASE WriteStaleAndClear(p)
        BY <2>1, <2>4 DEF WriteStaleAndClear
    <2>5. CASE CommitDbFailure(p)
        BY <2>1, <2>5, ResultType DEF CommitDbFailure, Dispatches
    <2>6. CASE CommitRetry(p)
        BY <2>1, <2>6, AggregateType DEF CommitRetry
    <2>7. CASE FinaliseWrite(p)
        BY <2>1, <2>7, AggregateType DEF FinaliseWrite
    <2>8. CASE ReadRow(p) \/ Crash(p) \/ ClaimSelect(p) \/ ResolveLostClaim(p)
               \/ DraftDrifted(p) \/ FinaliseRead(p)
        BY <2>8 DEF ReadRow, Crash, ClaimSelect, ResolveLostClaim, DraftDrifted,
                    FinaliseRead
    <2>9. QED
        BY <1>8, <2>2, <2>3, <2>4, <2>5, <2>6, <2>7, <2>8
<1>9. ASSUME NEW p \in Calls, NEW e \in Dispatches,
             \/ StartDispatch(p, e) \/ FailBeforeDispatch(p, e)
             \/ DispatchReturns(p, e) \/ CommitOneDispatchResult(p, e)
      PROVE  pc' = pc /\ img' = img /\ row'.disp[d] = row.disp[d]
    <2>1. pc' = pc /\ img' = img
        BY <1>9 DEF StartDispatch, FailBeforeDispatch, DispatchReturns,
                    CommitOneDispatchResult, local
    <2>2. row' = row \/ CommitOneDispatchResult(p, e)
        BY <1>9 DEF StartDispatch, FailBeforeDispatch, DispatchReturns
    <2>3. ASSUME CommitOneDispatchResult(p, e), row' # row
          PROVE  row'.disp[d] = row.disp[d]
        <3> DEFINE settled == Dispatch(Result(p, e), row.disp[e].attemptCount, NoCall)
        <3>1. settled.lockToken = NoCall
            BY DEF Dispatch
        <3> HIDE DEF settled
        <3>2. row' = [row EXCEPT !.disp = [row.disp EXCEPT ![e] = settled]]
            BY <1>0, <2>3 DEF CommitOneDispatchResult, settled, Rows, Disps
        <3>3. row'.disp = [row.disp EXCEPT ![e] = settled]
            BY <1>0, <3>2 DEF Rows
        <3>4. QED
            BY <1>0, <1>1, <3>1, <3>3 DEF Disps
    <2>4. QED
        BY <2>1, <2>2, <2>3
<1>10. ASSUME NEW p \in Calls, ReadRow(p) \/ Advance(p) \/ Crash(p)
       PROVE  img'[q][d].attemptCount = row'.disp[d].attemptCount
    <2>1. CASE CommitDbSuccessAndFanOut(p)
        BY <1>6, <2>1
    <2>2. ASSUME NEW e \in Dispatches,
                 \/ StartDispatch(p, e) \/ FailBeforeDispatch(p, e)
                 \/ DispatchReturns(p, e) \/ CommitOneDispatchResult(p, e)
          PROVE  img'[q][d].attemptCount = row'.disp[d].attemptCount
        BY <1>1, <1>3, <1>9, <2>2
    <2>3. QED
        BY <1>3, <1>7, <1>8, <1>10, <2>1, <2>2 DEF Advance
<1>11. ASSUME \/ CreateApplyAttempt \/ PurgeRetained \/ AccountDeleted PROVE FALSE
    BY <1>2, <1>11 DEF CreateApplyAttempt, PurgeRetained, AccountDeleted, NewRow
<1>12. ASSUME DeadlinePasses \/ UNCHANGED vars
       PROVE  pc' = pc /\ img' = img /\ row'.disp[d] = row.disp[d]
    BY <1>0, <1>12 DEF DeadlinePasses, vars, local, Rows
<1>13. ASSUME Cleanup
       PROVE  pc' = pc /\ img' = img /\ row'.disp[d] = row.disp[d]
    BY <1>0, <1>1, <1>2, <1>13, CleanedCounts DEF Cleanup, local
<1>14. QED
    BY <1>1, <1>3, <1>10, <1>11, <1>12, <1>13 DEF Next

-----------------------------------------------------------------------------
LEMMA StatusInit == Init => StatusInv
<1> SUFFICES ASSUME Init PROVE StatusInv
    OBVIOUS
<1>1. row.status = "none" /\ row.disp = Plan
    BY DEF Init, NewRow
<1>2. Agrees(row)
    BY <1>1, OpenPlan DEF Agrees
<1>3. ImagesOpen /\ FanCounts /\ NeverRan
    BY OpenPlan DEF Init, ImagesOpen, FanCounts, NeverRan
<1>4. QED
    BY <1>2, <1>3 DEF StatusInv

LEMMA StatusStep == IInv /\ StatusInv /\ [Next]_vars => StatusInv'
<1> SUFFICES ASSUME IInv, StatusInv, [Next]_vars PROVE StatusInv'
    OBVIOUS
<1>1. IInv'
    BY IInvStep
<1>2. ImagesOpen'
    BY StatusImages DEF ImagesOpen, Open
<1>3. Agrees(row)'
    BY StatusRow DEF Agrees, Open, Soft, Whole
<1>4. QED
    BY <1>1, <1>2, <1>3, StatusFan, StatusCalls DEF StatusInv

LEMMA StatusShown == IInv /\ StatusInv => StatusAgrees
<1> SUFFICES ASSUME IInv, StatusInv PROVE StatusAgrees
    OBVIOUS
<1>1. ASSUME row.status = "failed_retryable"
      PROVE  /\ row.lock = NoCall /\ NoneInFlight(row.disp) /\ Phase(row.disp)
             /\ Open(row.disp) /\ Soft(row.disp)
    BY <1>1 DEF IInv, RowInv, StatusInv, Agrees
<1>2. ASSUME row.status = "failed_retryable"
      PROVE  /\ "in_flight" \notin States(row.disp)
             /\ \E d \in Dispatches :
                  /\ row.disp[d].state = "failed_retryable"
                  /\ row.disp[d].attemptCount < MaxAttempts
             /\ row.disp[DB].state = "succeeded" => "queued" \notin States(row.disp)
    BY <1>1, <1>2 DEF NoneInFlight, NoneQueued, Phase, Passed, Open, Soft, States
<1>3. row.status \in {"succeeded", "failed_terminal"} =>
          States(row.disp) \subseteq {"succeeded", "failed_terminal"}
    BY DEF StatusInv, Agrees, Whole, States
<1>4. row.status = "expired" =>
          row.disp = Plan /\ \A d \in Dispatches : calls[d] = 0
    BY DEF StatusInv, Agrees, NeverRan, Fresh
<1>5. QED
    BY <1>1, <1>2, <1>3, <1>4 DEF StatusAgrees

\* What an operator reads on an attempt is what its dispatches say, whichever
\* settled last and whoever died before it: a softly failed attempt can be retried
\* within the cap, one that succeeded or failed for good is settled throughout,
\* and one that expired never sent a request.
THEOREM StatusIsTold == Spec => []StatusAgrees
<1>1. Spec => []StatusInv
    BY Inductive, StatusInit, StatusStep, PTL DEF Spec
<1>2. QED
    BY <1>1, Inductive, StatusShown, PTL

-----------------------------------------------------------------------------
(***************************************************************************)
(* What holds with one retry at a time: the cap on requests, the finality  *)
(* of a settled dispatch, and the contract of AttemptContract, for any     *)
(* number of confirms, any set of services and any cap.                    *)
(*                                                                         *)
(* The argument.  Only a claim writes an image of planned_dispatches that  *)
(* it did not read under the claim.  A confirm writes the plan over the    *)
(* plan; a retry takes the row out of failed_retryable, so with one retry  *)
(* at a time the row is still what the retry read (ClaimFresh).  Hence no  *)
(* count is ever lowered, a call that is ready to send has been counted    *)
(* and not yet sent (ReadyInv), and requests never outrun counts.          *)
(***************************************************************************)
OneRetry == \A r, s \in Retriers : r = s

-----------------------------------------------------------------------------
(* Which steps change the row, the images and the tasks.                   *)

RowSame ==
    /\ row'.status = row.status /\ row'.lock = row.lock
    /\ row'.disp = row.disp
Claims(p) == ClaimUpdate(p) /\ ClaimWhere(p)
FansOut(p) == CommitDbSuccessAndFanOut(p) /\ row.lock = p
Closes(p) ==
    /\ row.lock = p
    /\ WriteStaleAndClear(p) \/ CommitDbFailure(p) \/ CommitRetry(p)
SettlesOne(p) ==
    \E d \in Dispatches :
        CommitOneDispatchResult(p, d) /\ row.disp[d].lockToken = p
Finalises(p) ==
    FinaliseWrite(p) /\ row.status = "executing" /\ row.lock = NoCall

LEMMA RowChange ==
    ASSUME IInv, [Next]_vars
    PROVE  \/ RowSame
           \/ row.status = "none" /\ row' = NewRow("pending")
           \/ row.status # "none" /\ row' = NewRow("gone")
           \/ Expirable(row) /\ row' = Terminalise(row)
           \/ Cleanup
           \/ \E p \in Calls : \/ Claims(p) \/ FansOut(p) \/ Closes(p)
                               \/ SettlesOne(p) \/ Finalises(p)
<1>0. row \in Rows
    BY Shapes DEF IInv
<1>1. ASSUME row' = row PROVE RowSame
    BY <1>1 DEF RowSame
<1>2. ASSUME NEW p \in Calls,
             \/ ReadRow(p) \/ Crash(p) \/ ClaimSelect(p) \/ ResolveLostClaim(p)
             \/ DraftDrifted(p) \/ FinaliseRead(p)
      PROVE  row' = row
    BY <1>2 DEF ReadRow, Crash, ClaimSelect, ResolveLostClaim, DraftDrifted,
                FinaliseRead
<1>3. ASSUME NEW p \in Calls, NEW d \in Dispatches,
             \/ StartDispatch(p, d) \/ FailBeforeDispatch(p, d)
             \/ DispatchReturns(p, d)
      PROVE  row' = row
    BY <1>3 DEF StartDispatch, FailBeforeDispatch, DispatchReturns
<1>4. ASSUME NEW p \in Calls, TerminaliseExpiredAttempt(p)
      PROVE  row' = row \/ (Expirable(row) /\ row' = Terminalise(row))
    BY <1>4 DEF TerminaliseExpiredAttempt
<1>5. ASSUME NEW p \in Calls, ClaimUpdate(p) PROVE row' = row \/ Claims(p)
    BY <1>5 DEF ClaimUpdate, Claims
<1>6. ASSUME NEW p \in Calls,
             \/ WriteStaleAndClear(p) \/ CommitDbFailure(p)
             \/ CommitDbSuccessAndFanOut(p) \/ CommitRetry(p)
      PROVE  row' = row \/ Closes(p) \/ FansOut(p)
    BY <1>6 DEF Closes, FansOut, WriteStaleAndClear, CommitDbFailure,
                CommitDbSuccessAndFanOut, CommitRetry
<1>7. ASSUME NEW p \in Calls, NEW d \in Dispatches,
             CommitOneDispatchResult(p, d)
      PROVE  row' = row \/ SettlesOne(p)
    BY <1>7 DEF CommitOneDispatchResult, SettlesOne
<1>8. ASSUME NEW p \in Calls, FinaliseWrite(p) PROVE row' = row \/ Finalises(p)
    BY <1>8 DEF FinaliseWrite, Finalises
<1>9. ASSUME NEW p \in Calls, ReadRow(p) \/ Advance(p) \/ Crash(p)
      PROVE  \/ row' = row
             \/ Expirable(row) /\ row' = Terminalise(row)
             \/ Claims(p) \/ FansOut(p) \/ Closes(p) \/ SettlesOne(p)
             \/ Finalises(p)
    BY <1>2, <1>3, <1>4, <1>5, <1>6, <1>7, <1>8, <1>9 DEF Advance
<1>10. CreateApplyAttempt => row.status = "none" /\ row' = NewRow("pending")
    BY DEF CreateApplyAttempt
<1>11. PurgeRetained \/ AccountDeleted =>
          row.status # "none" /\ row' = NewRow("gone")
    BY DEF PurgeRetained, AccountDeleted, TerminalStatus
<1>12. DeadlinePasses => RowSame
    BY <1>0 DEF DeadlinePasses, RowSame, Rows
<1>13. UNCHANGED vars => row' = row
    BY DEF vars
<1>14. QED
    BY <1>1, <1>9, <1>10, <1>11, <1>12, <1>13 DEF Next

\* An image is kept, or read from the row, or written to it.
LEMMA ImageFrom ==
    ASSUME IInv, [Next]_vars, NEW q \in Calls
    PROVE  img'[q] \in {img[q], Plan, row.disp, row'.disp}
<1>0. img \in [Calls -> Disps] /\ row \in Rows
    BY Shapes DEF IInv
<1>1. ASSUME NEW p \in Calls, Ends(p) PROVE img'[q] \in {img[q], Plan}
    BY <1>0, <1>1 DEF Ends
<1>2. ASSUME NEW p \in Calls, ClaimUpdate(p) PROVE img'[q] \in {img[q], row'.disp}
    <2> DEFINE claimed == Promote(img[p], target[p])
    <2>1. \/ img' = img
          \/ /\ img' = [img EXCEPT ![p] = claimed]
             /\ row' = [row EXCEPT !.status = "executing", !.lock = p,
                                   !.disp = claimed]
        BY <1>2 DEF ClaimUpdate
    <2> HIDE DEF claimed
    <2>2. QED
        BY <1>0, <2>1 DEF Rows
<1>3. ASSUME NEW p \in Calls, CommitDbSuccessAndFanOut(p)
      PROVE  img'[q] \in {img[q], Plan, row'.disp}
    <2> DEFINE disp == FanOut(img[p], p)
    <2>1. \/ Ends(p)
          \/ /\ img' = [img EXCEPT ![p] = disp]
             /\ row' = [row EXCEPT !.lock = NoCall, !.disp = disp]
        BY <1>3 DEF CommitDbSuccessAndFanOut
    <2> HIDE DEF disp
    <2>2. QED
        BY <1>0, <1>1, <2>1 DEF Rows
<1>4. ASSUME NEW p \in Calls,
             ReadRow(p) \/ ClaimSelect(p) \/ FinaliseRead(p)
      PROVE  img'[q] \in {img[q], Plan, row.disp}
    BY <1>0, <1>1, <1>4 DEF ReadRow, ClaimSelect, FinaliseRead
<1>5. ASSUME NEW p \in Calls,
             \/ TerminaliseExpiredAttempt(p) \/ ResolveLostClaim(p)
             \/ DraftDrifted(p) \/ WriteStaleAndClear(p) \/ CommitDbFailure(p)
             \/ CommitRetry(p) \/ FinaliseWrite(p) \/ Crash(p)
      PROVE  img' = img \/ Ends(p)
    BY <1>5 DEF TerminaliseExpiredAttempt, ResolveLostClaim, DraftDrifted,
                WriteStaleAndClear, CommitDbFailure, CommitRetry,
                FinaliseWrite, Crash, local
<1>6. ASSUME NEW p \in Calls, NEW d \in Dispatches,
             \/ StartDispatch(p, d) \/ FailBeforeDispatch(p, d)
             \/ DispatchReturns(p, d) \/ CommitOneDispatchResult(p, d)
      PROVE  img' = img
    BY <1>6 DEF StartDispatch, FailBeforeDispatch, DispatchReturns,
                CommitOneDispatchResult, local
<1>7. ASSUME NEW p \in Calls, ReadRow(p) \/ Advance(p) \/ Crash(p)
      PROVE  img'[q] \in {img[q], Plan, row.disp, row'.disp}
    BY <1>1, <1>2, <1>3, <1>4, <1>5, <1>6, <1>7 DEF Advance
<1>8. ASSUME \/ CreateApplyAttempt \/ DeadlinePasses \/ Cleanup
             \/ PurgeRetained \/ AccountDeleted \/ UNCHANGED vars
      PROVE  img' = img
    BY <1>8 DEF CreateApplyAttempt, DeadlinePasses, Cleanup, PurgeRetained,
                AccountDeleted, vars, local
<1>9. QED
    BY <1>7, <1>8 DEF Next

\* Who is about to claim has just read the row, or was about to before.
LEMMA ClaimBefore ==
    ASSUME IInv, [Next]_vars, NEW q \in Calls, pc'[q] = "claim"
    PROVE  \/ pc[q] = "claim" /\ img'[q] = img[q]
           \/ /\ img'[q] = row.disp /\ row' = row
              /\ row.lock = NoCall /\ row.status = Claimable(q)
<1>0. pc \in [Calls -> Where] /\ img \in [Calls -> Disps]
    BY Shapes DEF IInv
<1>1. ASSUME NEW p \in Calls, Ends(p) PROVE pc[q] = "claim" /\ img'[q] = img[q]
    BY <1>0, <1>1 DEF Ends
<1>2. ASSUME NEW p \in Calls, ClaimSelect(p)
      PROVE  \/ pc[q] = "claim" /\ img'[q] = img[q]
             \/ /\ img'[q] = row.disp /\ row' = row
                /\ row.lock = NoCall /\ row.status = Claimable(q)
    BY <1>0, <1>2 DEF ClaimSelect, Goes
<1>3. ASSUME NEW p \in Calls, NEW where, where # "claim", Goes(p, where),
             img' = img \/ \E new : img' = [img EXCEPT ![p] = new]
      PROVE  pc[q] = "claim" /\ img'[q] = img[q]
    <2>1. q # p
        BY <1>0, <1>3 DEF Goes
    <2>2. QED
        BY <1>0, <1>3, <2>1 DEF Goes
<1>4. ASSUME NEW p \in Calls,
             \/ ReadRow(p) \/ TerminaliseExpiredAttempt(p) \/ ClaimUpdate(p)
             \/ ResolveLostClaim(p) \/ DraftDrifted(p) \/ FinaliseRead(p)
             \/ CommitDbSuccessAndFanOut(p)
      PROVE  \/ Ends(p)
             \/ /\ \E where : where # "claim" /\ Goes(p, where)
                /\ img' = img \/ \E new : img' = [img EXCEPT ![p] = new]
    <2>1. CASE ReadRow(p)
        <3>1. Goes(p, "expiry") \/ Goes(p, "select")
            BY <2>1 DEF ReadRow
        <3>2. img' = img \/ img' = [img EXCEPT ![p] = row.disp]
            BY <2>1 DEF ReadRow
        <3>3. QED
            BY <3>1, <3>2
    <2>2. CASE TerminaliseExpiredAttempt(p)
        BY <2>2 DEF TerminaliseExpiredAttempt, local
    <2>3. CASE ClaimUpdate(p)
        <3>1. Goes(p, "db") \/ Goes(p, "retry") \/ Goes(p, "lost")
            BY <2>3 DEF ClaimUpdate
        <3>2. img' = img \/ \E new : img' = [img EXCEPT ![p] = new]
            BY <2>3 DEF ClaimUpdate
        <3>3. QED
            BY <3>1, <3>2
    <2>4. CASE ResolveLostClaim(p)
        BY <2>4 DEF ResolveLostClaim
    <2>5. CASE DraftDrifted(p)
        BY <2>5 DEF DraftDrifted, local
    <2>6. CASE FinaliseRead(p)
        BY <2>6 DEF FinaliseRead
    <2>7. CASE CommitDbSuccessAndFanOut(p)
        BY <2>7 DEF CommitDbSuccessAndFanOut
    <2>8. QED
        BY <1>4, <2>1, <2>2, <2>3, <2>4, <2>5, <2>6, <2>7
<1>5. ASSUME NEW p \in Calls,
             \/ WriteStaleAndClear(p) \/ CommitDbFailure(p) \/ CommitRetry(p)
             \/ FinaliseWrite(p) \/ Crash(p)
      PROVE  Ends(p)
    BY <1>5 DEF WriteStaleAndClear, CommitDbFailure, CommitRetry,
                FinaliseWrite, Crash
<1>6. ASSUME NEW p \in Calls, NEW d \in Dispatches,
             \/ StartDispatch(p, d) \/ FailBeforeDispatch(p, d)
             \/ DispatchReturns(p, d) \/ CommitOneDispatchResult(p, d)
      PROVE  pc' = pc /\ img' = img
    BY <1>6 DEF StartDispatch, FailBeforeDispatch, DispatchReturns,
                CommitOneDispatchResult, local
<1>7. ASSUME NEW p \in Calls, ReadRow(p) \/ Advance(p) \/ Crash(p)
      PROVE  \/ pc[q] = "claim" /\ img'[q] = img[q]
             \/ /\ img'[q] = row.disp /\ row' = row
                /\ row.lock = NoCall /\ row.status = Claimable(q)
    <2>1. CASE ClaimSelect(p)
        BY <1>2, <2>1
    <2>2. CASE Ends(p)
        BY <1>1, <2>2
    <2>3. ASSUME NEW d \in Dispatches,
                 \/ StartDispatch(p, d) \/ FailBeforeDispatch(p, d)
                 \/ DispatchReturns(p, d) \/ CommitOneDispatchResult(p, d)
          PROVE  pc[q] = "claim" /\ img'[q] = img[q]
        BY <1>6, <2>3
    <2>4. QED
        BY <1>3, <1>4, <1>5, <1>7, <2>1, <2>2, <2>3 DEF Advance
<1>8. ASSUME \/ CreateApplyAttempt \/ DeadlinePasses \/ Cleanup
             \/ PurgeRetained \/ AccountDeleted \/ UNCHANGED vars
      PROVE  pc' = pc /\ img' = img
    BY <1>8 DEF CreateApplyAttempt, DeadlinePasses, Cleanup, PurgeRetained,
                AccountDeleted, vars, local
<1>9. QED
    BY <1>7, <1>8 DEF Next

\* A dispatch that is ready to be sent was, or its call has just claimed it.
LEMMA ReadyBefore ==
    ASSUME IInv, [Next]_vars, NEW q \in Calls, NEW d \in Dispatches,
           task'[q][d] = "ready"
    PROVE  \/ task[q][d] = "ready" /\ img'[q] = img[q]
           \/ Claims(q) /\ d = target[q]
           \/ FansOut(q) /\ FanOut(img[q], q)[d].state = "in_flight"
<1> DEFINE Was == task[q][d] = "ready" /\ img'[q] = img[q]
<1>0. /\ task \in [Calls -> [Dispatches -> TaskState]]
      /\ img \in [Calls -> Disps] /\ target \in [Calls -> Dispatches]
      /\ \A p \in Calls : pc[p] \notin {"db", "retry", "fan"} =>
            task[p] = NoTasks
    BY Shapes DEF IInv, CallInv
<1>1. ASSUME NEW p \in Calls, task' = [task EXCEPT ![p] = NoTasks],
             img' = img \/ \E new : img' = [img EXCEPT ![p] = new]
      PROVE  Was
    <2>1. q # p
        BY <1>0, <1>1 DEF NoTasks
    <2>2. QED
        BY <1>0, <1>1, <2>1
<1>2. ASSUME NEW p \in Calls, Ends(p) PROVE Was
    BY <1>1, <1>2 DEF Ends
<1>3. ASSUME NEW p \in Calls, ReadRow(p) \/ ClaimSelect(p) \/ FinaliseRead(p)
      PROVE  Was
    <2>1. task[p] = NoTasks
        BY <1>0, <1>3 DEF ReadRow, ClaimSelect, FinaliseRead
    <2>2. Ends(p) \/ (task' = task
            /\ (img' = img \/ \E new : img' = [img EXCEPT ![p] = new]))
        BY <1>3 DEF ReadRow, ClaimSelect, FinaliseRead
    <2>3. CASE task' = task
               /\ (img' = img \/ \E new : img' = [img EXCEPT ![p] = new])
        <3>1. q # p
            BY <2>1, <2>3 DEF NoTasks
        <3>2. QED
            BY <1>0, <2>3, <3>1
    <2>4. QED
        BY <1>2, <2>2, <2>3
<1>4. ASSUME NEW p \in Calls, ClaimUpdate(p)
      PROVE  Was \/ (Claims(q) /\ d = target[q])
    <2>1. CASE ~ClaimWhere(p)
        BY <1>4, <2>1 DEF ClaimUpdate
    <2>2. CASE ClaimWhere(p)
        <3>1. /\ task[p] = NoTasks
              /\ task' = [task EXCEPT ![p][target[p]] = "ready"]
              /\ \E new : img' = [img EXCEPT ![p] = new]
            BY <1>0, <1>4, <2>2 DEF ClaimUpdate
        <3>2. CASE q = p
            BY <1>0, <1>4, <2>2, <3>1, <3>2 DEF Claims, NoTasks
        <3>3. CASE q # p
            BY <1>0, <3>1, <3>3
        <3>4. QED
            BY <3>2, <3>3
    <2>3. QED
        BY <2>1, <2>2
<1>5. ASSUME NEW p \in Calls, CommitDbSuccessAndFanOut(p)
      PROVE  \/ Was
             \/ FansOut(q) /\ FanOut(img[q], q)[d].state = "in_flight"
    <2>1. CASE row.lock # p
        BY <1>2, <1>5, <2>1 DEF CommitDbSuccessAndFanOut
    <2>2. CASE row.lock = p
        <3> DEFINE disp == FanOut(img[p], p)
        <3>1. /\ task' = [task EXCEPT ![p] = [e \in Dispatches |->
                            IF disp[e].state = "in_flight" THEN "ready"
                            ELSE "none"]]
              /\ img' = [img EXCEPT ![p] = disp]
            BY <1>5, <2>2 DEF CommitDbSuccessAndFanOut
        <3>2. CASE q = p
            BY <1>0, <1>5, <2>2, <3>1, <3>2 DEF FansOut
        <3>3. CASE q # p
            BY <1>0, <3>1, <3>3
        <3>4. QED
            BY <3>2, <3>3
    <2>3. QED
        BY <2>1, <2>2
<1>6. ASSUME NEW p \in Calls, TerminaliseExpiredAttempt(p) PROVE Was
    BY <1>2, <1>6 DEF TerminaliseExpiredAttempt, local
<1>7. ASSUME NEW p \in Calls, ResolveLostClaim(p) PROVE Was
    BY <1>2, <1>7 DEF ResolveLostClaim
<1>8. ASSUME NEW p \in Calls, DraftDrifted(p) PROVE Was
    BY <1>1, <1>8 DEF DraftDrifted, local
<1>9. ASSUME NEW p \in Calls,
             \/ WriteStaleAndClear(p) \/ CommitDbFailure(p) \/ CommitRetry(p)
             \/ FinaliseWrite(p) \/ Crash(p)
      PROVE  Was
    BY <1>2, <1>9 DEF WriteStaleAndClear, CommitDbFailure, CommitRetry,
                      FinaliseWrite, Crash
<1>10. ASSUME NEW p \in Calls, NEW e \in Dispatches,
              \/ StartDispatch(p, e) \/ FailBeforeDispatch(p, e)
              \/ DispatchReturns(p, e) \/ CommitOneDispatchResult(p, e)
       PROVE  Was
    <2>1. /\ img' = img
          /\ \E s \in TaskState \ {"ready"} : task' = [task EXCEPT ![p][e] = s]
        BY <1>10 DEF StartDispatch, FailBeforeDispatch, DispatchReturns,
                     CommitOneDispatchResult, local, TaskState, Returned
    <2>2. QED
        BY <1>0, <2>1
<1>11. ASSUME NEW p \in Calls, ReadRow(p) \/ Advance(p) \/ Crash(p)
       PROVE  \/ Was
              \/ Claims(q) /\ d = target[q]
              \/ FansOut(q) /\ FanOut(img[q], q)[d].state = "in_flight"
    <2> HIDE DEF Was
    <2>1. QED
        BY <1>3, <1>4, <1>5, <1>6, <1>7, <1>8, <1>9, <1>10, <1>11 DEF Advance
<1>12. ASSUME \/ CreateApplyAttempt \/ DeadlinePasses \/ Cleanup
              \/ PurgeRetained \/ AccountDeleted \/ UNCHANGED vars
       PROVE  Was
    BY <1>12 DEF CreateApplyAttempt, DeadlinePasses, Cleanup, PurgeRetained,
                 AccountDeleted, vars, local
<1>13. QED
    BY <1>11, <1>12 DEF Next

-----------------------------------------------------------------------------
(* Every writer but a claim and the fan-out keeps the counts and leaves    *)
(* settled dispatches settled.                                             *)

Settled == {"succeeded", "failed_terminal"}
Steady(old, new) ==
    \A d \in Dispatches :
        /\ new[d].attemptCount = old[d].attemptCount
        /\ new[d].state = "queued" => old[d].state = "queued"
        /\ old[d].state \in Settled => new[d].state = old[d].state

LEMMA SteadyTwice ==
    ASSUME NEW a, NEW b, NEW c, Steady(a, b), Steady(b, c)
    PROVE  Steady(a, c)
BY DEF Steady

LEMMA SteadyFlip ==
    ASSUME NEW disp \in Disps, NEW from, NEW to \in DispatchState,
           to # "queued", from \cap Settled = {}
    PROVE  Steady(disp, Flip(disp, from, to))
<1>1. \A d \in Dispatches :
        /\ Flip(disp, from, to)[d].attemptCount = disp[d].attemptCount
        /\ Flip(disp, from, to)[d].state =
              IF disp[d].state \in from THEN to ELSE disp[d].state
    BY FlipEntry
<1>2. QED
    BY <1>1 DEF Steady

LEMMA SteadyStrip ==
    ASSUME NEW disp \in Disps
    PROVE  Steady(disp, Strip(disp))
BY StripEntry DEF Steady

\* The dispatch that a call runs under the row lock gets its result.
LEMMA SteadySetState ==
    ASSUME NEW disp \in Disps, NEW d \in Dispatches, NEW s \in DispatchState,
           OnlyInFlight(disp, d), s # "queued"
    PROVE  Steady(disp, SetState(disp, d, s))
<1>1. /\ SetState(disp, d, s)[d].state = s
      /\ SetState(disp, d, s)[d].attemptCount = disp[d].attemptCount
      /\ \A e \in Dispatches \ {d} : SetState(disp, d, s)[e] = disp[e]
    BY DEF SetState, Disps, PlannedDispatch
<1>2. disp[d].state = "in_flight"
    BY DEF OnlyInFlight
<1>3. QED
    BY <1>1, <1>2 DEF Steady, Settled

LEMMA SteadyTerminalise ==
    ASSUME NEW r \in Rows
    PROVE  Steady(r.disp, Terminalise(r).disp)
<1> DEFINE flipped == Flip(r.disp, {"failed_retryable", "queued"},
                           "failed_terminal")
<1>1. r.disp \in Disps
    BY DEF Rows, Disps
<1>2. Steady(r.disp, flipped)
    BY <1>1, SteadyFlip DEF DispatchState, Settled
<1> HIDE DEF flipped
<1>3. Terminalise(r).disp \in {r.disp, flipped}
    BY DEF Terminalise, Settle, flipped
<1>4. QED
    BY <1>2, <1>3 DEF Steady

LEMMA SteadyCleanedUp ==
    ASSUME NEW r \in Rows, NEW aged \in BOOLEAN
    PROVE  Steady(r.disp, CleanedUp(r, aged).disp)
<1> DEFINE swept == {s \in Rows : Steady(r.disp, s.disp)}
<1>1. ASSUME NEW s \in swept PROVE RecoverStaleLock(s) \in swept
    <2> DEFINE flipped == Flip(s.disp,
                            {"in_flight", "queued", "failed_retryable"},
                            "failed_terminal")
               disp == Strip(flipped)
    <2>1. s.disp \in Disps
        BY DEF Rows, Disps
    <2>2. flipped \in Disps /\ disp \in Disps
        BY <2>1, FlipType, StripType DEF DispatchState
    <2>3. Steady(s.disp, flipped)
        BY <2>1, SteadyFlip DEF DispatchState, Settled
    <2> HIDE DEF flipped
    <2>4. Steady(r.disp, disp)
        BY <2>2, <2>3, SteadyStrip, SteadyTwice
    <2> HIDE DEF disp
    <2>5. Settle(s, "failed_terminal", disp) \in Rows
        BY <2>2, SettleType DEF Status, TerminalStatus
    <2>6. Settle(s, "failed_terminal", disp) \in swept
        BY <2>4, <2>5 DEF Settle
    <2>7. QED
        BY <2>6 DEF RecoverStaleLock, disp, flipped
<1>2. ASSUME NEW s \in swept PROVE RecoverStaleDispatchClaims(s) \in swept
    <2>1. RecoverStaleDispatchClaims(s) \in Rows
        BY DEF RecoverStaleDispatchClaims, Dispatch, Rows, PlannedDispatch,
               DispatchState
    <2>2. Steady(s.disp, RecoverStaleDispatchClaims(s).disp)
        BY DEF RecoverStaleDispatchClaims, Dispatch, Rows, Steady, Settled
    <2>3. QED
        BY <2>1, <2>2, SteadyTwice
<1>3. ASSUME NEW s \in swept PROVE FinaliseAbandoned(s) \in swept
    <2>1. s.disp \in Disps
        BY DEF Rows, Disps
    <2>2. Settle(s, Aggregate(s.disp), s.disp) \in Rows
        BY <2>1, AggregateType, SettleType DEF Status, TerminalStatus
    <2>3. FinaliseAbandoned(s).disp = s.disp
        BY DEF FinaliseAbandoned, Settle
    <2>4. QED
        BY <2>2, <2>3 DEF FinaliseAbandoned
<1>4. ASSUME NEW s \in swept PROVE TerminaliseExpired(s) \in swept
    BY TerminaliseType, SteadyTerminalise, SteadyTwice DEF TerminaliseExpired
<1>5. r \in swept
    BY DEF Steady
<1> HIDE DEF swept
<1>6. CleanedUp(r, aged) \in swept
    BY <1>1, <1>2, <1>3, <1>4, <1>5 DEF CleanedUp
<1>7. QED
    BY <1>6 DEF swept

\* The commits that write what they hold.
LEMMA SteadyCloses ==
    ASSUME IInv, NEW p \in Calls, Closes(p)
    PROVE  Steady(row.disp, row'.disp)
<1>0. /\ TypeOK /\ row.lock = p /\ row.disp \in Disps /\ img[p] \in Disps
      /\ DB \in Dispatches /\ target[p] \in Dispatches
    BY Shapes DEF IInv, Closes, Dispatches
<1>1. CASE WriteStaleAndClear(p)
    BY <1>0, <1>1 DEF WriteStaleAndClear, Settle, Steady
<1>2. CASE CommitDbFailure(p)
    <2> DEFINE result == Result(p, DB)
               failed == SetState(img[p], DB, result)
               flipped == Flip(failed, {"queued"}, result)
    <2>1. result \in DispatchState /\ result # "queued"
        BY <1>0, ResultType DEF DispatchState
    <2>2. row.disp = img[p] /\ OnlyInFlight(img[p], DB)
        BY <1>0, <1>2 DEF CommitDbFailure, IInv, CallInv, DriveInv
    <2>3. failed \in Disps /\ Steady(img[p], failed)
        BY <1>0, <2>1, <2>2, SetStateType, SteadySetState
    <2>4. row'.disp \in {failed, flipped}
        BY <1>0, <1>2 DEF CommitDbFailure, Settle
    <2> HIDE DEF failed, result
    <2>5. Steady(failed, flipped)
        BY <2>1, <2>3, SteadyFlip DEF Settled
    <2> HIDE DEF flipped
    <2>6. QED
        BY <2>2, <2>3, <2>4, <2>5, SteadyTwice
<1>3. CASE CommitRetry(p)
    <2> DEFINE s == Result(p, target[p])
               disp == SetState(img[p], target[p], s)
    <2>1. s \in DispatchState /\ s # "queued"
        BY <1>0, ResultType DEF DispatchState
    <2>2. row.disp = img[p] /\ OnlyInFlight(img[p], target[p])
        BY <1>0, <1>3 DEF CommitRetry, IInv, CallInv, DriveInv
    <2>3. Steady(img[p], disp)
        BY <1>0, <2>1, <2>2, SteadySetState
    <2>4. row'.disp = disp
        BY <1>0, <1>3 DEF CommitRetry, Settle
    <2>5. QED
        BY <2>2, <2>3, <2>4
<1>4. QED
    BY <1>1, <1>2, <1>3 DEF Closes

LEMMA SteadySettlesOne ==
    ASSUME IInv, NEW p \in Calls, SettlesOne(p)
    PROVE  Steady(row.disp, row'.disp)
<1>0. TypeOK /\ row \in Rows /\ row.disp \in Disps /\ p # NoCall
    BY Shapes, CallsAssumption DEF IInv
<1>1. PICK d \in Dispatches :
        CommitOneDispatchResult(p, d) /\ row.disp[d].lockToken = p
    BY DEF SettlesOne
<1> DEFINE settled == Dispatch(Result(p, d), row.disp[d].attemptCount, NoCall)
<1>2. /\ settled.attemptCount = row.disp[d].attemptCount
      /\ settled.state # "queued"
    BY ResultType DEF Dispatch
<1>3. row' = [row EXCEPT !.disp = [row.disp EXCEPT ![d] = settled]]
    BY <1>0, <1>1 DEF CommitOneDispatchResult, Rows, Disps
<1>4. row.disp[d].state = "in_flight"
    BY <1>0, <1>1 DEF IInv, RowInv, NoneHeld
<1> HIDE DEF settled
<1>5. row'.disp = [row.disp EXCEPT ![d] = settled]
    BY <1>0, <1>3 DEF Rows
<1>6. QED
    BY <1>0, <1>2, <1>4, <1>5 DEF Steady, Settled, Disps

LEMMA SteadyFinalises ==
    ASSUME IInv, NEW p \in Calls, Finalises(p)
    PROVE  Steady(row.disp, row'.disp)
<1>1. row.disp = img[p] /\ img[p] \in Disps
    BY Shapes DEF Finalises, FinaliseWrite, IInv, CallInv, FinaliseInv
<1>2. row'.disp = Strip(img[p])
    BY DEF Finalises, FinaliseWrite, Settle
<1>3. QED
    BY <1>1, <1>2, SteadyStrip

LEMMA SteadyOrStarts ==
    ASSUME IInv, [Next]_vars
    PROVE  \/ row'.status = "gone"
           \/ Steady(row.disp, row'.disp)
           \/ \E p \in Calls : Claims(p) \/ FansOut(p)
<1>0. row \in Rows
    BY Shapes DEF IInv
<1>1. RowSame => Steady(row.disp, row'.disp)
    BY DEF RowSame, Steady
<1>2. row.status = "none" /\ row' = NewRow("pending") =>
          Steady(row.disp, row'.disp)
    BY DEF IInv, RowInv, NewRow, Steady
<1>3. row' = NewRow("gone") => row'.status = "gone"
    BY DEF NewRow
<1>4. row' = Terminalise(row) => Steady(row.disp, row'.disp)
    BY <1>0, SteadyTerminalise
<1>5. Cleanup => Steady(row.disp, row'.disp)
    BY <1>0, SteadyCleanedUp DEF Cleanup
<1>6. QED
    BY <1>1, <1>2, <1>3, <1>4, <1>5, RowChange, SteadyCloses,
       SteadySettlesOne, SteadyFinalises

-----------------------------------------------------------------------------
(* The invariant.                                                          *)

\* A claim in the making holds the row as it is, until the attempt is over.
ClaimFresh ==
    \A q \in Calls : pc[q] = "claim" =>
        /\ q \in Confirmers => img[q] = Plan
        /\ q \in Retriers =>
              \/ Over
              \/ row.status = "failed_retryable" /\ row.disp = img[q]

\* No count passes the cap, and what waits in the queue was never claimed.
Within(disp) ==
    \A d \in Dispatches :
        /\ disp[d].attemptCount <= MaxAttempts
        /\ disp[d].state = "queued" => disp[d].attemptCount = 0
WithinInv == Within(row.disp) /\ \A q \in Calls : Within(img[q])

\* Every request was counted before it was sent, ...
Counted ==
    row.status # "gone" =>
        \A d \in Dispatches : calls[d] <= row.disp[d].attemptCount

\* ... the next one too.
ReadyInv ==
    \A q \in Calls : \A d \in Dispatches : task[q][d] = "ready" =>
        /\ calls[d] < img[q][d].attemptCount
        /\ row.status # "gone" =>
              img[q][d].attemptCount <= row.disp[d].attemptCount

CapInv ==
    ClaimFresh /\ WithinInv /\ Counted /\ ReadyInv /\ RequestsWithinCap

-----------------------------------------------------------------------------
(* How a row leaves the states it waits in.                                *)

LEMMA OverStays ==
    ASSUME IInv, [Next]_vars, Over
    PROVE  Over'
<1>1. /\ row.status \notin {"none", "executing", "pending", "failed_retryable"}
      /\ row.lock = NoCall /\ NoneHeld(row.disp)
      /\ \A p \in Calls : p # NoCall
    BY CallsAssumption DEF Over, TerminalStatus, IInv, RowInv
<1>2. RowSame => Over'
    BY DEF RowSame, Over
<1>3. row' = NewRow("gone") => Over'
    BY DEF NewRow, Over
<1>4. ~Expirable(row)
    BY <1>1 DEF Expirable
<1>5. ASSUME Cleanup PROVE Over'
    <2>1. PICK aged \in BOOLEAN : row' = CleanedUp(row, aged) /\ row' # row
        BY <1>5 DEF Cleanup
    <2>2. QED
        BY <1>1, <2>1, SweptUnclaimed
<1>6. ASSUME NEW p \in Calls
      PROVE  ~Claims(p) /\ ~FansOut(p) /\ ~Closes(p) /\ ~SettlesOne(p)
             /\ ~Finalises(p)
    BY <1>1 DEF Claims, ClaimWhere, Claimable, FansOut, Closes, SettlesOne,
                NoneHeld, Finalises
<1>7. QED
    BY <1>1, <1>2, <1>3, <1>4, <1>5, <1>6, RowChange

LEMMA WaitingStays ==
    ASSUME IInv, [Next]_vars, row.status = "failed_retryable"
    PROVE  \/ Over'
           \/ row'.status = "failed_retryable" /\ row'.disp = row.disp
           \/ \E p \in Retriers : Claims(p)
<1>1. /\ row.lock = NoCall /\ NoneHeld(row.disp)
      /\ \A p \in Calls : p # NoCall
    BY CallsAssumption DEF IInv, RowInv
<1>2. row' = NewRow("gone") => Over'
    BY DEF NewRow, Over
<1>3. row' = Terminalise(row) => Over'
    BY DEF Terminalise, Settle, Over, TerminalStatus
<1>4. ASSUME Cleanup PROVE Over'
    <2>1. PICK aged \in BOOLEAN : row' = CleanedUp(row, aged) /\ row' # row
        BY <1>4 DEF Cleanup
    <2>2. QED
        BY <1>1, <2>1, SweptUnclaimed
<1>5. ASSUME NEW p \in Calls
      PROVE  /\ ~FansOut(p) /\ ~Closes(p) /\ ~SettlesOne(p) /\ ~Finalises(p)
             /\ Claims(p) => p \in Retriers
    BY <1>1 DEF Claims, ClaimWhere, Claimable, FansOut, Closes, SettlesOne,
                NoneHeld, Finalises, Calls
<1>6. QED
    BY <1>2, <1>3, <1>4, <1>5, RowChange DEF RowSame

\* A claim writes the row it finds, with its own dispatch promoted.
LEMMA ClaimWrites ==
    ASSUME IInv, ClaimFresh, NEW p \in Calls, Claims(p)
    PROVE  /\ row.disp = img[p] /\ row'.disp = Promote(row.disp, target[p])
           /\ img'[p] = row'.disp
           /\ row.status = Claimable(p) /\ row'.status = "executing"
           /\ row'.lock = p
           /\ \/ row.disp[target[p]].state = "failed_retryable"
              \/ row.disp = Plan
<1> DEFINE claimed == Promote(img[p], target[p])
<1>0. row \in Rows /\ img \in [Calls -> Disps]
    BY Shapes DEF IInv
<1>1. pc[p] = "claim" /\ row.lock = NoCall /\ row.status = Claimable(p)
    BY DEF Claims, ClaimUpdate, ClaimWhere
<1>2. row.status \in {"pending", "failed_retryable"} /\ ~Over
    BY <1>1, WaitingRow
<1>3. ASSUME p \in Confirmers
      PROVE  row.disp = img[p] /\ row.disp = Plan
    BY <1>1, <1>3 DEF ClaimFresh, Claimable, IInv, RowInv
<1>4. ASSUME p \in Retriers
      PROVE  /\ row.disp = img[p]
             /\ row.disp[target[p]].state = "failed_retryable"
    BY <1>1, <1>2, <1>4 DEF ClaimFresh, IInv, CallInv, ClaimInv
<1>5. /\ row' = [row EXCEPT !.status = "executing", !.lock = p,
                            !.disp = claimed]
      /\ img' = [img EXCEPT ![p] = claimed]
    BY DEF Claims, ClaimUpdate
<1> HIDE DEF claimed
<1>6. row'.disp = claimed /\ img'[p] = claimed /\ row'.status = "executing"
      /\ row'.lock = p
    BY <1>0, <1>5 DEF Rows
<1>7. row.disp = img[p]
      /\ (row.disp[target[p]].state = "failed_retryable" \/ row.disp = Plan)
    BY <1>3, <1>4 DEF Calls
<1>8. QED
    BY <1>1, <1>6, <1>7 DEF claimed

LEMMA PromoteEntry ==
    ASSUME NEW disp \in Disps, NEW t \in Dispatches
    PROVE  /\ Promote(disp, t)[t].state = "in_flight"
           /\ Promote(disp, t)[t].attemptCount = disp[t].attemptCount + 1
           /\ \A d \in Dispatches \ {t} : Promote(disp, t)[d] = disp[d]
BY DEF Promote, Dispatch, Disps

\* The fan-out of the call that holds the row.
LEMMA FanOutWrites ==
    ASSUME IInv, NEW p \in Calls, FansOut(p)
    PROVE  /\ row.disp = img[p] /\ row'.disp = FanOut(row.disp, p)
           /\ img'[p] = row'.disp
           /\ row.status = "executing" /\ row'.status = "executing"
           /\ OnlyInFlight(row.disp, DB)
           /\ \A d \in Dispatches \ {DB} :
                /\ row.disp[d].state = "queued"
                /\ row'.disp[d].state = "in_flight"
                /\ row'.disp[d].attemptCount = row.disp[d].attemptCount + 1
           /\ row'.disp[DB].state = "succeeded"
           /\ row'.disp[DB].attemptCount = row.disp[DB].attemptCount
<1> DEFINE disp == FanOut(img[p], p)
<1>0. row \in Rows /\ img \in [Calls -> Disps] /\ p # NoCall /\ DB \in Dispatches
    BY Shapes, CallsAssumption DEF IInv, Dispatches
<1>1. /\ row.lock = p /\ pc[p] = "db"
      /\ row' = [row EXCEPT !.lock = NoCall, !.disp = disp]
      /\ img' = [img EXCEPT ![p] = disp]
    BY DEF FansOut, CommitDbSuccessAndFanOut
<1>2. /\ row.disp = img[p] /\ OnlyInFlight(img[p], DB) /\ Phase(img[p])
      /\ row.status = "executing"
    BY <1>0, <1>1 DEF IInv, RowInv, CallInv, DriveInv
<1>3. \A d \in Dispatches \ {DB} : img[p][d].state = "queued"
    BY <1>0, <1>2 DEF OnlyInFlight, Phase, Passed
<1>4. /\ \A d \in Dispatches \ {DB} :
            /\ disp[d].state = "in_flight"
            /\ disp[d].attemptCount = img[p][d].attemptCount + 1
      /\ disp[DB].state = "succeeded"
      /\ disp[DB].attemptCount = img[p][DB].attemptCount
    BY <1>0, <1>3 DEF FanOut, Dispatch, Disps, PlannedDispatch
<1> HIDE DEF disp
<1>5. row'.disp = disp /\ img'[p] = disp /\ row'.status = row.status
    BY <1>0, <1>1 DEF Rows
<1>6. QED
    BY <1>2, <1>3, <1>4, <1>5 DEF disp

-----------------------------------------------------------------------------
(* Every step keeps it.                                                    *)

LEMMA ClaimFreshStep ==
    ASSUME OneRetry, IInv, ClaimFresh, [Next]_vars
    PROVE  ClaimFresh'
<1>1. SUFFICES ASSUME NEW q \in Calls, pc'[q] = "claim"
               PROVE  /\ q \in Confirmers => img'[q] = Plan
                      /\ q \in Retriers =>
                            \/ Over'
                            \/ /\ row'.status = "failed_retryable"
                               /\ row'.disp = img'[q]
    BY DEF ClaimFresh
<1>2. CASE /\ img'[q] = row.disp /\ row' = row
           /\ row.lock = NoCall /\ row.status = Claimable(q)
    BY <1>2, CallsAssumption DEF Claimable, IInv, RowInv
<1>3. CASE pc[q] = "claim" /\ img'[q] = img[q]
    <2>1. q \in Confirmers => img'[q] = Plan
        BY <1>3 DEF ClaimFresh
    <2>2. ASSUME q \in Retriers
          PROVE  \/ Over'
                 \/ row'.status = "failed_retryable" /\ row'.disp = img'[q]
        <3>1. CASE Over
            BY <3>1, OverStays
        <3>2. CASE row.status = "failed_retryable" /\ row.disp = img[q]
            <4>1. ASSUME NEW p \in Retriers, Claims(p) PROVE FALSE
                <5>1. p = q
                    BY <2>2 DEF OneRetry
                <5>2. pc'[q] \in {"db", "retry"}
                    BY <1>1, <4>1, <5>1, Shapes
                       DEF Claims, ClaimUpdate, Goes, IInv
                <5>3. QED
                    BY <1>1, <5>2
            <4>2. QED
                BY <1>3, <3>2, <4>1, WaitingStays
        <3>3. QED
            BY <1>3, <2>2, <3>1, <3>2 DEF ClaimFresh
    <2>3. QED
        BY <2>1, <2>2
<1>4. QED
    BY <1>1, <1>2, <1>3, ClaimBefore

LEMMA WithinPlan == Within(Plan)
BY CapAssumption DEF Within, Plan, Queued, Dispatch

LEMMA WithinStep ==
    ASSUME IInv, StatusInv, ClaimFresh, WithinInv, [Next]_vars
    PROVE  WithinInv'
<1>0. /\ row.disp \in Disps /\ target \in [Calls -> Dispatches]
      /\ DB \in Dispatches /\ Within(row.disp)
    BY Shapes DEF IInv, WithinInv, Dispatches
<1>1. ASSUME Steady(row.disp, row'.disp) PROVE Within(row'.disp)
    BY <1>0, <1>1 DEF Steady, Within
<1>2. ASSUME row'.status = "gone" PROVE Within(row'.disp) \/ RowSame
    <2>1. row' = NewRow("gone") => Within(row'.disp)
        BY WithinPlan DEF NewRow
    <2>2. row' = NewRow("pending") => row'.status # "gone"
        BY DEF NewRow
    <2>3. row' = Terminalise(row) \/ Cleanup => Within(row'.disp)
        BY <1>0, <1>1, Shapes, SteadyTerminalise, SteadyCleanedUp
           DEF IInv, Cleanup
    <2>4. \A p \in Calls :
            Closes(p) \/ SettlesOne(p) \/ Finalises(p) => Within(row'.disp)
        BY <1>1, SteadyCloses, SteadySettlesOne, SteadyFinalises
    <2>5. \A p \in Calls : ~Claims(p) /\ ~FansOut(p)
        BY <1>2, ClaimWrites, FanOutWrites
    <2>6. QED
        BY <1>2, <2>1, <2>2, <2>3, <2>4, <2>5, RowChange
<1>3. ASSUME NEW p \in Calls, Claims(p) PROVE Within(row'.disp)
    <2> DEFINE t == target[p]
               new == Promote(row.disp, t)
    <2>1. t \in Dispatches /\ row'.disp = new
          /\ (row.disp[t].state = "failed_retryable" \/ row.disp = Plan)
        BY <1>0, <1>3, ClaimWrites
    <2>2. row.disp[t].attemptCount \in Nat
        BY <1>0, <2>1 DEF Disps, PlannedDispatch
    <2>3. row.disp[t].attemptCount < MaxAttempts
        <3>1. row.disp[t].state = "failed_retryable" =>
                  row.disp[t].attemptCount < MaxAttempts
            BY <2>1 DEF StatusInv, Agrees, Open
        <3>2. row.disp = Plan => row.disp[t].attemptCount = 0
            BY <2>1 DEF Plan, Queued, Dispatch
        <3>3. QED
            BY <2>1, <3>1, <3>2, CapAssumption
    <2>4. /\ new[t].state = "in_flight"
          /\ new[t].attemptCount = row.disp[t].attemptCount + 1
          /\ \A d \in Dispatches \ {t} : new[d] = row.disp[d]
        BY <1>0, <2>1, PromoteEntry
    <2> HIDE DEF new, t
    <2>5. \A d \in Dispatches :
            /\ new[d].attemptCount <= MaxAttempts
            /\ new[d].state = "queued" => new[d].attemptCount = 0
        <3> SUFFICES ASSUME NEW d \in Dispatches
                     PROVE  /\ new[d].attemptCount <= MaxAttempts
                            /\ new[d].state = "queued" => new[d].attemptCount = 0
            OBVIOUS
        <3>1. CASE d = t
            BY <2>2, <2>3, <2>4, <3>1, CapAssumption
        <3>2. CASE d # t
            BY <1>0, <2>4, <3>2 DEF Within
        <3>3. QED
            BY <3>1, <3>2
    <2>6. QED
        BY <2>1, <2>5 DEF Within
<1>4. ASSUME NEW p \in Calls, FansOut(p) PROVE Within(row'.disp)
    <2>1. /\ \A d \in Dispatches \ {DB} :
                /\ row.disp[d].state = "queued"
                /\ row'.disp[d].state = "in_flight"
                /\ row'.disp[d].attemptCount = row.disp[d].attemptCount + 1
          /\ row'.disp[DB].state = "succeeded"
          /\ row'.disp[DB].attemptCount = row.disp[DB].attemptCount
        BY <1>4, FanOutWrites
    <2>2. \A d \in Dispatches \ {DB} : row'.disp[d].attemptCount = 1
        BY <1>0, <2>1 DEF Within
    <2>3. QED
        BY <1>0, <2>1, <2>2, CapAssumption DEF Within
<1>5. Within(row'.disp)
    <2>1. RowSame => Within(row'.disp)
        BY <1>0 DEF RowSame
    <2>2. QED
        BY <1>1, <1>2, <1>3, <1>4, <2>1, SteadyOrStarts
<1>6. ASSUME NEW q \in Calls PROVE Within(img'[q])
    <2>1. img'[q] \in {img[q], Plan, row.disp, row'.disp}
        BY ImageFrom
    <2>2. Within(img[q])
        BY DEF WithinInv
    <2>3. QED
        BY <1>0, <1>5, <2>1, <2>2, WithinPlan
<1>7. QED
    BY <1>5, <1>6 DEF WithinInv, Within

\* Counts only grow, and how far.
LEMMA CountsGrow ==
    ASSUME IInv, ClaimFresh, [Next]_vars, row'.status # "gone",
           NEW d \in Dispatches
    PROVE  row'.disp[d].attemptCount >= row.disp[d].attemptCount
<1>0. /\ row.disp \in Disps /\ target \in [Calls -> Dispatches]
      /\ DB \in Dispatches
    BY Shapes DEF IInv, Dispatches
<1>1. row.disp[d].attemptCount \in Nat
    BY <1>0 DEF Disps, PlannedDispatch
<1>2. Steady(row.disp, row'.disp) =>
          row'.disp[d].attemptCount = row.disp[d].attemptCount
    BY DEF Steady
<1>3. ASSUME NEW p \in Calls, Claims(p)
      PROVE  row'.disp[d].attemptCount >= row.disp[d].attemptCount
    <2>1. row'.disp = Promote(row.disp, target[p]) /\ target[p] \in Dispatches
        BY <1>0, <1>3, ClaimWrites
    <2>2. row'.disp[d].attemptCount \in {row.disp[d].attemptCount,
                                         row.disp[d].attemptCount + 1}
        BY <1>0, <2>1, PromoteEntry
    <2>3. QED
        BY <1>1, <2>2
<1>4. ASSUME NEW p \in Calls, FansOut(p)
      PROVE  row'.disp[d].attemptCount >= row.disp[d].attemptCount
    <2>1. row'.disp[d].attemptCount \in {row.disp[d].attemptCount,
                                         row.disp[d].attemptCount + 1}
        BY <1>4, FanOutWrites
    <2>2. QED
        BY <1>1, <2>1
<1>5. QED
    BY <1>1, <1>2, <1>3, <1>4, SteadyOrStarts

\* A deleted row stays deleted.
LEMMA GoneStays ==
    ASSUME IInv, [Next]_vars, row.status = "gone"
    PROVE  row'.status = "gone"
<1>1. row.lock = NoCall /\ NoneHeld(row.disp) /\ \A p \in Calls : p # NoCall
    BY CallsAssumption DEF IInv, RowInv
<1>2. ASSUME NEW p \in Calls
      PROVE  ~Claims(p) /\ ~FansOut(p) /\ ~Closes(p) /\ ~SettlesOne(p)
             /\ ~Finalises(p)
    BY <1>1 DEF Claims, ClaimWhere, Claimable, FansOut, Closes, SettlesOne,
                NoneHeld, Finalises
<1>3. ASSUME NEW aged \in BOOLEAN PROVE CleanedUp(row, aged) = row
    BY <1>1 DEF CleanedUp, RecoverStaleLock, RecoverStaleDispatchClaims,
                FinaliseAbandoned, TerminaliseExpired, Expirable
<1>4. ~Expirable(row) /\ ~Cleanup
    BY <1>1, <1>3 DEF Expirable, Cleanup
<1>5. QED
    BY <1>2, <1>4, RowChange DEF RowSame, NewRow

\* A request is counted when it is sent, and nowhere else.
LEMMA CallsGrow ==
    ASSUME [Next]_vars
    PROVE  \/ calls' = calls
           \/ \E p \in Calls : \E d \in Dispatches : StartDispatch(p, d)
BY DEF Next, Advance, vars, CreateApplyAttempt, ReadRow,
       TerminaliseExpiredAttempt, ClaimSelect, ClaimUpdate, ResolveLostClaim,
       FailBeforeDispatch, DispatchReturns, CommitOneDispatchResult,
       DraftDrifted, WriteStaleAndClear, CommitDbFailure,
       CommitDbSuccessAndFanOut, CommitRetry, FinaliseRead, FinaliseWrite,
       Crash, DeadlinePasses, Cleanup, PurgeRetained, AccountDeleted

\* A step that sends nothing keeps the counts ahead of the requests.
LEMMA CapQuietStep ==
    ASSUME IInv, CapInv, [Next]_vars, calls' = calls
    PROVE  Counted' /\ ReadyInv' /\ RequestsWithinCap'
<1>0. /\ TypeOK /\ row.disp \in Disps /\ img \in [Calls -> Disps]
      /\ calls \in [Dispatches -> Nat] /\ target \in [Calls -> Dispatches]
      /\ TypeOK' /\ row'.disp \in Disps /\ img' \in [Calls -> Disps]
      /\ DB \in Dispatches
    BY TypeStep, Shapes DEF IInv, TypeOK, Rows, Disps, Dispatches
<1>1. /\ \A d \in Dispatches : row.disp[d].attemptCount \in Nat
      /\ \A d \in Dispatches : row'.disp[d].attemptCount \in Nat
      /\ \A q \in Calls : \A d \in Dispatches : img[q][d].attemptCount \in Nat
    BY <1>0 DEF Disps, PlannedDispatch
<1>2. ASSUME row'.status # "gone", NEW d \in Dispatches
      PROVE  /\ row.status # "gone"
             /\ row'.disp[d].attemptCount >= row.disp[d].attemptCount
    BY <1>2, GoneStays, CountsGrow DEF CapInv
<1>3. Counted'
    <2> SUFFICES ASSUME row'.status # "gone", NEW d \in Dispatches
                 PROVE  calls'[d] <= row'.disp[d].attemptCount
        BY DEF Counted
    <2>1. calls[d] <= row.disp[d].attemptCount
        BY <1>2 DEF CapInv, Counted
    <2>2. QED
        BY <1>0, <1>1, <1>2, <2>1
<1>4. ReadyInv'
    <2> SUFFICES ASSUME NEW q \in Calls, NEW d \in Dispatches,
                        task'[q][d] = "ready"
                 PROVE  /\ calls'[d] < img'[q][d].attemptCount
                        /\ row'.status # "gone" =>
                              img'[q][d].attemptCount <= row'.disp[d].attemptCount
        BY DEF ReadyInv
    <2>1. CASE task[q][d] = "ready" /\ img'[q] = img[q]
        <3>1. /\ calls[d] < img[q][d].attemptCount
              /\ row.status # "gone" =>
                    img[q][d].attemptCount <= row.disp[d].attemptCount
            BY <2>1 DEF CapInv, ReadyInv
        <3>2. QED
            BY <1>0, <1>1, <1>2, <2>1, <3>1
    <2>2. CASE Claims(q) /\ d = target[q]
        <3>1. /\ row'.disp = Promote(row.disp, d) /\ img'[q] = row'.disp
              /\ row.status # "gone"
            BY <2>2, ClaimWrites DEF CapInv, Claimable
        <3>2. row'.disp[d].attemptCount = row.disp[d].attemptCount + 1
            BY <1>0, <3>1, PromoteEntry
        <3>3. calls[d] <= row.disp[d].attemptCount
            BY <3>1 DEF CapInv, Counted
        <3>4. QED
            BY <1>0, <1>1, <3>1, <3>2, <3>3
    <2>3. CASE FansOut(q) /\ FanOut(img[q], q)[d].state = "in_flight"
        <3>1. /\ row'.disp = FanOut(img[q], q) /\ img'[q] = row'.disp
              /\ row.status # "gone"
              /\ row'.disp[DB].state = "succeeded"
            BY <2>3, FanOutWrites
        <3>2. d # DB
            BY <2>3, <3>1
        <3>3. row'.disp[d].attemptCount = row.disp[d].attemptCount + 1
            BY <2>3, <3>2, FanOutWrites
        <3>4. calls[d] <= row.disp[d].attemptCount
            BY <3>1 DEF CapInv, Counted
        <3>5. QED
            BY <1>0, <1>1, <3>1, <3>3, <3>4
    <2>4. QED
        BY <2>1, <2>2, <2>3, ReadyBefore
<1>5. RequestsWithinCap'
    BY DEF CapInv, RequestsWithinCap
<1>6. QED
    BY <1>3, <1>4, <1>5

\* A request goes out that was counted before.
LEMMA CapSendStep ==
    ASSUME IInv, CapInv, NEW p \in Calls, NEW d \in Dispatches,
           StartDispatch(p, d)
    PROVE  /\ calls[d] < MaxAttempts
           /\ Counted' /\ ReadyInv' /\ RequestsWithinCap'
<1>0. /\ row.disp \in Disps /\ img \in [Calls -> Disps]
      /\ calls \in [Dispatches -> Nat]
      /\ task \in [Calls -> [Dispatches -> TaskState]]
    BY Shapes DEF IInv, TypeOK
<1>1. /\ row.disp[d].attemptCount \in Nat /\ img[p][d].attemptCount \in Nat
      /\ calls[d] \in Nat /\ MaxAttempts \in Nat
    BY <1>0, CapAssumption DEF Disps, PlannedDispatch
<1>2. /\ task[p][d] = "ready" /\ task' = [task EXCEPT ![p][d] = "calling"]
      /\ calls' = [calls EXCEPT ![d] = @ + 1]
      /\ row' = row /\ img' = img
    BY DEF StartDispatch, local
<1>3. /\ calls[d] < img[p][d].attemptCount
      /\ row.status # "gone" =>
            img[p][d].attemptCount <= row.disp[d].attemptCount
      /\ img[p][d].attemptCount <= MaxAttempts
    BY <1>2 DEF CapInv, ReadyInv, WithinInv, Within
<1>4. /\ calls'[d] = calls[d] + 1
      /\ \A e \in Dispatches \ {d} : calls'[e] = calls[e]
    BY <1>0, <1>2
<1>5. calls[d] < MaxAttempts /\ calls'[d] <= MaxAttempts
    BY <1>1, <1>3, <1>4
<1>6. RequestsWithinCap'
    BY <1>4, <1>5 DEF CapInv, RequestsWithinCap
<1>7. Counted'
    <2>1. row.status # "gone" => calls'[d] <= row.disp[d].attemptCount
        BY <1>1, <1>3, <1>4
    <2>2. QED
        BY <1>2, <1>4, <2>1 DEF CapInv, Counted
<1>8. ReadyInv'
    <2> SUFFICES ASSUME NEW q \in Calls, NEW e \in Dispatches,
                        task'[q][e] = "ready"
                 PROVE  /\ calls'[e] < img'[q][e].attemptCount
                        /\ row'.status # "gone" =>
                              img'[q][e].attemptCount <= row'.disp[e].attemptCount
        BY DEF ReadyInv
    <2>1. task[q][e] = "ready" /\ ~(q = p /\ e = d)
        BY <1>0, <1>2
    <2>2. e # d
        BY <1>2, <2>1 DEF IInv, OneRuns, Running
    <2>3. QED
        BY <1>2, <1>4, <2>1, <2>2 DEF CapInv, ReadyInv
<1>9. QED
    BY <1>5, <1>6, <1>7, <1>8

LEMMA CapInit == Init => CapInv
<1> SUFFICES ASSUME Init PROVE CapInv
    OBVIOUS
<1>1. row.status = "none" /\ row.disp = Plan
    BY DEF Init, NewRow
<1>2. \A d \in Dispatches : Plan[d].attemptCount = 0
    BY DEF Plan, Queued, Dispatch
<1>3. WithinInv
    BY <1>1, WithinPlan DEF Init, WithinInv
<1>4. ClaimFresh /\ ReadyInv
    BY DEF Init, ClaimFresh, ReadyInv, NoTasks
<1>5. Counted /\ RequestsWithinCap
    BY <1>1, <1>2, CapAssumption DEF Init, Counted, RequestsWithinCap
<1>6. QED
    BY <1>3, <1>4, <1>5 DEF CapInv

LEMMA CapStep ==
    ASSUME OneRetry, IInv, StatusInv, CapInv, [Next]_vars
    PROVE  CapInv'
<1>1. ClaimFresh' /\ WithinInv'
    BY ClaimFreshStep, WithinStep DEF CapInv
<1>2. Counted' /\ ReadyInv' /\ RequestsWithinCap'
    BY CallsGrow, CapQuietStep, CapSendStep
<1>3. QED
    BY <1>1, <1>2 DEF CapInv

\* What a dispatch came to is kept.
LEMMA SettledStays ==
    ASSUME IInv, ClaimFresh, [Next]_vars, row'.status # "gone",
           NEW d \in Dispatches, row.disp[d].state \in Settled
    PROVE  row'.disp[d].state = row.disp[d].state
<1>0. /\ row.disp \in Disps /\ target \in [Calls -> Dispatches]
      /\ DB \in Dispatches
    BY Shapes DEF IInv, Dispatches
<1>1. Steady(row.disp, row'.disp) => row'.disp[d].state = row.disp[d].state
    BY DEF Steady
<1>2. ASSUME NEW p \in Calls, Claims(p)
      PROVE  row'.disp[d].state = row.disp[d].state
    <2>1. /\ row'.disp = Promote(row.disp, target[p]) /\ target[p] \in Dispatches
          /\ (row.disp[target[p]].state = "failed_retryable" \/ row.disp = Plan)
        BY <1>0, <1>2, ClaimWrites
    <2>2. d # target[p]
        BY <2>1 DEF Settled, Plan, Queued, Dispatch
    <2>3. QED
        BY <1>0, <2>1, <2>2, PromoteEntry
<1>3. ASSUME NEW p \in Calls, FansOut(p) PROVE FALSE
    <2>1. /\ OnlyInFlight(row.disp, DB)
          /\ \A e \in Dispatches \ {DB} : row.disp[e].state = "queued"
        BY <1>3, FanOutWrites
    <2>2. QED
        BY <2>1 DEF OnlyInFlight, Settled
<1>4. QED
    BY <1>1, <1>2, <1>3, SteadyOrStarts

\* With one retry at a time, and however many confirms overlap, crash or are
\* swept: a dispatch costs at most APPLY_DISPATCH_MAX_ATTEMPTS upstream requests.
\* (Two retries at a time may exceed it: tryClaim does not compare the image it
\* writes back.)
THEOREM OneRetryKeepsCap ==
    ASSUME OneRetry
    PROVE  Spec => []RequestsWithinCap
<1>1. IInv /\ StatusInv /\ CapInv /\ [Next]_vars => CapInv'
    BY CapStep
<1>2. Spec => []StatusInv
    BY Inductive, StatusInit, StatusStep, PTL DEF Spec
<1>3. CapInv => RequestsWithinCap
    BY DEF CapInv
<1>4. QED
    BY <1>1, <1>2, <1>3, Inductive, CapInit, PTL DEF Spec

\* With one retry at a time: what one dispatch came to is never rewritten and no
\* attempt count is lowered, whoever commits late (the guarded UPDATEs of
\* apply-attempt-lifecycle.ts and the sweeps).
THEOREM OneRetryKeepsResults ==
    ASSUME OneRetry
    PROVE  Spec => SettledDispatchIsFinal
<1>1. IInv /\ StatusInv /\ CapInv /\ [Next]_vars => CapInv'
    BY CapStep
<1>2. Spec => []StatusInv
    BY Inductive, StatusInit, StatusStep, PTL DEF Spec
<1>3. Spec => []CapInv
    BY <1>1, <1>2, Inductive, CapInit, PTL DEF Spec
<1>4. IInv /\ CapInv /\ [Next]_vars =>
        [row'.status # "gone" =>
          \A d \in Dispatches :
            /\ row.disp[d].state \in {"succeeded", "failed_terminal"} =>
                  row'.disp[d].state = row.disp[d].state
            /\ row'.disp[d].attemptCount >= row.disp[d].attemptCount]_vars
    BY SettledStays, CountsGrow DEF CapInv, Settled
<1>5. QED
    BY <1>3, <1>4, Inductive, PTL DEF Spec, SettledDispatchIsFinal

-----------------------------------------------------------------------------
(* Nobody runs a dispatch of an attempt that succeeded or went stale.      *)

Quiet ==
    row.status \in {"succeeded", "stale"} =>
        \A q \in Calls : \A d \in Dispatches : ~Running(q, d)
\* The draft is found to have drifted before MANAGER_DB is sent.
StaleBeforeDb ==
    \A p \in Calls : pc[p] = "stale" /\ row.lock = p => ~Passed(row.disp)

QuietInv == Quiet /\ StaleBeforeDb

\* A dispatch that runs ran before, or its call has just claimed it.
LEMMA RunningBefore ==
    ASSUME IInv, [Next]_vars, NEW q \in Calls, NEW d \in Dispatches,
           Running(q, d)'
    PROVE  Running(q, d) \/ Claims(q) \/ FansOut(q)
<1>0. task \in [Calls -> [Dispatches -> TaskState]]
    BY Shapes DEF IInv
<1>1. CASE task'[q][d] = "ready"
    BY <1>1, ReadyBefore DEF Running
<1>2. CASE task'[q][d] = "calling"
    <2>1. ASSUME NEW p \in Calls, Ends(p) PROVE task[q][d] = "calling"
        BY <1>0, <1>2, <2>1 DEF Ends, NoTasks
    <2>2. ASSUME NEW p \in Calls, NEW e \in Dispatches, StartDispatch(p, e)
          PROVE  Running(q, d)
        BY <1>0, <1>2, <2>2 DEF StartDispatch, Running
    <2>3. ASSUME NEW p \in Calls, NEW e \in Dispatches,
                 \/ FailBeforeDispatch(p, e) \/ DispatchReturns(p, e)
                 \/ CommitOneDispatchResult(p, e)
          PROVE  task[q][d] = "calling"
        BY <1>0, <1>2, <2>3 DEF FailBeforeDispatch, DispatchReturns,
                                CommitOneDispatchResult
    <2>4. ASSUME NEW p \in Calls,
                 \/ TerminaliseExpiredAttempt(p) \/ ClaimSelect(p)
                 \/ ClaimUpdate(p) \/ ResolveLostClaim(p) \/ DraftDrifted(p)
                 \/ CommitDbSuccessAndFanOut(p) \/ FinaliseRead(p) \/ ReadRow(p)
          PROVE  task[q][d] = "calling"
        BY <1>0, <1>2, <2>1, <2>4
           DEF TerminaliseExpiredAttempt, ClaimSelect, ClaimUpdate,
               ResolveLostClaim, DraftDrifted, CommitDbSuccessAndFanOut,
               FinaliseRead, ReadRow, NoTasks
    <2>5. ASSUME NEW p \in Calls,
                 \/ WriteStaleAndClear(p) \/ CommitDbFailure(p)
                 \/ CommitRetry(p) \/ FinaliseWrite(p) \/ Crash(p)
          PROVE  task[q][d] = "calling"
        BY <2>1, <2>5 DEF WriteStaleAndClear, CommitDbFailure, CommitRetry,
                          FinaliseWrite, Crash
    <2>6. ASSUME \/ CreateApplyAttempt \/ DeadlinePasses \/ Cleanup
                 \/ PurgeRetained \/ AccountDeleted \/ UNCHANGED vars
          PROVE  task[q][d] = "calling"
        BY <1>2, <2>6 DEF CreateApplyAttempt, DeadlinePasses, Cleanup,
                          PurgeRetained, AccountDeleted, vars
    <2>7. QED
        BY <2>2, <2>3, <2>4, <2>5, <2>6 DEF Next, Advance, Running
<1>3. QED
    BY <1>1, <1>2 DEF Running

\* Who runs a dispatch of a row that no call has locked, before a step.
LEMMA RunsInFan ==
    ASSUME IInv, row.status = "executing", NEW q \in Calls,
           NEW d \in Dispatches, Running(q, d), row.lock # q
    PROVE  /\ pc[q] = "fan" /\ Passed(row.disp)
           /\ row.disp[d].state # "succeeded"
           /\ row.disp[d].state = "failed_terminal" \/ row.lock = NoCall
<1>1. ~Over
    BY DEF Over, TerminalStatus
<1>2. pc[q] = "fan"
    BY <1>1 DEF IInv, CallInv, DriveInv, Running, NoTasks
<1>3. /\ Passed(row.disp)
      /\ \/ row.disp[d].state = "failed_terminal"
         \/ row.lock = NoCall /\ row.disp[d].lockToken = q
    BY <1>1, <1>2 DEF IInv, CallInv, FanInv, RowPassed
<1>4. row.lock = NoCall /\ row.disp[d].lockToken = q =>
          row.disp[d].state = "in_flight"
    BY CallsAssumption DEF IInv, RowInv
<1>5. QED
    BY <1>2, <1>3, <1>4

\* A step never turns another call's running dispatch into a success.
LEMMA QuietSuccess ==
    ASSUME IInv, EffectInv', [Next]_vars, row.status # "succeeded",
           row'.status = "succeeded", NEW q \in Calls, NEW d \in Dispatches,
           Running(q, d)'
    PROVE  FALSE
<1>0. /\ row \in Rows /\ row.disp \in Disps /\ img \in [Calls -> Disps]
      /\ DB \in Dispatches /\ target \in [Calls -> Dispatches]
      /\ \A p \in Calls : p # NoCall
      /\ task \in [Calls -> [Dispatches -> TaskState]]
    BY Shapes, CallsAssumption DEF IInv, Dispatches
<1>1. \A e \in Dispatches : row'.disp[e].state = "succeeded"
    BY DEF EffectInv, SuccessIsFull, AllSucceeded
<1>2. ASSUME NEW p \in Calls
      PROVE  ~Claims(p) /\ ~FansOut(p) /\ ~SettlesOne(p)
    <2>1. ~Claims(p)
        <3>1. Claims(p) => row'.status = "executing"
            BY <1>0 DEF Claims, ClaimUpdate, Rows
        <3>2. QED
            BY <3>1
    <2>2. ~FansOut(p)
        BY FanOutWrites
    <2>3. SettlesOne(p) => row'.status = row.status
        BY <1>0 DEF SettlesOne, CommitOneDispatchResult, Rows
    <2>4. QED
        BY <2>1, <2>2, <2>3
<1>3. Running(q, d)
    BY <1>2, RunningBefore
<1>4. ASSUME NEW p \in Calls, CommitRetry(p), row.lock = p PROVE FALSE
    <2> DEFINE s == Result(p, target[p])
    <2>1. /\ row.disp = img[p] /\ OnlyInFlight(img[p], target[p])
          /\ row.status = "executing"
        BY <1>0, <1>4 DEF CommitRetry, IInv, RowInv, CallInv, DriveInv
    <2>2. q # p
        BY <1>0, <1>4 DEF CommitRetry, Ends, Running, NoTasks
    <2>3. pc[q] = "fan" /\ row.disp[d].state = "failed_terminal"
        BY <1>0, <1>3, <1>4, <2>1, <2>2, RunsInFan
    <2>4. row'.disp = SetState(img[p], target[p], s) /\ s \in DispatchState
        BY <1>0, <1>4, ResultType DEF CommitRetry, Settle, DispatchState
    <2>5. Steady(img[p], row'.disp)
        BY <1>0, <1>4, SteadyCloses, <2>1 DEF Closes
    <2>6. QED
        BY <1>1, <2>1, <2>3, <2>5 DEF Steady, Settled
<1>5. ASSUME NEW p \in Calls, Closes(p) PROVE FALSE
    <2>1. CASE WriteStaleAndClear(p)
        BY <1>5, <2>1 DEF Closes, WriteStaleAndClear, Settle
    <2>2. CASE CommitDbFailure(p)
        <3>1. Result(p, DB) # "succeeded"
            BY <2>2 DEF CommitDbFailure, Result
        <3>2. row'.status = Result(p, DB)
            BY <1>5, <2>2 DEF Closes, CommitDbFailure, Settle
        <3>3. QED
            BY <3>1, <3>2
    <2>3. CASE CommitRetry(p)
        BY <1>4, <1>5, <2>3 DEF Closes
    <2>4. QED
        BY <1>5, <2>1, <2>2, <2>3 DEF Closes
<1>6. ASSUME row.status = "executing", row.lock = NoCall,
             Backed(row'.disp, {e \in Dispatches : row.disp[e].state = "succeeded"})
      PROVE  FALSE
    <2>1. row.disp[d].state # "succeeded"
        BY <1>0, <1>3, <1>6, RunsInFan
    <2>2. QED
        BY <1>1, <1>6, <2>1 DEF Backed
<1>7. ASSUME NEW p \in Calls, Finalises(p) PROVE FALSE
    <2>1. row.disp = img[p] /\ row'.disp = Strip(img[p])
        BY <1>7 DEF Finalises, FinaliseWrite, Settle, IInv, CallInv, FinaliseInv
    <2>2. \A e \in Dispatches : row'.disp[e].state = row.disp[e].state
        BY <1>0, <2>1, StripEntry
    <2>3. QED
        BY <1>6, <1>7, <2>2 DEF Finalises, Backed
<1>8. ASSUME Cleanup PROVE FALSE
    <2>1. PICK aged \in BOOLEAN : row' = CleanedUp(row, aged)
        BY <1>8 DEF Cleanup
    <2>2. row' # row
        BY <1>8 DEF Cleanup
    <2>3. row.lock = NoCall
        BY <2>1, <2>2, SweptLock
    <2>4. row.status = "executing"
        <3> SUFFICES ASSUME row.status # "executing" PROVE FALSE
            OBVIOUS
        <3>1. row' = TerminaliseExpired(row)
            BY <2>1, <2>3 DEF CleanedUp, RecoverStaleLock,
                              RecoverStaleDispatchClaims, FinaliseAbandoned
        <3>2. QED
            BY <2>2, <3>1 DEF TerminaliseExpired, Terminalise, Settle
    <2>5. Backed(row'.disp, {e \in Dispatches : row.disp[e].state = "succeeded"})
        <3>1. Backed(row.disp, {e \in Dispatches : row.disp[e].state = "succeeded"})
            BY DEF Backed
        <3>2. QED
            BY <1>0, <2>1, <3>1, BackedCleanedUp
    <2>6. QED
        BY <1>6, <2>3, <2>4, <2>5
<1>9. row' = Terminalise(row) => row'.status # "succeeded"
    BY DEF Terminalise, Settle
<1>10. \A s \in {"pending", "gone"} : row' = NewRow(s) => row'.status # "succeeded"
    BY DEF NewRow
<1>11. QED
    BY <1>2, <1>5, <1>7, <1>8, <1>9, <1>10, RowChange DEF RowSame

\* Nor does a plan go stale under a call that runs one of its dispatches.
LEMMA QuietStale ==
    ASSUME IInv, QuietInv, [Next]_vars, row.status # "stale",
           row'.status = "stale", NEW q \in Calls, NEW d \in Dispatches,
           Running(q, d)'
    PROVE  FALSE
<1>0. /\ row \in Rows /\ task \in [Calls -> [Dispatches -> TaskState]]
      /\ DB \in Dispatches /\ target \in [Calls -> Dispatches]
      /\ \A p \in Calls : p # NoCall
    BY Shapes, CallsAssumption DEF IInv, Dispatches
<1>1. ASSUME NEW p \in Calls
      PROVE  ~Claims(p) /\ ~FansOut(p) /\ ~SettlesOne(p) /\ ~Finalises(p)
    <2>1. Claims(p) => row'.status = "executing"
        BY <1>0 DEF Claims, ClaimUpdate, Rows
    <2>2. FansOut(p) => row'.status = "executing"
        BY FanOutWrites
    <2>3. SettlesOne(p) => row'.status = row.status
        BY <1>0 DEF SettlesOne, CommitOneDispatchResult, Rows
    <2>4. Finalises(p) => row'.status # "stale"
        BY AggregateType DEF Finalises, FinaliseWrite, Settle
    <2>5. QED
        BY <2>1, <2>2, <2>3, <2>4
<1>2. ASSUME NEW r, NEW s, row' = Settle(r, Aggregate(s), s) PROVE FALSE
    BY <1>2, AggregateType DEF Settle
<1>3. ASSUME Cleanup PROVE FALSE
    <2>1. PICK aged \in BOOLEAN : row' = CleanedUp(row, aged)
        BY <1>3 DEF Cleanup
    <2> DEFINE NotStale(r) == r.status # "stale"
    <2>2. \A r : NotStale(r) => NotStale(RecoverStaleLock(r))
        BY DEF RecoverStaleLock, Settle
    <2>3. \A r \in Rows : NotStale(r) => NotStale(RecoverStaleDispatchClaims(r))
        BY DEF RecoverStaleDispatchClaims, Rows
    <2>4. \A r : NotStale(r) => NotStale(FinaliseAbandoned(r))
        BY AggregateType DEF FinaliseAbandoned, Settle
    <2>5. \A r : NotStale(r) => NotStale(TerminaliseExpired(r))
        BY DEF TerminaliseExpired, Terminalise, Settle
    <2>6. RecoverStaleLock(row) \in Rows
        <3>1. Strip(Flip(row.disp, {"in_flight", "queued", "failed_retryable"},
                         "failed_terminal")) \in Disps
            BY <1>0, FlipType, StripType DEF Rows, Disps, DispatchState
        <3>2. QED
            BY <1>0, <3>1, SettleType DEF RecoverStaleLock, Status, TerminalStatus
    <2> HIDE DEF NotStale
    <2>7. NotStale(row) => NotStale(CleanedUp(row, aged))
        BY <2>2, <2>3, <2>4, <2>5, <2>6 DEF CleanedUp
    <2>8. QED
        BY <2>1, <2>7 DEF NotStale
<1>4. \A s \in {"pending", "gone"} : row' = NewRow(s) => row'.status # "stale"
    BY DEF NewRow
<1>5. row' = Terminalise(row) => row'.status # "stale"
    BY DEF Terminalise, Settle
<1>6. PICK p \in Calls : Closes(p)
    BY <1>1, <1>3, <1>4, <1>5, RowChange DEF RowSame
<1>7. WriteStaleAndClear(p) /\ row.lock = p
    <2>1. CommitDbFailure(p) => row'.status # "stale"
        BY <1>0, <1>6, ResultType DEF Closes, CommitDbFailure, Settle
    <2>2. CommitRetry(p) => row'.status # "stale"
        BY <1>2, <1>6, AggregateType DEF Closes, CommitRetry, Settle
    <2>3. QED
        BY <1>6, <2>1, <2>2 DEF Closes
<1>8. Running(q, d) /\ q # p /\ row.status = "executing"
    <2>1. Running(q, d)
        BY <1>1, RunningBefore
    <2>2. task'[p] = NoTasks
        BY <1>0, <1>7 DEF WriteStaleAndClear, Ends
    <2>3. q # p
        BY <2>2 DEF Running, NoTasks
    <2>4. QED
        BY <1>0, <1>7, <2>1, <2>3 DEF IInv, RowInv
<1>9. Passed(row.disp)
    BY <1>7, <1>8, RunsInFan
<1>10. QED
    BY <1>7, <1>9 DEF QuietInv, StaleBeforeDb, WriteStaleAndClear

LEMMA QuietStep ==
    ASSUME IInv, QuietInv, EffectInv', [Next]_vars
    PROVE  Quiet'
<1>0. row \in Rows
    BY Shapes DEF IInv
<1>1. SUFFICES ASSUME row'.status \in {"succeeded", "stale"},
                      NEW q \in Calls, NEW d \in Dispatches, Running(q, d)'
               PROVE  FALSE
    BY DEF Quiet, Running
<1>2. CASE row'.status # row.status
    BY <1>1, <1>2, QuietSuccess, QuietStale
<1>3. CASE row'.status = row.status
    <2>1. ~Running(q, d)
        BY <1>1, <1>3 DEF QuietInv, Quiet
    <2>2. ~Claims(q)
        BY <1>0, <1>1 DEF Claims, ClaimUpdate, Rows
    <2>3. ~FansOut(q)
        BY <1>1, FanOutWrites
    <2>4. QED
        BY <1>1, <2>1, <2>2, <2>3, RunningBefore
<1>4. QED
    BY <1>2, <1>3

\* Who is about to write "stale" was, or has just found the draft to differ.
LEMMA StaleBefore ==
    ASSUME IInv, [Next]_vars, NEW q \in Calls, pc'[q] = "stale"
    PROVE  pc[q] = "stale" \/ DraftDrifted(q)
<1>0. pc \in [Calls -> Where]
    BY Shapes DEF IInv
<1>1. ASSUME NEW p \in Calls, NEW where, where # "stale", Goes(p, where)
      PROVE  pc[q] = "stale"
    BY <1>0, <1>1 DEF Goes
<1>2. ASSUME NEW p \in Calls, Ends(p) PROVE pc[q] = "stale"
    BY <1>1, <1>2 DEF Ends, Goes
<1>3. ASSUME NEW p \in Calls, DraftDrifted(p)
      PROVE  pc[q] = "stale" \/ DraftDrifted(q)
    BY <1>0, <1>3 DEF DraftDrifted, Goes
<1>4. ASSUME NEW p \in Calls, ReadRow(p) \/ ClaimUpdate(p)
      PROVE  pc[q] = "stale"
    <2>1. \/ Goes(p, "expiry") \/ Goes(p, "select") \/ Goes(p, "db")
          \/ Goes(p, "retry") \/ Goes(p, "lost")
        BY <1>4 DEF ReadRow, ClaimUpdate
    <2>2. QED
        BY <1>1, <2>1
<1>5. ASSUME NEW p \in Calls,
             \/ TerminaliseExpiredAttempt(p) \/ ClaimSelect(p)
             \/ ResolveLostClaim(p) \/ CommitDbSuccessAndFanOut(p)
             \/ FinaliseRead(p)
      PROVE  pc[q] = "stale"
    <2>1. \/ Ends(p) \/ Goes(p, "select") \/ Goes(p, "claim") \/ Goes(p, "lost")
          \/ Goes(p, "lost_expiry") \/ Goes(p, "fan") \/ Goes(p, "finalise")
        BY <1>5 DEF TerminaliseExpiredAttempt, ClaimSelect, ResolveLostClaim,
                    CommitDbSuccessAndFanOut, FinaliseRead
    <2>2. QED
        BY <1>1, <1>2, <2>1
<1>6. ASSUME NEW p \in Calls,
             \/ WriteStaleAndClear(p) \/ CommitDbFailure(p) \/ CommitRetry(p)
             \/ FinaliseWrite(p) \/ Crash(p)
      PROVE  pc[q] = "stale"
    BY <1>2, <1>6 DEF WriteStaleAndClear, CommitDbFailure, CommitRetry,
                      FinaliseWrite, Crash
<1>7. ASSUME NEW p \in Calls, NEW e \in Dispatches,
             \/ StartDispatch(p, e) \/ FailBeforeDispatch(p, e)
             \/ DispatchReturns(p, e) \/ CommitOneDispatchResult(p, e)
      PROVE  pc' = pc
    BY <1>7 DEF StartDispatch, FailBeforeDispatch, DispatchReturns,
                CommitOneDispatchResult
<1>8. ASSUME \/ CreateApplyAttempt \/ DeadlinePasses \/ Cleanup
             \/ PurgeRetained \/ AccountDeleted \/ UNCHANGED vars
      PROVE  pc' = pc
    BY <1>8 DEF CreateApplyAttempt, DeadlinePasses, Cleanup, PurgeRetained,
                AccountDeleted, vars
<1>9. QED
    BY <1>3, <1>4, <1>5, <1>6, <1>7, <1>8 DEF Next, Advance

LEMMA StaleBeforeDbStep ==
    ASSUME IInv, IInv', QuietInv, [Next]_vars
    PROVE  StaleBeforeDb'
<1>0. /\ row \in Rows /\ row.disp \in Disps /\ DB \in Dispatches
      /\ \A p \in Calls : p # NoCall
    BY Shapes, CallsAssumption DEF IInv, Dispatches
<1>1. SUFFICES ASSUME NEW q \in Calls, pc'[q] = "stale", row'.lock = q
               PROVE  ~Passed(row'.disp)
    BY DEF StaleBeforeDb, Passed
<1>2. CASE DraftDrifted(q)
    <2>1. row' = row /\ pc[q] = "db"
        BY <1>2 DEF DraftDrifted
    <2>2. row.disp = img[q] /\ OnlyInFlight(img[q], DB)
        BY <1>1, <2>1 DEF IInv, CallInv, DriveInv
    <2>3. QED
        BY <1>0, <2>1, <2>2 DEF OnlyInFlight, Passed
<1>3. CASE pc[q] = "stale"
    <2>1. ASSUME RowSame PROVE ~Passed(row'.disp)
        BY <1>1, <1>3, <2>1 DEF QuietInv, StaleBeforeDb, RowSame
    <2>2. \A s : row' # NewRow(s)
        BY <1>0, <1>1 DEF NewRow
    <2>3. row' # Terminalise(row)
        BY <1>0, <1>1 DEF Terminalise, Settle
    <2>4. ASSUME Cleanup PROVE FALSE
        <3>1. PICK aged \in BOOLEAN : row' = CleanedUp(row, aged) /\ row' # row
            BY <2>4 DEF Cleanup
        <3>2. row'.status = "executing"
            BY <1>0, <1>1 DEF IInv, RowInv
        <3>3. row.lock = NoCall
            BY <3>1, <3>2, SweptLock
        <3>4. CASE row.status # "executing"
            BY <1>0, <1>1, <3>1, <3>3, <3>4, SweptUnclaimed DEF IInv, RowInv, Over,
                                                         TerminalStatus
        <3>5. CASE row.status = "executing"
            <4> DEFINE r == IF aged
                            THEN RecoverStaleDispatchClaims(RecoverStaleLock(row))
                            ELSE row
            <4>1. row' = TerminaliseExpired(FinaliseAbandoned(r))
                BY <3>1 DEF CleanedUp
            <4>2. r.lock = NoCall
                BY <1>0, <3>3, <3>5, RecoveredClaims
            <4> HIDE DEF r
            <4>3. FinaliseAbandoned(r).lock = NoCall
                BY <4>2 DEF FinaliseAbandoned, Settle
            <4>4. row'.lock = NoCall
                BY <4>1, <4>3 DEF TerminaliseExpired, Terminalise, Settle
            <4>5. QED
                BY <1>0, <1>1, <4>4
        <3>6. QED
            BY <3>4, <3>5
    <2>5. ASSUME NEW p \in Calls, Claims(p) PROVE FALSE
        <3>1. row'.lock = p /\ pc[p] = "claim"
            BY <1>0, <2>5 DEF Claims, ClaimUpdate, Rows
        <3>2. QED
            BY <1>1, <1>3, <3>1
    <2>6. ASSUME NEW p \in Calls, FansOut(p) PROVE FALSE
        BY <1>0, <1>1, <2>6 DEF FansOut, CommitDbSuccessAndFanOut, Rows
    <2>7. ASSUME NEW p \in Calls, Closes(p) \/ Finalises(p) PROVE FALSE
        <3>1. row'.lock = NoCall
            BY <2>7 DEF Closes, WriteStaleAndClear, CommitDbFailure,
                        CommitRetry, Finalises, FinaliseWrite, Settle
        <3>2. QED
            BY <1>0, <1>1, <3>1
    <2>8. ASSUME NEW p \in Calls, SettlesOne(p) PROVE FALSE
        <3>1. row'.lock = row.lock
            BY <1>0, <2>8 DEF SettlesOne, CommitOneDispatchResult, Rows
        <3>2. NoneHeld(row.disp)
            BY <1>0, <1>1, <3>1 DEF IInv, RowInv
        <3>3. QED
            BY <1>0, <2>8, <3>2 DEF SettlesOne, NoneHeld
    <2>9. QED
        BY <2>1, <2>2, <2>3, <2>4, <2>5, <2>6, <2>7, <2>8, RowChange
<1>4. QED
    BY <1>1, <1>2, <1>3, StaleBefore

LEMMA QuietInit == Init => QuietInv
BY CallsAssumption DEF Init, NewRow, QuietInv, Quiet, StaleBeforeDb

-----------------------------------------------------------------------------
(* Every step is one of AttemptContract, or stutters.                      *)

LEMMA StatusMoves ==
    ASSUME IInv, [Next]_vars
    PROVE  \/ row'.status = row.status
           \/ row.status = "none" /\ row'.status = "pending"
           \/ row.status # "none" /\ row'.status = "gone"
           \/ row.status = "pending" /\ row'.status = "expired"
           \/ /\ row.status \in {"pending", "failed_retryable"}
              /\ row'.status = "executing"
           \/ /\ row.status = "executing"
              /\ row'.status \in {"succeeded", "failed_retryable", "stale"}
           \/ /\ row.status \in {"executing", "failed_retryable"}
              /\ row'.status = "failed_terminal"
<1>0. row \in Rows /\ DB \in Dispatches /\ target \in [Calls -> Dispatches]
      /\ \A p \in Calls : p # NoCall
    BY Shapes, CallsAssumption DEF IInv, Dispatches
<1>1. row' = NewRow("pending") => row'.status = "pending"
    BY DEF NewRow
<1>2. row' = NewRow("gone") => row'.status = "gone"
    BY DEF NewRow
<1>3. ASSUME NEW r, Expirable(r)
      PROVE  \/ r.status = "pending" /\ Terminalise(r).status = "expired"
             \/ /\ r.status = "failed_retryable"
                /\ Terminalise(r).status = "failed_terminal"
    BY <1>3 DEF Expirable, Terminalise, Settle
<1>4. ASSUME Cleanup
      PROVE  \/ row'.status = row.status
             \/ row.status = "pending" /\ row'.status = "expired"
             \/ /\ row.status = "executing"
                /\ row'.status \in {"succeeded", "failed_retryable"}
             \/ /\ row.status \in {"executing", "failed_retryable"}
                /\ row'.status = "failed_terminal"
    <2>1. PICK aged \in BOOLEAN : row' = CleanedUp(row, aged)
        BY <1>4 DEF Cleanup
    <2>2. CASE row.lock # NoCall
        <3>1. row.status = "executing"
            BY <2>2 DEF IInv, RowInv
        <3>2. QED
            BY <2>1, <2>2, <3>1, SweptLock
    <2>3. CASE row.lock = NoCall /\ row.status # "executing"
        <3>1. row' = TerminaliseExpired(row)
            BY <2>1, <2>3 DEF CleanedUp, RecoverStaleLock,
                              RecoverStaleDispatchClaims, FinaliseAbandoned
        <3>2. QED
            BY <1>3, <3>1 DEF TerminaliseExpired
    <2>4. CASE row.lock = NoCall /\ row.status = "executing"
        <3> DEFINE r == IF aged
                        THEN RecoverStaleDispatchClaims(RecoverStaleLock(row))
                        ELSE row
                   f == FinaliseAbandoned(r)
        <3>1. row' = TerminaliseExpired(f)
            BY <2>1 DEF CleanedUp
        <3>2. r.status = "executing"
            BY <2>4, RecoveredClaims
        <3>3. f.status \in {"executing", "succeeded", "failed_retryable",
                            "failed_terminal"}
            BY <3>2, AggregateType DEF FinaliseAbandoned, Settle
        <3> HIDE DEF f
        <3>4. QED
            BY <1>3, <2>4, <3>1, <3>3 DEF TerminaliseExpired
    <2>5. QED
        BY <2>2, <2>3, <2>4
<1>5. ASSUME NEW p \in Calls, Claims(p)
      PROVE  /\ row.status \in {"pending", "failed_retryable"}
             /\ row'.status = "executing"
    BY <1>0, <1>5 DEF Claims, ClaimUpdate, ClaimWhere, Claimable, Rows
<1>6. ASSUME NEW p \in Calls, FansOut(p) \/ SettlesOne(p)
      PROVE  row'.status = row.status
    BY <1>0, <1>6, FanOutWrites
       DEF SettlesOne, CommitOneDispatchResult, Rows
<1>7. ASSUME NEW p \in Calls, Closes(p)
      PROVE  /\ row.status = "executing"
             /\ row'.status \in {"succeeded", "failed_retryable", "stale",
                                 "failed_terminal"}
    <2>1. row.status = "executing"
        BY <1>0, <1>7 DEF Closes, IInv, RowInv
    <2>2. QED
        BY <1>0, <1>7, <2>1, AggregateType, ResultType
           DEF Closes, WriteStaleAndClear, CommitDbFailure, CommitRetry, Settle
<1>8. ASSUME NEW p \in Calls, Finalises(p)
      PROVE  /\ row.status = "executing"
             /\ row'.status \in {"succeeded", "failed_retryable",
                                 "failed_terminal"}
    BY <1>8, AggregateType DEF Finalises, FinaliseWrite, Settle
<1>9. QED
    BY <1>1, <1>2, <1>3, <1>4, <1>5, <1>6, <1>7, <1>8, RowChange DEF RowSame

\* The dispatches with an unanswered request.
Air == {d \in Dispatches : \E p \in Calls : task[p][d] = "calling"}

\* No other step than the start, the return and the loss of a request changes
\* what is unanswered, sent or in effect.
LEMMA AirStays ==
    ASSUME IInv, [Next]_vars,
           \A p \in Calls : ~Crash(p),
           \A p \in Calls : \A d \in Dispatches :
                ~StartDispatch(p, d) /\ ~DispatchReturns(p, d)
    PROVE  Air' = Air /\ calls' = calls /\ landed' = landed
<1> DEFINE Keeps == \A q \in Calls : \A d \in Dispatches :
                        task'[q][d] = "calling" <=> task[q][d] = "calling"
<1>0. /\ task \in [Calls -> [Dispatches -> TaskState]] /\ DB \in Dispatches
      /\ target \in [Calls -> Dispatches]
      /\ \A p \in Calls : pc[p] \notin {"db", "retry", "fan"} =>
            task[p] = NoTasks
      /\ \A p \in Calls : pc[p] \in {"db", "retry"} =>
            /\ pc[p] = "db" <=> target[p] = DB
            /\ \A d \in Dispatches \ {target[p]} : task[p][d] = "none"
    BY Shapes DEF IInv, CallInv, DriveInv, Dispatches
<1>1. ASSUME NEW p \in Calls, \A d \in Dispatches : task[p][d] # "calling",
             \/ task' = task
             \/ \E new \in [Dispatches -> TaskState \ {"calling"}] :
                    task' = [task EXCEPT ![p] = new]
      PROVE  Keeps
    BY <1>0, <1>1
<1>2. NoTasks \in [Dispatches -> TaskState \ {"calling"}]
    BY DEF NoTasks, TaskState
<1>3. ASSUME NEW p \in Calls, \A d \in Dispatches : task[p][d] # "calling",
             Ends(p) \/ UNCHANGED task
      PROVE  Keeps
    BY <1>1, <1>2, <1>3 DEF Ends
<1>4. ASSUME NEW p \in Calls, task[p] = NoTasks
      PROVE  \A d \in Dispatches : task[p][d] # "calling"
    BY <1>4 DEF NoTasks
<1> HIDE DEF Keeps
<1>5. ASSUME NEW p \in Calls,
             \/ ReadRow(p) \/ TerminaliseExpiredAttempt(p) \/ ClaimSelect(p)
             \/ ResolveLostClaim(p) \/ WriteStaleAndClear(p)
             \/ FinaliseRead(p) \/ FinaliseWrite(p)
      PROVE  Keeps
    <2>1. task[p] = NoTasks
        BY <1>0, <1>5
           DEF ReadRow, TerminaliseExpiredAttempt, ClaimSelect,
               ResolveLostClaim, WriteStaleAndClear, FinaliseRead, FinaliseWrite
    <2>2. Ends(p) \/ UNCHANGED task
        BY <1>5
           DEF ReadRow, TerminaliseExpiredAttempt, ClaimSelect,
               ResolveLostClaim, WriteStaleAndClear, FinaliseRead, FinaliseWrite
    <2>3. QED
        BY <1>3, <1>4, <2>1, <2>2
<1>6. ASSUME NEW p \in Calls, ClaimUpdate(p) PROVE Keeps
    <2>1. task[p] = NoTasks
        BY <1>0, <1>6 DEF ClaimUpdate
    <2>2. \/ task' = task
          \/ \E new \in [Dispatches -> TaskState \ {"calling"}] :
                    task' = [task EXCEPT ![p] = new]
        <3> DEFINE new == [NoTasks EXCEPT ![target[p]] = "ready"]
        <3>1. new \in [Dispatches -> TaskState \ {"calling"}]
            BY <1>2 DEF TaskState
        <3>2. task' = task \/ task' = [task EXCEPT ![p] = new]
            BY <1>0, <1>6, <2>1 DEF ClaimUpdate
        <3>3. QED
            BY <3>1, <3>2
    <2>3. QED
        BY <1>1, <1>4, <2>1, <2>2
<1>7. ASSUME NEW p \in Calls, DraftDrifted(p) PROVE Keeps
    <2>1. \A d \in Dispatches : task[p][d] # "calling"
        BY <1>0, <1>7 DEF DraftDrifted
    <2>2. task' = [task EXCEPT ![p] = NoTasks]
        BY <1>7 DEF DraftDrifted
    <2>3. QED
        BY <1>1, <1>2, <2>1, <2>2
<1>8. ASSUME NEW p \in Calls, CommitDbFailure(p) \/ CommitRetry(p) PROVE Keeps
    <2>1. \A d \in Dispatches : task[p][d] # "calling"
        BY <1>0, <1>8 DEF CommitDbFailure, CommitRetry, Returned
    <2>2. Ends(p)
        BY <1>8 DEF CommitDbFailure, CommitRetry
    <2>3. QED
        BY <1>3, <2>1, <2>2
<1>9. ASSUME NEW p \in Calls, CommitDbSuccessAndFanOut(p) PROVE Keeps
    <2> DEFINE disp == FanOut(img[p], p)
               new == [d \in Dispatches |->
                          IF disp[d].state = "in_flight" THEN "ready" ELSE "none"]
    <2>1. \A d \in Dispatches : task[p][d] # "calling"
        BY <1>0, <1>9 DEF CommitDbSuccessAndFanOut
    <2>2. Ends(p) \/ task' = [task EXCEPT ![p] = new]
        BY <1>9 DEF CommitDbSuccessAndFanOut
    <2> HIDE DEF disp
    <2>3. new \in [Dispatches -> TaskState \ {"calling"}]
        BY DEF TaskState
    <2>4. QED
        BY <1>1, <1>3, <2>1, <2>2, <2>3
<1>10. ASSUME NEW p \in Calls, NEW e \in Dispatches,
              FailBeforeDispatch(p, e) \/ CommitOneDispatchResult(p, e)
       PROVE  Keeps
    <2>1. /\ task[p][e] # "calling"
          /\ \E s \in {"soft", "none"} : task' = [task EXCEPT ![p][e] = s]
        BY <1>10 DEF FailBeforeDispatch, CommitOneDispatchResult, Returned
    <2>2. QED
        BY <1>0, <2>1 DEF Keeps
<1>11. ASSUME \/ CreateApplyAttempt \/ DeadlinePasses \/ Cleanup
              \/ PurgeRetained \/ AccountDeleted \/ UNCHANGED vars
       PROVE  Keeps
    BY <1>11 DEF Keeps, CreateApplyAttempt, DeadlinePasses, Cleanup,
                 PurgeRetained, AccountDeleted, vars
<1>12. Keeps
    BY <1>5, <1>6, <1>7, <1>8, <1>9, <1>10, <1>11 DEF Next, Advance
<1>13. Air' = Air
    BY <1>12 DEF Air, Keeps
<1>14. calls' = calls /\ landed' = landed
    BY DEF Next, Advance, vars, CreateApplyAttempt, ReadRow,
           TerminaliseExpiredAttempt, ClaimSelect, ClaimUpdate,
           ResolveLostClaim, FailBeforeDispatch, CommitOneDispatchResult,
           DraftDrifted, WriteStaleAndClear, CommitDbFailure,
           CommitDbSuccessAndFanOut, CommitRetry, FinaliseRead, FinaliseWrite,
           DeadlinePasses, Cleanup, PurgeRetained, AccountDeleted
<1>15. QED
    BY <1>13, <1>14

\* Requests that come back, or are lost with their server.
LEMMA AirAnswered ==
    ASSUME IInv, NEW p \in Calls, NEW done \in SUBSET Dispatches,
           \A d \in done : task[p][d] = "calling",
           \A d \in Dispatches : task'[p][d] = "calling" <=>
                task[p][d] = "calling" /\ d \notin done,
           \A q \in Calls \ {p} : task'[q] = task[q]
    PROVE  done \subseteq Air /\ Air' = Air \ done
<1>1. \A d \in done : \A q \in Calls : task[q][d] = "calling" => q = p
    BY DEF IInv, OneRuns, Running
<1>2. QED
    BY <1>1 DEF Air

LEMMA SendContract ==
    ASSUME IInv, EffectInv, StatusInv, CapInv, QuietInv,
           NEW p \in Calls, NEW d \in Dispatches, StartDispatch(p, d)
    PROVE  Contract!Send(d)
<1>0. /\ task \in [Calls -> [Dispatches -> TaskState]] /\ row.status \in Status
    BY Shapes DEF IInv
<1>1. /\ task[p][d] = "ready" /\ task' = [task EXCEPT ![p][d] = "calling"]
      /\ calls' = [calls EXCEPT ![d] = @ + 1]
      /\ row' = row /\ landed' = landed /\ Running(p, d)
    BY DEF StartDispatch, Running
<1>2. row.status \in {"executing", "failed_retryable", "failed_terminal", "gone"}
    <2>1. row.status \notin Fresh
        BY <1>1 DEF StatusInv, NeverRan, NoTasks
    <2>2. row.status \notin {"succeeded", "stale"}
        BY <1>1 DEF QuietInv, Quiet
    <2>3. QED
        BY <1>0, <2>1, <2>2 DEF Status, TerminalStatus, Fresh
<1>3. d \notin Air
    BY <1>1 DEF IInv, OneRuns, Running, Air
<1>4. calls[d] < MaxAttempts
    BY CapSendStep
<1>5. d = DB \/ DB \in landed
    BY <1>1, RunsAfterDb
<1>6. Air' = Air \cup {d}
    BY <1>0, <1>1 DEF Air
<1>7. QED
    BY <1>1, <1>2, <1>3, <1>4, <1>5, <1>6 DEF Contract!Send, Air

LEMMA ReturnContract ==
    ASSUME IInv, NEW p \in Calls, NEW d \in Dispatches, DispatchReturns(p, d)
    PROVE  Contract!Answer
<1>0. task \in [Calls -> [Dispatches -> TaskState]]
    BY Shapes DEF IInv
<1>1. /\ task[p][d] = "calling" /\ row' = row /\ calls' = calls
      /\ \E s \in {"ok", "soft", "hard"} : task' = [task EXCEPT ![p][d] = s]
      /\ landed' \in {landed, landed \cup {d}}
    BY DEF DispatchReturns
<1>2. {d} \subseteq Air /\ Air' = Air \ {d}
    <2> DEFINE done == {d}
    <2>1. /\ done \in SUBSET Dispatches
          /\ \A e \in done : task[p][e] = "calling"
          /\ \A e \in Dispatches : task'[p][e] = "calling" <=>
                task[p][e] = "calling" /\ e \notin done
          /\ \A q \in Calls \ {p} : task'[q] = task[q]
        BY <1>0, <1>1
    <2> HIDE DEF done
    <2>2. done \subseteq Air /\ Air' = Air \ done
        BY <2>1, AirAnswered
    <2>3. QED
        BY <2>2 DEF done
<1>3. \E some \in SUBSET {d} : landed' = landed \cup some
    <2>1. CASE landed' = landed \cup {d}
        BY <2>1
    <2>2. CASE landed' = landed
        <3>1. {} \in SUBSET {d} /\ landed' = landed \cup {}
            BY <2>2
        <3>2. QED
            BY <3>1
    <2>3. QED
        BY <1>1, <2>1, <2>2
<1>4. {d} \in SUBSET Air /\ {d} # {}
    BY <1>2
<1>5. QED
    BY <1>1, <1>2, <1>3, <1>4 DEF Contract!Answer, Air

LEMMA CrashContract ==
    ASSUME IInv, NEW p \in Calls, Crash(p)
    PROVE  [Contract!Next]_(Contract!vars)
<1> DEFINE done == {d \in Dispatches : task[p][d] = "calling"}
<1>0. task \in [Calls -> [Dispatches -> TaskState]]
    BY Shapes DEF IInv
<1>1. /\ task' = [task EXCEPT ![p] = NoTasks] /\ row' = row /\ calls' = calls
      /\ \E some \in SUBSET done : landed' = landed \cup some
    BY DEF Crash, Ends
<1>2. done \subseteq Air /\ Air' = Air \ done
    <2>1. /\ \A e \in Dispatches : task'[p][e] = "calling" <=>
                task[p][e] = "calling" /\ e \notin done
          /\ \A q \in Calls \ {p} : task'[q] = task[q]
        BY <1>0, <1>1 DEF NoTasks
    <2>2. done \in SUBSET Dispatches /\ \A d \in done : task[p][d] = "calling"
        OBVIOUS
    <2> HIDE DEF done
    <2>3. QED
        BY <2>1, <2>2, AirAnswered
<1> HIDE DEF done
<1>3. CASE done = {}
    BY <1>1, <1>2, <1>3 DEF Contract!vars, Air
<1>4. CASE done # {}
    <2>1. Contract!Answer
        BY <1>1, <1>2, <1>4 DEF Contract!Answer, Air
    <2>2. QED
        BY <2>1 DEF Contract!Next
<1>5. QED
    BY <1>3, <1>4

\* Everything else moves the status at most.
LEMMA MoveContract ==
    ASSUME IInv, IInv', EffectInv', StatusInv', CapInv', QuietInv',
           [Next]_vars, Air' = Air, calls' = calls, landed' = landed
    PROVE  [Contract!Next]_(Contract!vars)
<1>0. TypeOK'
    BY DEF IInv
<1>1. CASE row'.status = row.status
    BY <1>1 DEF Contract!vars, Air
<1>2. CASE row.status = "none" /\ row'.status = "pending"
    BY <1>2 DEF Contract!Next, Contract!Create, Contract!Becomes, Air
<1>3. CASE row.status # "none" /\ row'.status = "gone"
    BY <1>3 DEF Contract!Next, Contract!Delete, Contract!Becomes, Air
<1>4. CASE row.status = "pending" /\ row'.status = "expired"
    <2>1. \A d \in Dispatches : calls[d] = 0
        BY <1>4 DEF StatusInv, NeverRan, Fresh
    <2>2. QED
        BY <1>4, <2>1 DEF Contract!Next, Contract!Expire, Contract!Becomes, Air
<1>5. CASE /\ row.status \in {"pending", "failed_retryable"}
           /\ row'.status = "executing"
    BY <1>5 DEF Contract!Next, Contract!Execute, Contract!Becomes, Air
<1>6. CASE row.status = "executing" /\ row'.status = "succeeded"
    <2>1. landed = Dispatches
        BY <1>0, <1>6 DEF EffectInv, SuccessIsFull, AllSucceeded, RowBacked,
                          Backed, TypeOK
    <2>2. QED
        BY <1>6, <2>1 DEF Contract!Next, Contract!Succeed, Contract!Becomes, Air
<1>7. CASE row.status = "executing" /\ row'.status = "stale"
    <2>1. Air' = {}
        BY <1>7 DEF QuietInv, Quiet, Running, Air
    <2>2. QED
        BY <1>7, <2>1 DEF Contract!Next, Contract!GoStale, Contract!Becomes, Air
<1>8. CASE row.status = "executing" /\ row'.status = "failed_retryable"
    <2>1. PICK d \in Dispatches : /\ row'.disp[d].state = "failed_retryable"
                                  /\ row'.disp[d].attemptCount < MaxAttempts
        BY <1>8 DEF StatusInv, Agrees, Soft, Open
    <2>2. calls'[d] < MaxAttempts
        <3>1. calls'[d] <= row'.disp[d].attemptCount
            BY <1>8 DEF CapInv, Counted
        <3>2. calls'[d] \in Nat /\ row'.disp[d].attemptCount \in Nat
            BY <1>0 DEF TypeOK, PlannedDispatch
        <3>3. QED
            BY <2>1, <3>1, <3>2, CapAssumption
    <2>3. d \notin Air'
        <3> SUFFICES ASSUME NEW q \in Calls, task'[q][d] = "calling" PROVE FALSE
            BY DEF Air
        <3>1. /\ row'.lock = NoCall /\ q # NoCall /\ ~Over'
              /\ row'.status # "executing"
            BY <1>8, CallsAssumption DEF IInv, RowInv, Over, TerminalStatus
        <3>2. pc'[q] = "fan"
            BY <3>1 DEF IInv, CallInv, DriveInv, NoTasks
        <3>3. QED
            BY <2>1, <3>1, <3>2 DEF IInv, CallInv, FanInv, Running
    <2>4. QED
        BY <1>8, <2>2, <2>3
           DEF Contract!Next, Contract!FailSoftly, Contract!Becomes, Air
<1>9. CASE /\ row.status \in {"executing", "failed_retryable"}
           /\ row'.status = "failed_terminal"
    BY <1>9 DEF Contract!Next, Contract!FailForGood, Contract!Becomes, Air
<1>10. QED
    BY <1>1, <1>2, <1>3, <1>4, <1>5, <1>6, <1>7, <1>8, <1>9, StatusMoves

LEMMA ContractStep ==
    ASSUME IInv, IInv', EffectInv, EffectInv', StatusInv, StatusInv',
           CapInv, CapInv', QuietInv, QuietInv', [Next]_vars
    PROVE  [Contract!Next]_(Contract!vars)
<1>1. ASSUME NEW p \in Calls, NEW d \in Dispatches, StartDispatch(p, d)
      PROVE  Contract!Next
    BY <1>1, SendContract DEF Contract!Next
<1>2. ASSUME NEW p \in Calls, NEW d \in Dispatches, DispatchReturns(p, d)
      PROVE  Contract!Next
    BY <1>2, ReturnContract DEF Contract!Next
<1>3. QED
    BY <1>1, <1>2, CrashContract, AirStays, MoveContract

LEMMA ContractInit == Init => Contract!Init
BY DEF Init, NewRow, NoTasks, Contract!Init

\* With one retry at a time, the attempt keeps the contract that AttemptContract
\* states without rows, locks or tokens: requests go out one at a time, within the
\* cap and after MANAGER_DB; success is real; a soft failure leaves something to
\* try; an expired attempt sent nothing and a stale one sends no more
\* (apply-attempt-lifecycle.ts and apply-attempt-cleanup.ts together).
THEOREM OneRetryKeepsContract ==
    ASSUME OneRetry
    PROVE  Spec => ContractSpec
<1> DEFINE All == IInv /\ EffectInv /\ StatusInv /\ CapInv /\ QuietInv
<1>1. Init => All /\ Contract!Init
    BY IInvInit, EffectInit, StatusInit, CapInit, QuietInit, ContractInit
<1>2. All /\ [Next]_vars => All'
    <2> SUFFICES ASSUME All, [Next]_vars PROVE All'
        OBVIOUS
    <2>1. IInv' /\ EffectInv' /\ StatusInv' /\ CapInv'
        BY IInvStep, EffectStep, StatusStep, CapStep
    <2>2. QuietInv'
        BY <2>1, QuietStep, StaleBeforeDbStep DEF QuietInv
    <2>3. QED
        BY <2>1, <2>2
<1>3. All /\ All' /\ [Next]_vars => [Contract!Next]_(Contract!vars)
    BY ContractStep
<1> HIDE DEF All
<1>4. QED
    BY <1>1, <1>2, <1>3, PTL DEF Spec, ContractSpec, Contract!Spec
=============================================================================
