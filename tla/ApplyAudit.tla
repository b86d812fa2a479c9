----------------------------- MODULE ApplyAudit -----------------------------
(***************************************************************************)
(* The node.apply audit of one apply attempt: "exactly once per attempt    *)
(* that reaches succeeded".  The attempt's row is in the auth database,    *)
(* the audit row in another one, so no transaction covers both: the row    *)
(* carries a slot (succeeded_audit_emitted_at) that serialises the         *)
(* writers and a completion mark (succeeded_audit_completed_at), the audit *)
(* table has a unique index on the attempt's id, and a sweep finishes what *)
(* a crash or an outage interrupted.                                       *)
(*                                                                         *)
(* The lifecycle of ApplyAttempt is one step here: the row succeeds or     *)
(* not.  Timestamps are abstract: slotAged and wonAged say that the slot's *)
(* claim and the row's success are older than APPLY_EXECUTING_STALE_MS,    *)
(* overdue that the retention has elapsed.                                 *)
(***************************************************************************)
EXTENDS Naturals

CONSTANTS
    Wrappers,  \* server-side runs of confirmApplyAttempt and retryDispatch
    Sweeps     \* runs of runApplyAttemptCleanup that may overlap

ASSUME ActorsAssumption == Wrappers \cap Sweeps = {}

Actors == Wrappers \cup Sweeps

VARIABLES
    status,     \* "open", "succeeded", "failed", or "gone" once deleted
    slot,       \* succeeded_audit_emitted_at is set
    completed,  \* succeeded_audit_completed_at is set
    slotAged, wonAged, overdue,
    audits,     \* node.apply rows of this attempt in the audit database
    won,        \* the attempt ever succeeded (history)
    pc          \* where each wrapper and each sweep stands

row == <<status, slot, completed>>
clock == <<slotAged, wonAged, overdue>>
vars == <<row, clock, audits, won, pc>>

Init ==
    /\ status = "open"
    /\ slot = FALSE /\ completed = FALSE
    /\ slotAged = FALSE /\ wonAged = FALSE /\ overdue = FALSE
    /\ audits = 0
    /\ won = FALSE
    /\ pc = [a \in Actors |-> "idle"]

Goto(a, label) == pc' = [pc EXCEPT ![a] = label]

-----------------------------------------------------------------------------
(* The UPDATE statements on the slot.                                      *)

SlotFree == status = "succeeded" /\ ~slot

Claim(a, won_it, lost_it) ==
    IF SlotFree
    THEN /\ slot' = TRUE /\ slotAged' = FALSE
         /\ Goto(a, won_it)
         /\ UNCHANGED <<status, completed, wonAged, overdue, audits, won>>
    ELSE Goto(a, lost_it) /\ UNCHANGED <<row, clock, audits, won>>

Mark == completed' = (completed \/ (slot /\ status # "gone"))

\* Fault: a release ignores the completion mark.
ReleaseAlways == slot' = FALSE

Release == slot' = (slot /\ (completed \/ status = "gone"))

-----------------------------------------------------------------------------
(* The INSERT into audit_logs.  It is refused as a duplicate, or fails, or *)
(* lands; a failure may hide an insert that landed.                        *)

\* Fault: the unique index is missing.
NoDuplicate == FALSE

Duplicate == audits > 0

Insert(a, ok, dup, failed) ==
    /\ UNCHANGED <<row, clock, won>>
    /\ \/ Duplicate /\ Goto(a, dup) /\ UNCHANGED audits
       \/ ~Duplicate /\ audits' = audits + 1 /\ Goto(a, ok)
       \/ ~Duplicate /\ audits' = audits + 1 /\ Goto(a, failed)
       \/ Goto(a, failed) /\ UNCHANGED audits

-----------------------------------------------------------------------------
(* The row outside the audit protocol.                                     *)

\* A call of the lifecycle, or the sweep's own aggregation, settles the row.
Settle ==
    /\ status = "open"
    /\ \/ status' = "succeeded" /\ won' = TRUE
       \/ status' = "failed" /\ UNCHANGED won
    /\ UNCHANGED <<slot, completed, clock, audits, pc>>

Age ==
    /\ status \in {"succeeded", "failed"}
    /\ \/ slot /\ slotAged' = TRUE /\ UNCHANGED <<wonAged, overdue>>
       \/ wonAged' = TRUE /\ UNCHANGED <<slotAged, overdue>>
       \/ wonAged /\ overdue' = TRUE /\ UNCHANGED <<slotAged, wonAged>>
    /\ clock' # clock
    /\ UNCHANGED <<row, audits, won, pc>>

\* Fault: rows whose audit is pending are not kept.
RemovableAny == TRUE

Removable == status # "succeeded" \/ completed

\* The trigger on the deletion of the creator's account.
AccountDeleted ==
    /\ status # "gone"
    /\ Removable
    /\ status' = "gone"
    /\ UNCHANGED <<slot, completed, clock, audits, won, pc>>

-----------------------------------------------------------------------------
(* maybeEmitNodeApplyAudit, at the end of every confirm and retry that     *)
(* returns a succeeded row: the one that drove it there or a later one.    *)

WrapperClaim(w) ==
    /\ pc[w] = "idle"
    /\ status = "succeeded"
    /\ Claim(w, "record", "done")

WrapperRecord(w) == pc[w] = "record" /\ Insert(w, "mark", "mark", "release")

\* The mark itself may fail, which the wrapper swallows.
WrapperMark(w) ==
    /\ pc[w] = "mark"
    /\ Goto(w, "done")
    /\ \/ Mark
       \/ UNCHANGED completed
    /\ UNCHANGED <<status, slot, clock, audits, won>>

\* So may the release.
WrapperRelease(w) ==
    /\ pc[w] = "release"
    /\ Goto(w, "done")
    /\ \/ Release
       \/ UNCHANGED slot
    /\ UNCHANGED <<status, completed, clock, audits, won>>

-----------------------------------------------------------------------------
(* recoverPendingNodeApplyAudits and purgeRetained, in this order.         *)

\* Fault: a slot nobody claimed is not a candidate.
ClaimedCandidate ==
    status = "succeeded" /\ ~completed /\ slot /\ slotAged

Candidate ==
    /\ status = "succeeded" /\ ~completed
    /\ \/ slot /\ slotAged
       \/ ~slot /\ wonAged

SweepSelect(s) ==
    /\ pc[s] = "idle"
    /\ IF Candidate
       THEN Goto(s, IF slot THEN "record" ELSE "claim")
       ELSE Goto(s, "purge")
    /\ UNCHANGED <<row, clock, audits, won>>

SweepClaim(s) == pc[s] = "claim" /\ Claim(s, "record", "purge")

\* Fault: a failure releases the slot, as in the wrapper.
SweepRecordReleasing(s) ==
    pc[s] = "record" /\ Insert(s, "mark", "mark", "release")

\* A failure leaves the slot claimed, for the next sweep.
SweepRecord(s) == pc[s] = "record" /\ Insert(s, "mark", "mark", "purge")

SweepMark(s) ==
    /\ pc[s] = "mark"
    /\ Goto(s, "purge")
    /\ \/ Mark
       \/ UNCHANGED completed
    /\ UNCHANGED <<status, slot, clock, audits, won>>

PurgeRetained(s) ==
    /\ pc[s] = "purge"
    /\ Goto(s, "idle")
    /\ status' = IF status \in {"succeeded", "failed"} /\ overdue /\ Removable
                 THEN "gone" ELSE status
    /\ UNCHANGED <<slot, completed, clock, audits, won>>

\* The server process of a call dies, or its database connection does; the
\* scheduler starts the sweep again.
Crash(a) ==
    /\ pc[a] \notin {"idle", "done"}
    /\ Goto(a, IF a \in Sweeps THEN "idle" ELSE "done")
    /\ UNCHANGED <<row, clock, audits, won>>

-----------------------------------------------------------------------------
Sweep(s) ==
    \/ SweepSelect(s) \/ SweepClaim(s) \/ SweepRecord(s) \/ SweepMark(s)
    \/ PurgeRetained(s)

Next ==
    \/ Settle \/ Age \/ AccountDeleted
    \/ \E w \in Wrappers :
        WrapperClaim(w) \/ WrapperRecord(w) \/ WrapperMark(w) \/ WrapperRelease(w)
    \/ \E s \in Sweeps : Sweep(s)
    \/ \E a \in Actors : Crash(a)

Spec == Init /\ [][Next]_vars

\* The scheduler keeps driving the sweep, time passes, and neither crashes
\* nor outages of the audit database last for ever.
FairSpec ==
    /\ Spec
    /\ WF_vars(Age)
    /\ \A s \in Sweeps :
        /\ WF_vars(SweepSelect(s)) /\ WF_vars(PurgeRetained(s))
        /\ SF_vars(SweepClaim(s))
        /\ SF_vars(SweepRecord(s) /\ pc'[s] = "mark")
        /\ SF_vars(SweepMark(s) /\ (slot /\ status # "gone" => completed'))

-----------------------------------------------------------------------------
(* Properties.                                                             *)

\* Every variable has its type; a sweep never releases the slot.
TypeOK ==
    /\ status \in {"open", "succeeded", "failed", "gone"}
    /\ slot \in BOOLEAN /\ completed \in BOOLEAN
    /\ slotAged \in BOOLEAN /\ wonAged \in BOOLEAN /\ overdue \in BOOLEAN
    /\ won \in BOOLEAN
    /\ audits \in Nat
    /\ DOMAIN pc = Actors
    /\ \A w \in Wrappers :
          pc[w] \in {"idle", "record", "mark", "release", "done"}
    /\ \A s \in Sweeps : pc[s] \in {"idle", "claim", "record", "mark", "purge"}

\* At most one node.apply row for an attempt, whoever writes it: two sweeps
\* and a slow wrapper may all hold what they take for the slot.
AuditedAtMostOnce == audits <= 1

\* The completion mark is never ahead of the audit row, and never without
\* its slot: a release after a lost answer does not undo a sweep's mark.
CompletedIsDurable == completed => audits > 0 /\ slot

\* No succeeded attempt disappears, by retention or with its creator's
\* account, before its audit row is written.
NeverRemovedUnaudited == won /\ status = "gone" => audits > 0

\* A wrapper that is between its claim and its mark or release has the slot
\* to itself among the wrappers.
OneWrapperAtATime ==
    \A v, w \in Wrappers :
        {pc[v], pc[w]} \subseteq {"record", "release"} => v = w

\* Every success is audited and its row marked, whatever crashed before.
EventuallyAudited == won ~> audits > 0 /\ (completed \/ status = "gone")
=============================================================================
