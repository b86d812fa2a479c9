------------------------------ MODULE PolicyRun ------------------------------
(***************************************************************************)
(* The policy runs of corpus B: the rows of policy_triage_run that one      *)
(* account has for one period, one set of policies and one baseline         *)
(* version, with their policy_triaged_event rows.  Requests compute a run   *)
(* or recompute one (runner.ts), the retention job reaps and prunes them    *)
(* (retention.ts), and one exclusion comes and goes, with a cleanup that    *)
(* deletes what it matches, batch by batch, from runs of any age.           *)
(*                                                                          *)
(* What is left of a run's fingerprint is whether its exclusion set has     *)
(* that exclusion.  Events are in the order of the event list, which grows; *)
(* a page has one.  A row that retention deleted is NoRun.                  *)
(***************************************************************************)
EXTENDS Naturals

CONSTANTS Requests,    \* calls of runCorpusBTriage and recomputeCorpusBRun
          NumEvents,   \* bound: events of the period that the policies match
          Excluded,    \* those the exclusion matches
          PageCap,     \* MAX_PAGES_PER_RUN
          MaxRuns,     \* bound: runs created
          MaxChanges   \* bound: additions and removals of the exclusion

Events == 1..NumEvents
Ids == 1..MaxRuns

ASSUME PolicyRunAssumption ==
  /\ NumEvents \in Nat /\ Excluded \subseteq Events
  /\ PageCap \in Nat \ {0} /\ MaxRuns \in Nat /\ MaxChanges \in Nat

VARIABLES run,        \* policy_triage_run by id, each with its events
          created,    \* policy_triage_run_id_seq
          request,    \* per request where it stands
          excluding,  \* the exclusion is active
          draining,   \* its cleanup may still delete: to be run, under way or retried
          changes     \* additions and removals so far

exclusionVars == <<excluding, draining, changes>>
vars == <<run, created, request, exclusionVars>>

Active == {"computing", "ready"}
Terminal == {"failed", "superseded"}

\* The fields from excl on are meaningless in a row that does not exist.
\* seen and exposed are history: what was listed when the last page was read,
\* and that it had events the exclusion matches while a cleanup was under way.
Run == [status : Active \cup Terminal \cup {"none"},
        excl : BOOLEAN, rows : SUBSET Events,
        replaces : 0..MaxRuns, supersededBy : 0..MaxRuns,
        seen : 0..NumEvents, exposed : BOOLEAN]
NoRun == [status |-> "none", excl |-> FALSE, rows |-> {},
          replaces |-> 0, supersededBy |-> 0, seen |-> 0, exposed |-> FALSE]
Computing(excl, old) ==
  [NoRun EXCEPT !.status = "computing", !.excl = excl, !.replaces = old]

Request == [pc : {"idle", "resolved", "claim", "paging", "read", "failing"},
            old : 0..MaxRuns,      \* oldRunId of a recompute, 0 for a fresh run
            excl : BOOLEAN,        \* the active set it has resolved
            id : 0..MaxRuns,       \* the run it has claimed
            after : 0..NumEvents,  \* the event list's cursor
            seen : 0..NumEvents]
\* What a request has no use for any more is reset.
Idle == [pc |-> "idle", old |-> 0, excl |-> FALSE, id |-> 0, after |-> 0, seen |-> 0]

TypeOK ==
  /\ run \in [Ids -> Run] /\ created \in 0..MaxRuns
  /\ request \in [Requests -> Request]
  /\ \A q \in Requests : request[q].pc \in {"paging", "read", "failing"}
                         => request[q].id \in 1..created
  /\ excluding \in BOOLEAN /\ draining \in BOOLEAN /\ changes \in 0..MaxChanges

Init ==
  /\ run = [i \in Ids |-> NoRun] /\ created = 0
  /\ request = [q \in Requests |-> Idle]
  /\ excluding \in BOOLEAN /\ draining \in {FALSE, excluding} /\ changes = 0

\* The rows the runner keeps of the first n events.
Kept(n, excl) == {e \in 1..n : ~(excl /\ e \in Excluded)}

\* The runs in the slot of policy_triage_run_active_fingerprint.
InSlot(excl) == {i \in Ids : run[i].status \in Active /\ run[i].excl = excl}

-----------------------------------------------------------------------------
(* Claiming a slot.                                                          *)

\* Which of the idle requests comes next makes no difference.
NextRequest == CHOOSE q \in Requests : request[q].pc = "idle"

Resolve(q, old) ==
  /\ request[q].pc = "idle" /\ q = NextRequest
  /\ old # 0 => run[old].status # "none"
  /\ request' = [request EXCEPT ![q] =
       [Idle EXCEPT !.pc = IF old = 0 THEN "resolved" ELSE "claim",
                    !.old = old, !.excl = excluding]]
  /\ UNCHANGED <<run, created, exclusionVars>>

\* An active run is what the request answers with.
FindActive(q) ==
  /\ request[q].pc = "resolved"
  /\ request' = [request EXCEPT ![q] =
       IF InSlot(request[q].excl) # {} THEN Idle ELSE [@ EXCEPT !.pc = "claim"]]
  /\ UNCHANGED <<run, created, exclusionVars>>

\* Fault: the UPDATE of the old run without AND status = 'ready'.
ConflictOfSlot(q) == InSlot(request[q].excl) \ {request[q].old} # {}

\* The slot is taken, or the old run is not the ready one any more: the request
\* answers with the run that is there, or throws.
Conflict(q) ==
  LET old == request[q].old
  IN  IF old = 0 THEN InSlot(request[q].excl) # {}
      ELSE run[old].status # "ready" \/ InSlot(request[q].excl) \ {old} # {}

LoseSlot(q) ==
  /\ request[q].pc = "claim" /\ Conflict(q)
  /\ request' = [request EXCEPT ![q] = Idle]
  /\ UNCHANGED <<run, created, exclusionVars>>

\* Fault: the request keeps the sequence's last value, not the one of its row.
ClaimWithOldId(q, old) ==
  LET new == created + 1
      superseded == [run EXCEPT ![old].status = "superseded", ![old].supersededBy = new]
  IN  /\ request[q].pc = "claim" /\ request[q].old = old /\ ~Conflict(q)
      /\ created < MaxRuns
      /\ created' = new
      /\ run' = [IF old = 0 THEN run ELSE superseded
                   EXCEPT ![new] = Computing(request[q].excl, old)]
      /\ request' = [request EXCEPT ![q] =
           [Idle EXCEPT !.pc = "paging", !.excl = request[q].excl, !.id = created]]
      /\ UNCHANGED exclusionVars

\* insertComputingRun, or the transaction of recomputeRun.
Claim(q, old) ==
  LET new == created + 1
      superseded == [run EXCEPT ![old].status = "superseded", ![old].supersededBy = new]
  IN  /\ request[q].pc = "claim" /\ request[q].old = old /\ ~Conflict(q)
      /\ created < MaxRuns
      /\ created' = new
      /\ run' = [IF old = 0 THEN run ELSE superseded
                   EXCEPT ![new] = Computing(request[q].excl, old)]
      /\ request' = [request EXCEPT ![q] =
           [Idle EXCEPT !.pc = "paging", !.excl = request[q].excl, !.id = new]]
      /\ UNCHANGED exclusionVars

-----------------------------------------------------------------------------
(* The transaction that fills the run.                                       *)

InTransaction(q) == request[q].pc \in {"paging", "read"}
Staged(q) == IF InTransaction(q) THEN Kept(request[q].after, request[q].excl) ELSE {}

Failing(q) == [Idle EXCEPT !.pc = "failing", !.id = request[q].id]

\* Fault: the loop just ends at the cap.
ReadPageTruncating(q, n) ==
  LET at == request[q].after + 1
      got == at <= n
      last == IF got THEN at ELSE request[q].after
      more == at < n /\ at < PageCap
      refused == got /\ run[request[q].id].status = "none"
                 /\ ~(request[q].excl /\ at \in Excluded)
  IN  /\ request[q].pc = "paging" /\ n >= request[q].after
      /\ request' = [request EXCEPT ![q] =
           IF refused THEN Failing(q)
           ELSE IF more THEN [@ EXCEPT !.after = at]
           ELSE [@ EXCEPT !.pc = "read", !.after = last, !.seen = n]]
      /\ UNCHANGED <<run, created, exclusionVars>>

\* A page with its rows, of an event list that has n events by now.  The rows
\* reference the run: when it was deleted, the insert fails.
ReadPage(q, n) ==
  LET at == request[q].after + 1
      got == at <= n
      last == IF got THEN at ELSE request[q].after
      more == at < n
      refused == got /\ run[request[q].id].status = "none"
                 /\ ~(request[q].excl /\ at \in Excluded)
  IN  /\ request[q].pc = "paging" /\ n >= request[q].after
      /\ request' = [request EXCEPT ![q] =
           IF refused \/ (more /\ at = PageCap) THEN Failing(q)
           ELSE IF more THEN [@ EXCEPT !.after = at]
           ELSE [@ EXCEPT !.pc = "read", !.after = last, !.seen = n]]
      /\ UNCHANGED <<run, created, exclusionVars>>

Filled(q) ==
  [run EXCEPT ![request[q].id] =
     [@ EXCEPT !.status = "ready", !.rows = Staged(q), !.seen = request[q].seen,
               !.exposed = draining /\ Staged(q) \cap Excluded # {}]]

\* Fault: without AND status = 'computing'.
FlipAnyway(q) ==
  /\ request[q].pc = "read"
  /\ run' = IF run[request[q].id].status # "none" THEN Filled(q) ELSE run
  /\ request' = [request EXCEPT ![q] = Idle]
  /\ UNCHANGED <<created, exclusionVars>>

\* markRunReadyOnClient and COMMIT; a run that is not computing any more is
\* left, and the rows are rolled back.
FlipReady(q) ==
  /\ request[q].pc = "read"
  /\ run' = IF run[request[q].id].status = "computing" THEN Filled(q) ELSE run
  /\ request' = [request EXCEPT ![q] = Idle]
  /\ UNCHANGED <<created, exclusionVars>>

\* COMMIT takes effect and its answer is lost.
CommitUnanswered(q) ==
  /\ request[q].pc = "read" /\ run[request[q].id].status = "computing"
  /\ run' = Filled(q)
  /\ request' = [request EXCEPT ![q] = Failing(q)]
  /\ UNCHANGED <<created, exclusionVars>>

\* An encoding error, a malformed page, an abort, a failed query: ROLLBACK.
Fail(q) ==
  /\ InTransaction(q)
  /\ request' = [request EXCEPT ![q] = Failing(q)]
  /\ UNCHANGED <<run, created, exclusionVars>>

MarkFailed(q) ==
  LET id == request[q].id
  IN  /\ request[q].pc = "failing"
      /\ run' = IF run[id].status = "computing"
                THEN [run EXCEPT ![id].status = "failed"] ELSE run
      /\ request' = [request EXCEPT ![q] = Idle]
      /\ UNCHANGED <<created, exclusionVars>>

\* The process dies, or a query outside the transaction fails.
Crash(q) ==
  /\ request[q].pc # "idle"
  /\ request' = [request EXCEPT ![q] = Idle]
  /\ UNCHANGED <<run, created, exclusionVars>>

-----------------------------------------------------------------------------
(* Retention.  Which runs are old enough is left open, so any request may  *)
(* be slow.                                                                 *)

\* Fault: by finalized_at, which a computing run does not have.
ReapFinalized(i) ==
  /\ run[i].status \in Terminal
  /\ run' = [run EXCEPT ![i].status = "failed"]
  /\ UNCHANGED <<created, request, exclusionVars>>

Reap(i) ==
  /\ run[i].status = "computing"
  /\ run' = [run EXCEPT ![i].status = "failed"]
  /\ UNCHANGED <<created, request, exclusionVars>>

\* The runs that named i are set to NULL, its events go with it.
Without(i) ==
  [j \in Ids |->
     IF j = i THEN NoRun
     ELSE [run[j] EXCEPT !.replaces = IF @ = i THEN 0 ELSE @,
                         !.supersededBy = IF @ = i THEN 0 ELSE @]]

\* A run past its retention, or of an account that is gone: then it may be
\* computing.  Rows that are not committed hold their run: a DELETE waits.
Prune(i) ==
  /\ run[i].status # "none"
  /\ \A q \in Requests : request[q].id = i => Staged(q) = {}
  /\ run' = Without(i)
  /\ UNCHANGED <<created, request, exclusionVars>>

-----------------------------------------------------------------------------
(* What goes on around the runs.                                             *)

\* The committed rows that the exclusion matches.
Matching == {m \in Ids \X Excluded : m[2] \in run[m[1]].rows}

\* What is left when the rows B are deleted.
Cut(runs, B) ==
  [i \in Ids |->
     [runs[i] EXCEPT !.rows = @ \ {e \in Excluded : <<i, e>> \in B}]]

\* A cleanup begins: from now on these rows may go.
Exposed ==
  [i \in Ids |->
     [run[i] EXCEPT !.exposed = @ \/ run[i].rows \cap Excluded # {}]]

\* A global exclusion is active before anything is deleted; a customer's own
\* comes with the first batch.
AddExclusion ==
  /\ ~excluding /\ changes < MaxChanges
  /\ excluding' = TRUE /\ draining' = TRUE /\ changes' = changes + 1
  /\ \E B \in SUBSET Matching : run' = Cut(Exposed, B)
  /\ UNCHANGED <<created, request>>

\* The requests take no lock that a batch would wait for.
DeleteBatch ==
  /\ draining
  /\ \E B \in SUBSET Matching \ {{}} : run' = Cut(run, B)
  /\ UNCHANGED <<created, request, exclusionVars>>

\* It found no more, or stopped for good: it failed and nobody recovers it, or
\* the exclusion is gone.
EndCleanup ==
  /\ draining /\ draining' = FALSE
  /\ UNCHANGED <<run, created, request, excluding, changes>>

\* A cleanup that is under way may go on for a while.
RemoveExclusion ==
  /\ excluding /\ changes < MaxChanges
  /\ excluding' = FALSE /\ changes' = changes + 1
  /\ UNCHANGED <<run, created, request, draining>>

RequestStep(q) ==
  \/ \E old \in 0..MaxRuns : Resolve(q, old) \/ Claim(q, old)
  \/ \E n \in 0..NumEvents : ReadPage(q, n)
  \/ FindActive(q) \/ LoseSlot(q) \/ FlipReady(q)
  \/ CommitUnanswered(q) \/ Fail(q) \/ MarkFailed(q) \/ Crash(q)

Next ==
  \/ \E q \in Requests : RequestStep(q)
  \/ \E i \in Ids : Reap(i) \/ Prune(i)
  \/ AddExclusion \/ DeleteBatch \/ EndCleanup \/ RemoveExclusion

Spec == Init /\ [][Next]_vars

\* The retention job runs on, and in time every run is old enough.
Fairness == \A i \in Ids : WF_vars(Reap(i))

FairSpec == Spec /\ Fairness

-----------------------------------------------------------------------------
(* Properties. *)

Whole(r) ==
  IF r.status \in {"ready", "superseded"}
  THEN /\ Kept(r.seen, TRUE) \subseteq r.rows
       /\ r.rows \subseteq Kept(r.seen, r.excl)
       /\ r.exposed \/ r.rows = Kept(r.seen, r.excl)
  ELSE r.rows = {}

\* A run that is ready, or was when it was superseded, has every event that
\* was listed when its last page was read, less those its own exclusions cover
\* and, where a cleanup met it, less some that the cleanup covers: it may go
\* from whole to less after it turned ready.  No other run has events, however
\* its runner ended.
ReadyIsWhole == \A i \in Ids : Whole(run[i])

\* A run that failed or was superseded never comes back, even when its runner
\* was only slow and finishes after the reaper or the recompute
\* (repository.ts:336-343), and an id is never used again.
TerminalStays ==
  [][\A i \in 1..created :
       run[i].status \in Terminal \cup {"none"} => run'[i].status \in {run[i].status, "none"}]_vars

\* The two ends of a recompute name each other, whichever of several
\* recomputes of one run wins and whichever end retention deletes.
LineageIsTwoWay ==
  \A i, j \in Ids :
    /\ run[i].supersededBy = j <=> run[j].replaces = i
    /\ run[i].supersededBy = j => run[i].status = "superseded" /\ i < j

\* No run that is computed keeps the runs asked for now out for ever: one runner
\* has the slot of the active exclusions, and when it died the reaper fails its run.
Blocked == \E i \in InSlot(excluding) : run[i].status = "computing"
SlotIsFreed == Blocked ~> ~Blocked
=============================================================================
