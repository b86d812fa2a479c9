# TLA+ models of aice-web-next

aice-web-next is the web front of AICE: a Next.js server that sits between the
browser and `review-web`, the GraphQL service of the product.  Most of it reads
and renders.  What it keeps of its own lives in PostgreSQL: `auth_db`
(accounts, sessions, node apply attempts, global exclusions and their queue),
`audit_db`, and one `customer_db` per customer (the triage corpora, stories,
exclusions and the queues of the aimer push).  No process owns that state.
Requests, a cron service and operators reach it through as many server
processes as are deployed, and a server process may die at any `await`.  The
hard part of the program is therefore in the order of SQL statements: which
claim, lock, cursor or mark protects what, and what remains of it when a call
stops halfway.  That is what these modules model.

Paths below are relative to the repository's root; `lib/` is `src/lib/`.

## Contents

| Module | Models | Properties checked by TLC | Proved |
|---|---|---|---|
| `ApplyAttempt` | one row of `apply_attempts` and every call that drives it | types, 8 safety properties, refinement of `AttemptContract`, termination | types, the 8 safety properties and the refinement (two of the eight, and the refinement, with one retry at a time) |
| `AttemptContract` | what an apply attempt promises, without row, lock or token | (abstract specification) | |
| `ApplyAudit` | the `node.apply` audit of one attempt, across two databases | types, 3 safety properties, eventual audit | types and the three |
| `BaselineCadence` | overlapping cadence runs of one customer | types, no gap, eventual ingestion | types and no gap |
| `ExclusionCleanup` | removing from one customer's corpus what a new exclusion matches | types, completed means clean, eventual enforcement | types and completed means clean |
| `TenantPool` | the connections of one customer's pool against its advisory lock | types, no standstill, every adder is served | types and no standstill |
| `PushTransport` | how a batch of the aimer push travels: tab, wire, receiver | (extended by `BaselinePush`) | |
| `BaselinePush` | the push of the baseline corpus, and the writers that queue notices | types, 3 safety properties, eventual delivery, refinement of `AtLeastOnce` | types, the safety properties, the refinement |
| `AtLeastOnce` | what a push promises, without cursor, queue or record | (abstract specification) | |
| `StoryPush` | the push of stories, the manual send, and the transactions that write stories | types, 2 safety properties, eventual delivery | types and the two |
| `PolicyRun` | the policy runs of one selection, with reaper, retention and an exclusion | types, 3 safety properties, the slot asked for is freed | types and the three |

`XProofs.tla` holds the theorems about module `X`; `MCX.tla` with its `.cfg`
files instantiates it for TLC.

Operators marked `Fault:` in a module are not part of the specification.  Each
is a plausible bug of the definition that follows it (a dropped test, a missing
reset); substituting it for that definition makes TLC refute the property the
pair is listed for, which shows that the property depends on that code.

## Inventory

State, operations and correctness of each component; "module" names the one
that models it or is planned to (in parentheses).

### Node management

* **Apply attempt** (`lib/node/apply-attempt-lifecycle.ts`,
  `apply-attempts.ts`, `apply-attempt-cleanup.ts`, `apply.ts`).  State: one row
  per attempt with a status, `executing_lock`, `expires_at` and the JSON
  `planned_dispatches`, each dispatch with a state, an attempt count and, after
  the manager-DB stage, a lock token of its own.  Operations: create, confirm,
  retry one dispatch, the executor that calls review-web and the external
  services, the fan-out of everything behind the manager database, and the
  cleanup sweep (stale locks, stale dispatch claims, abandoned rows, expired
  rows, retention).  Hard: two claims at once, a claim that outlives its
  executor or the reverse, a crash after a request left and before its result
  is stored, parallel dispatches that settle in any order.  Correct when no
  dispatch is driven twice at a time, the cap holds, success means that all
  took effect, terminal rows stay as they are and every attempt ends.
  Module `ApplyAttempt`.
* **Apply audit** (`apply-actions.ts`, `apply-attempt-cleanup.ts`, a unique
  index of `audit_db`).  State: two timestamps of the row, and the audit row in
  another database.  Hard: no common transaction, lost answers, a wrapper and
  sweeps that overlap, retention.  Correct when every success is audited
  exactly once and not removed before.  Module `ApplyAudit`.
* **Drafts, service status, node status.**  Drafts and views held by
  review-web; read here.  A draft matters to an attempt only as "it changed
  since the plan was made", which `ApplyAttempt` has as a choice.

### Triage, corpus A

* **Baseline cadence** (`lib/triage/baseline/cadence.ts`, `pager.ts`).  State:
  `baseline_corpus_state` (cursor, status), `observed_event_meta`,
  `baseline_triaged_event`.  Operation: read one upstream page, write its rows
  and the cursor in one transaction under the customer's transaction-level
  advisory lock, at most `MAX_PAGES_PER_RUN` times.  Hard: the lock is free
  between two pages while the run keeps its cursor in a local variable; aborts
  by the dispatcher; failures and lost answers of a COMMIT.  Correct when no
  event is passed over and each is ingested in the end.  Module
  `BaselineCadence`.
* **Dispatcher** (`dispatcher.ts`, `active-customers.ts`): starts cadence runs
  of the active customers with a worker limit, a timeout per customer and one
  for the tick.  It has no stored state; its effect on a run (start, abort,
  give up) is in `BaselineCadence`.  (`Dispatcher`)
* **Rebuild** (`rebuild.ts`): session-level advisory lock, DELETE and INSERT of
  a window in one transaction, a deadline.  A writer in `ExclusionCleanup`,
  `TenantPool` and `BaselinePush`.
* **Low-and-slow sweep** (`lowslow-sweep.ts`, `lowslow-dispatcher.ts`): a
  watermark over finalized stories, hourly.  (`LowSlow`)
* **Stories** (`lib/triage/story/`): correlation inside the page transaction,
  the finalization watermark, and a Force Rebuild that replaces the stories of a
  range and carries their marks of sending over.  The writers, the marks and the
  push are in module `StoryPush`; the watermark is left to `LowSlow`.
* **Retention, scoring, menu, snapshots, engagement**: SQL over aged rows,
  reads, append-only capture and idempotent upserts.  No protocol of their own.

### Triage, exclusions

* **Exclusion cleanup** (`lib/triage/exclusion/retroactive-delete.ts`,
  `storage.ts`, `fanout-worker.ts`, `recovery.ts`, `POST
  /api/triage/exclusions`).  State: the exclusion's row, one
  `triage_exclusion_fanout_job` per customer (status, attempt count, next
  attempt, claim time), the corpus, audit rows.  Operations: add, delete, the
  DELETE in batches, the fan-out sweep (return stuck jobs, claim, process,
  finalize), recovery by an operator.  Hard: only the first batch runs under
  the lock; writers that resolved the exclusions earlier; crashes at each step;
  a catch that reschedules whatever was done.  Correct when "completed" means a
  clean corpus and a global exclusion is enforced in the end or visibly failed.
  Module `ExclusionCleanup`.
* **Connections** (`lib/triage/policy/customer-db.ts`, `lib/db/client.ts`): one
  pool per customer database and process, shared by all of the above.  Module
  `TenantPool`.
* **Matching** (`match.ts`, `suffix-reducer.ts`, `regex.ts`,
  `fingerprint.ts`): pure functions on strings and addresses.

### Triage, corpus B; aimer

* **Policy runs** (`lib/triage/policy/corpus-b/`): a run slot per owner and
  policy, recompute, reuse by fingerprint, a zombie reaper.  Hard: a run that
  is slow and not dead, exclusions added between resolve and commit, two
  recomputes of one run.  Correct when a ready run is whole, a run that ended
  stays ended, and the two ends of a recompute name each other.  Module
  `PolicyRun`.
* **Aimer phase-2 push** (`lib/aimer/phase2/`,
  `app/api/aimer/phase2/`).  State per customer and kind: a cursor, a queue of
  notices (withdrawals and windows), in-flight records by `context_jti`; for
  stories also the marks of sending and a ledger of manual sends.  Operations:
  `next-batch` (settle the last outcome, prune, claim, mint), the drain loop of a
  browser tab, the manual send, pause and resume.  Hard: two tabs, batches that
  are lost, late or acknowledged after their record was pruned, transactions that
  commit behind the cursor, writers that change rows between claim and mint.
  Correct when no version is lost, an acknowledgement settles only what arrived,
  and aimer-web ends with the corpus.  Modules `PushTransport`, `BaselinePush`,
  `AtLeastOnce`, `StoryPush`.  The kinds policy-event and policy-run are not
  modelled.
* **Aimer settings, signing keys, envelopes**: stateless request building.

### Authentication

* **Sign-in and lockout** (`app/api/auth/sign-in/route.ts`,
  `lib/auth/sign-in.ts`, `lockout-policy.ts`): failure counter, two lockout
  stages, a session limit, all read and written in separate statements: two
  wrong passwords at once count as one (`sign-in/route.ts:124`).  (`SignIn`)
* **MFA challenge, recovery codes** (`mfa-challenge.ts`, `recovery-codes.ts`):
  one-time use of a challenge and of a code; the UPDATE that uses a code does not
  ask whether it is unused (`recovery-codes.ts:85`).  (`MfaChallenge`)
* **Sessions and rotation** (`session-validator.ts`, `rotation.ts`): idle and
  absolute timeouts, revocation against rotation.  (`Session`)
* **JWT keys, rate limiter**: a key file with a grace period; fixed windows in
  the memory of one process.  (late, if at all)
* **Roles, permissions, customer scope, CSRF, CIDR, password and TOTP rules**:
  single-statement CRUD and checks of one request.

### Around

* **Migrations** (`lib/db/migrate.ts`), **customer lifecycle**
  (`app/api/customers`): advisory lock, versions with checksums, migrations
  outside a transaction; creating a customer's database and dropping it.
  (`Migrations`)
* **Audit log** (`lib/audit/`): an INSERT in `audit_db`; its unique index on
  `node.apply` is in `ApplyAudit`.
* **Scheduler** (`infra/cron/`): a crontab of HTTP calls: cadence every 15
  minutes, fan-out every minute, low-and-slow hourly, corpus B every six hours,
  the retentions daily.  The models assume its promise as fairness.
* **Detection, events, dashboard, GraphQL client, user interface**: queries,
  URL state, rendering and I/O.  Not modelled.

### How they interact

* The cadence, the rebuild, the exclusion routes and the fan-out worker share
  the customer's corpus, its advisory lock (key `triage_baseline_cadence:<id>`)
  and its connection pool.  `BaselineCadence` is the runs among themselves,
  `ExclusionCleanup` the corpus and the lock between writers and cleaners,
  `TenantPool` the connections and the lock between all of them.
* Whoever removes or replaces rows of the corpus queues a notice for aimer-web in
  the same transaction: `BaselinePush` has these writers with the push that reads
  what they leave, `StoryPush` the same for stories.  Policy runs read the active
  exclusions without the lock, and their rows are removed by the same cleanup:
  `PolicyRun`.
* An apply attempt and its audit share the row; `ApplyAudit` contracts the
  whole lifecycle of `ApplyAttempt` to the step that settles the row, and
  `ApplyAttempt` leaves out the audit slot, which its own statements never read
  (retention and account deletion are the exception, see below).

## The models

### ApplyAttempt

Variable `row` is the database row, with `disp` for `planned_dispatches`; `pc`,
`target`, `src`, `img` and `task` are what a call (a server-side run of confirm
or retry) holds in memory; `calls` and `landed` are history: the requests sent
per dispatch, and the dispatches that took effect upstream.

Each SQL statement is a step, and each upstream request is two (`StartDispatch`
and `DispatchReturns`), so that calls interleave between the SELECT of
`tryClaim` and its UPDATE, or between a request and the commit of its result.
`ClaimUpdate` writes the image that `ClaimSelect` read, as the code does.  The
sweep is one transaction in the code and one step here, its four parts in their
order (`CleanedUp`).

Abstractions:

* Time.  `row.overdue` is `NOW() > expires_at`; `Cleanup` may find any held
  claim stale or not.  The second is more than the code does when the threshold
  (2.5 hours) exceeds every request's timeout, and is what it does when an
  executor hangs.
* The draft.  Whether it drifted since the plan was made is a choice in
  `DraftDrifted`.
* The plan holds MANAGER_DB, MANAGER_NOTIFY and any set of external services.
  It always holds the notification, so the fan-out always finds a queued
  dispatch; the code's branch for a plan with nothing behind the manager
  database is unreachable and left out.
* Only the manager's notification can fail for good; every other failure is
  soft until the cap.
* A request takes effect by the time its call returns or dies.
* `PurgeRetained` and `AccountDeleted` delete any settled row.  The code keeps a
  succeeded row until its audit is complete; that guard is in `ApplyAudit`.

Properties (all in the module, each with the hazard it is about):
`ClaimDiscipline` (the row lock or the tokens, never both, never neither, from
the comment on `commitDbSuccessAndFanOut`), `OneRequestPerDispatch`,
`RequestsWithinCap`, `NothingBeforeManagerDb`, `SucceededEverywhere`,
`StatusAgrees` (the row's status says of its dispatches what an operator reads
from it: a soft failure leaves one to try and none in flight, a hard one has
settled everything), `TerminalIsFinal`, `SettledDispatchIsFinal`, `AttemptEnds`,
and `ContractSpec`.  `RetryFindsNothingQueued` (why the branch that promotes a
queued sibling after a retry, which nobody would then run, is never taken) is
proved and not run.

`AttemptContract` is what an operator and the upstream services rely on:
requests for a dispatch never overlap, stay within the cap and follow the
manager database; success means that everything landed; a soft failure leaves
something to try; an expired attempt sent nothing.  The refinement maps the
attempt's status to the row's and the set `air` to the dispatches some call is
waiting for.

The passing runs have at most one retry at a time.  With two, `CapHardLocks`
and `SettledDispatchIsFinal` fail, which is a finding and not a choice of the
model (see below).  What is proved of this module holds for any number of
confirms and retries; the properties that are not proved are those for which
that bound matters, or whose proof is in the plan.

### ApplyAudit

`slot` and `completed` are the two timestamps, `audits` the number of rows in
the audit database, `won` a history variable.  `Insert` has four outcomes:
refused as a duplicate, landed, landed with a lost answer, not landed.  Marking
and releasing may fail, which the code swallows.  A wrapper is the end of a
confirm or retry that returns a succeeded row; a sweep goes through select,
claim, record, mark and purge.  Actors die at any step.

The three clocks are flags: `slotAged` and `wonAged` (older than
`APPLY_EXECUTING_STALE_MS`), `overdue` (retention).  Retention is assumed to be
longer than the staleness threshold (7 days against 2.5 hours), hence `overdue`
only after `wonAged`.

`lib/node/apply-attempt-cleanup.ts` says around line 650 that only the claimant
marks a slot; the sweep also marks slots that a dead wrapper claimed, and the
model does as the code does.

### BaselineCadence

An event is its rank in the upstream list, a cursor the rank of the last event
read.  `upstream` only grows, at its end: that is an assumption on review-web.
Where it fails, an event stored behind a passed cursor is never listed again,
which no module here covers.  A transaction's writes are applied at its COMMIT;
a run keeps `next` (`nextStartCursor`), `first` and `pages` between pages, as
the code's local variables do.  `FailPage` covers a failing fetch, a failing
statement and a COMMIT that took effect while its answer was lost.

Scoring, normalisation and the story step inside the page's transaction are
left out: they decide which rows are written, not whether the page commits.
`markRunning` is left out because it is invisible: it runs inside the page's
transaction, and `markOk` or the ROLLBACK replaces it before anyone can read
it.  (The comment at `cadence.ts:115` expects a crash to leave `running` as a
breadcrumb; it does not.)  A run aborted before its first page returns `ok`,
although `cadence.ts:110` says that `ok` means at least one committed page.

### ExclusionCleanup

One exclusion, of one customer or global, and one customer's corpus, reduced to
the rows that match it, in one table.  Writers are cadence pages and rebuilds:
lock, resolve the active exclusions, commit.  A cadence page adds rows
(`CommitCadence`); a rebuild deletes the rows of its window and puts back what
still qualifies, in one transaction (`CommitRebuild`; a row put back is another
tuple, which a DELETE that selected the old one does not remove).  `Retention`
deletes old rows and takes no lock.  `SelectBatch` and `DeleteBatch` are one
DELETE of the code: under READ COMMITTED it selects up to `BatchSize` row
identifiers and then removes those still there.  Cleaners are the route and the
workers; the first batch runs under the lock, the rest do not, so that another
drain, a rebuild or retention may remove rows between the two steps.

The queue has its statuses and a saturating `attempts`; `due` is
`next_attempt_at <= NOW()`.  `SweepStuckJobs` needs an age of ten minutes in the
code, which does not tell a worker that is gone from one that is slow: here it
may take a running job at any time, so two workers may drain one job.  Operators
may recover a job while its worker is still in its last steps.  Processes die,
statements fail and the audit database is out of reach at any step.

The end of a drain is where this protocol is weak.  A DELETE that finds some of
its rows gone removes fewer than `BatchSize`, and the code reads that as "the
predicate is exhausted" (`retroactive-delete.ts:376`, the test at `:448`): the
drain stops with rows left and finalizes the job as completed.  No second drain
is needed.  A single one that has selected a batch when a rebuild commits the
DELETE of its window, or retention that of an old row, ends in the same way, and
then nothing else works on the rows that are left.  `robbed` is the history
variable that says that this happened, and `CompletedMeansClean` and
`EnforcedOrFailed` except it by name: what they say is conditional on it.  They
still speak of every other way to go wrong: writers that resolved before the
exclusion was added, crashes, errors, stuck-job sweeps, recoveries, and drains,
rebuilds and retention that overlap without taking rows of a selected batch.

The exception takes a row more than the batch that is lost.  The
configuration `MCExclusionCleanupOverlap.cfg` (one writer, one worker, three rows,
no recovery) of `MCExclusionCleanup` checks the comment as the invariant
`PartialBatchExhausts`, and TLC refutes it with one drain and no other, in a trace
of 6 states: the exclusion is added with its first batch, `CheckExclusion`,
`SelectBatch`, `Retention` deletes the row, `DeleteBatch` removes none and the
route answers 201 with a matching row left.  With a rebuild
(`OpenWriter`, `ResolveExclusions`, `CommitRebuild`) in place of retention it is 8
states.  It is kept beside the listed runs.

That the catch of `runFanoutSweep` returns a finished job to the queue costs work
and attempts, not correctness (see Observations).

Left out: the writers of corpus B, which do not take the lock (`PolicyRun`), the
withdraw notices a batch enqueues (`BaselinePush`), and which rows match.

### TenantPool

A session is a cadence pass, a rebuild or an adder of an exclusion (the route
and the fan-out worker).  Each keeps one connection of the pool; a writer that
has the lock needs another one for the statement that reads the active
exclusions, an adder keeps its connection while it blocks on the lock.  The use
of the second connection is one step: the statement needs nothing else and
returns it.  The pool waits without a timeout, the database too.

### PushTransport and BaselinePush

aice-web-next may not call aimer-web, so a browser tab carries the batches: it
asks `next-batch`, posts what it gets to aimer-web, and reports the outcome with
its next request.  `PushTransport` is that loop (`transport.client.ts`,
`drainOpportunisticPushQueue`) with the wire and the receiver; `BaselinePush`
extends it with the server's handler and the writers of the corpus.

A row is a version of its key, odd when it exists and even when it does not, so
that a deletion, a rebuilt score and an insert after a deletion are all changes
of one number.  An envelope is a set of such pairs.  "insert" leaves a row
aimer-web already has (the streaming slice), "set" replaces what it has (a
withdrawal, a window).  A batch a tab gives up is lost or goes to `late`, from
where it may arrive at any later time.  That covers a lost answer, a duplicate
and a reordering.

`next-batch` is four steps, as it is in the code: the transaction that settles
the outcome (`CommitOnAck`, `RecordOnFail`), the check of the pause switch, the
reads of the cursor and the pending notices (`Claim`, after
`pruneExpiredInflight`), and the read of the rows and the mint (`EmitNotices`,
`EmitSlice`).  Between them other tabs and writers act.  The writers are the
cadence, a transaction of the retroactive delete (two statements, hence up to two
withdrawals), the Force Rebuild of a window and the operator's backfill; each
queues its notices in the transaction that changes the rows.

`Floor` is the cursor a row leaves behind once it has gone through a JavaScript
`Date`: a row between two milliseconds stays past its own cursor and is sent
again, on each drain until the cursor has passed a later row.  With `Page` 2 and
floors `<<0, 2>>` every slice that is not the last one leaves a cursor past its
first row; that is `SliceOutrunsFloor`, the premise of `EverythingIsTold`.
Without it (a slice whose rows share a millisecond, or one cut down to a single
row by the byte budget) the same slice is sent for ever and the rows behind it
never, see Observations.  `overtaken` names rows the cadence commits behind a row a
rebuild has put in before: the streaming cursor has passed them, and the code
relies on the order of commits (`state.ts:132`).  `crossed` says that something
was sent or queued out of order.  A batch is (`OutOfOrder`) when another one with
one of its rows may still arrive, when another tab has settled its notices since
they were claimed, or when it streams a row of a notice queued since the claim.
The tails of a window are (`TailsOutOfOrder`) when they are queued behind a newer
notice of their rows, or after another tab has settled the window.

Abstractions: one `baseline_version`; a payload's bytes are counted in rows; the
age of an in-flight record is left open for the records a tab still speaks for
(each such expiry is a fault), and records nobody can name again are forgotten at
once; which of several idle tabs starts a drain makes no difference, and a drain
that starts while another runs counts as a fault.

Properties: `NothingLost` (a version aimer-web has not heard is still past the
cursor or in a pending notice), `AckIsEarned`, `MirrorConverges` (in order,
aimer-web has every row that is not owed as the corpus has it), `EverythingIsTold`
(under `SliceOutrunsFloor`), and `AtLeastOnceHolds`, the refinement of
`AtLeastOnce`: rows change, versions that were made are told,
possibly more than once and out of order, and a row stops being owed only when its
newest version was told.

### StoryPush

The push of stories has the same transport, a cursor on `(created_at, id)`, a scan
for stragglers and marks of sending; the drain loop's counters are not repeated.
`created_at` is the start of the inserting transaction, and a cadence page, the
low-and-slow sweep and a rebuild commit in any order, so that a story may commit
behind the cursor.  That is what `loadStoryStragglerSlice` is for and what
`EveryStoryIsTold` checks.  A rebuild gives a story a new `story_id` (`gen`) and
copies the marks it has read when it began.

An analyst's send has a ledger row (`Mint`), which `AckManual` consumes; a batch of
a tab that holds the same story may be acknowledged before or after.
`MarksAreTrue` says that a mark means a delivery and that `send_count` counts each
delivery once; `AnalystKept` that the drain never takes a story from the analyst
who sent it.

### PolicyRun

The rows of `policy_triage_run` that one account has for one period, one set of
policies and one baseline version.  The fingerprint is reduced to whether its
exclusion set has one exclusion that comes and goes.  Events are in the order of
the event list, which grows while requests page through it; a page has one event.
A request resolves the active set (`Resolve`), finds an active run or claims a
slot (`FindActive`, `Claim`, whose conflict is the unique index), reads pages and
stages rows in its transaction, and flips the run to ready where it is still
computing (`FlipReady`); `CommitUnanswered` is a COMMIT whose answer is lost.

`Reap` has no age: any request may be slow.  `Prune` deletes a run past its
retention or of an account that is gone, and waits for rows that are not
committed, whose foreign key holds the run.

The exclusion is active before its cleanup is done: a global one from the COMMIT in
`auth_db` on, with nothing deleted yet, and a customer's own together with its first
batch (`AddExclusion` has both).  From then on `DeleteBatch` may delete any
matching rows that are committed, in any number of steps and from runs of any age,
until `EndCleanup`; `RemoveExclusion` does not stop a batch that is under way.
`draining` says that the cleanup may still delete.  How a cleanup proceeds and when
it is over is `ExclusionCleanup`; here it may end at any time, with rows left.
`seen` and `exposed` are history: what was listed when the last page was read, and
that the run had matching rows while a cleanup could delete.

A request that resolved the set without the exclusion may turn ready before, between
or after the batches.  Its run then keeps all matching rows, or loses some or all of
them: the code promises neither.  So `ReadyIsWhole` has three parts.  Of a run of the
set with the exclusion no event is missing and none is too much.  A run of the set
without it has at least the events the exclusion leaves, and no event that was not
listed.  And it lacks a matching event only if a cleanup was on while it had one.
`SlotIsFreed` says that a run under computation does not keep requests out of the
slot of the active exclusions for ever.

Left out: the gaps a rolled-back recompute leaves in the sequence, the condition
snapshots written beside a run, the send of a run.  No route calls
`runCorpusBTriage` or `recomputeCorpusBRun` yet; the model has them as the tests
use them.

## Runs

| run | instance | what it shows |
|---|---|---|
| `apply_attempt` | 2 confirms, 1 retry, one external service (3 dispatches), cap 2; 1 440 462 states | the safety properties under every interleaving, crash, deadline and sweep |
| `apply_contract` | 1 confirm, 1 retry, 3 dispatches, cap 2; 141 711 states | implements `AttemptContract`; ends while the sweep keeps running |
| `apply_retry_race` | 1 confirm, 2 retries | violation: `CapHardLocks` |
| `apply_audit` | 2 wrappers, 2 sweeps; 5 520 states | every success audited exactly once, and not removed before |
| `baseline_cadence` | 2 runs, pages of 1, 2 pages a run, 3 events; 11 449 states | no gap; every event ingested |
| `exclusion_cleanup` | 2 rows, batches of 1, 1 writer, 2 workers, 2 attempts, 1 recovery; 368 465 states | completed means clean; enforced or failed; both unless a DELETE was robbed |
| `tenant_pool` | pool of 4, 2 passes, 1 rebuild, 2 adders; 151 states | the lock keeps moving, every adder is served |
| `tenant_pool_full` | pool of 4, 1 pass, 1 rebuild, 3 adders | violation: `LockIsReleased` |
| `baseline_push` | 2 tabs, 2 rows of up to 3 versions, 2 notices, 1 fault; 778 884 states | nothing lost, acknowledgements earned, the mirror converges, everything told while slices outrun the floor, `AtLeastOnce` |
| `baseline_push_double_send` | 2 tabs, 2 rows of up to 2 versions, 1 notice, 1 fault | violation: `DoubleSendIsHarmless` |
| `story_push` | 2 tabs, 1 analyst, 2 stories, 3 transactions, 1 notice, 1 fault; 557 779 states | marks are true, the analyst's stay, every story told |
| `policy_run` | 2 requests, 3 events, cap of 2 pages, 3 runs, 1 change of the exclusion, cleanups in batches; 1 544 974 states | ready is whole, lineage, ended stays ended, the slot asked for is freed |

Why the bounds are enough:

* `apply_attempt`: calls act again and again (each returns to idle), so two
  confirms and a retry give every pairwise overlap of claims, and with the
  sweep every triple; three dispatches give a manager database, a sibling that
  can fail for good and one that cannot; cap 2 has a first attempt, a retry and
  a refused retry.  Confirms are symmetric.
* `apply_contract` keeps one confirm so that the liveness check stays small:
  two confirms race for the claim only, which `apply_attempt` covers.
* `apply_audit`: a wrapper acts once per call and is spent; the sweeps repeat
  for ever.
* `baseline_cadence`: three events and a cap of two pages make runs stop at the
  cap, take over each other's pages and move the watermark back.
* `exclusion_cleanup`: two rows and batches of one need a second batch, so the
  state between the locked batch and the drain exists, and two drains, a rebuild
  or retention can meet one in its batch; two attempts have a retry and a last
  attempt, `MaxCount` 2 saturates the count there.  A third row is what is left
  behind in the shortest traces of `MCExclusionCleanupOverlap.cfg`;
  `CompletedMeansClean` is proved for any number of rows and writers.
* `tenant_pool`: the passing instance is the largest for its pool size.
* `baseline_push`: three versions of a row are inserted, withdrawn or rescored,
  and inserted again; windows of two rows are cut in two, so that tails ride on a
  record; a withdrawal run of two meets `MaxPeek`.  One fault is one lost or late
  batch, one record that expires, one closed tab or one overlapping drain, and the
  drains go on for ever after it.  `Page` 2 is a premise and not only a size: no
  slice lies within one millisecond (`SliceOutrunsFloor`);
  `MCBaselinePushSameMillisecond.cfg` has the other case.  `MaxBatches` 1 makes
  each drain end at its limit and the next one continue.
* `story_push`: three transactions let one commit behind another that was pushed,
  with a rebuild of one of the two stories; two generations have one rebuild of a
  sent story.
* `policy_run`: three events against a cap of two pages make the cap fire exactly
  on the last page and with a page left; three runs have a recompute of a
  recompute; one change of the exclusion, from either start, with a cleanup that is
  still on or not.

The bounds `MaxVersion`, `MaxNotices`, `MaxFaults`, `MaxNow`, `MaxGen`,
`MaxMints`, `MaxRuns`, `MaxChanges`, `NumEvents`, `MaxRecovers`, `MaxCount` and
`MaxEvents` exist for TLC only; `Page`, `PageCap`, `MaxPages`, `BatchSize`,
`MaxAttempts`, `MaxBatches`, `Retries`, `MaxPeek`, `QueueRows` and `WindowRows` are
the code's limits at small values.

Deadlock is not checked where the modelled system really may stop: an attempt
that is gone with no call left, an audit that is complete with its row
removed, the standstill that `tenant_pool_full` shows, and runs that are all
pruned when no more may be created.

## Fairness

Each liveness property states what the code's scheduling provides, no more:

* `ApplyAttempt`: the database clock advances and the cleanup endpoint is called
  repeatedly (`docs/en/operations/node-management.md` asks deployments to
  schedule it).  Nothing is assumed of calls: each may crash or hang.
* `ApplyAudit`: time passes and the sweep runs; weak fairness on selecting and
  purging, strong fairness on claiming, on recording with success and on
  marking, because the sweep comes round again and an outage of the audit
  database ends at some time.
* `BaselineCadence`: the scheduler keeps starting runs (every 15 minutes), and a
  run that is opened again and again gets the lock, fetches and commits
  infinitely often if it can: aborts and failures do not last for ever.
* `ExclusionCleanup`: outages end (`<>[][~Outage]_vars`), the cron service calls
  the fan-out every minute (weak fairness of `SweepStuckJobs`, of the end of a
  backoff, and of some worker's claim), a statement that was begun finishes (weak
  fairness per cleaner, and per writer once it has the lock), and a worker that
  waits for the lock gets it, because PostgreSQL queues waiters (strong fairness
  of `TakeLock`).  Nothing is assumed of writers that have not begun, or of
  operators: nobody has to add, delete or recover.
* `TenantPool`: the pool serves its queue first in, first out and the database
  queues lock waiters, hence strong fairness on connecting and on the lock.
* `BaselinePush`, `StoryPush`: some open tab keeps working: weak fairness of the
  disjunction over all tabs of starting a drain, delivering a batch that is not
  given up, and serving a call.  No single tab has to stay open; faults are
  finitely many by their bound.  The properties assume that nobody pauses the
  push for ever.
* `PolicyRun`: the retention job keeps running and every run is old enough in
  time, weak fairness of `Reap` per run.  Nothing is assumed of requests.

## Theorems

All are proved by TLAPS for every value of the constants, from the named
assumptions in the modules only (disjoint sets of actors, positive sizes), and
the premise a theorem states itself: one retry at a time for the three
`OneRetry...` theorems, two free connections for `HolderMayResolve`.

* `ApplyAttemptProofs!TypeCorrect`: `TypeOK`.  One lemma per operation
  on `planned_dispatches` (what type it returns), then one case per action.  It
  says in particular that no operation writes a dispatch state or a row status
  that the table does not know, for any set of calls and services and any cap.
* `ApplyAttemptProofs!ClaimsKeepDiscipline`, `OneRequestAtATime` and
  `RetryRunsAlone`: `ClaimDiscipline`, `OneRequestPerDispatch` and
  `RetryFindsNothingQueued` for any number of
  confirms and retries.  `IInv` says what each call holds at each of its steps.
  A call under the row lock has the lock or finds the attempt over (`DriveInv`);
  a call in the fan-out has the dispatch's token, or finds it failed for good, or
  the attempt over (`FanInv`).  The difficult step is the UPDATE of `tryClaim`,
  which writes an image that may be older than the row.  `Phase` is the reason
  why that does no harm to the claims: before `MANAGER_DB` succeeds every other
  dispatch is queued and afterwards none is, a claim prepared on either side
  finds the row on the same side, and `ClaimVersusFan` says that the older image
  does not reopen a dispatch that an executor of an abandoned fan-out still runs.
  (What the older image does to a sibling's count is finding 1.)
* `ApplyAttemptProofs!OutcomeStands`: `TerminalIsFinal`, from the same invariant:
  a terminal row has no lock and no tokens, so every guarded UPDATE misses it.
* `ApplyAttemptProofs!ManagerDbFirst` and `SuccessIsReal`:
  `NothingBeforeManagerDb` and
  `SucceededEverywhere`.  Every image of `planned_dispatches`, in the row or in
  a call, old or new, reports as succeeded only what took effect, because effects
  are never undone; and a row succeeds only from an image with nothing queued or
  in flight, which `IInv` provides.
* `ApplyAttemptProofs!StatusIsTold`: `StatusAgrees`.  `Open`: no image of
  `planned_dispatches`, in the row or in a call's hands, has a retryable dispatch
  without an attempt left.  A result is judged by the count in the call's own image;
  under the row lock that image is what the row will hold, and in the fan-out its
  count is the row's as long as the call has the token (`FanCounts`).  Every status
  a call writes is `Aggregate` of an image with nothing queued or in flight.  A row
  nobody claimed yet has no call (`NeverRan`), which is why an expired one never
  sent a request.
* `ApplyAttemptProofs!OneRetryKeepsCap` and `OneRetryKeepsResults`:
  `RequestsWithinCap` and `SettledDispatchIsFinal` for any number of confirms,
  services and crashes, any cap, and at most one retry at a time (`OneRetry`).  The
  premise is tight: `apply_retry_race` has two retries and breaks the cap (finding
  1).  Only a claim writes an image it did not read under the claim.  A confirm
  writes the plan over the plan; a retry that runs alone finds the row it read
  (`ClaimFresh`).  Hence no count is ever lowered (`Steady`), a call that is ready
  to send was counted and has not sent (`ReadyInv`), and the requests sent of a
  dispatch never outrun its count (`Within`, `Counted`).
* `ApplyAttemptProofs!OneRetryKeepsContract`: `ContractSpec`, the refinement of
  `AttemptContract`, under the same premise.  Two more facts are needed: nobody
  runs a dispatch of a row that succeeded or went stale (`Quiet`), and a row goes
  stale before `MANAGER_DB` is called (`StaleBeforeDb`).  `StartDispatch` is `Send`;
  a result that comes back, or a server that dies with its requests, is `Answer`;
  a step that changes the status is the action of that status (`MoveContract`); every
  other step stutters.
* `ApplyAuditProofs!AuditTyped`, `AuditedOnce`, `CompletionIsDurable`,
  `NoUnauditedRemoval` and `WrappersTakeTurns`: `TypeOK`, `AuditedAtMostOnce`,
  `CompletedIsDurable`, `NeverRemovedUnaudited` and `OneWrapperAtATime` for any
  number of wrappers and sweeps.  None is inductive.  `IInv` adds that a slot is
  only set on a row that won, that whoever is about to mark has seen the audit row,
  and that a wrapper between its claim and its release finds its slot still
  set.  The last two are the reason for the protocol's safety: marks follow the
  audit row, and a release is never applied to somebody else's claim.  Sweeps do
  not release at all, which is what makes `OneWrapperAtATime` inductive.
* `BaselineCadenceProofs!CadenceTyped` and `CadenceLeavesNoGap`: `TypeOK` and
  `NoGap` for any number of
  runs, any page size and any page cap.  `NoGap` alone is not inductive, because
  a run commits a page it fetched from a cursor another run has passed.
  `RunInv` says of each run in a page that its cursor is covered (every event up
  to it is in the corpus) and that its page reaches from that cursor to its end.
  It is stable because the corpus only grows, although the watermark may move
  back.
* `ExclusionCleanupProofs!CleanupTyped` and `CleanupIsComplete`: `TypeOK` and
  `CompletedMeansClean` for any number of writers and workers, any corpus, batch
  size, cap of attempts and number of recoveries, with rebuilds and retention that
  delete rows at any time, unless a DELETE was robbed of rows of its batch.  The
  invariant has four ideas.  `BeforeInv`: nothing is queued or cleaned before the
  exclusion is there.  `FreshInv`: whoever cleans has had the lock after the
  exclusion was added, or added it under the lock, and at that moment no writer
  held it; so a writer that has resolved since then sees the exclusion, and the
  corpus only shrinks: a rebuild deletes rows and puts none back.  `BatchInv`: a
  selected batch that is not full holds every row there is, and goes on doing so,
  also when others delete rows of it.  `CleanInv`: hence the DELETE of such a
  batch leaves nothing, and a DELETE of a full batch that removes too few has been
  robbed.  `MootInv` covers the other way to complete a job, an exclusion that is
  gone.  `CleanerStep` says once what a cleaner's step has to keep; each action is
  an instance of it.
* `TenantPoolProofs!PoolTyped`: `TypeOK`, the pool's capacity among it.
* `TenantPoolProofs!HolderMayResolve`: if the adders leave two connections
  (`Cardinality(Adders) + 2 <= PoolSize`), then whoever has the lock finds room
  in the pool or another writer is about to return its connection.  The
  argument counts: a holder that finds the pool full shares it with at most
  `PoolSize - 2` adders, so some connection is another writer's, and that one
  is at its `TryLock`.  The premise is tight: `tenant_pool_full` has one adder
  more.
* `BaselinePushProofs!PushTyped`, `PushLosesNothing` and `PushAcksAreEarned`:
  `TypeOK`, `NothingLost` and `AckIsEarned` for any number of tabs, rows, versions,
  notices and faults and any page and window sizes.  The argument follows a version
  from its writer to aimer-web.  `Cover`: it was heard, lies past the cursor, or is
  in a pending notice.  `Earned`: what the record of a batch will settle is on the
  wire with the batch, was heard before, or is in a tail (`Settles`), and the rows
  its cursor will pass are on the wire or in a notice (`Streams`).  `Ahead`: a
  cursor never stands beyond every row there is, which is why a row the cadence
  puts in last is past every cursor; that is where `overtaken` is needed.
  `WindowsCover` says that the parts of a window leave no row out.
* `BaselinePushProofs!PushKeepsItsPromise`: `AtLeastOnceHolds`, the
  refinement of `AtLeastOnce`, from the same invariant and two more facts:
  what was told, is on the wire or in the queue is never newer than the corpus
  (`OldInv`), so a change of a row is a version aimer-web has not heard, which
  `NothingLost` says is owed; and the tails of a record are parts of the one
  window it names (`TailInv`), so settling it adds nothing to what is owed.
  Every writer is `Make`, a batch that arrives `Tell`, an acknowledgement
  `Settle` (or `Offer`, when another tab had settled the window before), and
  everything else stutters.
* `BaselinePushProofs!PushMirrorsInOrder`: `MirrorConverges` for any number of
  tabs, rows, notices and faults.  The property speaks of the rows that are not
  owed; a step that settles a row needs to know what the rows still owed will come
  to, so it is far from inductive.  `MirrorInv` says, beside the invariants above:
  * `QueueInv`, always: a notice names a row once, and a batch has settled the
    oldest pending notices, one window or withdrawals only (`InOrder`).
  * `InStep`, while nothing is crossed.  `OneBatch`: of the batches on the wire or
    given up, one at most carries a row.  `Settled`: the newest pending notice of a
    row says what the corpus has; where there is none, and the row is not past the
    cursor, whatever aimer-web may come to have, once the batches under way arrive
    or are lost, is right.  `Brings`: a batch that settles the last notices of a row
    brings what the newest of them says, or has it in a tail; and the rows its
    cursor will pass arrive as the corpus has them.

  Each step is one of: a writer's, which leaves a newest notice; a batch's arrival
  or loss, which chooses among what was possible; an acknowledgement, where
  `Brings` becomes `Settled`; and a batch made, where `InOrder` gives `Brings`.
  The proof corrected the model: the tails queued a second time did
  not count as out of order, and the invariant failed at that step.  With three
  batches and three notices TLC has the trace, which the bounds of `baseline_push`
  do not reach.
* `PolicyRunProofs!PolicyTyped`, `ReadyRunsAreWhole`, `LineageAgrees` and
  `EndedRunsStayEnded`: `TypeOK`, `ReadyIsWhole`, `LineageIsTwoWay` and
  `TerminalStays` for any number of requests, runs and events, and a cleanup in
  any number of batches.  `ReadyIsWhole` is not an equality for a run a cleanup
  met: what is proved of it then is that it has every event the exclusion leaves
  and none beyond its own set.  `RunInv` joins the properties with `Fresh` (ids
  that were not created yet stand for nothing) and `Marked` (while a cleanup may
  delete, every run with a matching row is `exposed`, so a batch takes rows of no
  other).  `Held` says what a request knows of its run while it may be reaped,
  superseded or deleted: it names a run that was created, it has read to the end
  of what it saw, and as long as the run is still computing, the run's exclusion
  set is the one the request filters with.
* `StoryPushProofs!StoryTyped`, `MarksStayTrue` and `AnalystIsKept`: `TypeOK`,
  `MarksAreTrue` and `AnalystKept` for any number of stories, tabs, analysts,
  transactions and faults.  `MarksAreTrue` speaks of the rows; the invariant says
  the same (`Fair`) of the marks an open rebuild has read, and that is what lets
  it copy them later: what aimer-web was told and the ledger rows consumed only
  grow.  `Landed`: an acknowledgement is reported after its batch arrived.
  `Ledgers`: the ledger rows that are open are mints not consumed yet, hence no
  story is counted more often than it was sent by hand.  `Clock`: only the seeding
  of the stream takes the clock to its bound.

Every invariant, action property and refinement a passing run checks is stated by
one of these theorems, some with a premise the entry names.  Checked by TLC only:
liveness, because fairness and `ENABLED` are beyond the provers.

## Findings

Each is a run whose property quotes the repository and is violated by a model
of its code; `PROJECT.json` has the quotations.

1. `apply_retry_race`: `tryClaim` computes `planned_dispatches` from its SELECT
   and its UPDATE does not compare it.  A retry whose SELECT precedes another
   complete retry writes the older image back, and a dispatch that reached its
   cap, or succeeded, is open again.
2. `tenant_pool_full`: exclusion requests that wait for the lock can take every
   other connection of the customer's pool while the pass that has the lock
   waits for one.
3. `baseline_push_double_send`: a slice read by one tab arrives after another tab
   delivered the withdrawal of one of its rows; aimer-web keeps a row the corpus
   no longer has, and nothing withdraws it again.

## Observations

What reading and modelling met and no property forbids.  Either nothing in the
repository promises the opposite, or the promise is outside what is modelled.

Exclusions:

* A request that adds a customer's exclusion and dies between its COMMIT and the
  end of its drain leaves matching rows; nothing records the rest, so they stay
  until the exclusion is added again or the window rebuilt
  (`retroactive-delete.ts:482`; the route records a drain failure only when it
  lives to catch one).
* A drain may stop early and count as complete.  Its DELETE finds rows of its batch
  gone, removes fewer than the batch size and takes that for the end
  (`retroactive-delete.ts:448`; `:376` says "A partial batch means the predicate is
  exhausted"); the job is then completed, or the request answered 201, with matching
  rows in the corpus.  The rows may have been taken by a Force Rebuild, whose DELETE
  of a window (`rebuild.ts:491-515`) overlaps the later batches of a single drain, by
  retention (`retention.ts:78`), or by another drain: two workers at one job when the
  first is slow (`fanout-worker.ts:97`), a recovery while a worker or the route is
  still at it, or two exclusions that match the same rows.  Only in the last case may
  somebody else still remove the rest.  `MCExclusionCleanupOverlap.cfg` shows it with
  a single drain; it disagrees with the comment in the code, and the properties of
  `exclusion_cleanup` except it.
* The catch of `runFanoutSweep` reschedules a job that was already finalized as
  completed or failed when its audit row cannot be written, beyond `MAX_ATTEMPTS`
  too (`fanout-worker.ts:598`).

Cadence:

* A run that loses and regains the lock between two pages goes on from its own
  cursor: pages are ingested twice (the INSERTs are `ON CONFLICT DO NOTHING`) and
  the watermark moves back.  `NoGap` is proved nevertheless.
* The comment at `cadence.ts:115` expects a crash to leave `running` as a
  breadcrumb; the marker is rolled back with the page.

Push:

* A rebuild may commit rows ahead of the cadence; rows the cadence then commits
  behind the streaming cursor are not streamed (`state.ts:132`, `overtaken`).
* The tails of a window are queued at the end, behind newer notices of the same
  rows; and `commitOnAck` queues them whether or not `markAcked` found the window
  still pending, so two tabs that send one window queue its tails twice, the second
  time possibly after what came later was delivered (`state.ts:867`, `crossed`).
* A notice that aimer-web refuses for ever stays at the head of its queue and holds
  up everything behind it (`state.ts:464`).
* The cursor loses the microseconds (`state.ts:200`), so a row whose time is not a whole
  millisecond stays past the cursor it leaves.  The newest such row is sent again on
  every drain until a later one comes.  If all rows of a slice share its millisecond,
  or the byte budget cuts the slice down to one such row, the next slice is the same
  one, and nothing behind it is ever streamed, until a notice or a rebuild speaks of
  it.  `baseline-push.ts:312-314` says of that row that the byte cap is "never a
  deadlock" and "The next loop iteration will advance past it".
  `MCBaselinePushSameMillisecond.cfg` (`Page` 1, one tab, no fault) checks this as
  `NeverADeadlock`, without the premise of `EverythingIsTold`; TLC refutes it under
  `FairSpec` with a lasso of 14 states.
* Where the RFC expects the baseline stream to begin at its activation (RFC 0002,
  line 599), a NULL baseline cursor streams everything.

Stories:

* The rebuild reads the marks in one statement and deletes the rows in a later one:
  a mark set between them is lost (`story/rebuild.ts:279`;
  `docs/en/operations/triage-story-rebuild.md:85` says that it is carried over).
  The model has the trace.
* A backfill queued before a Force Rebuild is sent after its refresh window, with
  the stories that were replaced (`story/next-batch/route.ts:75`).
* A manual acknowledgement after a rebuild finds no story and is refused.
* The low-and-slow stories a rebuild deletes are derived again by nothing
  (`lowslow-sweep.ts:68-77`).
* A story begun before the activation and committed after it is never streamed.
* Nothing produces a `withdraw_story` notice.

Policy runs:

* A ready run is reused for its fingerprint although an exclusion that was added
  and removed since has deleted rows of it (`repository.ts:108`).
* An exclusion added between a request's resolve and its COMMIT races with the run,
  whose fingerprint is the set before: rows it matches stay in the run if the cleanup
  was over before the COMMIT, and are deleted from it, all or some, if a batch comes
  after it (`runner.ts:215`, `retroactive-delete.ts:498-503`).  Neither `ready` nor the
  fingerprint tells the two apart.
* A COMMIT whose answer is lost reports a failure of a run that is ready.
* A condition snapshot may be swept before the run or page that refers to it
  commits (`snapshot/retention.ts:23`).

## Plan

Done, in this order: `ApplyAttempt` with `AttemptContract`, `ApplyAudit`,
`BaselineCadence`, `ExclusionCleanup`, `TenantPool`, `PushTransport` and
`BaselinePush` with `AtLeastOnce`, `StoryPush`, `PolicyRun`.

Left, in this order:

1. `LowSlow`: the finalization watermark of stories against late pages and the
   sweep's horizon; `Dispatcher` with its worker loop and deadlines.
2. `SignIn`, `MfaChallenge`, `Session`: the counters and one-time tokens that
   are read and written in separate statements.
3. The policy kinds of the push, and the send of a run whose rows an exclusion
   removes meanwhile.
4. `Migrations` and the customer lifecycle, with the customers that are inactive
   when a global exclusion is queued.
5. Pure functions (`backoffMs`, the exclusion fingerprint) as operators against
   reference definitions.

Compositions: `ApplyAttempt` and `ApplyAudit` over one row, so that the guard on
retention is in the full lifecycle; `ExclusionCleanup` with the cadence of
`BaselineCadence` as its writer.

Theorems: those of the modules to come; the safety of the present ones is proved.

If the drain ended on a SELECT that finds no row, and not on a DELETE that removes
few, `robbed` and the exceptions that name it could go from `ExclusionCleanup`, and
its two properties would be unconditional.

## Not modelled

* Low-and-slow sweep, dispatcher loop, sign-in, MFA, sessions, migrations and the
  customer lifecycle: planned above.
* Signing keys and the rate limiter: a file and the memory of one process; late, if
  at all.
* Matching, fingerprints, scoring, correlation rules, CIDR, password and TOTP rules:
  pure functions on strings, addresses and numbers, whose results the models take
  as choices.
* Roles, permissions and customer scope: single-statement CRUD and checks of one
  request.
* Engagement, snapshots, tier-2 cache: append-only or idempotent writes.
* Detection, events, dashboard, GraphQL client, user interface: queries, URL state,
  rendering and I/O.  They are most of the repository's lines, and keep no state
  that two actors share.
