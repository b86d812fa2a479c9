-------------------------- MODULE PolicyRunProofs --------------------------
(***************************************************************************)
(* The safety of the policy runs for any number of requests, runs, events   *)
(* and exclusions.  A request keeps an id and an exclusion set from its     *)
(* claim to its COMMIT while its run may be reaped, superseded or deleted;  *)
(* the invariant says what that id still stands for.                        *)
(***************************************************************************)
EXTENDS PolicyRun, TLAPS

Busy == {"paging", "read", "failing"}

\* No row, and no link from it.
Unused(r) == r.status = "none" /\ r.replaces = 0 /\ r.supersededBy = 0

\* The ids after the last one created stand for nothing.
Fresh == \A i \in Ids : i > created => Unused(run[i])

\* A cleanup may delete from the runs that are marked for it only.
Marked ==
  draining => \A i \in Ids : run[i].rows \cap Excluded # {} => run[i].exposed

RunsTyped == run \in [Ids -> Run] /\ created \in 0..MaxRuns

RunInv == RunsTyped /\ Fresh /\ Marked /\ ReadyIsWhole /\ LineageIsTwoWay

\* A request names a run that was created; what it will commit is what that
\* run promises, if the run is still there to take it.
Held(r, runs, n) ==
  /\ r.pc \in Busy => r.id \in 1..n
  /\ r.pc = "read" => r.after = r.seen
  /\ r.pc \in {"paging", "read"} /\ runs[r.id].status = "computing"
     => runs[r.id].excl = r.excl

RequestInv ==
  /\ request \in [Requests -> Request]
  /\ \A q \in Requests : Held(request[q], run, created)

ExclusionTyped ==
  excluding \in BOOLEAN /\ draining \in BOOLEAN /\ changes \in 0..MaxChanges

IInv == RunInv /\ RequestInv /\ ExclusionTyped

-----------------------------------------------------------------------------
(* Records keep their types when fields are set. *)

LEMMA NoRunTyped == NoRun \in Run
BY PolicyRunAssumption DEF NoRun, Run

LEMMA IdleTyped == Idle \in Request
BY PolicyRunAssumption DEF Idle, Request

LEMMA ComputingTyped ==
  ASSUME NEW excl \in BOOLEAN, NEW old \in 0..MaxRuns
  PROVE  Computing(excl, old) \in Run
<1> DEFINE r1 == [NoRun EXCEPT !.status = "computing"]
           r2 == [r1 EXCEPT !.excl = excl]
           r3 == [r2 EXCEPT !.replaces = old]
<1>1. r1 \in Run
    BY NoRunTyped DEF Run, Active
<1> HIDE DEF r1
<1>2. r2 \in Run
    BY <1>1 DEF Run
<1> HIDE DEF r2
<1>3. r3 \in Run
    BY <1>2 DEF Run
<1>4. QED
    BY <1>3 DEF r1, r2, Computing

\* The fields of a claimed run.
LEMMA ComputingFields ==
  ASSUME NEW excl \in BOOLEAN, NEW old \in 0..MaxRuns
  PROVE  /\ Computing(excl, old).status = "computing"
         /\ Computing(excl, old).excl = excl
         /\ Computing(excl, old).rows = {}
         /\ Computing(excl, old).replaces = old
         /\ Computing(excl, old).supersededBy = 0
BY DEF Computing, NoRun

LEMMA SupersededTyped ==
  ASSUME NEW r \in Run, NEW new \in 0..MaxRuns
  PROVE  [r EXCEPT !.status = "superseded", !.supersededBy = new] \in Run
<1> DEFINE r1 == [r EXCEPT !.status = "superseded"]
<1>1. r1 \in Run
    BY DEF Run, Terminal
<1> HIDE DEF r1
<1>2. [r1 EXCEPT !.supersededBy = new] \in Run
    BY <1>1 DEF Run
<1>3. QED
    BY <1>2 DEF r1

LEMMA FilledTyped ==
  ASSUME NEW r \in Run, NEW rows \in SUBSET Events, NEW n \in 0..NumEvents,
         NEW x \in BOOLEAN
  PROVE  [r EXCEPT !.status = "ready", !.rows = rows, !.seen = n, !.exposed = x] \in Run
<1> DEFINE r1 == [r EXCEPT !.status = "ready"]
           r2 == [r1 EXCEPT !.rows = rows]
           r3 == [r2 EXCEPT !.seen = n]
<1>1. r1 \in Run
    BY DEF Run, Active
<1> HIDE DEF r1
<1>2. r2 \in Run
    BY <1>1 DEF Run
<1> HIDE DEF r2
<1>3. r3 \in Run
    BY <1>2 DEF Run
<1> HIDE DEF r3
<1>4. [r3 EXCEPT !.exposed = x] \in Run
    BY <1>3 DEF Run
<1>5. QED
    BY <1>4 DEF r1, r2, r3

LEMMA FailedTyped == ASSUME NEW r \in Run PROVE [r EXCEPT !.status = "failed"] \in Run
BY DEF Run, Terminal

LEMMA CutTyped ==
  ASSUME NEW r \in Run, NEW rows \in SUBSET Events
  PROVE  [r EXCEPT !.rows = rows] \in Run
BY DEF Run

LEMMA ExposedTyped ==
  ASSUME NEW r \in Run, NEW x \in BOOLEAN
  PROVE  [r EXCEPT !.exposed = x] \in Run
BY DEF Run

LEMMA LinksTyped ==
  ASSUME NEW r \in Run, NEW a \in 0..MaxRuns, NEW b \in 0..MaxRuns
  PROVE  [r EXCEPT !.replaces = a, !.supersededBy = b] \in Run
<1> DEFINE r1 == [r EXCEPT !.replaces = a]
<1>1. r1 \in Run
    BY DEF Run
<1> HIDE DEF r1
<1>2. [r1 EXCEPT !.supersededBy = b] \in Run
    BY <1>1 DEF Run
<1>3. QED
    BY <1>2 DEF r1

LEMMA ResolvedTyped ==
  ASSUME NEW p \in {"resolved", "claim"}, NEW old \in 0..MaxRuns, NEW excl \in BOOLEAN
  PROVE  [Idle EXCEPT !.pc = p, !.old = old, !.excl = excl] \in Request
<1> DEFINE r1 == [Idle EXCEPT !.pc = p]
           r2 == [r1 EXCEPT !.old = old]
<1>1. r1 \in Request
    BY IdleTyped DEF Request
<1> HIDE DEF r1
<1>2. r2 \in Request
    BY <1>1 DEF Request
<1> HIDE DEF r2
<1>3. [r2 EXCEPT !.excl = excl] \in Request
    BY <1>2 DEF Request
<1>4. QED
    BY <1>3 DEF r1, r2

LEMMA ClaimedTyped ==
  ASSUME NEW excl \in BOOLEAN, NEW id \in 0..MaxRuns
  PROVE  [Idle EXCEPT !.pc = "paging", !.excl = excl, !.id = id] \in Request
<1> DEFINE r1 == [Idle EXCEPT !.pc = "paging"]
           r2 == [r1 EXCEPT !.excl = excl]
<1>1. r1 \in Request
    BY IdleTyped DEF Request
<1> HIDE DEF r1
<1>2. r2 \in Request
    BY <1>1 DEF Request
<1> HIDE DEF r2
<1>3. [r2 EXCEPT !.id = id] \in Request
    BY <1>2 DEF Request
<1>4. QED
    BY <1>3 DEF r1, r2

LEMMA FailingTyped ==
  ASSUME NEW q \in Requests, request[q] \in Request
  PROVE  Failing(q) \in Request
<1> DEFINE r1 == [Idle EXCEPT !.pc = "failing"]
<1>1. r1 \in Request
    BY IdleTyped DEF Request
<1>2. request[q].id \in 0..MaxRuns
    BY DEF Request
<1> HIDE DEF r1
<1>3. [r1 EXCEPT !.id = request[q].id] \in Request
    BY <1>1, <1>2 DEF Request
<1>4. QED
    BY <1>3 DEF r1, Failing

LEMMA ReadTyped ==
  ASSUME NEW r \in Request, NEW at \in 0..NumEvents, NEW n \in 0..NumEvents
  PROVE  /\ [r EXCEPT !.after = at] \in Request
         /\ [r EXCEPT !.pc = "read", !.after = at, !.seen = n] \in Request
         /\ [r EXCEPT !.pc = "claim"] \in Request
<1> DEFINE r1 == [r EXCEPT !.pc = "read"]
           r2 == [r1 EXCEPT !.after = at]
<1>1. r1 \in Request
    BY DEF Request
<1> HIDE DEF r1
<1>2. r2 \in Request
    BY <1>1 DEF Request
<1> HIDE DEF r2
<1>3. [r2 EXCEPT !.seen = n] \in Request
    BY <1>2 DEF Request
<1>4. [r EXCEPT !.after = at] \in Request
    BY DEF Request
<1>5. [r EXCEPT !.pc = "claim"] \in Request
    BY DEF Request
<1>6. QED
    BY <1>3, <1>4, <1>5 DEF r1, r2

LEMMA KeptTyped ==
  ASSUME NEW n \in 0..NumEvents, NEW excl
  PROVE  Kept(n, excl) \in SUBSET Events
BY PolicyRunAssumption DEF Kept, Events

-----------------------------------------------------------------------------
(* What a change of the runs keeps. *)

\* A run that takes a step from computing to failed.
LEMMA FailedKeeps ==
  ASSUME RunInv, NEW i \in Ids, run[i].status = "computing",
         run' = [run EXCEPT ![i].status = "failed"],
         created' = created, draining' = draining
  PROVE  /\ RunInv'
         /\ \A j \in Ids : run'[j].status = "computing" =>
                            run[j].status = "computing" /\ run'[j].excl = run[j].excl
<1> DEFINE r == [run[i] EXCEPT !.status = "failed"]
<1>1. run' = [run EXCEPT ![i] = r]
    BY Zenon
<1>2. r \in Run
    BY FailedTyped DEF RunInv, RunsTyped
<1>3. /\ r.status = "failed" /\ r.excl = run[i].excl /\ r.rows = run[i].rows
      /\ r.exposed = run[i].exposed /\ r.replaces = run[i].replaces
      /\ r.supersededBy = run[i].supersededBy
    BY DEF RunInv, RunsTyped, Run
<1> HIDE DEF r
<1>4. \A j \in Ids : run'[j] = IF j = i THEN r ELSE run[j]
    BY <1>1 DEF RunInv, RunsTyped
<1>5. RunsTyped'
    BY <1>1, <1>2 DEF RunInv, RunsTyped
<1>6. Fresh'
  <2>1. ~(i > created)
      BY DEF RunInv, Fresh, Unused
  <2>2. QED
      BY <1>3, <1>4, <2>1 DEF RunInv, Fresh, Unused
<1>7. Marked'
    BY <1>3, <1>4 DEF RunInv, Marked
<1>8. ReadyIsWhole'
    BY <1>3, <1>4 DEF RunInv, ReadyIsWhole, Whole
<1>9. LineageIsTwoWay'
    BY <1>3, <1>4 DEF RunInv, LineageIsTwoWay
<1>10. \A j \in Ids : run'[j].status = "computing" =>
                    run[j].status = "computing" /\ run'[j].excl = run[j].excl
    BY <1>3, <1>4
<1>11. QED
    BY <1>5, <1>6, <1>7, <1>8, <1>9, <1>10 DEF RunInv

\* A run that is filled by the request that computes it.
LEMMA FilledKeeps ==
  ASSUME RunInv, RequestInv, NEW q \in Requests, request[q].pc = "read",
         run[request[q].id].status = "computing", run' = Filled(q),
         created' = created, draining' = draining
  PROVE  /\ RunInv'
         /\ \A j \in Ids : run'[j].status = "computing" =>
                            run[j].status = "computing" /\ run'[j].excl = run[j].excl
<1> DEFINE i == request[q].id
           n == request[q].seen
           x == Staged(q)
           m == draining /\ x \cap Excluded # {}
           r == [run[i] EXCEPT !.status = "ready", !.rows = x, !.seen = n, !.exposed = m]
<1>1. /\ request[q] \in Request /\ i \in Ids /\ i <= created
      /\ request[q].after = n /\ run[i].excl = request[q].excl
  <2>1. request[q] \in Request /\ Held(request[q], run, created)
      BY DEF RequestInv
  <2>2. i \in 1..created /\ request[q].after = n /\ run[i].excl = request[q].excl
      BY <2>1 DEF Held, Busy
  <2>3. created \in 0..MaxRuns
      BY DEF RunInv, RunsTyped
  <2>4. i \in Ids /\ i <= created
      BY <2>2, <2>3, PolicyRunAssumption DEF Ids
  <2>5. QED
      BY <2>1, <2>2, <2>4
<1>2. n \in 0..NumEvents
    BY <1>1 DEF Request
<1>3. x = Kept(n, request[q].excl)
    BY <1>1 DEF Staged, InTransaction
<1>4. x \in SUBSET Events
    BY <1>2, <1>3, KeptTyped
<1>5. run' = [run EXCEPT ![i] = r]
    BY Zenon DEF Filled
<1>6. run[i] \in Run
    BY <1>1 DEF RunInv, RunsTyped
<1> HIDE DEF x
<1>7. r \in Run
  <2>1. m \in BOOLEAN
      OBVIOUS
  <2> HIDE DEF m
  <2>2. QED
      BY <1>2, <1>4, <1>6, <2>1, FilledTyped
<1>8. /\ r.status = "ready" /\ r.excl = run[i].excl /\ r.rows = x /\ r.seen = n
      /\ r.replaces = run[i].replaces /\ r.supersededBy = run[i].supersededBy
      /\ r.exposed = m
  <2> HIDE DEF m
  <2>1. QED
      BY <1>6 DEF Run
<1> HIDE DEF r
<1>9. \A j \in Ids : run'[j] = IF j = i THEN r ELSE run[j]
    BY <1>5 DEF RunInv, RunsTyped
<1>10. RunsTyped'
    BY <1>5, <1>7 DEF RunInv, RunsTyped
<1>11. Fresh'
    BY <1>1, <1>8, <1>9 DEF RunInv, RunsTyped, Fresh, Unused, Ids
<1>12. Marked'
    BY <1>8, <1>9 DEF RunInv, Marked
<1>13. ReadyIsWhole'
  <2>1. Kept(n, TRUE) \subseteq Kept(n, request[q].excl)
      BY DEF Kept
  <2>2. Whole(r)
      BY <1>1, <1>3, <1>8, <2>1 DEF Whole
  <2>3. QED
      BY <1>9, <2>2 DEF RunInv, ReadyIsWhole, Whole
<1>14. LineageIsTwoWay'
    BY <1>1, <1>8, <1>9 DEF RunInv, LineageIsTwoWay
<1>15. \A j \in Ids : run'[j].status = "computing" =>
                    run[j].status = "computing" /\ run'[j].excl = run[j].excl
    BY <1>8, <1>9
<1>16. QED
    BY <1>10, <1>11, <1>12, <1>13, <1>14, <1>15 DEF RunInv

\* A run that is deleted: the links to it go with it, so the two ends of the
\* others still name each other.
LEMMA PruneKeeps ==
  ASSUME RunInv, NEW i \in Ids, run' = Without(i),
         created' = created, draining' = draining
  PROVE  /\ RunInv'
         /\ \A j \in Ids : run'[j].status = "computing" =>
                            run[j].status = "computing" /\ run'[j].excl = run[j].excl
<1> DEFINE a(j) == IF run[j].replaces = i THEN 0 ELSE run[j].replaces
           b(j) == IF run[j].supersededBy = i THEN 0 ELSE run[j].supersededBy
           r(j) == [run[j] EXCEPT !.replaces = a(j), !.supersededBy = b(j)]
<1>1. \A j \in Ids : run[j] \in Run
    BY DEF RunInv, RunsTyped
<1>2. run' = [j \in Ids |-> IF j = i THEN NoRun ELSE r(j)]
    BY Zenon DEF Without
<1>3. ASSUME NEW j \in Ids
      PROVE  a(j) \in 0..MaxRuns /\ b(j) \in 0..MaxRuns
  <2>1. run[j].replaces \in 0..MaxRuns /\ run[j].supersededBy \in 0..MaxRuns
      BY <1>1 DEF Run
  <2>2. 0 \in 0..MaxRuns
      BY PolicyRunAssumption
  <2>3. QED
      BY <2>1, <2>2
<1>4. ASSUME NEW j \in Ids PROVE r(j) \in Run
  <2> DEFINE ra == a(j)
             rb == b(j)
  <2>1. ra \in 0..MaxRuns /\ rb \in 0..MaxRuns /\ run[j] \in Run
      BY <1>1, <1>3
  <2> HIDE DEF ra, rb
  <2>2. [run[j] EXCEPT !.replaces = ra, !.supersededBy = rb] \in Run
      BY <2>1, LinksTyped
  <2>3. QED
      BY <2>2 DEF ra, rb
<1>5. ASSUME NEW j \in Ids
      PROVE  /\ r(j).status = run[j].status /\ r(j).excl = run[j].excl
             /\ r(j).rows = run[j].rows /\ r(j).seen = run[j].seen
             /\ r(j).exposed = run[j].exposed
             /\ r(j).replaces = a(j) /\ r(j).supersededBy = b(j)
    BY <1>1 DEF Run
<1>6. NoRun.status = "none" /\ NoRun.rows = {} /\ NoRun.replaces = 0
      /\ NoRun.supersededBy = 0
    BY DEF NoRun
<1>7. ASSUME NEW j \in Ids, Unused(run[j]) PROVE Unused(r(j))
    BY <1>5, <1>7 DEF Unused
<1> HIDE DEF r
<1>8. \A j \in Ids : run'[j] = IF j = i THEN NoRun ELSE r(j)
    BY <1>2
<1>9. RunsTyped'
    BY <1>2, <1>4, NoRunTyped DEF RunInv, RunsTyped
<1>10. Fresh'
    BY <1>5, <1>6, <1>7, <1>8 DEF RunInv, Fresh, Unused
<1>11. Marked'
    BY <1>5, <1>6, <1>8 DEF RunInv, Marked
<1>12. ReadyIsWhole'
  <2> SUFFICES ASSUME NEW j \in Ids PROVE Whole(run'[j])
      BY DEF ReadyIsWhole, Whole, Kept
  <2>1. CASE j = i
      BY <1>6, <1>8, <2>1 DEF Whole
  <2>2. CASE j # i
    <3>1. /\ run'[j].status = run[j].status /\ run'[j].excl = run[j].excl
          /\ run'[j].rows = run[j].rows /\ run'[j].seen = run[j].seen
          /\ run'[j].exposed = run[j].exposed
        BY <1>5, <1>8, <2>2
    <3>2. Whole(run[j])
        BY DEF RunInv, ReadyIsWhole
    <3>3. QED
        BY <3>1, <3>2 DEF Whole
  <2>3. QED
      BY <2>1, <2>2
<1>13. LineageIsTwoWay'
  <2>1. \A j, k \in Ids :
          /\ run'[j].supersededBy = k <=> j # i /\ k # i /\ run[j].supersededBy = k
          /\ run'[k].replaces = j <=> j # i /\ k # i /\ run[k].replaces = j
      BY <1>5, <1>6, <1>8, PolicyRunAssumption DEF Ids
  <2>2. \A j \in Ids : j # i => run'[j].status = run[j].status
      BY <1>5, <1>8
  <2>3. QED
      BY <2>1, <2>2 DEF RunInv, LineageIsTwoWay
<1>14. \A j \in Ids : run'[j].status = "computing" =>
                    run[j].status = "computing" /\ run'[j].excl = run[j].excl
    BY <1>5, <1>6, <1>8
<1>15. QED
    BY <1>9, <1>10, <1>11, <1>12, <1>13, <1>14 DEF RunInv

\* A new run, and the one it supersedes: the ready run is nobody's other end yet.
LEMMA ClaimKeeps ==
  ASSUME RunInv, RequestInv, NEW q \in Requests, NEW old \in 0..MaxRuns, Claim(q, old)
  PROVE  /\ RunInv'
         /\ created' = created + 1 /\ created' \in Ids
         /\ \A j \in Ids : run'[j].status = "computing" =>
              IF j = created' THEN run'[j].excl = request[q].excl
              ELSE run[j].status = "computing" /\ run'[j].excl = run[j].excl
         /\ \A j \in 1..created :
              run[j].status \in Terminal \cup {"none"} => run'[j].status = run[j].status
<1> DEFINE new == created + 1
           c == Computing(request[q].excl, old)
           s == [run[old] EXCEPT !.status = "superseded", !.supersededBy = new]
<1>1. /\ created \in 0..MaxRuns /\ created < MaxRuns /\ created' = new
      /\ new \in Ids /\ new \in 0..MaxRuns /\ created + 1 > created
    BY PolicyRunAssumption DEF RunInv, RunsTyped, Claim, Ids
<1>2. request[q] \in Request /\ request[q].excl \in BOOLEAN /\ request[q].old = old
    BY DEF RequestInv, Request, Claim
<1>3. /\ c \in Run /\ c.status = "computing" /\ c.excl = request[q].excl /\ c.rows = {}
      /\ c.replaces = old /\ c.supersededBy = 0
  <2>1. c \in Run
      BY <1>2, ComputingTyped
  <2>2. /\ c.status = "computing" /\ c.excl = request[q].excl /\ c.rows = {}
        /\ c.replaces = old /\ c.supersededBy = 0
    <3> DEFINE e == request[q].excl
    <3>1. e \in BOOLEAN
        BY <1>2
    <3> HIDE DEF e
    <3>2. /\ Computing(e, old).status = "computing" /\ Computing(e, old).excl = e
          /\ Computing(e, old).rows = {} /\ Computing(e, old).replaces = old
          /\ Computing(e, old).supersededBy = 0
        BY <3>1, ComputingFields
    <3>3. QED
        BY <3>2 DEF e
  <2>3. QED
      BY <2>1, <2>2
<1>4. Unused(run[new])
    BY <1>1 DEF RunInv, Fresh
<1>5. old # 0 => /\ old \in Ids /\ old # new /\ old < new /\ run[old].status = "ready"
                 /\ run[old] \in Run
  <2> SUFFICES ASSUME old # 0
               PROVE  /\ old \in Ids /\ old # new /\ old < new /\ run[old].status = "ready"
                      /\ run[old] \in Run
      OBVIOUS
  <2>1. old \in Ids
      BY PolicyRunAssumption DEF Ids
  <2>2. run[old].status = "ready"
      BY <1>2 DEF Claim, Conflict
  <2>3. ~(old > created)
      BY <2>1, <2>2 DEF RunInv, Fresh, Unused
  <2>4. QED
      BY <1>1, <2>1, <2>2, <2>3 DEF RunInv, RunsTyped, Ids
<1>6. old # 0 =>
        /\ s \in Run /\ s.status = "superseded" /\ s.supersededBy = new
        /\ s.replaces = run[old].replaces /\ s.excl = run[old].excl
        /\ s.rows = run[old].rows /\ s.seen = run[old].seen
        /\ s.exposed = run[old].exposed
  <2> SUFFICES ASSUME run[old] \in Run
               PROVE  /\ s \in Run /\ s.status = "superseded" /\ s.supersededBy = new
                      /\ s.replaces = run[old].replaces /\ s.excl = run[old].excl
                      /\ s.rows = run[old].rows /\ s.seen = run[old].seen
                      /\ s.exposed = run[old].exposed
      BY <1>5
  <2>1. s \in Run
      BY <1>1, SupersededTyped
  <2>2. QED
      BY <2>1 DEF Run
<1>7. run' = [IF old = 0 THEN run ELSE [run EXCEPT ![old] = s] EXCEPT ![new] = c]
  <2>1. [run EXCEPT ![old].status = "superseded", ![old].supersededBy = new]
        = [run EXCEPT ![old] = s]
    <3>1. CASE old = 0
      <4>1. 0 \notin Ids
          BY DEF Ids
      <4>2. QED
          BY <3>1, <4>1 DEF RunInv, RunsTyped
    <3>2. CASE old # 0
        BY <1>5, <3>2 DEF RunInv, RunsTyped
    <3>3. QED
        BY <3>1, <3>2
  <2>2. QED
      BY <2>1 DEF Claim
<1> HIDE DEF c, s
<1>8. \A j \in Ids : run'[j] = IF j = new THEN c ELSE IF j = old THEN s ELSE run[j]
  <2>1. 0 \notin Ids
      BY DEF Ids
  <2>2. QED
      BY <1>1, <1>5, <1>7, <2>1 DEF RunInv, RunsTyped
<1>9. RunsTyped'
    BY <1>1, <1>3, <1>5, <1>6, <1>7 DEF RunInv, RunsTyped
<1>10. 0 \notin Ids
    BY DEF Ids
<1>11. Fresh'
  <2> SUFFICES ASSUME NEW j \in Ids
               PROVE  j > new => Unused(run'[j])
      BY <1>1 DEF Fresh, Unused
  <2>1. CASE j = new
      BY <1>3, <1>8, <2>1, <1>1
  <2>2. CASE j = old
    <3>1. old # 0 /\ old < new /\ old # new /\ s.status = "superseded"
        BY <1>5, <1>6, <1>10, <2>2
    <3>2. run'[j] = s
        BY <1>8, <2>2, <3>1
    <3>3. ~(j > new)
        BY <1>1, <2>2, <3>1
    <3>4. QED
        BY <3>1, <3>2, <3>3
  <2>3. CASE j # new /\ j # old
    <3>1. j > new => j > created
        BY <1>1 DEF Ids
    <3>2. QED
        BY <1>8, <2>3, <3>1 DEF RunInv, Fresh
  <2>4. QED
      BY <2>1, <2>2, <2>3
<1>12. Marked'
  <2>1. draining' = draining
      BY DEF Claim, exclusionVars
  <2> SUFFICES ASSUME draining, NEW j \in Ids, run'[j].rows \cap Excluded # {}
               PROVE  run'[j].exposed
      BY <2>1 DEF Marked
  <2>2. run[j].rows \cap Excluded # {} => run[j].exposed
      BY DEF RunInv, Marked
  <2>3. CASE j = new
      BY <1>3, <1>8, <2>3
  <2>4. CASE j # new /\ j = old
      BY <1>5, <1>6, <1>8, <1>10, <2>2, <2>4
  <2>5. CASE j # new /\ j # old
      BY <1>8, <2>2, <2>5
  <2>6. QED
      BY <2>3, <2>4, <2>5
<1>13. ReadyIsWhole'
  <2> SUFFICES ASSUME NEW j \in Ids PROVE Whole(run'[j])
      BY DEF ReadyIsWhole, Whole, Kept
  <2>1. Whole(run[j])
      BY DEF RunInv, ReadyIsWhole
  <2>2. CASE j = new
      BY <1>3, <1>8, <2>2 DEF Whole
  <2>3. CASE j # new /\ j = old
      BY <1>5, <1>6, <1>8, <1>10, <2>1, <2>3 DEF Whole
  <2>4. CASE j # new /\ j # old
      BY <1>8, <2>1, <2>4
  <2>5. QED
      BY <2>2, <2>3, <2>4
<1>14. LineageIsTwoWay'
  <2>1. \A j \in Ids : /\ run[new].supersededBy # j /\ run[new].replaces # j
                       /\ run[j].supersededBy # new /\ run[j].replaces # new
      BY <1>1, <1>4, <1>10 DEF Unused, RunInv, LineageIsTwoWay
  <2>2. old # 0 => \A j \in Ids : run[old].supersededBy # j /\ run[j].replaces # old
      BY <1>5 DEF RunInv, LineageIsTwoWay
  <2>3. \A j, k \in Ids :
          /\ run'[j].supersededBy = k <=> \/ j = old /\ k = new
                                         \/ run[j].supersededBy = k
          /\ run'[k].replaces = j <=> \/ j = old /\ k = new
                                     \/ run[k].replaces = j
    <3> SUFFICES ASSUME NEW j \in Ids, NEW k \in Ids
                 PROVE  /\ run'[j].supersededBy = k <=> \/ j = old /\ k = new
                                                       \/ run[j].supersededBy = k
                        /\ run'[k].replaces = j <=> \/ j = old /\ k = new
                                                   \/ run[k].replaces = j
        OBVIOUS
    <3>1. run'[j].supersededBy = k <=> \/ j = old /\ k = new
                                      \/ run[j].supersededBy = k
      <4>1. CASE j = new
          BY <1>1, <1>3, <1>5, <1>8, <1>10, <2>1, <4>1
      <4>2. CASE j # new /\ j = old
          BY <1>5, <1>6, <1>8, <1>10, <2>2, <4>2
      <4>3. CASE j # new /\ j # old
          BY <1>8, <4>3
      <4>4. QED
          BY <4>1, <4>2, <4>3
    <3>2. run'[k].replaces = j <=> \/ j = old /\ k = new
                                  \/ run[k].replaces = j
      <4>1. CASE k = new
          BY <1>3, <1>8, <2>1, <4>1
      <4>2. CASE k # new /\ k = old
          BY <1>5, <1>6, <1>8, <1>10, <4>2
      <4>3. CASE k # new /\ k # old
          BY <1>8, <4>3
      <4>4. QED
          BY <4>1, <4>2, <4>3
    <3>3. QED
        BY <3>1, <3>2
  <2>4. \A j \in Ids : run[j].status = "superseded" => run'[j].status = "superseded"
      BY <1>4, <1>5, <1>6, <1>8, <1>10 DEF Unused
  <2>5. old # 0 => run'[old].status = "superseded" /\ old < new
      BY <1>5, <1>6, <1>8
  <2>6. QED
      BY <1>10, <2>3, <2>4, <2>5 DEF RunInv, LineageIsTwoWay
<1>15. \A j \in Ids : run'[j].status = "computing" =>
         IF j = new THEN run'[j].excl = request[q].excl
         ELSE run[j].status = "computing" /\ run'[j].excl = run[j].excl
    BY <1>3, <1>5, <1>6, <1>8, <1>10
<1>16. \A j \in 1..created :
         run[j].status \in Terminal \cup {"none"} => run'[j].status = run[j].status
  <2> SUFFICES ASSUME NEW j \in 1..created, run[j].status \in Terminal \cup {"none"}
               PROVE  run'[j].status = run[j].status
      OBVIOUS
  <2>1. j \in Ids /\ j # new
      BY <1>1, PolicyRunAssumption DEF Ids
  <2>2. j # old
      BY <1>5, <2>1, <1>10 DEF Terminal
  <2>3. QED
      BY <1>8, <2>1, <2>2
<1>17. QED
    BY <1>1, <1>9, <1>11, <1>12, <1>13, <1>14, <1>15, <1>16 DEF RunInv

\* What marking the runs for a cleanup leaves as it was.
LEMMA ExposedRuns ==
  ASSUME RunInv
  PROVE  /\ Exposed \in [Ids -> Run]
         /\ \A j \in Ids :
              /\ Exposed[j].status = run[j].status /\ Exposed[j].excl = run[j].excl
              /\ Exposed[j].rows = run[j].rows /\ Exposed[j].seen = run[j].seen
              /\ Exposed[j].replaces = run[j].replaces
              /\ Exposed[j].supersededBy = run[j].supersededBy
              /\ Exposed[j].exposed
                   = (run[j].exposed \/ run[j].rows \cap Excluded # {})
<1> DEFINE x(j) == run[j].exposed \/ run[j].rows \cap Excluded # {}
           r(j) == [run[j] EXCEPT !.exposed = x(j)]
<1>1. Exposed = [j \in Ids |-> r(j)]
    BY Zenon DEF Exposed
<1>2. ASSUME NEW j \in Ids
      PROVE  /\ r(j) \in Run
             /\ r(j).status = run[j].status /\ r(j).excl = run[j].excl
             /\ r(j).rows = run[j].rows /\ r(j).seen = run[j].seen
             /\ r(j).replaces = run[j].replaces
             /\ r(j).supersededBy = run[j].supersededBy
             /\ r(j).exposed = x(j)
  <2> DEFINE rx == x(j)
  <2>1. rx \in BOOLEAN /\ run[j] \in Run
      BY DEF RunInv, RunsTyped, Run
  <2> HIDE DEF rx
  <2>2. [run[j] EXCEPT !.exposed = rx] \in Run
      BY <2>1, ExposedTyped
  <2>3. /\ [run[j] EXCEPT !.exposed = rx].status = run[j].status
        /\ [run[j] EXCEPT !.exposed = rx].excl = run[j].excl
        /\ [run[j] EXCEPT !.exposed = rx].rows = run[j].rows
        /\ [run[j] EXCEPT !.exposed = rx].seen = run[j].seen
        /\ [run[j] EXCEPT !.exposed = rx].replaces = run[j].replaces
        /\ [run[j] EXCEPT !.exposed = rx].supersededBy = run[j].supersededBy
        /\ [run[j] EXCEPT !.exposed = rx].exposed = rx
      BY <2>1 DEF Run
  <2>4. QED
      BY <2>2, <2>3 DEF rx
<1> HIDE DEF r
<1>3. QED
    BY <1>1, <1>2

\* A batch of a cleanup: runs is as the runs are, but marked for it.
LEMMA CutKeeps ==
  ASSUME RunInv, NEW runs \in [Ids -> Run], NEW B, run' = Cut(runs, B),
         created' = created,
         \A j \in Ids :
           /\ runs[j].status = run[j].status /\ runs[j].excl = run[j].excl
           /\ runs[j].rows = run[j].rows /\ runs[j].seen = run[j].seen
           /\ runs[j].replaces = run[j].replaces
           /\ runs[j].supersededBy = run[j].supersededBy
           /\ run[j].exposed => runs[j].exposed
           /\ run[j].rows \cap Excluded # {} => runs[j].exposed
  PROVE  /\ RunInv'
         /\ \A j \in Ids : run'[j].status = run[j].status /\ run'[j].excl = run[j].excl
<1> DEFINE x(j) == run[j].rows \ {e \in Excluded : <<j, e>> \in B}
           r(j) == [runs[j] EXCEPT !.rows = runs[j].rows \ {e \in Excluded : <<j, e>> \in B}]
<1>1. run' = [j \in Ids |-> r(j)]
    BY Zenon DEF Cut
<1>2. ASSUME NEW j \in Ids
      PROVE  /\ r(j) \in Run
             /\ r(j).status = run[j].status /\ r(j).excl = run[j].excl
             /\ r(j).rows = x(j) /\ r(j).seen = run[j].seen
             /\ r(j).replaces = run[j].replaces
             /\ r(j).supersededBy = run[j].supersededBy
             /\ r(j).exposed = runs[j].exposed
  <2> DEFINE rx == runs[j].rows \ {e \in Excluded : <<j, e>> \in B}
  <2>1. rx \in SUBSET Events /\ runs[j] \in Run /\ rx = x(j)
      BY DEF Run
  <2> HIDE DEF rx
  <2>2. [runs[j] EXCEPT !.rows = rx] \in Run
      BY <2>1, CutTyped
  <2>3. /\ [runs[j] EXCEPT !.rows = rx].status = runs[j].status
        /\ [runs[j] EXCEPT !.rows = rx].excl = runs[j].excl
        /\ [runs[j] EXCEPT !.rows = rx].rows = rx
        /\ [runs[j] EXCEPT !.rows = rx].seen = runs[j].seen
        /\ [runs[j] EXCEPT !.rows = rx].replaces = runs[j].replaces
        /\ [runs[j] EXCEPT !.rows = rx].supersededBy = runs[j].supersededBy
        /\ [runs[j] EXCEPT !.rows = rx].exposed = runs[j].exposed
      BY <2>1 DEF Run
  <2> HIDE DEF x
  <2>4. QED
      BY <2>1, <2>2, <2>3 DEF rx
<1> HIDE DEF r
<1>3. \A j \in Ids : run'[j] = r(j)
    BY <1>1
<1>4. RunsTyped'
    BY <1>1, <1>2 DEF RunInv, RunsTyped
<1>5. Fresh'
    BY <1>2, <1>3 DEF RunInv, Fresh, Unused
<1>6. Marked'
    BY <1>2, <1>3 DEF Marked
<1>7. ReadyIsWhole'
  <2> SUFFICES ASSUME NEW j \in Ids PROVE Whole(run'[j])
      BY DEF ReadyIsWhole, Whole, Kept
  <2>1. Whole(run[j])
      BY DEF RunInv, ReadyIsWhole
  <2>2. /\ run'[j].status = run[j].status /\ run'[j].excl = run[j].excl
        /\ run'[j].seen = run[j].seen /\ run'[j].rows = x(j)
        /\ run[j].exposed => run'[j].exposed
        /\ run[j].rows \cap Excluded # {} => run'[j].exposed
      BY <1>2, <1>3
  <2>3. CASE run[j].status \in {"ready", "superseded"}
    <3>1. Kept(run[j].seen, TRUE) \cap Excluded = {}
        BY DEF Kept
    <3>2. Kept(run[j].seen, TRUE) \subseteq x(j)
        BY <2>1, <2>3, <3>1 DEF Whole
    <3>3. x(j) \subseteq Kept(run[j].seen, run[j].excl)
        BY <2>1, <2>3 DEF Whole
    <3>4. run'[j].exposed \/ x(j) = Kept(run[j].seen, run[j].excl)
      <4>1. CASE run[j].rows \cap Excluded = {}
        <5>1. x(j) = run[j].rows
            BY <4>1
        <5>2. QED
            BY <2>1, <2>2, <2>3, <5>1 DEF Whole
      <4>2. QED
          BY <2>2, <4>1
    <3>5. QED
        BY <2>2, <2>3, <3>2, <3>3, <3>4 DEF Whole
  <2>4. CASE run[j].status \notin {"ready", "superseded"}
    <3>1. run[j].rows = {}
        BY <2>1, <2>4 DEF Whole
    <3>2. QED
        BY <2>2, <2>4, <3>1 DEF Whole
  <2>5. QED
      BY <2>3, <2>4
<1>8. LineageIsTwoWay'
    BY <1>2, <1>3 DEF RunInv, LineageIsTwoWay
<1>9. QED
    BY <1>2, <1>3, <1>4, <1>5, <1>6, <1>7, <1>8 DEF RunInv

\* An exclusion that is added, and a batch of its cleanup.
LEMMA CleanupKeeps ==
  ASSUME RunInv, AddExclusion \/ DeleteBatch
  PROVE  /\ RunInv'
         /\ \A j \in Ids : run'[j].status = run[j].status /\ run'[j].excl = run[j].excl
<1>1. CASE AddExclusion
  <2>1. PICK B : run' = Cut(Exposed, B) /\ created' = created
      BY <1>1 DEF AddExclusion
  <2>2. QED
      BY <2>1, ExposedRuns, CutKeeps
<1>2. CASE DeleteBatch
  <2>1. draining /\ \E B : run' = Cut(run, B) /\ created' = created
      BY <1>2 DEF DeleteBatch
  <2>2. PICK B : run' = Cut(run, B) /\ created' = created
      BY <2>1
  <2>3. run \in [Ids -> Run]
        /\ \A j \in Ids : run[j].rows \cap Excluded # {} => run[j].exposed
      BY <2>1 DEF RunInv, RunsTyped, Marked
  <2>4. QED
      BY <2>2, <2>3, CutKeeps
<1>3. QED
    BY <1>1, <1>2

-----------------------------------------------------------------------------
(* What a change of the requests keeps. *)

\* A request that takes no part in a step still names a run that will take
\* what it commits, or none.
LEMMA HeldKeeps ==
  ASSUME NEW r \in Request, Held(r, run, created),
         created \in Nat, created' \in Nat, created <= created',
         \A j \in 1..created : run'[j].status = "computing" =>
                              run[j].status = "computing" /\ run'[j].excl = run[j].excl
  PROVE  Held(r, run', created')
<1>1. r.pc \in Busy => r.id \in 1..created'
    BY DEF Held
<1>2. ASSUME r.pc \in {"paging", "read"}, run'[r.id].status = "computing"
      PROVE  run'[r.id].excl = r.excl
  <2>1. r.id \in 1..created
      BY <1>2 DEF Held, Busy
  <2>2. QED
      BY <1>2, <2>1 DEF Held
<1>3. QED
    BY <1>1, <1>2 DEF Held

LEMMA RequestsKeep ==
  ASSUME RequestInv, NEW q \in Requests, NEW r \in Request,
         request' = [request EXCEPT ![q] = r], Held(r, run', created'),
         created \in Nat, created' \in Nat, created <= created',
         \A j \in 1..created : run'[j].status = "computing" =>
                              run[j].status = "computing" /\ run'[j].excl = run[j].excl
  PROVE  RequestInv'
<1>1. request' \in [Requests -> Request]
    BY DEF RequestInv
<1>2. ASSUME NEW p \in Requests PROVE Held(request'[p], run', created')
  <2>1. CASE p = q
      BY <2>1 DEF RequestInv
  <2>2. CASE p # q
    <3>1. request'[p] = request[p] /\ request[p] \in Request
          /\ Held(request[p], run, created)
        BY <2>2 DEF RequestInv
    <3>2. Held(request[p], run', created')
        BY <3>1, HeldKeeps
    <3>3. QED
        BY <3>1, <3>2
  <2>3. QED
      BY <2>1, <2>2
<1>3. QED
    BY <1>1, <1>2 DEF RequestInv

LEMMA RequestsFollow ==
  ASSUME RunInv, RequestInv, NEW q \in Requests, NEW r \in Request,
         request' = [request EXCEPT ![q] = r], Held(r, run', created'), created' = created,
         \A j \in Ids : run'[j].status = "computing" =>
                      run[j].status = "computing" /\ run'[j].excl = run[j].excl
  PROVE  RequestInv'
<1>1. created \in Nat /\ created' \in Nat /\ created <= created'
    BY PolicyRunAssumption DEF RunInv, RunsTyped
<1>2. \A j \in 1..created : j \in Ids
    BY PolicyRunAssumption DEF RunInv, RunsTyped, Ids
<1>3. \A j \in 1..created : run'[j].status = "computing" =>
        run[j].status = "computing" /\ run'[j].excl = run[j].excl
    BY <1>2
<1>4. QED
    BY <1>1, <1>3, RequestsKeep

\* A request that has no run any more is in order.
LEMMA IdleHeld ==
  ASSUME NEW runs, NEW n PROVE Held(Idle, runs, n)
BY DEF Held, Idle, Busy

LEMMA FailingHeld ==
  ASSUME NEW q \in Requests, NEW runs, NEW n, request[q].id \in 1..n
  PROVE  Held(Failing(q), runs, n)
<1>1. Failing(q).pc = "failing" /\ Failing(q).id = request[q].id
    BY DEF Failing, Idle
<1>2. QED
    BY <1>1 DEF Held

LEMMA StillRuns ==
  ASSUME RunInv, run' = run, created' = created, draining' => draining
  PROVE  RunInv'
<1>1. RunsTyped' /\ Fresh' /\ Marked'
    BY DEF RunInv, RunsTyped, Fresh, Unused, Marked
<1>2. ReadyIsWhole'
    BY DEF RunInv, ReadyIsWhole
<1>3. LineageIsTwoWay'
    BY DEF RunInv, LineageIsTwoWay
<1>4. QED
    BY <1>1, <1>2, <1>3 DEF RunInv

LEMMA StillExclusion ==
  ASSUME IInv, UNCHANGED exclusionVars
  PROVE  ExclusionTyped' /\ draining' = draining
BY DEF IInv, ExclusionTyped, exclusionVars

\* A request that moves while the runs stay.
LEMMA RequestOnly ==
  ASSUME IInv, NEW q \in Requests, NEW r \in Request, Held(r, run, created),
         request' = [request EXCEPT ![q] = r],
         UNCHANGED <<run, created, exclusionVars>>
  PROVE  IInv'
<1>1. created \in Nat /\ created' = created /\ run' = run
    BY PolicyRunAssumption DEF IInv, RunInv, RunsTyped
<1>2. RequestInv'
    BY <1>1, RequestsFollow DEF IInv
<1>3. ExclusionTyped' /\ draining' = draining
    BY StillExclusion
<1>4. RunInv'
    BY <1>1, <1>3, StillRuns DEF IInv
<1>5. QED
    BY <1>2, <1>3, <1>4 DEF IInv

-----------------------------------------------------------------------------
(* The invariant. *)

LEMMA InitIInv == Init => IInv
<1> SUFFICES ASSUME Init PROVE IInv
    OBVIOUS
<1>1. NoRun.status = "none" /\ NoRun.rows = {} /\ NoRun.replaces = 0
      /\ NoRun.supersededBy = 0
    BY DEF NoRun
<1>2. \A i \in Ids : run[i] = NoRun
    BY DEF Init
<1>3. RunsTyped /\ Fresh /\ Marked
    BY <1>1, <1>2, NoRunTyped, PolicyRunAssumption
       DEF Init, RunsTyped, Fresh, Unused, Marked
<1>4. ReadyIsWhole
    BY <1>1, <1>2 DEF ReadyIsWhole, Whole
<1>5. LineageIsTwoWay
    BY <1>1, <1>2 DEF LineageIsTwoWay, Ids
<1>6. RequestInv
    BY IdleTyped, IdleHeld DEF Init, RequestInv
<1>7. ExclusionTyped
  <2>1. changes \in 0..MaxChanges
      BY PolicyRunAssumption DEF Init
  <2>2. excluding \in BOOLEAN /\ draining \in BOOLEAN
      BY Zenon DEF Init
  <2>3. QED
      BY <2>1, <2>2 DEF ExclusionTyped
<1>8. QED
    BY <1>3, <1>4, <1>5, <1>6, <1>7 DEF IInv, RunInv

\* Every step of a request keeps it.
LEMMA RequestStepKeeps ==
  ASSUME IInv, NEW q \in Requests, RequestStep(q)
  PROVE  IInv'
<1>1. /\ request[q] \in Request /\ Held(request[q], run, created)
      /\ created \in Nat /\ created \in 0..MaxRuns /\ RunInv /\ RequestInv
      /\ excluding \in BOOLEAN
    BY PolicyRunAssumption DEF IInv, RequestInv, RunInv, RunsTyped, ExclusionTyped
<1>2. request[q].pc \in Busy => request[q].id \in 1..created /\ request[q].id \in Ids
    BY <1>1, PolicyRunAssumption DEF Held, Ids
<1>3. ASSUME NEW old \in 0..MaxRuns, Resolve(q, old) PROVE IInv'
  <2> DEFINE p == IF old = 0 THEN "resolved" ELSE "claim"
             r == [Idle EXCEPT !.pc = p, !.old = old, !.excl = excluding]
  <2>1. p \in {"resolved", "claim"}
      OBVIOUS
  <2> HIDE DEF p
  <2>2. r \in Request
      BY <1>1, <2>1, ResolvedTyped
  <2>3. r.pc = p
      BY DEF Idle
  <2> HIDE DEF r
  <2>4. Held(r, run, created)
      BY <2>1, <2>3 DEF Held, Busy
  <2>5. request' = [request EXCEPT ![q] = r]
      BY <1>3 DEF Resolve, r, p
  <2>6. QED
      BY <1>3, <2>2, <2>4, <2>5, RequestOnly DEF Resolve
<1>4. ASSUME NEW old \in 0..MaxRuns, Claim(q, old) PROVE IInv'
  <2> DEFINE r == [Idle EXCEPT !.pc = "paging", !.excl = request[q].excl, !.id = created + 1]
  <2>1. /\ RunInv' /\ created' = created + 1 /\ created' \in Ids
        /\ \A j \in Ids : run'[j].status = "computing" =>
             IF j = created' THEN run'[j].excl = request[q].excl
             ELSE run[j].status = "computing" /\ run'[j].excl = run[j].excl
      BY <1>1, <1>4, ClaimKeeps
  <2>2. request[q].excl \in BOOLEAN
      BY <1>1 DEF Request
  <2>3. created + 1 \in 0..MaxRuns
      BY <2>1, PolicyRunAssumption DEF Ids
  <2>4. r \in Request
      BY <2>2, <2>3, ClaimedTyped
  <2>5. r.pc = "paging" /\ r.excl = request[q].excl /\ r.id = created'
      BY <2>1 DEF Idle
  <2>6. request' = [request EXCEPT ![q] = r]
      BY <1>4 DEF Claim
  <2> HIDE DEF r
  <2>7. created' \in 1..created' /\ created' \in Nat /\ created <= created'
      BY <1>1, <2>1
  <2>8. Held(r, run', created')
      BY <2>1, <2>5, <2>7 DEF Held
  <2>9. \A j \in 1..created : j \in Ids /\ j # created'
      BY <1>1, <2>1, PolicyRunAssumption DEF Ids
  <2>10. RequestInv'
      BY <1>1, <2>1, <2>4, <2>6, <2>7, <2>8, <2>9, RequestsKeep
  <2>11. ExclusionTyped'
      BY <1>4, StillExclusion DEF Claim
  <2>12. QED
      BY <2>1, <2>10, <2>11 DEF IInv
<1>5. ASSUME NEW n \in 0..NumEvents, ReadPage(q, n) PROVE IInv'
  <2> DEFINE at == request[q].after + 1
             got == at <= n
             a == IF got THEN at ELSE request[q].after
             on == [request[q] EXCEPT !.after = at]
             done == [request[q] EXCEPT !.pc = "read", !.after = a, !.seen = n]
  <2>1. /\ request[q].pc = "paging" /\ n >= request[q].after
        /\ request[q].after \in 0..NumEvents
        /\ UNCHANGED <<run, created, exclusionVars>>
      BY <1>1, <1>5 DEF ReadPage, Request
  <2>2. \/ request' = [request EXCEPT ![q] = Failing(q)]
        \/ at < n /\ request' = [request EXCEPT ![q] = on]
        \/ ~(at < n) /\ request' = [request EXCEPT ![q] = done]
      BY <1>5 DEF ReadPage
  <2>3. CASE request' = [request EXCEPT ![q] = Failing(q)]
    <3>1. request[q].id \in 1..created
        BY <1>2, <2>1 DEF Busy
    <3>2. QED
        BY <1>1, <2>1, <2>3, <3>1, FailingTyped, FailingHeld, RequestOnly
  <2>4. CASE at < n /\ request' = [request EXCEPT ![q] = on]
    <3>1. at \in 0..NumEvents
        BY <2>1, <2>4, PolicyRunAssumption
    <3>2. on \in Request
        BY <1>1, <3>1, ReadTyped
    <3>3. on.pc = "paging" /\ on.id = request[q].id /\ on.excl = request[q].excl
        BY <1>1, <2>1 DEF Request
    <3> HIDE DEF on
    <3>4. Held(on, run, created)
        BY <1>1, <2>1, <3>3 DEF Held, Busy
    <3>5. QED
        BY <2>1, <2>4, <3>2, <3>4, RequestOnly
  <2>5. CASE ~(at < n) /\ request' = [request EXCEPT ![q] = done]
    <3>1. a = n
        BY <2>1, <2>5, PolicyRunAssumption
    <3>2. a \in 0..NumEvents
        BY <3>1
    <3> HIDE DEF a
    <3>3. done \in Request
        BY <1>1, <3>2, ReadTyped
    <3>4. done.pc = "read" /\ done.id = request[q].id /\ done.excl = request[q].excl
          /\ done.after = a /\ done.seen = n
        BY <1>1 DEF Request
    <3> HIDE DEF done
    <3>5. Held(done, run, created)
        BY <1>1, <2>1, <3>1, <3>4 DEF Held, Busy
    <3>6. QED
        BY <2>1, <2>5, <3>3, <3>5, RequestOnly
  <2>6. QED
      BY <2>2, <2>3, <2>4, <2>5
<1>6. CASE FindActive(q)
  <2> DEFINE r == [request[q] EXCEPT !.pc = "claim"]
  <2>1. UNCHANGED <<run, created, exclusionVars>>
      BY <1>6 DEF FindActive
  <2>2. \/ request' = [request EXCEPT ![q] = Idle]
        \/ request' = [request EXCEPT ![q] = r]
      BY <1>6 DEF FindActive
  <2>3. r \in Request
      BY <1>1 DEF Request
  <2>4. r.pc = "claim"
      BY <1>1 DEF Request
  <2> HIDE DEF r
  <2>5. Held(r, run, created)
      BY <2>4 DEF Held, Busy
  <2>6. QED
      BY <2>1, <2>2, <2>3, <2>5, IdleTyped, IdleHeld, RequestOnly
<1>7. CASE LoseSlot(q) \/ Crash(q)
  <2>1. request' = [request EXCEPT ![q] = Idle]
        /\ UNCHANGED <<run, created, exclusionVars>>
      BY <1>7 DEF LoseSlot, Crash
  <2>2. QED
      BY <2>1, IdleTyped, IdleHeld, RequestOnly
<1>8. CASE Fail(q)
  <2>1. request' = [request EXCEPT ![q] = Failing(q)]
        /\ UNCHANGED <<run, created, exclusionVars>>
      BY <1>8 DEF Fail
  <2>2. request[q].id \in 1..created
      BY <1>2, <1>8 DEF Fail, InTransaction, Busy
  <2>3. QED
      BY <1>1, <2>1, <2>2, FailingTyped, FailingHeld, RequestOnly
<1>9. CASE FlipReady(q)
  <2>1. request[q].pc = "read" /\ request' = [request EXCEPT ![q] = Idle]
        /\ UNCHANGED <<created, exclusionVars>>
      BY <1>9 DEF FlipReady
  <2>2. CASE run[request[q].id].status # "computing"
    <3>1. run' = run
        BY <1>9, <2>2 DEF FlipReady
    <3>2. QED
        BY <2>1, <3>1, IdleTyped, IdleHeld, RequestOnly
  <2>3. CASE run[request[q].id].status = "computing"
    <3>1. run' = Filled(q)
        BY <1>9, <2>3 DEF FlipReady
    <3>2. /\ RunInv'
          /\ \A j \in Ids : run'[j].status = "computing" =>
                            run[j].status = "computing" /\ run'[j].excl = run[j].excl
        BY <1>1, <2>1, <2>3, <3>1, FilledKeeps, StillExclusion
    <3>3. RequestInv'
        BY <1>1, <2>1, <3>2, IdleTyped, IdleHeld, RequestsFollow
    <3>4. QED
        BY <2>1, <3>2, <3>3, StillExclusion DEF IInv
  <2>4. QED
      BY <2>2, <2>3
<1>10. CASE CommitUnanswered(q)
  <2>1. request[q].pc = "read" /\ request' = [request EXCEPT ![q] = Failing(q)]
        /\ run[request[q].id].status = "computing" /\ run' = Filled(q)
        /\ UNCHANGED <<created, exclusionVars>>
      BY <1>10 DEF CommitUnanswered
  <2>2. /\ RunInv'
        /\ \A j \in Ids : run'[j].status = "computing" =>
                          run[j].status = "computing" /\ run'[j].excl = run[j].excl
      BY <1>1, <2>1, FilledKeeps, StillExclusion
  <2>3. Failing(q) \in Request /\ Held(Failing(q), run', created')
    <3>1. request[q].id \in 1..created'
        BY <1>2, <2>1 DEF Busy
    <3>2. QED
        BY <1>1, <3>1, FailingTyped, FailingHeld
  <2>4. RequestInv'
      BY <1>1, <2>1, <2>2, <2>3, RequestsFollow
  <2>5. QED
      BY <2>1, <2>2, <2>4, StillExclusion DEF IInv
<1>11. CASE MarkFailed(q)
  <2> DEFINE i == request[q].id
  <2>1. request[q].pc = "failing" /\ request' = [request EXCEPT ![q] = Idle]
        /\ UNCHANGED <<created, exclusionVars>>
      BY <1>11 DEF MarkFailed
  <2>2. i \in Ids
      BY <1>2, <2>1 DEF Busy
  <2>3. CASE run[i].status # "computing"
    <3>1. run' = run
        BY <1>11, <2>3 DEF MarkFailed
    <3>2. QED
        BY <2>1, <3>1, IdleTyped, IdleHeld, RequestOnly
  <2>4. CASE run[i].status = "computing"
    <3>1. run' = [run EXCEPT ![i].status = "failed"]
        BY <1>11, <2>4 DEF MarkFailed
    <3>2. /\ RunInv'
          /\ \A j \in Ids : run'[j].status = "computing" =>
                            run[j].status = "computing" /\ run'[j].excl = run[j].excl
        BY <1>1, <2>1, <2>2, <2>4, <3>1, FailedKeeps, StillExclusion
    <3>3. RequestInv'
        BY <1>1, <2>1, <3>2, IdleTyped, IdleHeld, RequestsFollow
    <3>4. QED
        BY <2>1, <3>2, <3>3, StillExclusion DEF IInv
  <2>5. QED
      BY <2>3, <2>4
<1>12. QED
    BY <1>3, <1>4, <1>5, <1>6, <1>7, <1>8, <1>9, <1>10, <1>11 DEF RequestStep

LEMMA NextKeeps == IInv /\ [Next]_vars => IInv'
<1> SUFFICES ASSUME IInv, [Next]_vars PROVE IInv'
    OBVIOUS
<1>1. ASSUME NEW q \in Requests, RequestStep(q) PROVE IInv'
    BY <1>1, RequestStepKeeps
<1>2. ASSUME created' = created, request' = request, RunInv',
             ExclusionTyped',
             \A j \in Ids : run'[j].status = "computing" =>
                          run[j].status = "computing" /\ run'[j].excl = run[j].excl
      PROVE  IInv'
  <2>1. created \in Nat /\ created' \in Nat /\ created <= created'
      BY <1>2, PolicyRunAssumption DEF IInv, RunInv, RunsTyped
  <2>2. \A j \in 1..created : j \in Ids
      BY PolicyRunAssumption DEF IInv, RunInv, RunsTyped, Ids
  <2>3. ASSUME NEW q \in Requests PROVE Held(request'[q], run', created')
    <3>1. request[q] \in Request /\ Held(request[q], run, created)
        BY DEF IInv, RequestInv
    <3>2. Held(request[q], run', created')
        BY <1>2, <2>1, <2>2, <3>1, HeldKeeps
    <3>3. QED
        BY <1>2, <3>2
  <2>4. RequestInv'
      BY <1>2, <2>3 DEF IInv, RequestInv
  <2>5. QED
      BY <1>2, <2>4 DEF IInv
<1>3. ExclusionTyped /\ RunInv
    BY DEF IInv
<1>4. ASSUME NEW i \in Ids, Reap(i) PROVE IInv'
  <2>1. /\ run[i].status = "computing" /\ run' = [run EXCEPT ![i].status = "failed"]
        /\ UNCHANGED <<created, request, exclusionVars>>
      BY <1>4 DEF Reap
  <2>2. /\ RunInv'
        /\ \A j \in Ids : run'[j].status = "computing" =>
                          run[j].status = "computing" /\ run'[j].excl = run[j].excl
      BY <1>3, <2>1, FailedKeeps, StillExclusion
  <2>3. QED
      BY <1>2, <2>1, <2>2, StillExclusion
<1>5. ASSUME NEW i \in Ids, Prune(i) PROVE IInv'
  <2>1. run' = Without(i) /\ UNCHANGED <<created, request, exclusionVars>>
      BY <1>5 DEF Prune
  <2>2. /\ RunInv'
        /\ \A j \in Ids : run'[j].status = "computing" =>
                          run[j].status = "computing" /\ run'[j].excl = run[j].excl
      BY <1>3, <2>1, PruneKeeps, StillExclusion
  <2>3. QED
      BY <1>2, <2>1, <2>2, StillExclusion
<1>6. CASE AddExclusion \/ DeleteBatch
  <2>1. created' = created /\ request' = request
      BY <1>6 DEF AddExclusion, DeleteBatch
  <2>2. ExclusionTyped'
    <3>1. CASE AddExclusion
        BY <1>3, <3>1, PolicyRunAssumption DEF AddExclusion, ExclusionTyped
    <3>2. CASE DeleteBatch
        BY <3>2, StillExclusion DEF DeleteBatch
    <3>3. QED
        BY <1>6, <3>1, <3>2
  <2>3. /\ RunInv'
        /\ \A j \in Ids : run'[j].status = run[j].status /\ run'[j].excl = run[j].excl
      BY <1>3, <1>6, CleanupKeeps
  <2>4. QED
      BY <1>2, <2>1, <2>2, <2>3
<1>7. CASE RemoveExclusion \/ EndCleanup
  <2>1. UNCHANGED <<run, created, request>> /\ (draining' => draining)
      BY <1>7 DEF RemoveExclusion, EndCleanup
  <2>2. ExclusionTyped'
    <3>1. changes' \in 0..MaxChanges
        BY <1>3, <1>7, PolicyRunAssumption DEF RemoveExclusion, EndCleanup, ExclusionTyped
    <3>2. excluding' \in BOOLEAN /\ draining' \in BOOLEAN
        BY <1>3, <1>7, Zenon DEF RemoveExclusion, EndCleanup, ExclusionTyped
    <3>3. QED
        BY <3>1, <3>2 DEF ExclusionTyped
  <2>3. RunInv'
      BY <1>3, <2>1, StillRuns
  <2>4. QED
      BY <1>2, <2>1, <2>2, <2>3
<1>8. CASE UNCHANGED vars
  <2>1. UNCHANGED <<run, created, request, exclusionVars>>
      BY <1>8 DEF vars
  <2>2. RunInv'
      BY <1>3, <2>1, StillRuns, StillExclusion
  <2>3. QED
      BY <1>2, <2>1, <2>2, StillExclusion
<1>9. QED
    BY <1>1, <1>4, <1>5, <1>6, <1>7, <1>8 DEF Next

LEMMA Always == Spec => []IInv
BY InitIInv, NextKeeps, PTL DEF Spec

\* The variables keep their types, and a request that computes, commits or
\* fails a run names one that was created.
THEOREM PolicyTyped == Spec => []TypeOK
<1>1. IInv => TypeOK
    BY DEF IInv, RunInv, RunsTyped, RequestInv, Held, Busy, ExclusionTyped, TypeOK
<1>2. QED
    BY <1>1, Always, PTL

\* For any number of requests, runs, events and batches of a cleanup, a run that
\* is ready has every event that was listed, less those its exclusions cover,
\* and less what a cleanup that met it has deleted; it never has an event its
\* exclusions cover, nor lost one they do not, and no run that failed has any.
THEOREM ReadyRunsAreWhole == Spec => []ReadyIsWhole
<1>1. IInv => ReadyIsWhole
    BY DEF IInv, RunInv
<1>2. QED
    BY <1>1, Always, PTL

\* For any number of recomputes that race and whatever retention deletes, the
\* two ends of a recompute name each other.
THEOREM LineageAgrees == Spec => []LineageIsTwoWay
<1>1. IInv => LineageIsTwoWay
    BY DEF IInv, RunInv
<1>2. QED
    BY <1>1, Always, PTL

\* No slow runner brings a run back that failed or was superseded.
THEOREM EndedRunsStayEnded == Spec => TerminalStays
<1> DEFINE Stays(i) == run[i].status \in Terminal \cup {"none"} =>
                         run'[i].status \in {run[i].status, "none"}
<1>1. IInv /\ [Next]_vars => [\A i \in 1..created : Stays(i)]_vars
  <2> SUFFICES ASSUME IInv, Next, NEW i \in 1..created,
                      run[i].status \in Terminal \cup {"none"}
               PROVE  run'[i].status \in {run[i].status, "none"}
      BY DEF Stays
  <2>1. /\ RunInv /\ RequestInv /\ i \in Ids /\ run[i].status # "computing"
        /\ run \in [Ids -> Run]
    <3>1. i \in Ids
        BY PolicyRunAssumption DEF IInv, RunInv, RunsTyped, Ids
    <3>2. QED
        BY <3>1 DEF IInv, RunInv, RunsTyped, Terminal
  <2>2. ASSUME NEW j, run[j].status = "computing", NEW r, run' = [run EXCEPT ![j] = r]
        PROVE  run'[i] = run[i]
      BY <2>1, <2>2
  <2>3. ASSUME NEW q \in Requests, RequestStep(q) PROVE run'[i].status = run[i].status
    <3>1. CASE \E old \in 0..MaxRuns : Claim(q, old)
        BY <2>1, <3>1, ClaimKeeps
    <3>2. CASE FlipReady(q) \/ CommitUnanswered(q)
      <4>1. \/ run' = run
            \/ run' = Filled(q) /\ run[request[q].id].status = "computing"
        <5>1. CASE FlipReady(q)
            BY Zenon, <5>1 DEF FlipReady
        <5>2. CASE CommitUnanswered(q)
            BY Zenon, <5>2 DEF CommitUnanswered
        <5>3. QED
            BY <3>2, <5>1, <5>2
      <4>2. Filled(q) = [run EXCEPT ![request[q].id] =
                [run[request[q].id] EXCEPT !.status = "ready", !.rows = Staged(q),
                   !.seen = request[q].seen,
                   !.exposed = draining /\ Staged(q) \cap Excluded # {}]]
          BY Zenon DEF Filled
      <4>3. QED
          BY <2>2, <4>1, <4>2
    <3>3. CASE MarkFailed(q)
      <4>1. \/ run' = run
            \/ /\ run[request[q].id].status = "computing"
               /\ run' = [run EXCEPT ![request[q].id] =
                            [run[request[q].id] EXCEPT !.status = "failed"]]
          BY <3>3, Zenon DEF MarkFailed
      <4>2. QED
          BY <2>2, <4>1
    <3>4. QED
        BY <2>3, <3>1, <3>2, <3>3
           DEF RequestStep, Resolve, ReadPage, FindActive, LoseSlot, Fail, Crash
  <2>4. ASSUME NEW j \in Ids, Reap(j) PROVE run'[i].status = run[i].status
    <3>1. run[j].status = "computing"
          /\ run' = [run EXCEPT ![j] = [run[j] EXCEPT !.status = "failed"]]
        BY <2>4, Zenon DEF Reap
    <3>2. QED
        BY <2>2, <3>1
  <2>5. ASSUME NEW j \in Ids, Prune(j) PROVE run'[i].status \in {run[i].status, "none"}
    <3>1. run'[i] = IF i = j THEN NoRun
                    ELSE [run[i] EXCEPT !.replaces = IF @ = j THEN 0 ELSE @,
                                        !.supersededBy = IF @ = j THEN 0 ELSE @]
        BY <2>1, <2>5 DEF Prune, Without
    <3>2. CASE i = j
        BY <3>1, <3>2 DEF NoRun
    <3>3. CASE i # j
        BY <2>1, <3>1, <3>3 DEF Run
    <3>4. QED
        BY <3>2, <3>3
  <2>6. CASE AddExclusion \/ DeleteBatch
      BY <2>1, <2>6, CleanupKeeps
  <2>7. CASE RemoveExclusion \/ EndCleanup
      BY <2>7 DEF RemoveExclusion, EndCleanup
  <2>8. QED
      BY <2>3, <2>4, <2>5, <2>6, <2>7 DEF Next
<1>2. QED
    BY <1>1, Always, PTL DEF Spec, TerminalStays

=============================================================================
