--------------------------- MODULE StoryPushProofs ---------------------------
(***************************************************************************)
(* MarksAreTrue and AnalystKept for any number of stories, tabs, analysts, *)
(* transactions, notices and faults, and any page size.                    *)
(*                                                                         *)
(* The argument.  A mark is true of its key (Fair): it names who sent some *)
(* generation of it, and counts one for the drain and one for each ledger  *)
(* row consumed.  That is stable, because told and consumed only grow, so  *)
(* a rebuild may copy a mark it has read before.  An acknowledgement is    *)
(* reported after its batch has arrived (Landed), and the ledger rows that *)
(* are open are mints not yet consumed (Ledgers).                          *)
(***************************************************************************)
EXTENDS StoryPush, FiniteSetTheorems, TLAPS

Fair(m, k) ==
  /\ m.by # "none" => Reached(k)
  /\ m.by = "none" <=> m.count = 0
  /\ m.by = "system" => m.count = 1
  /\ m.count <= consumed[k] + 1

Marked ==
  /\ \A k \in Keys : Fair(story[k].mark, k)
  /\ \A w \in Writers : \A k \in Keys : Fair(tx[w].marks[k], k)

Landed ==
  /\ \A t \in Tabs : tab[t].outcome = "ack" => tab[t].batch.ids \subseteq told
  /\ \A a \in Analysts : send[a].pc = "landed" => send[a].id \in told

Open == {a \in Analysts : send[a].ledger}

Ledgers ==
  /\ IsFiniteSet(Open)
  /\ \A a \in Analysts : send[a].pc = "off" => ~send[a].ledger
  /\ \A k \in Keys : consumed[k] + Cardinality(Open) <= mints

\* Only the first call of the stream takes the clock to its end.
Clock == cursor = 0 => now <= MaxNow

Told == \A a \in Analysts : send[a].pc # "off" => send[a].id \in Ids

StoryT == story \in [Keys -> Row] /\ \A k \in Keys : story[k].live => story[k].gen > 0
TxRow == [kind : {"none", "page", "rebuild"}, at : 0..MaxNow, marks : [Keys -> Mark]]
TxT == tx \in [Writers -> TxRow]
ClockT == now \in 0..(MaxNow + 1) /\ activated \in 0..(MaxNow + 1)
CursorT == cursor \in Positions
Notice == [kind : {"refresh", "backfill"}, ids : SUBSET Ids, acked : BOOLEAN]
QueueT == queue \in Seq(Notice) /\ Len(queue) <= MaxNotices
Call == [pc : {"off", "call", "claim", "emit", "posted"},
         outcome : {"none", "ack", "fail"}, seen : Positions,
         batch : Batch, recorded : BOOLEAN]
TabT == tab \in [Tabs -> Call]
Sending == [pc : {"off", "posted", "landed"}, id : Ids \cup {<<>>}, ledger : BOOLEAN]
SendT == send \in [Analysts -> Sending]
ReceiverT == told \subseteq Ids /\ late \subseteq SUBSET Ids
CountT == mints \in 0..MaxMints /\ consumed \in [Keys -> 0..MaxMints]
FaultT == faults \in 0..MaxFaults /\ enabled \in BOOLEAN

IInv ==
  /\ StoryT /\ TxT /\ ClockT /\ CursorT /\ QueueT /\ TabT /\ SendT
  /\ ReceiverT /\ CountT /\ FaultT
  /\ Marked /\ Landed /\ Ledgers /\ Clock /\ Told

LEMMA TypeFollows == IInv => TypeOK
BY DEF IInv, TypeOK, StoryT, TxT, TxRow, ClockT, CursorT, Notice, QueueT, Call,
   TabT, Sending, SendT, ReceiverT, CountT, FaultT

-----------------------------------------------------------------------------
(* Positions and records.                                                  *)

LEMMA Times ==
  ASSUME NEW a \in Nat, NEW b \in Nat, NEW n \in Nat, a <= b
  PROVE  a * n \in Nat /\ b * n \in Nat /\ a * n <= b * n
OBVIOUS

LEMMA PosTyped ==
  ASSUME NEW at \in 0..(MaxNow + 1), NEW k \in 0..NumKeys
  PROVE  Pos(at, k) \in Positions /\ (at > 0 => Pos(at, k) # 0)
<1>1. NumKeys \in Nat /\ MaxNow \in Nat /\ at \in Nat /\ k \in Nat
  BY StoryAssumption
<1>2. /\ at * (NumKeys + 1) \in Nat /\ (MaxNow + 1) * (NumKeys + 1) \in Nat
      /\ at * (NumKeys + 1) <= (MaxNow + 1) * (NumKeys + 1)
  BY <1>1, Times
<1>3. Pos(at, k) \in Positions
  BY <1>1, <1>2 DEF Pos, Positions
<1>4. ASSUME at > 0 PROVE Pos(at, k) # 0
  <2>1. 1 * (NumKeys + 1) <= at * (NumKeys + 1)
    BY <1>1, <1>4, Times
  <2>2. QED
    BY <1>1, <1>2, <2>1 DEF Pos
<1>5. QED
  BY <1>3, <1>4

LEMMA Zeros ==
  /\ 0 \in Positions /\ 0 \in 0..MaxNow /\ 0 \in 0..MaxMints /\ 0 \in 0..MaxGen
  /\ 0 \in 0..MaxFaults /\ 0 \in 0..(MaxMints + 1) /\ 0 \in 0..(MaxNow + 1)
<1>1. 0 \in 0..(MaxNow + 1) /\ 0 \in 0..NumKeys /\ 0 * (NumKeys + 1) = 0
  BY StoryAssumption
<1>2. 0 \in Positions
  BY <1>1, PosTyped DEF Pos
<1>3. QED
  BY <1>2, StoryAssumption

LEMMA UnsentFair ==
  /\ Unsent \in Mark
  /\ IInv => \A k \in Keys : Fair(Unsent, k)
<1>1. Unsent \in Mark
  BY Zeros DEF Unsent, Mark, Marks
<1>2. ASSUME IInv, NEW k \in Keys PROVE Fair(Unsent, k)
  BY <1>2 DEF Fair, Unsent, IInv, CountT
<1>3. QED
  BY <1>1, <1>2

LEMMA ClosedTyped == Closed \in TxRow /\ \A k \in Keys : Closed.marks[k] = Unsent
BY UnsentFair, Zeros DEF Closed, TxRow

LEMMA IdleTyped == Idle \in Call /\ Resting \in Sending
<1>1. NoBatch \in Batch
  BY Zeros DEF NoBatch, Batch
<1>2. QED
  BY <1>1, Zeros DEF Idle, Call, Resting, Sending

\* A true mark stays true.
LEMMA FairStays ==
  ASSUME NEW m \in Mark, NEW k \in Keys, Fair(m, k), told \subseteq told',
         consumed[k] \in Nat, consumed'[k] \in Nat, consumed[k] <= consumed'[k]
  PROVE  (m.by # "none" => Reached(k)') /\ (m.by = "none" <=> m.count = 0)
           /\ (m.by = "system" => m.count = 1) /\ m.count <= consumed'[k] + 1
BY DEF Fair, Reached, Mark

LEMMA MarkedStep ==
  ASSUME IInv, StoryT', TxT', CountT', told \subseteq told',
         \A k \in Keys : consumed[k] <= consumed'[k],
         \A k \in Keys : Fair(story'[k].mark, k) \/ Fair(story[k].mark, k)',
         \A w \in Writers : \A k \in Keys : Fair(tx'[w].marks[k], k)
  PROVE  Marked'
<1>1. \A k \in Keys : consumed[k] \in Nat /\ consumed'[k] \in Nat
  BY DEF IInv, CountT
<1>2. \A k \in Keys : story'[k].mark \in Mark
  BY DEF StoryT, Row
<1>3. \A w \in Writers : \A k \in Keys : tx'[w].marks[k] \in Mark
  BY DEF TxT, TxRow
<1>4. ASSUME NEW k \in Keys PROVE Fair(story[k].mark, k)'
  BY <1>1, <1>2, FairStays DEF Fair
<1>5. ASSUME NEW w \in Writers, NEW k \in Keys PROVE Fair(tx[w].marks[k], k)'
  BY <1>1, <1>3, FairStays DEF Fair
<1>6. QED
  BY <1>4, <1>5 DEF Marked

-----------------------------------------------------------------------------
(* The writers.                                                            *)

LEMMA WriterFrame ==
  ASSUME IInv, UNCHANGED <<tab, send, mints, receiver, consumed>>,
         StoryT', TxT', ClockT', CursorT', QueueT', FaultT', Clock',
         \A k \in Keys : Fair(story'[k].mark, k),
         \A w \in Writers : \A k \in Keys : Fair(tx'[w].marks[k], k)
  PROVE  IInv'
<1>1. CountT' /\ ReceiverT' /\ TabT' /\ SendT'
  BY DEF IInv, CountT, ReceiverT, TabT, SendT, receiver
<1>2. \A k \in Keys : consumed[k] <= consumed'[k]
  BY DEF IInv, CountT
<1>3. told' = told
  BY DEF receiver
<1>4. Marked'
  BY <1>1, <1>2, <1>3, MarkedStep
<1>5. Landed' /\ Ledgers' /\ Told'
  BY <1>3 DEF IInv, Landed, Ledgers, Told, Open
<1>6. QED
  BY <1>1, <1>4, <1>5 DEF IInv

LEMMA Ticked == ASSUME IInv, Tick PROVE now + 1 \in 0..MaxNow
BY StoryAssumption DEF IInv, ClockT, Tick

LEMMA TxStep ==
  ASSUME IInv, NEW w \in Writers, NEW r \in TxRow, tx' = [tx EXCEPT ![w] = r],
         \A k \in Keys : Fair(r.marks[k], k)
  PROVE  TxT' /\ \A v \in Writers : \A k \in Keys : Fair(tx'[v].marks[k], k)
<1>1. TxT' /\ \A v \in Writers : tx'[v] = IF v = w THEN r ELSE tx[v]
  BY DEF IInv, TxT
<1>2. QED
  BY <1>1 DEF IInv, Marked

LEMMA BeginPageInv ==
  ASSUME IInv, NEW w \in Writers, BeginPage(w) PROVE IInv'
<1> DEFINE r == [Closed EXCEPT !.kind = "page", !.at = now + 1]
<1>1. now + 1 \in 0..MaxNow /\ now' = now + 1
  BY Ticked DEF BeginPage, Tick
<1>2. r \in TxRow /\ \A k \in Keys : r.marks[k] = Unsent
  BY <1>1, ClosedTyped DEF TxRow, Closed
<1>3. tx' = [tx EXCEPT ![w] = r]
  BY DEF BeginPage
<1> HIDE DEF r
<1>4. TxT' /\ \A v \in Writers : \A k \in Keys : Fair(tx'[v].marks[k], k)
  BY <1>2, <1>3, TxStep, UnsentFair
<1>5. StoryT' /\ CursorT' /\ QueueT' /\ FaultT'
  BY DEF BeginPage, IInv, StoryT, CursorT, QueueT, FaultT
<1>6. ClockT' /\ Clock'
  BY <1>1, StoryAssumption DEF BeginPage, IInv, ClockT, Clock
<1>7. QED
  BY <1>4, <1>5, <1>6, WriterFrame DEF BeginPage, IInv, Marked

LEMMA RollbackInv ==
  ASSUME IInv, NEW w \in Writers, Rollback(w) PROVE IInv'
<1>1. TxT' /\ \A v \in Writers : \A k \in Keys : Fair(tx'[v].marks[k], k)
  BY ClosedTyped, TxStep, UnsentFair DEF Rollback
<1>2. StoryT' /\ CursorT' /\ QueueT' /\ FaultT' /\ ClockT' /\ Clock'
  BY DEF Rollback, IInv, StoryT, CursorT, QueueT, FaultT, ClockT, Clock
<1>3. QED
  BY <1>1, <1>2, WriterFrame DEF Rollback, IInv, Marked

LEMMA InsertTyped ==
  ASSUME IInv, NEW k \in Keys, story[k].gen < MaxGen, NEW at \in 0..MaxNow,
         NEW m \in Mark
  PROVE  /\ Insert(k, at, m) \in Row /\ Insert(k, at, m).gen > 0
         /\ Insert(k, at, m).mark = m /\ Insert(k, at, m).live
         /\ <<k, story[k].gen + 1>> \in Ids
<1>1. story[k].gen + 1 \in 1..MaxGen /\ story[k].gen + 1 \in 0..MaxGen
  BY StoryAssumption DEF IInv, StoryT, Row
<1>2. QED
  BY <1>1 DEF Insert, Row, Ids

LEMMA CommitPageInv ==
  ASSUME IInv, NEW w \in Writers, NEW k \in Keys, CommitPage(w, k) PROVE IInv'
<1> DEFINE r == Insert(k, tx[w].at, Unsent)
<1>1. r \in Row /\ r.gen > 0 /\ r.mark = Unsent
  <2>1. tx[w].at \in 0..MaxNow
    BY DEF IInv, TxT, TxRow
  <2>2. story[k].gen < MaxGen
    BY DEF CommitPage
  <2>3. QED
    BY <2>1, <2>2, InsertTyped, UnsentFair
<1>2. story' = [story EXCEPT ![k] = r]
  BY DEF CommitPage
<1> HIDE DEF r
<1>3. story' \in [Keys -> Row] /\ \A j \in Keys : story'[j] = IF j = k THEN r ELSE story[j]
  BY <1>1, <1>2 DEF IInv, StoryT
<1>4. StoryT' /\ \A j \in Keys : Fair(story'[j].mark, j)
  BY <1>1, <1>3, UnsentFair DEF StoryT, IInv, Marked
<1>5. TxT' /\ \A v \in Writers : \A j \in Keys : Fair(tx'[v].marks[j], j)
  BY ClosedTyped, TxStep, UnsentFair DEF CommitPage
<1>6. CursorT' /\ QueueT' /\ FaultT' /\ ClockT' /\ Clock'
  BY DEF CommitPage, IInv, CursorT, QueueT, FaultT, ClockT, Clock
<1>7. QED
  BY <1>4, <1>5, <1>6, WriterFrame DEF CommitPage

LEMMA BeginRebuildInv ==
  ASSUME IInv, BeginRebuild PROVE IInv'
<1> DEFINE r == [kind |-> "rebuild", at |-> now + 1,
                 marks |-> [k \in Keys |-> IF k \in Refreshed \cap Live
                                           THEN story[k].mark ELSE Unsent]]
<1>1. now + 1 \in 0..MaxNow /\ now' = now + 1
  BY Ticked DEF BeginRebuild, Tick
<1>2. \A k \in Keys : story[k].mark \in Mark
  BY DEF IInv, StoryT, Row
<1>3. r \in TxRow
  BY <1>1, <1>2, UnsentFair DEF TxRow
<1>4. \A k \in Keys : Fair(r.marks[k], k)
  BY UnsentFair DEF IInv, Marked
<1>5. tx' = [tx EXCEPT !["cadence"] = r] /\ "cadence" \in Writers
  BY DEF BeginRebuild, Writers
<1> HIDE DEF r
<1>6. TxT' /\ \A v \in Writers : \A k \in Keys : Fair(tx'[v].marks[k], k)
  BY <1>3, <1>4, <1>5, TxStep
<1>7. StoryT' /\ CursorT' /\ QueueT' /\ FaultT'
  BY DEF BeginRebuild, IInv, StoryT, CursorT, QueueT, FaultT
<1>8. ClockT' /\ Clock'
  BY <1>1, StoryAssumption DEF BeginRebuild, IInv, ClockT, Clock
<1>9. QED
  BY <1>6, <1>7, <1>8, WriterFrame DEF BeginRebuild, IInv, Marked

LEMMA CommitRebuildInv ==
  ASSUME IInv, NEW S \in SUBSET Refreshed, CommitRebuild(S) PROVE IInv'
<1> DEFINE at == tx["cadence"].at
           marks == tx["cadence"].marks
           row(k) == IF k \in S THEN Insert(k, at, marks[k])
                     ELSE [story[k] EXCEPT !.live = FALSE, !.at = 0, !.mark = Unsent]
           e == [kind |-> "refresh", acked |-> FALSE,
                 ids |-> {<<k, story[k].gen + 1>> : k \in S}]
<1>1. /\ story' = [k \in Keys |-> IF k \in Refreshed THEN row(k) ELSE story[k]]
      /\ queue' = Append(queue, e) /\ Len(queue) < MaxNotices
      /\ tx' = [tx EXCEPT !["cadence"] = Closed]
      /\ \A k \in S : story[k].gen < MaxGen
  BY DEF CommitRebuild
<1>2. "cadence" \in Writers /\ S \subseteq Keys /\ Refreshed \subseteq Keys
  BY StoryAssumption DEF Writers
<1>3. at \in 0..MaxNow /\ \A k \in Keys : marks[k] \in Mark /\ Fair(marks[k], k)
  BY <1>2 DEF IInv, TxT, TxRow, Marked
<1>4. \A k \in S : /\ Insert(k, at, marks[k]) \in Row
                   /\ Insert(k, at, marks[k]).gen > 0
                   /\ Insert(k, at, marks[k]).mark = marks[k]
                   /\ <<k, story[k].gen + 1>> \in Ids
  BY <1>1, <1>2, <1>3, InsertTyped
<1>5. \A k \in Keys : /\ story[k] \in Row
                      /\ [story[k] EXCEPT !.live = FALSE, !.at = 0, !.mark = Unsent] \in Row
                      /\ ~[story[k] EXCEPT !.live = FALSE, !.at = 0, !.mark = Unsent].live
                      /\ [story[k] EXCEPT !.live = FALSE, !.at = 0, !.mark = Unsent].mark = Unsent
  BY UnsentFair, Zeros DEF IInv, StoryT, Row
<1>6. \A k \in Keys : /\ row(k) \in Row /\ (row(k).live => row(k).gen > 0)
                      /\ Fair(row(k).mark, k)
  BY <1>3, <1>4, <1>5, UnsentFair
<1>7. e \in Notice
  BY <1>4 DEF Notice
<1> HIDE DEF row, e, at, marks
<1>8. StoryT' /\ \A k \in Keys : Fair(story'[k].mark, k)
  BY <1>1, <1>5, <1>6 DEF StoryT, IInv, Marked
<1>9. QueueT'
  BY <1>1, <1>7, StoryAssumption DEF IInv, QueueT
<1>10. TxT' /\ \A v \in Writers : \A k \in Keys : Fair(tx'[v].marks[k], k)
  BY <1>1, <1>2, ClosedTyped, TxStep, UnsentFair
<1>11. CursorT' /\ FaultT' /\ ClockT' /\ Clock'
  BY DEF CommitRebuild, IInv, CursorT, FaultT, ClockT, Clock
<1>12. QED
  BY <1>8, <1>9, <1>10, <1>11, WriterFrame DEF CommitRebuild

LEMMA LiveIds == ASSUME IInv, NEW k \in Live PROVE k \in Keys /\ Id(k) \in Ids
<1>1. k \in Keys /\ story[k].gen \in 0..MaxGen /\ story[k].gen > 0
  BY DEF Live, IInv, StoryT, Row
<1>2. QED
  BY <1>1, StoryAssumption DEF Id, Ids

LEMMA BackfillInv == ASSUME IInv, Backfill PROVE IInv'
<1> DEFINE e == [kind |-> "backfill", acked |-> FALSE,
                 ids |-> {Id(k) : k \in Refreshed \cap Live}]
<1>1. e \in Notice
  BY LiveIds DEF Notice
<1>2. queue' = Append(queue, e) /\ Len(queue) < MaxNotices
  BY DEF Backfill
<1> HIDE DEF e
<1>3. QueueT'
  BY <1>1, <1>2, StoryAssumption DEF IInv, QueueT
<1>4. StoryT' /\ TxT' /\ CursorT' /\ FaultT' /\ ClockT' /\ Clock'
  BY DEF Backfill, IInv, StoryT, TxT, CursorT, FaultT, ClockT, Clock
<1>5. QED
  BY <1>3, <1>4, WriterFrame DEF Backfill, IInv, Marked

LEMMA Faulty == ASSUME IInv, Fault PROVE faults' \in 0..MaxFaults
BY StoryAssumption DEF IInv, FaultT, Fault

LEMMA PauseInv == ASSUME IInv, Pause \/ Resume PROVE IInv'
<1>1. FaultT'
  BY Faulty DEF Pause, Resume, IInv, FaultT
<1>2. StoryT' /\ TxT' /\ CursorT' /\ QueueT' /\ ClockT' /\ Clock'
  BY DEF Pause, Resume, IInv, StoryT, TxT, CursorT, QueueT, ClockT, Clock
<1>3. QED
  BY <1>1, <1>2, WriterFrame DEF Pause, Resume, IInv, Marked

LEMMA WriteInv == ASSUME IInv, Write PROVE IInv'
BY BeginPageInv, RollbackInv, CommitPageInv, BeginRebuildInv, CommitRebuildInv,
   BackfillInv DEF Write

-----------------------------------------------------------------------------
(* A tab and its calls.                                                    *)

TabLanded == \A t \in Tabs : tab[t].outcome = "ack" => tab[t].batch.ids \subseteq told
SendLanded == \A a \in Analysts : send[a].pc = "landed" => send[a].id \in told

LEMMA TabFrame ==
  ASSUME IInv, UNCHANGED <<store, send, mints, consumed>>, told \subseteq told',
         ReceiverT', TabT', FaultT', TabLanded'
  PROVE  IInv'
<1>1. /\ StoryT' /\ TxT' /\ ClockT' /\ CursorT' /\ QueueT' /\ SendT' /\ CountT'
      /\ Ledgers' /\ Clock' /\ Told'
  BY DEF store, IInv, StoryT, TxT, ClockT, CursorT, QueueT, SendT, CountT,
     Ledgers, Open, Clock, Told
<1>2. \A k \in Keys : consumed[k] <= consumed'[k]
  BY DEF IInv, CountT
<1>3. /\ \A k \in Keys : Fair(story'[k].mark, k)
      /\ \A w \in Writers : \A k \in Keys : Fair(tx'[w].marks[k], k)
  BY DEF store, IInv, Marked
<1>4. Marked'
  BY <1>1, <1>2, <1>3, MarkedStep
<1>5. Landed'
  BY DEF IInv, Landed, TabLanded
<1>6. QED
  BY <1>1, <1>4, <1>5 DEF IInv

LEMMA TabStep ==
  ASSUME IInv, NEW t \in Tabs, NEW r \in Call, tab' = [tab EXCEPT ![t] = r],
         told \subseteq told', r.outcome = "ack" => r.batch.ids \subseteq told'
  PROVE  TabT' /\ TabLanded'
<1>1. TabT' /\ \A u \in Tabs : tab'[u] = IF u = t THEN r ELSE tab[u]
  BY DEF IInv, TabT
<1>2. QED
  BY <1>1 DEF IInv, Landed, TabLanded

\* A step of one tab that leaves the database alone.
LEMMA OwnTab ==
  ASSUME IInv, NEW t \in Tabs, NEW r \in Call, tab' = [tab EXCEPT ![t] = r],
         UNCHANGED <<store, send, mints, receiver, consumed>>, FaultT',
         r.outcome = "ack" => tab[t].outcome = "ack" /\ r.batch = tab[t].batch
  PROVE  IInv'
<1>1. UNCHANGED <<told, late>> /\ ReceiverT'
  BY DEF receiver, IInv, ReceiverT
<1>2. r.outcome = "ack" => r.batch.ids \subseteq told'
  BY <1>1 DEF IInv, Landed
<1>3. TabT' /\ TabLanded'
  BY <1>1, <1>2, TabStep
<1>4. QED
  BY <1>1, <1>3, TabFrame

LEMMA StartInv == ASSUME IInv, NEW t \in Tabs, Start(t) PROVE IInv'
<1> DEFINE r == [tab[t] EXCEPT !.pc = "claim"]
<1>1. tab[t] \in Call
  BY DEF IInv, TabT
<1>2. r \in Call /\ r.outcome = tab[t].outcome /\ r.batch = tab[t].batch
  BY <1>1 DEF Call
<1>3. tab' = [tab EXCEPT ![t] = r]
  BY DEF Start
<1>4. FaultT'
  BY Faulty DEF Start, store, IInv, FaultT
<1> HIDE DEF r
<1>5. QED
  BY <1>2, <1>3, <1>4, OwnTab DEF Start

LEMMA PruneInv == ASSUME IInv, NEW t \in Tabs, Prune(t) PROVE IInv'
<1> DEFINE r == [tab[t] EXCEPT !.recorded = FALSE]
<1>1. tab[t] \in Call
  BY DEF IInv, TabT
<1>2. r \in Call /\ r.outcome = tab[t].outcome /\ r.batch = tab[t].batch
  BY <1>1 DEF Call
<1>3. tab' = [tab EXCEPT ![t] = r]
  BY DEF Prune
<1>4. FaultT'
  BY Faulty DEF Prune, store, IInv, FaultT
<1> HIDE DEF r
<1>5. QED
  BY <1>2, <1>3, <1>4, OwnTab DEF Prune

LEMMA DeliverInv == ASSUME IInv, NEW t \in Tabs, Deliver(t) PROVE IInv'
<1> DEFINE r == [tab[t] EXCEPT !.pc = "call", !.outcome = "ack"]
<1>1. tab[t] \in Call
  BY DEF IInv, TabT
<1>2. r \in Call /\ r.batch = tab[t].batch /\ r.batch.ids \subseteq Ids
  BY <1>1 DEF Call, Batch
<1>3. tab' = [tab EXCEPT ![t] = r]
  BY <1>1 DEF Deliver, IInv, TabT
<1>4. told' = told \cup r.batch.ids /\ late' = late
  BY <1>2 DEF Deliver, Arrive
<1> HIDE DEF r
<1>5. TabT' /\ TabLanded'
  BY <1>2, <1>3, <1>4, TabStep
<1>6. ReceiverT' /\ FaultT'
  BY <1>2, <1>4 DEF Deliver, store, IInv, ReceiverT, FaultT
<1>7. QED
  BY <1>4, <1>5, <1>6, TabFrame DEF Deliver

LEMMA InterruptInv == ASSUME IInv, NEW t \in Tabs, Interrupt(t) PROVE IInv'
<1> DEFINE r == [tab[t] EXCEPT !.pc = "call", !.outcome = "fail"]
<1>1. tab[t] \in Call
  BY DEF IInv, TabT
<1>2. r \in Call /\ r.outcome = "fail"
  BY <1>1 DEF Call
<1>3. tab' = [tab EXCEPT ![t] = Idle] \/ tab' = [tab EXCEPT ![t] = r]
  BY <1>1 DEF Interrupt, IInv, TabT
<1>4. Idle.outcome = "none" /\ told' = told
  BY DEF Idle, Interrupt
<1> HIDE DEF r
<1>5. TabT' /\ TabLanded'
  BY <1>2, <1>3, <1>4, IdleTyped, TabStep
<1>6. ReceiverT' /\ FaultT'
  BY <1>1, <1>4, Faulty DEF Interrupt, store, IInv, ReceiverT, FaultT, Call, Batch
<1>7. QED
  BY <1>4, <1>5, <1>6, TabFrame DEF Interrupt

LEMMA LateArrivesInv == ASSUME IInv, LateArrives PROVE IInv'
<1>1. told \subseteq told' /\ ReceiverT'
  BY DEF LateArrives, Arrive, IInv, ReceiverT
<1>2. TabT' /\ FaultT' /\ TabLanded'
  BY <1>1 DEF LateArrives, store, IInv, TabT, FaultT, Landed, TabLanded
<1>3. QED
  BY <1>1, <1>2, TabFrame DEF LateArrives

LEMMA FinishInv == ASSUME IInv, NEW t \in Tabs, Finish(t) PROVE IInv'
<1>1. Idle \in Call /\ Idle.outcome = "none"
  BY IdleTyped DEF Idle
<1>2. FaultT'
  BY DEF Finish, store, IInv, FaultT
<1>3. QED
  BY <1>1, <1>2, OwnTab DEF Finish

LEMMA PostStep ==
  ASSUME IInv, NEW t \in Tabs, NEW b \in Batch, Post(t, b),
         UNCHANGED <<store, send, mints, receiver, faults, consumed>>
  PROVE  IInv'
<1> DEFINE r == [Idle EXCEPT !.pc = "posted", !.batch = b, !.recorded = TRUE]
<1>1. r \in Call /\ r.outcome = "none"
  BY IdleTyped DEF Idle, Call
<1>2. tab' = [tab EXCEPT ![t] = r]
  BY DEF Post
<1>3. FaultT'
  BY DEF store, IInv, FaultT
<1> HIDE DEF r
<1>4. QED
  BY <1>1, <1>2, <1>3, OwnTab

LEMMA ReadCursorInv == ASSUME IInv, NEW t \in Tabs, ReadCursor(t) PROVE IInv'
<1> DEFINE r == [tab[t] EXCEPT !.pc = "emit", !.seen = cursor]
<1>1. tab[t] \in Call /\ cursor \in Positions
  BY DEF IInv, TabT, CursorT
<1>2. r \in Call /\ r.outcome = tab[t].outcome /\ r.batch = tab[t].batch
  BY <1>1 DEF Call
<1>3. tab' = [tab EXCEPT ![t] = r]
  BY <1>1 DEF ReadCursor, IInv, TabT
<1>4. FaultT'
  BY DEF ReadCursor, store, IInv, FaultT
<1> HIDE DEF r
<1>5. QED
  BY <1>2, <1>3, <1>4, OwnTab DEF ReadCursor

LEMMA ClaimNoticeInv == ASSUME IInv, NEW t \in Tabs, ClaimNotice(t) PROVE IInv'
<1>1. PICK i \in 1..Len(queue) :
        Post(t, [op |-> "replace", ids |-> queue[i].ids, notices |-> {i}, advance |-> 0])
  BY DEF ClaimNotice, Pending
<1>2. queue[i] \in Notice /\ i \in 1..MaxNotices
  BY StoryAssumption DEF IInv, QueueT
<1>3. [op |-> "replace", ids |-> queue[i].ids, notices |-> {i}, advance |-> 0] \in Batch
  BY <1>2, Zeros DEF Batch, Notice
<1>4. QED
  BY <1>1, <1>3, PostStep DEF ClaimNotice

LEMMA EmitStoriesInv == ASSUME IInv, NEW t \in Tabs, EmitStories(t) PROVE IInv'
<1> DEFINE c == tab[t].seen
           stragglers == Stragglers(c) # {}
           slice == First(IF stragglers THEN Stragglers(c) ELSE Ahead(c))
           b(last) == [op |-> "insert", ids |-> {Id(k) : k \in slice}, notices |-> {},
                       advance |-> IF stragglers THEN 0 ELSE Position(last)]
<1>1. PICK last \in slice : Post(t, b(last))
  BY DEF EmitStories
<1>2. slice \subseteq Live
  BY DEF First, Stragglers, Ahead, Unpushed
<1>3. \A k \in slice : k \in Keys /\ Id(k) \in Ids
  BY <1>2, LiveIds
<1>4. story[last].at \in 0..(MaxNow + 1) /\ last \in 0..NumKeys
  BY <1>3, StoryAssumption DEF IInv, StoryT, Row, Keys
<1>5. Position(last) \in Positions
  BY <1>4, PosTyped DEF Position
<1>6. b(last) \in Batch
  BY <1>3, <1>5, Zeros DEF Batch
<1> HIDE DEF b
<1>7. QED
  BY <1>1, <1>6, PostStep DEF EmitStories

\* A step of one tab's call that also writes the database.
LEMMA CallFrame ==
  ASSUME IInv, UNCHANGED <<tx, send, mints, receiver, consumed>>,
         StoryT', ClockT', CursorT', QueueT', TabT', FaultT', Clock', TabLanded',
         \A k \in Keys : Fair(story'[k].mark, k)
  PROVE  IInv'
<1>1. TxT' /\ SendT' /\ ReceiverT' /\ CountT' /\ Ledgers' /\ Told'
  BY DEF receiver, IInv, TxT, SendT, ReceiverT, CountT, Ledgers, Open, Told
<1>2. told' = told /\ \A k \in Keys : consumed[k] <= consumed'[k]
  BY DEF receiver, IInv, CountT
<1>3. \A w \in Writers : \A k \in Keys : Fair(tx'[w].marks[k], k)
  BY DEF IInv, Marked
<1>4. Marked'
  BY <1>1, <1>2, <1>3, MarkedStep
<1>5. Landed'
  BY <1>2 DEF IInv, Landed, TabLanded
<1>6. QED
  BY <1>1, <1>4, <1>5 DEF IInv

LEMMA SeedInv == ASSUME IInv, NEW t \in Tabs, Seed(t) PROVE IInv'
<1>1. now <= MaxNow /\ now \in Nat
  BY DEF Seed, IInv, Clock, ClockT
<1>2. now + 1 \in 0..(MaxNow + 1) /\ now + 1 > 0 /\ 0 \in 0..NumKeys
  BY <1>1, StoryAssumption
<1>3. Pos(now + 1, 0) \in Positions /\ Pos(now + 1, 0) # 0
  BY <1>2, PosTyped
<1>4. ClockT' /\ CursorT' /\ Clock'
  BY <1>2, <1>3 DEF Seed, ClockT, CursorT, Clock
<1>5. Idle \in Call /\ Idle.outcome = "none"
  BY IdleTyped DEF Idle
<1>6. TabT' /\ TabLanded'
  BY <1>5, TabStep DEF Seed, receiver
<1>7. StoryT' /\ QueueT' /\ FaultT' /\ \A k \in Keys : Fair(story'[k].mark, k)
  BY DEF Seed, IInv, StoryT, QueueT, FaultT, Marked
<1>8. QED
  BY <1>4, <1>6, <1>7, CallFrame DEF Seed

LEMMA AckedQueue ==
  ASSUME QueueT, NEW N, queue' = [i \in 1..Len(queue) |->
                                   [queue[i] EXCEPT !.acked = @ \/ i \in N]]
  PROVE  QueueT'
<1>1. \A i \in 1..Len(queue) : queue[i] \in Notice
  BY DEF QueueT
<1>2. \A i \in 1..Len(queue) : [queue[i] EXCEPT !.acked = @ \/ i \in N] \in Notice
  BY <1>1 DEF Notice
<1>3. Len(queue) \in Nat /\ queue' \in [1..Len(queue) -> Notice]
  BY <1>2 DEF QueueT
<1>4. queue' \in Seq(Notice) /\ Len(queue') = Len(queue)
  BY <1>3
<1>5. QED
  BY <1>4 DEF QueueT

LEMMA AckStory ==
  ASSUME IInv, NEW t \in Tabs, tab[t].outcome = "ack", CommitOnAck(t)
  PROVE  StoryT' /\ \A k \in Keys : Fair(story'[k].mark, k)
<1> DEFINE b == tab[t].batch
           hit == {k \in Unpushed : b.op = "insert" /\ Id(k) \in b.ids}
           m == [by |-> "system", count |-> 1]
<1>1. m \in Mark
  BY StoryAssumption DEF Mark, Marks
<1>2. \A k \in hit : /\ k \in Keys /\ story[k] \in Row
                     /\ story[k].mark \in Mark /\ story[k].mark.count = 0
  BY DEF IInv, StoryT, Row, Marked, Fair, Unpushed, Live
<1>3. \A k \in hit : [story[k] EXCEPT !.mark = Bumped(@, "system")]
                       = [story[k] EXCEPT !.mark = m]
  BY <1>2 DEF Bumped, Row
<1>4. story' = [k \in Keys |-> IF k \in hit THEN [story[k] EXCEPT !.mark = m] ELSE story[k]]
  BY <1>3 DEF CommitOnAck
<1>5. \A k \in hit : [story[k] EXCEPT !.mark = m] \in Row
                     /\ [story[k] EXCEPT !.mark = m].mark = m
                     /\ [story[k] EXCEPT !.mark = m].gen = story[k].gen
                     /\ [story[k] EXCEPT !.mark = m].live = story[k].live
  BY <1>1, <1>2 DEF Row
<1>6. ASSUME NEW k \in hit PROVE Fair(m, k)
  <2>1. Id(k) \in told /\ Id(k) \in Ids
    BY LiveIds DEF IInv, Landed, Unpushed
  <2>2. Reached(k)
    BY <2>1 DEF Reached, Id, Ids
  <2>3. consumed[k] \in Nat
    BY <1>2, <1>6 DEF IInv, CountT
  <2>4. QED
    BY <2>2, <2>3 DEF Fair
<1>7. \A k \in Keys : story[k] \in Row /\ (story[k].live => story[k].gen > 0)
                      /\ Fair(story[k].mark, k)
  BY DEF IInv, StoryT, Marked
<1> HIDE DEF m, hit
<1>8. QED
  BY <1>4, <1>5, <1>6, <1>7 DEF StoryT

LEMMA OutcomeInv == ASSUME IInv, NEW t \in Tabs, Outcome(t) PROVE IInv'
<1>1. TabT' /\ TabLanded'
  <2>1. Settled(t) \in Call /\ Settled(t).outcome = "none"
    BY IdleTyped DEF Settled, Idle, Call
  <2>2. QED
    BY <2>1, TabStep DEF Outcome, receiver
<1>2. ClockT' /\ FaultT' /\ now' = now
  BY DEF Outcome, IInv, ClockT, FaultT
<1>3. CASE tab[t].outcome = "ack" /\ CommitOnAck(t)
  <2>1. StoryT' /\ \A k \in Keys : Fair(story'[k].mark, k)
    BY <1>3, AckStory
  <2>2. tab[t].batch \in Batch /\ tab[t].batch.advance \in Positions
    BY DEF IInv, TabT, Call, Batch
  <2>3. cursor' = IF cursor < tab[t].batch.advance THEN tab[t].batch.advance ELSE cursor
    BY <1>3 DEF CommitOnAck
  <2>4. CursorT' /\ (cursor' = 0 => cursor = 0)
    BY <2>2, <2>3 DEF IInv, CursorT, Positions
  <2>5. QueueT'
    BY <1>3, AckedQueue DEF IInv, CommitOnAck
  <2>6. Clock'
    BY <1>2, <2>4 DEF IInv, Clock
  <2>7. QED
    BY <1>1, <1>2, <2>1, <2>4, <2>5, <2>6, CallFrame DEF Outcome
<1>4. CASE UNCHANGED <<story, cursor, queue>>
  <2>1. StoryT' /\ CursorT' /\ QueueT' /\ Clock' /\ \A k \in Keys : Fair(story'[k].mark, k)
    BY <1>2, <1>4 DEF IInv, StoryT, CursorT, QueueT, Clock, Marked
  <2>2. QED
    BY <1>1, <1>2, <2>1, CallFrame DEF Outcome
<1>5. QED
  BY <1>3, <1>4 DEF Outcome

LEMMA ServeInv == ASSUME IInv, NEW t \in Tabs, Serve(t) PROVE IInv'
BY OutcomeInv, FinishInv, ClaimNoticeInv, SeedInv, ReadCursorInv, EmitStoriesInv
   DEF Serve, Paused, EmitNothing

-----------------------------------------------------------------------------
(* The Send button.                                                        *)

LEMMA SendStep ==
  ASSUME IInv, NEW a \in Analysts, NEW r \in Sending,
         send' = [send EXCEPT ![a] = r],
         r.pc = "off" => ~r.ledger, r.pc # "off" => r.id \in Ids
  PROVE  /\ SendT' /\ Told'
         /\ \A b \in Analysts : send'[b] = IF b = a THEN r ELSE send[b]
         /\ \A b \in Analysts : send'[b].pc = "off" => ~send'[b].ledger
         /\ Open' = IF r.ledger THEN Open \cup {a} ELSE Open \ {a}
<1>1. SendT' /\ \A b \in Analysts : send'[b] = IF b = a THEN r ELSE send[b]
  BY DEF IInv, SendT
<1>2. Told' /\ \A b \in Analysts : send'[b].pc = "off" => ~send'[b].ledger
  BY <1>1 DEF IInv, Told, Ledgers
<1>3. \A b \in Analysts : send'[b].ledger <=> IF b = a THEN r.ledger ELSE send[b].ledger
  BY <1>1
<1>4. Open' = IF r.ledger THEN Open \cup {a} ELSE Open \ {a}
  <2>1. CASE r.ledger
    BY <1>3, <2>1 DEF Open
  <2>2. CASE ~r.ledger
    BY <1>3, <2>2 DEF Open
  <2>3. QED
    BY <2>1, <2>2
<1>5. QED
  BY <1>1, <1>2, <1>4

\* What each kind of step does to the number of open ledger rows.
LEMMA OpenCount ==
  ASSUME IInv, NEW a \in Analysts
  PROVE  /\ Cardinality(Open) \in Nat
         /\ IsFiniteSet(Open \cup {a}) /\ IsFiniteSet(Open \ {a})
         /\ ~send[a].ledger => Cardinality(Open \cup {a}) = Cardinality(Open) + 1
         /\ send[a].ledger => Open \cup {a} = Open
         /\ send[a].ledger => Cardinality(Open \ {a}) = Cardinality(Open) - 1
         /\ ~send[a].ledger => Open \ {a} = Open
<1>1. IsFiniteSet(Open) /\ Cardinality(Open) \in Nat
  BY FS_CardinalityType DEF IInv, Ledgers
<1>2. a \in Open <=> send[a].ledger
  BY DEF Open
<1>3. /\ IsFiniteSet(Open \cup {a})
      /\ a \notin Open => Cardinality(Open \cup {a}) = Cardinality(Open) + 1
  BY <1>1, FS_AddElement
<1>4. /\ IsFiniteSet(Open \ {a})
      /\ a \in Open => Cardinality(Open \ {a}) = Cardinality(Open) - 1
  BY <1>1, FS_RemoveElement
<1>5. send[a].ledger => Open \cup {a} = Open
  BY <1>2
<1>6. ~send[a].ledger => Open \ {a} = Open
  BY <1>2
<1>7. QED
  BY <1>1, <1>2, <1>3, <1>4, <1>5, <1>6

LEMMA SendFrame ==
  ASSUME IInv, UNCHANGED <<store, tab, late, consumed>>, told \subseteq told',
         ReceiverT', SendT', CountT', FaultT', SendLanded', Ledgers', Told'
  PROVE  IInv'
<1>1. StoryT' /\ TxT' /\ ClockT' /\ CursorT' /\ QueueT' /\ TabT' /\ Clock'
  BY DEF store, IInv, StoryT, TxT, ClockT, CursorT, QueueT, TabT, Clock
<1>2. /\ \A k \in Keys : consumed[k] <= consumed'[k]
      /\ \A k \in Keys : Fair(story'[k].mark, k)
      /\ \A w \in Writers : \A k \in Keys : Fair(tx'[w].marks[k], k)
  BY DEF store, IInv, Marked, CountT
<1>3. Marked'
  BY <1>1, <1>2, MarkedStep
<1>4. Landed'
  BY DEF IInv, Landed, SendLanded
<1>5. QED
  BY <1>1, <1>3, <1>4 DEF IInv

LEMMA MintInv ==
  ASSUME IInv, NEW a \in Analysts, NEW k \in Keys, Mint(a, k) PROVE IInv'
<1> DEFINE r == [pc |-> "posted", id |-> Id(k), ledger |-> TRUE]
<1>1. Id(k) \in Ids
  BY LiveIds DEF Mint, Live
<1>2. r \in Sending /\ r.pc = "posted" /\ r.id = Id(k) /\ r.ledger
  BY <1>1 DEF Sending
<1>3. send' = [send EXCEPT ![a] = r] /\ mints' = mints + 1 /\ mints < MaxMints
      /\ ~send[a].ledger
  BY DEF Mint, IInv, Ledgers
<1> HIDE DEF r
<1>4. /\ SendT' /\ Told'
      /\ \A b \in Analysts : send'[b] = IF b = a THEN r ELSE send[b]
      /\ \A b \in Analysts : send'[b].pc = "off" => ~send'[b].ledger
      /\ Open' = Open \cup {a}
  BY <1>1, <1>2, <1>3, SendStep
<1>5. CountT'
  BY <1>3, StoryAssumption DEF Mint, IInv, CountT
<1>6. Ledgers'
  <2>1. IsFiniteSet(Open') /\ Cardinality(Open') = Cardinality(Open) + 1
          /\ Cardinality(Open) \in Nat
    BY <1>3, <1>4, OpenCount
  <2>2. \A j \in Keys : consumed'[j] + Cardinality(Open') <= mints'
    BY <1>3, <2>1 DEF Mint, IInv, Ledgers, CountT
  <2>3. QED
    BY <1>4, <2>1, <2>2 DEF Ledgers
<1>7. SendLanded' /\ ReceiverT' /\ FaultT'
  BY <1>2, <1>4 DEF Mint, receiver, store, SendLanded, IInv, Landed, ReceiverT, FaultT
<1>8. QED
  BY <1>4, <1>5, <1>6, <1>7, SendFrame DEF Mint, receiver

LEMMA FewerLedgers ==
  ASSUME IInv, NEW a \in Analysts, NEW r \in Sending,
         send' = [send EXCEPT ![a] = r], UNCHANGED <<mints, consumed>>,
         r.pc = "off" => ~r.ledger, r.pc # "off" => r.id \in Ids,
         r.ledger => send[a].ledger
  PROVE  SendT' /\ Told' /\ Ledgers' /\ CountT'
<1>1. /\ SendT' /\ Told'
      /\ \A b \in Analysts : send'[b].pc = "off" => ~send'[b].ledger
      /\ Open' = IF r.ledger THEN Open \cup {a} ELSE Open \ {a}
  BY SendStep
<1>2. IsFiniteSet(Open') /\ Cardinality(Open') \in Nat
        /\ Cardinality(Open') <= Cardinality(Open) /\ Cardinality(Open) \in Nat
  <2>1. IsFiniteSet(Open') /\ Open' \subseteq Open
    BY <1>1, OpenCount
  <2>2. QED
    BY <2>1, OpenCount, FS_Subset, FS_CardinalityType DEF IInv, Ledgers
<1>3. CountT'
  BY DEF IInv, CountT
<1>4. \A j \in Keys : consumed'[j] + Cardinality(Open') <= mints'
  BY <1>2 DEF IInv, Ledgers, CountT
<1>5. QED
  BY <1>1, <1>2, <1>3, <1>4 DEF Ledgers

LEMMA LandInv == ASSUME IInv, NEW a \in Analysts, Land(a) PROVE IInv'
<1> DEFINE r == [send[a] EXCEPT !.pc = "landed"]
<1>1. send[a] \in Sending /\ send[a].id \in Ids
  BY DEF Land, IInv, SendT, Told
<1>2. r \in Sending /\ r.pc = "landed" /\ r.id = send[a].id /\ r.ledger = send[a].ledger
  BY <1>1 DEF Sending
<1>3. send' = [send EXCEPT ![a] = r]
  BY DEF Land
<1> HIDE DEF r
<1>4. SendT' /\ Told' /\ Ledgers' /\ CountT'
  BY <1>1, <1>2, <1>3, FewerLedgers DEF Land
<1>5. told' = told \cup {send[a].id} /\ late' = late
  BY DEF Land, Arrive
<1>6. \A b \in Analysts : send'[b] = IF b = a THEN r ELSE send[b]
  BY <1>3 DEF IInv, SendT
<1>7. SendLanded' /\ ReceiverT' /\ FaultT'
  BY <1>1, <1>2, <1>5, <1>6
     DEF Land, store, SendLanded, IInv, Landed, ReceiverT, FaultT
<1>8. QED
  BY <1>4, <1>5, <1>7, SendFrame DEF Land

LEMMA DropInv ==
  ASSUME IInv, NEW a \in Analysts, DropSend(a) \/ LedgerExpires(a) PROVE IInv'
<1> DEFINE e == [send[a] EXCEPT !.ledger = FALSE]
<1>1. send[a] \in Sending /\ (send[a].pc # "off" => send[a].id \in Ids)
  BY DEF IInv, SendT, Told
<1>2. e \in Sending /\ e.pc = send[a].pc /\ e.id = send[a].id /\ ~e.ledger
  BY <1>1 DEF Sending
<1>3. Resting \in Sending /\ Resting.pc = "off" /\ ~Resting.ledger
  BY IdleTyped DEF Resting
<1>4. PICK r \in {e, Resting} : send' = [send EXCEPT ![a] = r]
  BY DEF DropSend, LedgerExpires
<1>5. UNCHANGED <<store, tab, told, late, mints, consumed>>
  BY DEF DropSend, LedgerExpires, receiver
<1> HIDE DEF e
<1>6. SendT' /\ Told' /\ Ledgers' /\ CountT'
  BY <1>1, <1>2, <1>3, <1>4, <1>5, FewerLedgers
<1>7. \A b \in Analysts : send'[b] = IF b = a THEN r ELSE send[b]
  BY <1>4 DEF IInv, SendT
<1>8. SendLanded' /\ ReceiverT'
  BY <1>2, <1>3, <1>5, <1>7 DEF SendLanded, IInv, Landed, ReceiverT
<1>9. FaultT'
  BY Faulty DEF DropSend, LedgerExpires, store, IInv, FaultT
<1>10. QED
  BY <1>5, <1>6, <1>8, <1>9, SendFrame

LEMMA AckManualInv == ASSUME IInv, NEW a \in Analysts, AckManual(a) PROVE IInv'
<1> DEFINE r == [send[a] EXCEPT !.ledger = FALSE]
<1>1. PICK k \in Live :
        /\ Id(k) = send[a].id
        /\ story' = [story EXCEPT ![k].mark = Bumped(@, a)]
        /\ consumed' = [consumed EXCEPT ![k] = @ + 1]
  BY DEF AckManual
<1>2. send[a] \in Sending /\ send[a].id \in told /\ send[a].id \in Ids /\ send[a].ledger
  BY DEF AckManual, IInv, SendT, Told, Landed
<1>3. r \in Sending /\ r.pc = send[a].pc /\ r.id = send[a].id /\ ~r.ledger
  BY <1>2 DEF Sending
<1>4. send' = [send EXCEPT ![a] = r]
  BY DEF AckManual
<1> HIDE DEF r
<1>5. /\ SendT' /\ Told'
      /\ \A b \in Analysts : send'[b] = IF b = a THEN r ELSE send[b]
      /\ \A b \in Analysts : send'[b].pc = "off" => ~send'[b].ledger
      /\ Open' = Open \ {a}
  BY <1>2, <1>3, <1>4, SendStep
<1>6. IsFiniteSet(Open') /\ Cardinality(Open') = Cardinality(Open) - 1
        /\ Cardinality(Open) \in Nat /\ Cardinality(Open') \in Nat
  BY <1>2, <1>5, OpenCount, FS_CardinalityType
<1>7. k \in Keys /\ mints' = mints /\ mints \in 0..MaxMints /\ MaxMints \in Nat
  BY StoryAssumption DEF AckManual, Live, IInv, CountT
<1>8. \A j \in Keys : /\ consumed[j] \in Nat
                      /\ consumed'[j] = IF j = k THEN consumed[j] + 1 ELSE consumed[j]
                      /\ consumed[j] + Cardinality(Open) <= mints
  BY <1>1 DEF IInv, CountT, Ledgers
<1>9. \A j \in Keys : consumed'[j] + Cardinality(Open') <= mints'
  BY <1>6, <1>7, <1>8
<1>10. Ledgers'
  BY <1>5, <1>6, <1>9 DEF Ledgers
<1>11. CountT' /\ \A j \in Keys : consumed[j] <= consumed'[j]
  <2>1. \A j \in Keys : consumed'[j] \in 0..MaxMints
    BY <1>6, <1>7, <1>8, <1>9
  <2>2. consumed' \in [Keys -> 0..MaxMints]
    BY <1>1, <2>1 DEF IInv, CountT
  <2>3. QED
    BY <1>7, <1>8, <2>2 DEF CountT
<1> DEFINE m == Bumped(story[k].mark, a)
           row == [story[k] EXCEPT !.mark = m]
<1>12. story[k] \in Row /\ story[k].mark \in Mark /\ Fair(story[k].mark, k)
  BY <1>7 DEF IInv, StoryT, Row, Marked
<1>13. m.by = a /\ m.count = story[k].mark.count + 1 /\ m.count \in Nat \ {0}
         /\ m.count <= consumed[k] + 2
  BY <1>7, <1>8, <1>12 DEF Bumped, Fair, Mark
<1>14. a # "none" /\ a # "system" /\ a \in Marks
  BY StoryAssumption DEF Marks
<1>15. m \in Mark
  <2>1. consumed'[k] = consumed[k] + 1 /\ consumed'[k] <= MaxMints
    BY <1>7, <1>8, <1>11 DEF CountT
  <2>2. m.count \in 0..(MaxMints + 1)
    BY <1>7, <1>8, <1>13, <2>1
  <2>3. QED
    BY <1>14, <1>13, <2>2 DEF Bumped, Mark
<1>16. row \in Row /\ row.mark = m /\ row.live = story[k].live /\ row.gen = story[k].gen
  BY <1>12, <1>15 DEF Row
<1>17. story' = [story EXCEPT ![k] = row]
  BY <1>1
<1> HIDE DEF m, row
<1>18. StoryT' /\ \A j \in Keys : story'[j] = IF j = k THEN row ELSE story[j]
  BY <1>7, <1>16, <1>17 DEF IInv, StoryT
<1>19. told' = told /\ UNCHANGED <<tx, tab, late>>
  BY DEF AckManual, receiver
<1>20. Reached(k)
  BY <1>1, <1>2 DEF Reached, Id, Ids
<1>21. Fair(story[k].mark, k)'
  <2>1. Reached(k)'
    BY <1>19, <1>20 DEF Reached
  <2>2. story'[k].mark = m /\ consumed'[k] = consumed[k] + 1
    BY <1>7, <1>8, <1>16, <1>18
  <2>3. m.by # "none" /\ m.count # 0 /\ m.by # "system" /\ m.count <= consumed'[k] + 1
    BY <1>7, <1>8, <1>13, <1>14, <2>2
  <2>4. QED
    BY <2>1, <2>2, <2>3 DEF Fair
<1>22. \A j \in Keys : Fair(story'[j].mark, j) \/ Fair(story[j].mark, j)'
  BY <1>18, <1>21 DEF IInv, Marked
<1>23. TxT' /\ \A w \in Writers : \A j \in Keys : Fair(tx'[w].marks[j], j)
  BY <1>19 DEF IInv, TxT, Marked
<1>24. Marked'
  BY <1>11, <1>18, <1>19, <1>22, <1>23, MarkedStep
<1>25. Landed'
  BY <1>2, <1>3, <1>5, <1>19 DEF IInv, Landed
<1>26. ClockT' /\ CursorT' /\ QueueT' /\ TabT' /\ ReceiverT' /\ FaultT' /\ Clock'
  BY <1>19 DEF AckManual, IInv, ClockT, CursorT, QueueT, TabT, ReceiverT, FaultT, Clock
<1>27. QED
  BY <1>5, <1>10, <1>11, <1>18, <1>23, <1>24, <1>25, <1>26 DEF IInv

LEMMA PressInv == ASSUME IInv, NEW a \in Analysts, Press(a) PROVE IInv'
BY MintInv, LandInv, DropInv, AckManualInv DEF Press

-----------------------------------------------------------------------------
(* The theorems.                                                           *)

LEMMA InitInv == Init => IInv
<1> SUFFICES ASSUME Init PROVE IInv
  OBVIOUS
<1> DEFINE r == [live |-> FALSE, gen |-> 0, at |-> 0, mark |-> Unsent]
<1>1. r \in Row /\ ~r.live /\ r.mark = Unsent
  BY UnsentFair, Zeros DEF Row
<1>2. StoryT
  BY <1>1 DEF Init, StoryT
<1>3. TxT /\ TabT /\ SendT
  BY ClosedTyped, IdleTyped DEF Init, TxT, TabT, SendT
<1>4. ClockT /\ CursorT /\ FaultT /\ CountT /\ Clock
  BY Zeros, StoryAssumption DEF Init, ClockT, CursorT, FaultT, CountT, Clock
<1>5. ReceiverT /\ Landed /\ Told
  BY DEF Init, ReceiverT, Landed, Told, Idle, Resting
<1>6. QueueT
  BY StoryAssumption DEF Init, QueueT
<1>7. Open = {}
  BY DEF Init, Open, Resting
<1>8. IsFiniteSet(Open) /\ Cardinality(Open) = 0
  BY <1>7, FS_EmptySet
<1>9. Ledgers
  BY <1>8 DEF Init, Ledgers, Resting
<1>10. Marked
  BY <1>1, ClosedTyped DEF Init, Marked, Fair, Unsent
<1>11. QED
  BY <1>2, <1>3, <1>4, <1>5, <1>6, <1>9, <1>10 DEF IInv

LEMMA StepInv == ASSUME IInv, [Next]_vars PROVE IInv'
<1>1. CASE UNCHANGED vars
  <2>1. UNCHANGED <<store, tab, send, mints, told, late, faults, consumed>>
    BY <1>1 DEF vars, receiver
  <2>2. ReceiverT' /\ TabT' /\ FaultT' /\ TabLanded'
    BY <2>1 DEF store, IInv, ReceiverT, TabT, FaultT, Landed, TabLanded
  <2>3. QED
    BY <2>1, <2>2, TabFrame
<1>2. QED
  BY <1>1, StartInv, DeliverInv, InterruptInv, PruneInv, ServeInv, LateArrivesInv,
     PressInv, WriteInv, PauseInv DEF Next

LEMMA Holds == Spec => []IInv
<1>1. Init => IInv
  BY InitInv
<1>2. IInv /\ [Next]_vars => IInv'
  BY StepInv
<1>3. QED
  BY <1>1, <1>2, PTL DEF Spec

\* Every state of the push is well typed; in particular the clock, the cursor,
\* the counts of sends and the ledger stay within what the writers, the mints
\* and the stories can produce (TypeOK).
THEOREM StoryTyped == Spec => []TypeOK
BY Holds, TypeFollows, PTL

\* No story is shown as sent that aimer-web has not received, and its count is
\* one for the drain and one for each ledger row consumed, for any number of
\* tabs, analysts, stories and rebuilds, whichever batches are lost, late or
\* acknowledged twice (MarksAreTrue).
THEOREM MarksStayTrue == Spec => []MarksAreTrue
<1>1. IInv => MarksAreTrue
  BY DEF IInv, Marked, Fair, MarksAreTrue, Live
<1>2. QED
  BY <1>1, Holds, PTL

AnalystStays ==
  \A k \in Keys :
    story[k].mark.by \in Analysts /\ story'[k].gen = story[k].gen =>
      story'[k].mark.by # "system"

LEMMA Reborn ==
  ASSUME IInv, NEW k \in Keys, NEW at, NEW m, story'[k] = Insert(k, at, m)
  PROVE  story'[k].gen # story[k].gen
BY DEF Insert, IInv, StoryT, Row

LEMMA AnalystStep == ASSUME IInv, [Next]_vars PROVE AnalystStays
<1>1. /\ story \in [Keys -> Row] /\ "system" \notin Analysts /\ "none" \notin Analysts
      /\ Refreshed \subseteq Keys
  BY StoryAssumption DEF IInv, StoryT
<1>2. CASE UNCHANGED story
  BY <1>1, <1>2 DEF AnalystStays
<1>3. ASSUME NEW w \in Writers, NEW k \in Keys, CommitPage(w, k) PROVE AnalystStays
  <2>1. \A j \in Keys : j # k => story'[j] = story[j]
    BY <1>1, <1>3 DEF CommitPage
  <2>2. story'[k] = Insert(k, tx[w].at, Unsent)
    BY <1>1, <1>3 DEF CommitPage
  <2>3. story'[k].gen # story[k].gen
    BY <2>2, Reborn
  <2>4. QED
    BY <1>1, <2>1, <2>3 DEF AnalystStays
<1>4. ASSUME NEW S \in SUBSET Refreshed, CommitRebuild(S) PROVE AnalystStays
  <2>1. ASSUME NEW k \in Keys, story[k].mark.by \in Analysts,
               story'[k].gen = story[k].gen
        PROVE  story'[k].mark.by # "system"
    <3>1. CASE k \notin Refreshed
      BY <1>1, <1>4, <2>1, <3>1 DEF CommitRebuild
    <3>2. CASE k \in S
      <4>1. story'[k] = Insert(k, tx["cadence"].at, tx["cadence"].marks[k])
        BY <1>4, <3>2 DEF CommitRebuild
      <4>2. QED
        BY <2>1, <4>1, Reborn
    <3>3. CASE k \in Refreshed \ S
      <4>1. story'[k] = [story[k] EXCEPT !.live = FALSE, !.at = 0, !.mark = Unsent]
        BY <1>4, <3>3 DEF CommitRebuild
      <4>2. story[k] \in Row
        BY <1>1
      <4>3. story'[k].mark = Unsent
        BY <4>1, <4>2 DEF Row
      <4>4. QED
        BY <4>3 DEF Unsent
    <3>4. QED
      BY <3>1, <3>2, <3>3
  <2>2. QED
    BY <2>1 DEF AnalystStays
<1>5. ASSUME NEW t \in Tabs, CommitOnAck(t) PROVE AnalystStays
  <2>1. \A k \in Keys : story[k].mark.by # "none" => story'[k] = story[k]
    BY <1>5 DEF CommitOnAck, Unpushed
  <2>2. QED
    BY <1>1, <2>1 DEF AnalystStays
<1>6. ASSUME NEW a \in Analysts, AckManual(a) PROVE AnalystStays
  <2>1. PICK k \in Live : story' = [story EXCEPT ![k].mark = Bumped(@, a)]
    BY <1>6 DEF AckManual
  <2>2. \A j \in Keys : story'[j] = story[j] \/ story'[j].mark.by = a
    BY <1>1, <2>1 DEF Live, Row, Bumped
  <2>3. QED
    BY <1>1, <2>2 DEF AnalystStays
<1>7. ASSUME NEW t \in Tabs, Serve(t) PROVE AnalystStays
  BY <1>2, <1>5, <1>7 DEF Serve, Outcome, Paused, ClaimNotice, Seed, ReadCursor,
     EmitStories, EmitNothing, Finish, store
<1>8. ASSUME Write PROVE AnalystStays
  BY <1>2, <1>3, <1>4, <1>8 DEF Write, BeginPage, Rollback, BeginRebuild, Backfill
<1>9. ASSUME NEW a \in Analysts, Press(a) PROVE AnalystStays
  BY <1>2, <1>6, <1>9 DEF Press, Mint, Land, DropSend, LedgerExpires, store
<1>10. ASSUME NEW t \in Tabs, Start(t) \/ Deliver(t) \/ Interrupt(t) \/ Prune(t)
       PROVE  AnalystStays
  BY <1>2, <1>10 DEF Start, Deliver, Interrupt, Prune, store
<1>11. ASSUME LateArrives \/ Pause \/ Resume \/ UNCHANGED vars PROVE AnalystStays
  BY <1>2, <1>11 DEF LateArrives, Pause, Resume, vars, store
<1>12. QED
  BY <1>7, <1>8, <1>9, <1>10, <1>11 DEF Next

\* The drain never takes a story from the analyst who sent it, for any number
\* of tabs and analysts, whichever acknowledgement comes first (AnalystKept).
THEOREM AnalystIsKept == Spec => AnalystKept
<1>1. IInv /\ [Next]_vars => [AnalystStays]_vars
  BY AnalystStep
<1>2. Spec => [][AnalystStays]_vars
  BY <1>1, Holds, PTL DEF Spec
<1>3. QED
  BY <1>2 DEF AnalystKept, AnalystStays
=============================================================================
