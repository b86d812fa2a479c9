---------------------------- MODULE BaselinePush ----------------------------
(***************************************************************************)
(* The push of the baseline corpus to aimer-web: POST                       *)
(* /api/aimer/phase2/baseline-event/next-batch, the cursor, the notice      *)
(* queue and the in-flight records of one customer                          *)
(* (src/lib/aimer/phase2/state.ts), and the writers that change the corpus  *)
(* and queue notices in the same transaction: the cadence, the retroactive  *)
(* delete of an exclusion, the Force Rebuild and the operator's backfill.   *)
(*                                                                          *)
(* Rows are numbered by (event_time, event_key).  A payload's bytes are     *)
(* counted in rows.  Every row has the one baseline_version in use.         *)
(***************************************************************************)
EXTENDS PushTransport, FiniteSets, Sequences

CONSTANTS Page,        \* rows a streaming slice may carry
          QueueRows,   \* rows a window notice may carry when it is queued
          WindowRows,  \* rows it may carry once enriched for the push
          MaxPeek,     \* withdraw notices sent together
          MaxNotices,  \* bound: notices queued by the writers
          Spans,       \* the windows <<from, to>> an operator asks for
          Floor        \* Floor[k]: the cursor once row k is acknowledged

\* The cursor is read back through a JavaScript Date: a row whose event_time
\* is not a whole millisecond stays past the cursor it leaves.
ASSUME PushAssumption ==
  /\ Page \in Nat \ {0} /\ QueueRows \in Nat \ {0} /\ WindowRows \in Nat \ {0}
  /\ MaxPeek \in Nat \ {0} /\ MaxNotices \in Nat
  /\ Spans \subseteq Keys \X Keys
  /\ Floor \in [Keys -> 0..NumKeys]
  /\ \A k \in Keys : Floor[k] <= k

VARIABLES corpus,    \* baseline_triaged_event: the version of each row
          frontier,  \* the cadence has listed the events up to here
          cursor,    \* aimer_push_state.last_pushed_event_*
          queue,     \* aimer_push_queue, in the order of id
          inflight,  \* aimer_push_inflight: the record of each tab's batch
          seen,      \* per tab: what its call has read
          enabled,   \* opportunistic_enabled
          overtaken, \* history: rows the cadence committed behind a later row
          crossed    \* history: a batch was made or a tail queued out of order

storeVars == <<corpus, frontier, cursor, queue, inflight, seen, enabled,
               overtaken, crossed>>
vars == <<transportVars, storeVars>>

Notice == [op : {"withdraw", "window"}, rows : Rows, acked : BOOLEAN]
NoRecord == [ids |-> {}, advance |-> 0, tails |-> <<>>]
NothingSeen == [cursor |-> 0, ids |-> {}, more |-> FALSE]

TypeOK ==
  /\ TransportTypeOK
  /\ corpus \in [Keys -> Version]
  /\ frontier \in 0..NumKeys /\ cursor \in 0..NumKeys
  /\ queue \in Seq(Notice)
  /\ inflight \in [Tabs -> [ids : SUBSET (1..Len(queue)), advance : 0..NumKeys,
                            tails : Seq([op : {"window"}, rows : Rows,
                                         acked : {FALSE}])]]
  /\ seen \in [Tabs -> [cursor : 0..NumKeys, ids : SUBSET (1..Len(queue)),
                        more : BOOLEAN]]
  /\ enabled \in BOOLEAN
  /\ overtaken \in SUBSET Keys
  /\ crossed \in BOOLEAN

Init ==
  /\ TransportInit
  /\ corpus = [k \in Keys |-> 0]
  /\ frontier = 0 /\ cursor = 0
  /\ queue = <<>>
  /\ inflight = [t \in Tabs |-> NoRecord]
  /\ seen = [t \in Tabs |-> NothingSeen]
  /\ enabled = TRUE
  /\ overtaken = {}
  /\ crossed = FALSE

-----------------------------------------------------------------------------
(* Reading the store. *)

Pending == {i \in 1..Len(queue) : ~queue[i].acked}
PastCursor(c) == {k \in Keys : Present(corpus[k]) /\ k > c}

First(S, n) == {k \in S : Cardinality({j \in S : j <= k}) <= n}

\* Fault: the newest notice first.
ClaimableNewestFirst == {i \in Pending : \A j \in Pending : j <= i}

\* The notices one call takes: the oldest pending one, and with a withdrawal
\* the withdrawals that follow it without another notice between.
Claimable ==
  {i \in Pending :
     LET before == {j \in Pending : j < i}
     IN before # {} => /\ \A j \in before \cup {i} : queue[j].op = "withdraw"
                       /\ Cardinality(before) < MaxPeek}

\* Adjacent sub-windows of at most max rows: part n of a window.  A key with no
\* row lies in the sub-window of the row before it.
PartNumber(rank, max) == IF rank = 0 THEN 1 ELSE ((rank - 1) \div max) + 1
Existing(rows) == {p \in rows : Present(p[2])}
PartOf(rows, max, k) ==
  PartNumber(Cardinality({p \in Existing(rows) : p[1] <= k}), max)
Parts(rows, max) == PartNumber(Cardinality(Existing(rows)), max)
Part(rows, max, n) == {p \in rows : PartOf(rows, max, p[1]) = n}

\* The notices of the parts after the first `skip`.
Windows(rows, max, skip) ==
  [n \in 1..(Parts(rows, max) - skip) |->
     [op |-> "window", rows |-> Part(rows, max, n + skip), acked |-> FALSE]]

-----------------------------------------------------------------------------
(* The writers. *)

\* A cadence pass commits the events it lists next; a row that is there already
\* (ON CONFLICT DO NOTHING) or was deleted for an exclusion is left alone.
CadenceInsert(S, to) ==
  /\ frontier < to
  /\ S = {k \in S : frontier < k /\ k <= to /\ corpus[k] = 0}
  /\ frontier' = to
  /\ corpus' = [k \in Keys |-> IF k \in S THEN 1 ELSE corpus[k]]
  /\ overtaken' = overtaken \cup
                  {k \in S : \E j \in Keys : j > k /\ corpus[j] # 0}
  /\ UNCHANGED <<transportVars, cursor, queue, inflight, seen, enabled, crossed>>

\* A transaction of an exclusion's retroactive delete: a batch of each of its
\* statements (a host name has two), each with its own withdrawal.
Withdrawal(S) ==
  IF S = {} THEN <<>>
  ELSE <<[op |-> "withdraw", rows |-> {<<k, corpus[k] + 1>> : k \in S}, acked |-> FALSE]>>

ExclusionDelete(S, T) ==
  /\ S # {} /\ S \cap T = {}
  /\ \A k \in S \cup T : Present(corpus[k]) /\ corpus[k] < MaxVersion
  /\ Len(queue) < MaxNotices
  /\ corpus' = [k \in Keys |-> IF k \in S \cup T THEN corpus[k] + 1 ELSE corpus[k]]
  /\ queue' = queue \o Withdrawal(S) \o Withdrawal(T)
  /\ UNCHANGED <<transportVars, frontier, cursor, inflight, seen, enabled,
                 overtaken, crossed>>

\* A Force Rebuild deletes the rows of a window and inserts what review lists
\* now: rows come back with another score, or not at all, or for the first time.
Rebuild(from, to, S) ==
  LET W == from..to
      new == [k \in W |->
                CASE Present(corpus[k]) -> corpus[k] + (IF k \in S THEN 2 ELSE 1)
                  [] corpus[k] = 0 /\ k \in S -> 1
                  [] OTHER -> corpus[k]]
  IN /\ from <= to /\ S \subseteq W
     /\ \A k \in W : new[k] <= MaxVersion
     /\ \A k \in S : Present(corpus[k]) \/ corpus[k] = 0
     /\ Len(queue) < MaxNotices
     /\ corpus' = [k \in Keys |-> IF k \in W THEN new[k] ELSE corpus[k]]
     /\ queue' = queue \o Windows(RowsOf(new, W), QueueRows, 0)
     /\ UNCHANGED <<transportVars, frontier, cursor, inflight, seen, enabled,
                    overtaken, crossed>>

\* An operator queues a window of the corpus as it stands.
Backfill(from, to) ==
  /\ from <= to /\ Len(queue) < MaxNotices
  /\ queue' = queue \o Windows(RowsOf(corpus, from..to), QueueRows, 0)
  /\ UNCHANGED <<transportVars, corpus, frontier, cursor, inflight, seen,
                 enabled, overtaken, crossed>>

Pause ==
  /\ enabled /\ Fault
  /\ enabled' = FALSE
  /\ UNCHANGED <<tab, late, mirror, told, corpus, frontier, cursor, queue,
                 inflight, seen, overtaken, crossed>>

Resume ==
  /\ ~enabled
  /\ enabled' = TRUE
  /\ UNCHANGED <<transportVars, corpus, frontier, cursor, queue, inflight, seen,
                 overtaken, crossed>>

-----------------------------------------------------------------------------
(* The next-batch call. *)

Overlap(rows, other) == KeysOf(rows) \cap KeysOf(other) # {}

\* Fault: the tails that ride on the record are not queued.
CommitDroppingTails(t) ==
  LET r == inflight[t] IN
  /\ cursor' = IF cursor < r.advance THEN r.advance ELSE cursor
  /\ queue' = [i \in 1..Len(queue) |-> [queue[i] EXCEPT !.acked = @ \/ i \in r.ids]]
  /\ inflight' = [inflight EXCEPT ![t] = NoRecord]
  /\ UNCHANGED crossed

\* Fault: only the cursor is moved.
CommitCursorOnly(t) ==
  /\ cursor' = IF cursor < inflight[t].advance THEN inflight[t].advance ELSE cursor
  /\ inflight' = [inflight EXCEPT ![t] = NoRecord]
  /\ UNCHANGED <<queue, crossed>>

\* The tails come out of order: behind a newer notice of their rows, or a second
\* time, after another tab has settled the window they are of.
TailsOutOfOrder(r) ==
  \E n \in 1..Len(r.tails) :
    \/ \E i \in r.ids : queue[i].acked
    \/ \E i \in Pending \ r.ids : Overlap(queue[i].rows, r.tails[n].rows)

\* commitOnAck, one transaction: the cursor only ever moves forward, the
\* notices are marked, the tails of a window are queued at the end.
CommitOnAck(t) ==
  LET r == inflight[t] IN
  /\ cursor' = IF cursor < r.advance THEN r.advance ELSE cursor
  /\ queue' = [i \in 1..Len(queue) |->
                 [queue[i] EXCEPT !.acked = @ \/ i \in r.ids]] \o r.tails
  /\ crossed' = (crossed \/ TailsOutOfOrder(r))
  /\ inflight' = [inflight EXCEPT ![t] = NoRecord]

\* Fault: a refused batch is not offered again.
RecordOnFailSkipping(t) == CommitDroppingTails(t)

\* recordOnFail: the record goes, so the same work is claimed again.
RecordOnFail(t) ==
  /\ inflight' = [inflight EXCEPT ![t] = NoRecord]
  /\ UNCHANGED <<cursor, queue, crossed>>

Outcome(t) ==
  /\ tab[t].pc = "outcome"
  /\ CASE tab[t].outcome = "ack" -> CommitOnAck(t)
       [] tab[t].outcome = "fail" -> RecordOnFail(t)
       [] OTHER -> UNCHANGED <<cursor, queue, inflight, crossed>>
  /\ tab' = [tab EXCEPT ![t].pc = "claim", ![t].outcome = "none"]
  /\ UNCHANGED <<late, mirror, told, faults, corpus, frontier, seen, enabled,
                 overtaken>>

Paused(t) ==
  /\ tab[t].pc = "claim" /\ ~enabled
  /\ ReplyNothing(t)
  /\ UNCHANGED <<late, mirror, told, faults, storeVars>>

\* pruneExpiredInflight, then the cursor and the pending notices are read.  A
\* record nobody speaks for is inert, so it is forgotten here whatever its age;
\* one that a tab still speaks for expires only by a fault.
Claim(t) ==
  /\ tab[t].pc = "claim" /\ enabled
  /\ \E expired \in SUBSET {u \in Tabs : Holds(u)} :
       /\ expired # {} => Fault
       /\ expired = {} => UNCHANGED faults
       /\ inflight' = [u \in Tabs |-> IF Holds(u) /\ u \notin expired
                                      THEN inflight[u] ELSE NoRecord]
  /\ seen' = [seen EXCEPT ![t] = [cursor |-> cursor, ids |-> Claimable,
                                  more |-> Pending # Claimable]]
  /\ tab' = [tab EXCEPT ![t].pc = "emit"]
  /\ UNCHANGED <<late, mirror, told, corpus, frontier, cursor, queue, enabled,
                 overtaken, crossed>>

\* The new batch is made out of order: another that shares a row may still
\* arrive, it was claimed before its notices were settled by another tab, or
\* it streams a row that a notice queued since the claim speaks of.
OutOfOrder(ids, rows) ==
  \/ \E e \in Outstanding : Overlap(rows, e.rows)
  \/ \E i \in ids : queue[i].acked
  \/ ids = {} /\ \E i \in Pending : Overlap(rows, queue[i].rows)

Send(t, e, record, more) ==
  /\ inflight' = [inflight EXCEPT ![t] = record]
  /\ Reply(t, e, more)
  /\ crossed' = (crossed \/ (tab[t].mode = "loop"
                              /\ OutOfOrder(record.ids, e.rows)))

\* Notices first: the claimed withdrawals together, or the first part of a
\* window, whose other parts ride on the in-flight record.
EmitNotices(t) ==
  LET ids == seen[t].ids
      streaming == PastCursor(seen[t].cursor) # {}
  IN /\ tab[t].pc = "emit"
     /\ \E head \in ids :
          LET rows == queue[head].rows
              tails == Windows(rows, WindowRows, 1)
          IN /\ \A i \in ids : head <= i
             /\ IF queue[head].op = "withdraw"
                THEN Send(t, [op |-> "set", rows |-> UNION {queue[i].rows : i \in ids}],
                          [ids |-> ids, advance |-> 0, tails |-> <<>>],
                          seen[t].more \/ streaming)
                ELSE Send(t, [op |-> "set", rows |-> Part(rows, WindowRows, 1)],
                          [ids |-> {head}, advance |-> 0, tails |-> tails],
                          seen[t].more \/ tails # <<>> \/ streaming)
     /\ seen' = [seen EXCEPT ![t] = NothingSeen]
     /\ UNCHANGED <<late, mirror, told, faults, corpus, frontier, cursor, queue,
                    enabled, overtaken>>

\* Otherwise the next rows past the cursor the call has read.
EmitSlice(t) ==
  LET past == PastCursor(seen[t].cursor)
      slice == First(past, Page)
  IN /\ tab[t].pc = "emit" /\ seen[t].ids = {} /\ past # {}
     /\ \E last \in slice :
          /\ \A k \in slice : k <= last
          /\ Send(t, [op |-> "insert", rows |-> RowsOf(corpus, slice)],
                  [ids |-> {}, advance |-> Floor[last], tails |-> <<>>],
                  past # slice)
     /\ seen' = [seen EXCEPT ![t] = NothingSeen]
     /\ UNCHANGED <<late, mirror, told, faults, corpus, frontier, cursor, queue,
                    enabled, overtaken>>

EmitNothing(t) ==
  /\ tab[t].pc = "emit" /\ seen[t].ids = {} /\ PastCursor(seen[t].cursor) = {}
  /\ ReplyNothing(t)
  /\ seen' = [seen EXCEPT ![t] = NothingSeen]
  /\ UNCHANGED <<late, mirror, told, faults, corpus, frontier, cursor, queue,
                 inflight, enabled, overtaken, crossed>>

Serve(t) ==
  Outcome(t) \/ Paused(t) \/ Claim(t) \/ EmitNotices(t) \/ EmitSlice(t)
  \/ EmitNothing(t)

Write ==
  \/ \E to \in Keys, S \in SUBSET Keys : CadenceInsert(S, to)
  \/ \E S, T \in SUBSET Keys : ExclusionDelete(S, T)
  \/ \E w \in Spans : \/ \E S \in SUBSET (w[1]..w[2]) : Rebuild(w[1], w[2], S)
                        \/ Backfill(w[1], w[2])

Next ==
  \/ TransportNext /\ UNCHANGED storeVars
  \/ \E t \in Tabs : Serve(t)
  \/ Write
  \/ Pause \/ Resume

Spec == Init /\ [][Next]_vars

\* The timer of an open tab fires, a call that reached the server is answered,
\* and a posted batch that is not given up arrives.
Work(t) == (Start(t) \/ Deliver(t)) /\ UNCHANGED storeVars

\* It is enough that some tab stays open and is served.
Fairness == WF_vars(\E t \in Tabs : Work(t) \/ Serve(t))

FairSpec == Spec /\ Fairness

-----------------------------------------------------------------------------
(* Properties. *)

\* What is still to be sent of a row: it lies past the cursor, or a pending
\* notice speaks of it.
Owed == PastCursor(cursor) \cup UNION {KeysOf(queue[i].rows) : i \in Pending}

\* aimer-web has heard the row as it is now.
UpToDate(k) == corpus[k] = 0 \/ <<k, corpus[k]>> \in told

\* No version is lost: a row of which aimer-web has not heard the newest version
\* is still owed, whatever tabs, faults and writers do -- unless the cadence
\* committed it behind a row a Force Rebuild had put in before.
NothingLost == \A k \in Keys \ overtaken : UpToDate(k) \/ k \in Owed

\* What an acknowledgement settles has arrived: when a tab is about to report
\* success, aimer-web has heard every row of the notices the record will mark,
\* or the row is in a tail that will be queued in their place.
AckIsEarned ==
  \A t \in Tabs : tab[t].outcome = "ack" =>
    \A i \in inflight[t].ids :
      queue[i].rows \subseteq
        told \cup UNION {inflight[t].tails[n].rows : n \in 1..Len(inflight[t].tails)}

Quiet == Owed = {} /\ \A e \in Outstanding : e = NoEnvelope

\* As long as nothing was made out of order, aimer-web has every row that is not
\* owed as the corpus has it, whatever is still under way.
MirrorConverges ==
  ~crossed => \A k \in Keys \ overtaken : k \in Owed \/ mirror[k] = Held(corpus[k])

\* rfcs/0002-aimer-web-phase2-contract.md:662: whichever way a drain is
\* interrupted, all converge identically, with no data loss.  Under two tabs
\* that send the same rows (state.ts:459, "double-send is harmless").
DoubleSendIsHarmless ==
  Quiet => \A k \in Keys \ overtaken : mirror[k] = Held(corpus[k])

\* baseline-push.ts:312-314, of a slice cut down to the one row that is over the
\* byte budget: "the byte cap is a soft preference, never a deadlock [...] The
\* next loop iteration will advance past it."  Once nobody pauses the push any
\* more, aimer-web hears every version.  The configuration
\* MCBaselinePushSameMillisecond refutes it for slices that do not outrun Floor.
NeverADeadlock ==
  (<>[]enabled) => <>[](\A k \in Keys \ overtaken : UpToDate(k))

\* A slice that is not the last one leaves a cursor past its first row: its rows
\* do not all lie within one millisecond.
SliceOutrunsFloor == \A j, k \in Keys : k >= j + Page - 1 => Floor[k] >= j

\* Where every slice does, aimer-web hears every version, whatever batches were
\* lost, late or refused and whichever tabs and records are gone.
EverythingIsTold == SliceOutrunsFloor => NeverADeadlock

\* The push keeps the promise AtLeastOnce states, with what is owed read off the
\* cursor and the queue.
Promise == INSTANCE AtLeastOnce WITH made <- corpus, owed <- Owed, exempt <- overtaken
AtLeastOnceHolds == Promise!Spec
=============================================================================
