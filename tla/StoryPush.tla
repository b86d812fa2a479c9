------------------------------ MODULE StoryPush ------------------------------
(***************************************************************************)
(* The push of one customer's stories to aimer-web: POST                    *)
(* /api/aimer/phase2/story/next-batch with its cursor, its straggler scan   *)
(* and its queue, the Send button of an analyst (story/build-envelope and   *)
(* story/ack-manual), and the transactions that write stories: a cadence    *)
(* page, the low-and-slow sweep, the Force Rebuild of stories, a backfill.  *)
(*                                                                          *)
(* A story is the natural key its rules give it, 1..NumKeys; its story_id   *)
(* is <<key, generation>>, because a rebuild inserts it under a new one.    *)
(* created_at is the start of the inserting transaction, on the clock `now`.*)
(* The drain loop, its retries and its batch limit are in PushTransport;    *)
(* here a tab loops until there is nothing to send or it is interrupted.    *)
(***************************************************************************)
EXTENDS Naturals, FiniteSets, Sequences

CONSTANTS NumKeys,     \* stories, by natural key
          Tabs,        \* browser tabs that drain this customer
          Analysts,    \* accounts that press Send
          Page,        \* stories one batch may carry
          Refreshed,   \* the stories whose time_window_end is in the rebuilt range
          MaxGen,      \* bound: generations of a story
          MaxNow,      \* bound: transactions that write stories
          MaxNotices,  \* bound: notices queued
          MaxMints,    \* bound: manual sends
          MaxFaults    \* bound: interruptions, expiries, pauses, overlapping drains

Keys == 1..NumKeys

ASSUME StoryAssumption ==
  /\ NumKeys \in Nat /\ MaxGen \in Nat \ {0} /\ MaxNow \in Nat
  /\ Page \in Nat \ {0} /\ MaxNotices \in Nat /\ MaxMints \in Nat /\ MaxFaults \in Nat
  /\ Refreshed \subseteq Keys
  /\ Analysts \cap {"none", "system"} = {}

VARIABLES story,     \* event_group: per key its row
          now,       \* the database clock
          tx,        \* per writer its open transaction
          cursor,    \* aimer_push_state.last_pushed_event_*, 0 when NULL
          activated, \* streaming_activated_at, 0 when NULL
          enabled,   \* opportunistic_enabled
          queue,     \* aimer_push_queue, in the order of id
          tab,       \* per tab: its call, its batch and the batch's in-flight record
          send,      \* per analyst: the manual send under way and its ledger row
          mints,     \* manual sends so far
          told,      \* the story_ids that ever reached aimer-web
          late,      \* stories of the batches given up that may still arrive
          faults,    \* faults so far
          consumed   \* history: per story, the ledger rows consumed

store == <<story, now, tx, cursor, activated, enabled, queue>>
receiver == <<told, late>>
vars == <<store, tab, send, mints, receiver, faults, consumed>>

Ids == Keys \X (1..MaxGen)
Marks == {"none", "system"} \cup Analysts
Mark == [by : Marks, count : 0..(MaxMints + 1)]
Unsent == [by |-> "none", count |-> 0]
Row == [live : BOOLEAN, gen : 0..MaxGen, at : 0..MaxNow, mark : Mark]
Writers == {"cadence", "sweep"}
Closed == [kind |-> "none", at |-> 0, marks |-> [k \in Keys |-> Unsent]]

\* (created_at, id) in one number; the position 0 of an instant is before all
\* its stories.
Pos(at, k) == at * (NumKeys + 1) + k
Positions == 0..Pos(MaxNow + 1, NumKeys)

Batch == [op : {"insert", "replace"}, ids : SUBSET Ids,
          notices : SUBSET (1..MaxNotices), advance : Positions]
NoBatch == [op |-> "insert", ids |-> {}, notices |-> {}, advance |-> 0]
Idle == [pc |-> "off", outcome |-> "none", seen |-> 0, batch |-> NoBatch,
         recorded |-> FALSE]
Resting == [pc |-> "off", id |-> <<>>, ledger |-> FALSE]

TypeOK ==
  /\ story \in [Keys -> Row]
  /\ now \in 0..(MaxNow + 1)
  /\ tx \in [Writers -> [kind : {"none", "page", "rebuild"}, at : 0..MaxNow,
                         marks : [Keys -> Mark]]]
  /\ cursor \in Positions /\ activated \in 0..(MaxNow + 1)
  /\ enabled \in BOOLEAN
  /\ queue \in Seq([kind : {"refresh", "backfill"}, ids : SUBSET Ids, acked : BOOLEAN])
  /\ Len(queue) <= MaxNotices
  /\ tab \in [Tabs -> [pc : {"off", "call", "claim", "emit", "posted"},
                       outcome : {"none", "ack", "fail"}, seen : Positions,
                       batch : Batch, recorded : BOOLEAN]]
  /\ send \in [Analysts -> [pc : {"off", "posted", "landed"}, id : Ids \cup {<<>>},
                            ledger : BOOLEAN]]
  /\ mints \in 0..MaxMints
  /\ told \subseteq Ids /\ late \subseteq SUBSET Ids
  /\ faults \in 0..MaxFaults
  /\ consumed \in [Keys -> 0..MaxMints]

Init ==
  /\ story = [k \in Keys |-> [live |-> FALSE, gen |-> 0, at |-> 0, mark |-> Unsent]]
  /\ now = 0 /\ tx = [w \in Writers |-> Closed]
  /\ cursor = 0 /\ activated = 0 /\ enabled = TRUE
  /\ queue = <<>>
  /\ tab = [t \in Tabs |-> Idle]
  /\ send = [a \in Analysts |-> Resting]
  /\ mints = 0
  /\ told = {} /\ late = {}
  /\ faults = 0
  /\ consumed = [k \in Keys |-> 0]

Id(k) == <<k, story[k].gen>>
Live == {k \in Keys : story[k].live}
Unpushed == {k \in Live : story[k].mark.by = "none"}
Position(k) == Pos(story[k].at, k)
Fault == faults < MaxFaults /\ faults' = faults + 1

-----------------------------------------------------------------------------
(* The writers.  The cadence and the rebuild share the customer's lock, the *)
(* sweep has its own; created_at is taken before the lock.                  *)

Tick == now < MaxNow /\ now' = now + 1

\* A cadence page or a sweep begins.
BeginPage(w) ==
  /\ tx[w].kind = "none" /\ Tick
  /\ tx' = [tx EXCEPT ![w] = [Closed EXCEPT !.kind = "page", !.at = now + 1]]
  /\ UNCHANGED <<story, cursor, activated, enabled, queue, tab, send, mints,
                 receiver, faults, consumed>>

\* insertAutoStory: a story that is there already is left alone (ON CONFLICT).
Insert(k, at, mark) ==
  [live |-> TRUE, gen |-> story[k].gen + 1, at |-> at, mark |-> mark]

CommitPage(w, k) ==
  /\ tx[w].kind = "page"
  /\ ~story[k].live /\ story[k].gen < MaxGen
  /\ story' = [story EXCEPT ![k] = Insert(k, tx[w].at, Unsent)]
  /\ tx' = [tx EXCEPT ![w] = Closed]
  /\ UNCHANGED <<now, cursor, activated, enabled, queue, tab, send, mints,
                 receiver, faults, consumed>>

\* The rebuild reads the submission tracking of the stories in its range.
BeginRebuild ==
  /\ tx["cadence"].kind = "none" /\ Tick
  /\ tx' = [tx EXCEPT !["cadence"] =
              [kind |-> "rebuild", at |-> now + 1,
               marks |-> [k \in Keys |-> IF k \in Refreshed \cap Live
                                         THEN story[k].mark ELSE Unsent]]]
  /\ UNCHANGED <<story, cursor, activated, enabled, queue, tab, send, mints,
                 receiver, faults, consumed>>

\* It deletes them, inserts those the rules find now with the tracking it has
\* read, and queues their window.
CommitRebuild(S) ==
  /\ tx["cadence"].kind = "rebuild"
  /\ \A k \in S : story[k].gen < MaxGen
  /\ Len(queue) < MaxNotices
  /\ LET row(k) ==
           IF k \in S
           THEN Insert(k, tx["cadence"].at, tx["cadence"].marks[k])
           ELSE [story[k] EXCEPT !.live = FALSE, !.at = 0, !.mark = Unsent]
     IN /\ story' = [k \in Keys |-> IF k \in Refreshed THEN row(k) ELSE story[k]]
        /\ queue' = Append(queue, [kind |-> "refresh", acked |-> FALSE,
                                   ids |-> {<<k, story[k].gen + 1>> : k \in S}])
  /\ tx' = [tx EXCEPT !["cadence"] = Closed]
  /\ UNCHANGED <<now, cursor, activated, enabled, tab, send, mints, receiver,
                 faults, consumed>>

\* Nothing to insert, a lock that is taken, an error, a crash.
Rollback(w) ==
  /\ tx[w].kind # "none"
  /\ tx' = [tx EXCEPT ![w] = Closed]
  /\ UNCHANGED <<story, now, cursor, activated, enabled, queue, tab, send, mints,
                 receiver, faults, consumed>>

\* An operator queues the range as it stands.
Backfill ==
  /\ Len(queue) < MaxNotices
  /\ queue' = Append(queue, [kind |-> "backfill", acked |-> FALSE,
                             ids |-> {Id(k) : k \in Refreshed \cap Live}])
  /\ UNCHANGED <<story, now, tx, cursor, activated, enabled, tab, send, mints,
                 receiver, faults, consumed>>

Pause ==
  /\ enabled /\ Fault
  /\ enabled' = FALSE
  /\ UNCHANGED <<story, now, tx, cursor, activated, queue, tab, send, mints,
                 receiver, consumed>>

Resume ==
  /\ ~enabled
  /\ enabled' = TRUE
  /\ UNCHANGED <<story, now, tx, cursor, activated, queue, tab, send, mints,
                 receiver, faults, consumed>>

-----------------------------------------------------------------------------
(* External: what reaches aimer-web.                                       *)

Arrive(ids) == told' = told \cup ids

-----------------------------------------------------------------------------
(* A tab. *)

AnyTab == CHOOSE t \in Tabs : TRUE

\* A drain starts, with no outcome to tell; which tab drains while no other does makes no difference.
Start(t) ==
  /\ tab[t].pc = "off"
  /\ IF \A u \in Tabs : tab[u].pc = "off" THEN t = AnyTab /\ UNCHANGED faults ELSE Fault
  /\ tab' = [tab EXCEPT ![t].pc = "claim"]
  /\ UNCHANGED <<store, send, mints, receiver, consumed>>

Deliver(t) ==
  /\ tab[t].pc = "posted"
  /\ Arrive(tab[t].batch.ids)
  /\ tab' = [tab EXCEPT ![t].pc = "call", ![t].outcome = "ack"]
  /\ UNCHANGED <<store, send, mints, late, faults, consumed>>

\* A timeout, an error, a refusal, or the tab closes: the batch is lost or
\* arrives later, and the failure is reported or is not.
Interrupt(t) ==
  /\ tab[t].pc # "off" /\ Fault
  /\ \/ UNCHANGED late
     \/ tab[t].pc = "posted" /\ late' = late \cup {tab[t].batch.ids}
  /\ \/ tab' = [tab EXCEPT ![t] = Idle]
     \/ /\ tab[t].pc = "posted"
        /\ tab' = [tab EXCEPT ![t].pc = "call", ![t].outcome = "fail"]
  /\ UNCHANGED <<store, send, mints, told, consumed>>

LateArrives ==
  \E ids \in late : /\ Arrive(ids)
                    /\ late' = late \ {ids}
                    /\ UNCHANGED <<store, tab, send, mints, faults, consumed>>

-----------------------------------------------------------------------------
(* The next-batch call. *)

\* The in-flight record is deleted with the outcome.
Settled(t) == [Idle EXCEPT !.pc = "claim"]

Bumped(mark, who) == [by |-> who, count |-> mark.count + 1]

\* Fault: without AND last_sent_at IS NULL.
CommitOnAckOverwriting(t) ==
  LET b == tab[t].batch
      hit == {k \in Live : b.op = "insert" /\ Id(k) \in b.ids}
  IN /\ tab[t].recorded
     /\ story' = [k \in Keys |-> IF k \in hit
                                 THEN [story[k] EXCEPT !.mark = Bumped(@, "system")]
                                 ELSE story[k]]
     /\ cursor' = IF cursor < b.advance THEN b.advance ELSE cursor
     /\ queue' = [i \in 1..Len(queue) |-> [queue[i] EXCEPT !.acked = @ \/ i \in b.notices]]

\* commitOnAck, one transaction: the cursor only moves forward, the stories of
\* the envelope are marked sent unless they were meanwhile, the notices acked.
CommitOnAck(t) ==
  LET b == tab[t].batch
      hit == {k \in Unpushed : b.op = "insert" /\ Id(k) \in b.ids}
  IN /\ tab[t].recorded
     /\ story' = [k \in Keys |-> IF k \in hit
                                 THEN [story[k] EXCEPT !.mark = Bumped(@, "system")]
                                 ELSE story[k]]
     /\ cursor' = IF cursor < b.advance THEN b.advance ELSE cursor
     /\ queue' = [i \in 1..Len(queue) |-> [queue[i] EXCEPT !.acked = @ \/ i \in b.notices]]

\* recordOnFail changes nothing but the record; an unknown jti nothing at all.
Outcome(t) ==
  /\ tab[t].pc = "call"
  /\ \/ tab[t].outcome = "ack" /\ CommitOnAck(t)
     \/ /\ tab[t].outcome = "fail" \/ ~tab[t].recorded
        /\ UNCHANGED <<story, cursor, queue>>
  /\ tab' = [tab EXCEPT ![t] = Settled(t)]
  /\ UNCHANGED <<now, tx, activated, enabled, send, mints, receiver, faults, consumed>>

Finish(t) ==
  /\ tab' = [tab EXCEPT ![t] = Idle]
  /\ UNCHANGED <<store, send, mints, receiver, faults, consumed>>

Paused(t) == tab[t].pc = "claim" /\ ~enabled /\ Finish(t)

Pending(kind) == {i \in 1..Len(queue) : ~queue[i].acked /\ queue[i].kind = kind}

Post(t, b) ==
  tab' = [tab EXCEPT ![t] = [Idle EXCEPT !.pc = "posted", !.batch = b, !.recorded = TRUE]]

\* pruneExpiredInflight, by a next-batch call of any tab and for any of the
\* kinds: the record of a batch that a tab still speaks for.
Prune(t) ==
  /\ tab[t].recorded /\ Fault
  /\ tab' = [tab EXCEPT ![t].recorded = FALSE]
  /\ UNCHANGED <<store, send, mints, receiver, consumed>>

\* Notices first: refresh windows before backfills, one at a time.  (Nothing
\* queues a withdraw_story.)
ClaimNotice(t) ==
  LET kind == IF Pending("refresh") # {} THEN "refresh" ELSE "backfill"
  IN /\ tab[t].pc = "claim" /\ enabled
     /\ \E i \in Pending(kind) :
          /\ \A j \in Pending(kind) : i <= j
          /\ Post(t, [op |-> "replace", ids |-> queue[i].ids, notices |-> {i}, advance |-> 0])
     /\ UNCHANGED <<store, send, mints, receiver, faults, consumed>>

\* seedNullCursor: streaming starts now, what was there before is history.
Seed(t) ==
  /\ tab[t].pc = "claim" /\ enabled
  /\ Pending("refresh") \cup Pending("backfill") = {}
  /\ cursor = 0
  /\ now' = now + 1
  /\ cursor' = Pos(now + 1, 0) /\ activated' = now + 1
  /\ tab' = [tab EXCEPT ![t] = Idle]
  /\ UNCHANGED <<story, tx, enabled, queue, send, mints, receiver, faults, consumed>>

ReadCursor(t) ==
  /\ tab[t].pc = "claim" /\ enabled
  /\ Pending("refresh") \cup Pending("backfill") = {}
  /\ cursor # 0
  /\ tab' = [tab EXCEPT ![t].pc = "emit", ![t].seen = cursor]
  /\ UNCHANGED <<store, send, mints, receiver, faults, consumed>>

First(S) ==
  {k \in S : Cardinality({j \in S : Position(j) < Position(k)}) < Page}

\* Fault: no straggler scan.
NoStragglers(c) == {}

\* loadStoryStragglerSlice: committed behind the cursor by a transaction that
\* began after the activation.
Stragglers(c) ==
  {k \in Unpushed : story[k].at >= activated /\ Position(k) <= c}

Ahead(c) == {k \in Unpushed : Position(k) > c}

\* Stragglers first, and without moving the cursor; then the forward slice.
EmitStories(t) ==
  LET c == tab[t].seen
      slice == First(IF Stragglers(c) # {} THEN Stragglers(c) ELSE Ahead(c))
  IN /\ tab[t].pc = "emit"
     /\ \E last \in slice :
          /\ \A k \in slice : Position(k) <= Position(last)
          /\ Post(t, [op |-> "insert", ids |-> {Id(k) : k \in slice}, notices |-> {},
                      advance |-> IF Stragglers(c) # {} THEN 0 ELSE Position(last)])
     /\ UNCHANGED <<store, send, mints, receiver, faults, consumed>>

EmitNothing(t) ==
  /\ tab[t].pc = "emit"
  /\ Stragglers(tab[t].seen) \cup Ahead(tab[t].seen) = {}
  /\ Finish(t)

Serve(t) ==
  \/ Outcome(t) \/ Paused(t) \/ ClaimNotice(t) \/ Seed(t)
  \/ ReadCursor(t) \/ EmitStories(t) \/ EmitNothing(t)

-----------------------------------------------------------------------------
(* The Send button. *)

\* build-envelope: the story as it is, and a ledger row of the envelope.
Mint(a, k) ==
  /\ send[a].pc = "off" /\ story[k].live
  /\ mints < MaxMints /\ mints' = mints + 1
  /\ send' = [send EXCEPT ![a] = [pc |-> "posted", id |-> Id(k), ledger |-> TRUE]]
  /\ UNCHANGED <<store, tab, receiver, faults, consumed>>

\* The browser posts it and reads aimer-web's 2xx.
Land(a) ==
  /\ send[a].pc = "posted"
  /\ Arrive({send[a].id})
  /\ send' = [send EXCEPT ![a].pc = "landed"]
  /\ UNCHANGED <<store, tab, mints, late, faults, consumed>>

\* The send fails, or the browser gives up before or after ack-manual.
DropSend(a) ==
  /\ send[a].pc # "off"
  /\ send' = [send EXCEPT ![a] = Resting]
  /\ UNCHANGED <<store, tab, mints, receiver, faults, consumed>>

\* The ledger's retention removes the row before ack-manual comes.
LedgerExpires(a) ==
  /\ send[a].ledger /\ Fault
  /\ send' = [send EXCEPT ![a].ledger = FALSE]
  /\ UNCHANGED <<store, tab, mints, receiver, consumed>>

\* Fault: without AND consumed_at IS NULL.
AckManualReplayable(a) ==
  /\ send[a].pc = "landed"
  /\ \E k \in Live :
       /\ Id(k) = send[a].id
       /\ story[k].mark.count <= MaxMints
       /\ story' = [story EXCEPT ![k].mark = Bumped(@, a)]
       /\ consumed' = IF send[a].ledger THEN [consumed EXCEPT ![k] = @ + 1] ELSE consumed
  /\ send' = [send EXCEPT ![a].ledger = FALSE]
  /\ UNCHANGED <<now, tx, cursor, activated, enabled, queue, tab, mints, receiver, faults>>

\* ack-manual, one transaction: the ledger row is consumed and the story marked
\* as the analyst's, whoever sent it before.  A second call finds no row to
\* consume; a story that is gone rolls it back.
AckManual(a) ==
  /\ send[a].pc = "landed" /\ send[a].ledger
  /\ \E k \in Live :
       /\ Id(k) = send[a].id
       /\ story' = [story EXCEPT ![k].mark = Bumped(@, a)]
       /\ consumed' = [consumed EXCEPT ![k] = @ + 1]
  /\ send' = [send EXCEPT ![a].ledger = FALSE]
  /\ UNCHANGED <<now, tx, cursor, activated, enabled, queue, tab, mints, receiver, faults>>

-----------------------------------------------------------------------------
Write ==
  \/ \E w \in Writers : BeginPage(w) \/ Rollback(w) \/ \E k \in Keys : CommitPage(w, k)
  \/ BeginRebuild \/ \E S \in SUBSET Refreshed : CommitRebuild(S)
  \/ Backfill

Press(a) ==
  \/ \E k \in Keys : Mint(a, k)
  \/ Land(a) \/ DropSend(a) \/ LedgerExpires(a) \/ AckManual(a)

Next ==
  \/ \E t \in Tabs : Start(t) \/ Deliver(t) \/ Interrupt(t) \/ Prune(t) \/ Serve(t)
  \/ LateArrives
  \/ \E a \in Analysts : Press(a)
  \/ Write
  \/ Pause \/ Resume

Spec == Init /\ [][Next]_vars

\* The periodic drain of an open Stories tab, its calls and its posts go on.
Fairness == WF_vars(\E t \in Tabs : Start(t) \/ Deliver(t) \/ Serve(t))

FairSpec == Spec /\ Fairness

-----------------------------------------------------------------------------
(* Properties. *)

Reached(k) == \E g \in 1..MaxGen : <<k, g>> \in told

\* No story is shown as sent unless aimer-web has received it, and send_count
\* counts each delivery once, one for each ledger row consumed and at most one
\* for all the batches of all tabs: whichever batch is acknowledged, whatever
\* committed between its mint and its acknowledgement, and across rebuilds,
\* which copy the mark.
MarksAreTrue ==
  \A k \in Live :
    LET m == story[k].mark IN
    /\ m.by # "none" => Reached(k)
    /\ m.by = "none" <=> m.count = 0
    /\ m.by = "system" => m.count = 1
    /\ m.count <= consumed[k] + 1

\* The drain never takes a story from the analyst who sent it (state.ts:721), even
\* when its batch was made before the analyst's send and acknowledged after it.
AnalystKept ==
  [][\A k \in Keys :
       story[k].mark.by \in Analysts /\ story'[k].gen = story[k].gen =>
         story'[k].mark.by # "system"]_vars

\* Once nobody pauses the push any more, aimer-web hears of every story that was
\* begun after the activation, in whatever order the transactions commit.
EveryStoryIsTold ==
  (<>[]enabled) =>
    <>[](\A k \in Live : cursor # 0 /\ (story[k].at >= activated => Reached(k)))
=============================================================================
