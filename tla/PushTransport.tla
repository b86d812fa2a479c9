--------------------------- MODULE PushTransport ---------------------------
(***************************************************************************)
(* How a batch of the phase-2 push travels: aice-web-next may not call      *)
(* aimer-web itself, so a browser tab asks the server for the next batch,   *)
(* posts it to aimer-web and reports the outcome with its next request      *)
(* (transport.client.ts, drainOpportunisticPushQueue).  This module is the  *)
(* tab, the wire and the receiver; what the server answers is left to the   *)
(* modules that extend it.                                                  *)
(*                                                                          *)
(* A row is a version of its key: odd when the row exists, even when it     *)
(* does not (0: never did).  An envelope carries such pairs and says how    *)
(* aimer-web stores them: "insert" leaves a row it already has (ON CONFLICT *)
(* DO NOTHING), "set" replaces what it has of those keys (a withdrawal, or  *)
(* a window deleted and inserted again in one transaction).                 *)
(*                                                                          *)
(* The context_jti of a batch is named by the tab that holds it: a tab has  *)
(* one batch at a time, and a jti nobody can name again has no effect.      *)
(***************************************************************************)
EXTENDS Naturals

CONSTANTS Tabs,        \* browser tabs that drain this customer
          NumKeys,     \* rows, numbered in the order of their cursor position
          MaxVersion,  \* bound: versions of a row
          MaxBatches,  \* maxBatchesPerActivation
          Retries,     \* retriesPerBatch
          MaxFaults    \* bound: timeouts, refusals, closed tabs, expiries, pauses,
                       \* and drains that start while another runs

ASSUME TransportAssumption ==
  /\ NumKeys \in Nat /\ MaxVersion \in Nat \ {0}
  /\ MaxBatches \in Nat \ {0} /\ Retries \in Nat /\ MaxFaults \in Nat

VARIABLES tab,     \* per tab: where its drain is and the batch it holds
          late,    \* per fault: an envelope given up that may still arrive
          mirror,  \* aimer-web's version of each row, 0 when it has none
          told,    \* the versions that ever reached aimer-web
          faults   \* faults so far

transportVars == <<tab, late, mirror, told, faults>>

Keys == 1..NumKeys
Version == 0..MaxVersion
Rows == SUBSET (Keys \X Version)
KeysOf(rows) == {p[1] : p \in rows}
RowsOf(f, S) == {<<k, f[k]>> : k \in S}
Envelope == [op : {"insert", "set"}, rows : Rows]
NoEnvelope == [op |-> "insert", rows |-> {}]

Present(v) == v % 2 = 1
Held(v) == IF Present(v) THEN v ELSE 0

\* pc: "off", then the server's "outcome", "claim" and "emit" while a next-batch
\* call runs, and "posted" while aimer-web has the batch.  mode: "final" for a
\* call whose response is not used, "gone" when nobody waits for it any more.
Idle == [pc |-> "off", outcome |-> "none", mode |-> "loop",
         env |-> NoEnvelope, more |-> FALSE, batches |-> 0, fails |-> 0]

TabType ==
  [pc : {"off", "outcome", "claim", "emit", "posted"},
   outcome : {"none", "ack", "fail"}, mode : {"loop", "final", "gone"},
   env : Envelope, more : BOOLEAN,
   batches : 0..MaxBatches, fails : 0..Retries]

TransportTypeOK ==
  /\ tab \in [Tabs -> TabType]
  /\ late \in [1..MaxFaults -> Envelope]
  /\ mirror \in [Keys -> Version]
  /\ told \in Rows
  /\ faults \in 0..MaxFaults

TransportInit ==
  /\ tab = [t \in Tabs |-> Idle]
  /\ late = [n \in 1..MaxFaults |-> NoEnvelope]
  /\ mirror = [k \in Keys |-> 0]
  /\ told = {}
  /\ faults = 0

-----------------------------------------------------------------------------
(* The receiver. *)

Stored(e) ==
  [k \in Keys |->
     IF k \notin KeysOf(e.rows) \/ (e.op = "insert" /\ mirror[k] # 0)
     THEN mirror[k]
     ELSE IF \E v \in Version : <<k, v>> \in e.rows /\ Present(v)
          THEN CHOOSE v \in Version : <<k, v>> \in e.rows /\ Present(v)
          ELSE 0]

Receive(e) == mirror' = Stored(e) /\ told' = told \cup e.rows

-----------------------------------------------------------------------------
(* The tab. *)

Fault == faults < MaxFaults /\ faults' = faults + 1

\* The periodic timer, or the page becoming visible, starts a drain: it calls
\* next-batch with nothing to report.  One drain runs per tab
\* (drain-coordinator.client.ts); another tab may be in the middle of its own.
\* Which tab drains while no other does makes no difference: it is always one.
AnyTab == CHOOSE t \in Tabs : TRUE

Start(t) ==
  /\ tab[t].pc = "off"
  /\ IF \A u \in Tabs : tab[u].pc = "off" THEN t = AnyTab /\ UNCHANGED faults ELSE Fault
  /\ tab' = [tab EXCEPT ![t].pc = "outcome"]
  /\ UNCHANGED <<late, mirror, told>>

\* The response: the tab posts the batch at once, unless it asked only to
\* report or is gone.
Reply(t, e, more) ==
  tab' = [tab EXCEPT ![t] =
            IF tab[t].mode = "loop"
            THEN [tab[t] EXCEPT !.pc = "posted", !.outcome = "none", !.env = e,
                                !.more = more, !.batches = @ + 1]
            ELSE Idle]

\* Nothing to send, or paused: the drain stops.
ReplyNothing(t) == tab' = [tab EXCEPT ![t] = Idle]

\* Fault: maxBatchesPerActivation is not looked at.
ReportUnbounded(t, outcome, last) ==
  tab' = [tab EXCEPT ![t] =
            [@ EXCEPT !.pc = "outcome", !.outcome = outcome, !.env = NoEnvelope,
                      !.mode = IF last THEN "final" ELSE "loop"]]

\* Calls next-batch with the outcome of the batch.  After the last batch, or at
\* maxBatchesPerActivation, the call only reports and the drain ends.
Report(t, outcome, last) ==
  LET call == [Idle EXCEPT !.pc = "outcome", !.outcome = outcome]
  IN tab' = [tab EXCEPT ![t] =
               IF last \/ tab[t].batches = MaxBatches
               THEN [call EXCEPT !.mode = "final"]
               ELSE [call EXCEPT !.batches = tab[t].batches,
                                 !.fails = IF outcome = "ack" THEN 0
                                           ELSE tab[t].fails + 1]]

\* The batch arrives and aimer-web's 2xx is read.
Deliver(t) ==
  /\ tab[t].pc = "posted"
  /\ Receive(tab[t].env)
  /\ Report(t, "ack", ~tab[t].more)
  /\ UNCHANGED <<late, faults>>

\* A batch given up while it is on the wire is lost, or it arrives later: that
\* is also the batch that was stored but whose answer did not come back.
GiveUp(t) ==
  \/ UNCHANGED late
  \/ tab[t].pc = "posted" /\ late' = [late EXCEPT ![faults + 1] = tab[t].env]

\* A timeout, a network error, a 429 or a 5xx: the batch is asked for again, up
\* to retriesPerBatch times in a row.
Fail(t) ==
  /\ tab[t].pc = "posted"
  /\ Fault
  /\ GiveUp(t)
  /\ Report(t, "fail", tab[t].fails = Retries)
  /\ UNCHANGED <<mirror, told>>

\* Fault: any 2xx passes for an acknowledgement.
RefuseAsAck(t) ==
  /\ tab[t].pc = "posted" /\ Fault /\ GiveUp(t)
  /\ Report(t, "ack", TRUE)
  /\ UNCHANGED <<mirror, told>>

\* A 4xx, or a 2xx that is not an acknowledgement: one call reports it.
Refuse(t) ==
  /\ tab[t].pc = "posted"
  /\ Fault
  /\ GiveUp(t)
  /\ Report(t, "fail", TRUE)
  /\ UNCHANGED <<mirror, told>>

\* The tab closes, or the drain is stopped: nothing more is reported, and a
\* call that runs on the server goes on without it.
Close(t) ==
  /\ tab[t].pc # "off" /\ tab[t].mode # "gone"
  /\ Fault
  /\ GiveUp(t)
  /\ tab' = [tab EXCEPT ![t] =
               IF tab[t].pc = "posted" THEN Idle
               ELSE [tab[t] EXCEPT !.mode = "gone", !.batches = 0, !.fails = 0]]
  /\ UNCHANGED <<mirror, told>>

\* The call fails on the server or on its way: its next step does not happen.
CallFails(t) ==
  /\ tab[t].pc \in {"outcome", "claim", "emit"}
  /\ Fault
  /\ tab' = [tab EXCEPT ![t] = Idle]
  /\ UNCHANGED <<late, mirror, told>>

LateArrives(n) ==
  /\ late[n] # NoEnvelope
  /\ Receive(late[n])
  /\ late' = [late EXCEPT ![n] = NoEnvelope]
  /\ UNCHANGED <<tab, faults>>

TransportNext ==
  \/ \E t \in Tabs : \/ Start(t) \/ Deliver(t) \/ Fail(t) \/ Refuse(t) \/ Close(t) \/ CallFails(t)
  \/ \E n \in 1..MaxFaults : LateArrives(n)

\* The batch a tab still speaks for: on the wire, or its outcome to be reported.
Holds(t) == tab[t].pc = "posted" \/ tab[t].outcome # "none"

\* The envelopes that may yet arrive at aimer-web.
Outstanding == {tab[t].env : t \in {u \in Tabs : tab[u].pc = "posted"}}
               \cup {late[n] : n \in 1..MaxFaults}
=============================================================================
