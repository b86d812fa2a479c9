------------------------- MODULE BaselinePushProofs -------------------------
(***************************************************************************)
(* NothingLost, AckIsEarned, the refinement of AtLeastOnce and              *)
(* MirrorConverges, for any number of tabs, rows, notices and faults.  The  *)
(* argument follows a version from its writer to aimer-web: it lies past    *)
(* the cursor or in a pending notice, and what an acknowledgement will      *)
(* settle is on the wire with the batch, queued again as a tail, or was     *)
(* heard before.                                                            *)
(***************************************************************************)
EXTENDS BaselinePush, Integers, FiniteSetTheorems, WellFoundedInduction, TLAPS

-----------------------------------------------------------------------------
(* Windows and slices. *)

\* A part's number grows with the rank, from one.
LEMMA PartNumberGrows ==
  ASSUME NEW r \in Nat, NEW s \in Nat, r <= s, NEW max \in Nat \ {0}
  PROVE  /\ PartNumber(r, max) \in Nat \ {0}
         /\ PartNumber(r, max) <= PartNumber(s, max)
<1>1. CASE r = 0
  <2>1. CASE s = 0
    BY <1>1, <2>1 DEF PartNumber
  <2>2. CASE s # 0
    <3>1. (s - 1) \div max \in Nat
      BY <2>2
    <3>2. QED
      BY <1>1, <2>2, <3>1 DEF PartNumber
  <2>3. QED
    BY <2>1, <2>2
<1>2. CASE r # 0
  <2>1. r - 1 \in Nat /\ s - 1 \in Nat /\ r - 1 <= s - 1
    BY <1>2
  <2>2. (r - 1) \div max \in Nat
    BY <2>1
  <2>3. (s - 1) \div max \in Nat
    BY <2>1
  <2>4. (r - 1) \div max <= (s - 1) \div max
    BY <2>1, Z3
  <2>5. QED
    BY <1>2, <2>1, <2>2, <2>3, <2>4 DEF PartNumber
<1>3. QED
  BY <1>1, <1>2

LEMMA KeysFinite == IsFiniteSet(Keys)
BY TransportAssumption, FS_Interval DEF Keys

LEMMA RowsFinite == ASSUME NEW rows \in Rows PROVE IsFiniteSet(rows)
<1>1. IsFiniteSet(Version)
  BY TransportAssumption, FS_Interval DEF Version
<1>2. IsFiniteSet(Keys \X Version)
  BY <1>1, KeysFinite, FS_Product
<1>3. QED
  BY <1>2, FS_Subset DEF Rows

\* Every row of a window is in one of its parts.
LEMMA PartsCover ==
  ASSUME NEW rows \in Rows, NEW max \in Nat \ {0}, NEW k \in Keys
  PROVE  /\ PartOf(rows, max, k) \in 1..Parts(rows, max)
         /\ Parts(rows, max) \in Nat \ {0}
<1> DEFINE E == Existing(rows)
           D == {p \in E : p[1] <= k}
<1>1. IsFiniteSet(rows)
  BY RowsFinite
<1>2. IsFiniteSet(E)
  BY <1>1, FS_Subset DEF Existing
<1>3. IsFiniteSet(D) /\ Cardinality(D) <= Cardinality(E)
  BY <1>2, FS_Subset
<1>4. Cardinality(D) \in Nat /\ Cardinality(E) \in Nat
  BY <1>2, <1>3, FS_CardinalityType
<1>5. PartNumber(Cardinality(D), max) \in Nat \ {0}
      /\ PartNumber(Cardinality(D), max) <= PartNumber(Cardinality(E), max)
  BY <1>3, <1>4, PartNumberGrows
<1>6. PartNumber(Cardinality(E), max) \in Nat \ {0}
  BY <1>4, PartNumberGrows
<1>7. QED
  BY <1>5, <1>6 DEF PartOf, Parts

TailType == [op : {"window"}, rows : Rows, acked : {FALSE}]

LEMMA WindowsType ==
  ASSUME NEW rows \in Rows, NEW max \in Nat \ {0}, NEW skip \in {0, 1}, Keys # {}
  PROVE  /\ Windows(rows, max, skip) \in Seq(TailType)
         /\ Len(Windows(rows, max, skip)) = Parts(rows, max) - skip
         /\ Parts(rows, max) \in Nat \ {0}
         /\ \A n \in 1..(Parts(rows, max) - skip) :
              Windows(rows, max, skip)[n].rows = Part(rows, max, n + skip)
<1>1. PICK k \in Keys : TRUE
  OBVIOUS
<1>2. Parts(rows, max) \in Nat \ {0}
  BY <1>1, PartsCover
<1>3. Parts(rows, max) - skip \in Nat
  BY <1>2
<1>4. \A n \in Nat : Part(rows, max, n) \in Rows
  BY DEF Part, Rows
<1>5. \A n \in 1..(Parts(rows, max) - skip) : n + skip \in Nat
  BY <1>3
<1> DEFINE w(n) == [op |-> "window", rows |-> Part(rows, max, n + skip), acked |-> FALSE]
           N == Parts(rows, max) - skip
<1>6. \A n \in 1..N : w(n) \in TailType
  BY <1>4, <1>5 DEF TailType
<1>7. Windows(rows, max, skip) = [n \in 1..N |-> w(n)]
  BY DEF Windows
<1>8. \A n \in 1..N : w(n).rows = Part(rows, max, n + skip)
  OBVIOUS
<1> HIDE DEF w
<1>9. Windows(rows, max, skip) \in Seq(TailType) /\ Len(Windows(rows, max, skip)) = N
  BY <1>3, <1>6, <1>7
<1>10. QED
  BY <1>2, <1>7, <1>8, <1>9

\* A row of a window is in its first part or in a window made of the others;
\* when none is left out it is in one of the windows.
LEMMA WindowsCover ==
  ASSUME NEW rows \in Rows, NEW max \in Nat \ {0}, NEW skip \in {0, 1},
         NEW p \in rows
  PROVE  \/ skip = 1 /\ p \in Part(rows, max, 1)
         \/ \E n \in 1..Len(Windows(rows, max, skip)) :
              p \in Windows(rows, max, skip)[n].rows
<1>1. p[1] \in Keys
  BY DEF Rows
<1>2. PICK m \in Nat : m = PartOf(rows, max, p[1]) /\ m \in 1..Parts(rows, max)
  BY <1>1, PartsCover
<1>3. p \in Part(rows, max, m)
  BY <1>2 DEF Part
<1>4. CASE m > skip
  <2>1. m - skip \in 1..(Parts(rows, max) - skip) /\ (m - skip) + skip = m
    BY <1>1, <1>2, <1>4, PartsCover
  <2>2. Len(Windows(rows, max, skip)) = Parts(rows, max) - skip
    BY <1>1, WindowsType
  <2>3. Windows(rows, max, skip)[m - skip].rows = Part(rows, max, (m - skip) + skip)
    BY <1>1, <2>1, WindowsType
  <2>4. QED
    BY <1>3, <2>1, <2>2, <2>3
<1>5. CASE m = skip
  BY <1>2, <1>3, <1>5
<1>6. QED
  BY <1>2, <1>4, <1>5

\* A slice takes the first rows: what lies before one of them is in it.
LEMMA FirstIsInitial ==
  ASSUME NEW S \in SUBSET Keys, NEW n \in Nat, NEW last \in First(S, n),
         NEW k \in S, k <= last
  PROVE  k \in First(S, n)
<1> DEFINE B == {j \in S : j <= k}
           D == {j \in S : j <= last}
<1>1. last \in S /\ Cardinality(D) <= n
  BY DEF First
<1>2. IsFiniteSet(D)
  <2>1. D \in SUBSET Keys
    OBVIOUS
  <2>2. QED
    BY <2>1, KeysFinite, FS_Subset
<1>3. B \subseteq D
  <2>1. ASSUME NEW j \in S, j <= k PROVE j <= last
    <3>1. j \in Nat /\ k \in Nat /\ last \in Nat
      BY <1>1, TransportAssumption DEF Keys
    <3>2. QED
      BY <2>1, <3>1
  <2>2. QED
    BY <2>1
<1>4. IsFiniteSet(B) /\ Cardinality(B) <= Cardinality(D)
  BY <1>2, <1>3, FS_Subset
<1>5. Cardinality(B) \in Nat /\ Cardinality(D) \in Nat
  BY <1>2, <1>4, FS_CardinalityType
<1>6. Cardinality(B) <= n
  BY <1>1, <1>4, <1>5
<1>7. QED
  BY <1>6 DEF First
-----------------------------------------------------------------------------
(* Type correctness, and where a tab is in its drain. *)

LEMMA NothingTyped ==
  /\ {} \in Rows
  /\ NoEnvelope \in Envelope
  /\ Idle \in TabType
BY TransportAssumption DEF Rows, NoEnvelope, Envelope, Idle, TabType

LEMMA RowsOfType ==
  ASSUME NEW S \in SUBSET Keys, NEW f, \A k \in S : f[k] \in Version
  PROVE  RowsOf(f, S) \in Rows
BY DEF RowsOf, Rows

LEMMA StoredType ==
  ASSUME mirror \in [Keys -> Version], NEW e \in Envelope
  PROVE  Stored(e) \in [Keys -> Version]
<1>1. ASSUME NEW k \in Keys,
             \E v \in Version : <<k, v>> \in e.rows /\ Present(v)
      PROVE  (CHOOSE v \in Version : <<k, v>> \in e.rows /\ Present(v)) \in Version
  BY <1>1
<1>2. 0 \in Version
  BY TransportAssumption DEF Version
<1>3. ASSUME NEW k \in Keys
      PROVE  (IF k \notin KeysOf(e.rows) \/ (e.op = "insert" /\ mirror[k] # 0)
              THEN mirror[k]
              ELSE IF \E v \in Version : <<k, v>> \in e.rows /\ Present(v)
                   THEN CHOOSE v \in Version : <<k, v>> \in e.rows /\ Present(v)
                   ELSE 0) \in Version
  BY <1>1, <1>2
<1>4. QED
  BY <1>3 DEF Stored

\* An outcome is held only until the call that reports it, an idle tab has
\* posted nothing, and a drain that goes on may post another batch.
InPlace(t) ==
  /\ tab[t].outcome # "none" => tab[t].pc = "outcome"
  /\ tab[t].pc = "off" => tab[t] = Idle
  /\ tab[t].pc \in {"outcome", "claim", "emit"} /\ tab[t].mode = "loop"
       => tab[t].batches < MaxBatches

TabsTyped == tab \in [Tabs -> TabType] /\ \A t \in Tabs : InPlace(t)

\* The state of one tab, as a step leaves it.
Fits(r) ==
  /\ r \in TabType
  /\ r.outcome # "none" => r.pc = "outcome"
  /\ r.pc = "off" => r = Idle
  /\ r.pc \in {"outcome", "claim", "emit"} /\ r.mode = "loop" => r.batches < MaxBatches

LEMMA OneTabChanges ==
  ASSUME TabsTyped, NEW t \in Tabs, NEW r, Fits(r), tab' = [tab EXCEPT ![t] = r]
  PROVE  TabsTyped'
BY DEF TabsTyped, InPlace, Fits

LEMMA TabFits == ASSUME TabsTyped, NEW t \in Tabs PROVE Fits(tab[t])
BY DEF TabsTyped, InPlace, Fits

LEMMA IdleFits == Fits(Idle)
BY NothingTyped DEF Fits, Idle

LEMMA ReportTyped ==
  ASSUME TabsTyped, NEW t \in Tabs, tab[t].pc = "posted",
         NEW outcome \in {"ack", "fail"}, NEW last \in BOOLEAN,
         outcome = "fail" => last \/ tab[t].fails < Retries,
         Report(t, outcome, last)
  PROVE  TabsTyped'
<1> DEFINE call == [Idle EXCEPT !.pc = "outcome", !.outcome = outcome]
           final == [call EXCEPT !.mode = "final"]
           going == [call EXCEPT !.batches = tab[t].batches,
                                 !.fails = IF outcome = "ack" THEN 0
                                           ELSE tab[t].fails + 1]
<1>1. tab[t] \in TabType
  BY DEF TabsTyped
<1>2. CASE last \/ tab[t].batches = MaxBatches
  <2>1. Fits(final)
    BY NothingTyped, TransportAssumption DEF Fits, Idle, TabType
  <2>2. tab' = [tab EXCEPT ![t] = final]
    BY <1>1, <1>2 DEF Report, TabsTyped
  <2> HIDE DEF final
  <2>3. QED
    BY <2>1, <2>2, OneTabChanges
<1>3. CASE ~(last \/ tab[t].batches = MaxBatches)
  <2>1. tab[t].batches \in 0..MaxBatches /\ tab[t].batches < MaxBatches
    BY <1>1, <1>3, TransportAssumption DEF TabType
  <2>2. tab[t].fails \in 0..Retries
    BY <1>1 DEF TabType
  <2>3. (IF outcome = "ack" THEN 0 ELSE tab[t].fails + 1) \in 0..Retries
    BY <1>3, <2>2, TransportAssumption
  <2>4. Fits(going)
    BY <2>1, <2>3, NothingTyped DEF Fits, Idle, TabType
  <2>5. tab' = [tab EXCEPT ![t] = going]
    BY <1>1, <1>3 DEF Report, TabsTyped
  <2> HIDE DEF going
  <2>6. QED
    BY <2>4, <2>5, OneTabChanges
<1>4. QED
  BY <1>2, <1>3

LEMMA ReplyTyped ==
  ASSUME TabsTyped, NEW t \in Tabs, tab[t].pc \in {"claim", "emit"},
         NEW e \in Envelope, NEW more \in BOOLEAN, Reply(t, e, more)
  PROVE  TabsTyped'
<1> DEFINE next == [tab[t] EXCEPT !.pc = "posted", !.outcome = "none", !.env = e,
                                  !.more = more, !.batches = @ + 1]
<1>1. Fits(tab[t])
  BY TabFits
<1>2. CASE tab[t].mode = "loop"
  <2>1. tab[t].batches + 1 \in 0..MaxBatches
    BY <1>1, <1>2, TransportAssumption DEF Fits, TabType
  <2>2. Fits(next)
    BY <1>1, <2>1 DEF Fits, TabType
  <2>3. tab' = [tab EXCEPT ![t] = IF tab[t].mode = "loop" THEN next ELSE Idle]
    BY Zenon DEF Reply
  <2> HIDE DEF next
  <2>4. QED
    BY <1>2, <2>2, <2>3, OneTabChanges
<1>3. CASE tab[t].mode # "loop"
  BY <1>3, IdleFits, OneTabChanges DEF Reply, TabsTyped
<1>4. QED
  BY <1>2, <1>3

WireTyped ==
  /\ late \in [1..MaxFaults -> Envelope]
  /\ mirror \in [Keys -> Version]
  /\ told \in Rows
  /\ faults \in 0..MaxFaults

RecordType(n) == [ids : SUBSET (1..n), advance : 0..NumKeys, tails : Seq(TailType)]
SeenType(n) == [cursor : 0..NumKeys, ids : SUBSET (1..n), more : BOOLEAN]

StoreTyped ==
  /\ corpus \in [Keys -> Version]
  /\ frontier \in 0..NumKeys /\ cursor \in 0..NumKeys
  /\ queue \in Seq(Notice)
  /\ inflight \in [Tabs -> RecordType(Len(queue))]
  /\ seen \in [Tabs -> SeenType(Len(queue))]
  /\ enabled \in BOOLEAN
  /\ overtaken \in SUBSET Keys
  /\ crossed \in BOOLEAN

TypeInv == TabsTyped /\ WireTyped /\ StoreTyped

LEMMA TypeInvTypes == TypeInv => TypeOK
BY DEF TypeInv, TabsTyped, WireTyped, StoreTyped, TypeOK, TransportTypeOK,
       RecordType, SeenType, TailType

LEMMA StoreStays == ASSUME StoreTyped, UNCHANGED storeVars PROVE StoreTyped'
BY DEF StoreTyped, storeVars, RecordType, SeenType, TailType, Notice, Rows,
       Keys, Version

LEMMA FaultTyped ==
  ASSUME WireTyped, Fault PROVE faults' \in 0..MaxFaults /\ faults + 1 \in 1..MaxFaults
BY TransportAssumption DEF WireTyped, Fault

LEMMA GiveUpTyped ==
  ASSUME WireTyped, TabsTyped, NEW t \in Tabs, Fault, GiveUp(t)
  PROVE  late' \in [1..MaxFaults -> Envelope]
<1>1. faults + 1 \in 1..MaxFaults
  BY FaultTyped
<1>2. tab[t].env \in Envelope
  BY DEF TabsTyped, TabType
<1>3. QED
  BY <1>1, <1>2 DEF WireTyped, GiveUp

LEMMA ReceiveTyped ==
  ASSUME WireTyped, NEW e \in Envelope, Receive(e)
  PROVE  mirror' \in [Keys -> Version] /\ told' \in Rows
<1>1. e.rows \in Rows
  BY DEF Envelope
<1>2. Stored(e) \in [Keys -> Version]
  BY StoredType DEF WireTyped
<1>3. QED
  BY <1>1, <1>2 DEF WireTyped, Receive, Rows

LEMMA TransportTyped ==
  ASSUME TypeInv, TransportNext, UNCHANGED storeVars PROVE TypeInv'
<1>1. StoreTyped'
  BY StoreStays DEF TypeInv
<1>2. TabsTyped /\ WireTyped
  BY DEF TypeInv
<1> SUFFICES TabsTyped' /\ WireTyped'
  BY <1>1 DEF TypeInv
<1>3. ASSUME NEW t \in Tabs, Start(t) PROVE TabsTyped' /\ WireTyped'
  <2> DEFINE r == [tab[t] EXCEPT !.pc = "outcome"]
  <2>1. tab[t] = Idle
    BY <1>2, <1>3 DEF TabsTyped, InPlace, Start
  <2>2. Fits(r)
    <3>1. r = [Idle EXCEPT !.pc = "outcome"]
      BY <2>1
    <3>2. r \in TabType
      BY <3>1, NothingTyped DEF Idle, TabType
    <3>3. r.pc = "outcome" /\ r.batches = 0
      BY <3>1 DEF Idle
    <3>4. QED
      BY <3>2, <3>3, TransportAssumption DEF Fits
  <2>3. tab' = [tab EXCEPT ![t] = r]
    BY <1>3, Zenon DEF Start
  <2> HIDE DEF r
  <2>4. TabsTyped'
    BY <1>2, <2>2, <2>3, OneTabChanges
  <2>5. faults' \in 0..MaxFaults
    <3>1. CASE UNCHANGED faults
      BY <1>2, <3>1 DEF WireTyped
    <3>2. CASE Fault
      BY <1>2, <3>2, FaultTyped
    <3>3. QED
      BY <1>3, <3>1, <3>2 DEF Start
  <2>6. QED
    BY <1>2, <1>3, <2>4, <2>5 DEF WireTyped, Start
<1>4. ASSUME NEW t \in Tabs, Deliver(t) PROVE TabsTyped' /\ WireTyped'
  <2>1. tab[t].env \in Envelope /\ tab[t].more \in BOOLEAN
    BY <1>2 DEF TabsTyped, TabType
  <2>2. TabsTyped'
    <3>1. (~tab[t].more) \in BOOLEAN
      BY <2>1
    <3>2. QED
      BY <1>2, <1>4, <3>1, ReportTyped DEF Deliver
  <2>3. mirror' \in [Keys -> Version] /\ told' \in Rows
    BY <1>2, <1>4, <2>1, ReceiveTyped DEF Deliver
  <2>4. QED
    BY <1>2, <1>4, <2>2, <2>3 DEF WireTyped, Deliver
<1>5. ASSUME NEW t \in Tabs, Fail(t) PROVE TabsTyped' /\ WireTyped'
  <2>1. tab[t].fails \in 0..Retries
    BY <1>2 DEF TabsTyped, TabType
  <2>2. (tab[t].fails = Retries) \/ tab[t].fails < Retries
    BY <2>1, TransportAssumption
  <2>3. TabsTyped'
    <3> DEFINE last == tab[t].fails = Retries
    <3>1. Report(t, "fail", last) /\ tab[t].pc = "posted" /\ last \in BOOLEAN
      BY <1>5 DEF Fail
    <3>2. last \/ tab[t].fails < Retries
      BY <2>2
    <3> HIDE DEF last
    <3>3. QED
      BY <1>2, <3>1, <3>2, ReportTyped
  <2>4. late' \in [1..MaxFaults -> Envelope] /\ faults' \in 0..MaxFaults
    BY <1>2, <1>5, FaultTyped, GiveUpTyped DEF Fail
  <2>5. QED
    BY <1>2, <1>5, <2>3, <2>4 DEF WireTyped, Fail
<1>6. ASSUME NEW t \in Tabs, Refuse(t) PROVE TabsTyped' /\ WireTyped'
  <2>1. TabsTyped'
    BY <1>2, <1>6, ReportTyped DEF Refuse
  <2>2. late' \in [1..MaxFaults -> Envelope] /\ faults' \in 0..MaxFaults
    BY <1>2, <1>6, FaultTyped, GiveUpTyped DEF Refuse
  <2>3. QED
    BY <1>2, <1>6, <2>1, <2>2 DEF WireTyped, Refuse
<1>7. ASSUME NEW t \in Tabs, Close(t) PROVE TabsTyped' /\ WireTyped'
  <2> DEFINE gone == [tab[t] EXCEPT !.mode = "gone", !.batches = 0, !.fails = 0]
  <2>1. Fits(tab[t])
    BY <1>2, TabFits
  <2>2. tab[t].pc # "off" => Fits(gone)
    <3>1. gone \in TabType
      <4>1. tab[t] \in TabType /\ "gone" \in {"loop", "final", "gone"}
            /\ 0 \in 0..MaxBatches /\ 0 \in 0..Retries
        BY <2>1, TransportAssumption DEF Fits
      <4>2. QED
        BY <4>1 DEF TabType
    <3>2. gone.pc = tab[t].pc /\ gone.outcome = tab[t].outcome /\ gone.mode = "gone"
      BY <2>1 DEF Fits, TabType
    <3>3. QED
      BY <2>1, <3>1, <3>2 DEF Fits
  <2>3. tab' = [tab EXCEPT ![t] = IF tab[t].pc = "posted" THEN Idle ELSE gone]
    BY <1>7, Zenon DEF Close
  <2> HIDE DEF gone
  <2>4. Fits(IF tab[t].pc = "posted" THEN Idle ELSE gone)
    BY <1>7, <2>2, IdleFits DEF Close
  <2>5. TabsTyped'
    BY <1>2, <2>3, <2>4, OneTabChanges
  <2>6. late' \in [1..MaxFaults -> Envelope] /\ faults' \in 0..MaxFaults
    BY <1>2, <1>7, FaultTyped, GiveUpTyped DEF Close
  <2>7. QED
    BY <1>2, <1>7, <2>5, <2>6 DEF WireTyped, Close
<1>8. ASSUME NEW t \in Tabs, CallFails(t) PROVE TabsTyped' /\ WireTyped'
  <2>1. TabsTyped'
    <3>1. tab' = [tab EXCEPT ![t] = Idle]
      BY <1>8 DEF CallFails
    <3>2. QED
      BY <1>2, <3>1, IdleFits, OneTabChanges
  <2>2. faults' \in 0..MaxFaults
    BY <1>2, <1>8, FaultTyped DEF CallFails
  <2>3. QED
    BY <1>2, <1>8, <2>1, <2>2 DEF WireTyped, CallFails
<1>9. ASSUME NEW n \in 1..MaxFaults, LateArrives(n) PROVE TabsTyped' /\ WireTyped'
  <2>1. late[n] \in Envelope
    BY <1>2 DEF WireTyped
  <2>2. mirror' \in [Keys -> Version] /\ told' \in Rows
    BY <1>2, <1>9, <2>1, ReceiveTyped DEF LateArrives
  <2>3. TabsTyped'
    BY <1>2, <1>9 DEF LateArrives, TabsTyped, InPlace
  <2>4. QED
    BY <1>2, <1>9, <2>2, <2>3, NothingTyped DEF WireTyped, LateArrives
<1>10. QED
  BY <1>3, <1>4, <1>5, <1>6, <1>7, <1>8, <1>9 DEF TransportNext

-----------------------------------------------------------------------------
(* The writers and the server keep the types. *)

\* Notices are only ever added, at the end.
LEMMA QueueGrows ==
  ASSUME NEW q \in Seq(Notice), NEW s \in Seq(Notice)
  PROVE  /\ q \o s \in Seq(Notice)
         /\ Len(q \o s) = Len(q) + Len(s)
         /\ 1..Len(q) \subseteq 1..Len(q \o s)
         /\ \A i \in 1..Len(q) : (q \o s)[i] = q[i]
         /\ \A n \in 1..Len(s) : Len(q) + n \in 1..Len(q \o s)
                                 /\ (q \o s)[Len(q) + n] = s[n]
<1>1. Len(q) \in Nat /\ Len(s) \in Nat
  OBVIOUS
<1>2. q \o s \in Seq(Notice) /\ Len(q \o s) = Len(q) + Len(s)
  OBVIOUS
<1>3. \A i \in 1..Len(q) : (q \o s)[i] = q[i]
  OBVIOUS
<1>4. \A n \in 1..Len(s) : (q \o s)[Len(q) + n] = s[n]
  BY <1>1
<1>5. QED
  BY <1>1, <1>2, <1>3, <1>4

LEMMA TailsAreNotices == TailType \subseteq Notice
BY DEF TailType, Notice

\* Records and what the calls have read still name notices of a longer queue.
LEMMA RecordsStay ==
  ASSUME StoreTyped, NEW n \in Nat, Len(queue) <= n
  PROVE  /\ inflight \in [Tabs -> RecordType(n)]
         /\ seen \in [Tabs -> SeenType(n)]
<1>1. Len(queue) \in Nat
  BY DEF StoreTyped
<1>2. SUBSET (1..Len(queue)) \subseteq SUBSET (1..n)
  BY <1>1
<1>3. RecordType(Len(queue)) \subseteq RecordType(n)
      /\ SeenType(Len(queue)) \subseteq SeenType(n)
  BY <1>2 DEF RecordType, SeenType
<1>4. QED
  BY <1>3 DEF StoreTyped

LEMMA TabsAndWireStay ==
  ASSUME TypeInv, UNCHANGED transportVars PROVE TabsTyped' /\ WireTyped'
BY DEF TypeInv, TabsTyped, WireTyped, InPlace, transportVars

\* What a writer does to the types: it sets the corpus and adds notices.
LEMMA WriterTyped ==
  ASSUME TypeInv, UNCHANGED <<transportVars, cursor, inflight, seen, enabled, crossed>>,
         corpus' \in [Keys -> Version], frontier' \in 0..NumKeys,
         overtaken' \in SUBSET Keys,
         NEW s \in Seq(Notice), queue' = queue \o s
  PROVE  TypeInv'
<1>1. TabsTyped' /\ WireTyped'
  BY TabsAndWireStay
<1>2. queue \in Seq(Notice) /\ StoreTyped
  BY DEF TypeInv, StoreTyped
<1>3. queue' \in Seq(Notice) /\ Len(queue') \in Nat /\ Len(queue) <= Len(queue')
  BY <1>2, QueueGrows
<1>4. inflight \in [Tabs -> RecordType(Len(queue'))]
      /\ seen \in [Tabs -> SeenType(Len(queue'))]
  BY <1>2, <1>3, RecordsStay
<1>5. QED
  BY <1>1, <1>2, <1>3, <1>4 DEF TypeInv, StoreTyped, RecordType, SeenType, TailType

LEMMA NoNotice == queue \in Seq(Notice) => <<>> \in Seq(Notice) /\ queue = queue \o <<>>
OBVIOUS

LEMMA WithdrawalTyped ==
  ASSUME StoreTyped, NEW S \in SUBSET Keys,
         \A k \in S : Present(corpus[k]) /\ corpus[k] < MaxVersion
  PROVE  /\ Withdrawal(S) \in Seq(Notice)
         /\ S # {} => /\ Len(Withdrawal(S)) = 1 /\ ~Withdrawal(S)[1].acked
                      /\ Withdrawal(S)[1].rows = {<<k, corpus[k] + 1>> : k \in S}
<1> DEFINE R == {<<k, corpus[k] + 1>> : k \in S}
           w == [op |-> "withdraw", rows |-> R, acked |-> FALSE]
<1>1. \A k \in S : corpus[k] + 1 \in Version
  BY TransportAssumption DEF StoreTyped, Version
<1>2. R \in Rows
  BY <1>1 DEF Rows
<1>3. w \in Notice /\ w.rows = R /\ ~w.acked
  BY <1>2 DEF Notice
<1>4. Withdrawal(S) = IF S = {} THEN <<>> ELSE <<w>>
  BY DEF Withdrawal
<1> HIDE DEF w
<1>5. QED
  BY <1>3, <1>4

\* The versions a rebuild leaves in its window.
Rebuilt(W, S) ==
  [k \in W |-> CASE Present(corpus[k]) -> corpus[k] + (IF k \in S THEN 2 ELSE 1)
                 [] corpus[k] = 0 /\ k \in S -> 1
                 [] OTHER -> corpus[k]]

LEMMA RebuiltTyped ==
  ASSUME StoreTyped, NEW W \in SUBSET Keys, NEW S \in SUBSET W,
         \A k \in W : Rebuilt(W, S)[k] <= MaxVersion
  PROVE  \A k \in W : /\ Rebuilt(W, S)[k] \in Version
                      /\ corpus[k] # 0 => Rebuilt(W, S)[k] # 0
<1> SUFFICES ASSUME NEW k \in W
             PROVE  Rebuilt(W, S)[k] \in Version /\ (corpus[k] # 0 => Rebuilt(W, S)[k] # 0)
  OBVIOUS
<1>1. corpus[k] \in Nat /\ Rebuilt(W, S)[k] <= MaxVersion
  BY DEF StoreTyped, Version
<1>2. CASE Present(corpus[k])
  BY <1>1, <1>2, TransportAssumption DEF Rebuilt, Version
<1>3. CASE ~Present(corpus[k]) /\ corpus[k] = 0 /\ k \in S
  BY <1>1, <1>3, TransportAssumption DEF Rebuilt, Version
<1>4. CASE ~Present(corpus[k]) /\ ~(corpus[k] = 0 /\ k \in S)
  BY <1>1, <1>4, TransportAssumption DEF Rebuilt, Version
<1>5. QED
  BY <1>2, <1>3, <1>4

LEMMA SpansTyped ==
  ASSUME NEW w \in Spans
  PROVE  /\ w[1] \in Keys /\ w[2] \in Keys
         /\ w[1]..w[2] \in SUBSET Keys
BY PushAssumption, TransportAssumption DEF Keys

\* The windows a writer queues are notices that cover what they were made of.
LEMMA WindowNotices ==
  ASSUME NEW rows \in Rows, NEW max \in Nat \ {0}, NEW skip \in {0, 1}, Keys # {}
  PROVE  /\ Windows(rows, max, skip) \in Seq(Notice)
         /\ \A n \in 1..Len(Windows(rows, max, skip)) :
              ~Windows(rows, max, skip)[n].acked
<1> DEFINE w == Windows(rows, max, skip)
<1>1. w \in Seq(TailType)
  BY WindowsType
<1> HIDE DEF w
<1>2. w \in Seq(Notice) /\ \A n \in 1..Len(w) : w[n] \in TailType
  BY <1>1, TailsAreNotices
<1>3. \A n \in 1..Len(w) : ~w[n].acked
  BY <1>2 DEF TailType
<1>4. QED
  BY <1>2, <1>3 DEF w

LEMMA WriteTyped == ASSUME TypeInv, Write PROVE TypeInv'
<1>0. StoreTyped /\ queue \in Seq(Notice)
  BY DEF TypeInv, StoreTyped
<1>1. ASSUME NEW to \in Keys, NEW S \in SUBSET Keys, CadenceInsert(S, to)
      PROVE  TypeInv'
  <2>1. corpus' \in [Keys -> Version]
    <3>1. 1 \in Version
      BY TransportAssumption DEF Version
    <3>2. QED
      BY <1>0, <1>1, <3>1 DEF CadenceInsert, StoreTyped
  <2>2. frontier' \in 0..NumKeys
    BY <1>1, TransportAssumption DEF CadenceInsert, Keys
  <2>3. overtaken' \in SUBSET Keys
    BY <1>0, <1>1 DEF CadenceInsert, StoreTyped
  <2>4. queue' = queue \o <<>> /\ <<>> \in Seq(Notice)
    BY <1>0, <1>1, NoNotice DEF CadenceInsert
  <2>5. UNCHANGED <<transportVars, cursor, inflight, seen, enabled, crossed>>
    BY <1>1 DEF CadenceInsert
  <2>6. QED
    BY <2>1, <2>2, <2>3, <2>4, <2>5, WriterTyped
<1>2. ASSUME NEW S \in SUBSET Keys, NEW T \in SUBSET Keys, ExclusionDelete(S, T)
      PROVE  TypeInv'
  <2>1. corpus' \in [Keys -> Version]
    <3>1. \A k \in S \cup T : corpus[k] + 1 \in Version
      BY <1>0, <1>2, TransportAssumption DEF ExclusionDelete, StoreTyped, Version
    <3>2. QED
      BY <1>0, <1>2, <3>1 DEF ExclusionDelete, StoreTyped
  <2>2. Withdrawal(S) \in Seq(Notice) /\ Withdrawal(T) \in Seq(Notice)
    BY <1>0, <1>2, WithdrawalTyped DEF ExclusionDelete
  <2>3. queue' = queue \o (Withdrawal(S) \o Withdrawal(T))
        /\ Withdrawal(S) \o Withdrawal(T) \in Seq(Notice)
    BY <1>0, <1>2, <2>2 DEF ExclusionDelete
  <2>4. UNCHANGED <<transportVars, cursor, inflight, seen, enabled, crossed>>
        /\ frontier' \in 0..NumKeys /\ overtaken' \in SUBSET Keys
    BY <1>0, <1>2 DEF ExclusionDelete, StoreTyped
  <2>5. QED
    BY <2>1, <2>3, <2>4, WriterTyped
<1>3. ASSUME NEW w \in Spans, NEW S \in SUBSET (w[1]..w[2]), Rebuild(w[1], w[2], S)
      PROVE  TypeInv'
  <2> DEFINE W == w[1]..w[2]
             new == Rebuilt(W, S)
             s == Windows(RowsOf(new, W), QueueRows, 0)
  <2>1. W \in SUBSET Keys /\ Keys # {}
    BY SpansTyped
  <2>2. \A k \in W : new[k] <= MaxVersion
    BY <1>3 DEF Rebuild, Rebuilt
  <2>3. \A k \in W : new[k] \in Version
    BY <1>0, <2>1, <2>2, RebuiltTyped
  <2>4. corpus' = [k \in Keys |-> IF k \in W THEN new[k] ELSE corpus[k]]
        /\ queue' = queue \o s
    BY <1>3 DEF Rebuild, Rebuilt
  <2>5. UNCHANGED <<transportVars, cursor, inflight, seen, enabled, crossed>>
        /\ frontier' \in 0..NumKeys /\ overtaken' \in SUBSET Keys
    BY <1>0, <1>3 DEF Rebuild, StoreTyped
  <2> HIDE DEF new, W
  <2>6. RowsOf(new, W) \in Rows
    BY <2>1, <2>3, RowsOfType
  <2>7. s \in Seq(Notice)
    BY <2>1, <2>6, PushAssumption, WindowNotices
  <2>8. corpus' \in [Keys -> Version]
    BY <1>0, <2>1, <2>3, <2>4 DEF StoreTyped
  <2> HIDE DEF s
  <2>9. QED
    BY <2>4, <2>5, <2>7, <2>8, WriterTyped
<1>4. ASSUME NEW w \in Spans, Backfill(w[1], w[2]) PROVE TypeInv'
  <2> DEFINE W == w[1]..w[2]
             s == Windows(RowsOf(corpus, W), QueueRows, 0)
  <2>1. W \in SUBSET Keys /\ Keys # {}
    BY SpansTyped
  <2>2. RowsOf(corpus, W) \in Rows
    BY <1>0, <2>1, RowsOfType DEF StoreTyped
  <2>3. s \in Seq(Notice)
    BY <2>1, <2>2, PushAssumption, WindowNotices
  <2>4. queue' = queue \o s
    BY <1>4 DEF Backfill
  <2>5. UNCHANGED <<transportVars, cursor, inflight, seen, enabled, crossed>>
        /\ frontier' \in 0..NumKeys /\ overtaken' \in SUBSET Keys
        /\ corpus' \in [Keys -> Version]
    BY <1>0, <1>4 DEF Backfill, StoreTyped
  <2> HIDE DEF s
  <2>6. QED
    BY <2>3, <2>4, <2>5, WriterTyped
<1>5. QED
  BY <1>1, <1>2, <1>3, <1>4 DEF Write

\* The queue once the notices of tab t's record are marked.
Marked(t) ==
  [i \in 1..Len(queue) |-> [queue[i] EXCEPT !.acked = @ \/ i \in inflight[t].ids]]

LEMMA MarkedTyped ==
  ASSUME queue \in Seq(Notice), NEW t \in Tabs
  PROVE  /\ Marked(t) \in Seq(Notice)
         /\ Len(Marked(t)) = Len(queue)
         /\ \A i \in 1..Len(queue) :
              /\ Marked(t)[i].rows = queue[i].rows
              /\ Marked(t)[i].op = queue[i].op
              /\ Marked(t)[i].acked <=> queue[i].acked \/ i \in inflight[t].ids
<1>1. ASSUME NEW i \in 1..Len(queue), NEW m, m = [queue[i] EXCEPT !.acked = @ \/ i \in inflight[t].ids]
      PROVE  /\ m \in Notice /\ m.rows = queue[i].rows /\ m.op = queue[i].op
             /\ m.acked <=> queue[i].acked \/ i \in inflight[t].ids
  <2>1. queue[i] \in Notice
    OBVIOUS
  <2>2. (queue[i].acked \/ i \in inflight[t].ids) \in BOOLEAN
    OBVIOUS
  <2>3. m \in Notice
    BY <1>1, <2>1, <2>2 DEF Notice
  <2>4. m.rows = queue[i].rows /\ m.op = queue[i].op
    BY <1>1, <2>1 DEF Notice
  <2>5. m.acked <=> queue[i].acked \/ i \in inflight[t].ids
    BY <1>1, <2>1 DEF Notice
  <2>6. QED
    BY <2>3, <2>4, <2>5
<1>2. \A i \in 1..Len(queue) : Marked(t)[i] = [queue[i] EXCEPT !.acked = @ \/ i \in inflight[t].ids]
  BY DEF Marked
<1>3. \A i \in 1..Len(queue) :
        /\ Marked(t)[i] \in Notice
        /\ Marked(t)[i].rows = queue[i].rows
        /\ Marked(t)[i].op = queue[i].op
        /\ Marked(t)[i].acked <=> queue[i].acked \/ i \in inflight[t].ids
  BY <1>1, <1>2
<1>4. Len(queue) \in Nat /\ DOMAIN Marked(t) = 1..Len(queue)
  BY DEF Marked
<1>5. Marked(t) = [i \in 1..Len(queue) |-> Marked(t)[i]]
  BY DEF Marked
<1> HIDE DEF Marked
<1>6. Marked(t) \in Seq(Notice) /\ Len(Marked(t)) = Len(queue)
  BY <1>3, <1>4, <1>5
<1>7. QED
  BY <1>3, <1>6

LEMMA RecordTyped ==
  ASSUME StoreTyped, NEW t \in Tabs
  PROVE  /\ inflight[t].ids \in SUBSET (1..Len(queue))
         /\ inflight[t].advance \in 0..NumKeys
         /\ inflight[t].tails \in Seq(TailType)
         /\ inflight[t].tails \in Seq(Notice)
<1>1. inflight[t] \in RecordType(Len(queue))
  BY DEF StoreTyped
<1>2. QED
  BY <1>1, TailsAreNotices DEF RecordType

LEMMA NoRecordTyped ==
  ASSUME NEW n \in Nat
  PROVE  NoRecord \in RecordType(n) /\ NothingSeen \in SeenType(n)
BY TransportAssumption DEF NoRecord, NothingSeen, RecordType, SeenType

LEMMA CommitTyped ==
  ASSUME TypeInv, NEW t \in Tabs, CommitOnAck(t), UNCHANGED <<corpus, frontier, seen, enabled, overtaken>>
  PROVE  StoreTyped' /\ queue' = Marked(t) \o inflight[t].tails
<1>1. StoreTyped /\ queue \in Seq(Notice)
  BY DEF TypeInv, StoreTyped
<1>2. queue' = Marked(t) \o inflight[t].tails
  BY DEF CommitOnAck, Marked
<1>3. Marked(t) \in Seq(Notice) /\ Len(Marked(t)) = Len(queue)
  BY <1>1, MarkedTyped
<1>4. inflight[t].tails \in Seq(Notice) /\ inflight[t].advance \in 0..NumKeys
  BY <1>1, RecordTyped
<1>5. queue' \in Seq(Notice) /\ Len(queue') \in Nat /\ Len(queue) <= Len(queue')
  BY <1>1, <1>2, <1>3, <1>4, QueueGrows
<1>6. inflight \in [Tabs -> RecordType(Len(queue'))]
      /\ seen \in [Tabs -> SeenType(Len(queue'))]
  BY <1>1, <1>5, RecordsStay
<1>7. inflight' \in [Tabs -> RecordType(Len(queue'))]
  BY <1>5, <1>6, NoRecordTyped DEF CommitOnAck
<1>8. cursor' \in 0..NumKeys
  BY <1>1, <1>4 DEF CommitOnAck, StoreTyped
<1>9. crossed' \in BOOLEAN
  BY DEF CommitOnAck
<1>10. QED
  BY <1>1, <1>2, <1>5, <1>6, <1>7, <1>8, <1>9
     DEF StoreTyped, RecordType, SeenType, TailType

LEMMA OutcomeTyped == ASSUME TypeInv, NEW t \in Tabs, Outcome(t) PROVE TypeInv'
<1> DEFINE r == [tab[t] EXCEPT !.pc = "claim", !.outcome = "none"]
<1>1. Fits(tab[t]) /\ tab[t].pc = "outcome" /\ TabsTyped /\ StoreTyped
  BY TabFits DEF TypeInv, Outcome
<1>2. Fits(r)
  <2>1. tab[t] \in TabType
    BY <1>1 DEF Fits
  <2>2. r \in TabType /\ r.pc = "claim" /\ r.outcome = "none"
        /\ r.mode = tab[t].mode /\ r.batches = tab[t].batches
    BY <2>1 DEF TabType
  <2>3. QED
    BY <1>1, <2>2 DEF Fits
<1>3. tab' = [tab EXCEPT ![t] = r]
  BY <1>1 DEF Outcome, TabsTyped, TabType
<1> HIDE DEF r
<1>4. TabsTyped'
  BY <1>1, <1>2, <1>3, OneTabChanges
<1>5. WireTyped'
  BY DEF TypeInv, WireTyped, Outcome
<1>6. UNCHANGED <<corpus, frontier, seen, enabled, overtaken>>
  BY DEF Outcome
<1>7. CASE tab[t].outcome = "ack"
  BY <1>4, <1>5, <1>6, <1>7, CommitTyped DEF Outcome, TypeInv
<1>8. CASE tab[t].outcome = "fail"
  <2>1. RecordOnFail(t)
    BY <1>8 DEF Outcome
  <2>2. Len(queue) \in Nat
    BY <1>1 DEF StoreTyped
  <2>3. inflight' \in [Tabs -> RecordType(Len(queue'))]
    BY <1>1, <2>1, <2>2, NoRecordTyped DEF RecordOnFail, StoreTyped
  <2>4. StoreTyped'
    BY <1>1, <1>6, <2>1, <2>3 DEF RecordOnFail, StoreTyped, RecordType, SeenType, TailType
  <2>5. QED
    BY <1>4, <1>5, <2>4 DEF TypeInv
<1>9. CASE tab[t].outcome \notin {"ack", "fail"}
  <2>1. UNCHANGED storeVars
    BY <1>9, <1>6 DEF Outcome, storeVars
  <2>2. QED
    BY <1>1, <1>4, <1>5, <2>1, StoreStays DEF TypeInv
<1>10. QED
  BY <1>7, <1>8, <1>9

LEMMA PausedTyped == ASSUME TypeInv, NEW t \in Tabs, Paused(t) PROVE TypeInv'
<1>1. StoreTyped'
  BY StoreStays DEF TypeInv, Paused
<1>2. tab' = [tab EXCEPT ![t] = Idle]
  BY DEF Paused, ReplyNothing
<1>3. TabsTyped'
  BY <1>2, IdleFits, OneTabChanges DEF TypeInv
<1>4. QED
  BY <1>1, <1>3 DEF TypeInv, WireTyped, Paused

LEMMA ClaimTyped == ASSUME TypeInv, NEW t \in Tabs, Claim(t) PROVE TypeInv'
<1> DEFINE r == [tab[t] EXCEPT !.pc = "emit"]
<1>1. Fits(tab[t]) /\ tab[t].pc = "claim" /\ TabsTyped /\ StoreTyped /\ WireTyped
  BY TabFits DEF TypeInv, Claim
<1>2. Fits(r)
  <2>1. r \in TabType /\ r.pc = "emit" /\ r.outcome = tab[t].outcome
        /\ r.mode = tab[t].mode /\ r.batches = tab[t].batches
    BY <1>1 DEF Fits, TabType
  <2>2. QED
    BY <1>1, <2>1 DEF Fits
<1>3. tab' = [tab EXCEPT ![t] = r]
  BY Zenon DEF Claim
<1> HIDE DEF r
<1>4. TabsTyped'
  BY <1>1, <1>2, <1>3, OneTabChanges
<1>5. PICK expired \in SUBSET {u \in Tabs : Holds(u)} :
        /\ expired # {} => Fault
        /\ expired = {} => UNCHANGED faults
        /\ inflight' = [u \in Tabs |-> IF Holds(u) /\ u \notin expired
                                       THEN inflight[u] ELSE NoRecord]
  BY DEF Claim
<1>6. faults' \in 0..MaxFaults
  <2>1. CASE expired = {}
    BY <1>1, <1>5, <2>1 DEF WireTyped
  <2>2. CASE expired # {}
    BY <1>1, <1>5, <2>2, FaultTyped
  <2>3. QED
    BY <2>1, <2>2
<1>7. WireTyped'
  BY <1>1, <1>6 DEF WireTyped, Claim
<1>8. Len(queue) \in Nat
  BY <1>1 DEF StoreTyped
<1>9. inflight' \in [Tabs -> RecordType(Len(queue))]
  BY <1>1, <1>5, <1>8, NoRecordTyped DEF StoreTyped
<1>10. seen' \in [Tabs -> SeenType(Len(queue))]
  <2>1. Claimable \subseteq 1..Len(queue) /\ cursor \in 0..NumKeys
    BY <1>1 DEF Claimable, Pending, StoreTyped
  <2>2. (Pending # Claimable) \in BOOLEAN
    OBVIOUS
  <2>3. [cursor |-> cursor, ids |-> Claimable, more |-> Pending # Claimable]
          \in SeenType(Len(queue))
    BY <2>1, <2>2 DEF SeenType
  <2>4. QED
    BY <1>1, <2>3 DEF Claim, StoreTyped
<1>11. StoreTyped'
  BY <1>1, <1>9, <1>10 DEF Claim, StoreTyped, RecordType, SeenType, TailType
<1>12. QED
  BY <1>4, <1>7, <1>11 DEF TypeInv

LEMMA SendTyped ==
  ASSUME TypeInv, NEW t \in Tabs, tab[t].pc = "emit",
         NEW e \in Envelope, NEW record \in RecordType(Len(queue)),
         NEW more \in BOOLEAN, Send(t, e, record, more),
         seen' = [seen EXCEPT ![t] = NothingSeen],
         UNCHANGED <<late, mirror, told, faults, corpus, frontier, cursor, queue,
                     enabled, overtaken>>
  PROVE  TypeInv'
<1>1. TabsTyped'
  BY ReplyTyped DEF Send, TypeInv
<1>2. Len(queue) \in Nat /\ StoreTyped
  BY DEF TypeInv, StoreTyped
<1>3. inflight' \in [Tabs -> RecordType(Len(queue))]
      /\ seen' \in [Tabs -> SeenType(Len(queue))]
      /\ crossed' \in BOOLEAN
  BY <1>2, NoRecordTyped DEF Send, StoreTyped
<1>4. StoreTyped'
  BY <1>2, <1>3 DEF StoreTyped, RecordType, SeenType, TailType
<1>5. QED
  BY <1>1, <1>4 DEF TypeInv, WireTyped

\* A claimed call has read notices of the queue.
LEMMA SeenTyped ==
  ASSUME StoreTyped, NEW t \in Tabs
  PROVE  /\ seen[t].ids \in SUBSET (1..Len(queue))
         /\ seen[t].cursor \in 0..NumKeys
         /\ seen[t].more \in BOOLEAN
         /\ \A i \in seen[t].ids : queue[i] \in Notice /\ queue[i].rows \in Rows
<1>1. seen[t] \in SeenType(Len(queue)) /\ queue \in Seq(Notice)
  BY DEF StoreTyped
<1>2. \A i \in 1..Len(queue) : queue[i] \in Notice
  BY <1>1
<1>3. \A n \in Notice : n.rows \in Rows
  BY DEF Notice
<1>4. QED
  BY <1>1, <1>2, <1>3 DEF SeenType

\* The parts of a window after the first are tails, whatever the keys.
LEMMA TailsTyped ==
  ASSUME NEW rows \in Rows PROVE Windows(rows, WindowRows, 1) \in Seq(TailType)
<1>1. CASE Keys # {}
  <2>1. WindowRows \in Nat \ {0} /\ 1 \in {0, 1}
    BY PushAssumption
  <2>2. QED
    BY <1>1, <2>1, WindowsType
<1>2. CASE Keys = {}
  <2>1. rows = {}
    BY <1>2 DEF Rows
  <2>2. Existing(rows) = {} /\ Cardinality({}) = 0
    BY <2>1, FS_EmptySet DEF Existing
  <2>3. Parts(rows, WindowRows) = 1
    BY <2>2 DEF Parts, PartNumber
  <2>4. Windows(rows, WindowRows, 1) = <<>>
    BY <2>3 DEF Windows
  <2>5. <<>> \in Seq(TailType)
    OBVIOUS
  <2>6. QED
    BY <2>4, <2>5
<1>3. QED
  BY <1>1, <1>2

LEMMA EmitNoticesTyped == ASSUME TypeInv, NEW t \in Tabs, EmitNotices(t) PROVE TypeInv'
<1> DEFINE ids == seen[t].ids
           streaming == PastCursor(seen[t].cursor) # {}
<1>1. StoreTyped /\ tab[t].pc = "emit"
  BY DEF TypeInv, EmitNotices
<1>2. ids \in SUBSET (1..Len(queue)) /\ seen[t].more \in BOOLEAN
      /\ \A i \in ids : queue[i].rows \in Rows
  BY <1>1, SeenTyped
<1>3. PICK head \in ids :
        IF queue[head].op = "withdraw"
        THEN Send(t, [op |-> "set", rows |-> UNION {queue[i].rows : i \in ids}],
                  [ids |-> ids, advance |-> 0, tails |-> <<>>],
                  seen[t].more \/ streaming)
        ELSE Send(t, [op |-> "set", rows |-> Part(queue[head].rows, WindowRows, 1)],
                  [ids |-> {head}, advance |-> 0,
                   tails |-> Windows(queue[head].rows, WindowRows, 1)],
                  seen[t].more \/ Windows(queue[head].rows, WindowRows, 1) # <<>> \/ streaming)
  BY DEF EmitNotices
<1>4. /\ seen' = [seen EXCEPT ![t] = NothingSeen]
      /\ UNCHANGED <<late, mirror, told, faults, corpus, frontier, cursor, queue,
                     enabled, overtaken>>
  BY DEF EmitNotices
<1>5. 0 \in 0..NumKeys
  BY TransportAssumption
<1>6. CASE queue[head].op = "withdraw"
  <2> DEFINE e == [op |-> "set", rows |-> UNION {queue[i].rows : i \in ids}]
             record == [ids |-> ids, advance |-> 0, tails |-> <<>>]
             more == seen[t].more \/ streaming
  <2>1. e \in Envelope
    BY <1>2 DEF Envelope, Rows
  <2>2. record \in RecordType(Len(queue))
    BY <1>2, <1>5 DEF RecordType
  <2>3. more \in BOOLEAN
    OBVIOUS
  <2>4. Send(t, e, record, more)
    BY <1>3, <1>6
  <2> HIDE DEF e, record, more
  <2>5. QED
    BY <1>1, <1>4, <2>1, <2>2, <2>3, <2>4, SendTyped
<1>7. CASE queue[head].op # "withdraw"
  <2> DEFINE rows == queue[head].rows
             tails == Windows(rows, WindowRows, 1)
             e == [op |-> "set", rows |-> Part(rows, WindowRows, 1)]
             record == [ids |-> {head}, advance |-> 0, tails |-> tails]
             more == seen[t].more \/ tails # <<>> \/ streaming
  <2>1. rows \in Rows /\ {head} \in SUBSET (1..Len(queue))
    BY <1>2
  <2>2. e \in Envelope
    BY <2>1 DEF Envelope, Part, Rows
  <2>3. tails \in Seq(TailType)
    BY <2>1, TailsTyped
  <2>4. record \in RecordType(Len(queue))
    BY <1>5, <2>1, <2>3 DEF RecordType
  <2>5. more \in BOOLEAN
    OBVIOUS
  <2>6. Send(t, e, record, more)
    BY <1>3, <1>7
  <2> HIDE DEF e, record, more
  <2>7. QED
    BY <1>1, <1>4, <2>2, <2>4, <2>5, <2>6, SendTyped
<1>8. QED
  BY <1>6, <1>7

LEMMA EmitSliceTyped == ASSUME TypeInv, NEW t \in Tabs, EmitSlice(t) PROVE TypeInv'
<1> DEFINE past == PastCursor(seen[t].cursor)
           slice == First(past, Page)
           e == [op |-> "insert", rows |-> RowsOf(corpus, slice)]
           more == past # slice
<1>1. StoreTyped /\ tab[t].pc = "emit"
  BY DEF TypeInv, EmitSlice
<1>2. slice \in SUBSET Keys
  BY DEF First, PastCursor
<1>3. PICK last \in slice :
        Send(t, e, [ids |-> {}, advance |-> Floor[last], tails |-> <<>>], more)
  BY DEF EmitSlice
<1> DEFINE record == [ids |-> {}, advance |-> Floor[last], tails |-> <<>>]
<1>4. e \in Envelope
  BY <1>1, <1>2, RowsOfType DEF Envelope, StoreTyped
<1>5. record \in RecordType(Len(queue))
  BY <1>2, PushAssumption DEF RecordType
<1>6. more \in BOOLEAN
  OBVIOUS
<1>7. Send(t, e, record, more)
  BY <1>3
<1>8. /\ seen' = [seen EXCEPT ![t] = NothingSeen]
      /\ UNCHANGED <<late, mirror, told, faults, corpus, frontier, cursor, queue,
                     enabled, overtaken>>
  BY DEF EmitSlice
<1> HIDE DEF e, record, more
<1>9. QED
  BY <1>1, <1>4, <1>5, <1>6, <1>7, <1>8, SendTyped

LEMMA EmitNothingTyped == ASSUME TypeInv, NEW t \in Tabs, EmitNothing(t) PROVE TypeInv'
<1>1. TabsTyped'
  BY IdleFits, OneTabChanges DEF TypeInv, EmitNothing, ReplyNothing
<1>2. Len(queue) \in Nat /\ StoreTyped
  BY DEF TypeInv, StoreTyped
<1>3. seen' \in [Tabs -> SeenType(Len(queue))]
  BY <1>2, NoRecordTyped DEF EmitNothing, StoreTyped
<1>4. StoreTyped'
  BY <1>2, <1>3 DEF EmitNothing, StoreTyped, RecordType, SeenType, TailType
<1>5. QED
  BY <1>1, <1>4 DEF TypeInv, WireTyped, EmitNothing

LEMMA SwitchTyped == ASSUME TypeInv, Pause \/ Resume PROVE TypeInv'
<1>1. WireTyped' /\ TabsTyped'
  <2>1. CASE Pause
    BY <2>1, FaultTyped DEF Pause, TypeInv, WireTyped, TabsTyped, InPlace
  <2>2. CASE Resume
    BY <2>2, TabsAndWireStay DEF Resume
  <2>3. QED
    BY <2>1, <2>2
<1>2. StoreTyped'
  BY DEF Pause, Resume, TypeInv, StoreTyped, RecordType, SeenType, TailType
<1>3. QED
  BY <1>1, <1>2 DEF TypeInv

LEMMA TypeStep == ASSUME TypeInv, [Next]_vars PROVE TypeInv'
<1>1. CASE TransportNext /\ UNCHANGED storeVars
  BY <1>1, TransportTyped
<1>2. ASSUME NEW t \in Tabs, Serve(t) PROVE TypeInv'
  BY <1>2, OutcomeTyped, PausedTyped, ClaimTyped, EmitNoticesTyped, EmitSliceTyped,
     EmitNothingTyped DEF Serve
<1>3. CASE Write
  BY <1>3, WriteTyped
<1>4. CASE Pause \/ Resume
  BY <1>4, SwitchTyped
<1>5. CASE UNCHANGED vars
  BY <1>5, StoreStays, TabsAndWireStay DEF TypeInv, vars
<1>6. QED
  BY <1>1, <1>2, <1>3, <1>4, <1>5 DEF Next

LEMMA TypeInit == Init => TypeInv
<1> SUFFICES ASSUME Init PROVE TypeInv
  OBVIOUS
<1>1. TabsTyped
  BY IdleFits DEF Init, TransportInit, TabsTyped, InPlace, Fits
<1>2. WireTyped
  BY NothingTyped, TransportAssumption DEF Init, TransportInit, WireTyped, Version
<1>3. <<>> \in Seq(Notice) /\ Len(<<>>) = 0
  OBVIOUS
<1>4. NoRecord \in RecordType(0) /\ NothingSeen \in SeenType(0)
  BY NoRecordTyped
<1>5. inflight \in [Tabs -> RecordType(Len(queue))] /\ seen \in [Tabs -> SeenType(Len(queue))]
  BY <1>3, <1>4 DEF Init
<1>6. corpus \in [Keys -> Version] /\ 0 \in 0..NumKeys
  BY TransportAssumption DEF Init, Version
<1>7. StoreTyped
  BY <1>3, <1>5, <1>6 DEF Init, StoreTyped
<1>8. QED
  BY <1>1, <1>2, <1>7 DEF TypeInv

-----------------------------------------------------------------------------
(* The inductive invariant. *)

Heard(k) == <<k, corpus[k]>> \in told
InQueue(k) == \E i \in Pending : <<k, corpus[k]>> \in queue[i].rows

\* Some row that exists or existed lies at the cursor or after it.
Reached(c) == c = 0 \/ \E j \in Keys : j >= c /\ corpus[j] # 0

Covered(k) ==
  corpus[k] = 0 \/ Heard(k) \/ (Present(corpus[k]) /\ k > cursor) \/ InQueue(k)

\* A tab whose record an acknowledgement will settle, and what it vouches for.
Live(t) == tab[t].pc = "posted" \/ tab[t].outcome = "ack"
Arrived(t) == IF tab[t].pc = "posted" THEN tab[t].env.rows \cup told ELSE told
InTails(t, p) ==
  \E n \in 1..Len(inflight[t].tails) : p \in inflight[t].tails[n].rows

\* The notices of the record went with the batch, but for its tails.
Settles(t) ==
  \A i \in inflight[t].ids : \A p \in queue[i].rows : p \in Arrived(t) \/ InTails(t, p)

\* The rows the cursor will pass went with the batch, or are in a notice.
Streams(t) ==
  \A k \in Keys \ overtaken :
    cursor < k /\ k <= inflight[t].advance /\ Present(corpus[k])
      => <<k, corpus[k]>> \in Arrived(t) \/ InQueue(k)

\* A record settles notices or moves the cursor, never both.
Apart(t) == inflight[t].ids = {} \/ inflight[t].advance = 0

Earned(t) == Live(t) => Settles(t) /\ Streams(t) /\ Apart(t)

Cover == \A k \in Keys \ overtaken : Covered(k)

Ahead ==
  /\ Reached(cursor)
  /\ \A t \in Tabs : Reached(inflight[t].advance) /\ seen[t].cursor <= cursor

IInv == TypeInv /\ (\A t \in Tabs : Earned(t)) /\ Cover /\ Ahead

LEMMA InvImplies == IInv => TypeOK /\ NothingLost /\ AckIsEarned
<1> SUFFICES ASSUME IInv PROVE TypeOK /\ NothingLost /\ AckIsEarned
  OBVIOUS
<1>1. TypeOK
  BY TypeInvTypes DEF IInv
<1>2. NothingLost
  <2> SUFFICES ASSUME NEW k \in Keys \ overtaken PROVE UpToDate(k) \/ k \in Owed
    BY DEF NothingLost
  <2>1. Covered(k)
    BY DEF IInv, Cover
  <2>2. CASE corpus[k] = 0 \/ Heard(k)
    BY <2>2 DEF Heard, UpToDate
  <2>3. CASE Present(corpus[k]) /\ k > cursor
    BY <2>3 DEF Owed, PastCursor
  <2>4. CASE InQueue(k)
    <3>1. PICK i \in Pending : <<k, corpus[k]>> \in queue[i].rows
      BY <2>4 DEF InQueue
    <3>2. k \in KeysOf(queue[i].rows)
      BY <3>1 DEF KeysOf
    <3>3. QED
      BY <3>2 DEF Owed
  <2>5. QED
    BY <2>1, <2>2, <2>3, <2>4 DEF Covered
<1>3. AckIsEarned
  <2> SUFFICES ASSUME NEW t \in Tabs, tab[t].outcome = "ack",
                      NEW i \in inflight[t].ids, NEW p \in queue[i].rows
               PROVE  p \in told \cup UNION {inflight[t].tails[n].rows :
                                               n \in 1..Len(inflight[t].tails)}
    BY DEF AckIsEarned
  <2>1. tab[t].pc = "outcome"
    BY DEF IInv, TypeInv, TabsTyped, InPlace
  <2>2. p \in Arrived(t) \/ InTails(t, p)
    BY DEF IInv, Earned, Live, Settles
  <2>3. QED
    BY <2>1, <2>2 DEF Arrived, InTails
<1>4. QED
  BY <1>1, <1>2, <1>3

\* What every step leaves: nothing is forgotten, and rows keep their places.
Steady ==
  /\ told \subseteq told' /\ overtaken \subseteq overtaken'
  /\ cursor \in 0..NumKeys /\ cursor' \in 0..NumKeys /\ cursor <= cursor'
  /\ \A t \in Tabs : \A i \in inflight[t].ids : queue'[i].rows = queue[i].rows
  /\ \A j \in Keys : corpus[j] # 0 => corpus'[j] # 0

\* A row that is not overtaken is as it was and still heard of or queued, is in
\* a notice, or is put in ahead of every other.
KeepsWord ==
  \A k \in Keys \ overtaken' :
    \/ corpus'[k] = 0
    \/ corpus'[k] = corpus[k] /\ (InQueue(k) => InQueue(k)' \/ Heard(k)')
    \/ InQueue(k)'
    \/ corpus[k] = 0 /\ Present(corpus'[k]) /\ \A j \in Keys : j > k => corpus[j] = 0

LEMMA ReachedKept == ASSUME Steady, NEW c, Reached(c) PROVE Reached(c)'
BY DEF Steady, Reached

LEMMA AheadOfReached ==
  ASSUME NEW c \in 0..NumKeys, Reached(c), NEW k \in Keys, corpus[k] = 0,
         \A j \in Keys : j > k => corpus[j] = 0
  PROVE  c < k
<1>1. k \in Nat \ {0} /\ c \in Nat
  BY TransportAssumption DEF Keys
<1> SUFFICES ASSUME k <= c PROVE FALSE
  BY <1>1
<1>2. PICK j \in Keys : j >= c /\ corpus[j] # 0
  BY <1>1 DEF Reached
<1>3. j \in Nat
  BY <1>2, TransportAssumption DEF Keys
<1>4. j > k
  BY <1>1, <1>2, <1>3
<1>5. QED
  BY <1>2, <1>4

LEMMA EarnedKept ==
  ASSUME TypeInv, Ahead, Steady, KeepsWord, NEW t \in Tabs, Earned(t),
         Live(t)' => Live(t) /\ Arrived(t) \subseteq Arrived(t)',
         inflight'[t] \in {inflight[t], NoRecord}
  PROVE  Earned(t)'
<1> SUFFICES ASSUME Live(t)' PROVE Settles(t)' /\ Streams(t)' /\ Apart(t)'
  BY DEF Earned
<1>1. Settles(t) /\ Streams(t) /\ Apart(t) /\ Arrived(t) \subseteq Arrived(t)'
  BY DEF Earned
<1>2. CASE inflight'[t] = NoRecord
  <2>1. \A k \in Keys : ~(k <= 0)
    BY TransportAssumption DEF Keys
  <2>2. Streams(t)'
    BY <1>2, <2>1 DEF Streams, NoRecord
  <2>3. QED
    BY <1>2, <2>2 DEF Settles, Apart, NoRecord
<1>3. CASE inflight'[t] = inflight[t]
  <2>1. Settles(t)'
    BY <1>1, <1>3 DEF Settles, InTails, Steady
  <2>2. Apart(t)'
    BY <1>1, <1>3 DEF Apart
  <2>3. ASSUME NEW k \in Keys \ overtaken', cursor' < k, k <= inflight[t].advance,
               Present(corpus'[k])
        PROVE  <<k, corpus'[k]>> \in Arrived(t)' \/ InQueue(k)'
    <3>1. k \in Keys \ overtaken /\ corpus'[k] # 0
      BY <2>3 DEF Steady, Present
    <3>2. cursor < k
      BY <2>3, <3>1, TransportAssumption DEF Steady, Keys
    <3>3. told' \subseteq Arrived(t)'
      BY DEF Arrived
    <3>4. CASE corpus'[k] = corpus[k] /\ (InQueue(k) => InQueue(k)' \/ Heard(k)')
      <4>1. <<k, corpus[k]>> \in Arrived(t) \/ InQueue(k)
        BY <1>1, <2>3, <3>1, <3>2, <3>4 DEF Streams
      <4>2. QED
        BY <1>1, <3>3, <3>4, <4>1 DEF Heard
    <3>5. CASE corpus[k] = 0 /\ \A j \in Keys : j > k => corpus[j] = 0
      <4>1. inflight[t].advance \in 0..NumKeys /\ Reached(inflight[t].advance)
        BY RecordTyped DEF TypeInv, Ahead
      <4>2. inflight[t].advance < k
        BY <3>1, <3>5, <4>1, AheadOfReached
      <4>3. QED
        BY <2>3, <3>1, <4>1, <4>2, TransportAssumption DEF Keys
    <3>6. QED
      BY <3>1, <2>3, <3>4, <3>5 DEF KeepsWord
  <2>4. Streams(t)'
    BY <1>3, <2>3 DEF Streams
  <2>5. QED
    BY <2>1, <2>2, <2>4
<1>4. QED
  BY <1>2, <1>3

\* Covered carries over a step that leaves the cursor where it is.
LEMMA CoverKept ==
  ASSUME Cover, Ahead, Steady, KeepsWord, cursor' = cursor PROVE Cover'
<1> SUFFICES ASSUME NEW k \in Keys \ overtaken' PROVE Covered(k)'
  BY DEF Cover
<1>1. Covered(k)
  BY DEF Cover, Steady
<1>2. CASE corpus'[k] = corpus[k] /\ (InQueue(k) => InQueue(k)' \/ Heard(k)')
  <2>1. CASE corpus[k] = 0
    BY <1>2, <2>1 DEF Covered
  <2>2. CASE Heard(k)
    BY <1>2, <2>2 DEF Covered, Heard, Steady
  <2>3. CASE Present(corpus[k]) /\ k > cursor
    BY <1>2, <2>3 DEF Covered
  <2>4. CASE InQueue(k)
    BY <1>2, <2>4 DEF Covered
  <2>5. QED
    BY <1>1, <2>1, <2>2, <2>3, <2>4 DEF Covered
<1>3. CASE corpus[k] = 0 /\ Present(corpus'[k]) /\ \A j \in Keys : j > k => corpus[j] = 0
  <2>1. cursor < k
    BY <1>3, AheadOfReached DEF Ahead, Steady
  <2>2. k > cursor'
    BY <2>1, TransportAssumption DEF Keys, Steady
  <2>3. QED
    BY <1>3, <2>2 DEF Covered
<1>4. QED
  BY <1>2, <1>3 DEF KeepsWord, Covered

\* A step that makes no batch and settles none.
LEMMA OtherStep ==
  ASSUME IInv, TypeInv', Steady, KeepsWord, cursor' = cursor,
         \A t \in Tabs :
           /\ Live(t)' => Live(t) /\ Arrived(t) \subseteq Arrived(t)'
           /\ inflight'[t] \in {inflight[t], NoRecord}
           /\ seen'[t].cursor <= cursor'
  PROVE  IInv'
<1>1. \A t \in Tabs : Earned(t)'
  BY EarnedKept DEF IInv
<1>2. Cover'
  BY CoverKept DEF IInv
<1>3. Reached(cursor)'
  <2>1. Reached(cursor)
    BY DEF IInv, Ahead
  <2>2. QED
    BY <2>1 DEF Reached, Steady
<1>4. ASSUME NEW t \in Tabs PROVE Reached(inflight[t].advance)'
  <2>1. Reached(inflight[t].advance)
    BY DEF IInv, Ahead
  <2>2. QED
    BY <2>1 DEF Reached, Steady, NoRecord
<1>5. QED
  BY <1>1, <1>2, <1>3, <1>4 DEF IInv, Ahead

-----------------------------------------------------------------------------
(* The steps of the tab, the wire and the writers. *)

LEMMA InvInit == Init => IInv
<1> SUFFICES ASSUME Init PROVE IInv
  OBVIOUS
<1>1. TypeInv
  BY TypeInit
<1>2. \A t \in Tabs : ~Live(t)
  BY DEF Init, TransportInit, Idle, Live
<1>3. Cover
  BY DEF Init, Cover, Covered
<1>4. Ahead
  BY DEF Init, Ahead, Reached, NoRecord, NothingSeen
<1>5. QED
  BY <1>1, <1>2, <1>3, <1>4 DEF IInv, Earned

\* A step that leaves the rows and the notices alone.
LEMMA StillStep ==
  ASSUME TypeInv, told \subseteq told', UNCHANGED <<corpus, cursor, queue, overtaken>>
  PROVE  Steady /\ KeepsWord
<1>1. cursor \in 0..NumKeys
  BY DEF TypeInv, StoreTyped
<1>2. cursor <= cursor'
  BY <1>1
<1>3. Steady
  BY <1>1, <1>2 DEF Steady
<1>4. KeepsWord
  BY DEF KeepsWord, InQueue, Pending
<1>5. QED
  BY <1>3, <1>4

\* The tabs a step does not touch stay as they are.
LEMMA SameTab ==
  ASSUME NEW u \in Tabs, tab'[u] = tab[u], told \subseteq told'
  PROVE  Live(u)' => Live(u) /\ Arrived(u) \subseteq Arrived(u)'
BY DEF Live, Arrived

LEMMA TransportInv == ASSUME IInv, TransportNext, UNCHANGED storeVars PROVE IInv'
<1>1. TypeInv /\ TypeInv' /\ tab \in [Tabs -> TabType]
  BY TransportTyped DEF IInv, TypeInv, TabsTyped
<1>2. UNCHANGED <<corpus, cursor, queue, overtaken, inflight, seen>>
  BY DEF storeVars
<1>3. \A t \in Tabs : seen[t].cursor <= cursor
  BY DEF IInv, Ahead
<1> SUFFICES /\ told \subseteq told'
             /\ \A u \in Tabs : Live(u)' => Live(u) /\ Arrived(u) \subseteq Arrived(u)'
  BY <1>1, <1>2, <1>3, StillStep, OtherStep
<1>4. ASSUME NEW t \in Tabs, NEW r, tab' = [tab EXCEPT ![t] = r], told' = told,
             ~(r.pc = "posted" \/ r.outcome = "ack")
      PROVE  /\ told \subseteq told'
             /\ \A u \in Tabs : Live(u)' => Live(u) /\ Arrived(u) \subseteq Arrived(u)'
  <2>1. ASSUME NEW u \in Tabs, Live(u)' PROVE Live(u) /\ Arrived(u) \subseteq Arrived(u)'
    <3>1. u # t
      BY <1>1, <1>4, <2>1 DEF Live
    <3>2. QED
      BY <1>1, <1>4, <2>1, <3>1, SameTab
  <2>2. QED
    BY <1>4, <2>1
<1>4a. ~(Idle.pc = "posted" \/ Idle.outcome = "ack")
  BY DEF Idle
<1>5. ASSUME NEW t \in Tabs, Start(t) PROVE tab[t] = Idle
  BY <1>1, <1>5 DEF TypeInv, TabsTyped, InPlace, Start
<1>6. CASE \E t \in Tabs : Start(t)
  <2>1. PICK t \in Tabs : Start(t)
    BY <1>6
  <2> DEFINE r == [tab[t] EXCEPT !.pc = "outcome"]
  <2>2. tab' = [tab EXCEPT ![t] = r] /\ told' = told
    BY <2>1, Zenon DEF Start
  <2>3. r.pc = "outcome" /\ r.outcome = "none"
    BY <1>5, <2>1 DEF Idle
  <2> HIDE DEF r
  <2>4. QED
    BY <1>4, <2>2, <2>3
<1>7. CASE \E t \in Tabs : Deliver(t)
  <2>1. PICK t \in Tabs : Deliver(t)
    BY <1>7
  <2>2. told' = told \cup tab[t].env.rows /\ tab[t].pc = "posted"
    BY <2>1 DEF Deliver, Receive
  <2>3. ASSUME NEW u \in Tabs, Live(u)' PROVE Live(u) /\ Arrived(u) \subseteq Arrived(u)'
    <3>1. CASE u = t
      BY <2>2, <3>1 DEF Live, Arrived
    <3>2. CASE u # t
      <4>1. tab'[u] = tab[u]
        BY <1>1, <2>1, <3>2 DEF Deliver, Report
      <4>2. QED
        BY <2>2, <2>3, <4>1, SameTab
    <3>3. QED
      BY <3>1, <3>2
  <2>4. QED
    BY <2>2, <2>3
<1>8. ASSUME NEW t \in Tabs, NEW last, Report(t, "fail", last), told' = told
      PROVE  /\ told \subseteq told'
             /\ \A u \in Tabs : Live(u)' => Live(u) /\ Arrived(u) \subseteq Arrived(u)'
  <2> DEFINE call == [Idle EXCEPT !.pc = "outcome", !.outcome = "fail"]
             final == [call EXCEPT !.mode = "final"]
             going == [call EXCEPT !.batches = tab[t].batches,
                                   !.fails = IF "fail" = "ack" THEN 0
                                             ELSE tab[t].fails + 1]
             r == IF last \/ tab[t].batches = MaxBatches THEN final ELSE going
  <2>1. tab' = [tab EXCEPT ![t] = r]
    BY <1>8, Zenon DEF Report
  <2>2. final.pc = "outcome" /\ final.outcome = "fail"
        /\ going.pc = "outcome" /\ going.outcome = "fail"
    BY DEF Idle
  <2> HIDE DEF final, going
  <2>3. r.pc = "outcome" /\ r.outcome = "fail"
    BY <2>2
  <2> HIDE DEF r
  <2>4. QED
    BY <1>4, <1>8, <2>1, <2>3
<1>9. CASE \E t \in Tabs : Fail(t) \/ Refuse(t)
  BY <1>8, <1>9 DEF Fail, Refuse
<1>10. CASE \E t \in Tabs : Close(t)
  <2>1. PICK t \in Tabs : Close(t)
    BY <1>10
  <2>2. CASE tab[t].pc = "posted"
    <3>1. tab' = [tab EXCEPT ![t] = Idle] /\ told' = told
      BY <2>1, <2>2 DEF Close
    <3>2. QED
      BY <1>4, <1>4a, <3>1
  <2>3. CASE tab[t].pc # "posted"
    <3> DEFINE r == [tab[t] EXCEPT !.mode = "gone", !.batches = 0, !.fails = 0]
    <3>1. tab' = [tab EXCEPT ![t] = IF tab[t].pc = "posted" THEN Idle ELSE r] /\ told' = told
      BY <2>1, Zenon DEF Close
    <3>2. r.pc = tab[t].pc /\ r.outcome = tab[t].outcome
      BY <1>1 DEF TabType
    <3> HIDE DEF r
    <3>3. ASSUME NEW u \in Tabs, Live(u)' PROVE Live(u) /\ Arrived(u) \subseteq Arrived(u)'
      <4>1. tab'[u].pc = tab[u].pc /\ tab'[u].outcome = tab[u].outcome
        BY <1>1, <2>3, <3>1, <3>2
      <4>2. tab[u].pc # "posted" \/ tab'[u] = tab[u]
        BY <1>1, <2>3, <3>1
      <4>3. QED
        BY <3>1, <3>3, <4>1, <4>2 DEF Live, Arrived
    <3>4. QED
      BY <3>1, <3>3
  <2>4. QED
    BY <2>2, <2>3
<1>11. CASE \E t \in Tabs : CallFails(t)
  <2>1. PICK t \in Tabs : tab' = [tab EXCEPT ![t] = Idle] /\ told' = told
    BY <1>11 DEF CallFails
  <2>2. QED
    BY <1>4, <1>4a, <2>1
<1>12. CASE \E n \in 1..MaxFaults : LateArrives(n)
  <2>1. told \subseteq told' /\ tab' = tab
    BY <1>12 DEF LateArrives, Receive
  <2>2. QED
    BY <2>1, SameTab
<1>13. QED
  BY <1>6, <1>7, <1>9, <1>10, <1>11, <1>12 DEF TransportNext

\* A step of one call that ends without a batch, or reads the store.
LEMMA QuietStep ==
  ASSUME IInv, TypeInv', NEW t \in Tabs, NEW r, tab' = [tab EXCEPT ![t] = r],
         ~(r.pc = "posted" \/ r.outcome = "ack"),
         UNCHANGED <<corpus, cursor, queue, overtaken, told>>,
         \A u \in Tabs : inflight'[u] \in {inflight[u], NoRecord},
         \A u \in Tabs : seen'[u].cursor <= cursor
  PROVE  IInv'
<1>1. tab \in [Tabs -> TabType] /\ TypeInv
  BY DEF IInv, TypeInv, TabsTyped
<1>2. Steady /\ KeepsWord
  BY <1>1, StillStep
<1>3. ASSUME NEW u \in Tabs, Live(u)' PROVE Live(u) /\ Arrived(u) \subseteq Arrived(u)'
  <2>1. u # t
    BY <1>1, <1>3 DEF Live
  <2>2. QED
    BY <1>1, <1>3, <2>1, SameTab
<1>4. QED
  BY <1>2, <1>3, OtherStep

LEMMA SeenBehind ==
  ASSUME IInv
  PROVE  /\ \A u \in Tabs : seen[u].cursor <= cursor
         /\ NothingSeen.cursor <= cursor
         /\ cursor <= cursor
<1>1. cursor \in 0..NumKeys
  BY DEF IInv, TypeInv, StoreTyped
<1>2. QED
  BY <1>1 DEF IInv, Ahead, NothingSeen

LEMMA PausedInv == ASSUME IInv, NEW t \in Tabs, Paused(t) PROVE IInv'
<1>1. TypeInv'
  BY PausedTyped DEF IInv
<1>2. tab' = [tab EXCEPT ![t] = Idle]
  BY DEF Paused, ReplyNothing
<1>3. ~(Idle.pc = "posted" \/ Idle.outcome = "ack")
  BY DEF Idle
<1>4. UNCHANGED <<corpus, cursor, queue, overtaken, told, inflight, seen>>
  BY DEF Paused, storeVars
<1>5. QED
  BY <1>1, <1>2, <1>3, <1>4, SeenBehind, QuietStep

LEMMA EmitNothingInv == ASSUME IInv, NEW t \in Tabs, EmitNothing(t) PROVE IInv'
<1>1. TypeInv' /\ seen \in [Tabs -> SeenType(Len(queue))]
  BY EmitNothingTyped DEF IInv, TypeInv, StoreTyped
<1>2. tab' = [tab EXCEPT ![t] = Idle]
  BY DEF EmitNothing, ReplyNothing
<1>3. ~(Idle.pc = "posted" \/ Idle.outcome = "ack")
  BY DEF Idle
<1>4. UNCHANGED <<corpus, cursor, queue, overtaken, told, inflight>>
  BY DEF EmitNothing
<1>5. \A u \in Tabs : seen'[u] = IF u = t THEN NothingSeen ELSE seen[u]
  BY <1>1 DEF EmitNothing
<1>6. \A u \in Tabs : seen'[u].cursor <= cursor
  BY <1>5, SeenBehind
<1>7. QED
  BY <1>1, <1>2, <1>3, <1>4, <1>6, QuietStep

LEMMA ClaimInv == ASSUME IInv, NEW t \in Tabs, Claim(t) PROVE IInv'
<1>1. TypeInv' /\ seen \in [Tabs -> SeenType(Len(queue))] /\ tab[t] \in TabType
  BY ClaimTyped DEF IInv, TypeInv, StoreTyped, TabsTyped
<1> DEFINE r == [tab[t] EXCEPT !.pc = "emit"]
<1>2. tab' = [tab EXCEPT ![t] = r]
  BY Zenon DEF Claim
<1>3. tab[t].outcome = "none"
  BY DEF IInv, TypeInv, TabsTyped, InPlace, Claim
<1>4. r.pc = "emit" /\ r.outcome = "none"
  BY <1>1, <1>3 DEF TabType
<1>5. UNCHANGED <<corpus, cursor, queue, overtaken, told>>
  BY DEF Claim
<1>6. \A u \in Tabs : inflight'[u] \in {inflight[u], NoRecord}
  BY DEF Claim
<1> DEFINE s == [cursor |-> cursor, ids |-> Claimable, more |-> Pending # Claimable]
<1>7. seen' = [seen EXCEPT ![t] = s] /\ s.cursor = cursor
  BY DEF Claim
<1> HIDE DEF s
<1>8. \A u \in Tabs : seen'[u] = IF u = t THEN s ELSE seen[u]
  BY <1>1, <1>7
<1>9. \A u \in Tabs : seen'[u].cursor <= cursor
  BY <1>7, <1>8, SeenBehind
<1> HIDE DEF r
<1>10. QED
  BY <1>1, <1>2, <1>4, <1>5, <1>6, <1>9, QuietStep

LEMMA UnackedInv ==
  ASSUME IInv, NEW t \in Tabs, Outcome(t), tab[t].outcome # "ack" PROVE IInv'
<1>1. TypeInv' /\ tab[t] \in TabType /\ inflight \in [Tabs -> RecordType(Len(queue))]
  BY OutcomeTyped DEF IInv, TypeInv, StoreTyped, TabsTyped
<1> DEFINE r == [tab[t] EXCEPT !.pc = "claim", !.outcome = "none"]
<1>2. tab' = [tab EXCEPT ![t] = r]
  BY Zenon DEF Outcome
<1>3. r.pc = "claim" /\ r.outcome = "none"
  BY <1>1 DEF TabType
<1>4. UNCHANGED <<cursor, queue>> /\ \A u \in Tabs : inflight'[u] \in {inflight[u], NoRecord}
  <2>1. CASE tab[t].outcome = "fail"
    BY <1>1, <2>1 DEF Outcome, RecordOnFail
  <2>2. CASE tab[t].outcome # "fail"
    BY <2>2 DEF Outcome
  <2>3. QED
    BY <2>1, <2>2
<1>5. UNCHANGED <<corpus, overtaken, told, seen>>
  BY DEF Outcome
<1> HIDE DEF r
<1>6. QED
  BY <1>1, <1>2, <1>3, <1>4, <1>5, SeenBehind, QuietStep

LEMMA SwitchInv == ASSUME IInv, Pause \/ Resume PROVE IInv'
<1>1. TypeInv /\ TypeInv' /\ UNCHANGED <<tab, told, corpus, cursor, queue, inflight, seen, overtaken>>
  BY SwitchTyped DEF IInv, Pause, Resume, transportVars
<1>2. Steady /\ KeepsWord
  BY <1>1, StillStep
<1>3. QED
  BY <1>1, <1>2, SameTab, SeenBehind, OtherStep

LEMMA StutterInv == ASSUME IInv, UNCHANGED vars PROVE IInv'
<1>1. TypeInv /\ TypeInv' /\ UNCHANGED <<tab, told, corpus, cursor, queue, inflight, seen, overtaken>>
  BY TypeStep DEF IInv, vars, transportVars, storeVars
<1>2. Steady /\ KeepsWord
  BY <1>1, StillStep
<1>3. QED
  BY <1>1, <1>2, SameTab, SeenBehind, OtherStep

\* A writer sets rows and adds notices at the end.
LEMMA WriterStep ==
  ASSUME IInv, TypeInv', UNCHANGED <<tab, told, cursor, inflight, seen>>,
         overtaken \subseteq overtaken',
         \A j \in Keys : corpus[j] # 0 => corpus'[j] # 0,
         NEW s \in Seq(Notice), queue' = queue \o s,
         \A n \in 1..Len(s) : ~s[n].acked,
         \A k \in Keys \ overtaken' :
           \/ corpus'[k] = 0
           \/ corpus'[k] = corpus[k]
           \/ \E n \in 1..Len(s) : <<k, corpus'[k]>> \in s[n].rows
           \/ corpus[k] = 0 /\ Present(corpus'[k]) /\ \A j \in Keys : j > k => corpus[j] = 0
  PROVE  IInv'
<1>1. TypeInv /\ queue \in Seq(Notice) /\ cursor \in 0..NumKeys
      /\ inflight \in [Tabs -> RecordType(Len(queue))]
  BY DEF IInv, TypeInv, StoreTyped
<1>2. /\ 1..Len(queue) \subseteq 1..Len(queue')
      /\ \A i \in 1..Len(queue) : queue'[i] = queue[i]
      /\ \A n \in 1..Len(s) : Len(queue) + n \in 1..Len(queue')
                              /\ queue'[Len(queue) + n] = s[n]
  BY <1>1, QueueGrows
<1>3. \A t \in Tabs : inflight[t].ids \subseteq 1..Len(queue)
  BY <1>1 DEF RecordType
<1>4. Steady
  BY <1>1, <1>2, <1>3 DEF Steady
<1>5. ASSUME NEW k \in Keys, corpus'[k] = corpus[k], InQueue(k) PROVE InQueue(k)'
  <2>1. PICK i \in Pending : <<k, corpus[k]>> \in queue[i].rows
    BY <1>5 DEF InQueue
  <2>2. i \in Pending' /\ queue'[i] = queue[i]
    BY <1>2 DEF Pending
  <2>3. QED
    BY <1>5, <2>1, <2>2 DEF InQueue
<1>6. ASSUME NEW k \in Keys, NEW n \in 1..Len(s), <<k, corpus'[k]>> \in s[n].rows
      PROVE  InQueue(k)'
  <2>1. Len(queue) + n \in Pending'
    BY <1>2 DEF Pending
  <2>2. QED
    BY <1>2, <1>6, <2>1 DEF InQueue
<1>7. KeepsWord
  BY <1>5, <1>6 DEF KeepsWord
<1>8. ASSUME NEW t \in Tabs
      PROVE  /\ Live(t)' => Live(t) /\ Arrived(t) \subseteq Arrived(t)'
             /\ inflight'[t] \in {inflight[t], NoRecord}
             /\ seen'[t].cursor <= cursor'
  BY SameTab, SeenBehind
<1>9. QED
  BY <1>4, <1>7, <1>8, OtherStep

LEMMA CadenceInv ==
  ASSUME IInv, TypeInv', NEW to \in Keys, NEW S \in SUBSET Keys, CadenceInsert(S, to)
  PROVE  IInv'
<1>1. queue' = queue \o <<>> /\ <<>> \in Seq(Notice)
  BY NoNotice DEF IInv, TypeInv, StoreTyped, CadenceInsert
<1>2. UNCHANGED <<tab, told, cursor, inflight, seen>> /\ overtaken \subseteq overtaken'
  BY DEF CadenceInsert, transportVars
<1>3. \A k \in Keys : corpus'[k] = IF k \in S THEN 1 ELSE corpus[k]
  BY DEF CadenceInsert
<1>4. ASSUME NEW k \in Keys \ overtaken', k \in S
      PROVE  corpus[k] = 0 /\ \A j \in Keys : j > k => corpus[j] = 0
  BY <1>4 DEF CadenceInsert
<1>5. Present(1) /\ Len(<<>>) = 0
  BY DEF Present
<1>6. \A n \in 1..Len(<<>>) : ~<<>>[n].acked
  BY <1>5
<1>7. \A j \in Keys : corpus[j] # 0 => corpus'[j] # 0
  BY <1>3
<1>8. \A k \in Keys \ overtaken' :
        \/ corpus'[k] = 0
        \/ corpus'[k] = corpus[k]
        \/ \E n \in 1..Len(<<>>) : <<k, corpus'[k]>> \in <<>>[n].rows
        \/ corpus[k] = 0 /\ Present(corpus'[k]) /\ \A j \in Keys : j > k => corpus[j] = 0
  BY <1>3, <1>4, <1>5
<1>9. QED
  BY <1>1, <1>2, <1>6, <1>7, <1>8, WriterStep

LEMMA DeleteInv ==
  ASSUME IInv, TypeInv', NEW S \in SUBSET Keys, NEW T \in SUBSET Keys, ExclusionDelete(S, T)
  PROVE  IInv'
<1> DEFINE w == Withdrawal(S)
           v == Withdrawal(T)
           s == w \o v
<1>1. StoreTyped /\ queue \in Seq(Notice)
  BY DEF IInv, TypeInv, StoreTyped
<1>2. /\ w \in Seq(Notice)
      /\ S # {} => Len(w) = 1 /\ ~w[1].acked /\ w[1].rows = {<<k, corpus[k] + 1>> : k \in S}
  BY <1>1, WithdrawalTyped DEF ExclusionDelete
<1>3. /\ v \in Seq(Notice)
      /\ T # {} => Len(v) = 1 /\ ~v[1].acked /\ v[1].rows = {<<k, corpus[k] + 1>> : k \in T}
  BY <1>1, WithdrawalTyped DEF ExclusionDelete
<1>4. T = {} => v = <<>>
  BY DEF Withdrawal
<1>5. queue' = queue \o s /\ S # {}
  BY <1>1, <1>2, <1>3 DEF ExclusionDelete
<1>6. UNCHANGED <<tab, told, cursor, inflight, seen>> /\ overtaken' = overtaken
  BY DEF ExclusionDelete, transportVars
<1>7. \A k \in Keys : corpus'[k] = IF k \in S \cup T THEN corpus[k] + 1 ELSE corpus[k]
  BY DEF ExclusionDelete
<1>8. \A j \in Keys : corpus[j] # 0 => corpus'[j] # 0
  <2>1. \A j \in Keys : corpus[j] \in Nat
    BY <1>1 DEF StoreTyped, Version
  <2>2. QED
    BY <1>7, <2>1
<1> HIDE DEF w, v
<1>9. s \in Seq(Notice)
  BY <1>2, <1>3
<1>10. CASE T = {}
  <2>1. v = <<>> /\ s = w
    BY <1>2, <1>4, <1>10
  <2>2. \A n \in 1..Len(s) : ~s[n].acked
    BY <1>2, <1>5, <2>1
  <2>3. ASSUME NEW k \in Keys, k \in S
        PROVE  \E n \in 1..Len(s) : <<k, corpus'[k]>> \in s[n].rows
    BY <1>2, <1>7, <2>1, <2>3
  <2> HIDE DEF s
  <2>4. QED
    BY <1>5, <1>6, <1>7, <1>8, <1>9, <1>10, <2>2, <2>3, WriterStep
<1>11. CASE T # {}
  <2>1. Len(s) = 2 /\ s[1] = w[1] /\ s[2] = v[1]
    BY <1>2, <1>3, <1>5, <1>11
  <2>2. \A n \in 1..Len(s) : ~s[n].acked
    <3>1. \A n \in 1..2 : n = 1 \/ n = 2
      OBVIOUS
    <3>2. QED
      BY <1>2, <1>3, <1>5, <1>11, <2>1, <3>1
  <2>3. ASSUME NEW k \in Keys, k \in S \cup T
        PROVE  \E n \in 1..Len(s) : <<k, corpus'[k]>> \in s[n].rows
    <3>1. corpus'[k] = corpus[k] + 1 /\ 1 \in 1..Len(s) /\ 2 \in 1..Len(s)
      BY <1>7, <2>1, <2>3
    <3>2. CASE k \in S
      BY <1>2, <1>5, <2>1, <3>1, <3>2
    <3>3. CASE k \in T
      BY <1>3, <1>11, <2>1, <3>1, <3>3
    <3>4. QED
      BY <2>3, <3>2, <3>3
  <2> HIDE DEF s
  <2>4. QED
    BY <1>5, <1>6, <1>7, <1>8, <1>9, <2>2, <2>3, WriterStep
<1>12. QED
  BY <1>10, <1>11

\* The rows a window was made of are in the notices made of it.
LEMMA RowsQueued ==
  ASSUME NEW rows \in Rows, NEW max \in Nat \ {0}, NEW p \in rows
  PROVE  \E n \in 1..Len(Windows(rows, max, 0)) : p \in Windows(rows, max, 0)[n].rows
BY WindowsCover

LEMMA RebuildInv ==
  ASSUME IInv, TypeInv', NEW w \in Spans, NEW S \in SUBSET (w[1]..w[2]),
         Rebuild(w[1], w[2], S)
  PROVE  IInv'
<1> DEFINE W == w[1]..w[2]
           new == Rebuilt(W, S)
           s == Windows(RowsOf(new, W), QueueRows, 0)
<1>1. StoreTyped /\ W \in SUBSET Keys /\ Keys # {}
  BY SpansTyped DEF IInv, TypeInv
<1>2. \A k \in W : new[k] <= MaxVersion
  BY DEF Rebuild, Rebuilt
<1>3. \A k \in W : new[k] \in Version /\ (corpus[k] # 0 => new[k] # 0)
  BY <1>1, <1>2, RebuiltTyped
<1>4. corpus' = [k \in Keys |-> IF k \in W THEN new[k] ELSE corpus[k]]
      /\ queue' = queue \o s
  BY DEF Rebuild, Rebuilt
<1>5. UNCHANGED <<tab, told, cursor, inflight, seen>> /\ overtaken' = overtaken
  BY DEF Rebuild, transportVars
<1> HIDE DEF new, W
<1>6. RowsOf(new, W) \in Rows
  BY <1>1, <1>3, RowsOfType
<1>7. s \in Seq(Notice) /\ \A n \in 1..Len(s) : ~s[n].acked
  BY <1>1, <1>6, PushAssumption, WindowNotices
<1>8. \A j \in Keys : corpus[j] # 0 => corpus'[j] # 0
  BY <1>3, <1>4
<1>9. ASSUME NEW k \in Keys, k \in W
      PROVE  \E n \in 1..Len(s) : <<k, corpus'[k]>> \in s[n].rows
  <2>1. <<k, corpus'[k]>> \in RowsOf(new, W)
    BY <1>4, <1>9 DEF RowsOf
  <2>2. QED
    BY <1>6, <2>1, RowsQueued, PushAssumption
<1>10. \A k \in Keys : k \notin W => corpus'[k] = corpus[k]
  BY <1>4
<1> HIDE DEF s
<1>11. QED
  BY <1>4, <1>5, <1>7, <1>8, <1>9, <1>10, WriterStep

LEMMA BackfillInv ==
  ASSUME IInv, TypeInv', NEW w \in Spans, Backfill(w[1], w[2]) PROVE IInv'
<1> DEFINE W == w[1]..w[2]
           s == Windows(RowsOf(corpus, W), QueueRows, 0)
<1>1. W \in SUBSET Keys /\ Keys # {}
  BY SpansTyped
<1>2. RowsOf(corpus, W) \in Rows
  BY <1>1, RowsOfType DEF IInv, TypeInv, StoreTyped
<1>3. s \in Seq(Notice) /\ \A n \in 1..Len(s) : ~s[n].acked
  BY <1>1, <1>2, PushAssumption, WindowNotices
<1>4. queue' = queue \o s /\ UNCHANGED <<tab, told, corpus, cursor, inflight, seen, overtaken>>
  BY DEF Backfill, transportVars
<1> HIDE DEF s
<1>5. QED
  BY <1>3, <1>4, WriterStep

LEMMA WriteInv == ASSUME IInv, Write PROVE IInv'
<1>1. TypeInv'
  BY WriteTyped DEF IInv
<1>2. QED
  BY <1>1, CadenceInv, DeleteInv, RebuildInv, BackfillInv DEF Write

-----------------------------------------------------------------------------
(* An acknowledgement settles its record. *)

LEMMA AckInv ==
  ASSUME IInv, NEW t \in Tabs, Outcome(t), tab[t].outcome = "ack" PROVE IInv'
<1> DEFINE q == Marked(t)
           tails == inflight[t].tails
           advance == inflight[t].advance
           r == [tab[t] EXCEPT !.pc = "claim", !.outcome = "none"]
<1>1. /\ TypeInv /\ TypeInv' /\ StoreTyped /\ queue \in Seq(Notice)
      /\ tab \in [Tabs -> TabType] /\ tab[t].pc = "outcome" /\ cursor \in 0..NumKeys
      /\ inflight \in [Tabs -> RecordType(Len(queue))]
  BY OutcomeTyped DEF IInv, TypeInv, TabsTyped, StoreTyped, Outcome
<1>2. CommitOnAck(t) /\ UNCHANGED <<told, corpus, frontier, seen, enabled, overtaken>>
  BY DEF Outcome
<1>3. Settles(t) /\ Streams(t) /\ Apart(t) /\ Arrived(t) = told
  BY <1>1 DEF IInv, Earned, Live, Arrived
<1>4. queue' = q \o tails
  BY <1>1, <1>2, CommitTyped
<1>5. /\ q \in Seq(Notice) /\ Len(q) = Len(queue)
      /\ \A i \in 1..Len(queue) : /\ q[i].rows = queue[i].rows
                                  /\ q[i].acked <=> queue[i].acked \/ i \in inflight[t].ids
  BY <1>1, MarkedTyped
<1>6. /\ tails \in Seq(Notice) /\ tails \in Seq(TailType) /\ advance \in 0..NumKeys
      /\ inflight[t].ids \in SUBSET (1..Len(queue))
  BY <1>1, RecordTyped
<1> HIDE DEF q, tails, advance
<1>7. /\ 1..Len(queue) \subseteq 1..Len(queue')
      /\ \A i \in 1..Len(queue) : queue'[i] = q[i]
      /\ \A n \in 1..Len(tails) : Len(queue) + n \in 1..Len(queue')
                                  /\ queue'[Len(queue) + n] = tails[n]
  BY <1>4, <1>5, <1>6, QueueGrows
<1>8. \A n \in 1..Len(tails) : ~tails[n].acked
  <2>1. \A n \in 1..Len(tails) : tails[n] \in TailType
    BY <1>6
  <2>2. QED
    BY <2>1 DEF TailType
<1>9. cursor' = IF cursor < advance THEN advance ELSE cursor
  BY <1>2 DEF CommitOnAck, advance
<1>10. \A u \in Tabs : inflight'[u] = IF u = t THEN NoRecord ELSE inflight[u]
  BY <1>1, <1>2 DEF CommitOnAck
<1>11. tab' = [tab EXCEPT ![t] = r]
  BY Zenon DEF Outcome
<1>12. r.pc = "claim" /\ r.outcome = "none"
  BY <1>1 DEF TabType
<1> HIDE DEF r
<1>13. ASSUME NEW u \in Tabs
       PROVE  /\ Live(u)' => Live(u) /\ Arrived(u) \subseteq Arrived(u)'
              /\ u = t => ~Live(u)'
  <2>1. CASE u = t
    BY <1>1, <1>11, <1>12, <2>1 DEF Live
  <2>2. CASE u # t
    BY <1>1, <1>2, <1>11, <2>2, SameTab
  <2>3. QED
    BY <2>1, <2>2
<1>14. Steady
  <2>1. cursor' \in 0..NumKeys /\ cursor <= cursor'
    BY <1>1, <1>6, <1>9
  <2>2. ASSUME NEW u \in Tabs, NEW i \in inflight[u].ids
        PROVE  queue'[i].rows = queue[i].rows
    <3>1. i \in 1..Len(queue)
      BY <1>1, RecordTyped
    <3>2. QED
      BY <1>5, <1>7, <3>1
  <2>3. QED
    BY <1>1, <1>2, <2>1, <2>2 DEF Steady
<1>15. ASSUME NEW k \in Keys, InQueue(k) PROVE InQueue(k)' \/ Heard(k)'
  <2>1. PICK i \in Pending : <<k, corpus[k]>> \in queue[i].rows
    BY <1>15 DEF InQueue
  <2>2. i \in 1..Len(queue) /\ ~queue[i].acked
    BY <2>1 DEF Pending
  <2>3. CASE i \notin inflight[t].ids
    <3>1. i \in Pending' /\ queue'[i].rows = queue[i].rows
      BY <1>5, <1>7, <2>2, <2>3 DEF Pending
    <3>2. QED
      BY <1>2, <2>1, <3>1 DEF InQueue
  <2>4. CASE i \in inflight[t].ids
    <3>1. <<k, corpus[k]>> \in told \/ InTails(t, <<k, corpus[k]>>)
      BY <1>3, <2>1, <2>4 DEF Settles
    <3>2. CASE <<k, corpus[k]>> \in told
      BY <1>2, <3>2 DEF Heard
    <3>3. CASE InTails(t, <<k, corpus[k]>>)
      <4>1. PICK n \in 1..Len(tails) : <<k, corpus[k]>> \in tails[n].rows
        BY <3>3 DEF InTails, tails
      <4>2. Len(queue) + n \in Pending'
        BY <1>7, <1>8, <4>1 DEF Pending
      <4>3. QED
        BY <1>2, <1>7, <4>1, <4>2 DEF InQueue
    <3>4. QED
      BY <3>1, <3>2, <3>3
  <2>5. QED
    BY <2>3, <2>4
<1>16. KeepsWord
  BY <1>2, <1>15 DEF KeepsWord
<1>17. ASSUME NEW u \in Tabs PROVE Earned(u)'
  <2>1. inflight'[u] \in {inflight[u], NoRecord}
    BY <1>10
  <2>2. Ahead /\ Earned(u)
    BY DEF IInv
  <2>3. QED
    BY <1>1, <1>13, <1>14, <1>16, <2>1, <2>2, EarnedKept
<1>18. ASSUME NEW k \in Keys \ overtaken PROVE Covered(k)'
  <2>1. Covered(k)
    BY DEF IInv, Cover
  <2>2. k \in Nat
    BY TransportAssumption DEF Keys
  <2>3. CASE corpus[k] = 0 \/ Heard(k)
    BY <1>2, <2>3 DEF Covered, Heard
  <2>4. CASE InQueue(k)
    BY <1>15, <2>4 DEF Covered
  <2>5. CASE Present(corpus[k]) /\ k > cursor
    <3>1. CASE k > cursor'
      BY <1>2, <2>5, <3>1 DEF Covered
    <3>2. CASE ~(k > cursor')
      <4>1. cursor < k /\ k <= advance
        BY <1>1, <1>6, <1>9, <2>2, <2>5, <3>2
      <4>2. <<k, corpus[k]>> \in told \/ InQueue(k)
        BY <1>3, <2>5, <4>1 DEF Streams, advance
      <4>3. QED
        BY <1>2, <1>15, <4>2 DEF Covered, Heard
    <3>3. QED
      BY <3>1, <3>2
  <2>6. QED
    BY <2>1, <2>3, <2>4, <2>5 DEF Covered
<1>19. Ahead'
  <2>1. Reached(cursor) /\ Reached(advance)
    BY DEF IInv, Ahead, advance
  <2>2. Reached(cursor)'
    BY <1>2, <1>9, <2>1 DEF Reached
  <2>3. ASSUME NEW u \in Tabs PROVE Reached(inflight[u].advance)'
    <3>1. Reached(inflight[u].advance)
      BY DEF IInv, Ahead
    <3>2. QED
      BY <1>2, <1>10, <3>1 DEF Reached, NoRecord
  <2>4. ASSUME NEW u \in Tabs PROVE seen'[u].cursor <= cursor'
    <3>1. seen[u].cursor \in 0..NumKeys /\ seen[u].cursor <= cursor
      BY <1>1, SeenTyped DEF IInv, Ahead
    <3>2. QED
      BY <1>1, <1>2, <1>14, <3>1 DEF Steady
  <2>5. QED
    BY <2>2, <2>3, <2>4 DEF Ahead
<1>20. QED
  BY <1>1, <1>2, <1>17, <1>18, <1>19 DEF IInv, Cover

-----------------------------------------------------------------------------
(* A call makes a batch and its record. *)

\* A batch that vouches for its record keeps the invariant.
LEMMA SendInv ==
  ASSUME IInv, TypeInv', NEW t \in Tabs, NEW e \in Envelope,
         NEW record \in RecordType(Len(queue)), NEW more, Send(t, e, record, more),
         seen' = [seen EXCEPT ![t] = NothingSeen],
         UNCHANGED <<told, corpus, cursor, queue, overtaken>>,
         Reached(record.advance),
         record.ids = {} \/ record.advance = 0,
         \A i \in record.ids : \A p \in queue[i].rows :
           \/ p \in e.rows
           \/ \E n \in 1..Len(record.tails) : p \in record.tails[n].rows,
         \A k \in Keys \ overtaken :
           cursor < k /\ k <= record.advance /\ Present(corpus[k])
             => <<k, corpus[k]>> \in e.rows
  PROVE  IInv'
<1>1. /\ TypeInv /\ tab \in [Tabs -> TabType] /\ inflight \in [Tabs -> RecordType(Len(queue))]
      /\ seen \in [Tabs -> SeenType(Len(queue))] /\ Ahead
  BY DEF IInv, TypeInv, TabsTyped, StoreTyped
<1>2. Steady /\ KeepsWord
  BY <1>1, StillStep
<1>3. \A u \in Tabs : inflight'[u] = IF u = t THEN record ELSE inflight[u]
  BY <1>1 DEF Send
<1> DEFINE posted == [tab[t] EXCEPT !.pc = "posted", !.outcome = "none", !.env = e,
                                    !.more = more, !.batches = @ + 1]
           r == IF tab[t].mode = "loop" THEN posted ELSE Idle
<1>4. tab' = [tab EXCEPT ![t] = r]
  BY Zenon DEF Send, Reply
<1>5. posted.pc = "posted" /\ posted.env = e /\ ~(Idle.pc = "posted" \/ Idle.outcome = "ack")
  BY <1>1 DEF TabType, Idle
<1> HIDE DEF posted
<1>6. Live(t)' => Arrived(t)' = e.rows \cup told
  BY <1>1, <1>4, <1>5 DEF Live, Arrived
<1>7. Earned(t)'
  <2> SUFFICES ASSUME Live(t)' PROVE Settles(t)' /\ Streams(t)' /\ Apart(t)'
    BY DEF Earned
  <2>1. Settles(t)'
    BY <1>3, <1>6 DEF Settles, InTails
  <2>2. Streams(t)'
    BY <1>3, <1>6 DEF Streams
  <2>3. Apart(t)'
    BY <1>3 DEF Apart
  <2>4. QED
    BY <2>1, <2>2, <2>3
<1> HIDE DEF r
<1>8. ASSUME NEW u \in Tabs, u # t PROVE Earned(u)'
  <2>1. tab'[u] = tab[u] /\ inflight'[u] \in {inflight[u], NoRecord} /\ told \subseteq told'
    BY <1>1, <1>3, <1>4, <1>8
  <2>2. Live(u)' => Live(u) /\ Arrived(u) \subseteq Arrived(u)'
    BY <2>1, SameTab
  <2>3. QED
    BY <1>1, <1>2, <2>1, <2>2, EarnedKept DEF IInv
<1>9. Cover'
  BY <1>1, <1>2, CoverKept DEF IInv
<1>10. \A u \in Tabs : seen'[u] = IF u = t THEN NothingSeen ELSE seen[u]
  BY <1>1
<1>11. Ahead'
  <2>1. \A u \in Tabs : seen'[u].cursor <= cursor'
    BY <1>10, SeenBehind
  <2>2. Reached(cursor)'
    BY <1>1 DEF Ahead, Reached
  <2>3. ASSUME NEW u \in Tabs PROVE Reached(inflight[u].advance)'
    <3>1. Reached(inflight[u].advance)
      BY <1>1 DEF Ahead
    <3>2. QED
      BY <1>3, <3>1 DEF Reached
  <2>4. QED
    BY <2>1, <2>2, <2>3 DEF Ahead
<1>12. QED
  BY <1>7, <1>8, <1>9, <1>11 DEF IInv

LEMMA EmitNoticesInv == ASSUME IInv, NEW t \in Tabs, EmitNotices(t) PROVE IInv'
<1> DEFINE ids == seen[t].ids
           streaming == PastCursor(seen[t].cursor) # {}
<1>1. StoreTyped /\ TypeInv'
  BY EmitNoticesTyped DEF IInv, TypeInv
<1>2. /\ ids \in SUBSET (1..Len(queue)) /\ seen[t].more \in BOOLEAN
      /\ \A i \in ids : queue[i].rows \in Rows
  BY <1>1, SeenTyped
<1>3. PICK head \in ids :
        IF queue[head].op = "withdraw"
        THEN Send(t, [op |-> "set", rows |-> UNION {queue[i].rows : i \in ids}],
                  [ids |-> ids, advance |-> 0, tails |-> <<>>],
                  seen[t].more \/ streaming)
        ELSE Send(t, [op |-> "set", rows |-> Part(queue[head].rows, WindowRows, 1)],
                  [ids |-> {head}, advance |-> 0,
                   tails |-> Windows(queue[head].rows, WindowRows, 1)],
                  seen[t].more \/ Windows(queue[head].rows, WindowRows, 1) # <<>> \/ streaming)
  BY DEF EmitNotices
<1>4. /\ seen' = [seen EXCEPT ![t] = NothingSeen]
      /\ UNCHANGED <<told, corpus, cursor, queue, overtaken>>
  BY DEF EmitNotices
<1>5. 0 \in 0..NumKeys /\ Reached(0) /\ \A k \in Keys : ~(k <= 0)
  BY TransportAssumption DEF Reached, Keys
<1>6. CASE queue[head].op = "withdraw"
  <2> DEFINE e == [op |-> "set", rows |-> UNION {queue[i].rows : i \in ids}]
             record == [ids |-> ids, advance |-> 0, tails |-> <<>>]
             more == seen[t].more \/ streaming
  <2>1. e \in Envelope
    BY <1>2 DEF Envelope, Rows
  <2>2. record \in RecordType(Len(queue))
    BY <1>2, <1>5 DEF RecordType
  <2>3. Send(t, e, record, more)
    BY <1>3, <1>6
  <2>4. record.advance = 0 /\ \A i \in record.ids : \A p \in queue[i].rows : p \in e.rows
    OBVIOUS
  <2> HIDE DEF e, record, more
  <2>5. QED
    BY <1>1, <1>4, <1>5, <2>1, <2>2, <2>3, <2>4, SendInv
<1>7. CASE queue[head].op # "withdraw"
  <2> DEFINE rows == queue[head].rows
             tails == Windows(rows, WindowRows, 1)
             e == [op |-> "set", rows |-> Part(rows, WindowRows, 1)]
             record == [ids |-> {head}, advance |-> 0, tails |-> tails]
             more == seen[t].more \/ tails # <<>> \/ streaming
  <2>1. rows \in Rows /\ {head} \in SUBSET (1..Len(queue))
    BY <1>2
  <2>2. e \in Envelope
    BY <2>1 DEF Envelope, Part, Rows
  <2>3. record \in RecordType(Len(queue))
    BY <1>5, <2>1, TailsTyped DEF RecordType
  <2>4. Send(t, e, record, more)
    BY <1>3, <1>7
  <2>5. ASSUME NEW p \in rows
        PROVE  p \in e.rows \/ \E n \in 1..Len(record.tails) : p \in record.tails[n].rows
    BY <2>1, PushAssumption, WindowsCover
  <2>6. record.advance = 0 /\ record.ids = {head}
    OBVIOUS
  <2>7. \A i \in record.ids : \A p \in queue[i].rows :
          p \in e.rows \/ \E n \in 1..Len(record.tails) : p \in record.tails[n].rows
    BY <2>5, <2>6
  <2> HIDE DEF e, record, more, tails
  <2>8. QED
    BY <1>1, <1>4, <1>5, <2>2, <2>3, <2>4, <2>6, <2>7, SendInv
<1>8. QED
  BY <1>6, <1>7

LEMMA EmitSliceInv == ASSUME IInv, NEW t \in Tabs, EmitSlice(t) PROVE IInv'
<1> DEFINE past == PastCursor(seen[t].cursor)
           slice == First(past, Page)
           e == [op |-> "insert", rows |-> RowsOf(corpus, slice)]
           more == past # slice
<1>1. StoreTyped /\ TypeInv'
  BY EmitSliceTyped DEF IInv, TypeInv
<1>2. past \in SUBSET Keys /\ slice \in SUBSET Keys /\ slice \subseteq past
  BY DEF First, PastCursor
<1>3. PICK last \in slice :
        Send(t, e, [ids |-> {}, advance |-> Floor[last], tails |-> <<>>], more)
  BY DEF EmitSlice
<1> DEFINE record == [ids |-> {}, advance |-> Floor[last], tails |-> <<>>]
<1>4. e \in Envelope
  BY <1>1, <1>2, RowsOfType DEF Envelope, StoreTyped
<1>5. record \in RecordType(Len(queue)) /\ record.advance = Floor[last] /\ record.ids = {}
  BY <1>2, PushAssumption DEF RecordType
<1>6. Send(t, e, record, more)
  BY <1>3
<1>7. /\ seen' = [seen EXCEPT ![t] = NothingSeen]
      /\ UNCHANGED <<told, corpus, cursor, queue, overtaken>>
  BY DEF EmitSlice
<1>8. last \in Nat /\ Floor[last] \in 0..NumKeys /\ Floor[last] <= last
  BY <1>2, PushAssumption, TransportAssumption DEF Keys
<1>9. Reached(record.advance)
  <2>1. last \in Keys /\ corpus[last] # 0
    BY <1>2 DEF PastCursor, Present
  <2>2. QED
    BY <1>5, <1>8, <2>1 DEF Reached
<1>10. ASSUME NEW k \in Keys, cursor < k, k <= record.advance, Present(corpus[k])
       PROVE  <<k, corpus[k]>> \in e.rows
  <2>1. seen[t].cursor \in 0..NumKeys /\ seen[t].cursor <= cursor /\ cursor \in 0..NumKeys
    BY <1>1, SeenTyped DEF StoreTyped, IInv, Ahead
  <2>2. k \in Nat
    BY TransportAssumption DEF Keys
  <2>3. k > seen[t].cursor /\ k <= last
    BY <1>5, <1>8, <1>10, <2>1, <2>2
  <2>4. k \in past
    BY <1>10, <2>3 DEF PastCursor
  <2>5. k \in slice
    BY <1>2, <2>3, <2>4, PushAssumption, FirstIsInitial
  <2>6. QED
    BY <2>5 DEF RowsOf
<1> HIDE DEF e, record, more
<1>11. QED
  BY <1>1, <1>4, <1>5, <1>6, <1>7, <1>9, <1>10, SendInv

LEMMA InvStep == ASSUME IInv, [Next]_vars PROVE IInv'
<1>1. CASE TransportNext /\ UNCHANGED storeVars
  BY <1>1, TransportInv
<1>2. ASSUME NEW t \in Tabs, Serve(t) PROVE IInv'
  <2>1. CASE Outcome(t)
    BY <2>1, AckInv, UnackedInv
  <2>2. QED
    BY <1>2, <2>1, PausedInv, ClaimInv, EmitNoticesInv, EmitSliceInv, EmitNothingInv DEF Serve
<1>3. CASE Write
  BY <1>3, WriteInv
<1>4. CASE Pause \/ Resume
  BY <1>4, SwitchInv
<1>5. CASE UNCHANGED vars
  BY <1>5, StutterInv
<1>6. QED
  BY <1>1, <1>2, <1>3, <1>4, <1>5 DEF Next

-----------------------------------------------------------------------------
(* The theorems. *)

LEMMA InvHolds == Spec => []IInv
<1>1. Init => IInv
  BY InvInit
<1>2. IInv /\ [Next]_vars => IInv'
  BY InvStep
<1>3. QED
  BY <1>1, <1>2, PTL DEF Spec

\* The state of the push stays well-typed: tabs, wire, corpus, queue and records,
\* whose notices are always in the queue (state.ts, transport.client.ts).
THEOREM PushTyped == Spec => []TypeOK
<1>1. IInv => TypeOK
  BY InvImplies
<1>2. QED
  BY <1>1, InvHolds, PTL

\* A row whose newest version aimer-web has not heard stays past the cursor or in
\* a pending notice, whatever tabs, lost batches, late arrivals and writers do
\* (baseline-push.ts, commitOnAck and the writers' notices).
THEOREM PushLosesNothing == Spec => []NothingLost
<1>1. IInv => NothingLost
  BY InvImplies
<1>2. QED
  BY <1>1, InvHolds, PTL

\* What an acknowledgement will mark has reached aimer-web, or waits in a tail
\* (state.ts, commitOnAck).
THEOREM PushAcksAreEarned == Spec => []AckIsEarned
<1>1. IInv => AckIsEarned
  BY InvImplies
<1>2. QED
  BY <1>1, InvHolds, PTL

-----------------------------------------------------------------------------
(* The push implements AtLeastOnce.  What is told or under way is never      *)
(* newer than the corpus, so a change of a row is a version aimer-web has    *)
(* not heard, which NothingLost says is owed; and the tails of a record are  *)
(* parts of its one window, so that settling it adds no row to what is owed. *)

Old(S, made) == \A p \in S : p[2] <= made[p[1]]

OldInv ==
  /\ Old(told, corpus)
  /\ \A t \in Tabs : Old(tab[t].env.rows, corpus)
  /\ \A n \in 1..MaxFaults : Old(late[n].rows, corpus)
  /\ \A i \in 1..Len(queue) : Old(queue[i].rows, corpus)

\* The tails of a record are parts of the window it names, queue[i].
PartsOf(record, i, rows) ==
  /\ record.ids = {i}
  /\ \A n \in 1..Len(record.tails) : record.tails[n].rows \subseteq rows

TailInv ==
  \A t \in Tabs :
    \/ inflight[t].tails = <<>>
    \/ \E i \in 1..Len(queue) : PartsOf(inflight[t], i, queue[i].rows)

RefInv == OldInv /\ TailInv

LEMMA OldGrows ==
  ASSUME NEW S \in Rows, NEW m \in [Keys -> Version], NEW n \in [Keys -> Version],
         \A k \in Keys : m[k] <= n[k], Old(S, m)
  PROVE  Old(S, n)
<1> SUFFICES ASSUME NEW p \in S PROVE p[2] <= n[p[1]]
  BY DEF Old
<1>1. p[1] \in Keys /\ p[2] \in Nat /\ p[2] <= m[p[1]]
  BY DEF Old, Rows, Version
<1>2. m[p[1]] \in Nat /\ n[p[1]] \in Nat /\ m[p[1]] <= n[p[1]]
  BY <1>1 DEF Version
<1>3. QED
  BY <1>1, <1>2

LEMMA WindowsWithin ==
  ASSUME NEW rows \in Rows, NEW max \in Nat \ {0}, NEW skip \in {0, 1}, Keys # {},
         NEW n \in 1..Len(Windows(rows, max, skip))
  PROVE  Windows(rows, max, skip)[n].rows \subseteq rows
<1>1. n \in 1..(Parts(rows, max) - skip)
  BY WindowsType
<1>2. Windows(rows, max, skip)[n].rows = Part(rows, max, n + skip)
  BY <1>1, WindowsType
<1>3. QED
  BY <1>2 DEF Part

LEMMA TailsWithin ==
  ASSUME NEW rows \in Rows, NEW n \in 1..Len(Windows(rows, WindowRows, 1))
  PROVE  Windows(rows, WindowRows, 1)[n].rows \subseteq rows
<1>1. CASE Keys # {}
  BY <1>1, WindowsWithin, PushAssumption
<1>2. CASE Keys = {}
  <2> DEFINE w == Windows(rows, WindowRows, 1)
  <2>1. w \in Seq(TailType)
    BY TailsTyped
  <2> HIDE DEF w
  <2>2. ASSUME NEW m \in 1..Len(w) PROVE w[m].rows \subseteq rows
    <3>1. w[m] \in TailType
      BY <2>1
    <3>2. w[m].rows \in Rows
      BY <3>1 DEF TailType
    <3>3. QED
      BY <1>2, <3>2 DEF Rows
  <2>3. QED
    BY <2>2 DEF w
<1>3. QED
  BY <1>1, <1>2

LEMMA RefInit == Init => RefInv
<1> SUFFICES ASSUME Init PROVE RefInv
  OBVIOUS
<1>1. /\ told = {} /\ queue = <<>> /\ inflight = [t \in Tabs |-> NoRecord]
      /\ tab = [t \in Tabs |-> Idle]
      /\ late = [n \in 1..MaxFaults |-> NoEnvelope]
  BY DEF Init, TransportInit
<1>2. Idle.env.rows = {} /\ NoEnvelope.rows = {} /\ NoRecord.tails = <<>>
  BY DEF Idle, NoEnvelope, NoRecord
<1>3. OldInv
  BY <1>1, <1>2 DEF OldInv, Old
<1>4. TailInv
  BY <1>1, <1>2 DEF TailInv
<1>5. QED
  BY <1>3, <1>4 DEF RefInv

\* A step that leaves the rows and the notices alone, and puts nothing newer than
\* the corpus on the wire.
LEMMA StillRef ==
  ASSUME RefInv, UNCHANGED <<corpus, queue, inflight>>, Old(told', corpus),
         \A t \in Tabs : Old(tab'[t].env.rows, corpus),
         \A n \in 1..MaxFaults : Old(late'[n].rows, corpus)
  PROVE  RefInv'
BY DEF RefInv, OldInv, TailInv

LEMMA TransportRef ==
  ASSUME IInv, RefInv, TransportNext, UNCHANGED storeVars
  PROVE  RefInv'
<1>1. /\ tab \in [Tabs -> TabType] /\ late \in [1..MaxFaults -> Envelope] /\ WireTyped
      /\ UNCHANGED <<corpus, queue, inflight>>
  BY DEF IInv, TypeInv, TabsTyped, WireTyped, storeVars
<1>2. /\ Old(told, corpus) /\ \A t \in Tabs : Old(tab[t].env.rows, corpus)
      /\ \A n \in 1..MaxFaults : Old(late[n].rows, corpus)
  BY DEF RefInv, OldInv
<1>3. Idle.env.rows = {} /\ NoEnvelope.rows = {} /\ Old({}, corpus)
  BY DEF Idle, NoEnvelope, Old
<1>4. ASSUME NEW t \in Tabs, NEW r, tab' = [tab EXCEPT ![t] = r],
             r.env.rows \subseteq tab[t].env.rows
      PROVE  \A u \in Tabs : Old(tab'[u].env.rows, corpus)
  BY <1>1, <1>2, <1>4 DEF Old
<1>5. ASSUME NEW t \in Tabs, GiveUp(t), Fault
      PROVE  \A n \in 1..MaxFaults : Old(late'[n].rows, corpus)
  <2>1. faults + 1 \in 1..MaxFaults
    BY <1>1, <1>5, FaultTyped
  <2>2. QED
    BY <1>1, <1>2, <1>5, <2>1 DEF GiveUp
<1>6. ASSUME NEW t \in Tabs, NEW outcome, NEW last, Report(t, outcome, last)
      PROVE  \A u \in Tabs : Old(tab'[u].env.rows, corpus)
  <2> DEFINE call == [Idle EXCEPT !.pc = "outcome", !.outcome = outcome]
             final == [call EXCEPT !.mode = "final"]
             going == [call EXCEPT !.batches = tab[t].batches,
                                   !.fails = IF outcome = "ack" THEN 0
                                             ELSE tab[t].fails + 1]
             r == IF last \/ tab[t].batches = MaxBatches THEN final ELSE going
  <2>1. tab' = [tab EXCEPT ![t] = r]
    BY <1>6, Zenon DEF Report
  <2>2. final.env.rows = {} /\ going.env.rows = {}
    BY DEF Idle, NoEnvelope
  <2> HIDE DEF final, going
  <2>3. r.env.rows = {}
    BY <2>2
  <2> HIDE DEF r
  <2>4. QED
    BY <1>4, <2>1, <2>3
<1>7. CASE \E t \in Tabs : Start(t)
  <2>1. PICK t \in Tabs : Start(t)
    BY <1>7
  <2> DEFINE r == [tab[t] EXCEPT !.pc = "outcome"]
  <2>2. tab' = [tab EXCEPT ![t] = r] /\ UNCHANGED <<late, told>>
    BY <2>1, Zenon DEF Start
  <2>3. r.env = tab[t].env
    BY <1>1 DEF TabType
  <2> HIDE DEF r
  <2>4. \A u \in Tabs : Old(tab'[u].env.rows, corpus)
    BY <1>4, <2>2, <2>3
  <2>5. QED
    BY <1>1, <1>2, <2>2, <2>4, StillRef
<1>8. CASE \E t \in Tabs : Deliver(t)
  <2>1. PICK t \in Tabs : Deliver(t)
    BY <1>8
  <2>2. Old(told', corpus)
    BY <1>2, <2>1 DEF Deliver, Receive, Old
  <2>3. \A u \in Tabs : Old(tab'[u].env.rows, corpus)
    BY <1>6, <2>1 DEF Deliver
  <2>4. late' = late
    BY <2>1 DEF Deliver
  <2>5. QED
    BY <1>1, <1>2, <2>2, <2>3, <2>4, StillRef
<1>9. CASE \E t \in Tabs : Fail(t) \/ Refuse(t)
  <2>1. PICK t \in Tabs : Fail(t) \/ Refuse(t)
    BY <1>9
  <2>2. \A u \in Tabs : Old(tab'[u].env.rows, corpus)
    BY <1>6, <2>1 DEF Fail, Refuse
  <2>3. \A n \in 1..MaxFaults : Old(late'[n].rows, corpus)
    BY <1>5, <2>1 DEF Fail, Refuse
  <2>4. told' = told
    BY <2>1 DEF Fail, Refuse
  <2>5. QED
    BY <1>1, <1>2, <2>2, <2>3, <2>4, StillRef
<1>10. CASE \E t \in Tabs : Close(t)
  <2>1. PICK t \in Tabs : Close(t)
    BY <1>10
  <2> DEFINE gone == [tab[t] EXCEPT !.mode = "gone", !.batches = 0, !.fails = 0]
             r == IF tab[t].pc = "posted" THEN Idle ELSE gone
  <2>2. tab' = [tab EXCEPT ![t] = r] /\ told' = told
    BY <2>1, Zenon DEF Close
  <2>3. gone.env = tab[t].env
    BY <1>1 DEF TabType
  <2> HIDE DEF gone
  <2>4. r.env.rows \subseteq tab[t].env.rows
    BY <1>3, <2>3
  <2> HIDE DEF r
  <2>5. \A u \in Tabs : Old(tab'[u].env.rows, corpus)
    BY <1>4, <2>2, <2>4
  <2>6. \A n \in 1..MaxFaults : Old(late'[n].rows, corpus)
    BY <1>5, <2>1 DEF Close
  <2>7. QED
    BY <1>1, <1>2, <2>2, <2>5, <2>6, StillRef
<1>11. CASE \E t \in Tabs : CallFails(t)
  <2>1. PICK t \in Tabs : tab' = [tab EXCEPT ![t] = Idle] /\ UNCHANGED <<late, told>>
    BY <1>11 DEF CallFails
  <2>2. \A u \in Tabs : Old(tab'[u].env.rows, corpus)
    BY <1>3, <1>4, <2>1
  <2>3. QED
    BY <1>1, <1>2, <2>1, <2>2, StillRef
<1>12. CASE \E n \in 1..MaxFaults : LateArrives(n)
  <2>1. PICK n \in 1..MaxFaults : LateArrives(n)
    BY <1>12
  <2>2. Old(told', corpus)
    BY <1>2, <2>1 DEF LateArrives, Receive, Old
  <2>3. \A m \in 1..MaxFaults : Old(late'[m].rows, corpus)
    BY <1>1, <1>2, <1>3, <2>1 DEF LateArrives
  <2>4. tab' = tab
    BY <2>1 DEF LateArrives
  <2>5. QED
    BY <1>1, <1>2, <2>2, <2>3, <2>4, StillRef
<1>13. QED
  BY <1>7, <1>8, <1>9, <1>10, <1>11, <1>12 DEF TransportNext

-----------------------------------------------------------------------------
(* The writers. *)

\* What a writer does: rows only get newer, and its notices speak of them as
\* they are now.
Writes(s) ==
  /\ UNCHANGED <<tab, late, told, cursor, inflight>>
  /\ overtaken \subseteq overtaken'
  /\ \A k \in Keys : corpus[k] <= corpus'[k]
  /\ s \in Seq(Notice) /\ queue' = queue \o s
  /\ \A n \in 1..Len(s) : Old(s[n].rows, corpus')

LEMMA WriterRef ==
  ASSUME IInv, IInv', NothingLost', RefInv, NEW s, Writes(s)
  PROVE  RefInv' /\ Promise!Make
<1>1. /\ corpus \in [Keys -> Version] /\ corpus' \in [Keys -> Version]
      /\ told \in Rows /\ queue \in Seq(Notice)
      /\ tab \in [Tabs -> TabType] /\ late \in [1..MaxFaults -> Envelope]
  BY DEF IInv, TypeInv, TabsTyped, WireTyped, StoreTyped
<1>2. /\ UNCHANGED <<tab, late, told, cursor, inflight>> /\ overtaken \subseteq overtaken'
      /\ \A k \in Keys : corpus[k] <= corpus'[k]
      /\ s \in Seq(Notice) /\ queue' = queue \o s
      /\ \A n \in 1..Len(s) : Old(s[n].rows, corpus')
  BY DEF Writes
<1>3. /\ 1..Len(queue) \subseteq 1..Len(queue')
      /\ \A i \in 1..Len(queue) : queue'[i] = queue[i]
      /\ \A n \in 1..Len(s) : queue'[Len(queue) + n] = s[n]
      /\ Len(queue') = Len(queue) + Len(s) /\ Len(queue) \in Nat /\ Len(s) \in Nat
  BY <1>1, <1>2, QueueGrows
<1>4. RefInv'
  <2>1. Old(told, corpus')
    BY <1>1, <1>2, OldGrows DEF RefInv, OldInv
  <2>2. ASSUME NEW t \in Tabs PROVE Old(tab[t].env.rows, corpus')
    <3>1. tab[t].env.rows \in Rows
      BY <1>1 DEF TabType, Envelope
    <3>2. QED
      BY <1>1, <1>2, <3>1, OldGrows DEF RefInv, OldInv
  <2>3. ASSUME NEW n \in 1..MaxFaults PROVE Old(late[n].rows, corpus')
    <3>1. late[n].rows \in Rows
      BY <1>1 DEF Envelope
    <3>2. QED
      BY <1>1, <1>2, <3>1, OldGrows DEF RefInv, OldInv
  <2>4. ASSUME NEW i \in 1..Len(queue') PROVE Old(queue'[i].rows, corpus')
    <3>1. CASE i \in 1..Len(queue)
      <4>1. queue[i] \in Notice
        BY <1>1, <3>1
      <4>2. queue[i].rows \in Rows
        BY <4>1 DEF Notice
      <4>3. QED
        BY <1>1, <1>2, <1>3, <3>1, <4>2, OldGrows DEF RefInv, OldInv
    <3>2. CASE i \notin 1..Len(queue)
      <4>1. i - Len(queue) \in 1..Len(s) /\ i = Len(queue) + (i - Len(queue))
        BY <1>3, <2>4, <3>2
      <4>2. queue'[i] = s[i - Len(queue)]
        BY <1>3, <4>1
      <4>3. QED
        BY <1>2, <4>1, <4>2
    <3>3. QED
      BY <3>1, <3>2
  <2>5. OldInv'
    BY <1>2, <2>1, <2>2, <2>3, <2>4 DEF OldInv
  <2>6. TailInv'
    BY <1>2, <1>3 DEF RefInv, TailInv
  <2>7. QED
    BY <2>5, <2>6 DEF RefInv
<1>5. ASSUME NEW k \in Keys, corpus'[k] # corpus[k]
      PROVE  corpus'[k] > corpus[k] /\ k \in Owed' \cup overtaken'
  <2>1. corpus[k] \in Nat /\ corpus'[k] \in Nat /\ corpus'[k] > corpus[k]
    BY <1>1, <1>2, <1>5 DEF Version
  <2>2. <<k, corpus'[k]>> \notin told
    BY <2>1 DEF RefInv, OldInv, Old
  <2>3. ~UpToDate(k)'
    BY <1>2, <2>1, <2>2 DEF UpToDate
  <2>4. QED
    BY <2>1, <2>3 DEF NothingLost
<1>6. ASSUME NEW k \in Owed PROVE k \in Owed' \cup overtaken'
  <2>1. CASE k \in PastCursor(cursor)
    <3>1. k \in Keys /\ Present(corpus[k]) /\ k > cursor
      BY <2>1 DEF PastCursor
    <3>2. CASE corpus'[k] = corpus[k]
      BY <1>2, <3>1, <3>2 DEF Owed, PastCursor
    <3>3. QED
      BY <1>5, <3>1, <3>2
  <2>2. CASE k \in UNION {KeysOf(queue[i].rows) : i \in Pending}
    <3>1. PICK i \in Pending : k \in KeysOf(queue[i].rows)
      BY <2>2
    <3>2. i \in Pending' /\ queue'[i] = queue[i]
      BY <1>3, <3>1 DEF Pending
    <3>3. QED
      BY <3>1, <3>2 DEF Owed
  <2>3. QED
    BY <2>1, <2>2 DEF Owed
<1>7. corpus' \in [Keys -> 0..MaxVersion]
  BY <1>1 DEF Version
<1>8. Promise!Make
  BY <1>2, <1>5, <1>6, <1>7 DEF Promise!Make
<1>9. QED
  BY <1>4, <1>8

LEMMA RebuiltNewer ==
  ASSUME StoreTyped, NEW W \in SUBSET Keys, NEW S \in SUBSET W, NEW k \in W
  PROVE  corpus[k] <= Rebuilt(W, S)[k]
<1>1. corpus[k] \in Nat
  BY DEF StoreTyped, Version
<1>2. CASE Present(corpus[k])
  BY <1>1, <1>2 DEF Rebuilt
<1>3. CASE ~Present(corpus[k]) /\ corpus[k] = 0 /\ k \in S
  BY <1>1, <1>3 DEF Rebuilt
<1>4. CASE ~Present(corpus[k]) /\ ~(corpus[k] = 0 /\ k \in S)
  BY <1>1, <1>4 DEF Rebuilt
<1>5. QED
  BY <1>2, <1>3, <1>4

\* The windows made of rows as they are speak of nothing newer.
LEMMA WindowsOld ==
  ASSUME NEW made \in [Keys -> Version], NEW W \in SUBSET Keys, NEW f,
         \A k \in W : f[k] \in Version /\ f[k] = made[k], Keys # {}
  PROVE  \A n \in 1..Len(Windows(RowsOf(f, W), QueueRows, 0)) :
           Old(Windows(RowsOf(f, W), QueueRows, 0)[n].rows, made)
<1>1. RowsOf(f, W) \in Rows
  BY RowsOfType
<1>2. Old(RowsOf(f, W), made)
  <2> SUFFICES ASSUME NEW k \in W PROVE f[k] <= made[k]
    BY DEF Old, RowsOf
  <2>1. made[k] \in Nat /\ f[k] = made[k]
    BY DEF Version
  <2>2. QED
    BY <2>1
<1>3. QED
  BY <1>1, <1>2, WindowsWithin, PushAssumption DEF Old

LEMMA WriteRef == ASSUME IInv, IInv', NothingLost', RefInv, Write
  PROVE  RefInv' /\ Promise!Make
<1>0. /\ StoreTyped /\ queue \in Seq(Notice)
      /\ corpus \in [Keys -> Version] /\ corpus' \in [Keys -> Version]
      /\ \A k \in Keys : corpus[k] \in Nat
  BY DEF IInv, TypeInv, StoreTyped, Version
<1>1. ASSUME NEW to \in Keys, NEW S \in SUBSET Keys, CadenceInsert(S, to)
      PROVE  RefInv' /\ Promise!Make
  <2>1. \A k \in S : corpus[k] = 0
    BY <1>1 DEF CadenceInsert
  <2>2. \A k \in Keys : corpus[k] <= corpus'[k]
    BY <1>0, <1>1, <2>1 DEF CadenceInsert
  <2>3. queue' = queue \o <<>> /\ <<>> \in Seq(Notice)
    BY <1>0, <1>1, NoNotice DEF CadenceInsert
  <2>4. UNCHANGED <<tab, late, told, cursor, inflight>> /\ overtaken \subseteq overtaken'
    BY <1>1 DEF CadenceInsert, transportVars
  <2>5. Writes(<<>>)
    BY <2>2, <2>3, <2>4 DEF Writes
  <2>6. QED
    BY <2>5, WriterRef
<1>2. ASSUME NEW S \in SUBSET Keys, NEW T \in SUBSET Keys, ExclusionDelete(S, T)
      PROVE  RefInv' /\ Promise!Make
  <2> DEFINE w == Withdrawal(S)
             v == Withdrawal(T)
             s == w \o v
  <2>1. \A k \in Keys : corpus'[k] = IF k \in S \cup T THEN corpus[k] + 1 ELSE corpus[k]
    BY <1>2 DEF ExclusionDelete
  <2>2. /\ w \in Seq(Notice) /\ v \in Seq(Notice)
        /\ S # {} => Len(w) = 1 /\ w[1].rows = {<<k, corpus[k] + 1>> : k \in S}
        /\ T # {} => Len(v) = 1 /\ v[1].rows = {<<k, corpus[k] + 1>> : k \in T}
    BY <1>0, <1>2, WithdrawalTyped DEF ExclusionDelete
  <2>3. (S = {} => w = <<>>) /\ (T = {} => v = <<>>)
    BY DEF Withdrawal
  <2>4. queue' = queue \o s
    BY <1>0, <1>2, <2>2 DEF ExclusionDelete
  <2>5. ASSUME NEW R \in SUBSET (S \cup T)
        PROVE  Old({<<k, corpus[k] + 1>> : k \in R}, corpus')
    <3> SUFFICES ASSUME NEW k \in R PROVE corpus[k] + 1 <= corpus'[k]
      BY DEF Old
    <3>1. QED
      BY <1>0, <2>1
  <2>5a. Old({<<k, corpus[k] + 1>> : k \in S}, corpus')
         /\ Old({<<k, corpus[k] + 1>> : k \in T}, corpus')
    BY <2>5
  <2> HIDE DEF w, v
  <2>6. \A n \in 1..Len(w) : Old(w[n].rows, corpus')
    <3>1. CASE S = {}
      <4>1. Len(w) = 0
        BY <2>3, <3>1
      <4>2. QED
        BY <4>1
    <3>2. CASE S # {}
      <4>1. Len(w) = 1
        BY <2>2, <3>2, Zenon
      <4>2. Old(w[1].rows, corpus')
        BY <2>2, <2>5a, <3>2, Zenon
      <4>3. QED
        BY <4>1, <4>2
    <3>3. QED
      BY <3>1, <3>2
  <2>7. \A n \in 1..Len(v) : Old(v[n].rows, corpus')
    <3>1. CASE T = {}
      <4>1. Len(v) = 0
        BY <2>3, <3>1
      <4>2. QED
        BY <4>1
    <3>2. CASE T # {}
      <4>1. Len(v) = 1
        BY <2>2, <3>2, Zenon
      <4>2. Old(v[1].rows, corpus')
        BY <2>2, <2>5a, <3>2, Zenon
      <4>3. QED
        BY <4>1, <4>2
    <3>3. QED
      BY <3>1, <3>2
  <2>8. s \in Seq(Notice) /\ \A n \in 1..Len(s) : Old(s[n].rows, corpus')
    <3>1. /\ s \in Seq(Notice) /\ Len(w) \in Nat /\ Len(v) \in Nat
          /\ Len(s) = Len(w) + Len(v)
      BY <2>2
    <3>2. ASSUME NEW n \in 1..Len(s) PROVE Old(s[n].rows, corpus')
      <4>1. CASE n <= Len(w)
        BY <2>2, <2>6, <3>1, <3>2, <4>1
      <4>2. CASE n > Len(w)
        <5>1. n - Len(w) \in 1..Len(v) /\ s[n] = v[n - Len(w)]
          BY <2>2, <3>1, <3>2, <4>2
        <5>2. QED
          BY <2>7, <5>1
      <4>3. QED
        BY <3>1, <3>2, <4>1, <4>2
    <3>3. QED
      BY <3>1, <3>2
  <2>9. UNCHANGED <<tab, late, told, cursor, inflight>> /\ overtaken \subseteq overtaken'
    BY <1>2 DEF ExclusionDelete, transportVars
  <2>10. \A k \in Keys : corpus[k] <= corpus'[k]
    BY <1>0, <2>1
  <2> HIDE DEF s
  <2>11. Writes(s)
    BY <2>4, <2>8, <2>9, <2>10 DEF Writes
  <2>12. QED
    BY <2>11, WriterRef
<1>3. ASSUME NEW w \in Spans, NEW S \in SUBSET (w[1]..w[2]), Rebuild(w[1], w[2], S)
      PROVE  RefInv' /\ Promise!Make
  <2> DEFINE W == w[1]..w[2]
             new == Rebuilt(W, S)
             s == Windows(RowsOf(new, W), QueueRows, 0)
  <2>1. W \in SUBSET Keys /\ Keys # {}
    BY SpansTyped
  <2>2. \A k \in W : new[k] <= MaxVersion
    BY <1>3 DEF Rebuild, Rebuilt
  <2>3. \A k \in W : new[k] \in Version /\ corpus[k] <= new[k]
    BY <1>0, <2>1, <2>2, RebuiltTyped, RebuiltNewer
  <2>4. corpus' = [k \in Keys |-> IF k \in W THEN new[k] ELSE corpus[k]]
        /\ queue' = queue \o s
    BY <1>3 DEF Rebuild, Rebuilt
  <2>5. UNCHANGED <<tab, late, told, cursor, inflight>> /\ overtaken \subseteq overtaken'
    BY <1>3 DEF Rebuild, transportVars
  <2> HIDE DEF new, W
  <2>6. RowsOf(new, W) \in Rows /\ \A k \in W : new[k] = corpus'[k]
    BY <2>1, <2>3, <2>4, RowsOfType
  <2>7. s \in Seq(Notice)
    BY <2>1, <2>6, PushAssumption, WindowNotices
  <2>8. \A n \in 1..Len(s) : Old(s[n].rows, corpus')
    BY <1>0, <2>1, <2>3, <2>6, WindowsOld
  <2>9. \A k \in Keys : corpus[k] <= corpus'[k]
    BY <1>0, <2>3, <2>4
  <2> HIDE DEF s
  <2>10. Writes(s)
    BY <2>4, <2>5, <2>7, <2>8, <2>9 DEF Writes
  <2>11. QED
    BY <2>10, WriterRef
<1>4. ASSUME NEW w \in Spans, Backfill(w[1], w[2]) PROVE RefInv' /\ Promise!Make
  <2> DEFINE W == w[1]..w[2]
             s == Windows(RowsOf(corpus, W), QueueRows, 0)
  <2>1. W \in SUBSET Keys /\ Keys # {}
    BY SpansTyped
  <2>2. RowsOf(corpus, W) \in Rows
    BY <1>0, <2>1, RowsOfType
  <2>3. s \in Seq(Notice) /\ queue' = queue \o s
    BY <1>4, <2>1, <2>2, PushAssumption, WindowNotices DEF Backfill
  <2>4. UNCHANGED <<tab, late, told, corpus, cursor, inflight, overtaken>>
    BY <1>4 DEF Backfill, transportVars
  <2>5. \A n \in 1..Len(s) : Old(s[n].rows, corpus)
    BY <1>0, <2>1, WindowsOld
  <2>6. \A k \in Keys : corpus[k] <= corpus'[k]
    BY <1>0, <2>4
  <2> HIDE DEF s
  <2>7. Writes(s)
    BY <2>3, <2>4, <2>5, <2>6 DEF Writes
  <2>8. QED
    BY <2>7, WriterRef
<1>5. QED
  BY <1>1, <1>2, <1>3, <1>4 DEF Write

-----------------------------------------------------------------------------
(* The server. *)

\* A call that leaves rows, notices and cursor alone changes nothing of what
\* is promised; the batch and the record it makes are parts of the queue.
LEMMA CallRef ==
  ASSUME RefInv, UNCHANGED <<corpus, told, late, queue, cursor, overtaken>>,
         \A u \in Tabs : Old(tab'[u].env.rows, corpus),
         \A u \in Tabs : \/ inflight'[u] = inflight[u]
                         \/ inflight'[u].tails = <<>>
                         \/ \E i \in 1..Len(queue) :
                              PartsOf(inflight'[u], i, queue[i].rows)
  PROVE  RefInv' /\ UNCHANGED Promise!vars
<1>1. RefInv'
  BY DEF RefInv, OldInv, TailInv
<1>2. Owed' = Owed
  BY DEF Owed, PastCursor, Pending
<1>3. QED
  BY <1>1, <1>2 DEF Promise!vars

LEMMA SendRef ==
  ASSUME IInv, RefInv, NEW t \in Tabs, NEW e, NEW record, NEW more,
         Send(t, e, record, more), UNCHANGED <<corpus, told, late, queue, cursor, overtaken>>,
         Old(e.rows, corpus),
         \/ record.tails = <<>>
         \/ \E i \in 1..Len(queue) : PartsOf(record, i, queue[i].rows)
  PROVE  RefInv' /\ UNCHANGED Promise!vars
<1> DEFINE next == [tab[t] EXCEPT !.pc = "posted", !.outcome = "none", !.env = e,
                                  !.more = more, !.batches = @ + 1]
           r == IF tab[t].mode = "loop" THEN next ELSE Idle
<1>1. /\ tab \in [Tabs -> TabType]
      /\ inflight \in [Tabs -> RecordType(Len(queue))]
  BY DEF IInv, TypeInv, TabsTyped, StoreTyped
<1>2. tab' = [tab EXCEPT ![t] = r]
  BY Zenon DEF Send, Reply
<1>3. next.env = e /\ Idle.env.rows = {}
  BY <1>1 DEF TabType, Idle, NoEnvelope
<1> HIDE DEF next
<1>4. Old(r.env.rows, corpus)
  BY <1>3 DEF Old
<1> HIDE DEF r
<1>5. \A u \in Tabs : Old(tab'[u].env.rows, corpus)
  BY <1>1, <1>2, <1>4 DEF RefInv, OldInv
<1>6. inflight' = [inflight EXCEPT ![t] = record]
  BY DEF Send
<1>7. \A u \in Tabs : \/ inflight'[u] = inflight[u]
                      \/ inflight'[u].tails = <<>>
                      \/ \E i \in 1..Len(queue) :
                           PartsOf(inflight'[u], i, queue[i].rows)
  BY <1>1, <1>6
<1>8. QED
  BY <1>5, <1>7, CallRef

LEMMA EmitNoticesRef ==
  ASSUME IInv, RefInv, NEW t \in Tabs, EmitNotices(t)
  PROVE  RefInv' /\ UNCHANGED Promise!vars
<1> DEFINE ids == seen[t].ids
           streaming == PastCursor(seen[t].cursor) # {}
<1>1. /\ ids \in SUBSET (1..Len(queue))
      /\ \A i \in ids : queue[i].rows \in Rows /\ Old(queue[i].rows, corpus)
  BY SeenTyped DEF IInv, TypeInv, RefInv, OldInv
<1>2. PICK head \in ids :
        IF queue[head].op = "withdraw"
        THEN Send(t, [op |-> "set", rows |-> UNION {queue[i].rows : i \in ids}],
                  [ids |-> ids, advance |-> 0, tails |-> <<>>],
                  seen[t].more \/ streaming)
        ELSE Send(t, [op |-> "set", rows |-> Part(queue[head].rows, WindowRows, 1)],
                  [ids |-> {head}, advance |-> 0,
                   tails |-> Windows(queue[head].rows, WindowRows, 1)],
                  seen[t].more \/ Windows(queue[head].rows, WindowRows, 1) # <<>> \/ streaming)
  BY DEF EmitNotices
<1>3. UNCHANGED <<corpus, told, late, queue, cursor, overtaken>>
  BY DEF EmitNotices
<1>4. CASE queue[head].op = "withdraw"
  <2> DEFINE e == [op |-> "set", rows |-> UNION {queue[i].rows : i \in ids}]
             record == [ids |-> ids, advance |-> 0, tails |-> <<>>]
             more == seen[t].more \/ streaming
  <2>1. Send(t, e, record, more)
    BY <1>2, <1>4
  <2>2. Old(e.rows, corpus) /\ record.tails = <<>>
    BY <1>1 DEF Old
  <2> HIDE DEF e, record, more
  <2>3. QED
    BY <1>3, <2>1, <2>2, SendRef
<1>5. CASE queue[head].op # "withdraw"
  <2> DEFINE rows == queue[head].rows
             tails == Windows(rows, WindowRows, 1)
             e == [op |-> "set", rows |-> Part(rows, WindowRows, 1)]
             record == [ids |-> {head}, advance |-> 0, tails |-> tails]
             more == seen[t].more \/ tails # <<>> \/ streaming
  <2>1. Send(t, e, record, more)
    BY <1>2, <1>5
  <2>2. Old(e.rows, corpus)
    BY <1>1 DEF Old, Part
  <2>3. \A n \in 1..Len(tails) : tails[n].rows \subseteq rows
    BY <1>1, TailsWithin
  <2>4. record.ids = {head} /\ record.tails = tails
    OBVIOUS
  <2> HIDE DEF e, record, more, tails
  <2>5. PartsOf(record, head, queue[head].rows)
    BY <2>3, <2>4 DEF PartsOf
  <2>6. head \in 1..Len(queue)
    BY <1>1
  <2>7. QED
    BY <1>3, <2>1, <2>2, <2>5, <2>6, SendRef
<1>6. QED
  BY <1>4, <1>5

LEMMA EmitSliceRef ==
  ASSUME IInv, RefInv, NEW t \in Tabs, EmitSlice(t)
  PROVE  RefInv' /\ UNCHANGED Promise!vars
<1> DEFINE past == PastCursor(seen[t].cursor)
           slice == First(past, Page)
           e == [op |-> "insert", rows |-> RowsOf(corpus, slice)]
           more == past # slice
<1>1. PICK last \in slice :
        Send(t, e, [ids |-> {}, advance |-> Floor[last], tails |-> <<>>], more)
  BY DEF EmitSlice
<1>2. UNCHANGED <<corpus, told, late, queue, cursor, overtaken>>
  BY DEF EmitSlice
<1> DEFINE record == [ids |-> {}, advance |-> Floor[last], tails |-> <<>>]
<1>3. Old(e.rows, corpus)
  <2> SUFFICES ASSUME NEW k \in slice PROVE corpus[k] <= corpus[k]
    BY DEF Old, RowsOf
  <2>1. k \in Keys /\ corpus \in [Keys -> Version]
    BY DEF First, PastCursor, IInv, TypeInv, StoreTyped
  <2>2. corpus[k] \in Nat
    BY <2>1 DEF Version
  <2>3. QED
    BY <2>2
<1>4. record.tails = <<>> /\ Send(t, e, record, more)
  BY <1>1
<1> HIDE DEF e, record, more
<1>5. QED
  BY <1>2, <1>3, <1>4, SendRef

\* A call that ends, or claims.
LEMMA QuietRef ==
  ASSUME IInv, RefInv, NEW t \in Tabs, Paused(t) \/ Claim(t) \/ EmitNothing(t)
  PROVE  RefInv' /\ UNCHANGED Promise!vars
<1>1. tab \in [Tabs -> TabType]
  BY DEF IInv, TypeInv, TabsTyped
<1>2. UNCHANGED <<corpus, told, late, queue, cursor, overtaken>>
  BY DEF Paused, Claim, EmitNothing, storeVars
<1>3. ASSUME NEW u \in Tabs PROVE tab'[u].env.rows \subseteq tab[u].env.rows
  <2>1. CASE tab' = [tab EXCEPT ![t] = Idle]
    BY <1>1, <2>1 DEF Idle, NoEnvelope
  <2>2. CASE tab' = [tab EXCEPT ![t].pc = "emit"]
    <3> DEFINE r == [tab[t] EXCEPT !.pc = "emit"]
    <3>1. tab' = [tab EXCEPT ![t] = r]
      BY <2>2, Zenon
    <3>2. r.env = tab[t].env
      BY <1>1 DEF TabType
    <3> HIDE DEF r
    <3>3. QED
      BY <1>1, <3>1, <3>2
  <2>3. QED
    BY <2>1, <2>2 DEF Paused, Claim, EmitNothing, ReplyNothing
<1>4. \A u \in Tabs : Old(tab'[u].env.rows, corpus)
  BY <1>3 DEF RefInv, OldInv, Old
<1>5. \A u \in Tabs : inflight'[u] = inflight[u] \/ inflight'[u].tails = <<>>
  BY DEF Paused, Claim, EmitNothing, storeVars, NoRecord
<1>6. QED
  BY <1>2, <1>4, <1>5, CallRef

LEMMA OwedKeys == ASSUME TypeInv PROVE Owed \subseteq Keys
<1>1. \A i \in Pending : KeysOf(queue[i].rows) \subseteq Keys
  <2> SUFFICES ASSUME NEW i \in Pending PROVE KeysOf(queue[i].rows) \subseteq Keys
    OBVIOUS
  <2>1. queue[i] \in Notice
    BY DEF Pending, TypeInv, StoreTyped
  <2>2. queue[i].rows \in Rows
    BY <2>1 DEF Notice
  <2>3. QED
    BY <2>2 DEF KeysOf, Rows
<1>2. QED
  BY <1>1 DEF Owed, PastCursor

\* An acknowledgement adds the tails of a window in place of the window, so it
\* settles; when another tab had settled the window before, it offers them again.
LEMMA AckRef ==
  ASSUME IInv, NothingLost', RefInv, NEW t \in Tabs, Outcome(t), tab[t].outcome = "ack"
  PROVE  RefInv' /\ (Promise!Offer \/ Promise!Settle)
<1> DEFINE q == Marked(t)
           ids == inflight[t].ids
           tails == inflight[t].tails
           advance == inflight[t].advance
           r == [tab[t] EXCEPT !.pc = "claim", !.outcome = "none"]
<1>1. /\ TypeInv /\ StoreTyped /\ queue \in Seq(Notice)
      /\ tab \in [Tabs -> TabType] /\ cursor \in 0..NumKeys
      /\ inflight \in [Tabs -> RecordType(Len(queue))]
  BY DEF IInv, TypeInv, TabsTyped, StoreTyped
<1>2. CommitOnAck(t) /\ UNCHANGED <<late, told, corpus, frontier, seen, enabled, overtaken>>
  BY DEF Outcome
<1>3. ids = {} \/ advance = 0
  BY DEF IInv, Earned, Live, Apart
<1>4. queue' = q \o tails
  BY <1>1, <1>2, CommitTyped
<1>5. /\ q \in Seq(Notice) /\ Len(q) = Len(queue)
      /\ \A i \in 1..Len(queue) : /\ q[i].rows = queue[i].rows
                                  /\ q[i].acked <=> queue[i].acked \/ i \in ids
  BY <1>1, MarkedTyped
<1>6. /\ tails \in Seq(Notice) /\ advance \in 0..NumKeys
      /\ ids \in SUBSET (1..Len(queue))
  BY <1>1, RecordTyped
<1>7. tails = <<>> \/ \E i \in 1..Len(queue) : PartsOf(inflight[t], i, queue[i].rows)
  BY DEF RefInv, TailInv
<1>8. \A i \in 1..Len(queue) : PartsOf(inflight[t], i, queue[i].rows)
        => ids = {i} /\ \A n \in 1..Len(tails) : tails[n].rows \subseteq queue[i].rows
  BY DEF PartsOf
<1>9. inflight' = [inflight EXCEPT ![t] = NoRecord]
      /\ cursor' = IF cursor < advance THEN advance ELSE cursor
  BY <1>2 DEF CommitOnAck, advance
<1> HIDE DEF q, tails, advance, ids
<1>10. /\ 1..Len(queue) \subseteq 1..Len(queue')
       /\ \A i \in 1..Len(queue) : queue'[i] = q[i]
       /\ \A n \in 1..Len(tails) : queue'[Len(queue) + n] = tails[n]
       /\ Len(queue') = Len(queue) + Len(tails) /\ Len(queue) \in Nat /\ Len(tails) \in Nat
  <2>1. Len(queue) \in Nat /\ Len(tails) \in Nat
    BY <1>1, <1>6
  <2>2. /\ Len(q \o tails) = Len(q) + Len(tails) /\ 1..Len(q) \subseteq 1..Len(q \o tails)
        /\ \A i \in 1..Len(q) : (q \o tails)[i] = q[i]
        /\ \A n \in 1..Len(tails) : (q \o tails)[Len(q) + n] = tails[n]
    BY <1>5, <1>6, QueueGrows
  <2>3. QED
    BY <1>4, <1>5, <2>1, <2>2, Zenon
<1>11. \A i \in 1..Len(queue) : queue'[i].rows = queue[i].rows
  BY <1>5, <1>10
<1>12. ASSUME NEW i \in 1..Len(queue'), i \notin 1..Len(queue)
       PROVE  \E n \in 1..Len(tails) : queue'[i] = tails[n]
  <2>1. i - Len(queue) \in 1..Len(tails) /\ i = Len(queue) + (i - Len(queue))
    BY <1>10, <1>12
  <2>2. queue'[i] = tails[i - Len(queue)]
    BY <1>10, <2>1
  <2>3. QED
    BY <2>1, <2>2
<1>13. \A n \in 1..Len(tails) : \E i \in 1..Len(queue) :
         ids = {i} /\ tails[n].rows \subseteq queue[i].rows
  <2>1. CASE tails = <<>>
    <3>1. Len(tails) = 0
      BY <2>1
    <3>2. QED
      BY <3>1
  <2>2. CASE tails # <<>>
    <3>1. PICK i \in 1..Len(queue) : PartsOf(inflight[t], i, queue[i].rows)
      BY <1>7, <2>2, Zenon
    <3>2. ids = {i} /\ \A n \in 1..Len(tails) : tails[n].rows \subseteq queue[i].rows
      BY <1>8, <3>1, Zenon
    <3>3. QED
      BY <3>2
  <2>3. QED
    BY <2>1, <2>2
<1>14. tab' = [tab EXCEPT ![t] = r]
  BY Zenon DEF Outcome
<1>15. r.env = tab[t].env
  BY <1>1 DEF TabType
<1> HIDE DEF r
<1>16. RefInv'
  <2>1. \A u \in Tabs : tab'[u].env = tab[u].env
    BY <1>1, <1>14, <1>15
  <2>2. ASSUME NEW i \in 1..Len(queue') PROVE Old(queue'[i].rows, corpus)
    <3>1. CASE i \in 1..Len(queue)
      BY <1>11, <3>1 DEF RefInv, OldInv
    <3>2. CASE i \notin 1..Len(queue)
      <4>1. PICK n \in 1..Len(tails) : queue'[i] = tails[n]
        BY <1>12, <3>2
      <4>2. PICK j \in 1..Len(queue) : tails[n].rows \subseteq queue[j].rows
        BY <1>13
      <4>3. QED
        BY <4>1, <4>2 DEF RefInv, OldInv, Old
    <3>3. QED
      BY <3>1, <3>2
  <2>3. OldInv'
    BY <1>2, <2>1, <2>2 DEF RefInv, OldInv
  <2>4. \A u \in Tabs : inflight'[u] = inflight[u] \/ inflight'[u].tails = <<>>
    BY <1>1, <1>9 DEF NoRecord
  <2>5. TailInv'
    BY <1>10, <1>11, <2>4 DEF RefInv, TailInv
  <2>6. QED
    BY <2>3, <2>5 DEF RefInv
<1>17. cursor \in Nat /\ cursor' \in Nat /\ cursor <= cursor'
  BY <1>1, <1>6, <1>9, TransportAssumption
<1>18. \A k \in Keys : k \in Nat
  BY TransportAssumption DEF Keys
<1>19. PastCursor(cursor)' \subseteq PastCursor(cursor)
  BY <1>2, <1>17, <1>18 DEF PastCursor
<1>20. \A i \in 1..Len(queue) : i \in Pending' <=> i \in Pending /\ i \notin ids
  BY <1>5, <1>10 DEF Pending
<1>21. CASE \A i \in ids : i \in Pending \/ tails = <<>>
  <2>1. ASSUME NEW k \in Owed' PROVE k \in Owed
    <3>1. CASE k \in PastCursor(cursor)'
      BY <1>19, <3>1 DEF Owed
    <3>2. CASE k \in UNION {KeysOf(queue'[i].rows) : i \in Pending'}
      <4>1. PICK i \in Pending' : k \in KeysOf(queue'[i].rows)
        BY <3>2
      <4>2. i \in 1..Len(queue')
        BY <4>1 DEF Pending
      <4>3. CASE i \in 1..Len(queue)
        <5>1. i \in Pending /\ k \in KeysOf(queue[i].rows)
          BY <1>11, <1>20, <4>1, <4>3
        <5>2. QED
          BY <5>1 DEF Owed
      <4>4. CASE i \notin 1..Len(queue)
        <5>1. PICK n \in 1..Len(tails) : queue'[i] = tails[n]
          BY <1>12, <4>2, <4>4
        <5>2. PICK j \in 1..Len(queue) : ids = {j} /\ tails[n].rows \subseteq queue[j].rows
          BY <1>13
        <5>3. tails # <<>>
          <6>1. tails = <<>> => Len(tails) = 0
            OBVIOUS
          <6>2. QED
            BY <5>1, <6>1
        <5>4. j \in Pending
          BY <1>21, <5>2, <5>3
        <5>5. k \in KeysOf(queue[j].rows)
          BY <4>1, <5>1, <5>2 DEF KeysOf
        <5>6. QED
          BY <5>4, <5>5 DEF Owed
      <4>5. QED
        BY <4>3, <4>4
    <3>3. QED
      BY <2>1, <3>1, <3>2 DEF Owed
  <2>2. ASSUME NEW k \in Owed \ (Owed' \cup overtaken)
        PROVE  corpus[k] = 0 \/ <<k, corpus[k]>> \in told
    <3>1. k \in Keys
      BY <1>1, OwedKeys
    <3>2. UpToDate(k)'
      BY <1>2, <2>2, <3>1 DEF NothingLost
    <3>3. QED
      BY <1>2, <3>2 DEF UpToDate
  <2>3. Promise!Settle
    BY <1>2, <2>1, <2>2 DEF Promise!Settle
  <2>4. QED
    BY <1>16, <2>3
<1>22. CASE \E i \in ids : i \notin Pending /\ tails # <<>>
  <2>1. PICK i \in ids : i \notin Pending /\ tails # <<>>
    BY <1>22
  <2>2. ids = {i}
    BY <1>7, <1>8, <2>1
  <2>3. cursor' = cursor
    BY <1>3, <1>9, <1>17, <2>2
  <2>4. ASSUME NEW k \in Owed PROVE k \in Owed'
    <3>1. CASE k \in PastCursor(cursor)
      BY <1>2, <2>3, <3>1 DEF Owed, PastCursor
    <3>2. CASE k \in UNION {KeysOf(queue[j].rows) : j \in Pending}
      <4>1. PICK j \in Pending : k \in KeysOf(queue[j].rows)
        BY <3>2
      <4>2. j \in 1..Len(queue) /\ j \notin ids
        BY <2>1, <2>2, <4>1 DEF Pending
      <4>3. j \in Pending' /\ queue'[j].rows = queue[j].rows
        BY <1>11, <1>20, <4>1, <4>2
      <4>4. QED
        BY <4>1, <4>3 DEF Owed
    <3>3. QED
      BY <2>4, <3>1, <3>2 DEF Owed
  <2>5. Promise!Offer
    BY <1>2, <2>4 DEF Promise!Offer
  <2>6. QED
    BY <1>16, <2>5
<1>23. QED
  BY <1>21, <1>22

\* A refusal, or a call that has nothing to report.
LEMMA UnackedRef ==
  ASSUME IInv, RefInv, NEW t \in Tabs, Outcome(t), tab[t].outcome # "ack"
  PROVE  RefInv' /\ UNCHANGED Promise!vars
<1> DEFINE r == [tab[t] EXCEPT !.pc = "claim", !.outcome = "none"]
<1>1. /\ tab \in [Tabs -> TabType] /\ inflight \in [Tabs -> RecordType(Len(queue))]
  BY DEF IInv, TypeInv, TabsTyped, StoreTyped
<1>2. UNCHANGED <<corpus, told, late, queue, cursor, overtaken>>
  BY DEF Outcome, RecordOnFail
<1>3. tab' = [tab EXCEPT ![t] = r]
  BY Zenon DEF Outcome
<1>4. r.env = tab[t].env
  BY <1>1 DEF TabType
<1> HIDE DEF r
<1>5. \A u \in Tabs : Old(tab'[u].env.rows, corpus)
  BY <1>1, <1>3, <1>4 DEF RefInv, OldInv
<1>6. inflight' = [inflight EXCEPT ![t] = NoRecord] \/ inflight' = inflight
  BY DEF Outcome, RecordOnFail
<1>7. \A u \in Tabs : inflight'[u] = inflight[u] \/ inflight'[u].tails = <<>>
  BY <1>1, <1>6 DEF NoRecord
<1>8. QED
  BY <1>2, <1>5, <1>7, CallRef

\* What travels changes only what was told.
LEMMA TransportPromise ==
  ASSUME IInv, RefInv, RefInv', TransportNext, UNCHANGED storeVars
  PROVE  Promise!Tell \/ UNCHANGED Promise!vars
<1>1. UNCHANGED <<corpus, queue, cursor, overtaken>>
  BY DEF storeVars
<1>2. Owed' = Owed
  BY <1>1 DEF Owed, PastCursor, Pending
<1>3. told \subseteq told'
  BY DEF TransportNext, Start, Deliver, Fail, Refuse, Close, CallFails, LateArrives, Receive
<1>4. \A p \in told' : p[2] <= corpus[p[1]]
  BY <1>1 DEF RefInv, OldInv, Old
<1>5. Promise!Tell
  BY <1>1, <1>2, <1>3, <1>4 DEF Promise!Tell
<1>6. QED
  BY <1>5

LEMMA SwitchRef ==
  ASSUME RefInv, Pause \/ Resume \/ UNCHANGED vars
  PROVE  RefInv' /\ UNCHANGED Promise!vars
<1>1. UNCHANGED <<tab, inflight, corpus, told, late, queue, cursor, overtaken>>
  BY DEF Pause, Resume, vars, transportVars, storeVars
<1>2. \A u \in Tabs : Old(tab'[u].env.rows, corpus)
  BY <1>1 DEF RefInv, OldInv
<1>3. QED
  BY <1>1, <1>2, CallRef

LEMMA RefStep ==
  ASSUME IInv, IInv', NothingLost', RefInv, [Next]_vars
  PROVE  RefInv' /\ [Promise!Next]_(Promise!vars)
<1>1. CASE TransportNext /\ UNCHANGED storeVars
  BY <1>1, TransportRef, TransportPromise DEF Promise!Next
<1>2. ASSUME NEW t \in Tabs, Serve(t)
      PROVE  RefInv' /\ [Promise!Next]_(Promise!vars)
  <2>1. CASE Outcome(t)
    BY <2>1, AckRef, UnackedRef DEF Promise!Next
  <2>2. CASE ~Outcome(t)
    BY <1>2, <2>2, QuietRef, EmitNoticesRef, EmitSliceRef DEF Serve
  <2>3. QED
    BY <2>1, <2>2
<1>3. CASE Write
  BY <1>3, WriteRef DEF Promise!Next
<1>4. CASE Pause \/ Resume \/ UNCHANGED vars
  BY <1>4, SwitchRef
<1>5. QED
  BY <1>1, <1>2, <1>3, <1>4 DEF Next

LEMMA PromiseInit == Init => Promise!Init
<1> SUFFICES ASSUME Init PROVE Promise!Init
  OBVIOUS
<1>1. /\ corpus = [k \in Keys |-> 0] /\ queue = <<>> /\ told = {} /\ overtaken = {}
  BY DEF Init, TransportInit
<1>2. corpus \in [Keys -> 0..MaxVersion]
  BY <1>1, TransportAssumption
<1>3. Pending = {}
  BY <1>1 DEF Pending
<1>4. \A k \in Keys : corpus[k] = 0 /\ ~Present(corpus[k])
  BY <1>1 DEF Present
<1>5. PastCursor(cursor) = {}
  BY <1>4 DEF PastCursor
<1>6. Owed = {}
  BY <1>3, <1>5 DEF Owed
<1>7. {k \in Keys : corpus[k] > 0} = {}
  BY <1>4
<1>8. QED
  BY <1>1, <1>2, <1>6, <1>7 DEF Promise!Init

\* The push implements AtLeastOnce: whatever tabs, lost and late batches, faults and
\* writers do, a row stops being owed only when aimer-web has been told of its newest
\* version, and it is told only of versions that were made (state.ts, commitOnAck,
\* baseline-push.ts, and the writers' notices).
THEOREM PushKeepsItsPromise == Spec => AtLeastOnceHolds
<1>1. Init => RefInv /\ Promise!Init
  BY RefInit, PromiseInit
<1>2. IInv /\ IInv' /\ NothingLost' /\ RefInv /\ [Next]_vars
        => RefInv' /\ [Promise!Next]_(Promise!vars)
  BY RefStep
<1>3. QED
  BY <1>1, <1>2, InvHolds, PushLosesNothing, PTL DEF Spec, AtLeastOnceHolds, Promise!Spec
-----------------------------------------------------------------------------
(***************************************************************************)
(* MirrorConverges.  The argument follows what aimer-web holds of a row:    *)
(* the newest pending notice says what the row is; a batch that settles the *)
(* last notices of a row brings what that notice says; and as long as       *)
(* nothing is out of order, one batch at a time carries a row.              *)
(***************************************************************************)

\* The pending notices that speak of row k, and the newest of them.
Speaking(k) == {i \in Pending : k \in KeysOf(queue[i].rows)}
Newest(k, i) == i \in Speaking(k) /\ \A j \in Speaking(k) : j <= i

\* What aimer-web stores for k when it sets these rows.
Says(rows, k) ==
  IF \E v \in Version : <<k, v>> \in rows /\ Present(v)
  THEN CHOOSE v \in Version : <<k, v>> \in rows /\ Present(v)
  ELSE 0

\* Aimer-web has row k as the corpus has it, or does not have it while it is
\* still to be streamed.
Right(k, v) == v = Held(corpus[k]) \/ (v = 0 /\ Present(corpus[k]) /\ k > cursor)

Carries(e, k) == k \in KeysOf(e.rows)
Posted(t) == tab[t].pc = "posted"

\* What aimer-web has of row k now, or once one of the batches has arrived.
Possible(k) == {mirror[k]} \cup {Stored(e)[k] : e \in Outstanding}

\* What it may have once the batch of tab t has.
AfterBatch(t, k) ==
  IF Posted(t) /\ Carries(tab[t].env, k) THEN {Stored(tab[t].env)[k]} ELSE Possible(k)

InTail(t, k) ==
  \E n \in 1..Len(inflight[t].tails) : k \in KeysOf(inflight[t].tails[n].rows)

\* Notices name a row once, and withdrawals name versions that do not exist.
Plain(rows) == \A p, q \in rows : p[1] = q[1] => p = q
GoodNotice(n) ==
  /\ Plain(n.rows)
  /\ n.op = "withdraw" => \A p \in n.rows : ~Present(p[2])

\* Notices are taken oldest first, one window or several withdrawals.
InOrder(ids) ==
  /\ (\A i \in ids : queue[i].op = "withdraw") \/ (\E i \in ids : ids = {i})
  /\ \A i \in ids, j \in Pending : j < i => j \in ids

QueueInv ==
  /\ \A i \in 1..Len(queue) : GoodNotice(queue[i])
  /\ \A t \in Tabs : InOrder(inflight[t].ids) /\ InOrder(seen[t].ids)

\* One batch at a time carries a row.
OneBatch ==
  /\ \A t, u \in Tabs : t # u /\ Posted(t) /\ Posted(u)
       => ~Overlap(tab[t].env.rows, tab[u].env.rows)
  /\ \A t \in Tabs, n \in 1..MaxFaults :
       Posted(t) => ~Overlap(tab[t].env.rows, late[n].rows)
  /\ \A n, m \in 1..MaxFaults : n # m => ~Overlap(late[n].rows, late[m].rows)

Settled(k) ==
  /\ Speaking(k) = {} => \A m \in Possible(k) : Right(k, m)
  /\ \A i \in Speaking(k) : Newest(k, i) => Right(k, Says(queue[i].rows, k))

\* When the notices a batch settles are the last of a row, the batch brings what
\* the newest of them says, unless it is queued again as a tail.
BringsNotices(t) ==
  \A k \in Keys : \A i \in Speaking(k) :
    Newest(k, i) /\ Speaking(k) \subseteq inflight[t].ids /\ ~InTail(t, k)
      => \A m \in AfterBatch(t, k) : m = Says(queue[i].rows, k)

\* The rows a cursor will pass are as the batch, or a newer notice, says.
BringsSlice(t) ==
  \A k \in Keys \ overtaken :
    cursor < k /\ k <= inflight[t].advance /\ Present(corpus[k])
      => /\ Speaking(k) = {} => \A m \in AfterBatch(t, k) : m = Held(corpus[k])
         /\ \A i \in Speaking(k) :
              Newest(k, i) => Says(queue[i].rows, k) = Held(corpus[k])

Brings(t) == Live(t) => BringsNotices(t) /\ BringsSlice(t)

InStep ==
  /\ OneBatch
  /\ \A k \in Keys \ overtaken : Settled(k)
  /\ \A t \in Tabs : Brings(t)

MirrorInv == QueueInv /\ (~crossed => InStep)

-----------------------------------------------------------------------------
(* What a row set says. *)

LEMMA StoredSays ==
  ASSUME NEW e, NEW k \in Keys
  PROVE  Stored(e)[k] = IF ~Carries(e, k) \/ (e.op = "insert" /\ mirror[k] # 0)
                        THEN mirror[k] ELSE Says(e.rows, k)
BY DEF Stored, Carries, Says

LEMMA SaysNothing ==
  ASSUME NEW rows, NEW k, \A p \in rows : p[1] = k => ~Present(p[2])
  PROVE  Says(rows, k) = 0
<1>1. \A v \in Version : <<k, v>> \in rows => ~Present(v)
  OBVIOUS
<1>2. QED
  BY <1>1 DEF Says

LEMMA SaysHeld ==
  ASSUME NEW rows, NEW k, NEW v \in Version, <<k, v>> \in rows, Plain(rows)
  PROVE  Says(rows, k) = Held(v)
<1>1. \A u \in Version : <<k, u>> \in rows => u = v
  <2> SUFFICES ASSUME NEW u \in Version, <<k, u>> \in rows PROVE u = v
    OBVIOUS
  <2>1. <<k, u>> = <<k, v>>
    BY DEF Plain
  <2>2. QED
    BY <2>1
<1>2. CASE Present(v)
  <2>1. \E u \in Version : <<k, u>> \in rows /\ Present(u)
    BY <1>2
  <2>2. (CHOOSE u \in Version : <<k, u>> \in rows /\ Present(u)) = v
    BY <1>1, <2>1
  <2>3. QED
    BY <1>2, <2>1, <2>2 DEF Says, Held
<1>3. CASE ~Present(v)
  <2>1. ~\E u \in Version : <<k, u>> \in rows /\ Present(u)
    BY <1>1, <1>3
  <2>2. QED
    BY <1>3, <2>1 DEF Says, Held
<1>4. QED
  BY <1>2, <1>3

\* Part of a row set says the same of the rows it has.
LEMMA SaysPart ==
  ASSUME NEW rows \in Rows, NEW part, part \subseteq rows, Plain(rows),
         NEW k, k \in KeysOf(part)
  PROVE  Says(part, k) = Says(rows, k)
<1>1. PICK p \in part : p[1] = k
  BY DEF KeysOf
<1>2. p \in rows /\ p[2] \in Version /\ p = <<k, p[2]>>
  BY <1>1 DEF Rows
<1>3. Plain(part)
  BY DEF Plain
<1>4. Says(part, k) = Held(p[2])
  BY <1>1, <1>2, <1>3, SaysHeld
<1>5. Says(rows, k) = Held(p[2])
  BY <1>2, SaysHeld
<1>6. QED
  BY <1>4, <1>5

LEMMA HasNewest ==
  ASSUME queue \in Seq(Notice), NEW k, Speaking(k) # {}
  PROVE  \E i \in Speaking(k) : Newest(k, i)
<1> DEFINE T == {Len(queue) - i : i \in Speaking(k)}
<1>1. Len(queue) \in Nat /\ \A i \in Speaking(k) : i \in 1..Len(queue)
  BY DEF Speaking, Pending
<1>2. T \subseteq Nat /\ T # {}
  BY <1>1
<1> HIDE DEF T
<1>3. PICK x \in T : \A y \in T : ~(<<y, x>> \in OpToRel(<, Nat))
  BY <1>2, WFMin, NatLessThanWellFounded
<1>4. \A y \in T : ~(y < x)
  BY <1>2, <1>3 DEF OpToRel
<1>5. PICK i \in Speaking(k) : x = Len(queue) - i
  BY DEF T
<1>6. ASSUME NEW j \in Speaking(k) PROVE j <= i
  <2>1. ~(Len(queue) - j < Len(queue) - i)
    BY <1>4, <1>5 DEF T
  <2>2. QED
    BY <1>1, <2>1
<1>7. QED
  BY <1>6 DEF Newest

-----------------------------------------------------------------------------
(* Notices stay well-made and are taken in order. *)

\* The queue keeps its notices, and they stay acknowledged.
QueueKept ==
  \A i \in 1..Len(queue) :
    /\ i \in 1..Len(queue')
    /\ queue'[i].rows = queue[i].rows /\ queue'[i].op = queue[i].op
    /\ queue[i].acked => queue'[i].acked

LEMMA InOrderStays ==
  ASSUME QueueKept, Len(queue) \in Nat, NEW ids \in SUBSET (1..Len(queue)), InOrder(ids)
  PROVE  /\ (\A i \in ids : queue'[i].op = "withdraw") \/ (\E i \in ids : ids = {i})
         /\ \A i \in ids, j \in Pending' : j < i => j \in ids
<1>1. ASSUME NEW i \in ids, NEW j \in Pending', j < i PROVE j \in ids
  <2>1. i \in 1..Len(queue) /\ j \in Nat /\ j >= 1
    BY DEF Pending
  <2>2. j \in 1..Len(queue)
    BY <1>1, <2>1
  <2>3. j \in Pending
    BY <2>2 DEF Pending, QueueKept
  <2>4. QED
    BY <1>1, <2>3 DEF InOrder
<1>2. (\A i \in ids : queue'[i].op = "withdraw") \/ (\E i \in ids : ids = {i})
  BY DEF InOrder, QueueKept
<1>3. QED
  BY <1>1, <1>2

LEMMA NoneInOrder == InOrder({})
BY DEF InOrder

\* Every step leaves the queue in order that keeps its notices, adds good ones
\* and takes notices in order.
LEMMA QueueStep ==
  ASSUME QueueInv, QueueKept, Len(queue) \in Nat,
         \A i \in 1..Len(queue') : i \notin 1..Len(queue) => GoodNotice(queue'[i]),
         \A t \in Tabs : /\ inflight'[t].ids \in SUBSET (1..Len(queue))
                         /\ InOrder(inflight'[t].ids)
                         /\ seen'[t].ids \in SUBSET (1..Len(queue))
                         /\ InOrder(seen'[t].ids)
  PROVE  QueueInv'
<1>1. ASSUME NEW i \in 1..Len(queue') PROVE GoodNotice(queue'[i])
  <2>1. CASE i \in 1..Len(queue)
    BY <2>1 DEF QueueInv, QueueKept, GoodNotice
  <2>2. QED
    BY <2>1
<1>2. ASSUME NEW t \in Tabs PROVE InOrder(inflight[t].ids)' /\ InOrder(seen[t].ids)'
  <2>1. InOrder(inflight[t].ids)'
    BY InOrderStays DEF InOrder
  <2>2. InOrder(seen[t].ids)'
    BY InOrderStays DEF InOrder
  <2>3. QED
    BY <2>1, <2>2
<1>3. QED
  BY <1>1, <1>2 DEF QueueInv, GoodNotice

\* The steps that leave the queue alone.
LEMMA QueueStill ==
  ASSUME QueueInv, StoreTyped, queue' = queue,
         \A t \in Tabs : \/ inflight'[t] \in {inflight[t], NoRecord}
                         \/ /\ inflight'[t].ids \in SUBSET (1..Len(queue))
                            /\ InOrder(inflight'[t].ids),
         \A t \in Tabs : \/ seen'[t] \in {seen[t], NothingSeen}
                         \/ /\ seen'[t].ids \in SUBSET (1..Len(queue))
                            /\ InOrder(seen'[t].ids)
  PROVE  QueueInv'
<1>1. QueueKept /\ Len(queue) \in Nat
  BY DEF QueueKept, StoreTyped
<1>2. ASSUME NEW t \in Tabs
      PROVE  /\ inflight'[t].ids \in SUBSET (1..Len(queue))
             /\ InOrder(inflight'[t].ids)
             /\ seen'[t].ids \in SUBSET (1..Len(queue))
             /\ InOrder(seen'[t].ids)
  <2>1. /\ inflight[t].ids \in SUBSET (1..Len(queue)) /\ InOrder(inflight[t].ids)
        /\ seen[t].ids \in SUBSET (1..Len(queue)) /\ InOrder(seen[t].ids)
    BY RecordTyped, SeenTyped DEF QueueInv
  <2>2. NoRecord.ids = {} /\ NothingSeen.ids = {}
    BY DEF NoRecord, NothingSeen
  <2>3. QED
    BY <2>1, <2>2, NoneInOrder
<1>3. QED
  BY <1>1, <1>2, QueueStep

LEMMA ClaimableInOrder ==
  ASSUME StoreTyped PROVE Claimable \in SUBSET (1..Len(queue)) /\ InOrder(Claimable)
<1> DEFINE before(i) == {j \in Pending : j < i}
<1>1. Claimable \subseteq Pending /\ Pending \subseteq 1..Len(queue) /\ Len(queue) \in Nat
  BY DEF Claimable, Pending, StoreTyped
<1>2. ASSUME NEW i \in Claimable, before(i) # {}
      PROVE  /\ \A j \in before(i) \cup {i} : queue[j].op = "withdraw"
             /\ Cardinality(before(i)) < MaxPeek
  BY <1>2 DEF Claimable
<1>3. \A i \in Pending : IsFiniteSet(before(i)) /\ Cardinality(before(i)) \in Nat
  <2> SUFFICES ASSUME NEW i \in Pending
               PROVE  IsFiniteSet(before(i)) /\ Cardinality(before(i)) \in Nat
    OBVIOUS
  <2>1. before(i) \subseteq 1..Len(queue)
    BY <1>1
  <2>1a. IsFiniteSet(1..Len(queue))
    BY <1>1, FS_Interval
  <2>2. IsFiniteSet(before(i))
    BY <2>1, <2>1a, FS_Subset
  <2>3. QED
    BY <2>2, FS_CardinalityType
<1>4. ASSUME NEW i \in Claimable, NEW j \in Pending, j < i PROVE j \in Claimable
  <2>1. j \in before(i) /\ i \in Pending
    BY <1>1, <1>4
  <2>2. before(j) \subseteq before(i)
    <3> SUFFICES ASSUME NEW m \in Pending, m < j PROVE m < i
      OBVIOUS
    <3>1. m \in Nat /\ j \in Nat /\ i \in Nat
      BY <1>1, <2>1
    <3>2. QED
      BY <1>4, <3>1
  <2>3. Cardinality(before(j)) <= Cardinality(before(i))
    BY <1>3, <2>1, <2>2, FS_Subset
  <2>4. Cardinality(before(i)) < MaxPeek
    BY <1>2, <2>1
  <2>4a. Cardinality(before(j)) < MaxPeek
    BY <1>3, <2>1, <2>3, <2>4, PushAssumption
  <2>5. \A m \in before(j) \cup {j} : queue[m].op = "withdraw"
    BY <1>2, <2>1, <2>2
  <2>6. QED
    BY <2>4a, <2>5 DEF Claimable
<1>5. ASSUME NEW i \in Claimable, queue[i].op # "withdraw" PROVE Claimable = {i}
  <2> SUFFICES ASSUME NEW j \in Claimable, j # i PROVE FALSE
    OBVIOUS
  <2>1. i \in Nat /\ j \in Nat /\ i \in Pending /\ j \in Pending
    BY <1>1
  <2>2. CASE j < i
    BY <1>2, <1>5, <2>1, <2>2
  <2>3. CASE i < j
    BY <1>2, <1>5, <2>1, <2>3
  <2>4. QED
    BY <2>1, <2>2, <2>3
<1>6. QED
  BY <1>1, <1>4, <1>5 DEF InOrder

\* The windows made of a row set say what it says, each row in one of them.
LEMMA WindowsSpeak ==
  ASSUME NEW W \in SUBSET Keys, NEW f, \A k \in W : f[k] \in Version, Keys # {},
         NEW s, s = Windows(RowsOf(f, W), QueueRows, 0)
  PROVE  /\ s \in Seq(Notice)
         /\ \A n \in 1..Len(s) :
              ~s[n].acked /\ GoodNotice(s[n])
              /\ \A p \in s[n].rows : p[1] \in W /\ p[2] = f[p[1]]
         /\ \A k \in W : \E n \in 1..Len(s) : k \in KeysOf(s[n].rows)
<1> DEFINE rows == RowsOf(f, W)
<1>1. rows \in Rows /\ \A p \in rows : p[1] \in W /\ p = <<p[1], f[p[1]]>>
  BY RowsOfType DEF RowsOf
<1> HIDE DEF rows
<1>2. s = Windows(rows, QueueRows, 0)
  BY DEF rows
<1>3. s \in Seq(TailType) /\ s \in Seq(Notice)
  BY <1>1, <1>2, WindowsType, WindowNotices, PushAssumption
<1>4. \A n \in 1..Len(s) : s[n].rows \subseteq rows
  BY <1>1, <1>2, WindowsWithin, PushAssumption
<1>5. ASSUME NEW n \in 1..Len(s)
      PROVE  ~s[n].acked /\ GoodNotice(s[n])
             /\ \A p \in s[n].rows : p[1] \in W /\ p[2] = f[p[1]]
  <2>1. s[n] \in TailType
    BY <1>3
  <2>2. \A p \in s[n].rows : p[1] \in W /\ p = <<p[1], f[p[1]]>>
    BY <1>1, <1>4
  <2>3. Plain(s[n].rows)
    <3> SUFFICES ASSUME NEW p \in s[n].rows, NEW q \in s[n].rows, p[1] = q[1] PROVE p = q
      BY DEF Plain
    <3>1. QED
      BY <2>2
  <2>4. ~s[n].acked /\ s[n].op = "window"
    BY <2>1 DEF TailType
  <2>5. \A p \in s[n].rows : p[1] \in W /\ p[2] = f[p[1]]
    BY <2>2
  <2>6. QED
    BY <2>3, <2>4, <2>5 DEF GoodNotice
<1>6. ASSUME NEW k \in W PROVE \E n \in 1..Len(s) : k \in KeysOf(s[n].rows)
  <2>1. <<k, f[k]>> \in rows
    BY DEF rows, RowsOf
  <2>2. PICK n \in 1..Len(s) : <<k, f[k]>> \in s[n].rows
    BY <1>1, <1>2, <2>1, RowsQueued, PushAssumption
  <2>3. QED
    BY <2>2 DEF KeysOf
<1>7. QED
  BY <1>3, <1>5, <1>6

-----------------------------------------------------------------------------
(* The tab and the wire. *)

LEMMA NothingTaken ==
  /\ NoRecord.ids = {} /\ NoRecord.advance = 0 /\ NoRecord.tails = <<>>
  /\ NothingSeen.ids = {}
  /\ \A k \in Keys : k \in Nat /\ ~(k <= 0)
BY TransportAssumption DEF NoRecord, NothingSeen, Keys

\* A step that changes no row and no notice, and after which aimer-web may have
\* nothing it might not have had before.
LEMMA StillInStep ==
  ASSUME InStep, UNCHANGED <<corpus, cursor, queue, overtaken>>, OneBatch',
         \A k \in Keys : Possible(k)' \subseteq Possible(k),
         \A t \in Tabs : Live(t)' =>
           /\ Live(t) /\ inflight'[t] \in {inflight[t], NoRecord}
           /\ \A k \in Keys : AfterBatch(t, k)' \subseteq AfterBatch(t, k)
  PROVE  InStep'
<1>1. \A k : Speaking(k)' = Speaking(k)
  BY DEF Speaking, Pending
<1>2. \A k, i : Newest(k, i)' <=> Newest(k, i)
  BY <1>1 DEF Newest
<1>3. ASSUME NEW k \in Keys \ overtaken' PROVE Settled(k)'
  <2>1. Settled(k) /\ k \in Keys
    BY DEF InStep
  <2>2. QED
    BY <1>1, <1>2, <2>1 DEF Settled, Right
<1>4. ASSUME NEW t \in Tabs, Live(t)' PROVE BringsNotices(t)' /\ BringsSlice(t)'
  <2>1. BringsNotices(t) /\ BringsSlice(t)
    BY <1>4 DEF InStep, Brings
  <2>2. CASE inflight'[t] = inflight[t]
    <3>1. \A k : InTail(t, k)' <=> InTail(t, k)
      BY <2>2 DEF InTail
    <3>2. BringsNotices(t)'
      BY <1>1, <1>2, <1>4, <2>1, <2>2, <3>1 DEF BringsNotices
    <3>3. BringsSlice(t)'
      BY <1>1, <1>2, <1>4, <2>1, <2>2 DEF BringsSlice
    <3>4. QED
      BY <3>2, <3>3
  <2>3. CASE inflight'[t] = NoRecord
    <3>1. BringsNotices(t)'
      BY <2>3, NothingTaken DEF BringsNotices
    <3>2. BringsSlice(t)'
      BY <2>3, NothingTaken DEF BringsSlice
    <3>3. QED
      BY <3>1, <3>2
  <2>4. QED
    BY <1>4, <2>2, <2>3
<1>5. QED
  BY <1>3, <1>4 DEF InStep, Brings

\* No batch arrives and none is made.
LEMMA NothingArrives ==
  ASSUME InStep, UNCHANGED <<mirror, corpus, cursor, queue, overtaken>>, OneBatch',
         Outstanding' \subseteq Outstanding,
         \A t \in Tabs : Live(t)' =>
           /\ Live(t) /\ inflight'[t] \in {inflight[t], NoRecord}
           /\ tab'[t].pc = tab[t].pc /\ tab'[t].env = tab[t].env
  PROVE  InStep'
<1>1. \A e : Stored(e)' = Stored(e)
  BY DEF Stored
<1>2. \A k \in Keys : Possible(k)' \subseteq Possible(k)
  BY <1>1 DEF Possible
<1>3. ASSUME NEW t \in Tabs, Live(t)', NEW k \in Keys
      PROVE  AfterBatch(t, k)' \subseteq AfterBatch(t, k)
  BY <1>1, <1>2, <1>3 DEF AfterBatch, Posted
<1>4. QED
  BY <1>2, <1>3, StillInStep

LEMMA NoOverlap ==
  ASSUME NEW rows, NEW other
  PROVE  /\ ~Overlap(rows, other) <=> \A k : ~(k \in KeysOf(rows) /\ k \in KeysOf(other))
         /\ Overlap(rows, other) <=> Overlap(other, rows)
         /\ ~Overlap(NoEnvelope.rows, other)
BY DEF Overlap, KeysOf, NoEnvelope

\* Tabs post nothing new, and nothing is given up.
LEMMA WireStill ==
  ASSUME OneBatch, late' = late,
         \A u \in Tabs : Posted(u)' => Posted(u) /\ tab'[u].env = tab[u].env
  PROVE  OneBatch' /\ Outstanding' \subseteq Outstanding
<1>1. OneBatch'
  BY DEF OneBatch
<1>2. Outstanding' \subseteq Outstanding
  BY DEF Outstanding, Posted
<1>3. QED
  BY <1>1, <1>2

\* The batch of one tab leaves the tab: it is lost, late or stored.
LEMMA BatchLeaves ==
  ASSUME OneBatch, NEW t \in Tabs, Posted(t), ~Posted(t)',
         \A u \in Tabs \ {t} : tab'[u] = tab[u],
         late \in [1..MaxFaults -> Envelope],
         \/ late' = late
         \/ \E n \in 1..MaxFaults : late' = [late EXCEPT ![n] = tab[t].env]
  PROVE  OneBatch' /\ Outstanding' \subseteq Outstanding
<1>1. \A u \in Tabs : Posted(u)' => u # t /\ Posted(u) /\ tab'[u] = tab[u]
  BY DEF Posted
<1>2. CASE late' = late
  BY <1>1, <1>2, WireStill
<1>3. ASSUME NEW n \in 1..MaxFaults, late' = [late EXCEPT ![n] = tab[t].env]
      PROVE  OneBatch' /\ Outstanding' \subseteq Outstanding
  <2>1. \A m \in 1..MaxFaults : late'[m] = IF m = n THEN tab[t].env ELSE late[m]
    BY <1>3
  <2>2. \A u, v \in Tabs : u # v /\ Posted(u)' /\ Posted(v)'
          => ~Overlap(tab'[u].env.rows, tab'[v].env.rows)
    BY <1>1 DEF OneBatch
  <2>3. \A u \in Tabs, m \in 1..MaxFaults :
          Posted(u)' => ~Overlap(tab'[u].env.rows, late'[m].rows)
    BY <1>1, <2>1 DEF OneBatch
  <2>4. \A l, m \in 1..MaxFaults : l # m => ~Overlap(late'[l].rows, late'[m].rows)
    BY <2>1, NoOverlap DEF OneBatch
  <2>5. Outstanding' \subseteq Outstanding
    BY <1>1, <2>1 DEF Outstanding, Posted
  <2>6. QED
    BY <2>2, <2>3, <2>4, <2>5 DEF OneBatch
<1>4. QED
  BY <1>2, <1>3

\* A batch arrives: nothing else on the wire carries its rows.
LEMMA BatchArrives ==
  ASSUME InStep, UNCHANGED <<corpus, cursor, queue, overtaken, inflight>>, OneBatch',
         NEW e \in Outstanding, mirror' = Stored(e),
         Outstanding' \subseteq Outstanding \cup {NoEnvelope},
         \A f \in Outstanding', k \in Keys : Carries(e, k) => ~Carries(f, k),
         \A t \in Tabs : Live(t)' =>
           /\ Live(t)
           /\ \/ tab'[t].pc = tab[t].pc /\ tab'[t].env = tab[t].env
              \/ Posted(t) /\ tab[t].env = e /\ ~Posted(t)'
  PROVE  InStep'
<1>1. ASSUME NEW f \in Outstanding', NEW k \in Keys
      PROVE  Stored(f)'[k] = IF Carries(e, k) THEN Stored(e)[k] ELSE Stored(f)[k]
  <2>1. Stored(f)'[k] = IF ~Carries(f, k) \/ (f.op = "insert" /\ mirror'[k] # 0)
                        THEN mirror'[k] ELSE Says(f.rows, k)
    BY DEF Stored, Carries, Says
  <2>2. CASE Carries(e, k)
    BY <2>1, <2>2
  <2>3. CASE ~Carries(e, k)
    <3>1. mirror'[k] = mirror[k]
      BY <2>3, StoredSays
    <3>2. QED
      BY <2>1, <2>3, <3>1, StoredSays
  <2>4. QED
    BY <2>2, <2>3
<1>2. ASSUME NEW k \in Keys
      PROVE  /\ Possible(k)' \subseteq Possible(k)
             /\ Carries(e, k) => Possible(k)' \subseteq {Stored(e)[k]}
  <2>1. Stored(e)[k] \in Possible(k)
    BY DEF Possible
  <2>2. \A f \in Outstanding' : f = NoEnvelope => Stored(f)'[k] = mirror'[k]
    BY DEF Stored, NoEnvelope, KeysOf
  <2>3. \A f \in Outstanding' : f # NoEnvelope => Stored(f)[k] \in Possible(k)
    BY DEF Possible
  <2>4. Possible(k)' = {Stored(e)[k]} \cup {Stored(f)'[k] : f \in Outstanding'}
    BY DEF Possible
  <2>5. QED
    BY <1>1, <2>1, <2>2, <2>3, <2>4
<1>3. ASSUME NEW t \in Tabs, Live(t)', NEW k \in Keys
      PROVE  AfterBatch(t, k)' \subseteq AfterBatch(t, k)
  <2>1. CASE tab'[t].pc = tab[t].pc /\ tab'[t].env = tab[t].env
    <3>1. CASE Posted(t) /\ Carries(tab[t].env, k)
      <4>1. Posted(t)' /\ tab'[t].env \in Outstanding'
        BY <2>1, <3>1 DEF Posted, Outstanding
      <4>2. ~Carries(e, k)
        BY <2>1, <3>1, <4>1
      <4>3. mirror'[k] = mirror[k]
        BY <4>2, StoredSays
      <4>4. (Stored(tab[t].env)[k])' = Stored(tab[t].env)[k]
        <5>1. (Stored(tab[t].env)[k])'
              = IF ~Carries(tab[t].env, k) \/ (tab[t].env.op = "insert" /\ mirror'[k] # 0)
                THEN mirror'[k] ELSE Says(tab[t].env.rows, k)
          BY <2>1 DEF Stored, Carries, Says
        <5>2. QED
          BY <4>3, <5>1, StoredSays
      <4>5. AfterBatch(t, k)' = {(Stored(tab[t].env)[k])'}
        BY <2>1, <3>1, <4>1 DEF AfterBatch, Carries, Posted
      <4>6. AfterBatch(t, k) = {Stored(tab[t].env)[k]}
        BY <3>1 DEF AfterBatch
      <4>7. QED
        BY <4>4, <4>5, <4>6
    <3>2. CASE ~(Posted(t) /\ Carries(tab[t].env, k))
      BY <1>2, <2>1, <3>2 DEF AfterBatch, Posted
    <3>3. QED
      BY <3>1, <3>2
  <2>2. CASE Posted(t) /\ tab[t].env = e /\ ~Posted(t)'
    BY <1>2, <2>2 DEF AfterBatch
  <2>3. QED
    BY <1>3, <2>1, <2>2
<1>4. QED
  BY <1>2, <1>3, StillInStep

\* One tab goes on without a batch or an acknowledgement.
LEMMA OneTabIdles ==
  ASSUME InStep, tab \in [Tabs -> TabType], NEW t \in Tabs, NEW r,
         tab' = [tab EXCEPT ![t] = r], ~(r.pc = "posted" \/ r.outcome = "ack"),
         UNCHANGED <<late, mirror, corpus, cursor, queue, overtaken>>,
         \A u \in Tabs \ {t} : inflight'[u] \in {inflight[u], NoRecord}
  PROVE  InStep'
<1>1. ~Live(t)' /\ ~Posted(t)' /\ \A u \in Tabs \ {t} : tab'[u] = tab[u]
  BY DEF Live, Posted
<1>2. OneBatch' /\ Outstanding' \subseteq Outstanding
  BY <1>1, WireStill DEF InStep, Posted
<1>3. \A u \in Tabs : Live(u)' =>
        /\ Live(u) /\ inflight'[u] \in {inflight[u], NoRecord}
        /\ tab'[u].pc = tab[u].pc /\ tab'[u].env = tab[u].env
  BY <1>1 DEF Live
<1>4. QED
  BY <1>2, <1>3, NothingArrives

LEMMA OthersCarryNothing ==
  ASSUME OneBatch, NEW t \in Tabs, Posted(t), NEW k, Carries(tab[t].env, k)
  PROVE  /\ \A u \in Tabs \ {t} : Posted(u) => ~Carries(tab[u].env, k)
         /\ \A n \in 1..MaxFaults : ~Carries(late[n], k)
BY NoOverlap DEF OneBatch, Carries

LEMMA TransportInStep ==
  ASSUME TypeInv, InStep, TransportNext, UNCHANGED storeVars PROVE InStep'
<1>1. /\ tab \in [Tabs -> TabType] /\ late \in [1..MaxFaults -> Envelope]
      /\ faults \in 0..MaxFaults /\ OneBatch
  BY DEF TypeInv, TabsTyped, WireTyped, InStep
<1>2. UNCHANGED <<corpus, cursor, queue, overtaken, inflight>>
  BY DEF storeVars
<1>3. ~(Idle.pc = "posted" \/ Idle.outcome = "ack")
  BY DEF Idle
<1>4. CASE \E t \in Tabs : Start(t)
  <2>1. PICK t \in Tabs : Start(t)
    BY <1>4
  <2> DEFINE r == [tab[t] EXCEPT !.pc = "outcome"]
  <2>2. tab' = [tab EXCEPT ![t] = r] /\ UNCHANGED <<late, mirror>>
    BY <2>1, Zenon DEF Start
  <2>3. tab[t] = Idle
    BY <2>1 DEF TypeInv, TabsTyped, InPlace, Start
  <2>4. r.pc = "outcome" /\ r.outcome = "none"
    BY <2>3 DEF Idle
  <2> HIDE DEF r
  <2>5. QED
    BY <1>1, <1>2, <2>2, <2>4, OneTabIdles
<1>5. ASSUME NEW t \in Tabs, Posted(t), NEW r, tab' = [tab EXCEPT ![t] = r],
             ~(r.pc = "posted" \/ r.outcome = "ack"), mirror' = mirror,
             GiveUp(t), Fault
      PROVE  InStep'
  <2>1. ~Live(t)' /\ ~Posted(t)' /\ \A u \in Tabs \ {t} : tab'[u] = tab[u]
    BY <1>1, <1>5 DEF Live, Posted
  <2>2. faults + 1 \in 1..MaxFaults
    BY <1>5, FaultTyped DEF TypeInv
  <2>3. late' = late \/ \E n \in 1..MaxFaults : late' = [late EXCEPT ![n] = tab[t].env]
    BY <1>5, <2>2 DEF GiveUp
  <2>4. OneBatch' /\ Outstanding' \subseteq Outstanding
    BY <1>1, <1>5, <2>1, <2>3, BatchLeaves
  <2>5. \A u \in Tabs : Live(u)' =>
          /\ Live(u) /\ tab'[u].pc = tab[u].pc /\ tab'[u].env = tab[u].env
    BY <2>1 DEF Live
  <2>6. QED
    BY <1>2, <1>5, <2>4, <2>5, NothingArrives
<1>6. ASSUME NEW t \in Tabs, Posted(t), NEW last, Report(t, "fail", last),
             mirror' = mirror, GiveUp(t), Fault
      PROVE  InStep'
  <2> DEFINE call == [Idle EXCEPT !.pc = "outcome", !.outcome = "fail"]
             final == [call EXCEPT !.mode = "final"]
             going == [call EXCEPT !.batches = tab[t].batches,
                                   !.fails = IF "fail" = "ack" THEN 0
                                             ELSE tab[t].fails + 1]
             r == IF last \/ tab[t].batches = MaxBatches THEN final ELSE going
  <2>1. tab' = [tab EXCEPT ![t] = r]
    BY <1>6, Zenon DEF Report
  <2>2. final.pc = "outcome" /\ final.outcome = "fail"
        /\ going.pc = "outcome" /\ going.outcome = "fail"
    BY DEF Idle
  <2> HIDE DEF final, going
  <2>3. r.pc = "outcome" /\ r.outcome = "fail"
    BY <2>2
  <2> HIDE DEF r
  <2>4. QED
    BY <1>5, <1>6, <2>1, <2>3
<1>7. CASE \E t \in Tabs : Fail(t) \/ Refuse(t)
  BY <1>6, <1>7 DEF Fail, Refuse, Posted
<1>8. CASE \E t \in Tabs : CallFails(t)
  BY <1>1, <1>2, <1>3, <1>8, OneTabIdles DEF CallFails
<1>9. CASE \E t \in Tabs : Close(t)
  <2>1. PICK t \in Tabs : Close(t)
    BY <1>9
  <2>2. CASE Posted(t)
    <3>1. tab' = [tab EXCEPT ![t] = Idle] /\ mirror' = mirror /\ GiveUp(t) /\ Fault
      BY <2>1, <2>2 DEF Close, Posted
    <3>2. QED
      BY <1>3, <1>5, <2>2, <3>1
  <2>3. CASE ~Posted(t)
    <3> DEFINE r == [tab[t] EXCEPT !.mode = "gone", !.batches = 0, !.fails = 0]
    <3>1. tab' = [tab EXCEPT ![t] = IF tab[t].pc = "posted" THEN Idle ELSE r]
      BY <2>1, Zenon DEF Close
    <3>2. UNCHANGED <<late, mirror>>
      BY <2>1, <2>3 DEF Close, GiveUp, Posted
    <3>3. r.pc = tab[t].pc /\ r.outcome = tab[t].outcome /\ r.env = tab[t].env
      BY <1>1 DEF TabType
    <3> HIDE DEF r
    <3>4. \A u \in Tabs : /\ tab'[u].pc = tab[u].pc
                          /\ tab'[u].outcome = tab[u].outcome
                          /\ tab'[u].env = tab[u].env
      BY <1>1, <2>3, <3>1, <3>3 DEF Posted
    <3>5. OneBatch' /\ Outstanding' \subseteq Outstanding
      BY <1>1, <3>2, <3>4, WireStill DEF Posted
    <3>6. QED
      BY <1>2, <3>2, <3>4, <3>5, NothingArrives DEF Live
  <2>4. QED
    BY <2>2, <2>3
<1>10. CASE \E t \in Tabs : Deliver(t)
  <2>1. PICK t \in Tabs : Deliver(t)
    BY <1>10
  <2> DEFINE e == tab[t].env
  <2>2. Posted(t) /\ mirror' = Stored(e) /\ late' = late /\ e \in Outstanding
    BY <2>1 DEF Deliver, Receive, Posted, Outstanding
  <2>3. \A u \in Tabs \ {t} : tab'[u] = tab[u]
    BY <1>1, <2>1 DEF Deliver, Report
  <2>4. tab'[t].pc = "outcome"
    BY <1>1, <2>1 DEF Deliver, Report, Idle
  <2>5. OneBatch' /\ Outstanding' \subseteq Outstanding
    BY <1>1, <2>2, <2>3, <2>4, BatchLeaves DEF Posted
  <2>6. ASSUME NEW f \in Outstanding', NEW k \in Keys, Carries(e, k)
        PROVE  ~Carries(f, k)
    <3>1. (\E n \in 1..MaxFaults : f = late[n])
          \/ (\E u \in Tabs \ {t} : Posted(u) /\ f = tab[u].env)
      BY <2>2, <2>3, <2>4 DEF Outstanding, Posted
    <3>2. QED
      BY <1>1, <2>2, <2>6, <3>1, OthersCarryNothing
  <2>7. \A u \in Tabs : Live(u)' =>
          /\ Live(u)
          /\ \/ tab'[u].pc = tab[u].pc /\ tab'[u].env = tab[u].env
             \/ Posted(u) /\ tab[u].env = e /\ ~Posted(u)'
    BY <2>2, <2>3, <2>4 DEF Live, Posted
  <2> HIDE DEF e
  <2>8. QED
    BY <1>2, <2>2, <2>5, <2>6, <2>7, BatchArrives
<1>11. CASE \E n \in 1..MaxFaults : LateArrives(n)
  <2>1. PICK n \in 1..MaxFaults : LateArrives(n)
    BY <1>11
  <2> DEFINE e == late[n]
  <2>2. mirror' = Stored(e) /\ tab' = tab /\ e \in Outstanding
    BY <2>1 DEF LateArrives, Receive, Outstanding
  <2>3. \A m \in 1..MaxFaults : late'[m] = IF m = n THEN NoEnvelope ELSE late[m]
    BY <1>1, <2>1 DEF LateArrives
  <2>4. OneBatch'
    BY <1>1, <2>2, <2>3, NoOverlap DEF OneBatch, Posted
  <2>5. ASSUME NEW f \in Outstanding', f \notin Outstanding PROVE f = NoEnvelope
    BY <2>2, <2>3, <2>5 DEF Outstanding
  <2>6. \A k : ~Carries(NoEnvelope, k)
    BY DEF Carries, NoEnvelope, KeysOf
  <2>7. ASSUME NEW f \in Outstanding', NEW k \in Keys, Carries(e, k)
        PROVE  ~Carries(f, k)
    <3>1. f = NoEnvelope \/ (\E m \in 1..MaxFaults : m # n /\ f = late[m])
          \/ (\E u \in Tabs : Posted(u) /\ f = tab[u].env)
      BY <2>2, <2>3 DEF Outstanding, Posted
    <3>2. QED
      BY <1>1, <2>6, <2>7, <3>1, NoOverlap DEF OneBatch, Carries
  <2>8. \A u \in Tabs : Live(u)' => Live(u) /\ tab'[u] = tab[u]
    BY <2>2 DEF Live
  <2>9. Outstanding' \subseteq Outstanding \cup {NoEnvelope}
    BY <2>5
  <2> HIDE DEF e
  <2>10. QED
    BY <1>2, <2>2, <2>4, <2>7, <2>8, <2>9, BatchArrives
<1>12. QED
  BY <1>4, <1>7, <1>8, <1>9, <1>10, <1>11 DEF TransportNext

-----------------------------------------------------------------------------
(* The writers. *)

\* What a writer does: its notices speak once of each row, as it is now, and a
\* row it changes silently is one it puts in ahead of every other.
NoticesNow(s) ==
  /\ s \in Seq(Notice) /\ queue' = queue \o s
  /\ UNCHANGED <<tab, late, mirror, cursor, inflight, seen, crossed>>
  /\ overtaken \subseteq overtaken'
  /\ \A n \in 1..Len(s) :
       ~s[n].acked /\ GoodNotice(s[n]) /\ \A p \in s[n].rows : p[2] = corpus'[p[1]]
  /\ \A k \in Keys \ overtaken' :
       \/ corpus'[k] = corpus[k]
       \/ \E n \in 1..Len(s) : k \in KeysOf(s[n].rows)
       \/ corpus[k] = 0 /\ Present(corpus'[k]) /\ \A j \in Keys : j > k => corpus[j] = 0

LEMMA CadenceSpeaks ==
  ASSUME TypeInv, NEW to \in Keys, NEW S \in SUBSET Keys, CadenceInsert(S, to)
  PROVE  NoticesNow(<<>>)
<1>1. queue' = queue \o <<>> /\ <<>> \in Seq(Notice)
  BY NoNotice DEF TypeInv, StoreTyped, CadenceInsert
<1>2. UNCHANGED <<tab, late, mirror, cursor, inflight, seen, crossed>>
      /\ overtaken \subseteq overtaken'
  BY DEF CadenceInsert, transportVars
<1>3. \A k \in Keys : corpus'[k] = IF k \in S THEN 1 ELSE corpus[k]
  BY DEF CadenceInsert
<1>4. ASSUME NEW k \in Keys \ overtaken', k \in S
      PROVE  corpus[k] = 0 /\ \A j \in Keys : j > k => corpus[j] = 0
  BY <1>4 DEF CadenceInsert
<1>5. Present(1) /\ Len(<<>>) = 0
  BY DEF Present
<1>6. \A n \in 1..Len(<<>>) : ~<<>>[n].acked /\ GoodNotice(<<>>[n])
        /\ \A p \in <<>>[n].rows : p[2] = corpus'[p[1]]
  BY <1>5
<1>7. \A k \in Keys \ overtaken' :
        \/ corpus'[k] = corpus[k]
        \/ corpus[k] = 0 /\ Present(corpus'[k]) /\ \A j \in Keys : j > k => corpus[j] = 0
  BY <1>3, <1>4, <1>5
<1>8. QED
  BY <1>1, <1>2, <1>6, <1>7 DEF NoticesNow

\* A withdrawal names each deleted row with the version that does not exist.
Speak(s, S, f) ==
  /\ \A n \in 1..Len(s) :
       ~s[n].acked /\ GoodNotice(s[n]) /\ \A p \in s[n].rows : p[2] = f[p[1]]
  /\ \A k \in S : \E n \in 1..Len(s) : k \in KeysOf(s[n].rows)

LEMMA WithdrawalSpeaks ==
  ASSUME TypeInv, NEW S \in SUBSET Keys, \A k \in S : Present(corpus[k]),
         NEW new, \A k \in S : new[k] = corpus[k] + 1
  PROVE  Speak(Withdrawal(S), S, new)
<1> DEFINE w == Withdrawal(S)
<1> SUFFICES Speak(w, S, new)
  OBVIOUS
<1>1. CASE S = {}
  <2>1. Len(w) = 0
    BY <1>1 DEF Withdrawal
  <2> HIDE DEF w
  <2>2. QED
    BY <1>1, <2>1 DEF Speak
<1>2. CASE S # {}
  <2> DEFINE rows == {<<k, corpus[k] + 1>> : k \in S}
             n1 == [op |-> "withdraw", rows |-> rows, acked |-> FALSE]
  <2>1. w = <<n1>>
    BY <1>2 DEF Withdrawal
  <2>2. \A k \in S : corpus[k] \in Nat /\ ~Present(corpus[k] + 1)
    BY DEF TypeInv, StoreTyped, Version, Present
  <2>3. \A p \in rows : p[1] \in S /\ p = <<p[1], corpus[p[1]] + 1>>
    OBVIOUS
  <2>4. \A p \in rows : ~Present(p[2]) /\ p[2] = new[p[1]]
    BY <2>2, <2>3
  <2>5. Plain(rows)
    <3> SUFFICES ASSUME NEW p \in rows, NEW q \in rows, p[1] = q[1] PROVE p = q
      BY DEF Plain
    <3> HIDE DEF rows
    <3>1. QED
      BY <2>3
  <2>6. \A k \in S : k \in KeysOf(rows)
    <3> SUFFICES ASSUME NEW k \in S PROVE k \in KeysOf(rows)
      OBVIOUS
    <3>1. PICK p \in rows : p = <<k, corpus[k] + 1>>
      OBVIOUS
    <3> HIDE DEF rows
    <3>2. p \in rows /\ p[1] = k
      BY <3>1
    <3>3. QED
      BY <3>2 DEF KeysOf
  <2> HIDE DEF rows
  <2>7. ~n1.acked /\ n1.rows = rows /\ GoodNotice(n1)
    BY <2>4, <2>5 DEF GoodNotice
  <2> HIDE DEF n1, w
  <2>8. Len(w) = 1 /\ w[1] = n1 /\ 1 \in 1..Len(w) /\ \A n \in 1..Len(w) : n = 1
    BY <2>1
  <2>9. QED
    BY <2>4, <2>6, <2>7, <2>8 DEF Speak
<1>3. QED
  BY <1>1, <1>2

\* Two withdrawals in a row.
LEMMA BothSpeak ==
  ASSUME NEW w \in Seq(Notice), NEW v \in Seq(Notice)
  PROVE  /\ w \o v \in Seq(Notice)
         /\ \A n \in 1..Len(w \o v) :
              \/ n \in 1..Len(w) /\ (w \o v)[n] = w[n]
              \/ \E m \in 1..Len(v) : (w \o v)[n] = v[m]
         /\ \A n \in 1..Len(w) : n \in 1..Len(w \o v) /\ (w \o v)[n] = w[n]
         /\ \A m \in 1..Len(v) : Len(w) + m \in 1..Len(w \o v)
                                 /\ (w \o v)[Len(w) + m] = v[m]
<1>1. /\ w \o v \in Seq(Notice) /\ Len(w \o v) = Len(w) + Len(v)
      /\ \A n \in 1..Len(w) : n \in 1..Len(w \o v) /\ (w \o v)[n] = w[n]
      /\ \A m \in 1..Len(v) : Len(w) + m \in 1..Len(w \o v)
                              /\ (w \o v)[Len(w) + m] = v[m]
  BY QueueGrows
<1>2. Len(w) \in Nat /\ Len(v) \in Nat
  OBVIOUS
<1>3. ASSUME NEW n \in 1..Len(w \o v), n \notin 1..Len(w)
      PROVE  \E m \in 1..Len(v) : (w \o v)[n] = v[m]
  <2>1. n - Len(w) \in 1..Len(v) /\ n = Len(w) + (n - Len(w))
    BY <1>1, <1>2, <1>3
  <2>2. (w \o v)[n] = v[n - Len(w)]
    BY <1>1, <2>1
  <2>3. QED
    BY <2>1, <2>2
<1>4. QED
  BY <1>1, <1>3

LEMMA DeleteSpeaks ==
  ASSUME TypeInv, NEW S \in SUBSET Keys, NEW T \in SUBSET Keys, ExclusionDelete(S, T)
  PROVE  \E s : NoticesNow(s)
<1> DEFINE w == Withdrawal(S)
           v == Withdrawal(T)
           s == w \o v
<1>1. StoreTyped /\ queue \in Seq(Notice)
  BY DEF TypeInv, StoreTyped
<1>2. w \in Seq(Notice) /\ v \in Seq(Notice)
  BY <1>1, WithdrawalTyped DEF ExclusionDelete
<1>3. queue' = queue \o s
  BY <1>1, <1>2 DEF ExclusionDelete
<1>4. \A k \in Keys : corpus'[k] = IF k \in S \cup T THEN corpus[k] + 1 ELSE corpus[k]
  BY DEF ExclusionDelete
<1>5. /\ \A k \in S : Present(corpus[k]) /\ corpus'[k] = corpus[k] + 1
      /\ \A k \in T : Present(corpus[k]) /\ corpus'[k] = corpus[k] + 1
  BY <1>4 DEF ExclusionDelete
<1>6. Speak(w, S, corpus') /\ Speak(v, T, corpus')
  <2> DEFINE new == corpus'
  <2>1. /\ \A k \in S : Present(corpus[k]) /\ new[k] = corpus[k] + 1
        /\ \A k \in T : Present(corpus[k]) /\ new[k] = corpus[k] + 1
    BY <1>5
  <2> HIDE DEF new
  <2>2. Speak(w, S, new) /\ Speak(v, T, new)
    BY <2>1, WithdrawalSpeaks
  <2>3. QED
    BY <2>2 DEF new
<1>7. UNCHANGED <<tab, late, mirror, cursor, inflight, seen, crossed, overtaken>>
  BY DEF ExclusionDelete, transportVars
<1> HIDE DEF w, v
<1>8. /\ s \in Seq(Notice)
      /\ \A n \in 1..Len(s) : \/ n \in 1..Len(w) /\ s[n] = w[n]
                              \/ \E m \in 1..Len(v) : s[n] = v[m]
      /\ \A n \in 1..Len(w) : n \in 1..Len(s) /\ s[n] = w[n]
      /\ \A m \in 1..Len(v) : Len(w) + m \in 1..Len(s) /\ s[Len(w) + m] = v[m]
  BY <1>2, BothSpeak
<1> HIDE DEF s
<1>9. ASSUME NEW n \in 1..Len(s)
      PROVE  ~s[n].acked /\ GoodNotice(s[n]) /\ \A p \in s[n].rows : p[2] = corpus'[p[1]]
  <2>1. CASE n \in 1..Len(w) /\ s[n] = w[n]
    BY <1>6, <2>1 DEF Speak
  <2>2. CASE \E m \in 1..Len(v) : s[n] = v[m]
    BY <1>6, <2>2 DEF Speak
  <2>3. QED
    BY <1>8, <2>1, <2>2
<1>10. ASSUME NEW k \in S \cup T PROVE \E n \in 1..Len(s) : k \in KeysOf(s[n].rows)
  <2>1. CASE k \in S
    <3>1. PICK n \in 1..Len(w) : k \in KeysOf(w[n].rows)
      BY <1>6, <2>1 DEF Speak
    <3>2. QED
      BY <1>8, <3>1
  <2>2. CASE k \in T
    <3>1. PICK m \in 1..Len(v) : k \in KeysOf(v[m].rows)
      BY <1>6, <2>2 DEF Speak
    <3>2. QED
      BY <1>8, <3>1
  <2>3. QED
    BY <2>1, <2>2
<1>11. NoticesNow(s)
  BY <1>3, <1>4, <1>7, <1>8, <1>9, <1>10 DEF NoticesNow
<1>12. QED
  BY <1>11

LEMMA WindowSpeaks ==
  ASSUME TypeInv, NEW w \in Spans,
         Backfill(w[1], w[2]) \/ \E S \in SUBSET (w[1]..w[2]) : Rebuild(w[1], w[2], S)
  PROVE  \E s : NoticesNow(s)
<1> DEFINE W == w[1]..w[2]
<1>1. W \in SUBSET Keys /\ Keys # {} /\ \A k \in Keys : corpus[k] \in Version
  BY SpansTyped DEF TypeInv, StoreTyped
<1> HIDE DEF W
<1>2. ASSUME NEW f, \A k \in W : f[k] \in Version,
             queue' = queue \o Windows(RowsOf(f, W), QueueRows, 0),
             \A k \in Keys : corpus'[k] = IF k \in W THEN f[k] ELSE corpus[k],
             UNCHANGED <<tab, late, mirror, cursor, inflight, seen, crossed, overtaken>>
      PROVE  \E s : NoticesNow(s)
  <2> DEFINE s == Windows(RowsOf(f, W), QueueRows, 0)
  <2>1. /\ s \in Seq(Notice)
        /\ \A n \in 1..Len(s) :
             ~s[n].acked /\ GoodNotice(s[n])
             /\ \A p \in s[n].rows : p[1] \in W /\ p[2] = f[p[1]]
        /\ \A k \in W : \E n \in 1..Len(s) : k \in KeysOf(s[n].rows)
    BY <1>1, <1>2, WindowsSpeak, Zenon
  <2> HIDE DEF s
  <2>2. \A n \in 1..Len(s) : \A p \in s[n].rows : p[2] = corpus'[p[1]]
    BY <1>1, <1>2, <2>1
  <2>3. queue' = queue \o s
    BY <1>2 DEF s
  <2>4. NoticesNow(s)
    BY <1>2, <2>1, <2>2, <2>3 DEF NoticesNow
  <2>5. QED
    BY <2>4
<1>3. CASE Backfill(w[1], w[2])
  BY <1>1, <1>2, <1>3 DEF Backfill, transportVars, W
<1>4. ASSUME NEW S \in SUBSET W, Rebuild(w[1], w[2], S) PROVE \E s : NoticesNow(s)
  <2> DEFINE new == Rebuilt(W, S)
  <2>1. \A k \in W : new[k] <= MaxVersion
    BY <1>4 DEF Rebuild, Rebuilt, W
  <2>2. \A k \in W : new[k] \in Version
    BY <1>1, <2>1, RebuiltTyped DEF TypeInv
  <2>3. corpus' = [k \in Keys |-> IF k \in W THEN new[k] ELSE corpus[k]]
        /\ queue' = queue \o Windows(RowsOf(new, W), QueueRows, 0)
    BY <1>4 DEF Rebuild, Rebuilt, W
  <2>4. UNCHANGED <<tab, late, mirror, cursor, inflight, seen, crossed, overtaken>>
    BY <1>4 DEF Rebuild, transportVars
  <2> HIDE DEF new
  <2>5. QED
    BY <1>2, <2>2, <2>3, <2>4
<1>5. QED
  BY <1>3, <1>4 DEF W

LEMMA WriteSpeaks == ASSUME TypeInv, Write PROVE \E s : NoticesNow(s)
BY CadenceSpeaks, DeleteSpeaks, WindowSpeaks DEF Write

LEMMA WriterQueue ==
  ASSUME TypeInv, QueueInv, NEW s, NoticesNow(s) PROVE QueueInv'
<1>1. /\ StoreTyped /\ queue \in Seq(Notice) /\ s \in Seq(Notice)
      /\ queue' = queue \o s /\ inflight' = inflight /\ seen' = seen
  BY DEF TypeInv, StoreTyped, NoticesNow
<1>2. QueueKept /\ Len(queue) \in Nat
  BY <1>1, QueueGrows DEF QueueKept
<1>3. ASSUME NEW i \in 1..Len(queue'), i \notin 1..Len(queue) PROVE GoodNotice(queue'[i])
  <2>1. PICK m \in 1..Len(s) : queue'[i] = s[m]
    BY <1>1, <1>3, BothSpeak
  <2>2. QED
    BY <2>1 DEF NoticesNow
<1>4. \A t \in Tabs : inflight[t].ids \in SUBSET (1..Len(queue))
                      /\ seen[t].ids \in SUBSET (1..Len(queue))
  BY <1>1, RecordTyped, SeenTyped
<1>5. QED
  BY <1>1, <1>2, <1>3, <1>4, QueueStep DEF QueueInv

\* The writers keep aimer-web in step: a notice of a row is now the newest and
\* says what the row is, and a row put in ahead of every other is past the cursor.
LEMMA WriterInStep ==
  ASSUME TypeInv, TypeInv', Ahead, InStep, NEW s, NoticesNow(s) PROVE InStep'
<1> DEFINE Named(k) == \E m \in 1..Len(s) : k \in KeysOf(s[m].rows)
<1>1. /\ StoreTyped /\ queue \in Seq(Notice) /\ s \in Seq(Notice) /\ queue' = queue \o s
      /\ corpus \in [Keys -> Version] /\ corpus' \in [Keys -> Version]
      /\ cursor \in 0..NumKeys /\ Len(queue) \in Nat
  BY DEF TypeInv, StoreTyped, NoticesNow
<1>2. UNCHANGED <<tab, late, mirror, cursor, inflight>> /\ overtaken \subseteq overtaken'
  BY DEF NoticesNow
<1>3. /\ 1..Len(queue) \subseteq 1..Len(queue')
      /\ \A i \in 1..Len(queue) : queue'[i] = queue[i]
      /\ \A m \in 1..Len(s) : /\ Len(queue) + m \in 1..Len(queue')
                              /\ Len(queue) + m \notin 1..Len(queue)
                              /\ queue'[Len(queue) + m] = s[m]
  <2>1. \A m \in 1..Len(s) : Len(queue) + m \notin 1..Len(queue)
    BY <1>1
  <2>2. QED
    BY <1>1, <2>1, QueueGrows
<1>4. ASSUME NEW i \in 1..Len(queue'), i \notin 1..Len(queue)
      PROVE  \E m \in 1..Len(s) : queue'[i] = s[m]
  BY <1>1, <1>4, BothSpeak
<1>5. \A m \in 1..Len(s) : ~s[m].acked /\ s[m].rows \in Rows /\ Plain(s[m].rows)
                           /\ \A p \in s[m].rows : p[2] = corpus'[p[1]]
  <2>1. \A m \in 1..Len(s) : s[m] \in Notice
    BY <1>1
  <2>2. QED
    BY <2>1 DEF NoticesNow, GoodNotice, Notice
<1>6. ASSUME NEW k, ~Named(k)
      PROVE  /\ Speaking(k)' = Speaking(k)
             /\ \A i \in Speaking(k) : queue'[i] = queue[i]
             /\ \A i : Newest(k, i)' <=> Newest(k, i)
  <2>1. \A i \in Speaking(k) : i \in 1..Len(queue)
    BY DEF Speaking, Pending
  <2>2. \A i \in Speaking(k)' : i \in 1..Len(queue)
    BY <1>4, <1>6 DEF Speaking, Pending
  <2>3. Speaking(k)' = Speaking(k)
    BY <1>3, <2>1, <2>2 DEF Speaking, Pending
  <2>4. QED
    BY <1>3, <2>1, <2>3 DEF Newest
<1>7. ASSUME NEW k \in Keys, Named(k)
      PROVE  /\ \E i \in Speaking(k)' : i \notin 1..Len(queue)
             /\ \A i \in Speaking(k)' :
                  Newest(k, i)' => Says(queue'[i].rows, k) = Held(corpus'[k])
  <2>1. PICK m \in 1..Len(s) : k \in KeysOf(s[m].rows)
    BY <1>7
  <2>2. Len(queue) + m \in Speaking(k)'
    BY <1>3, <1>5, <2>1 DEF Speaking, Pending
  <2>3. ASSUME NEW i \in Speaking(k)', Newest(k, i)'
        PROVE  Says(queue'[i].rows, k) = Held(corpus'[k])
    <3>1. Len(queue) + m <= i /\ i \in 1..Len(queue')
      BY <2>2, <2>3 DEF Newest, Speaking, Pending
    <3>2. i \notin 1..Len(queue)
      BY <1>1, <2>1, <3>1
    <3>3. PICK n \in 1..Len(s) : queue'[i] = s[n]
      BY <1>4, <3>1, <3>2
    <3>4. PICK p \in s[n].rows : p[1] = k
      BY <2>3, <3>3 DEF Speaking, KeysOf
    <3>5. p = <<k, corpus'[k]>> /\ corpus'[k] \in Version
      BY <1>1, <1>5, <3>4 DEF Rows
    <3>6. Says(s[n].rows, k) = Held(corpus'[k])
      BY <1>5, <3>4, <3>5, SaysHeld
    <3>7. QED
      BY <3>3, <3>6
  <2>4. QED
    BY <1>3, <2>1, <2>2, <2>3
<1> HIDE DEF Named
<1>8. ASSUME NEW k \in Keys \ overtaken', ~Named(k)
      PROVE  \/ corpus'[k] = corpus[k]
             \/ /\ corpus[k] = 0 /\ Present(corpus'[k]) /\ k > cursor
                /\ \A t \in Tabs : ~(k <= inflight[t].advance)
  <2>1. CASE corpus[k] = 0 /\ Present(corpus'[k]) /\ \A j \in Keys : j > k => corpus[j] = 0
    <3>1. k \in Nat
      BY TransportAssumption DEF Keys
    <3>2. k > cursor
      BY <1>1, <2>1, <3>1, AheadOfReached DEF Ahead
    <3>3. ASSUME NEW t \in Tabs PROVE ~(k <= inflight[t].advance)
      <4>1. inflight[t].advance \in 0..NumKeys /\ Reached(inflight[t].advance)
        BY <1>1, RecordTyped DEF Ahead
      <4>2. inflight[t].advance < k
        BY <2>1, <4>1, AheadOfReached
      <4>3. QED
        BY <3>1, <4>1, <4>2
    <3>4. QED
      BY <2>1, <3>2, <3>3
  <2>2. QED
    BY <1>8, <2>1 DEF NoticesNow, Named
<1>9. OneBatch'
  BY <1>2 DEF InStep, OneBatch, Posted
<1>10. /\ \A k : Possible(k)' = Possible(k)
       /\ \A t, k : AfterBatch(t, k)' = AfterBatch(t, k) /\ (InTail(t, k)' <=> InTail(t, k))
       /\ \A t : Live(t)' <=> Live(t)
  BY <1>2 DEF Possible, AfterBatch, Posted, Stored, Outstanding, InTail, Live
<1>11. ASSUME NEW k \in Keys \ overtaken' PROVE Settled(k)'
  <2> DEFINE now(v) == v = Held(corpus'[k]) \/ (v = 0 /\ Present(corpus'[k]) /\ k > cursor')
  <2>1. /\ Speaking(k)' = {} => \A m \in Possible(k) : now(m)
        /\ \A i \in Speaking(k)' : Newest(k, i)' => now(Says(queue'[i].rows, k))
    <3>1. CASE Named(k)
      BY <1>7, <3>1
    <3>2. CASE ~Named(k)
      <4>1. Settled(k) /\ k \in Keys \ overtaken /\ Held(0) = 0
        BY <1>2 DEF InStep, Held
      <4>2. \A v : Right(k, v) => now(v)
        BY <1>2, <1>8, <3>2, <4>1 DEF Right
      <4> HIDE DEF now
      <4>3. Speaking(k)' = {} => \A m \in Possible(k) : now(m)
        BY <1>6, <3>2, <4>1, <4>2 DEF Settled
      <4>4. ASSUME NEW i \in Speaking(k)', Newest(k, i)' PROVE now(Says(queue'[i].rows, k))
        <5>1. i \in Speaking(k) /\ Newest(k, i) /\ queue'[i] = queue[i]
          BY <1>6, <3>2, <4>4
        <5>2. now(Says(queue[i].rows, k))
          BY <4>1, <4>2, <5>1 DEF Settled
        <5>3. QED
          BY <5>1, <5>2
      <4>5. QED
        BY <4>3, <4>4
    <3>3. QED
      BY <3>1, <3>2
  <2>2. Possible(k)' = Possible(k)
    BY <1>10
  <2>3. QED
    BY <2>1, <2>2 DEF Settled, Right
<1>12. ASSUME NEW t \in Tabs, Live(t)' PROVE BringsNotices(t)' /\ BringsSlice(t)'
  <2>1. BringsNotices(t) /\ BringsSlice(t) /\ inflight[t].ids \in SUBSET (1..Len(queue))
    BY <1>1, <1>10, <1>12, RecordTyped DEF InStep, Brings
  <2>2. ASSUME NEW k \in Keys, NEW i \in Speaking(k)', Newest(k, i)',
               Speaking(k)' \subseteq inflight'[t].ids, ~InTail(t, k)',
               NEW m \in AfterBatch(t, k)'
        PROVE  m = Says(queue'[i].rows, k)
    <3>1. ~Named(k)
      BY <1>2, <1>7, <2>1, <2>2
    <3>2. i \in Speaking(k) /\ Newest(k, i) /\ Speaking(k) \subseteq inflight[t].ids
          /\ queue'[i] = queue[i]
      BY <1>2, <1>6, <2>2, <3>1
    <3>3. ~InTail(t, k) /\ m \in AfterBatch(t, k)
      BY <1>10, <2>2
    <3>4. QED
      BY <2>1, <3>2, <3>3 DEF BringsNotices
  <2>3. BringsNotices(t)'
    BY <2>2 DEF BringsNotices
  <2>4. ASSUME NEW k \in Keys \ overtaken', cursor' < k, k <= inflight'[t].advance,
               Present(corpus'[k])
        PROVE  /\ Speaking(k)' = {} => \A m \in AfterBatch(t, k)' : m = Held(corpus'[k])
               /\ \A i \in Speaking(k)' :
                    Newest(k, i)' => Says(queue'[i].rows, k) = Held(corpus'[k])
    <3>1. CASE Named(k)
      BY <1>7, <2>4, <3>1
    <3>2. CASE ~Named(k)
      <4>1. corpus'[k] = corpus[k] /\ cursor < k /\ k <= inflight[t].advance
            /\ Present(corpus[k]) /\ k \in Keys \ overtaken
        BY <1>2, <1>8, <2>4, <3>2
      <4>2. /\ Speaking(k) = {} => \A m \in AfterBatch(t, k) : m = Held(corpus[k])
            /\ \A i \in Speaking(k) :
                 Newest(k, i) => Says(queue[i].rows, k) = Held(corpus[k])
        BY <2>1, <4>1 DEF BringsSlice
      <4>3. \A i \in Speaking(k)' : i \in Speaking(k) /\ queue'[i] = queue[i]
                                    /\ (Newest(k, i)' <=> Newest(k, i))
        BY <1>6, <3>2
      <4>4. Speaking(k)' = Speaking(k) /\ AfterBatch(t, k)' = AfterBatch(t, k)
        BY <1>6, <1>10, <3>2
      <4>5. QED
        BY <4>1, <4>2, <4>3, <4>4
    <3>3. QED
      BY <3>1, <3>2
  <2>5. BringsSlice(t)'
    BY <2>4 DEF BringsSlice
  <2>6. QED
    BY <2>3, <2>5
<1>13. QED
  BY <1>9, <1>11, <1>12 DEF InStep, Brings

-----------------------------------------------------------------------------
(* A call makes a batch. *)

TailOf(record, k) == \E n \in 1..Len(record.tails) : k \in KeysOf(record.tails[n].rows)

\* The batch brings the rows its record settles, each as the corpus has it or as
\* its notices say; so do other records that settle the same notices.
Answers(e, record) ==
  /\ InOrder(record.ids)
  /\ \A k \in Keys : Speaking(k) # {} /\ Speaking(k) \subseteq record.ids
       => Carries(e, k) \/ TailOf(record, k)
  /\ \A k \in Keys : cursor < k /\ k <= record.advance /\ Present(corpus[k])
       => Carries(e, k) /\ Speaking(k) = {}
  /\ \A k \in Keys \ overtaken :
       Carries(e, k) /\ Speaking(k) = {} => Stored(e)[k] = Held(corpus[k])
  /\ \A k \in Keys, J \in SUBSET (1..Len(queue)) : \A i \in Speaking(k) :
       Carries(e, k) /\ InOrder(J) /\ Newest(k, i) /\ Speaking(k) \subseteq J
         => Stored(e)[k] = Says(queue[i].rows, k)

LEMMA AnsweredInStep ==
  ASSUME TypeInv, QueueInv, InStep, NEW t \in Tabs, tab[t].pc = "emit",
         NEW e \in Envelope, NEW record \in RecordType(Len(queue)), Answers(e, record),
         \A f \in Outstanding : ~Overlap(e.rows, f.rows),
         \A u \in Tabs : tab'[u] = IF u = t THEN tab'[t] ELSE tab[u],
         tab'[t].pc = "posted", tab'[t].env = e,
         \A u \in Tabs : inflight'[u] = IF u = t THEN record ELSE inflight[u],
         UNCHANGED <<late, mirror, corpus, cursor, queue, overtaken>>
  PROVE  InStep'
<1>1. \A u \in Tabs \ {t} : /\ Posted(u)' <=> Posted(u)
                            /\ Live(u)' <=> Live(u)
                            /\ tab'[u].env = tab[u].env
  BY DEF Posted, Live
<1>2. ~Posted(t) /\ Posted(t)' /\ StoreTyped
  BY DEF Posted, TypeInv
<1>3. \A f : Stored(f)' = Stored(f)
  BY DEF Stored
<1>4. /\ \A k : Speaking(k)' = Speaking(k)
      /\ \A k, i : Newest(k, i)' <=> Newest(k, i)
  BY DEF Speaking, Pending, Newest
<1>5. Outstanding' = Outstanding \cup {e}
  BY <1>1, <1>2 DEF Outstanding, Posted
<1>6. ASSUME NEW k \in Keys
      PROVE  /\ Possible(k)' = Possible(k) \cup {Stored(e)[k]}
             /\ ~Carries(e, k) => Stored(e)[k] \in Possible(k)
  <2>1. Possible(k)' = Possible(k) \cup {Stored(e)[k]}
    BY <1>3, <1>5 DEF Possible
  <2>2. ~Carries(e, k) => Stored(e)[k] = mirror[k]
    BY StoredSays
  <2>3. QED
    BY <2>1, <2>2 DEF Possible
<1>7. OneBatch'
  <2>1. ASSUME NEW u \in Tabs, NEW v \in Tabs, u # v, Posted(u)', Posted(v)'
        PROVE  ~Overlap(tab'[u].env.rows, tab'[v].env.rows)
    <3>1. \A w \in Tabs \ {t} : Posted(w)' => tab'[w].env \in Outstanding
      BY <1>1 DEF Outstanding, Posted
    <3>2. CASE u # t /\ v # t
      BY <1>1, <2>1, <3>2 DEF InStep, OneBatch
    <3>3. CASE u = t
      BY <2>1, <3>1, <3>3
    <3>4. CASE v = t
      BY <2>1, <3>1, <3>4, NoOverlap
    <3>5. QED
      BY <3>2, <3>3, <3>4
  <2>2. ASSUME NEW u \in Tabs, NEW n \in 1..MaxFaults, Posted(u)'
        PROVE  ~Overlap(tab'[u].env.rows, late[n].rows)
    <3>1. late[n] \in Outstanding
      BY DEF Outstanding
    <3>2. QED
      BY <1>1, <2>2, <3>1 DEF InStep, OneBatch
  <2>3. QED
    BY <2>1, <2>2 DEF InStep, OneBatch
<1>8. ASSUME NEW k \in Keys \ overtaken' PROVE Settled(k)'
  <2>1. Settled(k)
    BY DEF InStep
  <2>2. ASSUME Speaking(k) = {}, NEW m \in Possible(k)' PROVE Right(k, m)
    BY <1>6, <2>1, <2>2 DEF Settled, Answers, Right
  <2>3. QED
    BY <1>4, <2>1, <2>2 DEF Settled, Right
<1>9. ASSUME NEW u \in Tabs \ {t}, Live(u)', NEW k \in Keys
      PROVE  \/ AfterBatch(u, k)' = AfterBatch(u, k)
             \/ Carries(e, k) /\ AfterBatch(u, k)' = AfterBatch(u, k) \cup {Stored(e)[k]}
  <2>1. CASE Posted(u) /\ Carries(tab[u].env, k)
    BY <1>1, <1>3, <2>1 DEF AfterBatch
  <2>2. CASE ~(Posted(u) /\ Carries(tab[u].env, k))
    <3>1. AfterBatch(u, k)' = Possible(k)' /\ AfterBatch(u, k) = Possible(k)
      BY <1>1, <2>2 DEF AfterBatch
    <3>2. QED
      BY <1>6, <3>1
  <2>3. QED
    BY <2>1, <2>2
<1>10. ASSUME NEW u \in Tabs \ {t}, Live(u)' PROVE BringsNotices(u)' /\ BringsSlice(u)'
  <2>1. BringsNotices(u) /\ BringsSlice(u) /\ inflight'[u] = inflight[u]
    BY <1>1, <1>10 DEF InStep, Brings
  <2>2. InOrder(inflight[u].ids) /\ inflight[u].ids \in SUBSET (1..Len(queue))
    BY <1>2, RecordTyped DEF QueueInv
  <2>3. \A k : InTail(u, k)' <=> InTail(u, k)
    BY <2>1 DEF InTail
  <2>4. ASSUME NEW k \in Keys, NEW i \in Speaking(k), Newest(k, i),
               Speaking(k) \subseteq inflight[u].ids, ~InTail(u, k),
               NEW m \in AfterBatch(u, k)'
        PROVE  m = Says(queue[i].rows, k)
    <3>1. CASE m \in AfterBatch(u, k)
      BY <2>1, <2>4, <3>1 DEF BringsNotices
    <3>2. CASE Carries(e, k) /\ m = Stored(e)[k]
      BY <2>2, <2>4, <3>2 DEF Answers
    <3>3. QED
      BY <1>9, <1>10, <2>4, <3>1, <3>2
  <2>5. BringsNotices(u)'
    BY <1>4, <2>1, <2>3, <2>4 DEF BringsNotices
  <2>6. ASSUME NEW k \in Keys \ overtaken, cursor < k, k <= inflight[u].advance,
               Present(corpus[k])
        PROVE  /\ Speaking(k) = {} => \A m \in AfterBatch(u, k)' : m = Held(corpus[k])
               /\ \A i \in Speaking(k) :
                    Newest(k, i) => Says(queue[i].rows, k) = Held(corpus[k])
    <3>1. /\ Speaking(k) = {} => \A m \in AfterBatch(u, k) : m = Held(corpus[k])
          /\ \A i \in Speaking(k) :
               Newest(k, i) => Says(queue[i].rows, k) = Held(corpus[k])
      BY <2>1, <2>6 DEF BringsSlice
    <3>2. ASSUME Speaking(k) = {}, NEW m \in AfterBatch(u, k)' PROVE m = Held(corpus[k])
      <4>1. CASE m \in AfterBatch(u, k)
        BY <3>1, <3>2, <4>1
      <4>2. CASE Carries(e, k) /\ m = Stored(e)[k]
        BY <3>2, <4>2 DEF Answers
      <4>3. QED
        BY <1>9, <1>10, <3>2, <4>1, <4>2
    <3>3. QED
      BY <3>1, <3>2
  <2>7. BringsSlice(u)'
    BY <1>4, <2>1, <2>6 DEF BringsSlice
  <2>8. QED
    BY <2>5, <2>7
<1>11. ASSUME NEW k \in Keys, Carries(e, k) PROVE AfterBatch(t, k)' = {Stored(e)[k]}
  BY <1>2, <1>3, <1>11 DEF AfterBatch, Carries
<1>12. BringsNotices(t)'
  <2>1. \A k : InTail(t, k)' <=> TailOf(record, k)
    BY DEF InTail, TailOf
  <2>2. ASSUME NEW k \in Keys, NEW i \in Speaking(k), Newest(k, i),
               Speaking(k) \subseteq record.ids, ~TailOf(record, k)
        PROVE  \A m \in AfterBatch(t, k)' : m = Says(queue[i].rows, k)
    <3>1. Carries(e, k)
      BY <2>2 DEF Answers
    <3>2. record.ids \in SUBSET (1..Len(queue))
      BY DEF RecordType
    <3>3. Stored(e)[k] = Says(queue[i].rows, k)
      BY <2>2, <3>1, <3>2 DEF Answers
    <3>4. QED
      BY <1>11, <3>1, <3>3
  <2>3. inflight'[t] = record
    OBVIOUS
  <2>4. QED
    BY <1>4, <2>1, <2>2, <2>3 DEF BringsNotices
<1>13. BringsSlice(t)'
  <2>1. ASSUME NEW k \in Keys \ overtaken, cursor < k, k <= record.advance,
               Present(corpus[k])
        PROVE  Speaking(k) = {} /\ \A m \in AfterBatch(t, k)' : m = Held(corpus[k])
    BY <1>11, <2>1 DEF Answers
  <2>2. inflight'[t] = record
    OBVIOUS
  <2>3. QED
    BY <1>4, <2>1, <2>2 DEF BringsSlice
<1>14. QED
  BY <1>7, <1>8, <1>10, <1>12, <1>13 DEF InStep, Brings

\* A call makes a batch: one that goes on the wire in order, or one that is not posted.
LEMMA SendInStep ==
  ASSUME TypeInv, QueueInv, InStep, NEW t \in Tabs, tab[t].pc = "emit",
         NEW e \in Envelope, NEW record \in RecordType(Len(queue)), NEW more,
         Send(t, e, record, more), ~crossed',
         ~OutOfOrder(record.ids, e.rows) => Answers(e, record),
         UNCHANGED <<late, mirror, corpus, cursor, queue, overtaken>>
  PROVE  InStep'
<1>1. tab \in [Tabs -> TabType] /\ inflight \in [Tabs -> RecordType(Len(queue))]
  BY DEF TypeInv, TabsTyped, StoreTyped
<1>2. \A u \in Tabs : inflight'[u] = IF u = t THEN record ELSE inflight[u]
  BY <1>1 DEF Send
<1> DEFINE posted == [tab[t] EXCEPT !.pc = "posted", !.outcome = "none", !.env = e,
                                    !.more = more, !.batches = @ + 1]
<1>3. tab' = [tab EXCEPT ![t] = IF tab[t].mode = "loop" THEN posted ELSE Idle]
  BY Zenon DEF Send, Reply
<1>4. posted.pc = "posted" /\ posted.env = e /\ ~(Idle.pc = "posted" \/ Idle.outcome = "ack")
  BY <1>1 DEF TabType, Idle
<1> HIDE DEF posted
<1>5. CASE tab[t].mode = "loop"
  <2>1. ~OutOfOrder(record.ids, e.rows)
    BY <1>5 DEF Send
  <2>2. Answers(e, record) /\ \A f \in Outstanding : ~Overlap(e.rows, f.rows)
    BY <2>1 DEF OutOfOrder
  <2>3. tab'[t] = posted /\ \A u \in Tabs : tab'[u] = IF u = t THEN tab'[t] ELSE tab[u]
    BY <1>1, <1>3, <1>5
  <2>4. QED
    BY <1>2, <1>4, <2>2, <2>3, AnsweredInStep
<1>6. CASE tab[t].mode # "loop"
  <2>1. tab' = [tab EXCEPT ![t] = Idle]
    BY <1>3, <1>6
  <2>2. QED
    BY <1>1, <1>2, <1>4, <2>1, OneTabIdles
<1>7. QED
  BY <1>5, <1>6

LEMMA SmallestInOrder ==
  ASSUME NEW ids \in SUBSET (1..Len(queue)), InOrder(ids), NEW head \in ids
  PROVE  queue[head].op # "withdraw" => ids = {head}
BY DEF InOrder

\* Withdrawals together say of each of their rows that it does not exist.
LEMMA WithdrawalsAnswer ==
  ASSUME TypeInv, QueueInv, NEW ids \in SUBSET (1..Len(queue)), InOrder(ids),
         \A i \in ids : queue[i].op = "withdraw", ids \subseteq Pending,
         NEW e, e = [op |-> "set", rows |-> UNION {queue[i].rows : i \in ids}],
         NEW record, record = [ids |-> ids, advance |-> 0, tails |-> <<>>]
  PROVE  Answers(e, record)
<1>1. record.ids = ids /\ record.advance = 0 /\ e.op = "set"
      /\ e.rows = UNION {queue[i].rows : i \in ids}
  OBVIOUS
<1>2. \A k \in Keys : k \in Nat /\ ~(k <= 0)
  BY NothingTaken
<1>3. \A k : Carries(e, k) <=> \E i \in ids : k \in KeysOf(queue[i].rows)
  <2> SUFFICES ASSUME NEW k
               PROVE  Carries(e, k) <=> \E i \in ids : k \in KeysOf(queue[i].rows)
    OBVIOUS
  <2>1. ASSUME NEW i \in ids, k \in KeysOf(queue[i].rows) PROVE Carries(e, k)
    <3>1. PICK p \in queue[i].rows : p[1] = k
      BY <2>1 DEF KeysOf
    <3>2. p \in e.rows
      BY <1>1
    <3>3. QED
      BY <3>1, <3>2 DEF Carries, KeysOf
  <2>2. ASSUME Carries(e, k) PROVE \E i \in ids : k \in KeysOf(queue[i].rows)
    <3>1. PICK p \in e.rows : p[1] = k
      BY <2>2 DEF Carries, KeysOf
    <3>2. PICK i \in ids : p \in queue[i].rows
      BY <1>1
    <3>3. QED
      BY <3>1, <3>2 DEF KeysOf
  <2>3. QED
    BY <2>1, <2>2
<1>4. ASSUME NEW i \in 1..Len(queue), queue[i].op = "withdraw", NEW k
      PROVE  Says(queue[i].rows, k) = 0
  <2>1. \A p \in queue[i].rows : ~Present(p[2])
    BY <1>4 DEF QueueInv, GoodNotice
  <2>2. QED
    BY <2>1, SaysNothing
<1>5. ASSUME NEW k \in Keys, Carries(e, k) PROVE Stored(e)[k] = 0
  <2>1. \A p \in e.rows : ~Present(p[2])
    BY <1>1 DEF QueueInv, GoodNotice
  <2>2. Says(e.rows, k) = 0
    BY <2>1, SaysNothing
  <2>3. QED
    BY <1>1, <1>5, <2>2, StoredSays
<1>6. ASSUME NEW k \in Keys, Carries(e, k)
      PROVE  \E j \in ids : j \in Speaking(k)
  BY <1>3, <1>6 DEF Speaking
<1>7. ASSUME NEW k \in Keys, NEW J \in SUBSET (1..Len(queue)), NEW i \in Speaking(k),
             Carries(e, k), InOrder(J), Newest(k, i), Speaking(k) \subseteq J
      PROVE  Stored(e)[k] = Says(queue[i].rows, k)
  <2>1. PICK j \in ids : j \in Speaking(k)
    BY <1>6, <1>7
  <2>2. j \in J /\ i \in J /\ queue[j].op = "withdraw"
    BY <1>7, <2>1
  <2>3. queue[i].op = "withdraw"
    BY <1>7, <2>2 DEF InOrder
  <2>4. Says(queue[i].rows, k) = 0
    BY <1>4, <1>7, <2>2, <2>3
  <2>5. QED
    BY <1>5, <1>7, <2>4
<1>8. \A k \in Keys : Speaking(k) # {} /\ Speaking(k) \subseteq ids => Carries(e, k)
  BY <1>3 DEF Speaking
<1>9. \A k \in Keys : Carries(e, k) => Speaking(k) # {}
  BY <1>6
<1> HIDE DEF Carries
<1>10. QED
  BY <1>1, <1>2, <1>7, <1>8, <1>9 DEF Answers

\* The first part of a window says what the window says, and its tails have the
\* rows it leaves out.
LEMMA WindowAnswers ==
  ASSUME TypeInv, QueueInv, NEW head \in Pending, queue[head].op # "withdraw",
         InOrder({head}), NEW tails, tails = Windows(queue[head].rows, WindowRows, 1),
         NEW e, e = [op |-> "set", rows |-> Part(queue[head].rows, WindowRows, 1)],
         NEW record, record = [ids |-> {head}, advance |-> 0, tails |-> tails]
  PROVE  Answers(e, record)
<1> DEFINE rows == queue[head].rows
<1>1. record.ids = {head} /\ record.advance = 0 /\ record.tails = tails
      /\ e.op = "set" /\ e.rows = Part(rows, WindowRows, 1)
  OBVIOUS
<1>2. \A k \in Keys : k \in Nat /\ ~(k <= 0)
  BY NothingTaken
<1>3. head \in 1..Len(queue) /\ queue \in Seq(Notice)
  BY DEF Pending, TypeInv, StoreTyped
<1>4. rows \in Rows /\ Plain(rows)
  <2>1. queue[head] \in Notice /\ GoodNotice(queue[head])
    BY <1>3 DEF QueueInv
  <2>2. QED
    BY <2>1 DEF Notice, GoodNotice
<1>5. e.rows \subseteq rows
  BY <1>1 DEF Part
<1>6. ASSUME NEW k \in Keys, Carries(e, k)
      PROVE  head \in Speaking(k) /\ Stored(e)[k] = Says(rows, k)
  <2>1. k \in KeysOf(e.rows)
    BY <1>6 DEF Carries
  <2>2. Says(e.rows, k) = Says(rows, k)
    BY <1>4, <1>5, <2>1, SaysPart
  <2>3. k \in KeysOf(rows)
    BY <1>5, <2>1 DEF KeysOf
  <2>4. QED
    BY <1>1, <1>6, <2>2, <2>3, StoredSays DEF Speaking
<1>7. ASSUME NEW k \in Keys, head \in Speaking(k) PROVE Carries(e, k) \/ TailOf(record, k)
  <2>1. PICK p \in rows : p[1] = k
    BY <1>7 DEF Speaking, KeysOf
  <2>2. p \in e.rows \/ \E n \in 1..Len(tails) : p \in tails[n].rows
    BY <1>1, <1>4, PushAssumption, WindowsCover
  <2>3. QED
    BY <1>1, <2>1, <2>2 DEF Carries, TailOf, KeysOf
<1>8. ASSUME NEW k \in Keys, NEW J \in SUBSET (1..Len(queue)), NEW i \in Speaking(k),
             Carries(e, k), InOrder(J), Newest(k, i), Speaking(k) \subseteq J
      PROVE  Stored(e)[k] = Says(queue[i].rows, k)
  <2>1. head \in J
    BY <1>6, <1>8
  <2>2. J = {head}
    BY <1>8, <2>1, SmallestInOrder
  <2>3. i = head
    BY <1>8, <2>2
  <2>4. QED
    BY <1>6, <1>8, <2>3
<1> HIDE DEF rows
<1>9. \A k \in Keys : Speaking(k) # {} /\ Speaking(k) \subseteq record.ids
        => Carries(e, k) \/ TailOf(record, k)
  BY <1>1, <1>7
<1>10. QED
  BY <1>1, <1>2, <1>6, <1>8, <1>9 DEF Answers

LEMMA EmitNoticesStep ==
  ASSUME IInv, MirrorInv, NEW t \in Tabs, EmitNotices(t) PROVE MirrorInv'
<1> DEFINE ids == seen[t].ids
           streaming == PastCursor(seen[t].cursor) # {}
<1>1. TypeInv /\ StoreTyped /\ QueueInv /\ tab[t].pc = "emit" /\ crossed \in BOOLEAN
      /\ inflight \in [Tabs -> RecordType(Len(queue))]
      /\ seen \in [Tabs -> SeenType(Len(queue))]
  BY DEF IInv, TypeInv, StoreTyped, MirrorInv, EmitNotices
<1>2. /\ ids \in SUBSET (1..Len(queue)) /\ InOrder(ids)
      /\ \A i \in ids : queue[i].rows \in Rows
  BY <1>1, SeenTyped DEF QueueInv
<1>3. PICK head \in ids :
        IF queue[head].op = "withdraw"
        THEN Send(t, [op |-> "set", rows |-> UNION {queue[i].rows : i \in ids}],
                  [ids |-> ids, advance |-> 0, tails |-> <<>>],
                  seen[t].more \/ streaming)
        ELSE Send(t, [op |-> "set", rows |-> Part(queue[head].rows, WindowRows, 1)],
                  [ids |-> {head}, advance |-> 0,
                   tails |-> Windows(queue[head].rows, WindowRows, 1)],
                  seen[t].more \/ Windows(queue[head].rows, WindowRows, 1) # <<>> \/ streaming)
  BY DEF EmitNotices
<1>4. /\ seen' = [seen EXCEPT ![t] = NothingSeen]
      /\ UNCHANGED <<late, mirror, corpus, cursor, queue, overtaken>>
  BY DEF EmitNotices
<1>5. 0 \in 0..NumKeys
  BY TransportAssumption
<1>6. ASSUME NEW e \in Envelope, NEW record \in RecordType(Len(queue)), NEW more,
             Send(t, e, record, more), InOrder(record.ids),
             ~OutOfOrder(record.ids, e.rows) => Answers(e, record)
      PROVE  MirrorInv'
  <2>1. \A u \in Tabs : inflight'[u] = IF u = t THEN record ELSE inflight[u]
    BY <1>1, <1>6 DEF Send
  <2>2. \A u \in Tabs : seen'[u] = IF u = t THEN NothingSeen ELSE seen[u]
    BY <1>1, <1>4
  <2>3. record.ids \in SUBSET (1..Len(queue))
    BY DEF RecordType
  <2>4. QueueInv'
    BY <1>1, <1>4, <1>6, <2>1, <2>2, <2>3, QueueStill
  <2>5. ASSUME ~crossed' PROVE InStep'
    <3>1. InStep
      BY <1>6, <2>5 DEF MirrorInv, Send
    <3>2. QED
      BY <1>1, <1>4, <1>6, <2>5, <3>1, SendInStep
  <2>6. QED
    BY <2>4, <2>5 DEF MirrorInv
<1>7. CASE queue[head].op = "withdraw"
  <2> DEFINE e == [op |-> "set", rows |-> UNION {queue[i].rows : i \in ids}]
             record == [ids |-> ids, advance |-> 0, tails |-> <<>>]
             more == seen[t].more \/ streaming
  <2>1. e \in Envelope
    BY <1>2 DEF Envelope, Rows
  <2>2. record \in RecordType(Len(queue)) /\ record.ids = ids
    BY <1>2, <1>5 DEF RecordType
  <2>3. Send(t, e, record, more)
    BY <1>3, <1>7
  <2>4. \A i \in ids : queue[i].op = "withdraw"
    BY <1>2, <1>7 DEF InOrder
  <2>5. ASSUME ~OutOfOrder(record.ids, e.rows) PROVE Answers(e, record)
    <3>1. ids \subseteq Pending
      BY <1>2, <2>2, <2>5 DEF OutOfOrder, Pending
    <3>2. QED
      BY <1>1, <1>2, <2>4, <3>1, WithdrawalsAnswer
  <2> HIDE DEF e, record, more
  <2>6. QED
    BY <1>2, <1>6, <2>1, <2>2, <2>3, <2>5
<1>8. CASE queue[head].op # "withdraw"
  <2> DEFINE rows == queue[head].rows
             tails == Windows(rows, WindowRows, 1)
             e == [op |-> "set", rows |-> Part(rows, WindowRows, 1)]
             record == [ids |-> {head}, advance |-> 0, tails |-> tails]
             more == seen[t].more \/ tails # <<>> \/ streaming
  <2>1. rows \in Rows /\ {head} \in SUBSET (1..Len(queue))
    BY <1>2
  <2>2. e \in Envelope
    BY <2>1 DEF Envelope, Part, Rows
  <2>3. record \in RecordType(Len(queue)) /\ record.ids = {head}
    BY <1>5, <2>1, TailsTyped DEF RecordType
  <2>4. Send(t, e, record, more)
    BY <1>3, <1>8
  <2>5. ids = {head}
    BY <1>2, <1>8, SmallestInOrder
  <2>6. InOrder({head})
    BY <1>2, <2>5
  <2>7. ASSUME ~OutOfOrder(record.ids, e.rows) PROVE Answers(e, record)
    <3>1. head \in Pending
      BY <1>2, <2>3, <2>7 DEF OutOfOrder, Pending
    <3>2. QED
      BY <1>1, <1>8, <2>6, <3>1, WindowAnswers
  <2> HIDE DEF e, record, more, tails
  <2>8. QED
    BY <1>6, <2>2, <2>3, <2>4, <2>6, <2>7
<1>9. QED
  BY <1>7, <1>8

\* A slice is of rows no pending notice speaks of: aimer-web has none of them, or
\* has them as the corpus does.
LEMMA SliceAnswers ==
  ASSUME IInv, QueueInv, InStep, NEW t \in Tabs,
         NEW past, past = PastCursor(seen[t].cursor),
         NEW slice, slice = First(past, Page),
         NEW last \in slice, \A k \in slice : k <= last,
         NEW e, e = [op |-> "insert", rows |-> RowsOf(corpus, slice)],
         NEW record, record = [ids |-> {}, advance |-> Floor[last], tails |-> <<>>],
         \A i \in Pending : ~Overlap(e.rows, queue[i].rows)
  PROVE  Answers(e, record)
<1>1. StoreTyped /\ corpus \in [Keys -> Version]
  BY DEF IInv, TypeInv, StoreTyped
<1>2. past \in SUBSET Keys /\ slice \in SUBSET Keys /\ slice \subseteq past
      /\ \A k \in past : Present(corpus[k])
  BY DEF First, PastCursor
<1>3. record.ids = {} /\ record.advance = Floor[last] /\ e.op = "insert"
      /\ e.rows = RowsOf(corpus, slice)
  OBVIOUS
<1>4. last \in Nat /\ Floor[last] \in 0..NumKeys /\ Floor[last] <= last
  BY <1>2, PushAssumption, TransportAssumption DEF Keys
<1>5. ASSUME NEW k \in slice PROVE <<k, corpus[k]>> \in e.rows /\ Carries(e, k)
  <2>1. PICK p \in e.rows : p = <<k, corpus[k]>>
    BY <1>3 DEF RowsOf
  <2>2. QED
    BY <2>1 DEF Carries, KeysOf
<1>6. ASSUME NEW p \in e.rows PROVE p[1] \in slice /\ p = <<p[1], corpus[p[1]]>>
  BY <1>3 DEF RowsOf
<1>7. \A k : Carries(e, k) => k \in slice
  BY <1>6 DEF Carries, KeysOf
<1>8. Plain(e.rows)
  <2> SUFFICES ASSUME NEW p \in e.rows, NEW q \in e.rows, p[1] = q[1] PROVE p = q
    BY DEF Plain
  <2>1. QED
    BY <1>6
<1>9. \A k : Carries(e, k) => Speaking(k) = {}
  BY NoOverlap DEF Speaking, Carries
<1>10. ASSUME NEW k \in Keys, cursor < k, k <= record.advance, Present(corpus[k])
       PROVE  Carries(e, k)
  <2>1. seen[t].cursor \in 0..NumKeys /\ seen[t].cursor <= cursor /\ cursor \in 0..NumKeys
    BY <1>1, SeenTyped DEF StoreTyped, IInv, Ahead
  <2>2. k \in Nat
    BY TransportAssumption DEF Keys
  <2>3. k > seen[t].cursor /\ k <= last
    BY <1>3, <1>4, <1>10, <2>1, <2>2
  <2>4. k \in past
    BY <1>10, <2>3 DEF PastCursor
  <2>5. k \in slice
    BY <1>2, <2>3, <2>4, PushAssumption, FirstIsInitial
  <2>6. QED
    BY <1>5, <2>5
<1>11. ASSUME NEW k \in Keys \ overtaken, Carries(e, k)
       PROVE  Stored(e)[k] = Held(corpus[k])
  <2>1. k \in slice /\ Speaking(k) = {} /\ Present(corpus[k])
    BY <1>2, <1>7, <1>9, <1>11
  <2>2. Right(k, mirror[k])
    BY <2>1 DEF InStep, Settled, Possible
  <2>3. CASE mirror[k] # 0
    <3>1. Stored(e)[k] = mirror[k]
      BY <1>3, <2>3, StoredSays
    <3>2. QED
      BY <2>2, <2>3, <3>1 DEF Right
  <2>4. CASE mirror[k] = 0
    <3>1. Stored(e)[k] = Says(e.rows, k)
      BY <1>11, <2>4, StoredSays
    <3>2. QED
      BY <1>1, <1>5, <1>8, <2>1, <3>1, SaysHeld
  <2>5. QED
    BY <2>3, <2>4
<1> HIDE DEF Carries
<1>12. QED
  BY <1>3, <1>9, <1>10, <1>11, NoneInOrder DEF Answers

LEMMA EmitSliceStep ==
  ASSUME IInv, MirrorInv, NEW t \in Tabs, EmitSlice(t) PROVE MirrorInv'
<1> DEFINE past == PastCursor(seen[t].cursor)
           slice == First(past, Page)
           e == [op |-> "insert", rows |-> RowsOf(corpus, slice)]
           more == past # slice
<1>1. TypeInv /\ StoreTyped /\ QueueInv /\ tab[t].pc = "emit" /\ corpus \in [Keys -> Version]
      /\ inflight \in [Tabs -> RecordType(Len(queue))]
      /\ seen \in [Tabs -> SeenType(Len(queue))]
  BY DEF IInv, TypeInv, StoreTyped, MirrorInv, EmitSlice
<1>2. slice \in SUBSET Keys
  BY DEF First, PastCursor
<1>3. PICK last \in slice :
        /\ \A k \in slice : k <= last
        /\ Send(t, e, [ids |-> {}, advance |-> Floor[last], tails |-> <<>>], more)
  BY DEF EmitSlice
<1> DEFINE record == [ids |-> {}, advance |-> Floor[last], tails |-> <<>>]
<1>4. e \in Envelope
  BY <1>1, <1>2, RowsOfType DEF Envelope
<1>5. record \in RecordType(Len(queue)) /\ record.ids = {}
  BY <1>2, PushAssumption DEF RecordType
<1>6. Send(t, e, record, more)
  BY <1>3
<1>7. /\ seen' = [seen EXCEPT ![t] = NothingSeen]
      /\ UNCHANGED <<late, mirror, corpus, cursor, queue, overtaken>>
  BY DEF EmitSlice
<1>8. ASSUME InStep, ~OutOfOrder(record.ids, e.rows) PROVE Answers(e, record)
  <2>1. \A i \in Pending : ~Overlap(e.rows, queue[i].rows)
    BY <1>5, <1>8 DEF OutOfOrder
  <2>2. QED
    BY <1>1, <1>3, <1>8, <2>1, SliceAnswers
<1> HIDE DEF e, record, more
<1>9. QueueInv'
  <2>1. \A u \in Tabs : inflight'[u] = IF u = t THEN record ELSE inflight[u]
    BY <1>1, <1>6 DEF Send
  <2>2. \A u \in Tabs : seen'[u] = IF u = t THEN NothingSeen ELSE seen[u]
    BY <1>1, <1>7
  <2>3. record.ids \in SUBSET (1..Len(queue)) /\ InOrder(record.ids)
    BY <1>5, NoneInOrder
  <2>4. QED
    BY <1>1, <1>7, <2>1, <2>2, <2>3, QueueStill
<1>10. ASSUME ~crossed' PROVE InStep'
  <2>1. InStep
    BY <1>6, <1>10 DEF MirrorInv, Send
  <2>2. QED
    BY <1>1, <1>4, <1>5, <1>6, <1>7, <1>8, <1>10, <2>1, SendInStep
<1>11. QED
  BY <1>9, <1>10 DEF MirrorInv

-----------------------------------------------------------------------------
(* An acknowledgement settles notices, or moves the cursor. *)

\* The queue after it: the notices of the record are marked, and its tails, which
\* are parts of its one window, come at the end.
QueueSettled(t) ==
  LET ids == inflight[t].ids
      tails == inflight[t].tails
  IN /\ QueueKept /\ Len(queue) \in Nat
     /\ \A i \in 1..Len(queue) : i \in Pending' <=> i \in Pending /\ i \notin ids
     /\ \A i \in 1..Len(queue') : i \notin 1..Len(queue)
          => i \in Pending' /\ \E n \in 1..Len(tails) : queue'[i] = tails[n]
     /\ \A n \in 1..Len(tails) :
          /\ Len(queue) + n \in 1..Len(queue') /\ Len(queue) + n \notin 1..Len(queue)
          /\ queue'[Len(queue) + n] = tails[n]
          /\ tails[n].op = "window"
          /\ \E i \in 1..Len(queue) : ids = {i} /\ tails[n].rows \subseteq queue[i].rows

LEMMA CommitQueue ==
  ASSUME TypeInv, TailInv, NEW t \in Tabs, CommitOnAck(t),
         UNCHANGED <<corpus, frontier, seen, enabled, overtaken>>
  PROVE  QueueSettled(t)
<1> DEFINE ids == inflight[t].ids
           tails == inflight[t].tails
           q == Marked(t)
<1>1. StoreTyped /\ queue \in Seq(Notice) /\ Len(queue) \in Nat
  BY DEF TypeInv, StoreTyped
<1>2. queue' = q \o tails
  BY CommitTyped, Zenon
<1>3. /\ q \in Seq(Notice) /\ Len(q) = Len(queue)
      /\ \A i \in 1..Len(queue) : /\ q[i].rows = queue[i].rows /\ q[i].op = queue[i].op
                                  /\ q[i].acked <=> queue[i].acked \/ i \in ids
  BY <1>1, MarkedTyped
<1>4. tails \in Seq(Notice) /\ tails \in Seq(TailType)
  BY <1>1, RecordTyped
<1>4a. tails # <<>> => \E i \in 1..Len(queue) :
         ids = {i} /\ \A n \in 1..Len(tails) : tails[n].rows \subseteq queue[i].rows
  BY DEF TailInv, PartsOf
<1> HIDE DEF q, ids, tails
<1>5. /\ 1..Len(queue) \subseteq 1..Len(queue')
      /\ \A i \in 1..Len(queue) : queue'[i] = q[i]
      /\ \A n \in 1..Len(tails) : Len(queue) + n \in 1..Len(queue')
                                  /\ queue'[Len(queue) + n] = tails[n]
  BY <1>2, <1>3, <1>4, QueueGrows
<1>6. QueueKept
  BY <1>3, <1>5 DEF QueueKept
<1>7. \A i \in 1..Len(queue) : i \in Pending' <=> i \in Pending /\ i \notin ids
  BY <1>3, <1>5 DEF Pending
<1>8. ASSUME NEW n \in 1..Len(tails)
      PROVE  tails[n].op = "window" /\ ~tails[n].acked
             /\ \E i \in 1..Len(queue) : ids = {i} /\ tails[n].rows \subseteq queue[i].rows
  <2>1. tails[n] \in TailType
    BY <1>4
  <2>2. tails # <<>>
    <3>1. tails = <<>> => Len(tails) = 0
      OBVIOUS
    <3>2. QED
      BY <3>1
  <2>3. PICK i \in 1..Len(queue) :
          ids = {i} /\ \A m \in 1..Len(tails) : tails[m].rows \subseteq queue[i].rows
    BY <1>4a, <2>2
  <2>4. QED
    BY <2>1, <2>3 DEF TailType
<1>9. ASSUME NEW i \in 1..Len(queue'), i \notin 1..Len(queue)
      PROVE  i \in Pending' /\ \E n \in 1..Len(tails) : queue'[i] = tails[n]
  <2>1. PICK n \in 1..Len(tails) : queue'[i] = tails[n]
    BY <1>2, <1>3, <1>4, <1>9, BothSpeak
  <2>2. QED
    BY <1>8, <2>1 DEF Pending
<1>10. \A n \in 1..Len(tails) : Len(queue) + n \notin 1..Len(queue)
  BY <1>1
<1>11. QED
  BY <1>1, <1>5, <1>6, <1>7, <1>8, <1>9, <1>10 DEF QueueSettled, ids, tails

LEMMA CommitQueueInv ==
  ASSUME TypeInv, TailInv, QueueInv, NEW t \in Tabs, CommitOnAck(t),
         UNCHANGED <<corpus, frontier, seen, enabled, overtaken>>
  PROVE  QueueInv'
<1> DEFINE ids == inflight[t].ids
           tails == inflight[t].tails
<1>1. /\ QueueKept /\ Len(queue) \in Nat
      /\ \A i \in 1..Len(queue') : i \notin 1..Len(queue)
           => i \in Pending' /\ \E n \in 1..Len(tails) : queue'[i] = tails[n]
      /\ \A n \in 1..Len(tails) :
           /\ tails[n].op = "window"
           /\ \E i \in 1..Len(queue) : ids = {i} /\ tails[n].rows \subseteq queue[i].rows
  BY CommitQueue DEF QueueSettled
<1>2. StoreTyped
  BY DEF TypeInv
<1>3. \A u \in Tabs : inflight'[u] \in {inflight[u], NoRecord}
  BY <1>2 DEF CommitOnAck, StoreTyped
<1>4. \A u \in Tabs : inflight[u].ids \in SUBSET (1..Len(queue))
                      /\ seen[u].ids \in SUBSET (1..Len(queue))
  BY <1>2, RecordTyped, SeenTyped
<1>5. \A u \in Tabs : /\ inflight'[u].ids \in SUBSET (1..Len(queue))
                      /\ InOrder(inflight'[u].ids)
                      /\ seen'[u].ids \in SUBSET (1..Len(queue))
                      /\ InOrder(seen'[u].ids)
  BY <1>3, <1>4, NothingTaken, NoneInOrder DEF QueueInv
<1>6. \A n \in 1..Len(tails) : GoodNotice(tails[n])
  BY <1>1 DEF QueueInv, GoodNotice, Plain
<1> HIDE DEF tails, ids
<1>7. QED
  BY <1>1, <1>5, <1>6, QueueStep

\* What is pending of a row once the notices of a record are settled: nothing, and
\* aimer-web may have only what the newest of them said; or what is newest then says
\* what the newest said before.
LEMMA SettledSpeaks ==
  ASSUME TypeInv, TailInv, QueueInv, NEW t \in Tabs, CommitOnAck(t), ~TailsOutOfOrder(inflight[t]),
         UNCHANGED <<corpus, frontier, seen, enabled, overtaken>>,
         BringsNotices(t), ~Posted(t), NEW k \in Keys
  PROVE  /\ Speaking(k)' = {} => \/ Speaking(k) = {}
                                 \/ \E i \in Speaking(k) :
                                      /\ Newest(k, i)
                                      /\ \A m \in Possible(k) : m = Says(queue[i].rows, k)
         /\ \A j \in Speaking(k)' : Newest(k, j)'
              => \E i \in Speaking(k) :
                   Newest(k, i) /\ Says(queue'[j].rows, k) = Says(queue[i].rows, k)
         /\ \/ \E j \in Speaking(k)' : j \notin 1..Len(queue)
            \/ \A j \in Speaking(k)' : j \in Speaking(k) /\ queue'[j].rows = queue[j].rows
                                       /\ (Newest(k, j)' => Newest(k, j))
<1> DEFINE ids == inflight[t].ids
           tails == inflight[t].tails
<1>1. /\ QueueKept /\ Len(queue) \in Nat
      /\ \A i \in 1..Len(queue) : i \in Pending' <=> i \in Pending /\ i \notin ids
      /\ \A i \in 1..Len(queue') : i \notin 1..Len(queue)
           => i \in Pending' /\ \E n \in 1..Len(tails) : queue'[i] = tails[n]
      /\ \A n \in 1..Len(tails) :
           /\ Len(queue) + n \in 1..Len(queue') /\ Len(queue) + n \notin 1..Len(queue)
           /\ queue'[Len(queue) + n] = tails[n]
           /\ \E i \in 1..Len(queue) : ids = {i} /\ tails[n].rows \subseteq queue[i].rows
  BY CommitQueue DEF QueueSettled
<1>2. queue \in Seq(Notice) /\ StoreTyped
  BY DEF TypeInv, StoreTyped
<1>3. ids \in SUBSET (1..Len(queue)) /\ InOrder(ids)
  BY <1>2, RecordTyped DEF QueueInv
<1>4. \A i \in Speaking(k) : i \in 1..Len(queue) /\ i \in Pending
  BY DEF Speaking, Pending
<1>5. \A j \in Speaking(k)' : j \in 1..Len(queue') /\ j \in Pending'
  BY DEF Speaking, Pending
<1>6. \A j \in 1..Len(queue) : j \in Speaking(k)' <=> j \in Speaking(k) /\ j \notin ids
  BY <1>1 DEF Speaking, QueueKept
<1>7. ASSUME NEW n \in 1..Len(tails), k \in KeysOf(tails[n].rows)
      PROVE  /\ \E j \in Speaking(k)' : j \notin 1..Len(queue)
             /\ \E i \in Speaking(k) :
                  /\ Newest(k, i)
                  /\ \A j \in Speaking(k)' : Says(queue'[j].rows, k) = Says(queue[i].rows, k)
  <2>1. PICK i \in 1..Len(queue) : ids = {i} /\ tails[n].rows \subseteq queue[i].rows
    BY <1>1
  <2>2. ~queue[i].acked /\ \A j \in Pending \ ids : ~Overlap(queue[j].rows, tails[n].rows)
    BY <2>1 DEF TailsOutOfOrder
  <2>3. i \in Speaking(k)
    BY <1>7, <2>1, <2>2 DEF Speaking, Pending, KeysOf
  <2>4. ASSUME NEW j \in Speaking(k) PROVE j = i
    <3>1. k \in KeysOf(queue[j].rows) /\ j \in Pending
      BY DEF Speaking
    <3>2. Overlap(queue[j].rows, tails[n].rows)
      BY <1>7, <3>1 DEF Overlap
    <3>3. QED
      BY <2>1, <2>2, <3>1, <3>2
  <2>5. Newest(k, i)
    BY <1>4, <2>3, <2>4 DEF Newest
  <2>6. Len(queue) + n \in Speaking(k)'
    BY <1>1, <1>7 DEF Speaking
  <2>7. ASSUME NEW j \in Speaking(k)' PROVE Says(queue'[j].rows, k) = Says(queue[i].rows, k)
    <3>1. j \notin 1..Len(queue)
      BY <1>6, <2>1, <2>4
    <3>2. PICK m \in 1..Len(tails) : queue'[j] = tails[m]
      BY <1>1, <1>5, <3>1
    <3>3. PICK l \in 1..Len(queue) : ids = {l} /\ tails[m].rows \subseteq queue[l].rows
      BY <1>1
    <3>3a. l = i
      BY <2>1, <3>3
    <3>4. k \in KeysOf(tails[m].rows)
      BY <3>2 DEF Speaking
    <3>5. queue[i] \in Notice /\ GoodNotice(queue[i])
      BY <1>2 DEF QueueInv
    <3>6. queue[i].rows \in Rows /\ Plain(queue[i].rows)
      BY <3>5 DEF Notice, GoodNotice
    <3>7. Says(tails[m].rows, k) = Says(queue[i].rows, k)
      BY <3>3, <3>3a, <3>4, <3>6, SaysPart
    <3>8. QED
      BY <3>2, <3>7
  <2>8. QED
    BY <1>1, <2>3, <2>5, <2>6, <2>7
<1>8. CASE \E n \in 1..Len(tails) : k \in KeysOf(tails[n].rows)
  BY <1>7, <1>8
<1>9. CASE ~\E n \in 1..Len(tails) : k \in KeysOf(tails[n].rows)
  <2>1. ASSUME NEW j \in Speaking(k)' PROVE j \in 1..Len(queue)
    BY <1>1, <1>5, <1>9 DEF Speaking
  <2>2. Speaking(k)' = Speaking(k) \ ids
    BY <1>4, <1>6, <2>1
  <2>3. \A j \in Speaking(k) : queue'[j].rows = queue[j].rows
    BY <1>1, <1>4 DEF QueueKept
  <2>4. ASSUME NEW j \in Speaking(k)', Newest(k, j)' PROVE Newest(k, j)
    <3>1. j \in Speaking(k) /\ j \notin ids
      BY <2>2
    <3>2. ASSUME NEW i \in Speaking(k) PROVE i <= j
      <4>1. CASE i \in ids
        <5>1. ~(j < i)
          BY <1>3, <1>4, <3>1, <4>1 DEF InOrder
        <5>2. i \in Nat /\ j \in Nat
          BY <1>4, <3>1
        <5>3. QED
          BY <5>1, <5>2
      <4>2. CASE i \notin ids
        BY <2>2, <2>4, <4>2 DEF Newest
      <4>3. QED
        BY <4>1, <4>2
    <3>3. QED
      BY <3>1, <3>2 DEF Newest
  <2>5. ASSUME Speaking(k)' = {}, Speaking(k) # {}
        PROVE  \E i \in Speaking(k) :
                 Newest(k, i) /\ \A m \in Possible(k) : m = Says(queue[i].rows, k)
    <3>1. PICK i \in Speaking(k) : Newest(k, i)
      BY <1>2, <2>5, HasNewest
    <3>2. Speaking(k) \subseteq ids /\ ~InTail(t, k)
      BY <1>9, <2>2, <2>5 DEF InTail
    <3>3. AfterBatch(t, k) = Possible(k)
      BY DEF AfterBatch
    <3>4. QED
      BY <3>1, <3>2, <3>3 DEF BringsNotices
  <2>6. QED
    BY <2>2, <2>3, <2>4, <2>5
<1>10. QED
  BY <1>8, <1>9

\* An acknowledgement keeps aimer-web in step.
LEMMA AckInStep ==
  ASSUME IInv, TypeInv', TailInv, QueueInv, InStep, NEW t \in Tabs, Outcome(t),
         tab[t].outcome = "ack", ~crossed'
  PROVE  InStep'
<1> DEFINE r == [tab[t] EXCEPT !.pc = "claim", !.outcome = "none"]
           advance == inflight[t].advance
<1>1. /\ TypeInv /\ StoreTyped /\ tab \in [Tabs -> TabType] /\ tab[t].pc = "outcome"
      /\ cursor \in 0..NumKeys /\ inflight \in [Tabs -> RecordType(Len(queue))]
      /\ queue \in Seq(Notice) /\ Len(queue) \in Nat
  BY DEF IInv, TypeInv, TabsTyped, StoreTyped, Outcome
<1>2. CommitOnAck(t) /\ UNCHANGED <<late, mirror, corpus, frontier, seen, enabled, overtaken>>
  BY DEF Outcome
<1>3. ~TailsOutOfOrder(inflight[t])
  BY <1>2 DEF CommitOnAck
<1>4. tab' = [tab EXCEPT ![t] = r]
  BY Zenon DEF Outcome
<1>5. r.pc = "claim" /\ r.outcome = "none"
  BY <1>1 DEF TabType
<1> HIDE DEF r
<1>6. /\ ~Posted(t) /\ ~Posted(t)' /\ ~Live(t)' /\ Live(t)
      /\ \A u \in Tabs \ {t} : tab'[u] = tab[u]
  BY <1>1, <1>4, <1>5 DEF Posted, Live
<1>7. \A u \in Tabs : inflight'[u] = IF u = t THEN NoRecord ELSE inflight[u]
  BY <1>1, <1>2 DEF CommitOnAck
<1>8. cursor' = (IF cursor < advance THEN advance ELSE cursor) /\ advance \in 0..NumKeys
  BY <1>1, <1>2, RecordTyped DEF CommitOnAck
<1>9. BringsNotices(t) /\ BringsSlice(t)
  BY <1>6 DEF InStep, Brings
<1>10. OneBatch'
  <2>1. \A u \in Tabs : Posted(u)' => Posted(u) /\ tab'[u].env = tab[u].env
    BY <1>6 DEF Posted
  <2>2. QED
    BY <1>2, <2>1, WireStill DEF InStep
<1>11. Outstanding' = Outstanding
  BY <1>2, <1>6 DEF Outstanding, Posted
<1>12. \A k : Possible(k)' = Possible(k)
  BY <1>2, <1>11 DEF Possible, Stored
<1>13. ASSUME NEW u \in Tabs \ {t}, NEW k
       PROVE  AfterBatch(u, k)' = AfterBatch(u, k) /\ AfterBatch(u, k) \subseteq Possible(k)
  <2>1. AfterBatch(u, k)' = AfterBatch(u, k)
    BY <1>2, <1>6, <1>12 DEF AfterBatch, Posted, Stored
  <2>2. Posted(u) => Stored(tab[u].env)[k] \in Possible(k)
    BY DEF Possible, Outstanding, Posted
  <2>3. QED
    BY <2>1, <2>2 DEF AfterBatch
<1>14. ASSUME NEW k \in Keys
       PROVE  /\ Speaking(k)' = {} => \/ Speaking(k) = {}
                                      \/ \E i \in Speaking(k) :
                                           /\ Newest(k, i)
                                           /\ \A m \in Possible(k) : m = Says(queue[i].rows, k)
              /\ \A j \in Speaking(k)' : Newest(k, j)'
                   => \E i \in Speaking(k) :
                        Newest(k, i) /\ Says(queue'[j].rows, k) = Says(queue[i].rows, k)
              /\ \/ \E j \in Speaking(k)' : j \notin 1..Len(queue)
                 \/ \A j \in Speaking(k)' : j \in Speaking(k) /\ queue'[j].rows = queue[j].rows
                                            /\ (Newest(k, j)' => Newest(k, j))
  BY <1>1, <1>2, <1>3, <1>6, <1>9, SettledSpeaks
<1>15. ASSUME NEW k \in Keys \ overtaken' PROVE Settled(k)'
  <2> DEFINE now(v) == v = Held(corpus'[k]) \/ (v = 0 /\ Present(corpus'[k]) /\ k > cursor')
  <2>1. Settled(k) /\ k \in Keys \ overtaken
    BY <1>2 DEF InStep
  <2>2. /\ Speaking(k) = {} => \A m \in Possible(k) : now(m)
        /\ \A i \in Speaking(k) : Newest(k, i) => now(Says(queue[i].rows, k))
    <3>1. CASE Present(corpus[k]) /\ cursor < k /\ k <= advance
      <4>1. AfterBatch(t, k) = Possible(k)
        BY <1>6 DEF AfterBatch
      <4>2. QED
        BY <1>2, <1>9, <2>1, <3>1, <4>1 DEF BringsSlice
    <3>2. CASE ~(Present(corpus[k]) /\ cursor < k /\ k <= advance)
      <4>1. k \in Nat
        BY TransportAssumption DEF Keys
      <4>2. Present(corpus[k]) /\ k > cursor => k > cursor'
        BY <1>1, <1>8, <3>2, <4>1
      <4>3. \A v : Right(k, v) => now(v)
        BY <1>2, <4>2 DEF Right
      <4> HIDE DEF now
      <4>4. QED
        BY <2>1, <4>3 DEF Settled
    <3>3. QED
      BY <3>1, <3>2
  <2> HIDE DEF now
  <2>3. Speaking(k)' = {} => \A m \in Possible(k)' : now(m)
    BY <1>12, <1>14, <2>1, <2>2
  <2>4. \A j \in Speaking(k)' : Newest(k, j)' => now(Says(queue'[j].rows, k))
    BY <1>14, <2>1, <2>2
  <2>5. QED
    BY <2>3, <2>4 DEF Settled, Right, now
<1>16. ASSUME NEW u \in Tabs, Live(u)' PROVE BringsNotices(u)' /\ BringsSlice(u)'
  <2>1. u # t /\ inflight'[u] = inflight[u]
    BY <1>6, <1>7, <1>16
  <2>2. BringsNotices(u) /\ BringsSlice(u)
    BY <1>6, <1>16, <2>1 DEF InStep, Brings, Live
  <2>3. InOrder(inflight[u].ids) /\ inflight[u].ids \in SUBSET (1..Len(queue))
    BY <1>1, RecordTyped DEF QueueInv
  <2>4. \A k : InTail(u, k)' <=> InTail(u, k)
    BY <2>1 DEF InTail
  <2>5. ASSUME NEW k \in Keys, NEW j \in Speaking(k)', Newest(k, j)',
               Speaking(k)' \subseteq inflight[u].ids, ~InTail(u, k),
               NEW m \in AfterBatch(u, k)
        PROVE  m = Says(queue'[j].rows, k)
    <3>1. j \in Speaking(k) /\ queue'[j].rows = queue[j].rows /\ Newest(k, j)
      BY <1>14, <2>3, <2>5
    <3>2. Speaking(k) \subseteq inflight[u].ids
      <4> SUFFICES ASSUME NEW l \in Speaking(k) PROVE l \in inflight[u].ids
        OBVIOUS
      <4>1. j \in inflight[u].ids /\ l <= j /\ l \in Pending
        BY <2>5, <3>1 DEF Newest, Speaking
      <4>2. l \in 1..Len(queue) /\ j \in 1..Len(queue)
        BY <2>3, <4>1 DEF Pending
      <4>3. l = j \/ l < j
        BY <4>1, <4>2
      <4>4. QED
        BY <2>3, <4>1, <4>3 DEF InOrder
    <3>3. QED
      BY <2>2, <2>5, <3>1, <3>2 DEF BringsNotices
  <2>6. BringsNotices(u)'
    BY <1>13, <2>1, <2>4, <2>5 DEF BringsNotices
  <2>7. ASSUME NEW k \in Keys \ overtaken, cursor' < k, k <= inflight[u].advance,
               Present(corpus[k])
        PROVE  /\ Speaking(k)' = {} => \A m \in AfterBatch(u, k) : m = Held(corpus[k])
               /\ \A j \in Speaking(k)' :
                    Newest(k, j)' => Says(queue'[j].rows, k) = Held(corpus[k])
    <3>1. k \in Nat
      BY TransportAssumption DEF Keys
    <3>2. cursor < k
      BY <1>1, <1>8, <2>7, <3>1
    <3>3. /\ Speaking(k) = {} => \A m \in AfterBatch(u, k) : m = Held(corpus[k])
          /\ \A i \in Speaking(k) :
               Newest(k, i) => Says(queue[i].rows, k) = Held(corpus[k])
      BY <2>2, <2>7, <3>2 DEF BringsSlice
    <3>4. AfterBatch(u, k) \subseteq Possible(k)
      BY <1>13, <2>1
    <3>5. QED
      BY <1>14, <3>3, <3>4
  <2>8. BringsSlice(u)'
    BY <1>2, <1>13, <2>1, <2>7 DEF BringsSlice
  <2>9. QED
    BY <2>6, <2>8
<1>17. QED
  BY <1>10, <1>15, <1>16 DEF InStep, Brings

LEMMA AckMirror ==
  ASSUME IInv, RefInv, MirrorInv, NEW t \in Tabs, Outcome(t), tab[t].outcome = "ack"
  PROVE  MirrorInv'
<1>1. TypeInv /\ TypeInv' /\ TailInv /\ QueueInv /\ crossed \in BOOLEAN
  BY OutcomeTyped DEF IInv, TypeInv, StoreTyped, RefInv, MirrorInv
<1>2. CommitOnAck(t) /\ UNCHANGED <<corpus, frontier, seen, enabled, overtaken>>
  BY DEF Outcome
<1>3. QueueInv'
  BY <1>1, <1>2, CommitQueueInv
<1>4. ASSUME ~crossed' PROVE InStep'
  <2>1. InStep
    BY <1>2, <1>4 DEF MirrorInv, CommitOnAck
  <2>2. QED
    BY <1>1, <1>4, <2>1, AckInStep
<1>5. QED
  BY <1>3, <1>4 DEF MirrorInv

-----------------------------------------------------------------------------
(* The other steps, and the theorem. *)

\* A call reads, ends or reports a refusal.
LEMMA QuietMirror ==
  ASSUME TypeInv, MirrorInv, NEW t \in Tabs, NEW r, tab' = [tab EXCEPT ![t] = r],
         ~(r.pc = "posted" \/ r.outcome = "ack"),
         UNCHANGED <<late, mirror, corpus, cursor, queue, overtaken, crossed>>,
         \A u \in Tabs : inflight'[u] \in {inflight[u], NoRecord},
         \A u \in Tabs : \/ seen'[u] \in {seen[u], NothingSeen}
                         \/ seen'[u].ids = Claimable
  PROVE  MirrorInv'
<1>1. tab \in [Tabs -> TabType] /\ StoreTyped
  BY DEF TypeInv, TabsTyped
<1>2. QueueInv'
  BY <1>1, QueueStill, ClaimableInOrder DEF MirrorInv
<1>3. InStep => InStep'
  BY <1>1, OneTabIdles
<1>4. QED
  BY <1>2, <1>3 DEF MirrorInv

LEMMA ServeMirror ==
  ASSUME IInv, RefInv, MirrorInv, NEW t \in Tabs, Serve(t) PROVE MirrorInv'
<1>1. /\ TypeInv /\ tab \in [Tabs -> TabType]
      /\ inflight \in [Tabs -> RecordType(Len(queue))]
      /\ seen \in [Tabs -> SeenType(Len(queue))]
  BY DEF IInv, TypeInv, TabsTyped, StoreTyped
<1>2. ~(Idle.pc = "posted" \/ Idle.outcome = "ack")
  BY DEF Idle
<1>3. CASE Outcome(t) /\ tab[t].outcome = "ack"
  BY <1>3, AckMirror
<1>4. CASE Outcome(t) /\ tab[t].outcome # "ack"
  <2> DEFINE r == [tab[t] EXCEPT !.pc = "claim", !.outcome = "none"]
  <2>1. tab' = [tab EXCEPT ![t] = r]
    BY <1>4, Zenon DEF Outcome
  <2>2. r.pc = "claim" /\ r.outcome = "none"
    BY <1>1 DEF TabType
  <2> HIDE DEF r
  <2>3. UNCHANGED <<cursor, queue, crossed>>
        /\ \A u \in Tabs : inflight'[u] \in {inflight[u], NoRecord}
    <3>1. CASE tab[t].outcome = "fail"
      BY <1>1, <1>4, <3>1 DEF Outcome, RecordOnFail
    <3>2. CASE tab[t].outcome # "fail"
      BY <1>4, <3>2 DEF Outcome
    <3>3. QED
      BY <3>1, <3>2
  <2>4. UNCHANGED <<late, mirror, corpus, overtaken, seen>>
    BY <1>4 DEF Outcome
  <2>5. QED
    BY <1>1, <2>1, <2>2, <2>3, <2>4, QuietMirror
<1>5. CASE Paused(t)
  <2>1. tab' = [tab EXCEPT ![t] = Idle]
    BY <1>5 DEF Paused, ReplyNothing
  <2>2. UNCHANGED <<late, mirror, corpus, cursor, queue, overtaken, crossed, inflight, seen>>
    BY <1>5 DEF Paused, storeVars
  <2>3. QED
    BY <1>1, <1>2, <2>1, <2>2, QuietMirror
<1>6. CASE Claim(t)
  <2> DEFINE r == [tab[t] EXCEPT !.pc = "emit"]
             s == [cursor |-> cursor, ids |-> Claimable, more |-> Pending # Claimable]
  <2>1. tab' = [tab EXCEPT ![t] = r] /\ seen' = [seen EXCEPT ![t] = s]
    BY <1>6, Zenon DEF Claim
  <2>2. tab[t].outcome = "none"
    BY <1>6 DEF IInv, TypeInv, TabsTyped, InPlace, Claim
  <2>3. r.pc = "emit" /\ r.outcome = "none" /\ s.ids = Claimable
    BY <1>1, <2>2 DEF TabType
  <2> HIDE DEF r, s
  <2>4. \A u \in Tabs : seen'[u] = IF u = t THEN s ELSE seen[u]
    BY <1>1, <2>1
  <2>5. UNCHANGED <<late, mirror, corpus, cursor, queue, overtaken, crossed>>
        /\ \A u \in Tabs : inflight'[u] \in {inflight[u], NoRecord}
    BY <1>6 DEF Claim
  <2>6. QED
    BY <1>1, <2>1, <2>3, <2>4, <2>5, QuietMirror
<1>7. CASE EmitNotices(t) \/ EmitSlice(t)
  BY <1>7, EmitNoticesStep, EmitSliceStep
<1>8. CASE EmitNothing(t)
  <2>1. tab' = [tab EXCEPT ![t] = Idle]
    BY <1>8 DEF EmitNothing, ReplyNothing
  <2>2. UNCHANGED <<late, mirror, corpus, cursor, queue, overtaken, crossed, inflight>>
    BY <1>8 DEF EmitNothing
  <2>3. \A u \in Tabs : seen'[u] = IF u = t THEN NothingSeen ELSE seen[u]
    BY <1>1, <1>8 DEF EmitNothing
  <2>4. QED
    BY <1>1, <1>2, <2>1, <2>2, <2>3, QuietMirror
<1>9. QED
  BY <1>3, <1>4, <1>5, <1>6, <1>7, <1>8 DEF Serve

LEMMA StoreUntouched ==
  ASSUME TypeInv, MirrorInv, UNCHANGED <<queue, inflight, seen, crossed>>,
         InStep => InStep'
  PROVE  MirrorInv'
<1>1. QueueInv'
  BY QueueStill DEF MirrorInv, TypeInv
<1>2. QED
  BY <1>1 DEF MirrorInv

LEMMA SwitchMirror ==
  ASSUME TypeInv, MirrorInv, Pause \/ Resume \/ UNCHANGED vars PROVE MirrorInv'
<1>1. UNCHANGED <<tab, late, mirror, corpus, cursor, queue, inflight, seen, overtaken, crossed>>
  BY DEF Pause, Resume, vars, transportVars, storeVars
<1>2. ASSUME InStep PROVE InStep'
  <2>1. OneBatch' /\ Outstanding' \subseteq Outstanding
    BY <1>1, <1>2, WireStill DEF InStep, Posted
  <2>2. QED
    BY <1>1, <1>2, <2>1, NothingArrives DEF Live
<1>3. QED
  BY <1>1, <1>2, StoreUntouched

LEMMA WriteMirror ==
  ASSUME IInv, IInv', MirrorInv, Write PROVE MirrorInv'
<1>1. TypeInv /\ TypeInv' /\ Ahead /\ QueueInv
  BY DEF IInv, MirrorInv
<1>2. PICK s : NoticesNow(s)
  BY <1>1, WriteSpeaks
<1>3. QueueInv'
  BY <1>1, <1>2, WriterQueue
<1>4. InStep => InStep'
  BY <1>1, <1>2, WriterInStep
<1>5. crossed' = crossed
  BY <1>2 DEF NoticesNow
<1>6. QED
  BY <1>3, <1>4, <1>5 DEF MirrorInv

LEMMA MirrorStep ==
  ASSUME IInv, IInv', RefInv, MirrorInv, [Next]_vars PROVE MirrorInv'
<1>1. TypeInv
  BY DEF IInv
<1>2. CASE TransportNext /\ UNCHANGED storeVars
  <2>1. UNCHANGED <<queue, inflight, seen, crossed>>
    BY <1>2 DEF storeVars
  <2>2. InStep => InStep'
    BY <1>1, <1>2, TransportInStep
  <2>3. QED
    BY <1>1, <2>1, <2>2, StoreUntouched
<1>3. CASE \E t \in Tabs : Serve(t)
  BY <1>3, ServeMirror
<1>4. CASE Write
  BY <1>4, WriteMirror
<1>5. CASE Pause \/ Resume \/ UNCHANGED vars
  BY <1>1, <1>5, SwitchMirror
<1>6. QED
  BY <1>2, <1>3, <1>4, <1>5 DEF Next

LEMMA MirrorInit == Init => MirrorInv
<1> SUFFICES ASSUME Init PROVE MirrorInv
  OBVIOUS
<1>1. /\ tab = [t \in Tabs |-> Idle] /\ late = [n \in 1..MaxFaults |-> NoEnvelope]
      /\ mirror = [k \in Keys |-> 0] /\ corpus = [k \in Keys |-> 0] /\ queue = <<>>
      /\ inflight = [t \in Tabs |-> NoRecord] /\ seen = [t \in Tabs |-> NothingSeen]
  BY DEF Init, TransportInit
<1>2. \A t \in Tabs : ~Posted(t) /\ ~Live(t)
  BY <1>1 DEF Idle, Posted, Live
<1>3. 1..Len(queue) = {}
  BY <1>1
<1>4. QueueInv
  BY <1>1, <1>3, NothingTaken, NoneInOrder DEF QueueInv
<1>5. OneBatch
  BY <1>1, <1>2, NoOverlap DEF OneBatch
<1>6. ASSUME NEW k \in Keys PROVE Settled(k)
  <2>1. Speaking(k) = {}
    BY <1>3 DEF Speaking, Pending
  <2>2. \A e \in Outstanding : e = NoEnvelope
    BY <1>1, <1>2 DEF Outstanding, Posted
  <2>3. Stored(NoEnvelope)[k] = mirror[k]
    BY DEF Stored, NoEnvelope, KeysOf
  <2>4. \A m \in Possible(k) : m = 0
    BY <1>1, <2>2, <2>3 DEF Possible
  <2>5. Held(corpus[k]) = 0
    BY <1>1 DEF Held
  <2>6. QED
    BY <2>1, <2>4, <2>5 DEF Settled, Right
<1>7. QED
  BY <1>2, <1>4, <1>5, <1>6 DEF MirrorInv, InStep, Brings

LEMMA RefHolds == Spec => []RefInv
<1>1. Init => RefInv
  BY RefInit
<1>2. IInv /\ IInv' /\ NothingLost' /\ RefInv /\ [Next]_vars => RefInv'
  BY RefStep
<1>3. QED
  BY <1>1, <1>2, InvHolds, PushLosesNothing, PTL DEF Spec

LEMMA MirrorInvConverges == MirrorInv => MirrorConverges
<1> SUFFICES ASSUME MirrorInv, ~crossed, NEW k \in Keys \ overtaken, k \notin Owed
             PROVE  mirror[k] = Held(corpus[k])
  BY DEF MirrorConverges
<1>1. Settled(k)
  BY DEF MirrorInv, InStep
<1>2. Speaking(k) = {} /\ ~(Present(corpus[k]) /\ k > cursor)
  BY DEF Speaking, Owed, PastCursor
<1>3. Right(k, mirror[k])
  BY <1>1, <1>2 DEF Settled, Possible
<1>4. QED
  BY <1>2, <1>3 DEF Right

\* As long as nothing was made out of order, aimer-web has every row that is not
\* owed as the corpus has it: an older batch never undoes a newer one, and what an
\* acknowledgement settles is what aimer-web then has (baseline-push.ts, state.ts).
THEOREM PushMirrorsInOrder == Spec => []MirrorConverges
<1>1. Init => MirrorInv
  BY MirrorInit
<1>2. IInv /\ IInv' /\ RefInv /\ MirrorInv /\ [Next]_vars => MirrorInv'
  BY MirrorStep
<1>3. MirrorInv => MirrorConverges
  BY MirrorInvConverges
<1>4. QED
  BY <1>1, <1>2, <1>3, InvHolds, RefHolds, PTL DEF Spec
=============================================================================
