-------------------------- MODULE ApplyAuditProofs --------------------------
(***************************************************************************)
(* The audit protocol is right for any number of wrappers and sweeps.      *)
(*                                                                         *)
(* None of the safety properties is inductive alone: that a success never  *)
(* disappears unaudited needs the completion mark to be durable, which     *)
(* needs whoever is about to mark to have seen the audit row, and that the *)
(* mark keeps its slot needs a release to be its claimant's.               *)
(***************************************************************************)
EXTENDS ApplyAudit, TLAPS

IInv ==
    /\ TypeOK
    /\ status = "succeeded" => won
    /\ won => status \in {"succeeded", "gone"}
    /\ slot => won
    /\ AuditedAtMostOnce
    /\ CompletedIsDurable
    /\ NeverRemovedUnaudited
    /\ \A a \in Actors : pc[a] = "mark" => audits > 0
    /\ \A w \in Wrappers : pc[w] \in {"record", "release"} => slot
    /\ OneWrapperAtATime

\* Initially no slot, mark or audit row exists.
LEMMA InitIInv == Init => IInv
<1> SUFFICES ASSUME Init PROVE IInv
    OBVIOUS
<1>1. DOMAIN pc = Actors /\ \A a \in Actors : pc[a] = "idle"
    BY DEF Init
<1>2. TypeOK
    BY <1>1 DEF Init, TypeOK, Actors
<1>3. OneWrapperAtATime
    BY <1>1 DEF OneWrapperAtATime, Actors
<1>4. QED
    BY <1>1, <1>2, <1>3
       DEF Init, IInv, Actors, AuditedAtMostOnce, CompletedIsDurable,
           NeverRemovedUnaudited

\* An actor that moves stays within its program.
LEMMA GotoType ==
    ASSUME TypeOK, NEW a \in Actors, NEW label, Goto(a, label),
           a \in Wrappers =>
              label \in {"idle", "record", "mark", "release", "done"},
           a \in Sweeps =>
              label \in {"idle", "claim", "record", "mark", "purge"}
    PROVE  /\ DOMAIN pc' = Actors
           /\ pc'[a] = label
           /\ \A b \in Actors : b # a => pc'[b] = pc[b]
           /\ \A w \in Wrappers :
                 pc'[w] \in {"idle", "record", "mark", "release", "done"}
           /\ \A s \in Sweeps :
                 pc'[s] \in {"idle", "claim", "record", "mark", "purge"}
BY DEF TypeOK, Goto, Actors

\* The insert keeps the audit row unique, and lets only those mark that saw it.
LEMMA InsertStep ==
    ASSUME IInv, NEW a \in Actors, pc[a] = "record", NEW failed,
           Insert(a, "mark", "mark", failed),
           failed = IF a \in Sweeps THEN "purge" ELSE "release"
    PROVE  IInv'
<1>1. /\ audits' \in Nat /\ audits' >= audits /\ audits' <= 1
      /\ UNCHANGED <<row, clock, won>>
      /\ \E label \in {"mark", failed} :
            Goto(a, label) /\ (label = "mark" => audits' > 0)
    BY DEF IInv, TypeOK, Insert, Duplicate, AuditedAtMostOnce
<1>2. PICK label \in {"mark", failed} :
            Goto(a, label) /\ (label = "mark" => audits' > 0)
    BY <1>1
<1>3. /\ DOMAIN pc' = Actors
      /\ pc'[a] = label
      /\ \A b \in Actors : b # a => pc'[b] = pc[b]
      /\ \A w \in Wrappers :
            pc'[w] \in {"idle", "record", "mark", "release", "done"}
      /\ \A s \in Sweeps :
            pc'[s] \in {"idle", "claim", "record", "mark", "purge"}
    BY <1>2, GotoType, ActorsAssumption DEF IInv, Actors
<1>4. TypeOK'
    BY <1>1, <1>3 DEF IInv, TypeOK, row, clock
<1>5. \A b \in Actors : pc'[b] = "mark" => audits' > 0
    BY <1>1, <1>2, <1>3 DEF IInv, TypeOK
<1>6. \A w \in Wrappers : pc'[w] \in {"record", "release"} =>
            pc[w] \in {"record", "release"}
    BY <1>3 DEF Actors
<1>7. /\ OneWrapperAtATime'
      /\ \A w \in Wrappers : pc'[w] \in {"record", "release"} => slot'
    BY <1>1, <1>6 DEF IInv, OneWrapperAtATime, row
<1>8. QED
    BY <1>1, <1>4, <1>5, <1>7
       DEF IInv, TypeOK, AuditedAtMostOnce, CompletedIsDurable,
           NeverRemovedUnaudited, row

\* A claim makes its wrapper the only one that writes.
LEMMA ClaimStep ==
    ASSUME IInv, NEW a \in Actors, NEW lost, Claim(a, "record", lost),
           lost = IF a \in Sweeps THEN "purge" ELSE "done"
    PROVE  IInv'
<1>1. CASE SlotFree
    <2>1. /\ slot' = TRUE /\ slotAged' = FALSE /\ Goto(a, "record")
          /\ UNCHANGED <<status, completed, wonAged, overdue, audits, won>>
        BY <1>1 DEF Claim
    <2>2. /\ DOMAIN pc' = Actors
          /\ pc'[a] = "record"
          /\ \A b \in Actors : b # a => pc'[b] = pc[b]
          /\ \A w \in Wrappers :
                pc'[w] \in {"idle", "record", "mark", "release", "done"}
          /\ \A s \in Sweeps :
                pc'[s] \in {"idle", "claim", "record", "mark", "purge"}
        BY <2>1, GotoType DEF IInv
    <2>3. \A w \in Wrappers : w # a => pc'[w] \notin {"record", "release"}
        BY <1>1, <2>2 DEF IInv, SlotFree, Actors
    <2>4. TypeOK' /\ OneWrapperAtATime'
        BY <2>1, <2>2, <2>3 DEF IInv, TypeOK, OneWrapperAtATime
    <2>5. \A b \in Actors : pc'[b] = "mark" => audits' > 0
        BY <2>1, <2>2 DEF IInv
    <2>6. QED
        BY <1>1, <2>1, <2>4, <2>5
           DEF IInv, SlotFree, AuditedAtMostOnce, CompletedIsDurable,
               NeverRemovedUnaudited
<1>2. CASE ~SlotFree
    <2>1. Goto(a, lost) /\ UNCHANGED <<row, clock, audits, won>>
        BY <1>2 DEF Claim
    <2>2. /\ DOMAIN pc' = Actors
          /\ pc'[a] = lost
          /\ \A b \in Actors : b # a => pc'[b] = pc[b]
          /\ \A w \in Wrappers :
                pc'[w] \in {"idle", "record", "mark", "release", "done"}
          /\ \A s \in Sweeps :
                pc'[s] \in {"idle", "claim", "record", "mark", "purge"}
        BY <2>1, GotoType, ActorsAssumption DEF IInv, Actors
    <2>3. \A w \in Wrappers : pc'[w] \in {"record", "release"} =>
                pc[w] \in {"record", "release"}
        BY <2>2 DEF Actors
    <2>4. \A b \in Actors : pc'[b] = "mark" => audits' > 0
        BY <2>1, <2>2 DEF IInv
    <2>5. QED
        BY <2>1, <2>2, <2>3, <2>4
           DEF IInv, TypeOK, AuditedAtMostOnce, CompletedIsDurable,
               NeverRemovedUnaudited, OneWrapperAtATime, row, clock
<1>3. QED
    BY <1>1, <1>2

\* A call that stops or moves on without writing keeps the invariant, if it
\* does not move to one of the labels that promise something.
LEMMA MoveStep ==
    ASSUME IInv, NEW a \in Actors, NEW label, Goto(a, label),
           label \in IF a \in Sweeps THEN {"idle", "claim", "record", "purge"}
                                     ELSE {"done"}
    PROVE  /\ DOMAIN pc' = Actors
           /\ \A w \in Wrappers :
                 pc'[w] \in {"idle", "record", "mark", "release", "done"}
           /\ \A s \in Sweeps :
                 pc'[s] \in {"idle", "claim", "record", "mark", "purge"}
           /\ \A b \in Actors : pc'[b] = "mark" => pc[b] = "mark"
           /\ \A w \in Wrappers : pc'[w] \in {"record", "release"} =>
                 pc[w] \in {"record", "release"} /\ w # a
<1>1. /\ DOMAIN pc' = Actors
      /\ pc'[a] = label
      /\ \A b \in Actors : b # a => pc'[b] = pc[b]
      /\ \A w \in Wrappers :
            pc'[w] \in {"idle", "record", "mark", "release", "done"}
      /\ \A s \in Sweeps :
            pc'[s] \in {"idle", "claim", "record", "mark", "purge"}
    BY GotoType, ActorsAssumption DEF IInv, Actors
<1>2. QED
    BY <1>1, ActorsAssumption DEF Actors

\* The completion mark is set by an actor that saw the audit row.
LEMMA MarkStep ==
    ASSUME IInv, NEW a \in Actors, pc[a] = "mark",
           Goto(a, IF a \in Sweeps THEN "purge" ELSE "done"),
           Mark \/ UNCHANGED completed,
           UNCHANGED <<status, slot, clock, audits, won>>
    PROVE  IInv'
<1>1. audits > 0
    BY DEF IInv
<1>2. completed' \in BOOLEAN /\ (completed' => completed \/ slot)
    BY DEF IInv, TypeOK, Mark
<1>3. /\ DOMAIN pc' = Actors
      /\ \A w \in Wrappers :
            pc'[w] \in {"idle", "record", "mark", "release", "done"}
      /\ \A s \in Sweeps :
            pc'[s] \in {"idle", "claim", "record", "mark", "purge"}
      /\ \A w \in Wrappers : pc'[w] \in {"record", "release"} =>
            pc[w] \in {"record", "release"}
    BY MoveStep
<1>4. TypeOK' /\ CompletedIsDurable'
    BY <1>1, <1>2, <1>3 DEF IInv, TypeOK, CompletedIsDurable, clock
<1>5. QED
    BY <1>1, <1>3, <1>4
       DEF IInv, AuditedAtMostOnce, NeverRemovedUnaudited, OneWrapperAtATime

\* Only the claimant releases, and never under a completion mark.
LEMMA ReleaseStep ==
    ASSUME IInv, NEW w \in Wrappers, WrapperRelease(w)
    PROVE  IInv'
<1>1. /\ pc[w] = "release" /\ Goto(w, "done")
      /\ UNCHANGED <<status, completed, clock, audits, won>>
    BY DEF WrapperRelease
<1>2. slot' \in BOOLEAN /\ (slot' => slot) /\ (slot /\ completed => slot')
    BY DEF WrapperRelease, Release, IInv, TypeOK
<1>3. /\ DOMAIN pc' = Actors
      /\ \A v \in Wrappers :
            pc'[v] \in {"idle", "record", "mark", "release", "done"}
      /\ \A s \in Sweeps :
            pc'[s] \in {"idle", "claim", "record", "mark", "purge"}
      /\ \A b \in Actors : pc'[b] = "mark" => pc[b] = "mark"
      /\ \A v \in Wrappers : pc'[v] \in {"record", "release"} =>
            pc[v] \in {"record", "release"} /\ v # w
    BY <1>1, MoveStep, ActorsAssumption DEF Actors
<1>4. \A v \in Wrappers : pc'[v] \notin {"record", "release"}
    BY <1>1, <1>3 DEF IInv, OneWrapperAtATime
<1>5. TypeOK' /\ CompletedIsDurable'
    BY <1>1, <1>2, <1>3 DEF IInv, TypeOK, CompletedIsDurable, clock
<1>6. QED
    BY <1>1, <1>2, <1>3, <1>4, <1>5
       DEF IInv, AuditedAtMostOnce, NeverRemovedUnaudited, OneWrapperAtATime

\* A row is deleted only when it never won or its audit is complete.
LEMMA RemovalStep ==
    ASSUME IInv, status' = "gone", Removable, status # "gone",
           UNCHANGED <<slot, completed, clock, audits, won>>
    PROVE  /\ status' \in {"open", "succeeded", "failed", "gone"}
           /\ NeverRemovedUnaudited'
BY DEF IInv, Removable, NeverRemovedUnaudited, CompletedIsDurable

\* Every step keeps the invariant.
LEMMA NextIInv == IInv /\ [Next]_vars => IInv'
<1> SUFFICES ASSUME IInv, [Next]_vars PROVE IInv'
    OBVIOUS
<1>1. CASE Settle
    <2>1. TypeOK'
        BY <1>1 DEF Settle, IInv, TypeOK, clock
    <2>2. QED
        BY <1>1, <2>1
           DEF Settle, IInv, TypeOK, AuditedAtMostOnce, CompletedIsDurable,
               NeverRemovedUnaudited, OneWrapperAtATime
<1>2. CASE Age
    <2>1. TypeOK'
        BY <1>2 DEF Age, IInv, TypeOK, row
    <2>2. QED
        BY <1>2, <2>1
           DEF Age, IInv, row, AuditedAtMostOnce, CompletedIsDurable,
               NeverRemovedUnaudited, OneWrapperAtATime
<1>3. CASE AccountDeleted
    <2>1. NeverRemovedUnaudited'
        BY <1>3, RemovalStep DEF AccountDeleted
    <2>2. TypeOK'
        BY <1>3 DEF AccountDeleted, IInv, TypeOK, clock
    <2>3. QED
        BY <1>3, <2>1, <2>2
           DEF AccountDeleted, IInv, AuditedAtMostOnce, CompletedIsDurable,
               OneWrapperAtATime
<1>4. ASSUME NEW w \in Wrappers, WrapperClaim(w)
      PROVE  IInv'
    BY <1>4, ClaimStep, ActorsAssumption DEF WrapperClaim, Actors
<1>5. ASSUME NEW w \in Wrappers, WrapperRecord(w)
      PROVE  IInv'
    BY <1>5, InsertStep, ActorsAssumption DEF WrapperRecord, Actors
<1>6. ASSUME NEW w \in Wrappers, WrapperMark(w)
      PROVE  IInv'
    BY <1>6, MarkStep, ActorsAssumption DEF WrapperMark, Actors
<1>7. ASSUME NEW w \in Wrappers, WrapperRelease(w)
      PROVE  IInv'
    BY <1>7, ReleaseStep
<1>8. ASSUME NEW s \in Sweeps, SweepSelect(s)
      PROVE  IInv'
    <2>1. PICK label \in {"claim", "record", "purge"} :
                Goto(s, label) /\ UNCHANGED <<row, clock, audits, won>>
        BY <1>8 DEF SweepSelect
    <2>2. /\ DOMAIN pc' = Actors
          /\ \A v \in Wrappers :
                pc'[v] \in {"idle", "record", "mark", "release", "done"}
          /\ \A t \in Sweeps :
                pc'[t] \in {"idle", "claim", "record", "mark", "purge"}
          /\ \A b \in Actors : pc'[b] = "mark" => pc[b] = "mark"
          /\ \A v \in Wrappers : pc'[v] \in {"record", "release"} =>
                pc[v] \in {"record", "release"} /\ v # s
        BY <2>1, MoveStep DEF Actors
    <2>3. QED
        BY <2>1, <2>2
           DEF IInv, TypeOK, row, clock, AuditedAtMostOnce, CompletedIsDurable,
               NeverRemovedUnaudited, OneWrapperAtATime
<1>9. ASSUME NEW s \in Sweeps, SweepClaim(s)
      PROVE  IInv'
    BY <1>9, ClaimStep DEF SweepClaim, Actors
<1>10. ASSUME NEW s \in Sweeps, SweepRecord(s)
       PROVE  IInv'
    BY <1>10, InsertStep DEF SweepRecord, Actors
<1>11. ASSUME NEW s \in Sweeps, SweepMark(s)
       PROVE  IInv'
    BY <1>11, MarkStep DEF SweepMark, Actors
<1>12. ASSUME NEW s \in Sweeps, PurgeRetained(s)
       PROVE  IInv'
    <2>1. /\ Goto(s, "idle")
          /\ UNCHANGED <<slot, completed, clock, audits, won>>
          /\ status' = status \/ (status' = "gone" /\ Removable /\ status # "gone")
        BY <1>12 DEF PurgeRetained
    <2>2. /\ DOMAIN pc' = Actors
          /\ \A v \in Wrappers :
                pc'[v] \in {"idle", "record", "mark", "release", "done"}
          /\ \A t \in Sweeps :
                pc'[t] \in {"idle", "claim", "record", "mark", "purge"}
          /\ \A b \in Actors : pc'[b] = "mark" => pc[b] = "mark"
          /\ \A v \in Wrappers : pc'[v] \in {"record", "release"} =>
                pc[v] \in {"record", "release"} /\ v # s
        BY <2>1, MoveStep DEF Actors
    <2>3. NeverRemovedUnaudited'
        BY <2>1, RemovalStep DEF IInv, NeverRemovedUnaudited
    <2>4. QED
        BY <2>1, <2>2, <2>3
           DEF IInv, TypeOK, clock, AuditedAtMostOnce, CompletedIsDurable,
               OneWrapperAtATime
<1>13. ASSUME NEW a \in Actors, Crash(a)
       PROVE  IInv'
    <2>1. /\ Goto(a, IF a \in Sweeps THEN "idle" ELSE "done")
          /\ UNCHANGED <<row, clock, audits, won>>
        BY <1>13 DEF Crash
    <2>2. /\ DOMAIN pc' = Actors
          /\ \A v \in Wrappers :
                pc'[v] \in {"idle", "record", "mark", "release", "done"}
          /\ \A t \in Sweeps :
                pc'[t] \in {"idle", "claim", "record", "mark", "purge"}
          /\ \A b \in Actors : pc'[b] = "mark" => pc[b] = "mark"
          /\ \A v \in Wrappers : pc'[v] \in {"record", "release"} =>
                pc[v] \in {"record", "release"} /\ v # a
        BY <2>1, MoveStep
    <2>3. QED
        BY <2>1, <2>2
           DEF IInv, TypeOK, row, clock, AuditedAtMostOnce, CompletedIsDurable,
               NeverRemovedUnaudited, OneWrapperAtATime
<1>14. CASE UNCHANGED vars
    BY <1>14
       DEF vars, row, clock, IInv, TypeOK, AuditedAtMostOnce,
           CompletedIsDurable, NeverRemovedUnaudited, OneWrapperAtATime
<1>15. QED
    BY <1>1, <1>2, <1>3, <1>4, <1>5, <1>6, <1>7, <1>8, <1>9, <1>10, <1>11,
       <1>12, <1>13, <1>14
       DEF Next, Sweep

\* For any number of overlapping wrappers and sweeps an attempt is audited
\* at most once, its completion mark is durable, a success is never removed
\* unaudited, and the slot serialises the wrappers.
LEMMA AuditSafe ==
    Spec => [](/\ TypeOK
               /\ AuditedAtMostOnce
               /\ CompletedIsDurable
               /\ NeverRemovedUnaudited
               /\ OneWrapperAtATime)
<1>1. IInv => /\ TypeOK
              /\ AuditedAtMostOnce
              /\ CompletedIsDurable
              /\ NeverRemovedUnaudited
              /\ OneWrapperAtATime
    BY DEF IInv
<1>2. QED
    BY <1>1, InitIInv, NextIInv, PTL DEF Spec

\* The state of the audit slot, its holders and the audit database stays typed.
THEOREM AuditTyped == Spec => []TypeOK
BY AuditSafe, PTL

\* For any number of overlapping wrappers and sweeps, an attempt has at most one
\* node.apply row in the audit database (apply-attempts-cleanup.ts, its sweep and
\* the wrapper of apply-actions.ts).
THEOREM AuditedOnce == Spec => []AuditedAtMostOnce
BY AuditSafe, PTL

\* A completed audit slot means that the row is in the audit database, and no later
\* release of the slot takes it back.
THEOREM CompletionIsDurable == Spec => []CompletedIsDurable
BY AuditSafe, PTL

\* Retention and the deletion of an account never remove a success whose audit row
\* has not been written.
THEOREM NoUnauditedRemoval == Spec => []NeverRemovedUnaudited
BY AuditSafe, PTL

\* At most one wrapper at a time is between its claim of the slot and its mark or
\* release (apply-actions.ts).
THEOREM WrappersTakeTurns == Spec => []OneWrapperAtATime
BY AuditSafe, PTL
=============================================================================
