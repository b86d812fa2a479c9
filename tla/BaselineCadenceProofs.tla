----------------------- MODULE BaselineCadenceProofs -----------------------
(***************************************************************************)
(* NoGap for any number of overlapping runs, any page size and page cap.   *)
(* A run may hold a cursor behind the watermark, so the invariant is about *)
(* each cursor on its own: what lies at or before it is in the corpus.     *)
(***************************************************************************)
EXTENDS BaselineCadence, TLAPS

\* The corpus holds every event up to the cursor, and the cursor is real.
Covered(cursor) == cursor <= upstream /\ 1..cursor \subseteq ingested

\* What holds of the cursors of one run.
RunInv(r) ==
    /\ pc[r] = "page" /\ ~first[r] => Covered(next[r])
    /\ pc[r] = "fetch" => Covered(next[r])
    /\ Fetched(r) =>
         /\ Covered(next[r])
         /\ next[r] <= end[r] /\ end[r] <= next[r] + PageSize
         /\ end[r] <= upstream

IInv == TypeOK /\ Covered(watermark) /\ \A r \in Runs : RunInv(r)

LEMMA InitIInv == Init => IInv
BY CadenceAssumption DEF Init, IInv, RunInv, TypeOK, Covered, Fetched

\* Type correctness is kept by every step.
LEMMA TypeStep == TypeOK /\ [Next]_vars => TypeOK'
<1> USE CadenceAssumption
<1> SUFFICES ASSUME TypeOK, [Next]_vars PROVE TypeOK'
    OBVIOUS
<1>1. CASE NewEvent
    BY <1>1 DEF TypeOK, NewEvent, corpus, runVars
<1>2. ASSUME NEW r \in Runs, Run(r) PROVE TypeOK'
    <2>1. CASE Start(r)
        BY <2>1 DEF TypeOK, Start, Goto, corpus
    <2>2. CASE Stop(r)
        BY <2>2 DEF TypeOK, Stop, Goto, corpus
    <2>3. CASE OpenPage(r)
        BY <2>3 DEF TypeOK, OpenPage, Goto, corpus
    <2>4. CASE FetchPage(r)
        <3>1. EndCursor(next[r]) \in 0..MaxEvents
            BY DEF TypeOK, EndCursor
        <3>2. QED
            BY <2>4, <3>1 DEF TypeOK, FetchPage, Goto, corpus
    <2>5. CASE AbortPage(r)
        BY <2>5 DEF TypeOK, AbortPage, Fetched, Goto, Unlock, corpus
    <2>6. CASE CommitPage(r)
        <3>1. PageEvents(r) \subseteq 1..MaxEvents
            BY DEF TypeOK, PageEvents
        <3>2. pages[r] + 1 \in 0..MaxPages
            <4>1. pages[r] \in 0..MaxPages /\ pages[r] < MaxPages
                BY <2>6 DEF TypeOK, CommitPage, Fetched
            <4>2. QED
                BY <4>1
        <3>3. QED
            BY <2>6, <3>1, <3>2
               DEF TypeOK, CommitPage, WritePage, Fetched, Goto, Unlock
    <2>7. CASE FailPage(r)
        <3>1. PageEvents(r) \subseteq 1..MaxEvents
            BY DEF TypeOK, PageEvents
        <3>2. CASE UNCHANGED <<corpus, runStatus>> /\ Unlock(r)
            BY <2>7, <3>2 DEF TypeOK, FailPage, Fetched, Goto, Unlock, corpus
        <3>3. CASE WritePage(r) /\ Fetched(r)
            <4>1. ingested' \subseteq 1..MaxEvents /\ watermark' \in 0..MaxEvents
                BY <3>1, <3>3 DEF TypeOK, WritePage
            <4>2. QED
                BY <2>7, <3>3, <4>1
                   DEF TypeOK, FailPage, WritePage, Fetched, Goto, Unlock
        <3>4. QED
            BY <2>7, <3>2, <3>3 DEF FailPage
    <2>8. CASE MarkFailed(r)
        BY <2>8 DEF TypeOK, MarkFailed, Goto, corpus
    <2>9. CASE Crash(r)
        BY <2>9 DEF TypeOK, Crash, Goto, Unlock, corpus
    <2>10. QED
        BY <1>2, <2>1, <2>2, <2>3, <2>4, <2>5, <2>6, <2>7, <2>8, <2>9 DEF Run
<1>3. CASE UNCHANGED vars
    BY <1>3 DEF TypeOK, vars, corpus, runVars
<1>4. QED
    BY <1>1, <1>2, <1>3 DEF Next

\* The page of an open transaction reaches from its cursor to its end.
LEMMA PageCovers ==
    ASSUME IInv, NEW r \in Runs, Fetched(r)
    PROVE  1..end[r] \subseteq ingested \cup PageEvents(r)
BY CadenceAssumption DEF IInv, RunInv, TypeOK, Covered, PageEvents

\* A cursor that is covered stays covered while the corpus grows.
LEMMA CoveredStep ==
    ASSUME upstream \in Nat, upstream' \in Nat, upstream <= upstream',
           ingested \subseteq ingested',
           NEW cursor \in Nat, Covered(cursor)
    PROVE  cursor <= upstream' /\ 1..cursor \subseteq ingested'
BY DEF Covered

\* A run keeps what the invariant says of it while upstream and the corpus
\* grow and its own state stays, or it leaves its page.
LEMMA RunInvStep ==
    ASSUME TypeOK, TypeOK', NEW r \in Runs, RunInv(r),
           upstream <= upstream', ingested \subseteq ingested',
           pc'[r] = pc[r] \/ pc'[r] \in {"idle", "markFailed"},
           next'[r] = next[r], first'[r] = first[r], end'[r] = end[r]
    PROVE  RunInv(r)'
<1>1. /\ upstream \in Nat /\ upstream' \in Nat
      /\ next[r] \in Nat /\ end[r] \in Nat
    BY CadenceAssumption DEF TypeOK
<1>2. Covered(next[r]) => Covered(next[r])'
    BY <1>1, CoveredStep DEF Covered
<1>3. QED
    BY <1>1, <1>2 DEF RunInv, Fetched

\* The corpus and the watermark after a page: every event up to the new
\* watermark is in the corpus, and so is every event up to the page's end.
LEMMA WriteCovers ==
    ASSUME IInv, TypeOK', NEW r \in Runs, Fetched(r), WritePage(r),
           upstream' = upstream
    PROVE  /\ ingested \subseteq ingested'
           /\ end[r] <= upstream' /\ 1..end[r] \subseteq ingested'
           /\ Covered(watermark)'
<1>1. /\ ingested \subseteq ingested'
      /\ 1..end[r] \subseteq ingested'
    BY PageCovers DEF WritePage
<1>2. end[r] <= upstream'
    BY DEF IInv, RunInv
<1>3. Covered(watermark)'
    BY <1>1, <1>2 DEF IInv, Covered, WritePage
<1>4. QED
    BY <1>1, <1>2, <1>3

\* One step of one run keeps the invariant of every run and of the watermark.
LEMMA RunStep ==
    ASSUME IInv, TypeOK', NEW r \in Runs, Run(r)
    PROVE  IInv'
<1> DEFINE Others ==
        \A q \in Runs \ {r} : /\ pc'[q] = pc[q] /\ next'[q] = next[q]
                              /\ first'[q] = first[q] /\ end'[q] = end[q]
<1>0. /\ TypeOK /\ Covered(watermark) /\ \A q \in Runs : RunInv(q)
      /\ upstream \in Nat /\ watermark \in Nat
    BY CadenceAssumption DEF IInv, TypeOK
<1>1. ASSUME Others, RunInv(r)', Covered(watermark)',
             upstream' = upstream, ingested \subseteq ingested'
      PROVE  IInv'
    <2>1. ASSUME NEW q \in Runs, q # r PROVE RunInv(q)'
        BY <1>0, <1>1, <2>1, RunInvStep
    <2>2. QED
        BY <1>1, <2>1 DEF IInv
<1>2. ASSUME UNCHANGED <<upstream, corpus>>, Others,
             pc'[r] \in {"idle", "markFailed"}
      PROVE  IInv'
    <2>1. Covered(watermark)'
        BY <1>0, <1>2 DEF Covered, corpus
    <2>2. RunInv(r)'
        BY <1>2 DEF RunInv, Fetched
    <2>3. QED
        BY <1>1, <1>2, <2>1, <2>2 DEF corpus
<1>3. CASE Start(r)
    <2>1. RunInv(r)' /\ Covered(watermark)'
        BY <1>0, <1>3 DEF Start, Goto, TypeOK, RunInv, Fetched, Covered, corpus
    <2>2. Others
        BY <1>0, <1>3 DEF Start, Goto, TypeOK
    <2>3. QED
        BY <1>1, <1>3, <2>1, <2>2 DEF Start, corpus
<1>4. CASE Stop(r)
    BY <1>0, <1>2, <1>4 DEF Stop, Goto, TypeOK
<1>5. CASE OpenPage(r)
    <2>1. UNCHANGED <<upstream, corpus>> /\ Covered(watermark)' /\ Others
        BY <1>0, <1>5 DEF OpenPage, Goto, TypeOK, Covered, corpus
    <2>2. CASE lock # NoRun
        BY <1>0, <1>2, <1>5, <2>1, <2>2 DEF OpenPage, Goto, TypeOK
    <2>3. CASE lock = NoRun
        <3>1. pc'[r] = "fetch" /\ next'[r] = IF first[r] THEN watermark ELSE next[r]
            BY <1>0, <1>5, <2>3 DEF OpenPage, Goto, TypeOK
        <3>2. Covered(next[r])'
            BY <1>0, <1>5, <2>1, <3>1 DEF OpenPage, Covered, RunInv, TypeOK, corpus
        <3>3. RunInv(r)'
            BY <3>1, <3>2 DEF RunInv, Fetched
        <3>4. QED
            BY <1>1, <2>1, <3>3 DEF corpus
    <2>4. QED
        BY <2>2, <2>3
<1>6. CASE FetchPage(r)
    <2>1. UNCHANGED <<upstream, corpus>> /\ Covered(watermark)' /\ Others
        BY <1>0, <1>6 DEF FetchPage, Goto, TypeOK, Covered, corpus
    <2>2. /\ next[r] <= EndCursor(next[r]) /\ EndCursor(next[r]) <= next[r] + PageSize
          /\ EndCursor(next[r]) <= upstream
        BY <1>0, <1>6, CadenceAssumption DEF FetchPage, EndCursor, RunInv, Covered, TypeOK
    <2>3. /\ pc'[r] \in {"more", "last"}
          /\ next'[r] = next[r] /\ end'[r] = EndCursor(next[r])
        BY <1>0, <1>6 DEF FetchPage, Goto, TypeOK
    <2>4. Covered(next[r])'
        BY <1>0, <1>6, <2>1, <2>3 DEF FetchPage, RunInv, Covered, corpus
    <2>5. RunInv(r)'
        BY <2>1, <2>2, <2>3, <2>4 DEF RunInv, Fetched
    <2>6. QED
        BY <1>1, <2>1, <2>5 DEF corpus
<1>7. CASE AbortPage(r)
    BY <1>0, <1>2, <1>7 DEF AbortPage, Goto, TypeOK
<1>8. CASE CommitPage(r)
    <2>1. /\ Fetched(r) /\ WritePage(r) /\ upstream' = upstream
          /\ pc'[r] \in {"page", "idle"} /\ next'[r] = end[r]
          /\ Others
        BY <1>0, <1>8 DEF CommitPage, Goto, TypeOK
    <2>2. /\ ingested \subseteq ingested' /\ Covered(watermark)'
          /\ end[r] <= upstream' /\ 1..end[r] \subseteq ingested'
        BY <2>1, WriteCovers
    <2>3. RunInv(r)'
        BY <2>1, <2>2 DEF RunInv, Fetched, Covered
    <2>4. QED
        BY <1>1, <2>1, <2>2, <2>3
<1>9. CASE FailPage(r)
    <2>1. pc'[r] = "markFailed" /\ Others /\ upstream' = upstream
        BY <1>0, <1>9 DEF FailPage, Goto, TypeOK
    <2>2. CASE UNCHANGED <<corpus, runStatus>>
        BY <1>2, <2>1, <2>2 DEF corpus
    <2>3. CASE Fetched(r) /\ WritePage(r)
        <3>1. ingested \subseteq ingested' /\ Covered(watermark)'
            BY <2>1, <2>3, WriteCovers
        <3>2. RunInv(r)'
            BY <2>1 DEF RunInv, Fetched
        <3>3. QED
            BY <1>1, <2>1, <3>1, <3>2
    <2>4. QED
        BY <1>9, <2>2, <2>3 DEF FailPage
<1>10. CASE MarkFailed(r)
    BY <1>0, <1>2, <1>10 DEF MarkFailed, Goto, TypeOK
<1>11. CASE Crash(r)
    BY <1>0, <1>2, <1>11 DEF Crash, Goto, TypeOK
<1>12. QED
    BY <1>3, <1>4, <1>5, <1>6, <1>7, <1>8, <1>9, <1>10, <1>11 DEF Run

\* Every step keeps the invariant.
LEMMA IInvStep == IInv /\ [Next]_vars => IInv'
<1> SUFFICES ASSUME IInv, [Next]_vars PROVE IInv'
    OBVIOUS
<1>1. TypeOK'
    BY TypeStep DEF IInv
<1>2. ASSUME NEW r \in Runs, Run(r) PROVE IInv'
    BY <1>1, <1>2, RunStep
<1>3. CASE NewEvent \/ UNCHANGED vars
    <2>1. /\ upstream <= upstream' /\ UNCHANGED <<corpus, runVars>>
          /\ upstream \in Nat /\ watermark \in Nat
        BY <1>3, CadenceAssumption DEF NewEvent, vars, IInv, TypeOK
    <2>2. Covered(watermark)'
        BY <1>1, <2>1 DEF IInv, TypeOK, Covered, corpus
    <2>3. ASSUME NEW r \in Runs PROVE RunInv(r)'
        BY <1>1, <2>1, RunInvStep DEF IInv, corpus, runVars
    <2>4. QED
        BY <1>1, <2>2, <2>3 DEF IInv
<1>4. QED
    BY <1>2, <1>3 DEF Next

\* However many runs overlap, fail, crash or move the watermark back, and
\* whatever the page size and the page cap: the variables keep their types
\* and the watermark never passes an event that is not in the corpus.
LEMMA CadenceSafe == Spec => [](TypeOK /\ NoGap)
<1>1. IInv => TypeOK /\ NoGap
    BY DEF IInv, RunInv, NoGap, Covered
<1>2. QED
    BY <1>1, InitIInv, IInvStep, PTL DEF Spec

\* Runs, pages, lock and watermark of the cadence stay typed.
THEOREM CadenceTyped == Spec => []TypeOK
BY CadenceSafe, PTL

\* The watermark never passes an event that is not in the corpus, however many runs
\* overlap, fail, crash or move it back (cadence.ts, markOk; pager.ts, the cursor).
THEOREM CadenceLeavesNoGap == Spec => []NoGap
BY CadenceSafe, PTL
=============================================================================
