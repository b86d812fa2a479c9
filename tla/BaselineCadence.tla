-------------------------- MODULE BaselineCadence --------------------------
(***************************************************************************)
(* One customer's baseline ingestion: runs of runTriageBaselineCadence     *)
(* read the upstream event list page by page, and each page commits its    *)
(* events and the watermark in one transaction, under an advisory lock     *)
(* that only lives as long as the transaction.  Runs overlap: the          *)
(* scheduler ticks every 15 minutes, the dispatcher may give up on a run   *)
(* that is still going, and operators start runs by hand.                  *)
(*                                                                         *)
(* An event is its rank in the upstream list, which only grows at its end; *)
(* a cursor is the rank of the last event read, 0 for none.  A transaction *)
(* is visible at its COMMIT, so what it writes before is local to the run. *)
(***************************************************************************)
EXTENDS Naturals

CONSTANTS
    Runs,      \* invocations of the runner that may overlap
    NoRun,     \* the lock's holder when it is free
    PageSize,  \* REVIEW_MAX_PAGE_SIZE
    MaxPages,  \* MAX_PAGES_PER_RUN
    MaxEvents  \* bound: events the upstream list ever holds

ASSUME CadenceAssumption ==
    /\ NoRun \notin Runs
    /\ PageSize \in Nat \ {0} /\ MaxPages \in Nat \ {0} /\ MaxEvents \in Nat

VARIABLES
    upstream,   \* length of the upstream list
    ingested,   \* events in observed_event_meta and baseline_triaged_event
    watermark,  \* baseline_corpus_state.last_event_cursor
    runStatus,  \* baseline_corpus_state.last_run_status, "none" for NULL
    lock,       \* holder of the customer's advisory lock
    pc,         \* where each run stands; it commits a page of several ("more")
                \* or the "last" one, as hasNextPage said when it was fetched
    next,       \* nextStartCursor
    first,      \* isFirstPage
    pages,      \* pages committed by this run
    end         \* endCursor of the page in the open transaction

corpus == <<ingested, watermark>>
runVars == <<pc, next, first, pages, end>>
vars == <<upstream, corpus, runStatus, lock, runVars>>

Init ==
    /\ upstream = 0
    /\ ingested = {} /\ watermark = 0 /\ runStatus = "none"
    /\ lock = NoRun
    /\ pc = [r \in Runs |-> "idle"]
    /\ next = [r \in Runs |-> 0]
    /\ first = [r \in Runs |-> TRUE]
    /\ pages = [r \in Runs |-> 0]
    /\ end = [r \in Runs |-> 0]

Goto(r, label) == pc' = [pc EXCEPT ![r] = label]

\* The end of a transaction, and of the process that held it, frees the lock.
Unlock(r) == lock' = IF lock = r THEN NoRun ELSE lock

NewEvent ==
    /\ upstream < MaxEvents
    /\ upstream' = upstream + 1
    /\ UNCHANGED <<corpus, runStatus, lock, runVars>>

-----------------------------------------------------------------------------
Start(r) ==
    /\ pc[r] = "idle"
    /\ Goto(r, "page")
    /\ first' = [first EXCEPT ![r] = TRUE]
    /\ pages' = [pages EXCEPT ![r] = 0]
    /\ UNCHANGED <<upstream, corpus, runStatus, lock, next, end>>

\* The run ends: its signal is aborted, or the page cap is reached.
Stop(r) ==
    /\ pc[r] = "page"
    /\ Goto(r, "idle")
    /\ UNCHANGED <<upstream, corpus, runStatus, lock, next, first, pages, end>>

\* Fault: every run starts over.
OpenPageFromStart(r) ==
    /\ pc[r] = "page" /\ pages[r] < MaxPages
    /\ IF lock = NoRun
       THEN /\ lock' = r
            /\ Goto(r, "fetch")
            /\ next' = IF first[r] THEN [next EXCEPT ![r] = 0] ELSE next
       ELSE Goto(r, "idle") /\ UNCHANGED <<lock, next>>
    /\ UNCHANGED <<upstream, corpus, runStatus, first, pages, end>>

\* BEGIN and the lock; a run that does not get it is skipped, or stops at
\* the watermark it committed.  The first page reads where to start.
OpenPage(r) ==
    /\ pc[r] = "page" /\ pages[r] < MaxPages
    /\ IF lock = NoRun
       THEN /\ lock' = r
            /\ Goto(r, "fetch")
            /\ next' = IF first[r] THEN [next EXCEPT ![r] = watermark] ELSE next
       ELSE Goto(r, "idle") /\ UNCHANGED <<lock, next>>
    /\ UNCHANGED <<upstream, corpus, runStatus, first, pages, end>>

\* Fault: the end cursor of the list, not of the page.
EndCursorOfList(cursor) == upstream

EndCursor(cursor) ==
    IF cursor + PageSize < upstream THEN cursor + PageSize ELSE upstream

FetchPage(r) ==
    /\ pc[r] = "fetch"
    /\ end' = [end EXCEPT ![r] = EndCursor(next[r])]
    /\ Goto(r, IF EndCursor(next[r]) < upstream THEN "more" ELSE "last")
    /\ UNCHANGED <<upstream, corpus, runStatus, lock, next, first, pages>>

Fetched(r) == pc[r] \in {"more", "last"}

\* Fault: the run stops without the ROLLBACK.
AbortPageHolding(r) ==
    /\ Fetched(r)
    /\ Goto(r, "idle")
    /\ UNCHANGED <<upstream, corpus, runStatus, lock, next, first, pages, end>>

\* The signal was aborted while the page was fetched: ROLLBACK and stop.
AbortPage(r) ==
    /\ Fetched(r)
    /\ Unlock(r)
    /\ Goto(r, "idle")
    /\ UNCHANGED <<upstream, corpus, runStatus, next, first, pages, end>>

PageEvents(r) ==
    {e \in (next[r] + 1)..(next[r] + PageSize) : e <= end[r]}

\* The page's INSERTs, markOk and COMMIT; an empty page keeps the cursor.
WritePage(r) ==
    /\ ingested' = ingested \cup PageEvents(r)
    /\ watermark' = IF PageEvents(r) = {} THEN watermark ELSE end[r]
    /\ runStatus' = "ok"
    /\ Unlock(r)

CommitPage(r) ==
    /\ Fetched(r)
    /\ WritePage(r)
    /\ next' = [next EXCEPT ![r] = end[r]]
    /\ first' = [first EXCEPT ![r] = FALSE]
    /\ pages' = [pages EXCEPT ![r] = @ + 1]
    /\ Goto(r, IF pc[r] = "more" THEN "page" ELSE "idle")
    /\ UNCHANGED <<upstream, end>>

\* The fetch or a statement fails, or the answer of a COMMIT that took
\* effect is lost.
FailPage(r) ==
    /\ pc[r] = "fetch" \/ Fetched(r)
    /\ Goto(r, "markFailed")
    /\ \/ Unlock(r) /\ UNCHANGED <<corpus, runStatus>>
       \/ Fetched(r) /\ WritePage(r)
    /\ UNCHANGED <<upstream, next, first, pages, end>>

\* Outside the transaction, and a failure of it is swallowed.
MarkFailed(r) ==
    /\ pc[r] = "markFailed"
    /\ Goto(r, "idle")
    /\ runStatus' \in {runStatus, "failed"}
    /\ UNCHANGED <<upstream, corpus, lock, next, first, pages, end>>

\* The server process dies; the database rolls its transaction back.
Crash(r) ==
    /\ pc[r] # "idle"
    /\ Unlock(r)
    /\ Goto(r, "idle")
    /\ UNCHANGED <<upstream, corpus, runStatus, next, first, pages, end>>

-----------------------------------------------------------------------------
Run(r) ==
    \/ Start(r) \/ Stop(r) \/ OpenPage(r) \/ FetchPage(r) \/ AbortPage(r)
    \/ CommitPage(r) \/ FailPage(r) \/ MarkFailed(r) \/ Crash(r)

Next == NewEvent \/ \E r \in Runs : Run(r)

Spec == Init /\ [][Next]_vars

\* The scheduler keeps starting runs, and neither crashes, aborts nor
\* failures upstream or in the database last for ever.
FairSpec ==
    /\ Spec
    /\ \A r \in Runs :
        /\ WF_vars(Start(r)) /\ WF_vars(Stop(r)) /\ WF_vars(MarkFailed(r))
        /\ SF_vars(OpenPage(r) /\ lock = NoRun)
        /\ SF_vars(FetchPage(r)) /\ SF_vars(CommitPage(r))

-----------------------------------------------------------------------------
(* Properties.                                                             *)

\* Every variable has its type; the lock is held by a run with an open page.
TypeOK ==
    /\ upstream \in 0..MaxEvents
    /\ ingested \subseteq 1..MaxEvents
    /\ watermark \in 0..MaxEvents
    /\ runStatus \in {"none", "ok", "failed"}
    /\ pc \in [Runs -> {"idle", "page", "fetch", "more", "last", "markFailed"}]
    /\ next \in [Runs -> 0..MaxEvents] /\ end \in [Runs -> 0..MaxEvents]
    /\ first \in [Runs -> BOOLEAN]
    /\ pages \in [Runs -> 0..MaxPages]
    /\ lock \in Runs \cup {NoRun}
    /\ \A r \in Runs :
        /\ lock = r <=> pc[r] \in {"fetch", "more", "last"}
        /\ lock = r => pages[r] < MaxPages

\* The watermark never passes an event that is not in the corpus, however
\* runs overlap, fail, lose an answer or move it back: the pages behind it
\* are not read again.  Nor does a run go on from such a page.
NoGap ==
    /\ 1..watermark \subseteq ingested
    /\ \A r \in Runs :
          pc[r] = "page" /\ ~first[r] => 1..next[r] \subseteq ingested

\* Every event upstream ends up in the corpus, although overlapping runs move
\* the watermark back and every run may be aborted or capped.
EventsAreIngested ==
    \A e \in 1..MaxEvents : upstream >= e ~> e \in ingested
=============================================================================
