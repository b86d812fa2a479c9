----------------------------- MODULE TenantPool -----------------------------
(***************************************************************************)
(* The connections of one customer's database, against its advisory lock.  *)
(* A server process has one pool per customer, of pg.Pool's default size,  *)
(* where a request waits as long as it takes.  A writer of the corpus      *)
(* keeps a connection with the lock and reads the active exclusions on     *)
(* another; an adder of an exclusion, the fan-out worker among them, keeps *)
(* a connection while it waits for the lock.                               *)
(***************************************************************************)
EXTENDS FiniteSets, Naturals

CONSTANTS
    Passes,    \* cadence passes of the customer
    Rebuilds,  \* rebuilds: writers too, but with a deadline
    Adders,    \* POST requests and fan-out jobs that wait for the lock
    Nobody,    \* the lock's holder when it is free
    PoolSize   \* connections of the pool

ASSUME PoolAssumption ==
    /\ Passes \cap Rebuilds = {} /\ (Passes \cup Rebuilds) \cap Adders = {}
    /\ Nobody \notin Passes \cup Rebuilds \cup Adders
    /\ PoolSize \in Nat \ {0}

Writers == Passes \cup Rebuilds
Sessions == Writers \cup Adders

VARIABLES
    pc,    \* "idle", "connected", "resolving" or "writing"
    held,  \* sessions that have a connection
    lock   \* holder of the advisory lock

vars == <<pc, held, lock>>

Init ==
    /\ pc = [s \in Sessions |-> "idle"]
    /\ held = {}
    /\ lock = Nobody

HasRoom == Cardinality(held) < PoolSize

Connect(s) ==
    /\ pc[s] = "idle" /\ HasRoom
    /\ pc' = [pc EXCEPT ![s] = "connected"]
    /\ held' = held \cup {s}
    /\ UNCHANGED lock

\* Fault: the session-level lock goes back to the pool with its connection.
EndKeepingLock(s) ==
    /\ pc' = [pc EXCEPT ![s] = "idle"]
    /\ held' = held \ {s}
    /\ UNCHANGED lock

\* COMMIT or ROLLBACK, pg_advisory_unlock, and client.release().
End(s) ==
    /\ pc' = [pc EXCEPT ![s] = "idle"]
    /\ held' = held \ {s}
    /\ lock' = IF lock = s THEN Nobody ELSE lock

\* Fault: the client is not released when the lock is busy.
TryLockLeaking(w) ==
    /\ pc[w] = "connected"
    /\ IF lock = Nobody
       THEN /\ lock' = w
            /\ pc' = [pc EXCEPT ![w] = "resolving"]
            /\ UNCHANGED held
       ELSE UNCHANGED <<lock, held>> /\ pc' = [pc EXCEPT ![w] = "leaked"]

\* pg_try_advisory_xact_lock, pg_try_advisory_lock.
TryLock(w) ==
    /\ pc[w] = "connected"
    /\ IF lock = Nobody
       THEN /\ lock' = w
            /\ pc' = [pc EXCEPT ![w] = "resolving"]
            /\ UNCHANGED held
       ELSE End(w)

\* pool.query: a second connection, for one statement.
Resolve(w) ==
    /\ pc[w] = "resolving" /\ HasRoom
    /\ pc' = [pc EXCEPT ![w] = "writing"]
    /\ UNCHANGED <<held, lock>>

\* resolveActiveExclusionsWithDeadline; a pass looks at its signal only
\* after the page is ingested.
GiveUp(w) == pc[w] = "resolving" /\ End(w)

WaitLock(a) ==
    /\ pc[a] = "connected" /\ lock = Nobody
    /\ lock' = a
    /\ pc' = [pc EXCEPT ![a] = "writing"]
    /\ UNCHANGED held

Write(s) == pc[s] = "writing" /\ End(s)

Next ==
    \/ \E s \in Sessions : Connect(s) \/ Write(s)
    \/ \E w \in Writers : TryLock(w) \/ Resolve(w)
    \/ \E w \in Rebuilds : GiveUp(w)
    \/ \E a \in Adders : WaitLock(a)

Spec == Init /\ [][Next]_vars

\* Requests keep coming and the pool serves its queue in order; the database
\* answers.
FairSpec ==
    /\ Spec
    /\ \A s \in Sessions : SF_vars(Connect(s)) /\ WF_vars(Write(s))
    /\ \A w \in Writers : WF_vars(TryLock(w)) /\ SF_vars(Resolve(w))
    /\ \A w \in Rebuilds : WF_vars(GiveUp(w))
    /\ \A a \in Adders : SF_vars(WaitLock(a))

-----------------------------------------------------------------------------
(* Properties.                                                             *)

\* Every variable has its type, no more connections are out than the pool
\* has, and the lock is held on a connection.
TypeOK ==
    /\ pc \in [Sessions -> {"idle", "connected", "resolving", "writing"}]
    /\ held = {s \in Sessions : pc[s] # "idle"}
    /\ Cardinality(held) <= PoolSize
    /\ lock \in held \cup {Nobody}
    /\ \A s \in Sessions : pc[s] \in {"resolving", "writing"} <=> lock = s

\* A writer that has the lock and finds the pool empty is not waiting for
\* sessions that wait for it: another writer is about to find the lock taken
\* and to return its connection.  True while the adders leave two connections.
NoStandstill ==
    \A w \in Writers :
        pc[w] = "resolving" =>
            HasRoom \/ \E v \in Writers \ {w} : pc[v] = "connected"

\* cadence.ts:367 "if a dispatcher-issued abort raced the in-flight page,
\* roll back this page so ... the advisory lock releases promptly": whoever
\* holds the lock lets it go.
LockIsReleased == \A s \in Sessions : lock = s ~> lock # s

\* An exclusion that waits for the lock is added.
AdderIsServed == \A a \in Adders : pc[a] = "connected" ~> pc[a] = "idle"
=============================================================================
