--------------------------- MODULE AttemptContract ---------------------------
(***************************************************************************)
(* What an apply attempt promises to the operator and to the upstream      *)
(* services, with no database row, lock, token or retry bookkeeping in     *)
(* sight:                                                                  *)
(*                                                                         *)
(*  - an upstream request for a dispatch goes out only while no other      *)
(*    request for the same dispatch is unanswered, at most MaxAttempts     *)
(*    times, and after MANAGER_DB took effect;                             *)
(*  - an attempt succeeds only when every dispatch took effect;            *)
(*  - a soft failure leaves something that may still be tried;             *)
(*  - an expired attempt never sent a request; a stale one sends no more.  *)
(***************************************************************************)
EXTENDS Naturals

CONSTANTS Dispatches, DB, MaxAttempts

VARIABLES
    status,  \* the attempt's status
    air,     \* the dispatches with an unanswered request
    calls,   \* calls[d]: requests sent for d
    landed   \* the dispatches that took effect

vars == <<status, air, calls, landed>>

Init ==
    /\ status = "none"
    /\ air = {}
    /\ calls = [d \in Dispatches |-> 0]
    /\ landed = {}

Send(d) ==
    /\ status \in {"executing", "failed_retryable", "failed_terminal", "gone"}
    /\ d \notin air
    /\ calls[d] < MaxAttempts
    /\ d = DB \/ DB \in landed
    /\ air' = air \cup {d}
    /\ calls' = [calls EXCEPT ![d] = @ + 1]
    /\ UNCHANGED <<status, landed>>

\* Some requests are answered, or given up with the server that sent them.
Answer ==
    \E done \in SUBSET air :
        /\ done # {}
        /\ air' = air \ done
        /\ \E some \in SUBSET done : landed' = landed \cup some
        /\ UNCHANGED <<status, calls>>

Becomes(s) == status' = s /\ UNCHANGED <<air, calls, landed>>

Create == status = "none" /\ Becomes("pending")

Execute == status \in {"pending", "failed_retryable"} /\ Becomes("executing")

Expire ==
    /\ status = "pending"
    /\ \A d \in Dispatches : calls[d] = 0
    /\ Becomes("expired")

Succeed ==
    /\ status = "executing"
    /\ landed = Dispatches
    /\ Becomes("succeeded")

FailSoftly ==
    /\ status = "executing"
    /\ \E d \in Dispatches \ air : calls[d] < MaxAttempts
    /\ Becomes("failed_retryable")

FailForGood ==
    /\ status \in {"executing", "failed_retryable"}
    /\ Becomes("failed_terminal")

GoStale == status = "executing" /\ air = {} /\ Becomes("stale")

Delete == status # "none" /\ Becomes("gone")

Next ==
    \/ \E d \in Dispatches : Send(d)
    \/ Answer
    \/ Create \/ Execute \/ Expire \/ Succeed
    \/ FailSoftly \/ FailForGood \/ GoStale \/ Delete

Spec == Init /\ [][Next]_vars
=============================================================================
