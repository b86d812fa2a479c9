----------------------------- MODULE AtLeastOnce -----------------------------
(***************************************************************************)
(* What the phase-2 push promises, whatever the drain does: rows change,    *)
(* aimer-web is told of versions that were made, possibly more than once    *)
(* and out of order, and a row stops being owed only when aimer-web has     *)
(* been told of its newest version.  Rows that are exempt are not promised. *)
(***************************************************************************)
EXTENDS Naturals

CONSTANTS Keys, MaxVersion

VARIABLES made,   \* the newest version of each row
          told,   \* the versions aimer-web was told of
          owed,   \* the rows still to be told
          exempt  \* the rows nothing is promised of

vars == <<made, told, owed, exempt>>

Init ==
  /\ made \in [Keys -> 0..MaxVersion] /\ told = {}
  /\ owed = {k \in Keys : made[k] > 0}
  /\ exempt = {}

\* Rows change: each is owed from then on, or exempt.
Make ==
  /\ made' \in [Keys -> 0..MaxVersion]
  /\ exempt \subseteq exempt'
  /\ \A k \in Keys : \/ made'[k] = made[k]
                     \/ made'[k] > made[k] /\ k \in owed' \cup exempt'
  /\ owed \subseteq owed' \cup exempt'
  /\ UNCHANGED told

\* A row is queued although nothing of it has changed.
Offer == owed \subseteq owed' /\ UNCHANGED <<made, told, exempt>>

\* A batch arrives.
Tell ==
  /\ told \subseteq told'
  /\ \A p \in told' \ told : p[2] <= made[p[1]]
  /\ UNCHANGED <<made, owed, exempt>>

\* A batch is acknowledged.
Settle ==
  /\ owed' \subseteq owed
  /\ \A k \in owed \ (owed' \cup exempt) : made[k] = 0 \/ <<k, made[k]>> \in told
  /\ UNCHANGED <<made, told, exempt>>

Next == Make \/ Offer \/ Tell \/ Settle

Spec == Init /\ [][Next]_vars
=============================================================================
