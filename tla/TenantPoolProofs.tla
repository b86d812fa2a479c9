-------------------------- MODULE TenantPoolProofs --------------------------
(***************************************************************************)
(* NoStandstill for any number of passes, rebuilds and adders, as long as  *)
(* the adders leave the pool two connections: the lock holder's own and    *)
(* the one it reads the active exclusions on.                              *)
(***************************************************************************)
EXTENDS TenantPool, FiniteSetTheorems, TLAPS

\* Every variable has its type; who has a connection, and who the lock.
Shape ==
    /\ pc \in [Sessions -> {"idle", "connected", "resolving", "writing"}]
    /\ held = {s \in Sessions : pc[s] # "idle"}
    /\ lock \in held \cup {Nobody}
    /\ \A s \in Sessions : pc[s] \in {"resolving", "writing"} <=> lock = s

LEMMA InitShape == Init => Shape
BY PoolAssumption DEF Init, Shape, Sessions, Writers

LEMMA ShapeStep == Shape /\ [Next]_vars => Shape'
<1> USE PoolAssumption DEF Sessions, Writers
<1> SUFFICES ASSUME Shape, [Next]_vars PROVE Shape'
    OBVIOUS
<1>1. ASSUME NEW s \in Sessions, Connect(s) PROVE Shape'
    BY <1>1 DEF Shape, Connect
<1>2. ASSUME NEW s \in Sessions, End(s), pc[s] # "idle" PROVE Shape'
    BY <1>2 DEF Shape, End
<1>3. ASSUME NEW w \in Writers, TryLock(w) PROVE Shape'
    <2>1. CASE lock = Nobody
        BY <1>3, <2>1 DEF Shape, TryLock
    <2>2. CASE lock # Nobody
        BY <1>2, <1>3, <2>2 DEF TryLock
    <2>3. QED
        BY <2>1, <2>2
<1>4. ASSUME NEW w \in Writers, Resolve(w) PROVE Shape'
    BY <1>4 DEF Shape, Resolve
<1>5. ASSUME NEW a \in Adders, WaitLock(a) PROVE Shape'
    BY <1>5 DEF Shape, WaitLock
<1>6. CASE UNCHANGED vars
    BY <1>6 DEF Shape, vars
<1>7. QED
    BY <1>1, <1>2, <1>3, <1>4, <1>5, <1>6 DEF Next, Write, GiveUp

\* If the pool is empty, it is not the adders and the holder alone who
\* emptied it.
LEMMA RoomForHolder ==
    ASSUME Shape, IsFiniteSet(Adders), Cardinality(Adders) + 2 <= PoolSize
    PROVE  NoStandstill
<1> SUFFICES ASSUME NEW w \in Writers, pc[w] = "resolving",
                    \A v \in Writers \ {w} : pc[v] # "connected"
             PROVE  HasRoom
    BY DEF NoStandstill
<1>1. held \subseteq Adders \cup {w}
    BY DEF Shape, Sessions, Writers
<1>2. /\ IsFiniteSet(Adders \cup {w})
      /\ Cardinality(Adders \cup {w}) <= Cardinality(Adders) + 1
      /\ Cardinality(Adders) \in Nat
    <2>1. /\ IsFiniteSet(Adders \cup {w})
          /\ Cardinality(Adders \cup {w}) =
                IF w \in Adders THEN Cardinality(Adders)
                ELSE Cardinality(Adders) + 1
        BY FS_AddElement
    <2>2. Cardinality(Adders) \in Nat
        BY FS_CardinalityType
    <2>3. QED
        BY <2>1, <2>2
<1>3. /\ Cardinality(held) <= Cardinality(Adders \cup {w})
      /\ Cardinality(held) \in Nat /\ Cardinality(Adders \cup {w}) \in Nat
    BY <1>1, <1>2, FS_Subset, FS_CardinalityType
<1>4. QED
    BY <1>2, <1>3, PoolAssumption DEF HasRoom

\* While at most PoolSize - 2 sessions wait for the lock, a writer that has it
\* and finds the pool empty never waits for sessions that all wait for it.
THEOREM HolderMayResolve ==
    ASSUME IsFiniteSet(Adders), Cardinality(Adders) + 2 <= PoolSize
    PROVE  Spec => []NoStandstill
<1>1. Shape => NoStandstill
    BY RoomForHolder
<1>2. QED
    BY <1>1, InitShape, ShapeStep, PTL DEF Spec

\* No more connections are out than the pool has.
Within == IsFiniteSet(held) /\ Cardinality(held) <= PoolSize

LEMMA WithinStep == Shape /\ Within /\ [Next]_vars => Within'
<1> SUFFICES ASSUME Shape, Within, [Next]_vars PROVE Within'
    OBVIOUS
<1>1. ASSUME NEW s, HasRoom, held' = held \cup {s} PROVE Within'
  <2>1. /\ IsFiniteSet(held \cup {s})
        /\ Cardinality(held \cup {s}) =
              IF s \in held THEN Cardinality(held) ELSE Cardinality(held) + 1
      BY FS_AddElement DEF Within
  <2>2. Cardinality(held) \in Nat
      BY FS_CardinalityType DEF Within
  <2>3. QED
      BY <1>1, <2>1, <2>2, PoolAssumption DEF Within, HasRoom
<1>2. ASSUME held' \subseteq held PROVE Within'
  <2>1. IsFiniteSet(held') /\ Cardinality(held') <= Cardinality(held)
      BY <1>2, FS_Subset DEF Within
  <2>2. Cardinality(held) \in Nat /\ Cardinality(held') \in Nat
      BY <2>1, FS_CardinalityType DEF Within
  <2>3. QED
      BY <2>1, <2>2, PoolAssumption DEF Within
<1>3. ASSUME NEW s \in Sessions, Connect(s) PROVE Within'
    BY <1>1, <1>3 DEF Connect
<1>4. ASSUME NEW s \in Sessions, End(s) PROVE Within'
    BY <1>2, <1>4 DEF End
<1>5. ASSUME NEW w \in Writers, TryLock(w) PROVE Within'
    BY <1>2, <1>5 DEF TryLock, End
<1>6. CASE held' = held
    BY <1>2, <1>6
<1>7. QED
    BY <1>3, <1>4, <1>5, <1>6 DEF Next, Write, GiveUp, Resolve, WaitLock, vars, Sessions, Writers

\* The variables keep their types: no connection is leaked, the pool is never
\* exceeded, and the lock is always held on a connection.
THEOREM PoolTyped == Spec => []TypeOK
<1>1. Init => Within
    BY FS_EmptySet, PoolAssumption DEF Init, Within
<1>2. Shape /\ Within => TypeOK
    BY DEF Shape, Within, TypeOK
<1>3. QED
    BY <1>1, <1>2, InitShape, ShapeStep, WithinStep, PTL DEF Spec
=============================================================================
