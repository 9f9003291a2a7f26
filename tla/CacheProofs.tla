----------------------------- MODULE CacheProofs -----------------------------
(***************************************************************************)
(* Theorems about Cache, for any number of threads, keys, calls and items. *)
(***************************************************************************)
EXTENDS Cache, FiniteSetTheorems, TLAPS

\* What the lock keeps apart: a process is between Lock and Unlock only while it
\* is the writer, or among the readers, and a writer at work has no readers.
LockInv(p) ==
  /\ pc[p] \in {"drain", "check", "write", "sweep"} => writer = p
  /\ pc[p] \in {"read", "judge"} => p \in readers
  /\ pc[p] = "unlock" => writer = p \/ p \in readers
  /\ writer = p => pc[p] \in {"drain", "check", "write", "sweep", "unlock"}
  /\ writer = p /\ pc[p] # "drain" => readers = {}
  /\ p \in readers => pc[p] \in {"read", "judge", "unlock"}

\* What a call's steps can rely on.
CallInv(p) ==
  /\ op[p] = Nil \/ op[p] \in Calls \cup {Sweeping}
  /\ pc[p] # "idle" => op[p] # Nil
  /\ pc[p] = "drain" => op[p].name \in Writing
  /\ pc[p] = "read" => op[p].name \notin Writing
  /\ pc[p] = "judge" => op[p].name \in LookingUp
  /\ pc[p] \in {"check", "write"} => op[p].name \in Writing \ {"DeleteExpired"}
  /\ pc[p] = "check" => op[p].name \in {"Set", "Add"}
  /\ pc[p] = "write" /\ op[p].name \in {"Set", "Add"} =>
       items[op[p].key] # Nil \/ Count < MaxItems
  /\ pc[p] \notin {"judge", "unlock", "late", "return"} => seen[p] = Nil
  /\ writer = p => seen[p] = Nil
  /\ pc[p] \in {"judge", "unlock"} /\ seen[p] # Nil => items[op[p].key] = seen[p]

Inv ==
  /\ TypeOK /\ CapacityKept
  /\ \A p \in Procs : LockInv(p) /\ CallInv(p)

-----------------------------------------------------------------------------
(* How many items there are.                                               *)

LEMMA CountType == Present \subseteq Keys /\ IsFiniteSet(Present) /\ Count \in Nat
<1>1. Present \subseteq Keys
  BY DEF Present
<1>2. IsFiniteSet(Present)
  BY <1>1, CacheAssumption, FS_Subset
<1>. QED  BY <1>1, <1>2, FS_CardinalityType DEF Count

\* A step that adds no key adds no item.
LEMMA CountShrinks ==
  ASSUME Present' \subseteq Present
  PROVE  Count' \in Nat /\ Count' <= Count
<1>. IsFiniteSet(Present') /\ Cardinality(Present') <= Cardinality(Present)
  BY CountType, FS_Subset
<1>. QED  BY FS_CardinalityType DEF Count

\* A step that writes one key adds at most one item.
LEMMA CountGrows ==
  ASSUME NEW k, Present' \subseteq Present \cup {k}
  PROVE  Count' \in Nat /\ Count' <= Count + 1
<1>. DEFINE P == Present \cup {k}
<1>1. IsFiniteSet(P) /\ Cardinality(P) <= Cardinality(Present) + 1
  <2>1. IsFiniteSet(P) /\ (Cardinality(P) = Cardinality(Present) \/ Cardinality(P) = Cardinality(Present) + 1)
    BY CountType, FS_AddElement
  <2>. QED  BY <2>1, CountType DEF Count
<1>2. IsFiniteSet(Present') /\ Cardinality(Present') <= Cardinality(P)
  BY <1>1, FS_Subset
<1>3. Cardinality(P) \in Nat /\ Cardinality(Present') \in Nat
  BY <1>1, <1>2, FS_CardinalityType
<1>. QED  BY <1>1, <1>2, <1>3, CountType DEF Count

-----------------------------------------------------------------------------
LEMMA InvInit == Init => Inv
<1>. SUFFICES ASSUME Init PROVE Inv
  OBVIOUS
<1>1. TypeOK
  <2>1. 1 \in 1 .. MaxTime
    BY CacheAssumption
  <2>. QED  BY <2>1 DEF Init, TypeOK, Places, Procs
<1>2. CapacityKept
  <2>1. Present = {}
    BY DEF Init, Present
  <2>. QED  BY <2>1, FS_EmptySet, CacheAssumption DEF CapacityKept, Count
<1>3. ASSUME NEW p \in Procs PROVE LockInv(p) /\ CallInv(p)
  BY <1>3, CacheAssumption DEF Init, LockInv, CallInv
<1>. QED  BY <1>1, <1>2, <1>3 DEF Inv

\* Steps that leave the items alone keep the count and what calls rely on of it.
LEMMA SameItems == UNCHANGED items => UNCHANGED <<Present, Count>>
  BY DEF Present, Count

LEMMA InvNext == Inv /\ [Next]_vars => Inv'
<1>. SUFFICES ASSUME Inv, [Next]_vars PROVE Inv'
  OBVIOUS
<1>. USE CacheAssumption DEF Inv, TypeOK, CapacityKept, LockInv, CallInv, Places,
       lockVars, callVars, janVars, Goto, Answers, Begin
<1>1. ASSUME NEW th \in Threads, Invoke(th) PROVE Inv'
  BY <1>1, SameItems DEF Invoke, Procs
<1>2. ASSUME NEW p \in Procs, Announce(p) PROVE Inv'
  BY <1>2, SameItems DEF Announce
<1>3. ASSUME NEW p \in Procs, Lock(p) PROVE Inv'
  <2>. USE <1>3 DEF Lock
  <2>1. CASE op[p].name \in {"Set", "Add"}
    <3>. USE <2>1, SameItems
    <3>1. TypeOK' /\ CapacityKept'
      OBVIOUS
    <3>2. ASSUME NEW q \in Procs PROVE LockInv(q)'
      BY <3>2
    <3>3. ASSUME NEW q \in Procs PROVE CallInv(q)'
      BY <3>3 DEF Writing
    <3>. QED  BY <3>1, <3>2, <3>3
  <2>2. CASE op[p].name = "DeleteExpired"
    BY <2>2, SameItems, CountType
  <2>3. CASE op[p].name \notin {"Set", "Add", "DeleteExpired"}
    <3>. USE <2>3, SameItems
    <3>1. TypeOK' /\ CapacityKept'
      OBVIOUS
    <3>2. ASSUME NEW q \in Procs PROVE LockInv(q)'
      BY <3>2
    <3>3. ASSUME NEW q \in Procs PROVE CallInv(q)'
      BY <3>3 DEF Writing
    <3>. QED  BY <3>1, <3>2, <3>3
  <2>. QED  BY <2>1, <2>2, <2>3
<1>4. ASSUME NEW p \in Procs, RLock(p) PROVE Inv'
  BY <1>4, SameItems DEF RLock
<1>5. ASSUME NEW p \in Procs, Check(p) PROVE Inv'
  BY <1>5, SameItems DEF Check, HasRoom
<1>6. ASSUME NEW p \in Procs, Write(p) PROVE Inv'
  <2>. USE <1>6 DEF Write
  <2>1. Count' \in Nat /\ Count' <= MaxItems
    <3>1. CASE op[p].name \in {"Set", "Add"} /\ items[op[p].key] # Nil
      <4>1. Present' \subseteq Present
        BY <3>1 DEF Present
      <4>. QED  BY <4>1, CountShrinks, CountType
    <3>2. CASE op[p].name \in {"Set", "Add"} /\ items[op[p].key] = Nil
      <4>1. Present' \subseteq Present \cup {op[p].key}
        BY <3>2 DEF Present
      <4>2. Count' \in Nat /\ Count' <= Count + 1
        BY ONLY <4>1, CountGrows
      <4>3. Count < MaxItems
        BY <3>2
      <4>. QED  BY ONLY <4>2, <4>3, CountType, CacheAssumption
    <3>3. CASE op[p].name \notin {"Set", "Add"}
      <4>1. Present' \subseteq Present
        BY <3>3 DEF Present, Writing
      <4>. QED  BY <4>1, CountShrinks, CountType
    <3>. QED  BY <3>1, <3>2, <3>3
  <2>2. TypeOK'
    BY DEF Writing
  <2>3. ASSUME NEW q \in Procs PROVE LockInv(q)'
    BY <2>3
  <2>4. ASSUME NEW q \in Procs PROVE CallInv(q)'
    BY <2>4
  <2>. QED  BY <2>1, <2>2, <2>3, <2>4, ZenonT(60)
<1>7. ASSUME NEW p \in Procs, Sweep(p) PROVE Inv'
  <2>. USE <1>7 DEF Sweep
  <2>1. Count' \in Nat /\ Count' <= Count
    <3>1. Present' \subseteq Present
      BY DEF Present
    <3>. QED  BY <3>1, CountShrinks
  <2>2. TypeOK'
    OBVIOUS
  <2>3. ASSUME NEW q \in Procs PROVE LockInv(q)'
    BY <2>3
  <2>4. ASSUME NEW q \in Procs PROVE CallInv(q)'
    BY <2>4, <2>1, CountType
  <2>. QED  BY <2>1, <2>2, <2>3, <2>4, CountType
<1>8. ASSUME NEW p \in Procs, SweepDone(p) PROVE Inv'
  BY <1>8, SameItems DEF SweepDone
<1>9. ASSUME NEW p \in Procs, Read(p) PROVE Inv'
  BY <1>9, SameItems DEF Read
<1>10. ASSUME NEW p \in Procs, Judge(p) PROVE Inv'
  <2>. USE <1>10, SameItems DEF Judge, LookingUp
  <2>1. TypeOK' /\ CapacityKept'
    <3>1. UNCHANGED <<items, now, writer, readers, op, seen, left, ticked, life>>
      OBVIOUS
    <3>2. pc' \in [Procs -> Places] /\ DOMAIN ret' = Procs
      OBVIOUS
    <3>. QED  BY <3>1, <3>2
  <2>2. ASSUME NEW q \in Procs PROVE LockInv(q)'
    BY <2>2
  <2>3. ASSUME NEW q \in Procs PROVE CallInv(q)'
    BY <2>3
  <2>. QED  BY <2>1, <2>2, <2>3
<1>11. ASSUME NEW p \in Procs, Unlock(p) PROVE Inv'
  BY <1>11, SameItems DEF Unlock
<1>12. ASSUME NEW p \in Procs, Remaining(p) PROVE Inv'
  BY <1>12, SameItems DEF Remaining
<1>13. ASSUME NEW p \in Procs, Return(p) PROVE Inv'
  BY <1>13, SameItems DEF Return
<1>14. CASE ReceiveTick
  <2>1. Janitor \in Procs
    BY DEF Procs
  <2>. QED  BY <1>14, <2>1, SameItems, ZenonT(60) DEF ReceiveTick
<1>15. CASE ReceiveStop
  BY <1>15, SameItems DEF ReceiveStop
<1>16. CASE TickerFires
  BY <1>16, SameItems DEF TickerFires
<1>17. CASE Tick
  BY <1>17, SameItems DEF Tick
<1>18. CASE Drop
  BY <1>18, SameItems DEF Drop
<1>19. CASE UNCHANGED vars
  BY <1>19, SameItems DEF vars
<1>. QED
  BY <1>1, <1>2, <1>3, <1>4, <1>5, <1>6, <1>7, <1>8, <1>9, <1>10, <1>11, <1>12, <1>13, <1>14, <1>15, <1>16, <1>17, <1>18, <1>19
     DEF Next, TakeLock, Work

-----------------------------------------------------------------------------
\* Inv is an invariant.
LEMMA InvHolds == Spec => []Inv
  BY InvInit, InvNext, PTL DEF Spec

\* Every variable of the cache holds a value of its kind.
THEOREM TypeCorrect == Spec => []TypeOK
<1>1. Inv => TypeOK
  BY DEF Inv
<1>. QED  BY <1>1, InvHolds, PTL

\* However many callers Set and Add, the cache never holds more than MaxItems.
THEOREM CapacityIsKept == Spec => []CapacityKept
<1>1. Inv => CapacityKept
  BY DEF Inv
<1>. QED  BY <1>1, InvHolds, PTL

\* No writer and no sweep comes between a reader's lookup and its verdict.
THEOREM ReaderIsUndisturbed == Spec => []ReadsAreStable
<1>1. Inv => ReadsAreStable
  BY DEF Inv, CallInv, ReadsAreStable
<1>. QED  BY <1>1, InvHolds, PTL
=============================================================================
