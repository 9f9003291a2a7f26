------------------------ MODULE CacheRefinementProofs ------------------------
(***************************************************************************)
(* Cache implements TTLCache: for any number of threads, keys and calls,   *)
(* every call, though it locks, looks, judges and writes in steps of its   *)
(* own, takes effect at one instant.                                       *)
(***************************************************************************)
EXTENDS CacheProofs

Items == [obj : Values, exp : Int]

\* Where a call's answer, the item it saw and the keys it sweeps stand.
EffectInv(p) ==
  /\ pc[p] = "idle" => op[p] = Nil
  /\ pc[p] \notin {"unlock", "return"} => ret[p] = Nil
  /\ pc[p] = "return" => ret[p] # Nil
  /\ pc[p] = "late" \/ (pc[p] = "unlock" /\ ret[p] = Nil) =>
       op[p].name = "GetExpiration" /\ seen[p] # Nil
  /\ pc[p] = "judge" => seen[p] # Nil
  /\ pc[p] = "write" /\ op[p].name = "Add" => items[op[p].key] = Nil
  /\ pc[p] = "sweep" => op[p].name = "DeleteExpired" /\ \A k \in left[p] : items[k] # Nil

\* The items there are, and the ones that were read, are items.
ItemsOK ==
  /\ items \in [Keys -> Items \cup {Nil}]
  /\ seen \in [Procs -> Items \cup {Nil}]

RefInv == Inv /\ ItemsOK /\ \A p \in Procs : EffectInv(p)

LEMMA AnswerIsNotNil ==
  ASSUME NEW res \in Results, NEW val \in Values \cup Int
  PROVE  Answer(res, val) # Nil
<1>1. Answer(res, val) \in [res : Results, val : Values \cup Int]
  BY DEF Answer
<1>. QED  BY <1>1, CacheAssumption

\* What Set and Add put into the map.
LEMMA EntryIsItem ==
  ASSUME NEW c \in Calls \cup {Sweeping}, now \in Int
  PROVE  [obj |-> c.val, exp |-> IF c.ttl > 0 THEN now + c.ttl ELSE 0] \in Items
<1>1. c.val \in Values /\ c.ttl \in Int
  BY CacheAssumption DEF Values, Sweeping
<1>. QED  BY <1>1 DEF Items

LEMMA RefInvInit == Init => RefInv
<1>. SUFFICES ASSUME Init PROVE RefInv
  OBVIOUS
<1>1. ItemsOK
  BY DEF Init, ItemsOK
<1>2. ASSUME NEW p \in Procs PROVE EffectInv(p)
  BY <1>2 DEF Init, EffectInv
<1>. QED  BY <1>1, <1>2, InvInit DEF RefInv

LEMMA RefInvNext == RefInv /\ [Next]_vars => RefInv'
<1>. SUFFICES ASSUME RefInv, [Next]_vars PROVE ItemsOK' /\ \A p \in Procs : EffectInv(p)'
  BY InvNext DEF RefInv
<1>. DEFINE Kept == ItemsOK' /\ \A p \in Procs : EffectInv(p)'
<1>. USE CacheAssumption DEF RefInv, Inv, TypeOK, LockInv, CallInv, EffectInv, ItemsOK,
       lockVars, callVars, janVars, Goto, Answers, Begin
<1>0. /\ \A r \in Results, v \in Values \cup Int : Answer(r, v) # Nil
      /\ Nil \in Values /\ now \in Int /\ Count \in Int
  BY AnswerIsNotNil, CountType DEF Values
<1>1. ASSUME NEW th \in Threads, Invoke(th) PROVE Kept
  BY <1>1 DEF Invoke, Procs
<1>2. ASSUME NEW p \in Procs, Announce(p) PROVE Kept
  BY <1>2 DEF Announce
<1>3. ASSUME NEW p \in Procs, Lock(p) PROVE Kept
  BY <1>3 DEF Lock, Present
<1>4. ASSUME NEW p \in Procs, RLock(p) PROVE Kept
  BY <1>4 DEF RLock
<1>5. ASSUME NEW p \in Procs, Check(p) PROVE Kept
  BY <1>0, <1>5 DEF Check, Results
<1>6. ASSUME NEW p \in Procs, Write(p) PROVE Kept
  <2>. DEFINE c == op[p]
              entry == [obj |-> c.val, exp |-> IF c.ttl > 0 THEN now + c.ttl ELSE 0]
  <2>1. c \in Calls \cup {Sweeping} /\ writer = p /\ pc[p] = "write"
    BY <1>6 DEF Write
  <2>2. entry \in Items
    BY <1>0, <2>1, EntryIsItem
  <2>. HIDE DEF entry
  <2>3. ret' = [ret EXCEPT ![p] = Answer("ok", Nil)] /\ Answer("ok", Nil) # Nil
    BY <1>0, <1>6 DEF Write, Results
  <2>4. /\ items' \in {[items EXCEPT ![c.key] = entry], [items EXCEPT ![c.key] = Nil],
                       [k \in Keys |-> Nil], items}
        /\ pc' = [pc EXCEPT ![p] = "unlock"]
        /\ UNCHANGED <<now, writer, readers, op, seen, left, ticked, life>>
    BY <1>6 DEF Write, Writing, entry
  <2>5. ItemsOK'
    BY <2>2, <2>4
  <2>6. ASSUME NEW q \in Procs PROVE EffectInv(q)'
    BY <2>1, <2>3, <2>4, <2>6
  <2>. QED  BY <2>5, <2>6
<1>7. ASSUME NEW p \in Procs, Sweep(p) PROVE Kept
  BY <1>7 DEF Sweep
<1>8. ASSUME NEW p \in Procs, SweepDone(p) PROVE Kept
  BY <1>0, <1>8 DEF SweepDone, Results
<1>9. ASSUME NEW p \in Procs, Read(p) PROVE Kept
  BY <1>0, <1>9 DEF Read, NotFound, Results, LookingUp, Writing
<1>10. ASSUME NEW p \in Procs, Judge(p) PROVE Kept
  <2>. USE <1>0, <1>10 DEF Judge
  <2>1. /\ pc[p] = "judge" /\ op[p].name \in LookingUp /\ seen[p] \in Items /\ ret[p] = Nil
        /\ pc' = [pc EXCEPT ![p] = "unlock"]
        /\ UNCHANGED <<items, now, writer, readers, op, seen, left, ticked, life>>
    OBVIOUS
  <2>2. \/ ret' = ret /\ op[p].name = "GetExpiration"
        \/ \E a : a # Nil /\ ret' = [ret EXCEPT ![p] = a]
    <3>1. op[p].name \in {"Get", "HasExpired", "GetExpiration"} /\ seen[p].obj \in Values
      BY <2>1 DEF LookingUp, Items
    <3>2. CASE Expired(seen[p])
      <4>1. NotFound(op[p].name) # Nil
        BY <3>1 DEF NotFound, Results
      <4>. QED  BY <3>2, <4>1
    <3>3. CASE ~Expired(seen[p])
      <4>1. Answer("found", seen[p].obj) # Nil /\ Answer("live", Nil) # Nil
        BY <3>1 DEF Results
      <4>. QED  BY <3>1, <3>3, <4>1
    <3>. QED  BY <3>2, <3>3
  <2>3. ItemsOK'
    BY <2>1
  <2>4. ASSUME NEW q \in Procs PROVE EffectInv(q)'
    BY <2>1, <2>2, <2>4
  <2>. QED  BY <2>3, <2>4
<1>11. ASSUME NEW p \in Procs, Unlock(p) PROVE Kept
  BY <1>11 DEF Unlock
<1>12. ASSUME NEW p \in Procs, Remaining(p) PROVE Kept
  BY <1>0, <1>12 DEF Remaining, Results, Items
<1>13. ASSUME NEW p \in Procs, Return(p) PROVE Kept
  BY <1>13 DEF Return
<1>14. CASE ReceiveTick
  BY <1>14 DEF ReceiveTick, Procs
<1>15. CASE ReceiveStop \/ TickerFires \/ Tick \/ Drop
  BY <1>15 DEF ReceiveStop, TickerFires, Tick, Drop
<1>16. CASE UNCHANGED vars
  BY <1>16 DEF vars
<1>. QED
  BY <1>1, <1>2, <1>3, <1>4, <1>5, <1>6, <1>7, <1>8, <1>9, <1>10, <1>11, <1>12, <1>13, <1>14, <1>15, <1>16
     DEF Next, TakeLock, Work
-----------------------------------------------------------------------------
(* The refinement: which step of the promise a step of the cache is.       *)

LEMMA RefinedInit == Init => Promise!Init
  BY DEF Init, Promise!Init

\* What both specifications say of an item and of the number of items.
LEMMA SameWords ==
  /\ Promise!Count = Count
  /\ \A item : Promise!Expired(item, now) <=> Expired(item)
  /\ \A res, val : Promise!Answer(res, val) = Answer(res, val)
<1>1. Promise!Count = Count
  BY DEF Promise!Count, Count, Present, Promise!Cardinality, Cardinality
<1>2. \A item : Promise!Expired(item, now) <=> Expired(item)
  BY DEF Promise!Expired, Expired
<1>3. \A res, val : Promise!Answer(res, val) = Answer(res, val)
  BY DEF Promise!Answer, Answer
<1>. QED  BY <1>1, <1>2, <1>3

\* GetExpiration takes effect with whatever number it answers.
LEMMA GivesNumber ==
  ASSUME RefInv, NEW p \in Procs, NEW n \in Int,
         op[p] # Nil, ret[p] = Nil, op[p].name = "GetExpiration",
         ret' = [ret EXCEPT ![p] = Answer("number", n)], UNCHANGED <<items, now, op>>
  PROVE  Promise!GetExpiration(p)
<1>1. ret'[p] = Answer("number", n)
  BY DEF RefInv, Inv, TypeOK
<1>2. ret'[p] # Nil /\ ret'[p].val = n
  BY <1>1, AnswerIsNotNil DEF Results, Answer
<1>. QED  BY <1>2, SameWords DEF Promise!GetExpiration, Promise!Effect

\* A lookup that finds nothing, or nothing that is live, says so at once.
LEMMA NothingFound ==
  ASSUME RefInv, NEW p \in Procs, NEW k \in Keys, ~Promise!Live(k),
         op[p] # Nil, ret[p] = Nil, op[p].name \in LookingUp, op[p].key = k,
         ret' = [ret EXCEPT ![p] = NotFound(op[p].name)], UNCHANGED <<items, now, op>>
  PROVE  Promise!Next
<1>1. CASE op[p].name = "Get"
  <2>1. Promise!Fetch(p, k)
    BY <1>1, SameWords DEF NotFound, Promise!Fetch, Promise!Effect
  <2>. QED  BY <2>1 DEF Promise!Next
<1>2. CASE op[p].name = "HasExpired"
  <2>1. Promise!AskExpired(p, k)
    BY <1>2, SameWords DEF NotFound, Promise!AskExpired, Promise!Effect
  <2>. QED  BY <2>1 DEF Promise!Next
<1>3. CASE op[p].name = "GetExpiration"
  <2>1. Promise!GetExpiration(p)
    <3>. DEFINE n == 0
    <3>1. n \in Int /\ ret' = [ret EXCEPT ![p] = Answer("number", n)]
      BY <1>3 DEF NotFound
    <3>. HIDE DEF n
    <3>. QED  BY <1>3, <3>1, GivesNumber
  <2>. QED  BY <2>1 DEF Promise!Next
<1>. QED  BY <1>1, <1>2, <1>3 DEF LookingUp

LEMMA RefinedNext == RefInv /\ [Next]_vars => [Promise!Next]_Promise!vars
<1>. SUFFICES ASSUME RefInv, [Next]_vars PROVE [Promise!Next]_Promise!vars
  OBVIOUS
<1>. DEFINE Abstract == [Promise!Next]_Promise!vars
<1>. USE DEF Promise!vars
<1>0. UNCHANGED <<items, now, op, ret>> => Abstract
  OBVIOUS
<1>a. ASSUME NEW p \in Procs, pc[p] \notin {"idle", "unlock", "return"}
      PROVE  /\ op[p] # Nil /\ ret[p] = Nil /\ op[p] \in Calls \cup {Sweeping}
             /\ op[p].name \in {"Set", "Add", "Delete", "SetExpiration"} \cup LookingUp =>
                  op[p].key \in Keys
  BY <1>a, CacheAssumption DEF RefInv, Inv, CallInv, EffectInv
<1>1. ASSUME NEW p \in Procs, NEW c \in Calls \cup {Sweeping}, Begin(p, c) PROVE Abstract
  <2>1. op[p] = Nil
    BY <1>1 DEF Begin, RefInv, EffectInv
  <2>2. Promise!Invoke(p)
    BY <1>1, <2>1 DEF Begin, Promise!Invoke
  <2>. QED  BY <2>2 DEF Promise!Next
<1>2. ASSUME NEW p \in Procs, TakeLock(p) \/ Lock(p) \/ Unlock(p) PROVE Abstract
  BY <1>0, <1>2 DEF TakeLock, Announce, RLock, Lock, Unlock
<1>3. ASSUME NEW p \in Procs, Check(p) PROVE Abstract
  <2>. DEFINE k == op[p].key
  <2>1. /\ op[p] # Nil /\ ret[p] = Nil /\ op[p].name \in {"Set", "Add"} /\ k \in Keys
        /\ UNCHANGED <<items, now, op>>
    BY <1>3, <1>a DEF Check, RefInv, Inv, CallInv
  <2>2. CASE items[k] # Nil /\ op[p].name = "Add"
    <3>1. ret' = [ret EXCEPT ![p] = Answer("exists", Nil)]
      BY <1>3, <2>2 DEF Check, Answers
    <3>2. Promise!Refuse(p, k)
      BY <2>1, <2>2, <3>1, SameWords DEF Promise!Refuse, Promise!Effect
    <3>. QED  BY <2>1, <3>2 DEF Promise!Next
  <2>3. CASE ~(items[k] # Nil /\ op[p].name = "Add") /\ (items[k] # Nil \/ HasRoom)
    BY <1>0, <1>3, <2>1, <2>3 DEF Check
  <2>4. CASE items[k] = Nil /\ ~HasRoom
    <3>1. ret' = [ret EXCEPT ![p] = Answer("full", Nil)]
      BY <1>3, <2>4 DEF Check, Answers
    <3>2. Promise!Count >= MaxItems
      BY <2>4, SameWords, CountType, CacheAssumption DEF HasRoom
    <3>3. Promise!Refuse(p, k)
      BY <2>1, <2>4, <3>1, <3>2, SameWords DEF Promise!Refuse, Promise!Effect
    <3>. QED  BY <2>1, <3>3 DEF Promise!Next
  <2>. QED  BY <2>2, <2>3, <2>4
<1>4. ASSUME NEW p \in Procs, Write(p) PROVE Abstract
  <2>. DEFINE c == op[p]
  <2>1. /\ c # Nil /\ ret[p] = Nil /\ c.name \in Writing \ {"DeleteExpired"}
        /\ c.name \in {"Set", "Add"} => c.key \in Keys
        /\ ret' = [ret EXCEPT ![p] = Answer("ok", Nil)]
        /\ UNCHANGED <<now, op>>
    BY <1>4, <1>a DEF Write, Answers, RefInv, Inv, CallInv
  <2>2. \/ c.name \notin {"Set", "Add"}
        \/ items[c.key] # Nil /\ c.name = "Set"
        \/ items[c.key] = Nil /\ Count < MaxItems
    BY <1>4 DEF Write, RefInv, Inv, CallInv, EffectInv
  <2>3. Promise!Effect(p, "ok", Nil)
    BY <2>1, SameWords DEF Promise!Effect
  <2>4. CASE c.name \in {"Set", "Add"}
    <3>1. items' = [items EXCEPT ![c.key] = Promise!Entry(c)]
      BY <1>4, <2>4 DEF Write, Promise!Entry
    <3>2. Promise!Store(p, c.key)
      BY <2>2, <2>3, <2>4, <3>1, SameWords DEF Promise!Store
    <3>. QED  BY <2>1, <2>4, <3>2 DEF Promise!Next
  <2>5. CASE c.name \in {"Delete", "Clear"}
    <3>1. Promise!Remove(p)
      BY <1>4, <2>3, <2>5 DEF Write, Promise!Remove
    <3>. QED  BY <2>1, <3>1 DEF Promise!Next
  <2>6. CASE c.name = "SetExpiration"
    <3>1. Promise!SetExpiration(p)
      BY <1>4, <2>3, <2>6 DEF Write, Promise!SetExpiration
    <3>. QED  BY <2>1, <3>1 DEF Promise!Next
  <2>. QED  BY <2>1, <2>4, <2>5, <2>6 DEF Writing
<1>5. ASSUME NEW p \in Procs, Sweep(p) PROVE Abstract
  <2>1. PICK k \in left[p] :
          items' = IF Expired(items[k]) THEN [items EXCEPT ![k] = Nil] ELSE items
    BY <1>5 DEF Sweep
  <2>2. k \in Keys /\ items[k] # Nil /\ UNCHANGED <<now, op, ret>>
    BY <1>5 DEF Sweep, RefInv, Inv, TypeOK, EffectInv
  <2>3. CASE Expired(items[k])
    <3>1. Promise!Vanish
      BY <2>1, <2>2, <2>3, SameWords DEF Promise!Vanish
    <3>. QED  BY <3>1 DEF Promise!Next
  <2>4. CASE ~Expired(items[k])
    BY <1>0, <2>1, <2>2, <2>4
  <2>. QED  BY <2>3, <2>4
<1>6. ASSUME NEW p \in Procs, SweepDone(p) PROVE Abstract
  <2>1. Promise!Swept(p)
    BY <1>6, <1>a, SameWords
       DEF SweepDone, Answers, RefInv, EffectInv, Promise!Swept, Promise!Effect
  <2>. QED  BY <1>6, <1>a, <2>1 DEF SweepDone, Promise!Next
<1>7. ASSUME NEW p \in Procs, Read(p) PROVE Abstract
  <2>. DEFINE k == op[p].key
  <2>1. /\ op[p] # Nil /\ ret[p] = Nil /\ op[p].name \in LookingUp \cup {"ItemCount"}
        /\ UNCHANGED <<items, now, op>>
    BY <1>7, <1>a, CacheAssumption DEF Read, RefInv, Inv, CallInv, Sweeping, Writing
  <2>2. CASE op[p].name = "ItemCount"
    <3>1. Promise!CountItems(p)
      BY <1>7, <2>1, <2>2, SameWords DEF Read, Answers, Promise!CountItems, Promise!Effect
    <3>. QED  BY <2>1, <3>1 DEF Promise!Next
  <2>3. CASE op[p].name # "ItemCount" /\ items[k] # Nil
    BY <1>0, <1>7, <2>1, <2>3 DEF Read
  <2>4. CASE op[p].name # "ItemCount" /\ items[k] = Nil
    <3>1. /\ k \in Keys /\ op[p].name \in LookingUp
          /\ ret' = [ret EXCEPT ![p] = NotFound(op[p].name)]
      BY <1>7, <1>a, <2>1, <2>4 DEF Read
    <3>2. ~Promise!Live(k)
      BY <2>4 DEF Promise!Live
    <3>. QED  BY <2>1, <3>1, <3>2, NothingFound
  <2>. QED  BY <2>2, <2>3, <2>4
<1>8. ASSUME NEW p \in Procs, Judge(p) PROVE Abstract
  <2>. DEFINE k == op[p].key
  <2>1. /\ op[p] # Nil /\ ret[p] = Nil /\ op[p].name \in LookingUp /\ k \in Keys
        /\ items[k] = seen[p] /\ seen[p] # Nil
        /\ UNCHANGED <<items, now, op>>
    BY <1>8, <1>a DEF Judge, RefInv, Inv, CallInv, EffectInv
  <2>2. CASE Expired(seen[p])
    <3>1. ret' = [ret EXCEPT ![p] = NotFound(op[p].name)]
      BY <1>8, <2>2 DEF Judge
    <3>2. ~Promise!Live(k)
      BY <2>1, <2>2, SameWords DEF Promise!Live
    <3>. QED  BY <2>1, <3>1, <3>2, NothingFound
  <2>3. CASE ~Expired(seen[p])
    <3>1. Promise!Live(k)
      BY <2>1, <2>3, SameWords DEF Promise!Live
    <3>2. CASE op[p].name = "Get"
      <4>1. ret' = [ret EXCEPT ![p] = Answer("found", seen[p].obj)]
        BY <1>8, <2>3, <3>2 DEF Judge, Answers
      <4>2. Promise!Fetch(p, k)
        BY <2>1, <3>1, <3>2, <4>1, SameWords DEF Promise!Fetch, Promise!Effect
      <4>. QED  BY <2>1, <4>2 DEF Promise!Next
    <3>3. CASE op[p].name = "HasExpired"
      <4>1. ret' = [ret EXCEPT ![p] = Answer("live", Nil)]
        BY <1>8, <2>3, <3>3 DEF Judge, Answers
      <4>2. Promise!AskExpired(p, k)
        BY <2>1, <3>1, <3>3, <4>1, SameWords DEF Promise!AskExpired, Promise!Effect
      <4>. QED  BY <2>1, <4>2 DEF Promise!Next
    <3>4. CASE op[p].name = "GetExpiration"
      BY <1>0, <1>8, <2>1, <2>3, <3>4 DEF Judge
    <3>. QED  BY <2>1, <3>2, <3>3, <3>4 DEF LookingUp
  <2>. QED  BY <2>2, <2>3
<1>9. ASSUME NEW p \in Procs, Remaining(p) PROVE Abstract
  <2>. DEFINE n == seen[p].exp - now
  <2>1. /\ op[p] # Nil /\ ret[p] = Nil /\ op[p].name = "GetExpiration"
        /\ ret' = [ret EXCEPT ![p] = Answer("number", n)]
        /\ UNCHANGED <<items, now, op>>
    BY <1>9, <1>a DEF Remaining, Answers, RefInv, EffectInv
  <2>2. n \in Int
    BY <1>9 DEF Remaining, RefInv, Inv, TypeOK, ItemsOK, EffectInv, Items
  <2>. HIDE DEF n
  <2>3. Promise!GetExpiration(p)
    BY <2>1, <2>2, GivesNumber
  <2>. QED  BY <2>1, <2>3 DEF Promise!Next
<1>10. ASSUME NEW p \in Procs, Return(p) PROVE Abstract
  <2>1. ret[p] # Nil
    BY <1>10 DEF Return, RefInv, EffectInv
  <2>2. Promise!Return(p)
    BY <1>10, <2>1 DEF Return, Promise!Return
  <2>. QED  BY <2>2 DEF Promise!Next
<1>11. CASE Tick
  BY <1>11 DEF Tick, callVars, Promise!Tick, Promise!Next
<1>12. CASE ReceiveStop \/ TickerFires \/ Drop \/ UNCHANGED vars
  BY <1>0, <1>12 DEF ReceiveStop, TickerFires, Drop, callVars, vars
<1>13. ASSUME NEW th \in Threads, Invoke(th) PROVE Abstract
  BY <1>1, <1>13 DEF Invoke, Procs
<1>14. CASE ReceiveTick
  BY <1>1, <1>14 DEF ReceiveTick, Procs
<1>. QED
  BY <1>2, <1>3, <1>4, <1>5, <1>6, <1>7, <1>8, <1>9, <1>10, <1>11, <1>12, <1>13, <1>14
     DEF Next, Work

\* Every call of the cache takes effect at one instant, as TTLCache promises: Add
\* never overwrites, an expired item is never returned, and nothing but an expired
\* item disappears on its own (LinearizableTTLCache).
THEOREM CacheKeepsItsPromise == Spec => LinearizableTTLCache
<1>1. Spec => Promise!Init /\ [][Promise!Next]_Promise!vars
  BY RefInvInit, RefInvNext, RefinedInit, RefinedNext, PTL DEF Spec
<1>. QED  BY <1>1 DEF LinearizableTTLCache, Promise!Spec
=============================================================================
