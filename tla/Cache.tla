-------------------------------- MODULE Cache --------------------------------
(***************************************************************************)
(* internal/cache/cache.go: the map, its sync.RWMutex, the callers and the *)
(* janitor goroutine that sweeps expired items until the finalizer of the  *)
(* Cache stops it.  Every call is split where the clock may advance or     *)
(* another goroutine may run: taking the lock, looking, judging against    *)
(* time.Now(), writing, releasing, and what follows the release.           *)
(***************************************************************************)
EXTENDS Integers, FiniteSets

CONSTANTS
  Threads,   \* callers of the cache
  Janitor,   \* the janitor goroutine
  Keys,
  Calls,     \* the calls the threads make: [name, key, val, ttl]
  MaxItems,
  MaxTime,   \* bound: the last instant of the clock
  Nil

Procs == Threads \cup {Janitor}

\* The call the janitor makes.
Sweeping == [name |-> "DeleteExpired", key |-> Nil, val |-> Nil, ttl |-> 0]

Writing == {"Set", "Add", "Delete", "Clear", "SetExpiration", "DeleteExpired"}
LookingUp == {"Get", "HasExpired", "GetExpiration"}

\* What a call may answer.
Results == {"ok", "exists", "full", "found", "missing", "live", "expired", "number"}
Values == {c.val : c \in Calls} \cup {Nil}

ASSUME CacheAssumption ==
  /\ IsFiniteSet(Keys) /\ MaxItems \in Nat /\ MaxTime \in Nat \ {0}
  /\ Nil \notin Keys /\ Nil \notin Procs /\ Janitor \notin Threads
  /\ \A c \in Calls \cup {Sweeping} :
       /\ c # Nil /\ c.ttl \in Int
       /\ c.name \in Writing \cup LookingUp \cup {"ItemCount"}
       /\ c.name \in {"Set", "Add", "Delete", "SetExpiration"} \cup LookingUp => c.key \in Keys
  /\ Nil \notin [res : Results, val : Values \cup Int]

VARIABLES
  items,     \* c.Items: [Keys -> item or Nil], an item being [obj, exp]
  now,       \* the clock
  writer,    \* who holds the lock for writing or is next to, or Nil
  readers,   \* who holds it for reading
  pc,        \* where a process is in its call
  op,        \* its call, Nil when it has none
  seen,      \* the item it read
  left,      \* the keys its sweep has yet to visit
  ret,       \* what its call answers, Nil until it is known
  ticked,    \* the ticker's channel holds a tick
  life       \* of the Cache: "used", "dropped" (finalizer sending), "stopped"

lockVars == <<writer, readers>>
callVars == <<pc, op, seen, left, ret>>
janVars == <<ticked, life>>
vars == <<items, now, writer, readers, pc, op, seen, left, ret, ticked, life>>

Expired(item) == item.exp > 0 /\ item.exp < now
Present == {k \in Keys : items[k] # Nil}
Count == Cardinality(Present)
Answer(res, val) == [res |-> res, val |-> val]

Init ==
  /\ items = [k \in Keys |-> Nil]
  /\ now = 1
  /\ writer = Nil /\ readers = {}
  /\ pc = [p \in Procs |-> "idle"]
  /\ op = [p \in Procs |-> Nil]
  /\ seen = [p \in Procs |-> Nil]
  /\ left = [p \in Procs |-> {}]
  /\ ret = [p \in Procs |-> Nil]
  /\ ticked = FALSE
  /\ life = "used"

Goto(p, place) == pc' = [pc EXCEPT ![p] = place]
Answers(p, res, val) == ret' = [ret EXCEPT ![p] = Answer(res, val)]

-----------------------------------------------------------------------------
(* Calls.  A thread makes one while the Cache is in use; the janitor makes *)
(* one for a tick it receives.                                             *)

Begin(p, c) ==
  /\ pc[p] = "idle"
  /\ Goto(p, "lock")
  /\ op' = [op EXCEPT ![p] = c]
  /\ UNCHANGED <<items, now, lockVars, seen, left, ret>>

Invoke(th) ==
  /\ life = "used"
  /\ \E c \in Calls : Begin(th, c)
  /\ UNCHANGED janVars

ReceiveTick ==
  /\ ticked /\ life # "stopped"
  /\ ticked' = FALSE
  /\ Begin(Janitor, Sweeping)
  /\ UNCHANGED life

\* c.mu.Lock(): a writer first keeps other writers and new readers out, ...
Announce(p) ==
  /\ pc[p] = "lock" /\ op[p].name \in Writing
  /\ writer = Nil
  /\ writer' = p
  /\ Goto(p, "drain")
  /\ UNCHANGED <<items, now, readers, op, seen, left, ret, janVars>>

\* Mutant: a writer does not wait for the readers.
LockAmongReaders(p) ==
  /\ pc[p] = "drain"
  /\ Goto(p, CASE op[p].name \in {"Set", "Add"}  -> "check"
               [] op[p].name = "DeleteExpired"   -> "sweep"
               [] OTHER                          -> "write")
  /\ left' = IF op[p].name = "DeleteExpired" THEN [left EXCEPT ![p] = Present] ELSE left
  /\ UNCHANGED <<items, now, lockVars, op, seen, ret, janVars>>

\* ... then waits for the readers that are in; and where its body starts.
Lock(p) ==
  /\ pc[p] = "drain" /\ readers = {}
  /\ Goto(p, CASE op[p].name \in {"Set", "Add"}  -> "check"
               [] op[p].name = "DeleteExpired"   -> "sweep"
               [] OTHER                          -> "write")
  /\ left' = IF op[p].name = "DeleteExpired" THEN [left EXCEPT ![p] = Present] ELSE left
  /\ UNCHANGED <<items, now, lockVars, op, seen, ret, janVars>>

\* c.mu.RLock()
RLock(p) ==
  /\ pc[p] = "lock" /\ op[p].name \notin Writing
  /\ writer = Nil
  /\ readers' = readers \cup {p}
  /\ Goto(p, "read")
  /\ UNCHANGED <<items, now, writer, op, seen, left, ret, janVars>>

\* Mutant: one item too many.
HasRoomForOneMore == MaxItems > 0 /\ Count <= MaxItems

\* Set and Add: is the key there, and is there room?
HasRoom == MaxItems > 0 /\ Count < MaxItems

Check(p) ==
  /\ pc[p] = "check"
  /\ LET found == items[op[p].key] # Nil
     IN  IF found /\ op[p].name = "Add"
         THEN Answers(p, "exists", Nil) /\ Goto(p, "unlock")
         ELSE IF found \/ HasRoom THEN Goto(p, "write") /\ UNCHANGED ret
         ELSE Answers(p, "full", Nil) /\ Goto(p, "unlock")
  /\ UNCHANGED <<items, now, lockVars, op, seen, left, janVars>>

\* Mutant: Clear leaves no map at all.
WriteNoMap(p) ==
  /\ pc[p] = "write"
  /\ LET c == op[p]
     IN  items' = CASE c.name \in {"Set", "Add"} ->
                         [items EXCEPT ![c.key] =
                           [obj |-> c.val, exp |-> IF c.ttl > 0 THEN now + c.ttl ELSE 0]]
                    [] c.name = "Delete" -> [items EXCEPT ![c.key] = Nil]
                    [] c.name = "Clear" -> [k \in {} |-> Nil]
                    [] c.name = "SetExpiration" -> items
  /\ Answers(p, "ok", Nil)
  /\ Goto(p, "unlock")
  /\ UNCHANGED <<now, lockVars, op, seen, left, janVars>>

Write(p) ==
  /\ pc[p] = "write"
  /\ LET c == op[p]
     IN  items' = CASE c.name \in {"Set", "Add"} ->
                         [items EXCEPT ![c.key] =
                           [obj |-> c.val, exp |-> IF c.ttl > 0 THEN now + c.ttl ELSE 0]]
                    [] c.name = "Delete" -> [items EXCEPT ![c.key] = Nil]
                    [] c.name = "Clear" -> [k \in Keys |-> Nil]
                    \* SetExpiration sets it in its copy of the item.
                    [] c.name = "SetExpiration" -> items
  /\ Answers(p, "ok", Nil)
  /\ Goto(p, "unlock")
  /\ UNCHANGED <<now, lockVars, op, seen, left, janVars>>

\* Mutant: the expired item is deleted from a copy of the map.
SweepCopy(p) ==
  /\ pc[p] = "sweep"
  /\ \E k \in left[p] : left' = [left EXCEPT ![p] = @ \ {k}]
  /\ UNCHANGED <<items, now, lockVars, pc, op, seen, ret, janVars>>

\* One round of the loop of DeleteExpired, in the map's arbitrary order.
Sweep(p) ==
  /\ pc[p] = "sweep"
  /\ \E k \in left[p] :
       /\ left' = [left EXCEPT ![p] = @ \ {k}]
       /\ items' = IF Expired(items[k]) THEN [items EXCEPT ![k] = Nil] ELSE items
  /\ UNCHANGED <<now, lockVars, pc, op, seen, ret, janVars>>

\* Mutant: the last statement is Lock again, not Unlock.
SweepDoneLocks(p) ==
  /\ pc[p] = "sweep" /\ left[p] = {}
  /\ Answers(p, "ok", Nil)
  /\ Goto(p, "lock")
  /\ UNCHANGED <<items, now, lockVars, op, seen, left, janVars>>

SweepDone(p) ==
  /\ pc[p] = "sweep" /\ left[p] = {}
  /\ Answers(p, "ok", Nil)
  /\ Goto(p, "unlock")
  /\ UNCHANGED <<items, now, lockVars, op, seen, left, janVars>>

NotFound(name) ==
  CASE name = "Get" -> Answer("missing", Nil)
    [] name = "HasExpired" -> Answer("expired", Nil)
    [] name = "GetExpiration" -> Answer("number", 0)

\* The lookup in the map.
Read(p) ==
  /\ pc[p] = "read"
  /\ IF op[p].name = "ItemCount"
     THEN Answers(p, "number", Count) /\ Goto(p, "unlock") /\ UNCHANGED seen
     ELSE LET item == items[op[p].key]
          IN  /\ seen' = [seen EXCEPT ![p] = item]
              /\ IF item = Nil
                 THEN ret' = [ret EXCEPT ![p] = NotFound(op[p].name)] /\ Goto(p, "unlock")
                 ELSE Goto(p, "judge") /\ UNCHANGED ret
  /\ UNCHANGED <<items, now, lockVars, op, left, janVars>>

\* Mutant: an expired item is returned like any other.
JudgeLive(p) ==
  /\ pc[p] = "judge"
  /\ Goto(p, "unlock")
  /\ CASE op[p].name = "Get" -> Answers(p, "found", seen[p].obj)
       [] op[p].name = "HasExpired" -> Answers(p, "live", Nil)
       [] op[p].name = "GetExpiration" -> UNCHANGED ret
  /\ UNCHANGED <<items, now, lockVars, op, seen, left, janVars>>

\* The comparison of the item's expiration with time.Now().
Judge(p) ==
  /\ pc[p] = "judge"
  /\ Goto(p, "unlock")
  /\ IF Expired(seen[p]) THEN ret' = [ret EXCEPT ![p] = NotFound(op[p].name)]
     ELSE CASE op[p].name = "Get" -> Answers(p, "found", seen[p].obj)
            [] op[p].name = "HasExpired" -> Answers(p, "live", Nil)
            [] op[p].name = "GetExpiration" -> UNCHANGED ret
  /\ UNCHANGED <<items, now, lockVars, op, seen, left, janVars>>

\* Mutant: the early return of a lookup that finds nothing releases nothing.
UnlockIfFound(p) ==
  /\ pc[p] = "unlock"
  /\ writer' = IF writer = p THEN Nil ELSE writer
  /\ readers' = IF seen[p] = Nil THEN readers ELSE readers \ {p}
  /\ Goto(p, IF ret[p] = Nil THEN "late" ELSE "return")
  /\ UNCHANGED <<items, now, op, seen, left, ret, janVars>>

\* c.mu.Unlock() or c.mu.RUnlock()
Unlock(p) ==
  /\ pc[p] = "unlock"
  /\ writer' = IF writer = p THEN Nil ELSE writer
  /\ readers' = readers \ {p}
  /\ Goto(p, IF ret[p] = Nil THEN "late" ELSE "return")
  /\ UNCHANGED <<items, now, op, seen, left, ret, janVars>>

\* GetExpiration asks for the time again after it released the lock.
Remaining(p) ==
  /\ pc[p] = "late"
  /\ Answers(p, "number", seen[p].exp - now)
  /\ Goto(p, "return")
  /\ UNCHANGED <<items, now, lockVars, op, seen, left, janVars>>

Return(p) ==
  /\ pc[p] = "return"
  /\ Goto(p, "idle")
  /\ op' = [op EXCEPT ![p] = Nil]
  /\ ret' = [ret EXCEPT ![p] = Nil]
  /\ seen' = [seen EXCEPT ![p] = Nil]
  /\ UNCHANGED <<items, now, lockVars, left, janVars>>

-----------------------------------------------------------------------------
(* The clock, the ticker, and the end of the Cache.                        *)

Tick ==
  /\ now < MaxTime
  /\ now' = now + 1
  /\ UNCHANGED <<items, lockVars, callVars, janVars>>

\* The ticker's channel has room for one tick; more of them are dropped.
TickerFires ==
  /\ ~ticked /\ life # "stopped"
  /\ ticked' = TRUE
  /\ UNCHANGED <<items, now, lockVars, callVars, life>>

\* Nobody refers to the Cache any more, though a call may still be at work on the
\* cache inside it: the finalizer sends on j.stop.
Drop ==
  /\ life = "used"
  /\ life' = "dropped"
  /\ UNCHANGED <<items, now, lockVars, callVars, ticked>>

\* The janitor, in its select, receives the stop.
ReceiveStop ==
  /\ life = "dropped" /\ pc[Janitor] = "idle"
  /\ life' = "stopped"
  /\ UNCHANGED <<items, now, lockVars, callVars, ticked>>

Work(p) ==
  \/ Lock(p) \/ Check(p) \/ Write(p) \/ Sweep(p) \/ SweepDone(p) \/ Read(p) \/ Judge(p)
  \/ Unlock(p) \/ Remaining(p) \/ Return(p)
TakeLock(p) == Announce(p) \/ RLock(p)

Next ==
  \/ \E th \in Threads : Invoke(th)
  \/ \E p \in Procs : TakeLock(p) \/ Work(p)
  \/ ReceiveTick \/ ReceiveStop \/ TickerFires \/ Tick \/ Drop

Spec == Init /\ [][Next]_vars

\* A goroutine that can run does; sync.RWMutex starves nobody (a waiting writer
\* keeps new readers out, a waiting goroutine gets its turn); the
\* ticker keeps firing; and a select that finds both channels ready again and
\* again takes either in the end.  The clock and the callers owe nothing.
FairSpec ==
  /\ Spec
  /\ \A p \in Procs : WF_vars(Work(p)) /\ SF_vars(TakeLock(p))
  /\ WF_vars(TickerFires) /\ SF_vars(ReceiveTick) /\ SF_vars(ReceiveStop)

-----------------------------------------------------------------------------
Places == {"idle", "lock", "drain", "check", "write", "sweep", "read", "judge", "unlock",
           "late", "return"}

\* Every variable holds a value of its kind.
TypeOK ==
  /\ DOMAIN items = Keys
  /\ now \in 1 .. MaxTime
  /\ writer \in Procs \cup {Nil} /\ readers \subseteq Procs
  /\ pc \in [Procs -> Places]
  /\ DOMAIN op = Procs /\ DOMAIN seen = Procs /\ DOMAIN ret = Procs
  /\ left \in [Procs -> SUBSET Keys]
  /\ ticked \in BOOLEAN /\ life \in {"used", "dropped", "stopped"}

\* "MaxItems is the maximum number of items the cache can hold": however the
\* checks and the writes of several callers interleave, it never holds more.
CapacityKept == Count <= MaxItems

\* What a reader looked up is still what the cache holds when it judges it and
\* until it releases the lock: nobody overwrites, deletes or sweeps it meanwhile.
ReadsAreStable ==
  \A p \in Procs :
    pc[p] \in {"judge", "unlock"} /\ seen[p] # Nil => items[op[p].key] = seen[p]

\* Every call takes effect at one instant, as TTLCache promises: Add never
\* overwrites, an expired item is never returned, and only expired items
\* disappear on their own.
Promise ==
  INSTANCE TTLCache WITH call <- op, answer <- ret,
                         Calls <- Calls \cup {Sweeping}
LinearizableTTLCache == Promise!Spec

\* An item that has expired is swept, or replaced, while the Cache is in use,
\* even when nobody asks for it.
ExpiredIsSwept ==
  \A k \in Keys : items[k] # Nil /\ Expired(items[k]) ~>
                    \/ items[k] = Nil \/ ~Expired(items[k]) \/ life # "used"

\* The finalizer's send is received: the janitor goroutine ends after its Cache
\* was dropped, even if ticks keep coming.
JanitorStops == life = "dropped" ~> life = "stopped"

\* Every call that waits for the lock gets it, and returns.
EveryCallReturns == \A th \in Threads : pc[th] = "lock" ~> pc[th] = "idle"
=============================================================================
