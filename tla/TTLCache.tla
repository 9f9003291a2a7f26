------------------------------- MODULE TTLCache -------------------------------
(***************************************************************************)
(* What internal/cache promises its callers: a map of at most MaxItems     *)
(* items in which every call takes effect at one instant between its       *)
(* invocation and its return.  An item whose time is over is never         *)
(* returned again, and may disappear at any moment; nothing else           *)
(* disappears without a call that says so.                                 *)
(***************************************************************************)
EXTENDS Integers, FiniteSets

CONSTANTS
  Procs,     \* callers
  Keys,
  Calls,     \* the calls they make: [name, key, val, ttl]
  MaxItems,
  MaxTime,   \* bound: the last instant of the clock
  Nil

VARIABLES
  items,     \* [Keys -> item or Nil], an item being [obj, exp]
  now,
  call,      \* the call a process has in progress, Nil when it has none
  answer     \* what that call answers, Nil until it has taken effect

vars == <<items, now, call, answer>>

\* An item with expiration 0 never expires.
Expired(item, t) == item.exp > 0 /\ item.exp < t
Live(k) == items[k] # Nil /\ ~Expired(items[k], now)
Count == Cardinality({k \in Keys : items[k] # Nil})

Answer(res, val) == [res |-> res, val |-> val]
Entry(c) == [obj |-> c.val, exp |-> IF c.ttl > 0 THEN now + c.ttl ELSE 0]

Init ==
  /\ items = [k \in Keys |-> Nil]
  /\ now = 1
  /\ call = [p \in Procs |-> Nil]
  /\ answer = [p \in Procs |-> Nil]

Invoke(p) ==
  /\ call[p] = Nil
  /\ \E c \in Calls : call' = [call EXCEPT ![p] = c]
  /\ UNCHANGED <<items, now, answer>>

Effect(p, res, val) ==
  /\ call[p] # Nil /\ answer[p] = Nil
  /\ answer' = [answer EXCEPT ![p] = Answer(res, val)]
  /\ UNCHANGED <<now, call>>

Store(p, k) ==
  /\ call[p].name \in {"Set", "Add"} /\ call[p].key = k
  /\ IF items[k] # Nil THEN call[p].name = "Set" ELSE Count < MaxItems
  /\ items' = [items EXCEPT ![k] = Entry(call[p])]
  /\ Effect(p, "ok", Nil)

Refuse(p, k) ==
  /\ call[p].name \in {"Set", "Add"} /\ call[p].key = k
  /\ \/ items[k] # Nil /\ call[p].name = "Add" /\ Effect(p, "exists", Nil)
     \/ items[k] = Nil /\ Count >= MaxItems /\ Effect(p, "full", Nil)
  /\ UNCHANGED items

Fetch(p, k) ==
  /\ call[p].name = "Get" /\ call[p].key = k
  /\ IF Live(k) THEN Effect(p, "found", items[k].obj) ELSE Effect(p, "missing", Nil)
  /\ UNCHANGED items

AskExpired(p, k) ==
  /\ call[p].name = "HasExpired" /\ call[p].key = k
  /\ IF Live(k) THEN Effect(p, "live", Nil) ELSE Effect(p, "expired", Nil)
  /\ UNCHANGED items

Remove(p) ==
  /\ \/ /\ call[p].name = "Delete"
        /\ items' = [items EXCEPT ![call[p].key] = Nil]
     \/ /\ call[p].name = "Clear"
        /\ items' = [k \in Keys |-> Nil]
  /\ Effect(p, "ok", Nil)

CountItems(p) ==
  /\ call[p].name = "ItemCount"
  /\ Effect(p, "number", Count)
  /\ UNCHANGED items

\* SetExpiration says that it worked, and sets nothing.
SetExpiration(p) ==
  /\ call[p].name = "SetExpiration"
  /\ Effect(p, "ok", Nil)
  /\ UNCHANGED items

\* GetExpiration answers with some number: the item it looked at may be gone, and
\* its time over, when it asks for the time once more.
GetExpiration(p) ==
  /\ call[p].name = "GetExpiration"
  /\ answer'[p] # Nil /\ Effect(p, "number", answer'[p].val)
  /\ UNCHANGED items

Swept(p) ==
  /\ call[p].name = "DeleteExpired"
  /\ Effect(p, "ok", Nil)
  /\ UNCHANGED items

Return(p) ==
  /\ answer[p] # Nil
  /\ call' = [call EXCEPT ![p] = Nil]
  /\ answer' = [answer EXCEPT ![p] = Nil]
  /\ UNCHANGED <<items, now>>

Vanish ==
  /\ \E k \in Keys : /\ items[k] # Nil /\ Expired(items[k], now)
                     /\ items' = [items EXCEPT ![k] = Nil]
  /\ UNCHANGED <<now, call, answer>>

Tick == now < MaxTime /\ now' = now + 1 /\ UNCHANGED <<items, call, answer>>

Next ==
  \/ \E p \in Procs :
       \/ Invoke(p) \/ Return(p)
       \/ call[p] # Nil /\ ( \/ \E k \in Keys : Store(p, k) \/ Refuse(p, k)
                                               \/ Fetch(p, k) \/ AskExpired(p, k)
                             \/ Remove(p) \/ CountItems(p) \/ Swept(p)
                             \/ SetExpiration(p) \/ GetExpiration(p) )
  \/ Vanish \/ Tick

Spec == Init /\ [][Next]_vars
=============================================================================
