------------------------------- MODULE MCCache -------------------------------
(* The calls made in the runs of Cache.                                    *)
EXTENDS Cache

CONSTANTS k1, k2, v1, v2

Call(name, key, val, ttl) == [name |-> name, key |-> key, val |-> val, ttl |-> ttl]

\* Every call, on a full cache and on one with room.
CoreCalls ==
  {Call("Set", k1, v1, 1), Call("Set", k1, v2, 0), Call("Set", k2, v1, 1),
   Call("Add", k1, v2, 1), Call("Get", k1, Nil, 0), Call("HasExpired", k1, Nil, 0),
   Call("Delete", k1, Nil, 0), Call("Clear", Nil, Nil, 0), Call("ItemCount", Nil, Nil, 0),
   Call("SetExpiration", k1, Nil, 1), Call("GetExpiration", k1, Nil, 0)}
\* Calls that hold the lock for reading, for writing, and that look at the clock late.
LiveCalls ==
  {Call("Set", k1, v1, 1), Call("SetExpiration", k1, Nil, 1),
   Call("GetExpiration", k1, Nil, 0)}
=============================================================================
