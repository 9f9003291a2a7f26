---------------------------- MODULE ChartDownload ----------------------------
(***************************************************************************)
(* OCIChartRepository.DownloadChart and the transport pool it uses.        *)
(* Threads call DownloadChart, over and over, on the repository they were  *)
(* given.  A call takes a transport from the pool, sets its TLS            *)
(* configuration, appends it to the repository's getter options, has the   *)
(* repository's OCIGetter apply them and pull, and releases the transport. *)
(*                                                                         *)
(* append writes into the backing array of r.Options when that has room,   *)
(* and the getter keeps the options it applied: one cell and one option    *)
(* per repository, which every call on the repository reads and writes     *)
(* without a lock.                                                         *)
(***************************************************************************)
EXTENDS FiniteSets

CONSTANTS
  Threads, Repos,
  Transports,  \* identities of http.Transport objects
  Nil,         \* no transport, no TLS configuration
  RepoOf,      \* the OCIChartRepository each thread calls
  TlsOf,       \* the TLS configuration of each repository, or Nil
  Roomy,       \* the repositories whose Options have spare capacity
  WithClient   \* the repositories whose Options hold a registry client

ASSUME RepoAssumption ==
  /\ RepoOf \in [Threads -> Repos]
  /\ Roomy \subseteq Repos /\ WithClient \subseteq Repos
  /\ Nil \notin Transports

VARIABLES
  idle,    \* the transports in the pool
  tls,     \* TLSClientConfig of each transport
  pc,      \* where a thread's call is
  held,    \* its transport t
  cell,    \* the option after the end of a repository's Options
  getter,  \* the transport among the options its getter applied last
  used     \* the transport a thread's pull goes through, Nil for none

vars == <<idle, tls, pc, held, cell, getter, used>>

Mine(th) == RepoOf[th]

\* The transport at the end of a thread's clientOpts.
LastOption(th) == IF Mine(th) \in Roomy THEN cell[Mine(th)] ELSE held[th]

\* Everything that still refers to a transport.
Referenced ==
  idle \cup {held[th] : th \in Threads}
       \cup {cell[r] : r \in Repos} \cup {getter[r] : r \in Repos}

Init ==
  /\ idle = {}
  /\ tls = [t \in Transports |-> Nil]
  /\ pc = [th \in Threads |-> "start"]
  /\ held = [th \in Threads |-> Nil]
  /\ cell = [r \in Repos |-> Nil]
  /\ getter = [r \in Repos |-> Nil]
  /\ used = [th \in Threads |-> Nil]

Step(th, from, to) == pc[th] = from /\ pc' = [pc EXCEPT ![th] = to]

-----------------------------------------------------------------------------
\* Mutant: the transport that is taken stays in the pool.
GetAndKeep(th) ==
  /\ Step(th, "start", "got")
  /\ \E t \in idle \cup (Transports \ Referenced) : held' = [held EXCEPT ![th] = t]
  /\ UNCHANGED <<idle, tls, cell, getter, used>>

\* NewOrIdle: pool.Get returns an idle transport or a new one, in either case
\* when some are idle.
Get(th) ==
  /\ Step(th, "start", "got")
  /\ \E t \in idle \cup (Transports \ Referenced) :
       /\ held' = [held EXCEPT ![th] = t]
       /\ idle' = idle \ {t}
       /\ tls' = IF t \in idle THEN tls ELSE [tls EXCEPT ![t] = Nil]
  /\ UNCHANGED <<cell, getter, used>>

SetTLS(th) ==
  /\ Step(th, "got", "set")
  /\ tls' = [tls EXCEPT ![held[th]] = TlsOf[Mine(th)]]
  /\ UNCHANGED <<idle, held, cell, getter, used>>

\* clientOpts := append(r.Options, getter.WithTransport(t))
AppendOption(th) ==
  /\ Step(th, "set", "appended")
  /\ cell' = IF Mine(th) \in Roomy THEN [cell EXCEPT ![Mine(th)] = held[th]] ELSE cell
  /\ UNCHANGED <<idle, tls, held, getter, used>>

\* Mutant: options are applied the first time only.
ApplyOptionsOnce(th) ==
  /\ Step(th, "appended", "applied")
  /\ getter' = IF getter[Mine(th)] = Nil THEN [getter EXCEPT ![Mine(th)] = LastOption(th)]
               ELSE getter
  /\ UNCHANGED <<idle, tls, held, cell, used>>

\* OCIGetter.Get: for _, opt := range options { opt(&g.opts) }
ApplyOptions(th) ==
  /\ Step(th, "appended", "applied")
  /\ getter' = [getter EXCEPT ![Mine(th)] = LastOption(th)]
  /\ UNCHANGED <<idle, tls, held, cell, used>>

\* The registry client of the options if there is one, else one that is made
\* with the transport of the options.
StartPull(th) ==
  /\ Step(th, "applied", "pulling")
  /\ used' = [used EXCEPT ![th] = IF Mine(th) \in WithClient THEN Nil ELSE getter[Mine(th)]]
  /\ UNCHANGED <<idle, tls, held, cell, getter>>

EndPull(th) ==
  /\ Step(th, "pulling", "pulled")
  /\ used' = [used EXCEPT ![th] = Nil]
  /\ UNCHANGED <<idle, tls, held, cell, getter>>

\* Mutant: the transport keeps its TLS configuration.
KeepTLS(th) ==
  /\ Step(th, "pulled", "reset")
  /\ UNCHANGED <<idle, tls, held, cell, getter, used>>

\* The deferred Release: the TLS configuration is reset, then pool.Put.
ResetTLS(th) ==
  /\ Step(th, "pulled", "reset")
  /\ tls' = [tls EXCEPT ![held[th]] = Nil]
  /\ UNCHANGED <<idle, held, cell, getter, used>>

\* Mutant: the variable is cleared before its transport is put into the pool.
PutCleared(th) ==
  /\ Step(th, "reset", "start")
  /\ held' = [held EXCEPT ![th] = Nil]
  /\ idle' = idle \cup {held'[th]}
  /\ UNCHANGED <<tls, cell, getter, used>>

Put(th) ==
  /\ Step(th, "reset", "start")
  /\ idle' = idle \cup {held[th]}
  /\ held' = [held EXCEPT ![th] = Nil]
  /\ UNCHANGED <<tls, cell, getter, used>>

\* The garbage collector drops an idle transport from the sync.Pool.
Collect ==
  /\ \E t \in idle : idle' = idle \ {t}
  /\ UNCHANGED <<tls, pc, held, cell, getter, used>>

Next ==
  \/ \E th \in Threads :
       \/ Get(th) \/ SetTLS(th) \/ AppendOption(th) \/ ApplyOptions(th)
       \/ StartPull(th) \/ EndPull(th) \/ ResetTLS(th) \/ Put(th)
  \/ Collect

Spec == Init /\ [][Next]_vars

-----------------------------------------------------------------------------
Places == {"start", "got", "set", "appended", "applied", "pulling", "pulled", "reset"}
Holding == Places \ {"start"}

\* Every variable holds a value of its kind.
TypeOK ==
  /\ idle \subseteq Transports
  /\ DOMAIN tls = Transports
  /\ pc \in [Threads -> Places]
  /\ held \in [Threads -> Transports \cup {Nil}]
  /\ cell \in [Repos -> Transports \cup {Nil}]
  /\ getter \in [Repos -> Transports \cup {Nil}]
  /\ used \in [Threads -> Transports \cup {Nil}]

\* "return an existing transport that is not currently being used": no two calls
\* hold the same transport, and none holds one that is in the pool.
Exclusive ==
  /\ \A a, b \in Threads : a # b /\ held[a] # Nil => held[a] # held[b]
  /\ \A a \in Threads : held[a] \notin idle

\* "reseting TLS specific state after each use": a transport in the pool carries
\* no TLS configuration of the repository that used it.
IdleSanitised == \A t \in idle : tls[t] = Nil

\* A pull never goes through a transport that its own call does not hold, so
\* never through one that is back in the pool or in use for another repository,
\* and the transport carries the TLS configuration of the call's repository.
PullUsesOwnTransport ==
  \A th \in Threads :
    pc[th] = "pulling" /\ used[th] # Nil =>
      used[th] = held[th] /\ tls[used[th]] = TlsOf[Mine(th)]
=============================================================================
