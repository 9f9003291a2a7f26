------------------------- MODULE ChartDownloadProofs -------------------------
(***************************************************************************)
(* Theorems about ChartDownload, for any number of threads, repositories   *)
(* and transports.                                                         *)
(***************************************************************************)
EXTENDS ChartDownload, TLAPS

\* A call holds a transport from Get to Put, and the transport carries the
\* repository's TLS configuration from SetTLS to ResetTLS.
CallInv(th) ==
  /\ pc[th] = "start" <=> held[th] = Nil
  /\ pc[th] \in {"set", "appended", "applied", "pulling", "pulled"} =>
       tls[held[th]] = TlsOf[Mine(th)]
  /\ pc[th] = "reset" => tls[held[th]] = Nil

Inv == TypeOK /\ Exclusive /\ IdleSanitised /\ \A th \in Threads : CallInv(th)

LEMMA InvInit == Init => Inv
  BY RepoAssumption DEF Init, Inv, TypeOK, Exclusive, IdleSanitised, CallInv, Places

LEMMA InvNext == Inv /\ [Next]_vars => Inv'
<1>. SUFFICES ASSUME Inv, [Next]_vars PROVE Inv'
  OBVIOUS
<1>. USE RepoAssumption DEF Inv, TypeOK, Exclusive, IdleSanitised, CallInv, Places, Step, Mine
<1>1. ASSUME NEW th \in Threads, Get(th) PROVE Inv'
  BY <1>1 DEF Get, Referenced
<1>2. ASSUME NEW th \in Threads, SetTLS(th) PROVE Inv'
  BY <1>2 DEF SetTLS
<1>3. ASSUME NEW th \in Threads, AppendOption(th) PROVE Inv'
  BY <1>3 DEF AppendOption
<1>4. ASSUME NEW th \in Threads, ApplyOptions(th) PROVE Inv'
  BY <1>4 DEF ApplyOptions, LastOption
<1>5. ASSUME NEW th \in Threads, StartPull(th) PROVE Inv'
  BY <1>5 DEF StartPull
<1>6. ASSUME NEW th \in Threads, EndPull(th) PROVE Inv'
  BY <1>6 DEF EndPull
<1>7. ASSUME NEW th \in Threads, ResetTLS(th) PROVE Inv'
  BY <1>7 DEF ResetTLS
<1>8. ASSUME NEW th \in Threads, Put(th) PROVE Inv'
  BY <1>8 DEF Put
<1>9. CASE Collect
  BY <1>9 DEF Collect
<1>10. CASE UNCHANGED vars
  BY <1>10 DEF vars
<1>. QED
  BY <1>1, <1>2, <1>3, <1>4, <1>5, <1>6, <1>7, <1>8, <1>9, <1>10 DEF Next

\* The variables hold values of their kinds.
THEOREM TypeCorrect == Spec => []TypeOK
<1>1. Inv => TypeOK
  BY DEF Inv
<1>. QED  BY <1>1, InvInit, InvNext, PTL DEF Spec

\* A transport is in one call or in the pool, never in two places (Exclusive).
THEOREM TransportsAreExclusive == Spec => []Exclusive
<1>1. Inv => Exclusive
  BY DEF Inv
<1>. QED  BY <1>1, InvInit, InvNext, PTL DEF Spec

\* No TLS configuration stays on a transport in the pool (IdleSanitised).
THEOREM PoolIsSanitised == Spec => []IdleSanitised
<1>1. Inv => IdleSanitised
  BY DEF Inv
<1>. QED  BY <1>1, InvInit, InvNext, PTL DEF Spec

-----------------------------------------------------------------------------
(* When no repository is shared, the unlocked cell and options are harmless. *)

RepoPerThread == \A a, b \in Threads : RepoOf[a] = RepoOf[b] => a = b

\* What is in a repository's cell and options is what its only call put there.
OptionInv(th) ==
  /\ pc[th] \in {"appended", "applied"} /\ Mine(th) \in Roomy => cell[Mine(th)] = held[th]
  /\ pc[th] = "applied" => getter[Mine(th)] = held[th]
  /\ pc[th] = "pulling" => used[th] \in {Nil, held[th]}

InvOwn == Inv /\ \A th \in Threads : OptionInv(th)

LEMMA InvOwnInit == Init => InvOwn
  BY InvInit DEF Init, InvOwn, OptionInv

LEMMA InvOwnNext == RepoPerThread /\ InvOwn /\ [Next]_vars => InvOwn'
<1>. SUFFICES ASSUME RepoPerThread, InvOwn, [Next]_vars
     PROVE  \A th \in Threads : OptionInv(th)'
  BY InvNext DEF InvOwn
<1>. USE RepoAssumption DEF InvOwn, Inv, TypeOK, OptionInv, RepoPerThread, Places, Step, Mine
<1>1. ASSUME NEW th \in Threads, Get(th) PROVE \A o \in Threads : OptionInv(o)'
  BY <1>1 DEF Get
<1>2. ASSUME NEW th \in Threads, SetTLS(th) PROVE \A o \in Threads : OptionInv(o)'
  BY <1>2 DEF SetTLS
<1>3. ASSUME NEW th \in Threads, AppendOption(th) PROVE \A o \in Threads : OptionInv(o)'
  BY <1>3 DEF AppendOption
<1>4. ASSUME NEW th \in Threads, ApplyOptions(th) PROVE \A o \in Threads : OptionInv(o)'
  BY <1>4 DEF ApplyOptions, LastOption
<1>5. ASSUME NEW th \in Threads, StartPull(th) PROVE \A o \in Threads : OptionInv(o)'
  BY <1>5 DEF StartPull
<1>6. ASSUME NEW th \in Threads, EndPull(th) PROVE \A o \in Threads : OptionInv(o)'
  BY <1>6 DEF EndPull
<1>7. ASSUME NEW th \in Threads, ResetTLS(th) PROVE \A o \in Threads : OptionInv(o)'
  BY <1>7 DEF ResetTLS
<1>8. ASSUME NEW th \in Threads, Put(th) PROVE \A o \in Threads : OptionInv(o)'
  BY <1>8 DEF Put
<1>9. CASE Collect
  BY <1>9 DEF Collect
<1>10. CASE UNCHANGED vars
  BY <1>10 DEF vars
<1>. QED
  BY <1>1, <1>2, <1>3, <1>4, <1>5, <1>6, <1>7, <1>8, <1>9, <1>10 DEF Next

\* With a repository per call, as LoadChart makes them, every pull goes through
\* the transport of its own call with its own TLS configuration
\* (PullUsesOwnTransport; the run download_shared refutes it for a shared one).
THEOREM OwnTransportIsUsed == RepoPerThread /\ Spec => []PullUsesOwnTransport
<1>1. InvOwn => PullUsesOwnTransport
  BY DEF InvOwn, Inv, TypeOK, CallInv, OptionInv, PullUsesOwnTransport
<1>2. ASSUME RepoPerThread PROVE Spec => []PullUsesOwnTransport
  <2>1. InvOwn /\ [Next]_vars => InvOwn'
    BY <1>2, InvOwnNext
  <2>. QED  BY <1>1, <2>1, InvOwnInit, PTL DEF Spec
<1>. QED  BY <1>2
=============================================================================
