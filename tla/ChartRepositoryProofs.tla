------------------------ MODULE ChartRepositoryProofs ------------------------
(***************************************************************************)
(* Theorems about ChartRepository, for any number of threads, verifiers,   *)
(* images, signatures and changes of the registry.                         *)
(***************************************************************************)
EXTENDS ChartRepository, SequenceTheorems, TLAPS

Verifier == [key : Keys \cup {Nil}, pool : SUBSET Intermediates]

\* A signature that is attached to the image a call looks at, and counts for the
\* first verifier.
Good(th, s) == s \in signed[digest[th]] /\ Acceptable(s, verifiers[1])

\* What a call has in hand: its first verifier, an image that its reference stood
\* for, and signatures of that image.
CallInv(th) ==
  /\ pc[th] \in Calling => Denotes(ref[th]) \in denoted[th]
  /\ pc[th] \in {"fetch", "check", "trust", "verified"} => digest[th] \in denoted[th] \ {Nil}
  /\ pc[th] \in {"check", "trust", "verified"} =>
       /\ unchecked[th] \subseteq signed[digest[th]]
       /\ \A s \in checked[th] : Good(th, s)
  /\ pc[th] = "trust" => sig[th] \in signed[digest[th]] /\ sig[th].key = Nil
  /\ pc[th] = "verified" => checked[th] # {}
  /\ turn[th] = 1
  /\ pc[th] = "forget" => file # "made"

Inv == TypeOK /\ ForgottenWasDeleted /\ \A th \in Threads : CallInv(th)

-----------------------------------------------------------------------------
(* The verifiers.                                                          *)

LEMMA MadeVerifiers ==
  ASSUME NEW o \in Options, \A i \in DOMAIN o.keys : o.keys[i] \in Keys \cup {Nil}
  PROVE  [i \in DOMAIN o.keys |-> NewCosignVerifier(o.keys[i])] \in Seq(Verifier)
<1>. DEFINE keys == o.keys
            f == [i \in DOMAIN keys |-> NewCosignVerifier(keys[i])]
<1>1. DOMAIN keys = 1..Len(keys) /\ Len(keys) \in Nat
  BY SignatureAssumption
<1>2. f \in [1..Len(keys) -> Verifier]
  BY <1>1, SignatureAssumption DEF NewCosignVerifier, Verifier
<1>. QED  BY <1>1, <1>2

\* A chain changes the pool of the verifier that looks at it, and nothing else.
LEMMA PoolChanged ==
  ASSUME verifiers \in Seq(Verifier), NEW i \in DOMAIN verifiers, NEW s \in Signatures,
         verifiers' = [verifiers EXCEPT ![i].pool = PoolAfter(s, @)]
  PROVE  /\ verifiers' \in Seq(Verifier) /\ DOMAIN verifiers' = DOMAIN verifiers
         /\ \A j \in DOMAIN verifiers : verifiers'[j].key = verifiers[j].key
<1>1. DOMAIN verifiers = 1..Len(verifiers) /\ Len(verifiers) \in Nat
        /\ verifiers \in [1..Len(verifiers) -> Verifier]
  BY LenProperties
<1>2. PoolAfter(s, verifiers[i].pool) \in SUBSET Intermediates
  BY <1>1, SignatureAssumption DEF PoolAfter, Verifier
<1>3. [verifiers[i] EXCEPT !.pool = PoolAfter(s, @)] \in Verifier
  BY <1>1, <1>2 DEF Verifier
<1>4. verifiers' = [verifiers EXCEPT ![i] = [verifiers[i] EXCEPT !.pool = PoolAfter(s, @)]]
  BY <1>1
<1>5. verifiers' \in Seq(Verifier)
  BY <1>1, <1>3, <1>4, ExceptSeq
<1>. QED  BY <1>1, <1>3, <1>4, <1>5 DEF Verifier

LEMMA InitTypeOK == Init => TypeOK
<1>. SUFFICES ASSUME Init PROVE TypeOK
  OBVIOUS
<1>1. /\ given \in BOOLEAN /\ credentials \in BOOLEAN
      /\ file \in {"absent", "made", "saved"}
  BY DEF Init
<1>2. VerifiersOK /\ LocalsOK /\ \A th \in Threads : CallOK(th)
  BY SignatureAssumption DEF Init, VerifiersOK, LocalsOK, CallOK, Images, Calling, Keyless
<1>3. target \in Images /\ signed \in [Digests -> SUBSET Signatures] /\ edits \in 0..MaxEdits
  BY SignatureAssumption DEF Init, Images
<1>. QED  BY <1>1, <1>2, <1>3 DEF TypeOK

LEMMA Faulted ==
  ASSUME LocalsOK, NEW th, fault' = [fault EXCEPT ![th] = TRUE] \/ UNCHANGED fault
  PROVE  fault' \in [Threads -> BOOLEAN]
BY DEF LocalsOK

LEMMA TypeOKPreserved == TypeOK /\ [Next]_vars => TypeOK'
<1>. SUFFICES ASSUME TypeOK, [Next]_vars PROVE TypeOK'
  OBVIOUS
<1>. USE SignatureAssumption DEF store, registry, local, history, Images
\* A step of one call leaves the others theirs.
<1>0. ASSUME UNCHANGED verifiers, NEW th \in Threads, CallOK(th)',
             \A o \in Threads \ {th} :
               UNCHANGED <<pc[o], ref[o], turn[o], digest[o], sig[o]>>
      PROVE  \A o \in Threads : CallOK(o)'
  BY <1>0 DEF TypeOK, CallOK, Keyless
<1>a. LocalsOK
  BY DEF TypeOK
<1>1. ASSUME MakeRepository PROVE TypeOK'
  <2>1. VerifiersOK'
    BY <1>1, MadeVerifiers DEF MakeRepository, VerifiersOK, Verifier
  <2>2. \A th \in Threads : pc[th] = "idle"
    BY <1>1 DEF MakeRepository, TypeOK, CallOK
  <2>3. \A th \in Threads : CallOK(th)'
    BY <1>1, <2>2 DEF MakeRepository, TypeOK, CallOK, Calling
  <2>4. given' \in BOOLEAN /\ credentials' \in BOOLEAN /\ file' \in {"absent", "made", "saved"}
    BY <1>1 DEF MakeRepository
  <2>5. UNCHANGED <<registry, pc, local, history>>
    BY <1>1 DEF MakeRepository
  <2>. QED  BY <2>1, <2>3, <2>4, <2>5 DEF TypeOK, LocalsOK
<1>2. ASSUME NEW th \in Threads, Begin(th) PROVE TypeOK'
  <2>0. PICK r \in Refs :
          /\ ref' = [ref EXCEPT ![th] = r]
          /\ denoted' = [denoted EXCEPT ![th] = {Denotes(r)}]
          /\ quiet' = [quiet EXCEPT ![th] = TRUE]
          /\ \/ pc' = [pc EXCEPT ![th] = "resolve"] /\ verifiers # <<>>
             \/ pc' = [pc EXCEPT ![th] = "failed"]
    BY <1>2, Zenon DEF Begin, Goto
  <2>1. LocalsOK'
    <3>1. Denotes(r) \in Images
      BY DEF TypeOK, Denotes
    <3>2. denoted' \in [Threads -> SUBSET Images] /\ quiet' \in [Threads -> BOOLEAN]
            /\ ref' \in [Threads -> Refs \cup {Nil}]
      BY <2>0, <3>1 DEF TypeOK, LocalsOK
    <3>. QED  BY <1>2, <2>0, <3>2 DEF Begin, Calling, TypeOK, LocalsOK
  <2>2. CallOK(th)'
    <3>1. pc[th] = "idle" /\ sig[th] = Nil /\ turn[th] = 1 /\ verifiers # Nil
      BY <1>2 DEF Begin, TypeOK, CallOK, Calling
    <3>2. pc'[th] = "failed" \/ (pc'[th] = "resolve" /\ verifiers # <<>>)
      BY <2>0 DEF TypeOK, LocalsOK
    <3>3. ref'[th] = r /\ r # Nil
      BY <2>0 DEF TypeOK, LocalsOK
    <3>4. verifiers # <<>> => 1 \in DOMAIN verifiers
      BY <3>1, EmptySeq, LenProperties DEF TypeOK, VerifiersOK
    <3>. QED
      BY <1>2, <3>1, <3>2, <3>3, <3>4 DEF Begin, CallOK, Calling
  <2>3. \A o \in Threads \ {th} : UNCHANGED <<pc[o], ref[o], turn[o], digest[o], sig[o]>>
    BY <1>2, <2>0 DEF Begin, TypeOK, LocalsOK
  <2>. QED  BY <1>0, <1>2, <2>1, <2>2, <2>3 DEF Begin, TypeOK, VerifiersOK
<1>3. ASSUME NEW th \in Threads, Resolve(th) \/ Fetch(th) PROVE TypeOK'
  <2>1. LocalsOK'
    <3>1. pc' \in [Threads -> Calling \cup {"idle", "remove", "forget"}]
            /\ fault' \in [Threads -> BOOLEAN]
      BY <1>3, Faulted DEF Resolve, Fetch, Fault, Goto, Calling, TypeOK, LocalsOK
    <3>2. digest' \in [Threads -> Images]
      <4>1. CASE Fetch(th)
        BY <4>1 DEF Fetch, TypeOK, LocalsOK
      <4>2. CASE Resolve(th)
        <5>1. ref[th] \in Refs
          BY <4>2 DEF Resolve, TypeOK, LocalsOK, CallOK, Calling
        <5>2. Denotes(ref[th]) \in Images
          BY <5>1 DEF Denotes, TypeOK
        <5>. QED  BY <4>2, <5>2 DEF Resolve, TypeOK, LocalsOK
      <4>. QED  BY <1>3, <4>1, <4>2
    <3>3. unchecked' \in [Threads -> SUBSET Signatures] /\ checked' \in [Threads -> SUBSET Signatures]
      <4>1. CASE Resolve(th)
        BY <4>1 DEF Resolve, TypeOK, LocalsOK
      <4>2. CASE Fetch(th)
        <5>1. digest[th] \in Digests
          BY <4>2 DEF Fetch, TypeOK, LocalsOK, CallOK
        <5>2. unchecked' = [unchecked EXCEPT ![th] = signed[digest[th]]] \/ unchecked' = unchecked
          BY <4>2 DEF Fetch
        <5>3. checked' = [checked EXCEPT ![th] = {}] \/ checked' = checked
          BY <4>2 DEF Fetch
        <5>4. signed[digest[th]] \in SUBSET Signatures
          BY <5>1 DEF TypeOK
        <5>5. unchecked' \in [Threads -> SUBSET Signatures]
          <6>1. unchecked \in [Threads -> SUBSET Signatures]
            BY DEF TypeOK, LocalsOK
          <6>. QED  BY <5>2, <5>4, <6>1
        <5>6. checked' \in [Threads -> SUBSET Signatures]
          BY <5>3 DEF TypeOK, LocalsOK
        <5>. QED  BY <5>5, <5>6
      <4>. QED  BY <1>3, <4>1, <4>2
    <3>. QED  BY <1>3, <3>1, <3>2, <3>3 DEF Resolve, Fetch, TypeOK, LocalsOK
  <2>2. CallOK(th)'
    BY <1>3 DEF Resolve, Fetch, Fault, Goto, TypeOK, LocalsOK, CallOK, Calling
  <2>3. \A o \in Threads \ {th} : UNCHANGED <<pc[o], ref[o], turn[o], digest[o], sig[o]>>
    BY <1>a, <1>3 DEF Resolve, Fetch, Fault, Goto, LocalsOK
  <2>4. UNCHANGED <<verifiers, store, registry>>
    BY <1>3 DEF Resolve, Fetch
  <2>5. \A o \in Threads : CallOK(o)'
    BY <1>0, <2>2, <2>3, <2>4
  <2>. QED  BY <2>1, <2>4, <2>5 DEF TypeOK, VerifiersOK
<1>4. ASSUME NEW th \in Threads, CheckKey(th) PROVE TypeOK'
  <2>1. LocalsOK'
    <3>1. fault' \in [Threads -> BOOLEAN]
      BY <1>4, Faulted DEF CheckKey, TypeOK
    <3>2. unchecked' \in [Threads -> SUBSET Signatures] /\ checked' \in [Threads -> SUBSET Signatures]
      <4>1. PICK s \in unchecked[th] :
              /\ unchecked' = [unchecked EXCEPT ![th] = @ \ {s}]
              /\ checked' = [checked EXCEPT ![th] = @ \cup {s}] \/ checked' = checked
        BY <1>4 DEF CheckKey
      <4>2. unchecked[th] \in SUBSET Signatures /\ s \in Signatures
              /\ checked[th] \in SUBSET Signatures
        BY DEF TypeOK, LocalsOK
      <4>3. unchecked[th] \ {s} \in SUBSET Signatures
              /\ checked[th] \cup {s} \in SUBSET Signatures
        BY <4>2
      <4>4. unchecked' \in [Threads -> SUBSET Signatures]
        BY <1>a, <4>1, <4>3 DEF LocalsOK
      <4>5. checked' \in [Threads -> SUBSET Signatures]
        <5>1. CASE checked' = checked
          BY <1>a, <5>1 DEF LocalsOK
        <5>2. CASE checked' = [checked EXCEPT ![th] = @ \cup {s}]
          BY <1>a, <4>3, <5>2 DEF LocalsOK
        <5>. QED  BY <4>1, <5>1, <5>2
      <4>. QED  BY <4>4, <4>5
    <3>. QED  BY <1>4, <3>1, <3>2 DEF CheckKey, TypeOK, LocalsOK
  <2>2. CallOK(th)'
    BY <1>4 DEF CheckKey, TypeOK, CallOK, Keyless
  <2>. QED  BY <1>0, <1>4, <2>1, <2>2 DEF CheckKey, TypeOK, VerifiersOK
<1>5. ASSUME NEW th \in Threads, TakeChain(th) PROVE TypeOK'
  <2>1. PICK s \in unchecked[th] :
          IF s.key # Nil THEN UNCHANGED <<verifiers, sig, pc>>
          ELSE /\ verifiers' = [verifiers EXCEPT ![turn[th]].pool = PoolAfter(s, @)]
               /\ sig' = [sig EXCEPT ![th] = s]
               /\ pc' = [pc EXCEPT ![th] = "trust"]
    BY <1>5 DEF TakeChain, Goto
  <2>2. /\ s \in Signatures /\ s # Nil /\ turn[th] \in DOMAIN verifiers
        /\ verifiers \in Seq(Verifier) /\ pc[th] = "check" /\ Keyless(th) /\ sig[th] = Nil
    BY <1>5, <2>1 DEF TakeChain, TypeOK, LocalsOK, VerifiersOK, CallOK, Calling, Verifier
  <2>3. LocalsOK'
    <3>1. unchecked' \in [Threads -> SUBSET Signatures]
      BY <1>5 DEF TakeChain, TypeOK, LocalsOK
    <3>2. sig' \in [Threads -> Signatures \cup {Nil}]
            /\ pc' \in [Threads -> Calling \cup {"idle", "remove", "forget"}]
      <4>1. sig' = sig \/ sig' = [sig EXCEPT ![th] = s]
        BY <2>1
      <4>2. pc' = pc \/ pc' = [pc EXCEPT ![th] = "trust"]
        BY <2>1
      <4>3. sig' \in [Threads -> Signatures \cup {Nil}]
        <5>1. CASE sig' = sig
          BY <1>a, <5>1 DEF LocalsOK
        <5>2. CASE sig' = [sig EXCEPT ![th] = s]
          BY <1>a, <2>2, <5>2 DEF LocalsOK
        <5>. QED  BY <4>1, <5>1, <5>2
      <4>4. pc' \in [Threads -> Calling \cup {"idle", "remove", "forget"}]
        BY <1>a, <4>2 DEF Calling, LocalsOK
      <4>. QED  BY <4>3, <4>4
    <3>. QED  BY <1>5, <3>1, <3>2 DEF TakeChain, TypeOK, LocalsOK
  <2>4. CASE s.key # Nil
    <3>1. CallOK(th)'
      BY <1>5, <2>1, <2>4 DEF TakeChain, TypeOK, CallOK, Keyless
    <3>. QED  BY <1>0, <1>5, <2>1, <2>3, <2>4, <3>1 DEF TakeChain, TypeOK, VerifiersOK
  <2>5. CASE s.key = Nil
    <3>1. /\ verifiers' \in Seq(Verifier) /\ DOMAIN verifiers' = DOMAIN verifiers
          /\ \A j \in DOMAIN verifiers : verifiers'[j].key = verifiers[j].key
      BY <2>1, <2>2, <2>5, PoolChanged
    <3>2. verifiers # Nil => verifiers' # Nil
      BY <3>1 DEF Verifier
    <3>3. UNCHANGED <<ref, turn, digest>> /\ pc' = [pc EXCEPT ![th] = "trust"]
            /\ sig' = [sig EXCEPT ![th] = s]
      BY <1>5, <2>1, <2>5 DEF TakeChain
    <3>4. CallOK(th)'
      BY <2>2, <3>1, <3>2, <3>3 DEF TypeOK, LocalsOK, CallOK, Calling, Keyless
    <3>5. ASSUME NEW o \in Threads \ {th} PROVE CallOK(o)'
      BY <3>1, <3>2, <3>3 DEF TypeOK, LocalsOK, CallOK, Calling, Keyless
    <3>. QED  BY <1>5, <2>3, <3>1, <3>4, <3>5 DEF TakeChain, TypeOK, VerifiersOK, Verifier
  <2>. QED  BY <2>4, <2>5
<1>6. ASSUME NEW th \in Threads, Trust(th) PROVE TypeOK'
  <2>1. LocalsOK'
    <3>1. fault' \in [Threads -> BOOLEAN]
      BY <1>6, Faulted DEF Trust, TypeOK
    <3>2. checked' \in [Threads -> SUBSET Signatures]
      <4>1. sig[th] \in Signatures
        BY <1>6 DEF Trust, TypeOK, LocalsOK, CallOK
      <4>2. checked' = [checked EXCEPT ![th] = @ \cup {sig[th]}] \/ checked' = checked
        BY <1>6 DEF Trust
      <4>3. checked[th] \cup {sig[th]} \in SUBSET Signatures
        BY <1>a, <4>1 DEF LocalsOK
      <4>4. CASE checked' = checked
        BY <1>a, <4>4 DEF LocalsOK
      <4>5. CASE checked' = [checked EXCEPT ![th] = @ \cup {sig[th]}]
        BY <1>a, <4>3, <4>5 DEF LocalsOK
      <4>. QED  BY <4>2, <4>4, <4>5
    <3>3. sig' \in [Threads -> Signatures \cup {Nil}]
            /\ pc' \in [Threads -> Calling \cup {"idle", "remove", "forget"}]
      BY <1>6 DEF Trust, Goto, Calling, TypeOK, LocalsOK
    <3>. QED  BY <1>6, <3>1, <3>2, <3>3 DEF Trust, TypeOK, LocalsOK
  <2>2. CallOK(th)'
    BY <1>6 DEF Trust, Goto, TypeOK, LocalsOK, CallOK, Calling, Keyless
  <2>. QED  BY <1>0, <1>6, <2>1, <2>2 DEF Trust, Goto, TypeOK, LocalsOK, VerifiersOK
<1>7. ASSUME NEW th \in Threads, Conclude(th) PROVE TypeOK'
  <2>1. pc[th] = "check" /\ UNCHANGED turn
          /\ (pc' = [pc EXCEPT ![th] = "verified"] \/ pc' = [pc EXCEPT ![th] = "failed"])
    BY <1>7 DEF Conclude, AsksNext, Answer, Goto, TypeOK, LocalsOK
  <2>2. LocalsOK'
    BY <1>7, <2>1 DEF Conclude, Calling, TypeOK, LocalsOK
  <2>3. CallOK(th)'
    BY <1>7, <2>1 DEF Conclude, TypeOK, LocalsOK, CallOK, Calling
  <2>. QED  BY <1>0, <1>7, <2>1, <2>2, <2>3 DEF Conclude, TypeOK, LocalsOK, VerifiersOK
<1>8. ASSUME NEW th \in Threads, Return(th) PROVE TypeOK'
  <2>1. LocalsOK'
    BY <1>8 DEF Return, Goto, Calling, TypeOK, LocalsOK
  <2>2. CallOK(th)'
    BY <1>8 DEF Return, Goto, TypeOK, LocalsOK, CallOK, Calling
  <2>. QED  BY <1>0, <1>8, <2>1, <2>2 DEF Return, Goto, TypeOK, LocalsOK, VerifiersOK
<1>9. ASSUME NEW th \in Threads, BeginClear(th) \/ Remove(th) \/ Forget(th) PROVE TypeOK'
  <2>1. LocalsOK'
    BY <1>9 DEF BeginClear, Remove, RemoveFails, Forget, Goto, TypeOK, LocalsOK
  <2>2. CallOK(th)'
    BY <1>9 DEF BeginClear, Remove, RemoveFails, Forget, Goto, TypeOK, LocalsOK, CallOK, Calling
  <2>3. \A o \in Threads \ {th} : UNCHANGED <<pc[o], ref[o], turn[o], digest[o], sig[o]>>
    BY <1>a, <1>9 DEF BeginClear, Remove, RemoveFails, Forget, Goto, LocalsOK
  <2>4. /\ UNCHANGED <<verifiers, registry, given>>
        /\ file' \in {file, "absent"} /\ credentials' \in {credentials, FALSE}
    BY <1>9 DEF BeginClear, Remove, RemoveFails, Forget
  <2>5. \A o \in Threads : CallOK(o)'
    BY <1>0, <2>2, <2>3, <2>4
  <2>. QED  BY <2>1, <2>4, <2>5 DEF TypeOK, VerifiersOK
<1>10. CASE DeleteFile \/ UNCHANGED vars \/ \E th \in Threads : Login(th) \/ Logout(th)
  <2>1. UNCHANGED <<verifiers, registry, pc, local, history>>
    BY <1>10 DEF DeleteFile, Login, Logout, SaveFile, vars
  <2>2. given' \in BOOLEAN /\ credentials' \in BOOLEAN
          /\ file' \in {"absent", "made", "saved"}
    BY <1>10 DEF DeleteFile, Login, Logout, SaveFile, vars, TypeOK
  <2>. QED  BY <2>1, <2>2 DEF TypeOK, VerifiersOK, LocalsOK, CallOK, Keyless
<1>11. ASSUME MoveTag \/ Sign PROVE TypeOK'
  <2>1. PICK to \in Images, new \in [Digests -> SUBSET Signatures] : Edit(to, new)
    BY <1>11 DEF MoveTag, Sign, TypeOK
  <2>2. denoted' \in [Threads -> SUBSET Images] /\ quiet' \in [Threads -> BOOLEAN]
    BY <2>1 DEF Edit, TypeOK, LocalsOK
  <2>. QED
    BY <2>1, <2>2 DEF Edit, TypeOK, VerifiersOK, LocalsOK, CallOK, Keyless
<1>. QED
  BY <1>1, <1>2, <1>3, <1>4, <1>5, <1>6, <1>7, <1>8, <1>9, <1>10, <1>11 DEF Next, Step

\* Every variable has its type, and a call that asks a verifier asks one there is.
THEOREM TypeCorrect == Spec => []TypeOK
BY InitTypeOK, TypeOKPreserved, PTL DEF Spec

-----------------------------------------------------------------------------
(* The signatures a call has accepted.                                     *)

\* A step of one call leaves another's, unless it takes the verifiers, the
\* registry or the file from under it.
LEMMA Kept ==
  ASSUME NEW o \in Threads, CallInv(o), UNCHANGED <<target, signed>>,
         file' = "made" => file = "made",
         verifiers'[1].key = verifiers[1].key,
         UNCHANGED <<pc[o], ref[o], turn[o], digest[o], unchecked[o], checked[o], sig[o],
                     denoted[o]>>
  PROVE  CallInv(o)'
BY DEF CallInv, Good, Acceptable, Denotes

\* A change of the registry takes no signature away, and what a tag points to now
\* is among what it stood for.
LEMMA EditKept ==
  ASSUME TypeOK, NEW o \in Threads, CallInv(o), NEW to, NEW new, Edit(to, new),
         \A d \in Digests : signed[d] \subseteq new[d]
  PROVE  CallInv(o)'
<1>1. UNCHANGED <<verifiers, file, pc, ref, turn, digest, unchecked, checked, sig>>
        /\ target' = to /\ signed' = new
  BY DEF Edit, store, local
<1>2. denoted[o] \subseteq denoted'[o]
  BY DEF Edit, TypeOK, LocalsOK
<1>3. pc[o] \in Calling => Denotes(ref[o])' \in denoted'[o]
  <2>. SUFFICES ASSUME pc[o] \in Calling PROVE Denotes(ref[o])' \in denoted'[o]
    OBVIOUS
  <2>1. ref[o] # Nil
    BY DEF TypeOK, CallOK
  <2>2. CASE ref[o].form = "digest"
    BY <1>1, <1>2, <2>2 DEF CallInv, Denotes
  <2>3. CASE ref[o].form # "digest"
    <3>1. Denotes(ref[o])' = to
      BY <1>1, <2>3 DEF Denotes
    <3>2. to \in denoted'[o]
      BY <2>1, <2>3 DEF Edit
    <3>. QED  BY <3>1, <3>2
  <2>. QED  BY <2>2, <2>3
<1>4. pc[o] \in {"fetch", "check", "trust", "verified"} => digest[o] \in Digests
  BY DEF CallInv, TypeOK, LocalsOK, Images
<1>5. \A s : Good(o, s) /\ digest[o] \in Digests => Good(o, s)'
  BY <1>1 DEF Good, Acceptable
<1>. QED  BY <1>1, <1>2, <1>3, <1>4, <1>5 DEF CallInv

LEMMA InitInv == Init => Inv
BY InitTypeOK DEF Init, Inv, CallInv, Calling, ForgottenWasDeleted

LEMMA InvPreserved == Inv /\ [Next]_vars => Inv'
<1>. SUFFICES ASSUME Inv, [Next]_vars PROVE Inv'
  OBVIOUS
<1>. USE SignatureAssumption DEF store, registry, local, history
<1>0. TypeOK /\ TypeOK' /\ ForgottenWasDeleted /\ \A th \in Threads : CallInv(th)
  BY TypeOKPreserved DEF Inv
\* What the steps of a call have in common.
<1>14. ASSUME NEW th \in Threads, CallInv(th)', UNCHANGED <<target, signed, given, credentials>>,
             file' = "made" => file = "made", verifiers'[1].key = verifiers[1].key,
             \A o \in Threads \ {th} :
               UNCHANGED <<pc[o], ref[o], turn[o], digest[o], unchecked[o], checked[o],
                           sig[o], denoted[o]>>
      PROVE  Inv'
  <2>1. \A o \in Threads \ {th} : CallInv(o)'
    BY <1>0, <1>14, Kept
  <2>2. ForgottenWasDeleted'
    BY <1>0, <1>14 DEF ForgottenWasDeleted
  <2>. QED  BY <1>0, <1>14, <2>1, <2>2 DEF Inv
<1>1. CASE MakeRepository
  <2>1. \A th \in Threads : pc'[th] = "idle" /\ turn'[th] = 1
    BY <1>0, <1>1 DEF MakeRepository, TypeOK, CallOK, CallInv
  <2>2. \A th \in Threads : CallInv(th)'
    BY <2>1 DEF CallInv, Calling
  <2>3. ForgottenWasDeleted'
    BY <1>1 DEF MakeRepository, ForgottenWasDeleted
  <2>. QED  BY <1>0, <2>2, <2>3 DEF Inv
<1>2. ASSUME NEW th \in Threads, Begin(th) PROVE Inv'
  <2>0. PICK r \in Refs :
          /\ ref' = [ref EXCEPT ![th] = r]
          /\ denoted' = [denoted EXCEPT ![th] = {Denotes(r)}]
          /\ pc' = [pc EXCEPT ![th] = "resolve"] \/ pc' = [pc EXCEPT ![th] = "failed"]
    BY <1>2, Zenon DEF Begin, Goto
  <2>1. Denotes(r)' = Denotes(r)
    BY <1>2 DEF Begin, Denotes
  <2>2. CallInv(th)'
    BY <1>0, <1>2, <2>0, <2>1 DEF Begin, CallInv, Calling, TypeOK, LocalsOK
  <2>3. \A o \in Threads \ {th} : UNCHANGED <<pc[o], ref[o], denoted[o]>>
    BY <1>0, <2>0 DEF TypeOK, LocalsOK
  <2>. QED  BY <1>2, <1>14, <2>2, <2>3 DEF Begin
<1>3. ASSUME NEW th \in Threads, Resolve(th) PROVE Inv'
  <2>1. Denotes(ref[th])' = Denotes(ref[th]) /\ Denotes(ref[th]) \in denoted[th]
    BY <1>0, <1>3 DEF Resolve, Denotes, CallInv, Calling
  <2>2. CallInv(th)'
    BY <1>0, <1>3, <2>1 DEF Resolve, Fault, Goto, CallInv, Calling, TypeOK, LocalsOK
  <2>3. \A o \in Threads \ {th} : UNCHANGED <<pc[o], digest[o]>>
    BY <1>0, <1>3 DEF Resolve, Fault, Goto, TypeOK, LocalsOK
  <2>. QED  BY <1>3, <1>14, <2>2, <2>3 DEF Resolve
<1>4. ASSUME NEW th \in Threads, Fetch(th) PROVE Inv'
  <2>1. Denotes(ref[th])' = Denotes(ref[th]) /\ Denotes(ref[th]) \in denoted[th]
    BY <1>0, <1>4 DEF Fetch, Denotes, CallInv, Calling
  <2>2. CallInv(th)'
    BY <1>0, <1>4, <2>1 DEF Fetch, Fault, Goto, CallInv, Calling, TypeOK, LocalsOK
  <2>3. \A o \in Threads \ {th} : UNCHANGED <<pc[o], unchecked[o], checked[o]>>
    BY <1>0, <1>4 DEF Fetch, Fault, Goto, TypeOK, LocalsOK
  <2>. QED  BY <1>4, <1>14, <2>2, <2>3 DEF Fetch
<1>5. ASSUME NEW th \in Threads, CheckKey(th) PROVE Inv'
  <2>1. PICK s \in unchecked[th] :
          /\ unchecked' = [unchecked EXCEPT ![th] = @ \ {s}]
          /\ checked' = checked
               \/ (checked' = [checked EXCEPT ![th] = @ \cup {s}]
                     /\ s.key = verifiers[turn[th]].key)
    BY <1>5 DEF CheckKey
  <2>2. s.key = verifiers[turn[th]].key => Good(th, s)
    BY <1>0, <1>5, <2>1 DEF CheckKey, Keyless, CallInv, Good, Acceptable
  <2>3. unchecked'[th] \subseteq unchecked[th] /\ \A t \in checked'[th] : Good(th, t)
    BY <1>0, <1>5, <2>1, <2>2 DEF CheckKey, CallInv, TypeOK, LocalsOK
  <2>4. UNCHANGED <<target, signed, verifiers, given, file, credentials, pc, ref, turn, digest,
                    sig, denoted>>
    BY <1>5 DEF CheckKey
  <2>5. pc[th] = "check"
    BY <1>5 DEF CheckKey
  <2>6. \A t : Good(th, t)' <=> Good(th, t)
    BY <2>4 DEF Good, Acceptable
  <2>7. CallInv(th)'
    BY <1>0, <2>3, <2>4, <2>5, <2>6 DEF CallInv, Denotes
  <2>8. \A o \in Threads \ {th} : UNCHANGED <<unchecked[o], checked[o]>>
    BY <1>0, <2>1 DEF TypeOK, LocalsOK
  <2>. QED  BY <1>14, <2>4, <2>7, <2>8
<1>6. ASSUME NEW th \in Threads, TakeChain(th) PROVE Inv'
  <2>1. PICK s \in unchecked[th] :
          /\ unchecked' = [unchecked EXCEPT ![th] = @ \ {s}]
          /\ IF s.key # Nil THEN UNCHANGED <<verifiers, sig, pc>>
             ELSE /\ verifiers' = [verifiers EXCEPT ![turn[th]].pool = PoolAfter(s, @)]
                  /\ sig' = [sig EXCEPT ![th] = s]
                  /\ pc' = [pc EXCEPT ![th] = "trust"]
    BY <1>6 DEF TakeChain, Goto
  <2>2. /\ pc[th] = "check" /\ turn[th] = 1
        /\ UNCHANGED <<target, signed, given, file, credentials, ref, turn, digest, checked, denoted>>
    BY <1>0, <1>6 DEF TakeChain, CallInv
  <2>3. s \in Signatures /\ turn[th] \in DOMAIN verifiers /\ verifiers \in Seq(Verifier)
    BY <1>0, <2>1, <2>2 DEF TypeOK, LocalsOK, VerifiersOK, CallOK, Calling, Verifier
  <2>4. verifiers'[1].key = verifiers[1].key
    BY <2>1, <2>2, <2>3, PoolChanged
  <2>5. s \in signed[digest[th]] /\ unchecked'[th] \subseteq unchecked[th]
    BY <1>0, <2>1, <2>2 DEF CallInv, TypeOK, LocalsOK
  <2>6. \A t : Good(th, t)' <=> Good(th, t)
    BY <2>2, <2>4 DEF Good, Acceptable
  <2>7. \/ UNCHANGED <<sig, pc>>
        \/ sig'[th] = s /\ s.key = Nil /\ pc'[th] = "trust"
    BY <1>0, <2>1 DEF TypeOK, LocalsOK
  <2>8. CallInv(th)'
    BY <1>0, <2>2, <2>5, <2>6, <2>7 DEF CallInv, Denotes, Calling
  <2>9. \A o \in Threads \ {th} : UNCHANGED <<pc[o], sig[o], unchecked[o]>>
    BY <1>0, <2>1 DEF TypeOK, LocalsOK
  <2>. QED  BY <1>14, <2>2, <2>4, <2>8, <2>9
<1>7. ASSUME NEW th \in Threads, Trust(th) PROVE Inv'
  <2>1. /\ pc[th] = "trust" /\ sig' = [sig EXCEPT ![th] = Nil] /\ pc' = [pc EXCEPT ![th] = "check"]
        /\ UNCHANGED <<target, signed, verifiers, given, file, credentials, ref, turn, digest,
                       unchecked, denoted>>
        /\ checked' = checked
             \/ (checked' = [checked EXCEPT ![th] = @ \cup {sig[th]}]
                   /\ Trusted(sig[th], verifiers[turn[th]].pool))
    BY <1>7 DEF Trust, Goto
  <2>2. Trusted(sig[th], verifiers[turn[th]].pool) => Good(th, sig[th])
    <3>1. Keyless(th) /\ turn[th] = 1 /\ sig[th].key = Nil /\ sig[th] \in signed[digest[th]]
      BY <1>0, <2>1 DEF TypeOK, CallOK, CallInv
    <3>2. verifiers[1].pool \subseteq Intermediates
      <4>1. verifiers # Nil /\ 1 \in DOMAIN verifiers
        BY <1>0, <2>1, <3>1 DEF TypeOK, CallOK, Calling
      <4>2. verifiers \in Seq(Verifier)
        BY <1>0, <4>1 DEF TypeOK, VerifiersOK, Verifier
      <4>3. verifiers[1] \in Verifier
        BY <4>1, <4>2, LenProperties
      <4>. QED  BY <4>3 DEF Verifier
    <3>. QED  BY <3>1, <3>2 DEF Trusted, Keyless, Good, Acceptable
  <2>3. \A t \in checked'[th] : Good(th, t)
    BY <1>0, <2>1, <2>2 DEF CallInv, TypeOK, LocalsOK
  <2>4. \A t : Good(th, t)' <=> Good(th, t)
    BY <2>1 DEF Good, Acceptable
  <2>5. pc'[th] = "check"
    BY <1>0, <2>1 DEF TypeOK, LocalsOK
  <2>6. CallInv(th)'
    BY <1>0, <2>1, <2>3, <2>4, <2>5 DEF CallInv, Denotes, Calling
  <2>7. \A o \in Threads \ {th} : UNCHANGED <<pc[o], sig[o], checked[o]>>
    BY <1>0, <2>1 DEF TypeOK, LocalsOK
  <2>. QED  BY <1>14, <2>1, <2>6, <2>7
<1>8. ASSUME NEW th \in Threads, Conclude(th) PROVE Inv'
  <2>1. /\ pc[th] = "check"
        /\ UNCHANGED <<target, signed, verifiers, given, file, credentials, ref, digest, unchecked,
                       checked, sig, denoted>>
        /\ turn' = turn
        /\ \/ pc' = [pc EXCEPT ![th] = "verified"] /\ checked[th] # {}
           \/ pc' = [pc EXCEPT ![th] = "failed"]
    BY <1>0, <1>8 DEF Conclude, AsksNext, Answer, Goto, TypeOK, LocalsOK
  <2>2. \A t : Good(th, t)' <=> Good(th, t)
    BY <2>1 DEF Good, Acceptable
  <2>3. (pc'[th] = "verified" /\ checked[th] # {}) \/ pc'[th] = "failed"
    BY <1>0, <2>1 DEF TypeOK, LocalsOK
  <2>4. CallInv(th)'
    BY <1>0, <2>1, <2>2, <2>3 DEF CallInv, Denotes, Calling
  <2>5. \A o \in Threads \ {th} : UNCHANGED pc[o]
    BY <1>0, <2>1 DEF TypeOK, LocalsOK
  <2>. QED  BY <1>14, <2>1, <2>4, <2>5
<1>9. ASSUME NEW th \in Threads, Return(th) PROVE Inv'
  <2>1. CallInv(th)'
    BY <1>0, <1>9 DEF Return, Goto, CallInv, Calling, TypeOK, LocalsOK
  <2>2. \A o \in Threads \ {th} :
          UNCHANGED <<pc[o], ref[o], turn[o], digest[o], unchecked[o], checked[o], denoted[o]>>
    BY <1>0, <1>9 DEF Return, Goto, TypeOK, LocalsOK
  <2>. QED  BY <1>9, <1>14, <2>1, <2>2 DEF Return
<1>10. ASSUME NEW th \in Threads, BeginClear(th) \/ Remove(th) PROVE Inv'
  <2>1. CallInv(th)'
    BY <1>0, <1>10 DEF BeginClear, Remove, RemoveFails, Goto, CallInv, Calling, TypeOK, LocalsOK
  <2>2. \A o \in Threads \ {th} : UNCHANGED pc[o]
    BY <1>0, <1>10 DEF BeginClear, Remove, RemoveFails, Goto, TypeOK, LocalsOK
  <2>. QED  BY <1>10, <1>14, <2>1, <2>2 DEF BeginClear, Remove, RemoveFails
<1>11. ASSUME NEW th \in Threads, Forget(th) PROVE Inv'
  <2>1. pc[th] = "forget" /\ file # "made" /\ UNCHANGED file
    BY <1>0, <1>11 DEF Forget, CallInv
  <2>2. CallInv(th)'
    BY <1>0, <1>11 DEF Forget, Goto, CallInv, Calling, TypeOK, LocalsOK
  <2>3. \A o \in Threads \ {th} : CallInv(o)'
    <3>1. \A o \in Threads \ {th} : UNCHANGED pc[o]
      BY <1>0, <1>11 DEF Forget, Goto, TypeOK, LocalsOK
    <3>. QED  BY <1>0, <1>11, <3>1, Kept DEF Forget
  <2>. QED  BY <1>0, <2>1, <2>2, <2>3 DEF Inv, ForgottenWasDeleted
<1>12. CASE DeleteFile \/ UNCHANGED vars \/ \E th \in Threads : Login(th) \/ Logout(th)
  <2>0. /\ UNCHANGED <<verifiers, given, credentials, registry, pc, local, history>>
        /\ file' = "made" => file = "made"
    BY <1>12 DEF DeleteFile, Login, Logout, SaveFile, vars
  <2>1. \A o \in Threads : CallInv(o)'
    BY <1>0, <2>0, Kept
  <2>2. ForgottenWasDeleted'
    BY <1>0, <2>0 DEF ForgottenWasDeleted
  <2>. QED  BY <1>0, <2>1, <2>2 DEF Inv
<1>13. CASE MoveTag \/ Sign
  <2>1. PICK to, new : Edit(to, new) /\ \A d \in Digests : signed[d] \subseteq new[d]
    <3>1. CASE MoveTag
      BY <3>1 DEF MoveTag
    <3>2. CASE Sign
      <4>1. PICK d \in Digests, s \in Signatures :
              Edit(target, [signed EXCEPT ![d] = @ \cup {s}])
        BY <3>2 DEF Sign
      <4>2. \A e \in Digests : signed[e] \subseteq [signed EXCEPT ![d] = @ \cup {s}][e]
        BY <1>0 DEF TypeOK
      <4>. QED  BY <4>1, <4>2
    <3>. QED  BY <1>13, <3>1, <3>2
  <2>2. \A o \in Threads : CallInv(o)'
    BY <1>0, <2>1, EditKept
  <2>3. ForgottenWasDeleted'
    BY <1>0, <2>1 DEF Edit, ForgottenWasDeleted
  <2>. QED  BY <1>0, <2>2, <2>3 DEF Inv
<1>. QED
  BY <1>1, <1>2, <1>3, <1>4, <1>5, <1>6, <1>7, <1>8, <1>9, <1>10, <1>11, <1>12, <1>13
  DEF Next, Step

\* What every call has in hand, and the forgotten file, in every state.
THEOREM Invariant == Spec => []Inv
BY InitInv, InvPreserved, PTL DEF Spec

\* Whichever calls share the verifiers and however the tag moves meanwhile, a chart
\* that VerifyChart passes was signed, in the registry, for one of the repository's
\* verifiers.
THEOREM Verified == Spec => []VerifiedWasSigned
<1>1. Inv => VerifiedWasSigned
  <2>. SUFFICES ASSUME Inv, NEW th \in Threads, pc[th] = "verified"
                PROVE  \E d \in denoted[th] \ {Nil}, i \in DOMAIN verifiers :
                         \E s \in signed[d] : Acceptable(s, verifiers[i])
    BY DEF VerifiedWasSigned
  <2>1. CallInv(th) /\ digest[th] \in denoted[th] \ {Nil}
    BY DEF Inv, CallInv
  <2>2. PICK s \in checked[th] : TRUE
    BY <2>1 DEF CallInv
  <2>3. Good(th, s)
    BY <2>1, <2>2 DEF CallInv
  <2>4. 1 \in DOMAIN verifiers
    BY <2>1 DEF Inv, CallInv, TypeOK, CallOK, Calling
  <2>. QED  BY <2>1, <2>3, <2>4 DEF Good
<1>. QED  BY <1>1, Invariant, PTL

\* HasCredentials answers no only once the client's credentials file was deleted,
\* however calls of Login, Logout, Clear and the caller's own removal of the file
\* interleave; what is there then a Login or a Logout has saved since.
THEOREM ForgottenOnceDeleted == Spec => []ForgottenWasDeleted
<1>1. Inv => ForgottenWasDeleted
  BY DEF Inv
<1>. QED  BY <1>1, Invariant, PTL

-----------------------------------------------------------------------------
(* The reason of a failure.                                                *)

\* A call on a plain tag that neither a failed request nor a change of the registry
\* can excuse.
Watched(th) == quiet[th] /\ ~fault[th] /\ ref[th].form = "tag" /\ verifiers # <<>>

\* A signature of the call's image that it has still to look at, or has accepted.
InHand(th, s) ==
  s \in unchecked[th] \/ s \in checked[th] \/ (pc[th] = "trust" /\ s = sig[th])

\* Such a call looks at the tag's image, has every signature in hand that its first
\* verifier accepts whatever the pool, and fails with a reason.
ReasonInv(th) ==
  Watched(th) =>
    /\ pc[th] \in {"fetch", "check", "trust"} => digest[th] = target
    /\ pc[th] \in {"check", "trust"} =>
         \A s \in signed[target] : Certain(s, verifiers[1]) => InHand(th, s)
    /\ pc[th] = "failed" =>
         target = Nil \/ \A s \in signed[target] : ~Certain(s, verifiers[1])

InvReason == Inv /\ \A th \in Threads : ReasonInv(th)

LEMMA InitReason == Init => InvReason
BY InitInv DEF Init, InvReason, ReasonInv

\* A call in which nothing happens keeps its reason.
LEMMA ReasonKept ==
  ASSUME NEW o \in Threads, ReasonInv(o), UNCHANGED <<target, signed>>,
         verifiers' # <<>> => verifiers # <<>>, verifiers'[1].key = verifiers[1].key,
         UNCHANGED <<pc[o], ref[o], digest[o], unchecked[o], checked[o], sig[o], fault[o],
                     quiet[o]>>
  PROVE  ReasonInv(o)'
BY DEF ReasonInv, Watched, InHand, Certain

LEMMA ReasonPreserved == InvReason /\ [Next]_vars => InvReason'
<1>. SUFFICES ASSUME InvReason, [Next]_vars PROVE \A th \in Threads : ReasonInv(th)'
  BY InvPreserved DEF InvReason
<1>. USE SignatureAssumption DEF store, registry, local, history, Goto, Fault
<1>0. TypeOK /\ \A th \in Threads : CallInv(th) /\ CallOK(th) /\ ReasonInv(th)
  BY DEF InvReason, Inv, TypeOK
\* What the steps of a call that leave the verifiers alone have in common.
<1>1. ASSUME NEW th \in Threads, ReasonInv(th)', UNCHANGED <<target, signed, verifiers>>,
             \A o \in Threads \ {th} :
               UNCHANGED <<pc[o], ref[o], digest[o], unchecked[o], checked[o], sig[o],
                           fault[o], quiet[o]>>
      PROVE  \A o \in Threads : ReasonInv(o)'
  BY <1>0, <1>1, ReasonKept
<1>2. CASE MakeRepository
  <2>1. \A th \in Threads : pc'[th] = "idle"
    BY <1>0, <1>2 DEF MakeRepository, CallOK
  <2>. QED  BY <2>1 DEF ReasonInv
<1>3. ASSUME NEW th \in Threads, Begin(th) PROVE \A o \in Threads : ReasonInv(o)'
  <2>0. PICK r \in Refs :
          /\ ref' = [ref EXCEPT ![th] = r] /\ quiet' = [quiet EXCEPT ![th] = TRUE]
          /\ \/ pc' = [pc EXCEPT ![th] = "resolve"]
             \/ pc' = [pc EXCEPT ![th] = "failed"] /\ (verifiers = <<>> \/ ~Parses(r))
    BY <1>3, Zenon DEF Begin
  <2>1. ReasonInv(th)'
    BY <1>0, <1>3, <2>0 DEF Begin, ReasonInv, Watched, Parses, TypeOK, LocalsOK
  <2>2. \A o \in Threads \ {th} : UNCHANGED <<pc[o], ref[o], quiet[o]>>
    BY <1>0, <2>0 DEF TypeOK, LocalsOK
  <2>. QED  BY <1>1, <1>3, <2>1, <2>2 DEF Begin
<1>4. ASSUME NEW th \in Threads, Resolve(th) PROVE \A o \in Threads : ReasonInv(o)'
  <2>1. ReasonInv(th)'
    BY <1>0, <1>4 DEF Resolve, Denotes, ReasonInv, Watched, TypeOK, LocalsOK
  <2>2. \A o \in Threads \ {th} : UNCHANGED <<pc[o], digest[o], fault[o]>>
    BY <1>0, <1>4 DEF Resolve, TypeOK, LocalsOK
  <2>. QED  BY <1>1, <1>4, <2>1, <2>2 DEF Resolve
<1>5. ASSUME NEW th \in Threads, Fetch(th) PROVE \A o \in Threads : ReasonInv(o)'
  <2>1. ReasonInv(th)'
    BY <1>0, <1>5 DEF Fetch, ReasonInv, Watched, InHand, TypeOK, LocalsOK
  <2>2. \A o \in Threads \ {th} : UNCHANGED <<pc[o], unchecked[o], checked[o], fault[o]>>
    BY <1>0, <1>5 DEF Fetch, TypeOK, LocalsOK
  <2>. QED  BY <1>1, <1>5, <2>1, <2>2 DEF Fetch
<1>6. ASSUME NEW th \in Threads, CheckKey(th) PROVE \A o \in Threads : ReasonInv(o)'
  <2>1. PICK s \in unchecked[th] :
          /\ unchecked' = [unchecked EXCEPT ![th] = @ \ {s}]
          /\ IF s.key = verifiers[turn[th]].key
             THEN \/ checked' = [checked EXCEPT ![th] = @ \cup {s}] /\ UNCHANGED fault
                  \/ fault' = [fault EXCEPT ![th] = TRUE] /\ UNCHANGED checked
             ELSE UNCHANGED <<checked, fault>>
    BY <1>6 DEF CheckKey
  <2>2. /\ pc[th] = "check" /\ turn[th] = 1 /\ verifiers[1].key # Nil
        /\ UNCHANGED <<verifiers, target, signed, pc, ref, digest, sig, quiet>>
    BY <1>0, <1>6 DEF CheckKey, CallInv, Keyless
  <2>3. /\ unchecked'[th] = unchecked[th] \ {s}
        /\ \/ fault'[th]
           \/ UNCHANGED fault /\ checked'[th] = checked[th] \cup {s}
           \/ UNCHANGED fault /\ checked'[th] = checked[th] /\ s.key # verifiers[1].key
    BY <1>0, <2>1, <2>2 DEF TypeOK, LocalsOK
  <2>4. ReasonInv(th)'
    BY <1>0, <2>2, <2>3 DEF ReasonInv, Watched, InHand, Certain
  <2>5. \A o \in Threads \ {th} : UNCHANGED <<unchecked[o], checked[o], fault[o]>>
    BY <1>0, <2>1 DEF TypeOK, LocalsOK
  <2>. QED  BY <1>1, <2>2, <2>4, <2>5
<1>7. ASSUME NEW th \in Threads, TakeChain(th) PROVE \A o \in Threads : ReasonInv(o)'
  <2>1. PICK s \in unchecked[th] :
          /\ unchecked' = [unchecked EXCEPT ![th] = @ \ {s}]
          /\ IF s.key # Nil THEN UNCHANGED <<verifiers, sig, pc>>
             ELSE /\ verifiers' = [verifiers EXCEPT ![turn[th]].pool = PoolAfter(s, @)]
                  /\ sig' = [sig EXCEPT ![th] = s]
                  /\ pc' = [pc EXCEPT ![th] = "trust"]
    BY <1>7 DEF TakeChain
  <2>2. /\ pc[th] = "check" /\ turn[th] = 1 /\ verifiers[1].key = Nil
        /\ UNCHANGED <<target, signed, ref, digest, checked, fault, quiet>>
    BY <1>0, <1>7 DEF TakeChain, CallInv, Keyless
  <2>3. s \in Signatures /\ turn[th] \in DOMAIN verifiers /\ verifiers \in Seq(Verifier)
    BY <1>0, <2>1, <2>2 DEF TypeOK, LocalsOK, VerifiersOK, CallOK, Calling, Verifier
  <2>4. verifiers'[1].key = verifiers[1].key
    BY <2>1, <2>2, <2>3, PoolChanged
  <2>5. verifiers # <<>>
    BY <2>2, <2>3
  <2>6. ReasonInv(th)'
    <3>1. unchecked'[th] = unchecked[th] \ {s}
      BY <1>0, <2>1 DEF TypeOK, LocalsOK
    <3>2. \/ s.key # Nil /\ UNCHANGED pc
          \/ sig'[th] = s /\ pc'[th] = "trust"
      BY <1>0, <2>1 DEF TypeOK, LocalsOK
    <3>3. ReasonInv(th)
      BY <1>0
    <3>. QED  BY <2>2, <2>4, <2>5, <3>1, <3>2, <3>3 DEF ReasonInv, Watched, InHand, Certain
  <2>7. \A o \in Threads \ {th} : UNCHANGED <<pc[o], unchecked[o], sig[o]>>
    BY <1>0, <2>1 DEF TypeOK, LocalsOK
  <2>. QED  BY <1>0, <2>2, <2>4, <2>5, <2>6, <2>7, ReasonKept
<1>8. ASSUME NEW th \in Threads, Trust(th) PROVE \A o \in Threads : ReasonInv(o)'
  <2>1. /\ pc[th] = "trust" /\ verifiers[1].key = Nil
        /\ UNCHANGED <<target, signed, verifiers, ref, digest, unchecked, quiet>>
    BY <1>0, <1>8 DEF Trust, CallInv, CallOK, Keyless
  <2>2. /\ pc'[th] = "check"
        /\ \/ UNCHANGED fault /\ checked'[th] = checked[th] \cup {sig[th]}
           \/ fault'[th]
           \/ UNCHANGED <<fault, checked>> /\ sig[th].issuer # Root
    BY <1>0, <1>8 DEF Trust, Trusted, TypeOK, LocalsOK
  <2>3. ReasonInv(th)'
    BY <1>0, <2>1, <2>2 DEF ReasonInv, Watched, InHand, Certain
  <2>4. \A o \in Threads \ {th} : UNCHANGED <<pc[o], checked[o], sig[o], fault[o]>>
    BY <1>0, <1>8 DEF Trust, TypeOK, LocalsOK
  <2>. QED  BY <1>1, <2>1, <2>3, <2>4
<1>9. ASSUME NEW th \in Threads, Conclude(th) PROVE \A o \in Threads : ReasonInv(o)'
  <2>1. /\ pc[th] = "check" /\ unchecked[th] = {}
        /\ pc'[th] = "verified" \/ (pc'[th] = "failed" /\ checked[th] = {})
        /\ UNCHANGED <<target, signed, verifiers, ref, fault, quiet>>
        /\ \A o \in Threads \ {th} : UNCHANGED pc[o]
    BY <1>0, <1>9 DEF Conclude, AsksNext, Answer, TypeOK, LocalsOK
  <2>2. ReasonInv(th)'
    BY <1>0, <2>1 DEF ReasonInv, Watched, InHand, Certain
  <2>. QED  BY <1>1, <1>9, <2>1, <2>2 DEF Conclude
<1>10. ASSUME NEW th \in Threads, Return(th) PROVE \A o \in Threads : ReasonInv(o)'
  <2>1. ReasonInv(th)'
    BY <1>0, <1>10 DEF Return, ReasonInv, TypeOK, LocalsOK
  <2>2. \A o \in Threads \ {th} :
          UNCHANGED <<pc[o], ref[o], digest[o], unchecked[o], checked[o], sig[o], fault[o],
                      quiet[o]>>
    BY <1>0, <1>10 DEF Return, TypeOK, LocalsOK
  <2>. QED  BY <1>1, <1>10, <2>1, <2>2 DEF Return
<1>11. ASSUME NEW th \in Threads, BeginClear(th) \/ Remove(th) \/ Forget(th)
       PROVE  \A o \in Threads : ReasonInv(o)'
  <2>1. pc'[th] \in {"idle", "remove", "forget"} /\ \A o \in Threads \ {th} : UNCHANGED pc[o]
    BY <1>0, <1>11 DEF BeginClear, Remove, RemoveFails, Forget, TypeOK, LocalsOK
  <2>2. UNCHANGED <<verifiers, registry, local, history>>
    BY <1>11 DEF BeginClear, Remove, RemoveFails, Forget
  <2>3. ReasonInv(th)'
    BY <2>1 DEF ReasonInv
  <2>. QED  BY <1>1, <2>1, <2>2, <2>3
<1>12. CASE DeleteFile \/ UNCHANGED vars \/ \E th \in Threads : Login(th) \/ Logout(th)
  <2>1. UNCHANGED <<verifiers, registry, pc, local, history>>
    BY <1>12 DEF DeleteFile, Login, Logout, SaveFile, vars
  <2>. QED  BY <1>0, <2>1, ReasonKept
<1>13. CASE MoveTag \/ Sign
  <2>1. \A th \in Threads : ~quiet'[th]
    BY <1>13 DEF MoveTag, Sign, Edit
  <2>. QED  BY <2>1 DEF ReasonInv, Watched
<1>. QED
  BY <1>2, <1>3, <1>4, <1>5, <1>6, <1>7, <1>8, <1>9, <1>10, <1>11, <1>12, <1>13
  DEF Next, Step

\* A chart of a plain tag that could have been verified is: without a failed request
\* and with the registry as it is, VerifyChart fails only when the tag names nothing or
\* its image has no signature of the first verifier's key, or for a keyless one no
\* certificate of the root, however other calls change its pool (FailureHasAReason).
THEOREM FailureIsJustified == Spec => []FailureHasAReason
<1>1. InvReason => FailureHasAReason
  BY DEF InvReason, ReasonInv, Watched, FailureHasAReason
<1>. QED  BY <1>1, InitReason, ReasonPreserved, PTL DEF Spec
=============================================================================
