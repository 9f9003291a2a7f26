--------------------------- MODULE ChartRepository ---------------------------
(***************************************************************************)
(* OCIChartRepository.VerifyChart over its cosign verifiers, and Login,    *)
(* Logout and Clear.  Threads share one repository: they verify chart      *)
(* versions that GetChartVersion gave them, log its client in and out, and *)
(* clear the credentials file, while the registry's tag moves and          *)
(* signatures are added to its images.                                     *)
(*                                                                         *)
(* A chart version's reference is [form, digest]: a "tag", a tag with      *)
(* build metadata ("plus"), a "digest", or "none" when it has no URL.      *)
(* A signature is [key, chain, issuer]: made with a key, or keyless (key   *)
(* is Nil) with a certificate of issuer and the intermediate certificates  *)
(* in chain.  Root is the issuer that every verifier trusts.  A signature   *)
(* is of the image it is attached to in the registry: what its payload     *)
(* names is not looked at, since NewCosignVerifier sets no ClaimVerifier.   *)
(***************************************************************************)
EXTENDS Naturals, Sequences, FiniteSets

CONSTANTS
  Threads, Digests, Refs, Signatures,
  Keys,           \* public keys that can be read
  Intermediates,  \* intermediate certificates that Root issued
  Fulcio,         \* the intermediates that fulcio.GetIntermediates knows
  Root,
  Options,        \* what a repository may be made with, [keys, file]: the public keys
                  \* of its verifiers, a sequence over Keys, Nil for none, others are
                  \* unreadable; and whether it gets its client's credentials file
  Nil,
  MaxEdits        \* bound: changes of the registry

ASSUME SignatureAssumption ==
  /\ MaxEdits \in Nat
  /\ Nil \notin Keys /\ Nil \notin Digests /\ Root \notin Intermediates
  /\ Fulcio \subseteq Intermediates /\ Fulcio # {}
  /\ Nil \notin Signatures /\ \A s \in Signatures : s.chain \subseteq Intermediates
  /\ Nil \notin Refs /\ \A r \in Refs : r.form = "digest" => r.digest \in Digests
  /\ Nil \notin Seq([key : Keys \cup {Nil}, pool : SUBSET Intermediates])
  /\ \A o \in Options :
       o.file \in BOOLEAN /\ Len(o.keys) \in Nat /\ DOMAIN o.keys = 1..Len(o.keys)

VARIABLES
  verifiers,    \* the repository's verifiers, [key, pool] each, Nil before it is made
  given,        \* it was made WithCredentialsFile, the file its client logs in with
  credentials,  \* it has the name of that file: HasCredentials
  file,         \* the file: "made" when the client was, "absent", or "saved" again since
  target,       \* the digest the tag points to, Nil when there is no such tag
  signed,       \* the signatures in the registry, by digest
  edits,        \* changes of the registry so far (for the bound)
  pc,           \* where a thread's call is
  ref,          \* the reference it verifies
  turn,         \* the verifier it asks
  digest,       \* the image that verifier looks at
  unchecked,    \* the signatures of that image still to be checked
  checked,      \* those that were accepted
  sig,          \* the keyless signature whose certificate is about to be checked
  fault,        \* a request of this call failed
  denoted,      \* the digests the reference stood for at some time of the call
  quiet         \* the registry has not changed since the call began

store == <<given, credentials, file>>
registry == <<target, signed, edits>>
local == <<ref, turn, digest, unchecked, checked, sig, fault>>
history == <<denoted, quiet>>
vars == <<verifiers, store, registry, pc, local, history>>

-----------------------------------------------------------------------------
(* A verifier without a public key is keyless; its pool of intermediates   *)
(* belongs to the options that all its calls share.                        *)

NewCosignVerifier(key) ==
  [key |-> key, pool |-> IF key = Nil THEN Fulcio ELSE {}]

\* name.ParseReference takes neither "+" nor "sha256:" in a tag.
Parses(r) == r.form = "tag"

Denotes(r) == IF r.form = "digest" THEN r.digest ELSE target

Keyless(th) == verifiers[turn[th]].key = Nil

\* The certificate chains to Root, if need be through the pool.
Trusted(s, pool) == s.issuer = Root \/ s.issuer \in pool

\* VerifyImageSignature: a chain of the root alone sets the verifier's pool to nil,
\* here {}, and a longer one fills a pool that is nil.
PoolAfter(s, pool) ==
  IF s.chain = {} THEN {} ELSE IF pool = {} THEN s.chain ELSE pool

-----------------------------------------------------------------------------
Init ==
  /\ verifiers = Nil
  /\ given = FALSE /\ credentials = FALSE /\ file = "absent"
  /\ target \in Digests \cup {Nil}
  /\ signed \in [Digests -> {{}} \cup {{s} : s \in Signatures}]
  /\ edits = 0
  /\ pc = [th \in Threads |-> "idle"]
  /\ ref = [th \in Threads |-> Nil]
  /\ turn = [th \in Threads |-> 1]
  /\ digest = [th \in Threads |-> Nil]
  /\ unchecked = [th \in Threads |-> {}]
  /\ checked = [th \in Threads |-> {}]
  /\ sig = [th \in Threads |-> Nil]
  /\ fault = [th \in Threads |-> FALSE]
  /\ denoted = [th \in Threads |-> {}]
  /\ quiet = [th \in Threads |-> FALSE]

\* An unreadable key, or for a keyless verifier a root certificate or a Rekor
\* client that cannot be had, is an error: there is no repository then.
MakeRepository ==
  /\ verifiers = Nil
  /\ \E o \in Options :
       /\ \A i \in DOMAIN o.keys : o.keys[i] \in Keys \cup {Nil}
       /\ verifiers' = [i \in DOMAIN o.keys |-> NewCosignVerifier(o.keys[i])]
       /\ given' = o.file /\ credentials' = o.file
       /\ file' = IF o.file THEN "made" ELSE "absent"
  /\ UNCHANGED <<registry, pc, local, history>>

Goto(th, place) == pc' = [pc EXCEPT ![th] = place]

\* Mutant: a call whose request failed starts again with the same verifier.
FaultRetries(th) == Goto(th, "resolve") /\ fault' = [fault EXCEPT ![th] = TRUE]

Fault(th) == Goto(th, "failed") /\ fault' = [fault EXCEPT ![th] = TRUE]

Begin(th) ==
  /\ verifiers # Nil /\ pc[th] = "idle"
  /\ \E r \in Refs :
       /\ ref' = [ref EXCEPT ![th] = r]
       /\ denoted' = [denoted EXCEPT ![th] = {Denotes(r)}]
       /\ quiet' = [quiet EXCEPT ![th] = TRUE]
       /\ IF verifiers # <<>> /\ Parses(r) THEN Goto(th, "resolve") ELSE Goto(th, "failed")
  /\ UNCHANGED <<verifiers, store, registry, turn, digest, unchecked, checked,
                 sig, fault>>

\* cosign.VerifyImageSignatures resolves the tag for each verifier anew; a tag
\* that is not there is an error.
Resolve(th) ==
  /\ pc[th] = "resolve"
  /\ \/ Fault(th) /\ UNCHANGED digest
     \/ /\ digest' = [digest EXCEPT ![th] = Denotes(ref[th])]
        /\ Goto(th, IF Denotes(ref[th]) = Nil THEN "failed" ELSE "fetch")
        /\ UNCHANGED fault
  /\ UNCHANGED <<verifiers, store, registry, ref, turn, unchecked, checked,
                 sig, history>>

Fetch(th) ==
  /\ pc[th] = "fetch"
  /\ \/ Fault(th) /\ UNCHANGED <<unchecked, checked>>
     \/ /\ unchecked' = [unchecked EXCEPT ![th] = signed[digest[th]]]
        /\ checked' = [checked EXCEPT ![th] = {}]
        /\ Goto(th, "check")
        /\ UNCHANGED fault
  /\ UNCHANGED <<verifiers, store, registry, ref, turn, digest, sig, history>>

\* A signature under the verifier's key counts, unless a key of the transparency
\* log cannot be had to confirm the bundle it comes with.
CheckKey(th) ==
  /\ pc[th] = "check" /\ ~Keyless(th)
  /\ \E s \in unchecked[th] :
       /\ unchecked' = [unchecked EXCEPT ![th] = @ \ {s}]
       /\ IF s.key = verifiers[turn[th]].key
          THEN \/ checked' = [checked EXCEPT ![th] = @ \cup {s}] /\ UNCHANGED fault
               \/ fault' = [fault EXCEPT ![th] = TRUE] /\ UNCHANGED checked
          ELSE UNCHANGED <<checked, fault>>
  /\ UNCHANGED <<verifiers, store, registry, pc, ref, turn, digest, sig, history>>

\* A keyless verifier: a signature with a certificate, whose chain changes the
\* verifier's pool.
TakeChain(th) ==
  /\ pc[th] = "check" /\ Keyless(th)
  /\ \E s \in unchecked[th] :
       /\ unchecked' = [unchecked EXCEPT ![th] = @ \ {s}]
       /\ IF s.key # Nil
          THEN UNCHANGED <<verifiers, sig, pc>>
          ELSE /\ verifiers' = [verifiers EXCEPT ![turn[th]].pool = PoolAfter(s, @)]
               /\ sig' = [sig EXCEPT ![th] = s]
               /\ Goto(th, "trust")
  /\ UNCHANGED <<store, registry, ref, turn, digest, checked, fault, history>>

\* ValidateAndUnpackCert looks at the pool as it is now, whoever changed it since.
Trust(th) ==
  /\ pc[th] = "trust"
  /\ IF Trusted(sig[th], verifiers[turn[th]].pool)
     THEN \/ checked' = [checked EXCEPT ![th] = @ \cup {sig[th]}] /\ UNCHANGED fault
          \/ fault' = [fault EXCEPT ![th] = TRUE] /\ UNCHANGED checked
     ELSE UNCHANGED <<checked, fault>>
  /\ sig' = [sig EXCEPT ![th] = Nil]
  /\ Goto(th, "check")
  /\ UNCHANGED <<verifiers, store, registry, ref, turn, digest, unchecked, history>>

\* Mutant: any signature of the image will do, accepted or not.
AnswerAnySignature(th) == IF signed[digest[th]] = {} THEN "error" ELSE "true"

\* Mutant: one signature that is not accepted spoils the others.
AnswerAllSignatures(th) ==
  IF checked[th] = {} \/ checked[th] # signed[digest[th]] THEN "error" ELSE "true"

\* cosign's answer to Verify: no accepted signature is an error, never (false, nil).
Answer(th) == IF checked[th] = {} THEN "error" ELSE "true"

\* Mutant: the loop runs past the last verifier.
AsksPastTheEnd(th) == Answer(th) # "true" /\ turn[th] <= Len(verifiers)

\* An error ends the loop over the verifiers; only "false" asks the next one.
AsksNext(th) == Answer(th) = "false" /\ turn[th] < Len(verifiers)

Conclude(th) ==
  /\ pc[th] = "check" /\ unchecked[th] = {}
  /\ turn' = [turn EXCEPT ![th] = IF AsksNext(th) THEN @ + 1 ELSE @]
  /\ Goto(th, IF Answer(th) = "true" THEN "verified"
              ELSE IF AsksNext(th) THEN "resolve" ELSE "failed")
  /\ UNCHANGED <<verifiers, store, registry, ref, digest, unchecked, checked,
                 sig, fault, history>>

Return(th) ==
  /\ pc[th] \in {"verified", "failed"}
  /\ Goto(th, "idle")
  /\ ref' = [ref EXCEPT ![th] = Nil]
  /\ turn' = [turn EXCEPT ![th] = 1]
  /\ digest' = [digest EXCEPT ![th] = Nil]
  /\ unchecked' = [unchecked EXCEPT ![th] = {}]
  /\ checked' = [checked EXCEPT ![th] = {}]
  /\ fault' = [fault EXCEPT ![th] = FALSE]
  /\ denoted' = [denoted EXCEPT ![th] = {}]
  /\ quiet' = [quiet EXCEPT ![th] = FALSE]
  /\ UNCHANGED <<verifiers, store, registry, sig>>

-----------------------------------------------------------------------------
\* The client's configuration is saved to its file, which is created again if it was
\* deleted.
SaveFile(th) ==
  /\ verifiers # Nil /\ pc[th] = "idle"
  /\ file' = IF given /\ file = "absent" THEN "saved" ELSE file
  /\ UNCHANGED <<verifiers, given, credentials, registry, pc, local, history>>

\* A login that the registry accepts is saved; one that it refuses, and a file that
\* cannot be saved, changes nothing.
Login(th) == SaveFile(th)

\* The configuration is saved without the host's login, unless neither it nor docker's
\* own has one.
Logout(th) == SaveFile(th)

\* Clear: nothing to do without a credentials file; a file that cannot be removed
\* is an error, and the repository keeps its name.
BeginClear(th) ==
  /\ verifiers # Nil /\ pc[th] = "idle" /\ credentials
  /\ Goto(th, "remove")
  /\ UNCHANGED <<verifiers, store, registry, local, history>>

\* Mutant: a file that could not be removed is forgotten all the same.
RemoveFailsSilently(th) == UNCHANGED file /\ Goto(th, "forget")

RemoveFails(th) == UNCHANGED file /\ Goto(th, "idle")

Remove(th) ==
  /\ pc[th] = "remove"
  /\ (file # "absent" /\ file' = "absent" /\ Goto(th, "forget")) \/ RemoveFails(th)
  /\ UNCHANGED <<verifiers, given, credentials, registry, local, history>>

Forget(th) ==
  /\ pc[th] = "forget"
  /\ credentials' = FALSE
  /\ Goto(th, "idle")
  /\ UNCHANGED <<verifiers, given, file, registry, local, history>>

-----------------------------------------------------------------------------
\* The caller's deferred os.Remove of the same file.
DeleteFile ==
  /\ file # "absent" /\ file' = "absent"
  /\ UNCHANGED <<verifiers, given, credentials, registry, pc, local, history>>

Edit(to, signatures) ==
  /\ edits < MaxEdits /\ edits' = edits + 1
  /\ target' = to /\ signed' = signatures
  /\ denoted' = [th \in Threads |->
       IF ref[th] # Nil /\ ref[th].form # "digest" THEN denoted[th] \cup {to}
                                                  ELSE denoted[th]]
  /\ quiet' = [th \in Threads |-> FALSE]
  /\ UNCHANGED <<verifiers, store, pc, local>>

MoveTag == \E d \in Digests \ {target} : Edit(d, signed)
Sign == \E d \in Digests : \E s \in Signatures \ signed[d] :
          Edit(target, [signed EXCEPT ![d] = @ \cup {s}])

Step(th) ==
  \/ Resolve(th) \/ Fetch(th) \/ CheckKey(th) \/ TakeChain(th) \/ Trust(th)
  \/ Conclude(th) \/ Return(th) \/ Remove(th) \/ Forget(th)

Next ==
  \/ MakeRepository \/ DeleteFile \/ MoveTag \/ Sign
  \/ \E th \in Threads :
       Begin(th) \/ Login(th) \/ Logout(th) \/ BeginClear(th) \/ Step(th)

Spec == Init /\ [][Next]_vars

\* A call that has begun goes on: its requests are answered or fail.
FairSpec == Spec /\ \A th \in Threads : WF_vars(Step(th))

-----------------------------------------------------------------------------
Calling == {"resolve", "fetch", "check", "trust", "verified", "failed"}
Images == Digests \cup {Nil}

VerifiersOK ==
  verifiers # Nil => verifiers \in Seq([key : Keys \cup {Nil}, pool : SUBSET Intermediates])

LocalsOK ==
  /\ pc \in [Threads -> Calling \cup {"idle", "remove", "forget"}]
  /\ ref \in [Threads -> Refs \cup {Nil}]
  /\ turn \in [Threads -> Nat] /\ digest \in [Threads -> Images]
  /\ unchecked \in [Threads -> SUBSET Signatures] /\ checked \in [Threads -> SUBSET Signatures]
  /\ sig \in [Threads -> Signatures \cup {Nil}]
  /\ fault \in [Threads -> BOOLEAN] /\ quiet \in [Threads -> BOOLEAN]
  /\ denoted \in [Threads -> SUBSET Images]

CallOK(th) ==
  /\ pc[th] \in Calling <=> ref[th] # Nil
  /\ pc[th] # "idle" => verifiers # Nil
  /\ pc[th] \notin Calling => turn[th] = 1
  /\ pc[th] \in {"fetch", "check", "trust"} => digest[th] # Nil
  /\ pc[th] \in Calling \ {"failed"} => turn[th] \in DOMAIN verifiers
  /\ IF pc[th] = "trust" THEN sig[th] # Nil /\ Keyless(th) ELSE sig[th] = Nil

\* Every variable has its type; a call's turn is one of the verifiers, and a
\* certificate is only ever looked at for a keyless one.
TypeOK ==
  /\ VerifiersOK /\ LocalsOK
  /\ given \in BOOLEAN /\ credentials \in BOOLEAN
  /\ file \in {"absent", "made", "saved"}
  /\ target \in Images /\ signed \in [Digests -> SUBSET Signatures] /\ edits \in 0..MaxEdits
  /\ \A th \in Threads : CallOK(th)

\* A signature that verifier v may accept, whatever its pool holds.
Acceptable(s, v) ==
  IF v.key = Nil THEN s.key = Nil /\ s.issuer \in Intermediates \cup {Root}
                 ELSE s.key = v.key

\* A chart is verified only if to an image that its reference stood for during the
\* call a signature is attached that a configured verifier accepts: not to the image
\* the tag had before the call, and not under a key of none of the verifiers.
VerifiedWasSigned ==
  \A th \in Threads : pc[th] = "verified" =>
    \E d \in denoted[th] \ {Nil}, i \in DOMAIN verifiers :
      \E s \in signed[d] : Acceptable(s, verifiers[i])

\* A signature that verifier v accepts, whatever its pool holds.
Certain(s, v) ==
  IF v.key = Nil THEN s.key = Nil /\ s.issuer = Root ELSE s.key = v.key

\* Without a failed request and with the registry as it is, a chart of a plain tag
\* fails only when the tag names nothing, or an image with no signature of the first
\* verifier's key, or with no certificate of the root for a keyless one: signatures of
\* others, before it in the list, do no harm, nor does what other calls make of the pool.
FailureHasAReason ==
  \A th \in Threads :
    /\ pc[th] = "failed" /\ ~fault[th] /\ quiet[th]
    /\ verifiers # <<>> /\ ref[th].form = "tag"
    => \/ target = Nil
       \/ \A s \in signed[target] : ~Certain(s, verifiers[1])

\* HasCredentials says no only after the credentials file was deleted: a Clear that
\* could not remove it leaves the repository its name, however several of them, the
\* caller's own removal, Login and Logout meet.  A file that is there then was saved
\* since, by a Login or a Logout.
ForgottenWasDeleted == given /\ ~credentials => file # "made"

\* "No matching signatures were found", by none of the "list of verifiers to use when
\* verifying a chart": without a failed request and with the registry as it is, a chart
\* of a plain tag fails only when none of the list would accept a signature of its image.
AnyVerifierSuffices ==
  \A th \in Threads :
    /\ pc[th] = "failed" /\ ~fault[th] /\ quiet[th] /\ verifiers # <<>>
    /\ ref[th].form = "tag" /\ target # Nil
    => \A i \in DOMAIN verifiers, s \in signed[target] : ~Certain(s, verifiers[i])

\* A call of VerifyChart that has begun returns.
EveryVerifyReturns == \A th \in Threads : pc[th] # "idle" ~> pc[th] = "idle"
=============================================================================
