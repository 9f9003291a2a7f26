-------------------------- MODULE MCChartRepository --------------------------
(* Instances of ChartRepository: a tag and a digest, which does not parse;   *)
(* signatures by a key, by a certificate of the root and by one of an        *)
(* intermediate that fulcio does not list.                                   *)
EXTENDS ChartRepository, TLC

CONSTANTS d1, d2, k1, k2, root, mid, mid2, other

MakeRef(form, d) == [form |-> form, digest |-> d]
TagAndDigest == {MakeRef("tag", Nil), MakeRef("digest", d1)}

KeySignature(k) == [key |-> k, chain |-> {}, issuer |-> other]
Certified(chain, issuer) == [key |-> Nil, chain |-> chain, issuer |-> issuer]
MixedSignatures == {KeySignature(k1), Certified({}, root), Certified({mid2}, mid2)}

With(keys, f) == [keys |-> keys, file |-> f]

\* No verifier, one, two of which the second signed, and one that cannot be made; and a
\* repository with a credentials file.
MixedOptions == {With(keys, FALSE) : keys \in {<<Nil>>, <<k1>>, <<k2, k1>>, <<other>>}}
                  \cup {With(<<>>, f) : f \in BOOLEAN}
TwoKeys == {With(<<k2, k1>>, FALSE)}
==============================================================================
