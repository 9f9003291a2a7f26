SPECIFICATION Spec
CONSTANTS
  d1 = d1
  d2 = d2
  k1 = k1
  k2 = k2
  root = root
  mid = mid
  mid2 = mid2
  other = other
  Nil = Nil
  Threads = {t1}
  Digests = {d1, d2}
  Refs <- TagAndDigest
  Signatures <- MixedSignatures
  Keys = {k1, k2}
  Intermediates = {mid, mid2}
  Fulcio = {mid}
  Root = root
  Options <- TwoKeys
  MaxEdits = 1
INVARIANT
  AnyVerifierSuffices
