SPECIFICATION FairSpec
CONSTANTS
  d1 = d1
  d2 = d2
  k1 = k1
  k2 = k2
  root = root
  mid = mid
  mid2 = mid2
  other = other
  Nil = Nil
  Threads = {t1, t2}
  Digests = {d1, d2}
  Refs <- TagAndDigest
  Signatures <- MixedSignatures
  Keys = {k1, k2}
  Intermediates = {mid, mid2}
  Fulcio = {mid}
  Root = root
  Options <- MixedOptions
  MaxEdits = 1
INVARIANTS
  TypeOK
  VerifiedWasSigned
  FailureHasAReason
  ForgottenWasDeleted
PROPERTY
  EveryVerifyReturns
