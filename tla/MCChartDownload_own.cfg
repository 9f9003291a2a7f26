SPECIFICATION Spec
CONSTANTS
  Nil = Nil
  th1 = th1
  th2 = th2
  th3 = th3
  ra = ra
  rb = rb
  rc = rc
  tlsA = tlsA
  tlsB = tlsB
  Threads = {th1, th2, th3}
  Repos = {ra, rb, rc}
  Transports = {t1, t2, t3, t4, t5, t6}
  RepoOf <- OwnRepo
  TlsOf <- OwnTls
  Roomy = {ra, rc}
  WithClient = {rc}
INVARIANTS TypeOK Exclusive IdleSanitised PullUsesOwnTransport
SYMMETRY Alike
