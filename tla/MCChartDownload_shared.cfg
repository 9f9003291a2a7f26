SPECIFICATION Spec
CONSTANTS
  Nil = Nil
  th1 = th1
  th2 = th2
  th3 = th3
  ra = ra
  rb = rb
  rc = rc
  tlsA = tlsA
  tlsB = tlsB
  Threads = {th1, th2}
  Repos = {ra}
  Transports = {t1, t2, t3, t4, t5, t6}
  RepoOf <- SharedRepo
  TlsOf <- SharedTls
  Roomy = {ra}
  WithClient = {}
INVARIANTS PullUsesOwnTransport
SYMMETRY Alike
