--------------------------- MODULE MCChartDownload ---------------------------
(* Threads, repositories and TLS configurations for the runs of            *)
(* ChartDownload.                                                          *)
EXTENDS ChartDownload, TLC

CONSTANTS th1, th2, th3, ra, rb, rc, tlsA, tlsB

\* As LoadChart does: a repository of its own for every call.
OwnRepo == [th \in {th1, th2, th3} |-> CASE th = th1 -> ra [] th = th2 -> rb [] th = th3 -> rc]
OwnTls == [r \in {ra, rb, rc} |-> CASE r = ra -> tlsA [] r = rb -> tlsB [] r = rc -> Nil]

\* One repository that two threads call.
SharedRepo == [th \in {th1, th2} |-> ra]
SharedTls == [r \in {ra} |-> tlsA]
\* Transports are interchangeable.
Alike == Permutations(Transports)
=============================================================================
