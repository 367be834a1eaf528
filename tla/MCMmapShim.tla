----------------------------- MODULE MCMmapShim -----------------------------
(* Instances of MmapShim for TLC: an arena of two slots of two pages, two   *)
(* engine threads, and requests for which the arena is soon too small.      *)
EXTENDS MmapShim

CONSTANTS t1, t2, b1, b2, b3, k1

MCThreads == {t1, t2}
MCKeys    == {k1}

\* An over-map of a two-page block, a file of three pages and a small file
\* that is mapped read-only and may be cached.
OverMap   == [need |-> 3, keep |-> 2, file |-> FALSE, key |-> NoKey]
BigFile   == [need |-> 3, keep |-> 3, file |-> TRUE,  key |-> NoKey]
SmallFile == [need |-> 1, keep |-> 1, file |-> TRUE,  key |-> k1]

MCRequests == {OverMap, BigFile, SmallFile}

=============================================================================
