----------------------------- MODULE MCSaveStore -----------------------------
(* Instances of SaveStore for TLC: one or two saving threads besides the    *)
(* main thread, and as many descriptors as they can hold at a time.         *)
EXTENDS SaveStore

CONSTANTS s1, s2

=============================================================================
