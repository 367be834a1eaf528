------------------------------ MODULE MCJniRefs ------------------------------
(* Instances of JniRefs for TLC: one thread or two, three objects.          *)
EXTENDS JniRefs, TLC

CONSTANTS t1, t2, o1, o2, o3, o4

\* Objects are interchangeable, and so are threads.
Symmetry == Permutations(Objects) \cup Permutations(Threads)

=============================================================================
