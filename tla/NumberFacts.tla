----------------------------- MODULE NumberFacts -----------------------------
(***************************************************************************)
(* Lemmas that the proofs about several components rest on: least numbers  *)
(* (FiniteSetsExt!Min), the sizes of finite sets, and induction on and     *)
(* recursion over sequences.  The induction is the least number again: a   *)
(* set of sequences is a set, which needs no operator for a property.      *)
(***************************************************************************)
EXTENDS Integers, Sequences, FiniteSetsExt, FiniteSetTheorems, WellFoundedInduction, TLAPS

\* A set of numbers has a least one, and Min is it.
LEMMA MinIsLeast ==
  ASSUME NEW S, S \subseteq Nat, S # {}
  PROVE  Min(S) \in S /\ \A y \in S : Min(S) =< y
<1> DEFINE R == OpToRel(<, Nat)
<1>1. IsWellFoundedOn(R, Nat)
  BY NatLessThanWellFounded
<1>2. \A x, y \in Nat : y < x => <<y, x>> \in R
  BY DEF OpToRel
<1> HIDE DEF R
<1>3. PICK x \in S : \A y \in S : ~ (<<y, x>> \in R)
  BY <1>1, WFMin
<1>4. ASSUME NEW y \in S PROVE x =< y
  <2>1. x \in Nat /\ y \in Nat
    OBVIOUS
  <2>2. ~ (y < x)
    BY <1>2, <1>3, <2>1
  <2> QED BY <2>1, <2>2
<1>5. x \in S /\ \A y \in S : x =< y
  BY <1>4
<1> QED BY <1>5, Zenon DEF Min

\* One element more makes a finite set at most one larger.
LEMMA OneMore ==
  ASSUME NEW S, NEW x, IsFiniteSet(S)
  PROVE  /\ IsFiniteSet(S \cup {x}) /\ Cardinality(S) \in Nat /\ Cardinality(S \cup {x}) \in Nat
         /\ Cardinality(S \cup {x}) <= Cardinality(S) + 1
<1>1. /\ IsFiniteSet(S \cup {x})
      /\ Cardinality(S \cup {x}) = IF x \in S THEN Cardinality(S) ELSE Cardinality(S) + 1
  BY FS_AddElement
<1>2. Cardinality(S) \in Nat
  BY FS_CardinalityType
<1> QED BY <1>1, <1>2

\* A set that misses at most one element of another is at most one smaller.
LEMMA OneLess ==
  ASSUME NEW S, NEW x, NEW T, IsFiniteSet(S), IsFiniteSet(T), S \ {x} \subseteq T
  PROVE  Cardinality(S) - 1 <= Cardinality(T)
<1>1. Cardinality(S) \in Nat /\ Cardinality(T) \in Nat
  BY FS_CardinalityType
<1>2. Cardinality(S \ {x}) = IF x \in S THEN Cardinality(S) - 1 ELSE Cardinality(S)
  BY FS_RemoveElement
<1>3. Cardinality(S \ {x}) <= Cardinality(T)
  BY FS_Subset
<1> QED BY <1>1, <1>2, <1>3

\* A function has at most as many values as arguments.
LEMMA FewValues ==
  ASSUME NEW S, IsFiniteSet(S), NEW f, f = [x \in S |-> f[x]]
  PROVE  /\ IsFiniteSet({f[x] : x \in S}) /\ Cardinality({f[x] : x \in S}) \in Nat
         /\ Cardinality({f[x] : x \in S}) <= Cardinality(S)
<1> DEFINE T == {f[x] : x \in S}
<1>1. f \in Surjection(S, T)
  BY DEF Surjection
<1>2. IsFiniteSet(T) /\ Cardinality(T) <= Cardinality(S)
  BY <1>1, FS_Surjection
<1> QED BY <1>2, FS_CardinalityType

-----------------------------------------------------------------------------

\* A set of sequences that has the empty one, and with one each that is longer
\* by an element, has all.
LEMMA AllSequences ==
  ASSUME NEW C, NEW T, <<>> \in T,
         \A s \in Seq(C), c \in C : s \in T => Append(s, c) \in T
  PROVE  Seq(C) \subseteq T
<1> DEFINE Short == {Len(s) : s \in Seq(C) \ T}
<1>1. SUFFICES ASSUME Seq(C) \ T # {} PROVE FALSE
  OBVIOUS
<1>2. Short \subseteq Nat /\ Short # {}
  <2>1. PICK s \in Seq(C) : s \notin T
    BY <1>1
  <2>2. Len(s) \in Short
    BY <2>1
  <2>3. \A x \in Seq(C) : Len(x) \in Nat
    OBVIOUS
  <2> QED BY <2>2, <2>3
<1>3. PICK n \in Short : \A m \in Short : n <= m
  BY <1>2, MinIsLeast
<1>4. PICK s \in Seq(C) \ T : n = Len(s)
  BY <1>3
<1>5. s # <<>>
  BY <1>4
<1> DEFINE p == SubSeq(s, 1, Len(s) - 1)
<1>6. /\ p \in Seq(C) /\ Len(p) = Len(s) - 1 /\ s[Len(s)] \in C
      /\ s = Append(p, s[Len(s)])
  BY <1>4, <1>5
<1>7. p \in T
  <2>1. CASE p \notin T
    <3>1. Len(p) \in Short
      BY <1>6, <2>1
    <3>2. n <= Len(p)
      BY <1>3, <3>1
    <3>3. Len(s) \in Nat
      BY <1>4
    <3> HIDE DEF p
    <3> QED BY <1>4, <1>6, <3>2, <3>3
  <2> QED BY <2>1
<1> QED BY <1>4, <1>6, <1>7

\* A function by recursion on sequences: f of the empty one is a, and f of one
\* that is longer by c is what step makes of f and c.
Recurses(f, C, S, a, step) ==
  /\ f \in [Seq(C) -> S] /\ f[<<>>] = a
  /\ \A s \in Seq(C), c \in C : f[Append(s, c)] = step[<<f[s], c>>]

\* The sequences a function is defined on that goes up to the length n.
UpTo(C, n) == {s \in Seq(C) : Len(s) <= n}
Begins(f, C, S, a, step, n) ==
  /\ f \in [UpTo(C, n) -> S] /\ f[<<>>] = a
  /\ \A s \in UpTo(C, n), c \in C : Len(s) < n => f[Append(s, c)] = step[<<f[s], c>>]

\* Two of them agree where both are defined.
LEMMA BeginsAgree ==
  ASSUME NEW C, NEW S, NEW a, NEW step, NEW m \in Nat, NEW n \in Nat, NEW f, NEW g,
         Begins(f, C, S, a, step, m), Begins(g, C, S, a, step, n), m <= n
  PROVE  \A s \in UpTo(C, m) : f[s] = g[s]
<1> DEFINE T == {s \in Seq(C) : Len(s) <= m => f[s] = g[s]}
<1>1. <<>> \in T
  BY DEF Begins
<1>2. ASSUME NEW s \in Seq(C), NEW c \in C, s \in T PROVE Append(s, c) \in T
  <2>1. Append(s, c) \in Seq(C) /\ Len(Append(s, c)) = Len(s) + 1 /\ Len(s) \in Nat
    OBVIOUS
  <2>2. CASE Len(s) + 1 <= m
    <3>1. s \in UpTo(C, m) /\ s \in UpTo(C, n) /\ Len(s) < m /\ Len(s) < n
      BY <2>1, <2>2 DEF UpTo
    <3>2. f[Append(s, c)] = step[<<f[s], c>>] /\ g[Append(s, c)] = step[<<g[s], c>>]
      BY <3>1 DEF Begins
    <3>3. f[s] = g[s]
      BY <1>2, <3>1 DEF UpTo
    <3> QED BY <2>1, <3>2, <3>3
  <2>3. CASE ~ (Len(s) + 1 <= m)
    BY <2>1, <2>3
  <2> QED BY <2>2, <2>3
<1> HIDE DEF T
<1>3. Seq(C) \subseteq T
  BY <1>1, <1>2, AllSequences
<1> QED BY <1>3 DEF T, UpTo

\* There is one up to every length.
LEMMA BeginsExists ==
  ASSUME NEW C, NEW S, NEW a, NEW step, NEW n \in Nat, a \in S,
         \A r \in S, c \in C : step[<<r, c>>] \in S
  PROVE  \E f : Begins(f, C, S, a, step, n)
<1> DEFINE Bad == {k \in Nat : ~ \E f : Begins(f, C, S, a, step, k)}
<1>1. SUFFICES ASSUME Bad # {} PROVE FALSE
  OBVIOUS
<1>2. PICK k \in Bad : \A j \in Bad : k <= j
  BY <1>1, MinIsLeast
<1>3. k # 0
  <2> DEFINE f == [s \in UpTo(C, 0) |-> a]
  <2>1. f \in [UpTo(C, 0) -> S] /\ <<>> \in UpTo(C, 0)
    BY DEF UpTo
  <2>2. \A s \in UpTo(C, 0) : ~ (Len(s) < 0)
    BY DEF UpTo
  <2>3. Begins(f, C, S, a, step, 0)
    BY <2>1, <2>2 DEF Begins
  <2> QED BY <2>3
<1>4. PICK f : Begins(f, C, S, a, step, k - 1)
  <2>1. k - 1 \in Nat /\ ~ (k - 1 \in Bad)
    BY <1>2, <1>3
  <2> QED BY <2>1
<1> DEFINE g == [s \in UpTo(C, k) |->
                  IF s = <<>> THEN a ELSE step[<<f[SubSeq(s, 1, Len(s) - 1)], s[Len(s)]>>]]
<1>5. ASSUME NEW s \in UpTo(C, k), s # <<>>
      PROVE  SubSeq(s, 1, Len(s) - 1) \in UpTo(C, k - 1) /\ s[Len(s)] \in C
  BY <1>5 DEF UpTo
<1>6. \A s \in UpTo(C, k - 1) : f[s] \in S
  BY <1>4 DEF Begins
<1>7. g \in [UpTo(C, k) -> S]
  BY <1>5, <1>6
<1>8. <<>> \in UpTo(C, k) /\ g[<<>>] = a
  BY DEF UpTo
<1>9. ASSUME NEW s \in UpTo(C, k), NEW c \in C, Len(s) < k
      PROVE  Append(s, c) \in UpTo(C, k) /\ g[Append(s, c)] = step[<<f[s], c>>]
  <2>1. /\ Append(s, c) \in Seq(C) /\ Len(Append(s, c)) = Len(s) + 1 /\ Append(s, c) # <<>>
        /\ SubSeq(Append(s, c), 1, Len(s)) = s /\ Append(s, c)[Len(s) + 1] = c /\ Len(s) \in Nat
    BY DEF UpTo
  <2>2. Append(s, c) \in UpTo(C, k)
    BY <1>9, <2>1 DEF UpTo
  <2>3. g[Append(s, c)] =
          step[<<f[SubSeq(Append(s, c), 1, Len(Append(s, c)) - 1)],
                 Append(s, c)[Len(Append(s, c))]>>]
    BY <2>1, <2>2
  <2>4. Len(Append(s, c)) - 1 = Len(s)
    BY <2>1
  <2> HIDE DEF g
  <2> QED BY <2>1, <2>2, <2>3, <2>4
<1>10. ASSUME NEW s \in UpTo(C, k), Len(s) < k PROVE s \in UpTo(C, k - 1) /\ g[s] = f[s]
  <2>1. s \in UpTo(C, k - 1)
    BY <1>10 DEF UpTo
  <2>2. CASE s = <<>>
    <3>1. f[<<>>] = a
      BY <1>4 DEF Begins
    <3> HIDE DEF g
    <3> QED BY <1>8, <2>1, <2>2, <3>1
  <2>3. CASE s # <<>>
    <3> DEFINE p == SubSeq(s, 1, Len(s) - 1)
    <3>1. p \in UpTo(C, k - 1) /\ s[Len(s)] \in C /\ Len(p) < k - 1 /\ Append(p, s[Len(s)]) = s
      BY <2>1, <2>3 DEF UpTo
    <3>2. f[Append(p, s[Len(s)])] = step[<<f[p], s[Len(s)]>>]
      BY <1>4, <3>1 DEF Begins
    <3>3. g[s] = step[<<f[p], s[Len(s)]>>]
      BY <2>3
    <3> QED BY <2>1, <3>1, <3>2, <3>3
  <2> QED BY <2>1, <2>2, <2>3
<1> HIDE DEF g
<1>11. Begins(g, C, S, a, step, k)
  BY <1>7, <1>8, <1>9, <1>10 DEF Begins
<1> QED BY <1>2, <1>11

\* And so there is one for all.
LEMMA RecursionExists ==
  ASSUME NEW C, NEW S, NEW a, NEW step, a \in S, \A r \in S, c \in C : step[<<r, c>>] \in S
  PROVE  \E f : Recurses(f, C, S, a, step)
<1> DEFINE Up(n) == CHOOSE f : Begins(f, C, S, a, step, n)
           f == [s \in Seq(C) |-> Up(Len(s))[s]]
<1>1. \A n \in Nat : Begins(Up(n), C, S, a, step, n)
  BY BeginsExists
<1> HIDE DEF Up
<1>2. \A s \in Seq(C) : Len(s) \in Nat /\ s \in UpTo(C, Len(s))
  BY DEF UpTo
<1>3. f \in [Seq(C) -> S]
  <2>1. \A s \in Seq(C) : Up(Len(s))[s] \in S
    BY <1>1, <1>2 DEF Begins
  <2> QED BY <2>1
<1>4. f[<<>>] = a
  <2>1. <<>> \in Seq(C) /\ Len(<<>>) = 0
    OBVIOUS
  <2> QED BY <1>1, <2>1 DEF Begins
<1>5. ASSUME NEW s \in Seq(C), NEW c \in C PROVE f[Append(s, c)] = step[<<f[s], c>>]
  <2> DEFINE n == Len(s)
  <2>1. n \in Nat /\ n + 1 \in Nat /\ Append(s, c) \in Seq(C) /\ Len(Append(s, c)) = n + 1
    OBVIOUS
  <2>2. s \in UpTo(C, n) /\ s \in UpTo(C, n + 1)
    BY <2>1 DEF UpTo
  <2>3. Up(n + 1)[Append(s, c)] = step[<<Up(n + 1)[s], c>>]
    BY <1>1, <2>1, <2>2 DEF Begins
  <2>4. Up(n)[s] = Up(n + 1)[s]
    <3>1. PICK u, v : u = Up(n) /\ v = Up(n + 1)
      OBVIOUS
    <3>2. Begins(u, C, S, a, step, n) /\ Begins(v, C, S, a, step, n + 1) /\ n <= n + 1
      BY <1>1, <2>1, <3>1
    <3>3. \A x \in UpTo(C, n) : u[x] = v[x]
      BY <2>1, <3>2, BeginsAgree
    <3> QED BY <2>2, <3>1, <3>3
  <2> QED BY <2>1, <2>3, <2>4
<1> HIDE DEF f
<1>6. Recurses(f, C, S, a, step)
  BY <1>3, <1>4, <1>5 DEF Recurses
<1> QED BY <1>6

\* What is so defined has its values where the first is, if each step keeps it there.
LEMMA AllValues ==
  ASSUME NEW C, NEW S, NEW f, f[<<>>] \in S,
         \A s \in Seq(C), c \in C : f[s] \in S => f[Append(s, c)] \in S
  PROVE  \A s \in Seq(C) : f[s] \in S
<1> DEFINE T == {s \in Seq(C) : f[s] \in S}
<1>1. <<>> \in T
  OBVIOUS
<1>2. ASSUME NEW s \in Seq(C), NEW c \in C, s \in T PROVE Append(s, c) \in T
  BY <1>2
<1> HIDE DEF T
<1>3. Seq(C) \subseteq T
  BY <1>1, <1>2, AllSequences
<1> QED BY <1>3 DEF T

=============================================================================
