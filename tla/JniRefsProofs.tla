---------------------------- MODULE JniRefsProofs ----------------------------
(***************************************************************************)
(* Theorems about what stands in for Java and Android around the engine's  *)
(* threads.  First JniRefs, when one thread makes the JNI calls, uses its  *)
(* references in the frame it got them in, and nests no more frames than   *)
(* the array has marks for: then the shared array of local references is   *)
(* as good as the frames JNI promises.  (With two threads it is not: run   *)
(* two_jni_threads.)  Then the parts that MCJava holds beside it: thread-  *)
(* local values, the pools of names, the streams of assets, the properties *)
(* of the sound output, strings and arrays, and the answers of calls and   *)
(* fields, which make JavaAnswers.  Which texts are in which is a fact the *)
(* provers do not see into a string for: MCJava assumes it as a table that *)
(* TLC evaluates (TextAssumption), and the answers are found from that.    *)
(***************************************************************************)
EXTENDS MCJava, SequenceTheorems, NumberFacts, TLAPS

\* What is asked of the engine.
OneThread == /\ \E t : Threads = {t}
             /\ ~ AnyUse /\ MaxDepth <= MaxFrames

\* The part of the array that belongs to the frame of a depth.
Low(d)     == IF d = 1 THEN 0 ELSE frames[d - 1]
High(t, d) == IF d = Depth(t) THEN top ELSE frames[d]

\* There is a mark for every open frame but the first, and marks never fall.
MarksSound(t) ==
  /\ Depth(t) \in 1 .. (MaxDepth + 1) /\ Len(frames) = Depth(t) - 1
  /\ \A d \in 1 .. Len(frames) : frames[d] <= top
  /\ \A d, e \in 1 .. Len(frames) : d <= e => frames[d] <= frames[e]

\* Every entry is a reference of an open frame and stands in that frame's part.
EntriesPlaced(t) ==
  /\ \A i \in 1 .. top : \E d \in 1 .. Depth(t) : locals[i] \in scope[t][d]
  /\ \A d \in 1 .. Depth(t) : \A o \in scope[t][d] :
       \A i \in 1 .. top : locals[i] = o => Low(d) < i /\ i <= High(t, d)

\* No reference is of two frames, and what a reference refers to is allocated.
ScopesSound(t) ==
  /\ \A d, e \in 1 .. Depth(t) : d # e => scope[t][d] \cap scope[t][e] = {}
  /\ globals \subseteq live
  /\ \A d \in 1 .. Depth(t) : scope[t][d] \subseteq live

IInv == /\ TypeOK /\ RegisteredOnce
        /\ \A t \in Threads : MarksSound(t) /\ EntriesPlaced(t) /\ ScopesSound(t)

-----------------------------------------------------------------------------

\* A reference of the engine is one of an open frame.
LEMMA LocalsOfFrames ==
  ASSUME NEW t \in Threads, TypeOK, NEW o
  PROVE  o \in Locals(t) <=> \E d \in 1 .. Depth(t) : o \in scope[t][d]
<1>1. scope[t] \in Seq(SUBSET Objects)
  BY DEF TypeOK
<1>2. DOMAIN scope[t] = 1 .. Depth(t)
  BY <1>1 DEF Depth
<1> QED BY <1>2 DEF Locals, Range

\* The search finds the entry of a reference, if it has one.
LEMMA FoundIsEntry ==
  ASSUME TypeOK, RegisteredOnce, NEW o, Found(o) # 0
  PROVE  Found(o) \in 1 .. top /\ locals[Found(o)] = o
<1>1. PICK i \in 1 .. top : locals[i] = o
  BY DEF Found
<1>2. \A j \in (i + 1) .. top : j \in 1 .. top /\ j # i
  BY DEF TypeOK
<1>3. \A j \in (i + 1) .. top : locals[j] # o
  BY <1>1, <1>2 DEF RegisteredOnce
<1>4. \E k \in 1 .. top : locals[k] = o /\ \A j \in (k + 1) .. top : locals[j] # o
  BY <1>1, <1>3
<1>5. Found(o) = CHOOSE k \in 1 .. top : /\ locals[k] = o
                                         /\ \A j \in (k + 1) .. top : locals[j] # o
  BY <1>1 DEF Found
<1> QED BY <1>4, <1>5

\* What the search does not find has no entry.
LEMMA NotFoundHasNone ==
  ASSUME TypeOK, RegisteredOnce, NEW o, Found(o) = 0
  PROVE  \A i \in 1 .. top : locals[i] # o
<1> SUFFICES ASSUME NEW i \in 1 .. top, locals[i] = o PROVE FALSE
  OBVIOUS
<1>1. \A j \in (i + 1) .. top : locals[j] # o
  BY DEF RegisteredOnce, TypeOK
<1>2. Found(o) \in 1 .. top
  BY <1>1 DEF Found
<1> QED BY <1>2

-----------------------------------------------------------------------------
(* Each operation, for the thread t that makes all calls.                  *)

\* A new string or array goes to the end of the innermost frame's part.
LEMMA NewLocalKeeps ==
  ASSUME OneThread, IInv, NEW t \in Threads, NewLocal(t)
  PROVE  IInv'
<1>1. PICK o \in Objects \ live :
      /\ live' = live \cup {o}
      /\ IF top < MaxLocals THEN locals' = [locals EXCEPT ![top + 1] = o] /\ top' = top + 1
                            ELSE UNCHANGED <<locals, top>>
      /\ scope' = [scope EXCEPT ![t][Depth(t)] = @ \cup {o}]
      /\ UNCHANGED <<frames, globals>>
  BY DEF NewLocal
<1>2. TypeOK /\ RegisteredOnce /\ MarksSound(t) /\ EntriesPlaced(t) /\ ScopesSound(t)
  BY DEF IInv
<1>3. top \in Nat /\ top <= MaxLocals /\ MaxLocals \in Nat /\ Depth(t) \in Nat \ {0}
  BY <1>2, JniAssumption DEF TypeOK, MarksSound
<1>4. /\ scope[t] \in Seq(SUBSET Objects) /\ DOMAIN scope[t] = 1 .. Depth(t)
      /\ Depth(t) \in 1 .. Len(scope[t])
  BY <1>2, <1>3 DEF TypeOK, Depth
<1>5. scope'[t] = [scope[t] EXCEPT ![Depth(t)] = @ \cup {o}]
  BY <1>1, <1>2 DEF TypeOK
<1>6. scope[t][Depth(t)] \cup {o} \in SUBSET Objects
  BY <1>4
<1>7. scope'[t] \in Seq(SUBSET Objects) /\ Len(scope'[t]) = Len(scope[t])
  BY <1>4, <1>5, <1>6, ExceptSeq
<1>8. Depth(t)' = Depth(t)
  BY <1>7 DEF Depth
<1>9. \A d \in 1 .. Depth(t) :
        scope'[t][d] = IF d = Depth(t) THEN scope[t][d] \cup {o} ELSE scope[t][d]
  BY <1>4, <1>5
<1>10. \A d \in 1 .. Depth(t) : o \notin scope[t][d]
  BY <1>2 DEF ScopesSound
<1>11. \/ /\ top < MaxLocals /\ top' = top + 1
          /\ \A i \in 1 .. top' : locals'[i] = IF i = top + 1 THEN o ELSE locals[i]
       \/ top' = top /\ locals' = locals
  BY <1>1, <1>2, <1>3 DEF TypeOK, Slots
<1>12. TypeOK'
  <2>1. locals' \in [Slots -> Objects \cup {NoObject}] /\ top' \in 0 .. MaxLocals
    <3>1. CASE top < MaxLocals
      <4>1. top' = top + 1 /\ top' \in 0 .. MaxLocals
        BY <1>1, <1>3, <3>1
      <4>2. locals' = [locals EXCEPT ![top + 1] = o]
        BY <1>1, <3>1
      <4>3. locals' \in [Slots -> Objects \cup {NoObject}]
        BY <1>2, <4>2 DEF TypeOK
      <4> QED BY <4>1, <4>3
    <3>2. CASE ~ (top < MaxLocals)
      BY <1>1, <1>2, <3>2 DEF TypeOK
    <3> QED BY <3>1, <3>2
  <2>2. scope' \in [Threads -> Seq(SUBSET Objects)]
    BY <1>1, <1>2, <1>5, <1>7 DEF TypeOK
  <2> QED BY <1>1, <1>2, <2>1, <2>2 DEF TypeOK
<1>13. RegisteredOnce'
  <2>1. \A i \in 1 .. top : locals[i] # o
    BY <1>2 DEF RegisteredOnce
  <2> QED BY <1>1, <1>2, <1>3, <1>11, <2>1 DEF RegisteredOnce, ScopesSound
<1>14. MarksSound(t)'
  BY <1>1, <1>2, <1>3, <1>8, <1>11 DEF MarksSound, TypeOK
<1>15. ScopesSound(t)'
  BY <1>1, <1>2, <1>8, <1>9, <1>10 DEF ScopesSound
<1>16. EntriesPlaced(t)'
  <2>1. \A i \in 1 .. top' : \E d \in 1 .. Depth(t) : locals'[i] \in scope'[t][d]
    <3> SUFFICES ASSUME NEW i \in 1 .. top'
                 PROVE  \E d \in 1 .. Depth(t) : locals'[i] \in scope'[t][d]
      OBVIOUS
    <3>1. CASE i \in 1 .. top /\ locals'[i] = locals[i]
      <4>1. PICK d \in 1 .. Depth(t) : locals[i] \in scope[t][d]
        BY <1>2, <3>1 DEF EntriesPlaced
      <4> QED BY <1>9, <3>1, <4>1
    <3>2. CASE locals'[i] = o
      <4>1. Depth(t) \in 1 .. Depth(t)
        BY <1>3
      <4>2. o \in scope'[t][Depth(t)]
        BY <4>1, <1>9
      <4> QED BY <3>2, <4>1, <4>2
    <3>3. i \in 1 .. top \/ (i = top + 1 /\ top' = top + 1)
      BY <1>3, <1>11
    <3>4. i = top + 1 /\ top' = top + 1 => locals'[i] = o
      BY <1>3, <1>11
    <3>5. i \in 1 .. top => locals'[i] = locals[i]
      BY <1>3, <1>11
    <3> QED BY <3>1, <3>2, <3>3, <3>4, <3>5
  <2>2. ASSUME NEW d \in 1 .. Depth(t), NEW p \in scope'[t][d], NEW i \in 1 .. top', locals'[i] = p
        PROVE  Low(d)' < i /\ i <= High(t, d)'
    <3>1. Low(d)' = Low(d) /\ High(t, d)' = IF d = Depth(t) THEN top' ELSE High(t, d)
      BY <1>1, <1>8 DEF Low, High
    <3>2. CASE p = o /\ top' = top + 1 /\ i = top + 1
      <4>1. d = Depth(t)
        BY <3>2, <1>9, <1>10
      <4>2. Low(d) <= top /\ Low(d) \in Int
        BY <4>1, <1>2, <1>3 DEF Low, MarksSound, TypeOK
      <4> QED BY <1>3, <3>1, <3>2, <4>1, <4>2
    <3>3. CASE p # o
      <4>1. i \in 1 .. top /\ locals[i] = p /\ p \in scope[t][d]
        <5>1. p \in scope[t][d]
          BY <3>3, <1>9
        <5>2. i \in 1 .. top /\ locals[i] = p
          BY <2>2, <3>3, <1>3, <1>11
        <5> QED BY <5>1, <5>2
      <4>2. Low(d) < i /\ i <= High(t, d)
        BY <1>2, <4>1 DEF EntriesPlaced
      <4> QED BY <1>3, <1>11, <3>1, <4>1, <4>2
    <3>4. CASE p = o /\ i \in 1 .. top
      <4>1. locals'[i] = locals[i]
        BY <1>3, <1>11, <3>4
      <4> QED BY <1>2, <2>2, <3>4, <4>1 DEF RegisteredOnce
    <3> QED BY <2>2, <3>2, <3>3, <3>4, <1>3, <1>11
  <2> QED BY <1>8, <2>1, <2>2 DEF EntriesPlaced
<1> QED BY <1>12, <1>13, <1>14, <1>15, <1>16 DEF IInv, OneThread

\* A reference of the innermost frame is taken out: the top entry, which is of
\* that frame as well, moves into its place.
LEMMA TakeOutKeeps ==
  ASSUME IInv, NEW t \in Threads, NEW o \in Inner(t), Found(o) # 0, TakeOut(Found(o)),
         frames' = frames
  PROVE  /\ locals' \in [Slots -> Objects \cup {NoObject}] /\ top' \in 0 .. MaxLocals
         /\ \A i \in 1 .. top' : locals'[i] # o /\ \E j \in 1 .. top : locals'[i] = locals[j]
         /\ \A i, j \in 1 .. top' : locals'[i] = locals'[j] => i = j
         /\ \A d \in 1 .. Len(frames) : frames[d] <= top'
         /\ \A d \in 1 .. Depth(t) : \A p \in scope[t][d] : \A i \in 1 .. top' :
              locals'[i] = p => Low(d) < i /\ i <= IF d = Depth(t) THEN top' ELSE frames[d]
<1> DEFINE k == Found(o)
           D == Depth(t)
<1>1. TypeOK /\ RegisteredOnce /\ MarksSound(t) /\ EntriesPlaced(t) /\ ScopesSound(t)
  BY DEF IInv
<1>2. k \in 1 .. top /\ locals[k] = o
  BY <1>1, FoundIsEntry
<1>3. top \in Nat /\ top <= MaxLocals /\ MaxLocals \in Nat /\ D \in Nat \ {0} /\ MaxDepth \in Nat
  BY <1>1, JniAssumption DEF TypeOK, MarksSound
<1>4. D \in 1 .. D /\ o \in scope[t][D]
  BY <1>3 DEF Inner
<1>5. locals' = [locals EXCEPT ![k] = locals[top]] /\ top' = top - 1
  BY DEF TakeOut
<1> HIDE DEF k, D
<1>6. top' \in 0 .. MaxLocals /\ \A i \in 1 .. top' : i \in 1 .. top /\ i # top
  BY <1>2, <1>3, <1>5
<1>7. \A i \in 1 .. top : locals'[i] = IF i = k THEN locals[top] ELSE locals[i]
  BY <1>1, <1>2, <1>3, <1>5 DEF TypeOK, Slots
<1>8. locals' \in [Slots -> Objects \cup {NoObject}]
  <2>1. top \in Slots
    BY <1>2, <1>3 DEF Slots
  <2>2. locals[top] \in Objects \cup {NoObject}
    BY <2>1, <1>1 DEF TypeOK
  <2> QED BY <1>1, <1>5, <2>2 DEF TypeOK
<1>9. top \in 1 .. top
  BY <1>2, <1>3
<1>10. \A i, j \in 1 .. top' : locals'[i] = locals'[j] => i = j
  BY <1>1, <1>2, <1>6, <1>7, <1>9 DEF RegisteredOnce
<1>11. \A i \in 1 .. top' : locals'[i] # o /\ \E j \in 1 .. top : locals'[i] = locals[j]
  BY <1>1, <1>2, <1>6, <1>7, <1>9 DEF RegisteredOnce
<1>12. Low(D) < k /\ k <= top
  <2>1. Low(D) < k
    BY <1>1, <1>2, <1>4 DEF EntriesPlaced, D
  <2> QED BY <2>1, <1>2, <1>3
<1>13. \A d \in 1 .. Len(frames) : frames[d] \in Int /\ frames[d] <= Low(D) /\ Low(D) \in Int
  <2> SUFFICES ASSUME NEW d \in 1 .. Len(frames)
               PROVE  frames[d] \in Int /\ frames[d] <= Low(D) /\ Low(D) \in Int
    OBVIOUS
  <2>1. D # 1 /\ D - 1 \in 1 .. Len(frames) /\ d <= D - 1 /\ Len(frames) \in Nat
    BY <1>1, <1>3 DEF MarksSound, D
  <2>2. frames[d] \in 0 .. MaxLocals /\ frames[D - 1] \in 0 .. MaxLocals
    <3>1. frames \in Seq(0 .. MaxLocals)
      BY <1>1 DEF TypeOK
    <3> QED BY <2>1, <3>1, ElementOfSeq
  <2>3. Low(D) = frames[D - 1]
    BY <2>1 DEF Low
  <2>4. frames[d] <= frames[D - 1]
    BY <1>1, <2>1 DEF MarksSound
  <2> QED BY <1>3, <2>2, <2>3, <2>4
<1>14. \A d \in 1 .. Len(frames) : frames[d] <= top'
  BY <1>2, <1>3, <1>5, <1>12, <1>13
<1>15. ASSUME NEW d \in 1 .. D, NEW p \in scope[t][d], NEW i \in 1 .. top', locals'[i] = p
       PROVE  Low(d) < i /\ i <= IF d = D THEN top' ELSE frames[d]
  <2>1. CASE i # k
    <3>1. locals[i] = p /\ i \in 1 .. top
      BY <1>6, <1>7, <1>15, <2>1
    <3>2. Low(d) < i /\ i <= High(t, d)
      BY <1>1, <3>1 DEF EntriesPlaced, D
    <3> QED BY <3>2 DEF High, D
  <2>2. CASE i = k
    <3>1. locals[top] = p
      BY <1>6, <1>7, <1>15, <2>2
    <3>2. Low(d) < top /\ top <= High(t, d)
      BY <1>1, <1>9, <3>1 DEF EntriesPlaced, D
    <3>3. d = D
      <4> SUFFICES ASSUME d # D PROVE FALSE
        OBVIOUS
      <4>1. High(t, d) = frames[d]
        BY DEF High, D
      <4>2. d \in 1 .. Len(frames)
        BY <1>1, <1>3 DEF MarksSound, D
      <4> QED BY <1>2, <1>3, <1>12, <1>13, <3>2, <4>1, <4>2
    <3> QED BY <1>12, <2>2, <3>3
  <2> QED BY <2>1, <2>2
<1> QED BY <1>6, <1>8, <1>10, <1>11, <1>14, <1>15 DEF D

\* DeleteLocalRef frees a block that nothing else refers to.
LEMMA DeleteLocalKeeps ==
  ASSUME OneThread, IInv, NEW t \in Threads, NEW o, DeleteLocalRef(t, o)
  PROVE  IInv'
<1>1. TypeOK /\ RegisteredOnce /\ MarksSound(t) /\ EntriesPlaced(t) /\ ScopesSound(t)
  BY DEF IInv
<1>2. /\ o \in Inner(t) /\ UNCHANGED <<frames, globals>>
      /\ scope' = [scope EXCEPT ![t] = [d \in DOMAIN @ |-> @[d] \ {o}]]
      /\ \/ Found(o) # 0 /\ TakeOut(Found(o)) /\ live' = live \ {o}
         \/ Found(o) = 0 /\ UNCHANGED <<locals, top, live>>
  BY DEF DeleteLocalRef, Usable, OneThread, Without
<1>3. scope[t] \in Seq(SUBSET Objects) /\ DOMAIN scope[t] = 1 .. Depth(t) /\ Depth(t) \in Nat \ {0}
  BY <1>1, JniAssumption DEF TypeOK, Depth, MarksSound
<1>4. scope'[t] = [d \in 1 .. Depth(t) |-> scope[t][d] \ {o}]
  BY <1>1, <1>2, <1>3 DEF TypeOK
<1>5. scope'[t] \in Seq(SUBSET Objects) /\ Len(scope'[t]) = Depth(t)
  <2>1. \A d \in 1 .. Depth(t) : scope[t][d] \ {o} \in SUBSET Objects
    BY <1>3
  <2> QED BY <1>3, <1>4, <2>1, IsASeq
<1>6. Depth(t)' = Depth(t) /\ \A d \in 1 .. Depth(t) : scope'[t][d] = scope[t][d] \ {o}
  BY <1>4, <1>5 DEF Depth
<1>7. scope' \in [Threads -> Seq(SUBSET Objects)]
  BY <1>1, <1>2, <1>4, <1>5 DEF TypeOK
<1>8. \A d \in 1 .. Depth(t) :
        Low(d)' = Low(d) /\ High(t, d)' = IF d = Depth(t) THEN top' ELSE frames[d]
  BY <1>2, <1>6 DEF Low, High
<1>9. o \in scope[t][Depth(t)] /\ Depth(t) \in 1 .. Depth(t)
  BY <1>2, <1>3 DEF Inner
<1>10. CASE Found(o) # 0
  <2>1. /\ locals' \in [Slots -> Objects \cup {NoObject}] /\ top' \in 0 .. MaxLocals
        /\ \A i \in 1 .. top' : locals'[i] # o /\ \E j \in 1 .. top : locals'[i] = locals[j]
        /\ \A i, j \in 1 .. top' : locals'[i] = locals'[j] => i = j
        /\ \A d \in 1 .. Len(frames) : frames[d] <= top'
        /\ \A d \in 1 .. Depth(t) : \A p \in scope[t][d] : \A i \in 1 .. top' :
             locals'[i] = p => Low(d) < i /\ i <= IF d = Depth(t) THEN top' ELSE frames[d]
    BY <1>2, <1>10, TakeOutKeeps
  <2>2. live' = live \ {o} /\ o \notin globals
    <3>1. Found(o) \in 1 .. top /\ locals[Found(o)] = o
      BY <1>1, <1>10, FoundIsEntry
    <3> QED BY <1>1, <1>2, <1>10, <3>1 DEF RegisteredOnce
  <2>3. TypeOK'
    BY <1>1, <1>2, <1>7, <2>1, <2>2 DEF TypeOK
  <2>4. RegisteredOnce'
    BY <1>1, <1>2, <2>1, <2>2 DEF RegisteredOnce
  <2>5. MarksSound(t)'
    BY <1>1, <1>2, <1>6, <2>1 DEF MarksSound
  <2>6. ScopesSound(t)'
    BY <1>1, <1>2, <1>6, <2>2 DEF ScopesSound
  <2>7. EntriesPlaced(t)'
    <3>1. \A i \in 1 .. top' : \E d \in 1 .. Depth(t) : locals'[i] \in scope[t][d]
      BY <1>1, <2>1 DEF EntriesPlaced
    <3>2. \A i \in 1 .. top' : \E d \in 1 .. Depth(t) : locals'[i] \in scope'[t][d]
      <4> SUFFICES ASSUME NEW i \in 1 .. top'
                   PROVE  \E d \in 1 .. Depth(t) : locals'[i] \in scope'[t][d]
        OBVIOUS
      <4>1. PICK d \in 1 .. Depth(t) : locals'[i] \in scope[t][d]
        BY <3>1
      <4> QED BY <1>6, <2>1, <4>1
    <3>3. ASSUME NEW d \in 1 .. Depth(t), NEW p \in scope'[t][d],
                 NEW i \in 1 .. top', locals'[i] = p
          PROVE  Low(d)' < i /\ i <= High(t, d)'
      <4>1. p \in scope[t][d]
        BY <1>6
      <4>2. Low(d) < i /\ i <= IF d = Depth(t) THEN top' ELSE frames[d]
        BY <2>1, <3>3, <4>1
      <4> QED BY <1>8, <4>2
    <3> QED BY <1>6, <3>2, <3>3 DEF EntriesPlaced
  <2> QED BY <2>3, <2>4, <2>5, <2>6, <2>7 DEF IInv, OneThread
<1>11. CASE Found(o) = 0
  <2>1. UNCHANGED <<locals, top, live>>
    BY <1>2, <1>11
  <2>2. \A i \in 1 .. top : locals[i] # o
    BY <1>1, <1>11, NotFoundHasNone
  <2>3. TypeOK' /\ RegisteredOnce'
    BY <1>1, <1>2, <1>7, <2>1 DEF TypeOK, RegisteredOnce
  <2>4. MarksSound(t)'
    BY <1>1, <1>2, <1>6, <2>1 DEF MarksSound
  <2>5. ScopesSound(t)'
    BY <1>1, <1>2, <1>6, <2>1 DEF ScopesSound
  <2>6. EntriesPlaced(t)'
    BY <1>1, <1>6, <1>8, <2>1, <2>2 DEF EntriesPlaced, High
  <2> QED BY <2>3, <2>4, <2>5, <2>6 DEF IInv, OneThread
<1> QED BY <1>10, <1>11

\* NewGlobalRef takes the entry out; the engine's reference stays.
LEMMA NewGlobalKeeps ==
  ASSUME OneThread, IInv, NEW t \in Threads, NEW o, NewGlobalRef(t, o)
  PROVE  IInv'
<1>1. TypeOK /\ RegisteredOnce /\ MarksSound(t) /\ EntriesPlaced(t) /\ ScopesSound(t)
  BY DEF IInv
<1>2. /\ o \in Inner(t) /\ globals' = globals \cup {o}
      /\ UNCHANGED <<frames, live, scope>>
      /\ \/ Found(o) # 0 /\ TakeOut(Found(o))
         \/ Found(o) = 0 /\ UNCHANGED <<locals, top>>
  BY DEF NewGlobalRef, Usable, OneThread
<1>3. Depth(t) \in 1 .. Depth(t) /\ o \in scope[t][Depth(t)]
  BY <1>1, <1>2, JniAssumption DEF Inner, MarksSound
<1>4. o \in Objects /\ o \in live
  BY <1>1, <1>3 DEF ScopesSound, TypeOK
<1>5. Depth(t)' = Depth(t)
  BY <1>2 DEF Depth
<1>6. \A d \in 1 .. Depth(t) :
        Low(d)' = Low(d) /\ High(t, d)' = IF d = Depth(t) THEN top' ELSE frames[d]
  BY <1>2, <1>5 DEF Low, High
<1>7. ScopesSound(t)'
  BY <1>1, <1>2, <1>4, <1>5 DEF ScopesSound
<1>8. CASE Found(o) # 0
  <2>1. /\ locals' \in [Slots -> Objects \cup {NoObject}] /\ top' \in 0 .. MaxLocals
        /\ \A i \in 1 .. top' : locals'[i] # o /\ \E j \in 1 .. top : locals'[i] = locals[j]
        /\ \A i, j \in 1 .. top' : locals'[i] = locals'[j] => i = j
        /\ \A d \in 1 .. Len(frames) : frames[d] <= top'
        /\ \A d \in 1 .. Depth(t) : \A p \in scope[t][d] : \A i \in 1 .. top' :
             locals'[i] = p => Low(d) < i /\ i <= IF d = Depth(t) THEN top' ELSE frames[d]
    BY <1>2, <1>8, TakeOutKeeps
  <2>2. TypeOK'
    BY <1>1, <1>2, <1>4, <2>1 DEF TypeOK
  <2>3. RegisteredOnce'
    BY <1>1, <1>2, <2>1 DEF RegisteredOnce
  <2>4. MarksSound(t)'
    BY <1>1, <1>2, <1>5, <2>1 DEF MarksSound
  <2>5. EntriesPlaced(t)'
    <3>1. \A i \in 1 .. top' : \E d \in 1 .. Depth(t) : locals'[i] \in scope[t][d]
      BY <1>1, <2>1 DEF EntriesPlaced
    <3>2. \A d \in 1 .. Depth(t) : \A p \in scope[t][d] : \A i \in 1 .. top' :
            locals'[i] = p => Low(d)' < i /\ i <= High(t, d)'
      BY <1>6, <2>1
    <3> QED BY <1>2, <1>5, <3>1, <3>2 DEF EntriesPlaced
  <2> QED BY <1>7, <2>2, <2>3, <2>4, <2>5 DEF IInv, OneThread
<1>9. CASE Found(o) = 0
  <2>1. UNCHANGED <<locals, top>>
    BY <1>2, <1>9
  <2>2. \A i \in 1 .. top : locals[i] # o
    BY <1>1, <1>9, NotFoundHasNone
  <2>3. TypeOK' /\ RegisteredOnce'
    BY <1>1, <1>2, <1>4, <2>1, <2>2 DEF TypeOK, RegisteredOnce
  <2>4. MarksSound(t)' /\ EntriesPlaced(t)'
    BY <1>1, <1>2, <2>1 DEF MarksSound, EntriesPlaced, Depth, Low, High
  <2> QED BY <1>7, <2>3, <2>4 DEF IInv, OneThread
<1> QED BY <1>8, <1>9

\* DeleteGlobalRef frees a block that has no entry and no local reference.
LEMMA DeleteGlobalKeeps ==
  ASSUME OneThread, IInv, NEW t \in Threads, NEW o, DeleteGlobalRef(o)
  PROVE  IInv'
<1>1. TypeOK /\ RegisteredOnce /\ MarksSound(t) /\ EntriesPlaced(t) /\ ScopesSound(t)
  BY DEF IInv
<1>2. /\ o \in globals /\ o \notin Locals(t)
      /\ globals' = globals \ {o} /\ live' = live \ {o}
      /\ UNCHANGED <<locals, top, frames, scope>>
  BY DEF DeleteGlobalRef, OneThread
<1>3. \A d \in 1 .. Depth(t) : o \notin scope[t][d]
  BY <1>1, <1>2, LocalsOfFrames
<1>4. TypeOK' /\ RegisteredOnce'
  BY <1>1, <1>2 DEF TypeOK, RegisteredOnce
<1>5. MarksSound(t)' /\ EntriesPlaced(t)'
  BY <1>1, <1>2 DEF MarksSound, EntriesPlaced, Depth, Low, High
<1>6. ScopesSound(t)'
  BY <1>1, <1>2, <1>3 DEF ScopesSound, Depth
<1> QED BY <1>4, <1>5, <1>6 DEF IInv, OneThread

\* PushLocalFrame opens a frame with nothing in it.
LEMMA PushKeeps ==
  ASSUME OneThread, IInv, NEW t \in Threads, PushLocalFrame(t)
  PROVE  IInv'
<1> DEFINE D == Depth(t)
<1>1. TypeOK /\ RegisteredOnce /\ MarksSound(t) /\ EntriesPlaced(t) /\ ScopesSound(t)
  BY DEF IInv
<1>2. /\ D \in 1 .. (MaxDepth + 1) /\ D <= MaxDepth /\ MaxDepth \in Nat /\ MaxFrames \in Nat
      /\ MaxDepth <= MaxFrames /\ Len(frames) = D - 1 /\ top \in 0 .. MaxLocals
  BY <1>1, JniAssumption DEF PushLocalFrame, MarksSound, OneThread, TypeOK
<1>3. /\ frames' = Append(frames, top) /\ scope' = [scope EXCEPT ![t] = Append(@, {})]
      /\ UNCHANGED <<locals, top, live, globals>>
  BY <1>2 DEF PushLocalFrame
<1>4. scope[t] \in Seq(SUBSET Objects) /\ Len(scope[t]) = D /\ frames \in Seq(0 .. MaxLocals)
  BY <1>1 DEF TypeOK, Depth
<1>5. scope'[t] = Append(scope[t], {})
  BY <1>1, <1>3 DEF TypeOK
<1> HIDE DEF D
<1>6. /\ scope'[t] \in Seq(SUBSET Objects) /\ Len(scope'[t]) = D + 1
      /\ \A d \in 1 .. D : scope'[t][d] = scope[t][d]
      /\ scope'[t][D + 1] = {}
  <2>1. {} \in SUBSET Objects
    OBVIOUS
  <2> QED BY <1>4, <1>5, <2>1, AppendProperties
<1>7. /\ frames' \in Seq(0 .. MaxLocals) /\ Len(frames') = D
      /\ \A d \in 1 .. (D - 1) : frames'[d] = frames[d]
      /\ frames'[D] = top
  <2>1. Len(frames) + 1 = D
    BY <1>2
  <2> QED BY <1>2, <1>3, <1>4, <2>1, AppendProperties
<1>8. Depth(t)' = D + 1
  BY <1>6 DEF Depth
<1>9. TypeOK'
  <2>1. scope' \in [Threads -> Seq(SUBSET Objects)]
    BY <1>1, <1>3, <1>5, <1>6 DEF TypeOK
  <2> QED BY <1>1, <1>2, <1>3, <1>7, <2>1 DEF TypeOK
<1>10. RegisteredOnce'
  BY <1>1, <1>3 DEF RegisteredOnce
<1>11. \A d \in 1 .. (D - 1) : frames[d] \in Int /\ frames[d] <= top
  <2> SUFFICES ASSUME NEW d \in 1 .. (D - 1) PROVE frames[d] \in Int /\ frames[d] <= top
    OBVIOUS
  <2>1. d \in 1 .. Len(frames)
    BY <1>2
  <2>2. frames[d] \in 0 .. MaxLocals
    BY <1>4, <2>1, ElementOfSeq
  <2> QED BY <1>1, <2>1, <2>2 DEF MarksSound
<1>12. MarksSound(t)'
  <2>1. Depth(t)' \in 1 .. (MaxDepth + 1) /\ Len(frames') = Depth(t)' - 1
    BY <1>2, <1>7, <1>8
  <2>2. \A d \in 1 .. D : frames'[d] <= top
    BY <1>2, <1>7, <1>11
  <2>3. ASSUME NEW d \in 1 .. D, NEW e \in 1 .. D, d <= e PROVE frames'[d] <= frames'[e]
    <3>1. CASE e = D
      BY <1>7, <2>2, <3>1
    <3>2. CASE e # D
      <4>1. d \in 1 .. (D - 1) /\ e \in 1 .. (D - 1)
        BY <1>2, <2>3, <3>2
      <4>2. frames[d] <= frames[e]
        BY <1>1, <1>2, <2>3, <4>1 DEF MarksSound
      <4> QED BY <1>7, <4>1, <4>2
    <3> QED BY <3>1, <3>2
  <2> QED BY <1>3, <1>7, <2>1, <2>2, <2>3 DEF MarksSound
<1>13. ScopesSound(t)'
  <2>1. \A d \in 1 .. (D + 1) : d = D + 1 \/ d \in 1 .. D
    BY <1>2
  <2> QED BY <1>1, <1>3, <1>6, <1>8, <2>1 DEF ScopesSound, D
<1>14. EntriesPlaced(t)'
  <2>1. ASSUME NEW i \in 1 .. top PROVE \E d \in 1 .. (D + 1) : locals[i] \in scope'[t][d]
    <3>1. PICK d \in 1 .. D : locals[i] \in scope[t][d]
      BY <1>1 DEF EntriesPlaced, D
    <3> QED BY <1>2, <1>6, <3>1
  <2>2. ASSUME NEW d \in 1 .. (D + 1), NEW p \in scope'[t][d], NEW i \in 1 .. top, locals[i] = p
        PROVE  Low(d)' < i /\ i <= High(t, d)'
    <3>1. d \in 1 .. D /\ p \in scope[t][d]
      BY <1>2, <1>6
    <3>2. Low(d) < i /\ i <= High(t, d)
      BY <1>1, <2>2, <3>1 DEF EntriesPlaced, D
    <3>3. Low(d)' = Low(d)
      BY <1>2, <1>7, <3>1 DEF Low
    <3>4. High(t, d)' = High(t, d)
      <4>1. High(t, d)' = frames'[d]
        BY <1>2, <1>8, <3>1 DEF High
      <4>2. CASE d = D
        BY <1>7, <4>1, <4>2 DEF High, D
      <4>3. CASE d # D
        <5>1. d \in 1 .. (D - 1)
          BY <1>2, <3>1, <4>3
        <5> QED BY <1>7, <4>1, <4>3, <5>1 DEF High, D
      <4> QED BY <4>2, <4>3
    <3> QED BY <3>2, <3>3, <3>4
  <2> QED BY <1>3, <1>8, <2>1, <2>2 DEF EntriesPlaced
<1> QED BY <1>9, <1>10, <1>12, <1>13, <1>14 DEF IInv, OneThread

\* PopLocalFrame frees the entries of the innermost frame and of no other; the
\* result gets an entry in the frame below.
LEMMA PopKeeps ==
  ASSUME OneThread, IInv, NEW t \in Threads, NEW result, PopLocalFrame(t, result)
  PROVE  IInv'
<1> DEFINE D == Depth(t)
           m == frames[Len(frames)]
           kept == result # NoObject /\ m < MaxLocals
           moved == {result} \ {NoObject}
<1>1. TypeOK /\ RegisteredOnce /\ MarksSound(t) /\ EntriesPlaced(t) /\ ScopesSound(t)
  BY DEF IInv
<1>2. /\ D \in 1 .. (MaxDepth + 1) /\ D > 1 /\ MaxDepth \in Nat /\ MaxLocals \in Nat
      /\ Len(frames) = D - 1 /\ Len(frames) \in 1 .. Len(frames) /\ top \in 0 .. MaxLocals
  BY <1>1, JniAssumption DEF PopLocalFrame, MarksSound, TypeOK
<1>3. frames # <<>> /\ frames \in Seq(0 .. MaxLocals) /\ Len(frames) <= MaxFrames
  BY <1>1, <1>2 DEF TypeOK
<1>4. /\ live' = live \ FreedByPop(m, result)
      /\ top' = IF kept THEN m + 1 ELSE m
      /\ locals' = IF kept THEN [locals EXCEPT ![m + 1] = result] ELSE locals
      /\ frames' = SubSeq(frames, 1, Len(frames) - 1)
      /\ globals' = globals
  BY <1>3 DEF PopLocalFrame
<1>5. scope' = [scope EXCEPT ![t] = [d \in 1 .. (D - 1) |->
                                      IF d = D - 1 THEN @[d] \cup moved ELSE @[d]]]
  BY DEF PopLocalFrame
<1>6. result \in (Inner(t) \ globals) \cup {NoObject}
  BY DEF PopLocalFrame
<1> HIDE DEF D, m, kept, moved
<1>7. m \in 0 .. MaxLocals /\ m <= top
  BY <1>1, <1>2, <1>3, ElementOfSeq DEF m, MarksSound
<1>8. scope[t] \in Seq(SUBSET Objects) /\ Len(scope[t]) = D
  BY <1>1 DEF TypeOK, Depth, D
<1>9. \A d \in 1 .. D : scope[t][d] \in SUBSET Objects
  BY <1>8, ElementOfSeq
<1>10. D \in 1 .. D /\ (D - 1) \in 1 .. D
  BY <1>2
<1>11. /\ moved \subseteq scope[t][D] /\ moved \subseteq Objects
       /\ moved \cap globals = {} /\ moved \subseteq live
  BY <1>1, <1>6, <1>9, <1>10 DEF moved, Inner, D, ScopesSound
<1>12. scope'[t] = [d \in 1 .. (D - 1) |->
                      IF d = D - 1 THEN scope[t][d] \cup moved ELSE scope[t][d]]
  BY <1>1, <1>5 DEF TypeOK
<1>13. scope'[t] \in Seq(SUBSET Objects) /\ Len(scope'[t]) = D - 1
  <2>1. \A d \in 1 .. (D - 1) :
          (IF d = D - 1 THEN scope[t][d] \cup moved ELSE scope[t][d]) \in SUBSET Objects
    <3>1. \A d \in 1 .. (D - 1) : d \in 1 .. D
      BY <1>2
    <3> QED BY <1>9, <1>11, <3>1
  <2>2. D - 1 \in Nat
    BY <1>2
  <2> QED BY <1>12, <2>1, <2>2, IsASeq
<1>14. Depth(t)' = D - 1
  BY <1>13 DEF Depth
<1>15. \A d \in 1 .. (D - 1) :
         scope'[t][d] = IF d = D - 1 THEN scope[t][d] \cup moved ELSE scope[t][d]
  BY <1>12
<1>16. /\ frames' \in Seq(0 .. MaxLocals) /\ Len(frames') = D - 2
       /\ \A d \in 1 .. (D - 2) : frames'[d] = frames[d]
  <2>1. PICK n \in Nat : n = D - 2 /\ Len(frames) = n + 1
    BY <1>2
  <2>2. \A i \in 1 .. n : frames[i] \in 0 .. MaxLocals
    <3>1. \A i \in 1 .. n : i \in 1 .. Len(frames)
      BY <2>1
    <3> QED BY <1>3, <3>1, ElementOfSeq
  <2>3. /\ SubSeq(frames, 1, n) \in Seq(0 .. MaxLocals)
        /\ Len(SubSeq(frames, 1, n)) = IF 1 <= n THEN n - 1 + 1 ELSE 0
        /\ \A i \in 1 .. n - 1 + 1 : SubSeq(frames, 1, n)[i] = frames[1 + i - 1]
    BY <2>2, SubSeqProperties
  <2>4. frames' = SubSeq(frames, 1, n)
    BY <1>4, <2>1
  <2>5. /\ n - 1 + 1 = n /\ \A i \in 1 .. n : 1 + i - 1 = i
        /\ (IF 1 <= n THEN n - 1 + 1 ELSE 0) = n
    OBVIOUS
  <2> QED BY <2>1, <2>3, <2>4, <2>5
\* Entries up to the mark are of the frames that stay, those above are not.
<1>17. ASSUME NEW d \in 1 .. (D - 1), NEW p \in scope[t][d], NEW i \in 1 .. top, locals[i] = p
       PROVE  Low(d) < i /\ i <= m /\ (d # D - 1 => i <= frames[d])
  <2>1. d \in 1 .. D /\ d # D /\ d \in 1 .. Len(frames)
    BY <1>2
  <2>2. Low(d) < i /\ i <= frames[d]
    BY <1>1, <1>17, <2>1 DEF EntriesPlaced, High, D
  <2>3. frames[d] <= m
    BY <1>1, <1>2, <2>1 DEF MarksSound, m
  <2>4. frames[d] \in 0 .. MaxLocals
    BY <1>3, <2>1, ElementOfSeq
  <2> QED BY <1>7, <2>2, <2>3, <2>4
<1>18. ASSUME NEW p \in scope[t][D], NEW i \in 1 .. top, locals[i] = p PROVE m < i
  <2>1. Low(D) < i
    BY <1>1, <1>10, <1>18 DEF EntriesPlaced, D
  <2>2. Low(D) = m
    BY <1>2 DEF Low, m
  <2> QED BY <2>1, <2>2
<1>19. ASSUME NEW i \in 1 .. m PROVE \E d \in 1 .. (D - 1) : locals[i] \in scope[t][d]
  <2>1. i \in 1 .. top
    BY <1>2, <1>7
  <2>2. PICK d \in 1 .. D : locals[i] \in scope[t][d]
    BY <1>1, <2>1 DEF EntriesPlaced, D
  <2>3. d # D
    BY <1>7, <1>18, <2>1, <2>2
  <2> QED BY <1>2, <2>2, <2>3
<1>20. \A i \in 1 .. m : i \in 1 .. top /\ locals[i] \notin moved
  BY <1>2, <1>7, <1>11, <1>18
\* What is left of the array.
<1>21. \/ /\ kept /\ top' = m + 1 /\ moved = {result} /\ m + 1 \in 1 .. MaxLocals
          /\ \A i \in 1 .. m : locals'[i] = locals[i]
          /\ locals'[m + 1] = result
       \/ ~ kept /\ top' = m /\ locals' = locals
  BY <1>1, <1>2, <1>4, <1>7 DEF kept, moved, TypeOK, Slots
<1>22. top' \in 0 .. MaxLocals /\ locals' \in [Slots -> Objects \cup {NoObject}]
  <2>1. top' \in 0 .. MaxLocals
    BY <1>2, <1>7, <1>21
  <2>2. CASE kept
    <3>1. result \in Objects
      BY <1>11, <1>21, <2>2
    <3>2. locals' = [locals EXCEPT ![m + 1] = result]
      BY <1>4, <2>2
    <3> QED BY <1>1, <2>1, <3>1, <3>2 DEF TypeOK
  <2>3. CASE ~ kept
    BY <1>1, <1>4, <2>1, <2>3 DEF TypeOK
  <2> QED BY <2>2, <2>3
<1>23. ASSUME NEW i \in 1 .. top'
       PROVE  \/ i \in 1 .. m /\ locals'[i] = locals[i]
              \/ i = m + 1 /\ kept /\ moved = {result} /\ locals'[i] = result
  BY <1>2, <1>7, <1>21
\* What is freed is of no frame that stays.
<1>24. ASSUME NEW d \in 1 .. (D - 1), NEW p \in scope[t][d] PROVE p \in live'
  <2>1. p \in live
    BY <1>1, <1>2 DEF ScopesSound, D
  <2>2. \A i \in (m + 1) .. top : locals[i] # p
    BY <1>2, <1>7, <1>17
  <2> QED BY <1>4, <2>1, <2>2 DEF FreedByPop
<1>25. \A p \in moved : p \in live'
  BY <1>4, <1>11 DEF FreedByPop, moved
<1>26. globals \subseteq live'
  <2> SUFFICES ASSUME NEW p \in globals PROVE p \in live'
    OBVIOUS
  <2>1. \A i \in (m + 1) .. top : i \in 1 .. top
    BY <1>2, <1>7
  <2>2. \A i \in (m + 1) .. top : locals[i] # p
    BY <1>1, <2>1 DEF RegisteredOnce
  <2> QED BY <1>1, <1>4, <2>2 DEF FreedByPop, ScopesSound
<1>27. TypeOK'
  <2>1. scope' \in [Threads -> Seq(SUBSET Objects)]
    BY <1>1, <1>5, <1>12, <1>13 DEF TypeOK
  <2>2. live' \subseteq Objects
    BY <1>1, <1>4 DEF TypeOK
  <2>3. Len(frames') <= MaxFrames
    BY <1>2, <1>3, <1>16, JniAssumption
  <2> QED BY <1>1, <1>4, <1>16, <1>22, <2>1, <2>2, <2>3 DEF TypeOK
<1>28. RegisteredOnce'
  <2>1. ASSUME NEW i \in 1 .. top' PROVE locals'[i] \in live' \ globals'
    <3>1. CASE i \in 1 .. m /\ locals'[i] = locals[i]
      <4>1. locals[i] \in live'
        BY <1>19, <1>24, <3>1
      <4>2. locals[i] \notin globals
        BY <1>1, <1>20, <3>1 DEF RegisteredOnce
      <4> QED BY <1>4, <3>1, <4>1, <4>2
    <3>2. CASE kept /\ moved = {result} /\ locals'[i] = result
      BY <1>4, <1>11, <1>25, <3>2
    <3> QED BY <1>23, <3>1, <3>2
  <2>2. ASSUME NEW i \in 1 .. top', NEW j \in 1 .. top', locals'[i] = locals'[j] PROVE i = j
    <3>1. CASE i \in 1 .. m /\ locals'[i] = locals[i] /\ j \in 1 .. m /\ locals'[j] = locals[j]
      BY <1>1, <1>20, <2>2, <3>1 DEF RegisteredOnce
    <3>2. CASE i \in 1 .. m /\ locals'[i] = locals[i] /\ moved = {result} /\ locals'[j] = result
      BY <1>20, <2>2, <3>2
    <3>3. CASE j \in 1 .. m /\ locals'[j] = locals[j] /\ moved = {result} /\ locals'[i] = result
      BY <1>20, <2>2, <3>3
    <3> QED BY <1>23, <3>1, <3>2, <3>3
  <2> QED BY <2>1, <2>2 DEF RegisteredOnce
<1>29. MarksSound(t)'
  <2>1. Depth(t)' \in 1 .. (MaxDepth + 1) /\ Len(frames') = Depth(t)' - 1
    BY <1>2, <1>14, <1>16
  <2>2. \A d \in 1 .. (D - 2) : d \in 1 .. Len(frames) /\ frames[d] \in 0 .. MaxLocals
    BY <1>2, <1>3, ElementOfSeq
  <2>3. ASSUME NEW d \in 1 .. (D - 2) PROVE frames'[d] <= m /\ frames'[d] \in Int
    <3>1. d \in 1 .. (D - 1) /\ D - 1 \in 1 .. (D - 1) /\ d <= D - 1
      BY <1>2
    <3>2. frames[d] <= frames[D - 1]
      BY <1>1, <1>2, <3>1 DEF MarksSound
    <3>3. frames'[d] = frames[d]
      BY <1>16
    <3>4. frames[D - 1] = m
      BY <1>1, <1>2 DEF m, MarksSound
    <3> QED BY <1>7, <2>2, <3>2, <3>3, <3>4
  <2>4. \A d \in 1 .. (D - 2) : frames'[d] <= top'
    BY <1>7, <1>21, <2>3
  <2>5. \A d, e \in 1 .. (D - 2) : d <= e => frames'[d] <= frames'[e]
    BY <1>1, <1>16, <2>2 DEF MarksSound
  <2> QED BY <1>16, <2>1, <2>4, <2>5 DEF MarksSound
<1>30. ScopesSound(t)'
  <2>1. \A d \in 1 .. (D - 1) : d \in 1 .. D /\ d # D
    BY <1>2
  <2>2. ASSUME NEW d \in 1 .. (D - 1), NEW e \in 1 .. (D - 1), d # e
        PROVE  scope'[t][d] \cap scope'[t][e] = {}
    <3>1. /\ scope[t][d] \cap scope[t][e] = {} /\ scope[t][d] \cap scope[t][D] = {}
          /\ scope[t][e] \cap scope[t][D] = {}
      BY <1>1, <1>10, <2>1, <2>2 DEF ScopesSound, D
    <3> QED BY <1>11, <1>15, <2>2, <3>1
  <2>3. ASSUME NEW d \in 1 .. (D - 1) PROVE scope'[t][d] \subseteq live'
    BY <1>15, <1>24, <1>25
  <2> QED BY <1>4, <1>14, <1>26, <2>2, <2>3 DEF ScopesSound
<1>31. EntriesPlaced(t)'
  <2>1. ASSUME NEW i \in 1 .. top' PROVE \E d \in 1 .. (D - 1) : locals'[i] \in scope'[t][d]
    <3>1. CASE i \in 1 .. m /\ locals'[i] = locals[i]
      <4>1. PICK d \in 1 .. (D - 1) : locals[i] \in scope[t][d]
        BY <1>19, <3>1
      <4> QED BY <1>15, <3>1, <4>1
    <3>2. CASE moved = {result} /\ locals'[i] = result
      <4>1. D - 1 \in 1 .. (D - 1)
        BY <1>2
      <4>2. result \in scope'[t][D - 1]
        BY <1>15, <3>2, <4>1
      <4> QED BY <3>2, <4>1, <4>2
    <3> QED BY <1>23, <3>1, <3>2
  <2>2. ASSUME NEW d \in 1 .. (D - 1), NEW p \in scope'[t][d], NEW i \in 1 .. top', locals'[i] = p
        PROVE  Low(d)' < i /\ i <= High(t, d)'
    <3>1. Low(d)' = Low(d) /\ High(t, d)' = IF d = D - 1 THEN top' ELSE frames[d]
      <4>1. d # 1 => d - 1 \in 1 .. (D - 2)
        BY <1>2
      <4>2. d # D - 1 => d \in 1 .. (D - 2)
        BY <1>2
      <4> QED BY <1>14, <1>16, <4>1, <4>2 DEF Low, High
    <3>2. CASE i \in 1 .. m /\ locals'[i] = locals[i]
      <4>1. p \in scope[t][d]
        BY <1>15, <1>20, <2>2, <3>2
      <4>2. Low(d) < i /\ (d # D - 1 => i <= frames[d])
        BY <1>17, <1>20, <2>2, <3>2, <4>1
      <4> QED BY <3>1, <4>2
    <3>3. CASE i = m + 1 /\ kept /\ moved = {result} /\ locals'[i] = result
      <4>1. d = D - 1
        <5> SUFFICES ASSUME d # D - 1 PROVE FALSE
          OBVIOUS
        <5>1. p \in scope[t][d] /\ p \in scope[t][D]
          BY <1>11, <1>15, <2>2, <3>3
        <5>2. d \in 1 .. D /\ d # D
          BY <1>2
        <5> QED BY <1>1, <1>10, <5>1, <5>2 DEF ScopesSound, D
      <4>2. top' = m + 1
        BY <1>21, <3>3
      <4>3. Low(d) <= m /\ Low(d) \in Int
        <5>1. CASE d = 1
          BY <1>7, <5>1 DEF Low
        <5>2. CASE d # 1
          <6>1. d - 1 \in 1 .. Len(frames)
            BY <1>2, <5>2
          <6>2. frames[d - 1] \in 0 .. MaxLocals
            BY <1>3, <6>1, ElementOfSeq
          <6>3. frames[d - 1] <= m
            BY <1>1, <1>2, <6>1 DEF MarksSound, m
          <6> QED BY <5>2, <6>2, <6>3 DEF Low
        <5> QED BY <5>1, <5>2
      <4> QED BY <1>7, <3>1, <3>3, <4>1, <4>2, <4>3
    <3> QED BY <1>23, <3>2, <3>3
  <2> QED BY <1>14, <2>1, <2>2 DEF EntriesPlaced
<1> QED BY <1>27, <1>28, <1>29, <1>30, <1>31 DEF IInv, OneThread

-----------------------------------------------------------------------------
(* The properties.                                                         *)

\* No call has been made.
LEMMA InvInit == Init => IInv
<1> SUFFICES ASSUME Init PROVE IInv
  OBVIOUS
<1>1. \A t \in Threads : scope[t] = <<{}>> /\ Depth(t) = 1 /\ scope[t][1] = {}
  BY DEF Init, Depth
<1>2. <<{}>> \in Seq(SUBSET Objects)
  OBVIOUS
<1>3. TypeOK
  <2>1. 0 \in 0 .. MaxLocals /\ <<>> \in Seq(0 .. MaxLocals) /\ Len(<<>>) <= MaxFrames
    BY JniAssumption
  <2> QED BY <1>2, <2>1 DEF Init, TypeOK
<1>4. RegisteredOnce
  BY DEF Init, RegisteredOnce
<1>5. ASSUME NEW t \in Threads PROVE MarksSound(t) /\ EntriesPlaced(t) /\ ScopesSound(t)
  <2>1. Len(frames) = 0 /\ top = 0 /\ globals = {} /\ live = {}
    BY DEF Init
  <2>2. 1 \in 1 .. (MaxDepth + 1) /\ 1 .. 1 = {1} /\ 1 .. 0 = {}
    BY JniAssumption
  <2>3. MarksSound(t)
    BY <1>1, <2>1, <2>2 DEF MarksSound
  <2>4. EntriesPlaced(t) /\ ScopesSound(t)
    BY <1>1, <2>1, <2>2 DEF EntriesPlaced, ScopesSound
  <2> QED BY <2>3, <2>4
<1> QED BY <1>3, <1>4, <1>5 DEF IInv

\* Every JNI call of the one thread keeps the invariant.
LEMMA InvStep ==
  ASSUME OneThread, IInv, [Next]_vars
  PROVE  IInv'
<1>1. ASSUME NEW t \in Threads, NewLocal(t) PROVE IInv'
  BY <1>1, NewLocalKeeps
<1>2. ASSUME NEW t \in Threads, PushLocalFrame(t) PROVE IInv'
  BY <1>2, PushKeeps
<1>3. ASSUME NEW t \in Threads, NEW o, DeleteLocalRef(t, o) PROVE IInv'
  BY <1>3, DeleteLocalKeeps
<1>4. ASSUME NEW t \in Threads, NEW o, NewGlobalRef(t, o) PROVE IInv'
  BY <1>4, NewGlobalKeeps
<1>5. ASSUME NEW t \in Threads, NEW o, PopLocalFrame(t, o) PROVE IInv'
  BY <1>5, PopKeeps
<1>6. ASSUME NEW o, DeleteGlobalRef(o) PROVE IInv'
  <2>1. PICK t \in Threads : TRUE
    BY DEF OneThread
  <2> QED BY <1>6, <2>1, DeleteGlobalKeeps
<1>7. CASE UNCHANGED vars
  <2>1. TypeOK' /\ RegisteredOnce'
    BY <1>7 DEF vars, IInv, TypeOK, RegisteredOnce
  <2>2. ASSUME NEW t \in Threads PROVE MarksSound(t)' /\ EntriesPlaced(t)' /\ ScopesSound(t)'
    <3>1. MarksSound(t) /\ EntriesPlaced(t) /\ ScopesSound(t)
      BY DEF IInv
    <3>2. MarksSound(t)' /\ ScopesSound(t)'
      BY <1>7, <3>1 DEF vars, MarksSound, ScopesSound, Depth
    <3>3. EntriesPlaced(t)'
      BY <1>7, <3>1 DEF vars, EntriesPlaced, Depth, Low, High
    <3> QED BY <3>2, <3>3
  <2> QED BY <2>1, <2>2 DEF IInv
<1> QED BY <1>1, <1>2, <1>3, <1>4, <1>5, <1>6, <1>7 DEF Next

\* The invariant holds for good.
LEMMA InvAlways ==
  ASSUME OneThread
  PROVE  Spec => []IInv
<1>1. IInv /\ [Next]_vars => IInv'
  BY InvStep
<1> QED BY InvInit, <1>1, PTL DEF Spec

\* With one thread, no reference the engine may use points to a freed block
\* (jni_fake.c:58), however small the array and whatever is left unregistered.
THEOREM OneThreadRefsValid ==
  ASSUME OneThread
  PROVE  Spec => []RefsValid
<1>1. IInv => RefsValid
  <2> SUFFICES ASSUME IInv, NEW o, o \in globals \cup UNION {Locals(t) : t \in Threads}
               PROVE  o \in live
    BY DEF RefsValid
  <2>1. CASE o \in globals
    BY <2>1 DEF IInv, ScopesSound, OneThread
  <2>2. ASSUME NEW t \in Threads, o \in Locals(t) PROVE o \in live
    BY <2>2, LocalsOfFrames DEF IInv, ScopesSound
  <2> QED BY <2>1, <2>2
<1> QED BY <1>1, InvAlways, PTL

\* No block is registered twice, so that no pop and no delete frees one twice,
\* and between two marks stands what the engine got in that frame.
THEOREM OneThreadTableSound ==
  ASSUME OneThread
  PROVE  Spec => []TableSound
<1>1. ASSUME IInv PROVE FramesMatch
  <2> SUFFICES ASSUME NEW t \in Threads
               PROVE  /\ Len(frames) = Depth(t) - 1
                      /\ \A d \in 1 .. Depth(t) : \A o \in scope[t][d] \ (globals \cup Leaked) :
                           \E i \in (IF d = 1 THEN 1 ELSE frames[d - 1] + 1)
                                      .. (IF d = Depth(t) THEN top ELSE frames[d]) : locals[i] = o
    BY DEF FramesMatch
  <2>1. TypeOK /\ MarksSound(t) /\ EntriesPlaced(t) /\ ScopesSound(t)
    BY <1>1 DEF IInv
  <2>2. ASSUME NEW d \in 1 .. Depth(t), NEW o \in scope[t][d] \ (globals \cup Leaked)
        PROVE  \E i \in (IF d = 1 THEN 1 ELSE frames[d - 1] + 1)
                          .. (IF d = Depth(t) THEN top ELSE frames[d]) : locals[i] = o
    <3>1. o \in live
      BY <2>1 DEF ScopesSound
    <3>2. PICK i \in 1 .. top : locals[i] = o
      BY <3>1 DEF Leaked
    <3>3. Low(d) < i /\ i <= High(t, d)
      BY <2>1, <3>2 DEF EntriesPlaced
    <3>4. /\ Len(frames) = Depth(t) - 1 /\ Depth(t) \in Nat
                /\ top \in Int /\ frames \in Seq(0 .. MaxLocals)
      BY <2>1, JniAssumption DEF MarksSound, TypeOK
    <3>5. CASE d = 1
      <4>1. d # Depth(t) => frames[d] \in Int
        <5>1. d # Depth(t) => d \in 1 .. Len(frames)
          BY <3>4, <3>5
        <5>2. d # Depth(t) => frames[d] \in 0 .. MaxLocals
          BY <3>4, <5>1, ElementOfSeq
        <5> QED BY <5>2
      <4> QED BY <3>2, <3>3, <3>4, <3>5, <4>1 DEF Low, High
    <3>6. CASE d # 1
      <4>1. d - 1 \in 1 .. Len(frames) /\ (d # Depth(t) => d \in 1 .. Len(frames))
        BY <3>4, <3>6
      <4>2. frames[d - 1] \in 0 .. MaxLocals /\ (d # Depth(t) => frames[d] \in 0 .. MaxLocals)
        BY <3>4, <4>1, ElementOfSeq
      <4> QED BY <3>2, <3>3, <3>4, <3>6, <4>2 DEF Low, High
    <3> QED BY <3>5, <3>6
  <2> QED BY <2>1, <2>2 DEF MarksSound
<1>2. IInv => TableSound
  BY <1>1 DEF IInv, TableSound
<1> QED BY <1>2, InvAlways, PTL

\* The blocks that have an entry.
Entries == {locals[i] : i \in 1 .. top}

\* A take-out leaves every other entry.
LEMMA TakeOutLeavesOthers ==
  ASSUME IInv, NEW o, Found(o) # 0, TakeOut(Found(o))
  PROVE  Entries \ {o} \subseteq Entries'
<1>1. TypeOK /\ RegisteredOnce /\ JniAssumption
  BY JniAssumption DEF IInv
<1>2. Found(o) \in 1 .. top /\ locals[Found(o)] = o
  BY <1>1, FoundIsEntry
<1>3. locals' = [locals EXCEPT ![Found(o)] = locals[top]] /\ top' = top - 1 /\ top \in Nat
  BY <1>1 DEF TakeOut, TypeOK
<1>4. \A i \in 1 .. top : locals'[i] = IF i = Found(o) THEN locals[top] ELSE locals[i]
  BY <1>1, <1>3 DEF TypeOK, Slots
<1>5. ASSUME NEW i \in 1 .. top, locals[i] # o PROVE \E j \in 1 .. top' : locals'[j] = locals[i]
  <2>1. CASE i # top
    <3>1. i \in 1 .. top' /\ i # Found(o)
      BY <1>2, <1>3, <1>5, <2>1
    <3> QED BY <1>4, <3>1
  <2>2. CASE i = top
    <3>1. Found(o) \in 1 .. top'
      BY <1>2, <1>3, <1>5, <2>2
    <3> QED BY <1>2, <1>4, <2>2, <3>1
  <2> QED BY <2>1, <2>2
<1> QED BY <1>5 DEF Entries

\* A block gets out of reach of every delete and pop only when the array is
\* full at that step (jni_fake.c:69-76).
THEOREM OneThreadLeaksOnlyWhenFull ==
  ASSUME OneThread
  PROVE  Spec => LeaksOnlyWhenFull
<1>1. ASSUME IInv, [Next]_vars PROVE [Leaked' \subseteq Leaked \/ top = MaxLocals]_vars
  <2> DEFINE Step == Leaked' \subseteq Leaked \/ top = MaxLocals
  <2>1. Leaked = live \ (globals \cup Entries) /\ Leaked' = live' \ (globals' \cup Entries')
    BY DEF Leaked, Entries
  <2>2. TypeOK /\ RegisteredOnce
    BY <1>1 DEF IInv
  <2>3. ASSUME NEW t \in Threads, NewLocal(t) PROVE Step
    <3>1. CASE top < MaxLocals
      <4>1. PICK o \in Objects \ live :
              /\ live' = live \cup {o} /\ globals' = globals
              /\ locals' = [locals EXCEPT ![top + 1] = o] /\ top' = top + 1
        BY <2>3, <3>1 DEF NewLocal
      <4>2. o \in Entries' /\ Entries \subseteq Entries'
        <5>1. top \in Nat /\ MaxLocals \in Nat
          BY <2>2, JniAssumption DEF TypeOK
        <5>2. \A i \in 1 .. (top + 1) : locals'[i] = IF i = top + 1 THEN o ELSE locals[i]
          BY <2>2, <3>1, <4>1, <5>1 DEF TypeOK, Slots
        <5>3. o \in Entries'
          BY <4>1, <5>1, <5>2 DEF Entries
        <5>4. \A i \in 1 .. top : i \in 1 .. top' /\ locals'[i] = locals[i]
          BY <4>1, <5>1, <5>2
        <5> QED BY <5>3, <5>4 DEF Entries
      <4> QED BY <2>1, <4>1, <4>2
    <3>2. CASE ~ (top < MaxLocals)
      BY <2>2, <3>2, JniAssumption DEF TypeOK
    <3> QED BY <3>1, <3>2
  <2>4. ASSUME NEW t \in Threads, PushLocalFrame(t) PROVE Step
    BY <2>4 DEF PushLocalFrame, Leaked
  <2>5. ASSUME NEW t \in Threads, NEW o, DeleteLocalRef(t, o) PROVE Step
    <3>1. CASE Found(o) # 0
      <4>1. Entries \ {o} \subseteq Entries'
        BY <1>1, <2>5, <3>1, TakeOutLeavesOthers DEF DeleteLocalRef
      <4> QED BY <2>1, <2>5, <3>1, <4>1 DEF DeleteLocalRef
    <3>2. CASE Found(o) = 0
      BY <2>5, <3>2 DEF DeleteLocalRef, Leaked
    <3> QED BY <3>1, <3>2
  <2>6. ASSUME NEW t \in Threads, NEW o, NewGlobalRef(t, o) PROVE Step
    <3>1. CASE Found(o) # 0
      <4>1. Entries \ {o} \subseteq Entries'
        BY <1>1, <2>6, <3>1, TakeOutLeavesOthers DEF NewGlobalRef
      <4> QED BY <2>1, <2>6, <3>1, <4>1 DEF NewGlobalRef
    <3>2. CASE Found(o) = 0
      BY <2>6, <3>2 DEF NewGlobalRef, Leaked
    <3> QED BY <3>1, <3>2
  <2>7. ASSUME NEW o, DeleteGlobalRef(o) PROVE Step
    BY <2>7 DEF DeleteGlobalRef, Leaked
  <2>8. ASSUME NEW t \in Threads, NEW result, PopLocalFrame(t, result) PROVE Step
    <3> SUFFICES ASSUME top # MaxLocals PROVE Leaked' \subseteq Leaked
      OBVIOUS
    <3> DEFINE m == frames[Len(frames)]
    <3>1. MarksSound(t) /\ Depth(t) > 1 /\ MaxLocals \in Nat /\ top \in 0 .. MaxLocals
      BY <1>1, <2>2, <2>8, JniAssumption DEF IInv, PopLocalFrame, TypeOK
    <3>2. Len(frames) \in 1 .. Len(frames) /\ frames # <<>> /\ frames \in Seq(0 .. MaxLocals)
      BY <2>2, <3>1, JniAssumption DEF MarksSound, TypeOK
    <3>3. m \in 0 .. MaxLocals /\ m <= top
      BY <3>1, <3>2, ElementOfSeq DEF MarksSound
    <3>4. /\ live' = live \ ({locals[i] : i \in (m + 1) .. top} \ {result})
          /\ globals' = globals
          /\ IF result # NoObject /\ m < MaxLocals
               THEN top' = m + 1 /\ locals' = [locals EXCEPT ![m + 1] = result]
               ELSE top' = m /\ locals' = locals
      BY <2>8, <3>2 DEF PopLocalFrame, FreedByPop
    <3> HIDE DEF m
    <3>5. \A i \in 1 .. m : i \in 1 .. top' /\ locals'[i] = locals[i]
      <4> SUFFICES ASSUME NEW i \in 1 .. m PROVE i \in 1 .. top' /\ locals'[i] = locals[i]
        OBVIOUS
      <4>1. top' = m \/ top' = m + 1
        BY <3>4
      <4>2. i \in Slots /\ i # m + 1
        BY <3>1, <3>3 DEF Slots
      <4>3. locals'[i] = locals[i]
        BY <2>2, <3>4, <4>2 DEF TypeOK
      <4> QED BY <3>3, <4>1, <4>3
    <3>6. result # NoObject => result \in Entries'
      <4> SUFFICES ASSUME result # NoObject PROVE result \in Entries'
        OBVIOUS
      <4>1. m < MaxLocals
        BY <3>1, <3>3
      <4>2. top' = m + 1 /\ m + 1 \in 1 .. top' /\ m + 1 \in Slots
        BY <3>1, <3>3, <3>4, <4>1 DEF Slots
      <4>3. locals'[m + 1] = result
        BY <2>2, <3>4, <4>1, <4>2 DEF TypeOK
      <4> QED BY <4>2, <4>3 DEF Entries
    <3>7. ASSUME NEW p \in Leaked' PROVE p \notin Entries
      <4> SUFFICES ASSUME NEW i \in 1 .. top, locals[i] = p PROVE FALSE
        BY DEF Entries
      <4>1. p \in live /\ p \in live' /\ p \notin Entries' /\ p # NoObject
        BY <2>1, <2>2, <3>4, <3>7, JniAssumption DEF TypeOK
      <4>2. i \notin 1 .. m
        BY <3>5, <4>1 DEF Entries
      <4>3. i \in (m + 1) .. top
        BY <3>1, <3>3, <4>2
      <4>4. p = result
        BY <3>4, <4>1, <4>3
      <4> QED BY <3>6, <4>1, <4>4
    <3> QED BY <2>1, <3>4, <3>7
  <2>9. CASE UNCHANGED vars
    BY <2>9
  <2> QED BY <1>1, <2>3, <2>4, <2>5, <2>6, <2>7, <2>8, <2>9 DEF Next
<1> QED BY <1>1, InvAlways, PTL DEF Spec, LeaksOnlyWhenFull

\* The references are what JniRefs says of them also beside the other parts.
THEOREM RefsInWhole == MCSpec => Spec
<1>1. MCInit => Init
  BY DEF MCInit
<1>2. [MCNext]_allVars => [Next]_vars
  BY DEF MCNext, allVars, vars
<1> QED BY <1>1, <1>2, PTL DEF MCSpec, Spec

-----------------------------------------------------------------------------
(* Thread-local values (EngineThreads).                                    *)

Keys == Threading!Keys
NoArray == Threading!NoArray
NoWalk == Threading!NoWalk
Holds(a, k) == a # NoArray /\ a[k] # 0
HasValue(t, k) == Holds(arr[t], k) \/ Holds(walk[t].arr, k)

FullArrays == [Keys -> 0 .. MaxGen]
Arrays == FullArrays \cup {NoArray}
Walks == [arr : Arrays, k : 0 .. FakeKeys + 1, pass : 0 .. Passes, again : BOOLEAN,
          turn : 0 .. Iterations, rearms : 0 .. Rearms]
ThreadStates ==
  /\ thread \in [Users -> {"none", "running", "ending", "gone"}]
  /\ mains \subseteq Users /\ taken \in BOOLEAN /\ finished \in BOOLEAN
  /\ key \in [Keys -> [used : BOOLEAN, dtor : BOOLEAN, gen : 0 .. MaxGen]]
  /\ arr \in [Users -> Arrays] /\ walk \in [Users -> Walks]
  /\ owed \subseteq Users \X Keys

\* Only the first thread made is android_main.
MainSound == mains = {} \/ (taken /\ \E t \in Users : mains = {t})

KeySound(k) == /\ key[k].dtor => key[k].used
               /\ key[k].used => key[k].gen > 0

\* A value is of a key in use and of its last creation; it is owed a call if the
\* key has a destructor; and it is in the array or in the one that is walked.
ValueSound(t, k) ==
  /\ HasValue(t, k) => key[k].used
  /\ Holds(arr[t], k) => arr[t][k] = key[k].gen
  /\ <<t, k>> \in owed <=> key[k].dtor /\ HasValue(t, k)
  /\ ~ (Holds(arr[t], k) /\ Holds(walk[t].arr, k))

\* What the walk has passed needs no destructor any more; and each turn of libnx
\* but the first, and the array that asks for one more, took a value set again.
WalkSound(t) ==
  /\ thread[t] # "ending" => walk[t] = NoWalk
  /\ thread[t] \in {"none", "gone"} => arr[t] = NoArray
  /\ thread[t] = "ending" =>
       /\ walk[t].arr # NoArray /\ walk[t].k > 0 /\ walk[t].turn > 0
       /\ walk[t].turn <= walk[t].rearms + (IF arr[t] = NoArray THEN 1 ELSE 0)
  /\ \A k \in Keys :
       (walk[t].pass > 0 \/ k < walk[t].k) /\ Holds(walk[t].arr, k) => ~ key[k].dtor

ThreadInv ==
  /\ ThreadStates /\ MainSound
  /\ \A k \in Keys : KeySound(k)
  /\ \A t \in Users : WalkSound(t) /\ \A k \in Keys : ValueSound(t, k)

\* Sizes, and that no array of values is the missing one.
LEMMA ThreadSizes ==
  /\ FakeKeys \in Nat \ {0} /\ Passes \in Nat \ {0} /\ Iterations \in Nat \ {0}
  /\ MaxGen \in Nat /\ Rearms \in Nat /\ Rearms < Iterations
  /\ Keys = 1 .. FakeKeys
BY ThreadingAssumption DEF Threading!ThreadsAssumption, Keys, Threading!Keys

\* The arrays of values and the missing one.
LEMMA ArraysAreNotMissing == NoArray \notin FullArrays /\ Threading!Empty \in FullArrays
<1>1. 1 \in Keys /\ \A k \in Keys : k \in Nat \ {0}
  BY ThreadSizes
<1>2. ASSUME NoArray \in FullArrays PROVE FALSE
  <2>1. DOMAIN NoArray = Keys
    BY <1>2 DEF FullArrays
  <2>2. DOMAIN NoArray = {}
    BY DEF NoArray, Threading!NoArray
  <2> QED BY <1>1, <2>1, <2>2
<1>3. Threading!Empty \in FullArrays
  BY ThreadSizes DEF Threading!Empty, FullArrays, Keys
<1> QED BY <1>2, <1>3

\* A step of one thread leaves to the others what they have.
LEMMA OneThreadMoves ==
  ASSUME ThreadInv, NEW t \in Users, key' = key, ThreadStates', MainSound',
         \A u \in Users \ {t} : /\ thread'[u] = thread[u] /\ arr'[u] = arr[u]
                               /\ walk'[u] = walk[u]
                               /\ \A k \in Keys : <<u, k>> \in owed' <=> <<u, k>> \in owed,
         WalkSound(t)', \A k \in Keys : ValueSound(t, k)'
  PROVE  ThreadInv'
<1>1. \A k \in Keys : KeySound(k)'
  BY DEF ThreadInv, KeySound
<1>2. ASSUME NEW u \in Users \ {t} PROVE WalkSound(u)' /\ \A k \in Keys : ValueSound(u, k)'
  <2>1. /\ thread'[u] = thread[u] /\ arr'[u] = arr[u] /\ walk'[u] = walk[u]
        /\ \A k \in Keys : <<u, k>> \in owed' <=> <<u, k>> \in owed
        /\ WalkSound(u) /\ \A k \in Keys : ValueSound(u, k)
    BY <1>2 DEF ThreadInv
  <2>2. WalkSound(u)'
    BY <2>1 DEF WalkSound, Holds, NoArray, NoWalk, Keys
  <2>3. ASSUME NEW k \in Keys PROVE ValueSound(u, k)'
    BY <2>1 DEF ValueSound, HasValue, Holds, NoArray, Keys
  <2> QED BY <2>2, <2>3 DEF Keys
<1>3. \A u \in Users : WalkSound(u)' /\ \A k \in Keys : ValueSound(u, k)'
  BY <1>2
<1> QED BY <1>1, <1>3 DEF ThreadInv

\* imports.c, pthread_create: the flag is taken by the first, made or not.
LEMMA CreateStep ==
  ASSUME ThreadInv, NEW t \in Users, Threading!Create(t) PROVE ThreadInv'
<1>1. /\ thread[t] = "none" /\ taken' = TRUE
      /\ UNCHANGED <<finished, key, arr, walk, owed>>
      /\ \/ /\ thread' = [thread EXCEPT ![t] = "running"]
            /\ mains' = IF taken THEN mains ELSE mains \cup {t}
         \/ UNCHANGED <<thread, mains>>
  BY DEF Threading!Create, Threading!FirstTaken
<1>2. ThreadStates /\ MainSound /\ WalkSound(t) /\ \A k \in Keys : ValueSound(t, k)
  BY DEF ThreadInv
<1>3. /\ thread' \in [Users -> {"none", "running", "ending", "gone"}]
      /\ \A u \in Users \ {t} : thread'[u] = thread[u]
      /\ thread'[t] \in {"none", "running"}
  BY <1>1, <1>2 DEF ThreadStates
<1>4. mains' \subseteq Users /\ MainSound'
  BY <1>1, <1>2 DEF ThreadStates, MainSound
<1>5. ThreadStates'
  BY <1>1, <1>2, <1>3, <1>4 DEF ThreadStates, Keys
<1>6. WalkSound(t)'
  BY <1>1, <1>2, <1>3 DEF WalkSound, Holds, NoArray, NoWalk, Keys
<1>7. \A k \in Keys : ValueSound(t, k)'
  BY <1>1, <1>2 DEF ValueSound, HasValue, Holds, NoArray, Keys
<1> QED BY <1>1, <1>3, <1>4, <1>5, <1>6, <1>7, OneThreadMoves

\* imports.c, pthread_join.
LEMMA JoinStep ==
  ASSUME ThreadInv, NEW t \in Users, Threading!Join(t) PROVE ThreadInv'
<1>1. /\ thread[t] = "gone" /\ arr[t] = NoArray
      /\ thread' = [thread EXCEPT ![t] = "none"]
      /\ UNCHANGED <<taken, mains, finished, key, arr, walk, owed>>
  BY DEF Threading!Join, NoArray
<1>2. ThreadStates /\ MainSound /\ WalkSound(t) /\ \A k \in Keys : ValueSound(t, k)
  BY DEF ThreadInv
<1>3. /\ thread' \in [Users -> {"none", "running", "ending", "gone"}]
      /\ \A u \in Users \ {t} : thread'[u] = thread[u]
      /\ thread'[t] = "none"
  BY <1>1, <1>2 DEF ThreadStates
<1>4. ThreadStates' /\ MainSound'
  BY <1>1, <1>2, <1>3 DEF ThreadStates, MainSound, Keys
<1>5. WalkSound(t)'
  BY <1>1, <1>2, <1>3 DEF WalkSound, Holds, NoArray, NoWalk, Keys
<1>6. \A k \in Keys : ValueSound(t, k)'
  BY <1>1, <1>2 DEF ValueSound, HasValue, Holds, NoArray, Keys
<1> QED BY <1>1, <1>3, <1>4, <1>5, <1>6, OneThreadMoves

\* imports.c, pthread_key_create and _delete: a key is made or deleted while no
\* thread has a value of it.
LEMMA KeyStep ==
  ASSUME ThreadInv, NEW k \in Keys,
         key' \in [Keys -> [used : BOOLEAN, dtor : BOOLEAN, gen : 0 .. MaxGen]],
         \A j \in Keys \ {k} : key'[j] = key[j],
         UNCHANGED <<thread, taken, mains, finished, arr, walk, owed>>,
         \A t \in Users : ~ HasValue(t, k),
         key'[k].dtor => key'[k].used, key'[k].used => key'[k].gen > 0
  PROVE  ThreadInv'
<1>1. ThreadStates' /\ MainSound'
  BY DEF ThreadInv, ThreadStates, MainSound, Keys
<1>2. \A j \in Keys : KeySound(j)'
  BY DEF ThreadInv, KeySound
<1>3. ASSUME NEW t \in Users PROVE WalkSound(t)'
  <2>1. WalkSound(t) /\ ~ HasValue(t, k)
    BY DEF ThreadInv
  <2> QED BY <2>1 DEF WalkSound, HasValue, Holds, NoArray, NoWalk, Keys
<1>4. ASSUME NEW t \in Users, NEW j \in Keys PROVE ValueSound(t, j)'
  <2>1. ValueSound(t, j) /\ ~ HasValue(t, k)
    BY DEF ThreadInv
  <2> QED BY <2>1 DEF ValueSound, HasValue, Holds, NoArray, Keys
<1> QED BY <1>1, <1>2, <1>3, <1>4 DEF ThreadInv

\* imports.c, pthread_key_create takes an entry not in use.
LEMMA KeyCreateStep == ASSUME ThreadInv, Threading!KeyCreate PROVE ThreadInv'
<1>1. PICK k \in Keys, dtor \in BOOLEAN :
        /\ ~ key[k].used /\ key[k].gen < MaxGen
        /\ key' = [key EXCEPT ![k] = [used |-> TRUE, dtor |-> dtor, gen |-> @.gen + 1]]
        /\ UNCHANGED <<thread, taken, mains, finished, arr, walk, owed>>
  BY DEF Threading!KeyCreate, Threading!Creatable, Keys
<1> DEFINE fresh == [used |-> TRUE, dtor |-> dtor, gen |-> key[k].gen + 1]
<1>2. key[k].gen \in 0 .. MaxGen /\ MaxGen \in Nat
  BY ThreadSizes DEF ThreadInv, ThreadStates
<1>3. key[k].gen + 1 \in 0 .. MaxGen /\ key[k].gen + 1 > 0
  <2>1. key[k].gen < MaxGen
    BY <1>1
  <2> QED BY ONLY <1>2, <2>1
<1>4. key \in [Keys -> [used : BOOLEAN, dtor : BOOLEAN, gen : 0 .. MaxGen]]
  BY DEF ThreadInv, ThreadStates
<1>5. fresh \in [used : BOOLEAN, dtor : BOOLEAN, gen : 0 .. MaxGen]
      /\ key' = [key EXCEPT ![k] = fresh]
  BY <1>1, <1>3
<1>6. fresh.used /\ fresh.gen > 0
  BY <1>3
<1> HIDE DEF fresh
<1>7. /\ key' \in [Keys -> [used : BOOLEAN, dtor : BOOLEAN, gen : 0 .. MaxGen]]
      /\ key'[k] = fresh /\ \A j \in Keys \ {k} : key'[j] = key[j]
  BY <1>4, <1>5
<1>8. \A t \in Users : ~ HasValue(t, k)
  BY <1>1 DEF ThreadInv, ValueSound
<1> QED BY <1>1, <1>6, <1>7, <1>8, KeyStep

\* imports.c, pthread_key_delete, of a key no thread has a value of.
LEMMA KeyDeleteStep == ASSUME ThreadInv, Threading!KeyDelete PROVE ThreadInv'
<1>1. PICK k \in Keys :
        /\ Threading!CellsOf(k) = {}
        /\ key' = [key EXCEPT ![k].used = FALSE, ![k].dtor = FALSE]
        /\ UNCHANGED <<thread, taken, mains, finished, arr, walk, owed>>
  BY DEF Threading!KeyDelete, Keys
<1>2. key \in [Keys -> [used : BOOLEAN, dtor : BOOLEAN, gen : 0 .. MaxGen]]
  BY DEF ThreadInv, ThreadStates
<1>3. /\ key' \in [Keys -> [used : BOOLEAN, dtor : BOOLEAN, gen : 0 .. MaxGen]]
      /\ \A j \in Keys \ {k} : key'[j] = key[j]
      /\ ~ key'[k].used /\ ~ key'[k].dtor
  BY <1>1, <1>2
<1>4. \A t \in Users : ~ HasValue(t, k)
  BY <1>1 DEF Threading!CellsOf, HasValue, Holds, NoArray
<1> QED BY <1>1, <1>3, <1>4, KeyStep

\* An array with one cell set.
LEMMA CellSet ==
  ASSUME NEW t \in Users, arr[t] \in Arrays, NEW k \in Keys, NEW v \in 0 .. MaxGen
  PROVE  LET a == [Threading!ArrayOf(t) EXCEPT ![k] = v]
         IN /\ a \in FullArrays /\ a # NoArray /\ a \in Arrays /\ a[k] = v
            /\ \A j \in Keys \ {k} : IF arr[t] = NoArray THEN a[j] = 0 ELSE a[j] = arr[t][j]
<1>1. Threading!ArrayOf(t) \in FullArrays
  BY ArraysAreNotMissing DEF Threading!ArrayOf, Arrays, NoArray
<1>2. \A j \in Keys : Threading!ArrayOf(t)[j] = IF arr[t] = NoArray THEN 0 ELSE arr[t][j]
  BY DEF Threading!ArrayOf, Threading!Empty, NoArray, Keys
<1> DEFINE b == Threading!ArrayOf(t)
<1> DEFINE a == [b EXCEPT ![k] = v]
<1> HIDE DEF b
<1>3. a \in FullArrays /\ a[k] = v /\ \A j \in Keys \ {k} : a[j] = b[j]
  BY <1>1 DEF FullArrays, b
<1>4. a # NoArray /\ a \in Arrays
  BY <1>3, ArraysAreNotMissing DEF Arrays
<1> QED BY <1>2, <1>3, <1>4 DEF b

\* imports.c, pthread_setspecific.
LEMMA SetSpecificStep ==
  ASSUME ThreadInv, NEW t \in Users, Threading!SetSpecific(t) PROVE ThreadInv'
<1>1. PICK k \in Keys : \E v \in {0, key[k].gen} :
        /\ key[k].used /\ thread[t] = "running" /\ Threading!Put(t, k, v)
        /\ UNCHANGED <<thread, taken, mains, finished, key, walk>>
  BY DEF Threading!SetSpecific, Keys
<1>2. PICK v \in {0, key[k].gen} :
        /\ key[k].used /\ thread[t] = "running"
        /\ arr' = [arr EXCEPT ![t] = [Threading!ArrayOf(t) EXCEPT ![k] = v]]
        /\ owed' = IF v # 0 /\ key[k].dtor THEN owed \cup {<<t, k>>} ELSE owed \ {<<t, k>>}
        /\ UNCHANGED <<thread, taken, mains, finished, key, walk>>
  BY <1>1 DEF Threading!Put
<1>3. ThreadStates /\ MainSound /\ WalkSound(t) /\ \A j \in Keys : ValueSound(t, j)
  BY DEF ThreadInv
<1>4. v \in 0 .. MaxGen /\ arr[t] \in Arrays
  BY <1>3, ThreadSizes DEF ThreadStates
<1> DEFINE a == [Threading!ArrayOf(t) EXCEPT ![k] = v]
<1>5. /\ a \in FullArrays /\ a # NoArray /\ a \in Arrays /\ a[k] = v
      /\ \A j \in Keys \ {k} : IF arr[t] = NoArray THEN a[j] = 0 ELSE a[j] = arr[t][j]
  BY <1>4, CellSet
<1>6. arr' = [arr EXCEPT ![t] = a]
  BY <1>2
<1> HIDE DEF a
<1>7. arr' \in [Users -> Arrays] /\ arr'[t] = a /\ \A u \in Users \ {t} : arr'[u] = arr[u]
  BY <1>3, <1>5, <1>6 DEF ThreadStates
<1>8. /\ owed' \subseteq Users \X Keys
      /\ \A u \in Users \ {t} : \A j \in Keys : <<u, j>> \in owed' <=> <<u, j>> \in owed
      /\ \A j \in Keys \ {k} : <<t, j>> \in owed' <=> <<t, j>> \in owed
      /\ <<t, k>> \in owed' <=> v # 0 /\ key[k].dtor
  BY <1>2, <1>3 DEF ThreadStates
<1>9. ThreadStates' /\ MainSound'
  BY <1>2, <1>3, <1>7, <1>8 DEF ThreadStates, MainSound, Keys
<1>10. walk[t] = NoWalk /\ NoWalk.arr = NoArray
  BY <1>2, <1>3 DEF WalkSound, NoWalk, Threading!NoWalk, NoArray
<1>11. WalkSound(t)'
  BY <1>2, <1>10, <1>3 DEF WalkSound, Holds, NoArray, NoWalk, Keys
<1>12. ASSUME NEW j \in Keys PROVE ValueSound(t, j)'
  <2>1. ValueSound(t, j)
    BY <1>3
  <2>2. CASE j = k
    BY <1>2, <1>5, <1>7, <1>8, <1>10, <2>1, <2>2 DEF ValueSound, HasValue, Holds, NoArray
  <2>3. CASE j # k
    <3>1. /\ Holds(arr'[t], j) <=> Holds(arr[t], j)
          /\ Holds(arr[t], j) => arr'[t][j] = arr[t][j]
      BY <1>5, <1>7, <2>3 DEF Holds
    <3>2. /\ <<t, j>> \in owed' <=> <<t, j>> \in owed
          /\ key' = key /\ walk' = walk
      BY <1>2, <1>8, <2>3
    <3> QED BY <2>1, <3>1, <3>2 DEF ValueSound, HasValue, Holds, NoArray
  <2> QED BY <2>2, <2>3
<1> QED BY <1>2, <1>7, <1>8, <1>9, <1>11, <1>12, OneThreadMoves

\* libnx takes the array out of the real key for its destructor.
LEMMA WalkBegun ==
  ASSUME ThreadStates, NEW t \in Users, arr[t] # NoArray,
         NEW turn \in 1 .. Iterations, NEW rearms \in 0 .. Rearms,
         Threading!BeginWalk(t, turn, rearms)
  PROVE  /\ walk' \in [Users -> Walks] /\ arr' \in [Users -> Arrays]
         /\ arr'[t] = NoArray
         /\ walk'[t] = [arr |-> arr[t], k |-> 1, pass |-> 0, again |-> FALSE,
                        turn |-> turn, rearms |-> rearms]
         /\ \A u \in Users \ {t} : walk'[u] = walk[u] /\ arr'[u] = arr[u]
<1> DEFINE w == [arr |-> arr[t], k |-> 1, pass |-> 0, again |-> FALSE,
                 turn |-> turn, rearms |-> rearms]
<1>1. walk' = [walk EXCEPT ![t] = w] /\ arr' = [arr EXCEPT ![t] = NoArray]
  BY DEF Threading!BeginWalk, NoArray
<1>2. w \in Walks
  BY ThreadSizes DEF Walks, ThreadStates
<1>3. NoArray \in Arrays
  BY DEF Arrays
<1> HIDE DEF w
<1> QED BY <1>1, <1>2, <1>3 DEF ThreadStates, w

\* imports.c, thread_trampoline returns.
LEMMA EndStep ==
  ASSUME ThreadInv, NEW t \in Users, Threading!End(t) PROVE ThreadInv'
<1>1. /\ thread[t] = "running" /\ finished' \in BOOLEAN
      /\ UNCHANGED <<taken, mains, key, owed>>
  BY DEF Threading!End, ThreadInv, ThreadStates
<1>2. ThreadStates /\ MainSound /\ WalkSound(t) /\ \A j \in Keys : ValueSound(t, j)
  BY DEF ThreadInv
<1>3. walk[t] = NoWalk /\ NoWalk.arr = NoArray
  BY <1>1, <1>2 DEF WalkSound, NoWalk, Threading!NoWalk, NoArray
<1>4. CASE arr[t] = NoArray
  <2>1. thread' = [thread EXCEPT ![t] = "gone"] /\ UNCHANGED <<arr, walk>>
    BY <1>4 DEF Threading!End, NoArray
  <2>2. /\ thread' \in [Users -> {"none", "running", "ending", "gone"}]
        /\ thread'[t] = "gone" /\ \A u \in Users \ {t} : thread'[u] = thread[u]
    BY <1>2, <2>1 DEF ThreadStates
  <2>3. ThreadStates' /\ MainSound'
    BY <1>1, <1>2, <2>1, <2>2 DEF ThreadStates, MainSound, Keys
  <2>4. WalkSound(t)'
    BY <1>1, <1>2, <1>3, <1>4, <2>1, <2>2 DEF WalkSound, Holds, NoArray, NoWalk, Keys
  <2>5. \A k \in Keys : ValueSound(t, k)'
    BY <1>1, <1>2, <2>1 DEF ValueSound, HasValue, Holds, NoArray, Keys
  <2> QED BY <1>1, <2>1, <2>2, <2>3, <2>4, <2>5, OneThreadMoves
<1>5. CASE arr[t] # NoArray
  <2>1. thread' = [thread EXCEPT ![t] = "ending"] /\ Threading!BeginWalk(t, 1, 0)
    BY <1>5 DEF Threading!End, NoArray
  <2>2. /\ thread' \in [Users -> {"none", "running", "ending", "gone"}]
        /\ thread'[t] = "ending" /\ \A u \in Users \ {t} : thread'[u] = thread[u]
    BY <1>2, <2>1 DEF ThreadStates
  <2>3. 1 \in 1 .. Iterations /\ 0 \in 0 .. Rearms
    BY ThreadSizes
  <2>4. /\ walk' \in [Users -> Walks] /\ arr' \in [Users -> Arrays] /\ arr'[t] = NoArray
        /\ walk'[t] = [arr |-> arr[t], k |-> 1, pass |-> 0, again |-> FALSE,
                       turn |-> 1, rearms |-> 0]
        /\ \A u \in Users \ {t} : walk'[u] = walk[u] /\ arr'[u] = arr[u]
    BY <1>2, <1>5, <2>1, <2>3, WalkBegun
  <2>5. ThreadStates' /\ MainSound'
    BY <1>1, <1>2, <2>2, <2>4 DEF ThreadStates, MainSound, Keys
  <2>6. WalkSound(t)'
    <3>1. \A k \in Keys : ~ (k < 1)
      BY ThreadSizes
    <3> QED BY <1>5, <2>2, <2>4, <3>1 DEF WalkSound, Holds, NoArray, NoWalk, Keys
  <2>7. \A k \in Keys : ValueSound(t, k)'
    BY <1>1, <1>2, <1>3, <2>4 DEF ValueSound, HasValue, Holds, NoArray, Keys
  <2> QED BY <1>1, <2>2, <2>4, <2>5, <2>6, <2>7, OneThreadMoves
<1> QED BY <1>4, <1>5

\* An array with one cell cleared.
LEMMA CellCleared ==
  ASSUME NEW a \in FullArrays, NEW c \in Keys
  PROVE  LET b == [a EXCEPT ![c] = 0]
         IN b \in FullArrays /\ b[c] = 0 /\ \A j \in Keys \ {c} : b[j] = a[j]
BY ThreadSizes DEF FullArrays

\* imports.c, master_key_dtor: a cell without a value, or of a key without a
\* destructor.
LEMMA SkipCellStep ==
  ASSUME ThreadInv, NEW t \in Users, Threading!SkipCell(t) PROVE ThreadInv'
<1>1. /\ walk[t].k \in Keys /\ thread[t] = "ending"
      /\ ~ Threading!Called(t) /\ walk' = [walk EXCEPT ![t].k = @ + 1]
      /\ UNCHANGED <<thread, taken, mains, finished, key, arr, owed>>
  BY DEF Threading!SkipCell, Threading!Scanning, Keys
<1>2. ThreadStates /\ MainSound /\ WalkSound(t) /\ \A j \in Keys : ValueSound(t, j) /\ KeySound(j)
  BY DEF ThreadInv
<1>3. walk[t] \in Walks /\ walk[t].k + 1 \in 1 .. FakeKeys + 1
  BY <1>1, <1>2, ThreadSizes DEF ThreadStates
<1>4. /\ walk' \in [Users -> Walks] /\ \A u \in Users \ {t} : walk'[u] = walk[u]
      /\ walk'[t] = [walk[t] EXCEPT !.k = @ + 1]
  <2>1. [walk[t] EXCEPT !.k = @ + 1] \in Walks
    BY <1>3 DEF Walks
  <2> QED BY <1>1, <1>2, <2>1 DEF ThreadStates
<1>5. /\ walk'[t].k = walk[t].k + 1 /\ walk'[t].arr = walk[t].arr
      /\ walk'[t].pass = walk[t].pass /\ walk'[t].turn = walk[t].turn
      /\ walk'[t].rearms = walk[t].rearms
  BY <1>3, <1>4 DEF Walks
<1>6. ThreadStates' /\ MainSound'
  BY <1>1, <1>2, <1>4 DEF ThreadStates, MainSound, Keys
<1>7. WalkSound(t)'
  <2>1. Holds(walk[t].arr, walk[t].k) => ~ key[walk[t].k].dtor
    BY <1>1, <1>2 DEF Threading!Called, Holds, KeySound
  <2>2. \A j \in Keys : j < walk[t].k + 1 => j < walk[t].k \/ j = walk[t].k
    BY <1>1, ThreadSizes
  <2>3. \A j \in Keys : (walk'[t].pass > 0 \/ j < walk'[t].k) /\ Holds(walk'[t].arr, j)
                        => ~ key[j].dtor
    BY <1>2, <1>5, <2>1, <2>2 DEF WalkSound
  <2>4. walk'[t].k > 0
    BY <1>3, <1>5
  <2> QED BY <1>1, <1>2, <1>5, <2>3, <2>4 DEF WalkSound, Holds, NoArray, NoWalk, Keys
<1>8. \A j \in Keys : ValueSound(t, j)'
  BY <1>1, <1>2, <1>5 DEF ValueSound, HasValue, Holds, NoArray, Keys
<1> QED BY <1>1, <1>4, <1>6, <1>7, <1>8, OneThreadMoves

\* imports.c, master_key_dtor calls the destructor of a cell, which may set a
\* value again.
LEMMA CallDtorStep ==
  ASSUME ThreadInv, NEW t \in Users, Threading!CallDtor(t) PROVE ThreadInv'
<1> DEFINE c == walk[t].k
           left == [walk[t].arr EXCEPT ![c] = 0]
<1>1. /\ c \in Keys /\ thread[t] = "ending"
      /\ key[c].used /\ key[c].dtor /\ walk[t].arr[c] # 0
      /\ UNCHANGED <<thread, taken, mains, finished, key>>
  BY DEF Threading!CallDtor, Threading!Scanning, Threading!Called, Keys
<1>2. ThreadStates /\ MainSound /\ WalkSound(t) /\ \A j \in Keys : ValueSound(t, j) /\ KeySound(j)
  BY DEF ThreadInv
<1>3. /\ walk[t] \in Walks /\ c + 1 \in 1 .. FakeKeys + 1 /\ arr[t] \in Arrays
      /\ walk[t].arr \in FullArrays /\ walk[t].arr # NoArray
  <2>1. walk[t] \in Walks /\ arr[t] \in Arrays
    BY <1>2 DEF ThreadStates
  <2>2. walk[t].arr \in Arrays /\ walk[t].arr # NoArray
    BY <1>1, <1>2, <2>1 DEF WalkSound, Walks
  <2>3. c + 1 \in 1 .. FakeKeys + 1
    BY <1>1, ThreadSizes
  <2> QED BY <2>1, <2>2, <2>3 DEF Arrays
<1>4. /\ left \in FullArrays /\ left \in Arrays /\ left # NoArray /\ left[c] = 0
      /\ \A j \in Keys \ {c} : left[j] = walk[t].arr[j]
  <2>1. left \in FullArrays /\ left[c] = 0 /\ \A j \in Keys \ {c} : left[j] = walk[t].arr[j]
    BY <1>1, <1>3, CellCleared
  <2> QED BY <2>1, ArraysAreNotMissing DEF Arrays
<1>5. ~ Holds(arr[t], c) /\ <<t, c>> \in owed
  BY <1>1, <1>2, <1>3 DEF ValueSound, HasValue, Holds
<1> HIDE DEF left
<1>6. ASSUME NEW r \in {0, 1}, walk[t].rearms + r <= Rearms,
             walk' \in [Users -> Walks], \A u \in Users \ {t} : walk'[u] = walk[u],
             walk'[t].arr = left, walk'[t].k = c + 1, walk'[t].pass = walk[t].pass,
             walk'[t].turn = walk[t].turn, walk'[t].rearms = walk[t].rearms + r,
             arr' \in [Users -> Arrays], \A u \in Users \ {t} : arr'[u] = arr[u],
             r = 0 => arr' = arr,
             owed' \subseteq Users \X Keys,
             \A u \in Users \ {t} : \A j \in Keys : <<u, j>> \in owed' <=> <<u, j>> \in owed,
             \A j \in Keys : ValueSound(t, j)'
      PROVE  ThreadInv'
  <2>1. ThreadStates' /\ MainSound'
    BY <1>1, <1>2, <1>6 DEF ThreadStates, MainSound, Keys
  <2>2. walk[t].turn \in Nat /\ walk[t].rearms \in Nat /\ c \in Nat
    BY <1>1, <1>3, ThreadSizes DEF Walks
  <2>3. walk'[t].turn <= walk'[t].rearms + (IF arr'[t] = NoArray THEN 1 ELSE 0)
    <3>1. walk[t].turn <= walk[t].rearms + (IF arr[t] = NoArray THEN 1 ELSE 0)
      BY <1>1, <1>2 DEF WalkSound
    <3>2. r = 0 \/ r = 1
      OBVIOUS
    <3>3. CASE r = 0
      BY <1>6, <2>2, <3>1, <3>3
    <3>4. CASE r = 1
      BY <1>6, <2>2, <3>1, <3>4
    <3> QED BY <3>2, <3>3, <3>4
  <2>4. ASSUME NEW j \in Keys, walk'[t].pass > 0 \/ j < walk'[t].k, Holds(walk'[t].arr, j)
        PROVE  ~ key'[j].dtor
    <3>1. j # c /\ Holds(walk[t].arr, j)
      BY <1>3, <1>4, <1>6, <2>4 DEF Holds
    <3>2. walk[t].pass > 0 \/ j < c
      <4>1. j \in Nat
        BY ThreadSizes
      <4> QED BY <1>6, <2>2, <2>4, <3>1, <4>1
    <3> QED BY <1>1, <1>2, <3>1, <3>2 DEF WalkSound
  <2>5. walk'[t].k > 0 /\ walk'[t].turn > 0 /\ walk'[t].arr # NoArray
    BY <1>1, <1>2, <1>4, <1>6, <2>2 DEF WalkSound
  <2>6. WalkSound(t)'
    BY <1>1, <2>3, <2>4, <2>5 DEF WalkSound, Holds, NoArray, NoWalk, Keys
  <2> QED BY <1>1, <1>6, <2>1, <2>6, OneThreadMoves
<1>7. ASSUME NEW r \in {0, 1}, walk[t].rearms + r <= Rearms,
             walk' = Threading!PastCell(t, walk[t].rearms + r)
      PROVE  /\ walk' \in [Users -> Walks] /\ \A u \in Users \ {t} : walk'[u] = walk[u]
             /\ walk'[t].arr = left /\ walk'[t].k = c + 1 /\ walk'[t].pass = walk[t].pass
             /\ walk'[t].turn = walk[t].turn /\ walk'[t].rearms = walk[t].rearms + r
  <2>1. walk[t].rearms + r \in 0 .. Rearms /\ c + 1 \in 0 .. FakeKeys + 1
    <3>1. walk[t].rearms \in Nat /\ FakeKeys \in Nat
      BY <1>3, ThreadSizes DEF Walks
    <3> QED BY <1>3, <1>7, <3>1, ThreadSizes
  <2> DEFINE w == [arr |-> left, k |-> c + 1, pass |-> walk[t].pass, again |-> TRUE,
                   turn |-> walk[t].turn, rearms |-> walk[t].rearms + r]
  <2>2. w \in Walks
    BY <1>3, <1>4, <2>1 DEF Walks
  <2>3. walk' = [walk EXCEPT ![t] = w]
    BY <1>7 DEF Threading!PastCell, Threading!Cleared, left
  <2>4. /\ w.arr = left /\ w.k = c + 1 /\ w.pass = walk[t].pass
        /\ w.turn = walk[t].turn /\ w.rearms = walk[t].rearms + r
    OBVIOUS
  <2> HIDE DEF w
  <2> QED BY <1>2, <2>2, <2>3, <2>4 DEF ThreadStates
<1>8. walk[t].rearms \in Nat /\ walk[t].rearms <= Rearms /\ Rearms \in Nat
  BY <1>3, ThreadSizes DEF Walks
<1>9. CASE /\ walk' = Threading!PastCell(t, walk[t].rearms)
           /\ owed' = owed \ {<<t, c>>} /\ UNCHANGED arr
  <2>1. walk[t].rearms + 0 <= Rearms /\ walk' = Threading!PastCell(t, walk[t].rearms + 0)
    BY <1>8, <1>9
  <2>2. /\ walk' \in [Users -> Walks] /\ \A u \in Users \ {t} : walk'[u] = walk[u]
        /\ walk'[t].arr = left /\ walk'[t].k = c + 1 /\ walk'[t].pass = walk[t].pass
        /\ walk'[t].turn = walk[t].turn /\ walk'[t].rearms = walk[t].rearms + 0
    BY <1>7, <2>1
  <2>3. /\ owed' \subseteq Users \X Keys
        /\ \A u \in Users \ {t} : \A j \in Keys : <<u, j>> \in owed' <=> <<u, j>> \in owed
        /\ \A j \in Keys \ {c} : <<t, j>> \in owed' <=> <<t, j>> \in owed
        /\ <<t, c>> \notin owed'
    BY <1>2, <1>9 DEF ThreadStates
  <2>4. ASSUME NEW j \in Keys PROVE ValueSound(t, j)'
    <3>1. ValueSound(t, j) /\ arr' = arr /\ key' = key
      BY <1>1, <1>2, <1>9
    <3>2. CASE j = c
      BY <1>4, <1>5, <2>2, <2>3, <3>1, <3>2 DEF ValueSound, HasValue, Holds, NoArray
    <3>3. CASE j # c
      <4>1. Holds(left, j) <=> Holds(walk[t].arr, j)
        BY <1>3, <1>4, <3>3 DEF Holds
      <4> QED BY <2>2, <2>3, <3>1, <3>3, <4>1 DEF ValueSound, HasValue, Holds, NoArray
    <3> QED BY <3>2, <3>3
  <2>5. arr' \in [Users -> Arrays] /\ \A u \in Users \ {t} : arr'[u] = arr[u]
    BY <1>2, <1>9 DEF ThreadStates
  <2> QED BY <1>6, <1>9, <2>1, <2>2, <2>3, <2>4, <2>5
<1>10. ASSUME NEW k \in Keys, key[k].used, key[k].dtor, walk[t].rearms < Rearms,
              k # c => walk[t].arr[k] = 0,
              walk' = Threading!PastCell(t, walk[t].rearms + 1),
              arr' = [arr EXCEPT ![t] = [Threading!ArrayOf(t) EXCEPT ![k] = key[k].gen]],
              IF k = c THEN owed' = owed ELSE owed' = (owed \ {<<t, c>>}) \cup {<<t, k>>}
       PROVE  ThreadInv'
  <2>1. walk[t].rearms + 1 <= Rearms
    BY <1>8, <1>10
  <2>2. /\ walk' \in [Users -> Walks] /\ \A u \in Users \ {t} : walk'[u] = walk[u]
        /\ walk'[t].arr = left /\ walk'[t].k = c + 1 /\ walk'[t].pass = walk[t].pass
        /\ walk'[t].turn = walk[t].turn /\ walk'[t].rearms = walk[t].rearms + 1
    BY <1>7, <1>10, <2>1
  <2>3. key[k].gen \in 0 .. MaxGen /\ key[k].gen > 0
    BY <1>2, <1>10 DEF ThreadStates, KeySound
  <2>4. key[k].gen # 0
    BY <2>3, ThreadSizes
  <2> DEFINE a == [Threading!ArrayOf(t) EXCEPT ![k] = key[k].gen]
  <2>5. /\ a \in FullArrays /\ a # NoArray /\ a \in Arrays /\ a[k] = key[k].gen
        /\ \A j \in Keys \ {k} : IF arr[t] = NoArray THEN a[j] = 0 ELSE a[j] = arr[t][j]
    BY <1>3, <2>3, CellSet
  <2>6. arr' = [arr EXCEPT ![t] = a]
    BY <1>10
  <2> HIDE DEF a
  <2>7. arr' \in [Users -> Arrays] /\ arr'[t] = a /\ \A u \in Users \ {t} : arr'[u] = arr[u]
    BY <1>2, <2>5, <2>6 DEF ThreadStates
  <2>8. /\ owed' \subseteq Users \X Keys
        /\ \A u \in Users \ {t} : \A j \in Keys : <<u, j>> \in owed' <=> <<u, j>> \in owed
        /\ \A j \in Keys \ {c, k} : <<t, j>> \in owed' <=> <<t, j>> \in owed
        /\ <<t, k>> \in owed'
        /\ k # c => <<t, c>> \notin owed'
    BY <1>2, <1>5, <1>10 DEF ThreadStates
  <2>9. ASSUME NEW j \in Keys PROVE ValueSound(t, j)'
    <3>1. ValueSound(t, j) /\ key' = key
      BY <1>1, <1>2
    <3>2. CASE j = k
      <4>1. ~ Holds(left, k)
        BY <1>4, <1>10 DEF Holds
      <4>2. Holds(a, k)
        BY <2>4, <2>5 DEF Holds
      <4> QED BY <1>10, <2>2, <2>5, <2>7, <2>8, <3>1, <3>2, <4>1, <4>2
              DEF ValueSound, HasValue, Holds, NoArray
    <3>3. CASE j = c /\ j # k
      <4>1. ~ Holds(left, c) /\ ~ Holds(a, c)
        BY <1>4, <1>5, <2>5, <3>3 DEF Holds
      <4> QED BY <2>2, <2>7, <2>8, <3>1, <3>3, <4>1 DEF ValueSound, HasValue, Holds, NoArray
    <3>4. CASE j # c /\ j # k
      <4>1. /\ Holds(left, j) <=> Holds(walk[t].arr, j)
            /\ Holds(a, j) <=> Holds(arr[t], j)
            /\ Holds(arr[t], j) => a[j] = arr[t][j]
        BY <1>3, <1>4, <2>5, <3>4 DEF Holds
      <4> QED BY <2>2, <2>7, <2>8, <3>1, <3>4, <4>1 DEF ValueSound, HasValue, Holds, NoArray
    <3> QED BY <3>2, <3>3, <3>4
  <2> QED BY <1>6, <2>1, <2>2, <2>7, <2>8, <2>9
<1>11. \/ /\ walk' = Threading!PastCell(t, walk[t].rearms)
          /\ owed' = owed \ {<<t, c>>} /\ UNCHANGED arr
       \/ \E k \in Keys :
            /\ key[k].used /\ key[k].dtor /\ walk[t].rearms < Rearms
            /\ k # c => walk[t].arr[k] = 0
            /\ walk' = Threading!PastCell(t, walk[t].rearms + 1)
            /\ arr' = [arr EXCEPT ![t] = [Threading!ArrayOf(t) EXCEPT ![k] = key[k].gen]]
            /\ IF k = c THEN owed' = owed ELSE owed' = (owed \ {<<t, c>>}) \cup {<<t, k>>}
  BY DEF Threading!CallDtor, Keys
<1> QED BY <1>9, <1>10, <1>11

\* imports.c, master_key_dtor scans the array again, or returns and is called by
\* libnx for the values set meanwhile; the last time there are none.
LEMMA EndPassStep ==
  ASSUME ThreadInv, NEW t \in Users, Threading!EndPass(t) PROVE ThreadInv'
<1>1. /\ thread[t] = "ending" /\ walk[t].k = FakeKeys + 1
      /\ UNCHANGED <<taken, mains, finished, key, owed>>
  BY DEF Threading!EndPass
<1>2. ThreadStates /\ MainSound /\ WalkSound(t) /\ \A j \in Keys : ValueSound(t, j)
  BY DEF ThreadInv
<1>3. /\ walk[t] \in Walks /\ arr[t] \in Arrays
      /\ walk[t].pass \in Nat /\ walk[t].turn \in 1 .. Iterations /\ walk[t].rearms \in 0 .. Rearms
  BY <1>1, <1>2, ThreadSizes DEF ThreadStates, Walks, WalkSound
<1>4. \A j \in Keys : Holds(walk[t].arr, j) => ~ key[j].dtor
  BY <1>1, <1>2, ThreadSizes DEF WalkSound
<1>5. CASE /\ walk[t].again /\ walk[t].pass + 1 < Passes
           /\ walk' = [walk EXCEPT ![t].k = 1, ![t].again = FALSE, ![t].pass = @ + 1]
           /\ UNCHANGED <<thread, arr>>
  <2>1. walk[t].pass + 1 \in 0 .. Passes /\ 1 \in 0 .. FakeKeys + 1 /\ walk[t].pass + 1 > 0
    <3>1. PICK n \in Nat : n = walk[t].pass
      BY <1>3
    <3>2. n + 1 < Passes
      BY <1>5, <3>1
    <3>3. n + 1 \in 0 .. Passes /\ n + 1 > 0
      BY <3>2, ThreadSizes
    <3>4. 1 \in 0 .. FakeKeys + 1
      BY ThreadSizes
    <3> QED BY <3>1, <3>3, <3>4
  <2>2. /\ walk' \in [Users -> Walks] /\ \A u \in Users \ {t} : walk'[u] = walk[u]
        /\ walk'[t].arr = walk[t].arr /\ walk'[t].k = 1 /\ walk'[t].pass = walk[t].pass + 1
        /\ walk'[t].turn = walk[t].turn /\ walk'[t].rearms = walk[t].rearms
    BY <1>2, <1>3, <1>5, <2>1 DEF ThreadStates, Walks
  <2>3. ThreadStates' /\ MainSound'
    BY <1>1, <1>2, <1>5, <2>2 DEF ThreadStates, MainSound, Keys
  <2>4. WalkSound(t)'
    BY <1>1, <1>2, <1>4, <1>5, <2>2 DEF WalkSound, Holds, NoArray, NoWalk, Keys
  <2>5. \A j \in Keys : ValueSound(t, j)'
    BY <1>1, <1>2, <1>5, <2>2 DEF ValueSound, HasValue, Holds, NoArray, Keys
  <2> QED BY <1>1, <1>5, <2>2, <2>3, <2>4, <2>5, OneThreadMoves
<1>6. CASE /\ arr[t] # NoArray /\ walk[t].turn < Iterations
           /\ Threading!BeginWalk(t, walk[t].turn + 1, walk[t].rearms) /\ UNCHANGED thread
  <2>1. walk[t].turn + 1 \in 1 .. Iterations /\ walk[t].turn + 1 > 0 /\ walk[t].turn \in Nat
    BY <1>3, <1>6, ThreadSizes
  <2>2. /\ walk' \in [Users -> Walks] /\ arr' \in [Users -> Arrays] /\ arr'[t] = NoArray
        /\ walk'[t] = [arr |-> arr[t], k |-> 1, pass |-> 0, again |-> FALSE,
                       turn |-> walk[t].turn + 1, rearms |-> walk[t].rearms]
        /\ \A u \in Users \ {t} : walk'[u] = walk[u] /\ arr'[u] = arr[u]
    BY <1>2, <1>3, <1>6, <2>1, WalkBegun
  <2>3. ThreadStates' /\ MainSound'
    BY <1>1, <1>2, <1>6, <2>2 DEF ThreadStates, MainSound, Keys
  <2>4. walk[t].turn + 1 <= walk[t].rearms + 1
    BY <1>1, <1>2, <1>3, <1>6, <2>1 DEF WalkSound
  <2>5. WalkSound(t)'
    <3>1. \A k \in Keys : ~ (k < 1)
      BY ThreadSizes
    <3> QED BY <1>1, <1>6, <2>1, <2>2, <2>4, <3>1 DEF WalkSound, Holds, NoArray, NoWalk, Keys
  <2>6. ASSUME NEW j \in Keys PROVE ValueSound(t, j)'
    <3>1. ValueSound(t, j) /\ (Holds(walk[t].arr, j) => ~ key[j].dtor)
      BY <1>2, <1>4
    <3>2. Holds(arr[t], j) => key[j].used
      BY <3>1 DEF ValueSound, HasValue
    <3> QED BY <1>1, <2>2, <3>1, <3>2 DEF ValueSound, HasValue, Holds, NoArray, Keys
  <2> QED BY <1>1, <1>6, <2>2, <2>3, <2>5, <2>6, OneThreadMoves
<1>7. CASE /\ ~ (arr[t] # NoArray /\ walk[t].turn < Iterations)
           /\ thread' = [thread EXCEPT ![t] = "gone"]
           /\ walk' = [walk EXCEPT ![t] = NoWalk] /\ UNCHANGED arr
  <2>1. arr[t] = NoArray
    <3> SUFFICES ASSUME arr[t] # NoArray PROVE FALSE
      OBVIOUS
    <3>1. walk[t].turn <= walk[t].rearms + 0
      BY <1>1, <1>2 DEF WalkSound
    <3> QED BY <1>3, <1>7, <3>1, ThreadSizes
  <2>2. NoWalk \in Walks /\ NoWalk.arr = NoArray
    BY ThreadSizes DEF NoWalk, Threading!NoWalk, Walks, Arrays, NoArray
  <2>3. /\ walk' \in [Users -> Walks] /\ walk'[t] = NoWalk
        /\ \A u \in Users \ {t} : walk'[u] = walk[u]
    BY <1>2, <1>7, <2>2 DEF ThreadStates
  <2>4. /\ thread' \in [Users -> {"none", "running", "ending", "gone"}]
        /\ thread'[t] = "gone" /\ \A u \in Users \ {t} : thread'[u] = thread[u]
    BY <1>2, <1>7 DEF ThreadStates
  <2>5. ThreadStates' /\ MainSound'
    BY <1>1, <1>2, <1>7, <2>3, <2>4 DEF ThreadStates, MainSound, Keys
  <2>6. WalkSound(t)'
    BY <1>7, <2>1, <2>2, <2>3, <2>4 DEF WalkSound, Holds, NoArray, NoWalk, Keys
  <2>7. \A j \in Keys : ValueSound(t, j)'
    BY <1>1, <1>2, <1>4, <1>7, <2>1, <2>2, <2>3 DEF ValueSound, HasValue, Holds, NoArray, Keys
  <2> QED BY <1>1, <1>7, <2>3, <2>4, <2>5, <2>6, <2>7, OneThreadMoves
<1> QED BY <1>5, <1>6, <1>7 DEF Threading!EndPass, NoArray, NoWalk

\* The instance's Cardinality is the one the library speaks of.
LEMMA SameCardinality == \A S : Threading!Cardinality(S) = Cardinality(S)
BY DEF Threading!Cardinality, Cardinality

\* Threads, keys and values as they begin.
LEMMA ThreadInit == Threading!Init => ThreadInv
<1> SUFFICES ASSUME Threading!Init PROVE ThreadInv
  OBVIOUS
<1>1. NoWalk \in Walks /\ NoWalk.arr = NoArray /\ NoArray \in Arrays
  BY ThreadSizes DEF NoWalk, Threading!NoWalk, Walks, Arrays, NoArray
<1>2. [used |-> FALSE, dtor |-> FALSE, gen |-> 0]
        \in [used : BOOLEAN, dtor : BOOLEAN, gen : 0 .. MaxGen]
  BY ThreadSizes
<1>3. ThreadStates /\ MainSound
  BY <1>1, <1>2 DEF Threading!Init, ThreadStates, MainSound, Keys, NoArray, NoWalk
<1>4. \A k \in Keys : KeySound(k)
  BY DEF Threading!Init, KeySound, Keys
<1>5. ASSUME NEW t \in Users PROVE WalkSound(t) /\ \A k \in Keys : ValueSound(t, k)
  <2>1. /\ thread[t] = "none" /\ arr[t] = NoArray /\ walk[t] = NoWalk /\ owed = {}
    BY DEF Threading!Init, NoArray, NoWalk
  <2>2. WalkSound(t)
    BY <1>1, <2>1 DEF WalkSound, Holds
  <2>3. \A k \in Keys : ValueSound(t, k)
    BY <1>1, <2>1 DEF ValueSound, HasValue, Holds
  <2> QED BY <2>2, <2>3
<1> QED BY <1>3, <1>4, <1>5 DEF ThreadInv

\* Every step of EngineThreads keeps the invariant.
LEMMA ThreadStep == ThreadInv /\ Threading!Next => ThreadInv'
BY KeyCreateStep, KeyDeleteStep, CreateStep, SetSpecificStep, EndStep, CallDtorStep, SkipCellStep,
   EndPassStep, JoinStep DEF Threading!Next

\* A value sits in one place, and no thread that is gone has one.
LEMMA ThreadSound == ThreadInv => Threading!TypeOK /\ Threading!ValuesDestroyedOnce
<1> SUFFICES ASSUME ThreadInv PROVE Threading!TypeOK /\ Threading!ValuesDestroyedOnce
  OBVIOUS
<1>1. Threading!TypeOK
  BY DEF ThreadInv, ThreadStates, Threading!TypeOK, Arrays, FullArrays, Keys, NoArray
<1>2. ASSUME NEW t \in Users, NEW k \in Keys
      PROVE  /\ <<t, k>> \in owed => Cardinality(Threading!Cells(t, k)) = 1
             /\ key[k].used /\ key[k].dtor /\ Threading!Cells(t, k) # {} => <<t, k>> \in owed
             /\ thread[t] = "gone" => <<t, k>> \notin owed
             /\ arr[t] # NoArray /\ arr[t][k] # 0 => arr[t][k] = key[k].gen
  <2>1. WalkSound(t) /\ ValueSound(t, k)
    BY DEF ThreadInv
  <2>2. /\ 1 \in Threading!Cells(t, k) <=> Holds(arr[t], k)
        /\ 2 \in Threading!Cells(t, k) <=> Holds(walk[t].arr, k)
        /\ Threading!Cells(t, k) \subseteq {1, 2}
    BY DEF Threading!Cells, Holds, NoArray
  <2>3. <<t, k>> \in owed => \E i \in {1, 2} : Threading!Cells(t, k) = {i}
    BY <2>1, <2>2 DEF ValueSound, HasValue
  <2>4. <<t, k>> \in owed => Cardinality(Threading!Cells(t, k)) = 1
    BY <2>3, FS_Singleton
  <2>5. key[k].used /\ key[k].dtor /\ Threading!Cells(t, k) # {} => <<t, k>> \in owed
    BY <2>1, <2>2 DEF ValueSound, HasValue
  <2>6. thread[t] = "gone" => <<t, k>> \notin owed
    BY <2>1 DEF WalkSound, ValueSound, HasValue, Holds, NoArray, NoWalk, Threading!NoWalk
  <2>7. arr[t] # NoArray /\ arr[t][k] # 0 => arr[t][k] = key[k].gen
    BY <2>1 DEF ValueSound, Holds
  <2> QED BY <2>4, <2>5, <2>6, <2>7
<1>3. Cardinality(mains) <= 1
  <2>1. mains = {} \/ \E t \in Users : mains = {t}
    BY DEF ThreadInv, MainSound
  <2>2. Cardinality(mains) = 0 \/ Cardinality(mains) = 1
    BY <2>1, FS_EmptySet, FS_Singleton
  <2> QED BY <2>2
<1>4. \A t \in Users, k \in Threading!Keys :
        /\ <<t, k>> \in owed => Cardinality(Threading!Cells(t, k)) = 1
        /\ key[k].used /\ key[k].dtor /\ Threading!Cells(t, k) # {} => <<t, k>> \in owed
        /\ thread[t] = "gone" => <<t, k>> \notin owed
        /\ arr[t] # Threading!NoArray /\ arr[t][k] # 0 => arr[t][k] = key[k].gen
  BY <1>2, Zenon DEF Keys, NoArray
<1>5. Threading!ValuesDestroyedOnce
  BY <1>3, <1>4, SameCardinality DEF Threading!ValuesDestroyedOnce
<1> QED BY <1>1, <1>5

\* imports.c, pthread keys: any threads, keys and creations, as long as values set
\* by destructors end before libnx stops calling them.
THEOREM ValuesAreSound == MCSpec => []ValuesSound
<1> DEFINE Inv == part = "threading" => ThreadInv
<1>1. MCInit => Inv
  BY ThreadInit DEF MCInit
<1>2. Inv /\ [MCNext]_allVars => Inv'
  <2> SUFFICES ASSUME ThreadInv, part = "threading", part' = "threading", [MCNext]_allVars
      PROVE ThreadInv'
    BY DEF MCNext, allVars
  <2>1. Threading!Next \/ UNCHANGED threadingVars
    BY DEF MCNext, allVars, osVars
  <2>2. CASE UNCHANGED threadingVars
    BY <2>2 DEF threadingVars, ThreadInv, ThreadStates, MainSound, KeySound, ValueSound, WalkSound,
                HasValue, Holds, Keys, NoArray, NoWalk
  <2> QED BY <2>1, <2>2, ThreadStep
<1>3. Inv => ValuesSound
  BY ThreadSound DEF ValuesSound
<1> QED BY <1>1, <1>2, <1>3, PTL DEF MCSpec

-----------------------------------------------------------------------------
(* The pools of names (JavaNames).                                         *)

Pools == Naming!Pools
Kept(p) == Naming!KeptOf(p) \cup {None}
Rows == UNION {[1 .. Limit[p] -> Kept(p)] : p \in Pools}
AllNames == (UNION {Names[p] : p \in Pools}) \cup {None}
Lookups == [pool : Pools \cup {None}, name : AllNames,
            at : {"idle", "look", "count", "write"}, i : Nat]
Gifts == [pool : Pools \cup {None}, name : AllNames, i : Nat, full : BOOLEAN]
Writing(t) == lookup[t].at \in {"count", "write"}

NameStates ==
  /\ entry \in [Pools -> Rows] /\ count \in [Pools -> Nat]
  /\ \A p \in Pools : /\ entry[p] \in [1 .. Limit[p] -> Kept(p)]
                      /\ count[p] <= Limit[p]
  /\ lookup \in [Users -> Lookups] /\ gave \in [Users -> Gifts]

\* A name is written below the count, or by the lookup that counted it last.
PoolSound(p) ==
  /\ \A i \in 1 .. count[p] : entry[p][i] = None =>
       \E t \in Users : lookup[t].at = "write" /\ lookup[t].pool = p /\ lookup[t].i = i
  /\ \A i \in 1 .. Limit[p] : i > count[p] => entry[p][i] = None
  /\ \A i, j \in 1 .. count[p] :
       i # j /\ entry[p][i] # None /\ ~ Naming!CutTo(p, entry[p][i]) =>
         entry[p][i] # entry[p][j]

\* A lookup that takes an entry takes the one after the last, which is empty, for
\* a name that has none.
LookupSound(t) ==
  \/ lookup[t] = Naming!Idle
  \/ /\ lookup[t].at \in {"look", "count", "write"}
     /\ lookup[t].pool \in Pools /\ lookup[t].name \in Names[lookup[t].pool]
     /\ lookup[t].at = "count" => /\ lookup[t].i = count[lookup[t].pool] + 1
                                  /\ count[lookup[t].pool] < Limit[lookup[t].pool]
     /\ lookup[t].at = "write" => /\ lookup[t].i = count[lookup[t].pool]
                                  /\ lookup[t].i \in 1 .. Limit[lookup[t].pool]
                                  /\ entry[lookup[t].pool][lookup[t].i] = None
     /\ Writing(t) => \A i \in 1 .. count[lookup[t].pool] :
          entry[lookup[t].pool][i] # lookup[t].name

\* locals_lock, and the one thread that asks for classes and ids.
LookupsApart == \A t, u \in Users :
  t # u /\ lookup[t].at # "idle" /\ lookup[u].at # "idle" =>
    (lookup[t].pool \in Naming!Locked <=> lookup[u].pool \notin Naming!Locked)

GaveSound(t) ==
  gave[t] = Naming!Nothing \/ gave[t].full
  \/ /\ gave[t].pool \in Pools /\ gave[t].i \in 1 .. count[gave[t].pool]
     /\ entry[gave[t].pool][gave[t].i] = Cut[gave[t].pool][gave[t].name]
     /\ gave[t].name \in Names[gave[t].pool]

NamesInv ==
  /\ NameStates /\ LookupsApart
  /\ \A p \in Pools : PoolSound(p)
  /\ \A t \in Users : LookupSound(t) /\ GaveSound(t)

\* What the constants of JavaNames are.
LEMMA NameSizes ==
  /\ \A p \in Pools : Limit[p] \in Nat \ {0} /\ None \notin Names[p]
  /\ \A p \in Pools : \A r \in Names[p] : r \in AllNames
  /\ \A p \in Pools : \A r \in Names[p] : Cut[p][r] # None /\ Cut[p][r] \in Naming!KeptOf(p)
  /\ \A p \in Pools : None \notin Naming!KeptOf(p)
  /\ \A p \in Pools : \A r \in Naming!KeptOf(p) : r \in Names[p] => Cut[p][r] = r
BY NamingAssumption DEF Naming!NamesAssumption, Pools, AllNames, Naming!KeptOf

\* A step of one thread's lookup that leaves the pools as they are.
LEMMA OneLookupMoves ==
  ASSUME NamesInv, NEW t \in Users, lookup[t].at # "write",
         UNCHANGED <<entry, count>>,
         lookup' \in [Users -> Lookups], gave' \in [Users -> Gifts],
         \A u \in Users \ {t} : lookup'[u] = lookup[u] /\ gave'[u] = gave[u],
         LookupSound(t)', GaveSound(t)',
         \A u \in Users \ {t} : lookup'[t].at # "idle" /\ lookup[u].at # "idle" =>
           (lookup'[t].pool \in Naming!Locked <=> lookup[u].pool \notin Naming!Locked)
  PROVE  NamesInv'
<1>1. NameStates'
  BY DEF NamesInv, NameStates, Pools, Rows
<1>2. \A p \in Pools : PoolSound(p)'
  <2> TAKE p \in Pools
  <2>1. PoolSound(p)
    BY DEF NamesInv
  <2> QED BY <2>1 DEF PoolSound
<1>3. \A u \in Users : LookupSound(u)' /\ GaveSound(u)'
  <2> TAKE u \in Users
  <2>1. LookupSound(u) /\ GaveSound(u)
    BY DEF NamesInv
  <2>2. CASE u = t
    BY <2>2
  <2>3. CASE u # t
    <3>1. lookup'[u] = lookup[u] /\ gave'[u] = gave[u]
      BY <2>3
    <3> QED BY <2>1, <3>1 DEF LookupSound, GaveSound, Writing, Pools
  <2> QED BY <2>2, <2>3
<1>4. LookupsApart'
  BY DEF NamesInv, LookupsApart
<1>5. Pools' = Pools
  BY DEF Pools
<1> QED BY <1>1, <1>2, <1>3, <1>4, <1>5 DEF NamesInv

\* jni_fake.c: a lookup begins, under its lock or alone.
LEMMA AskStep == ASSUME NamesInv, NEW t \in Users, Naming!Ask(t) PROVE NamesInv'
<1>1. PICK p \in Pools : \E r \in Names[p] :
        /\ lookup[t] = Naming!Idle /\ Naming!Entering(p)
        /\ lookup' = [lookup EXCEPT ![t] = [pool |-> p, name |-> r, at |-> "look", i |-> 0]]
        /\ UNCHANGED <<entry, count, gave>>
  BY DEF Naming!Ask, Pools
<1>2. PICK r \in Names[p] :
        /\ lookup[t] = Naming!Idle /\ Naming!Entering(p)
        /\ lookup' = [lookup EXCEPT ![t] = [pool |-> p, name |-> r, at |-> "look", i |-> 0]]
        /\ UNCHANGED <<entry, count, gave>>
  BY <1>1
<1>3. NameStates /\ GaveSound(t)
  BY DEF NamesInv
<1>4. [pool |-> p, name |-> r, at |-> "look", i |-> 0] \in Lookups
  BY NameSizes DEF Lookups
<1>5. /\ lookup' \in [Users -> Lookups] /\ \A u \in Users \ {t} : lookup'[u] = lookup[u]
      /\ lookup'[t] = [pool |-> p, name |-> r, at |-> "look", i |-> 0]
  BY <1>2, <1>3, <1>4 DEF NameStates
<1>6. LookupSound(t)'
  BY <1>5 DEF LookupSound, Writing, Pools
<1>7. GaveSound(t)'
  BY <1>2, <1>3 DEF GaveSound, Pools
<1>8. ASSUME NEW u \in Users \ {t}, lookup[u].at # "idle"
      PROVE  p \in Naming!Locked <=> lookup[u].pool \notin Naming!Locked
  <2>1. LookupSound(u)
    BY DEF NamesInv
  <2>2. lookup[u].pool \in Pools
    BY <1>8, <2>1 DEF LookupSound, Naming!Idle
  <2> QED BY <1>2, <1>8, <2>2 DEF Naming!Entering, Pools
<1>9. lookup[t].at = "idle" /\ gave' \in [Users -> Gifts] /\ UNCHANGED <<entry, count, gave>>
  BY <1>2, <1>3 DEF Naming!Idle, NameStates
<1> QED BY <1>5, <1>6, <1>7, <1>8, <1>9, OneLookupMoves

\* A lookup answers.
LEMMA ReturnedStep ==
  ASSUME NamesInv, NEW t \in Users, NEW i \in Nat, NEW full \in BOOLEAN,
         Naming!Returned(t, i, full)
  PROVE  /\ lookup' \in [Users -> Lookups] /\ gave' \in [Users -> Gifts]
         /\ \A u \in Users \ {t} : lookup'[u] = lookup[u] /\ gave'[u] = gave[u]
         /\ lookup'[t] = Naming!Idle /\ Naming!Idle.at = "idle"
         /\ gave'[t].pool = lookup[t].pool /\ gave'[t].name = lookup[t].name
         /\ gave'[t].i = i /\ gave'[t].full = full
<1>1. NameStates
  BY DEF NamesInv
<1> DEFINE g == [pool |-> lookup[t].pool, name |-> lookup[t].name, i |-> i, full |-> full]
<1>2. g \in Gifts /\ g.pool = lookup[t].pool /\ g.name = lookup[t].name /\ g.i = i /\ g.full = full
  BY <1>1 DEF NameStates, Lookups, Gifts
<1>3. Naming!Idle \in Lookups /\ Naming!Idle.at = "idle"
  <2>1. None \in AllNames
    BY DEF AllNames
  <2> QED BY <2>1 DEF Naming!Idle, Lookups
<1>4. gave' = [gave EXCEPT ![t] = g] /\ lookup' = [lookup EXCEPT ![t] = Naming!Idle]
  BY DEF Naming!Returned
<1> HIDE DEF g
<1> QED BY <1>1, <1>2, <1>3, <1>4 DEF NameStates

\* The entries that hold a name.
LEMMA FirstKept ==
  ASSUME NamesInv, NEW t \in Users, Naming!Kept(t) # {}, lookup[t].at # "idle"
  PROVE  /\ Naming!First(Naming!Kept(t)) \in 1 .. count[lookup[t].pool]
         /\ entry[lookup[t].pool][Naming!First(Naming!Kept(t))] = lookup[t].name
<1> DEFINE S == Naming!Kept(t)
<1>1. S \subseteq Nat /\ S # {}
  BY DEF Naming!Kept
<1>2. Min(S) \in S /\ \A j \in S : Min(S) <= j
  BY <1>1, MinIsLeast
<1>3. Naming!First(S) \in S
  <2> HIDE DEF S
  <2> QED BY <1>2 DEF Naming!First
<1> QED BY <1>3 DEF Naming!Kept, Naming!Same

\* What the invariant says of a lookup on its way.
LEMMA LookupsSound ==
  ASSUME NamesInv, NEW t \in Users
  PROVE  /\ LookupSound(t) /\ GaveSound(t)
         /\ lookup[t].at # "idle" =>
              /\ lookup[t] # Naming!Idle
              /\ lookup[t].pool \in Pools /\ lookup[t].name \in Names[lookup[t].pool]
              /\ count[lookup[t].pool] \in Nat /\ Limit[lookup[t].pool] \in Nat
              /\ count[lookup[t].pool] <= Limit[lookup[t].pool]
<1>1. LookupSound(t) /\ GaveSound(t) /\ NameStates
  BY DEF NamesInv
<1>2. SUFFICES ASSUME lookup[t].at # "idle"
      PROVE  /\ lookup[t] # Naming!Idle
             /\ lookup[t].pool \in Pools /\ lookup[t].name \in Names[lookup[t].pool]
             /\ count[lookup[t].pool] \in Nat /\ Limit[lookup[t].pool] \in Nat
             /\ count[lookup[t].pool] <= Limit[lookup[t].pool]
  BY <1>1
<1>3. lookup[t] # Naming!Idle
  BY <1>2 DEF Naming!Idle
<1> QED BY <1>1, <1>3, NameSizes DEF LookupSound, NameStates

\* jni_fake.c: the name is found, or the pool is full, or an entry is taken for it.
LEMMA LookStep ==
  ASSUME NamesInv, NEW t \in Users,
         Naming!Found(t) \/ Naming!Full(t) \/ Naming!Take(t)
  PROVE  NamesInv'
<1>1. lookup[t].at = "look" /\ UNCHANGED <<entry, count>>
  BY DEF Naming!Found, Naming!Full, Naming!Take
<1>2. /\ LookupSound(t) /\ lookup[t] # Naming!Idle /\ GaveSound(t)
      /\ lookup[t].pool \in Pools /\ lookup[t].name \in Names[lookup[t].pool]
      /\ count[lookup[t].pool] \in Nat /\ Limit[lookup[t].pool] \in Nat
  BY <1>1, LookupsSound
<1>3. CASE Naming!Found(t)
  <2>1. /\ Naming!Kept(t) # {}
        /\ Naming!Returned(t, Naming!First(Naming!Kept(t)), FALSE)
    BY <1>3 DEF Naming!Found
  <2> DEFINE i == Naming!First(Naming!Kept(t))
  <2>2. /\ i \in 1 .. count[lookup[t].pool]
        /\ entry[lookup[t].pool][i] = Cut[lookup[t].pool][lookup[t].name]
    <3>1. i \in 1 .. count[lookup[t].pool] /\ entry[lookup[t].pool][i] = lookup[t].name
      BY <1>1, <2>1, FirstKept
    <3>2. PICK p, r : p = lookup[t].pool /\ r = lookup[t].name
      OBVIOUS
    <3>3. i \in 1 .. Limit[p] /\ entry[p] \in [1 .. Limit[p] -> Kept(p)]
      BY <1>1, <1>2, <3>1, <3>2, LookupsSound DEF NamesInv, NameStates
    <3>4. r \in Kept(p) /\ r \in Names[p] /\ p \in Pools /\ r # None
      BY <1>2, <3>1, <3>2, <3>3, NameSizes
    <3>5. Cut[p][r] = r
      BY <3>4, NameSizes DEF Kept
    <3> QED BY <3>1, <3>2, <3>5
  <2>3. Naming!Returned(t, i, FALSE)
    BY <2>1
  <2> HIDE DEF i
  <2>4. i \in Nat
    BY <1>2, <2>2
  <2>5. /\ lookup' \in [Users -> Lookups] /\ gave' \in [Users -> Gifts]
        /\ \A u \in Users \ {t} : lookup'[u] = lookup[u] /\ gave'[u] = gave[u]
        /\ lookup'[t] = Naming!Idle /\ Naming!Idle.at = "idle"
        /\ gave'[t].pool = lookup[t].pool /\ gave'[t].name = lookup[t].name
        /\ gave'[t].i = i /\ gave'[t].full = FALSE
    BY <2>3, <2>4, ReturnedStep
  <2>6. GaveSound(t)' /\ LookupSound(t)'
    BY <1>1, <1>2, <2>2, <2>5 DEF GaveSound, LookupSound, Pools
  <2> QED BY <1>1, <2>5, <2>6, OneLookupMoves
<1>4. CASE Naming!Full(t)
  <2> DEFINE i == IF lookup[t].pool = "string" THEN 0 ELSE 1
  <2>1. i \in Nat /\ Naming!Returned(t, i, TRUE)
    BY <1>4 DEF Naming!Full
  <2> HIDE DEF i
  <2>2. /\ lookup' \in [Users -> Lookups] /\ gave' \in [Users -> Gifts]
        /\ \A u \in Users \ {t} : lookup'[u] = lookup[u] /\ gave'[u] = gave[u]
        /\ lookup'[t] = Naming!Idle /\ Naming!Idle.at = "idle" /\ gave'[t].full = TRUE
    BY <2>1, ReturnedStep
  <2>3. GaveSound(t)' /\ LookupSound(t)'
    BY <2>2 DEF GaveSound, LookupSound
  <2> QED BY <1>1, <2>2, <2>3, OneLookupMoves
<1>5. CASE Naming!Take(t)
  <2> DEFINE p == lookup[t].pool
  <2>1. /\ Naming!Kept(t) = {} /\ count[p] < Limit[p] /\ gave' = gave
        /\ lookup' = [lookup EXCEPT ![t].at = "count", ![t].i = count[p] + 1]
    BY <1>5 DEF Naming!Take
  <2>2. NameStates
    BY DEF NamesInv
  <2>3. count[p] + 1 \in Nat /\ lookup[t] \in Lookups
    BY <1>2, <2>2 DEF NameStates
  <2>4. /\ lookup' \in [Users -> Lookups] /\ gave' \in [Users -> Gifts]
        /\ \A u \in Users \ {t} : lookup'[u] = lookup[u] /\ gave'[u] = gave[u]
        /\ lookup'[t].at = "count" /\ lookup'[t].i = count[p] + 1
        /\ lookup'[t].pool = p /\ lookup'[t].name = lookup[t].name
    BY <2>1, <2>2, <2>3 DEF NameStates, Lookups
  <2>5. \A i \in 1 .. count[p] : entry[p][i] # lookup[t].name
    BY <2>1 DEF Naming!Kept, Naming!Same
  <2> HIDE DEF p
  <2>6. LookupSound(t)'
    BY <1>1, <1>2, <2>1, <2>4, <2>5 DEF LookupSound, Writing, Pools, p
  <2>7. GaveSound(t)'
    BY <1>1, <1>2, <2>1 DEF GaveSound, Pools
  <2>8. ASSUME NEW u \in Users \ {t}, lookup[u].at # "idle"
        PROVE  p \in Naming!Locked <=> lookup[u].pool \notin Naming!Locked
    BY <1>1, <2>8 DEF NamesInv, LookupsApart, p
  <2> QED BY <1>1, <2>4, <2>6, <2>7, <2>8, OneLookupMoves
<1> QED BY <1>3, <1>4, <1>5

\* jni_fake.c: &pool[count++].
LEMMA CountStep == ASSUME NamesInv, NEW t \in Users, Naming!Count(t) PROVE NamesInv'
<1>1. PICK p, n : p = lookup[t].pool /\ n = lookup[t].i
  OBVIOUS
<1>2. /\ lookup[t].at = "count" /\ UNCHANGED <<entry, gave>>
      /\ count' = [count EXCEPT ![p] = n]
      /\ lookup' = [lookup EXCEPT ![t].at = "write"]
  BY <1>1 DEF Naming!Count
<1>3. NameStates /\ LookupSound(t) /\ \A q \in Pools : PoolSound(q)
  BY DEF NamesInv
<1>4. /\ p \in Pools /\ count[p] \in Nat /\ Limit[p] \in Nat
      /\ n = count[p] + 1 /\ count[p] < Limit[p]
      /\ \A i \in 1 .. count[p] : entry[p][i] # lookup[t].name
  BY <1>1, <1>2, <1>3, LookupsSound DEF LookupSound, Writing
<1>5. lookup[t] \in Lookups
  BY <1>3 DEF NameStates
<1>6. /\ lookup' \in [Users -> Lookups] /\ \A u \in Users \ {t} : lookup'[u] = lookup[u]
      /\ lookup'[t].at = "write" /\ lookup'[t].i = n
      /\ lookup'[t].pool = p /\ lookup'[t].name = lookup[t].name
  BY <1>1, <1>2, <1>3, <1>5 DEF NameStates, Lookups
<1>7. /\ count' \in [Pools -> Nat] /\ count'[p] = n
      /\ \A q \in Pools \ {p} : count'[q] = count[q]
  <2>1. count \in [Pools -> Nat] /\ n \in Nat
    BY <1>3, <1>4 DEF NameStates
  <2>2. PICK f : f = [count EXCEPT ![p] = n]
    OBVIOUS
  <2>3. p \in Pools
    BY <1>4
  <2>4. f \in [Pools -> Nat] /\ f[p] = n /\ \A q \in Pools \ {p} : f[q] = count[q]
    BY <2>1, <2>2, <2>3
  <2>5. count' = f
    BY <1>2, <2>2
  <2> QED BY <2>4, <2>5
<1>8. n \in 1 .. Limit[p] /\ n \in 1 .. n /\ count[p] < n
  BY <1>4
<1>9. entry[p][n] = None
  BY <1>3, <1>4, <1>8 DEF PoolSound
<1>10. NameStates'
  <2>1. ASSUME NEW q \in Pools PROVE count'[q] <= Limit[q]
    <3>1. CASE q = p
      BY <1>4, <1>7, <3>1
    <3>2. CASE q # p
      <4>1. count'[q] = count[q]
        BY <1>7, <3>2
      <4>2. count[q] <= Limit[q]
        BY <1>3 DEF NameStates
      <4> QED BY <4>1, <4>2
    <3> QED BY <3>1, <3>2
  <2> QED BY <1>2, <1>3, <1>6, <1>7, <2>1 DEF NameStates, Pools, Rows
<1>11. ASSUME NEW i \in 1 .. n, i # n PROVE i \in 1 .. count[p]
  BY <1>4, <1>11
<1>12. PoolSound(p)'
  <2>1. PoolSound(p)
    BY <1>3, <1>4
  <2>2. ASSUME NEW i \in 1 .. count'[p], entry[p][i] = None
        PROVE  \E u \in Users : lookup'[u].at = "write" /\ lookup'[u].pool = p /\ lookup'[u].i = i
    <3>1. CASE i = n
      BY <1>6, <3>1
    <3>2. CASE i # n
      <4>1. i \in 1 .. count[p]
        BY <1>7, <1>11, <2>2, <3>2
      <4>2. PICK u \in Users : lookup[u].at = "write" /\ lookup[u].pool = p /\ lookup[u].i = i
        BY <2>1, <2>2, <4>1 DEF PoolSound
      <4>3. lookup'[u] = lookup[u]
        BY <1>2, <1>6, <4>2
      <4> QED BY <4>2, <4>3
    <3> QED BY <3>1, <3>2
  <2>3. ASSUME NEW i \in 1 .. Limit[p], i > count'[p] PROVE entry[p][i] = None
    <3>1. i > count[p]
      BY <1>4, <1>7, <2>3
    <3> QED BY <2>1, <3>1 DEF PoolSound
  <2>4. ASSUME NEW i \in 1 .. count'[p], NEW j \in 1 .. count'[p], i # j, entry[p][i] # None,
               ~ Naming!CutTo(p, entry[p][i])
        PROVE  entry[p][i] # entry[p][j]
    <3>1. i # n
      BY <1>9, <2>4
    <3>2. CASE j = n
      BY <1>9, <2>4, <3>2
    <3>3. CASE j # n
      <4>1. i \in 1 .. count[p] /\ j \in 1 .. count[p]
        BY <1>7, <1>11, <3>1, <3>3
      <4> QED BY <2>1, <2>4, <4>1 DEF PoolSound
    <3> QED BY <3>2, <3>3
  <2> QED BY <1>2, <2>2, <2>3, <2>4 DEF PoolSound
<1>13. ASSUME NEW q \in Pools, q # p PROVE PoolSound(q)'
  <2>1. PoolSound(q) /\ count'[q] = count[q]
    BY <1>3, <1>7, <1>13
  <2>2. ASSUME NEW u \in Users, lookup[u].at = "write" PROVE lookup'[u] = lookup[u]
    BY <1>2, <1>6, <2>2
  <2> QED BY <1>2, <2>1, <2>2 DEF PoolSound
<1>14. LookupSound(t)'
  <2>1. \A i \in 1 .. n : entry[p][i] # lookup[t].name
    <3>1. lookup[t].name # None
      BY <1>1, <1>2, <1>4, LookupsSound, NameSizes
    <3> QED BY <1>4, <1>9, <1>11, <3>1
  <2>2. lookup[t].name \in Names[p]
    BY <1>1, <1>2, LookupsSound
  <2> QED BY <1>2, <1>4, <1>6, <1>7, <1>8, <1>9, <2>1, <2>2 DEF LookupSound, Writing, Pools
<1>15. ASSUME NEW u \in Users, u # t PROVE LookupSound(u)'
  <2>1. LookupSound(u) /\ lookup'[u] = lookup[u]
    BY <1>6, <1>15, LookupsSound
  <2>2. CASE lookup[u] = Naming!Idle
    BY <2>1, <2>2 DEF LookupSound
  <2>3. CASE lookup[u] # Naming!Idle
    <3>1. lookup[u].at # "idle" /\ lookup[u].pool \in Pools
      BY <2>1, <2>3 DEF LookupSound
    <3>2. lookup[u].pool # p
      BY <1>1, <1>2, <1>15, <3>1 DEF NamesInv, LookupsApart
    <3>3. count'[lookup[u].pool] = count[lookup[u].pool]
      BY <1>7, <3>1, <3>2
    <3> QED BY <1>2, <2>1, <3>3 DEF LookupSound, Writing, Pools
  <2> QED BY <2>2, <2>3
<1>16. ASSUME NEW u \in Users PROVE GaveSound(u)'
  <2>1. GaveSound(u)
    BY LookupsSound
  <2>2. CASE gave[u].pool = p
    <3>1. \A i \in 1 .. count[p] : i \in 1 .. n
      BY <1>4
    <3> QED BY <1>2, <1>7, <2>1, <2>2, <3>1 DEF GaveSound, Pools
  <2>3. CASE gave[u].pool # p
    BY <1>2, <1>7, <2>1, <2>3 DEF GaveSound, Pools
  <2> QED BY <2>2, <2>3
<1>17. LookupsApart'
  <2>1. \A u \in Users : /\ lookup'[u].pool = lookup[u].pool
                         /\ lookup'[u].at = "idle" <=> lookup[u].at = "idle"
    BY <1>1, <1>2, <1>6
  <2>2. LookupsApart
    BY DEF NamesInv
  <2> QED BY <2>1, <2>2 DEF LookupsApart
<1>18. \A q \in Pools : PoolSound(q)'
  BY <1>12, <1>13
<1>19. \A u \in Users : LookupSound(u)' /\ GaveSound(u)'
  BY <1>14, <1>15, <1>16
<1>20. Pools' = Pools
  BY DEF Pools
<1> QED BY <1>10, <1>17, <1>18, <1>19, <1>20 DEF NamesInv

\* jni_fake.c: the name is written into the entry.
LEMMA WriteStep == ASSUME NamesInv, NEW t \in Users, Naming!Write(t) PROVE NamesInv'
<1>1. PICK p, n, r, c : /\ p = lookup[t].pool /\ n = lookup[t].i /\ r = lookup[t].name
                        /\ c = Cut[p][r]
  OBVIOUS
<1>2. /\ lookup[t].at = "write" /\ count' = count
      /\ entry' = [entry EXCEPT ![p][n] = c]
      /\ Naming!Returned(t, n, FALSE)
  BY <1>1 DEF Naming!Write
<1>3. NameStates /\ LookupSound(t) /\ \A q \in Pools : PoolSound(q)
  BY DEF NamesInv
<1>4. /\ p \in Pools /\ count[p] \in Nat /\ Limit[p] \in Nat /\ r \in Names[p] /\ r # None
      /\ n = count[p] /\ n \in 1 .. Limit[p] /\ n \in 1 .. n /\ n \in Nat
      /\ entry[p][n] = None
      /\ \A i \in 1 .. count[p] : entry[p][i] # r
  <2>1. /\ p \in Pools /\ count[p] \in Nat /\ Limit[p] \in Nat /\ r \in Names[p] /\ r # None
        /\ n = count[p] /\ n \in 1 .. Limit[p] /\ entry[p][n] = None
        /\ \A i \in 1 .. count[p] : entry[p][i] # r
    BY <1>1, <1>2, <1>3, LookupsSound, NameSizes DEF LookupSound, Writing
  <2> QED BY <2>1
<1>5. /\ lookup' \in [Users -> Lookups] /\ gave' \in [Users -> Gifts]
      /\ \A u \in Users \ {t} : lookup'[u] = lookup[u] /\ gave'[u] = gave[u]
      /\ lookup'[t] = Naming!Idle /\ Naming!Idle.at = "idle"
      /\ gave'[t].pool = p /\ gave'[t].name = r /\ gave'[t].i = n /\ gave'[t].full = FALSE
  BY <1>1, <1>2, <1>4, ReturnedStep
<1>6. c \in Kept(p) /\ c # None /\ (~ Naming!CutTo(p, c) => c = r)
  BY <1>1, <1>4, NameSizes DEF Kept, Naming!CutTo
<1>7. /\ entry' \in [Pools -> Rows]
      /\ entry'[p] \in [1 .. Limit[p] -> Kept(p)]
      /\ entry'[p][n] = c /\ \A i \in 1 .. Limit[p] : i # n => entry'[p][i] = entry[p][i]
      /\ \A q \in Pools \ {p} : entry'[q] = entry[q]
  <2> DEFINE row == [entry[p] EXCEPT ![n] = c]
  <2>1. entry[p] \in [1 .. Limit[p] -> Kept(p)]
    BY <1>3, <1>4 DEF NameStates
  <2>2. /\ row \in [1 .. Limit[p] -> Kept(p)]
        /\ row[n] = c /\ \A i \in 1 .. Limit[p] : i # n => row[i] = entry[p][i]
    BY <1>4, <1>6, <2>1
  <2>3. entry' = [entry EXCEPT ![p] = row]
    BY <1>2
  <2>4. row \in Rows
    BY <1>4, <2>2 DEF Rows
  <2> HIDE DEF row
  <2>5. /\ entry' \in [Pools -> Rows] /\ entry'[p] = row
        /\ \A q \in Pools \ {p} : entry'[q] = entry[q]
    BY <1>3, <1>4, <2>3, <2>4 DEF NameStates
  <2> QED BY <2>2, <2>5
<1>8. \A i \in 1 .. count[p] : i \in 1 .. Limit[p]
  BY <1>3, <1>4 DEF NameStates
<1>9. NameStates'
  <2>1. \A q \in Pools : /\ entry'[q] \in [1 .. Limit[q] -> Kept(q)]
                         /\ count'[q] <= Limit[q]
    BY <1>2, <1>3, <1>4, <1>7 DEF NameStates
  <2> QED BY <1>2, <1>3, <1>5, <1>7, <2>1 DEF NameStates, Pools, Rows
<1>10. ASSUME NEW u \in Users, lookup[u].at # "idle", u # t
      PROVE  lookup[u].pool # p /\ lookup'[u] = lookup[u]
  <2>1. lookup[t].at # "idle"
    BY <1>2
  <2> QED BY <1>1, <1>5, <1>10, <2>1 DEF NamesInv, LookupsApart
<1>11. PoolSound(p)'
  <2>1. PoolSound(p)
    BY <1>3, <1>4
  <2>2. ASSUME NEW i \in 1 .. count[p], entry'[p][i] = None PROVE FALSE
    <3>1. i # n /\ entry[p][i] = None
      BY <1>4, <1>7, <1>8, <1>6, <2>2
    <3>2. PICK u \in Users : lookup[u].at = "write" /\ lookup[u].pool = p /\ lookup[u].i = i
      BY <2>1, <3>1 DEF PoolSound
    <3>3. u = t
      BY <1>10, <3>2
    <3> QED BY <1>1, <3>1, <3>2, <3>3
  <2>3. ASSUME NEW i \in 1 .. Limit[p], i > count[p] PROVE entry'[p][i] = None
    <3>1. i # n
      BY <1>4, <2>3
    <3> QED BY <1>7, <2>1, <2>3, <3>1 DEF PoolSound
  <2>4. ASSUME NEW i \in 1 .. count[p], NEW j \in 1 .. count[p], i # j, entry'[p][i] # None,
               ~ Naming!CutTo(p, entry'[p][i])
        PROVE  entry'[p][i] # entry'[p][j]
    <3>1. i \in 1 .. Limit[p] /\ j \in 1 .. Limit[p]
      BY <1>8
    <3>2. CASE i = n
      <4>1. entry'[p][i] = r
        BY <1>7, <1>6, <2>4, <3>2
      <4> QED BY <1>4, <1>7, <2>4, <3>1, <3>2, <4>1
    <3>3. CASE j = n
      <4>1. ASSUME entry'[p][i] = entry'[p][j] PROVE entry'[p][i] = r
        BY <1>7, <1>6, <2>4, <3>3, <4>1
      <4>2. entry'[p][i] # r
        BY <1>4, <1>7, <2>4, <3>1, <3>3
      <4> QED BY <4>1, <4>2
    <3>4. CASE i # n /\ j # n
      BY <1>7, <2>1, <2>4, <3>1, <3>4 DEF PoolSound
    <3> QED BY <3>2, <3>3, <3>4
  <2> QED BY <1>2, <2>2, <2>3, <2>4 DEF PoolSound
<1>12. ASSUME NEW q \in Pools, q # p PROVE PoolSound(q)'
  <2>1. PoolSound(q) /\ entry'[q] = entry[q]
    BY <1>3, <1>7, <1>12
  <2>2. ASSUME NEW u \in Users, lookup[u].at = "write", lookup[u].pool = q
        PROVE  lookup'[u] = lookup[u]
    BY <1>1, <1>5, <1>12, <2>2
  <2> QED BY <1>2, <2>1, <2>2 DEF PoolSound
<1>13. LookupSound(t)'
  BY <1>5 DEF LookupSound
<1>14. ASSUME NEW u \in Users, u # t PROVE LookupSound(u)'
  <2>1. LookupSound(u) /\ lookup'[u] = lookup[u]
    BY <1>5, <1>14, LookupsSound
  <2>2. CASE lookup[u] = Naming!Idle
    BY <2>1, <2>2 DEF LookupSound
  <2>3. CASE lookup[u] # Naming!Idle
    <3>1. lookup[u].at # "idle" /\ lookup[u].pool \in Pools
      BY <2>1, <2>3 DEF LookupSound
    <3>2. entry'[lookup[u].pool] = entry[lookup[u].pool]
      BY <1>7, <1>10, <1>14, <3>1
    <3> QED BY <1>2, <2>1, <3>2 DEF LookupSound, Writing, Pools
  <2> QED BY <2>2, <2>3
<1>15. GaveSound(t)'
  BY <1>1, <1>2, <1>4, <1>5, <1>7 DEF GaveSound, Pools
<1>16. ASSUME NEW u \in Users, u # t PROVE GaveSound(u)'
  <2>1. GaveSound(u) /\ gave'[u] = gave[u]
    BY <1>5, <1>16, LookupsSound
  <2>2. CASE gave[u].pool = p /\ gave[u] # Naming!Nothing /\ ~ gave[u].full
    <3>1. gave[u].i \in 1 .. count[p] /\ entry[p][gave[u].i] = Cut[p][gave[u].name]
          /\ gave[u].name \in Names[p]
      BY <2>1, <2>2 DEF GaveSound
    <3>2. gave[u].i # n /\ gave[u].i \in 1 .. Limit[p]
      BY <1>4, <1>8, <3>1, NameSizes
    <3> QED BY <1>2, <1>4, <1>7, <2>1, <2>2, <3>1, <3>2 DEF GaveSound, Pools
  <2>3. CASE ~ (gave[u].pool = p /\ gave[u] # Naming!Nothing /\ ~ gave[u].full)
    BY <1>2, <1>7, <2>1, <2>3 DEF GaveSound, Pools
  <2> QED BY <2>2, <2>3
<1>17. LookupsApart'
  <2>1. LookupsApart
    BY DEF NamesInv
  <2>2. \A u \in Users : lookup'[u].at # "idle" => lookup'[u] = lookup[u]
    BY <1>5
  <2> QED BY <2>1, <2>2 DEF LookupsApart
<1>18. \A q \in Pools : PoolSound(q)'
  BY <1>11, <1>12
<1>19. \A u \in Users : LookupSound(u)' /\ GaveSound(u)'
  BY <1>13, <1>14, <1>15, <1>16
<1>20. Pools' = Pools
  BY DEF Pools
<1> QED BY <1>9, <1>17, <1>18, <1>19, <1>20 DEF NamesInv

\* The pools begin empty.
LEMMA NamesInit == Naming!Init => NamesInv
<1> SUFFICES ASSUME Naming!Init PROVE NamesInv
  OBVIOUS
<1>1. /\ \A p \in Pools : entry[p] = [i \in 1 .. Limit[p] |-> None] /\ count[p] = 0
      /\ entry = [p \in Pools |-> [i \in 1 .. Limit[p] |-> None]] /\ count = [p \in Pools |-> 0]
      /\ lookup = [t \in Users |-> Naming!Idle] /\ gave = [t \in Users |-> Naming!Nothing]
  BY DEF Naming!Init, Pools
<1>2. Naming!Idle \in Lookups /\ Naming!Nothing \in Gifts
  <2>1. None \in AllNames
    BY DEF AllNames
  <2> QED BY <2>1 DEF Naming!Idle, Naming!Nothing, Lookups, Gifts
<1>3. \A p \in Pools : [i \in 1 .. Limit[p] |-> None] \in [1 .. Limit[p] -> Kept(p)]
  BY DEF Kept
<1>4. \A p \in Pools : [i \in 1 .. Limit[p] |-> None] \in Rows
  BY <1>3 DEF Rows
<1>5. \A p \in Pools : count[p] <= Limit[p]
  BY <1>1, NameSizes
<1>6. NameStates
  BY <1>1, <1>2, <1>3, <1>4, <1>5 DEF NameStates
<1>7. \A p \in Pools : PoolSound(p)
  BY <1>1 DEF PoolSound
<1>8. \A t \in Users : LookupSound(t) /\ GaveSound(t)
  BY <1>1 DEF LookupSound, GaveSound
<1>9. LookupsApart
  BY <1>1 DEF LookupsApart, Naming!Idle
<1> QED BY <1>6, <1>7, <1>8, <1>9 DEF NamesInv

\* jni_fake.c: a handle stands for what its field keeps of the name it was asked
\* with, and that has one entry unless a longer name is cut to it; for any pools
\* and names, when classes and ids are asked for by one thread at a time.
THEOREM NamesAreOneToOne ==
  MCSpec => [](part = "naming" => Naming!TypeOK /\ Naming!NamesOneToOne)
<1> DEFINE Inv == part = "naming" => NamesInv
<1>1. MCInit => Inv
  BY NamesInit DEF MCInit
<1>2. Inv /\ [MCNext]_allVars => Inv'
  <2> SUFFICES ASSUME NamesInv, part = "naming", part' = "naming", [MCNext]_allVars
               PROVE  NamesInv'
    BY DEF MCNext, allVars
  <2>1. Naming!Next \/ UNCHANGED namingVars
    BY DEF MCNext, allVars, javaVars
  <2>2. CASE UNCHANGED namingVars
    BY <2>2 DEF namingVars, NamesInv, NameStates, PoolSound, LookupSound, LookupsApart,
                GaveSound, Writing, Pools, Rows
  <2>3. CASE Naming!Next
    BY <2>3, AskStep, LookStep, CountStep, WriteStep DEF Naming!Next
  <2> QED BY <2>1, <2>2, <2>3
<1>3. NamesInv => Naming!TypeOK /\ Naming!NamesOneToOne
  <2> SUFFICES ASSUME NamesInv PROVE Naming!TypeOK /\ Naming!NamesOneToOne
    OBVIOUS
  <2>1. Naming!TypeOK
    BY NameSizes DEF NamesInv, NameStates, Naming!TypeOK, Lookups, Pools, Kept
  <2>2. \A t \in Users : gave[t] # Naming!Nothing /\ ~ gave[t].full =>
          entry[gave[t].pool][gave[t].i] = Cut[gave[t].pool][gave[t].name]
    BY DEF NamesInv, GaveSound
  <2> QED BY <2>1, <2>2 DEF NamesInv, PoolSound, Naming!NamesOneToOne, Pools
<1> QED BY <1>1, <1>2, <1>3, PTL DEF MCSpec

-----------------------------------------------------------------------------
(* Assets and their descriptors (JavaStreams).                             *)

Kinds == {"stream", "afd", "fd"}
Streams == [kind : Kinds \cup {"none"}, fd : Fds \cup {None}, pos : Nat, len : Nat,
            asset : Streaming!Assets \cup {None}]

\* A position is within the file, and a descriptor is open on the asset.
StreamSound(x) ==
  /\ h[x].kind = "none" => h[x].fd = None
  /\ h[x].kind # "none" => h[x].asset \in Streaming!Assets
  /\ h[x].kind = "stream" => h[x].pos <= Sizes[h[x].asset]
  /\ h[x].fd # None => open[h[x].fd] = h[x].asset

\* A descriptor has one owner, a stream or an asset descriptor; what the engine
\* got is the number of an asset descriptor that is open.
OwnersSound ==
  /\ \A x, y \in Handles : x # y /\ h[x].fd # None /\ h[x].fd = h[y].fd =>
       "fd" \in {h[x].kind, h[y].kind}
  /\ \A y \in Handles : h[y].kind = "fd" =>
       /\ h[y].fd # None
       /\ \E z \in Handles : h[z].kind = "afd" /\ h[z].fd = h[y].fd

AnswerSound ==
  got.op \in {"read", "available"} =>
    /\ got.h \in Handles /\ got.from \in Nat /\ h[got.h].kind = "stream"
    /\ LET left == Sizes[h[got.h].asset] - got.from IN
         /\ got.op = "read" /\ got.n > 0 =>
              got.ret = IF left = 0 THEN -1 ELSE Streaming!Least(got.n, left)
         /\ got.op = "available" => got.ret = left /\ got.ret >= 0 /\ h[got.h].pos = got.from

StreamsInv ==
  /\ h \in [Handles -> Streams] /\ open \in [Fds -> Streaming!Assets \cup {None}]
  /\ \A x \in Handles : StreamSound(x)
  /\ OwnersSound /\ AnswerSound

\* What the constants of JavaStreams are.
LEMMA AssetSizes ==
  /\ \A a \in Streaming!Assets : Sizes[a] \in Nat
  /\ None \notin Streaming!Assets /\ None \notin Fds /\ Chunks \subseteq Nat /\ Skips \subseteq Int
BY StreamingAssumption DEF Streaming!StreamsAssumption

\* One handle is written anew, and its descriptor is not taken from another.
LEMMA HandleMade ==
  ASSUME StreamsInv, NEW x \in Handles, NEW r \in Streams,
         h' = [h EXCEPT ![x] = r]
  PROVE  /\ h' \in [Handles -> Streams] /\ h'[x] = r
         /\ \A y \in Handles \ {x} : h'[y] = h[y]
BY DEF StreamsInv

\* unity_jni.c, AssetManager.open and openFd.
LEMMA OpenStep ==
  ASSUME StreamsInv, NEW kind \in {"stream", "afd"}, Streaming!Open(kind) PROVE StreamsInv'
<1>1. PICK x \in Handles, a \in Streaming!Assets, d \in Fds :
        /\ h[x].kind = "none" /\ open[d] = None
        /\ Streaming!Make(x, kind, d, a)
        /\ open' = [open EXCEPT ![d] = a] /\ got' = Streaming!NoCall
  BY DEF Streaming!Open, Streaming!Fresh, Streaming!LowestFree
<1> DEFINE r == [kind |-> kind, fd |-> d, pos |-> 0, asset |-> a,
                 len |-> IF kind = "afd" THEN Sizes[a] ELSE 0]
<1>2. r \in Streams
  BY AssetSizes DEF Streams, Kinds
<1>3. h' = [h EXCEPT ![x] = r]
  BY <1>1 DEF Streaming!Make
<1>4. r.kind = kind /\ r.fd = d /\ r.pos = 0 /\ r.asset = a
  OBVIOUS
<1> HIDE DEF r
<1>5. h' \in [Handles -> Streams] /\ h'[x] = r /\ \A y \in Handles \ {x} : h'[y] = h[y]
  BY <1>2, <1>3, HandleMade
<1>6. /\ open' \in [Fds -> Streaming!Assets \cup {None}] /\ open'[d] = a
      /\ \A e \in Fds \ {d} : open'[e] = open[e]
  BY <1>1 DEF StreamsInv
<1>7. \A y \in Handles : h[y].fd # d /\ h[y].fd \in Fds \cup {None}
  BY <1>1, AssetSizes DEF StreamsInv, StreamSound, Streams
<1>8. StreamSound(x)'
  BY <1>4, <1>5, <1>6, AssetSizes DEF StreamSound, Streaming!Assets
<1>9. ASSUME NEW y \in Handles \ {x} PROVE StreamSound(y)'
  BY <1>5, <1>6, <1>7 DEF StreamsInv, StreamSound, Streaming!Assets
<1>10. OwnersSound'
  <2>1. OwnersSound
    BY DEF StreamsInv
  <2>2. \A z \in Handles : h[z].kind = "afd" => z # x
    BY <1>1
  <2> QED BY <1>4, <1>5, <1>7, <2>1, <2>2 DEF OwnersSound
<1>11. AnswerSound'
  BY <1>1 DEF AnswerSound, Streaming!NoCall
<1> QED BY <1>5, <1>6, <1>8, <1>9, <1>10, <1>11 DEF StreamsInv, Streaming!Assets, Streams

\* unity_jni.c, getFileDescriptor.
LEMMA GetFileDescriptorStep ==
  ASSUME StreamsInv, Streaming!GetFileDescriptor PROVE StreamsInv'
<1>1. PICK x \in Handles, y \in Handles :
        /\ h[x].kind = "afd" /\ h[x].fd # None /\ h[y].kind = "none"
        /\ Streaming!Make(y, "fd", h[x].fd, h[x].asset)
        /\ got' = Streaming!NoCall /\ UNCHANGED open
  BY DEF Streaming!GetFileDescriptor, Streaming!Fresh
<1>2. h[x] \in Streams /\ StreamSound(x) /\ h[x].asset \in Streaming!Assets
  BY <1>1 DEF StreamsInv, StreamSound
<1> DEFINE r == [kind |-> "fd", fd |-> h[x].fd, pos |-> 0, asset |-> h[x].asset, len |-> 0]
<1>3. r \in Streams
  BY <1>2 DEF Streams, Kinds
<1>4. h' = [h EXCEPT ![y] = r]
  BY <1>1 DEF Streaming!Make
<1>5. r.kind = "fd" /\ r.fd = h[x].fd /\ r.asset = h[x].asset
  OBVIOUS
<1> HIDE DEF r
<1>6. h' \in [Handles -> Streams] /\ h'[y] = r /\ \A z \in Handles \ {y} : h'[z] = h[z]
  BY <1>3, <1>4, HandleMade
<1>7. StreamSound(y)'
  BY <1>1, <1>2, <1>5, <1>6 DEF StreamSound, Streaming!Assets
<1>8. ASSUME NEW z \in Handles \ {y} PROVE StreamSound(z)'
  BY <1>1, <1>6 DEF StreamsInv, StreamSound, Streaming!Assets
<1>9. OwnersSound'
  <2>1. OwnersSound /\ x # y
    BY <1>1 DEF StreamsInv
  <2>2. \A z \in Handles : h[z].kind = "afd" => z # y
    BY <1>1
  <2>3. \A z, w \in Handles : z # w /\ h'[z].fd # None /\ h'[z].fd = h'[w].fd =>
          "fd" \in {h'[z].kind, h'[w].kind}
    BY <1>5, <1>6, <2>1 DEF OwnersSound
  <2>4. ASSUME NEW w \in Handles, h'[w].kind = "fd"
        PROVE  /\ h'[w].fd # None
               /\ \E z \in Handles : h'[z].kind = "afd" /\ h'[z].fd = h'[w].fd
    <3>1. CASE w = y
      BY <1>1, <1>5, <1>6, <2>1, <3>1
    <3>2. CASE w # y
      BY <1>6, <2>1, <2>2, <2>4, <3>2 DEF OwnersSound
    <3> QED BY <3>1, <3>2
  <2> QED BY <2>3, <2>4 DEF OwnersSound
<1>10. AnswerSound'
  BY <1>1 DEF AnswerSound, Streaming!NoCall
<1> QED BY <1>1, <1>6, <1>7, <1>8, <1>9, <1>10 DEF StreamsInv, Streaming!Assets, Streams

\* A stream is moved within its file.
LEMMA StreamMoves ==
  ASSUME StreamsInv, NEW x \in Handles, h[x].kind = "stream",
         NEW pos \in Nat, pos <= Sizes[h[x].asset],
         h' = [h EXCEPT ![x].pos = pos], UNCHANGED open, AnswerSound'
  PROVE  StreamsInv'
<1>1. h[x] \in Streams /\ StreamSound(x)
  BY DEF StreamsInv
<1>2. /\ h' \in [Handles -> Streams] /\ h'[x].pos = pos
      /\ h'[x].kind = h[x].kind /\ h'[x].fd = h[x].fd /\ h'[x].asset = h[x].asset
      /\ \A y \in Handles \ {x} : h'[y] = h[y]
  BY <1>1 DEF StreamsInv, Streams
<1>3. StreamSound(x)'
  BY <1>1, <1>2 DEF StreamSound, Streaming!Assets
<1>4. ASSUME NEW y \in Handles \ {x} PROVE StreamSound(y)'
  BY <1>2 DEF StreamsInv, StreamSound, Streaming!Assets
<1>5. \A y \in Handles : h'[y].kind = h[y].kind /\ h'[y].fd = h[y].fd
  BY <1>2
<1>6. OwnersSound'
  BY <1>5 DEF StreamsInv, OwnersSound
<1> QED BY <1>2, <1>3, <1>4, <1>6 DEF StreamsInv, Streaming!Assets, Streams

\* What the invariant says of a stream.
LEMMA StreamPlace ==
  ASSUME StreamsInv, NEW x \in Streaming!Streams
  PROVE  /\ x \in Handles /\ h[x].kind = "stream" /\ h[x] \in Streams
         /\ h[x].asset \in Streaming!Assets /\ Sizes[h[x].asset] \in Nat
         /\ h[x].pos \in Nat /\ h[x].pos <= Sizes[h[x].asset]
         /\ Streaming!Left(x) = Sizes[h[x].asset] - h[x].pos
<1>1. x \in Handles /\ h[x].kind = "stream" /\ h[x] \in Streams /\ StreamSound(x)
  BY DEF StreamsInv, Streaming!Streams
<1>2. /\ h[x].asset \in Streaming!Assets /\ h[x].pos \in Nat /\ h[x].pos <= Sizes[h[x].asset]
  BY <1>1 DEF StreamSound, Streams
<1>3. Sizes[h[x].asset] \in Nat
  BY <1>2, AssetSizes
<1>4. Streaming!Left(x) = Sizes[h[x].asset] - h[x].pos
  BY <1>2, <1>3 DEF Streaming!Left
<1> QED BY <1>1, <1>2, <1>3, <1>4

\* unity_jni.c, InputStream.read.
LEMMA ReadStep == ASSUME StreamsInv, Streaming!Read PROVE StreamsInv'
<1>1. PICK x \in Streaming!Streams, n \in Chunks :
        /\ open' = open
        /\ IF h[x].fd = None THEN UNCHANGED h /\ Streaming!Gave("closed", x, n, -1)
           ELSE LET k == Streaming!Least(n, Streaming!Left(x)) IN
                /\ h' = [h EXCEPT ![x].pos = @ + k]
                /\ Streaming!Gave("read", x, n, Streaming!Answer(k))
  BY DEF Streaming!Read
<1>2. /\ x \in Handles /\ h[x].kind = "stream" /\ h[x] \in Streams
      /\ h[x].asset \in Streaming!Assets /\ Sizes[h[x].asset] \in Nat
      /\ h[x].pos \in Nat /\ h[x].pos <= Sizes[h[x].asset]
      /\ Streaming!Left(x) = Sizes[h[x].asset] - h[x].pos
  BY StreamPlace
<1>3. CASE h[x].fd = None
  <2>1. UNCHANGED h /\ got'.op = "closed" /\ UNCHANGED open
    BY <1>1, <1>3 DEF Streaming!Gave
  <2> QED BY <2>1 DEF StreamsInv, StreamSound, OwnersSound, AnswerSound
<1>4. CASE h[x].fd # None
  <2> DEFINE left == Sizes[h[x].asset] - h[x].pos
             k == Streaming!Least(n, left)
  <2>1. /\ h' = [h EXCEPT ![x].pos = h[x].pos + k] /\ UNCHANGED open
        /\ got' = [op |-> "read", h |-> x, from |-> h[x].pos, n |-> n, ret |-> Streaming!Answer(k)]
    BY <1>1, <1>2, <1>4 DEF Streaming!Gave
  <2>2. n \in Nat /\ left \in Nat
    BY <1>2, AssetSizes
  <2>3. k \in Nat /\ k <= left /\ (n > 0 => (k = 0 <=> left = 0))
    <3> HIDE DEF left
    <3> QED BY <2>2 DEF Streaming!Least
  <2>4. h[x].pos + k \in Nat /\ h[x].pos + k <= Sizes[h[x].asset]
    <3> HIDE DEF k
    <3> QED BY <1>2, <2>3
  <2>5. h'[x].asset = h[x].asset /\ h'[x].kind = "stream"
    <3> HIDE DEF k
    <3> QED BY <1>2, <2>1 DEF StreamsInv, Streams
  <2> HIDE DEF left
  <2>6. n > 0 => Streaming!Answer(k) = IF left = 0 THEN -1 ELSE Streaming!Least(n, left)
    BY <2>3 DEF Streaming!Answer
  <2> HIDE DEF k
  <2>7. AnswerSound'
    BY <1>2, <2>1, <2>5, <2>6 DEF AnswerSound, left
  <2> QED BY <1>2, <2>1, <2>4, <2>7, StreamMoves
<1> QED BY <1>3, <1>4

\* unity_jni.c, InputStream.available.
LEMMA AvailableStep == ASSUME StreamsInv, Streaming!Available PROVE StreamsInv'
<1>1. PICK x \in Streaming!Streams :
        /\ h' = [h EXCEPT ![x].pos = h[x].pos] /\ UNCHANGED open
        /\ got' = [op |-> "available", h |-> x, from |-> h[x].pos, n |-> 0,
                   ret |-> Sizes[h[x].asset] - h[x].pos]
  BY DEF Streaming!Available, Streaming!PosAfterAsking, Streaming!Gave
<1>2. /\ x \in Handles /\ h[x].kind = "stream" /\ h[x] \in Streams
      /\ h[x].asset \in Streaming!Assets /\ Sizes[h[x].asset] \in Nat
      /\ h[x].pos \in Nat /\ h[x].pos <= Sizes[h[x].asset]
  BY StreamPlace
<1>3. h'[x].asset = h[x].asset /\ h'[x].kind = "stream" /\ h'[x].pos = h[x].pos
  BY <1>1, <1>2 DEF StreamsInv, Streams
<1>4. Sizes[h[x].asset] - h[x].pos >= 0
  BY <1>2
<1>5. AnswerSound'
  BY <1>1, <1>2, <1>3, <1>4 DEF AnswerSound
<1> QED BY <1>1, <1>2, <1>5, StreamMoves

\* unity_jni.c, InputStream.skip.
LEMMA SkipStep == ASSUME StreamsInv, Streaming!Skip PROVE StreamsInv'
<1>1. PICK x \in Streaming!Streams, n \in Skips :
        /\ h[x].pos + n >= 0 /\ h[x].pos + n <= Sizes[h[x].asset]
        /\ h' = [h EXCEPT ![x].pos = @ + n] /\ Streaming!Gave("skip", x, n, n)
        /\ UNCHANGED open
  BY DEF Streaming!Skip
<1>2. /\ x \in Handles /\ h[x].kind = "stream" /\ h[x].pos \in Nat
  BY StreamPlace
<1>3. n \in Int
  BY AssetSizes
<1>4. h[x].pos + n \in Nat
  BY <1>1, <1>2, <1>3
<1>5. AnswerSound'
  BY <1>1 DEF AnswerSound, Streaming!Gave
<1>6. h' = [h EXCEPT ![x].pos = h[x].pos + n]
  BY <1>1
<1> QED BY <1>1, <1>2, <1>4, <1>5, <1>6, StreamMoves

\* unity_jni.c, close: an asset descriptor after the descriptors got from it.
LEMMA CloseStep == ASSUME StreamsInv, Streaming!Close PROVE StreamsInv'
<1>1. PICK x \in Handles :
        /\ h[x].kind \in {"stream", "afd"} /\ got' = Streaming!NoCall
        /\ IF h[x].fd = None THEN UNCHANGED <<h, open>>
           ELSE /\ h[x].kind = "afd" => ~ Streaming!InUse(x)
                /\ open' = [open EXCEPT ![h[x].fd] = None]
                /\ h' = [h EXCEPT ![x].fd = None, ![x].pos = 0]
  BY DEF Streaming!Close, Streaming!Closed
<1>2. AnswerSound'
  BY <1>1 DEF AnswerSound, Streaming!NoCall
<1>3. CASE h[x].fd = None
  BY <1>1, <1>2, <1>3 DEF StreamsInv, StreamSound, OwnersSound
<1>4. CASE h[x].fd # None
  <2>1. h[x] \in Streams /\ StreamSound(x) /\ OwnersSound
    BY DEF StreamsInv
  <2>2. /\ h' \in [Handles -> Streams] /\ h'[x].pos = 0 /\ h'[x].fd = None
        /\ h'[x].kind = h[x].kind /\ h'[x].asset = h[x].asset
        /\ \A y \in Handles \ {x} : h'[y] = h[y]
    BY <1>1, <1>4, <2>1 DEF StreamsInv, Streams
  <2>3. h[x].fd \in Fds
    BY <1>4, <2>1 DEF Streams
  <2>4. /\ open' \in [Fds -> Streaming!Assets \cup {None}]
        /\ \A e \in Fds \ {h[x].fd} : open'[e] = open[e]
    BY <1>1, <1>4 DEF StreamsInv
  <2>5. ASSUME NEW y \in Handles \ {x} PROVE h[y].fd # h[x].fd
    <3>1. SUFFICES ASSUME h[y].fd = h[x].fd PROVE FALSE
      OBVIOUS
    <3>2. h[y].kind = "fd"
      BY <1>1, <1>4, <2>1, <3>1 DEF OwnersSound
    <3>3. h[x].kind = "stream"
      BY <1>1, <1>4, <3>1, <3>2 DEF Streaming!InUse
    <3>4. PICK z \in Handles : h[z].kind = "afd" /\ h[z].fd = h[y].fd
      BY <2>1, <3>2 DEF OwnersSound
    <3> QED BY <1>4, <2>1, <3>1, <3>3, <3>4 DEF OwnersSound
  <2>6. StreamSound(x)'
    BY <1>1, <2>1, <2>2, AssetSizes DEF StreamSound, Streaming!Assets
  <2>7. ASSUME NEW y \in Handles \ {x} PROVE StreamSound(y)'
    <3>1. StreamSound(y) /\ h[y] \in Streams
      BY DEF StreamsInv
    <3>2. h[y].fd # None => open'[h[y].fd] = open[h[y].fd]
      BY <2>4, <2>5, <3>1 DEF Streams
    <3> QED BY <2>2, <3>1, <3>2 DEF StreamSound, Streaming!Assets
  <2>8. OwnersSound'
    BY <1>1, <2>1, <2>2, <2>5 DEF OwnersSound
  <2> QED BY <1>2, <2>2, <2>4, <2>6, <2>7, <2>8 DEF StreamsInv, Streaming!Assets, Streams
<1> QED BY <1>3, <1>4

\* The engine forgets a descriptor it got.
LEMMA DropStep == ASSUME StreamsInv, Streaming!Drop PROVE StreamsInv'
<1>1. PICK y \in Handles :
        /\ h[y].kind = "fd" /\ h' = [h EXCEPT ![y] = Streaming!Unmade]
        /\ got' = Streaming!NoCall /\ UNCHANGED open
  BY DEF Streaming!Drop
<1>2. Streaming!Unmade \in Streams /\ Streaming!Unmade.kind = "none" /\ Streaming!Unmade.fd = None
  BY DEF Streaming!Unmade, Streams
<1>3. h' \in [Handles -> Streams] /\ h'[y] = Streaming!Unmade
      /\ \A z \in Handles \ {y} : h'[z] = h[z]
  BY <1>1, <1>2, HandleMade
<1>4. ASSUME NEW z \in Handles PROVE StreamSound(z)'
  BY <1>1, <1>2, <1>3 DEF StreamsInv, StreamSound, Streaming!Assets
<1>5. OwnersSound'
  BY <1>1, <1>2, <1>3 DEF StreamsInv, OwnersSound
<1>6. AnswerSound'
  BY <1>1 DEF AnswerSound, Streaming!NoCall
<1> QED BY <1>1, <1>3, <1>4, <1>5, <1>6 DEF StreamsInv, Streaming!Assets, Streams

\* No handle is made yet.
LEMMA StreamsInit == Streaming!Init => StreamsInv
<1> SUFFICES ASSUME Streaming!Init PROVE StreamsInv
  OBVIOUS
<1>1. Streaming!Unmade \in Streams /\ Streaming!Unmade.kind = "none" /\ Streaming!Unmade.fd = None
  BY DEF Streaming!Unmade, Streams
<1>2. h = [x \in Handles |-> Streaming!Unmade] /\ open = [d \in Fds |-> None]
      /\ got = Streaming!NoCall
  BY DEF Streaming!Init
<1>3. AnswerSound
  BY <1>2 DEF AnswerSound, Streaming!NoCall
<1>4. h \in [Handles -> Streams] /\ open \in [Fds -> Streaming!Assets \cup {None}]
  BY <1>1, <1>2
<1>5. \A x \in Handles : h[x].kind = "none" /\ h[x].fd = None
  BY <1>1, <1>2
<1> QED BY <1>3, <1>4, <1>5 DEF StreamsInv, StreamSound, OwnersSound

\* unity_jni.c: a stream answers with what follows in its own asset, and the
\* descriptor of a handle that is not closed is open on its asset; for any assets,
\* handles, descriptors and reads of an engine that closes an asset descriptor after
\* its last use and skips within the file.
THEOREM StreamsAreRight ==
  MCSpec => [](part = "streaming" => Streaming!TypeOK /\ Streaming!StreamsRight)
<1> DEFINE Inv == part = "streaming" => StreamsInv
<1>1. MCInit => Inv
  BY StreamsInit DEF MCInit
<1>2. Inv /\ [MCNext]_allVars => Inv'
  <2> SUFFICES ASSUME StreamsInv, part = "streaming", part' = "streaming", [MCNext]_allVars
               PROVE  StreamsInv'
    BY DEF MCNext, allVars
  <2>1. Streaming!Next \/ UNCHANGED streamingVars
    BY DEF MCNext, allVars, osVars
  <2>2. CASE UNCHANGED streamingVars
    BY <2>2 DEF streamingVars, StreamsInv, StreamSound, OwnersSound, AnswerSound
  <2>3. CASE Streaming!Next
    BY <2>3, OpenStep, GetFileDescriptorStep, ReadStep, AvailableStep, SkipStep, CloseStep, DropStep
       DEF Streaming!Next, Streaming!OpenStream, Streaming!OpenFd
  <2> QED BY <2>1, <2>2, <2>3
<1>3. StreamsInv => Streaming!TypeOK /\ Streaming!StreamsRight
  <2> SUFFICES ASSUME StreamsInv PROVE Streaming!TypeOK /\ Streaming!StreamsRight
    OBVIOUS
  <2>1. Streaming!TypeOK
    BY DEF StreamsInv, Streaming!TypeOK, Streams
  <2>2. \A x \in Handles : h[x].fd # None => open[h[x].fd] = h[x].asset
    BY DEF StreamsInv, StreamSound
  <2> QED BY <2>1, <2>2 DEF StreamsInv, OwnersSound, AnswerSound, Streaming!StreamsRight
<1> QED BY <1>1, <1>2, <1>3, PTL DEF MCSpec

-----------------------------------------------------------------------------
(* The properties of the sound output (AudioProperties).                   *)

\* What FMOD ought to hear, and what the count alone makes it hear.
Heard(i) == /\ ask.role[i] = "rate" => saw[i] = 48000
            /\ ask.role[i] = "frames" => saw[i] = 256
Counted(i) == saw[i] = IF 3 * (at.n - 1) + i - 1 \in {2, 4} THEN 256 ELSE 48000

Places == [n : {1, 2}, q : 1 .. 4, read : BOOLEAN]
QueryStates ==
  /\ ask \in [role : Sounding!Roles, reach : {"key", "field", "nothing"}]
  /\ at \in Places
  /\ at.n <= Attempts \/ at.q = 1
  /\ calls = 3 * (at.n - 1) + at.q - 1
  /\ saw \in Seq({256, 48000}) /\ Len(saw) = at.q - 1
  /\ last \in {None, "rate", "frames"}

\* Names and fields are heard right at once.  Where only the count tells, a first
\* attempt fails when the buffer size is asked for second, and the second attempt
\* asks for it with the fifth call.
QueriesSound ==
  /\ ask.reach # "nothing" => at.n = 1 /\ \A i \in 1 .. Len(saw) : Heard(i)
  /\ ask.reach = "field" /\ at.read =>
       at.q \in 1 .. 3 /\ (ask.role[at.q] # "other" => last = ask.role[at.q])
  /\ ask.reach = "nothing" =>
       /\ last = None /\ ask.role[1] # "frames"
       /\ \A i \in 1 .. Len(saw) : Counted(i)
       /\ at.n = 2 => ask.role[2] = "frames"

SoundingInv == QueryStates /\ QueriesSound

\* An attempt asks for the rate once, and for the buffer size once.
LEMMA RolesOnce ==
  ASSUME NEW r \in Sounding!Roles
  PROVE  /\ r[1] \in {"rate", "frames", "other"} /\ r[2] \in {"rate", "frames", "other"}
         /\ r[3] \in {"rate", "frames", "other"}
         /\ \A x \in {"rate", "frames"} :
              \E i \in 1 .. 3 : r[i] = x /\ \A j \in 1 .. 3 : r[j] = x => j = i
<1>1. r \in [1 .. 3 -> {"rate", "frames", "other"}]
  BY DEF Sounding!Roles
<1>2. 1 \in 1 .. 3 /\ 2 \in 1 .. 3 /\ 3 \in 1 .. 3
  OBVIOUS
<1> QED BY <1>1, <1>2 DEF Sounding!Roles

\* A place with its field read.
LEMMA PlaceRead ==
  ASSUME NEW a \in Places, NEW b, b = [a EXCEPT !.read = TRUE]
  PROVE  b \in Places /\ b.n = a.n /\ b.q = a.q
BY DEF Places

\* The place of the next query.
LEMMA PlaceMoves ==
  ASSUME NEW a \in Places, a.q + 1 \in 1 .. 4, NEW b, b = [a EXCEPT !.q = a.q + 1, !.read = FALSE]
  PROVE  b \in Places /\ b.n = a.n /\ b.q = a.q + 1 /\ b.read = FALSE
BY DEF Places

\* jni_fake.c, field_object: the field that was read last is kept.
LEMMA ReadFieldStep == ASSUME SoundingInv, Sounding!ReadField PROVE SoundingInv'
<1>1. /\ ask.reach = "field" /\ at.n <= Attempts /\ at.q <= 3
      /\ last' = IF ask.role[at.q] = "other" THEN last ELSE ask.role[at.q]
      /\ at' = [at EXCEPT !.read = TRUE] /\ UNCHANGED <<calls, ask, saw>>
  BY DEF Sounding!ReadField, Sounding!Asked
<1>2. /\ QueryStates /\ QueriesSound /\ at.q \in 1 .. 4 /\ at.q \in 1 .. 3
  BY <1>1 DEF SoundingInv, QueryStates, Places
<1>3. at' \in Places /\ at'.n = at.n /\ at'.q = at.q
  <2>1. at \in Places
    BY <1>2 DEF QueryStates
  <2> QED BY <1>1, <2>1, PlaceRead
<1>4. ask.role[at.q] \in {"rate", "frames", "other"}
  BY <1>2, RolesOnce DEF QueryStates
<1>5. QueryStates'
  BY <1>1, <1>2, <1>3, <1>4 DEF QueryStates, Sounding!Roles
<1>6. QueriesSound'
  BY <1>1, <1>2, <1>3 DEF QueriesSound, Heard
<1> QED BY <1>5, <1>6 DEF SoundingInv

\* jni_fake.c, getproperty_value answers by key, field or count.
LEMMA GetPropertyStep == ASSUME SoundingInv, Sounding!GetProperty PROVE SoundingInv'
<1> DEFINE v == IF Sounding!Which = "frames" THEN 256 ELSE 48000
<1>1. /\ at.n <= Attempts /\ at.q <= 3 /\ (ask.reach = "field" => at.read)
      /\ saw' = Append(saw, v) /\ calls' = calls + 1
      /\ at' = [at EXCEPT !.q = @ + 1, !.read = FALSE] /\ UNCHANGED <<last, ask>>
  BY DEF Sounding!GetProperty
<1>2. /\ QueryStates /\ QueriesSound /\ at.q \in 1 .. 3 /\ at.q + 1 \in 1 .. 4
      /\ at.n \in {1, 2}
  BY <1>1 DEF SoundingInv, QueryStates, Places
<1>3. at' \in Places /\ at'.n = at.n /\ at'.q = at.q + 1 /\ at'.read = FALSE
  <2>1. at \in Places
    BY <1>2 DEF QueryStates
  <2>2. at' = [at EXCEPT !.q = at.q + 1, !.read = FALSE]
    BY <1>1
  <2>3. at.q + 1 \in 1 .. 4
    BY <1>2
  <2> QED BY ONLY <2>1, <2>2, <2>3, PlaceMoves
<1>4. v \in {256, 48000}
  OBVIOUS
<1>5. ask.reach # "nothing" => /\ ask.role[at.q] = "rate" => v = 48000
                               /\ ask.role[at.q] = "frames" => v = 256
  <2>1. ask.reach = "key" \/ ask.reach = "field" \/ ask.reach = "nothing"
    BY <1>2 DEF QueryStates
  <2> QED BY <1>1, <1>2, <2>1, SoundingAssumption
          DEF QueriesSound, Sounding!Which, Sounding!Asked, Sounding!PropertiesAssumption
<1>6. ask.reach = "nothing" => v = IF 3 * (at.n - 1) + at.q - 1 \in {2, 4} THEN 256 ELSE 48000
  BY <1>2 DEF QueryStates, QueriesSound, Sounding!Which, Sounding!Asked, Sounding!ByCount
<1> HIDE DEF v
<1>7. /\ saw' \in Seq({256, 48000}) /\ Len(saw') = at.q
      /\ \A i \in 1 .. Len(saw) : saw'[i] = saw[i]
      /\ saw'[at.q] = v
  BY <1>1, <1>2, <1>4 DEF QueryStates
<1>8. calls' = 3 * (at'.n - 1) + at'.q - 1
  BY <1>1, <1>2, <1>3 DEF QueryStates
<1>9. QueryStates'
  BY <1>1, <1>2, <1>3, <1>7, <1>8 DEF QueryStates, Sounding!Roles
<1>10. \A i \in 1 .. Len(saw') : i \in 1 .. Len(saw) \/ i = at.q
  BY <1>2, <1>7 DEF QueryStates
<1>11. QueriesSound'
  <2>1. ask.reach # "nothing" => \A i \in 1 .. Len(saw') : Heard(i)'
    BY <1>1, <1>2, <1>5, <1>7, <1>10 DEF QueriesSound, Heard
  <2>2. ask.reach = "nothing" => \A i \in 1 .. Len(saw') : Counted(i)'
    <3> SUFFICES ASSUME ask.reach = "nothing", NEW i \in 1 .. Len(saw') PROVE Counted(i)'
      OBVIOUS
    <3>1. CASE i \in 1 .. Len(saw)
      <4>1. Counted(i) /\ saw'[i] = saw[i] /\ at'.n = at.n
        BY <1>2, <1>3, <1>7, <3>1 DEF QueriesSound
      <4> QED BY <4>1 DEF Counted
    <3>2. CASE i = at.q
      <4>1. saw'[i] = v /\ at'.n = at.n
        BY <1>3, <1>7, <3>2
      <4> QED BY <1>6, <3>2, <4>1 DEF Counted
    <3> QED BY <1>10, <3>1, <3>2
  <2> QED BY <1>1, <1>2, <1>3, <2>1, <2>2 DEF QueriesSound
<1> QED BY <1>9, <1>11 DEF SoundingInv

\* FMOD tries again, which is only in the first attempt and by the count.
LEMMA RetryStep == ASSUME SoundingInv, Sounding!Retry PROVE SoundingInv'
<1>1. /\ at.q > 3 /\ ~ Sounding!Good /\ at.n <= Attempts
      /\ at' = [n |-> at.n + 1, q |-> 1, read |-> FALSE] /\ saw' = <<>>
      /\ UNCHANGED <<calls, last, ask>>
  BY DEF Sounding!Retry
<1>2. QueryStates /\ QueriesSound /\ at.q = 4 /\ at.n \in {1, 2} /\ Len(saw) = 3
  BY <1>1 DEF SoundingInv, QueryStates, Places
<1>3. Sounding!Good <=> Heard(1) /\ Heard(2) /\ Heard(3)
  BY DEF Sounding!Good, Heard
<1>4. 1 \in 1 .. Len(saw) /\ 2 \in 1 .. Len(saw) /\ 3 \in 1 .. Len(saw)
  BY <1>2
<1>5. ask.reach = "nothing" /\ last = None /\ ask.role[1] # "frames"
  BY <1>1, <1>2, <1>3, <1>4 DEF QueriesSound
<1>6. Counted(1) /\ Counted(2) /\ Counted(3)
  BY <1>2, <1>4, <1>5 DEF QueriesSound
<1>7. \A x \in {"rate", "frames"} : \E i \in 1 .. 3 :
        ask.role[i] = x /\ \A j \in 1 .. 3 : ask.role[j] = x => j = i
  BY <1>2, RolesOnce DEF QueryStates
<1>8. PICK i \in 1 .. 3 : ask.role[i] = "frames"
      /\ \A j \in 1 .. 3 : ask.role[j] = "frames" => j = i
  BY <1>7
<1>9. i = 2 \/ i = 3
  BY <1>5, <1>8
<1>10. /\ \A j \in {1, 2, 3} : j # i => ask.role[j] # "frames"
  BY <1>8
<1>11. CASE at.n = 1
  <2>1. saw[1] = 48000 /\ saw[2] = 48000 /\ saw[3] = 256
    BY <1>6, <1>11 DEF Counted
  <2>2. ASSUME i = 3 PROVE FALSE
    <3>1. ask.role[3] = "frames" /\ ask.role[2] # "frames" /\ ask.role[1] # "frames"
      BY <1>8, <1>10, <2>2
    <3> QED BY <1>1, <1>3, <2>1, <3>1 DEF Heard
  <2>3. ask.role[2] = "frames"
    BY <1>8, <1>9, <2>2
  <2>4. at' \in Places /\ at'.n = 2 /\ at'.q = 1 /\ at'.read = FALSE
    BY <1>1, <1>11 DEF Places
  <2>5. saw' \in Seq({256, 48000}) /\ Len(saw') = 0
    BY <1>1
  <2>6. QueryStates'
    BY <1>1, <1>2, <1>11, <2>4, <2>5 DEF QueryStates, Sounding!Roles
  <2>7. QueriesSound'
    BY <1>1, <1>5, <2>3, <2>4, <2>5 DEF QueriesSound
  <2> QED BY <2>6, <2>7 DEF SoundingInv
<1>12. CASE at.n = 2
  <2>1. saw[1] = 48000 /\ saw[2] = 256 /\ saw[3] = 48000
    BY <1>6, <1>12 DEF Counted
  <2>2. ask.role[2] = "frames"
    BY <1>2, <1>5, <1>12 DEF QueriesSound
  <2>3. i = 2
    BY <1>8, <2>2
  <2>4. ask.role[1] # "frames" /\ ask.role[3] # "frames"
    BY <1>10, <2>3
  <2> QED BY <1>1, <1>3, <2>1, <2>2, <2>4 DEF Heard
<1> QED BY <1>2, <1>11, <1>12

\* jni_fake.c, getproperty_value: one of FMOD's first two attempts hears the rate
\* as the rate, in whatever order it asks and however little of it arrives.
THEOREM OutputAlwaysOpens ==
  MCSpec => [](part = "sounding" => Sounding!TypeOK /\ Sounding!OutputOpens)
<1> DEFINE Inv == part = "sounding" => SoundingInv
<1>1. Sounding!Init => SoundingInv
  <2> SUFFICES ASSUME Sounding!Init PROVE SoundingInv
    OBVIOUS
  <2>1. calls = 0 /\ last = None /\ at = [n |-> 1, q |-> 1, read |-> FALSE] /\ saw = <<>>
    BY DEF Sounding!Init
  <2>2. /\ ask \in [role : Sounding!Roles, reach : {"key", "field", "nothing"}]
        /\ ask.reach = "nothing" => ask.role[1] # "frames"
    BY DEF Sounding!Init
  <2>3. QueryStates
    BY <2>1, <2>2 DEF QueryStates, Places
  <2>4. QueriesSound
    BY <2>1, <2>2 DEF QueriesSound
  <2> QED BY <2>3, <2>4 DEF SoundingInv
<1>2. MCInit => Inv
  BY <1>1 DEF MCInit
<1>3. Inv /\ [MCNext]_allVars => Inv'
  <2> SUFFICES ASSUME SoundingInv, part = "sounding", part' = "sounding", [MCNext]_allVars
               PROVE  SoundingInv'
    BY DEF MCNext, allVars
  <2>1. Sounding!Next \/ UNCHANGED soundingVars
    BY DEF MCNext, allVars, osVars
  <2>2. CASE UNCHANGED soundingVars
    BY <2>2 DEF soundingVars, SoundingInv, QueryStates, QueriesSound, Heard, Counted, Sounding!Roles
  <2>3. CASE Sounding!Next
    <3>1. Sounding!Opened => UNCHANGED soundingVars
      BY DEF Sounding!Opened, Sounding!vars, soundingVars
    <3> QED BY <2>2, <2>3, <3>1, ReadFieldStep, GetPropertyStep, RetryStep DEF Sounding!Next
  <2> QED BY <2>1, <2>2, <2>3
<1>4. SoundingInv => Sounding!TypeOK /\ Sounding!OutputOpens
  <2> SUFFICES ASSUME SoundingInv PROVE Sounding!TypeOK /\ Sounding!OutputOpens
    OBVIOUS
  <2>1. /\ at.n \in {1, 2} /\ at.q \in 1 .. 4 /\ (at.n <= Attempts \/ at.q = 1)
        /\ calls = 3 * (at.n - 1) + at.q - 1 /\ last \in {None, "rate", "frames"}
    BY DEF SoundingInv, QueryStates, Places
  <2>2. Attempts \in Nat \ {0}
    BY SoundingAssumption DEF Sounding!PropertiesAssumption
  <2>3. calls \in 0 .. 3 * Attempts
    BY <2>1, <2>2
  <2> QED BY <2>1, <2>3 DEF Sounding!TypeOK, Sounding!OutputOpens
<1> QED BY <1>2, <1>3, <1>4, PTL DEF MCSpec

-----------------------------------------------------------------------------
(* Strings and arrays. *)

Units == DOMAIN UnitBytes
UnitByte == [unit : Units, byte : Nat]
Encodings == Seq(UnitByte)
FirstBytes(x) == {i \in DOMAIN x : x[i].byte = 1}

\* The sizes that strings and arrays have.
LEMMA ArraySizes ==
  /\ \A u \in Units : UnitBytes[u] \in 0 .. 3
  /\ MaxUnits \in Nat /\ MaxArray \in Nat /\ Starts \subseteq Int /\ Lens \subseteq Int
  /\ Keeping!Zero # Keeping!Foreign /\ Keeping!Foreign \notin Elements
BY CallingAssumption DEF Keeping!ArraysAssumption, Keeping!Units, Units, Keeping!Zero,
   Keeping!Foreign

\* A function on the numbers up to n is a sequence of that length.
LEMMA SeqOfLength ==
  ASSUME NEW S, NEW n \in Nat, NEW x \in [1 .. n -> S]
  PROVE  x \in Seq(S) /\ Len(x) = n
OBVIOUS

\* What is appended to a sequence is its last element, behind the rest.
LEMMA FrontOfAppend ==
  ASSUME NEW S, NEW x \in Seq(S), NEW e
  PROVE  /\ Append(x, e) # <<>> /\ Len(Append(x, e)) = Len(x) + 1
         /\ Keeping!Front(Append(x, e)) = x /\ Keeping!Last(Append(x, e)) = e
<1>1. PICK T : T = S \cup {e}
  OBVIOUS
<1>2. x \in Seq(T) /\ e \in T
  BY <1>1
<1> QED BY <1>2 DEF Keeping!Front, Keeping!Last

\* The bytes of a unit are numbered from one.
LEMMA UnitBytesAre ==
  ASSUME NEW u \in Units
  PROVE  /\ Keeping!Utf8(u) \in Encodings /\ Len(Keeping!Utf8(u)) = UnitBytes[u]
         /\ \A k \in 1 .. UnitBytes[u] : /\ Keeping!Utf8(u)[k].unit = u
                                         /\ Keeping!Utf8(u)[k].byte = k
<1>1. PICK n \in 0 .. 3 : n = UnitBytes[u]
  BY ArraySizes
<1>2. PICK x : x = [k \in 1 .. n |-> [unit |-> u, byte |-> k]]
  OBVIOUS
<1>3. Keeping!Utf8(u) = x
  BY <1>1, <1>2 DEF Keeping!Utf8
<1>4. n \in Nat /\ x \in [1 .. n -> UnitByte]
  BY <1>2 DEF UnitByte
<1>5. x \in Encodings /\ Len(x) = n
  BY <1>4, SeqOfLength DEF Encodings
<1>6. \A k \in 1 .. n : x[k].unit = u /\ x[k].byte = k
  BY <1>2
<1> QED BY <1>1, <1>3, <1>5, <1>6

\* The end of a string and what is before it.
LEMMA EndOfString ==
  /\ \A s \in Seq(Units), u \in Units : /\ Append(s, u) \in Seq(Units) /\ Append(s, u) # <<>>
                                        /\ Keeping!Front(Append(s, u)) = s
                                        /\ Keeping!Last(Append(s, u)) = u
  /\ \A s \in Seq(Units) : s # <<>> =>
       /\ Keeping!Front(s) \in Seq(Units) /\ Keeping!Last(s) \in Units
       /\ s = Append(Keeping!Front(s), Keeping!Last(s))
<1>1. ASSUME NEW s \in Seq(Units), NEW u \in Units
      PROVE  /\ Append(s, u) \in Seq(Units) /\ Append(s, u) # <<>>
             /\ Keeping!Front(Append(s, u)) = s /\ Keeping!Last(Append(s, u)) = u
  BY DEF Keeping!Front, Keeping!Last
<1>2. ASSUME NEW s \in Seq(Units), s # <<>>
      PROVE  /\ Keeping!Front(s) \in Seq(Units) /\ Keeping!Last(s) \in Units
             /\ s = Append(Keeping!Front(s), Keeping!Last(s))
  BY <1>2 DEF Keeping!Front, Keeping!Last
<1> QED BY <1>1, <1>2

\* What a string is kept as, unit by unit.
LEMMA EncodedIs ==
  /\ \A s \in Seq(Units) : Keeping!EncodedOf[s] \in Encodings
  /\ Keeping!EncodedOf[<<>>] = <<>>
  /\ \A s \in Seq(Units), u \in Units :
       Keeping!EncodedOf[Append(s, u)] = Keeping!EncodedOf[s] \o Keeping!Utf8(u)
<1> DEFINE step == [p \in Encodings \X Units |-> p[1] \o Keeping!Utf8(p[2])]
<1>1. ASSUME NEW r \in Encodings, NEW u \in Units PROVE r \o Keeping!Utf8(u) \in Encodings
  <2>1. Keeping!Utf8(u) \in Encodings
    BY UnitBytesAre
  <2> QED BY <2>1 DEF Encodings
<1>2. \A r \in Encodings, u \in Units : step[<<r, u>>] = r \o Keeping!Utf8(u)
  OBVIOUS
<1>3. <<>> \in Encodings
  BY DEF Encodings
<1> HIDE DEF step
<1>4. PICK f : Recurses(f, Units, Encodings, <<>>, step)
  BY <1>1, <1>2, <1>3, RecursionExists
<1>5. f = [s \in Seq(Units) |-> IF s = <<>> THEN <<>>
             ELSE f[Keeping!Front(s)] \o Keeping!Utf8(Keeping!Last(s))]
  <2>1. f \in [Seq(Units) -> Encodings] /\ f[<<>>] = <<>>
    BY <1>4 DEF Recurses
  <2>2. ASSUME NEW s \in Seq(Units), s # <<>>
        PROVE  f[s] = f[Keeping!Front(s)] \o Keeping!Utf8(Keeping!Last(s))
    <3>1. PICK p, u : p = Keeping!Front(s) /\ u = Keeping!Last(s)
      OBVIOUS
    <3>2. p \in Seq(Units) /\ u \in Units /\ s = Append(p, u)
      BY <2>2, <3>1, EndOfString
    <3>3. f[s] = step[<<f[p], u>>] /\ f[p] \in Encodings
      BY <1>4, <2>1, <3>2 DEF Recurses
    <3> QED BY <1>2, <3>1, <3>2, <3>3
  <2> QED BY <2>1, <2>2
<1>6. Keeping!EncodedOf = [s \in Seq(Units) |-> IF s = <<>> THEN <<>>
             ELSE Keeping!EncodedOf[Keeping!Front(s)] \o Keeping!Utf8(Keeping!Last(s))]
  BY <1>5, Zenon DEF Keeping!EncodedOf, Keeping!Units, Units
<1>7. ASSUME NEW s \in Seq(Units), NEW u \in Units
      PROVE  Keeping!EncodedOf[Append(s, u)] = Keeping!EncodedOf[s] \o Keeping!Utf8(u)
  <2>1. Append(s, u) \in Seq(Units) /\ Append(s, u) # <<>>
        /\ Keeping!Front(Append(s, u)) = s /\ Keeping!Last(Append(s, u)) = u
    BY EndOfString
  <2> QED BY <1>6, <2>1
<1>8. Keeping!EncodedOf[<<>>] = <<>>
  BY <1>6
<1>9. \A s \in Seq(Units) : Keeping!EncodedOf[s] \in Encodings
  BY <1>1, <1>3, <1>7, <1>8, AllValues
<1> QED BY <1>7, <1>8, <1>9

\* A string takes at most three bytes for each unit.
LEMMA ThreeBytes ==
  \A s \in Seq(Units) : Len(Keeping!EncodedOf[s]) <= 3 * Len(s)
<1> DEFINE T == {s \in Seq(Units) : Len(Keeping!EncodedOf[s]) <= 3 * Len(s)}
<1>1. <<>> \in T
  BY EncodedIs
<1>2. ASSUME NEW s \in Seq(Units), NEW u \in Units, s \in T PROVE Append(s, u) \in T
  <2>1. PICK x, y : x = Keeping!EncodedOf[s] /\ y = Keeping!Utf8(u)
    OBVIOUS
  <2>2. Keeping!EncodedOf[Append(s, u)] = x \o y /\ x \in Encodings
    BY <2>1, EncodedIs
  <2>3. y \in Encodings /\ Len(y) \in 0 .. 3
    BY <2>1, UnitBytesAre, ArraySizes
  <2>4. Len(x \o y) = Len(x) + Len(y) /\ Len(x) \in Nat
    BY <2>2, <2>3 DEF Encodings
  <2>5. Len(x) <= 3 * Len(s)
    BY <1>2, <2>1
  <2>6. PICK z : z = Append(s, u)
    OBVIOUS
  <2>7. z \in Seq(Units) /\ Len(z) = Len(s) + 1 /\ Len(s) \in Nat
    BY <2>6
  <2>8. Len(Keeping!EncodedOf[z]) <= 3 * Len(z)
    <3>1. PICK e : e = Keeping!EncodedOf[z]
      OBVIOUS
    <3>2. e = x \o y
      BY <2>2, <2>6, <3>1
    <3>3. PICK k, m, n : k = Len(s) /\ m = Len(x) /\ n = Len(y)
      OBVIOUS
    <3>4. k \in Nat /\ m \in Nat /\ n \in 0 .. 3 /\ m <= 3 * k
      BY <2>3, <2>4, <2>5, <2>7, <3>3
    <3>5. Len(e) = m + n /\ Len(z) = k + 1
      BY <2>4, <2>7, <3>2, <3>3
    <3>6. m + n <= 3 * (k + 1)
      BY <3>4
    <3> QED BY <3>1, <3>5, <3>6
  <2> QED BY <2>6, <2>7, <2>8
<1> HIDE DEF T
<1>3. Seq(Units) \subseteq T
  BY <1>1, <1>2, AllSequences
<1> QED BY <1>3 DEF T

\* Where no unit is zero, there is a first byte for each unit.
LEMMA UnitsCounted ==
  \A s \in Seq(Units) : (\A i \in DOMAIN s : UnitBytes[s[i]] # 0) =>
    Cardinality(FirstBytes(Keeping!EncodedOf[s])) = Len(s)
<1> DEFINE Full(s) == \A i \in DOMAIN s : UnitBytes[s[i]] # 0
           Firsts(s) == FirstBytes(Keeping!EncodedOf[s])
           T == {s \in Seq(Units) : Full(s) =>
                   IsFiniteSet(Firsts(s)) /\ Cardinality(Firsts(s)) = Len(s)}
<1>1. <<>> \in T
  <2>1. Firsts(<<>>) = {}
    BY EncodedIs DEF FirstBytes
  <2> QED BY <2>1, FS_EmptySet
<1>2. ASSUME NEW s \in Seq(Units), NEW u \in Units, s \in T PROVE Append(s, u) \in T
  <2> SUFFICES ASSUME Full(Append(s, u))
               PROVE  /\ IsFiniteSet(Firsts(Append(s, u)))
                      /\ Cardinality(Firsts(Append(s, u))) = Len(Append(s, u))
    <3>1. Append(s, u) \in Seq(Units)
      OBVIOUS
    <3> QED BY <3>1
  <2>1. /\ Append(s, u) \in Seq(Units) /\ Len(Append(s, u)) = Len(s) + 1 /\ Len(s) \in Nat
        /\ Append(s, u)[Len(s) + 1] = u /\ \A i \in 1 .. Len(s) : Append(s, u)[i] = s[i]
    OBVIOUS
  <2>2. Full(s) /\ UnitBytes[u] # 0
    BY <2>1
  <2>3. PICK x, y : x = Keeping!EncodedOf[s] /\ y = Keeping!Utf8(u)
    OBVIOUS
  <2>4. Keeping!EncodedOf[Append(s, u)] = x \o y /\ x \in Encodings
    BY <2>3, EncodedIs
  <2>5. y \in Encodings /\ Len(y) \in 1 .. 3 /\ \A k \in 1 .. Len(y) : y[k].byte = k
    <3>1. UnitBytes[u] \in 1 .. 3
      BY <2>2, ArraySizes
    <3>2. y \in Encodings /\ Len(y) = UnitBytes[u] /\ \A k \in 1 .. UnitBytes[u] : y[k].byte = k
      BY <2>3, UnitBytesAre
    <3> QED BY <3>1, <3>2
  <2>6. /\ DOMAIN (x \o y) = 1 .. Len(x) + Len(y) /\ Len(x) \in Nat /\ DOMAIN x = 1 .. Len(x)
        /\ \A i \in 1 .. Len(x) : (x \o y)[i] = x[i]
        /\ \A k \in 1 .. Len(y) : (x \o y)[Len(x) + k] = y[k]
    BY <2>4, <2>5 DEF Encodings
  <2>7. FirstBytes(x \o y) = FirstBytes(x) \cup {Len(x) + 1}
    <3>1. ASSUME NEW i PROVE i \in FirstBytes(x \o y) <=> i \in FirstBytes(x) \cup {Len(x) + 1}
      <4>1. CASE i \in 1 .. Len(x)
        BY <2>5, <2>6, <4>1 DEF FirstBytes
      <4>2. CASE i \in Len(x) + 1 .. Len(x) + Len(y)
        <5>1. PICK k \in 1 .. Len(y) : i = Len(x) + k
          <6>1. i - Len(x) \in 1 .. Len(y) /\ i = Len(x) + (i - Len(x))
            BY <2>5, <2>6, <4>2
          <6> QED BY <6>1
        <5>2. (x \o y)[i].byte = k
          BY <2>5, <2>6, <5>1
        <5>3. i \in FirstBytes(x \o y) <=> k = 1
          BY <2>5, <2>6, <4>2, <5>2 DEF FirstBytes
        <5>4. i \notin FirstBytes(x)
          BY <2>5, <2>6, <5>1 DEF FirstBytes
        <5> QED BY <2>5, <2>6, <5>1, <5>3, <5>4
      <4>3. CASE i \notin 1 .. Len(x) + Len(y)
        <5>1. PICK m, n : m = Len(x) /\ n = Len(y)
          OBVIOUS
        <5>2. m \in Nat /\ n \in 1 .. 3
          BY <2>5, <2>6, <5>1
        <5>3. m + 1 \in 1 .. m + n /\ \A k \in 1 .. m : k \in 1 .. m + n
          BY <5>2
        <5>4. i \notin 1 .. Len(x) /\ i # Len(x) + 1
          BY <4>3, <5>1, <5>3
        <5> QED BY <2>6, <4>3, <5>4 DEF FirstBytes
      <4> QED BY <2>5, <2>6, <4>1, <4>2, <4>3
    <3> QED BY <3>1
  <2>8. Len(x) + 1 \notin FirstBytes(x)
    BY <2>6 DEF FirstBytes
  <2>9. IsFiniteSet(FirstBytes(x)) /\ Cardinality(FirstBytes(x)) = Len(s)
    BY <1>2, <2>2, <2>3
  <2>10. /\ IsFiniteSet(FirstBytes(x \o y))
         /\ Cardinality(FirstBytes(x \o y)) = Cardinality(FirstBytes(x)) + 1
    <3>1. PICK F : F = FirstBytes(x)
      OBVIOUS
    <3>2. IsFiniteSet(F) /\ Len(x) + 1 \notin F
      BY <2>8, <2>9, <3>1
    <3>3. IsFiniteSet(F \cup {Len(x) + 1}) /\ Cardinality(F \cup {Len(x) + 1}) = Cardinality(F) + 1
      BY <3>2, FS_AddElement, Zenon
    <3> QED BY <2>7, <3>1, <3>3
  <2> QED BY <2>1, <2>4, <2>9, <2>10
<1> HIDE DEF T
<1>3. Seq(Units) \subseteq T
  BY <1>1, <1>2, AllSequences
<1> QED BY <1>3 DEF T

\* Where each unit is one byte, the bytes are the units.
LEMMA SingleBytesAre ==
  \A s \in Seq(Units) : (\A i \in DOMAIN s : UnitBytes[s[i]] = 1) =>
    /\ Len(Keeping!EncodedOf[s]) = Len(s)
    /\ \A i \in 1 .. Len(s) : Keeping!EncodedOf[s][i].unit = s[i]
<1> DEFINE Single(s) == \A i \in DOMAIN s : UnitBytes[s[i]] = 1
           Same(s) == /\ Len(Keeping!EncodedOf[s]) = Len(s)
                      /\ \A i \in 1 .. Len(s) : Keeping!EncodedOf[s][i].unit = s[i]
           T == {s \in Seq(Units) : Single(s) => Same(s)}
<1>1. <<>> \in T
  BY EncodedIs
<1>2. ASSUME NEW s \in Seq(Units), NEW u \in Units, s \in T PROVE Append(s, u) \in T
  <2> SUFFICES ASSUME Single(Append(s, u)) PROVE Same(Append(s, u))
    <3>1. Append(s, u) \in Seq(Units)
      OBVIOUS
    <3> QED BY <3>1
  <2>1. /\ Append(s, u) \in Seq(Units) /\ Len(Append(s, u)) = Len(s) + 1 /\ Len(s) \in Nat
        /\ Append(s, u)[Len(s) + 1] = u /\ \A i \in 1 .. Len(s) : Append(s, u)[i] = s[i]
    OBVIOUS
  <2>2. Single(s) /\ UnitBytes[u] = 1
    BY <2>1
  <2>3. PICK x, y : x = Keeping!EncodedOf[s] /\ y = Keeping!Utf8(u)
    OBVIOUS
  <2>4. Keeping!EncodedOf[Append(s, u)] = x \o y /\ x \in Encodings
    BY <2>3, EncodedIs
  <2>5. y \in Encodings /\ Len(y) = 1 /\ y[1].unit = u
    <3>1. y \in Encodings /\ Len(y) = UnitBytes[u] /\ \A k \in 1 .. UnitBytes[u] : y[k].unit = u
      BY <2>3, UnitBytesAre
    <3>2. 1 \in 1 .. UnitBytes[u]
      BY <2>2
    <3> QED BY <2>2, <3>1, <3>2
  <2>6. Len(x) = Len(s) /\ \A i \in 1 .. Len(s) : x[i].unit = s[i]
    BY <1>2, <2>2, <2>3
  <2>7. /\ Len(x \o y) = Len(x) + 1
        /\ \A i \in 1 .. Len(x) : (x \o y)[i] = x[i]
        /\ (x \o y)[Len(x) + 1] = y[1]
    <3>1. x \in Seq(UnitByte) /\ y \in Seq(UnitByte) /\ Len(y) = 1 /\ Len(x) \in Nat
      BY <2>4, <2>5 DEF Encodings
    <3>2. /\ Len(x \o y) = Len(x) + Len(y)
          /\ \A i \in 1 .. Len(x) + Len(y) :
               (x \o y)[i] = IF i <= Len(x) THEN x[i] ELSE y[i - Len(x)]
      BY <3>1, ConcatProperties
    <3>3. PICK m \in Nat : m = Len(x)
      BY <3>1
    <3>4. /\ \A i \in 1 .. m : i \in 1 .. m + 1 /\ i <= m
          /\ m + 1 \in 1 .. m + 1 /\ ~ (m + 1 <= m) /\ (m + 1) - m = 1
      OBVIOUS
    <3>5. \A i \in 1 .. m + 1 : (x \o y)[i] = IF i <= m THEN x[i] ELSE y[i - m]
      BY <3>1, <3>2, <3>3
    <3>6. /\ \A i \in 1 .. m : (x \o y)[i] = x[i]
          /\ (x \o y)[m + 1] = y[1]
      BY <3>4, <3>5
    <3> QED BY <3>1, <3>2, <3>3, <3>6
  <2>8. \A i \in 1 .. Len(s) + 1 : i \in 1 .. Len(s) \/ i = Len(s) + 1
    BY <2>1
  <2> QED BY <2>1, <2>4, <2>5, <2>6, <2>7, <2>8
<1> HIDE DEF T
<1>3. Seq(Units) \subseteq T
  BY <1>1, <1>2, AllSequences
<1> QED BY <1>3 DEF T

\* What comes before the first zero has none.
LEMMA BeforeZero ==
  ASSUME NEW s \in Seq(Units)
  PROVE  /\ Keeping!UpToZero(s) \in Seq(Units) /\ Len(Keeping!UpToZero(s)) <= Len(s)
         /\ \A i \in DOMAIN Keeping!UpToZero(s) : UnitBytes[Keeping!UpToZero(s)[i]] # 0
         /\ (\A i \in DOMAIN s : UnitBytes[s[i]] # 0) => Keeping!UpToZero(s) = s
<1> DEFINE Z == {i \in DOMAIN s : UnitBytes[s[i]] = 0}
           First == CHOOSE i \in Z : \A k \in Z : i <= k
<1>1. CASE Z = {}
  <2>1. Keeping!UpToZero(s) = s
    BY <1>1 DEF Keeping!UpToZero
  <2> QED BY <1>1, <2>1
<1>2. CASE Z # {}
  <2>1. Z \subseteq Nat /\ Z \subseteq 1 .. Len(s)
    OBVIOUS
  <2>2. \E i \in Z : \A k \in Z : i <= k
    BY <1>2, <2>1, MinIsLeast
  <2>3. First \in Z /\ \A k \in Z : First <= k
    BY <2>2
  <2>4. PICK n : n = First
    OBVIOUS
  <2>5. n \in 1 .. Len(s) /\ \A k \in 1 .. n - 1 : k \in 1 .. Len(s) /\ UnitBytes[s[k]] # 0
    BY <2>1, <2>3, <2>4
  <2>6. Keeping!UpToZero(s) = SubSeq(s, 1, n - 1)
    BY <1>2, <2>4 DEF Keeping!UpToZero
  <2>7. /\ SubSeq(s, 1, n - 1) \in Seq(Units) /\ Len(SubSeq(s, 1, n - 1)) = n - 1
        /\ DOMAIN SubSeq(s, 1, n - 1) = 1 .. n - 1
        /\ \A k \in 1 .. n - 1 : SubSeq(s, 1, n - 1)[k] = s[k]
    BY <2>5
  <2> QED BY <1>2, <2>5, <2>6, <2>7
<1> QED BY <1>1, <1>2

\* What the engine's buffer has is the region it asked for, or a part of the array.
BufferSound ==
  /\ buf.of \in {"nothing", "utf", "string", "set", "array"}
  /\ buf.of \in {"nothing", "set"} => Len(buf.got) <= buf.room
  /\ buf.of \in {"utf", "string"} => buf.from \in Int /\ buf.len \in Int
  /\ buf.of = "string" => /\ buf.room = Keeping!Clamp(buf.len, 0, buf.len)
                          /\ buf.got = Keeping!Region(buf.from, buf.len)
  /\ buf.of = "utf" => /\ buf.room = Keeping!Clamp(buf.len, 0, buf.len) + 1
                       /\ buf.got = Append(Keeping!Region(buf.from, buf.len), Keeping!Nul)
  /\ buf.of = "array" /\ ~ Keeping!RanOff =>
       /\ Len(buf.got) <= buf.room
       /\ \A i \in DOMAIN buf.got : buf.got[i] # Keeping!Foreign

CellValues == Elements \cup {Keeping!Zero, Keeping!Foreign}
ArraysInv ==
  /\ units \in Seq(Units) /\ Len(units) <= MaxUnits
  /\ bytes = Keeping!Encoded(units)
  /\ dup.wrote <= dup.room
  /\ array \in [len : 0 .. MaxArray, cells : [1 .. 2 * MaxArray -> CellValues]]
  /\ Keeping!RanOff \/
       \A i \in 1 .. 2 * MaxArray : array.cells[i] = Keeping!Foreign <=> i > array.len
  /\ BufferSound

\* A region of a text is inside the text.
LEMMA RegionInside ==
  ASSUME NEW start \in Int, NEW len \in Int, bytes \in Encodings
  PROVE  /\ Keeping!Region(start, len) \in Seq(UnitByte)
         /\ Len(Keeping!Region(start, len)) <= Keeping!Clamp(len, 0, len)
         /\ start >= 0 => \A i \in DOMAIN Keeping!Region(start, len) :
              /\ start + i \in 1 .. Len(bytes)
              /\ Keeping!Region(start, len)[i] = bytes[start + i]
         /\ start >= 0 /\ start + len <= Len(bytes) =>
              Len(Keeping!Region(start, len)) = Keeping!Clamp(len, 0, len)
<1>1. PICK n \in Nat : n = Len(bytes)
  BY DEF Encodings
<1>2. PICK from \in 0 .. n : /\ from = Keeping!Clamp(start, 0, n)
                             /\ start >= 0 => from = start \/ (from = n /\ start > n)
  BY DEF Keeping!Clamp
<1>3. PICK size \in 0 .. n : /\ size = Keeping!Clamp(len, 0, n - from) /\ size <= n - from
                             /\ size = IF len < 0 THEN 0 ELSE
                                          IF len > n - from THEN n - from ELSE len
  BY <1>2 DEF Keeping!Clamp
<1>4. Keeping!Region(start, len) = SubSeq(bytes, from + 1, from + size)
  BY <1>1, <1>2, <1>3 DEF Keeping!Region, Keeping!LengthInside
<1>5. PICK x : x = SubSeq(bytes, from + 1, from + size)
  OBVIOUS
<1>6. x \in Seq(UnitByte) /\ Len(x) = size /\ DOMAIN x = 1 .. size /\ \A i \in 1 .. size : x[i] = bytes[from + i]
  <2>1. PICK low, high \in Int : low = from + 1 /\ high = from + size
    BY <1>2, <1>3
  <2>2. \A i \in low .. high : bytes[i] \in UnitByte
    <3>1. \A i \in low .. high : i \in 1 .. n
      BY <1>2, <1>3, <2>1
    <3>2. bytes \in Seq(UnitByte)
      BY DEF Encodings
    <3> QED BY <1>1, <3>1, <3>2
  <2>3. x = SubSeq(bytes, low, high)
    BY <1>5, <2>1
  <2>4. /\ x \in Seq(UnitByte) /\ Len(x) = IF low <= high THEN high - low + 1 ELSE 0
        /\ \A i \in 1 .. high - low + 1 : x[i] = bytes[low + i - 1]
    <3>1. /\ SubSeq(bytes, low, high) \in Seq(UnitByte)
          /\ Len(SubSeq(bytes, low, high)) = IF low <= high THEN high - low + 1 ELSE 0
          /\ \A i \in 1 .. high - low + 1 : SubSeq(bytes, low, high)[i] = bytes[low + i - 1]
      BY <2>2, SubSeqProperties
    <3> QED BY <2>3, <3>1
  <2>5. /\ high - low + 1 = size /\ \A i \in 1 .. size : low + i - 1 = from + i
        /\ (IF low <= high THEN high - low + 1 ELSE 0) = size
    BY <1>2, <1>3, <2>1
  <2>6. Len(x) = size
    BY <2>4, <2>5
  <2>7. DOMAIN x = 1 .. size
    BY <2>4, <2>6
  <2>8. \A i \in 1 .. size : x[i] = bytes[from + i]
    BY <2>4, <2>5
  <2> QED BY <2>4, <2>6, <2>7, <2>8
<1>7. Len(x) <= Keeping!Clamp(len, 0, len)
  BY <1>3, <1>6 DEF Keeping!Clamp
<1>8. ASSUME start >= 0, NEW i \in DOMAIN x PROVE start + i \in 1 .. n /\ x[i] = bytes[start + i]
  <2>1. i \in 1 .. size
    BY <1>6, <1>8
  <2>2. from = start
    BY <1>2, <1>3, <1>8, <2>1
  <2> QED BY <1>3, <1>6, <2>1, <2>2
<1>9. ASSUME start >= 0, start + len <= n PROVE Len(x) = Keeping!Clamp(len, 0, len)
  <2>1. CASE start > n
    BY <1>2, <1>3, <1>6, <1>9, <2>1 DEF Keeping!Clamp
  <2>2. CASE ~ (start > n)
    BY <1>2, <1>3, <1>6, <1>9, <2>2 DEF Keeping!Clamp
  <2> QED BY <2>1, <2>2
<1> QED BY <1>1, <1>4, <1>5, <1>6, <1>7, <1>8, <1>9

\* The empty string has no bytes.
LEMMA EmptyText == Keeping!Encoded(<<>>) = <<>>
<1>1. <<>> \in Seq(Units) /\ \A i \in DOMAIN <<>> : UnitBytes[<<>>[i]] # 0
  OBVIOUS
<1>2. Keeping!UpToZero(<<>>) = <<>>
  BY <1>1, BeforeZero
<1> QED BY <1>2, EncodedIs DEF Keeping!Encoded

\* A text is kept whole.
LEMMA TextKept ==
  ASSUME ArraysInv
  PROVE  bytes \in Encodings
BY BeforeZero, EncodedIs DEF ArraysInv, Keeping!Encoded

\* A new string is kept whole, and its copy has the room it needs.
LEMMA NewTextStep ==
  ASSUME ArraysInv, ~ Keeping!RanOff, NEW s \in Keeping!SeqOf(Units, MaxUnits),
         Keeping!NewString(s)
  PROVE  ArraysInv'
<1>1. s \in Seq(Units) /\ Len(s) <= MaxUnits
  <2>1. PICK m \in 0 .. MaxUnits : s \in [1 .. m -> Units]
    BY DEF Keeping!SeqOf
  <2>2. m \in Nat /\ m <= MaxUnits
    BY ArraySizes
  <2> QED BY <2>1, <2>2, SeqOfLength
<1>2. units' = s /\ bytes' = Keeping!Encoded(s) /\ array' = array /\ buf' = Keeping!Nothing
  BY DEF Keeping!NewString
<1>3. dup'.wrote <= dup'.room
  <2>1. dup' = [wrote |-> Len(Keeping!EncodedOf[s]) + 1, room |-> 3 * Len(s) + 1]
    BY DEF Keeping!NewString
  <2>2. Len(Keeping!EncodedOf[s]) <= 3 * Len(s) /\ Len(s) \in Nat
    BY <1>1, ThreeBytes
  <2>3. Len(Keeping!EncodedOf[s]) \in Nat
    BY <1>1, EncodedIs DEF Encodings
  <2>4. PICK m, n : m = Len(Keeping!EncodedOf[s]) /\ n = 3 * Len(s)
    OBVIOUS
  <2>5. m + 1 <= n + 1
    BY <2>2, <2>3, <2>4
  <2> QED BY <2>1, <2>4, <2>5
<1>4. BufferSound'
  BY <1>2 DEF BufferSound, Keeping!Nothing
<1>5. bytes' = Keeping!Encoded(units)'
  BY <1>2 DEF Keeping!Encoded
<1>6. \A i \in 1 .. 2 * MaxArray : array.cells[i] = Keeping!Foreign <=> i > array.len
  BY DEF ArraysInv
<1> QED BY <1>1, <1>2, <1>3, <1>4, <1>5, <1>6 DEF ArraysInv

\* A region of a string is what was asked for.
LEMMA GetTextStep ==
  ASSUME ArraysInv, ~ Keeping!RanOff, NEW start \in Int, NEW len \in Int,
         Keeping!GetUTFRegion(start, len) \/ Keeping!GetRegion(start, len)
  PROVE  ArraysInv'
<1>1. units' = units /\ bytes' = bytes /\ array' = array /\ dup' = dup
  BY DEF Keeping!GetUTFRegion, Keeping!GetRegion
<1>2. PICK x : x = Keeping!Region(start, len)
  OBVIOUS
<1>3. Keeping!Region(start, len)' = x
  BY <1>1, <1>2 DEF Keeping!Region, Keeping!LengthInside, Keeping!Clamp
<1>4. \/ buf' = [room |-> Keeping!Clamp(len, 0, len) + 1, got |-> Append(x, Keeping!Nul),
                of |-> "utf", from |-> start, len |-> len]
      \/ buf' = [room |-> Keeping!Clamp(len, 0, len), got |-> x, of |-> "string",
                from |-> start, len |-> len]
  BY <1>2 DEF Keeping!GetUTFRegion, Keeping!GetRegion
<1>5. BufferSound'
  BY <1>3, <1>4 DEF BufferSound, Keeping!Clamp
<1>6. bytes' = Keeping!Encoded(units)'
  BY <1>1 DEF ArraysInv, Keeping!Encoded
<1>7. \A i \in 1 .. 2 * MaxArray : array.cells[i] = Keeping!Foreign <=> i > array.len
  BY DEF ArraysInv
<1> QED BY <1>1, <1>5, <1>6, <1>7 DEF ArraysInv

\* So is the whole of it, into a buffer of as many units.
LEMMA GetWholeStep ==
  ASSUME ArraysInv, ~ Keeping!RanOff, Keeping!GetWhole
  PROVE  ArraysInv'
<1>1. PICK n : n = Keeping!UnitsIn(bytes)
  OBVIOUS
<1>2. n \in Nat
  <2>1. bytes \in Encodings
    BY TextKept
  <2>2. DOMAIN bytes = 1 .. Len(bytes) /\ Len(bytes) \in Nat
    BY <2>1 DEF Encodings
  <2>3. IsFiniteSet(1 .. Len(bytes))
    BY <2>2, FS_Interval
  <2>4. IsFiniteSet({i \in DOMAIN bytes : bytes[i].byte = 1})
    BY <2>2, <2>3, FS_Subset
  <2> QED BY <1>1, <2>4, FS_CardinalityType DEF Keeping!UnitsIn, Keeping!Cardinality, Cardinality
<1>3. Keeping!Clamp(n, 0, n) = n
  BY <1>2 DEF Keeping!Clamp
<1>4. Keeping!GetRegion(0, n)
  BY <1>1, <1>3 DEF Keeping!GetWhole, Keeping!GetRegion
<1> QED BY <1>2, <1>4, GetTextStep

\* Cells as they are allocated are zero up to the end of the array.
LEMMA CellsAre ==
  ASSUME NEW n \in 0 .. MaxArray
  PROVE  /\ Keeping!Cells(n) \in [1 .. 2 * MaxArray -> CellValues]
         /\ \A i \in 1 .. 2 * MaxArray : Keeping!Cells(n)[i] = Keeping!Foreign <=> i > n
BY ArraySizes DEF Keeping!Cells, CellValues

\* A new array has its own cells.
LEMMA NewArrayStep ==
  ASSUME ArraysInv, ~ Keeping!RanOff, NEW n \in 0 .. MaxArray, Keeping!NewArray(n)
  PROVE  ArraysInv'
<1>1. PICK x : x = Keeping!Cells(n)
  OBVIOUS
<1>2. /\ x \in [1 .. 2 * MaxArray -> CellValues]
      /\ \A i \in 1 .. 2 * MaxArray : x[i] = Keeping!Foreign <=> i > n
  BY <1>1, CellsAre
<1>3. array' = [len |-> n, cells |-> x]
  BY <1>1 DEF Keeping!NewArray
<1>4. units' = units /\ bytes' = bytes /\ dup' = dup /\ buf' = Keeping!Nothing
  BY DEF Keeping!NewArray
<1>5. BufferSound'
  BY <1>4 DEF BufferSound, Keeping!Nothing
<1>6. bytes' = Keeping!Encoded(units)'
  BY <1>4 DEF ArraysInv, Keeping!Encoded
<1> QED BY <1>2, <1>3, <1>4, <1>5, <1>6 DEF ArraysInv

\* Elements are put inside the array.
LEMMA SetArrayStep ==
  ASSUME ArraysInv, ~ Keeping!RanOff, NEW start \in Int, NEW len \in Int, NEW e \in Elements,
         Keeping!SetArrayRegion(start, len, e)
  PROVE  ArraysInv'
<1>1. PICK n, x : n = array.len /\ x = array.cells
  OBVIOUS
<1>2. /\ array = [len |-> n, cells |-> x] /\ n \in 0 .. MaxArray
      /\ x \in [1 .. 2 * MaxArray -> CellValues]
      /\ \A i \in 1 .. 2 * MaxArray : x[i] = Keeping!Foreign <=> i > n
  BY <1>1 DEF ArraysInv
<1>3. PICK end : end = Keeping!CopyEnd(start, len)
  OBVIOUS
<1>4. PICK y : y = [i \in DOMAIN x |-> IF i \in start + 1 .. end THEN e ELSE x[i]]
  OBVIOUS
<1>5. array' = [len |-> n, cells |-> y]
  BY <1>2, <1>3, <1>4 DEF Keeping!SetArrayRegion
<1>6. start >= 0 /\ start + len <= n
  BY <1>1 DEF Keeping!SetArrayRegion, Keeping!Inside
<1>7. e # Keeping!Foreign /\ e \in CellValues
  BY ArraySizes DEF CellValues
<1>8. y \in [1 .. 2 * MaxArray -> CellValues]
  BY <1>2, <1>4, <1>7
<1>9. ASSUME len >= 0
      PROVE  \A i \in 1 .. 2 * MaxArray : y[i] = Keeping!Foreign <=> i > n
  <2>1. end = start + len
    BY <1>3, <1>9 DEF Keeping!CopyEnd
  <2>2. \A i \in start + 1 .. end : ~ (i > n)
    BY <1>2, <1>6, <2>1
  <2> QED BY <1>2, <1>4, <1>7, <2>2
<1>10. /\ units' = units /\ bytes' = bytes /\ dup' = dup
       /\ buf' = [room |-> 0, got |-> <<>>, of |-> "set", from |-> start, len |-> len]
  BY DEF Keeping!SetArrayRegion, Keeping!Nothing
<1>11. BufferSound'
  BY <1>10 DEF BufferSound
<1>12. Keeping!RanOff' <=> len < 0
  BY <1>10 DEF Keeping!RanOff
<1>13. bytes' = Keeping!Encoded(units)'
  BY <1>10 DEF ArraysInv, Keeping!Encoded
<1> QED BY <1>2, <1>5, <1>8, <1>9, <1>10, <1>11, <1>12, <1>13 DEF ArraysInv

\* And read from inside it.
LEMMA GetArrayStep ==
  ASSUME ArraysInv, ~ Keeping!RanOff, NEW start \in Int, NEW len \in Int,
         Keeping!GetArrayRegion(start, len)
  PROVE  ArraysInv'
<1>1. PICK n, x : n = array.len /\ x = array.cells
  OBVIOUS
<1>2. /\ n \in 0 .. MaxArray /\ x \in [1 .. 2 * MaxArray -> CellValues]
      /\ \A i \in 1 .. 2 * MaxArray : x[i] = Keeping!Foreign <=> i > n
  BY <1>1 DEF ArraysInv
<1>3. start >= 0 /\ start + len <= n
  BY <1>1 DEF Keeping!GetArrayRegion, Keeping!Inside
<1>4. PICK y : y = SubSeq(x, start + 1, Keeping!CopyEnd(start, len))
  OBVIOUS
<1>5. buf' = [room |-> Keeping!Clamp(len, 0, len), got |-> y, of |-> "array",
              from |-> start, len |-> len]
  BY <1>1, <1>4 DEF Keeping!GetArrayRegion
<1>6. ASSUME len >= 0
      PROVE  Len(y) = len /\ \A i \in DOMAIN y : y[i] # Keeping!Foreign
  <2>1. y = SubSeq(x, start + 1, start + len)
    BY <1>4, <1>6 DEF Keeping!CopyEnd
  <2>2. \A i \in start + 1 .. start + len : x[i] \in CellValues /\ x[i] # Keeping!Foreign
    <3>1. \A i \in start + 1 .. start + len : i \in 1 .. 2 * MaxArray /\ ~ (i > n)
      BY <1>2, <1>3, ArraySizes
    <3> QED BY <1>2, <3>1
  <2>3. /\ y \in Seq(CellValues)
        /\ Len(y) = IF start + 1 <= start + len THEN start + len - (start + 1) + 1 ELSE 0
        /\ \A i \in 1 .. start + len - (start + 1) + 1 : y[i] = x[start + 1 + i - 1]
    BY <2>1, <2>2, SubSeqProperties
  <2>4. /\ start + len - (start + 1) + 1 = len
        /\ (IF start + 1 <= start + len THEN start + len - (start + 1) + 1 ELSE 0) = len
        /\ \A i \in 1 .. len : start + 1 + i - 1 \in start + 1 .. start + len
    BY <1>3, <1>6
  <2>5. Len(y) = len /\ DOMAIN y = 1 .. len
    BY <2>3, <2>4
  <2> QED BY <2>2, <2>3, <2>4, <2>5
<1>7. Keeping!RanOff' <=> len < 0
  BY <1>5 DEF Keeping!RanOff
<1>8. len >= 0 => Keeping!Clamp(len, 0, len) = len
  BY DEF Keeping!Clamp
<1>9. BufferSound'
  BY <1>5, <1>6, <1>7, <1>8 DEF BufferSound, Keeping!Foreign
<1>10. units' = units /\ bytes' = bytes /\ dup' = dup /\ array' = array
  BY DEF Keeping!GetArrayRegion
<1>11. bytes' = Keeping!Encoded(units)'
  BY <1>10 DEF ArraysInv, Keeping!Encoded
<1>12. \A i \in 1 .. 2 * MaxArray : array.cells[i] = Keeping!Foreign <=> i > array.len
  BY DEF ArraysInv
<1> QED BY <1>9, <1>10, <1>11, <1>12 DEF ArraysInv

\* A program that ran off its memory begins again.
LEMMA RestartStep ==
  ASSUME ArraysInv, Keeping!Restart
  PROVE  ArraysInv'
<1>1. PICK x : x = Keeping!Cells(0)
  OBVIOUS
<1>2. /\ units' = <<>> /\ bytes' = <<>> /\ array' = [len |-> 0, cells |-> x]
      /\ buf' = Keeping!Nothing /\ dup' = [wrote |-> 1, room |-> 1]
  BY <1>1 DEF Keeping!Restart
<1>3. 0 \in 0 .. MaxArray /\ units' \in Seq(Units) /\ Len(units') <= MaxUnits
  BY <1>2, ArraySizes
<1>4. /\ x \in [1 .. 2 * MaxArray -> CellValues]
      /\ \A i \in 1 .. 2 * MaxArray : x[i] = Keeping!Foreign <=> i > 0
  BY <1>1, <1>3, CellsAre
<1>5. BufferSound'
  BY <1>2 DEF BufferSound, Keeping!Nothing
<1>6. Keeping!Encoded(<<>>) = <<>>
  BY EmptyText
<1>7. bytes' = Keeping!Encoded(units)'
  BY <1>2, <1>6 DEF Keeping!Encoded
<1> QED BY <1>2, <1>3, <1>4, <1>5, <1>7 DEF ArraysInv

\* There is no string and an empty array at first.
LEMMA ArraysInit == Keeping!Init => ArraysInv
<1> SUFFICES ASSUME Keeping!Init PROVE ArraysInv
  OBVIOUS
<1>1. PICK x : x = Keeping!Cells(0)
  OBVIOUS
<1>2. /\ units = <<>> /\ bytes = <<>> /\ array = [len |-> 0, cells |-> x]
      /\ buf = Keeping!Nothing /\ dup = [wrote |-> 1, room |-> 1]
  BY <1>1 DEF Keeping!Init
<1>3. 0 \in 0 .. MaxArray /\ units \in Seq(Units) /\ Len(units) <= MaxUnits
  BY <1>2, ArraySizes
<1>4. /\ x \in [1 .. 2 * MaxArray -> CellValues]
      /\ \A i \in 1 .. 2 * MaxArray : x[i] = Keeping!Foreign <=> i > 0
  BY <1>1, <1>3, CellsAre
<1>5. BufferSound
  BY <1>2 DEF BufferSound, Keeping!Nothing
<1>6. bytes = Keeping!Encoded(units)
  BY <1>2, EmptyText
<1> QED BY <1>2, <1>3, <1>4, <1>5, <1>6 DEF ArraysInv

\* Every call keeps it.
LEMMA ArraysStep == ArraysInv /\ Keeping!Next => ArraysInv'
<1> SUFFICES ASSUME ArraysInv, Keeping!Next PROVE ArraysInv'
  OBVIOUS
<1>1. CASE Keeping!Restart
  BY <1>1, RestartStep
<1>2. CASE ~ Keeping!RanOff
  <2>1. CASE \E s \in Keeping!SeqOf(Units, MaxUnits) : Keeping!NewString(s)
    BY <1>2, <2>1, NewTextStep
  <2>2. CASE \E start \in Starts, len \in Lens :
               Keeping!GetUTFRegion(start, len) \/ Keeping!GetRegion(start, len)
    BY <1>2, <2>2, GetTextStep, ArraySizes
  <2>3. CASE \E start \in Starts, len \in Lens : Keeping!GetArrayRegion(start, len)
    BY <1>2, <2>3, GetArrayStep, ArraySizes
  <2>4. CASE \E start \in Starts, len \in Lens, e \in Elements :
               Keeping!SetArrayRegion(start, len, e)
    BY <1>2, <2>4, SetArrayStep, ArraySizes
  <2>5. CASE Keeping!GetWhole
    BY <1>2, <2>5, GetWholeStep
  <2>6. CASE \E n \in 0 .. MaxArray : Keeping!NewArray(n)
    BY <1>2, <2>6, NewArrayStep
  <2> QED BY <1>1, <2>1, <2>2, <2>3, <2>4, <2>5, <2>6 DEF Keeping!Next, Keeping!Units, Units
<1> QED BY <1>1, <1>2 DEF Keeping!Next

\* What is kept so is exact.
LEMMA ArraysSound == ArraysInv => Keeping!TypeOK /\ Keeping!ArraysExact
<1> SUFFICES ASSUME ArraysInv PROVE Keeping!TypeOK /\ Keeping!ArraysExact
  OBVIOUS
<1>1. bytes \in Encodings
  BY TextKept
<1>2. units \in Seq(Units) /\ bytes = Keeping!EncodedOf[Keeping!UpToZero(units)]
  BY DEF ArraysInv, Keeping!Encoded
<1>3. PICK kept \in Seq(Units) : kept = Keeping!UpToZero(units)
  BY <1>2, BeforeZero
<1>4. Keeping!UnitsIn(bytes) = Len(kept)
  <2>1. \A i \in DOMAIN kept : UnitBytes[kept[i]] # 0
    BY <1>2, <1>3, BeforeZero
  <2>2. Cardinality(FirstBytes(Keeping!EncodedOf[kept])) = Len(kept)
    BY <2>1, UnitsCounted
  <2>3. Keeping!UnitsIn(bytes) = Cardinality(FirstBytes(bytes))
    BY DEF Keeping!UnitsIn, FirstBytes, Keeping!Cardinality, Cardinality
  <2> QED BY <1>2, <1>3, <2>2, <2>3
<1>5. ASSUME buf.of \in {"utf", "string"}
      PROVE  \E from \in Int, len \in Int, room \in Nat, x \in Seq(UnitByte) :
               /\ from = buf.from /\ len = buf.len /\ room = Keeping!Clamp(len, 0, len)
               /\ x = Keeping!Copied /\ x = Keeping!Region(from, len)
               /\ IF buf.of = "utf" THEN buf.got = Append(x, Keeping!Nul) /\ buf.room = room + 1
                                    ELSE buf.got = x /\ buf.room = room
  <2>1. PICK from \in Int, len \in Int : from = buf.from /\ len = buf.len
    BY <1>5 DEF ArraysInv, BufferSound
  <2>2. PICK room \in Nat : room = Keeping!Clamp(len, 0, len)
    BY DEF Keeping!Clamp
  <2>3. PICK x \in Seq(UnitByte) : x = Keeping!Region(from, len)
    BY <1>1, RegionInside
  <2>4. IF buf.of = "utf" THEN buf.got = Append(x, Keeping!Nul) /\ buf.room = room + 1
                          ELSE buf.got = x /\ buf.room = room
    BY <1>5, <2>1, <2>2, <2>3 DEF ArraysInv, BufferSound
  <2>5. Keeping!Front(Append(x, Keeping!Nul)) = x
    BY FrontOfAppend
  <2>6. x = Keeping!Copied
    BY <1>5, <2>4, <2>5 DEF Keeping!Copied
  <2> QED BY <2>1, <2>2, <2>3, <2>4, <2>6
<1>6. ASSUME buf.of \in {"utf", "string"}, Keeping!SingleBytes,
             NEW i \in DOMAIN Keeping!Copied, buf.from >= 0
      PROVE  Keeping!Copied[i].unit = units[buf.from + i]
  <2>1. \A k \in DOMAIN units : UnitBytes[units[k]] = 1
    BY <1>6 DEF Keeping!SingleBytes
  <2>2. kept = units
    BY <1>2, <1>3, <2>1, BeforeZero
  <2>3. Len(bytes) = Len(units) /\ \A k \in 1 .. Len(units) : bytes[k].unit = units[k]
    BY <1>2, <1>3, <2>1, <2>2, SingleBytesAre
  <2>4. PICK from \in Int, len \in Int : /\ from = buf.from /\ from >= 0
                                         /\ Keeping!Copied = Keeping!Region(from, len)
    BY <1>5, <1>6
  <2>5. \A k \in DOMAIN Keeping!Region(from, len) :
          from + k \in 1 .. Len(bytes) /\ Keeping!Region(from, len)[k] = bytes[from + k]
    BY <1>1, <2>4, RegionInside
  <2>6. from + i \in 1 .. Len(bytes) /\ Keeping!Copied[i] = bytes[from + i]
    BY <1>6, <2>4, <2>5
  <2> QED BY <2>3, <2>4, <2>6
<1>7. ASSUME buf.of \in {"utf", "string"}
      PROVE  /\ Len(buf.got) <= buf.room
             /\ buf.from >= 0 /\ buf.from + buf.len <= Len(bytes) => Len(buf.got) = buf.room
             /\ buf.of = "utf" => buf.got # <<>> /\ Keeping!Last(buf.got) = Keeping!Nul
  <2>1. PICK from \in Int, len \in Int, room \in Nat, x \in Seq(UnitByte) :
          /\ from = buf.from /\ len = buf.len /\ room = Keeping!Clamp(len, 0, len)
          /\ x = Keeping!Region(from, len)
          /\ IF buf.of = "utf" THEN buf.got = Append(x, Keeping!Nul) /\ buf.room = room + 1
                               ELSE buf.got = x /\ buf.room = room
    BY <1>5, <1>7
  <2>2. Len(x) <= room /\ (from >= 0 /\ from + len <= Len(bytes) => Len(x) = room)
    BY <1>1, <2>1, RegionInside
  <2>3. PICK m \in Nat : m = Len(x)
    OBVIOUS
  <2>4. /\ Len(Append(x, Keeping!Nul)) = m + 1 /\ Append(x, Keeping!Nul) # <<>>
        /\ Keeping!Last(Append(x, Keeping!Nul)) = Keeping!Nul
    BY <2>3, FrontOfAppend
  <2>5. m <= room => m + 1 <= room + 1
    OBVIOUS
  <2> QED BY <2>1, <2>2, <2>3, <2>4, <2>5
<1>8. Keeping!TypeOK
  <2>1. array.len \in 0 .. MaxArray /\ DOMAIN array.cells = 1 .. 2 * MaxArray
    BY DEF ArraysInv
  <2> QED BY <2>1 DEF ArraysInv, Keeping!TypeOK, Keeping!Units, Units
<1>9. ASSUME ~ Keeping!RanOff
      PROVE  /\ Len(buf.got) <= buf.room
             /\ \A i \in DOMAIN array.cells : i > array.len => array.cells[i] = Keeping!Foreign
             /\ buf.of = "array" => \A i \in DOMAIN buf.got : buf.got[i] # Keeping!Foreign
  <2>1. \A i \in DOMAIN array.cells : i > array.len => array.cells[i] = Keeping!Foreign
    BY <1>9 DEF ArraysInv
  <2>2. CASE buf.of \in {"utf", "string"}
    BY <1>7, <2>1, <2>2
  <2>3. CASE buf.of \in {"nothing", "set", "array"}
    BY <1>9, <2>1, <2>3 DEF ArraysInv, BufferSound
  <2> QED BY <2>2, <2>3 DEF ArraysInv, BufferSound
<1>10. dup.wrote <= dup.room
  BY DEF ArraysInv
<1> QED BY <1>3, <1>4, <1>6, <1>7, <1>8, <1>9, <1>10 DEF Keeping!ArraysExact

\* jni_fake.c: a string has the units it was made of, and a region of it or of an
\* array is the part that was asked for, inside the room there is for it, which is
\* one byte more for UTF-8; only a region of an array with a negative length, which
\* the code does not refuse, is copied past the array.
THEOREM CopiesAreExact ==
  MCSpec => [](part = "arrays" => Keeping!TypeOK /\ Keeping!ArraysExact)
<1> DEFINE Inv == part = "arrays" => ArraysInv
<1>1. MCInit => Inv
  BY ArraysInit DEF MCInit
<1>2. Inv /\ [MCNext]_allVars => Inv'
  <2> SUFFICES ASSUME ArraysInv, part = "arrays", part' = "arrays", [MCNext]_allVars
               PROVE  ArraysInv'
    BY DEF MCNext, allVars
  <2>1. Keeping!Next \/ UNCHANGED arraysVars
    BY DEF MCNext, allVars, javaVars
  <2>2. CASE UNCHANGED arraysVars
    BY <2>2 DEF arraysVars, ArraysInv, BufferSound, Keeping!RanOff, Keeping!Region,
       Keeping!LengthInside, Keeping!Encoded
  <2> QED BY <2>1, <2>2, ArraysStep
<1>3. ArraysInv => Keeping!TypeOK /\ Keeping!ArraysExact
  BY ArraysSound
<1> QED BY <1>1, <1>2, <1>3, PTL DEF MCSpec

-----------------------------------------------------------------------------
(* The answers of calls and fields. *)

\* A rule takes what is asked if a part of the class and one of the name are its.
TakesParts(r, cls, name, ret) ==
  /\ r.classes = {} \/ \E s \in r.classes : s \in PartsOf(cls)
  /\ r.names = {} \/ \E s \in r.names : s \in PartsOf(name)
  /\ r.ret \in {"", ret}

\* Which it does by the texts.
LEMMA TakesByParts ==
  ASSUME NEW r, NEW id, id.cls \in AskTexts, id.name \in AskTexts,
         r.classes \subseteq RuleTexts, r.names \subseteq RuleTexts
  PROVE  Calling!Takes(r, id) <=> TakesParts(r, id.cls, id.name, id.ret)
<1>1. \A s \in RuleTexts : /\ Calling!Has(id.cls, s) <=> s \in PartsOf(id.cls)
                           /\ Calling!Has(id.name, s) <=> s \in PartsOf(id.name)
  BY TextAssumption
<1> QED BY <1>1 DEF Calling!Takes, TakesParts

\* The answer is that of the first rule that takes what is asked.
LEMMA FirstRule ==
  ASSUME NEW rules, NEW id, NEW otherwise, NEW n \in Nat, DOMAIN rules = 1 .. n, NEW k \in 1 .. n,
         Calling!Takes(rules[k], id), \A i \in 1 .. k - 1 : ~ Calling!Takes(rules[i], id)
  PROVE  Calling!Answered(rules, id, otherwise) = rules[k].answer
<1> DEFINE T == {i \in DOMAIN rules : Calling!Takes(rules[i], id)}
           First == CHOOSE i \in T : \A l \in T : i <= l
<1>1. k \in T /\ \A l \in T : k <= l
  <2>1. ASSUME NEW l \in T, ~ (k <= l) PROVE FALSE
    <3>1. l \in 1 .. k - 1
      BY <2>1
    <3> QED BY <3>1
  <2> QED BY <2>1
<1>2. First \in T /\ \A l \in T : First <= l
  BY <1>1
<1>3. First = k
  <2>1. First \in 1 .. n /\ First <= k /\ k <= First
    BY <1>1, <1>2
  <2> QED BY <2>1
<1>4. Calling!Answered(rules, id, otherwise) = rules[First].answer
  BY <1>1 DEF Calling!Answered
<1> QED BY <1>3, <1>4

\* Where no rule does, it is the one there is for the rest.
LEMMA NoRule ==
  ASSUME NEW rules, NEW id, NEW otherwise, \A i \in DOMAIN rules : ~ Calling!Takes(rules[i], id)
  PROVE  Calling!Answered(rules, id, otherwise) = otherwise
BY DEF Calling!Answered

\* The parts that a table looks for are known.
KnownRules(rules, n) ==
  /\ DOMAIN rules = 1 .. n
  /\ \A i \in 1 .. n : rules[i].classes \subseteq RuleTexts /\ rules[i].names \subseteq RuleTexts

\* So much of it can be seen in the parts of the texts.
LEMMA FirstByParts ==
  ASSUME NEW rules, NEW id, NEW otherwise, NEW n \in Nat, NEW k \in 1 .. n,
         KnownRules(rules, n), id.cls \in AskTexts, id.name \in AskTexts,
         TakesParts(rules[k], id.cls, id.name, id.ret),
         \A i \in 1 .. k - 1 : ~ TakesParts(rules[i], id.cls, id.name, id.ret)
  PROVE  Calling!Answered(rules, id, otherwise) = rules[k].answer
<1>1. DOMAIN rules = 1 .. n
  BY DEF KnownRules
<1>2. \A i \in 1 .. n : Calling!Takes(rules[i], id) <=>
                        TakesParts(rules[i], id.cls, id.name, id.ret)
  BY TakesByParts DEF KnownRules
<1>3. Calling!Takes(rules[k], id)
  BY <1>2
<1>4. \A i \in 1 .. k - 1 : i \in 1 .. n
  OBVIOUS
<1>5. \A i \in 1 .. k - 1 : ~ Calling!Takes(rules[i], id)
  BY <1>2, <1>4
<1> QED BY <1>1, <1>3, <1>5, FirstRule

\* And where there is none.
LEMMA NoneByParts ==
  ASSUME NEW rules, NEW id, NEW otherwise, NEW n \in Nat,
         KnownRules(rules, n), id.cls \in AskTexts, id.name \in AskTexts,
         \A i \in 1 .. n : ~ TakesParts(rules[i], id.cls, id.name, id.ret)
  PROVE  Calling!Answered(rules, id, otherwise) = otherwise
<1>1. DOMAIN rules = 1 .. n
  BY DEF KnownRules
<1>2. \A i \in 1 .. n : ~ Calling!Takes(rules[i], id)
  BY TakesByParts DEF KnownRules
<1> QED BY <1>1, <1>2, NoRule

\* The texts that rules look for, one by one.
LEMMA TextsKnown ==
  /\ "Choreographer" \in RuleTexts /\ "SwappyDisplayManager" \in RuleTexts
  /\ "getInstance" \in RuleTexts /\ "net/Uri" \in RuleTexts /\ "encode" \in RuleTexts
  /\ "decode" \in RuleTexts /\ "AssetManager" \in RuleTexts /\ "ClassLoader" \in RuleTexts
  /\ "VersionName" \in RuleTexts /\ "PackageName" \in RuleTexts /\ "DeviceModel" \in RuleTexts
  /\ "ObbMainFileName" \in RuleTexts /\ "ObbPatchFileName" \in RuleTexts
  /\ "AssetPack" \in RuleTexts /\ "Language" \in RuleTexts /\ "language" \in RuleTexts
  /\ "os/Environment" \in RuleTexts /\ "ExternalStorageState" \in RuleTexts
  /\ "Directory" \in RuleTexts /\ "Locale" \in RuleTexts /\ "getCountry" \in RuleTexts
  /\ "getISO3Country" \in RuleTexts /\ "toString" \in RuleTexts /\ "getDisplayName" \in RuleTexts
  /\ "DataPath" \in RuleTexts /\ "FilesDir" \in RuleTexts /\ "ObbDir" \in RuleTexts
  /\ "Path" \in RuleTexts /\ "getPackageInfo" \in RuleTexts /\ "getApplicationInfo" \in RuleTexts
  /\ "getPackageManager" \in RuleTexts /\ "getResources" \in RuleTexts
  /\ "getConfiguration" \in RuleTexts /\ "DisplayManager" \in RuleTexts
  /\ "getDisplay" \in RuleTexts /\ "res/Resources" \in RuleTexts
  /\ "getDisplayMetrics" \in RuleTexts /\ "content/Context" \in RuleTexts
  /\ "getFilesDir" \in RuleTexts /\ "getCacheDir" \in RuleTexts /\ "getDataDir" \in RuleTexts
  /\ "getPackageName" \in RuleTexts /\ "getPackageCodePath" \in RuleTexts
  /\ "getAssets" \in RuleTexts /\ "getSystemService" \in RuleTexts /\ "view/Display" \in RuleTexts
  /\ "res/Configuration" \in RuleTexts /\ "DisplayMetrics" \in RuleTexts
  /\ "unity3d/player/UnityPlayer" \in RuleTexts /\ "getWidth" \in RuleTexts
  /\ "WidthPixels" \in RuleTexts /\ "getRawWidth" \in RuleTexts /\ "getHeight" \in RuleTexts
  /\ "HeightPixels" \in RuleTexts /\ "getRawHeight" \in RuleTexts /\ "versionName" \in RuleTexts
  /\ "currentActivity" \in RuleTexts /\ "_SERVICE" \in RuleTexts /\ "MEDIA_MOUNTED" \in RuleTexts
  /\ "os/Build" \in RuleTexts /\ "MODEL" \in RuleTexts /\ "DEVICE" \in RuleTexts
  /\ "PRODUCT" \in RuleTexts /\ "MANUFACTURER" \in RuleTexts /\ "BRAND" \in RuleTexts
  /\ "versionCode" \in RuleTexts /\ "SDK_INT" \in RuleTexts /\ "densityDpi" \in RuleTexts
  /\ "widthPixels" \in RuleTexts /\ "heightPixels" \in RuleTexts /\ "getBytes" \in RuleTexts
  /\ "java/lang/String" \in RuleTexts /\ "[B" \in RuleTexts /\ "UnityPlayer" \in RuleTexts
  /\ "GetEditBoxText" \in RuleTexts /\ "GetTextBoxText" \in RuleTexts
  /\ "getExternalFilesDir" \in RuleTexts /\ "getPackageResourcePath" \in RuleTexts
BY DEF RuleTexts

\* They are in the table of the activity.
LEMMA ActivityTexts ==
  ASSUME NEW arg
  PROVE  KnownRules(Calling!ActivityRules(arg), 26)
<1> DEFINE Known(i) == /\ Calling!ActivityRules(arg)[i].classes \subseteq RuleTexts
                       /\ Calling!ActivityRules(arg)[i].names \subseteq RuleTexts
<1>1. DOMAIN Calling!ActivityRules(arg) = 1 .. 26
  BY DEF Calling!ActivityRules
<1>2. Known(1) /\ Known(2) /\ Known(3) /\ Known(4) /\ Known(5)
  BY TextsKnown, Zenon DEF Calling!ActivityRules, Calling!Rule
<1>3. Known(6) /\ Known(7) /\ Known(8) /\ Known(9) /\ Known(10)
  BY TextsKnown, Zenon DEF Calling!ActivityRules, Calling!Rule
<1>4. Known(11) /\ Known(12) /\ Known(13) /\ Known(14) /\ Known(15)
  BY TextsKnown, Zenon DEF Calling!ActivityRules, Calling!Rule
<1>5. Known(16) /\ Known(17) /\ Known(18) /\ Known(19) /\ Known(20)
  BY TextsKnown, Zenon DEF Calling!ActivityRules, Calling!Rule
<1>6. Known(21) /\ Known(22) /\ Known(23) /\ Known(24) /\ Known(25)
      /\ Known(26)
  BY TextsKnown, Zenon DEF Calling!ActivityRules, Calling!Rule
<1> HIDE DEF Known
<1>7. \A i \in 1 .. 26 : Known(i)
  BY <1>2, <1>3, <1>4, <1>5, <1>6
<1> QED BY <1>1, <1>7 DEF Known, KnownRules

\* They are in that of the classes unity_jni.c owns.
LEMMA HostTexts ==
  KnownRules(Calling!HostRules, 12)
<1> DEFINE Known(i) == /\ Calling!HostRules[i].classes \subseteq RuleTexts
                       /\ Calling!HostRules[i].names \subseteq RuleTexts
<1>1. DOMAIN Calling!HostRules = 1 .. 12
  BY DEF Calling!HostRules
<1>2. Known(1) /\ Known(2) /\ Known(3) /\ Known(4)
  BY TextsKnown, Zenon DEF Calling!HostRules, Calling!Rule
<1>3. Known(5) /\ Known(6) /\ Known(7) /\ Known(8)
  BY TextsKnown, Zenon DEF Calling!HostRules, Calling!Rule
<1>4. Known(9) /\ Known(10) /\ Known(11) /\ Known(12)
  BY TextsKnown, Zenon DEF Calling!HostRules, Calling!Rule
<1> HIDE DEF Known
<1>5. \A i \in 1 .. 12 : Known(i)
  BY <1>2, <1>3, <1>4
<1> QED BY <1>1, <1>5 DEF Known, KnownRules

\* They are in that of the screen.
LEMMA ScreenTexts ==
  KnownRules(Calling!ScreenRules, 2)
<1> DEFINE Known(i) == /\ Calling!ScreenRules[i].classes \subseteq RuleTexts
                       /\ Calling!ScreenRules[i].names \subseteq RuleTexts
<1>1. DOMAIN Calling!ScreenRules = 1 .. 2
  BY DEF Calling!ScreenRules
<1>2. Known(1) /\ Known(2)
  BY TextsKnown, Zenon DEF Calling!ScreenRules, Calling!Rule
<1> HIDE DEF Known
<1>3. \A i \in 1 .. 2 : Known(i)
  BY <1>2
<1> QED BY <1>1, <1>3 DEF Known, KnownRules

\* They are in that of the object fields.
LEMMA FieldTexts ==
  KnownRules(Calling!FieldRules, 7)
<1> DEFINE Known(i) == /\ Calling!FieldRules[i].classes \subseteq RuleTexts
                       /\ Calling!FieldRules[i].names \subseteq RuleTexts
<1>1. DOMAIN Calling!FieldRules = 1 .. 7
  BY DEF Calling!FieldRules
<1>2. Known(1) /\ Known(2) /\ Known(3) /\ Known(4)
  BY TextsKnown, Zenon DEF Calling!FieldRules, Calling!Rule
<1>3. Known(5) /\ Known(6) /\ Known(7)
  BY TextsKnown, Zenon DEF Calling!FieldRules, Calling!Rule
<1> HIDE DEF Known
<1>4. \A i \in 1 .. 7 : Known(i)
  BY <1>2, <1>3
<1> QED BY <1>1, <1>4 DEF Known, KnownRules

\* They are in that of the integer fields.
LEMMA MetricTexts ==
  KnownRules(Calling!MetricRules, 5)
<1> DEFINE Known(i) == /\ Calling!MetricRules[i].classes \subseteq RuleTexts
                       /\ Calling!MetricRules[i].names \subseteq RuleTexts
<1>1. DOMAIN Calling!MetricRules = 1 .. 5
  BY DEF Calling!MetricRules
<1>2. Known(1) /\ Known(2) /\ Known(3)
  BY TextsKnown, Zenon DEF Calling!MetricRules, Calling!Rule
<1>3. Known(4) /\ Known(5)
  BY TextsKnown, Zenon DEF Calling!MetricRules, Calling!Rule
<1> HIDE DEF Known
<1>4. \A i \in 1 .. 5 : Known(i)
  BY <1>2, <1>3
<1> QED BY <1>1, <1>4 DEF Known, KnownRules

\* There is no Choreographer.
LEMMA FramesAnswer ==
  ASSUME NEW id, NEW arg, NEW otherwise,
         id.cls = "android/view/Choreographer", id.name = "getInstance", id.ret = "Choreographer"
  PROVE  Calling!Answered(Calling!ActivityRules(arg), id, otherwise) = Calling!Null
<1> DEFINE rules == Calling!ActivityRules(arg)
           Takes(i) == TakesParts(rules[i], "android/view/Choreographer",
                                  "getInstance", "Choreographer")
<1>1. /\ PartsOf("android/view/Choreographer") = {"Choreographer"}
      /\ PartsOf("getInstance") = {"getInstance"}
  BY DEF PartsOf, RuleTexts
<1>2. Takes(1) /\ rules[1].answer = Calling!Null
  BY <1>1 DEF Calling!ActivityRules, Calling!Rule, TakesParts
<1>3. KnownRules(rules, 26) /\ id.cls \in AskTexts /\ id.name \in AskTexts
  BY ActivityTexts DEF AskTexts, Asks, Asked
<1> HIDE DEF rules, Takes
<1>4. \A i \in 1 .. 1 - 1 : ~ Takes(i)
  OBVIOUS
<1> USE DEF Takes
<1>5. Calling!Answered(rules, id, otherwise) = rules[1].answer
  BY <1>2, <1>3, <1>4, FirstByParts
<1> QED BY <1>2, <1>5 DEF rules

\* Uri.encode gives back what it is given.
LEMMA EncodeAnswer ==
  ASSUME NEW id, NEW arg, NEW otherwise,
         id.cls = "android/net/Uri", id.name = "encode", id.ret = "String"
  PROVE  Calling!Answered(Calling!ActivityRules(arg), id, otherwise) = arg
<1> DEFINE rules == Calling!ActivityRules(arg)
           Takes(i) == TakesParts(rules[i], "android/net/Uri", "encode", "String")
<1>1. PartsOf("android/net/Uri") = {"net/Uri"} /\ PartsOf("encode") = {"encode"}
  BY DEF PartsOf, RuleTexts
<1>2. ~ Takes(1) /\ ~ Takes(2)
  BY <1>1 DEF Calling!ActivityRules, Calling!Rule, TakesParts
<1>3. Takes(3) /\ rules[3].answer = arg
  BY <1>1 DEF Calling!ActivityRules, Calling!Rule, TakesParts
<1>4. KnownRules(rules, 26) /\ id.cls \in AskTexts /\ id.name \in AskTexts
  BY ActivityTexts DEF AskTexts, Asks, Asked
<1> HIDE DEF rules, Takes
<1>5. \A i \in 1 .. 3 - 1 : ~ Takes(i)
  BY <1>2
<1> USE DEF Takes
<1>6. Calling!Answered(rules, id, otherwise) = rules[3].answer
  BY <1>3, <1>4, <1>5, FirstByParts
<1> QED BY <1>3, <1>6 DEF rules

\* The version of the game.
LEMMA VersionAnswer ==
  ASSUME NEW id, NEW arg, NEW otherwise,
         id.cls = "java/lang/Object", id.name = "getVersionName", id.ret = "String"
  PROVE  Calling!Answered(Calling!ActivityRules(arg), id, otherwise) = Calling!Text("version")
<1> DEFINE rules == Calling!ActivityRules(arg)
           Takes(i) == TakesParts(rules[i], "java/lang/Object", "getVersionName", "String")
<1>1. PartsOf("java/lang/Object") = {} /\ PartsOf("getVersionName") = {"VersionName"}
  BY DEF PartsOf, RuleTexts
<1>2. /\ ~ Takes(1) /\ ~ Takes(2) /\ ~ Takes(3) /\ ~ Takes(4) /\ ~ Takes(5) /\ ~ Takes(6)
      /\ ~ Takes(7) /\ ~ Takes(8)
  BY <1>1 DEF Calling!ActivityRules, Calling!Rule, TakesParts
<1>3. Takes(9) /\ rules[9].answer = Calling!Text("version")
  BY <1>1 DEF Calling!ActivityRules, Calling!Rule, TakesParts
<1>4. KnownRules(rules, 26) /\ id.cls \in AskTexts /\ id.name \in AskTexts
  BY ActivityTexts DEF AskTexts, Asks, Asked
<1> HIDE DEF rules, Takes
<1>5. \A i \in 1 .. 9 - 1 : ~ Takes(i)
  BY <1>2
<1> USE DEF Takes
<1>6. Calling!Answered(rules, id, otherwise) = rules[9].answer
  BY <1>3, <1>4, <1>5, FirstByParts
<1> QED BY <1>3, <1>6 DEF rules

\* The storage is mounted.
LEMMA StorageAnswer ==
  ASSUME NEW id, NEW arg, NEW otherwise,
         id.cls = "android/os/Environment", id.name = "getExternalStorageState", id.ret = "String"
  PROVE  Calling!Answered(Calling!ActivityRules(arg), id, otherwise) = Calling!Text("mounted")
<1> DEFINE rules == Calling!ActivityRules(arg)
           Takes(i) == TakesParts(rules[i], "android/os/Environment",
                                  "getExternalStorageState", "String")
<1>1. /\ PartsOf("android/os/Environment") = {"os/Environment"}
      /\ PartsOf("getExternalStorageState") = {"ExternalStorageState"}
  BY DEF PartsOf, RuleTexts
<1>2. /\ ~ Takes(1) /\ ~ Takes(2) /\ ~ Takes(3) /\ ~ Takes(4) /\ ~ Takes(5) /\ ~ Takes(6)
      /\ ~ Takes(7) /\ ~ Takes(8) /\ ~ Takes(9) /\ ~ Takes(10) /\ ~ Takes(11) /\ ~ Takes(12)
      /\ ~ Takes(13)
  BY <1>1 DEF Calling!ActivityRules, Calling!Rule, TakesParts
<1>3. Takes(14) /\ rules[14].answer = Calling!Text("mounted")
  BY <1>1 DEF Calling!ActivityRules, Calling!Rule, TakesParts
<1>4. KnownRules(rules, 26) /\ id.cls \in AskTexts /\ id.name \in AskTexts
  BY ActivityTexts DEF AskTexts, Asks, Asked
<1> HIDE DEF rules, Takes
<1>5. \A i \in 1 .. 14 - 1 : ~ Takes(i)
  BY <1>2
<1> USE DEF Takes
<1>6. Calling!Answered(rules, id, otherwise) = rules[14].answer
  BY <1>3, <1>4, <1>5, FirstByParts
<1> QED BY <1>3, <1>6 DEF rules

\* The path of a file is that of the storage.
LEMMA PathAnswer ==
  ASSUME NEW id, NEW arg, NEW otherwise,
         id.cls = "java/io/File", id.name = "getAbsolutePath", id.ret = "String"
  PROVE  Calling!Answered(Calling!ActivityRules(arg), id, otherwise) = Calling!Text("home")
<1> DEFINE rules == Calling!ActivityRules(arg)
           Takes(i) == TakesParts(rules[i], "java/io/File", "getAbsolutePath", "String")
<1>1. PartsOf("java/io/File") = {} /\ PartsOf("getAbsolutePath") = {"Path"}
  BY DEF PartsOf, RuleTexts
<1>2. /\ ~ Takes(1) /\ ~ Takes(2) /\ ~ Takes(3) /\ ~ Takes(4) /\ ~ Takes(5) /\ ~ Takes(6)
      /\ ~ Takes(7) /\ ~ Takes(8) /\ ~ Takes(9) /\ ~ Takes(10) /\ ~ Takes(11) /\ ~ Takes(12)
      /\ ~ Takes(13) /\ ~ Takes(14) /\ ~ Takes(15) /\ ~ Takes(16) /\ ~ Takes(17) /\ ~ Takes(18)
  BY <1>1 DEF Calling!ActivityRules, Calling!Rule, TakesParts
<1>3. Takes(19) /\ rules[19].answer = Calling!Text("home")
  BY <1>1 DEF Calling!ActivityRules, Calling!Rule, TakesParts
<1>4. KnownRules(rules, 26) /\ id.cls \in AskTexts /\ id.name \in AskTexts
  BY ActivityTexts DEF AskTexts, Asks, Asked
<1> HIDE DEF rules, Takes
<1>5. \A i \in 1 .. 19 - 1 : ~ Takes(i)
  BY <1>2
<1> USE DEF Takes
<1>6. Calling!Answered(rules, id, otherwise) = rules[19].answer
  BY <1>3, <1>4, <1>5, FirstByParts
<1> QED BY <1>3, <1>6 DEF rules

\* A class of no rule gives an object of itself.
LEMMA PluginAnswer ==
  ASSUME NEW id, NEW arg, NEW otherwise,
         id.cls = "com/android/billing/Plugin", id.name = "getNative", id.ret = "Plugin"
  PROVE  Calling!Answered(Calling!ActivityRules(arg), id, otherwise) = otherwise
<1> DEFINE rules == Calling!ActivityRules(arg)
           Takes(i) == TakesParts(rules[i], "com/android/billing/Plugin", "getNative", "Plugin")
<1>1. PartsOf("com/android/billing/Plugin") = {} /\ PartsOf("getNative") = {}
  BY DEF PartsOf, RuleTexts
<1>2. /\ ~ Takes(1) /\ ~ Takes(2) /\ ~ Takes(3) /\ ~ Takes(4) /\ ~ Takes(5) /\ ~ Takes(6)
      /\ ~ Takes(7) /\ ~ Takes(8) /\ ~ Takes(9) /\ ~ Takes(10) /\ ~ Takes(11) /\ ~ Takes(12)
      /\ ~ Takes(13) /\ ~ Takes(14) /\ ~ Takes(15) /\ ~ Takes(16) /\ ~ Takes(17) /\ ~ Takes(18)
      /\ ~ Takes(19) /\ ~ Takes(20) /\ ~ Takes(21) /\ ~ Takes(22) /\ ~ Takes(23) /\ ~ Takes(24)
      /\ ~ Takes(25) /\ ~ Takes(26)
  BY <1>1 DEF Calling!ActivityRules, Calling!Rule, TakesParts
<1>3. KnownRules(rules, 26) /\ id.cls \in AskTexts /\ id.name \in AskTexts
  BY ActivityTexts DEF AskTexts, Asks, Asked
<1> HIDE DEF rules, Takes
<1>4. \A i \in 1 .. 26 : ~ Takes(i)
  BY <1>2
<1> USE DEF Takes
<1> QED BY <1>3, <1>4, NoneByParts DEF rules

\* And so is that of the code.
LEMMA CodePathAnswer ==
  ASSUME NEW id, NEW otherwise,
         id.cls = "android/content/Context", id.name = "getPackageCodePath", id.ret = "String"
  PROVE  Calling!Answered(Calling!HostRules, id, otherwise) = Calling!Text("home")
<1> DEFINE rules == Calling!HostRules
           Takes(i) == TakesParts(rules[i], "android/content/Context",
                                  "getPackageCodePath", "String")
<1>1. /\ PartsOf("android/content/Context") = {"content/Context"}
      /\ PartsOf("getPackageCodePath") = {"getPackageCodePath", "Path"}
  BY DEF PartsOf, RuleTexts
<1>2. ~ Takes(1) /\ ~ Takes(2) /\ ~ Takes(3) /\ ~ Takes(4) /\ ~ Takes(5) /\ ~ Takes(6)
  BY <1>1 DEF Calling!HostRules, Calling!Rule, TakesParts
<1>3. Takes(7) /\ rules[7].answer = Calling!Text("home")
  BY <1>1 DEF Calling!HostRules, Calling!Rule, TakesParts
<1>4. KnownRules(rules, 12) /\ id.cls \in AskTexts /\ id.name \in AskTexts
  BY HostTexts DEF AskTexts, Asks, Asked
<1> HIDE DEF rules, Takes
<1>5. \A i \in 1 .. 7 - 1 : ~ Takes(i)
  BY <1>2
<1> USE DEF Takes
<1>6. Calling!Answered(rules, id, otherwise) = rules[7].answer
  BY <1>3, <1>4, <1>5, FirstByParts
<1> QED BY <1>3, <1>6 DEF rules

\* So is the home of the resources.
LEMMA ResourcePathAnswer ==
  ASSUME NEW id, NEW otherwise,
         id.cls = "android/content/Context", id.name = "getPackageResourcePath", id.ret = "String"
  PROVE  Calling!Answered(Calling!HostRules, id, otherwise) = Calling!Text("home")
<1> DEFINE rules == Calling!HostRules
           Takes(i) == TakesParts(rules[i], "android/content/Context",
                                  "getPackageResourcePath", "String")
<1>1. /\ PartsOf("android/content/Context") = {"content/Context"}
      /\ PartsOf("getPackageResourcePath") = {"getPackageResourcePath", "Path"}
  BY DEF PartsOf, RuleTexts
<1>2. ~ Takes(1) /\ ~ Takes(2) /\ ~ Takes(3) /\ ~ Takes(4) /\ ~ Takes(5) /\ ~ Takes(6)
  BY <1>1 DEF Calling!HostRules, Calling!Rule, TakesParts
<1>3. Takes(7) /\ rules[7].answer = Calling!Text("home")
  BY <1>1 DEF Calling!HostRules, Calling!Rule, TakesParts
<1>4. KnownRules(rules, 12) /\ id.cls \in AskTexts /\ id.name \in AskTexts
  BY HostTexts DEF AskTexts, Asks, Asked
<1> HIDE DEF rules, Takes
<1>5. \A i \in 1 .. 7 - 1 : ~ Takes(i)
  BY <1>2
<1> USE DEF Takes
<1>6. Calling!Answered(rules, id, otherwise) = rules[7].answer
  BY <1>3, <1>4, <1>5, FirstByParts
<1> QED BY <1>3, <1>6 DEF rules

\* The display is as wide as the screen.
LEMMA DisplayAnswer ==
  ASSUME NEW id, NEW otherwise,
         id.cls = "android/view/Display", id.name = "getWidth", id.ret = "I"
  PROVE  Calling!Answered(Calling!ScreenRules, id, otherwise) = Calling!Width
<1> DEFINE rules == Calling!ScreenRules
           Takes(i) == TakesParts(rules[i], "android/view/Display", "getWidth", "I")
<1>1. PartsOf("android/view/Display") = {"view/Display"} /\ PartsOf("getWidth") = {"getWidth"}
  BY DEF PartsOf, RuleTexts
<1>2. Takes(1) /\ rules[1].answer = Calling!Width
  BY <1>1 DEF Calling!ScreenRules, Calling!Rule, TakesParts
<1>3. KnownRules(rules, 2) /\ id.cls \in AskTexts /\ id.name \in AskTexts
  BY ScreenTexts DEF AskTexts, Asks, Asked
<1> HIDE DEF rules, Takes
<1>4. \A i \in 1 .. 1 - 1 : ~ Takes(i)
  OBVIOUS
<1> USE DEF Takes
<1>5. Calling!Answered(rules, id, otherwise) = rules[1].answer
  BY <1>2, <1>3, <1>4, FirstByParts
<1> QED BY <1>2, <1>5 DEF rules

\* The constant that a mounted storage is compared with.
LEMMA MountedAnswer ==
  ASSUME NEW id, NEW otherwise,
         id.cls = "android/os/Environment", id.name = "MEDIA_MOUNTED", id.ret = "String"
  PROVE  Calling!Answered(Calling!FieldRules, id, otherwise) = Calling!Text("mounted")
<1> DEFINE rules == Calling!FieldRules
           Takes(i) == TakesParts(rules[i], "android/os/Environment", "MEDIA_MOUNTED", "String")
<1>1. /\ PartsOf("android/os/Environment") = {"os/Environment"}
      /\ PartsOf("MEDIA_MOUNTED") = {"MEDIA_MOUNTED"}
  BY DEF PartsOf, RuleTexts
<1>2. ~ Takes(1) /\ ~ Takes(2) /\ ~ Takes(3)
  BY <1>1 DEF Calling!FieldRules, Calling!Rule, TakesParts
<1>3. Takes(4) /\ rules[4].answer = Calling!Text("mounted")
  BY <1>1 DEF Calling!FieldRules, Calling!Rule, TakesParts
<1>4. KnownRules(rules, 7) /\ id.cls \in AskTexts /\ id.name \in AskTexts
  BY FieldTexts DEF AskTexts, Asks, Asked
<1> HIDE DEF rules, Takes
<1>5. \A i \in 1 .. 4 - 1 : ~ Takes(i)
  BY <1>2
<1> USE DEF Takes
<1>6. Calling!Answered(rules, id, otherwise) = rules[4].answer
  BY <1>3, <1>4, <1>5, FirstByParts
<1> QED BY <1>3, <1>6 DEF rules

\* The version, from a field.
LEMMA VersionFieldAnswer ==
  ASSUME NEW id, NEW otherwise,
         id.cls = "android/content/pm/PackageInfo", id.name = "versionName", id.ret = "String"
  PROVE  Calling!Answered(Calling!FieldRules, id, otherwise) = Calling!Text("version")
<1> DEFINE rules == Calling!FieldRules
           Takes(i) == TakesParts(rules[i], "android/content/pm/PackageInfo",
                                  "versionName", "String")
<1>1. PartsOf("android/content/pm/PackageInfo") = {} /\ PartsOf("versionName") = {"versionName"}
  BY DEF PartsOf, RuleTexts
<1>2. Takes(1) /\ rules[1].answer = Calling!Text("version")
  BY <1>1 DEF Calling!FieldRules, Calling!Rule, TakesParts
<1>3. KnownRules(rules, 7) /\ id.cls \in AskTexts /\ id.name \in AskTexts
  BY FieldTexts DEF AskTexts, Asks, Asked
<1> HIDE DEF rules, Takes
<1>4. \A i \in 1 .. 1 - 1 : ~ Takes(i)
  OBVIOUS
<1> USE DEF Takes
<1>5. Calling!Answered(rules, id, otherwise) = rules[1].answer
  BY <1>2, <1>3, <1>4, FirstByParts
<1> QED BY <1>2, <1>5 DEF rules

\* The width, from a field.
LEMMA MetricsAnswer ==
  ASSUME NEW id, NEW otherwise,
         id.cls = "android/util/DisplayMetrics", id.name = "widthPixels", id.ret = "I"
  PROVE  Calling!Answered(Calling!MetricRules, id, otherwise) = Calling!Width
<1> DEFINE rules == Calling!MetricRules
           Takes(i) == TakesParts(rules[i], "android/util/DisplayMetrics", "widthPixels", "I")
<1>1. /\ PartsOf("android/util/DisplayMetrics") = {"DisplayMetrics"}
      /\ PartsOf("widthPixels") = {"widthPixels"}
  BY DEF PartsOf, RuleTexts
<1>2. ~ Takes(1) /\ ~ Takes(2) /\ ~ Takes(3)
  BY <1>1 DEF Calling!MetricRules, Calling!Rule, TakesParts
<1>3. Takes(4) /\ rules[4].answer = Calling!Width
  BY <1>1 DEF Calling!MetricRules, Calling!Rule, TakesParts
<1>4. KnownRules(rules, 5) /\ id.cls \in AskTexts /\ id.name \in AskTexts
  BY MetricTexts DEF AskTexts, Asks, Asked
<1> HIDE DEF rules, Takes
<1>5. \A i \in 1 .. 4 - 1 : ~ Takes(i)
  BY <1>2
<1> USE DEF Takes
<1>6. Calling!Answered(rules, id, otherwise) = rules[4].answer
  BY <1>3, <1>4, <1>5, FirstByParts
<1> QED BY <1>3, <1>6 DEF rules

\* The width, from the field of another class.
LEMMA PlayerAnswer ==
  ASSUME NEW id, NEW otherwise,
         id.cls = "com/unity3d/player/UnityPlayer", id.name = "widthPixels", id.ret = "I"
  PROVE  Calling!Answered(Calling!MetricRules, id, otherwise) = Calling!Width
<1> DEFINE rules == Calling!MetricRules
           Takes(i) == TakesParts(rules[i], "com/unity3d/player/UnityPlayer",
                                  "widthPixels", "I")
<1>1. /\ PartsOf("com/unity3d/player/UnityPlayer") = {"unity3d/player/UnityPlayer", "UnityPlayer"}
      /\ PartsOf("widthPixels") = {"widthPixels"}
  BY DEF PartsOf, RuleTexts
<1>2. ~ Takes(1) /\ ~ Takes(2) /\ ~ Takes(3)
  BY <1>1 DEF Calling!MetricRules, Calling!Rule, TakesParts
<1>3. Takes(4) /\ rules[4].answer = Calling!Width
  BY <1>1 DEF Calling!MetricRules, Calling!Rule, TakesParts
<1>4. KnownRules(rules, 5) /\ id.cls \in AskTexts /\ id.name \in AskTexts
  BY MetricTexts DEF AskTexts, Asks, Asked
<1> HIDE DEF rules, Takes
<1>5. \A i \in 1 .. 4 - 1 : ~ Takes(i)
  BY <1>2
<1> USE DEF Takes
<1>6. Calling!Answered(rules, id, otherwise) = rules[4].answer
  BY <1>3, <1>4, <1>5, FirstByParts
<1> QED BY <1>3, <1>6 DEF rules

\* What the engine is told on each topic, however it asks.
Topics == {"frames", "storage", "version", "home", "width", "plugin"}
AnswerOn(t) ==
  CASE t = "frames" -> Calling!Null
    [] t = "storage" -> Calling!Text("mounted")
    [] t = "version" -> Calling!Text("version")
    [] t = "home" -> Calling!Text("home")
    [] t = "width" -> Calling!Number(Calling!Width)
    [] t = "plugin" -> Calling!Object("com/android/billing/Plugin")

\* What the chain of calls has got so far is the key it began with.
ChainSound ==
  /\ prefKey \in PrefKeys /\ made \in {"named", "bytes", "string", "encoded", "stored"}
  /\ made \in {"named", "string", "encoded"} => hand = Calling!Text(prefKey)
  /\ made = "bytes" => hand = Calling!Bytes(prefKey)
  /\ made = "stored" /\ prefKey # "" => <<prefKey, prefKey>> \in stored
  /\ \A p \in stored : p[1] = p[2]

CallsInv ==
  /\ screen \in [w : Widths, h : Heights]
  /\ told = [t \in Topics |-> told[t]] /\ \A t \in Topics : told[t] \subseteq {AnswerOn(t)}
  /\ ChainSound

\* The topics are those of what is asked.
LEMMA TopicsAre == {a.topic : a \in Asks} = Topics
<1>1. ASSUME NEW a \in Asks PROVE a.topic \in Topics
  <2>1. \A by, cls, name, ret, topic : Asked(by, cls, name, ret, topic).topic = topic
    BY DEF Asked
  <2>2. \A by, cls, name, ret, topic :
          topic \in Topics => Asked(by, cls, name, ret, topic).topic \in Topics
    BY <2>1
  <2>3. /\ "frames" \in Topics /\ "storage" \in Topics /\ "version" \in Topics
        /\ "home" \in Topics /\ "width" \in Topics /\ "plugin" \in Topics
    BY DEF Topics
  <2> QED BY <2>2, <2>3 DEF Asks
<1>2. ASSUME NEW t \in Topics PROVE \E a \in Asks : a.topic = t
  <2> DEFINE Of(a, u) == a \in Asks /\ a.topic = u
  <2>1. /\ Of(Asked("object", "android/view/Choreographer", "getInstance", "Choreographer",
                    "frames"), "frames")
        /\ Of(Asked("object field", "android/os/Environment", "MEDIA_MOUNTED", "String",
                    "storage"), "storage")
        /\ Of(Asked("object", "java/lang/Object", "getVersionName", "String", "version"), "version")
        /\ Of(Asked("object", "java/io/File", "getAbsolutePath", "String", "home"), "home")
        /\ Of(Asked("int", "android/view/Display", "getWidth", "I", "width"), "width")
        /\ Of(Asked("object", "com/android/billing/Plugin", "getNative", "Plugin", "plugin"),
              "plugin")
    BY DEF Asks, Asked
  <2> QED BY <2>1 DEF Topics
<1> QED BY <1>1, <1>2

\* What is asked, and how it is answered, as the action has it.
AnswerTo(a) ==
  CASE a.by = "object" -> Calling!CallObject(Calling!Object(a.cls), a, Calling!Lost)
    [] a.by = "int" -> Calling!CallInt(a)
    [] a.by = "object field" -> Calling!ObjectField(a)
    [] a.by = "int field" -> Calling!IntField(a)

\* A class that no text of unity_jni.c is in is left to jni_fake.c.
LEMMA OwnedByParts ==
  ASSUME NEW cls \in AskTexts
  PROVE  Calling!Owned(cls) <=> \E s \in {"view/Display", "DisplayManager", "res/Configuration",
           "res/Resources", "DisplayMetrics", "content/Context", "unity3d/player/UnityPlayer"} :
             s \in PartsOf(cls)
<1>1. \A s \in RuleTexts : Calling!Has(cls, s) <=> s \in PartsOf(cls)
  BY TextAssumption
<1>2. {"view/Display", "DisplayManager", "res/Configuration", "res/Resources", "DisplayMetrics",
       "content/Context", "unity3d/player/UnityPlayer"} \subseteq RuleTexts
  BY TextsKnown
<1> QED BY <1>1, <1>2 DEF Calling!Owned

\* Each of the classes asked is one or the other.
LEMMA OwnersAre ==
  /\ Calling!Owned("android/content/Context") /\ Calling!Owned("android/view/Display")
  /\ ~ Calling!Owned("android/view/Choreographer") /\ ~ Calling!Owned("android/os/Environment")
  /\ ~ Calling!Owned("java/lang/Object") /\ ~ Calling!Owned("java/io/File")
  /\ ~ Calling!Owned("com/android/billing/Plugin") /\ ~ Calling!Owned("android/net/Uri")
<1>1. /\ PartsOf("android/content/Context") = {"content/Context"}
      /\ PartsOf("android/view/Display") = {"view/Display"}
      /\ PartsOf("android/view/Choreographer") = {"Choreographer"}
      /\ PartsOf("android/os/Environment") = {"os/Environment"}
      /\ PartsOf("android/net/Uri") = {"net/Uri"}
  BY DEF PartsOf
<1>2. /\ PartsOf("java/lang/Object") = {} /\ PartsOf("java/io/File") = {}
      /\ PartsOf("com/android/billing/Plugin") = {}
  BY DEF PartsOf, RuleTexts
<1>3. {"android/content/Context", "android/view/Display", "android/view/Choreographer",
       "android/os/Environment", "android/net/Uri", "java/lang/Object", "java/io/File",
       "com/android/billing/Plugin"} \subseteq AskTexts
  BY DEF AskTexts, Asks, Asked
<1> QED BY <1>1, <1>2, <1>3, OwnedByParts

\* Each question gets the answer on its topic.
LEMMA QuestionsAnswered ==
  ASSUME NEW a \in Asks
  PROVE  AnswerTo(a) = AnswerOn(a.topic)
<1>1. CASE a = Asked("object", "android/view/Choreographer", "getInstance",
                     "Choreographer", "frames")
  BY <1>1, FramesAnswer, OwnersAre DEF Asked, AnswerTo, AnswerOn, Calling!CallObject,
     Calling!Activity, Calling!Object
<1>2. CASE a = Asked("object", "android/os/Environment", "getExternalStorageState",
                     "String", "storage")
  BY <1>2, StorageAnswer, OwnersAre DEF Asked, AnswerTo, AnswerOn, Calling!CallObject,
     Calling!Activity, Calling!Object
<1>3. CASE a = Asked("object field", "android/os/Environment", "MEDIA_MOUNTED",
                     "String", "storage")
  BY <1>3, MountedAnswer DEF Asked, AnswerTo, AnswerOn, Calling!ObjectField
<1>4. CASE a = Asked("object", "java/lang/Object", "getVersionName", "String", "version")
  BY <1>4, VersionAnswer, OwnersAre DEF Asked, AnswerTo, AnswerOn, Calling!CallObject,
     Calling!Activity, Calling!Object
<1>5. CASE a = Asked("object field", "android/content/pm/PackageInfo", "versionName",
                     "String", "version")
  BY <1>5, VersionFieldAnswer DEF Asked, AnswerTo, AnswerOn, Calling!ObjectField
<1>6. CASE a = Asked("object", "android/content/Context", "getPackageCodePath",
                     "String", "home")
  BY <1>6, CodePathAnswer, OwnersAre DEF Asked, AnswerTo, AnswerOn, Calling!CallObject,
     Calling!Host, Calling!Object
<1>7. CASE a = Asked("object", "android/content/Context", "getPackageResourcePath",
                      "String", "home")
  BY <1>7, ResourcePathAnswer, OwnersAre DEF Asked, AnswerTo, AnswerOn, Calling!CallObject,
     Calling!Host, Calling!Object
<1>8. CASE a = Asked("object", "java/io/File", "getAbsolutePath", "String", "home")
  BY <1>8, PathAnswer, OwnersAre DEF Asked, AnswerTo, AnswerOn, Calling!CallObject,
     Calling!Activity, Calling!Object
<1>9. CASE a = Asked("int", "android/view/Display", "getWidth", "I", "width")
  BY <1>9, DisplayAnswer, OwnersAre DEF Asked, AnswerTo, AnswerOn, Calling!CallInt
<1>10. CASE a = Asked("int field", "android/util/DisplayMetrics", "widthPixels", "I", "width")
  BY <1>10, MetricsAnswer DEF Asked, AnswerTo, AnswerOn, Calling!IntField
<1>11. CASE a = Asked("int field", "com/unity3d/player/UnityPlayer", "widthPixels",
                      "I", "width")
  BY <1>11, PlayerAnswer DEF Asked, AnswerTo, AnswerOn, Calling!IntField
<1>12. CASE a = Asked("object", "com/android/billing/Plugin", "getNative", "Plugin", "plugin")
  BY <1>12, PluginAnswer, OwnersAre DEF Asked, AnswerTo, AnswerOn, Calling!CallObject,
     Calling!Activity, Calling!Object
<1> QED BY <1>1, <1>2, <1>3, <1>4, <1>5, <1>6, <1>8, <1>9, <1>10, <1>11, <1>12, <1>7 DEF Asks

\* The texts of the chain.
LEMMA ChainTexts ==
  /\ Calling!Has("getBytes", "getBytes") /\ Calling!Has("java/lang/String", "java/lang/String")
  /\ Calling!Has("([BLjava/lang/String;)V", "[B")
  /\ Calling!Has("android/net/Uri", "net/Uri") /\ Calling!Has("encode", "encode")
  /\ ~ Calling!Has("java/lang/String", "net/Uri") /\ ~ Calling!Has("java/lang/Object", "net/Uri")
  /\ ~ Calling!Has("encode", "getBytes")
<1>1. /\ PartsOf("getBytes") = {"getBytes"} /\ PartsOf("java/lang/String") = {"java/lang/String"}
      /\ PartsOf("encode") = {"encode"} /\ PartsOf("java/lang/Object") = {}
      /\ PartsOf("([BLjava/lang/String;)V") = {"[B", "java/lang/String"}
      /\ PartsOf("android/net/Uri") = {"net/Uri"}
  BY DEF PartsOf, RuleTexts
<1>2. {"getBytes", "java/lang/String", "encode", "java/lang/Object", "([BLjava/lang/String;)V",
       "android/net/Uri"} \subseteq AskTexts
  BY DEF AskTexts, Asks, Asked
<1>3. /\ "getBytes" \in RuleTexts /\ "java/lang/String" \in RuleTexts /\ "[B" \in RuleTexts
      /\ "net/Uri" \in RuleTexts /\ "encode" \in RuleTexts
  BY TextsKnown
<1> QED BY <1>1, <1>2, <1>3, TextAssumption

\* The answer on a topic does not change while the screen does not.
LEMMA AnswersKept == screen' = screen => \A t \in Topics : AnswerOn(t)' = AnswerOn(t)
BY DEF AnswerOn, Calling!Number, Calling!Width, Calling!Null, Calling!Text, Calling!Object

\* Asking adds the one answer on its topic.
LEMMA AskCallStep == ASSUME CallsInv, NEW a \in Asks, Calling!Ask(a) PROVE CallsInv'
<1>1. screen' = screen /\ prefKey' = prefKey /\ hand' = hand /\ made' = made /\ stored' = stored
  BY DEF Calling!Ask
<1>2. ChainSound'
  BY <1>1 DEF CallsInv, ChainSound, Calling!Text, Calling!Bytes
<1>3. told' = [told EXCEPT ![a.topic] = @ \cup {AnswerTo(a)}]
  BY DEF Calling!Ask, AnswerTo
<1>4. AnswerTo(a) = AnswerOn(a.topic)
  BY QuestionsAnswered
<1>5. a.topic \in Topics
  BY TopicsAre
<1>6. PICK x : x = AnswerTo(a)
  OBVIOUS
<1>7. told' = [t \in Topics |-> told'[t]] /\ \A t \in Topics : told'[t] \subseteq {AnswerOn(t)}
  BY <1>3, <1>4, <1>5, <1>6 DEF CallsInv
<1> QED BY <1>1, <1>2, <1>7, AnswersKept DEF CallsInv

\* The chain gives back at each call what it was given.
LEMMA ChainStep ==
  ASSUME CallsInv,
         \/ \E k \in PrefKeys : Calling!Begin(k)
         \/ \E form \in {"V", "A"} :
              \/ Calling!Encode(form)
              \/ \E cls \in {"java/lang/String", "java/lang/Object"} : Calling!GetBytes(form, cls)
         \/ Calling!NewString \/ Calling!Store
  PROVE  CallsInv'
<1> SUFFICES ASSUME screen' = screen, told' = told PROVE ChainSound'
  <2>1. screen' = screen /\ told' = told
    BY DEF Calling!Begin, Calling!Encode, Calling!GetBytes, Calling!NewString, Calling!Store,
       Calling!Step
  <2> QED BY <2>1, AnswersKept DEF CallsInv
<1>1. CASE \E k \in PrefKeys : Calling!Begin(k)
  BY <1>1 DEF CallsInv, ChainSound, Calling!Begin, Calling!Text
<1>2. CASE \E form \in {"V", "A"}, cls \in {"java/lang/String", "java/lang/Object"} :
             Calling!GetBytes(form, cls)
  <2>1. PICK form \in {"V", "A"}, cls \in {"java/lang/String", "java/lang/Object"} :
             Calling!GetBytes(form, cls)
    BY <1>2
  <2> DEFINE id == [cls |-> cls, name |-> "getBytes", ret |-> "[B"]
  <2>2. hand = Calling!Text(prefKey)
    BY <2>1 DEF Calling!GetBytes, Calling!Step, CallsInv, ChainSound
  <2>3. Calling!CallObject(hand, id, Calling!Lost) = Calling!Bytes(prefKey)
    BY <2>2, ChainTexts DEF Calling!CallObject, Calling!Text
  <2>4. Calling!Call(form, hand, id, Calling!Lost) = Calling!Bytes(prefKey)
    BY <2>3, ChainTexts DEF Calling!Call, Calling!CallObjectA
  <2>5. made' = "bytes" /\ hand' = Calling!Bytes(prefKey) /\ prefKey' = prefKey /\ stored' = stored
    BY <2>1, <2>4 DEF Calling!GetBytes, Calling!Step
  <2> QED BY <2>5 DEF CallsInv, ChainSound, Calling!Bytes
<1>3. CASE Calling!NewString
  <2>1. hand = Calling!Bytes(prefKey) /\ made' = "string" /\ prefKey' = prefKey /\ stored' = stored
    BY <1>3 DEF Calling!NewString, Calling!Step, CallsInv, ChainSound
  <2>2. hand' = Calling!Text(prefKey)
    BY <1>3, <2>1, ChainTexts DEF Calling!NewString, Calling!Step, Calling!NewObject,
       Calling!Bytes
  <2> QED BY <2>1, <2>2 DEF CallsInv, ChainSound, Calling!Text
<1>4. CASE \E form \in {"V", "A"} : Calling!Encode(form)
  <2>1. PICK form \in {"V", "A"} : Calling!Encode(form)
    BY <1>4
  <2> DEFINE id == [cls |-> "android/net/Uri", name |-> "encode", ret |-> "String"]
  <2>2. hand = Calling!Text(prefKey) /\ made' = "encoded" /\ prefKey' = prefKey /\ stored' = stored
    BY <2>1 DEF Calling!Encode, Calling!Step, CallsInv, ChainSound
  <2>3. Calling!Activity(id, hand) = hand
    BY EncodeAnswer DEF Calling!Activity
  <2>4. Calling!CallObject(Calling!Null, id, hand) = hand
    BY <2>3, OwnersAre DEF Calling!CallObject, Calling!Null
  <2>5. Calling!Call(form, Calling!Null, id, hand) = hand
    BY <2>4, ChainTexts DEF Calling!Call, Calling!CallObjectA
  <2>6. hand' = hand
    BY <2>1, <2>5 DEF Calling!Encode, Calling!Step
  <2> QED BY <2>2, <2>6 DEF CallsInv, ChainSound, Calling!Text
<1>5. CASE Calling!Store
  <2>1. hand = Calling!Text(prefKey) /\ made' = "stored" /\ prefKey' = prefKey /\ hand' = hand
    BY <1>5 DEF Calling!Store, CallsInv, ChainSound
  <2>2. stored' = IF prefKey # "" THEN stored \cup {<<prefKey, prefKey>>} ELSE stored
    BY <1>5, <2>1 DEF Calling!Store, Calling!Text
  <2>3. PICK k : k = prefKey
    OBVIOUS
  <2>4. <<k, k>>[1] = <<k, k>>[2] /\ \A p \in stored : p[1] = p[2]
    BY DEF CallsInv, ChainSound
  <2>5. /\ \A p \in stored' : p[1] = p[2]
        /\ k # "" => <<k, k>> \in stored'
    BY <2>2, <2>3, <2>4
  <2> QED BY <2>1, <2>3, <2>5 DEF CallsInv, ChainSound
<1> QED BY <1>1, <1>2, <1>3, <1>4, <1>5

\* What the engine has been told and what it is making, as they begin.
LEMMA CallsInit == Calling!Init => CallsInv
<1> SUFFICES ASSUME Calling!Init PROVE CallsInv
  OBVIOUS
<1>1. told = [t \in Topics |-> {}]
  BY TopicsAre DEF Calling!Init
<1>2. "" \in PrefKeys
  BY CallingAssumption DEF Calling!CallsAssumption
<1> QED BY <1>1, <1>2 DEF Calling!Init, CallsInv, ChainSound

\* Every call keeps it.
LEMMA CallsStep == CallsInv /\ Calling!Next => CallsInv'
BY AskCallStep, ChainStep DEF Calling!Next

\* One answer on each topic is what was to be shown of them.
LEMMA CallsSound ==
  CallsInv => Calling!TypeOK /\ Calling!AnswersAgree /\ Calling!KeysApart
<1> SUFFICES ASSUME CallsInv PROVE Calling!TypeOK /\ Calling!AnswersAgree /\ Calling!KeysApart
  OBVIOUS
<1>1. DOMAIN told = Topics
  BY DEF CallsInv
<1>2. ASSUME NEW t \in Topics
      PROVE  /\ AnswerOn(t).kind \in {"null", "text", "object", "number"}
             /\ AnswerOn(t) = Calling!Null => t = "frames"
  BY DEF Topics, AnswerOn, Calling!Null, Calling!Text, Calling!Number, Calling!Object
<1>3. ASSUME NEW t \in Topics PROVE Calling!Cardinality(told[t]) <= 1
  <2>1. told[t] = {} \/ told[t] = {AnswerOn(t)}
    BY DEF CallsInv
  <2>2. Cardinality(told[t]) <= 1
    BY <2>1, FS_EmptySet, FS_Singleton
  <2> QED BY <2>2 DEF Calling!Cardinality, Cardinality
<1>4. Calling!TypeOK
  BY <1>1, <1>2 DEF CallsInv, ChainSound, Calling!TypeOK
<1>5. Calling!AnswersAgree
  BY <1>1, <1>2, <1>3 DEF CallsInv, Calling!AnswersAgree
<1>6. Calling!KeysApart
  BY DEF CallsInv, ChainSound, Calling!KeysApart
<1> QED BY <1>4, <1>5, <1>6

\* jni_fake.c, unity_jni.c: however the engine asks, it is told one thing on each
\* topic, and a preference is stored under the key it began with.
THEOREM CallsAgree ==
  MCSpec => [](part = "calling" => Calling!TypeOK /\ Calling!AnswersAgree /\ Calling!KeysApart)
<1> DEFINE Inv == part = "calling" => CallsInv
<1>1. MCInit => Inv
  BY CallsInit DEF MCInit
<1>2. Inv /\ [MCNext]_allVars => Inv'
  <2> SUFFICES ASSUME CallsInv, part = "calling", part' = "calling", [MCNext]_allVars
               PROVE  CallsInv'
    BY DEF MCNext, allVars
  <2>1. Calling!Next \/ UNCHANGED callingVars
    BY DEF MCNext, allVars, javaVars
  <2>2. CASE UNCHANGED callingVars
    <3>1. /\ screen' = screen /\ told' = told /\ prefKey' = prefKey
          /\ hand' = hand /\ made' = made /\ stored' = stored
      BY <2>2 DEF callingVars
    <3>2. ChainSound'
      BY <3>1 DEF CallsInv, ChainSound, Calling!Text, Calling!Bytes
    <3>3. \A t \in Topics : AnswerOn(t)' = AnswerOn(t)
      BY <3>1, AnswersKept
    <3> QED BY <3>1, <3>2, <3>3 DEF CallsInv
  <2> QED BY <2>1, <2>2, CallsStep
<1>3. CallsInv => Calling!TypeOK /\ Calling!AnswersAgree /\ Calling!KeysApart
  BY CallsSound
<1> QED BY <1>1, <1>2, <1>3, PTL DEF MCSpec

-----------------------------------------------------------------------------

\* jni_fake.c, unity_jni.c: what stands in for Java answers as Java would, in
\* each of its parts.
THEOREM JavaIsRight == MCSpec => []JavaAnswers
<1>1. /\ (part = "naming" => Naming!TypeOK /\ Naming!NamesOneToOne)
      /\ (part = "calling" =>
            Calling!TypeOK /\ Calling!AnswersAgree /\ Calling!KeysApart)
      /\ (part = "arrays" => Keeping!TypeOK /\ Keeping!ArraysExact)
      /\ (part = "streaming" => Streaming!TypeOK /\ Streaming!StreamsRight)
      /\ (part = "sounding" => Sounding!TypeOK /\ Sounding!OutputOpens)
      => JavaAnswers
  BY DEF JavaAnswers
<1> QED BY <1>1, NamesAreOneToOne, CallsAgree, CopiesAreExact, StreamsAreRight,
           OutputAlwaysOpens, PTL

=============================================================================
