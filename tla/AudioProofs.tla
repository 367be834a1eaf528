----------------------------- MODULE AudioProofs -----------------------------
(***************************************************************************)
(* Theorems about Audio, for any number of players, slots, buffers and     *)
(* engine threads, when the engine uses players in the way opensles.c      *)
(* needs (AnyUse = FALSE; without, run clear_in_block): no freed player is *)
(* used, no missing buffer is played, and the buffer queues are those of   *)
(* SoundQueues.                                                            *)
(***************************************************************************)
EXTENDS Audio, SequenceTheorems, NumberFacts

\* Where the audio thread is: a player it mixes is in a slot, is not counted as
\* dry, and has its buffer in the queue, in hand, or in cur.
MixerPlaced ==
  /\ mixer = "idle" <=> at = 0
  /\ mixer \in {"fetch", "store", "play", "callback"} => Current \in heap /\ drained[Current] = 0
  /\ mixer = "play" => cur[Current] # NoBuffer
  /\ mixer = "store" => cur[Current] = NoBuffer
  /\ taken # NoBuffer <=> mixer = "store"

\* Players stand in one slot each, and the engine has none that was freed.
SlotsSound ==
  /\ held \subseteq heap
  /\ \A i \in Slots : slots[i] \in heap \cup {NoPlayer}
  /\ \A i, j \in Slots : slots[i] = slots[j] /\ slots[i] # NoPlayer => i = j
  /\ \A t \in Engine : call[t].op = "destroy" => call[t].p \in Players

\* A player that is freed has nothing left, and one that may be reclaimed has
\* nothing to play and nobody who would give it more.
DrainedSound ==
  /\ \A p \in Players \ heap : IsDry(p) /\ ~ playing[p] /\ drained[p] = 0
  /\ \A p \in Players : drained[p] > ReclaimAfter => p \notin held /\ IsDry(p)

IInv == TypeOK /\ MixerPlaced /\ SlotsSound /\ DrainedSound

-----------------------------------------------------------------------------

\* The first slot of those that qualify is one of them.
LEMMA FirstIsOne ==
  ASSUME NEW S, S \subseteq Slots, S # {}
  PROVE  FirstOf(S) \in S
<1>1. S \subseteq Nat
  BY AudioAssumption DEF Slots
<1>2. Min(S) \in S /\ \A y \in S : Min(S) <= y
  BY <1>1, MinIsLeast
<1> QED BY <1>2 DEF FirstOf

\* The queue of a player has a head and a tail, and one more in it fits.
LEMMA QueueOps ==
  ASSUME TypeOK, NEW p \in Players
  PROVE  /\ queue[p] # <<>> => /\ Head(queue[p]) \in Buffers /\ Tail(queue[p]) \in Seq(Buffers)
                               /\ Len(Tail(queue[p])) < QSlots
         /\ \A b \in Buffers : /\ Append(queue[p], b) \in Seq(Buffers)
                               /\ Len(Append(queue[p], b)) = Len(queue[p]) + 1
         /\ <<>> \in Seq(Buffers) /\ Len(<<>>) < QSlots /\ Len(queue[p]) \in Nat
<1>1. queue[p] \in Seq(Buffers) /\ Len(queue[p]) \in Nat /\ Len(queue[p]) < QSlots
  BY DEF TypeOK
<1>2. queue[p] # <<>> => Len(Tail(queue[p])) = Len(queue[p]) - 1
  BY <1>1
<1> QED BY <1>1, <1>2, AudioAssumption

QueuesTyped == queue \in [Players -> Seq(Buffers)] /\ \A p \in Players : Len(queue[p]) < QSlots

\* A queue of its size in place of another.
LEMMA OneQueue ==
  ASSUME TypeOK, NEW p \in Players, NEW s \in Seq(Buffers), Len(s) < QSlots,
         queue' = [queue EXCEPT ![p] = s]
  PROVE  QueuesTyped'
BY DEF TypeOK, QueuesTyped

\* The buffer queue interface keeps the queues.
LEMMA QueueCalls ==
  ASSUME TypeOK, NEW p \in Players,
         \/ \E b \in Buffers : Enqueue(p, b)
         \/ Clear(p)
         \/ \E on \in BOOLEAN : SetPlayState(p, on)
  PROVE  /\ QueuesTyped' /\ drained' = drained
         /\ cur' \in [Players -> Buffers \cup {NoBuffer}] /\ playing' \in [Players -> BOOLEAN]
<1>1. ASSUME NEW b \in Buffers, Enqueue(p, b) PROVE QueuesTyped'
  <2>1. Append(queue[p], b) \in Seq(Buffers) /\ Len(Append(queue[p], b)) < QSlots
    BY <1>1, QueueOps, AudioAssumption DEF Enqueue
  <2> QED BY <1>1, <2>1, OneQueue DEF Enqueue
<1>2. ASSUME Clear(p) PROVE QueuesTyped'
  BY <1>2, QueueOps, OneQueue DEF Clear
<1>3. ASSUME NEW on \in BOOLEAN, SetPlayState(p, on) PROVE QueuesTyped'
  BY <1>3 DEF SetPlayState, TypeOK, QueuesTyped
<1>4. /\ drained' = drained
      /\ cur' \in [Players -> Buffers \cup {NoBuffer}] /\ playing' \in [Players -> BOOLEAN]
  BY DEF Enqueue, Clear, SetPlayState, TypeOK
<1> QED BY <1>1, <1>2, <1>3, <1>4

\* The slot that CreateAudioPlayer takes, and whom it frees for it.
Spot == IF FreeSlots # {} THEN FreeSlots ELSE Victims
Gone == IF Spot = {} THEN {} ELSE {slots[FirstOf(Spot)]} \ {NoPlayer}

\* Whom it frees has been dry for long; nobody else stands in the slot.
LEMMA GoneIsVictim ==
  ASSUME IInv
  PROVE  /\ Spot # {} => FirstOf(Spot) \in Slots
         /\ Gone \subseteq Players /\ Gone \subseteq heap \ held
         /\ \A v \in Gone : IsDry(v) /\ slots[FirstOf(Spot)] = v
         /\ Gone = {} => Spot = {} \/ slots[FirstOf(Spot)] = NoPlayer
         /\ \A v, w \in Gone : v = w
<1>1. Spot \subseteq Slots
  BY DEF Spot, FreeSlots, Victims
<1>2. Spot # {} => FirstOf(Spot) \in Spot
  BY <1>1, FirstIsOne
<1>3. ASSUME NEW v \in Gone
      PROVE  /\ v = slots[FirstOf(Spot)] /\ v # NoPlayer /\ v \in heap /\ v \in Players
             /\ v \notin held /\ IsDry(v)
  <2>1. v = slots[FirstOf(Spot)] /\ v # NoPlayer /\ FirstOf(Spot) \in Spot
    BY <1>2, <1>3 DEF Gone
  <2>2. FirstOf(Spot) \in Victims
    BY <2>1 DEF Spot, FreeSlots
  <2>3. FirstOf(Spot) \in Slots /\ drained[v] > ReclaimAfter
    BY <2>1, <2>2 DEF Victims
  <2>4. v \in heap /\ v \in Players
    BY <2>1, <2>3 DEF IInv, SlotsSound, TypeOK
  <2> QED BY <2>1, <2>3, <2>4 DEF IInv, DrainedSound
<1>4. Gone = {} => Spot = {} \/ slots[FirstOf(Spot)] = NoPlayer
  BY DEF Gone
<1> QED BY <1>1, <1>2, <1>3, <1>4

\* Types are kept.
LEMMA TypeKept ==
  ASSUME IInv, ~ AnyUse, [Next]_vars
  PROVE  TypeOK'
<1> USE AudioAssumption DEF IInv, TypeOK, MixerPlaced, SlotsSound, DrainedSound, Slots, Current
<1>a. mixer # "idle" => at \in Slots
  OBVIOUS
<1>b. mixer \in {"fetch", "store", "play", "callback"} => Current \in Players
  OBVIOUS
<1>1. CASE StartBlock
  BY <1>1 DEF StartBlock, ByMixer, player
<1>2. CASE PassOver
  BY <1>2 DEF PassOver, Advance, ByMixer, player
<1>3. CASE Dry
  BY <1>3, <1>a DEF Dry, Advance, ByMixer, IsDry
<1>4. CASE StartMix
  BY <1>4 DEF StartMix, Turn, ByMixer, IsDry
<1>5. CASE Fetch
  <2>1. Current \in Players
    BY <1>5, <1>b DEF Fetch
  <2>2. taken' \in Buffers \cup {NoBuffer} /\ QueuesTyped'
    <3>1. CASE cur[Current] # NoBuffer
      BY <1>5, <3>1 DEF Fetch, QueuesTyped
    <3>2. CASE cur[Current] = NoBuffer
      <4>1. /\ queue[Current] # <<>> /\ taken' = Head(queue[Current])
            /\ queue' = [queue EXCEPT ![Current] = Tail(queue[Current])]
        BY <1>5, <3>2 DEF Fetch
      <4>2. /\ Head(queue[Current]) \in Buffers /\ Tail(queue[Current]) \in Seq(Buffers)
            /\ Len(Tail(queue[Current])) < QSlots
        BY <2>1, <4>1, QueueOps
      <4> HIDE DEF Current
      <4> QED BY <2>1, <4>1, <4>2, OneQueue
    <3> QED BY <3>1, <3>2
  <2> QED BY <1>5, <2>2 DEF Fetch, ByMixer, QueuesTyped
<1>6. CASE Underrun
  BY <1>6 DEF Underrun, Advance, ByMixer, player, IsDry
<1>7. CASE StoreCur
  BY <1>7 DEF StoreCur, ByMixer
<1>8. CASE BlockFull
  BY <1>8 DEF BlockFull, Advance, ByMixer, player
<1>9. CASE Finish
  BY <1>9 DEF Finish, Turn, ByMixer
<1>10. CASE Callback
  <2>1. Current \in Players
    BY <1>10, <1>b DEF Callback
  <2>2. CASE UNCHANGED player
    BY <1>10, <2>2 DEF Callback, Turn, ByMixer, player
  <2>3. CASE (\E b \in Buffers : Enqueue(Current, b)) \/ Clear(Current)
    <3>1. /\ QueuesTyped' /\ drained' = drained
          /\ cur' \in [Players -> Buffers \cup {NoBuffer}] /\ playing' \in [Players -> BOOLEAN]
      <4> HIDE DEF Current
      <4> QED BY <2>1, <2>3, QueueCalls
    <3> QED BY <1>10, <3>1 DEF Callback, Turn, ByMixer, QueuesTyped
  <2> QED BY <1>10, <2>2, <2>3 DEF Callback
<1>11. ASSUME NEW t \in Engine, Enter(t) PROVE TypeOK'
  BY <1>11 DEF Enter, ByEngine, player, thread
<1>12. ASSUME NEW t \in Engine, Leave(t) PROVE TypeOK'
  BY <1>12 DEF Leave, ByEngine, player, thread
<1>13. ASSUME NEW t \in Engine, CallCreate(t) PROVE TypeOK'
  BY <1>13 DEF CallCreate, Begin, NoCall, ByEngine, player, thread
<1>14. ASSUME NEW t \in Engine, CreateAudioPlayer(t) PROVE TypeOK'
  <2>1. PICK q \in Players \ heap :
          /\ slots' = IF Spot = {} THEN slots ELSE [slots EXCEPT ![FirstOf(Spot)] = q]
          /\ heap' = (heap \ Gone) \cup {q} /\ held' = held \cup {q}
          /\ Fresh(Gone)
    BY <1>14 DEF CreateAudioPlayer, Spot, Gone
  <2>2. slots' \in [Slots -> Players \cup {NoPlayer}]
    BY <2>1
  <2>3. /\ playing' \in [Players -> BOOLEAN] /\ cur' \in [Players -> Buffers \cup {NoBuffer}]
        /\ drained' \in [Players -> 0 .. (ReclaimAfter + 1)]
        /\ queue' \in [Players -> Seq(Buffers)] /\ \A r \in Players : Len(queue'[r]) < QSlots
    BY <2>1, QueueOps DEF Fresh
  <2>4. call' \in [Engine -> [op : {"none", "create", "destroy"}, p : Players \cup {NoPlayer}]]
    BY <1>14 DEF CreateAudioPlayer, NoCall
  <2> QED BY <1>14, <2>1, <2>2, <2>3, <2>4 DEF CreateAudioPlayer, thread
<1>15. ASSUME NEW t \in Engine, Destroy(t) PROVE TypeOK'
  BY <1>15 DEF Destroy, Fresh, NoCall, thread, RegLock
<1>16. ASSUME NEW t \in Engine, NEW p \in Players, Use(t, p) PROVE TypeOK'
  <2>1. /\ QueuesTyped' /\ drained' = drained
        /\ cur' \in [Players -> Buffers \cup {NoBuffer}] /\ playing' \in [Players -> BOOLEAN]
    BY <1>16, QueueCalls DEF Use
  <2> QED BY <1>16, <2>1 DEF Use, ByEngine, thread, QueuesTyped
<1>17. ASSUME NEW t \in Engine, NEW p \in Players, CallDestroy(t, p) PROVE TypeOK'
  BY <1>17 DEF CallDestroy, Begin, ByEngine, player, thread
<1>18. CASE UNCHANGED vars
  BY <1>18 DEF vars, player, thread
<1> QED BY <1>1, <1>2, <1>3, <1>4, <1>5, <1>6, <1>7, <1>8, <1>9, <1>10,
           <1>11, <1>12, <1>13, <1>14, <1>15, <1>16, <1>17, <1>18
        DEF Next, MixStep, EngineStep

\* The audio thread goes through a player in order, and nobody interferes.
LEMMA PlaceKept ==
  ASSUME IInv, ~ AnyUse, [Next]_vars
  PROVE  MixerPlaced'
<1> USE AudioAssumption DEF IInv, TypeOK, MixerPlaced, SlotsSound, DrainedSound, Slots, Current
<1>1. CASE StartBlock
  BY <1>1 DEF StartBlock, ByMixer, player
<1>2. CASE PassOver
  BY <1>2 DEF PassOver, Advance, ByMixer, player
<1>3. CASE Dry
  BY <1>3 DEF Dry, Advance, ByMixer, IsDry
<1>4. CASE StartMix
  BY <1>4 DEF StartMix, Turn, ByMixer, IsDry
<1>5. CASE Fetch
  BY <1>5 DEF Fetch, ByMixer
<1>6. CASE Underrun
  BY <1>6 DEF Underrun, Advance, ByMixer, player, IsDry
<1>7. CASE StoreCur
  BY <1>7 DEF StoreCur, ByMixer
<1>8. CASE BlockFull
  BY <1>8 DEF BlockFull, Advance, ByMixer, player
<1>9. CASE Finish
  BY <1>9 DEF Finish, Turn, ByMixer
<1>10. CASE Callback
  BY <1>10 DEF Callback, Turn, ByMixer, Enqueue, Clear, player
<1>11. ASSUME NEW t \in Engine, Enter(t) PROVE MixerPlaced'
  BY <1>11 DEF Enter, ByEngine, player, thread
<1>12. ASSUME NEW t \in Engine, Leave(t) PROVE MixerPlaced'
  BY <1>12 DEF Leave, ByEngine, player, thread
<1>13. ASSUME NEW t \in Engine, CallCreate(t) PROVE MixerPlaced'
  BY <1>13 DEF CallCreate, Begin, NoCall, ByEngine, player, thread
<1>14. ASSUME NEW t \in Engine, CreateAudioPlayer(t) PROVE MixerPlaced'
  BY <1>14 DEF CreateAudioPlayer, Fresh, NoCall, thread, RegLock
<1>15. ASSUME NEW t \in Engine, Destroy(t) PROVE MixerPlaced'
  BY <1>15 DEF Destroy, Fresh, NoCall, thread, RegLock
<1>16. ASSUME NEW t \in Engine, NEW p \in Players, Use(t, p) PROVE MixerPlaced'
  BY <1>16 DEF Use, ByEngine, thread, Enqueue, Clear, SetPlayState, Settled, Mixing, RegLock
<1>17. ASSUME NEW t \in Engine, NEW p \in Players, CallDestroy(t, p) PROVE MixerPlaced'
  BY <1>17 DEF CallDestroy, Begin, ByEngine, player, thread
<1>18. CASE UNCHANGED vars
  BY <1>18 DEF vars, player, thread
<1> QED BY <1>1, <1>2, <1>3, <1>4, <1>5, <1>6, <1>7, <1>8, <1>9, <1>10,
           <1>11, <1>12, <1>13, <1>14, <1>15, <1>16, <1>17, <1>18
        DEF Next, MixStep, EngineStep

\* Slots are given to players that were free.
LEMMA SlotsKept ==
  ASSUME IInv, ~ AnyUse, [Next]_vars
  PROVE  SlotsSound'
<1> USE AudioAssumption DEF IInv, TypeOK, MixerPlaced, SlotsSound, DrainedSound, Slots, Current
<1>1. CASE StartBlock
  BY <1>1 DEF StartBlock, ByMixer, player
<1>2. CASE PassOver
  BY <1>2 DEF PassOver, Advance, ByMixer, player
<1>3. CASE Dry
  BY <1>3 DEF Dry, Advance, ByMixer, IsDry
<1>4. CASE StartMix
  BY <1>4 DEF StartMix, Turn, ByMixer, IsDry
<1>5. CASE Fetch
  BY <1>5 DEF Fetch, ByMixer
<1>6. CASE Underrun
  BY <1>6 DEF Underrun, Advance, ByMixer, player, IsDry
<1>7. CASE StoreCur
  BY <1>7 DEF StoreCur, ByMixer
<1>8. CASE BlockFull
  BY <1>8 DEF BlockFull, Advance, ByMixer, player
<1>9. CASE Finish
  BY <1>9 DEF Finish, Turn, ByMixer
<1>10. CASE Callback
  BY <1>10 DEF Callback, Turn, ByMixer, Enqueue, Clear, player
<1>11. ASSUME NEW t \in Engine, Enter(t) PROVE SlotsSound'
  BY <1>11 DEF Enter, ByEngine, player, thread
<1>12. ASSUME NEW t \in Engine, Leave(t) PROVE SlotsSound'
  BY <1>12 DEF Leave, ByEngine, player, thread
<1>13. ASSUME NEW t \in Engine, CallCreate(t) PROVE SlotsSound'
  BY <1>13 DEF CallCreate, Begin, NoCall, ByEngine, player, thread
<1>14. ASSUME NEW t \in Engine, CreateAudioPlayer(t) PROVE SlotsSound'
  <2>1. PICK q \in Players \ heap :
          /\ slots' = IF Spot = {} THEN slots ELSE [slots EXCEPT ![FirstOf(Spot)] = q]
          /\ heap' = (heap \ Gone) \cup {q} /\ held' = held \cup {q}
    BY <1>14 DEF CreateAudioPlayer, Spot, Gone
  <2>2. /\ held' \subseteq heap'
        /\ \A u \in Engine : call'[u].op = "destroy" => call'[u].p \in Players
    BY <1>14, <2>1, GoneIsVictim DEF CreateAudioPlayer, NoCall
  <2>3. /\ \A i \in Slots : slots'[i] \in heap' \cup {NoPlayer}
        /\ \A i, j \in Slots : slots'[i] = slots'[j] /\ slots'[i] # NoPlayer => i = j
    <3>1. CASE Spot = {}
      BY <2>1, <3>1 DEF Gone
    <3>2. CASE Spot # {}
      <4>1. PICK f \in Slots : f = FirstOf(Spot) /\ \A v \in Gone : slots[f] = v
        BY <3>2, GoneIsVictim
      <4>2. Gone \subseteq Players /\ NoPlayer \notin Players /\ q \notin heap /\ q # NoPlayer
        BY <2>1, GoneIsVictim
      <4>3. slots'[f] = q /\ \A i \in Slots \ {f} : slots'[i] = slots[i]
        BY <2>1, <3>2, <4>1
      <4>4. \A i \in Slots \ {f} : slots[i] \notin Gone
        BY <4>1, <4>2
      <4> QED BY <2>1, <4>2, <4>3, <4>4
    <3> QED BY <3>1, <3>2
  <2> QED BY <2>2, <2>3
<1>15. ASSUME NEW t \in Engine, Destroy(t) PROVE SlotsSound'
  BY <1>15 DEF Destroy, Fresh, NoCall, thread, RegLock
<1>16. ASSUME NEW t \in Engine, NEW p \in Players, Use(t, p) PROVE SlotsSound'
  BY <1>16 DEF Use, ByEngine, thread, Enqueue, Clear, SetPlayState, Settled, Mixing, RegLock
<1>17. ASSUME NEW t \in Engine, NEW p \in Players, CallDestroy(t, p) PROVE SlotsSound'
  BY <1>17 DEF CallDestroy, Begin, ByEngine, player, thread
<1>18. CASE UNCHANGED vars
  BY <1>18 DEF vars, player, thread
<1> QED BY <1>1, <1>2, <1>3, <1>4, <1>5, <1>6, <1>7, <1>8, <1>9, <1>10,
           <1>11, <1>12, <1>13, <1>14, <1>15, <1>16, <1>17, <1>18
        DEF Next, MixStep, EngineStep

\* Only a dry player is counted as dry.
LEMMA DrainedKept ==
  ASSUME IInv, ~ AnyUse, [Next]_vars
  PROVE  DrainedSound'
<1> USE AudioAssumption DEF IInv, TypeOK, MixerPlaced, SlotsSound, DrainedSound, Slots, Current, IsDry
<1>1. CASE StartBlock
  BY <1>1 DEF StartBlock, ByMixer, player
<1>2. CASE PassOver
  BY <1>2 DEF PassOver, Advance, ByMixer, player
<1>3. CASE Dry
  BY <1>3 DEF Dry, Advance, ByMixer, IsDry
<1>4. CASE StartMix
  BY <1>4 DEF StartMix, Turn, ByMixer, IsDry
<1>5. CASE Fetch
  BY <1>5 DEF Fetch, ByMixer
<1>6. CASE Underrun
  BY <1>6 DEF Underrun, Advance, ByMixer, player, IsDry
<1>7. CASE StoreCur
  BY <1>7 DEF StoreCur, ByMixer
<1>8. CASE BlockFull
  BY <1>8 DEF BlockFull, Advance, ByMixer, player
<1>9. CASE Finish
  BY <1>9 DEF Finish, Turn, ByMixer
<1>10. CASE Callback
  <2>1. CASE Current \in held /\ \E b \in Buffers : Enqueue(Current, b)
    BY <1>10, <2>1 DEF Callback, Turn, ByMixer, Enqueue
  <2>2. CASE Current \in held /\ Clear(Current)
    BY <1>10, <2>2 DEF Callback, Turn, ByMixer, Clear
  <2>3. CASE UNCHANGED player
    BY <1>10, <2>3 DEF Callback, Turn, ByMixer, player
  <2> QED BY <1>10, <2>1, <2>2, <2>3 DEF Callback
<1>11. ASSUME NEW t \in Engine, Enter(t) PROVE DrainedSound'
  BY <1>11 DEF Enter, ByEngine, player, thread
<1>12. ASSUME NEW t \in Engine, Leave(t) PROVE DrainedSound'
  BY <1>12 DEF Leave, ByEngine, player, thread
<1>13. ASSUME NEW t \in Engine, CallCreate(t) PROVE DrainedSound'
  BY <1>13 DEF CallCreate, Begin, NoCall, ByEngine, player, thread
<1>14. ASSUME NEW t \in Engine, CreateAudioPlayer(t) PROVE DrainedSound'
  BY <1>14 DEF CreateAudioPlayer, Fresh, NoCall, thread, RegLock
<1>15. ASSUME NEW t \in Engine, Destroy(t) PROVE DrainedSound'
  BY <1>15 DEF Destroy, Fresh, NoCall, thread, RegLock
<1>16. ASSUME NEW t \in Engine, NEW p \in Players, Use(t, p) PROVE DrainedSound'
  <2>1. /\ p \in held /\ UNCHANGED <<heap, held>>
        /\ \/ \E b \in Buffers : Enqueue(p, b)
           \/ Clear(p)
           \/ \E on \in BOOLEAN : SetPlayState(p, on)
    BY <1>16 DEF Use, ByEngine
  <2>2. CASE \E b \in Buffers : Enqueue(p, b)
    BY <2>1, <2>2 DEF Enqueue
  <2>3. CASE Clear(p)
    BY <2>1, <2>3 DEF Clear
  <2>4. CASE \E on \in BOOLEAN : SetPlayState(p, on)
    BY <2>1, <2>4 DEF SetPlayState
  <2> QED BY <2>1, <2>2, <2>3, <2>4
<1>17. ASSUME NEW t \in Engine, NEW p \in Players, CallDestroy(t, p) PROVE DrainedSound'
  BY <1>17 DEF CallDestroy, Begin, ByEngine, player, thread
<1>18. CASE UNCHANGED vars
  BY <1>18 DEF vars, player, thread
<1> QED BY <1>1, <1>2, <1>3, <1>4, <1>5, <1>6, <1>7, <1>8, <1>9, <1>10,
           <1>11, <1>12, <1>13, <1>14, <1>15, <1>16, <1>17, <1>18
        DEF Next, MixStep, EngineStep

\* Before the first player there is nothing to keep apart.
LEMMA InvInit == Init => IInv
<1> SUFFICES ASSUME Init PROVE IInv
  OBVIOUS
<1>1. TypeOK
  BY AudioAssumption DEF Init, TypeOK, NoCall
<1>2. MixerPlaced /\ SlotsSound /\ DrainedSound
  BY AudioAssumption DEF Init, MixerPlaced, SlotsSound, DrainedSound, IsDry, NoCall
<1> QED BY <1>1, <1>2 DEF IInv

\* The invariant holds in every state of an engine that keeps to its rules.
LEMMA InvAlways ==
  ASSUME ~ AnyUse
  PROVE  Spec => []IInv
<1>1. ASSUME IInv, [Next]_vars PROVE IInv'
  BY <1>1, TypeKept, PlaceKept, SlotsKept, DrainedKept DEF IInv
<1> QED BY <1>1, InvInit, PTL DEF Spec

\* An engine that keeps to its rules never has the mixer use a freed player or
\* play a buffer that is gone (opensles.c:288-290, 862).
THEOREM MixerIsSound ==
  ASSUME ~ AnyUse
  PROVE  Spec => []MixerSound
<1>1. IInv => MixerSound
  BY AudioAssumption DEF IInv, TypeOK, MixerPlaced, SlotsSound, MixerSound, PlayersSafe, Range
<1> QED BY <1>1, InvAlways, PTL

-----------------------------------------------------------------------------
(* The refinement: what a player has not completed is one buffer at most   *)
(* before its queue.                                                       *)

First(p) == IF taken # NoBuffer /\ Current = p THEN taken ELSE cur[p]
Whole(b, q) == IF b # NoBuffer THEN <<b>> \o q ELSE q
OneBefore == Pending = [p \in Players |-> Whole(First(p), queue[p])]

\* How the first buffer and the queue make up a sequence.
LEMMA WholeFacts ==
  ASSUME NEW q \in Seq(Buffers), NEW b \in Buffers \cup {NoBuffer}
  PROVE  /\ q # <<>> => Whole(Head(q), Tail(q)) = q
         /\ b # NoBuffer => Whole(b, q) # <<>> /\ Tail(Whole(b, q)) = q
         /\ Whole(NoBuffer, q) = q
         /\ \A c \in Buffers : Append(Whole(b, q), c) = Whole(b, Append(q, c))
<1>1. ASSUME q # <<>> PROVE Whole(Head(q), Tail(q)) = q
  <2>1. Head(q) \in Buffers /\ Tail(q) \in Seq(Buffers) /\ q = <<Head(q)>> \o Tail(q)
    BY <1>1
  <2> QED BY <2>1, AudioAssumption DEF Whole
<1>2. ASSUME b # NoBuffer PROVE Whole(b, q) # <<>> /\ Tail(Whole(b, q)) = q
  <2>1. b \in Buffers /\ <<b>> \in Seq(Buffers)
    BY <1>2
  <2>2. <<b>> \o q # <<>> /\ Tail(<<b>> \o q) = q
    BY <2>1
  <2> QED BY <1>2, <2>2 DEF Whole
<1>3. ASSUME NEW c \in Buffers PROVE Append(Whole(b, q), c) = Whole(b, Append(q, c))
  <2>1. ASSUME b # NoBuffer PROVE Append(<<b>> \o q, c) = <<b>> \o Append(q, c)
    <3>1. <<b>> \in Seq(Buffers) /\ <<c>> \in Seq(Buffers) /\ <<b>> \o q \in Seq(Buffers)
      BY <2>1
    <3>2. Append(<<b>> \o q, c) = (<<b>> \o q) \o <<c>>
      BY <3>1, AppendIsConcat
    <3>3. Append(q, c) = q \o <<c>>
      BY AppendIsConcat
    <3> QED BY <3>1, <3>2, <3>3, ConcatAssociative
  <2> QED BY <2>1 DEF Whole
<1> QED BY <1>1, <1>2, <1>3 DEF Whole

\* The audio thread has a buffer in hand only when cur is empty.
LEMMA HasOneBefore == IInv => OneBefore
<1> SUFFICES ASSUME IInv, NEW p \in Players
             PROVE  Pending[p] = Whole(First(p), queue[p])
  BY DEF OneBefore, Pending
<1> DEFINE hand == IF taken # NoBuffer /\ Current = p THEN <<taken>> ELSE <<>>
           mid  == IF cur[p] # NoBuffer THEN <<cur[p]>> ELSE <<>>
<1>1. queue[p] \in Seq(Buffers) /\ hand \in Seq(Buffers) /\ mid \in Seq(Buffers)
  BY DEF IInv, TypeOK
<1>2. hand = <<>> \/ mid = <<>>
  BY DEF IInv, MixerPlaced
<1>3. hand \o mid = IF hand = <<>> THEN mid ELSE hand
  BY <1>1, <1>2, ConcatEmptySeq
<1>4. <<>> \o queue[p] = queue[p]
  BY <1>1, ConcatEmptySeq
<1>5. Pending[p] = (hand \o mid) \o queue[p]
  BY DEF Pending
<1> QED BY <1>2, <1>3, <1>4, <1>5 DEF Whole, First

Seen == <<heap, Pending>>

\* Giving a player a buffer and clearing it are what the user sees.
LEMMA UserStepImplements ==
  ASSUME IInv, OneBefore, OneBefore', NEW p \in Players, p \in heap, heap' = heap,
         taken' = taken,
         \/ \E b \in Buffers : Enqueue(p, b) /\ (taken # NoBuffer => Current' = Current)
         \/ Clear(p) /\ ~ (taken # NoBuffer /\ Current = p)
                     /\ (taken # NoBuffer => Current' = Current)
  PROVE  Queues!Clear(p) \/ \E b \in Buffers : Queues!Enqueue(p, b)
<1> USE DEF IInv
<1>a. /\ queue[p] \in Seq(Buffers) /\ First(p) \in Buffers \cup {NoBuffer}
      /\ DOMAIN queue = Players /\ DOMAIN cur = Players
  BY DEF TypeOK, First
<1>1. ASSUME NEW b \in Buffers, Enqueue(p, b), taken # NoBuffer => Current' = Current
      PROVE  Queues!Enqueue(p, b)
  <2>1. /\ queue' = [queue EXCEPT ![p] = Append(queue[p], b)]
        /\ \A r \in Players : First(r)' = First(r)
    BY <1>1 DEF Enqueue, First
  <2>2. Append(Whole(First(p), queue[p]), b) = Whole(First(p), Append(queue[p], b))
    BY <1>a, WholeFacts
  <2>3. Pending' = [Pending EXCEPT ![p] = Append(Pending[p], b)]
    BY <1>a, <2>1, <2>2 DEF OneBefore, Whole
  <2> QED BY <2>3 DEF Queues!Enqueue
<1>2. ASSUME Clear(p), ~ (taken # NoBuffer /\ Current = p), taken # NoBuffer => Current' = Current
      PROVE  Queues!Clear(p)
  <2>1. queue' = [queue EXCEPT ![p] = <<>>]
        /\ \A r \in Players : First(r)' = IF r = p THEN NoBuffer ELSE First(r)
    BY <1>2, <1>a DEF Clear, First
  <2>2. Pending' = [Pending EXCEPT ![p] = <<>>]
    BY <1>a, <2>1 DEF OneBefore, Whole
  <2> QED BY <2>2 DEF Queues!Clear
<1> QED BY <1>1, <1>2

\* The audio thread moves a buffer from the queue to its hand and on to cur,
\* which nobody sees, until it completes it.
LEMMA MixerStepImplements ==
  ASSUME IInv, OneBefore, OneBefore', ~ AnyUse, MixStep
  PROVE  [Queues!Next]_Seen
<1> USE DEF IInv
<1>a. mixer \in {"fetch", "store", "play", "callback"} => Current \in Players
  BY DEF TypeOK, SlotsSound, MixerPlaced
<1>b. \A p \in Players : queue[p] \in Seq(Buffers) /\ cur[p] \in Buffers \cup {NoBuffer}
  BY DEF TypeOK
<1>1. ASSUME heap' = heap, \A p \in Players : Whole(First(p), queue[p])' = Whole(First(p), queue[p])
      PROVE  UNCHANGED Seen
  BY <1>1 DEF OneBefore, Seen
<1>2. CASE StartBlock \/ PassOver \/ Dry \/ StartMix \/ Underrun \/ BlockFull
  <2>1. taken = NoBuffer /\ taken' = NoBuffer
    BY <1>2, AudioAssumption
        DEF MixerPlaced, StartBlock, PassOver, Dry, StartMix, Underrun, BlockFull, Advance, Turn
  <2>2. UNCHANGED <<heap, queue, cur>>
    BY <1>2 DEF StartBlock, PassOver, Dry, StartMix, Underrun, BlockFull, ByMixer, player
  <2> QED BY <1>1, <2>1, <2>2 DEF First
<1>3. CASE Fetch
  <2>1. CASE cur[Current] # NoBuffer
    <3>1. UNCHANGED <<heap, queue, cur, taken, at, slots>>
      BY <1>3, <2>1 DEF Fetch, ByMixer
    <3> QED BY <1>1, <3>1 DEF First, Current
  <2>2. CASE cur[Current] = NoBuffer
    <3>1. /\ queue[Current] # <<>> /\ taken' = Head(queue[Current]) /\ cur' = cur /\ heap' = heap
          /\ queue' = [queue EXCEPT ![Current] = Tail(queue[Current])] /\ Current' = Current
          /\ taken = NoBuffer
      BY <1>3, <2>2 DEF Fetch, ByMixer, Current, MixerPlaced
    <3>2. Current \in Players
      BY <1>3, <1>a DEF Fetch
    <3>3. Head(queue[Current]) \in Buffers
      BY <1>b, <3>1, <3>2
    <3>4. Whole(Head(queue[Current]), Tail(queue[Current])) = queue[Current]
          /\ Whole(NoBuffer, queue[Current]) = queue[Current]
      BY <1>b, <3>1, <3>2, WholeFacts
    <3> HIDE DEF Current
    <3>5. ASSUME NEW p \in Players PROVE Whole(First(p), queue[p])' = Whole(First(p), queue[p])
      <4>1. First(p)' = IF p = Current THEN Head(queue[Current]) ELSE First(p)
        BY <3>1, <3>3, AudioAssumption DEF First
      <4>2. First(p) = cur[p]
        BY <3>1 DEF First
      <4>3. queue'[p] = IF p = Current THEN Tail(queue[Current]) ELSE queue[p]
        BY <3>1, <3>2 DEF TypeOK
      <4>4. Whole(First(p), queue[p])' = Whole(First(p)', queue'[p])
        BY DEF Whole
      <4> QED BY <2>2, <3>4, <4>1, <4>2, <4>3, <4>4
    <3> QED BY <1>1, <3>1, <3>5
  <2> QED BY <2>1, <2>2
<1>4. CASE StoreCur
  <2>1. /\ cur' = [cur EXCEPT ![Current] = taken] /\ taken' = NoBuffer /\ queue' = queue
        /\ heap' = heap /\ taken # NoBuffer
    BY <1>4 DEF StoreCur, ByMixer, MixerPlaced
  <2>2. \A p \in Players : First(p)' = First(p)
    BY <2>1 DEF First, TypeOK
  <2> QED BY <1>1, <2>1, <2>2 DEF Whole
<1>5. CASE Finish
  <2>1. /\ Current \in Players /\ Current \in heap /\ cur[Current] # NoBuffer
        /\ taken = NoBuffer /\ taken' = taken
        /\ cur' = [cur EXCEPT ![Current] = NoBuffer] /\ queue' = queue /\ heap' = heap
    BY <1>5, <1>a DEF Finish, ByMixer, MixerPlaced, Turn
  <2>2. /\ Whole(cur[Current], queue[Current]) # <<>>
        /\ Tail(Whole(cur[Current], queue[Current])) = queue[Current]
        /\ Whole(NoBuffer, queue[Current]) = queue[Current]
    BY <1>b, <2>1, WholeFacts
  <2> HIDE DEF Current
  <2>3. \A p \in Players : First(p) = cur[p] /\ First(p)' = IF p = Current THEN NoBuffer ELSE cur[p]
    BY <2>1 DEF First, TypeOK
  <2>4. Pending' = [Pending EXCEPT ![Current] = Tail(Pending[Current])] /\ Pending[Current] # <<>>
    BY <2>1, <2>2, <2>3 DEF OneBefore, Whole
  <2>5. Queues!Complete(Current)
    BY <2>1, <2>4 DEF Queues!Complete
  <2> QED BY <2>1, <2>5 DEF Queues!Next
<1>6. CASE Callback
  <2>1. /\ Current \in Players /\ Current \in heap /\ heap' = heap
        /\ taken = NoBuffer /\ taken' = NoBuffer
        /\ \/ \E b \in Buffers : Enqueue(Current, b)
           \/ Clear(Current)
           \/ UNCHANGED <<queue, cur>>
    BY <1>6, <1>a DEF Callback, ByMixer, MixerPlaced, Turn, player
  <2> HIDE DEF Current
  <2>2. CASE UNCHANGED <<queue, cur>>
    BY <1>1, <2>1, <2>2 DEF First
  <2>3. CASE (\E b \in Buffers : Enqueue(Current, b)) \/ Clear(Current)
    BY <2>1, <2>3, UserStepImplements DEF Queues!Next
  <2> QED BY <2>1, <2>2, <2>3
<1> QED BY <1>2, <1>3, <1>4, <1>5, <1>6 DEF MixStep

\* A new player takes the place of one that has nothing left, or comes besides.
LEMMA CreateImplements ==
  ASSUME IInv, OneBefore, OneBefore', NEW t \in Engine, CreateAudioPlayer(t)
  PROVE  Queues!Next
<1>1. PICK q \in Players \ heap : /\ heap' = (heap \ Gone) \cup {q}
                                  /\ Fresh(Gone)
  BY DEF CreateAudioPlayer, Spot, Gone
<1>2. taken = NoBuffer /\ taken' = NoBuffer
  BY DEF CreateAudioPlayer, thread, RegLock, IInv, MixerPlaced
<1>3. \A p \in Players : First(p) = cur[p] /\ First(p)' = cur'[p]
  BY <1>2 DEF First
<1>4. \A p \in Gone : p \in Players /\ p \in heap /\ queue[p] = <<>> /\ cur[p] = NoBuffer
  BY GoneIsVictim DEF IsDry
<1>5. cur' = cur /\ queue' = queue
  BY <1>1, <1>4 DEF Fresh, IInv, TypeOK
<1>6. Pending' = Pending
  BY <1>3, <1>5 DEF OneBefore, Whole
<1>7. CASE Gone = {}
  <2>1. Queues!Create(q)
    BY <1>1, <1>6, <1>7 DEF Queues!Create
  <2> QED BY <2>1 DEF Queues!Next
<1>8. CASE Gone # {}
  <2>1. PICK v \in Gone : Gone = {v}
    BY <1>8, GoneIsVictim
  <2>2. Pending[v] = <<>>
    BY <1>3, <1>4, <2>1 DEF OneBefore, Whole
  <2>3. Queues!Replace(v, q)
    BY <1>1, <1>4, <1>6, <2>1, <2>2 DEF Queues!Replace
  <2> QED BY <1>4, <2>3 DEF Queues!Next
<1> QED BY <1>7, <1>8

\* Destroying a player takes away what it has not completed.
LEMMA DestroyImplements ==
  ASSUME IInv, OneBefore, OneBefore', NEW t \in Engine, Destroy(t)
  PROVE  [Queues!Next]_Seen
<1> DEFINE p == call[t].p
<1>1. p \in Players /\ heap' = heap \ {p} /\ Fresh({p}) /\ taken = NoBuffer /\ taken' = NoBuffer
  BY DEF Destroy, thread, RegLock, IInv, MixerPlaced, SlotsSound
<1> HIDE DEF p
<1>2. \A r \in Players : First(r) = cur[r] /\ First(r)' = cur'[r]
  BY <1>1 DEF First
<1>3. cur' = [cur EXCEPT ![p] = NoBuffer] /\ queue' = [queue EXCEPT ![p] = <<>>]
  BY <1>1 DEF Fresh, IInv, TypeOK
<1>4. Pending' = [Pending EXCEPT ![p] = <<>>]
  BY <1>1, <1>2, <1>3 DEF OneBefore, Whole, IInv, TypeOK
<1>5. CASE p \in heap
  BY <1>1, <1>4, <1>5 DEF Queues!Next, Queues!Close
<1>6. CASE p \notin heap
  <2>1. cur[p] = NoBuffer /\ queue[p] = <<>>
    BY <1>1, <1>6 DEF IInv, DrainedSound, IsDry
  <2>2. Pending[p] = <<>>
    BY <1>1, <1>2, <2>1 DEF OneBefore, Whole
  <2> QED BY <1>1, <1>4, <1>6, <2>2 DEF Seen, OneBefore
<1> QED BY <1>5, <1>6

\* Under AnyUse = FALSE, opensles.c plays the buffers of each player in order,
\* completes each once, and reclaims a player only when nothing is left in it.
THEOREM PlayersAreQueues ==
  ASSUME ~ AnyUse
  PROVE  Spec => ImplementsQueues
<1>1. Init => Queues!Init
  <2> SUFFICES ASSUME Init PROVE Queues!Init
    OBVIOUS
  <2>1. \A p \in Players : First(p) = NoBuffer /\ queue[p] = <<>>
    BY DEF Init, First
  <2>2. OneBefore
    BY InvInit, HasOneBefore
  <2> QED BY <2>1, <2>2 DEF Init, Queues!Init, OneBefore, Whole
<1>2. ASSUME IInv, IInv', OneBefore, OneBefore', [Next]_vars PROVE [Queues!Next]_<<heap, Pending>>
  <2>1. CASE MixStep
    BY <1>2, <2>1, MixerStepImplements DEF Seen
  <2>2. ASSUME NEW t \in Engine, CreateAudioPlayer(t) PROVE Queues!Next
    BY <1>2, <2>2, CreateImplements
  <2>3. ASSUME NEW t \in Engine, Destroy(t) PROVE [Queues!Next]_<<heap, Pending>>
    BY <1>2, <2>3, DestroyImplements DEF Seen
  <2>4. ASSUME NEW t \in Engine, NEW p \in Players, Use(t, p) PROVE [Queues!Next]_<<heap, Pending>>
    <3>1. p \in heap /\ heap' = heap /\ taken' = taken /\ Current' = Current
      BY <1>2, <2>4 DEF Use, ByEngine, thread, IInv, SlotsSound, Current
    <3>2. CASE \E b \in Buffers : Enqueue(p, b)
      BY <1>2, <3>1, <3>2, UserStepImplements DEF Queues!Next
    <3>3. CASE Settled(p) /\ Clear(p)
      <4>1. ~ (taken # NoBuffer /\ Current = p)
        BY <1>2, <3>3 DEF Settled, Mixing, RegLock, IInv, MixerPlaced
      <4> QED BY <1>2, <3>1, <3>3, <4>1, UserStepImplements DEF Queues!Next
    <3>4. CASE \E on \in BOOLEAN : SetPlayState(p, on)
      BY <1>2, <3>1, <3>4 DEF SetPlayState, OneBefore, Whole, First
    <3> QED BY <2>4, <3>2, <3>3, <3>4 DEF Use
  <2>5. ASSUME NEW t \in Engine, \/ Enter(t) \/ Leave(t) \/ CallCreate(t)
                                 \/ \E p \in Players : CallDestroy(t, p)
        PROVE  UNCHANGED <<heap, Pending>>
    <3>1. UNCHANGED <<heap, queue, cur, taken, slots, at>>
      BY <2>5 DEF Enter, Leave, CallCreate, CallDestroy, Begin, ByEngine, player, thread
    <3> QED BY <3>1 DEF Pending, Current
  <2>6. CASE UNCHANGED vars
    BY <2>6 DEF vars, player, thread, Pending, Current
  <2> QED BY <1>2, <2>1, <2>2, <2>3, <2>4, <2>5, <2>6 DEF Next, EngineStep
<1>3. Spec => []IInv
  BY InvAlways
<1> QED BY <1>1, <1>2, <1>3, HasOneBefore, PTL DEF Spec, ImplementsQueues, Queues!Spec, Queues!vars

=============================================================================
