-------------------------------- MODULE Audio --------------------------------
(***************************************************************************)
(* The OpenSL ES players of source/opensles.c, which FMOD plays through.   *)
(* SDL's audio thread mixes block after block: it takes g_reg_lock, goes   *)
(* through the registered players, drains their buffer queues and calls    *)
(* the engine back for every buffer it has finished.  Meanwhile engine     *)
(* threads create, feed, stop, clear and destroy players.                  *)
(*                                                                         *)
(* p->lock guards sections that take no other lock, so that each is one    *)
(* step.  How many frames a buffer and a block have is left open: playing  *)
(* goes on until the buffer or the block is used up.                       *)
(***************************************************************************)
EXTENDS Integers, Sequences, FiniteSets, Functions

CONSTANTS
  Players,       \* addresses of players; a freed one may be used again
  NoPlayer,
  Buffers,       \* the engine's sample buffers
  NoBuffer,
  Engine,        \* engine threads
  Mixer, None,   \* SDL's audio thread; nobody
  MaxPlayers,    \* MAX_PLAYERS
  QSlots,        \* BQ_SLOTS: one slot of the ring always stays free
  ReclaimAfter,  \* 40: dry blocks after which a player may be reclaimed
  AnyUse         \* TRUE: the engine uses players as OpenSL ES allows;
                 \* FALSE: in the way this implementation needs

ASSUME AudioAssumption == /\ NoPlayer \notin Players /\ NoBuffer \notin Buffers
                          /\ Mixer \notin Engine /\ None \notin Engine \cup {Mixer}
                          /\ MaxPlayers \in Nat \ {0} /\ QSlots \in Nat /\ QSlots > 1
                          /\ ReclaimAfter \in Nat /\ AnyUse \in BOOLEAN

VARIABLES
  slots,     \* g_players
  heap,      \* players that are allocated
  playing, queue, cur, drained,   \* fields of each player
  mixer,     \* where the audio thread is
  at,        \* the slot it is at, with g_reg_lock held; 0 between blocks
  taken,     \* the buffer it has taken from the queue and not yet put in cur
  crit,      \* who holds the engine's own mutex
  call,      \* the create or destroy each engine thread is in
  held       \* players the engine has not destroyed and not done with

player == <<playing, queue, cur, drained>>
thread == <<mixer, at, taken>>
vars   == <<slots, heap, player, thread, crit, call, held>>

Slots    == 1 .. MaxPlayers
NoCall   == [op |-> "none", p |-> NoPlayer]
Current  == slots[at]
RegLock  == at # 0          \* g_reg_lock is held by the audio thread
Mixing(p) == RegLock /\ mixer # "player" /\ Current = p
InUse    == UNION {Range(queue[p]) \cup {cur[p]} : p \in Players} \cup {taken}

Init ==
  /\ slots = [i \in Slots |-> NoPlayer] /\ heap = {}
  /\ playing = [p \in Players |-> FALSE] /\ queue = [p \in Players |-> <<>>]
  /\ cur = [p \in Players |-> NoBuffer] /\ drained = [p \in Players |-> 0]
  /\ mixer = "idle" /\ at = 0 /\ taken = NoBuffer
  /\ crit = None /\ call = [t \in Engine |-> NoCall] /\ held = {}

-----------------------------------------------------------------------------
(* audio_callback and mix_player                                           *)

Turn(l)   == mixer' = l /\ UNCHANGED <<at, taken>>
Advance   == /\ at' = IF at = MaxPlayers THEN 0 ELSE at + 1
             /\ mixer' = IF at = MaxPlayers THEN "idle" ELSE "player"
             /\ UNCHANGED taken
ByMixer   == UNCHANGED <<slots, heap, call>>

StartBlock ==
  /\ mixer = "idle"
  /\ at' = 1 /\ mixer' = "player"
  /\ UNCHANGED <<player, taken, crit, held>> /\ ByMixer

\* An empty slot, or a player that is not playing.
PassOver ==
  /\ mixer = "player"
  /\ IF Current = NoPlayer THEN TRUE ELSE ~ playing[Current]
  /\ Advance
  /\ UNCHANGED <<player, crit, held>> /\ ByMixer

IsDry(p) == cur[p] = NoBuffer /\ queue[p] = <<>>

\* Nothing to play: count it.  An engine that means to go on with a player
\* does not leave it dry for so long.
Dry ==
  /\ mixer = "player" /\ Current # NoPlayer
  /\ playing[Current] /\ IsDry(Current)
  /\ drained' = [drained EXCEPT ![Current] = IF @ > ReclaimAfter THEN @ ELSE @ + 1]
  /\ held' = IF drained'[Current] > ReclaimAfter /\ ~ AnyUse THEN held \ {Current} ELSE held
  /\ Advance
  /\ UNCHANGED <<playing, queue, cur, crit>> /\ ByMixer

StartMix ==
  /\ mixer = "player" /\ Current # NoPlayer
  /\ playing[Current] /\ ~ IsDry(Current)
  /\ drained' = [drained EXCEPT ![Current] = 0]
  /\ Turn("fetch")
  /\ UNCHANGED <<playing, queue, cur, crit, held>> /\ ByMixer

\* A buffer is in cur already; or one is taken, with p->lock held ...
Fetch ==
  /\ mixer = "fetch" /\ UNCHANGED at
  /\ IF cur[Current] # NoBuffer THEN mixer' = "play" /\ UNCHANGED <<taken, queue>>
     ELSE /\ queue[Current] # <<>>
          /\ taken' = Head(queue[Current])
          /\ queue' = [queue EXCEPT ![Current] = Tail(@)]
          /\ mixer' = "store"
  /\ UNCHANGED <<playing, cur, drained, crit, held>> /\ ByMixer

Underrun ==
  /\ mixer = "fetch" /\ IsDry(Current)
  /\ Advance
  /\ UNCHANGED <<player, crit, held>> /\ ByMixer

\* ... and put into cur without it.
StoreCur ==
  /\ mixer = "store"
  /\ cur' = [cur EXCEPT ![Current] = taken]
  /\ taken' = NoBuffer /\ mixer' = "play" /\ UNCHANGED at
  /\ UNCHANGED <<playing, queue, drained, crit, held>> /\ ByMixer

\* The block is full before the buffer is used up.
BlockFull ==
  /\ mixer = "play"
  /\ Advance
  /\ UNCHANGED <<player, crit, held>> /\ ByMixer

\* The buffer is used up first.
Finish ==
  /\ mixer = "play"
  /\ cur' = [cur EXCEPT ![Current] = NoBuffer]
  /\ Turn("callback")
  /\ UNCHANGED <<playing, queue, drained, crit, held>> /\ ByMixer

-----------------------------------------------------------------------------
(* The buffer queue and play interfaces.                                   *)

\* Mutant: the ring is taken to hold one buffer more than it can.
EnqueueOverfull(p, b) ==
  /\ Len(queue[p]) < QSlots /\ b \notin InUse
  /\ queue' = [queue EXCEPT ![p] = Append(@, b)]
  /\ UNCHANGED <<playing, cur, drained>>

\* bq_Enqueue; a full ring is refused.
Enqueue(p, b) ==
  /\ Len(queue[p]) < QSlots - 1 /\ b \notin InUse
  /\ queue' = [queue EXCEPT ![p] = Append(@, b)]
  /\ UNCHANGED <<playing, cur, drained>>

\* Mutant: the buffer in cur stays, and goes on playing.
ClearKeepsCur(p) ==
  /\ queue' = [queue EXCEPT ![p] = <<>>]
  /\ UNCHANGED <<playing, cur, drained>>

\* bq_Clear empties the ring and takes the buffer in cur away.
Clear(p) ==
  /\ queue' = [queue EXCEPT ![p] = <<>>]
  /\ cur' = [cur EXCEPT ![p] = NoBuffer]
  /\ UNCHANGED <<playing, drained>>

\* play_SetPlayState
SetPlayState(p, on) ==
  /\ playing' = [playing EXCEPT ![p] = on]
  /\ UNCHANGED <<queue, cur, drained>>

\* The engine's callback, on the audio thread: under the engine's own mutex it
\* may feed or clear the player.
Callback ==
  /\ mixer = "callback" /\ crit = None
  /\ \/ Current \in held /\ \E b \in Buffers : Enqueue(Current, b)
     \/ Current \in held /\ Clear(Current)
     \/ UNCHANGED player
  /\ Turn("fetch")
  /\ UNCHANGED <<crit, held>> /\ ByMixer

-----------------------------------------------------------------------------
(* Engine threads.                                                         *)

ByEngine == UNCHANGED <<slots, heap, thread, held>>

Enter(t) ==
  /\ crit = None /\ call[t] = NoCall
  /\ crit' = t
  /\ UNCHANGED <<player, call>> /\ ByEngine

Leave(t) ==
  /\ crit = t /\ call[t] = NoCall
  /\ crit' = None
  /\ UNCHANGED <<player, call>> /\ ByEngine

\* Clearing a player that the audio thread is in does not suit it.
Settled(p) == AnyUse \/ (~ playing[p] /\ ~ Mixing(p))

Use(t, p) ==
  /\ crit = t /\ call[t] = NoCall /\ p \in held
  /\ \/ \E b \in Buffers : Enqueue(p, b)
     \/ Settled(p) /\ Clear(p)
     \/ \E on \in BOOLEAN : SetPlayState(p, on)
  /\ UNCHANGED <<crit, call>> /\ ByEngine

\* The engine calls CreateAudioPlayer or Destroy, which take g_reg_lock; to
\* hold its own mutex then does not suit the callback.
Begin(t, op, p) ==
  /\ call[t] = NoCall
  /\ IF AnyUse THEN crit \in {t, None} ELSE crit # t
  /\ call' = [call EXCEPT ![t] = [op |-> op, p |-> p]]
  /\ UNCHANGED <<player, crit>> /\ ByEngine

CallCreate(t) ==
  /\ AnyUse \/ Cardinality(held) < MaxPlayers
  /\ \A u \in Engine : call[u].op # "create"
  /\ Begin(t, "create", NoPlayer)

\* A player is destroyed once, by one thread.
CallDestroy(t, p) ==
  /\ p \in held /\ crit \in {t, None} /\ \A u \in Engine : call[u].p # p
  /\ Begin(t, "destroy", p)

\* Mutant: no player is ever taken back.
VictimsNone == {}

Victims == {i \in Slots : /\ slots[i] # NoPlayer
                          /\ playing[slots[i]] /\ drained[slots[i]] > ReclaimAfter}
FreeSlots == {i \in Slots : slots[i] = NoPlayer}
FirstOf(S) == CHOOSE i \in S : \A j \in S : i <= j

\* The fields of a player that is freed or made anew.
Fresh(P) ==
  /\ playing' = [p \in Players |-> p \notin P /\ playing[p]]
  /\ queue' = [p \in Players |-> IF p \in P THEN <<>> ELSE queue[p]]
  /\ cur' = [p \in Players |-> IF p \in P THEN NoBuffer ELSE cur[p]]
  /\ drained' = [p \in Players |-> IF p \in P THEN 0 ELSE drained[p]]

\* eng_CreateAudioPlayer: into the first free slot, or that of the first
\* player that has been dry for long, which is freed; else into none.
CreateAudioPlayer(t) ==
  /\ call[t].op = "create" /\ ~ RegLock
  /\ \E p \in Players \ heap :
       LET spot == IF FreeSlots # {} THEN FreeSlots ELSE Victims
           gone == IF spot = {} THEN {} ELSE {slots[FirstOf(spot)]} \ {NoPlayer} IN
       /\ slots' = IF spot = {} THEN slots ELSE [slots EXCEPT ![FirstOf(spot)] = p]
       /\ heap' = (heap \ gone) \cup {p}
       /\ Fresh(gone)
       /\ held' = held \cup {p}
  /\ call' = [call EXCEPT ![t] = NoCall]
  /\ UNCHANGED <<thread, crit>>

\* Mutant: g_reg_lock is not taken.
DestroyUnlocked(t) ==
  /\ call[t].op = "destroy"
  /\ LET p == call[t].p IN
     /\ slots' = [i \in Slots |-> IF slots[i] = p THEN NoPlayer ELSE slots[i]]
     /\ heap' = heap \ {p} /\ held' = held \ {p}
     /\ Fresh({p})
  /\ call' = [call EXCEPT ![t] = NoCall]
  /\ UNCHANGED <<thread, crit>>

\* player_Destroy
Destroy(t) ==
  /\ call[t].op = "destroy" /\ ~ RegLock
  /\ LET p == call[t].p IN
     /\ slots' = [i \in Slots |-> IF slots[i] = p THEN NoPlayer ELSE slots[i]]
     /\ heap' = heap \ {p} /\ held' = held \ {p}
     /\ Fresh({p})
  /\ call' = [call EXCEPT ![t] = NoCall]
  /\ UNCHANGED <<thread, crit>>

-----------------------------------------------------------------------------

MixStep == StartBlock \/ PassOver \/ Dry \/ StartMix \/ Fetch \/ Underrun \/ StoreCur
             \/ BlockFull \/ Finish \/ Callback

EngineStep(t) ==
  \/ Enter(t) \/ Leave(t) \/ CallCreate(t) \/ CreateAudioPlayer(t) \/ Destroy(t)
  \/ \E p \in Players : Use(t, p) \/ CallDestroy(t, p)

Next == MixStep \/ \E t \in Engine : EngineStep(t)

Spec == Init /\ [][Next]_vars

\* SDL asks for block after block, blocks and buffers have finitely many frames, and the
\* engine's threads neither keep their mutex nor starve another of it.
FairSpec ==
  /\ Spec
  /\ WF_vars(MixStep) /\ SF_vars(Callback)
  /\ \A i \in Slots : SF_vars(at = i /\ BlockFull) /\ SF_vars(at = i /\ Finish)
  /\ \A t \in Engine : WF_vars(Leave(t))

-----------------------------------------------------------------------------

\* The fields of g_players, and a ring that never fills its last slot.
TypeOK ==
  /\ slots \in [Slots -> Players \cup {NoPlayer}] /\ heap \subseteq Players
  /\ playing \in [Players -> BOOLEAN] /\ queue \in [Players -> Seq(Buffers)]
  /\ cur \in [Players -> Buffers \cup {NoBuffer}]
  /\ drained \in [Players -> 0 .. (ReclaimAfter + 1)]
  /\ mixer \in {"idle", "player", "fetch", "store", "play", "callback"}
  /\ at \in 0 .. MaxPlayers /\ taken \in Buffers \cup {NoBuffer}
  /\ crit \in Engine \cup {None} /\ held \subseteq Players
  /\ call \in [Engine -> [op : {"none", "create", "destroy"}, p : Players \cup {NoPlayer}]]
  /\ \A p \in Players : Len(queue[p]) < QSlots

\* Neither the audio thread nor the engine has a player that was freed, and
\* what the audio thread plays is there: cur is "touched only by this (audio)
\* thread" (opensles.c:288), and to reclaim is "Safe ... here" (opensles.c:862).
PlayersSafe ==
  /\ held \subseteq heap /\ Range(slots) \subseteq heap \cup {NoPlayer}
  /\ mixer \in {"fetch", "store", "play", "callback"} => Current \in heap
  /\ mixer = "play" => cur[Current] # NoBuffer

\* opensles.c, g_players: the slots, queues and players keep their types, no slot
\* names a freed player, and no thread works on one (see PlayersSafe).
MixerSound == TypeOK /\ PlayersSafe

\* Buffers play in order, each completes once, and a player that is reclaimed
\* has nothing left to play.
Pending == [p \in Players |-> (IF taken # NoBuffer /\ Current = p THEN <<taken>> ELSE <<>>)
                                \o (IF cur[p] # NoBuffer THEN <<cur[p]>> ELSE <<>>) \o queue[p]]
Queues == INSTANCE SoundQueues WITH open <- heap, pending <- Pending
ImplementsQueues == Queues!Spec

\* What is enqueued on a player that goes on playing is played, if the engine
\* does not clear or destroy it: no player falls out of the mix, and the audio
\* thread never waits for ever for a thread that waits for it.
PlaysOut ==
  \A p \in Players, b \in Buffers :
    b \in Range(queue[p]) ~> b \notin Range(queue[p]) \/ ~ playing[p]

=============================================================================
