------------------------------ MODULE SaveStore ------------------------------
(***************************************************************************)
(* How progress reaches the SD card.  libnx buffers writes to sdmc: until  *)
(* fsdevCommitDevice; a HOME-kill loses what is not committed.  The game's *)
(* threads save files through open_fake / close_fake (source/libc_shim.c), *)
(* which mark descriptors opened for writing and commit on close.  The     *)
(* main thread keeps the PlayerPrefs in memory (unity_jni.c), writes them  *)
(* to prefs.kv with plain stdio, and commits from the render loop (main.c) *)
(* when nx_sd_dirty says so.                                               *)
(*                                                                         *)
(* The content of a file is the version last written to it; Torn is a file *)
(* that was truncated and not yet written.                                 *)
(***************************************************************************)
EXTENDS Integers, FiniteSets, FiniteSetsExt

CONSTANTS
  Savers,      \* game threads that save files
  Fds,         \* descriptor numbers; the lowest free one is handed out
  MaxSaves,    \* bound: versions of save files
  MaxSets,     \* bound: changes of the PlayerPrefs
  MaxCrashes   \* bound: HOME-kills

ASSUME StoreAssumption == /\ Fds \subseteq Nat /\ IsFiniteSet(Fds)
                          /\ IsFiniteSet(Savers) /\ Cardinality(Fds) > Cardinality(Savers)
                          /\ MaxSaves \in Nat /\ MaxSets \in Nat /\ MaxCrashes \in Nat

VARIABLES
  view,      \* content of each file as the process sees it
  card,      \* content of each file as of the last commit
  busy,      \* descriptors that are open
  wmark,     \* g_write_fd: descriptors marked as opened for writing
  dirty,     \* nx_sd_dirty
  kv,        \* version of the PlayerPrefs in memory
  kvDirty,   \* g_kv_dirty
  pc,        \* where each saver is
  fd,        \* the descriptor each saver writes through
  mpc,       \* where the main thread is
  pfd,       \* the descriptor it writes prefs.kv through
  made,      \* count of versions of save files so far
  sets,      \* count of changes of the PlayerPrefs so far
  crashes

vars  == <<view, card, busy, wmark, dirty, kv, kvDirty, pc, fd, mpc, pfd, made, sets, crashes>>
prefs == <<"prefs", "main">>

\* Each saver writes a file of its own and may then rename it over a target,
\* as Easy Save does with SaveData.es3.tmp (libc_shim.c:520).
Tmp(t) == <<"tmp", t>>
Dst(t) == <<"dst", t>>
Files  == {prefs} \cup {Tmp(t) : t \in Savers} \cup {Dst(t) : t \in Savers}

Torn     == -1
Versions == Torn .. (IF MaxSaves > MaxSets THEN MaxSaves ELSE MaxSets)
NoFd     == -1
NextFd   == Min(Fds \ busy)

Init ==
  /\ view = [f \in Files |-> 0] /\ card = [f \in Files |-> 0]
  /\ busy = {} /\ wmark = {} /\ dirty = FALSE
  /\ kv = 0 /\ kvDirty = FALSE
  /\ pc = [t \in Savers |-> "idle"] /\ fd = [t \in Savers |-> NoFd]
  /\ mpc = "idle" /\ pfd = NoFd
  /\ made = 0 /\ sets = 0 /\ crashes = 0

Goto(t, l) == pc' = [pc EXCEPT ![t] = l]
ByMain     == UNCHANGED <<pc, fd, made, crashes, wmark>>
BySaver    == UNCHANGED <<kv, kvDirty, mpc, pfd, sets, crashes>>

-----------------------------------------------------------------------------
(* A game thread saves a file.                                             *)

OpenUnchecked(t) ==   \* mutant of Open: a failed open is marked too
  /\ pc[t] = "idle" /\ made < MaxSaves
  /\ made' = made + 1
  /\ Goto(t, "mark")
  /\ UNCHANGED <<view, card, busy, fd, wmark, dirty>> /\ BySaver

\* open_fake for writing: the file is truncated ...
Open(t) ==
  /\ pc[t] = "idle" /\ made < MaxSaves
  /\ made' = made + 1
  /\ busy' = busy \cup {NextFd} /\ fd' = [fd EXCEPT ![t] = NextFd]
  /\ view' = [view EXCEPT ![Tmp(t)] = Torn]
  /\ Goto(t, "mark")
  /\ UNCHANGED <<card, wmark, dirty>> /\ BySaver

\* ... and then mark_write_fd.
MarkWriteFd(t) ==
  /\ pc[t] = "mark"
  /\ wmark' = wmark \cup {fd[t]} /\ dirty' = TRUE
  /\ Goto(t, "write")
  /\ UNCHANGED <<view, card, busy, fd, made>> /\ BySaver

Write(t) ==
  /\ pc[t] = "write"
  /\ view' = [view EXCEPT ![Tmp(t)] = made]
  /\ Goto(t, "written")
  /\ UNCHANGED <<card, busy, wmark, dirty, fd, made>> /\ BySaver

\* fsync_stub commits the card and leaves nx_sd_dirty and the mark alone.
Fsync(t) ==
  /\ pc[t] = "written" /\ card # view
  /\ card' = view
  /\ UNCHANGED <<view, busy, wmark, dirty, pc, fd, made>> /\ BySaver

\* close_fake, fclose_fake: the descriptor is closed first ...
Close(t) ==
  /\ pc[t] = "written"
  /\ busy' = busy \ {fd[t]}
  /\ Goto(t, "unmark")
  /\ UNCHANGED <<view, card, wmark, dirty, fd, made>> /\ BySaver

UnmarkNoCommit(t) ==   \* mutant of Unmark: nx_sd_dirty decides, not the mark
  /\ pc[t] = "unmark"
  /\ IF fd[t] \in wmark /\ dirty
       THEN wmark' = wmark \ {fd[t]} /\ dirty' = FALSE /\ Goto(t, "commit")
       ELSE UNCHANGED <<wmark, dirty>> /\ Goto(t, "closed")
  /\ fd' = [fd EXCEPT ![t] = NoFd]
  /\ UNCHANGED <<view, card, busy, made>> /\ BySaver

\* ... and commit_write_fd then looks the number up: clear the mark and
\* nx_sd_dirty, then commit.
Unmark(t) ==
  /\ pc[t] = "unmark"
  /\ IF fd[t] \in wmark
       THEN wmark' = wmark \ {fd[t]} /\ dirty' = FALSE /\ Goto(t, "commit")
       ELSE UNCHANGED <<wmark, dirty>> /\ Goto(t, "closed")
  /\ fd' = [fd EXCEPT ![t] = NoFd]
  /\ UNCHANGED <<view, card, busy, made>> /\ BySaver

Commit(t) ==
  /\ pc[t] = "commit"
  /\ card' = view /\ Goto(t, "closed")
  /\ UNCHANGED <<view, busy, wmark, dirty, fd, made>> /\ BySaver

RenameEarly(t) ==   \* mutant of Rename: not after close, but before the write
  /\ pc[t] \in {"write", "closed"}
  /\ view' = [view EXCEPT ![Dst(t)] = view[Tmp(t)], ![Tmp(t)] = 0]
  /\ Goto(t, "idle")
  /\ UNCHANGED <<card, busy, wmark, dirty, fd, made>> /\ BySaver

RenameUnlinksFirst(t) ==   \* mutant of Rename: the target is removed first
  /\ pc[t] = "closed"
  /\ IF view[Dst(t)] # 0
       THEN view' = [view EXCEPT ![Dst(t)] = 0] /\ UNCHANGED pc
       ELSE view' = [view EXCEPT ![Dst(t)] = view[Tmp(t)], ![Tmp(t)] = 0] /\ Goto(t, "idle")
  /\ UNCHANGED <<card, busy, wmark, dirty, fd, made>> /\ BySaver

\* rename is newlib's own: it changes the view and neither marks nor commits.
Rename(t) ==
  /\ pc[t] = "closed"
  /\ view' = [view EXCEPT ![Dst(t)] = view[Tmp(t)], ![Tmp(t)] = 0]
  /\ Goto(t, "idle")
  /\ UNCHANGED <<card, busy, wmark, dirty, fd, made>> /\ BySaver

\* A file that is saved in place.
Keep(t) ==
  /\ pc[t] = "closed"
  /\ Goto(t, "idle")
  /\ UNCHANGED <<view, card, busy, wmark, dirty, fd, made>> /\ BySaver

-----------------------------------------------------------------------------
(* The main thread: PlayerPrefs and the render loop.                       *)

\* nx_prefs_set, nx_prefs_del
PrefsSet ==
  /\ mpc = "idle" /\ sets < MaxSets
  /\ sets' = sets + 1 /\ kv' = sets' /\ kvDirty' = TRUE
  /\ UNCHANGED <<view, card, busy, dirty, mpc, pfd>> /\ ByMain

\* prefs_flush, from PlayerPrefs.Save() (next = "idle") or from nx_save_prefs
\* (next = "flush"): fopen truncates prefs.kv through a plain descriptor ...
PrefsOpen(next) ==
  /\ mpc = "idle" /\ kvDirty
  /\ view' = [view EXCEPT ![prefs] = Torn]
  /\ busy' = busy \cup {NextFd} /\ pfd' = NextFd
  /\ mpc' = IF next = "flush" THEN "writeAndFlush" ELSE "write"
  /\ UNCHANGED <<card, dirty, kv, kvDirty, sets>> /\ ByMain

PrefsLeftClears ==   \* mutant of PrefsLeft: a failed fopen clears g_kv_dirty
  /\ mpc = "idle"
  /\ kvDirty' = FALSE /\ mpc' = "flush"
  /\ UNCHANGED <<view, card, busy, dirty, kv, sets, pfd>> /\ ByMain

\* ... or fails, or there is nothing to write: the preferences stay as they are,
\* and nx_save_prefs goes on to flush the card.
PrefsLeft ==
  /\ mpc = "idle" /\ mpc' = "flush"
  /\ UNCHANGED <<view, card, busy, dirty, kv, kvDirty, sets, pfd>> /\ ByMain

\* The entries are written and fclose closes the descriptor.
PrefsWrite ==
  /\ mpc \in {"write", "writeAndFlush"}
  /\ view' = [view EXCEPT ![prefs] = kv] /\ kvDirty' = FALSE
  /\ busy' = busy \ {pfd} /\ pfd' = NoFd
  /\ mpc' = IF mpc = "write" THEN "idle" ELSE "flush"
  /\ UNCHANGED <<card, dirty, kv, sets>> /\ ByMain

\* nx_sd_flush, every 120 frames and at the end of nx_save_prefs.
SdFlush ==
  /\ mpc \in {"idle", "flush"}
  /\ dirty' = FALSE /\ mpc' = IF dirty THEN "commit" ELSE "idle"
  /\ UNCHANGED <<view, card, busy, kv, kvDirty, sets, pfd>> /\ ByMain

SdCommit ==
  /\ mpc = "commit"
  /\ card' = view /\ mpc' = "idle"
  /\ UNCHANGED <<view, busy, dirty, kv, kvDirty, sets, pfd>> /\ ByMain

-----------------------------------------------------------------------------

\* HOME kills the process; the next start reads the card (prefs_load).
HomeKill ==
  /\ crashes < MaxCrashes
  /\ crashes' = crashes + 1
  /\ view' = card /\ kv' = card[prefs] /\ kvDirty' = FALSE
  /\ busy' = {} /\ wmark' = {} /\ dirty' = FALSE
  /\ pc' = [t \in Savers |-> "idle"] /\ fd' = [t \in Savers |-> NoFd]
  /\ mpc' = "idle" /\ pfd' = NoFd
  /\ UNCHANGED <<card, made, sets>>

SaverStep(t) == Open(t) \/ MarkWriteFd(t) \/ Write(t) \/ Fsync(t) \/ Close(t) \/ Unmark(t)
                  \/ Commit(t) \/ Rename(t) \/ Keep(t)
MainFlush    == PrefsOpen("flush") \/ PrefsLeft \/ PrefsWrite \/ SdFlush \/ SdCommit

Next == \/ \E t \in Savers : SaverStep(t)
        \/ PrefsSet \/ PrefsOpen("idle") \/ MainFlush
        \/ HomeKill

Spec == Init /\ [][Next]_vars

\* A save, once begun, is finished.
Saving(t) == MarkWriteFd(t) \/ Write(t) \/ Close(t) \/ Unmark(t) \/ Commit(t)

\* The render loop calls nx_save_prefs every 600 frames, and gets through it;
\* fopen does not fail every time.
FairSpec == Spec /\ \A t \in Savers : WF_vars(Saving(t))
                 /\ SF_vars(PrefsOpen("flush")) /\ WF_vars(PrefsWrite)
                 /\ WF_vars(SdFlush) /\ WF_vars(SdCommit)

-----------------------------------------------------------------------------

TypeOK ==
  /\ view \in [Files -> Versions] /\ card \in [Files -> Versions]
  /\ busy \subseteq Fds /\ wmark \subseteq Fds /\ dirty \in BOOLEAN
  /\ kv \in Versions /\ kvDirty \in BOOLEAN
  /\ pc \in [Savers -> {"idle", "mark", "write", "written", "unmark", "commit", "closed"}]
  /\ fd \in [Savers -> Fds \cup {NoFd}]
  /\ mpc \in {"idle", "flush", "commit", "write", "writeAndFlush"} /\ pfd \in Fds \cup {NoFd}
  /\ made \in 0 .. MaxSaves /\ sets \in 0 .. MaxSets /\ crashes \in 0 .. MaxCrashes

\* A save is on the card, whole, when close_fake returns: "a save persists the
\* moment the game finishes writing it" (libc_shim.c:537-540).
ClosedIsCommitted ==
  \A t \in Savers : pc[t] = "closed" => card[Tmp(t)] = view[Tmp(t)] /\ card[Tmp(t)] # Torn

\* A target that is only ever renamed over is never torn on the card, whoever
\* commits and whenever HOME kills the process.
TargetWhole == \A t \in Savers : card[Dst(t)] # Torn /\ view[Dst(t)] # Torn

\* The card never goes back to an older version of a target.
TargetMonotonic == [][\A t \in Savers : card'[Dst(t)] >= card[Dst(t)]]_vars

\* Changes of the PlayerPrefs get into prefs.kv as the process sees it, though
\* an fopen fails now and then (unity_jni.c:136-144): what it left stays dirty.
PrefsReachFile == \A n \in 1 .. MaxSets : kv = n ~> view[prefs] = n \/ kv # n

\* ... and onto the card (main.c:438-439, "and commit the SD, so progress
\* reaches the card during play"; unity_jni.c:148-149).
PrefsReachCard == \A n \in 1 .. MaxSets : kv = n ~> card[prefs] = n \/ kv # n

=============================================================================
