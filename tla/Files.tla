-------------------------------- MODULE Files --------------------------------
(* libc_shim.c and imports.c: files as the engine sees them.  Paths are       *)
(* looked up in the game directory too, missing directories are made, files   *)
(* get inode numbers the card does not have, reads are repeated until they    *)
(* fill the buffer, and big files are to be read through a window in memory.  *)
EXTENDS Integers, Sequences, FiniteSets, SequencesExt

CONSTANTS
  Threads,
  Devices,      \* the names with a colon, which only begin paths: "sdmc:"
  Home,         \* GAME_HOME, a path: a sequence of names, a device first
  Paths,        \* the paths the engine opens: from a device, from "/", or relative
  Assets,       \* the files of the game, each with its size: [path -> Nat]
  Fds,          \* descriptors newlib hands out
  Big,          \* size from which open attaches the read-ahead window
  Win,          \* RA_WIN, in the unit of the sizes
  Slots,        \* the entries of g_ra
  StaticFds,    \* what .fd may hold in an entry nobody has used: 0 in the
                \*   static table, -1 if it were set up as its comment says
  Offsets,      \* where the engine seeks to and reads at
  MaxOpen,      \* bound on the files one thread has open
  Lengths,      \* how much the engine reads at once
  None

(* A path without a device is one on the default device or, when it is not    *)
(* from "/", in the game directory, where main went.  basename_fallback looks *)
(* for the last name of a path there; the engine writes its saves.            *)
HasDevice(p) == p # <<>> /\ Head(p) \in Devices
Rooted(p) == p # <<>> /\ Head(p) = "/"
Full(p) ==
  IF HasDevice(p) THEN p ELSE IF Rooted(p) THEN <<Head(Home)>> \o Tail(p) ELSE Home \o p
Basename(p) == Append(Home, Last(p))
Saves == { p \in Paths : Basename(p) \notin DOMAIN Assets }

FilesAssumption ==
  /\ Home \in Seq(STRING) /\ Len(Home) > 2 /\ HasDevice(Home) /\ "/" \notin Devices
  /\ Paths \subseteq Seq(STRING) \ {<<>>, <<"/">>}
  /\ DOMAIN Assets \subseteq { f \in Seq(STRING) : Len(f) > 1 } /\ Assets \in [DOMAIN Assets -> Nat]
  \* no save is looked for by a name below the game directory as well
  /\ \A p \in Paths, q \in Saves : Basename(p) = Full(q) => Full(p) = Full(q)
  /\ Fds \subseteq Nat /\ StaticFds \subseteq Int \ Fds /\ Slots \subseteq Nat \ {0}
  /\ Win \in Nat \ {0} /\ Big \in Nat /\ Offsets \subseteq Nat /\ Lengths \subseteq Nat
  /\ None \notin Threads /\ None \notin Fds /\ None \notin Paths /\ None \notin DOMAIN Assets
  /\ \A p \in Paths : Full(p) # None

VARIABLES
  dirs,     \* the directories on the card
  files,    \* the files on the card
  fd,       \* newlib's descriptors: file, position; and the position a reader
            \*   of one descriptor expects (kept by nobody, read by properties)
  ino,      \* g_fd_ino: the path each descriptor was opened by, 0 unset
  ra,       \* g_ra
  lock,     \* who holds g_ra_lock
  call      \* the read, pread or seek each thread is in

vars == <<dirs, files, fd, ino, ra, lock, call>>

Closed == [file |-> None, pos |-> 0, want |-> 0, user |-> None]
Idle == [op |-> "none", at |-> "idle", fd |-> 0, n |-> 0, off |-> 0, slot |-> 0, got |-> <<>>]
Above(p) == { SubSeq(p, 1, k) : k \in 1..(Len(p) - 1) }
Size(f) == IF f \in DOMAIN Assets THEN Assets[f] ELSE 0

Init ==
  /\ dirs = {Home} \cup UNION { Above(f) : f \in {Home} \cup DOMAIN Assets }
  /\ files = DOMAIN Assets
  /\ fd = [d \in Fds |-> Closed]
  /\ ino = [d \in Fds |-> None]
  /\ \E s \in StaticFds : ra = [i \in Slots |-> [fd |-> s, pos |-> 0, base |-> 0, len |-> 0]]
  /\ lock = None
  /\ call = [t \in Threads |-> Idle]

-----------------------------------------------------------------------------
(* mkdir_p_dir makes the missing directories of a path from below GAME_HOME, *)
(* or the device if it has one, on, as long as there is one to make them in, *)
(* and safe_mkdir never one of a device's first level.                       *)
SkipOf(dir) ==
  IF IsPrefix(Home, dir) THEN Len(Home) ELSE IF HasDevice(dir) \/ Rooted(dir) THEN 1 ELSE 0
Tried(dir) == { SubSeq(dir, 1, k) : k \in (SkipOf(dir) + 1)..Len(dir) }
SafeMkdir(d) == HasDevice(d) => Len(d) > 2
Under(dir) == IF HasDevice(dir) /\ SkipOf(dir) = 1 THEN 2 ELSE SkipOf(dir)
Made(dir) ==
  { Full(d) : d \in { e \in Tried(dir) :
                       SafeMkdir(e) /\ Full(SubSeq(e, 1, Under(dir))) \in dirs } }
MkdirParents(p) == dirs \cup Made(Front(p))

MayOpen(t) == call[t] = Idle /\ Cardinality({ d \in Fds : fd[d].user = t }) < MaxOpen
LowestFree == { d \in Fds : fd[d].file = None /\ \A e \in Fds : e < d => fd[e].file # None }
RaFree == { i \in Slots : ra[i].fd < 0 /\ \A j \in Slots : j < i => ~(ra[j].fd < 0) }

(* ra_attach, when the file is big and there is a free entry. *)
Attach(d, f) ==
  IF Size(f) >= Big /\ RaFree # {}
  THEN ra' = [i \in Slots |-> IF i \in RaFree THEN [fd |-> d, pos |-> 0, base |-> 0, len |-> 0]
                                             ELSE ra[i]]
  ELSE UNCHANGED ra

Opened(d, f, t) == fd' = [fd EXCEPT ![d] = [file |-> f, pos |-> 0, want |-> 0, user |-> t]]
InoSet(d, p) == ino' = [ino EXCEPT ![d] = p]
ReadsFrom(p) == IF Full(p) \in files THEN Full(p) ELSE Basename(p)

(* open_fake, for reading and for writing.                                  *)
OpenRead ==
  \E t \in Threads, p \in Paths, d \in LowestFree :
    /\ MayOpen(t) /\ ReadsFrom(p) \in files /\ lock = None
    /\ Opened(d, ReadsFrom(p), t) /\ InoSet(d, p) /\ Attach(d, ReadsFrom(p))
    /\ UNCHANGED <<dirs, files, lock, call>>

OpenWrite ==
  \E t \in Threads, p \in Saves, d \in LowestFree :
    /\ MayOpen(t)
    /\ dirs' = IF Front(Full(p)) \in dirs THEN dirs ELSE MkdirParents(p)
    /\ IF Front(Full(p)) \in dirs'
       THEN files' = files \cup {Full(p)} /\ Opened(d, Full(p), t) /\ InoSet(d, p)
       ELSE UNCHANGED <<files, fd, ino>>
    /\ UNCHANGED <<ra, lock, call>>

(* fopen_fake sets no inode number and reads ahead in newlib's own buffer;  *)
(* fclose_fake clears none.                                                  *)
Fopen ==
  \E t \in Threads, p \in Paths, d \in LowestFree :
    /\ MayOpen(t) /\ ReadsFrom(p) \in files
    /\ Opened(d, ReadsFrom(p), t)
    /\ UNCHANGED <<dirs, files, ino, ra, lock, call>>

(* close_fake: ra_detach under the lock, fd_ino_clear, close. *)
InoClear(d) == [ino EXCEPT ![d] = None]
Detached(d) == [i \in Slots |-> IF ra[i].fd = d THEN [ra[i] EXCEPT !.fd = -1] ELSE ra[i]]
Close ==
  \E t \in Threads, d \in Fds :
    /\ call[t] = Idle /\ fd[d].user = t /\ lock = None
    /\ fd' = [fd EXCEPT ![d] = Closed]
    /\ ino' = InoClear(d)
    /\ ra' = Detached(d)
    /\ UNCHANGED <<dirs, files, lock, call>>

-----------------------------------------------------------------------------
(* Reading.  A thread reads through descriptors of its own.                  *)
SlotOf(d) == { i \in Slots : ra[i].fd = d }
Call(t, op, d, n, off) ==
  call' = [call EXCEPT ![t] =
    [op |-> op, fd |-> d, n |-> n, off |-> off, got |-> <<>>,
     slot |-> IF SlotOf(d) = {} THEN 0 ELSE CHOOSE i \in SlotOf(d) : TRUE,
     at |-> IF op = "pread" THEN "seek" ELSE IF SlotOf(d) = {} THEN "read" ELSE "lock"]]

(* read_fake and z_lseek look for the window without the lock. *)
ReadCall == \E t \in Threads, d \in Fds, n \in Lengths :
  /\ call[t] = Idle /\ fd[d].user = t
  /\ Call(t, "read", d, n, fd[d].want)
  /\ UNCHANGED <<dirs, files, fd, ino, ra, lock>>
PreadCall == \E t \in Threads, d \in Fds, n \in Lengths, off \in Offsets :
  /\ call[t] = Idle /\ fd[d].user = t
  /\ Call(t, "pread", d, n, off)
  /\ UNCHANGED <<dirs, files, fd, ino, ra, lock>>
Lseek == \E t \in Threads, d \in Fds : \E to \in Offsets :
  /\ call[t] = Idle /\ fd[d].user = t /\ lock = None
  /\ IF SlotOf(d) = {}
     THEN fd' = [fd EXCEPT ![d].pos = to, ![d].want = to] /\ UNCHANGED ra
     ELSE /\ fd' = [fd EXCEPT ![d].want = to]
          /\ ra' = [i \in Slots |-> IF i \in SlotOf(d) THEN [ra[i] EXCEPT !.pos = to] ELSE ra[i]]
  /\ UNCHANGED <<dirs, files, ino, lock, call>>

D(t) == call[t].fd
Bytes(f, from, n) == [i \in 1..n |-> <<f, from + i - 1>>]
Left(t) == call[t].n - Len(call[t].got)
AtEnd(t, pos) == pos >= Size(fd[D(t)].file)

(* pread_impl: keep the position, go to the offset, read, go back. *)
PreadSeek(t) ==
  /\ call[t].at = "seek"
  /\ call' = [call EXCEPT ![t].slot = fd[D(t)].pos, ![t].at = "read"]
  /\ fd' = [fd EXCEPT ![D(t)].pos = call[t].off]
  /\ UNCHANGED <<dirs, files, ino, ra, lock>>

(* One read of the loops that fill the buffer: the card may return less.     *)
ReadSome(t) ==
  LET d == D(t) left == Size(fd[d].file) - fd[d].pos IN
  /\ call[t].at = "read" /\ Left(t) > 0 /\ ~AtEnd(t, fd[d].pos)
  /\ \E k \in 1..(IF left < Left(t) THEN left ELSE Left(t)) :
       /\ call' = [call EXCEPT ![t].got = @ \o Bytes(fd[d].file, fd[d].pos, k)]
       /\ fd' = [fd EXCEPT ![d].pos = @ + k]
  /\ UNCHANGED <<dirs, files, ino, ra, lock>>

RestoredNot(t) == fd[D(t)].pos   \* mutant: pread leaves its position
Restored(t) == IF call[t].op = "pread" THEN call[t].slot ELSE fd[D(t)].pos
Return(t) ==
  /\ call[t].at = "read" /\ (Left(t) = 0 \/ AtEnd(t, fd[D(t)].pos))
  /\ call' = [call EXCEPT ![t].at = "done"]
  /\ fd' = [fd EXCEPT ![D(t)].pos = Restored(t),
                      ![D(t)].want = IF call[t].op = "read" THEN @ + Len(call[t].got) ELSE @]
  /\ UNCHANGED <<dirs, files, ino, ra, lock>>

(* ra_read: fill the window where the position is outside it, copy from it.  *)
C(t) == ra[call[t].slot]
Outside(c) == c.len = 0 \/ c.pos < c.base \/ c.pos >= c.base + c.len
RaLock(t) ==
  /\ call[t].at = "lock" /\ lock = None
  /\ lock' = t /\ call' = [call EXCEPT ![t].at = "window"]
  /\ UNCHANGED <<dirs, files, fd, ino, ra>>
RaFill(t) ==
  LET left == Size(fd[D(t)].file) - C(t).pos IN
  /\ call[t].at = "window" /\ Left(t) > 0 /\ Outside(C(t)) /\ left > 0
  /\ ra' = [ra EXCEPT ![call[t].slot].base = C(t).pos,
                      ![call[t].slot].len = IF left < Win THEN left ELSE Win]
  /\ fd' = [fd EXCEPT ![D(t)].pos = ra'[call[t].slot].base + ra'[call[t].slot].len]
  /\ UNCHANGED <<dirs, files, ino, lock, call>>
RaCopy(t) ==
  LET avail == C(t).base + C(t).len - C(t).pos
      n == IF Left(t) < avail THEN Left(t) ELSE avail IN
  /\ call[t].at = "window" /\ Left(t) > 0 /\ ~Outside(C(t))
  /\ call' = [call EXCEPT ![t].got = @ \o Bytes(fd[D(t)].file, C(t).pos, n)]
  /\ ra' = [ra EXCEPT ![call[t].slot].pos = @ + n]
  /\ UNCHANGED <<dirs, files, fd, ino, lock>>
RaReturn(t) ==
  /\ call[t].at = "window"
  /\ Left(t) = 0 \/ (Outside(C(t)) /\ AtEnd(t, C(t).pos))
  /\ lock' = None
  /\ call' = [call EXCEPT ![t].at = "done"]
  /\ fd' = [fd EXCEPT ![D(t)].want = @ + Len(call[t].got)]
  /\ UNCHANGED <<dirs, files, ino, ra>>

Taken(t) ==
  /\ call[t].at = "done"
  /\ call' = [call EXCEPT ![t] = Idle]
  /\ UNCHANGED <<dirs, files, fd, ino, ra, lock>>

Next == \/ OpenRead \/ OpenWrite \/ Fopen \/ Close
        \/ ReadCall \/ PreadCall \/ Lseek
        \/ \E t \in Threads : \/ PreadSeek(t) \/ ReadSome(t) \/ Return(t) \/ RaLock(t)
                              \/ RaFill(t) \/ RaCopy(t) \/ RaReturn(t) \/ Taken(t)

Spec == Init /\ [][Next]_vars

TypeOK ==
  /\ \A d \in Fds : fd[d].file \in files \cup {None} /\ ino[d] \in Paths \cup {None}
  /\ \A i \in Slots : ra[i].len \in 0..Win
  /\ lock \in Threads \cup {None}

(* A read returns the bytes at the position the last read or seek of its     *)
(* descriptor left, a pread those at its offset, and no fewer than asked for *)
(* unless the file ends; short reads of the card, the window and preads in   *)
(* between make no difference.                                               *)
ReadsRight ==
  \A t \in Threads : call[t].at = "done" =>
    LET f == fd[D(t)].file IN
      /\ call[t].got = Bytes(f, call[t].off, Len(call[t].got))
      /\ Len(call[t].got) = call[t].n \/ call[t].off + Len(call[t].got) >= Size(f)

(* fstat shows two open descriptors the same inode only when they are open   *)
(* on one file, and a descriptor from open shows the inode stat shows for    *)
(* its path; a descriptor that is reused shows nothing of its last file.     *)
Inode(d) == IF ino[d] = None THEN <<"fd", d>> ELSE <<"path", ino[d]>>
InodesApart ==
  \A d, e \in Fds :
    fd[d].file # None /\ fd[e].file # None /\ Inode(d) = Inode(e) => fd[d].file = fd[e].file

(* The directories on the card hang together, and a file is in one of them.  *)
DirsWhole ==
  /\ \A d \in dirs : Len(d) > 1 => Front(d) \in dirs
  /\ \A f \in files : Front(f) \in dirs
=============================================================================
