--------------------------- MODULE SaveStoreProofs ---------------------------
(***************************************************************************)
(* Theorems about SaveStore, for any number of game threads, descriptors,  *)
(* saves and HOME-kills, and about the parts MCStorage has beside it.  The *)
(* invariant of SaveStore says besides the types which descriptors are     *)
(* open, and that a file in the making is never older than the target it   *)
(* will be renamed over; that of Files where a descriptor and its slot     *)
(* stand, and what a read in between has got; that of Prefs that the file  *)
(* has what some list was written as.  What is made of texts is shown by   *)
(* induction over them: a set of sequences that has the empty one, and     *)
(* with each those that are longer by an element, has all, and so there is *)
(* one function for each definition by recursion on them.                  *)
(***************************************************************************)
EXTENDS MCStorage, NumberFacts, SequenceTheorems

\* Descriptors that a saver or the main thread writes through.
Opened == {fd[t] : t \in {u \in Savers : pc[u] \in {"mark", "write", "written"}}}
Printing == IF mpc \in {"write", "writeAndFlush"} THEN {pfd} ELSE {}

BusySound ==
  /\ busy \subseteq Opened \cup Printing
  /\ \A t \in Savers : pc[t] \in {"mark", "write", "written", "unmark"} => fd[t] \in Fds

\* What was written, what was renamed and what was committed, in that order.
VersionsSound ==
  \A t \in Savers :
    /\ 0 <= card[Dst(t)] /\ card[Dst(t)] <= view[Dst(t)] /\ view[Dst(t)] <= made
    /\ pc[t] \in {"written", "unmark", "commit", "closed"} =>
         view[Dst(t)] <= view[Tmp(t)] /\ view[Tmp(t)] <= made

IInv == TypeOK /\ BusySound /\ VersionsSound

-----------------------------------------------------------------------------

\* Savers have files of their own, and none of them is prefs.kv.
LEMMA FilesApart ==
  ASSUME NEW t \in Savers, NEW u \in Savers
  PROVE  /\ Tmp(t) \in Files /\ Dst(t) \in Files /\ prefs \in Files
         /\ Tmp(t) # Dst(u) /\ Tmp(t) # prefs /\ Dst(t) # prefs
         /\ t # u => Tmp(t) # Tmp(u) /\ Dst(t) # Dst(u)
BY DEF Tmp, Dst, prefs, Files

\* There is a descriptor left for a saver that is about to open its file.
LEMMA SaverFindsFd ==
  ASSUME TypeOK, BusySound, NEW t \in Savers, pc[t] = "idle"
  PROVE  NextFd \in Fds \ busy
<1> DEFINE Others == Savers \ {t}
           f == [u \in Others |-> fd[u]]
           Image == {f[u] : u \in Others}
<1>1. IsFiniteSet(Others) /\ Cardinality(Others) = Cardinality(Savers) - 1
  BY StoreAssumption, FS_RemoveElement
<1>2. IsFiniteSet(Image) /\ Cardinality(Image) \in Nat /\ Cardinality(Image) <= Cardinality(Others)
  BY <1>1, FewValues
<1>3. Opened \subseteq Image
  BY DEF Opened, TypeOK
<1> HIDE DEF Image, Others
<1>4. busy \subseteq Image \cup {pfd}
  BY <1>3 DEF BusySound, Printing
<1>5. /\ IsFiniteSet(Image \cup {pfd}) /\ Cardinality(Image \cup {pfd}) \in Nat
      /\ Cardinality(Image \cup {pfd}) <= Cardinality(Image) + 1
  BY <1>2, OneMore
<1>6. Cardinality(Savers) \in Nat /\ Cardinality(Fds) \in Nat
  BY StoreAssumption, FS_CardinalityType
<1>7. Cardinality(Image \cup {pfd}) < Cardinality(Fds)
  BY <1>1, <1>2, <1>5, <1>6, StoreAssumption
<1>8. ~ (Fds \subseteq busy)
  <2> SUFFICES ASSUME Fds \subseteq Image \cup {pfd} PROVE FALSE
    BY <1>4
  <2>1. Cardinality(Fds) <= Cardinality(Image \cup {pfd})
    BY <1>5, FS_Subset
  <2> QED BY <2>1, <1>5, <1>6, <1>7
<1> QED BY <1>8, MinIsLeast, StoreAssumption DEF NextFd

\* And for prefs.kv.
LEMMA MainFindsFd ==
  ASSUME TypeOK, BusySound, mpc = "idle"
  PROVE  NextFd \in Fds \ busy
<1> DEFINE Image == {fd[u] : u \in Savers}
<1>1. IsFiniteSet(Image) /\ Cardinality(Image) \in Nat /\ Cardinality(Image) <= Cardinality(Savers)
  BY StoreAssumption, FewValues DEF TypeOK
<1>2. busy \subseteq Image
  BY DEF BusySound, Opened, Printing, TypeOK
<1> HIDE DEF Image
<1>3. Cardinality(Savers) \in Nat /\ Cardinality(Fds) \in Nat
  BY StoreAssumption, FS_CardinalityType
<1>4. ~ (Fds \subseteq busy)
  <2> SUFFICES ASSUME Fds \subseteq Image PROVE FALSE
    BY <1>2
  <2>1. Cardinality(Fds) <= Cardinality(Image)
    BY <1>1, FS_Subset
  <2> QED BY <2>1, <1>1, <1>3, StoreAssumption
<1> QED BY <1>4, MinIsLeast, StoreAssumption DEF NextFd

-----------------------------------------------------------------------------

\* Versions are those that were made, set, or not yet written.
LEMMA VersionsOf ==
  /\ 0 .. MaxSaves \subseteq Versions /\ 0 .. MaxSets \subseteq Versions
  /\ Torn \in Versions /\ Versions \subseteq Int
BY StoreAssumption DEF Versions, Torn

\* Every step keeps the types; an open finds a descriptor that is free.
LEMMA TypeKept ==
  ASSUME TypeOK, BusySound, [Next]_vars
  PROVE  TypeOK'
<1> USE DEF TypeOK, Goto, BySaver, ByMain
<1>1. ASSUME NEW t \in Savers, Open(t) PROVE TypeOK'
  <2>1. NextFd \in Fds
    BY <1>1, SaverFindsFd DEF Open
  <2>2. made' \in 0 .. MaxSaves
    BY <1>1, StoreAssumption DEF Open
  <2>3. view' \in [Files -> Versions]
    BY <1>1, VersionsOf DEF Open
  <2> QED BY <1>1, <2>1, <2>2, <2>3 DEF Open
<1>2. ASSUME NEW t \in Savers, MarkWriteFd(t) PROVE TypeOK'
  BY <1>2 DEF MarkWriteFd, BusySound
<1>3. ASSUME NEW t \in Savers, Write(t) PROVE TypeOK'
  BY <1>3, VersionsOf DEF Write
<1>4. ASSUME NEW t \in Savers, Fsync(t) PROVE TypeOK'
  BY <1>4 DEF Fsync
<1>5. ASSUME NEW t \in Savers, Close(t) PROVE TypeOK'
  BY <1>5 DEF Close
<1>6. ASSUME NEW t \in Savers, Unmark(t) PROVE TypeOK'
  BY <1>6 DEF Unmark
<1>7. ASSUME NEW t \in Savers, Commit(t) PROVE TypeOK'
  BY <1>7 DEF Commit
<1>8. ASSUME NEW t \in Savers, Rename(t) PROVE TypeOK'
  <2>1. view[Tmp(t)] \in Versions /\ 0 \in Versions
    BY FilesApart, VersionsOf, StoreAssumption
  <2> QED BY <1>8, <2>1 DEF Rename
<1>9. ASSUME NEW t \in Savers, Keep(t) PROVE TypeOK'
  BY <1>9 DEF Keep
<1>10. CASE PrefsSet
  BY <1>10, VersionsOf, StoreAssumption DEF PrefsSet
<1>11. ASSUME NEW next \in {"idle", "flush"}, PrefsOpen(next) PROVE TypeOK'
  <2>1. NextFd \in Fds
    BY <1>11, MainFindsFd DEF PrefsOpen
  <2> QED BY <1>11, <2>1, VersionsOf DEF PrefsOpen
<1>12. CASE PrefsLeft
  BY <1>12 DEF PrefsLeft
<1>13. CASE PrefsWrite
  BY <1>13 DEF PrefsWrite
<1>14. CASE SdFlush
  BY <1>14 DEF SdFlush
<1>15. CASE SdCommit
  BY <1>15 DEF SdCommit
<1>16. CASE HomeKill
  <2>1. prefs \in Files
    BY DEF Files
  <2>2. crashes' \in 0 .. MaxCrashes
    BY <1>16, StoreAssumption DEF HomeKill
  <2> QED BY <1>16, <2>1, <2>2 DEF HomeKill
<1>17. CASE UNCHANGED vars
  BY <1>17 DEF vars
<1> QED BY <1>1, <1>2, <1>3, <1>4, <1>5, <1>6, <1>7, <1>8, <1>9, <1>10, <1>11, <1>12, <1>13, <1>14,
           <1>15, <1>16, <1>17 DEF Next, SaverStep, MainFlush

\* A descriptor is open only while its owner is between fopen and fclose.
LEMMA BusyKept ==
  ASSUME TypeOK, BusySound, [Next]_vars
  PROVE  BusySound'
<1> USE DEF TypeOK, BusySound, Goto, BySaver, ByMain, Opened, Printing
<1>1. ASSUME NEW t \in Savers, Open(t) PROVE BusySound'
  <2>1. NextFd \in Fds
    BY <1>1, SaverFindsFd DEF Open
  <2> QED BY <1>1, <2>1 DEF Open
<1>2. ASSUME NEW t \in Savers, MarkWriteFd(t) PROVE BusySound'
  BY <1>2 DEF MarkWriteFd
<1>3. ASSUME NEW t \in Savers, Write(t) PROVE BusySound'
  BY <1>3 DEF Write
<1>4. ASSUME NEW t \in Savers, Fsync(t) PROVE BusySound'
  BY <1>4 DEF Fsync
<1>5. ASSUME NEW t \in Savers, Close(t) PROVE BusySound'
  BY <1>5 DEF Close
<1>6. ASSUME NEW t \in Savers, Unmark(t) PROVE BusySound'
  BY <1>6 DEF Unmark
<1>7. ASSUME NEW t \in Savers, Commit(t) PROVE BusySound'
  BY <1>7 DEF Commit
<1>8. ASSUME NEW t \in Savers, Rename(t) PROVE BusySound'
  BY <1>8 DEF Rename
<1>9. ASSUME NEW t \in Savers, Keep(t) PROVE BusySound'
  BY <1>9 DEF Keep
<1>10. CASE PrefsSet
  BY <1>10 DEF PrefsSet
<1>11. ASSUME NEW next \in {"idle", "flush"}, PrefsOpen(next) PROVE BusySound'
  BY <1>11 DEF PrefsOpen
<1>12. CASE PrefsLeft
  BY <1>12 DEF PrefsLeft
<1>13. CASE PrefsWrite
  BY <1>13 DEF PrefsWrite
<1>14. CASE SdFlush
  BY <1>14 DEF SdFlush
<1>15. CASE SdCommit
  BY <1>15 DEF SdCommit
<1>16. CASE HomeKill
  BY <1>16 DEF HomeKill
<1>17. CASE UNCHANGED vars
  BY <1>17 DEF vars
<1> QED BY <1>1, <1>2, <1>3, <1>4, <1>5, <1>6, <1>7, <1>8, <1>9, <1>10, <1>11, <1>12, <1>13, <1>14,
           <1>15, <1>16, <1>17 DEF Next, SaverStep, MainFlush

\* A target only ever takes a version that is newer than its own, on the card
\* as in the view, whoever commits.
LEMMA VersionsKept ==
  ASSUME TypeOK, VersionsSound, [Next]_vars
  PROVE  VersionsSound'
<1> USE DEF TypeOK, VersionsSound, Goto, BySaver, ByMain
<1>1. Versions \subseteq Int /\ made \in Int
  BY VersionsOf
<1>2. \A t \in Savers : Tmp(t) \in Files /\ Dst(t) \in Files /\ prefs \in Files
  BY FilesApart
<1>3. \A t \in Savers : view[Tmp(t)] \in Int /\ view[Dst(t)] \in Int /\ card[Dst(t)] \in Int
  BY <1>1, <1>2
<1>4. UNCHANGED <<view, made, pc>> /\ card' \in {card, view} => VersionsSound'
  BY <1>3
<1>5. ASSUME NEW t \in Savers, Open(t) PROVE VersionsSound'
  <2>1. view' = [view EXCEPT ![Tmp(t)] = Torn] /\ card' = card /\ made' = made + 1
        /\ pc' = [pc EXCEPT ![t] = "mark"]
    BY <1>5 DEF Open
  <2>2. \A u \in Savers : view'[Dst(u)] = view[Dst(u)] /\ (u # t => view'[Tmp(u)] = view[Tmp(u)])
    BY <2>1, <1>2, FilesApart
  <2> QED BY <2>1, <2>2, <1>1, <1>3
<1>6. ASSUME NEW t \in Savers, MarkWriteFd(t) PROVE VersionsSound'
  BY <1>6 DEF MarkWriteFd
<1>7. ASSUME NEW t \in Savers, Write(t) PROVE VersionsSound'
  <2>1. view' = [view EXCEPT ![Tmp(t)] = made] /\ card' = card /\ made' = made
        /\ pc' = [pc EXCEPT ![t] = "written"]
    BY <1>7 DEF Write
  <2>2. \A u \in Savers : /\ view'[Dst(u)] = view[Dst(u)]
                          /\ view'[Tmp(u)] = IF u = t THEN made ELSE view[Tmp(u)]
    BY <2>1, <1>2, FilesApart
  <2> QED BY <2>1, <2>2, <1>1, <1>2
<1>8. ASSUME NEW t \in Savers, Fsync(t) PROVE VersionsSound'
  BY <1>8, <1>4 DEF Fsync
<1>9. ASSUME NEW t \in Savers, Close(t) PROVE VersionsSound'
  BY <1>9 DEF Close
<1>10. ASSUME NEW t \in Savers, Unmark(t) PROVE VersionsSound'
  BY <1>10 DEF Unmark
<1>11. ASSUME NEW t \in Savers, Commit(t) PROVE VersionsSound'
  <2>1. \A u \in Savers : pc'[u] \in {"written", "unmark", "commit", "closed"} =>
                           pc[u] \in {"written", "unmark", "commit", "closed"}
    BY <1>11 DEF Commit
  <2> QED BY <1>11, <1>3, <2>1 DEF Commit
<1>12. ASSUME NEW t \in Savers, Rename(t) PROVE VersionsSound'
  <2>1. /\ view' = [view EXCEPT ![Dst(t)] = view[Tmp(t)], ![Tmp(t)] = 0] /\ card' = card
        /\ made' = made /\ pc[t] = "closed" /\ pc' = [pc EXCEPT ![t] = "idle"]
    BY <1>12 DEF Rename
  <2>2. \A u \in Savers : /\ view'[Dst(u)] = IF u = t THEN view[Tmp(t)] ELSE view[Dst(u)]
                          /\ u # t => view'[Tmp(u)] = view[Tmp(u)]
    BY <2>1, <1>2, FilesApart
  <2>3. \A u \in Savers : pc'[u] \in {"written", "unmark", "commit", "closed"} =>
                           u # t /\ pc[u] \in {"written", "unmark", "commit", "closed"}
    BY <2>1
  <2>4. card[Dst(t)] <= view[Tmp(t)] /\ view[Tmp(t)] <= made
    BY <2>1, <1>1, <1>3
  <2> QED BY <2>1, <2>2, <2>3, <2>4
<1>13. ASSUME NEW t \in Savers, Keep(t) PROVE VersionsSound'
  BY <1>13 DEF Keep
<1>14. CASE PrefsSet
  BY <1>14 DEF PrefsSet
<1>15. ASSUME NEW next \in {"idle", "flush"}, PrefsOpen(next) PROVE VersionsSound'
  <2>1. UNCHANGED <<card, made, pc>> /\ (view' = view \/ view' = [view EXCEPT ![prefs] = Torn])
    BY <1>15 DEF PrefsOpen
  <2>2. \A u \in Savers : view'[Dst(u)] = view[Dst(u)] /\ view'[Tmp(u)] = view[Tmp(u)]
    BY <2>1, <1>2, FilesApart
  <2> QED BY <2>1, <2>2
<1>16. CASE PrefsLeft
  BY <1>16 DEF PrefsLeft
<1>17. CASE PrefsWrite
  <2>1. UNCHANGED <<card, made, pc>> /\ view' = [view EXCEPT ![prefs] = kv]
    BY <1>17 DEF PrefsWrite
  <2>2. \A u \in Savers : view'[Dst(u)] = view[Dst(u)] /\ view'[Tmp(u)] = view[Tmp(u)]
    BY <2>1, <1>2, FilesApart
  <2> QED BY <2>1, <2>2
<1>18. CASE SdFlush
  BY <1>18 DEF SdFlush
<1>19. CASE SdCommit
  BY <1>19, <1>4 DEF SdCommit
<1>20. CASE HomeKill
  <2>1. UNCHANGED <<card, made>> /\ view' = card
        /\ \A u \in Savers : pc'[u] \notin {"written", "unmark", "commit", "closed"}
    BY <1>20 DEF HomeKill
  <2> QED BY <2>1, <1>1, <1>3
<1>21. CASE UNCHANGED vars
  BY <1>21 DEF vars
<1> QED BY <1>5, <1>6, <1>7, <1>8, <1>9, <1>10, <1>11, <1>12, <1>13, <1>14, <1>15, <1>16, <1>17,
           <1>18, <1>19, <1>20, <1>21 DEF Next, SaverStep, MainFlush

-----------------------------------------------------------------------------
(* The properties.                                                         *)

\* Nothing is open and every file has version 0.
LEMMA InvInit == Init => IInv
<1> SUFFICES ASSUME Init PROVE IInv
  OBVIOUS
<1>1. TypeOK
  <2>1. 0 \in Versions /\ 0 \in 0 .. MaxSaves /\ 0 \in 0 .. MaxSets /\ 0 \in 0 .. MaxCrashes
    BY VersionsOf, StoreAssumption
  <2> QED BY <2>1 DEF Init, TypeOK
<1>2. BusySound
  BY DEF Init, BusySound
<1>3. VersionsSound
  BY FilesApart DEF Init, VersionsSound
<1> QED BY <1>1, <1>2, <1>3 DEF IInv

\* The invariant holds for good.
LEMMA InvAlways == Spec => []IInv
<1>1. IInv /\ [Next]_vars => IInv'
  BY TypeKept, BusyKept, VersionsKept DEF IInv
<1> QED BY InvInit, <1>1, PTL DEF Spec

\* Type correctness: no descriptor of a full table is ever needed.
THEOREM SaveTypes == Spec => []TypeOK
<1>1. IInv => TypeOK
  BY DEF IInv
<1> QED BY <1>1, InvAlways, PTL

\* A target that is only renamed over is whole, in the view and on the card,
\* however many threads save and whenever the process is killed.
THEOREM TargetsStayWhole == Spec => []TargetWhole
<1>1. IInv => TargetWhole
  <2> SUFFICES ASSUME IInv, NEW t \in Savers PROVE card[Dst(t)] # Torn /\ view[Dst(t)] # Torn
    BY DEF TargetWhole
  <2>1. card[Dst(t)] \in Int /\ view[Dst(t)] \in Int
    BY FilesApart, VersionsOf DEF IInv, TypeOK
  <2> QED BY <2>1 DEF IInv, VersionsSound, Torn
<1> QED BY <1>1, InvAlways, PTL

\* The card never goes back to an older version of a target.
THEOREM TargetsNeverGoBack == Spec => TargetMonotonic
<1>1. ASSUME IInv, [Next]_vars
      PROVE  [\A t \in Savers : card'[Dst(t)] >= card[Dst(t)]]_vars
  <2>1. card' = card \/ card' = view
    BY <1>1 DEF Next, SaverStep, MainFlush, vars, BySaver, ByMain, Open, MarkWriteFd, Write,
                Fsync, Close, Unmark, Commit, Rename, Keep, PrefsSet, PrefsOpen, PrefsLeft,
                PrefsWrite, SdFlush, SdCommit, HomeKill
  <2>2. \A t \in Savers : card[Dst(t)] \in Int /\ view[Dst(t)] \in Int
    BY <1>1, FilesApart, VersionsOf DEF IInv, TypeOK
  <2> QED BY <1>1, <2>1, <2>2 DEF IInv, VersionsSound
<1> QED BY <1>1, InvAlways, PTL DEF Spec, TargetMonotonic

\* With one thread that saves, its mark is there until it looks it up, and what
\* it wrote is committed before close_fake returns.
OneSaverSound ==
  \A t \in Savers :
    /\ pc[t] \in {"write", "written", "unmark"} => fd[t] \in wmark
    /\ pc[t] \in {"written", "unmark", "commit", "closed"} => view[Tmp(t)] # Torn
    /\ pc[t] = "closed" => card[Tmp(t)] = view[Tmp(t)]

\* Every step keeps that, since no other saver closes or marks in between.
LEMMA OneSaverKept ==
  ASSUME \A s, t \in Savers : s = t, IInv, OneSaverSound, [Next]_vars
  PROVE  OneSaverSound'
<1> USE DEF IInv, TypeOK, OneSaverSound, Goto, BySaver, ByMain
<1>1. \A t \in Savers : Tmp(t) \in Files /\ Tmp(t) # prefs /\ Tmp(t) # Dst(t)
  BY FilesApart
<1>2. ASSUME NEW t \in Savers, Open(t) PROVE OneSaverSound'
  BY <1>2 DEF Open
<1>3. ASSUME NEW t \in Savers, MarkWriteFd(t) PROVE OneSaverSound'
  BY <1>3 DEF MarkWriteFd
<1>4. ASSUME NEW t \in Savers, Write(t) PROVE OneSaverSound'
  <2>1. made # Torn
    BY DEF Torn
  <2> QED BY <1>4, <1>1, <2>1 DEF Write
<1>5. ASSUME NEW t \in Savers, Fsync(t) PROVE OneSaverSound'
  BY <1>5 DEF Fsync
<1>6. ASSUME NEW t \in Savers, Close(t) PROVE OneSaverSound'
  BY <1>6 DEF Close
<1>7. ASSUME NEW t \in Savers, Unmark(t) PROVE OneSaverSound'
  BY <1>7 DEF Unmark
<1>8. ASSUME NEW t \in Savers, Commit(t) PROVE OneSaverSound'
  BY <1>8 DEF Commit
<1>9. ASSUME NEW t \in Savers, Rename(t) PROVE OneSaverSound'
  BY <1>9 DEF Rename
<1>10. ASSUME NEW t \in Savers, Keep(t) PROVE OneSaverSound'
  BY <1>10 DEF Keep
<1>11. CASE PrefsSet
  BY <1>11 DEF PrefsSet
<1>12. ASSUME NEW next \in {"idle", "flush"}, PrefsOpen(next) PROVE OneSaverSound'
  BY <1>12, <1>1 DEF PrefsOpen
<1>13. CASE PrefsLeft
  BY <1>13 DEF PrefsLeft
<1>14. CASE PrefsWrite
  BY <1>14, <1>1 DEF PrefsWrite
<1>15. CASE SdFlush
  BY <1>15 DEF SdFlush
<1>16. CASE SdCommit
  BY <1>16 DEF SdCommit
<1>17. CASE HomeKill
  BY <1>17 DEF HomeKill
<1>18. CASE UNCHANGED vars
  BY <1>18 DEF vars
<1> QED BY <1>2, <1>3, <1>4, <1>5, <1>6, <1>7, <1>8, <1>9, <1>10, <1>11, <1>12, <1>13, <1>14, <1>15,
           <1>16, <1>17, <1>18 DEF Next, SaverStep, MainFlush

\* A save is on the card, whole, when close_fake returns (libc_shim.c:537-540),
\* as long as one thread saves: with two, one clears the mark of the other.
THEOREM OneSaverCommits ==
  ASSUME \A s, t \in Savers : s = t
  PROVE  Spec => []ClosedIsCommitted
<1>1. Init => OneSaverSound
  BY DEF Init, OneSaverSound
<1>2. IInv /\ OneSaverSound /\ [Next]_vars => OneSaverSound'
  BY OneSaverKept
<1>3. OneSaverSound => ClosedIsCommitted
  BY DEF OneSaverSound, ClosedIsCommitted
<1> QED BY <1>1, <1>2, <1>3, InvAlways, PTL DEF Spec

-----------------------------------------------------------------------------
(* The descriptors, with their slots of read-ahead and inode numbers.      *)

\* A call c of the thread t on the descriptor f, to which the slots S of r belong.
CallOk(t, c, f, S, r) ==
  /\ f.user = t /\ c.op \in {"read", "pread"}
  /\ c.got = Opening!Bytes(f.file, c.off, Len(c.got)) /\ Len(c.got) <= c.n
  /\ c.at \in {"seek", "lock"} => c.got = <<>>
  /\ c.at = "seek" => c.op = "pread"
  /\ c.at \in {"lock", "window"} => c.op = "read" /\ c.slot \in S
  /\ c.at = "window" => r[c.slot].pos = c.off + Len(c.got)
  /\ c.at # "done" /\ c.op = "read" => c.off = f.want
  /\ c.at = "read" => f.pos = c.off + Len(c.got)
  /\ c.at = "read" /\ S = {} /\ c.op = "pread" => c.slot = f.want
  /\ c.at = "read" /\ c.op = "read" => S = {}
  /\ c.at = "done" => Len(c.got) = c.n \/ c.off + Len(c.got) >= Opening!Size(f.file)

\* The files the engine's saves are, and all there may be.
SaveFiles == { Opening!Full(p) : p \in Opening!Saves }
GameFiles == DOMAIN Assets \cup SaveFiles

FileTypes ==
  /\ files \subseteq GameFiles
  /\ openFd \in [Fds -> [file : files \cup {None}, pos : Nat, want : Nat,
                         user : Threads \cup {None}]]
  /\ ino \in [Fds -> Paths \cup {None}]
  /\ ra \in [Slots -> [fd : Int, pos : Nat, base : Nat, len : 0..Win]]
  /\ lock \in Threads \cup {None}
  /\ call \in [Threads -> [op : {"none", "read", "pread"},
       at : {"idle", "seek", "read", "lock", "window", "done"}, fd : Fds \cup {0}, n : Nat,
       off : Nat, slot : Nat, got : Seq(GameFiles \X Nat)]]

DescriptorsSound ==
  /\ \A d \in Fds : openFd[d].file = None =>
       openFd[d] = Opening!Closed /\ ino[d] = None /\ Opening!SlotOf(d) = {}
  /\ \A d \in Fds : openFd[d].user = None => openFd[d].file = None
  /\ \A i, j \in Slots : ra[i].fd \in Fds /\ ra[i].fd = ra[j].fd => i = j

CallSound(t) ==
  call[t].at # "idle" =>
    call[t].fd \in Fds /\ CallOk(t, call[t], openFd[call[t].fd], Opening!SlotOf(call[t].fd), ra)
CallsSound == \A t \in Threads : CallSound(t)

LockSound == \A t \in Threads : lock = t <=> call[t].at = "window"

\* A descriptor nobody reads is where the last read or seek left it.
PositionSound(d) ==
  openFd[d].file # None =>
    /\ Opening!SlotOf(d) = {} =>
         openFd[d].pos = openFd[d].want \/ \E t \in Threads : call[t].fd = d /\ call[t].at = "read"
    /\ \A i \in Opening!SlotOf(d) :
         ra[i].pos = openFd[d].want \/ \E t \in Threads : call[t].fd = d /\ call[t].at = "window"
PositionsSound == \A d \in Fds : PositionSound(d)

InodesSound == \A d \in Fds : ino[d] # None => openFd[d].file = Opening!ReadsFrom(ino[d])

DirsSound ==
  /\ dirs \subseteq Seq(STRING) /\ Home \in dirs /\ <<>> \notin dirs
  /\ Opening!DirsWhole

FilesInv == FileTypes /\ DescriptorsSound /\ CallsSound /\ LockSound /\ PositionsSound
            /\ InodesSound /\ DirsSound

\* The constants of Files, one fact each.
LEMMA FileConstants ==
  /\ Home \in Seq(STRING) /\ Len(Home) > 2 /\ Opening!HasDevice(Home) /\ "/" \notin Devices
  /\ Paths \subseteq Seq(STRING) \ {<<>>, <<"/">>}
  /\ DOMAIN Assets \subseteq { f \in Seq(STRING) : Len(f) > 1 } /\ Assets \in [DOMAIN Assets -> Nat]
  /\ \A p \in Paths, q \in Opening!Saves :
       Opening!Basename(p) = Opening!Full(q) => Opening!Full(p) = Opening!Full(q)
  /\ Fds \subseteq Nat /\ StaticFds \subseteq Int \ Fds /\ Slots \subseteq Nat \ {0}
  /\ Win \in Nat \ {0} /\ Big \in Nat /\ Offsets \subseteq Nat /\ Lengths \subseteq Nat
  /\ None \notin Threads /\ None \notin Fds /\ None \notin Paths /\ None \notin DOMAIN Assets
  /\ \A p \in Paths : Opening!Full(p) # None
BY OpeningAssumption DEF Opening!FilesAssumption

\* The directories above a path.
LEMMA PrefixFront ==
  ASSUME NEW p \in Seq(STRING), NEW k \in 1..Len(p)
  PROVE  LET q == SubSeq(p, 1, k) IN
         /\ q \in Seq(STRING) /\ q # <<>> /\ Len(q) = k
         /\ k > 1 => Opening!Front(q) = SubSeq(p, 1, k - 1)
         /\ \A j \in 1..k : SubSeq(q, 1, j) = SubSeq(p, 1, j)
<1> DEFINE q == SubSeq(p, 1, k)
<1>1. q \in Seq(STRING) /\ Len(q) = k /\ \A i \in 1..k : q[i] = p[i]
  OBVIOUS
<1>2. q # <<>>
  BY <1>1
<1>3. ASSUME NEW j \in 1..k
      PROVE  SubSeq(q, 1, j) = SubSeq(p, 1, j)
  BY <1>1
<1>4. k > 1 => Opening!Front(q) = SubSeq(q, 1, k - 1)
  BY <1>1 DEF Opening!Front
<1> QED BY <1>1, <1>2, <1>3, <1>4

\* What mkdir_p_dir walks up keeps its device and its root, and one step up the
\* path is one step up the card.
LEMMA FullFront ==
  ASSUME NEW p \in Seq(STRING), NEW k \in 1..Len(p),
         k > 1 \/ ~ (Opening!HasDevice(p) \/ Opening!Rooted(p))
  PROVE  LET d == Opening!Full(SubSeq(p, 1, k)) IN
         /\ d \in Seq(STRING) /\ d # <<>>
         /\ Opening!Front(d) = Opening!Full(SubSeq(p, 1, k - 1))
<1> DEFINE e == SubSeq(p, 1, k)
           f == SubSeq(p, 1, k - 1)
<1>1. /\ e \in Seq(STRING) /\ Len(e) = k /\ \A i \in 1..k : e[i] = p[i]
      /\ f \in Seq(STRING) /\ Len(f) = k - 1 /\ \A i \in 1..(k - 1) : f[i] = p[i]
  OBVIOUS
<1>2. /\ e # <<>> /\ Head(e) = Head(p) /\ p # <<>>
      /\ k > 1 => f # <<>> /\ Head(f) = Head(p)
      /\ k = 1 => f = <<>>
  BY <1>1
<1>3. Home \in Seq(STRING) /\ Len(Home) > 2 /\ Head(Home) \in STRING
  BY FileConstants
<1> HIDE DEF e, f
<1>4. CASE Opening!HasDevice(p)
  <2>1. Opening!Full(e) = e /\ Opening!Full(f) = f
    BY <1>2, <1>4 DEF Opening!HasDevice, Opening!Full
  <2>2. Opening!Front(e) = f
    BY <1>1 DEF Opening!Front, e, f
  <2> QED BY <2>1, <2>2, <1>1, <1>2 DEF e, f
<1>5. CASE ~ Opening!HasDevice(p) /\ Opening!Rooted(p)
  <2> DEFINE d == <<Head(Home)>> \o Tail(e)
             g == <<Head(Home)>> \o Tail(f)
  <2>1. Opening!Full(e) = d /\ Opening!Full(f) = g
    BY <1>2, <1>5 DEF Opening!HasDevice, Opening!Rooted, Opening!Full
  <2>2. /\ d \in Seq(STRING) /\ Len(d) = k /\ \A i \in 2..k : d[i] = p[i]
        /\ g \in Seq(STRING) /\ Len(g) = k - 1 /\ \A i \in 2..(k - 1) : g[i] = p[i]
        /\ d[1] = Head(Home) /\ g[1] = Head(Home)
    BY <1>1, <1>2, <1>3, <1>5
  <2> HIDE DEF d, g
  <2>3. SubSeq(d, 1, k - 1) = g
    BY <2>2
  <2>4. Opening!Front(d) = g /\ d # <<>>
    BY <2>2, <2>3 DEF Opening!Front
  <2> QED BY <2>1, <2>2, <2>4 DEF e, f
<1>6. CASE ~ (Opening!HasDevice(p) \/ Opening!Rooted(p))
  <2> DEFINE d == Home \o e
             g == Home \o f
  <2>1. Opening!Full(e) = d /\ Opening!Full(f) = g
    BY <1>2, <1>6 DEF Opening!HasDevice, Opening!Rooted, Opening!Full
  <2>2. Len(Home) \in Nat /\ k \in Nat /\ k >= 1
    BY <1>3
  <2>3. /\ d \in Seq(STRING) /\ Len(d) = Len(Home) + k
        /\ g \in Seq(STRING) /\ Len(g) = Len(Home) + (k - 1)
    <3>1. Home \in Seq(STRING) /\ e \in Seq(STRING) /\ f \in Seq(STRING)
      BY <1>1, <1>3
    <3>2. /\ d \in Seq(STRING) /\ Len(d) = Len(Home) + Len(e)
          /\ g \in Seq(STRING) /\ Len(g) = Len(Home) + Len(f)
      BY ONLY <3>1
    <3> QED BY <3>2, <1>1
  <2>4. ASSUME NEW i \in 1..(Len(Home) + (k - 1)) PROVE d[i] = g[i]
    <3>1. CASE i <= Len(Home)
      <4>1. d[i] = Home[i] /\ g[i] = Home[i]
        BY <3>1, <2>2, <1>1, <1>3
      <4> QED BY <4>1
    <3>2. CASE i > Len(Home)
      <4>1. d[i] = e[i - Len(Home)] /\ g[i] = f[i - Len(Home)] /\ i - Len(Home) \in 1..(k - 1)
        BY <3>2, <2>2, <1>1, <1>3
      <4> QED BY <4>1, <1>1, <2>2
    <3>3. i \in Int /\ Len(Home) \in Int
      BY <2>2
    <3>4. i <= Len(Home) \/ i > Len(Home)
      BY ONLY <3>3
    <3> QED BY <3>1, <3>2, <3>4
  <2>5. /\ d \in Seq(STRING) /\ Len(d) = Len(Home) + k
        /\ g \in Seq(STRING) /\ Len(g) = Len(Home) + (k - 1)
        /\ \A i \in 1..(Len(Home) + (k - 1)) : d[i] = g[i]
    BY <2>3, <2>4
  <2> HIDE DEF d, g
  <2>6. SubSeq(d, 1, Len(d) - 1) = g
    <3>1. Len(d) - 1 = Len(Home) + (k - 1) /\ Len(d) - 1 \in Nat /\ Len(d) - 1 <= Len(d)
      BY <2>2, <2>5
    <3> DEFINE h == SubSeq(d, 1, Len(d) - 1)
    <3>2. h \in Seq(STRING) /\ Len(h) = Len(d) - 1 /\ \A i \in 1..(Len(d) - 1) : h[i] = d[i]
      BY <2>5, <3>1
    <3> HIDE DEF h
    <3>3. h = g
      BY <2>5, <3>1, <3>2, SeqEqual
    <3> QED BY <3>3 DEF h
  <2>7. Opening!Front(d) = g /\ d # <<>>
    BY <2>5, <2>6, <1>3 DEF Opening!Front
  <2> QED BY <2>1, <2>5, <2>7 DEF e, f
<1> QED BY <1>4, <1>5, <1>6

\* What mkdir_p_dir makes hangs below a directory that was there.
LEMMA MadeHangs ==
  ASSUME DirsSound, NEW p \in Seq(STRING), NEW d \in Opening!Made(p)
  PROVE  /\ d \in Seq(STRING) /\ d # <<>>
         /\ Opening!Front(d) \in dirs \cup Opening!Made(p)
<1> DEFINE skip == Opening!SkipOf(p)
           first == Opening!Under(p)
<1>1. /\ skip \in Nat /\ first \in Nat /\ first >= skip
      /\ skip = 0 => ~ (Opening!HasDevice(p) \/ Opening!Rooted(p))
      /\ Opening!HasDevice(p) => first >= 2
      /\ first = skip \/ (first = 2 /\ skip = 1 /\ Opening!HasDevice(p))
  <2>1. Len(Home) \in Nat /\ Len(Home) > 2
    BY FileConstants
  <2>2. \/ skip = Len(Home)
        \/ skip = 1
        \/ skip = 0 /\ ~ (Opening!HasDevice(p) \/ Opening!Rooted(p))
    BY DEF Opening!SkipOf
  <2>3. first = IF Opening!HasDevice(p) /\ skip = 1 THEN 2 ELSE skip
    BY DEF Opening!Under
  <2> HIDE DEF skip, first
  <2> QED BY <2>1, <2>2, <2>3
<1>2. PICK e \in Opening!Tried(p) :
        d = Opening!Full(e) /\ Opening!SafeMkdir(e)
        /\ Opening!Full(SubSeq(e, 1, first)) \in dirs
  BY DEF Opening!Made
<1>3. PICK k \in (skip + 1)..Len(p) : e = SubSeq(p, 1, k)
  BY <1>2 DEF Opening!Tried
<1> HIDE DEF skip, first
<1>4. k \in Nat /\ k \in 1..Len(p) /\ skip + 1 <= k
  BY <1>1, <1>3
<1>5. /\ e \in Seq(STRING) /\ e # <<>> /\ Len(e) = k
      /\ \A j \in 1..k : SubSeq(e, 1, j) = SubSeq(p, 1, j)
  BY <1>3, <1>4, PrefixFront
<1>6. Opening!HasDevice(e) <=> Opening!HasDevice(p)
  BY <1>3, <1>4, <1>5 DEF Opening!HasDevice
<1>7. k > first
  <2>1. Opening!HasDevice(p) => k > 2
    BY <1>2, <1>5, <1>6 DEF Opening!SafeMkdir
  <2> QED BY <1>1, <1>4, <2>1
<1>8. Opening!Full(SubSeq(p, 1, first)) \in dirs
  <2>1. CASE first = 0
    <3>1. SubSeq(e, 1, first) = SubSeq(p, 1, first)
      BY <2>1, <1>5
    <3> QED BY <3>1, <1>2
  <2>2. CASE first # 0
    <3>1. first \in 1..k
      BY <2>2, <1>1, <1>4, <1>7
    <3> QED BY <3>1, <1>2, <1>5
  <2> QED BY <2>1, <2>2
<1>9. d \in Seq(STRING) /\ d # <<>> /\ Opening!Front(d) = Opening!Full(SubSeq(p, 1, k - 1))
  <2>1. k > 1 \/ ~ (Opening!HasDevice(p) \/ Opening!Rooted(p))
    BY <1>1, <1>4
  <2> QED BY <2>1, <1>2, <1>3, <1>4, FullFront
<1>10. CASE k - 1 = first
  BY <1>9, <1>8, <1>10
<1>11. CASE k - 1 # first
  <2>1. k - 1 \in (skip + 1)..Len(p) /\ k - 1 \in 1..Len(p) /\ k - 1 > first
    BY <1>1, <1>3, <1>4, <1>7, <1>11
  <2> DEFINE q == SubSeq(p, 1, k - 1)
  <2>2. Len(q) = k - 1 /\ q # <<>> /\ Head(q) = Head(p) /\ p # <<>>
    BY <2>1
  <2>3. SubSeq(q, 1, first) = SubSeq(p, 1, first)
    BY <1>1, <2>1
  <2>4. q \in Opening!Tried(p)
    BY <2>1 DEF Opening!Tried, skip
  <2>5. Opening!SafeMkdir(q)
    BY <1>1, <2>1, <2>2 DEF Opening!SafeMkdir, Opening!HasDevice
  <2> HIDE DEF q
  <2>6. Opening!Full(q) \in Opening!Made(p)
    BY <1>8, <2>3, <2>4, <2>5 DEF Opening!Made, first
  <2> QED BY <1>9, <2>6 DEF q
<1> QED BY <1>9, <1>10, <1>11

\* Directories are made under ones that are there or made with them, and none goes.
LEMMA DirsKept ==
  ASSUME FilesInv, [Opening!Next]_openingVars
  PROVE  DirsSound'
<1> USE DEF FilesInv
<1>1. CASE Opening!OpenWrite
  <2>1. PICK p \in Opening!Saves :
          /\ \/ dirs' = dirs \/ dirs' = Opening!MkdirParents(p)
          /\ \/ files' = files
             \/ /\ files' = files \cup {Opening!Full(p)}
                /\ Opening!Front(Opening!Full(p)) \in dirs'
    BY <1>1 DEF Opening!OpenWrite
  <2> DEFINE dir == Opening!Front(p)
  <2>2. p \in Seq(STRING) /\ dir \in Seq(STRING)
    BY FileConstants DEF Opening!Saves, Opening!Front
  <2>3. dirs' = dirs \/ dirs' = dirs \cup Opening!Made(dir)
    BY <2>1 DEF Opening!MkdirParents
  <2> HIDE DEF dir
  <2>4. \A d \in Opening!Made(dir) : d \in Seq(STRING) /\ d # <<>> /\ Opening!Front(d)
    \in dirs \cup Opening!Made(dir)
    BY <2>2, MadeHangs
  <2>5. dirs' \subseteq Seq(STRING) /\ Home \in dirs' /\ <<>> \notin dirs' /\ dirs \subseteq dirs'
    BY <2>3, <2>4 DEF DirsSound
  <2>6. \A d \in dirs' : Len(d) > 1 => Opening!Front(d) \in dirs'
    BY <2>3, <2>4 DEF DirsSound, Opening!DirsWhole
  <2>7. \A f \in files' : Opening!Front(f) \in dirs'
    BY <2>1, <2>5 DEF DirsSound, Opening!DirsWhole
  <2> QED BY <2>5, <2>6, <2>7 DEF DirsSound, Opening!DirsWhole, Opening!Front
<1>2. CASE ~ Opening!OpenWrite
  <2>1. UNCHANGED <<dirs, files>>
    BY <1>2 DEF Opening!Next, openingVars, Opening!OpenRead, Opening!Fopen, Opening!Close,
       Opening!ReadCall, Opening!PreadCall, Opening!Lseek, Opening!PreadSeek, Opening!ReadSome,
       Opening!Return, Opening!RaLock, Opening!RaFill, Opening!RaCopy, Opening!RaReturn,
       Opening!Taken
  <2> QED BY <2>1 DEF DirsSound, Opening!DirsWhole, Opening!Front
<1> QED BY <1>1, <1>2

\* Bytes read one after the other.
LEMMA BytesOf ==
  ASSUME NEW f, NEW from \in Nat, NEW n \in Nat
  PROVE  /\ Opening!Bytes(f, from, n) \in Seq({f} \X Nat) /\ Len(Opening!Bytes(f, from, n)) = n
         /\ \A i \in 1..n : Opening!Bytes(f, from, n)[i] = <<f, from + i - 1>>
BY DEF Opening!Bytes

\* Bytes of a file and those that follow them are bytes of it.
LEMMA BytesOn ==
  ASSUME NEW f, NEW from \in Nat, NEW n \in Nat, NEW m \in Nat
  PROVE  Opening!Bytes(f, from, n) \o Opening!Bytes(f, from + n, m) = Opening!Bytes(f, from, n + m)
<1> DEFINE a == Opening!Bytes(f, from, n)
           b == Opening!Bytes(f, from + n, m)
           c == Opening!Bytes(f, from, n + m)
<1>1. a \in Seq({f} \X Nat) /\ Len(a) = n /\ \A i \in 1..n : a[i] = <<f, from + i - 1>>
  BY BytesOf
<1>2. from + n \in Nat /\ n + m \in Nat
  OBVIOUS
<1>3. b \in Seq({f} \X Nat) /\ Len(b) = m /\ \A i \in 1..m : b[i] = <<f, (from + n) + i - 1>>
  BY <1>2, BytesOf
<1>4. c \in Seq({f} \X Nat) /\ Len(c) = n + m /\ \A i \in 1..(n + m) : c[i] = <<f, from + i - 1>>
  BY <1>2, BytesOf
<1> HIDE DEF a, b, c
<1>5. a \o b \in Seq({f} \X Nat) /\ Len(a \o b) = n + m
  BY <1>1, <1>3
<1>6. ASSUME NEW i \in 1..(n + m)
      PROVE  (a \o b)[i] = c[i]
  <2>1. CASE i <= n
    <3>1. (a \o b)[i] = a[i] /\ i \in 1..n
      BY <2>1, <1>1, <1>3
    <3> QED BY <3>1, <1>1, <1>4
  <2>2. CASE i > n
    <3>1. (a \o b)[i] = b[i - n] /\ i - n \in 1..m
      BY <2>2, <1>1, <1>3
    <3>2. (from + n) + (i - n) - 1 = from + i - 1
      OBVIOUS
    <3>3. b[i - n] = <<f, (from + n) + (i - n) - 1>>
      BY <3>1, <1>3
    <3> QED BY <3>1, <3>2, <3>3, <1>4
  <2>3. i \in Int /\ n \in Int
    BY <1>2
  <2>4. i <= n \/ i > n
    BY <2>3
  <2> QED BY <2>1, <2>2, <2>4
<1>7. a \o b = c
  BY <1>2, <1>4, <1>5, <1>6, SeqEqual
<1> QED BY <1>7 DEF a, b, c

\* Lengths and files are what they should be.
LEMMA FilesKnown ==
  ASSUME FileTypes
  PROVE  /\ \A f : Opening!Size(f) \in Nat
         /\ None \notin files /\ files \subseteq GameFiles
         /\ \A p \in Paths : Opening!ReadsFrom(p) \in files => Opening!ReadsFrom(p) # None
         /\ \A t \in Threads : Len(call[t].got) \in Nat /\ call[t].n \in Nat /\ call[t].off \in Nat
<1>1. \A f : Opening!Size(f) \in Nat
  BY FileConstants DEF Opening!Size
<1>2. None \notin GameFiles
  BY FileConstants DEF GameFiles, SaveFiles, Opening!Saves
<1>3. files \subseteq GameFiles
  BY DEF FileTypes, GameFiles
<1>4. ASSUME NEW t \in Threads
      PROVE  Len(call[t].got) \in Nat /\ call[t].n \in Nat /\ call[t].off \in Nat
  <2>1. /\ call[t].got \in Seq(GameFiles \X Nat) /\ call[t].n \in Nat /\ call[t].off \in Nat
    BY DEF FileTypes, GameFiles
  <2> QED BY <2>1
<1> QED BY <1>1, <1>2, <1>3, <1>4

\* A slot is given to at most one file.
LEMMA SlotsGiven ==
  ASSUME FileTypes, NEW d \in Fds, NEW f, Opening!Attach(d, f)
  PROVE  /\ ra' \in [Slots -> [fd : Int, pos : Nat, base : Nat, len : 0..Win]]
         /\ \A i \in Slots : ra'[i] = ra[i] \/ ra'[i] = [fd |-> d, pos |-> 0, base |-> 0, len |-> 0]
         /\ \A i, j \in Slots : ra'[i] # ra[i] /\ ra'[j] # ra[j] => i = j
<1>1. ASSUME NEW i \in Opening!RaFree, NEW j \in Opening!RaFree PROVE i = j
  <2>1. /\ i \in Slots /\ j \in Slots /\ ra[i].fd < 0 /\ ra[j].fd < 0
        /\ j < i => ~ (ra[j].fd < 0)
        /\ i < j => ~ (ra[i].fd < 0)
    BY DEF Opening!RaFree
  <2>2. i \in Nat /\ j \in Nat
    BY <2>1, FileConstants
  <2> QED BY <2>1, <2>2
<1>2. CASE UNCHANGED ra
  BY <1>2 DEF FileTypes
<1>3. CASE ra' = [i \in Slots |-> IF i \in Opening!RaFree
                   THEN [fd |-> d, pos |-> 0, base |-> 0, len |-> 0] ELSE ra[i]]
  <2>1. [fd |-> d, pos |-> 0, base |-> 0, len |-> 0]
    \in [fd : Int, pos : Nat, base : Nat, len : 0..Win]
    BY FileConstants
  <2>2. \A i \in Slots : ra[i] \in [fd : Int, pos : Nat, base : Nat, len : 0..Win]
    BY DEF FileTypes
  <2> QED BY <1>1, <1>3, <2>1, <2>2
<1> QED BY <1>2, <1>3 DEF Opening!Attach
\* A descriptor and a call as their types have them.
Descriptor == [file : files \cup {None}, pos : Nat, want : Nat, user : Threads \cup {None}]
CallType == [op : {"none", "read", "pread"},
  at : {"idle", "seek", "read", "lock", "window", "done"}, fd : Fds \cup {0}, n : Nat,
  off : Nat, slot : Nat, got : Seq(GameFiles \X Nat)]

\* What each descriptor, call and slot is.
LEMMA TypesOfOne ==
  ASSUME FileTypes
  PROVE  /\ \A d \in Fds : openFd[d] \in Descriptor
         /\ \A t \in Threads : call[t] \in CallType
         /\ \A i \in Slots : ra[i] \in [fd : Int, pos : Nat, base : Nat, len : 0..Win]
BY DEF FileTypes, Descriptor, CallType, GameFiles

\* A slot that is taken, let go or moved is still one.
LEMMA SlotTypes ==
  ASSUME NEW r \in [fd : Int, pos : Nat, base : Nat, len : 0..Win], NEW x \in Int, NEW y \in Nat
  PROVE  /\ [r EXCEPT !.fd = x] \in [fd : Int, pos : Nat, base : Nat, len : 0..Win]
         /\ [r EXCEPT !.fd = -1] \in [fd : Int, pos : Nat, base : Nat, len : 0..Win]
         /\ [r EXCEPT !.pos = y] \in [fd : Int, pos : Nat, base : Nat, len : 0..Win]
OBVIOUS

\* Opening gives a descriptor its types.
LEMMA OpenTypes ==
  ASSUME FileTypes, NEW d \in Fds, NEW f \in files', NEW t \in Threads, files \subseteq files',
         Opening!Opened(d, f, t), files' \subseteq GameFiles
  PROVE  openFd' \in [Fds -> Descriptor']
<1> DEFINE r == [file |-> f, pos |-> 0, want |-> 0, user |-> t]
<1>1. openFd' = [openFd EXCEPT ![d] = r]
  BY DEF Opening!Opened
<1>2. r \in Descriptor'
  BY DEF Descriptor
<1>3. \A e \in Fds : openFd[e] \in Descriptor'
  BY DEF Descriptor, FileTypes
<1>4. openFd = [e \in Fds |-> openFd[e]]
  BY DEF FileTypes
<1> HIDE DEF r
<1> QED BY <1>1, <1>2, <1>3, <1>4

\* What a call can get from a file.
LEMMA BytesTyped ==
  ASSUME NEW f \in GameFiles, NEW from \in Nat, NEW n \in Nat
  PROVE  Opening!Bytes(f, from, n) \in Seq(GameFiles \X Nat)
<1>1. Opening!Bytes(f, from, n) \in Seq({f} \X Nat)
  BY BytesOf
<1>2. {f} \X Nat \subseteq GameFiles \X Nat
  OBVIOUS
<1> QED BY <1>1, <1>2, SeqMonotonic

\* What a call got grows by what was read.
LEMMA GotTyped ==
  ASSUME call \in [Threads -> CallType], NEW t \in Threads, NEW b \in Seq(GameFiles \X Nat)
  PROVE  [call EXCEPT ![t].got = @ \o b] \in [Threads -> CallType]
<1>1. call[t].got \o b \in Seq(GameFiles \X Nat)
  BY DEF CallType
<1>2. PICK g : g = call[t].got \o b
  OBVIOUS
<1>3. g \in Seq(GameFiles \X Nat)
  BY <1>1, <1>2
<1>4. PICK r : r = [call[t] EXCEPT !.got = g]
  OBVIOUS
<1>5. r \in CallType
  BY <1>3, <1>4 DEF CallType
<1>6. [call EXCEPT ![t] = r] \in [Threads -> CallType]
  BY <1>5
<1>7. [call EXCEPT ![t].got = @ \o b] = [call EXCEPT ![t] = r]
  BY <1>2, <1>4
<1> QED BY <1>6, <1>7

\* Every step keeps the types.
LEMMA TypesKept ==
  ASSUME FileTypes, DescriptorsSound, CallsSound, [Opening!Next]_openingVars
  PROVE  FileTypes'
<1> USE DEF GameFiles
<1>1. CASE UNCHANGED openingVars
  BY <1>1 DEF openingVars, FileTypes
<1>2. CASE Opening!OpenRead
  <2>1. PICK t \in Threads, p \in Paths, d \in Opening!LowestFree :
          /\ Opening!ReadsFrom(p) \in files
          /\ Opening!Opened(d, Opening!ReadsFrom(p), t) /\ Opening!InoSet(d, p)
          /\ Opening!Attach(d, Opening!ReadsFrom(p))
          /\ UNCHANGED <<dirs, files, lock, call>>
    BY <1>2 DEF Opening!OpenRead
  <2>2. d \in Fds
    BY DEF Opening!LowestFree
  <2>3. openFd' \in [Fds -> Descriptor']
    BY <2>1, <2>2, OpenTypes, FilesKnown
  <2>4. ino' \in [Fds -> Paths \cup {None}]
    BY <2>1, <2>2 DEF Opening!InoSet, FileTypes
  <2>5. ra' \in [Slots -> [fd : Int, pos : Nat, base : Nat, len : 0..Win]]
    BY <2>1, <2>2, SlotsGiven
  <2> QED BY <2>1, <2>3, <2>4, <2>5 DEF FileTypes, Descriptor
<1>3. CASE Opening!OpenWrite
  <2>1. PICK t \in Threads, p \in Opening!Saves, d \in Opening!LowestFree :
          /\ UNCHANGED <<ra, lock, call>>
          /\ \/ UNCHANGED <<files, openFd, ino>>
             \/ /\ files' = files \cup {Opening!Full(p)}
                /\ Opening!Opened(d, Opening!Full(p), t) /\ Opening!InoSet(d, p)
    BY <1>3 DEF Opening!OpenWrite
  <2>2. d \in Fds /\ p \in Paths
    BY DEF Opening!LowestFree, Opening!Saves
  <2>3. CASE /\ files' = files \cup {Opening!Full(p)}
            /\ Opening!Opened(d, Opening!Full(p), t) /\ Opening!InoSet(d, p)
    <3>1. files' \subseteq GameFiles
      BY <2>2, <2>3, FilesKnown DEF SaveFiles
    <3>2. openFd' \in [Fds -> Descriptor']
      BY <2>2, <2>3, <3>1, OpenTypes
    <3>3. ino' \in [Fds -> Paths \cup {None}]
      BY <2>2, <2>3 DEF Opening!InoSet, FileTypes
    <3> QED BY <2>1, <3>1, <3>2, <3>3 DEF FileTypes, Descriptor
  <2>4. CASE UNCHANGED <<files, openFd, ino>>
    BY <2>1, <2>4 DEF FileTypes
  <2> QED BY <2>1, <2>3, <2>4
<1>4. CASE Opening!Fopen
  <2>1. PICK t \in Threads, p \in Paths, d \in Opening!LowestFree :
          /\ Opening!ReadsFrom(p) \in files /\ Opening!Opened(d, Opening!ReadsFrom(p), t)
          /\ UNCHANGED <<dirs, files, ino, ra, lock, call>>
    BY <1>4 DEF Opening!Fopen
  <2>2. openFd' \in [Fds -> Descriptor']
    BY <2>1, OpenTypes, FilesKnown DEF Opening!LowestFree
  <2> QED BY <2>1, <2>2 DEF FileTypes, Descriptor
<1>5. CASE Opening!Close
  <2>1. PICK t \in Threads, d \in Fds :
          /\ openFd' = [openFd EXCEPT ![d] = Opening!Closed]
          /\ ino' = Opening!InoClear(d) /\ ra' = Opening!Detached(d)
          /\ UNCHANGED <<dirs, files, lock, call>>
    BY <1>5 DEF Opening!Close
  <2>2. Opening!Closed \in Descriptor
    BY DEF Opening!Closed, Descriptor
  <2>3. openFd' \in [Fds -> Descriptor]
    BY <2>1, <2>2 DEF FileTypes, Descriptor
  <2>4. ino' \in [Fds -> Paths \cup {None}]
    BY <2>1 DEF FileTypes, Opening!InoClear
  <2>5. ra' \in [Slots -> [fd : Int, pos : Nat, base : Nat, len : 0..Win]]
    BY <2>1, SlotTypes, FileConstants DEF FileTypes, Opening!Detached
  <2> QED BY <2>1, <2>3, <2>4, <2>5 DEF FileTypes, Descriptor
<1>6. ASSUME NEW t \in Threads, NEW op \in {"read", "pread"}, NEW d \in Fds, NEW n \in Lengths,
             NEW off \in Nat, Opening!Call(t, op, d, n, off),
             UNCHANGED <<dirs, files, openFd, ino, ra, lock>>
      PROVE  FileTypes'
  <2> DEFINE slot == IF Opening!SlotOf(d) = {} THEN 0 ELSE CHOOSE i \in Opening!SlotOf(d) : TRUE
             at0 == IF op = "pread" THEN "seek"
                     ELSE IF Opening!SlotOf(d) = {} THEN "read" ELSE "lock"
             c == [op |-> op, fd |-> d, n |-> n, off |-> off, got |-> <<>>,
                   slot |-> slot, at |-> at0]
  <2>1. call' = [call EXCEPT ![t] = c]
    BY <1>6 DEF Opening!Call
  <2>2. slot \in Nat /\ at0 \in {"seek", "read", "lock"} /\ n \in Nat
    BY FileConstants DEF Opening!SlotOf
  <2> HIDE DEF slot, at0
  <2>3. c \in CallType
    BY <2>2 DEF CallType
  <2> HIDE DEF c
  <2>4. call' \in [Threads -> CallType]
    BY <2>1, <2>3 DEF FileTypes, CallType
  <2> QED BY <2>4, <1>6 DEF FileTypes, CallType
<1>7. CASE Opening!ReadCall
  <2>1. PICK t \in Threads, d \in Fds, n \in Lengths :
          Opening!Call(t, "read", d, n, openFd[d].want)
            /\ UNCHANGED <<dirs, files, openFd, ino, ra, lock>>
    BY <1>7 DEF Opening!ReadCall
  <2>2. openFd[d].want \in Nat
    BY TypesOfOne DEF Descriptor
  <2> QED BY <2>1, <2>2, <1>6
<1>8. CASE Opening!PreadCall
  <2>1. PICK t \in Threads, d \in Fds, n \in Lengths, off \in Offsets :
          Opening!Call(t, "pread", d, n, off) /\ UNCHANGED <<dirs, files, openFd, ino, ra, lock>>
    BY <1>8 DEF Opening!PreadCall
  <2> QED BY <2>1, <1>6, FileConstants
<1>9. CASE Opening!Lseek
  <2>1. PICK d \in Fds, to \in Offsets :
          /\ UNCHANGED <<dirs, files, ino, lock, call>>
          /\ \/ openFd' = [openFd EXCEPT ![d].pos = to, ![d].want = to] /\ UNCHANGED ra
             \/ /\ openFd' = [openFd EXCEPT ![d].want = to]
                /\ ra' = [i \in Slots |-> IF i \in Opening!SlotOf(d) THEN [ra[i] EXCEPT !.pos = to]
                                                                    ELSE ra[i]]
    BY <1>9 DEF Opening!Lseek
  <2>2. to \in Nat /\ openFd \in [Fds -> Descriptor]
    BY FileConstants DEF FileTypes, Descriptor
  <2>3. openFd' \in [Fds -> Descriptor]
    BY <2>1, <2>2 DEF Descriptor
  <2>4. ra' \in [Slots -> [fd : Int, pos : Nat, base : Nat, len : 0..Win]]
    <3>1. \A i \in Slots : [ra[i] EXCEPT !.pos = to]
        \in [fd : Int, pos : Nat, base : Nat, len : 0..Win]
      BY <2>2, SlotTypes, TypesOfOne
    <3>2. CASE UNCHANGED ra
      BY <3>2 DEF FileTypes
    <3>3. CASE ra' = [i \in Slots |-> IF i \in Opening!SlotOf(d) THEN [ra[i] EXCEPT !.pos = to]
                                                                 ELSE ra[i]]
      BY <3>1, <3>3, TypesOfOne
    <3> QED BY <2>1, <3>2, <3>3
  <2> QED BY <2>1, <2>3, <2>4 DEF FileTypes, Descriptor
<1>10. ASSUME NEW t \in Threads, call[t].at # "idle",
              \/ Opening!PreadSeek(t) \/ Opening!ReadSome(t) \/ Opening!Return(t)
              \/ Opening!RaLock(t)
              \/ Opening!RaFill(t) \/ Opening!RaCopy(t) \/ Opening!RaReturn(t) \/ Opening!Taken(t)
       PROVE  FileTypes'
  <2> DEFINE d == Opening!D(t)
             c == call[t]
  <2>1. d \in Fds /\ d = call[t].fd
    BY <1>10 DEF CallsSound, CallSound, Opening!D
  <2>2. openFd[d] \in Descriptor /\ c \in CallType
    BY <2>1, TypesOfOne
  <2>3. openFd \in [Fds -> Descriptor] /\ call \in [Threads -> CallType]
    BY DEF FileTypes, Descriptor, CallType
  <2>4. Opening!Size(openFd[d].file) \in Nat
    BY FilesKnown
  <2> HIDE DEF d
  <2>5. CASE Opening!PreadSeek(t)
    <3>1. call' = [call EXCEPT ![t].slot = openFd[d].pos, ![t].at = "read"]
      BY <2>5 DEF Opening!PreadSeek, d
    <3>2. openFd' = [openFd EXCEPT ![d].pos = call[t].off] /\ UNCHANGED <<files, ino, ra, lock>>
      BY <2>5 DEF Opening!PreadSeek, d
    <3>3. call' \in [Threads -> CallType]
      BY <2>2, <2>3, <3>1 DEF CallType, Descriptor
    <3>4. openFd' \in [Fds -> Descriptor]
      BY <2>1, <2>2, <2>3, <3>2 DEF CallType, Descriptor
    <3> QED BY <3>2, <3>3, <3>4 DEF FileTypes, Descriptor, CallType
  <2>6. CASE Opening!ReadSome(t)
    <3>1. PICK k \in 1..(IF Opening!Size(openFd[d].file) - openFd[d].pos < Opening!Left(t)
                         THEN Opening!Size(openFd[d].file) - openFd[d].pos ELSE Opening!Left(t)) :
            /\ call' = [call EXCEPT ![t].got = @ \o Opening!Bytes(openFd[d].file, openFd[d].pos, k)]
            /\ openFd' = [openFd EXCEPT ![d].pos = @ + k]
      BY <2>6 DEF Opening!ReadSome, d
    <3>2. UNCHANGED <<files, ino, ra, lock>> /\ openFd[d].file \in files
      <4>1. openFd[d].file # None
        BY <1>10, <2>1, FileConstants DEF CallsSound, CallSound, CallOk, DescriptorsSound,
           Opening!Closed
      <4> QED BY <2>6, <2>2, <4>1 DEF Opening!ReadSome, Descriptor
    <3>3. k \in Nat
      OBVIOUS
    <3>4. Opening!Bytes(openFd[d].file, openFd[d].pos, k) \in Seq(GameFiles \X Nat)
      <4>1. openFd[d].file \in GameFiles /\ openFd[d].pos \in Nat
        BY <2>2, <3>2, FilesKnown DEF Descriptor
      <4> QED BY <4>1, <3>3, BytesTyped
    <3>5. call' \in [Threads -> CallType]
      BY <2>2, <2>3, <3>1, <3>4, GotTyped
    <3>6. openFd[d].pos + k \in Nat
      BY <2>2, <3>3 DEF Descriptor
    <3>7. openFd' \in [Fds -> Descriptor]
      BY <2>1, <2>2, <2>3, <3>1, <3>6 DEF Descriptor
    <3> QED BY <3>2, <3>5, <3>7 DEF FileTypes, Descriptor, CallType
  <2>7. CASE Opening!Return(t)
    <3>1. call' = [call EXCEPT ![t].at = "done"]
      BY <2>7 DEF Opening!Return
    <3>2. /\ openFd' = [openFd EXCEPT ![d].pos = Opening!Restored(t), ![d].want =
                          IF call[t].op = "read" THEN @ + Len(call[t].got) ELSE @]
          /\ UNCHANGED <<files, ino, ra, lock>>
      BY <2>7 DEF Opening!Return, d
    <3>3. Opening!Restored(t) \in Nat /\ Len(call[t].got) \in Nat
      BY <2>2, FilesKnown DEF Opening!Restored, CallType, Descriptor, d
    <3>4. call' \in [Threads -> CallType]
      BY <2>2, <2>3, <3>1 DEF CallType
    <3> DEFINE p == Opening!Restored(t)
               w == IF call[t].op = "read" THEN openFd[d].want + Len(call[t].got)
                 ELSE openFd[d].want
    <3>5. w \in Nat /\ p \in Nat
      BY <2>2, <3>3 DEF Descriptor
    <3>6. openFd' = [openFd EXCEPT ![d].pos = p, ![d].want = w]
      BY <2>1, <2>2, <2>3, <3>2 DEF Descriptor
    <3> HIDE DEF p, w
    <3>7. openFd' \in [Fds -> Descriptor]
      BY <2>1, <2>2, <2>3, <3>5, <3>6 DEF Descriptor
    <3> QED BY <3>2, <3>4, <3>7 DEF FileTypes, Descriptor, CallType
  <2>8. CASE Opening!RaLock(t)
    <3>1. call' \in [Threads -> CallType]
      BY <2>2, <2>3, <2>8 DEF CallType, Opening!RaLock
    <3> QED BY <3>1, <2>8 DEF FileTypes, Descriptor, CallType, Opening!RaLock
  <2>9. ASSUME Opening!RaFill(t) \/ Opening!RaCopy(t)
        PROVE  call[t].slot \in Slots
          /\ ra[call[t].slot] \in [fd : Int, pos : Nat, base : Nat, len : 0..Win]
    <3>1. call[t].at = "window"
      BY <2>9 DEF Opening!RaFill, Opening!RaCopy
    <3>2. call[t].slot \in Slots
      BY <3>1, <1>10 DEF CallsSound, CallSound, CallOk, Opening!SlotOf
    <3> QED BY <3>2, TypesOfOne
  <2>10. CASE Opening!RaFill(t)
    <3> DEFINE left == Opening!Size(openFd[d].file) - Opening!C(t).pos
               len == IF left < Win THEN left ELSE Win
               s == call[t].slot
    <3>1. /\ ra' = [ra EXCEPT ![s].base = ra[s].pos, ![s].len = len]
          /\ openFd' = [openFd EXCEPT ![d].pos = ra'[s].base + ra'[s].len]
          /\ UNCHANGED <<files, ino, lock, call>> /\ left > 0
      BY <2>10 DEF Opening!RaFill, d, Opening!C
    <3>2. left \in Int
      BY <2>4, <2>9, <2>10 DEF Opening!C
    <3>3. len \in 0..Win
      BY <3>1, <3>2, FileConstants
    <3> HIDE DEF len, left
    <3>4. ra' \in [Slots -> [fd : Int, pos : Nat, base : Nat, len : 0..Win]]
      BY <2>9, <2>10, <3>1, <3>3 DEF FileTypes
    <3>5. ra'[s].base \in Nat /\ ra'[s].len \in 0..Win
      BY <3>4, <2>9, <2>10
    <3>6. ra'[s].base + ra'[s].len \in Nat
      <4>1. ra'[s].len \in Nat
        BY <3>5, FileConstants
      <4> QED BY <3>5, <4>1
    <3>7. openFd' \in [Fds -> Descriptor]
      BY <2>1, <2>2, <2>3, <3>1, <3>6 DEF Descriptor
    <3> QED BY <3>1, <3>4, <3>7 DEF FileTypes, Descriptor, CallType
  <2>11. CASE Opening!RaCopy(t)
    <3> DEFINE avail == Opening!C(t).base + Opening!C(t).len - Opening!C(t).pos
               n == IF Opening!Left(t) < avail THEN Opening!Left(t) ELSE avail
               s == call[t].slot
    <3>1. /\ call' = [call EXCEPT ![t].got = @ \o Opening!Bytes(openFd[d].file, ra[s].pos, n)]
          /\ ra' = [ra EXCEPT ![s].pos = @ + n]
          /\ UNCHANGED <<files, openFd, ino, lock>>
      BY <2>11 DEF Opening!RaCopy, d, Opening!C
    <3>2. n \in Nat
      <4>1. Opening!Left(t) > 0 /\ ~ Opening!Outside(ra[s])
        BY <2>11 DEF Opening!RaCopy, Opening!C
      <4>2. Opening!Left(t) \in Int
        BY FilesKnown DEF Opening!Left
      <4>3. /\ ra[s].base \in Nat /\ ra[s].len \in Nat /\ ra[s].pos \in Nat
            /\ ra[s].pos < ra[s].base + ra[s].len
        <5>1. PICK r : r = ra[s]
          OBVIOUS
        <5>2. r \in [fd : Int, pos : Nat, base : Nat, len : 0..Win]
          BY <2>9, <2>11, <5>1
        <5>3. r.base \in Nat /\ r.len \in Nat /\ r.pos \in Nat
          BY <5>2, FileConstants
        <5>4. ~ Opening!Outside(r)
          BY <4>1, <5>1
        <5>5. r.pos < r.base + r.len
          BY <5>3, <5>4 DEF Opening!Outside
        <5> QED BY <5>1, <5>3, <5>5
      <4> QED BY <4>1, <4>2, <4>3 DEF Opening!C
    <3> HIDE DEF n, avail
    <3>3. openFd[d].file \in files
      <4>1. openFd[d].file # None
        BY <1>10, <2>1, FileConstants DEF CallsSound, CallSound, CallOk, DescriptorsSound,
           Opening!Closed
      <4> QED BY <2>2, <4>1 DEF Descriptor
    <3>4. Opening!Bytes(openFd[d].file, ra[s].pos, n) \in Seq(GameFiles \X Nat)
      <4>1. openFd[d].file \in GameFiles /\ ra[s].pos \in Nat
        BY <2>9, <2>11, <3>3, FilesKnown
      <4> QED BY <4>1, <3>2, BytesTyped
    <3>5. call' \in [Threads -> CallType]
      BY <2>2, <2>3, <3>1, <3>4, GotTyped
    <3>6. ra[s].pos + n \in Nat
      BY <2>9, <2>11, <3>2
    <3>7. ra' \in [Slots -> [fd : Int, pos : Nat, base : Nat, len : 0..Win]]
      BY <2>9, <2>11, <3>1, <3>6 DEF FileTypes
    <3> QED BY <3>1, <3>5, <3>7 DEF FileTypes, Descriptor, CallType
  <2>12. CASE Opening!RaReturn(t)
    <3>1. call' \in [Threads -> CallType]
      BY <2>2, <2>3, <2>12 DEF CallType, Opening!RaReturn
    <3>2. /\ openFd' = [openFd EXCEPT ![d].want = @ + Len(call[t].got)]
          /\ UNCHANGED <<files, ino, ra>> /\ lock' = None
      BY <2>12 DEF Opening!RaReturn, d
    <3>3. Len(call[t].got) \in Nat
      BY FilesKnown
    <3>4. openFd[d].want + Len(call[t].got) \in Nat
      BY <2>2, <3>3 DEF Descriptor
    <3>5. openFd' \in [Fds -> Descriptor]
      BY <2>1, <2>2, <2>3, <3>2, <3>4 DEF Descriptor
    <3> QED BY <3>1, <3>2, <3>5 DEF FileTypes, Descriptor, CallType
  <2>13. CASE Opening!Taken(t)
    <3>1. Opening!Idle \in CallType
      BY DEF CallType, Opening!Idle
    <3>2. call' \in [Threads -> CallType]
      BY <3>1, <2>3, <2>13 DEF Opening!Taken
    <3> QED BY <3>2, <2>13 DEF FileTypes, Descriptor, CallType, Opening!Taken
  <2> QED BY <1>10, <2>5, <2>6, <2>7, <2>8, <2>10, <2>11, <2>12, <2>13
<1>11. \A t \in Threads :
         \/ Opening!PreadSeek(t) \/ Opening!ReadSome(t) \/ Opening!Return(t) \/ Opening!RaLock(t)
         \/ Opening!RaFill(t) \/ Opening!RaCopy(t) \/ Opening!RaReturn(t) \/ Opening!Taken(t)
         => call[t].at # "idle"
  BY DEF Opening!PreadSeek, Opening!ReadSome, Opening!Return, Opening!RaLock,
         Opening!RaFill, Opening!RaCopy, Opening!RaReturn, Opening!Taken
<1> QED BY <1>1, <1>2, <1>3, <1>4, <1>5, <1>7, <1>8, <1>9, <1>10, <1>11 DEF Opening!Next

\* A read or a seek changes neither what is open nor whose slots are whose.
LEMMA StepsKeep ==
  ASSUME FilesInv,
         \/ Opening!ReadCall \/ Opening!PreadCall \/ Opening!Lseek
         \/ \E t \in Threads :
              \/ Opening!PreadSeek(t) \/ Opening!ReadSome(t) \/ Opening!Return(t)
              \/ Opening!RaLock(t)
              \/ Opening!RaFill(t) \/ Opening!RaCopy(t) \/ Opening!RaReturn(t) \/ Opening!Taken(t)
  PROVE  /\ UNCHANGED <<dirs, files, ino>>
         /\ \A d \in Fds : openFd'[d].file = openFd[d].file /\ openFd'[d].user = openFd[d].user
         /\ \A i \in Slots : ra'[i].fd = ra[i].fd
<1> DEFINE Same == \A d \in Fds : openFd'[d].file = openFd[d].file
    /\ openFd'[d].user = openFd[d].user
           SameSlots == \A i \in Slots : ra'[i].fd = ra[i].fd
<1>1. /\ openFd \in [Fds -> Descriptor] /\ \A d \in Fds : openFd[d] \in Descriptor
      /\ ra \in [Slots -> [fd : Int, pos : Nat, base : Nat, len : 0..Win]]
  BY DEF FilesInv, FileTypes, Descriptor
<1>2. ASSUME Opening!ReadCall \/ Opening!PreadCall PROVE Same /\ SameSlots
  BY <1>2 DEF Opening!ReadCall, Opening!PreadCall
<1>3. ASSUME Opening!Lseek PROVE Same /\ SameSlots
  <2>1. PICK d \in Fds, to \in Offsets :
          \/ openFd' = [openFd EXCEPT ![d].pos = to, ![d].want = to] /\ UNCHANGED ra
          \/ /\ openFd' = [openFd EXCEPT ![d].want = to]
             /\ ra' = [i \in Slots |-> IF i \in Opening!SlotOf(d) THEN [ra[i] EXCEPT !.pos = to]
                                                                 ELSE ra[i]]
    BY <1>3 DEF Opening!Lseek
  <2>2. Same
    BY <2>1, <1>1 DEF Descriptor
  <2>3. SameSlots
    BY <2>1, <1>1
  <2> QED BY <2>2, <2>3
<1>4. ASSUME NEW t \in Threads, Opening!PreadSeek(t) \/ Opening!ReadSome(t) \/ Opening!Return(t)
      PROVE  Same /\ SameSlots
  <2>1. SameSlots
    BY <1>4 DEF Opening!PreadSeek, Opening!ReadSome, Opening!Return
  <2>2. CASE Opening!PreadSeek(t)
    BY <1>1, <2>2 DEF Opening!PreadSeek, Descriptor
  <2>3. CASE Opening!ReadSome(t)
    <3>1. PICK k : openFd' = [openFd EXCEPT ![Opening!D(t)].pos = @ + k]
      BY <2>3 DEF Opening!ReadSome
    <3> QED BY <1>1, <3>1, <2>1 DEF Descriptor
  <2>4. CASE Opening!Return(t)
    <3>1. PICK p : openFd' = [openFd EXCEPT ![Opening!D(t)].pos = p,
                     ![Opening!D(t)].want = IF call[t].op = "read" THEN @ + Len(call[t].got) ELSE @]
      BY <2>4 DEF Opening!Return
    <3> QED BY <1>1, <3>1, <2>1 DEF Descriptor
  <2> QED BY <1>4, <2>1, <2>2, <2>3, <2>4
<1>5. ASSUME NEW t \in Threads, Opening!RaLock(t) \/ Opening!RaReturn(t) \/ Opening!Taken(t)
      PROVE  Same /\ SameSlots
  <2>1. Same
    <3>1. CASE Opening!RaLock(t) \/ Opening!Taken(t)
      BY <3>1 DEF Opening!RaLock, Opening!Taken
    <3>2. CASE Opening!RaReturn(t)
      <4>1. PICK w : openFd' = [openFd EXCEPT ![Opening!D(t)].want = w]
        BY <3>2 DEF Opening!RaReturn
      <4> QED BY <1>1, <4>1 DEF Descriptor
    <3> QED BY <1>5, <3>1, <3>2
  <2>2. SameSlots
    BY <1>5 DEF Opening!RaLock, Opening!RaReturn, Opening!Taken
  <2> QED BY <2>1, <2>2
<1>6. ASSUME NEW t \in Threads, Opening!RaFill(t) PROVE Same /\ SameSlots
  <2>1. PICK b, n, p : /\ ra' = [ra EXCEPT ![call[t].slot].base = b, ![call[t].slot].len = n]
                       /\ openFd' = [openFd EXCEPT ![Opening!D(t)].pos = p]
    BY <1>6 DEF Opening!RaFill
  <2>2. Same
    BY <1>1, <2>1 DEF Descriptor
  <2>3. SameSlots
    BY <1>1, <2>1
  <2> QED BY <2>2, <2>3
<1>7. ASSUME NEW t \in Threads, Opening!RaCopy(t) PROVE Same /\ SameSlots
  <2>1. PICK p : ra' = [ra EXCEPT ![call[t].slot].pos = p] /\ openFd' = openFd
    BY <1>7 DEF Opening!RaCopy
  <2>2. SameSlots
    BY <1>1, <2>1
  <2> QED BY <2>1, <2>2
<1>8. UNCHANGED <<dirs, files, ino>>
  BY DEF Opening!PreadSeek, Opening!ReadSome, Opening!Return, Opening!RaLock, Opening!RaFill,
         Opening!RaCopy, Opening!RaReturn, Opening!Taken, Opening!ReadCall, Opening!PreadCall,
         Opening!Lseek
<1> QED BY <1>2, <1>3, <1>4, <1>5, <1>6, <1>7, <1>8

\* A path and its file have the same last name.
LEMMA LastOfFull ==
  ASSUME NEW p \in Seq(STRING), p # <<>>, p # <<"/">>
  PROVE  Opening!Last(Opening!Full(p)) = Opening!Last(p)
<1>1. Home \in Seq(STRING) /\ Len(Home) > 2 /\ Len(p) \in Nat /\ Len(p) > 0
  BY FileConstants
<1>2. CASE Opening!HasDevice(p)
  BY <1>2 DEF Opening!Full
<1>3. CASE ~ Opening!HasDevice(p) /\ Opening!Rooted(p)
  <2> DEFINE d == <<Head(Home)>> \o Tail(p)
  <2>1. Opening!Full(p) = d
    BY <1>3 DEF Opening!Full
  <2>2. Head(p) = "/"
    BY <1>3 DEF Opening!Rooted
  <2>3. Len(p) > 1
    <3>1. Len(p) = 1 => p = <<"/">>
      BY <2>2
    <3>2. PICK n \in Nat : n = Len(p)
      BY <1>1
    <3>3. n > 0 /\ n # 1
      BY <3>1, <3>2, <1>1
    <3>4. n > 1
      BY ONLY n \in Nat, <3>3
    <3> QED BY <3>2, <3>4
  <2>4. Len(d) = Len(p) /\ d[Len(p)] = p[Len(p)]
    BY <1>1, <2>3
  <2> QED BY <2>1, <2>4 DEF Opening!Last
<1>4. CASE ~ (Opening!HasDevice(p) \/ Opening!Rooted(p))
  <2> DEFINE d == Home \o p
  <2>1. Opening!Full(p) = d
    BY <1>4 DEF Opening!Full
  <2>2. Len(d) = Len(Home) + Len(p) /\ d[Len(Home) + Len(p)] = p[Len(p)]
    BY <1>1
  <2> QED BY <2>1, <2>2 DEF Opening!Last
<1> QED BY <1>2, <1>3, <1>4

\* An inode number stays the number of the file its descriptor is open on.
LEMMA InodesKept ==
  ASSUME FilesInv, [Opening!Next]_openingVars
  PROVE  InodesSound'
<1>1. openFd \in [Fds -> Descriptor] /\ ino \in [Fds -> Paths \cup {None}]
  BY DEF FilesInv, FileTypes, Descriptor
<1>2. \A d \in Opening!LowestFree : d \in Fds /\ openFd[d].file = None /\ ino[d] = None
  BY DEF FilesInv, DescriptorsSound, Opening!LowestFree
<1>3. CASE files' = files /\ ino' = ino /\ \A d \in Fds : openFd'[d].file = openFd[d].file
  BY <1>3 DEF FilesInv, InodesSound, Opening!ReadsFrom
<1>4. CASE UNCHANGED openingVars
  BY <1>3, <1>4 DEF openingVars
<1>5. CASE Opening!OpenRead
  <2>1. PICK t \in Threads, p \in Paths, d \in Opening!LowestFree :
          /\ Opening!Opened(d, Opening!ReadsFrom(p), t) /\ Opening!InoSet(d, p)
          /\ UNCHANGED <<dirs, files, lock, call>>
    BY <1>5 DEF Opening!OpenRead
  <2>2. openFd'[d].file = Opening!ReadsFrom(p) /\ \A e \in Fds \ {d} : openFd'[e] = openFd[e]
    BY <1>1, <1>2, <2>1 DEF Opening!Opened
  <2>3. ino'[d] = p /\ \A e \in Fds \ {d} : ino'[e] = ino[e]
    BY <1>1, <1>2, <2>1 DEF Opening!InoSet
  <2> QED BY <2>1, <2>2, <2>3 DEF FilesInv, InodesSound, Opening!ReadsFrom
<1>6. CASE Opening!OpenWrite
  <2>1. PICK t \in Threads, p \in Opening!Saves, d \in Opening!LowestFree :
          \/ UNCHANGED <<files, openFd, ino>>
          \/ /\ files' = files \cup {Opening!Full(p)}
             /\ Opening!Opened(d, Opening!Full(p), t) /\ Opening!InoSet(d, p)
    BY <1>6 DEF Opening!OpenWrite
  <2>2. CASE /\ files' = files \cup {Opening!Full(p)}
            /\ Opening!Opened(d, Opening!Full(p), t) /\ Opening!InoSet(d, p)
    <3>1. openFd'[d].file = Opening!Full(p) /\ \A e \in Fds \ {d} : openFd'[e] = openFd[e]
      BY <1>1, <1>2, <2>2 DEF Opening!Opened
    <3>2. ino'[d] = p /\ \A e \in Fds \ {d} : ino'[e] = ino[e]
      BY <1>1, <1>2, <2>2 DEF Opening!InoSet
    <3>3. Opening!Full(p) \in files' /\ p \in Paths
      BY <2>2 DEF Opening!Saves
    <3>4. ASSUME NEW e \in Fds \ {d}, ino[e] # None
          PROVE  openFd[e].file = (Opening!ReadsFrom(ino[e]))'
      <4> DEFINE q == ino[e]
      <4>1. openFd[e].file = Opening!ReadsFrom(q) /\ q \in Paths
        BY <1>1, <3>4 DEF FilesInv, InodesSound
      <4>2. openFd[e].file # None
        BY <3>4 DEF FilesInv, DescriptorsSound
      <4>3. Opening!ReadsFrom(q) \in files
        BY <1>1, <4>1, <4>2 DEF Descriptor
      <4>4. Opening!Full(q) = Opening!Full(p) => Opening!Full(q) \in files
        <5> SUFFICES ASSUME Opening!Full(q) = Opening!Full(p), Opening!Full(q) \notin files
                     PROVE FALSE
          OBVIOUS
        <5>1. Opening!Basename(q) \in files
          BY <4>3 DEF Opening!ReadsFrom
        <5>2. Opening!Basename(q) = Opening!Basename(p)
          BY <3>3, <4>1, FileConstants, LastOfFull DEF Opening!Basename
        <5>3. Opening!Basename(q) \in SaveFiles
          BY <5>1, <5>2 DEF FilesInv, FileTypes, GameFiles, Opening!Saves
        <5>4. PICK r \in Opening!Saves : Opening!Basename(q) = Opening!Full(r)
          BY <5>3 DEF SaveFiles
        <5>5. Opening!Full(q) = Opening!Basename(q)
          BY <4>1, <5>4, FileConstants
        <5> QED BY <5>1, <5>5
      <4>5. (Opening!ReadsFrom(q))' = IF Opening!Full(ino'[e]) \in files'
          THEN Opening!Full(ino'[e]) ELSE Opening!Basename(ino'[e])
        BY DEF Opening!ReadsFrom
      <4>6. Opening!Full(q) \in files' <=> Opening!Full(q) \in files
        BY <2>2, <4>4
      <4> QED BY <4>1, <4>5, <4>6, <3>2 DEF Opening!ReadsFrom
    <3> QED BY <3>1, <3>2, <3>3, <3>4 DEF InodesSound, Opening!ReadsFrom
  <2>3. CASE UNCHANGED <<files, openFd, ino>>
    BY <1>3, <2>3
  <2> QED BY <2>1, <2>2, <2>3
<1>7. CASE Opening!Fopen
  <2>1. PICK t \in Threads, p \in Paths, d \in Opening!LowestFree :
          /\ Opening!Opened(d, Opening!ReadsFrom(p), t)
          /\ UNCHANGED <<dirs, files, ino, ra, lock, call>>
    BY <1>7 DEF Opening!Fopen
  <2>2. \A e \in Fds \ {d} : openFd'[e] = openFd[e]
    BY <1>1, <2>1 DEF Opening!Opened
  <2> QED BY <1>2, <2>1, <2>2 DEF FilesInv, InodesSound, Opening!ReadsFrom
<1>8. CASE Opening!Close
  <2>1. PICK d \in Fds :
          openFd' = [openFd EXCEPT ![d] = Opening!Closed]
            /\ ino' = Opening!InoClear(d) /\ files' = files
    BY <1>8 DEF Opening!Close
  <2>2. ino'[d] = None /\ \A e \in Fds \ {d} : ino'[e] = ino[e] /\ openFd'[e] = openFd[e]
    BY <1>1, <2>1 DEF Opening!InoClear
  <2> QED BY <2>1, <2>2 DEF FilesInv, InodesSound, Opening!ReadsFrom
<1> QED BY <1>3, <1>4, <1>5, <1>6, <1>7, <1>8, StepsKeep DEF Opening!Next

\* A closed descriptor has no inode and no slot, and no two slots have the same
\* descriptor: ra_close lets go of the slot before the number is free again.
LEMMA DescriptorsKept ==
  ASSUME FilesInv, [Opening!Next]_openingVars
  PROVE  DescriptorsSound'
<1>1. /\ openFd \in [Fds -> Descriptor] /\ ino \in [Fds -> Paths \cup {None}]
      /\ ra \in [Slots -> [fd : Int, pos : Nat, base : Nat, len : 0..Win]]
  BY DEF FilesInv, FileTypes, Descriptor
<1>2. \A d \in Opening!LowestFree : d \in Fds /\ openFd[d].file = None /\ Opening!SlotOf(d) = {}
  BY DEF FilesInv, DescriptorsSound, Opening!LowestFree
<1>3. ASSUME NEW t \in Threads, NEW d \in Opening!LowestFree, NEW f, f # None,
             Opening!Opened(d, f, t), \A e \in Fds \ {d} : ino'[e] = ino[e],
             UNCHANGED ra \/ Opening!Attach(d, f)
      PROVE  DescriptorsSound'
  <2>1. /\ openFd'[d] = [file |-> f, pos |-> 0, want |-> 0, user |-> t]
        /\ \A e \in Fds \ {d} : openFd'[e] = openFd[e]
    BY <1>1, <1>2, <1>3 DEF Opening!Opened
  <2>2. \A i \in Slots : ra'[i] = ra[i] \/ ra'[i] = [fd |-> d, pos |-> 0, base |-> 0, len |-> 0]
    BY <1>2, <1>3, SlotsGiven DEF FilesInv
  <2>3. \A i, j \in Slots : ra'[i] # ra[i] /\ ra'[j] # ra[j] => i = j
    BY <1>2, <1>3, SlotsGiven DEF FilesInv
  <2>4. ASSUME NEW e \in Fds, openFd'[e].file = None
        PROVE  openFd'[e] = Opening!Closed /\ ino'[e] = None /\ (Opening!SlotOf(e))' = {}
    <3>1. e # d
      BY <2>1, <2>4, <1>3
    <3>2. openFd'[e] = openFd[e] /\ ino'[e] = ino[e]
      BY <1>3, <2>1, <3>1
    <3>3. openFd[e] = Opening!Closed /\ ino[e] = None /\ Opening!SlotOf(e) = {}
      BY <2>4, <3>2 DEF FilesInv, DescriptorsSound
    <3>4. \A i \in Slots : ra'[i].fd # e
      BY <2>2, <3>1, <3>3 DEF Opening!SlotOf
    <3> QED BY <3>2, <3>3, <3>4 DEF Opening!SlotOf
  <2>5. ASSUME NEW e \in Fds, openFd'[e].user = None PROVE openFd'[e].file = None
    <3>1. e # d
      BY <2>1, <2>5, FileConstants
    <3>2. openFd'[e] = openFd[e]
      BY <2>1, <3>1
    <3> QED BY <2>5, <3>2 DEF FilesInv, DescriptorsSound
  <2>6. ASSUME NEW i \in Slots, NEW j \in Slots, ra'[i].fd \in Fds, ra'[i].fd = ra'[j].fd
        PROVE  i = j
    <3>1. CASE ra'[i] = ra[i] /\ ra'[j] = ra[j]
      BY <2>6, <3>1 DEF FilesInv, DescriptorsSound
    <3>2. CASE ra'[i] # ra[i] /\ ra'[j] # ra[j]
      BY <2>3, <3>2
    <3>3. \A k \in Slots : ra[k].fd # d
      BY <1>2 DEF Opening!SlotOf
    <3> QED BY <2>2, <2>6, <3>1, <3>2, <3>3
  <2> QED BY <2>4, <2>5, <2>6 DEF DescriptorsSound, Opening!Closed
<1>4. CASE /\ ino' = ino /\ openFd' = openFd /\ \A i \in Slots : ra'[i].fd = ra[i].fd
  BY <1>4 DEF FilesInv, DescriptorsSound, Opening!Closed, Opening!SlotOf
<1>5. CASE UNCHANGED openingVars
  BY <1>4, <1>5 DEF openingVars
<1>6. CASE Opening!OpenRead
  <2>1. PICK t \in Threads, p \in Paths, d \in Opening!LowestFree :
          /\ Opening!ReadsFrom(p) \in files /\ Opening!Opened(d, Opening!ReadsFrom(p), t)
          /\ Opening!InoSet(d, p) /\ Opening!Attach(d, Opening!ReadsFrom(p))
    BY <1>6 DEF Opening!OpenRead
  <2>2. Opening!ReadsFrom(p) # None
    BY <2>1, FilesKnown DEF FilesInv
  <2>3. \A e \in Fds \ {d} : ino'[e] = ino[e]
    BY <1>1, <2>1 DEF Opening!InoSet
  <2> QED BY <1>3, <2>1, <2>2, <2>3
<1>7. CASE Opening!OpenWrite
  <2>1. PICK t \in Threads, p \in Opening!Saves, d \in Opening!LowestFree :
          /\ UNCHANGED <<ra, lock, call>>
          /\ \/ UNCHANGED <<files, openFd, ino>>
             \/ (Opening!Opened(d, Opening!Full(p), t) /\ Opening!InoSet(d, p))
    BY <1>7 DEF Opening!OpenWrite
  <2>2. Opening!Full(p) # None
    BY FileConstants DEF Opening!Saves
  <2>3. CASE Opening!Opened(d, Opening!Full(p), t) /\ Opening!InoSet(d, p)
    <3>1. \A e \in Fds \ {d} : ino'[e] = ino[e]
      BY <1>1, <2>3 DEF Opening!InoSet
    <3> QED BY <1>3, <2>1, <2>2, <2>3, <3>1
  <2> QED BY <1>4, <2>1, <2>3
<1>8. CASE Opening!Fopen
  <2>1. PICK t \in Threads, p \in Paths, d \in Opening!LowestFree :
          /\ Opening!ReadsFrom(p) \in files /\ Opening!Opened(d, Opening!ReadsFrom(p), t)
          /\ UNCHANGED <<dirs, files, ino, ra, lock, call>>
    BY <1>8 DEF Opening!Fopen
  <2>2. Opening!ReadsFrom(p) # None
    BY <2>1, FilesKnown DEF FilesInv
  <2> QED BY <1>3, <2>1, <2>2
<1>9. CASE Opening!Close
  <2>1. PICK d \in Fds :
          /\ openFd' = [openFd EXCEPT ![d] = Opening!Closed]
          /\ ino' = Opening!InoClear(d) /\ ra' = Opening!Detached(d)
    BY <1>9 DEF Opening!Close
  <2>2. /\ ino'[d] = None /\ openFd'[d] = Opening!Closed
        /\ \A e \in Fds \ {d} : ino'[e] = ino[e] /\ openFd'[e] = openFd[e]
    BY <1>1, <2>1 DEF Opening!InoClear
  <2>3. \A i \in Slots : IF ra[i].fd = d THEN ra'[i].fd = -1 ELSE ra'[i] = ra[i]
    BY <1>1, <2>1 DEF Opening!Detached
  <2>4. Opening!Closed.file = None /\ -1 \notin Fds /\ (Opening!Closed)' = Opening!Closed
    BY FileConstants DEF Opening!Closed
  <2>5. ASSUME NEW e \in Fds, openFd'[e].file = None
        PROVE  openFd'[e] = Opening!Closed /\ ino'[e] = None /\ (Opening!SlotOf(e))' = {}
    <3>1. CASE e = d
      <4>1. \A i \in Slots : ra'[i].fd # d
        BY <2>3, <2>4
      <4> QED BY <3>1, <2>2, <4>1 DEF Opening!SlotOf
    <3>2. CASE e # d
      <4>1. openFd[e] = Opening!Closed /\ ino[e] = None /\ Opening!SlotOf(e) = {}
        BY <2>2, <2>5, <3>2 DEF FilesInv, DescriptorsSound
      <4>2. \A i \in Slots : ra'[i].fd # e
        BY <2>3, <2>4, <4>1, <3>2 DEF Opening!SlotOf
      <4> QED BY <2>2, <3>2, <4>1, <4>2 DEF Opening!SlotOf
    <3> QED BY <3>1, <3>2
  <2>6. \A e \in Fds : openFd'[e].user = None => openFd'[e].file = None
    BY <2>2, <2>4 DEF FilesInv, DescriptorsSound
  <2>7. \A i, j \in Slots : ra'[i].fd \in Fds /\ ra'[i].fd = ra'[j].fd => i = j
    BY <2>3, <2>4 DEF FilesInv, DescriptorsSound
  <2> QED BY <2>4, <2>5, <2>6, <2>7 DEF DescriptorsSound
<1>10. CASE Opening!ReadCall \/ Opening!PreadCall
  BY <1>4, <1>10 DEF Opening!ReadCall, Opening!PreadCall
<1>11. ASSUME /\ ino' = ino
              /\ \A d \in Fds : openFd'[d].file = openFd[d].file /\ openFd'[d].user = openFd[d].user
              /\ \A i \in Slots : ra'[i].fd = ra[i].fd
              /\ \A d \in Fds : openFd[d].file = None => openFd'[d] = openFd[d]
       PROVE  DescriptorsSound'
  <2>1. \A d \in Fds : (Opening!SlotOf(d))' = Opening!SlotOf(d)
    BY <1>11 DEF Opening!SlotOf
  <2> QED BY <1>11, <2>1 DEF FilesInv, DescriptorsSound, Opening!Closed
<1>12. ASSUME Opening!Lseek PROVE \A d \in Fds : openFd[d].file = None => openFd'[d] = openFd[d]
  <2>1. PICK t \in Threads, d \in Fds, to \in Offsets :
          /\ openFd[d].user = t
          /\ \/ openFd' = [openFd EXCEPT ![d].pos = to, ![d].want = to]
             \/ openFd' = [openFd EXCEPT ![d].want = to]
    BY <1>12 DEF Opening!Lseek
  <2>2. openFd[d].file # None
    BY <2>1, FileConstants DEF FilesInv, DescriptorsSound, Opening!Closed
  <2>3. \A e \in Fds \ {d} : openFd'[e] = openFd[e]
    BY <1>1, <2>1
  <2> QED BY <2>2, <2>3
<1>13. ASSUME NEW t \in Threads,
              \/ Opening!PreadSeek(t) \/ Opening!ReadSome(t) \/ Opening!Return(t)
              \/ Opening!RaLock(t)
              \/ Opening!RaFill(t) \/ Opening!RaCopy(t) \/ Opening!RaReturn(t) \/ Opening!Taken(t)
       PROVE  \A d \in Fds : openFd[d].file = None => openFd'[d] = openFd[d]
  <2>1. call[t].at # "idle"
    BY <1>13 DEF Opening!PreadSeek, Opening!ReadSome, Opening!Return, Opening!RaLock,
         Opening!RaFill, Opening!RaCopy, Opening!RaReturn, Opening!Taken
  <2>2. Opening!D(t) \in Fds /\ openFd[Opening!D(t)].user = t
    BY <2>1 DEF FilesInv, CallsSound, CallSound, CallOk, Opening!D
  <2>3. openFd[Opening!D(t)].file # None
    BY <2>2, FileConstants DEF FilesInv, DescriptorsSound, Opening!Closed
  <2>4. \A e \in Fds \ {Opening!D(t)} : openFd'[e] = openFd[e]
    BY <1>1, <1>13 DEF Opening!PreadSeek, Opening!ReadSome, Opening!Return, Opening!RaLock,
         Opening!RaFill, Opening!RaCopy, Opening!RaReturn, Opening!Taken
  <2> QED BY <2>3, <2>4
<1> QED BY <1>5, <1>6, <1>7, <1>8, <1>9, <1>10, <1>11, <1>12, <1>13, StepsKeep DEF Opening!Next

\* Whose descriptor it is, and what it says when that thread does not read it.
LEMMA ReadersApart ==
  ASSUME FilesInv, NEW t \in Threads, call[t].at # "idle"
  PROVE  /\ call[t].fd \in Fds /\ openFd[call[t].fd].user = t /\ openFd[call[t].fd].file # None
         /\ CallOk(t, call[t], openFd[call[t].fd], Opening!SlotOf(call[t].fd), ra)
<1>1. call[t].fd \in Fds /\ CallOk(t, call[t], openFd[call[t].fd], Opening!SlotOf(call[t].fd), ra)
  BY DEF FilesInv, CallsSound, CallSound
<1>2. openFd[call[t].fd].user = t
  BY <1>1 DEF CallOk
<1>3. openFd[call[t].fd].file # None
  BY <1>1, <1>2, FileConstants DEF FilesInv, DescriptorsSound, Opening!Closed
<1> QED BY <1>1, <1>2, <1>3

\* A descriptor that is open and that no thread uses is where it was left.
LEMMA Quiet ==
  ASSUME FilesInv, NEW t \in Threads, NEW d \in Fds, openFd[d].user = t
  PROVE  /\ openFd[d].file # None
         /\ Opening!SlotOf(d) = {} /\ ~ (call[t].fd = d /\ call[t].at = "read")
              => openFd[d].pos = openFd[d].want
         /\ ~ (call[t].fd = d /\ call[t].at = "window")
              => \A i \in Opening!SlotOf(d) : ra[i].pos = openFd[d].want
<1>1. openFd[d].file # None
  BY FileConstants DEF FilesInv, DescriptorsSound, Opening!Closed
<1>2. PositionSound(d)
  BY DEF FilesInv, PositionsSound
<1>3. \A u \in Threads : call[u].fd = d /\ call[u].at \in {"read", "window"} => u = t
  BY ReadersApart
<1> QED BY <1>1, <1>2, <1>3 DEF PositionSound

\* What a thread does with a descriptor of its own leaves the others alone.
LEMMA OthersKept ==
  ASSUME FilesInv, NEW t \in Threads, NEW d \in Fds, openFd[d].user \in {t, None},
         call[t].at = "idle" \/ call[t].fd = d,
         \A u \in Threads \ {t} : call'[u] = call[u],
         \A e \in Fds \ {d} : openFd'[e] = openFd[e],
         \A i \in Slots : ra[i].fd \in Fds \ {d} \/ ra'[i].fd \in Fds \ {d} => ra'[i] = ra[i]
  PROVE  /\ \A u \in Threads \ {t} : CallSound(u)'
         /\ \A e \in Fds \ {d} : PositionSound(e)'
<1>1. ASSUME NEW e \in Fds \ {d}
      PROVE  /\ (Opening!SlotOf(e))' = Opening!SlotOf(e)
             /\ \A i \in Opening!SlotOf(e) : i \in Slots /\ ra'[i] = ra[i]
  BY DEF Opening!SlotOf
<1>2. ASSUME NEW u \in Threads \ {t}
      PROVE  CallSound(u)'
  <2>1. CASE call[u].at = "idle"
    BY <2>1 DEF CallSound
  <2>2. CASE call[u].at # "idle"
    <3> DEFINE e == call[u].fd
    <3>1. e \in Fds /\ openFd[e].user = u /\ CallOk(u, call[u], openFd[e], Opening!SlotOf(e), ra)
      BY <2>2, ReadersApart
    <3>2. e # d
      BY <3>1, FileConstants
    <3>3. /\ call'[u] = call[u] /\ openFd'[e] = openFd[e]
          /\ (Opening!SlotOf(e))' = Opening!SlotOf(e)
          /\ \A i \in Opening!SlotOf(e) : ra'[i] = ra[i]
      BY <1>1, <3>1, <3>2
    <3>4. CallOk(u, call[u], openFd[e], Opening!SlotOf(e), ra')
      BY <3>1, <3>3 DEF CallOk
    <3>5. call'[u].fd = e
      BY <3>3
    <3>6. CallSound(u)' <=> (call'[u].at # "idle" =>
             e \in Fds /\ CallOk(u, call'[u], openFd'[e], (Opening!SlotOf(e))', ra'))
      BY <3>5 DEF CallSound, CallOk, Opening!SlotOf, Opening!Size, Opening!Bytes
    <3> HIDE DEF e
    <3> QED BY <3>1, <3>3, <3>4, <3>6
  <2> QED BY <2>1, <2>2
<1>3. ASSUME NEW e \in Fds \ {d}
      PROVE  PositionSound(e)'
  <2>1. \A u \in Threads : call[u].fd = e /\ call[u].at \in {"read", "window"} => u # t
    OBVIOUS
  <2>2. PositionSound(e) /\ openFd'[e] = openFd[e]
    BY DEF FilesInv, PositionsSound
  <2>3. \A i \in Opening!SlotOf(e) :
          ra'[i].pos = openFd'[e].want \/ openFd[e].file = None
            \/ \E u \in Threads : call'[u].fd = e /\ call'[u].at = "window"
    BY <1>1, <2>1, <2>2 DEF PositionSound
  <2>4. Opening!SlotOf(e) = {} => openFd'[e].pos = openFd'[e].want \/ openFd[e].file = None
            \/ \E u \in Threads : call'[u].fd = e /\ call'[u].at = "read"
    BY <2>1, <2>2 DEF PositionSound
  <2> QED BY <1>1, <2>2, <2>3, <2>4 DEF PositionSound
<1> QED BY <1>2, <1>3

\* A thread that opens or closes is in no call.
LEMMA OpenedSound ==
  ASSUME FilesInv, NEW t \in Threads, NEW d \in Fds, call[t].at = "idle", call' = call,
         openFd[d].user \in {t, None}, NEW f, \A e \in Fds \ {d} : openFd'[e] = openFd[e],
         openFd'[d] = [file |-> f, pos |-> 0, want |-> 0, user |-> t] \/ openFd'[d].file = None,
         \A i \in Slots : \/ ra'[i] = ra[i] /\ ra[i].fd # d
                          \/ ra'[i] = [fd |-> d, pos |-> 0, base |-> 0, len |-> 0] /\ ra[i].fd < 0
                          \/ ra[i].fd = d /\ ra'[i].fd = -1
  PROVE  CallsSound' /\ PositionsSound'
<1>1. \A i \in Slots : ra[i].fd \in Fds \ {d} \/ ra'[i].fd \in Fds \ {d} => ra'[i] = ra[i]
  BY FileConstants
<1>2. \A u \in Threads \ {t} : CallSound(u)'
  BY <1>1, OthersKept
<1>3. \A e \in Fds \ {d} : PositionSound(e)'
  BY <1>1, OthersKept
<1>4. CallSound(t)'
  BY DEF CallSound
<1>5. PositionSound(d)'
  <2>1. CASE openFd'[d] = [file |-> f, pos |-> 0, want |-> 0, user |-> t]
    <3>1. openFd'[d].pos = openFd'[d].want /\ openFd'[d].want = 0
      BY <2>1
    <3>2. Fds \subseteq Nat
      BY FileConstants
    <3>3. \A i \in Slots : ra'[i].fd = d => ra'[i].pos = 0
      BY <3>2
    <3> QED BY <3>1, <3>3 DEF PositionSound, Opening!SlotOf
  <2>2. CASE openFd'[d].file = None
    BY <2>2 DEF PositionSound
  <2> QED BY <2>1, <2>2
<1> QED BY <1>2, <1>3, <1>4, <1>5 DEF CallsSound, PositionsSound

\* A thread that goes on with its call, or begins one, on its own descriptor.
LEMMA MovesSound ==
  ASSUME FilesInv, NEW t \in Threads, NEW d \in Fds, openFd[d].user = t,
         call[t].at = "idle" \/ call[t].fd = d,
         \A u \in Threads \ {t} : call'[u] = call[u],
         \A e \in Fds \ {d} : openFd'[e] = openFd[e],
         \A i \in Slots : ra'[i].fd = ra[i].fd /\ (ra[i].fd = d \/ ra'[i] = ra[i]),
         CallSound(t)', PositionSound(d)'
  PROVE  CallsSound' /\ PositionsSound'
<1>1. \A i \in Slots : ra[i].fd \in Fds \ {d} \/ ra'[i].fd \in Fds \ {d} => ra'[i] = ra[i]
  OBVIOUS
<1>2. \A u \in Threads \ {t} : CallSound(u)'
  BY <1>1, OthersKept
<1>3. \A e \in Fds \ {d} : PositionSound(e)'
  BY <1>1, OthersKept
<1> QED BY <1>2, <1>3 DEF CallsSound, PositionsSound

\* The call of a thread and the place of its descriptor, told by what they are.
LEMMA OwnCall ==
  ASSUME NEW t \in Threads, NEW d \in Fds, NEW c, NEW f, NEW S, NEW r,
         call'[t] = c, c.fd = d, openFd'[d] = f, (Opening!SlotOf(d))' = S, ra' = r,
         CallOk(t, c, f, S, r)
  PROVE  CallSound(t)'
<1>1. CallSound(t)' <=> (call'[t].at # "idle" => call'[t].fd \in Fds /\
        CallOk(t, call'[t], openFd'[call'[t].fd], {i \in Slots : ra'[i].fd = call'[t].fd}, ra'))
  BY DEF CallSound, CallOk, Opening!SlotOf, Opening!Size, Opening!Bytes
<1>2. call'[t].fd = d
  OBVIOUS
<1>3. {i \in Slots : ra'[i].fd = call'[t].fd} = S
  BY <1>2 DEF Opening!SlotOf
<1> QED BY <1>1, <1>2, <1>3

\* A call that ends leaves its descriptor where the next one begins.
LEMMA OwnPosition ==
  ASSUME NEW d \in Fds, NEW S, (Opening!SlotOf(d))' = S,
         S = {} => \/ openFd'[d].pos = openFd'[d].want
                   \/ \E t \in Threads : call'[t].fd = d /\ call'[t].at = "read",
         \A i \in S : \/ ra'[i].pos = openFd'[d].want
                      \/ \E t \in Threads : call'[t].fd = d /\ call'[t].at = "window"
  PROVE  PositionSound(d)'
BY DEF PositionSound

\* A step that opens or closes a descriptor keeps the calls and positions sound.
LEMMA OpensSound ==
  ASSUME FilesInv, Opening!OpenRead \/ Opening!OpenWrite \/ Opening!Fopen \/ Opening!Close
  PROVE  CallsSound' /\ PositionsSound'
<1>1. openFd \in [Fds -> Descriptor]
  BY DEF FilesInv, FileTypes, Descriptor
<1>2. ASSUME NEW d \in Opening!LowestFree
      PROVE  d \in Fds /\ openFd[d].user = None /\ \A i \in Slots : ra[i].fd # d
  BY DEF FilesInv, DescriptorsSound, Opening!LowestFree, Opening!Closed, Opening!SlotOf
<1>3. \A t : Opening!MayOpen(t) \/ call[t] = Opening!Idle => call[t].at = "idle"
  BY DEF Opening!MayOpen, Opening!Idle
<1>4. ASSUME NEW t \in Threads, NEW d \in Opening!LowestFree, NEW f, Opening!MayOpen(t),
             Opening!Opened(d, f, t), call' = call, UNCHANGED ra
      PROVE  CallsSound' /\ PositionsSound'
  <2>1. /\ openFd'[d] = [file |-> f, pos |-> 0, want |-> 0, user |-> t]
        /\ \A e \in Fds \ {d} : openFd'[e] = openFd[e]
    BY <1>1, <1>2, <1>4 DEF Opening!Opened
  <2>2. \A i \in Slots :
          \/ ra'[i] = ra[i] /\ ra[i].fd # d
          \/ ra'[i] = [fd |-> d, pos |-> 0, base |-> 0, len |-> 0] /\ ra[i].fd < 0
          \/ ra[i].fd = d /\ ra'[i].fd = -1
    BY <1>2, <1>4
  <2>3. d \in Fds /\ openFd[d].user \in {t, None} /\ call[t].at = "idle" /\ call' = call
    BY <1>2, <1>3, <1>4
  <2> QED BY <2>1, <2>2, <2>3, OpenedSound
<1>5. ASSUME NEW t \in Threads, NEW d \in Opening!LowestFree, NEW f, Opening!MayOpen(t),
             Opening!Opened(d, f, t), call' = call, Opening!Attach(d, f)
      PROVE  CallsSound' /\ PositionsSound'
  <2>1. /\ openFd'[d] = [file |-> f, pos |-> 0, want |-> 0, user |-> t]
        /\ \A e \in Fds \ {d} : openFd'[e] = openFd[e]
    BY <1>1, <1>2, <1>5 DEF Opening!Opened
  <2>2. \A i \in Slots : \/ ra'[i] = ra[i] /\ ra[i].fd # d
                         \/ ra'[i] = [fd |-> d, pos |-> 0, base |-> 0, len |-> 0] /\ ra[i].fd < 0
    BY <1>2, <1>5 DEF Opening!Attach, Opening!RaFree
  <2>3. d \in Fds /\ openFd[d].user \in {t, None} /\ call[t].at = "idle"
    BY <1>2, <1>3, <1>5
  <2> QED BY <1>5, <2>1, <2>2, <2>3, OpenedSound
<1>6. CASE Opening!OpenRead
  BY <1>5, <1>6 DEF Opening!OpenRead
<1>7. CASE Opening!OpenWrite
  <2>1. PICK t \in Threads, p \in Opening!Saves, d \in Opening!LowestFree :
          /\ Opening!MayOpen(t) /\ UNCHANGED <<ra, lock, call>>
          /\ UNCHANGED openFd \/ Opening!Opened(d, Opening!Full(p), t)
    BY <1>7 DEF Opening!OpenWrite
  <2>2. CASE UNCHANGED openFd
    BY <2>1, <2>2 DEF FilesInv, CallsSound, PositionsSound, CallSound, PositionSound, CallOk,
       Opening!SlotOf, Opening!Bytes, Opening!Size
  <2> QED BY <1>4, <2>1, <2>2
<1>8. CASE Opening!Fopen
  BY <1>4, <1>8 DEF Opening!Fopen
<1>9. CASE Opening!Close
  <2>1. PICK t \in Threads, d \in Fds :
          /\ call[t] = Opening!Idle /\ openFd[d].user = t
          /\ openFd' = [openFd EXCEPT ![d] = Opening!Closed]
          /\ ra' = Opening!Detached(d) /\ UNCHANGED call
    BY <1>9 DEF Opening!Close
  <2>2. openFd'[d].file = None /\ \A e \in Fds \ {d} : openFd'[e] = openFd[e]
    BY <1>1, <2>1 DEF Opening!Closed
  <2>3. \A i \in Slots : \/ ra'[i] = ra[i] /\ ra[i].fd # d
                         \/ ra[i].fd = d /\ ra'[i].fd = -1
    BY <2>1 DEF Opening!Detached, FilesInv, FileTypes
  <2> QED BY <1>3, <2>1, <2>2, <2>3, OpenedSound
<1> QED BY <1>6, <1>7, <1>8, <1>9

\* The slots of a descriptor stay its own through a read or a seek.
LEMMA SlotsStay ==
  ASSUME \A i \in Slots : ra'[i].fd = ra[i].fd
  PROVE  \A d \in Fds : (Opening!SlotOf(d))' = Opening!SlotOf(d)
BY DEF Opening!SlotOf

\* So does a thread that begins to read.
LEMMA BeginsSound ==
  ASSUME FilesInv, NEW t \in Threads, NEW d \in Fds, NEW op \in {"read", "pread"}, NEW n \in Nat,
         NEW off \in Nat, call[t].at = "idle", openFd[d].user = t, Opening!Call(t, op, d, n, off),
         op = "read" => off = openFd[d].want, UNCHANGED <<openFd, ra>>
  PROVE  CallsSound' /\ PositionsSound'
<1> DEFINE S == Opening!SlotOf(d)
           slot == IF S = {} THEN 0 ELSE CHOOSE i \in S : TRUE
           at0 == IF op = "pread" THEN "seek" ELSE IF S = {} THEN "read" ELSE "lock"
           c == [op |-> op, fd |-> d, n |-> n, off |-> off, got |-> <<>>, slot |-> slot, at |-> at0]
<1>1. call' = [call EXCEPT ![t] = c]
  BY DEF Opening!Call
<1>2. S # {} => slot \in S
  OBVIOUS
<1> HIDE DEF slot
<1>3. call \in [Threads -> CallType]
  BY DEF FilesInv, FileTypes, CallType, GameFiles
<1>4. call'[t] = c /\ \A u \in Threads \ {t} : call'[u] = call[u]
  BY <1>1, <1>3
<1>5. /\ S = {} => openFd[d].pos = openFd[d].want
      /\ \A i \in S : ra[i].pos = openFd[d].want
  BY Quiet
<1>6. CallOk(t, c, openFd[d], S, ra)
  <2>1. Opening!Bytes(openFd[d].file, off, 0) = <<>> /\ Len(<<>>) = 0
    BY DEF Opening!Bytes
  <2>2. /\ c.op = op /\ c.fd = d /\ c.n = n /\ c.off = off /\ c.got = <<>> /\ c.slot = slot
        /\ c.at = at0
    OBVIOUS
  <2>3. /\ op = "pread" => at0 = "seek"
        /\ op = "read" => at0 = IF S = {} THEN "read" ELSE "lock"
    OBVIOUS
  <2> HIDE DEF c, at0, S
  <2>4. \/ op = "pread" /\ c.at = "seek"
        \/ op = "read" /\ S = {} /\ c.at = "read"
        \/ op = "read" /\ S # {} /\ c.at = "lock"
    BY <2>2, <2>3
  <2>5. Len(c.got) = 0
    BY <2>1, <2>2
  <2> QED BY <1>2, <1>5, <2>1, <2>2, <2>4, <2>5 DEF CallOk
<1>7. (Opening!SlotOf(d))' = S
  BY DEF Opening!SlotOf
<1> HIDE DEF S, at0
<1>8. CallSound(t)'
  BY <1>4, <1>6, <1>7, OwnCall
<1>9. PositionSound(d)'
  BY <1>5, <1>7, OwnPosition
<1> HIDE DEF c
<1> QED BY <1>4, <1>8, <1>9, MovesSound

\* So does lseek, in the file or in the slot that stands for it.
LEMMA SeeksSound ==
  ASSUME FilesInv, Opening!Lseek
  PROVE  CallsSound' /\ PositionsSound'
<1>1. /\ openFd \in [Fds -> Descriptor]
      /\ ra \in [Slots -> [fd : Int, pos : Nat, base : Nat, len : 0..Win]]
  BY DEF FilesInv, FileTypes, Descriptor
<1>2. PICK t \in Threads, d \in Fds, to \in Offsets :
        /\ call[t] = Opening!Idle /\ openFd[d].user = t /\ UNCHANGED call
        /\ IF Opening!SlotOf(d) = {}
           THEN openFd' = [openFd EXCEPT ![d].pos = to, ![d].want = to] /\ UNCHANGED ra
           ELSE /\ openFd' = [openFd EXCEPT ![d].want = to]
                /\ ra' = [i \in Slots |-> IF i \in Opening!SlotOf(d) THEN [ra[i] EXCEPT !.pos = to]
                                                                    ELSE ra[i]]
  BY DEF Opening!Lseek
<1>3. call[t].at = "idle"
  BY <1>2 DEF Opening!Idle
<1>4. \A e \in Fds \ {d} : openFd'[e] = openFd[e]
  BY <1>1, <1>2
<1>5. \A i \in Slots : ra'[i].fd = ra[i].fd /\ (ra[i].fd = d \/ ra'[i] = ra[i])
  BY <1>1, <1>2 DEF Opening!SlotOf
<1>6. (Opening!SlotOf(d))' = Opening!SlotOf(d)
  BY <1>5, SlotsStay
<1>7. CallSound(t)'
  BY <1>2, <1>3 DEF CallSound
<1>8. Opening!SlotOf(d) = {} => openFd'[d].pos = openFd'[d].want
  BY <1>1, <1>2 DEF Descriptor
<1>9. \A i \in Opening!SlotOf(d) : ra'[i].pos = openFd'[d].want
  BY <1>1, <1>2 DEF Descriptor, Opening!SlotOf
<1>10. PositionSound(d)'
  BY <1>6, <1>8, <1>9, OwnPosition
<1> QED BY <1>2, <1>3, <1>4, <1>5, <1>7, <1>10, MovesSound

\* So do a seek and a read of the file itself, and the return of the call.
LEMMA ReadsSound ==
  ASSUME FilesInv, NEW t \in Threads,
         Opening!PreadSeek(t) \/ Opening!ReadSome(t) \/ Opening!Return(t)
  PROVE  CallsSound' /\ PositionsSound'
<1>1. PICK d : d = Opening!D(t)
  OBVIOUS
<1> DEFINE f == openFd[d]
           c == call[t]
           S == Opening!SlotOf(d)
<1>2. /\ openFd \in [Fds -> Descriptor] /\ call \in [Threads -> CallType]
      /\ ra \in [Slots -> [fd : Int, pos : Nat, base : Nat, len : 0..Win]]
  BY DEF FilesInv, FileTypes, Descriptor, CallType, GameFiles
<1>3. c.at # "idle" /\ d = call[t].fd /\ UNCHANGED ra
  BY <1>1 DEF Opening!PreadSeek, Opening!ReadSome, Opening!Return, Opening!D
<1>4. d \in Fds /\ f.user = t /\ CallOk(t, c, f, S, ra)
  BY <1>3, ReadersApart
<1>5. f \in Descriptor /\ c \in CallType
  BY <1>2, <1>4
<1>6. Len(c.got) \in Nat /\ c.n \in Nat /\ c.off \in Nat /\ Opening!Size(f.file) \in Nat
  BY FilesKnown DEF FilesInv
<1>7. (Opening!SlotOf(d))' = S
  BY <1>3 DEF Opening!SlotOf
<1>8. /\ S = {} /\ c.at # "read" => f.pos = f.want
      /\ c.at # "window" => \A i \in S : ra[i].pos = f.want
  BY <1>4, Quiet
<1> HIDE DEF S
<1>9. ASSUME NEW c1, NEW f1, call' = [call EXCEPT ![t] = c1], openFd' = [openFd EXCEPT ![d] = f1],
             c1.fd = d, CallOk(t, c1, f1, S, ra),
             S = {} => f1.pos = f1.want \/ c1.at = "read",
             \A i \in S : ra[i].pos = f1.want
      PROVE  CallsSound' /\ PositionsSound'
  <2>1. call'[t] = c1 /\ \A u \in Threads \ {t} : call'[u] = call[u]
    BY <1>2, <1>9
  <2>2. openFd'[d] = f1 /\ \A e \in Fds \ {d} : openFd'[e] = openFd[e]
    BY <1>2, <1>4, <1>9
  <2>3. CallSound(t)'
    BY <1>3, <1>4, <1>7, <1>9, <2>1, <2>2, OwnCall
  <2>4. PositionSound(d)'
    BY <1>3, <1>4, <1>7, <1>9, <2>1, <2>2, OwnPosition
  <2> QED BY <1>3, <1>4, <2>1, <2>2, <2>3, <2>4, MovesSound
<1>10. CASE Opening!PreadSeek(t)
  <2> DEFINE c1 == [c EXCEPT !.slot = f.pos, !.at = "read"]
             f1 == [f EXCEPT !.pos = c.off]
  <2>1. call' = [call EXCEPT ![t] = c1] /\ openFd' = [openFd EXCEPT ![d] = f1] /\ c.at = "seek"
    BY <1>1, <1>2, <1>4, <1>10 DEF Opening!PreadSeek
  <2>2. /\ c1.op = c.op /\ c1.fd = d /\ c1.n = c.n /\ c1.off = c.off /\ c1.got = c.got
        /\ c1.slot = f.pos /\ c1.at = "read"
    BY <1>3, <1>5 DEF CallType
  <2>3. f1.file = f.file /\ f1.pos = c.off /\ f1.want = f.want /\ f1.user = f.user
    BY <1>5 DEF Descriptor
  <2> HIDE DEF c1, f1, f, c
  <2>4. c.op = "pread" /\ c.got = <<>>
    BY <1>4, <2>1 DEF CallOk
  <2>5. Len(c.got) = 0
    BY <2>4
  <2>6. c1.got = Opening!Bytes(f1.file, c1.off, Len(c1.got))
    BY <1>4, <2>2, <2>3 DEF CallOk
  <2>7. CallOk(t, c1, f1, S, ra)
    BY <1>4, <1>6, <1>8, <2>1, <2>2, <2>3, <2>4, <2>5, <2>6 DEF CallOk
  <2>8. \A i \in S : ra[i].pos = f1.want
    BY <1>8, <2>1, <2>3
  <2> QED BY <1>9, <2>1, <2>2, <2>7, <2>8
<1>11. CASE Opening!ReadSome(t)
  <2>1. PICK k \in 1..(IF Opening!Size(openFd[d].file) - openFd[d].pos < Opening!Left(t)
                       THEN Opening!Size(openFd[d].file) - openFd[d].pos ELSE Opening!Left(t)) :
          /\ call' = [call EXCEPT ![t].got = @ \o Opening!Bytes(openFd[d].file, openFd[d].pos, k)]
          /\ openFd' = [openFd EXCEPT ![d].pos = @ + k] /\ c.at = "read"
    BY <1>1, <1>11 DEF Opening!ReadSome
  <2> DEFINE b == Opening!Bytes(f.file, f.pos, k)
             g == c.got \o b
             c1 == [c EXCEPT !.got = g]
             p == f.pos + k
             f1 == [f EXCEPT !.pos = p]
  <2>2. call' = [call EXCEPT ![t] = c1]
    BY <1>2, <2>1
  <2>3. openFd' = [openFd EXCEPT ![d] = f1]
    BY <1>2, <1>4, <2>1
  <2>4. k \in Nat /\ k <= Opening!Left(t) /\ Opening!Left(t) = c.n - Len(c.got)
    <3>1. Opening!Left(t) = c.n - Len(c.got)
      BY DEF Opening!Left
    <3>2. f.pos \in Nat
      BY <1>5 DEF Descriptor
    <3> QED BY <3>1, <3>2, <1>6
  <2>5. f.pos = c.off + Len(c.got) /\ c.got = Opening!Bytes(f.file, c.off, Len(c.got))
    BY <1>4, <2>1 DEF CallOk
  <2>6. b = Opening!Bytes(f.file, c.off + Len(c.got), k)
    BY <2>5
  <2> HIDE DEF b
  <2>7. g = Opening!Bytes(f.file, c.off, Len(c.got) + k)
    <3> DEFINE m == Len(c.got)
    <3>1. m \in Nat /\ c.off \in Nat
      BY <1>6
    <3>2. c.got = Opening!Bytes(f.file, c.off, m) /\ b = Opening!Bytes(f.file, c.off + m, k)
      BY <2>5, <2>6
    <3> HIDE DEF m, f, c
    <3>3. \A o, n \in Nat : Opening!Bytes(f.file, o, n) \o Opening!Bytes(f.file, o + n, k)
                            = Opening!Bytes(f.file, o, n + k)
      BY <2>4, BytesOn
    <3>4. Opening!Bytes(f.file, c.off, m) \o Opening!Bytes(f.file, c.off + m, k)
            = Opening!Bytes(f.file, c.off, m + k)
      BY <3>1, <3>3
    <3> QED BY <3>2, <3>4 DEF m
  <2>8. Len(g) = Len(c.got) + k
    <3>1. Len(c.got) + k \in Nat
      BY <1>6, <2>4
    <3> HIDE DEF g
    <3> QED BY <3>1, <1>6, <2>7, BytesOf
  <2> HIDE DEF g, p
  <2>9. /\ c1.op = c.op /\ c1.fd = d /\ c1.n = c.n /\ c1.off = c.off /\ c1.got = g
        /\ c1.slot = c.slot /\ c1.at = c.at
    BY <1>3, <1>5 DEF CallType
  <2>10. f1.file = f.file /\ f1.pos = p /\ f1.want = f.want /\ f1.user = f.user
    BY <1>5 DEF Descriptor
  <2> HIDE DEF c1, f1, f, c
  <2>11. p = c1.off + Len(c1.got) /\ Len(c1.got) <= c1.n
    <3>1. c1.off = c.off /\ c1.n = c.n /\ Len(c1.got) = Len(c.got) + k
      BY <2>8, <2>9
    <3>2. p = (c.off + Len(c.got)) + k
      BY <2>5 DEF p
    <3> QED BY <1>6, <2>4, <3>1, <3>2
  <2>12. c1.got = Opening!Bytes(f1.file, c1.off, Len(c1.got))
    BY <2>7, <2>8, <2>9, <2>10
  <2>13. CallOk(t, c1, f1, S, ra)
    BY <1>4, <2>1, <2>9, <2>10, <2>11, <2>12 DEF CallOk, f, c
  <2>14. \A i \in S : ra[i].pos = f1.want
    BY <1>8, <2>1, <2>10
  <2>15. c1.at = "read" /\ c1.fd = d
    BY <2>1, <2>9
  <2> QED BY <1>9, <2>2, <2>3, <2>13, <2>14, <2>15
<1>12. CASE Opening!Return(t)
  <2> DEFINE p == Opening!Restored(t)
             w == IF c.op = "read" THEN f.want + Len(c.got) ELSE f.want
             c1 == [c EXCEPT !.at = "done"]
             f1 == [f EXCEPT !.pos = p, !.want = w]
  <2>1. call' = [call EXCEPT ![t] = c1]
    BY <1>2, <1>12 DEF Opening!Return
  <2>2. openFd' = [openFd EXCEPT ![d].pos = p,
                     ![d].want = IF call[t].op = "read" THEN @ + Len(call[t].got) ELSE @]
    BY <1>1, <1>12 DEF Opening!Return
  <2>3. openFd' = [openFd EXCEPT ![d] = f1]
    <3> HIDE DEF p
    <3> QED BY <1>2, <1>4, <2>2 DEF Descriptor
  <2>4. c.at = "read" /\ (c.n - Len(c.got) = 0 \/ f.pos >= Opening!Size(f.file))
    BY <1>1, <1>12 DEF Opening!Return, Opening!Left, Opening!AtEnd
  <2>5. p = IF c.op = "pread" THEN c.slot ELSE f.pos
    BY <1>1 DEF Opening!Restored
  <2> HIDE DEF p, w
  <2>6. /\ c1.op = c.op /\ c1.fd = d /\ c1.n = c.n /\ c1.off = c.off /\ c1.got = c.got
        /\ c1.slot = c.slot /\ c1.at = "done"
    BY <1>3, <1>5 DEF CallType
  <2>7. f1.file = f.file /\ f1.pos = p /\ f1.want = w /\ f1.user = f.user
    BY <1>5 DEF Descriptor
  <2> HIDE DEF c1, f1, f, c
  <2>8. f.pos = c.off + Len(c.got)
    BY <1>4, <2>4 DEF CallOk
  <2>9. Len(c.got) = c.n \/ c.off + Len(c.got) >= Opening!Size(f.file)
    BY <1>6, <2>4, <2>8 DEF f, c
  <2>10. CallOk(t, c1, f1, S, ra)
    BY <1>4, <2>6, <2>7, <2>9 DEF CallOk
  <2>11. CASE c.op = "read"
    <3>1. S = {} /\ c.off = f.want
      BY <1>4, <2>4, <2>11 DEF CallOk
    <3>2. p = w
      BY <2>5, <2>8, <2>11, <3>1 DEF w
    <3> QED BY <1>9, <2>1, <2>3, <2>6, <2>7, <2>10, <3>1, <3>2
  <2>12. CASE c.op = "pread"
    <3>1. w = f.want /\ (S = {} => p = f.want)
      BY <1>4, <2>4, <2>5, <2>12 DEF CallOk, w
    <3>2. \A i \in S : ra[i].pos = f1.want
      BY <1>8, <2>4, <2>7, <3>1
    <3> QED BY <1>9, <2>1, <2>3, <2>6, <2>7, <2>10, <3>1, <3>2
  <2> QED BY <1>4, <2>11, <2>12 DEF CallOk
<1> QED BY <1>10, <1>11, <1>12

\* So does a read through the window of a slot, which is filled when it has
\* nothing for the position.
LEMMA WindowsSound ==
  ASSUME FilesInv, NEW t \in Threads,
         \/ Opening!RaLock(t) \/ Opening!RaFill(t) \/ Opening!RaCopy(t) \/ Opening!RaReturn(t)
         \/ Opening!Taken(t)
  PROVE  CallsSound' /\ PositionsSound'
<1>1. PICK d : d = Opening!D(t)
  OBVIOUS
<1> DEFINE f == openFd[d]
           c == call[t]
           S == Opening!SlotOf(d)
           s == call[t].slot
<1>2. /\ openFd \in [Fds -> Descriptor] /\ call \in [Threads -> CallType]
      /\ ra \in [Slots -> [fd : Int, pos : Nat, base : Nat, len : 0..Win]]
  BY DEF FilesInv, FileTypes, Descriptor, CallType, GameFiles
<1>3. c.at # "idle" /\ d = call[t].fd
  BY <1>1 DEF Opening!RaLock, Opening!RaFill, Opening!RaCopy, Opening!RaReturn,
     Opening!Taken, Opening!D
<1>4. d \in Fds /\ f.user = t /\ CallOk(t, c, f, S, ra)
  BY <1>3, ReadersApart
<1>5. f \in Descriptor /\ c \in CallType
  BY <1>2, <1>4
<1>6. Len(c.got) \in Nat /\ c.n \in Nat /\ c.off \in Nat /\ Opening!Size(f.file) \in Nat
  BY FilesKnown DEF FilesInv
<1>7. \A i \in Slots : ra'[i].fd = ra[i].fd
  BY StepsKeep
<1>8. (Opening!SlotOf(d))' = S
  BY <1>7 DEF Opening!SlotOf
<1>9. /\ S = {} /\ c.at # "read" => f.pos = f.want
      /\ c.at # "window" => \A i \in S : ra[i].pos = f.want
  BY <1>4, Quiet
<1>10. \A i \in S : i \in Slots /\ ra[i].fd = d /\ \A j \in S : i = j
  BY <1>4 DEF Opening!SlotOf, FilesInv, DescriptorsSound
<1> HIDE DEF S
<1>11. ASSUME NEW c1, NEW f1, call' = [call EXCEPT ![t] = c1], openFd' = [openFd EXCEPT ![d] = f1],
              c1.at = "idle" \/ (c1.fd = d /\ CallOk(t, c1, f1, S, ra')),
              S = {} => f1.pos = f1.want,
              (c1.at = "window" /\ c1.fd = d) \/ \A i \in S : ra'[i].pos = f1.want,
              \A i \in Slots : i \in S \/ ra'[i] = ra[i]
       PROVE  CallsSound' /\ PositionsSound'
  <2>1. call'[t] = c1 /\ \A u \in Threads \ {t} : call'[u] = call[u]
    BY <1>2, <1>11
  <2>2. openFd'[d] = f1 /\ \A e \in Fds \ {d} : openFd'[e] = openFd[e]
    BY <1>2, <1>4, <1>11
  <2>3. CallSound(t)'
    <3>1. CASE c1.at = "idle"
      BY <2>1, <3>1 DEF CallSound
    <3>2. CASE c1.fd = d /\ CallOk(t, c1, f1, S, ra')
      BY <1>4, <1>8, <2>1, <2>2, <3>2, OwnCall
    <3> QED BY <1>11, <3>1, <3>2
  <2>4. PositionSound(d)'
    BY <1>4, <1>8, <1>11, <2>1, <2>2, OwnPosition
  <2>5. \A i \in Slots : ra[i].fd = d \/ ra'[i] = ra[i]
    BY <1>10, <1>11
  <2> QED BY <1>3, <1>4, <1>7, <2>1, <2>2, <2>3, <2>4, <2>5, MovesSound
<1>12. CASE Opening!RaLock(t)
  <2> DEFINE c1 == [c EXCEPT !.at = "window"]
  <2>1. /\ call' = [call EXCEPT ![t] = c1] /\ openFd' = [openFd EXCEPT ![d] = f] /\ ra' = ra
        /\ c.at = "lock"
    BY <1>2, <1>4, <1>12 DEF Opening!RaLock
  <2>2. /\ c1.op = c.op /\ c1.fd = d /\ c1.n = c.n /\ c1.off = c.off /\ c1.got = c.got
        /\ c1.slot = c.slot /\ c1.at = "window"
    BY <1>3, <1>5 DEF CallType
  <2>3. c.slot \in S /\ c.op = "read" /\ c.got = <<>> /\ c.off = f.want
    BY <1>4, <2>1 DEF CallOk
  <2>4. ra[c.slot].pos = c.off + Len(c.got)
    <3>1. ra[c.slot].pos = c.off
      BY <1>9, <2>1, <2>3
    <3>2. Len(c.got) = 0
      BY <2>3
    <3> QED BY <3>1, <3>2, <1>6
  <2> HIDE DEF c1, f, c
  <2>5. CallOk(t, c1, f, S, ra)
    BY <1>4, <2>2, <2>3, <2>4 DEF CallOk
  <2>6. ~ (S = {})
    BY <2>3
  <2> QED BY <1>11, <2>1, <2>2, <2>5, <2>6
<1>13. ASSUME c.at = "window"
       PROVE  /\ s \in S /\ s \in Slots /\ S # {} /\ c.op = "read" /\ c.off = f.want
              /\ ra[s].pos = c.off + Len(c.got)
              /\ ra[s] \in [fd : Int, pos : Nat, base : Nat, len : 0..Win]
  <2>1. s \in S /\ c.op = "read" /\ c.off = f.want /\ ra[s].pos = c.off + Len(c.got)
    BY <1>4, <1>13 DEF CallOk
  <2> QED BY <1>2, <1>10, <2>1
<1>14. CASE Opening!RaFill(t)
  <2>1. PICK b, n, p :
          /\ ra' = [ra EXCEPT ![s].base = b, ![s].len = n]
          /\ openFd' = [openFd EXCEPT ![d].pos = p] /\ call' = call /\ c.at = "window"
    BY <1>1, <1>14 DEF Opening!RaFill
  <2> DEFINE f1 == [f EXCEPT !.pos = p]
  <2>2. openFd' = [openFd EXCEPT ![d] = f1] /\ call' = [call EXCEPT ![t] = c]
    BY <1>2, <1>4, <2>1
  <2>3. f1.file = f.file /\ f1.want = f.want /\ f1.user = f.user
    BY <1>5 DEF Descriptor
  <2>4. /\ \A i \in Slots : ra'[i].pos = ra[i].pos /\ (i = s \/ ra'[i] = ra[i])
    BY <1>2, <1>13, <2>1
  <2>5. \A i \in Slots : i \in S \/ ra'[i] = ra[i]
    BY <1>13, <2>1, <2>4
  <2> HIDE DEF f1, f, c
  <2>6. CallOk(t, c, f1, S, ra')
    <3>1. c.slot = s /\ ra'[s].pos = ra[s].pos
      BY <1>13, <2>1, <2>4 DEF c
    <3> QED BY <1>4, <1>13, <2>1, <2>3, <3>1 DEF CallOk
  <2>7. c.fd = d
    BY <1>3 DEF c
  <2> QED BY <1>11, <1>13, <2>1, <2>2, <2>5, <2>6, <2>7
<1>15. CASE Opening!RaCopy(t)
  <2> DEFINE avail == ra[s].base + ra[s].len - ra[s].pos
             n == IF Opening!Left(t) < avail THEN Opening!Left(t) ELSE avail
             b == Opening!Bytes(f.file, ra[s].pos, n)
             g == c.got \o b
             c1 == [c EXCEPT !.got = g]
  <2>1. /\ call' = [call EXCEPT ![t].got = @ \o Opening!Bytes(openFd[d].file, ra[s].pos, n)]
        /\ ra' = [ra EXCEPT ![s].pos = @ + n] /\ c.at = "window" /\ openFd' = openFd
        /\ ~ Opening!Outside(ra[s]) /\ Opening!Left(t) > 0
    BY <1>1, <1>15 DEF Opening!RaCopy, Opening!C
  <2>2. call' = [call EXCEPT ![t] = c1] /\ openFd' = [openFd EXCEPT ![d] = f]
    BY <1>2, <1>4, <2>1
  <2>3. Opening!Left(t) = c.n - Len(c.got)
    BY DEF Opening!Left
  <2>4. n \in Nat /\ n <= c.n - Len(c.got)
    <3>1. Opening!Left(t) \in Int
      BY <2>3, <1>6
    <3>2. /\ ra[s].base \in Nat /\ ra[s].len \in Nat /\ ra[s].pos \in Nat
          /\ ra[s].pos < ra[s].base + ra[s].len
      <4>1. PICK r : r = ra[s]
        OBVIOUS
      <4>2. r \in [fd : Int, pos : Nat, base : Nat, len : 0..Win] /\ ~ Opening!Outside(r)
        BY <1>13, <2>1, <4>1
      <4>3. r.base \in Nat /\ r.len \in Nat /\ r.pos \in Nat
        BY <4>2, FileConstants
      <4>4. r.pos < r.base + r.len
        BY <4>2, <4>3 DEF Opening!Outside
      <4> QED BY <4>1, <4>3, <4>4
    <3>3. avail \in Nat
      BY <3>2
    <3> HIDE DEF avail
    <3> QED BY <2>1, <2>3, <3>1, <3>3
  <2> HIDE DEF n, avail
  <2>5. c.got = Opening!Bytes(f.file, c.off, Len(c.got)) /\ ra[s].pos = c.off + Len(c.got)
    BY <1>4, <1>13, <2>1 DEF CallOk
  <2>6. b = Opening!Bytes(f.file, c.off + Len(c.got), n)
    BY <2>5
  <2> HIDE DEF b
  <2>7. g = Opening!Bytes(f.file, c.off, Len(c.got) + n)
    <3> DEFINE m == Len(c.got)
    <3>1. m \in Nat /\ c.off \in Nat
      BY <1>6
    <3>2. c.got = Opening!Bytes(f.file, c.off, m) /\ b = Opening!Bytes(f.file, c.off + m, n)
      BY <2>5, <2>6
    <3> HIDE DEF m, f, c
    <3>3. \A o, k \in Nat : Opening!Bytes(f.file, o, k) \o Opening!Bytes(f.file, o + k, n)
                            = Opening!Bytes(f.file, o, k + n)
      BY <2>4, BytesOn
    <3>4. Opening!Bytes(f.file, c.off, m) \o Opening!Bytes(f.file, c.off + m, n)
            = Opening!Bytes(f.file, c.off, m + n)
      BY <3>1, <3>3
    <3> QED BY <3>2, <3>4 DEF m
  <2>8. Len(g) = Len(c.got) + n
    <3>1. Len(c.got) + n \in Nat
      BY <1>6, <2>4
    <3> HIDE DEF g
    <3> QED BY <3>1, <1>6, <2>7, BytesOf
  <2> HIDE DEF g
  <2>9. /\ c1.op = c.op /\ c1.fd = d /\ c1.n = c.n /\ c1.off = c.off /\ c1.got = g
        /\ c1.slot = c.slot /\ c1.at = c.at
    BY <1>3, <1>5 DEF CallType
  <2>10. /\ \A i \in Slots : i = s \/ ra'[i] = ra[i]
         /\ ra'[s].pos = ra[s].pos + n
    BY <1>2, <1>13, <2>1
  <2> HIDE DEF c1
  <2>11. Len(c1.got) <= c1.n /\ ra'[s].pos = c1.off + Len(c1.got)
    <3>1. c1.off = c.off /\ c1.n = c.n /\ Len(c1.got) = Len(c.got) + n
      BY <2>8, <2>9
    <3>2. ra'[s].pos = (c.off + Len(c.got)) + n
      BY <2>5, <2>10
    <3> HIDE DEF c, f
    <3> QED BY <1>6, <2>4, <3>1, <3>2
  <2>12. c1.got = Opening!Bytes(f.file, c1.off, Len(c1.got))
    BY <2>7, <2>8, <2>9
  <2>13. c1.slot = s
    BY <2>9
  <2> HIDE DEF f, c
  <2>14. CallOk(t, c1, f, S, ra')
    BY <1>4, <1>13, <2>1, <2>9, <2>11, <2>12, <2>13 DEF CallOk
  <2>15. \A i \in Slots : i \in S \/ ra'[i] = ra[i]
    BY <1>13, <2>1, <2>10
  <2>16. c1.at = "window" /\ c1.fd = d
    BY <2>1, <2>9
  <2> QED BY <1>11, <1>13, <2>1, <2>2, <2>14, <2>15, <2>16
<1>16. CASE Opening!RaReturn(t)
  <2> DEFINE w == f.want + Len(c.got)
             c1 == [c EXCEPT !.at = "done"]
             f1 == [f EXCEPT !.want = w]
  <2>1. /\ call' = [call EXCEPT ![t] = c1] /\ ra' = ra /\ c.at = "window"
        /\ openFd' = [openFd EXCEPT ![d].want = @ + Len(call[t].got)]
        /\ c.n - Len(c.got) = 0 \/ ra[s].pos >= Opening!Size(f.file)
    BY <1>1, <1>2, <1>16 DEF Opening!RaReturn, Opening!Left, Opening!AtEnd, Opening!C
  <2>2. openFd' = [openFd EXCEPT ![d] = f1]
    BY <1>2, <1>4, <2>1
  <2> HIDE DEF w
  <2>3. /\ c1.op = c.op /\ c1.fd = d /\ c1.n = c.n /\ c1.off = c.off /\ c1.got = c.got
        /\ c1.slot = c.slot /\ c1.at = "done"
    BY <1>3, <1>5 DEF CallType
  <2>4. f1.file = f.file /\ f1.pos = f.pos /\ f1.want = w /\ f1.user = f.user
    BY <1>5 DEF Descriptor
  <2>5. Len(c.got) = c.n \/ c.off + Len(c.got) >= Opening!Size(f.file)
    BY <1>6, <1>13, <2>1
  <2>6. ra[s].pos = w
    BY <1>13, <2>1 DEF w
  <2> HIDE DEF c1, f1, f, c
  <2>7. CallOk(t, c1, f1, S, ra)
    BY <1>4, <2>3, <2>4, <2>5 DEF CallOk
  <2>8. \A i \in S : ra[i].pos = f1.want
    BY <1>10, <1>13, <2>1, <2>4, <2>6
  <2>9. CallOk(t, c1, f1, S, ra') /\ \A i \in S : ra'[i].pos = f1.want
    BY <2>1, <2>7, <2>8
  <2>10. S # {} /\ \A i \in Slots : i \in S \/ ra'[i] = ra[i]
    BY <1>13, <2>1
  <2>11. c1.fd = d /\ call' = [call EXCEPT ![t] = c1]
    BY <2>1, <2>3
  <2> QED BY <1>11, <2>2, <2>9, <2>10, <2>11
<1>17. CASE Opening!Taken(t)
  <2>1. /\ call' = [call EXCEPT ![t] = Opening!Idle] /\ openFd' = openFd /\ ra' = ra
        /\ c.at = "done"
    BY <1>17 DEF Opening!Taken
  <2>2. Opening!Idle.at = "idle"
    BY DEF Opening!Idle
  <2>3. openFd' = [openFd EXCEPT ![d] = f]
    BY <1>2, <1>4, <2>1
  <2> HIDE DEF f, c
  <2> QED BY <1>9, <1>11, <2>1, <2>2, <2>3
<1> QED BY <1>12, <1>14, <1>15, <1>16, <1>17

\* The thread that holds the lock of the slots is in a window.
LEMMA LockKept ==
  ASSUME FilesInv, [Opening!Next]_openingVars
  PROVE  LockSound'
<1>1. /\ call \in [Threads -> CallType] /\ None \notin Threads
  BY FileConstants DEF FilesInv, FileTypes, CallType, GameFiles
<1>2. LockSound
  BY DEF FilesInv
<1>3. CASE lock' = lock /\ \A u \in Threads : call'[u].at = "window" <=> call[u].at = "window"
  BY <1>2, <1>3 DEF LockSound
<1>4. ASSUME NEW t \in Threads, Opening!RaLock(t) PROVE LockSound'
  <2>1. lock = None /\ lock' = t /\ call' = [call EXCEPT ![t].at = "window"]
    BY <1>4 DEF Opening!RaLock
  <2>2. call'[t].at = "window" /\ \A u \in Threads \ {t} : call'[u] = call[u]
    BY <1>1, <2>1 DEF CallType
  <2> QED BY <1>1, <1>2, <2>1, <2>2 DEF LockSound
<1>5. ASSUME NEW t \in Threads, Opening!RaReturn(t) PROVE LockSound'
  <2>1. call[t].at = "window" /\ lock' = None /\ call' = [call EXCEPT ![t].at = "done"]
    BY <1>5 DEF Opening!RaReturn
  <2>2. call'[t].at = "done" /\ \A u \in Threads \ {t} : call'[u] = call[u]
    BY <1>1, <2>1 DEF CallType
  <2> QED BY <1>1, <1>2, <2>1, <2>2 DEF LockSound
<1>6. ASSUME NEW t \in Threads, lock' = lock, \A u \in Threads \ {t} : call'[u] = call[u],
             call'[t].at = "window" <=> call[t].at = "window"
      PROVE  LockSound'
  BY <1>3, <1>6
<1>7. ASSUME NEW t \in Threads, Opening!PreadSeek(t) \/ Opening!Return(t) \/ Opening!Taken(t)
      PROVE  LockSound'
  <2>1. /\ lock' = lock /\ call[t].at # "window" /\ \A u \in Threads \ {t} : call'[u] = call[u]
    BY <1>1, <1>7 DEF Opening!PreadSeek, Opening!Return, Opening!Taken
  <2>2. call'[t].at # "window"
    BY <1>1, <1>7 DEF Opening!PreadSeek, Opening!Return, Opening!Taken, Opening!Idle, CallType
  <2> QED BY <1>6, <2>1, <2>2
<1>8. ASSUME NEW t \in Threads, Opening!ReadSome(t) \/ Opening!RaCopy(t) PROVE LockSound'
  <2>1. PICK b : lock' = lock /\ call' = [call EXCEPT ![t].got = @ \o b]
    BY <1>8 DEF Opening!ReadSome, Opening!RaCopy
  <2>2. call'[t].at = call[t].at /\ \A u \in Threads \ {t} : call'[u] = call[u]
    BY <1>1, <2>1 DEF CallType
  <2> QED BY <1>6, <2>1, <2>2
<1>9. ASSUME NEW t \in Threads, Opening!RaFill(t) PROVE LockSound'
  BY <1>3, <1>9 DEF Opening!RaFill
<1>10. ASSUME NEW t \in Threads, NEW op \in {"read", "pread"}, NEW d, NEW n, NEW off,
              call[t] = Opening!Idle, Opening!Call(t, op, d, n, off), lock' = lock
       PROVE  LockSound'
  <2>1. call'[t].at # "window" /\ \A u \in Threads \ {t} : call'[u] = call[u]
    BY <1>1, <1>10 DEF Opening!Call
  <2>2. call[t].at # "window"
    BY <1>10 DEF Opening!Idle
  <2> QED BY <1>6, <1>10, <2>1, <2>2
<1>11. CASE Opening!ReadCall \/ Opening!PreadCall
  BY <1>10, <1>11 DEF Opening!ReadCall, Opening!PreadCall
<1>12. CASE \/ Opening!OpenRead \/ Opening!OpenWrite \/ Opening!Fopen \/ Opening!Close
            \/ Opening!Lseek
            \/ UNCHANGED openingVars
  BY <1>3, <1>12 DEF Opening!OpenRead, Opening!OpenWrite, Opening!Fopen, Opening!Close,
     Opening!Lseek, openingVars
<1> QED BY <1>4, <1>5, <1>7, <1>8, <1>9, <1>11, <1>12 DEF Opening!Next

\* Every step keeps the calls and positions sound.
LEMMA CallsKept ==
  ASSUME FilesInv, [Opening!Next]_openingVars
  PROVE  CallsSound' /\ PositionsSound'
<1>1. CASE UNCHANGED openingVars
  BY <1>1 DEF openingVars, FilesInv, CallsSound, CallSound, CallOk, PositionsSound, PositionSound,
     Opening!SlotOf, Opening!Bytes, Opening!Size
<1>2. CASE Opening!OpenRead \/ Opening!OpenWrite \/ Opening!Fopen \/ Opening!Close
  BY <1>2, OpensSound
<1>3. CASE Opening!ReadCall
  <2>1. PICK t \in Threads, d \in Fds, n \in Lengths :
          /\ call[t] = Opening!Idle /\ openFd[d].user = t
          /\ Opening!Call(t, "read", d, n, openFd[d].want) /\ UNCHANGED <<openFd, ra>>
    BY <1>3 DEF Opening!ReadCall
  <2>2. n \in Nat /\ openFd[d].want \in Nat /\ call[t].at = "idle"
    BY <2>1, FileConstants, TypesOfOne DEF FilesInv, Descriptor, Opening!Idle
  <2> QED BY <2>1, <2>2, BeginsSound
<1>4. CASE Opening!PreadCall
  <2>1. PICK t \in Threads, d \in Fds, n \in Lengths, off \in Offsets :
          /\ call[t] = Opening!Idle /\ openFd[d].user = t
          /\ Opening!Call(t, "pread", d, n, off) /\ UNCHANGED <<openFd, ra>>
    BY <1>4 DEF Opening!PreadCall
  <2>2. n \in Nat /\ off \in Nat /\ call[t].at = "idle"
    BY <2>1, FileConstants DEF Opening!Idle
  <2> QED BY <2>1, <2>2, BeginsSound
<1>5. CASE Opening!Lseek
  BY <1>5, SeeksSound
<1>6. ASSUME NEW t \in Threads,
             \/ Opening!PreadSeek(t) \/ Opening!ReadSome(t) \/ Opening!Return(t)
             \/ Opening!RaLock(t)
             \/ Opening!RaFill(t) \/ Opening!RaCopy(t) \/ Opening!RaReturn(t) \/ Opening!Taken(t)
      PROVE  CallsSound' /\ PositionsSound'
  BY <1>6, ReadsSound, WindowsSound
<1> QED BY <1>1, <1>2, <1>3, <1>4, <1>5, <1>6 DEF Opening!Next

\* What the parts that open files, read and close them keep.
LEMMA FilesKept ==
  ASSUME FilesInv, [Opening!Next]_openingVars
  PROVE  FilesInv'
<1>1. FileTypes'
  BY TypesKept DEF FilesInv
<1>2. DescriptorsSound' /\ InodesSound' /\ DirsSound' /\ LockSound'
  BY DescriptorsKept, InodesKept, DirsKept, LockKept
<1> QED BY <1>1, <1>2, CallsKept DEF FilesInv

\* Nothing is open, and the directories above the files of the game are there.
LEMMA FilesBegin ==
  ASSUME Opening!Init
  PROVE  FilesInv
<1>1. PICK s \in StaticFds : ra = [i \in Slots |-> [fd |-> s, pos |-> 0, base |-> 0, len |-> 0]]
  BY DEF Opening!Init
<1>2. FileTypes
  <2>1. Opening!Closed \in Descriptor
    BY DEF Opening!Closed, Descriptor
  <2>2. Opening!Idle \in CallType
    BY DEF Opening!Idle, CallType
  <2>3. [fd |-> s, pos |-> 0, base |-> 0, len |-> 0]
      \in [fd : Int, pos : Nat, base : Nat, len : 0..Win]
    BY FileConstants
  <2> QED BY <1>1, <2>1, <2>2, <2>3 DEF Opening!Init, FileTypes, Descriptor, CallType, GameFiles
<1>3. DescriptorsSound
  BY <1>1, FileConstants DEF Opening!Init, DescriptorsSound, Opening!Closed, Opening!SlotOf
<1>4. CallsSound /\ LockSound
  BY FileConstants DEF Opening!Init, CallsSound, CallSound, LockSound, Opening!Idle
<1>5. PositionsSound /\ InodesSound
  BY DEF Opening!Init, PositionsSound, PositionSound, InodesSound, Opening!Closed
<1>6. DirsSound
  <2> DEFINE Roots == {Home} \cup DOMAIN Assets
  <2>1. dirs = {Home} \cup UNION { Opening!Above(f) : f \in Roots } /\ files = DOMAIN Assets
    BY DEF Opening!Init
  <2>2. \A f \in Roots : f \in Seq(STRING) /\ f # <<>>
    BY FileConstants
  <2>3. ASSUME NEW f \in Roots, NEW d \in Opening!Above(f)
        PROVE  d \in Seq(STRING) /\ d # <<>>
          /\ (Len(d) > 1 => Opening!Front(d) \in Opening!Above(f))
    <3>1. PICK k \in 1..(Len(f) - 1) : d = SubSeq(f, 1, k)
      BY DEF Opening!Above
    <3>2. k \in 1..Len(f) /\ k \in Nat
      BY <2>2
    <3>3. d \in Seq(STRING) /\ d # <<>> /\ Len(d) = k
        /\ (k > 1 => Opening!Front(d) = SubSeq(f, 1, k - 1))
      BY <2>2, <3>1, <3>2, PrefixFront
    <3>4. k > 1 => k - 1 \in 1..(Len(f) - 1)
      BY <2>2, <3>2
    <3> QED BY <3>3, <3>4 DEF Opening!Above
  <2>4. ASSUME NEW f \in Roots, Len(f) > 1
        PROVE  Opening!Front(f) \in Opening!Above(f)
    <3>1. Len(f) - 1 \in 1..(Len(f) - 1)
      BY <2>2, <2>4
    <3> QED BY <3>1 DEF Opening!Above, Opening!Front
  <2>5. \A f \in DOMAIN Assets : Len(f) > 1
    BY FileConstants
  <2> HIDE DEF Roots
  <2>6. dirs \subseteq Seq(STRING) /\ Home \in dirs /\ <<>> \notin dirs
    BY <2>1, <2>2, <2>3 DEF Roots
  <2>7. \A d \in dirs : Len(d) > 1 => Opening!Front(d) \in dirs
    BY <2>1, <2>3, <2>4 DEF Roots
  <2>8. \A f \in files : Opening!Front(f) \in dirs
    BY <2>1, <2>4, <2>5 DEF Roots
  <2> QED BY <2>6, <2>7, <2>8 DEF DirsSound, Opening!DirsWhole
<1> QED BY <1>2, <1>3, <1>4, <1>5, <1>6 DEF FilesInv

\* The four properties of what is open follow.
LEMMA FilesRight ==
  ASSUME FilesInv
  PROVE  Opening!TypeOK /\ Opening!ReadsRight /\ Opening!InodesApart /\ Opening!DirsWhole
<1>1. Opening!TypeOK
  BY DEF FilesInv, FileTypes, Opening!TypeOK
<1>2. Opening!ReadsRight
  <2>1. ASSUME NEW t \in Threads, call[t].at = "done"
        PROVE  CallOk(t, call[t], openFd[call[t].fd], Opening!SlotOf(call[t].fd), ra)
    BY <2>1, ReadersApart
  <2> QED BY <2>1 DEF CallOk, Opening!ReadsRight, Opening!D
<1>3. Opening!InodesApart
  BY DEF FilesInv, InodesSound, Opening!InodesApart, Opening!Inode
<1>4. Opening!DirsWhole
  BY DEF FilesInv, DirsSound
<1> QED BY <1>1, <1>2, <1>3, <1>4

-----------------------------------------------------------------------------
(* The file of the configuration.                                          *)

\* Once the file is read it says what the process was configured with, and
\* again once it is written.
ConfigNames == STRING \cup Configuring!Names \cup {"#"}
ConfigLine == [name : ConfigNames, value : Numbers \cup {None}]
ConfigInv ==
  /\ Configuring!TypeOK /\ Configuring!ConfigKept
  /\ config \in [Configuring!Names -> Numbers] /\ conf \in Seq(ConfigLine)
  /\ at = "write" => Configuring!Read(conf) = config

\* The constants of Config, one fact each.
LEMMA ConfigConstants ==
  /\ Numbers \subseteq Int /\ -1 \in Numbers /\ 0 \in Numbers
  /\ None \notin Numbers /\ MaxBoots \in Nat
  /\ Edits \subseteq Seq(ConfigLine)
<1>1. [name : STRING, value : Numbers \cup {None}] \subseteq ConfigLine
  BY DEF ConfigLine, ConfigNames
<1>2. Seq([name : STRING, value : Numbers \cup {None}]) \subseteq Seq(ConfigLine)
  BY <1>1, SeqMonotonic
<1> QED BY <1>2, ConfiguringAssumption DEF Configuring!ConfigAssumption

\* The names of the options are three.
LEMMA ThreeOptions ==
  /\ Configuring!Options[1] = "screen_width" /\ Configuring!Options[2] = "screen_height"
  /\ Configuring!Options[3] = "language" /\ DOMAIN Configuring!Options = 1..3
  /\ Configuring!Names = {"screen_width", "screen_height", "language"}
<1>1. /\ Configuring!Options[1] = "screen_width" /\ Configuring!Options[2] = "screen_height"
      /\ Configuring!Options[3] = "language" /\ DOMAIN Configuring!Options = 1..3
  BY DEF Configuring!Options
<1> QED BY <1>1 DEF Configuring!Names

\* The last of some lines is one of them.
LEMMA LastIsOne ==
  ASSUME NEW n \in Nat, NEW S \in SUBSET (1..n), S # {}
  PROVE  Configuring!LastOf(S) \in S
<1> DEFINE T == {n - i : i \in S}
<1>1. T \subseteq Nat /\ T # {}
  <2>1. \A i \in S : n - i \in Nat
    OBVIOUS
  <2> QED BY <2>1
<1> HIDE DEF T
<1>2. PICK m \in T : \A k \in T : m <= k
  BY <1>1, MinIsLeast
<1>3. PICK i \in S : m = n - i
  BY <1>2 DEF T
<1>4. \A j \in S : j <= i
  <2>1. \A j \in S : n - j \in T
    BY DEF T
  <2> QED BY <1>2, <1>3, <2>1
<1> QED BY <1>3, <1>4 DEF Configuring!LastOf

\* What is read are numbers.
LEMMA ReadNumbers ==
  ASSUME NEW lines \in Seq(ConfigLine)
  PROVE  Configuring!Read(lines) \in [Configuring!Names -> Numbers]
<1>1. ASSUME NEW n \in Configuring!Names, Configuring!Told(lines, n) # {}
      PROVE  Configuring!Atoi(lines[Configuring!LastOf(Configuring!Told(lines, n))].value)
        \in Numbers
  <2>1. Configuring!Told(lines, n) \in SUBSET (1..Len(lines)) /\ Len(lines) \in Nat
    BY DEF Configuring!Told
  <2>2. PICK i : i = Configuring!LastOf(Configuring!Told(lines, n))
    OBVIOUS
  <2>3. i \in 1..Len(lines)
    BY <1>1, <2>1, <2>2, LastIsOne
  <2>4. lines[i] \in ConfigLine
    BY <2>3
  <2> QED BY <2>2, <2>4, ConfigConstants DEF ConfigLine, Configuring!Atoi
<1>2. \A n \in Configuring!Names : Configuring!Defaults[n] \in Numbers
  BY ConfigConstants DEF Configuring!Defaults
<1> QED BY <1>1, <1>2 DEF Configuring!Read

\* What is written is read again, every option and nothing else.
LEMMA WrittenRead ==
  ASSUME config \in [Configuring!Names -> Numbers]
  PROVE  /\ Configuring!Written \in Seq(ConfigLine)
         /\ Configuring!Read(Configuring!Written) = config
         /\ ~ Configuring!Stale(Configuring!Written)
         /\ \A n \in Configuring!Names : Configuring!Told(Configuring!Written, n) # {}
<1> DEFINE O == Configuring!Options
           lines == [i \in 1..3 |-> Configuring!Line(O[i], config[O[i]])]
           first == <<Configuring!Line("#", None)>>
           w == Configuring!Written
<1>1. w = first \o lines
  BY ThreeOptions DEF Configuring!Written
<1>2. \A i \in 1..3 : O[i] \in Configuring!Names /\ O[i] # "#" /\ O[i] \notin Configuring!Retired
  <2>1. /\ O[1] \in Configuring!Names /\ O[1] # "#"
        /\ O[2] \in Configuring!Names /\ O[2] # "#"
        /\ O[3] \in Configuring!Names /\ O[3] # "#"
    <3>1. "screen_width" # "#" /\ "screen_height" # "#" /\ "language" # "#"
      OBVIOUS
    <3>2. \A o \in {"screen_width", "screen_height", "language"} : o \in Configuring!Names
      BY ThreeOptions
    <3> QED BY <3>1, <3>2, ThreeOptions
  <2>2. "screen_width" \notin Configuring!Retired
    BY DEF Configuring!Retired
  <2>3. "screen_height" \notin Configuring!Retired
    BY DEF Configuring!Retired
  <2>4. "language" \notin Configuring!Retired
    BY DEF Configuring!Retired
  <2>5. O[1] \notin Configuring!Retired /\ O[2] \notin Configuring!Retired
        /\ O[3] \notin Configuring!Retired
    BY <2>2, <2>3, <2>4, ThreeOptions
  <2> HIDE DEF O
  <2>6. \A i \in 1..3 : i = 1 \/ i = 2 \/ i = 3
    OBVIOUS
  <2> QED BY <2>1, <2>5, <2>6
<1>3. \A i, j \in 1..3 : O[i] = O[j] => i = j
  BY ThreeOptions
<1>4. \A n \in Configuring!Names : \E i \in 1..3 : n = O[i]
  BY ThreeOptions
<1> HIDE DEF O
<1>5. lines \in Seq(ConfigLine) /\ Len(lines) = 3
  <2>1. \A i \in 1..3 : Configuring!Line(O[i], config[O[i]]) \in ConfigLine
    BY <1>2 DEF Configuring!Line, ConfigLine, ConfigNames
  <2> QED BY <2>1
<1>6. first \in Seq(ConfigLine) /\ Len(first) = 1
  <2>1. Configuring!Line("#", None) \in ConfigLine
    BY DEF Configuring!Line, ConfigLine, ConfigNames
  <2> HIDE DEF lines
  <2> DEFINE l == Configuring!Line("#", None)
  <2>2. first = <<l>>
    OBVIOUS
  <2> HIDE DEF l, first
  <2> QED BY <2>1, <2>2 DEF l
<1>7. /\ first[1].name = "#"
      /\ \A i \in 1..3 : lines[i].name = O[i] /\ lines[i].value = config[O[i]]
  BY DEF Configuring!Line
<1> HIDE DEF lines, first, w
<1>8. w \in Seq(ConfigLine) /\ Len(w) = 4
  <2>1. w \in Seq(ConfigLine) /\ Len(w) = Len(first) + Len(lines)
    BY <1>1, <1>5, <1>6, ConcatProperties
  <2> QED BY <2>1, <1>5, <1>6
<1>9. w[1] = first[1] /\ \A i \in 1..3 : w[i + 1] = lines[i]
  <2>1. w[1] = first[1]
    BY <1>1, <1>5, <1>6, ConcatProperties
  <2>2. ASSUME NEW i \in 1..3 PROVE w[i + 1] = lines[i]
    <3>1. i + 1 \in 1..(Len(first) + Len(lines)) /\ ~ (i + 1 <= Len(first))
          /\ (i + 1) - Len(first) = i
      BY <1>5, <1>6
    <3>2. w[i + 1] = (first \o lines)[i + 1]
      BY <1>1
    <3>3. (first \o lines)[i + 1] = lines[(i + 1) - Len(first)]
      <4>1. PICK a, b : a = first /\ b = lines
        OBVIOUS
      <4>2. a \in Seq(ConfigLine) /\ b \in Seq(ConfigLine)
        BY <1>5, <1>6, <4>1
      <4>3. \A k \in 1..(Len(a) + Len(b)) :
              (a \o b)[k] = IF k <= Len(a) THEN a[k] ELSE b[k - Len(a)]
        BY <4>2, ConcatProperties
      <4> QED BY <3>1, <4>1, <4>3
    <3> QED BY <3>1, <3>2, <3>3
  <2> QED BY <2>1, <2>2
<1>10. \A k \in 1..4 : k = 1 \/ k - 1 \in 1..3
  OBVIOUS
<1>11. /\ w[1].name = "#"
       /\ \A k \in 2..4 : w[k].name = O[k - 1] /\ w[k].value = config[O[k - 1]] /\ w[k].value # None
  <2>1. ASSUME NEW k \in 2..4
        PROVE  w[k].name = O[k - 1] /\ w[k].value = config[O[k - 1]] /\ w[k].value # None
    <3>1. k - 1 \in 1..3 /\ k = (k - 1) + 1
      OBVIOUS
    <3>2. w[k] = lines[k - 1]
      BY <3>1, <1>9
    <3>3. config[O[k - 1]] \in Numbers
      BY <3>1, <1>2
    <3> QED BY <3>1, <3>2, <3>3, <1>7, ConfigConstants
  <2> QED BY <2>1, <1>7, <1>9
<1>12. ASSUME NEW i \in 1..3
       PROVE  Configuring!Told(w, O[i]) = {i + 1}
  <2>1. DOMAIN w = 1..4
    BY <1>8
  <2>2. i + 1 \in Configuring!Told(w, O[i])
    <3>1. i + 1 \in 2..4 /\ (i + 1) - 1 = i
      OBVIOUS
    <3> QED BY <1>11, <2>1, <3>1 DEF Configuring!Told
  <2>3. \A k \in Configuring!Told(w, O[i]) : k = i + 1
    <3>1. ASSUME NEW k \in Configuring!Told(w, O[i]) PROVE k = i + 1
      <4>1. k \in 1..4 /\ w[k].name = O[i]
        BY <2>1 DEF Configuring!Told
      <4>2. k # 1
        BY <4>1, <1>2, <1>11
      <4>3. k \in 2..4 /\ k - 1 \in 1..3
        BY <4>1, <4>2
      <4>4. k - 1 = i
        BY <4>1, <4>3, <1>3, <1>11
      <4> QED BY <4>3, <4>4
    <3> QED BY <3>1
  <2> QED BY <2>2, <2>3
<1>13. ASSUME NEW i \in 1..3
       PROVE  Configuring!Read(w)[O[i]] = config[O[i]]
  <2>1. Configuring!LastOf({i + 1}) = i + 1
    BY DEF Configuring!LastOf
  <2>2. i + 1 \in 2..4 /\ (i + 1) - 1 = i /\ {i + 1} # {}
    OBVIOUS
  <2>3. w[i + 1].value = config[O[i]] /\ w[i + 1].value # None
    BY <1>11, <2>2
  <2> QED BY <1>2, <1>12, <2>1, <2>2, <2>3 DEF Configuring!Read, Configuring!Atoi
<1>14. Configuring!Read(w) = config
  <2>1. Configuring!Read(w) \in [Configuring!Names -> Numbers]
    BY <1>8, ReadNumbers
  <2> QED BY <1>4, <1>13, <2>1
<1>15. ~ Configuring!Stale(w)
  <2>1. \A k \in DOMAIN w : w[k].name \notin Configuring!Retired
    <3>1. ASSUME NEW k \in DOMAIN w PROVE w[k].name \notin Configuring!Retired
      <4>1. k \in 1..4
        BY <1>8
      <4>2. CASE k = 1
        BY <4>2, <1>11 DEF Configuring!Retired
      <4>3. CASE k # 1
        <5>1. k \in 2..4 /\ k - 1 \in 1..3
          BY <4>1, <4>3
        <5> QED BY <5>1, <1>2, <1>11
      <4> QED BY <4>2, <4>3
    <3> QED BY <3>1
  <2> QED BY <2>1 DEF Configuring!Stale, Configuring!Told
<1>16. \A n \in Configuring!Names : Configuring!Told(w, n) # {}
  BY <1>4, <1>12
<1> QED BY <1>8, <1>14, <1>15, <1>16 DEF w

\* The process is off, and the file is one a player may have left.
LEMMA ConfigBegins ==
  ASSUME Configuring!Init
  PROVE  ConfigInv
<1>1. config \in [Configuring!Names -> Numbers]
  BY ConfigConstants DEF Configuring!Init, Configuring!Defaults
<1>2. conf \in Seq(ConfigLine)
  <2>1. <<>> \in Seq(ConfigLine)
    OBVIOUS
  <2>2. conf \in Edits \/ conf = <<>>
    BY DEF Configuring!Init
  <2> QED BY <2>1, <2>2, ConfigConstants
<1> QED BY <1>1, <1>2, ConfigConstants DEF Configuring!Init,
   ConfigInv, Configuring!TypeOK, Configuring!ConfigKept

\* Every step keeps the invariant.
LEMMA ConfigStays ==
  ASSUME ConfigInv, [Configuring!Next]_configuringVars
  PROVE  ConfigInv'
<1>1. CASE UNCHANGED configuringVars
  BY <1>1 DEF configuringVars, ConfigInv, Configuring!TypeOK, Configuring!ConfigKept,
     Configuring!Read, Configuring!Stale, Configuring!Told
<1>2. CASE Configuring!ReadConfig
  <2>1. config' = Configuring!Read(conf) /\ conf' = conf
      /\ at' \in {"write", "up"} /\ boots' \in 0..MaxBoots
    BY <1>2, ConfigConstants DEF Configuring!ReadConfig, ConfigInv, Configuring!TypeOK
  <2>2. config' \in [Configuring!Names -> Numbers]
    BY <2>1, ReadNumbers DEF ConfigInv
  <2>3. (Configuring!Read(conf))' = Configuring!Read(conf)
    BY <2>1 DEF Configuring!Read, Configuring!Told
  <2> QED BY <2>1, <2>2, <2>3 DEF ConfigInv, Configuring!TypeOK, Configuring!ConfigKept
<1>3. CASE Configuring!Empty
  <2>1. config' = config /\ boots' = boots /\ at = "write"
    BY <1>3 DEF Configuring!Empty
  <2>2. \/ at' = "close" /\ conf' = <<>>
        \/ at' = "up" /\ conf' = conf
    BY <1>3 DEF Configuring!Empty
  <2>3. conf' = conf => (Configuring!Read(conf))' = Configuring!Read(conf)
    BY DEF Configuring!Read, Configuring!Told
  <2>4. <<>> \in Seq(ConfigLine)
    OBVIOUS
  <2>5. conf' \in Seq(ConfigLine)
    BY <2>2, <2>4 DEF ConfigInv
  <2> QED BY <2>1, <2>2, <2>3, <2>5 DEF ConfigInv, Configuring!TypeOK, Configuring!ConfigKept
<1>4. CASE Configuring!WriteConfig
  <2>1. config' = config /\ boots' = boots /\ at' = "written" /\ conf' = Configuring!Written
    BY <1>4 DEF Configuring!WriteConfig
  <2>2. PICK w : w = Configuring!Written
    OBVIOUS
  <2>3. /\ w \in Seq(ConfigLine) /\ Configuring!Read(w) = config /\ ~ Configuring!Stale(w)
        /\ \A n \in Configuring!Names : Configuring!Told(w, n) # {}
    BY <2>2, WrittenRead DEF ConfigInv
  <2>4. conf' = w
    BY <2>1, <2>2
  <2>5. /\ (Configuring!Read(conf))' = Configuring!Read(w)
        /\ (Configuring!Stale(conf))' <=> Configuring!Stale(w)
        /\ \A n : (Configuring!Told(conf, n))' = Configuring!Told(w, n)
    BY <2>4 DEF Configuring!Read, Configuring!Told, Configuring!Stale
  <2> QED BY <2>1, <2>3, <2>4, <2>5 DEF ConfigInv, Configuring!TypeOK, Configuring!ConfigKept
<1>5. CASE Configuring!Ends \/ \E lines \in Edits : Configuring!Edit(lines)
  <2>1. config' = config /\ boots' = boots /\ at' = "off" /\ conf' \in Seq(ConfigLine)
    BY <1>5, ConfigConstants DEF Configuring!Ends, Configuring!Edit, ConfigInv
  <2> QED BY <2>1 DEF ConfigInv, Configuring!TypeOK, Configuring!ConfigKept
<1> QED BY <1>1, <1>2, <1>3, <1>4, <1>5 DEF Configuring!Next

-----------------------------------------------------------------------------
(* The text of the preferences, and the list it is written from.           *)

\* The end of a sequence and what is before it.
LEMMA EndOf ==
  ASSUME NEW C
  PROVE  /\ \A s \in Seq(C), c \in C : /\ Append(s, c) \in Seq(C) /\ Append(s, c) # <<>>
                                       /\ Keeping!Front(Append(s, c)) = s
                                       /\ Keeping!Last(Append(s, c)) = c
         /\ \A s \in Seq(C) : s # <<>> =>
              /\ Keeping!Front(s) \in Seq(C) /\ Keeping!Last(s) \in C
              /\ s = Append(Keeping!Front(s), Keeping!Last(s))
<1>1. ASSUME NEW s \in Seq(C), NEW c \in C
      PROVE  /\ Append(s, c) \in Seq(C) /\ Append(s, c) # <<>>
             /\ Keeping!Front(Append(s, c)) = s /\ Keeping!Last(Append(s, c)) = c
  BY DEF Keeping!Front, Keeping!Last
<1>2. ASSUME NEW s \in Seq(C), s # <<>>
      PROVE  /\ Keeping!Front(s) \in Seq(C) /\ Keeping!Last(s) \in C
             /\ s = Append(Keeping!Front(s), Keeping!Last(s))
  BY <1>2 DEF Keeping!Front, Keeping!Last
<1> QED BY <1>1, <1>2

Texts == Seq(Chars)
EntryType == [type : Chars, key : Texts, val : Texts]
HalfRead == [out : Texts, held : Texts]
HalfLoaded == [list : Seq(EntryType), line : Texts]

\* The constants of Prefs, one fact each.
LEMMA PrefsConstants ==
  /\ LineMax \in Nat /\ LineMax > 2 /\ Types \subseteq {"S", "I", "L", "B", "F"}
  /\ Types \subseteq Chars /\ "tab" \in Chars /\ "nl" \in Chars /\ "bs" \in Chars
  /\ "t" \in Chars /\ "n" \in Chars
  /\ Keys \subseteq Texts /\ \A t \in Types : Values[t] \subseteq Texts
  /\ Orders \subseteq Seq(Types) /\ \A o \in Orders : Keeping!ToSet(o) = Types
BY KeepingAssumption DEF Keeping!PrefsAssumption, Keeping!Texts, Texts

\* A character, and one more, makes a text longer.
LEMMA TextsGrow ==
  /\ <<>> \in Texts
  /\ \A s \in Texts, c \in Chars : Append(s, c) \in Texts /\ <<c>> \in Texts
  /\ \A s, u \in Texts : s \o u \in Texts
BY DEF Texts

\* Escaping, character by character.
LEMMA EscIs ==
  /\ Keeping!Esc \in [Texts -> Texts] /\ Keeping!Esc[<<>>] = <<>>
  /\ \A s \in Texts, c \in Chars : Keeping!Esc[Append(s, c)] = Keeping!Esc[s] \o Keeping!Escaped(c)
<1> DEFINE step == [p \in Texts \X Chars |-> p[1] \o Keeping!Escaped(p[2])]
<1>1. \A c \in Chars : Keeping!Escaped(c) \in Texts
  BY PrefsConstants DEF Keeping!Escaped, Keeping!Letter, Texts
<1>2. \A r \in Texts, c \in Chars : /\ step[<<r, c>>] = r \o Keeping!Escaped(c)
                                      /\ r \o Keeping!Escaped(c) \in Texts
  <2>1. \A r \in Texts, c \in Chars : step[<<r, c>>] = r \o Keeping!Escaped(c)
    OBVIOUS
  <2>2. \A r \in Texts, c \in Chars : r \o Keeping!Escaped(c) \in Texts
    BY <1>1 DEF Texts
  <2> QED BY <2>1, <2>2
<1> HIDE DEF step
<1>3. <<>> \in Texts
  BY DEF Texts
<1>4. PICK f : Recurses(f, Chars, Texts, <<>>, step)
  BY <1>2, <1>3, RecursionExists
<1>5. f = [s \in Texts |-> IF s = <<>> THEN <<>>
                           ELSE f[Keeping!Front(s)] \o Keeping!Escaped(Keeping!Last(s))]
  <2>1. f \in [Texts -> Texts] /\ f[<<>>] = <<>>
    BY <1>4 DEF Recurses, Texts
  <2>2. ASSUME NEW s \in Texts, s # <<>>
        PROVE  f[s] = f[Keeping!Front(s)] \o Keeping!Escaped(Keeping!Last(s))
    <3>1. PICK p, c : p = Keeping!Front(s) /\ c = Keeping!Last(s)
      OBVIOUS
    <3>2. p \in Texts /\ c \in Chars /\ s = Append(p, c)
      BY <2>2, <3>1, EndOf DEF Texts
    <3>3. f[s] = step[<<f[p], c>>] /\ f[p] \in Texts
      BY <1>4, <2>1, <3>2 DEF Recurses, Texts
    <3> QED BY <1>2, <3>1, <3>2, <3>3
  <2> QED BY <2>1, <2>2
<1>6. Keeping!Esc = [s \in Texts |-> IF s = <<>> THEN <<>>
                       ELSE Keeping!Esc[Keeping!Front(s)] \o Keeping!Escaped(Keeping!Last(s))]
  BY <1>5 DEF Keeping!Esc, Keeping!Texts, Texts
<1>7. ASSUME NEW s \in Texts, NEW c \in Chars
      PROVE  Keeping!Esc[Append(s, c)] = Keeping!Esc[s] \o Keeping!Escaped(c)
  <2>1. Append(s, c) \in Texts /\ Append(s, c) # <<>>
        /\ Keeping!Front(Append(s, c)) = s /\ Keeping!Last(Append(s, c)) = c
    BY EndOf DEF Texts
  <2> QED BY <1>6, <2>1
<1>8. Keeping!Esc[<<>>] = <<>>
  BY <1>3, <1>6
<1>9. \A s \in Texts : Keeping!Esc[s] \in Texts
  <2>1. ASSUME NEW s \in Texts, NEW c \in Chars, Keeping!Esc[s] \in Texts
        PROVE  Keeping!Esc[Append(s, c)] \in Texts
    BY <1>2, <1>7, <2>1
  <2>2. Keeping!Esc[<<>>] \in Texts
    BY <1>3, <1>8
  <2> QED BY <2>1, <2>2, AllValues DEF Texts
<1> QED BY <1>6, <1>7, <1>8, <1>9

\* Going through an escaped text, character by character.
LEMMA UnescapingIs ==
  /\ \A s \in Texts : Keeping!Unescaping[s] \in HalfRead
  /\ Keeping!Unescaping[<<>>] = [out |-> <<>>, held |-> <<>>]
  /\ \A s \in Texts, c \in Chars :
       Keeping!Unescaping[Append(s, c)] = Keeping!AndThen(Keeping!Unescaping[s], c)
<1> DEFINE start == [out |-> <<>>, held |-> <<>>]
           step == [p \in HalfRead \X Chars |-> Keeping!AndThen(p[1], p[2])]
<1>1. start \in HalfRead
  BY TextsGrow DEF HalfRead
<1>2. \A r \in HalfRead, c \in Chars : Keeping!AndThen(r, c) \in HalfRead
  <2>1. ASSUME NEW r \in HalfRead, NEW c \in Chars PROVE Keeping!AndThen(r, c) \in HalfRead
    <3>1. Keeping!Meant(c) \in Chars
      BY PrefsConstants DEF Keeping!Meant
    <3>2. r.out \in Texts /\ <<c>> \in Texts /\ <<>> \in Texts /\ Append(r.out, c) \in Texts
          /\ Append(r.out, Keeping!Meant(c)) \in Texts
      BY <3>1, TextsGrow DEF HalfRead
    <3> QED BY <3>2 DEF Keeping!AndThen, HalfRead
  <2> QED BY <2>1
<1>3. \A r \in HalfRead, c \in Chars : step[<<r, c>>] = Keeping!AndThen(r, c)
  OBVIOUS
<1> HIDE DEF step, start
<1>4. PICK f : Recurses(f, Chars, HalfRead, start, step)
  BY <1>1, <1>2, <1>3, RecursionExists
<1>5. f = [s \in Texts |-> IF s = <<>> THEN start
                           ELSE Keeping!AndThen(f[Keeping!Front(s)], Keeping!Last(s))]
  <2>1. f \in [Texts -> HalfRead] /\ f[<<>>] = start
    BY <1>4 DEF Recurses, Texts
  <2>2. ASSUME NEW s \in Texts, s # <<>>
        PROVE  f[s] = Keeping!AndThen(f[Keeping!Front(s)], Keeping!Last(s))
    <3>1. PICK p, c : p = Keeping!Front(s) /\ c = Keeping!Last(s)
      OBVIOUS
    <3>2. p \in Texts /\ c \in Chars /\ s = Append(p, c)
      BY <2>2, <3>1, EndOf DEF Texts
    <3>3. f[s] = step[<<f[p], c>>] /\ f[p] \in HalfRead
      BY <1>4, <2>1, <3>2 DEF Recurses, Texts
    <3> QED BY <1>3, <3>1, <3>2, <3>3
  <2> QED BY <2>1, <2>2
<1>6. Keeping!Unescaping = [s \in Texts |-> IF s = <<>> THEN start
             ELSE Keeping!AndThen(Keeping!Unescaping[Keeping!Front(s)], Keeping!Last(s))]
  BY <1>5 DEF Keeping!Unescaping, Keeping!Texts, Texts, start
<1>7. ASSUME NEW s \in Texts, NEW c \in Chars
      PROVE  Keeping!Unescaping[Append(s, c)] = Keeping!AndThen(Keeping!Unescaping[s], c)
  <2>1. Append(s, c) \in Texts /\ Append(s, c) # <<>>
        /\ Keeping!Front(Append(s, c)) = s /\ Keeping!Last(Append(s, c)) = c
    BY EndOf DEF Texts
  <2> QED BY <1>6, <2>1
<1>8. Keeping!Unescaping[<<>>] = start
  BY <1>6, TextsGrow
<1>9. \A s \in Texts : Keeping!Unescaping[s] \in HalfRead
  BY <1>1, <1>2, <1>7, <1>8, AllValues DEF Texts
<1> QED BY <1>7, <1>8, <1>9 DEF start

\* A line and what is read back are texts.
LEMMA LineTyped ==
  ASSUME NEW e \in EntryType
  PROVE  /\ Keeping!Line(e) \in Texts
         /\ Keeping!Esc[e.key] \in Texts /\ Keeping!Esc[e.val] \in Texts
<1>1. e.type \in Chars /\ Keeping!Esc[e.key] \in Texts /\ Keeping!Esc[e.val] \in Texts
  BY EscIs DEF EntryType
<1>2. <<e.type, "tab">> \in Texts /\ <<"tab">> \in Texts /\ <<"nl">> \in Texts
  BY <1>1, PrefsConstants DEF Texts
<1> QED BY <1>1, <1>2, TextsGrow DEF Keeping!Line

\* What a list is written as, entry by entry.
LEMMA WrittenIs ==
  /\ \A l \in Seq(EntryType) : Keeping!Written[l] \in Texts
  /\ Keeping!Written[<<>>] = <<>>
  /\ \A l \in Seq(EntryType), e \in EntryType :
       Keeping!Written[Append(l, e)] = Keeping!Written[l] \o Keeping!Line(e)
<1> DEFINE step == [p \in Texts \X EntryType |-> p[1] \o Keeping!Line(p[2])]
<1>1. \A r \in Texts, e \in EntryType : r \o Keeping!Line(e) \in Texts
  BY LineTyped, TextsGrow
<1>2. \A r \in Texts, e \in EntryType : step[<<r, e>>] = r \o Keeping!Line(e)
  OBVIOUS
<1> HIDE DEF step
<1>3. PICK f : Recurses(f, EntryType, Texts, <<>>, step)
  BY <1>1, <1>2, TextsGrow, RecursionExists
<1>4. f = [l \in Seq(EntryType) |-> IF l = <<>> THEN <<>>
             ELSE f[Keeping!Front(l)] \o Keeping!Line(Keeping!Last(l))]
  <2>1. f \in [Seq(EntryType) -> Texts] /\ f[<<>>] = <<>>
    BY <1>3 DEF Recurses
  <2>2. ASSUME NEW l \in Seq(EntryType), l # <<>>
        PROVE  f[l] = f[Keeping!Front(l)] \o Keeping!Line(Keeping!Last(l))
    <3>1. PICK p, e : p = Keeping!Front(l) /\ e = Keeping!Last(l)
      OBVIOUS
    <3>2. p \in Seq(EntryType) /\ e \in EntryType /\ l = Append(p, e)
      BY <2>2, <3>1, EndOf
    <3>3. f[l] = step[<<f[p], e>>] /\ f[p] \in Texts
      BY <1>3, <2>1, <3>2 DEF Recurses
    <3> QED BY <1>2, <3>1, <3>2, <3>3
  <2> QED BY <2>1, <2>2
<1>5. Keeping!Written = [l \in Seq(EntryType) |-> IF l = <<>> THEN <<>>
             ELSE Keeping!Written[Keeping!Front(l)] \o Keeping!Line(Keeping!Last(l))]
  BY <1>4 DEF Keeping!Written, Keeping!Entries, Keeping!Texts, EntryType, Texts
<1>6. ASSUME NEW l \in Seq(EntryType), NEW e \in EntryType
      PROVE  Keeping!Written[Append(l, e)] = Keeping!Written[l] \o Keeping!Line(e)
  <2>1. Append(l, e) \in Seq(EntryType) /\ Append(l, e) # <<>>
        /\ Keeping!Front(Append(l, e)) = l /\ Keeping!Last(Append(l, e)) = e
    BY EndOf
  <2> QED BY <1>5, <2>1
<1>7. Keeping!Written[<<>>] = <<>>
  <2>1. <<>> \in Seq(EntryType)
    OBVIOUS
  <2> QED BY <1>5, <2>1
<1>8. \A l \in Seq(EntryType) : Keeping!Written[l] \in Texts
  BY <1>1, <1>6, <1>7, TextsGrow, AllValues
<1> QED BY <1>6, <1>7, <1>8

\* A list in which an entry is set is a list.
LEMMA SetTyped ==
  ASSUME NEW l \in Seq(EntryType), NEW e \in EntryType
  PROVE  Keeping!Set(l, e) \in Seq(EntryType)
<1>1. CASE Keeping!IndexOf(e.key, l) # {}
  <2>1. Keeping!Set(l, e) = [i \in 1..Len(l) |->
                               IF i \in Keeping!IndexOf(e.key, l) THEN e ELSE l[i]]
    BY <1>1 DEF Keeping!Set
  <2>2. \A i \in 1..Len(l) : l[i] \in EntryType
    OBVIOUS
  <2> QED BY <2>1, <2>2
<1>2. CASE Keeping!IndexOf(e.key, l) = {}
  BY <1>2 DEF Keeping!Set
<1> QED BY <1>1, <1>2

\* A line makes a list of a list, whatever it is.
LEMMA ParsedTyped ==
  ASSUME NEW l \in Seq(EntryType), NEW u \in Texts, u # <<>>
  PROVE  Keeping!Parsed(l, u) \in Seq(EntryType)
<1>1. PICK w : w = IF Keeping!Last(u) = "nl" THEN Keeping!Front(u) ELSE u
  OBVIOUS
<1>2. w \in Texts
  BY <1>1, EndOf DEF Texts
<1>3. Keeping!Parsed(l, u) =
        IF w = <<>> \/ Keeping!TabAfter(w) = {} THEN l
        ELSE LET t == CHOOSE i \in Keeping!TabAfter(w) : TRUE IN
             Keeping!Set(l, Keeping!Entry(w[1], Keeping!Unesc(SubSeq(w, 3, t - 1)),
                                          Keeping!Unesc(SubSeq(w, t + 1, Len(w)))))
  BY <1>1 DEF Keeping!Parsed
<1>4. CASE w = <<>> \/ Keeping!TabAfter(w) = {}
  BY <1>3, <1>4
<1>5. CASE w # <<>> /\ Keeping!TabAfter(w) # {}
  <2>1. PICK t : t = CHOOSE i \in Keeping!TabAfter(w) : TRUE
    OBVIOUS
  <2>2. t \in 3..Len(w)
    BY <1>5, <2>1 DEF Keeping!TabAfter
  <2>3. w[1] \in Chars /\ SubSeq(w, 3, t - 1) \in Texts /\ SubSeq(w, t + 1, Len(w)) \in Texts
    BY <1>2, <1>5, <2>2 DEF Texts
  <2>4. \A s \in Texts : Keeping!Unesc(s) \in Texts
    BY UnescapingIs, TextsGrow DEF Keeping!Unesc, HalfRead
  <2>5. PICK e : e = Keeping!Entry(w[1], Keeping!Unesc(SubSeq(w, 3, t - 1)),
                                   Keeping!Unesc(SubSeq(w, t + 1, Len(w))))
    OBVIOUS
  <2>6. e \in EntryType
    BY <2>3, <2>4, <2>5 DEF Keeping!Entry, EntryType
  <2>7. Keeping!Parsed(l, u) = Keeping!Set(l, e)
    BY <1>3, <1>5, <2>1, <2>5
  <2> QED BY <2>6, <2>7, SetTyped
<1> QED BY <1>4, <1>5

\* What is loaded from a text, character by character.
LEMMA LoadingIs ==
  /\ \A s \in Texts : Keeping!Loading[s] \in HalfLoaded
  /\ Keeping!Loading[<<>>] = [list |-> <<>>, line |-> <<>>]
  /\ \A s \in Texts, c \in Chars :
       Keeping!Loading[Append(s, c)] = Keeping!Gets(Keeping!Loading[s], c)
<1> DEFINE start == [list |-> <<>>, line |-> <<>>]
           step == [p \in HalfLoaded \X Chars |-> Keeping!Gets(p[1], p[2])]
<1>1. start \in HalfLoaded
  BY TextsGrow DEF HalfLoaded
<1>2. \A r \in HalfLoaded, c \in Chars : Keeping!Gets(r, c) \in HalfLoaded
  <2>1. ASSUME NEW r \in HalfLoaded, NEW c \in Chars PROVE Keeping!Gets(r, c) \in HalfLoaded
    <3>1. PICK l : l = Append(r.line, c)
      OBVIOUS
    <3>2. r.list \in Seq(EntryType) /\ l \in Texts /\ l # <<>> /\ <<>> \in Texts
      BY <3>1, TextsGrow DEF HalfLoaded, Texts
    <3>3. Keeping!Parsed(r.list, l) \in Seq(EntryType)
      BY <3>2, ParsedTyped
    <3>4. \/ Keeping!Gets(r, c) = [list |-> Keeping!Parsed(r.list, l), line |-> <<>>]
          \/ Keeping!Gets(r, c) = [list |-> r.list, line |-> l]
      BY <3>1 DEF Keeping!Gets
    <3> QED BY <3>2, <3>3, <3>4 DEF HalfLoaded
  <2> QED BY <2>1
<1>3. \A r \in HalfLoaded, c \in Chars : step[<<r, c>>] = Keeping!Gets(r, c)
  OBVIOUS
<1> HIDE DEF step, start
<1>4. PICK f : Recurses(f, Chars, HalfLoaded, start, step)
  BY <1>1, <1>2, <1>3, RecursionExists
<1>5. f = [s \in Texts |-> IF s = <<>> THEN start
                           ELSE Keeping!Gets(f[Keeping!Front(s)], Keeping!Last(s))]
  <2>1. f \in [Texts -> HalfLoaded] /\ f[<<>>] = start
    BY <1>4 DEF Recurses, Texts
  <2>2. ASSUME NEW s \in Texts, s # <<>>
        PROVE  f[s] = Keeping!Gets(f[Keeping!Front(s)], Keeping!Last(s))
    <3>1. PICK p, c : p = Keeping!Front(s) /\ c = Keeping!Last(s)
      OBVIOUS
    <3>2. p \in Texts /\ c \in Chars /\ s = Append(p, c)
      BY <2>2, <3>1, EndOf DEF Texts
    <3>3. f[s] = step[<<f[p], c>>] /\ f[p] \in HalfLoaded
      BY <1>4, <2>1, <3>2 DEF Recurses, Texts
    <3> QED BY <1>3, <3>1, <3>2, <3>3
  <2> QED BY <2>1, <2>2
<1>6. Keeping!Loading = [s \in Texts |-> IF s = <<>> THEN start
             ELSE Keeping!Gets(Keeping!Loading[Keeping!Front(s)], Keeping!Last(s))]
  BY <1>5 DEF Keeping!Loading, Keeping!Texts, Texts, start
<1>7. ASSUME NEW s \in Texts, NEW c \in Chars
      PROVE  Keeping!Loading[Append(s, c)] = Keeping!Gets(Keeping!Loading[s], c)
  <2>1. Append(s, c) \in Texts /\ Append(s, c) # <<>>
        /\ Keeping!Front(Append(s, c)) = s /\ Keeping!Last(Append(s, c)) = c
    BY EndOf DEF Texts
  <2> QED BY <1>6, <2>1
<1>8. Keeping!Loading[<<>>] = start
  BY <1>6, TextsGrow
<1>9. \A s \in Texts : Keeping!Loading[s] \in HalfLoaded
  BY <1>1, <1>2, <1>7, <1>8, AllValues DEF Texts
<1> QED BY <1>7, <1>8, <1>9 DEF start

\* Escaped, a text has no tab and no newline.
LEMMA EscPlain == \A s \in Texts : Keeping!Esc[s] \in Seq(Chars \ {"tab", "nl"})
<1> DEFINE Plain == Seq(Chars \ {"tab", "nl"})
<1>1. \A c \in Chars : Keeping!Escaped(c) \in Plain
  <2>1. \A c \in {"tab", "nl", "bs"} : Keeping!Letter(c) \in Chars \ {"tab", "nl"}
    BY PrefsConstants DEF Keeping!Letter
  <2>2. "bs" \in Chars \ {"tab", "nl"}
    BY PrefsConstants
  <2>3. ASSUME NEW c \in {"tab", "nl", "bs"} PROVE Keeping!Escaped(c) \in Plain
    <3>1. PICK d : d = Keeping!Letter(c)
      OBVIOUS
    <3>2. d \in Chars \ {"tab", "nl"} /\ Keeping!Escaped(c) = <<"bs", d>>
      BY <2>1, <3>1 DEF Keeping!Escaped
    <3> QED BY <2>2, <3>2
  <2>4. ASSUME NEW c \in Chars \ {"tab", "nl", "bs"} PROVE Keeping!Escaped(c) \in Plain
    <3>1. Keeping!Escaped(c) = <<c>> /\ c \in Chars \ {"tab", "nl"}
      BY DEF Keeping!Escaped
    <3> QED BY <3>1
  <2> QED BY <2>3, <2>4
<1>2. \A r \in Plain, c \in Chars : r \o Keeping!Escaped(c) \in Plain
  BY <1>1
<1>3. <<>> \in Plain
  OBVIOUS
<1> HIDE DEF Plain
<1>4. \A s \in Texts : Keeping!Esc[s] \in Plain
  BY <1>2, <1>3, EscIs, AllValues DEF Texts
<1> QED BY <1>4 DEF Plain

\* Unescaped, it is what it was: what follows a backslash tells which of the three
\* characters was meant.
LEMMA UnescEsc == \A s \in Texts : Keeping!Unesc(Keeping!Esc[s]) = s
<1> DEFINE T == {s \in Texts : Keeping!Unescaping[Keeping!Esc[s]] = [out |-> s, held |-> <<>>]}
<1>1. <<>> \in T
  BY EscIs, UnescapingIs, TextsGrow
<1>2. ASSUME NEW s \in Texts, NEW c \in Chars, s \in T
      PROVE  Append(s, c) \in T
  <2>1. PICK x : x = Keeping!Esc[s]
    OBVIOUS
  <2>2. x \in Texts /\ Keeping!Unescaping[x] = [out |-> s, held |-> <<>>]
    BY <1>2, <2>1, EscIs
  <2>3. Keeping!Esc[Append(s, c)] = x \o Keeping!Escaped(c)
    BY <2>1, EscIs
  <2>4. CASE c \in {"tab", "nl", "bs"}
    <3>1. PICK d : d = Keeping!Letter(c)
      OBVIOUS
    <3>2. "bs" \in Chars /\ d \in Chars /\ Keeping!Meant(d) = c
      BY <2>4, <3>1, PrefsConstants DEF Keeping!Letter, Keeping!Meant
    <3>3. x \o Keeping!Escaped(c) = Append(Append(x, "bs"), d)
      BY <2>2, <2>4, <3>1 DEF Keeping!Escaped, Texts
    <3>4. Append(x, "bs") \in Texts
      BY <2>2, <3>2, TextsGrow
    <3>5. Keeping!Unescaping[Append(x, "bs")] = Keeping!AndThen([out |-> s, held |-> <<>>], "bs")
      BY <2>2, <3>2, UnescapingIs
    <3>6. Keeping!Unescaping[Append(x, "bs")] = [out |-> s, held |-> <<"bs">>]
      BY <3>5 DEF Keeping!AndThen
    <3>7. Keeping!Unescaping[Append(Append(x, "bs"), d)] =
            Keeping!AndThen([out |-> s, held |-> <<"bs">>], d)
      BY <3>2, <3>4, <3>6, UnescapingIs
    <3>8. Keeping!AndThen([out |-> s, held |-> <<"bs">>], d) = [out |-> Append(s, c), held |-> <<>>]
      BY <3>2 DEF Keeping!AndThen
    <3> QED BY <2>3, <3>3, <3>7, <3>8, TextsGrow
  <2>5. CASE c \notin {"tab", "nl", "bs"}
    <3>1. x \o Keeping!Escaped(c) = Append(x, c)
      BY <2>2, <2>5 DEF Keeping!Escaped, Texts
    <3>2. Keeping!Unescaping[Append(x, c)] = Keeping!AndThen([out |-> s, held |-> <<>>], c)
      BY <2>2, UnescapingIs
    <3>3. Keeping!AndThen([out |-> s, held |-> <<>>], c) = [out |-> Append(s, c), held |-> <<>>]
      BY <2>5 DEF Keeping!AndThen
    <3> QED BY <2>3, <3>1, <3>2, <3>3, TextsGrow
  <2> QED BY <2>4, <2>5
<1> HIDE DEF T
<1>3. Texts \subseteq T
  BY <1>1, <1>2, AllSequences DEF Texts
<1>4. ASSUME NEW s \in Texts PROVE Keeping!Unesc(Keeping!Esc[s]) = s
  <2>1. Keeping!Unescaping[Keeping!Esc[s]] = [out |-> s, held |-> <<>>]
    BY <1>3 DEF T
  <2>2. s \o <<>> = s
    BY DEF Texts
  <2> QED BY <2>1, <2>2 DEF Keeping!Unesc
<1> QED BY <1>4

\* A line without its end: the type, the key, a tab and the value.
Body(e) == <<e.type, "tab">> \o Keeping!Esc[e.key] \o <<"tab">> \o Keeping!Esc[e.val]

\* They are where the line that is written has them.
LEMMA LineIs ==
  ASSUME NEW e \in EntryType
  PROVE  LET k == Keeping!Esc[e.key]  v == Keeping!Esc[e.val]  w == Body(e) IN
         /\ w \in Texts /\ Keeping!Line(e) = Append(w, "nl")
         /\ Len(w) = Len(k) + Len(v) + 3 /\ w[1] = e.type /\ w[2] = "tab"
         /\ \A i \in 1..Len(k) : w[i + 2] = k[i]
         /\ w[Len(k) + 3] = "tab"
         /\ \A i \in 1..Len(v) : w[i + Len(k) + 3] = v[i]
<1> DEFINE h == <<e.type, "tab">>
           k == Keeping!Esc[e.key]
           v == Keeping!Esc[e.val]
           a == h \o k
           b == a \o <<"tab">>
           w == b \o v
<1>1. h \in Texts /\ Len(h) = 2 /\ h[1] = e.type /\ h[2] = "tab"
  BY PrefsConstants DEF EntryType, Texts
<1>2. k \in Texts /\ v \in Texts
  BY LineTyped
<1>3. Body(e) = w
  BY DEF Body
<1> HIDE DEF h, k, v
<1>4. /\ a \in Texts /\ Len(a) = Len(k) + 2 /\ a[1] = e.type /\ a[2] = "tab"
      /\ \A i \in 1..Len(k) : a[i + 2] = k[i]
  <2>1. PICK x, y, z : x = h /\ y = k /\ z = a
    OBVIOUS
  <2>2. x \in Seq(Chars) /\ y \in Seq(Chars) /\ z = x \o y
    BY <1>1, <1>2, <2>1 DEF Texts
  <2> HIDE DEF a
  <2>3. /\ z \in Seq(Chars) /\ Len(z) = Len(x) + Len(y) /\ \A i \in 1..Len(x) : z[i] = x[i]
        /\ \A i \in 1..Len(y) : z[i + Len(x)] = y[i]
    BY <2>2
  <2>4. a \in Texts /\ Len(a) = Len(h) + Len(k)
    BY <2>1, <2>3 DEF Texts
  <2>5. \A i \in 1..Len(h) : a[i] = h[i]
    BY <2>1, <2>3
  <2>6. \A i \in 1..Len(k) : a[i + Len(h)] = k[i]
    BY <2>1, <2>3
  <2>7. Len(k) \in Nat /\ 1 \in 1..Len(h) /\ 2 \in 1..Len(h)
    BY <1>1, <1>2 DEF Texts
  <2> QED BY <1>1, <2>4, <2>5, <2>6, <2>7
<1> HIDE DEF a
<1>5. /\ b \in Texts /\ Len(b) = Len(a) + 1 /\ b[Len(a) + 1] = "tab"
      /\ \A i \in 1..Len(a) : b[i] = a[i]
  BY <1>4, PrefsConstants DEF Texts
<1> HIDE DEF b
<1>6. /\ w \in Texts /\ Len(w) = Len(b) + Len(v) /\ \A i \in 1..Len(b) : w[i] = b[i]
      /\ \A i \in 1..Len(v) : w[i + Len(b)] = v[i]
  BY <1>2, <1>5 DEF Texts
<1>7. Keeping!Line(e) = w \o <<"nl">>
  BY DEF Keeping!Line, h, k, v, a, b
<1> HIDE DEF w
<1>8. w \o <<"nl">> = Append(w, "nl")
  BY <1>6 DEF Texts
<1>9. Len(k) \in Nat /\ Len(v) \in Nat
  BY <1>2 DEF Texts
<1>10. /\ Len(w) = Len(k) + Len(v) + 3 /\ w[1] = e.type /\ w[2] = "tab"
       /\ w[Len(k) + 3] = "tab" /\ \A i \in 1..Len(v) : w[i + Len(k) + 3] = v[i]
  BY <1>4, <1>5, <1>6, <1>9
<1>11. ASSUME NEW i \in 1..Len(k) PROVE w[i + 2] = k[i]
  <2>1. i + 2 \in 1..Len(a) /\ i + 2 \in 1..Len(b)
    BY <1>4, <1>5, <1>9
  <2> QED BY <1>4, <1>5, <1>6, <2>1
<1> QED BY <1>3, <1>6, <1>7, <1>8, <1>10, <1>11 DEF k, v

\* A line that was written is read as the entry it was written from.
LEMMA ParsedLine ==
  ASSUME NEW l \in Seq(EntryType), NEW e \in EntryType
  PROVE  Keeping!Parsed(l, Keeping!Line(e)) = Keeping!Set(l, e)
<1>1. PICK k, v, w : k = Keeping!Esc[e.key] /\ v = Keeping!Esc[e.val] /\ w = Body(e)
  OBVIOUS
<1>2. /\ w \in Texts /\ Keeping!Line(e) = Append(w, "nl")
      /\ Len(w) = Len(k) + Len(v) + 3 /\ w[1] = e.type /\ w[2] = "tab"
      /\ \A i \in 1..Len(k) : w[i + 2] = k[i]
      /\ w[Len(k) + 3] = "tab"
      /\ \A i \in 1..Len(v) : w[i + Len(k) + 3] = v[i]
  BY <1>1, LineIs
<1>3. k \in Texts /\ v \in Texts /\ k \in Seq(Chars \ {"tab", "nl"})
  BY <1>1, LineTyped, EscPlain DEF EntryType
<1>4. Len(k) \in Nat /\ Len(v) \in Nat /\ w \in Seq(Chars)
  BY <1>2, <1>3 DEF Texts
<1>5. Keeping!Last(Append(w, "nl")) = "nl" /\ Keeping!Front(Append(w, "nl")) = w /\ w # <<>>
  BY <1>2, <1>4, PrefsConstants, EndOf
<1>6. Keeping!TabAfter(w) = {Len(k) + 3}
  <2>1. \A i \in 3..(Len(k) + 2) : w[i] # "tab"
    <3>1. ASSUME NEW i \in 3..(Len(k) + 2) PROVE w[i] # "tab"
      <4>1. i - 2 \in 1..Len(k) /\ (i - 2) + 2 = i
        BY <1>4
      <4>2. w[i] = k[i - 2]
        BY <1>2, <4>1
      <4>3. k[i - 2] \in Chars \ {"tab", "nl"}
        BY <1>3, <4>1
      <4> QED BY <4>2, <4>3
    <3> QED BY <3>1
  <2>2. Len(k) + 3 \in 3..Len(w)
    BY <1>2, <1>4
  <2>3. Len(k) + 3 \in Keeping!TabAfter(w)
    BY <1>2, <1>4, <2>1, <2>2 DEF Keeping!TabAfter
  <2>4. ASSUME NEW i \in Keeping!TabAfter(w) PROVE i = Len(k) + 3
    <3>1. i \in 3..Len(w) /\ w[i] = "tab" /\ \A j \in 3..(i - 1) : w[j] # "tab"
      BY DEF Keeping!TabAfter
    <3>2. ~ (i <= Len(k) + 2)
      BY <1>4, <2>1, <3>1
    <3>3. ~ (Len(k) + 3 <= i - 1)
      BY <1>2, <1>4, <3>1
    <3> QED BY <1>4, <3>1, <3>2, <3>3
  <2> QED BY <2>3, <2>4
<1>7. SubSeq(w, 3, Len(k) + 2) = k
  <2>1. SubSeq(w, 3, Len(k) + 2) = [i \in 1..Len(k) |-> w[i + 2]]
    BY <1>2, <1>4
  <2>2. k = [i \in 1..Len(k) |-> k[i]]
    BY <1>3 DEF Texts
  <2> QED BY <1>2, <2>1, <2>2
<1>8. SubSeq(w, Len(k) + 4, Len(w)) = v
  <2>1. SubSeq(w, Len(k) + 4, Len(w)) = [i \in 1..Len(v) |-> w[i + Len(k) + 3]]
    BY <1>2, <1>4
  <2>2. v = [i \in 1..Len(v) |-> v[i]]
    BY <1>3 DEF Texts
  <2> QED BY <1>2, <2>1, <2>2
<1>9. Keeping!Unesc(k) = e.key /\ Keeping!Unesc(v) = e.val
  BY <1>1, UnescEsc DEF EntryType
<1>10. PICK t : t = CHOOSE i \in Keeping!TabAfter(w) : TRUE
  OBVIOUS
<1>11. t = Len(k) + 3 /\ t - 1 = Len(k) + 2 /\ t + 1 = Len(k) + 4
  BY <1>4, <1>6, <1>10
<1>12. Keeping!Parsed(l, Append(w, "nl")) =
         Keeping!Set(l, Keeping!Entry(w[1], Keeping!Unesc(SubSeq(w, 3, t - 1)),
                                            Keeping!Unesc(SubSeq(w, t + 1, Len(w)))))
  BY <1>5, <1>6, <1>10 DEF Keeping!Parsed
<1>13. Keeping!Entry(e.type, e.key, e.val) = e
  BY DEF Keeping!Entry, EntryType
<1> QED BY <1>2, <1>7, <1>8, <1>9, <1>11, <1>12, <1>13

\* As long as there is no newline and the buffer holds it, a line is gathered.
LEMMA LineGathered ==
  ASSUME NEW x \in Texts, Keeping!Loading[x].line = <<>>
  PROVE  \A u \in Seq(Chars \ {"nl"}) : Len(u) < LineMax - 1 =>
           Keeping!Loading[x \o u] = [list |-> Keeping!Loading[x].list, line |-> u]
<1> DEFINE C == Chars \ {"nl"}
           T == {u \in Seq(C) : Len(u) < LineMax - 1 =>
                   Keeping!Loading[x \o u] = [list |-> Keeping!Loading[x].list, line |-> u]}
<1>1. <<>> \in T
  <2>1. x \o <<>> = x
    BY DEF Texts
  <2>2. Keeping!Loading[x] = [list |-> Keeping!Loading[x].list, line |-> <<>>]
    BY LoadingIs DEF HalfLoaded
  <2> QED BY <2>1, <2>2
<1>2. ASSUME NEW u \in Seq(C), NEW c \in C, u \in T
      PROVE  Append(u, c) \in T
  <2>1. SUFFICES ASSUME Len(Append(u, c)) < LineMax - 1
                 PROVE  Keeping!Loading[x \o Append(u, c)] =
                          [list |-> Keeping!Loading[x].list, line |-> Append(u, c)]
    BY DEF T
  <2>2. u \in Texts /\ c \in Chars /\ c # "nl" /\ Len(Append(u, c)) = Len(u) + 1 /\ Len(u) \in Nat
    BY DEF Texts
  <2>3. Keeping!Loading[x \o u] = [list |-> Keeping!Loading[x].list, line |-> u]
    BY <1>2, <2>1, <2>2, PrefsConstants
  <2>4. x \o Append(u, c) = Append(x \o u, c) /\ x \o u \in Texts
    BY <2>2 DEF Texts
  <2>5. Keeping!Loading[Append(x \o u, c)] = Keeping!Gets(Keeping!Loading[x \o u], c)
    BY <2>2, <2>4, LoadingIs
  <2>6. Len(Append(u, c)) # LineMax - 1
    BY <2>1, <2>2, PrefsConstants
  <2> HIDE DEF T, C
  <2> QED BY <2>2, <2>3, <2>4, <2>5, <2>6 DEF Keeping!Gets
<1> HIDE DEF T
<1>3. Seq(C) \subseteq T
  BY <1>1, <1>2, AllSequences
<1> QED BY <1>3 DEF T

\* A line that the buffer holds, after whole lines, sets its entry.
LEMMA LineLoaded ==
  ASSUME NEW x \in Texts, Keeping!Loading[x].line = <<>>, NEW e \in EntryType, e.type # "nl",
         Keeping!Fits(e)
  PROVE  Keeping!Loading[x \o Keeping!Line(e)] =
           [list |-> Keeping!Set(Keeping!Loading[x].list, e), line |-> <<>>]
<1>1. PICK w : w = Body(e)
  OBVIOUS
<1>2. w \in Texts /\ Keeping!Line(e) = Append(w, "nl") /\ Len(w) \in Nat
      /\ Len(Append(w, "nl")) = Len(w) + 1
  <2>1. w \in Texts /\ Keeping!Line(e) = Append(w, "nl")
    BY <1>1, LineIs
  <2> QED BY <2>1 DEF Texts
<1>3. w \in Seq(Chars \ {"nl"})
  <2>1. \A s \in Texts : Keeping!Esc[s] \in Seq(Chars \ {"nl"})
    <3>1. Chars \ {"tab", "nl"} \subseteq Chars \ {"nl"}
      OBVIOUS
    <3>2. Seq(Chars \ {"tab", "nl"}) \subseteq Seq(Chars \ {"nl"})
      BY <3>1, SeqMonotonic
    <3> QED BY <3>2, EscPlain
  <2>2. e.key \in Texts /\ e.val \in Texts /\ e.type \in Chars \ {"nl"} /\ "tab" \in Chars \ {"nl"}
    BY PrefsConstants DEF EntryType
  <2>3. PICK k, v : k = Keeping!Esc[e.key] /\ v = Keeping!Esc[e.val]
    OBVIOUS
  <2>4. k \in Seq(Chars \ {"nl"}) /\ v \in Seq(Chars \ {"nl"})
    BY <2>1, <2>2, <2>3
  <2>5. w = ((<<e.type, "tab">> \o k) \o <<"tab">>) \o v
    BY <1>1, <2>3 DEF Body
  <2>6. <<e.type, "tab">> \in Seq(Chars \ {"nl"}) /\ <<"tab">> \in Seq(Chars \ {"nl"})
    BY <2>2
  <2> QED BY <2>4, <2>5, <2>6
<1>4. Len(w) < LineMax - 1
  BY <1>2, PrefsConstants DEF Keeping!Fits
<1>5. Keeping!Loading[x \o w] = [list |-> Keeping!Loading[x].list, line |-> w]
  BY <1>3, <1>4, LineGathered
<1>6. x \o Append(w, "nl") = Append(x \o w, "nl") /\ x \o w \in Texts
  BY <1>2 DEF Texts
<1>7. Keeping!Loading[Append(x \o w, "nl")] = Keeping!Gets(Keeping!Loading[x \o w], "nl")
  BY <1>6, PrefsConstants, LoadingIs
<1>8. Keeping!Gets(Keeping!Loading[x \o w], "nl") =
        [list |-> Keeping!Parsed(Keeping!Loading[x].list, Append(w, "nl")), line |-> <<>>]
  BY <1>5 DEF Keeping!Gets
<1>9. Keeping!Loading[x].list \in Seq(EntryType)
  BY LoadingIs DEF HalfLoaded
<1> QED BY <1>2, <1>6, <1>7, <1>8, <1>9, ParsedLine

\* The lists the game may have: each key once, each line no longer than the buffer.
ListOK(l) ==
  /\ l \in Seq(EntryType)
  /\ \A i \in 1..Len(l) : Keeping!Fits(l[i]) /\ l[i].type \in Types
  /\ \A i, j \in 1..Len(l) : l[i].key = l[j].key => i = j

\* What was written from such a list is loaded as it was.
LEMMA LoadedWritten ==
  \A l : ListOK(l) => Keeping!Loading[Keeping!Written[l]] = [list |-> l, line |-> <<>>]
<1> DEFINE T == {l \in Seq(EntryType) : ListOK(l) =>
                   Keeping!Loading[Keeping!Written[l]] = [list |-> l, line |-> <<>>]}
<1>1. <<>> \in T
  BY WrittenIs, LoadingIs
<1>2. ASSUME NEW l \in Seq(EntryType), NEW e \in EntryType, l \in T
      PROVE  Append(l, e) \in T
  <2> DEFINE m == Append(l, e)
  <2>1. m \in Seq(EntryType) /\ Len(m) = Len(l) + 1 /\ m[Len(l) + 1] = e /\ Len(l) \in Nat
        /\ \A i \in 1..Len(l) : m[i] = l[i]
    OBVIOUS
  <2> HIDE DEF m
  <2>2. SUFFICES ASSUME ListOK(m)
                 PROVE  Keeping!Loading[Keeping!Written[m]] = [list |-> m, line |-> <<>>]
    BY <2>1 DEF m
  <2>3. ListOK(l)
    BY <2>1, <2>2 DEF ListOK
  <2>4. Keeping!Fits(e) /\ e.type \in Types /\ \A i \in 1..Len(l) : l[i].key # e.key
    <3>1. Len(l) + 1 \in 1..Len(m)
      BY <2>1
    <3>2. \A i \in 1..Len(l) : i \in 1..Len(m) /\ i # Len(l) + 1
      BY <2>1
    <3> QED BY <2>1, <2>2, <3>1, <3>2 DEF ListOK
  <2>5. e.type # "nl"
    BY <2>4, PrefsConstants
  <2>6. PICK x : x = Keeping!Written[l]
    OBVIOUS
  <2>7. x \in Texts /\ Keeping!Loading[x] = [list |-> l, line |-> <<>>]
    BY <1>2, <2>3, <2>6, WrittenIs
  <2>8. Keeping!Written[m] = x \o Keeping!Line(e)
    BY <2>6, WrittenIs DEF m
  <2>9. Keeping!Loading[x \o Keeping!Line(e)] = [list |-> Keeping!Set(l, e), line |-> <<>>]
    BY <2>4, <2>5, <2>7, LineLoaded
  <2>10. Keeping!Set(l, e) = m
    BY <2>4 DEF Keeping!Set, Keeping!IndexOf, m
  <2> QED BY <2>8, <2>9, <2>10
<1> HIDE DEF T
<1>3. Seq(EntryType) \subseteq T
  BY <1>1, <1>2, AllSequences
<1> QED BY <1>3 DEF T, ListOK

\* unity_jni.c, prefs_flush and prefs_load: whatever tabs, newlines and backslashes
\* keys and values have, what is read from the text is the list it was written from,
\* if each line fits the buffer and no two entries have one key.
THEOREM PrefsReadBack == \A l : ListOK(l) => Keeping!Loaded(Keeping!Written[l]) = l
<1>1. ASSUME NEW l, ListOK(l)
      PROVE  Keeping!Loaded(Keeping!Written[l]) = l
  <2>1. PICK x : x = Keeping!Loading[Keeping!Written[l]]
    OBVIOUS
  <2>2. x = [list |-> l, line |-> <<>>]
    BY <1>1, <2>1, LoadedWritten, Zenon
  <2>3. x.line = <<>> /\ x.list = l
    BY <2>2
  <2> QED BY <2>1, <2>3 DEF Keeping!Loaded
<1> QED BY <1>1

\* What a list says of each key, when it has none twice.
Once(l) == \A i, j \in 1..Len(l) : l[i].key = l[j].key => i = j
KeysOf(l) == {l[i].key : i \in 1..Len(l)}

\* It has the keys of the list, and of each what its entry says.
LEMMA AsMapIs ==
  ASSUME NEW l \in Seq(EntryType), Once(l)
  PROVE  /\ Keeping!AsMap(l) = [k \in KeysOf(l) |-> Keeping!AsMap(l)[k]]
         /\ \A i \in 1..Len(l) : Keeping!AsMap(l)[l[i].key] = <<l[i].type, l[i].val>>
<1>1. DOMAIN l = 1..Len(l)
  OBVIOUS
<1>2. Keeping!AsMap(l) = [k \in KeysOf(l) |-> LET e == l[CHOOSE i \in 1..Len(l) : l[i].key = k]
                                              IN <<e.type, e.val>>]
  BY <1>1 DEF Keeping!AsMap, KeysOf
<1>3. ASSUME NEW i \in 1..Len(l)
      PROVE  Keeping!AsMap(l)[l[i].key] = <<l[i].type, l[i].val>>
  <2>1. PICK k : k = l[i].key
    OBVIOUS
  <2>2. PICK j : j = CHOOSE h \in 1..Len(l) : l[h].key = k
    OBVIOUS
  <2>3. j = i
    BY <2>1, <2>2 DEF Once
  <2>4. k \in KeysOf(l)
    BY <2>1 DEF KeysOf
  <2>5. Keeping!AsMap(l)[k] = <<l[j].type, l[j].val>>
    BY <1>2, <2>2, <2>4
  <2> QED BY <2>1, <2>3, <2>5
<1>4. Keeping!AsMap(l) = [k \in KeysOf(l) |-> Keeping!AsMap(l)[k]]
  BY <1>2
<1> QED BY <1>3, <1>4

\* A map that says the same of the same keys is that one.
LEMMA MapOf ==
  ASSUME NEW l \in Seq(EntryType), Once(l), NEW V, NEW m, m \in [KeysOf(l) -> V],
         \A i \in 1..Len(l) : m[l[i].key] = <<l[i].type, l[i].val>>
  PROVE  Keeping!AsMap(l) = m
<1>1. PICK a : a = Keeping!AsMap(l)
  OBVIOUS
<1>2. a = [k \in KeysOf(l) |-> a[k]] /\ \A i \in 1..Len(l) : a[l[i].key] = <<l[i].type, l[i].val>>
  BY <1>1, AsMapIs
<1>3. ASSUME NEW k \in KeysOf(l) PROVE a[k] = m[k]
  <2>1. PICK i \in 1..Len(l) : k = l[i].key
    BY DEF KeysOf
  <2> QED BY <1>2, <2>1
<1>4. a = m
  BY <1>2, <1>3
<1> QED BY <1>1, <1>4

\* The lists of what the game may set.
ListGood(l) ==
  /\ ListOK(l)
  /\ \A i \in 1..Len(l) : l[i].key \in Keys /\ l[i].val \in Values[l[i].type]

EntryGood(e) ==
  /\ e \in EntryType /\ Keeping!Fits(e) /\ e.type \in Types
  /\ e.key \in Keys /\ e.val \in Values[e.type]

\* They are the lists of good entries whose keys are apart.
LEMMA GoodLists ==
  ASSUME NEW l
  PROVE  ListGood(l) <=> /\ l \in Seq(EntryType) /\ Once(l)
                         /\ \A i \in 1..Len(l) : EntryGood(l[i])
<1>1. l \in Seq(EntryType) => \A i \in 1..Len(l) : l[i] \in EntryType
  OBVIOUS
<1> QED BY <1>1 DEF ListGood, ListOK, Once, EntryGood

\* An entry is set: it takes the place of the one with its key, or comes last.
LEMMA SetGood ==
  ASSUME NEW l, ListGood(l), NEW e, EntryGood(e)
  PROVE  /\ ListGood(Keeping!Set(l, e))
         /\ Keeping!AsMap(Keeping!Set(l, e)) =
              [x \in DOMAIN Keeping!AsMap(l) \cup {e.key} |->
                 IF x = e.key THEN <<e.type, e.val>> ELSE Keeping!AsMap(l)[x]]
<1> DEFINE s == Keeping!Set(l, e)
           a == Keeping!AsMap(l)
           m == [x \in DOMAIN a \cup {e.key} |-> IF x = e.key THEN <<e.type, e.val>> ELSE a[x]]
<1>1. l \in Seq(EntryType) /\ Once(l) /\ e \in EntryType /\ Len(l) \in Nat
      /\ \A i \in 1..Len(l) : EntryGood(l[i])
  BY GoodLists DEF EntryGood
<1>2. /\ DOMAIN a = KeysOf(l)
      /\ \A i \in 1..Len(l) : a[l[i].key] = <<l[i].type, l[i].val>> /\ l[i].key \in KeysOf(l)
  BY <1>1, AsMapIs DEF KeysOf
<1> HIDE DEF a
<1>3. CASE \E i \in 1..Len(l) : l[i].key = e.key
  <2>1. PICK i \in 1..Len(l) : l[i].key = e.key
    BY <1>3
  <2>2. DOMAIN l = 1..Len(l)
    BY <1>1
  <2>3. \A j \in 1..Len(l) : l[j].key = e.key => j = i
    BY <1>1, <2>1 DEF Once
  <2>4. Keeping!IndexOf(e.key, l) = {i}
    BY <2>1, <2>2, <2>3 DEF Keeping!IndexOf
  <2>5. s = [j \in 1..Len(l) |-> IF j = i THEN e ELSE l[j]]
    BY <2>2, <2>4 DEF Keeping!Set
  <2>6. s \in Seq(EntryType)
    BY <1>1, SetTyped
  <2> HIDE DEF s
  <2>7. Len(s) = Len(l) /\ \A j \in 1..Len(l) : s[j] = (IF j = i THEN e ELSE l[j])
    BY <1>1, <2>5
  <2>8. \A j \in 1..Len(l) : s[j].key = l[j].key /\ EntryGood(s[j])
    BY <1>1, <2>1, <2>7
  <2>9. Once(s)
    BY <1>1, <2>7, <2>8 DEF Once
  <2>10. KeysOf(s) = KeysOf(l)
    BY <2>7, <2>8 DEF KeysOf
  <2>11. e.key \in KeysOf(l) /\ DOMAIN m = KeysOf(l)
    BY <1>2, <2>1 DEF KeysOf
  <2>12. ASSUME NEW j \in 1..Len(l) PROVE m[s[j].key] = <<s[j].type, s[j].val>>
    <3>1. CASE j = i
      BY <2>1, <2>7, <2>11, <3>1
    <3>2. CASE j # i
      BY <1>2, <2>3, <2>7, <2>11, <3>2
    <3> QED BY <3>1, <3>2
  <2>13. m \in [KeysOf(s) -> {m[x] : x \in KeysOf(s)}]
    BY <2>10, <2>11
  <2> HIDE DEF m
  <2>14. Keeping!AsMap(s) = m
    <3>1. \A j \in 1..Len(s) : m[s[j].key] = <<s[j].type, s[j].val>>
      BY <2>7, <2>12
    <3> QED BY <2>6, <2>9, <2>13, <3>1, MapOf
  <2>15. ListGood(s)
    BY <2>6, <2>7, <2>8, <2>9, GoodLists
  <2> QED BY <2>14, <2>15 DEF m, s, a
<1>4. CASE ~ \E i \in 1..Len(l) : l[i].key = e.key
  <2>1. Keeping!IndexOf(e.key, l) = {}
    BY <1>1, <1>4 DEF Keeping!IndexOf
  <2>2. s = Append(l, e)
    BY <2>1 DEF Keeping!Set
  <2> HIDE DEF s
  <2>3. /\ s \in Seq(EntryType) /\ Len(s) = Len(l) + 1 /\ s[Len(l) + 1] = e
        /\ \A j \in 1..Len(l) : s[j] = l[j]
    BY <1>1, <2>2
  <2>4. \A j \in 1..Len(s) : j \in 1..Len(l) \/ j = Len(l) + 1
    BY <1>1, <2>3
  <2>5. \A j \in 1..Len(s) : EntryGood(s[j])
    BY <1>1, <2>3, <2>4
  <2>6. Once(s)
    BY <1>1, <1>4, <2>3, <2>4 DEF Once
  <2>7. KeysOf(s) = KeysOf(l) \cup {e.key}
    <3>1. Len(l) + 1 \in 1..Len(s) /\ \A j \in 1..Len(l) : j \in 1..Len(s)
      BY <1>1, <2>3
    <3> QED BY <2>3, <2>4, <3>1 DEF KeysOf
  <2>8. DOMAIN m = KeysOf(s)
    BY <1>2, <2>7
  <2>9. ASSUME NEW j \in 1..Len(s) PROVE m[s[j].key] = <<s[j].type, s[j].val>>
    <3>1. s[j].key \in KeysOf(s)
      BY DEF KeysOf
    <3>2. CASE j = Len(l) + 1
      BY <1>2, <2>3, <2>7, <3>1, <3>2
    <3>3. CASE j \in 1..Len(l)
      BY <1>2, <1>4, <2>3, <2>7, <3>1, <3>3
    <3> QED BY <2>4, <3>2, <3>3
  <2>10. m \in [KeysOf(s) -> {m[x] : x \in KeysOf(s)}]
    BY <2>8
  <2> HIDE DEF m
  <2>11. Keeping!AsMap(s) = m
    <3>1. s \in Seq(EntryType) /\ \A j \in 1..Len(s) : m[s[j].key] = <<s[j].type, s[j].val>>
      BY <2>3, <2>9
    <3> QED BY <2>6, <2>10, <3>1, MapOf
  <2>12. ListGood(s)
    BY <2>3, <2>5, <2>6, GoodLists
  <2> QED BY <2>11, <2>12 DEF m, s, a
<1> QED BY <1>3, <1>4

\* An entry is removed: the last one takes its place.
LEMMA RemoveGood ==
  ASSUME ListGood(list), NEW i \in 1..Len(list)
  PROVE  /\ ListGood(Keeping!LastInto(i))
         /\ Keeping!AsMap(Keeping!LastInto(i)) =
              [x \in DOMAIN Keeping!AsMap(list) \ {list[i].key} |-> Keeping!AsMap(list)[x]]
<1>1. PICK l : l = list
  OBVIOUS
<1> DEFINE s == Keeping!LastInto(i)
           n == Len(l)
           a == Keeping!AsMap(l)
           m == [x \in DOMAIN a \ {l[i].key} |-> a[x]]
<1>2. l \in Seq(EntryType) /\ Once(l) /\ n \in Nat /\ i \in 1..n /\ n \in 1..n /\ n - 1 \in Nat
      /\ \A j \in 1..n : EntryGood(l[j])
  BY <1>1, GoodLists
<1>3. /\ DOMAIN a = KeysOf(l)
      /\ \A j \in 1..n : a[l[j].key] = <<l[j].type, l[j].val>> /\ l[j].key \in KeysOf(l)
  BY <1>2, AsMapIs DEF KeysOf
<1>4. /\ s \in Seq(EntryType) /\ Len(s) = n - 1
      /\ \A j \in 1..(n - 1) : s[j] = IF j = i THEN l[n] ELSE l[j]
  <2>1. s = SubSeq([l EXCEPT ![i] = l[n]], 1, n - 1)
    BY <1>1 DEF Keeping!LastInto
  <2>2. PICK t : t = [l EXCEPT ![i] = l[n]]
    OBVIOUS
  <2>3. t \in Seq(EntryType) /\ Len(t) = n /\ \A j \in 1..n : t[j] = IF j = i THEN l[n] ELSE l[j]
    BY <1>2, <2>2
  <2> HIDE DEF s, n
  <2> QED BY <1>2, <2>1, <2>2, <2>3
<1> HIDE DEF s, n, a
<1>5. \A j \in 1..(n - 1) :
        \E h \in 1..n : s[j] = l[h] /\ h # i /\ (j = i => h = n) /\ (j # i => h = j)
  <2>1. ASSUME NEW j \in 1..(n - 1)
        PROVE  \E h \in 1..n : s[j] = l[h] /\ h # i /\ (j = i => h = n) /\ (j # i => h = j)
    <3>1. CASE j = i
      BY <1>2, <1>4, <3>1
    <3>2. CASE j # i
      BY <1>2, <1>4, <3>2
    <3> QED BY <3>1, <3>2
  <2> QED BY <2>1
<1>6. \A h \in 1..n : h # i => \E j \in 1..(n - 1) : s[j] = l[h]
  <2>1. ASSUME NEW h \in 1..n, h # i PROVE \E j \in 1..(n - 1) : s[j] = l[h]
    <3>1. CASE h = n
      <4>1. i \in 1..(n - 1)
        BY <1>2, <2>1, <3>1
      <4> QED BY <1>4, <3>1, <4>1
    <3>2. CASE h # n
      <4>1. h \in 1..(n - 1)
        BY <1>2, <3>2
      <4> QED BY <1>4, <2>1, <4>1
    <3> QED BY <3>1, <3>2
  <2> QED BY <2>1
<1>7. \A j \in 1..(n - 1) : EntryGood(s[j])
  BY <1>2, <1>5
<1>8. Once(s)
  <2>1. ASSUME NEW j \in 1..(n - 1), NEW k \in 1..(n - 1), s[j].key = s[k].key PROVE j = k
    <3>1. PICK h \in 1..n : s[j] = l[h] /\ h # i /\ (j = i => h = n) /\ (j # i => h = j)
      BY <1>5
    <3>2. PICK g \in 1..n : s[k] = l[g] /\ g # i /\ (k = i => g = n) /\ (k # i => g = k)
      BY <1>5
    <3>3. h = g
      BY <1>2, <2>1, <3>1, <3>2 DEF Once, n
    <3> QED BY <1>2, <3>1, <3>2, <3>3
  <2> QED BY <1>4, <2>1 DEF Once
<1>9. KeysOf(s) = KeysOf(l) \ {l[i].key}
  <2>1. \A h \in 1..n : h # i => l[h].key # l[i].key
    BY <1>2 DEF Once, n
  <2>2. KeysOf(s) = {s[j].key : j \in 1..(n - 1)} /\ KeysOf(l) = {l[h].key : h \in 1..n}
    BY <1>4 DEF KeysOf, n
  <2>3. ASSUME NEW x \in KeysOf(s) PROVE x \in KeysOf(l) \ {l[i].key}
    <3>1. PICK j \in 1..(n - 1) : x = s[j].key
      BY <2>2
    <3> QED BY <1>5, <2>1, <2>2, <3>1
  <2>4. ASSUME NEW x \in KeysOf(l), x # l[i].key PROVE x \in KeysOf(s)
    <3>1. PICK h \in 1..n : x = l[h].key
      BY <2>2
    <3>2. h # i
      BY <2>4, <3>1
    <3>3. PICK j \in 1..(n - 1) : s[j] = l[h]
      BY <1>6, <3>2
    <3> QED BY <2>2, <3>1, <3>3
  <2> QED BY <2>3, <2>4
<1>10. DOMAIN m = KeysOf(s)
  BY <1>3, <1>9
<1>11. ASSUME NEW j \in 1..(n - 1) PROVE m[s[j].key] = <<s[j].type, s[j].val>>
  <2>1. PICK h \in 1..n : s[j] = l[h] /\ h # i
    BY <1>5
  <2>2. s[j].key \in DOMAIN m
    BY <1>4, <1>10 DEF KeysOf
  <2> QED BY <1>3, <2>1, <2>2
<1>12. m \in [KeysOf(s) -> {m[x] : x \in KeysOf(s)}]
  BY <1>10
<1> HIDE DEF m
<1>13. Keeping!AsMap(s) = m
  <2>1. \A j \in 1..Len(s) : m[s[j].key] = <<s[j].type, s[j].val>>
    BY <1>4, <1>11
  <2>2. s \in Seq(EntryType)
    BY <1>4
  <2> QED BY <1>8, <1>12, <2>1, <2>2, MapOf
<1>14. ListGood(s)
  BY <1>4, <1>7, <1>8, GoodLists
<1> QED BY <1>1, <1>13, <1>14 DEF s, m, a

\* The first class that fits is that of the type, in any order that has it.
LEMMA SeenIs ==
  ASSUME NEW e, e \in EntryType, e.type \in Types, NEW o \in Orders
  PROVE  Keeping!Seen(e, o) = e
<1>1. \A c : Keeping!InstanceOf(e, c) <=> c = e.type
  BY PrefsConstants DEF Keeping!InstanceOf
<1>2. o \in Seq(Types) /\ \E i \in DOMAIN o : o[i] = e.type
  <2>1. Keeping!ToSet(o) = Types
    BY PrefsConstants
  <2> QED BY <2>1, PrefsConstants DEF Keeping!ToSet
<1> DEFINE F == {i \in 1..Len(o) : o[i] = e.type}
<1>3. DOMAIN o = 1..Len(o) /\ Len(o) \in Nat
  BY <1>2
<1>4. F \subseteq Nat /\ F # {}
  BY <1>2, <1>3
<1> HIDE DEF F
<1>5. PICK i \in F : \A j \in F : i <= j
  BY <1>4, MinIsLeast
<1>6. i \in 1..Len(o) /\ o[i] = e.type
  BY <1>5 DEF F
<1>7. \A j \in 1..(i - 1) : j \in 1..Len(o) /\ ~ (i <= j)
  BY <1>3, <1>6
<1>8. \A j \in 1..(i - 1) : o[j] # e.type
  BY <1>5, <1>7 DEF F
<1>9. i \in Keeping!FirstOf(e, o)
  BY <1>1, <1>3, <1>6, <1>8 DEF Keeping!FirstOf
<1>10. PICK h : h = CHOOSE j \in Keeping!FirstOf(e, o) : TRUE
  OBVIOUS
<1>11. h \in Keeping!FirstOf(e, o)
  BY <1>9, <1>10
<1>12. o[h] = e.type
  BY <1>1, <1>11 DEF Keeping!FirstOf
<1>13. Keeping!Seen(e, o) = Keeping!Entry(e.type, e.key, e.val)
  BY <1>10, <1>12 DEF Keeping!Seen
<1> QED BY <1>13 DEF Keeping!Entry, EntryType

\* The file is what a list was written as, the one that is kept, and nothing is to
\* be written when that is what the game set; an iterator gave the list so far.
FileIs(l) == ListGood(l) /\ file = Keeping!Written[l] /\ kept = Keeping!AsMap(l)
IterGood(it, l) ==
  /\ it \in [idx : Nat, gave : Seq(EntryType), order : Orders]
  /\ it.idx <= Len(l) /\ Len(it.gave) = it.idx
  /\ \A j \in 1..it.idx : it.gave[j] = l[j]

PrefsInv ==
  /\ ListGood(list) /\ listDirty \in BOOLEAN
  /\ want = Keeping!AsMap(list)
  /\ \E l : FileIs(l)
  /\ listDirty \/ want = kept
  /\ iter = None \/ IterGood(iter, list)

\* There are no preferences, and the file is empty.
LEMMA PrefsBegin ==
  ASSUME Keeping!Init
  PROVE  PrefsInv
<1>1. ListGood(<<>>)
  <2>1. <<>> \in Seq(EntryType) /\ \A i \in 1..Len(<<>>) : FALSE
    OBVIOUS
  <2> QED BY <2>1, GoodLists DEF Once
<1>2. FileIs(<<>>)
  BY <1>1, WrittenIs DEF FileIs, Keeping!Init, Keeping!NoPrefs
<1> QED BY <1>1, <1>2 DEF Keeping!Init, Keeping!NoPrefs, PrefsInv

\* What is in the file stays there while neither it nor what it is to hold changes.
LEMMA FileStays ==
  ASSUME \E l : FileIs(l), file' = file, kept' = kept
  PROVE  (\E l : FileIs(l))'
<1>1. PICK l : FileIs(l)
  OBVIOUS
<1>2. ListGood(l) /\ file' = Keeping!Written[l] /\ kept' = Keeping!AsMap(l)
  BY <1>1 DEF FileIs
<1>3. \E m : ListGood(m) /\ file' = Keeping!Written[m] /\ kept' = Keeping!AsMap(m)
  BY <1>2
<1> QED BY <1>3 DEF FileIs

\* Every step keeps the invariant.
LEMMA PrefsStays ==
  ASSUME PrefsInv, [Keeping!Next]_keepingVars
  PROVE  PrefsInv'
<1> USE DEF PrefsInv
<1>1. CASE UNCHANGED keepingVars
  <2>1. UNCHANGED <<list, listDirty, file, iter, want, kept>>
    BY <1>1 DEF keepingVars
  <2>2. (\E l : FileIs(l))'
    BY <2>1, FileStays
  <2> QED BY <2>1, <2>2
<1>2. CASE Keeping!Put
  <2>1. PICK k \in Keys, t \in Types : \E v \in Values[t] :
          /\ Keeping!Fits(Keeping!Entry(t, k, v))
          /\ list' = Keeping!Set(list, Keeping!Entry(t, k, v)) /\ listDirty' = TRUE
          /\ want' = [x \in DOMAIN want \cup {k} |-> IF x = k THEN <<t, v>> ELSE want[x]]
          /\ iter' = None /\ file' = file /\ kept' = kept
    BY <1>2 DEF Keeping!Put
  <2>2. PICK v \in Values[t] :
          /\ Keeping!Fits(Keeping!Entry(t, k, v))
          /\ list' = Keeping!Set(list, Keeping!Entry(t, k, v)) /\ listDirty' = TRUE
          /\ want' = [x \in DOMAIN want \cup {k} |-> IF x = k THEN <<t, v>> ELSE want[x]]
          /\ iter' = None /\ file' = file /\ kept' = kept
    BY <2>1
  <2>3. PICK e : e = Keeping!Entry(t, k, v)
    OBVIOUS
  <2>4. e.type = t /\ e.key = k /\ e.val = v /\ EntryGood(e)
    <3>1. k \in Texts /\ v \in Texts /\ t \in Chars
      BY PrefsConstants
    <3> QED BY <2>2, <2>3, <3>1 DEF Keeping!Entry, EntryGood, EntryType
  <2>5. ListGood(list') /\ want' = Keeping!AsMap(list')
    <3>1. PICK l : l = Keeping!Set(list, e)
      OBVIOUS
    <3>2. list' = l
      BY <2>2, <2>3, <3>1
    <3>3. /\ ListGood(l)
          /\ Keeping!AsMap(l) = [x \in DOMAIN Keeping!AsMap(list) \cup {e.key} |->
                                   IF x = e.key THEN <<e.type, e.val>> ELSE Keeping!AsMap(list)[x]]
      BY <2>4, <3>1, SetGood
    <3>4. want' = Keeping!AsMap(l)
      BY <2>2, <2>4, <3>3
    <3> QED BY <3>2, <3>3, <3>4
  <2>6. (\E l : FileIs(l))'
    BY <2>2, FileStays
  <2> QED BY <2>2, <2>5, <2>6
<1>3. CASE Keeping!DeleteKey
  <2>1. PICK k \in Keys :
          /\ IF Keeping!IndexOf(k, list) = {} THEN list' = list /\ listDirty' = listDirty
             ELSE \E i \in Keeping!IndexOf(k, list) :
                    list' = Keeping!LastInto(i) /\ listDirty' = TRUE
          /\ want' = [x \in DOMAIN want \ {k} |-> want[x]]
          /\ iter' = None /\ file' = file /\ kept' = kept
    BY <1>3 DEF Keeping!DeleteKey
  <2>2. (\E l : FileIs(l))'
    BY <2>1, FileStays
  <2>3. list \in Seq(EntryType) /\ Once(list) /\ DOMAIN list = 1..Len(list)
    BY GoodLists
  <2>4. CASE Keeping!IndexOf(k, list) = {}
    <3>1. k \notin KeysOf(list)
      BY <2>3, <2>4 DEF Keeping!IndexOf, KeysOf
    <3>2. DOMAIN want = KeysOf(list) /\ want = [x \in DOMAIN want |-> want[x]]
      BY <2>3, AsMapIs
    <3>3. DOMAIN want \ {k} = DOMAIN want
      BY <3>1, <3>2
    <3>4. want' = want
      BY <2>1, <3>2, <3>3
    <3> QED BY <2>1, <2>2, <2>4, <3>4
  <2>5. CASE Keeping!IndexOf(k, list) # {}
    <3>1. PICK i \in Keeping!IndexOf(k, list) : list' = Keeping!LastInto(i) /\ listDirty' = TRUE
      BY <2>1, <2>5
    <3>2. i \in 1..Len(list) /\ list[i].key = k
      BY <2>3 DEF Keeping!IndexOf
    <3>3. PICK l : l = Keeping!LastInto(i)
      OBVIOUS
    <3>4. ListGood(l) /\ Keeping!AsMap(l) = [x \in DOMAIN want \ {k} |-> want[x]]
      BY <3>2, <3>3, RemoveGood
    <3>5. list' = l
      BY <3>1, <3>3
    <3>6. ListGood(list') /\ want' = Keeping!AsMap(list')
      BY <2>1, <3>4, <3>5
    <3> QED BY <2>1, <2>2, <3>1, <3>6
  <2> QED BY <2>4, <2>5
<1>4. CASE Keeping!Clear
  <2>1. /\ list' = <<>> /\ listDirty' = TRUE /\ want' = Keeping!AsMap(<<>>) /\ iter' = None
        /\ file' = file /\ kept' = kept
    BY <1>4 DEF Keeping!Clear, Keeping!NoPrefs
  <2>2. ListGood(<<>>)
    <3>1. <<>> \in Seq(EntryType) /\ \A i \in 1..Len(<<>>) : FALSE
      OBVIOUS
    <3> QED BY <3>1, GoodLists DEF Once
  <2>3. (\E l : FileIs(l))'
    BY <2>1, FileStays
  <2> QED BY <2>1, <2>2, <2>3
<1>5. CASE Keeping!Flush
  <2>1. /\ IF listDirty THEN file' = Keeping!Written[list] ELSE file' = file
        /\ listDirty' = FALSE /\ kept' = want /\ list' = list /\ iter' = iter /\ want' = want
    BY <1>5 DEF Keeping!Flush
  <2>2. (\E l : FileIs(l))'
    <3>1. CASE listDirty
      <4>1. ListGood(list) /\ file' = Keeping!Written[list] /\ kept' = Keeping!AsMap(list)
        BY <2>1, <3>1
      <4>2. \E l : ListGood(l) /\ file' = Keeping!Written[l] /\ kept' = Keeping!AsMap(l)
        BY <4>1
      <4> QED BY <4>2 DEF FileIs
    <3>2. CASE ~ listDirty
      BY <2>1, <3>2, FileStays
    <3> QED BY <3>1, <3>2
  <2> QED BY <2>1, <2>2
<1>6. CASE Keeping!Boot
  <2>1. /\ list' = Keeping!Loaded(file) /\ listDirty' = FALSE /\ want' = kept /\ iter' = None
        /\ file' = file /\ kept' = kept
    BY <1>6 DEF Keeping!Boot
  <2>2. PICK l : FileIs(l)
    OBVIOUS
  <2>3. Keeping!Loading[file] = [list |-> l, line |-> <<>>]
    BY <2>2, LoadedWritten DEF FileIs, ListGood
  <2>4. list' = l
    BY <2>1, <2>3 DEF Keeping!Loaded
  <2>5. ListGood(list') /\ want' = Keeping!AsMap(list')
    BY <2>1, <2>2, <2>4 DEF FileIs
  <2>6. (\E m : FileIs(m))'
    BY <2>1, FileStays
  <2> QED BY <2>1, <2>5, <2>6
<1>7. CASE Keeping!GetAll
  <2>1. PICK o \in Orders :
          /\ iter' = [idx |-> 0, gave |-> <<>>, order |-> o]
          /\ UNCHANGED <<list, listDirty, file, want, kept>>
    BY <1>7 DEF Keeping!GetAll
  <2>2. <<>> \in Seq(EntryType) /\ Len(list) \in Nat
    BY GoodLists
  <2>3. IterGood(iter', list')
    BY <2>1, <2>2 DEF IterGood
  <2>4. (\E l : FileIs(l))'
    BY <2>1, FileStays
  <2> QED BY <2>1, <2>3, <2>4
<1>8. CASE Keeping!NextEntry
  <2>1. /\ iter # None /\ iter.idx < Len(list)
        /\ iter' = [iter EXCEPT !.idx = @ + 1,
                      !.gave = Append(@, Keeping!Seen(list[iter.idx + 1], iter.order))]
        /\ UNCHANGED <<list, listDirty, file, want, kept>>
    BY <1>8 DEF Keeping!NextEntry, Keeping!HasNext
  <2>2. IterGood(iter, list)
    BY <2>1
  <2>3. PICK n, g, e : n = iter.idx /\ g = iter.gave /\ e = list[n + 1]
    OBVIOUS
  <2>4. /\ n \in Nat /\ g \in Seq(EntryType) /\ iter.order \in Orders /\ Len(g) = n
        /\ n + 1 <= Len(list) /\ Len(list) \in Nat /\ \A j \in 1..n : g[j] = list[j]
    <3>1. Len(list) \in Nat
      BY GoodLists
    <3> QED BY <2>1, <2>2, <2>3, <3>1 DEF IterGood
  <2>5. e \in EntryType /\ e.type \in Types
    BY <2>3, <2>4, GoodLists DEF EntryGood
  <2>6. Keeping!Seen(e, iter.order) = e
    BY <2>4, <2>5, SeenIs
  <2>7. iter' = [idx |-> n + 1, gave |-> Append(g, e), order |-> iter.order]
    BY <2>1, <2>2, <2>3, <2>6 DEF IterGood
  <2>8. /\ Append(g, e) \in Seq(EntryType) /\ Len(Append(g, e)) = n + 1
        /\ \A j \in 1..(n + 1) : Append(g, e)[j] = list[j]
    BY <2>3, <2>4, <2>5
  <2>9. IterGood(iter', list')
    <3>1. PICK it : it = [idx |-> n + 1, gave |-> Append(g, e), order |-> iter.order]
      OBVIOUS
    <3>2. it.idx = n + 1 /\ it.gave = Append(g, e) /\ n + 1 \in Nat
          /\ it \in [idx : Nat, gave : Seq(EntryType), order : Orders]
      BY <2>4, <2>8, <3>1
    <3>3. IterGood(it, list)
      BY <2>4, <2>8, <3>2 DEF IterGood
    <3> QED BY <2>1, <2>7, <3>1, <3>3
  <2>10. (\E l : FileIs(l))'
    BY <2>1, FileStays
  <2> QED BY <2>1, <2>9, <2>10
<1> QED BY <1>1, <1>2, <1>3, <1>4, <1>5, <1>6, <1>7, <1>8 DEF Keeping!Next

\* It implies what the run checks.
LEMMA PrefsRight ==
  ASSUME PrefsInv
  PROVE  Keeping!TypeOK /\ Keeping!PrefsKept
<1> USE DEF PrefsInv
<1>1. list \in Seq(EntryType) /\ Once(list) /\ DOMAIN list = 1..Len(list) /\ Len(list) \in Nat
      /\ \A i \in 1..Len(list) : EntryGood(list[i])
  BY GoodLists
<1>2. Keeping!TypeOK
  BY <1>1 DEF Keeping!TypeOK, EntryGood
<1>3. Keeping!AsMap(Keeping!Loaded(file)) = kept
  <2>1. PICK l : FileIs(l)
    OBVIOUS
  <2>2. Keeping!Loading[file] = [list |-> l, line |-> <<>>]
    BY <2>1, LoadedWritten DEF FileIs, ListGood
  <2> QED BY <2>1, <2>2 DEF Keeping!Loaded, FileIs
<1>4. ASSUME iter # None, ~ Keeping!HasNext
      PROVE  Keeping!AsMap(iter.gave) = want /\ Len(iter.gave) = Len(list)
  <2>1. IterGood(iter, list)
    BY <1>4
  <2>2. iter.idx = Len(list)
    BY <1>1, <1>4, <2>1 DEF IterGood, Keeping!HasNext
  <2>3. iter.gave \in Seq(EntryType) /\ Len(iter.gave) = Len(list)
        /\ \A j \in 1..Len(list) : iter.gave[j] = list[j]
    BY <2>1, <2>2 DEF IterGood
  <2>4. iter.gave = list
    BY <1>1, <2>3
  <2> QED BY <2>3, <2>4
<1> QED BY <1>1, <1>2, <1>3, <1>4 DEF Keeping!PrefsKept, Once

-----------------------------------------------------------------------------
(* What is kept on the card, part by part of MCStorage.                    *)

KeptInv ==
  /\ part = "opening" => FilesInv
  /\ part = "keeping" => PrefsInv
  /\ part = "configuring" => ConfigInv

\* A step is one of the part, and leaves the others alone.
LEMMA OtherParts ==
  ASSUME [MCNext]_allVars
  PROVE  /\ part' = part
         /\ part = "opening" => [Opening!Next]_openingVars
         /\ part = "keeping" => [Keeping!Next]_keepingVars
         /\ part = "configuring" => [Configuring!Next]_configuringVars
<1>1. CASE UNCHANGED allVars
  BY <1>1 DEF allVars
<1>2. CASE InSaving(Next) \/ InKeeping(Keeping!Next)
  BY <1>2 DEF InSaving, InKeeping
<1>3. CASE InOpening(Opening!Next) \/ InConfiguring(Configuring!Next)
  BY <1>3 DEF InOpening, InConfiguring
<1> QED BY <1>1, <1>2, <1>3 DEF MCNext

\* The invariant of whatever part a behaviour is of.
LEMMA PartsStep == (MCInit => KeptInv) /\ (KeptInv /\ [MCNext]_allVars => KeptInv')
<1>1. MCInit => KeptInv
  BY FilesBegin, PrefsBegin, ConfigBegins DEF MCInit, KeptInv
<1>2. KeptInv /\ [MCNext]_allVars => KeptInv'
  BY OtherParts, FilesKept, PrefsStays, ConfigStays DEF KeptInv
<1> QED BY <1>1, <1>2

\* libc_shim.c, unity_jni.c, config.c, main.c: any threads, paths, files of the game,
\* slots and windows; any keys, values and orders of classes; any numbers, files a player
\* may leave and boots.  A read gets the bytes its position names, whoever opens, closes
\* and reads beside it and however the slots are taken; no two files that are open have
\* one inode number; a directory is only made in one that is there.  What the game set
\* it gets back, from memory, from an enumeration and after a restart.  And once the
\* process is up config.txt says what it was configured with.
THEOREM StorageIsSound == MCSpec => []StorageSound
<1>1. KeptInv => StorageSound
  <2>1. part = "opening" /\ KeptInv => /\ Opening!TypeOK /\ Opening!ReadsRight
                                      /\ Opening!InodesApart /\ Opening!DirsWhole
    BY FilesRight DEF KeptInv
  <2>2. part = "keeping" /\ KeptInv => Keeping!TypeOK /\ Keeping!PrefsKept
    BY PrefsRight DEF KeptInv
  <2>3. part = "configuring" /\ KeptInv => Configuring!TypeOK /\ Configuring!ConfigKept
    BY DEF KeptInv, ConfigInv
  <2> QED BY <2>1, <2>2, <2>3 DEF StorageSound
<1> QED BY <1>1, PartsStep, PTL DEF MCSpec

=============================================================================
