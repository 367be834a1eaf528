------------------------------ MODULE MCStorage ------------------------------
(* Instances for TLC of what the game keeps on the card: the save files, and  *)
(* beside them the descriptors with their read-ahead and inodes, the text of  *)
(* the preferences, and config.txt.  The parts share no state here (SaveStore *)
(* counts versions where Prefs has texts), so a behaviour is one of one part, *)
(* which the first state chooses, and the others stay as they begin.  TLC     *)
(* gets the sizes from the configuration; sets of texts are written here.     *)
EXTENDS MCSaveStore, Sequences, TLC

CONSTANTS
  t1, t2, None,
  Threads, Devices, Home, Paths, Assets, Big, Win, Slots, StaticFds, Offsets, MaxOpen,  \* Files
  Lengths,
  Chars, Keys, Types, Values, Orders, LineMax, MaxEntries,                              \* Prefs
  Numbers, Edits, MaxBoots                                                              \* Config

VARIABLES
  part,
  dirs, files, openFd, ino, ra, lock, call,     \* Files
  list, listDirty, file, iter, want, kept,      \* Prefs
  hasConf, conf, config, stale, at, boots       \* Config

-----------------------------------------------------------------------------
\* Two threads with a descriptor each, a big file of the game, one in a
\* directory that is not there, by a relative path, and two to be written, one
\* of them from "/", as managed_root has it; one for which there is no directory
\* to make its own in; the static table's fd 0.
MCHome == <<"sdmc:", "switch", "layton">>
Data == MCHome \o <<"data">>
MCPaths == { Data, <<"pack", "data">>, MCHome \o <<"save", "slot", "x">>,
             <<"/">> \o Tail(MCHome) \o <<"save", "y">>,
             <<"sdmc:", "cache", "deep", "z">> }
MCAssets == Data :> 3
MCStaticFds == {0, -1}
Opening == INSTANCE Files WITH fd <- openFd

\* A key and values with every character that is escaped, side by side with
\* one that looks like an escape.
MCKeys == {<<"tab">>, <<"a", "bs">>}
MCValues == "S" :> {<<"nl", "bs">>, <<"bs", "t">>} @@ "I" :> {<<"1">>}
MCOrders == {<<"S", "I">>, <<"I", "S">>}
Keeping == INSTANCE Prefs WITH kv <- list, dirty <- listDirty

\* Files with a comment, a retired option, a name twice, names without a value
\* before the end and at it, and one that differs in a capital.
L(name, value) == [name |-> name, value |-> value]
MCNumbers == {-1, 0, 1, 2, 640, 1280}
MCEdits == { <<>>, <<L("screen_width", 1280), L("screen_height", 0)>>,
  <<L("#", None), L("widescreen", 1), L("language", 2), L("screen_width", 640),
    L("screen_width", 1280)>>,
  <<L("portrait", None), L("Language", 2), L("language", None)>>,
  <<L("language", 2), L("language", None), L("screen_height", None)>> }
Configuring == INSTANCE Config WITH Values <- Numbers, there <- hasConf, file <- conf

ASSUME OpeningAssumption == Opening!FilesAssumption
ASSUME KeepingAssumption == Keeping!PrefsAssumption
ASSUME ConfiguringAssumption == Configuring!ConfigAssumption

openingVars == <<dirs, files, openFd, ino, ra, lock, call>>
keepingVars == <<list, listDirty, file, iter, want, kept>>
configuringVars == <<hasConf, conf, config, stale, at, boots>>
allVars == <<part, vars, openingVars, keepingVars, configuringVars>>

InSaving(A) ==
  part = "saving" /\ A /\ UNCHANGED <<part, openingVars, keepingVars, configuringVars>>
InOpening(A) == part = "opening" /\ A /\ UNCHANGED <<part, vars, keepingVars, configuringVars>>
InKeeping(A) == part = "keeping" /\ A /\ UNCHANGED <<part, vars, openingVars, configuringVars>>
InConfiguring(A) ==
  part = "configuring" /\ A /\ UNCHANGED <<part, vars, openingVars, keepingVars>>

\* The part that opens files is run with either content of the static table,
\* the one that configures with every file there may be.
MCInit ==
  /\ part \in {"saving", "opening", "keeping", "configuring"}
  /\ Init /\ Opening!Init /\ Keeping!Init /\ Configuring!Init
  /\ part = "configuring" \/ ~hasConf
  /\ part = "opening" \/ \A s \in DOMAIN ra : ra[s].fd = 0

MCNext == InSaving(Next) \/ InOpening(Opening!Next) \/ InKeeping(Keeping!Next)
          \/ InConfiguring(Configuring!Next)

MCFairness ==
  /\ \A t \in Savers : WF_allVars(InSaving(Saving(t)))
  /\ SF_allVars(InSaving(PrefsOpen("flush"))) /\ WF_allVars(InSaving(PrefsWrite))
  /\ WF_allVars(InSaving(SdFlush)) /\ WF_allVars(InSaving(SdCommit))

MCSpec == MCInit /\ [][MCNext]_allVars /\ MCFairness

-----------------------------------------------------------------------------

\* libc_shim.c, unity_jni.c, config.c: readers get the bytes their position
\* names, no two files share an inode, directories are made whole, the text of
\* the preferences gives back what the game set, and config.txt says what the
\* process was configured with.
StorageSound ==
  /\ part = "opening" => /\ Opening!TypeOK /\ Opening!ReadsRight
                         /\ Opening!InodesApart /\ Opening!DirsWhole
  /\ part = "keeping" => Keeping!TypeOK /\ Keeping!PrefsKept
  /\ part = "configuring" => Configuring!TypeOK /\ Configuring!ConfigKept

=============================================================================
