-------------------------------- MODULE Config --------------------------------
(* config.c, main.c: config.txt, which the boot reads and writes again when   *)
(* it is missing or holds an option that is no more.  The player edits it     *)
(* between two runs, and the process may be killed while it writes.           *)
EXTENDS Integers, Sequences

CONSTANTS
  Values,      \* numbers an option may be set to, -1 (auto) and 0 among them
  Edits,       \* files a player may leave: sequences of [name, value], the name
               \*   "#" for a comment, the value None where there is none;
               \*   the last line of a file has no end
  MaxBoots,    \* bound: the boots of a behaviour
  None

Options == <<"screen_width", "screen_height", "language">>
Retired == {"touchscreen", "controller_cursor", "widescreen", "portrait", "ortho"}
Names == { Options[i] : i \in DOMAIN Options }

ConfigAssumption ==
  /\ Values \subseteq Int /\ {-1, 0} \subseteq Values /\ None \notin Values /\ MaxBoots \in Nat
  /\ Edits \subseteq Seq([name : STRING, value : Values \cup {None}])

VARIABLES
  there,     \* the file is there
  file,      \* its lines
  config,    \* what the process was configured with
  stale,     \* config_needs_rewrite
  at,        \* the boot: "off", "write", "close", "up", "written"
  boots

vars == <<there, file, config, stale, at, boots>>

Defaults == [n \in Names |-> IF n = "language" THEN 0 ELSE -1]
(* read_config: a comment and what has no name here are passed over, the     *)
(* last of two lines of a name is the one.  Where nothing follows a name,    *)
(* not even the end of its line, it is passed over as well, otherwise it is  *)
(* the number atoi makes of an empty text.                                   *)
Told(lines, n) ==
  { i \in DOMAIN lines : lines[i].name = n /\ (lines[i].value # None \/ i < Len(lines)) }
Atoi(v) == IF v = None THEN 0 ELSE v
LastOf(S) == CHOOSE i \in S : \A j \in S : j <= i
Read(lines) == [n \in Names |->
  IF Told(lines, n) = {} THEN Defaults[n] ELSE Atoi(lines[LastOf(Told(lines, n))].value)]
Stale(lines) == \E n \in Retired : Told(lines, n) # {}

(* write_config: a comment, and every option as it was read.                 *)
Line(n, v) == [name |-> n, value |-> v]
Written == <<Line("#", None)>> \o
  [i \in DOMAIN Options |-> Line(Options[i], config[Options[i]])]

Init ==
  /\ there \in BOOLEAN /\ file \in (IF there THEN Edits ELSE {<<>>})
  /\ config = Defaults /\ stale = FALSE /\ at = "off" /\ boots = 0

ReadConfig ==
  /\ at = "off" /\ boots < MaxBoots
  /\ boots' = boots + 1
  /\ config' = Read(file) /\ stale' = Stale(file)
  /\ at' = IF ~there \/ Stale(file) THEN "write" ELSE "up"
  /\ UNCHANGED <<there, file>>

(* fopen(file, "w") empties it, or fails; the text goes out at fclose.       *)
Empty ==
  /\ at = "write"
  /\ \/ at' = "close" /\ there' = TRUE /\ file' = <<>>
     \/ at' = "up" /\ UNCHANGED <<there, file>>
  /\ UNCHANGED <<config, stale, boots>>
WriteConfig ==
  /\ at = "close"
  /\ at' = "written" /\ file' = Written
  /\ UNCHANGED <<there, config, stale, boots>>

(* The process ends, or is killed; the player may edit the file.             *)
Ends ==
  /\ at # "off" /\ at' = "off"
  /\ UNCHANGED <<there, file, config, stale, boots>>
Edit(lines) ==
  /\ at = "off"
  /\ there' = TRUE /\ file' = lines
  /\ UNCHANGED <<config, stale, at, boots>>

Next ==
  \/ ReadConfig \/ Empty \/ WriteConfig \/ Ends
  \/ \E lines \in Edits : Edit(lines)

Spec == Init /\ [][Next]_vars

TypeOK ==
  /\ \A n \in Names : config[n] \in Values
  /\ at \in {"off", "write", "close", "up", "written"} /\ boots \in 0..MaxBoots

(* Once the process is up, the file says what it was configured with,        *)
(* whether it was written again or not; one that was lists every option and  *)
(* none that is no more, so that it is not written a second time.            *)
ConfigKept ==
  /\ at \in {"up", "written"} => Read(file) = config
  /\ at = "written" => ~Stale(file) /\ \A n \in Names : Told(file, n) # {}
=============================================================================
