------------------------------ MODULE CodePatches -----------------------------
(* main.c, so_util.c, unity_input_hook.c: the instructions of the game that   *)
(* are replaced after its modules are loaded and before any of them runs, and *)
(* the calls of the game's own methods that the render loop makes once.  A    *)
(* patch is made for one version of the game: the words it replaces, and      *)
(* those of the methods it calls, are compared first.  The code is mapped for *)
(* execution only, so that each write goes through a second mapping of the    *)
(* page, which may fail; nobody looks whether it did.                         *)
EXTENDS Naturals, Sequences, FiniteSets

CONSTANTS
  Regions,     \* the sites of LBMR_REGION_PATCH, a sequence of words
  Entries,     \* the entries of the four methods that are called
  Hooks,       \* the entries that nx_install_*_hooks overwrite, a sequence
  Games,       \* what a card may hold: [Words -> {"from", "other"}]
  MaxFails     \* bound: the calls of so_patch_code that fail in a boot

Sites(s) == { s[i] : i \in DOMAIN s }
One(w) == [checks |-> {w}, calls |-> <<w>>]

(* The patches in the order of main: those the words are compared for, and   *)
(* the calls of so_patch_code.  A method of the shop is one word here, as    *)
(* its two are compared and written together; it is left alone as well when  *)
(* one of the entries is not what it should be.                              *)
Shop(w) == [checks |-> Entries \cup {w}, calls |-> <<w>>]
Plan == <<
  One("setOutput"),
  [checks |-> {"choreo0", "choreo1"}, calls |-> <<"choreo0", "choreo1">>],
  [checks |-> Sites(Regions), calls |-> Regions],
  One("initPayment"),
  Shop("isUseShop"), Shop("getPrice"),
  [checks |-> {}, calls |-> Hooks] >>
Words == Entries \cup UNION { p.checks \cup Sites(p.calls) : p \in Sites(Plan) }

Written(k) == Sites(Plan[k].calls)
PatchesAssumption == /\ \A g \in Games : g \in [Words -> {"from", "other"}]
                     /\ MaxFails \in Nat
                     /\ Regions \in Seq(Words) /\ Hooks \in Seq(Words)
                     /\ \A j, k \in DOMAIN Plan : j # k => Written(j) \cap Written(k) = {}
                     /\ \A k \in DOMAIN Plan :
                          /\ Entries \cap Written(k) = {}
                          /\ \A i, j \in DOMAIN Plan[k].calls :
                               Plan[k].calls[i] = Plan[k].calls[j] => i = j

VARIABLES
  code,      \* what each word in memory is: as on the card, or "to"
  game,      \* what it is on the card
  pc,        \* main: [patch, call, at]
  aliases,   \* addresses reserved for second mappings
  failed,    \* history: the words whose mapping failed
  grant,     \* g_dlc_grant_state
  ready,     \* the game has its instances, and its save data are set up
  buying,    \* nx_try_grant_offline_dlc
  bought,    \* the packs in the save data of the game
  view,      \* the packs in the file of the preferences, for the process
  card,      \* those on the card, after a commit
  writing,   \* nx_prefs_flush has opened that file, which empties it
  refused    \* history: its last fopen failed

fileVars == <<view, card, writing, refused>>
loopVars == <<grant, ready, buying, bought, fileVars>>
codeVars == <<code, game, pc, aliases, failed>>
vars == <<codeVars, loopVars>>

First == [patch |-> 1, call |-> 0, at |-> "compare"]
Init ==
  /\ game \in Games /\ code = game /\ pc = First /\ aliases = 0 /\ failed = {}
  /\ grant = 0 /\ ready = FALSE /\ buying = "no" /\ bought = {}
  /\ view = {} /\ card = {} /\ writing = FALSE /\ refused = FALSE

To(at) == pc' = [pc EXCEPT !.at = at]
NextPatch == IF pc.patch = Len(Plan) THEN [pc EXCEPT !.at = "running"]
             ELSE [patch |-> pc.patch + 1, call |-> 0, at |-> "compare"]
NextCall == IF pc.call = Len(Plan[pc.patch].calls) THEN NextPatch
            ELSE [pc EXCEPT !.call = @ + 1, !.at = "reserve"]

(* Every word of a patch is compared before the first is written; the one    *)
(* grant waits from when the entries are found to be right.                  *)
ComparedOne ==                       \* mutant: each call compares its own word
  pc.call < Len(Plan[pc.patch].calls) =>
    \/ Plan[pc.patch].checks = {} \/ code[Plan[pc.patch].calls[pc.call + 1]] = "from"
Compared == \A w \in Plan[pc.patch].checks : code[w] = "from"
Armable == \A w \in Entries : code[w] = "from"
Compare ==
  /\ pc.at = "compare"
  /\ pc' = IF Compared THEN NextCall ELSE NextPatch
  /\ grant' = IF Entries \subseteq Plan[pc.patch].checks /\ Armable THEN 1 ELSE grant
  /\ UNCHANGED <<code, game, aliases, failed, ready, buying, bought, fileVars>>

-----------------------------------------------------------------------------
\* so_patch_code; its callers go on whether it failed or not.

Fail ==
  /\ Cardinality(failed) < MaxFails
  /\ failed' = failed \cup {Plan[pc.patch].calls[pc.call]}
Reserve ==
  /\ pc.at = "reserve"
  /\ \/ aliases' = aliases + 1 /\ To("map") /\ UNCHANGED failed
     \/ Fail /\ pc' = NextCall /\ UNCHANGED aliases
  /\ UNCHANGED <<code, game, loopVars>>
Map ==
  /\ pc.at = "map"
  /\ (To("write") /\ UNCHANGED failed) \/ (Fail /\ To("release"))
  /\ UNCHANGED <<code, game, aliases, loopVars>>
Write ==
  /\ pc.at = "write"
  /\ code' = [code EXCEPT ![Plan[pc.patch].calls[pc.call]] = "to"]
  /\ To("release")
  /\ UNCHANGED <<game, aliases, failed, loopVars>>
Release ==
  /\ pc.at = "release"
  /\ aliases' = aliases - 1 /\ pc' = NextCall
  /\ UNCHANGED <<code, game, failed, loopVars>>

-----------------------------------------------------------------------------
\* The engine runs: the game sets up its save data, the loop grants the packs.

SetUp ==
  /\ pc.at = "running" /\ ~ready
  /\ ready' = TRUE
  /\ UNCHANGED <<codeVars, grant, buying, bought, fileVars>>

Buy(from, to, pack) ==
  /\ buying = from /\ buying' = to
  /\ bought' = bought \cup {pack}
  /\ UNCHANGED <<codeVars, grant, ready, fileVars>>
TryGrant == pc.at = "running" /\ grant = 1 /\ ready /\ ~writing /\ Buy("no", "second", 0)
BuySecond == Buy("second", "mark", 1)
MarkOnly == buying' = "no"           \* mutant: left to the next change of focus
ThenSave == buying' = "save"
Mark ==
  /\ buying = "mark" /\ ThenSave
  /\ grant' = 2
  /\ UNCHANGED <<codeVars, ready, bought, fileVars>>

(* nx_save_prefs, from the grant, the loop and when the focus changes: the    *)
(* flush opens the file, or cannot, and writes it.  What it writes reaches    *)
(* the card only when another file of the game is closed or counted dirty.    *)
Saving == pc.at = "running" /\ buying \in {"save", "no"} /\ ~writing
SaveOpen ==
  /\ Saving
  /\ view' = {} /\ writing' = TRUE
  /\ UNCHANGED <<codeVars, grant, ready, buying, bought, card, refused>>
SaveFails ==
  /\ Saving
  /\ refused' = TRUE /\ buying' = "no"
  /\ UNCHANGED <<codeVars, grant, ready, bought, view, card, writing>>
SaveClean ==
  /\ Saving /\ buying = "save" /\ view = bought
  /\ buying' = "no"
  /\ UNCHANGED <<codeVars, grant, ready, bought, fileVars>>
SaveWrite ==
  /\ writing
  /\ view' = bought /\ writing' = FALSE /\ refused' = FALSE /\ buying' = "no"
  /\ UNCHANGED <<codeVars, grant, ready, bought, card>>
Commit ==
  /\ pc.at = "running"
  /\ card' = view
  /\ UNCHANGED <<codeVars, grant, ready, buying, bought, view, writing, refused>>

(* The process is killed at any moment and started again.                    *)
Killed ==
  /\ code' = game /\ pc' = First /\ aliases' = 0 /\ failed' = {}
  /\ grant' = 0 /\ ready' = FALSE /\ buying' = "no" /\ bought' = card
  /\ view' = card /\ writing' = FALSE /\ refused' = FALSE
  /\ UNCHANGED <<game, card>>

Next ==
  \/ Compare \/ Reserve \/ Map \/ Write \/ Release
  \/ SetUp \/ TryGrant \/ BuySecond \/ Mark
  \/ SaveOpen \/ SaveFails \/ SaveClean \/ SaveWrite \/ Commit \/ Killed

Spec == Init /\ [][Next]_vars

TypeOK ==
  /\ \A w \in Words : code[w] \in {game[w], "to"}
  /\ aliases \in 0..1 /\ grant \in 0..2 /\ bought \cup view \cup card \subseteq {0, 1}
  /\ pc.at \in {"compare", "reserve", "map", "write", "release", "running"}
  /\ buying \in {"no", "second", "mark", "save"}

(* Once main has gone on from a patch, for every version of the game: one    *)
(* with a word that is not what it was made for has changed nothing; of any  *)
(* other each word is written, those apart whose mapping failed - the one    *)
(* thing that leaves a patch in halves, and main goes on with the halves -   *)
(* and no address stays reserved.                                            *)
Fits(k) == \A w \in Plan[k].checks : game[w] = "from"
PatchedWhole ==
  /\ \A k \in DOMAIN Plan : k < pc.patch \/ pc.at = "running" =>
       \A w \in Written(k) : IF Fits(k) THEN code[w] = "to" <=> w \notin failed
                                        ELSE code[w] = game[w]
  /\ pc.at = "running" => aliases = 0

(* A method of the game is called only if all four are what they should be   *)
(* and its save data are set up; where they are, each start tries until it   *)
(* has bought both packs, also after a kill that lost them; and what was     *)
(* granted is in the file of the process, unless that could not be opened.   *)
GrantedOnce ==
  /\ buying # "no" => ready /\ \A w \in Entries : game[w] = "from"
  /\ pc.at = "running" /\ (\A w \in Entries : game[w] = "from") => grant > 0
  /\ grant = 2 => bought = {0, 1}
  /\ grant = 2 /\ buying = "no" /\ ~writing /\ ~refused => view = {0, 1}
=============================================================================
