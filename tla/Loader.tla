-------------------------------- MODULE Loader --------------------------------
(* so_util.c, with load_module and main of main.c: the game's modules are     *)
(* copied into a zone kept for them, relocated, bound to the shims and to     *)
(* each other, and turned into code memory, one after the other, before any   *)
(* code of theirs runs.                                                       *)
EXTENDS Integers, Sequences, FiniteSets, SequencesExt

CONSTANTS
  Modules,    \* libmain, libunity, libil2cpp, in the order main loads them
  Shims,      \* the names of the import tables (build_combined)
  Stubs,      \* the names firebase_stub_lookup answers
  Defines,    \* the symbols each module exports,
  Imports,    \*   and those it refers to and does not define
  Sizes,      \* sizes a module may have, in pages
  Zone,       \* SO_REGION_BYTES, in pages
  Bits,       \* how many words a bitmap entry of a RELR table covers: 63
  Tables,     \* RELR tables a module may have
  None

Mods == ToSet(Modules)

LoaderAssumption ==
  /\ Modules \in Seq(Mods) /\ Modules # <<>>
  /\ \A i, j \in DOMAIN Modules : Modules[i] = Modules[j] => i = j
  /\ \A m \in Mods : Defines[m] \cap Imports[m] = {}
  /\ {None, "shim", "stub"} \cap Mods = {} /\ None \notin {"shim", "stub"}
  /\ Sizes \subseteq Nat /\ Zone \in Nat /\ Bits \in Nat

(* A RELR table, as linkers write it: even entries are addresses, odd ones   *)
(* bitmaps, and the first is an address.                                     *)
RelrAssumption ==
  \A t \in Tables :
    /\ t \in Seq(ToSet(t)) /\ (t # <<>> => t[1].kind = "address")
    /\ \A i \in DOMAIN t :
         IF t[i].kind = "address" THEN t[i].at \in Nat
         ELSE t[i].kind = "bitmap" /\ t[i].bits \subseteq 1..Bits

VARIABLES
  at,      \* where main is: a step, and the module it is at
  list,    \* so_list
  mod,     \* of each module: its image, where its tables are read, its file
  slot,    \* what each import of each module is bound to
  page,    \* permission of each page of each image
  scan,    \* so_finalize: the pass and the page it is at
  relr,    \* so_process_relr: the table, the entry, where, and how often each
           \*   word of the image was relocated
  ran      \* the modules whose init arrays were run

vars == <<at, list, mod, slot, page, scan, relr, ran>>

At(s, i) == [step |-> s, i |-> i]
M == Modules[at.i]
NoModule == [first |-> 0, size |-> 0, code |-> {}, view |-> "none", file |-> FALSE]
PagesOf(m) == 0..(mod[m].size - 1)

Init ==
  /\ at = At("load", 1)
  /\ list = <<>>
  /\ mod = [m \in Mods |-> NoModule]
  /\ slot = [m \in Mods |-> [s \in Imports[m] |-> None]]
  /\ page = [m \in Mods |-> <<>>]
  /\ scan = [pass |-> "x", pg |-> 0]
  /\ relr = [table |-> <<>>, i |-> 1, where |-> 0, hits |-> <<>>]
  /\ ran = <<>>

(* load_module gives so_load what is left of the zone. *)
ZoneBase == IF list = <<>> THEN 0 ELSE mod[Last(list)].first + mod[Last(list)].size
ZoneLeft == Zone - ZoneBase
Fits(size) == size <= ZoneLeft

(* so_load: the file is read, its segments are copied to the zone and its    *)
(* tables are found there; anything else than success is fatal to main.      *)
SoLoad ==
  /\ at.step = "load"
  /\ \E size \in Sizes : \E code \in SUBSET (0..(size - 1)), table \in Tables :
       /\ Fits(size)
       /\ mod' = [mod EXCEPT ![M] = [first |-> ZoneBase, size |-> size, code |-> code,
                                     view |-> "source", file |-> TRUE]]
       /\ page' = [page EXCEPT ![M] = [p \in 0..(size - 1) |-> "source"]]
       /\ relr' = [table |-> table, i |-> 1, where |-> 0, hits |-> [w \in 0..(2 * Bits) |-> 0]]
  /\ list' = Append(list, M)
  /\ at' = At("relr", at.i)
  /\ UNCHANGED <<slot, scan, ran>>
LoadFails ==
  /\ at.step = "load"
  /\ at' = At("fatal", at.i)
  /\ UNCHANGED <<list, mod, slot, page, scan, relr, ran>>

(* so_process_relr: an address entry relocates one word and sets the place   *)
(* the bitmaps that follow count from; each of them moves it on.             *)
Relocated(hits, W) == [w \in DOMAIN hits |-> hits[w] + (IF w \in W THEN 1 ELSE 0)]
AddressEntry ==
  LET e == relr.table[relr.i] IN
  /\ at.step = "relr" /\ relr.i <= Len(relr.table) /\ e.kind = "address"
  /\ relr' = [relr EXCEPT !.hits = Relocated(@, {e.at}), !.where = e.at + 1, !.i = @ + 1]
  /\ UNCHANGED <<at, list, mod, slot, page, scan, ran>>
SpanWord == Bits + 1                 \* mutant: a whole word of bits
Span == Bits
BitmapEntry ==
  LET e == relr.table[relr.i] IN
  /\ at.step = "relr" /\ relr.i <= Len(relr.table) /\ e.kind = "bitmap"
  /\ relr' = [relr EXCEPT !.hits = Relocated(@, { relr.where + b - 1 : b \in e.bits }),
                          !.where = @ + Span, !.i = @ + 1]
  /\ UNCHANGED <<at, list, mod, slot, page, scan, ran>>

(* so_lookup_export and the two orders of looking a name up: so_resolve asks *)
(* the shims first and then the other modules, dlsym the modules first.      *)
ExportsAny(m, s) == s \in Defines[m] \cup Imports[m]   \* mutant: undefined ones too
Exports(m, s) == s \in Defines[m]
FoundIn(I, s) ==
  LET found == { i \in I : Exports(list[i], s) } IN
  IF found = {} THEN None ELSE list[Min(found)]
ResolveSymbol(m, s) ==
  IF s \in Shims THEN "shim" ELSE FoundIn({ i \in DOMAIN list : list[i] # m }, s)
Dlsym(s) ==
  IF FoundIn(DOMAIN list, s) # None THEN FoundIn(DOMAIN list, s)
  ELSE IF s \in Shims THEN "shim" ELSE IF s \in Stubs THEN "stub" ELSE None

(* so_resolve, called for each module as soon as it is loaded: an import     *)
(* that is nowhere is poisoned.                                              *)
Poisoned(v) == IF v = None THEN "poison" ELSE v
Resolve ==
  /\ at.step = "relr" /\ relr.i = Len(relr.table) + 1
  /\ slot' = [slot EXCEPT ![M] = [s \in Imports[M] |-> Poisoned(ResolveSymbol(M, s))]]
  /\ at' = IF at.i < Len(Modules) THEN At("load", at.i + 1) ELSE At("map", 1)
  /\ UNCHANGED <<list, mod, page, scan, relr, ran>>

(* so_finalize: the image becomes code memory, runs of executable pages are  *)
(* made RX, then the runs of the others RW, then the tables are read where   *)
(* the image is mapped.                                                      *)
MapCode ==
  /\ at.step = "map"
  /\ page' = [page EXCEPT ![M] = [p \in PagesOf(M) |-> "code"]]
  /\ scan' = [pass |-> "x", pg |-> 0]
  /\ at' = At("permit", at.i)
  /\ UNCHANGED <<list, mod, slot, relr, ran>>

Wanted(p) == (p \in mod[M].code) = (scan.pass = "x")
RunEnd == CHOOSE e \in scan.pg..mod[M].size :
            /\ \A p \in scan.pg..(e - 1) : Wanted(p)
            /\ e = mod[M].size \/ ~Wanted(e)
PermitRun ==
  /\ at.step = "permit" /\ scan.pg < mod[M].size
  /\ IF Wanted(scan.pg)
     THEN /\ page' = [page EXCEPT ![M] = [p \in PagesOf(M) |->
                        IF p \in scan.pg..(RunEnd - 1)
                        THEN IF page[M][p] = "code" THEN IF scan.pass = "x" THEN "rx" ELSE "rw"
                             ELSE "twice"
                        ELSE page[M][p]]]
          /\ scan' = [scan EXCEPT !.pg = RunEnd]
     ELSE scan' = [scan EXCEPT !.pg = @ + 1] /\ UNCHANGED page
  /\ UNCHANGED <<at, list, mod, slot, relr, ran>>

Rebased == [mod EXCEPT ![M].view = "mapped"]
EndPass ==
  /\ at.step = "permit" /\ scan.pg = mod[M].size
  /\ \/ scan.pass = "x" /\ scan' = [pass |-> "w", pg |-> 0] /\ UNCHANGED <<at, mod>>
     \/ /\ scan.pass = "w"
        /\ mod' = Rebased
        /\ at' = IF at.i < Len(Modules) THEN At("map", at.i + 1) ELSE At("init", 1)
        /\ UNCHANGED scan
  /\ UNCHANGED <<list, slot, page, relr, ran>>

(* so_execute_init_array reads the section headers in the file's copy; main  *)
(* frees the copies after the last.                                          *)
InitArray ==
  /\ at.step = "init"
  /\ ran' = Append(ran, [m |-> M, file |-> mod[M].file])
  /\ IF at.i < Len(Modules)
     THEN at' = At("init", at.i + 1) /\ UNCHANGED mod
     ELSE at' = At("run", 1) /\ mod' = [m \in Mods |-> [mod[m] EXCEPT !.file = FALSE]]
  /\ UNCHANGED <<list, slot, page, scan, relr>>

Next == \/ SoLoad \/ LoadFails \/ AddressEntry \/ BitmapEntry \/ Resolve
        \/ MapCode \/ PermitRun \/ EndPass \/ InitArray

Spec == Init /\ [][Next]_vars

TypeOK ==
  /\ at.i \in 1..Len(Modules)
  /\ \A m \in Mods : \A s \in Imports[m] : slot[m][s] \in Mods \cup {None, "shim", "poison"}
  /\ ToSet(list) \subseteq Mods

(* Once code of the game may run, an import is bound to its shim, or to the  *)
(* export dlsym finds for the name where a module loaded before exports it,  *)
(* and is poisoned otherwise: a name means the same to the linker and to     *)
(* dlsym, but for a shim of a name that a module exports too and for a name  *)
(* that only a later module exports, which the linker never finds.           *)
Earlier(i) == { Modules[j] : j \in 1..(i - 1) }
BoundLikeDlsym ==
  at.step \in {"init", "run"} =>
    \A i \in DOMAIN Modules : \A s \in Imports[Modules[i]] :
      slot[Modules[i]][s] = IF s \in Shims THEN "shim"
                            ELSE IF Dlsym(s) \in Earlier(i) THEN Dlsym(s) ELSE "poison"

(* The images lie apart in the zone; when code may run every page got its    *)
(* permission once, executable exactly where a code segment is, the tables   *)
(* are read where the image is mapped, and every module's constructors ran   *)
(* once, in load order, from a file copy that was still there.               *)
ImagesWhole ==
  /\ \A m, n \in ToSet(list) : m # n =>
       mod[m].first + mod[m].size <= mod[n].first \/ mod[n].first + mod[n].size <= mod[m].first
  /\ \A m \in ToSet(list) : mod[m].first + mod[m].size <= Zone
  /\ at.step \in {"init", "run"} =>
       \A m \in Mods : /\ mod[m].view = "mapped"
                       /\ \A p \in PagesOf(m) : page[m][p] = IF p \in mod[m].code THEN "rx" ELSE "rw"
  /\ Len(ran) <= Len(Modules)
  /\ \A i \in DOMAIN ran : ran[i].m = Modules[i] /\ ran[i].file

(* The packed table relocates each word it stands for as often as it names   *)
(* it: an address names its word, the k-th bitmap after it the words of its  *)
(* bits from k bitmaps on.                                                   *)
Anchor(t, i) == CHOOSE a \in 1..i : /\ t[a].kind = "address"
                                    /\ \A j \in (a + 1)..i : t[j].kind = "bitmap"
Names(t, i, w) ==
  IF t[i].kind = "address" THEN w = t[i].at
  ELSE \E b \in t[i].bits : w = t[Anchor(t, i)].at + 1 + Bits * (i - Anchor(t, i) - 1) + b - 1
RelocatedOnce ==
  at.step = "relr" /\ relr.i = Len(relr.table) + 1 =>
    \A w \in DOMAIN relr.hits :
      relr.hits[w] = Cardinality({ i \in DOMAIN relr.table : Names(relr.table, i, w) })
=============================================================================
