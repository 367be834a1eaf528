--------------------------------- MODULE Prefs --------------------------------
(* unity_jni.c and unity_input_hook.c: the game's preferences, which hold its *)
(* progress: a list of typed entries in memory and lines of text in a file.  *)
(* SaveStore has when the file reaches the card; here is what is in it.       *)
EXTENDS Naturals, Sequences, SequencesExt

CONSTANTS
  Chars,          \* the characters of texts: "tab", "nl", "bs", "t", "n" and others
  Keys,           \* texts
  Types,          \* the one-letter types: strings, integers, longs, ...
  Values,         \* the texts of the values of each: [type -> a set of texts]
  Orders,         \* orders in which the engine asks for the class of a value
  LineMax,        \* size of the buffer a line is read into: 2048
  MaxEntries,     \* bound on the entries
  None

Texts == Seq(Chars)
Entries == [type : Chars, key : Texts, val : Texts]

PrefsAssumption ==
  /\ LineMax \in Nat /\ LineMax > 2 /\ MaxEntries \in Nat
  /\ Types \subseteq {"S", "I", "L", "B", "F"} /\ Types = DOMAIN Values
  /\ Types \cup {"tab", "nl", "bs", "t", "n"} \subseteq Chars
  /\ Keys \subseteq Texts /\ \A t \in Types : Values[t] \subseteq Texts
  /\ Orders \subseteq Seq(Types) /\ \A o \in Orders : ToSet(o) = Types

VARIABLES
  kv,       \* g_kv[0 .. g_kv_n-1]
  dirty,    \* g_kv_dirty
  file,     \* the text of prefs.kv
  iter,     \* the Java iterator of getAll: index, the keys it gave; None
  want,     \* what the game set last, by key,
  kept      \*   and what of it the file is to hold (neither in the code)

vars == <<kv, dirty, file, iter, want, kept>>

Entry(t, k, v) == [type |-> t, key |-> k, val |-> v]
AsMap(list) == [k \in { list[i].key : i \in DOMAIN list } |->
                  LET e == list[CHOOSE i \in DOMAIN list : list[i].key = k] IN <<e.type, e.val>>]
NoPrefs == AsMap(<<>>)

-----------------------------------------------------------------------------
(* The text.  esc writes a tab, a newline and a backslash as two characters; *)
(* unesc holds a backslash back until it sees what follows, if anything does. *)
Letter(c) == CASE c = "tab" -> "t" [] c = "nl" -> "n" [] c = "bs" -> "bs"
Escaped(c) == IF c \in {"tab", "nl", "bs"} THEN <<"bs", Letter(c)>> ELSE <<c>>
Esc[s \in Texts] == IF s = <<>> THEN <<>> ELSE Esc[Front(s)] \o Escaped(Last(s))

Meant(c) == CASE c = "t" -> "tab" [] c = "n" -> "nl" [] OTHER -> c
AndThen(r, c) ==
  IF r.held # <<>> THEN [out |-> Append(r.out, Meant(c)), held |-> <<>>]
  ELSE IF c = "bs" THEN [out |-> r.out, held |-> <<c>>]
  ELSE [out |-> Append(r.out, c), held |-> <<>>]
Unescaping[s \in Texts] ==
  IF s = <<>> THEN [out |-> <<>>, held |-> <<>>] ELSE AndThen(Unescaping[Front(s)], Last(s))
Unesc(s) == Unescaping[s].out \o Unescaping[s].held

Line(e) == <<e.type, "tab">> \o Esc[e.key] \o <<"tab">> \o Esc[e.val] \o <<"nl">>
Written[list \in Seq(Entries)] ==
  IF list = <<>> THEN <<>> ELSE Written[Front(list)] \o Line(Last(list))

(* prefs_load puts each line through kv_set; one without a second tab is not *)
(* an entry.  fgets reads a line up to its newline, and no more of it than    *)
(* the buffer holds.                                                         *)
IndexOf(k, list) == { i \in DOMAIN list : list[i].key = k }
Set(list, e) ==
  IF IndexOf(e.key, list) # {}
  THEN [i \in DOMAIN list |-> IF i \in IndexOf(e.key, list) THEN e ELSE list[i]]
  ELSE Append(list, e)
TabAfter(l) == { i \in 3..Len(l) : l[i] = "tab" /\ \A j \in 3..(i - 1) : l[j] # "tab" }
Parsed(list, l0) ==
  LET l == IF Last(l0) = "nl" THEN Front(l0) ELSE l0 IN
  IF l = <<>> \/ TabAfter(l) = {} THEN list
  ELSE LET t == CHOOSE i \in TabAfter(l) : TRUE IN
       Set(list, Entry(l[1], Unesc(SubSeq(l, 3, t - 1)), Unesc(SubSeq(l, t + 1, Len(l)))))
Gets(r, c) ==
  LET l == Append(r.line, c) IN
  IF c = "nl" \/ Len(l) = LineMax - 1 THEN [list |-> Parsed(r.list, l), line |-> <<>>]
                                      ELSE [list |-> r.list, line |-> l]
Loading[text \in Texts] ==
  IF text = <<>> THEN [list |-> <<>>, line |-> <<>>] ELSE Gets(Loading[Front(text)], Last(text))
Loaded(text) ==
  LET r == Loading[text] IN IF r.line = <<>> THEN r.list ELSE Parsed(r.list, r.line)

-----------------------------------------------------------------------------
Init ==
  /\ kv = <<>> /\ dirty = FALSE /\ file = <<>>
  /\ iter = None /\ want = NoPrefs /\ kept = NoPrefs

(* kv_set, from a PlayerPrefs hook or from a put of the Java editor, which   *)
(* skips an empty key.  Here the line fits the buffer of prefs_load.         *)
Fits(e) == Len(Line(e)) < LineMax
Put ==
  \E k \in Keys, t \in Types : \E v \in Values[t] :
    /\ Fits(Entry(t, k, v))
    /\ Len(Set(kv, Entry(t, k, v))) <= MaxEntries
    /\ kv' = Set(kv, Entry(t, k, v)) /\ dirty' = TRUE
    /\ want' = [x \in DOMAIN want \cup {k} |-> IF x = k THEN <<t, v>> ELSE want[x]]
    /\ iter' = None
    /\ UNCHANGED <<file, kept>>

(* kv_remove: the last entry takes the place of the one removed.             *)
LastInto(i) == SubSeq([kv EXCEPT ![i] = kv[Len(kv)]], 1, Len(kv) - 1)
DeleteKey ==
  \E k \in Keys :
    /\ IF IndexOf(k, kv) = {} THEN UNCHANGED <<kv, dirty>>
       ELSE \E i \in IndexOf(k, kv) : kv' = LastInto(i) /\ dirty' = TRUE
    /\ want' = [x \in DOMAIN want \ {k} |-> want[x]]
    /\ iter' = None
    /\ UNCHANGED <<file, kept>>

Clear ==
  /\ kv' = <<>> /\ dirty' = TRUE /\ want' = NoPrefs /\ iter' = None
  /\ UNCHANGED <<file, kept>>

(* prefs_flush: PlayerPrefs.Save, the editor's apply and commit, the loop.   *)
(* One whose fopen fails changes nothing: no step.                           *)
Flush ==
  /\ IF dirty THEN file' = Written[kv] ELSE UNCHANGED file
  /\ dirty' = FALSE /\ kept' = want
  /\ UNCHANGED <<kv, iter, want>>

(* The program is started again. *)
Boot ==
  /\ kv' = Loaded(file) /\ dirty' = FALSE
  /\ want' = kept /\ iter' = None
  /\ UNCHANGED <<file, kept>>

(* getValue gives a string, or a box whose class is that of its type; the    *)
(* engine asks IsInstanceOf for one class after the other, and unboxes by    *)
(* the first that fits.  A number is kept in decimal and read back as it was. *)
InstanceOf(e, c) == IF e.type \in {"I", "L", "B", "F"} THEN c = e.type ELSE c = "S"
FirstOf(e, order) ==
  { i \in DOMAIN order : InstanceOf(e, order[i]) /\ \A j \in 1..(i - 1) : ~InstanceOf(e, order[j]) }
Seen(e, order) == Entry(order[CHOOSE i \in FirstOf(e, order) : TRUE], e.key, e.val)

(* getAll().entrySet().iterator(): an index into the live list; each next    *)
(* makes an entry of its own, which reads the list when it is asked.         *)
GetAll == \E o \in Orders :
  /\ iter' = [idx |-> 0, gave |-> <<>>, order |-> o]
  /\ UNCHANGED <<kv, dirty, file, want, kept>>
HasNext == iter # None /\ iter.idx < Len(kv)
NextEntry ==
  /\ HasNext
  /\ iter' = [iter EXCEPT !.idx = @ + 1, !.gave = Append(@, Seen(kv[iter.idx + 1], iter.order))]
  /\ UNCHANGED <<kv, dirty, file, want, kept>>

Next == Put \/ DeleteKey \/ Clear \/ Flush \/ Boot \/ GetAll \/ NextEntry

Spec == Init /\ [][Next]_vars

TypeOK ==
  /\ \A i \in DOMAIN kv :
       kv[i].type \in Types /\ kv[i].key \in Keys /\ kv[i].val \in Values[kv[i].type]
  /\ dirty \in BOOLEAN

(* What the game set last under each key, with its type, is what it gets     *)
(* back, from memory, from an enumeration of all entries and, once flushed,  *)
(* after a restart: whatever tabs, newlines and backslashes keys and values  *)
(* have, in whatever order entries were replaced and removed, and in         *)
(* whatever order the classes of the values are asked for.                   *)
PrefsKept ==
  /\ \A i, j \in DOMAIN kv : kv[i].key = kv[j].key => i = j
  /\ AsMap(kv) = want
  /\ AsMap(Loaded(file)) = kept
  /\ iter # None /\ ~HasNext => /\ AsMap(iter.gave) = want
                                /\ Len(iter.gave) = Len(kv)
=============================================================================
