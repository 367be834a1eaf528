------------------------------ MODULE JavaArrays ------------------------------
(* jni_fake.c, unity_input_hook.c: strings and arrays as the engine makes and *)
(* reads them.  A string is made of UTF-16 units and kept as the UTF-8 of     *)
(* each, up to the first zero; the engine asks its length, makes a buffer and *)
(* has a region copied into it, with a zero after it when it is UTF-8.  An    *)
(* array knows its length and has its elements copied in and out by regions;  *)
(* a region of a negative length is not refused, and memcpy takes the length  *)
(* for a huge one.                                                            *)
EXTENDS Integers, Sequences, FiniteSets, SequencesExt

CONSTANTS
  UnitBytes,   \* the bytes a unit takes in UTF-8, 0 for the unit zero
  MaxUnits,    \* bound: the length of a string
  MaxArray,    \* bound: the length of an array
  Starts,      \* where a region may begin, before and past the end among them
  Lens,        \* how long it may be asked to be
  Elements     \* what the engine puts into an array

Units == DOMAIN UnitBytes
ArraysAssumption ==
  /\ \A u \in Units : UnitBytes[u] \in 0..3
  /\ MaxUnits \in Nat /\ MaxArray \in Nat /\ Starts \cup Lens \subseteq Int
  /\ \A start \in Starts, len \in Lens : start + len <= 2147483647    \* INT_MAX
  /\ "foreign" \notin Elements

VARIABLES
  units,     \* what the engine made the string of
  bytes,     \* FakeString.utf: [unit, byte of it]
  arr,       \* an array: its length, and the cells from its first element on
  buf,       \* the engine's last region: its buffer's room, what it got, and
             \*   what the region was of, from where and of what length
  dup        \* il2str_dup: the bytes it wrote, and those it allocated

vars == <<units, bytes, arr, buf, dup>>

Zero == "zero"           \* an element of calloc
Foreign == "foreign"     \* what is in memory after an array
Nul == [unit |-> "nul", byte |-> 0]
Nothing == [room |-> 0, got |-> <<>>, of |-> "nothing", from |-> 0, len |-> 0]

Utf8(u) == [k \in 1..UnitBytes[u] |-> [unit |-> u, byte |-> k]]
UpToZero(s) ==
  LET Z == { i \in DOMAIN s : UnitBytes[s[i]] = 0 }
  IN IF Z = {} THEN s ELSE SubSeq(s, 1, (CHOOSE i \in Z : \A j \in Z : i <= j) - 1)
EncodedOf[s \in Seq(Units)] == IF s = <<>> THEN <<>> ELSE EncodedOf[Front(s)] \o Utf8(Last(s))
Encoded(s) == EncodedOf[UpToZero(s)]

(* utf16_len: a unit for each first byte; no unit that a string is made of   *)
(* takes four, which would count as two.                                     *)
UnitsInEach(b) == Len(b)             \* mutant: a unit for each byte
UnitsIn(b) == Cardinality({ i \in DOMAIN b : b[i].byte = 1 })

(* The cells past the end of an array are not its own.                       *)
Cells(n) == [i \in 1..2 * MaxArray |-> IF i <= n THEN Zero ELSE Foreign]

Init ==
  /\ units = <<>> /\ bytes = <<>> /\ arr = [len |-> 0, cells |-> Cells(0)]
  /\ buf = Nothing /\ dup = [wrote |-> 1, room |-> 1]

NewString(s) ==
  /\ units' = s /\ bytes' = Encoded(s)
  /\ dup' = [wrote |-> Len(EncodedOf[s]) + 1, room |-> 3 * Len(s) + 1]
  /\ buf' = Nothing /\ UNCHANGED arr

(* The region is clamped to the bytes there are; offsets of units are taken  *)
(* as offsets of bytes, which they are in a text of single bytes.            *)
Clamp(x, low, high) == IF x < low THEN low ELSE IF x > high THEN high ELSE x
LengthAsked(start, len) == Clamp(len, 0, Len(bytes))    \* mutant: from the beginning
LengthInside(start, len) == Clamp(len, 0, Len(bytes) - start)
Region(start, len) ==
  LET from == Clamp(start, 0, Len(bytes)) IN SubSeq(bytes, from + 1, from + LengthInside(from, len))
GetUTFRegion(start, len) ==
  /\ buf' = [room |-> Clamp(len, 0, len) + 1, got |-> Append(Region(start, len), Nul),
             of |-> "utf", from |-> start, len |-> len]
  /\ UNCHANGED <<units, bytes, arr, dup>>
GetRegion(start, len) ==
  /\ buf' = [room |-> Clamp(len, 0, len), got |-> Region(start, len),
             of |-> "string", from |-> start, len |-> len]
  /\ UNCHANGED <<units, bytes, arr, dup>>

(* GetStringLength, and a buffer of that many units for the whole of it.     *)
GetWhole ==
  /\ buf' = [room |-> UnitsIn(bytes), got |-> Region(0, UnitsIn(bytes)),
             of |-> "string", from |-> 0, len |-> UnitsIn(bytes)]
  /\ UNCHANGED <<units, bytes, arr, dup>>

-----------------------------------------------------------------------------

NewArray(n) ==
  /\ arr' = [len |-> n, cells |-> Cells(n)]
  /\ buf' = Nothing /\ UNCHANGED <<units, bytes, dup>>

(* A region that is not inside the array is not copied.  One of a negative   *)
(* length passes for inside: the copy runs on to the end of the memory there *)
(* is, and the program ends there.                                           *)
InsideBySize(start, len) == start >= 0 /\ len <= arr.len   \* mutant: the start is left out
Inside(start, len) == start >= 0 /\ start + len <= arr.len
CopyEnd(start, len) == IF len < 0 THEN 2 * MaxArray ELSE start + len
SetArrayRegion(start, len, e) ==
  /\ Inside(start, len)
  /\ arr' = [arr EXCEPT !.cells =
                [i \in DOMAIN @ |-> IF i \in start + 1..CopyEnd(start, len) THEN e ELSE @[i]]]
  /\ buf' = [Nothing EXCEPT !.of = "set", !.from = start, !.len = len]
  /\ UNCHANGED <<units, bytes, dup>>
GetArrayRegion(start, len) ==
  /\ Inside(start, len)
  /\ buf' = [room |-> Clamp(len, 0, len), got |-> SubSeq(arr.cells, start + 1, CopyEnd(start, len)),
             of |-> "array", from |-> start, len |-> len]
  /\ UNCHANGED <<units, bytes, arr, dup>>

RanOff == buf.of \in {"set", "array"} /\ buf.len < 0
Restart ==
  /\ RanOff
  /\ units' = <<>> /\ bytes' = <<>> /\ arr' = [len |-> 0, cells |-> Cells(0)]
  /\ buf' = Nothing /\ dup' = [wrote |-> 1, room |-> 1]

Next ==
  \/ /\ ~RanOff
     /\ \/ \E s \in SeqOf(Units, MaxUnits) : NewString(s)
        \/ \E start \in Starts, len \in Lens :
             \/ GetUTFRegion(start, len) \/ GetRegion(start, len)
             \/ GetArrayRegion(start, len)
             \/ \E e \in Elements : SetArrayRegion(start, len, e)
        \/ GetWhole
        \/ \E n \in 0..MaxArray : NewArray(n)
  \/ Restart

Spec == Init /\ [][Next]_vars

SingleBytes == \A i \in DOMAIN units : UnitBytes[units[i]] = 1

TypeOK ==
  /\ units \in Seq(Units) /\ Len(units) <= MaxUnits
  /\ arr.len \in 0..MaxArray /\ DOMAIN arr.cells = 1..2 * MaxArray

(* A string has as many units as the engine made it of, so that a buffer of  *)
(* that many holds any region, and what comes back of a text of single bytes *)
(* is the part that was asked for; a region of UTF-8 takes one byte more than *)
(* was asked for, the zero that ends it.  Nothing is written past that room, *)
(* and past an array nothing is written or read but by a region of a negative *)
(* length, which the engine must not ask for.                                *)
Copied == IF buf.of = "utf" THEN Front(buf.got) ELSE buf.got
ArraysExact ==
  /\ Len(UpToZero(units)) = Len(units) => UnitsIn(bytes) = Len(units)
  /\ dup.wrote <= dup.room
  /\ buf.of = "utf" => buf.got # <<>> /\ Last(buf.got) = Nul
  /\ buf.of \in {"utf", "string"} /\ SingleBytes =>
       \A i \in DOMAIN Copied : buf.from >= 0 => Copied[i].unit = units[buf.from + i]
  /\ buf.of \in {"utf", "string"} /\ buf.from >= 0 /\ buf.from + buf.len <= Len(bytes) =>
       Len(buf.got) = buf.room
  /\ \/ RanOff
     \/ /\ Len(buf.got) <= buf.room
        /\ \A i \in DOMAIN arr.cells : i > arr.len => arr.cells[i] = Foreign
        /\ buf.of = "array" => \A i \in DOMAIN buf.got : buf.got[i] # Foreign
=============================================================================
