----------------------------- MODULE JavaStreams ------------------------------
(* unity_jni.c: the handles of assets opened through Java: input streams with *)
(* a FILE of their own, asset file descriptors, and the file descriptors the  *)
(* engine gets from those, which carry the same number.  No handle is ever    *)
(* freed; and newlib gives a number again once it is closed.                  *)
EXTENDS Integers, FiniteSets

CONSTANTS
  Sizes,       \* of the assets: [name -> Nat]
  Handles,     \* the UHandles the engine makes
  Fds,         \* descriptors newlib hands out
  Chunks,      \* how much the engine reads at once; 0 and more
  Skips,       \* how far it skips
  WithinFile,  \* it skips no further than the file is long
  FdFirst,     \* it closes the asset descriptor only after its last use
  None

Assets == DOMAIN Sizes
StreamsAssumption ==
  /\ None \notin Assets /\ None \notin Fds /\ WithinFile \in BOOLEAN /\ FdFirst \in BOOLEAN
  /\ \A a \in Assets : Sizes[a] \in Nat
  /\ Chunks \subseteq Nat /\ Skips \subseteq Int

VARIABLES
  h,        \* the handles: kind, descriptor, position of the FILE, length; and
            \*   the asset each was made for (kept by no code)
  open,     \* newlib: the asset each descriptor is open on
  got       \* what the last call on a stream gave: handle, position before,
            \*   asked for, answered

vars == <<h, open, got>>

Unmade == [kind |-> "none", fd |-> None, pos |-> 0, len |-> 0, asset |-> None]
NoCall == [op |-> "none", h |-> None, from |-> 0, n |-> 0, ret |-> 0]

Init ==
  /\ h = [x \in Handles |-> Unmade]
  /\ open = [d \in Fds |-> None]
  /\ got = NoCall

Fresh(x) == h[x].kind = "none"
LowestFree == { d \in Fds : open[d] = None /\ \A e \in Fds : e < d => open[e] # None }
Make(x, kind, d, a) ==
  h' = [h EXCEPT ![x] = [kind |-> kind, fd |-> d, pos |-> 0, asset |-> a,
                         len |-> IF kind = "afd" THEN Sizes[a] ELSE 0]]

(* AssetManager.open and openFd; a file that is missing gives no handle. *)
Open(kind) == \E x \in Handles, a \in Assets, d \in LowestFree :
  /\ Fresh(x)
  /\ Make(x, kind, d, a)
  /\ open' = [open EXCEPT ![d] = a]
  /\ got' = NoCall
OpenStream == Open("stream")
OpenFd == Open("afd")

(* getFileDescriptor, of an AssetFileDescriptor.                             *)
GetFileDescriptor == \E x, y \in Handles :
  /\ h[x].kind = "afd" /\ (FdFirst => h[x].fd # None) /\ Fresh(y)
  /\ Make(y, "fd", h[x].fd, h[x].asset)
  /\ got' = NoCall
  /\ UNCHANGED open

Least(m, n) == IF m < n THEN m ELSE n
Left(x) == LET left == Sizes[h[x].asset] - h[x].pos IN IF left < 0 THEN 0 ELSE left
Gave(op, x, n, ret) == got' = [op |-> op, h |-> x, from |-> h[x].pos, n |-> n, ret |-> ret]
Streams == { x \in Handles : h[x].kind = "stream" }

(* InputStream.read: one byte, or an array; nothing read is the end, -1.     *)
Answer(k) == IF k = 0 THEN -1 ELSE k
Read == \E x \in Streams, n \in Chunks :
  /\ IF h[x].fd = None THEN UNCHANGED h /\ Gave("closed", x, n, -1)
     ELSE LET k == Least(n, Left(x)) IN
          h' = [h EXCEPT ![x].pos = @ + k] /\ Gave("read", x, n, Answer(k))
  /\ UNCHANGED open

(* available: from the position to the end, and back to the position.        *)
PosAfterAsking(x) == h[x].pos
PosLeftAtEnd(x) == Sizes[h[x].asset] \* mutant of PosAfterAsking
Available == \E x \in Streams :
  /\ h[x].fd # None
  /\ h' = [h EXCEPT ![x].pos = PosAfterAsking(x)]
  /\ Gave("available", x, 0, Sizes[h[x].asset] - h[x].pos)
  /\ UNCHANGED open

(* skip: fseek goes past the end too, and the answer is what was asked.      *)
Skip == \E x \in Streams, n \in Skips :
  /\ h[x].fd # None /\ h[x].pos + n >= 0
  /\ WithinFile => h[x].pos + n <= Sizes[h[x].asset]
  /\ h' = [h EXCEPT ![x].pos = @ + n]
  /\ Gave("skip", x, n, n)
  /\ UNCHANGED open

(* close, of a stream or an asset descriptor; a second one does nothing. *)
InUse(x) == \E y \in Handles : h[y].kind = "fd" /\ h[y].fd = h[x].fd
ClosedKept(x) == [h EXCEPT ![x].pos = 0]        \* mutant: a closed handle keeps its number
Closed(x) == [h EXCEPT ![x].fd = None, ![x].pos = 0]
Close == \E x \in Handles :
  /\ h[x].kind \in {"stream", "afd"} /\ got' = NoCall
  /\ IF h[x].fd = None THEN UNCHANGED <<h, open>>
     ELSE /\ FdFirst /\ h[x].kind = "afd" => ~InUse(x)
          /\ open' = [open EXCEPT ![h[x].fd] = None]
          /\ h' = Closed(x)

(* The engine is done with a file descriptor, and forgets its handle. *)
Drop == \E y \in Handles :
  /\ h[y].kind = "fd" /\ h' = [h EXCEPT ![y] = Unmade] /\ got' = NoCall
  /\ UNCHANGED open

Next == \/ OpenStream \/ OpenFd \/ GetFileDescriptor \/ Read \/ Available
        \/ Skip \/ Close \/ Drop

Spec == Init /\ [][Next]_vars

TypeOK ==
  /\ \A x \in Handles : h[x].fd \in Fds \cup {None} /\ h[x].pos >= 0
  /\ \A d \in Fds : open[d] \in Assets \cup {None}

(* A stream answers with the bytes that follow what was read and skipped, -1 *)
(* only when a byte was asked for at the end, and says truly how many are    *)
(* left; and the descriptor of every handle that is not closed is open on    *)
(* the asset the handle was made for, whatever was closed and opened since.  *)
StreamsRight ==
  /\ got.op \in {"read", "available"} =>
       LET left == Sizes[h[got.h].asset] - got.from IN
         /\ got.op = "read" /\ got.n > 0 => got.ret = IF left = 0 THEN -1 ELSE Least(got.n, left)
         /\ got.op = "available" => got.ret = left /\ got.ret >= 0 /\ h[got.h].pos = got.from
  /\ \A x \in Handles : h[x].fd # None => open[h[x].fd] = h[x].asset
  /\ \A x, y \in Handles : x # y /\ h[x].fd # None /\ h[x].fd = h[y].fd =>
       "fd" \in {h[x].kind, h[y].kind}
=============================================================================
