---------------------------- MODULE PageAllocator ----------------------------
(***************************************************************************)
(* What an mmap arena promises the engine, whatever its bitmaps look like: *)
(* a range it reserves is nobody else's and has nothing behind it; a page  *)
(* it commits gets a physical page no other page has, and keeps it; a      *)
(* range it takes back was the engine's to give.                           *)
(***************************************************************************)
EXTENDS Integers

CONSTANTS Page, Ids

VARIABLES
  owned,     \* the pages each live reservation still holds
  backing    \* the physical page behind each page, Unbacked if there is none

Unbacked == -1
Backed   == {p \in Page : backing[p] # Unbacked}

Init == /\ owned = [i \in Ids |-> {}]
        /\ backing = [p \in Page |-> Unbacked]

Reserve(i) ==
  \E r \in SUBSET Page :
    /\ \A j \in Ids \ {i} : r \cap owned[j] = {}
    /\ owned[i] = {} /\ r \cap Backed = {}
    /\ owned' = [owned EXCEPT ![i] = r]
    /\ UNCHANGED backing

Commit(i) ==
  /\ \A p \in Page : backing'[p] # backing[p] => p \in owned[i] \ Backed
  /\ \A p, q \in Page : backing'[p] = backing'[q] => p = q \/ backing'[p] = Unbacked
  /\ backing' \in [Page -> Int]
  /\ UNCHANGED owned

Release(i) ==
  \E r \in SUBSET owned[i] :
    owned' = [owned EXCEPT ![i] = @ \ r] /\ UNCHANGED backing

Next == \E i \in Ids : Reserve(i) \/ Commit(i) \/ Release(i)

Spec == Init /\ [][Next]_<<owned, backing>>

=============================================================================
