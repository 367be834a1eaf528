------------------------------ MODULE JavaNames -------------------------------
(* jni_fake.c: the pools in which classes, method and field ids, objects and  *)
(* strings are kept by name, so that a name asked for again gets the same     *)
(* handle.  A pool has a fixed size; an id stands for a class, a name and a   *)
(* signature, and a name is kept as far as its field holds it; objects and    *)
(* strings are looked up under locals_lock, classes and ids under no lock.    *)
EXTENDS Naturals, FiniteSets

CONSTANTS
  Threads,
  Names,        \* what is asked of each pool: [pool -> a set of names]; an id
                \*   is named by a sequence of its class, name and signature
  Cut,          \* what the field of a pool keeps of a name: [pool -> [name -> name]]
  Limit,        \* MAX_CLASSES, MAX_IDS, MAX_IOBJ, MAX_ISTR: [pool -> Nat]
  LoneIntern,   \* the engine asks for classes and ids from one thread at a time
  None

Pools == DOMAIN Names
NamesAssumption ==
  /\ Pools \subseteq {"class", "id", "object", "string"}
  /\ \A p \in Pools : Limit[p] \in Nat \ {0} /\ None \notin Names[p]
  /\ LoneIntern \in BOOLEAN
  /\ \A p \in Pools : \A r \in Names[p] :
       /\ p \in DOMAIN Cut /\ r \in DOMAIN Cut[p] /\ Cut[p][r] # None
       /\ p = "string" => Cut[p][r] = r
       /\ Cut[p][r] \in Names[p] => Cut[p][Cut[p][r]] = Cut[p][r]

VARIABLES
  entry,     \* the entries of each pool: a name, None before it is written
  count,     \* class_count, id_count, iobj_count, istr_count
  call,      \* the lookup each thread is in: pool, name, step, entry
  gave       \* the last handle each thread got, with what it asked for

vars == <<entry, count, call, gave>>

Idle == [pool |-> None, name |-> None, at |-> "idle", i |-> 0]
Nothing == [pool |-> None, name |-> None, i |-> 0, full |-> FALSE]

Init ==
  /\ entry = [p \in Pools |-> [i \in 1..Limit[p] |-> None]]
  /\ count = [p \in Pools |-> 0]
  /\ call = [t \in Threads |-> Idle]
  /\ gave = [t \in Threads |-> Nothing]

(* locals_lock serialises the lookups of objects and strings. *)
Locked == {"object", "string"}
Entering(p) ==
  LET serial == IF p \in Locked THEN Locked ELSE IF LoneIntern THEN Pools \ Locked ELSE {}
  IN \A t \in Threads : call[t].pool \notin serial

Ask(t) == \E p \in Pools : \E r \in Names[p] :
  /\ call[t] = Idle /\ Entering(p)
  /\ call' = [call EXCEPT ![t] = [pool |-> p, name |-> r, at |-> "look", i |-> 0]]
  /\ UNCHANGED <<entry, count, gave>>

(* strcmp of what is asked, for an id of all three parts, with what is kept:  *)
(* a name that was cut is not found any more, and a shorter one that is what *)
(* was kept of it is.                                                        *)
SameByName(p, kept, r) ==            \* mutant: ids are found by their name alone
  IF p = "id" THEN kept # None /\ kept[2] = r[2] ELSE kept = r
Same(p, kept, r) == kept = r

Returned(t, i, full) ==
  /\ gave' = [gave EXCEPT ![t] = [pool |-> call[t].pool, name |-> call[t].name,
                                  i |-> i, full |-> full]]
  /\ call' = [call EXCEPT ![t] = Idle]

Kept(t) == { i \in 1..count[call[t].pool] :
               Same(call[t].pool, entry[call[t].pool][i], call[t].name) }
First(S) == CHOOSE i \in S : \A j \in S : i <= j

Found(t) ==
  /\ call[t].at = "look" /\ Kept(t) # {}
  /\ Returned(t, First(Kept(t)), FALSE)
  /\ UNCHANGED <<entry, count>>

(* A full pool answers its first entry; for a string one is made that is in  *)
(* no pool, which JniRefs has.                                               *)
Full(t) ==
  /\ call[t].at = "look" /\ Kept(t) = {} /\ count[call[t].pool] >= Limit[call[t].pool]
  /\ Returned(t, IF call[t].pool = "string" THEN 0 ELSE 1, TRUE)
  /\ UNCHANGED <<entry, count>>

(* &pool[count++], then the name.                                            *)
Take(t) ==
  /\ call[t].at = "look" /\ Kept(t) = {} /\ count[call[t].pool] < Limit[call[t].pool]
  /\ call' = [call EXCEPT ![t].at = "count", ![t].i = count[call[t].pool] + 1]
  /\ UNCHANGED <<entry, count, gave>>
Count(t) ==
  /\ call[t].at = "count"
  /\ count' = [count EXCEPT ![call[t].pool] = call[t].i]
  /\ call' = [call EXCEPT ![t].at = "write"]
  /\ UNCHANGED <<entry, gave>>
Write(t) ==
  /\ call[t].at = "write"
  /\ entry' = [entry EXCEPT ![call[t].pool][call[t].i] = Cut[call[t].pool][call[t].name]]
  /\ Returned(t, call[t].i, FALSE)
  /\ UNCHANGED count

Next == \E t \in Threads :
  Ask(t) \/ Found(t) \/ Full(t) \/ Take(t) \/ Count(t) \/ Write(t)

Spec == Init /\ [][Next]_vars

KeptOf(p) == { Cut[p][r] : r \in Names[p] }
TypeOK ==
  /\ \A p \in Pools : /\ count[p] \in 0..Limit[p]
                      /\ \A i \in 1..Limit[p] : entry[p][i] \in KeptOf(p) \cup {None}
  /\ \A t \in Threads : call[t].at \in {"idle", "look", "count", "write"}

(* Until its pool is full, a handle stands for what its field keeps of the    *)
(* name it was asked with; and that has one entry, unless it is what is kept  *)
(* of a longer name, so that only names longer than their fields can fill a  *)
(* pool by being asked for again, or be answered for one another.            *)
CutTo(p, k) == \E r \in Names[p] : Cut[p][r] # r /\ Cut[p][r] = k
NamesOneToOne ==
  /\ \A t \in Threads : gave[t] # Nothing /\ ~gave[t].full =>
       entry[gave[t].pool][gave[t].i] = Cut[gave[t].pool][gave[t].name]
  /\ \A p \in Pools : \A i, j \in 1..count[p] :
       i # j /\ entry[p][i] # None /\ ~CutTo(p, entry[p][i]) => entry[p][i] # entry[p][j]
=============================================================================
