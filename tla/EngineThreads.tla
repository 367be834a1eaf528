---------------------------- MODULE EngineThreads ----------------------------
(* imports.c: the threads the engine makes and their thread-local values.     *)
(* libnx has few real keys, so one of them holds, for each thread, an array   *)
(* with the values of every key the engine creates; the destructor of the     *)
(* real key walks the array of a thread that ends and calls the destructors.  *)
EXTENDS Naturals, FiniteSets

CONSTANTS
  Threads,        \* the threads the engine may make
  FakeKeys,       \* FAKE_KEYS_MAX: the keys are the entries 1..FakeKeys
  Passes,         \* how often master_key_dtor scans the array: 4
  Iterations,     \* how often libnx calls it again for a value set meanwhile
  MaxGen,         \* how often an entry of the key table is created
  Rearms,         \* how many values destructors may set on a thread's way out
  DeleteEmpty     \* the engine deletes a key only when no thread has a value

ThreadsAssumption ==
  /\ FakeKeys \in Nat \ {0} /\ Passes \in Nat \ {0} /\ Iterations \in Nat \ {0}
  /\ MaxGen \in Nat /\ Rearms \in Nat /\ DeleteEmpty \in BOOLEAN

VARIABLES
  thread,    \* "none", "running", "ending" or "gone"
  taken,     \* g_first_engine_thread_taken
  mains,     \* the threads started as android_main
  finished,  \* android_mark_main_finished was called
  key,       \* g_key_table: used, dtor; and how often the entry was created
  arr,       \* the array in the real key of each thread: a value, or 0, a key
  walk,      \* master_key_dtor on each ending thread
  owed       \* <<thread, key>>: values a destructor has yet to be called on

vars == <<thread, taken, mains, finished, key, arr, walk, owed>>

Keys == 1..FakeKeys
Empty == [k \in Keys |-> 0]
NoArray == <<>>
NoWalk == [arr |-> NoArray, k |-> 0, pass |-> 0, again |-> FALSE, turn |-> 0, rearms |-> 0]

Init ==
  /\ thread = [t \in Threads |-> "none"]
  /\ taken = FALSE /\ mains = {} /\ finished = FALSE
  /\ key = [k \in Keys |-> [used |-> FALSE, dtor |-> FALSE, gen |-> 0]]
  /\ arr = [t \in Threads |-> NoArray]
  /\ walk = [t \in Threads |-> NoWalk]
  /\ owed = {}

(* pthread_create_fake: the first thread the engine makes is android_main.   *)
(* A creation that fails has taken the flag all the same.                    *)
FirstTaken == taken
Create(t) ==
  /\ thread[t] = "none"
  /\ taken' = TRUE
  /\ \/ /\ thread' = [thread EXCEPT ![t] = "running"]
        /\ mains' = IF FirstTaken THEN mains ELSE mains \cup {t}
     \/ UNCHANGED <<thread, mains>>
  /\ UNCHANGED <<finished, key, arr, walk, owed>>

(* pthread_key_create_fake, under g_key_mutex: the first entry not in use.   *)
Creatable(k) == ~key[k].used /\ \A j \in 1..(k - 1) : key[j].used
KeyCreate ==
  \E k \in Keys, dtor \in BOOLEAN :
    /\ Creatable(k) /\ key[k].gen < MaxGen
    /\ key' = [key EXCEPT ![k] = [used |-> TRUE, dtor |-> dtor, gen |-> @.gen + 1]]
    /\ UNCHANGED <<thread, taken, mains, finished, arr, walk, owed>>

CellsOf(k) ==
  { a \in { arr[t] : t \in Threads } \cup { walk[t].arr : t \in Threads } :
      a # NoArray /\ a[k] # 0 }

(* pthread_key_delete_fake leaves the values of the key where they are. *)
KeyDelete ==
  \E k \in Keys :
    /\ key[k].used
    /\ DeleteEmpty => CellsOf(k) = {}
    /\ key' = [key EXCEPT ![k].used = FALSE, ![k].dtor = FALSE]
    /\ UNCHANGED <<thread, taken, mains, finished, arr, walk, owed>>

(* pthread_setspecific_fake: the first value of a thread makes its array.    *)
ArrayOf(t) == IF arr[t] = NoArray THEN Empty ELSE arr[t]
Put(t, k, v) ==
  /\ arr' = [arr EXCEPT ![t] = [ArrayOf(t) EXCEPT ![k] = v]]
  /\ owed' = IF v # 0 /\ key[k].dtor THEN owed \cup {<<t, k>>} ELSE owed \ {<<t, k>>}

SetSpecific(t) ==
  /\ thread[t] = "running"
  /\ \E k \in {j \in Keys : key[j].used} : \E v \in {0, key[k].gen} : Put(t, k, v)
  /\ UNCHANGED <<thread, taken, mains, finished, key, walk>>

(* thread_trampoline returns: the end of android_main is told to the loop,   *)
(* and libnx takes the array out of the real key for its destructor.         *)
BeginWalk(t, turn, rearms) ==
  /\ walk' = [walk EXCEPT ![t] = [arr |-> arr[t], k |-> 1, pass |-> 0, again |-> FALSE,
                                  turn |-> turn, rearms |-> rearms]]
  /\ arr' = [arr EXCEPT ![t] = NoArray]

End(t) ==
  /\ thread[t] = "running"
  /\ finished' = (finished \/ t \in mains)
  /\ IF arr[t] = NoArray
     THEN thread' = [thread EXCEPT ![t] = "gone"] /\ UNCHANGED <<arr, walk>>
     ELSE thread' = [thread EXCEPT ![t] = "ending"] /\ BeginWalk(t, 1, 0)
  /\ UNCHANGED <<taken, mains, key, owed>>

(* One step of the two loops of master_key_dtor. *)
Scanning(t) == walk[t].k \in Keys /\ thread[t] = "ending"
Called(t) == LET k == walk[t].k IN key[k].used /\ key[k].dtor /\ walk[t].arr[k] # 0
ClearedNot(t) == walk[t].arr      \* mutant: the value stays in its cell
Cleared(t) == [walk[t].arr EXCEPT ![walk[t].k] = 0]

PastCell(t, rearms) ==
  [walk EXCEPT ![t] = [arr |-> Cleared(t), k |-> walk[t].k + 1, pass |-> walk[t].pass,
                       again |-> TRUE, turn |-> walk[t].turn, rearms |-> rearms]]

CallDtor(t) ==
  /\ Scanning(t) /\ Called(t)
  /\ \/ /\ walk' = PastCell(t, walk[t].rearms)
        /\ owed' = owed \ {<<t, walk[t].k>>}
        /\ UNCHANGED arr
     \/ \* the destructor sets a value again: the array is out of the real
        \* key, so the value goes to a new one
        /\ walk[t].rearms < Rearms
        /\ walk' = PastCell(t, walk[t].rearms + 1)
        /\ \E k \in {j \in Keys : key[j].used /\ key[j].dtor} :
             \/ /\ k = walk[t].k
                /\ arr' = [arr EXCEPT ![t] = [ArrayOf(t) EXCEPT ![k] = key[k].gen]]
                /\ UNCHANGED owed
             \/ /\ k # walk[t].k /\ walk[t].arr[k] = 0
                /\ arr' = [arr EXCEPT ![t] = [ArrayOf(t) EXCEPT ![k] = key[k].gen]]
                /\ owed' = (owed \ {<<t, walk[t].k>>}) \cup {<<t, k>>}
  /\ UNCHANGED <<thread, taken, mains, finished, key>>

SkipCell(t) ==
  /\ Scanning(t) /\ ~Called(t)
  /\ walk' = [walk EXCEPT ![t].k = @ + 1]
  /\ UNCHANGED <<thread, taken, mains, finished, key, arr, owed>>

EndPass(t) ==
  /\ thread[t] = "ending" /\ walk[t].k = FakeKeys + 1
  /\ \/ /\ walk[t].again /\ walk[t].pass + 1 < Passes
        /\ walk' = [walk EXCEPT ![t].k = 1, ![t].again = FALSE, ![t].pass = @ + 1]
        /\ UNCHANGED <<thread, arr>>
     \/ /\ ~(walk[t].again /\ walk[t].pass + 1 < Passes)
        /\ IF arr[t] # NoArray /\ walk[t].turn < Iterations
           THEN BeginWalk(t, walk[t].turn + 1, walk[t].rearms) /\ UNCHANGED thread
           ELSE /\ thread' = [thread EXCEPT ![t] = "gone"]
                /\ walk' = [walk EXCEPT ![t] = NoWalk] /\ UNCHANGED arr
  /\ UNCHANGED <<taken, mains, finished, key, owed>>

(* pthread_join_fake: the engine may make a thread again. *)
Join(t) ==
  /\ thread[t] = "gone" /\ arr[t] = NoArray
  /\ thread' = [thread EXCEPT ![t] = "none"]
  /\ UNCHANGED <<taken, mains, finished, key, arr, walk, owed>>

Next == \/ KeyCreate \/ KeyDelete
        \/ \E t \in Threads : \/ Create(t) \/ SetSpecific(t) \/ End(t) \/ CallDtor(t)
                              \/ SkipCell(t) \/ EndPass(t) \/ Join(t)

Spec == Init /\ [][Next]_vars

TypeOK ==
  /\ thread \in [Threads -> {"none", "running", "ending", "gone"}]
  /\ mains \subseteq Threads /\ taken \in BOOLEAN /\ finished \in BOOLEAN
  /\ \A t \in Threads : arr[t] = NoArray \/ arr[t] \in [Keys -> 0..MaxGen]
  /\ owed \subseteq Threads \X Keys

Cells(t, k) ==
  { i \in 1..2 : LET a == IF i = 1 THEN arr[t] ELSE walk[t].arr
                 IN a # NoArray /\ a[k] # 0 }

(* Every value the engine stored under a key with a destructor sits in one   *)
(* cell of its thread, under the key it was stored for, until the destructor *)
(* is called on it: it is called once, with a value of its own key, and a    *)
(* thread that is gone owes no call.  Only one thread is android_main.       *)
ValuesDestroyedOnce ==
  /\ \A t \in Threads, k \in Keys :
       /\ <<t, k>> \in owed => Cardinality(Cells(t, k)) = 1
       /\ key[k].used /\ key[k].dtor /\ Cells(t, k) # {} => <<t, k>> \in owed
       /\ thread[t] = "gone" => <<t, k>> \notin owed
       /\ arr[t] # NoArray /\ arr[t][k] # 0 => arr[t][k] = key[k].gen
  /\ Cardinality(mains) <= 1
=============================================================================
