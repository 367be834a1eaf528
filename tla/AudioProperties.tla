--------------------------- MODULE AudioProperties ----------------------------
(* jni_fake.c: FMOD asks Java's AudioManager for the rate and the buffer size *)
(* of the output, as two properties.  Their names may not reach getProperty:  *)
(* then the field that was read last tells which is meant, and when no field  *)
(* reaches the shim either, the count of the calls does.                      *)
EXTENDS Naturals, Sequences

CONSTANTS
  Queries,     \* getProperty calls of one attempt to open the output: 3
  Attempts,    \* how often FMOD tries
  None

PropertiesAssumption ==
  Queries = 3 /\ Attempts \in Nat \ {0} /\ None \notin {"rate", "frames"}

VARIABLES
  calls,       \* call_n
  last,        \* g_last_output_prop
  ask,         \* FMOD: what it asks in each query of an attempt, and what of it
               \*   reaches the shim: the key, the field, or neither
  at,          \* the attempt, the query, whether its field was read
  saw          \* what the queries of the attempt were answered

vars == <<calls, last, ask, at, saw>>

(* Each attempt asks for both once.  The one for the buffer is not the first *)
(* where nothing but the count tells the two apart.                          *)
Roles == { r \in [1..Queries -> {"rate", "frames", "other"}] :
             \A x \in {"rate", "frames"} : \E i \in 1..Queries :
               r[i] = x /\ \A j \in 1..Queries : r[j] = x => j = i }
Init ==
  /\ calls = 0 /\ last = None
  /\ \E r \in Roles, reach \in {"key", "field", "nothing"} :
       /\ reach = "nothing" => r[1] # "frames"
       /\ ask = [role |-> r, reach |-> reach]
  /\ at = [n |-> 1, q |-> 1, read |-> FALSE]
  /\ saw = <<>>

Asked == ask.role[at.q]

(* field_object: PROPERTY_OUTPUT_SAMPLE_RATE or _FRAMES_PER_BUFFER.          *)
ReadField ==
  /\ ask.reach = "field" /\ at.n <= Attempts /\ at.q <= Queries /\ ~at.read
  /\ last' = IF Asked = "other" THEN last ELSE Asked
  /\ at' = [at EXCEPT !.read = TRUE]
  /\ UNCHANGED <<calls, ask, saw>>

(* getproperty_value *)
ByCountOnce(n) ==                    \* mutant: only the first order is tried
  IF n = 2 THEN "frames" ELSE "rate"
ByCount(n) == IF n = 2 \/ n = 4 THEN "frames" ELSE "rate"
Which == IF ask.reach = "key" /\ Asked # "other" THEN Asked
         ELSE IF last # None THEN last
         ELSE ByCount(calls)
GetProperty ==
  /\ at.n <= Attempts /\ at.q <= Queries /\ (ask.reach = "field" => at.read)
  /\ saw' = Append(saw, IF Which = "frames" THEN 256 ELSE 48000)
  /\ calls' = calls + 1
  /\ at' = [at EXCEPT !.q = @ + 1, !.read = FALSE]
  /\ UNCHANGED <<last, ask>>

(* FMOD opens the output with a rate and a small buffer, or tries again.     *)
Good == \A i \in 1..Queries :
  /\ ask.role[i] = "rate" => saw[i] = 48000
  /\ ask.role[i] = "frames" => saw[i] = 256
Opened == at.q > Queries /\ Good /\ UNCHANGED vars    \* FMOD asks no more
Retry ==
  /\ at.q > Queries /\ ~Good /\ at.n <= Attempts
  /\ at' = [n |-> at.n + 1, q |-> 1, read |-> FALSE] /\ saw' = <<>>
  /\ UNCHANGED <<calls, last, ask>>

Next == ReadField \/ GetProperty \/ Retry \/ Opened

Spec == Init /\ [][Next]_vars

TypeOK == calls \in 0..(Queries * Attempts) /\ last \in {None, "rate", "frames"}

(* Whatever order FMOD asks in, and whether names, fields or nothing reach   *)
(* the shim, one of its first two attempts sees the rate as the rate and the *)
(* buffer size as the buffer size.                                           *)
OutputOpens == at.n <= 2
=============================================================================
