----------------------------- MODULE KeyValueStore ----------------------------
(***************************************************************************)
(* What one Memoria process and the file system promise together to their  *)
(* clients: a store where a write is pending until it is saved and a read  *)
(* returns the pending write if there is one, a saved one or none if not;  *)
(* a crash loses what is pending, and pending writes are only forgotten    *)
(* when all those with a table are saved.                                  *)
(***************************************************************************)
CONSTANTS Tables, Keys, Writes, NoWrite, KeyNotFound, TableNotFound

VARIABLES tables,    \* tables that exist
          durable,   \* the saved writes of each <<table, key>>
          pending,   \* the newest write not known to be saved
          dropping,  \* tables that are being dropped
          answer     \* the result of the last read

vars  == <<tables, durable, pending, dropping, answer>>
Slots == Tables \X Keys
Empty == [s \in Slots |-> NoWrite]

\* A saved write is read, or an older one, or none: where it was saved is not in order.
Readable(s) == IF pending[s] # NoWrite THEN {pending[s].value}
               ELSE IF s[1] \notin tables THEN {TableNotFound}
               ELSE {KeyNotFound} \cup {w.value : w \in durable[s]}

Init ==
  /\ tables \in SUBSET Tables
  /\ durable = [s \in Slots |-> {}]
  /\ pending = Empty
  /\ dropping = {}
  /\ answer = NoWrite

Write(s) ==
  /\ \E w \in Writes : w.key = s[2] /\ pending' = [pending EXCEPT ![s] = w]
  /\ UNCHANGED <<tables, durable, dropping, answer>>

Read(s) ==
  /\ \E v \in Readable(s) : answer' = [slot |-> s, value |-> v]
  /\ UNCHANGED <<tables, durable, pending, dropping>>

Save(s) ==
  /\ pending[s] # NoWrite
  /\ durable' = [durable EXCEPT ![s] = @ \cup {pending[s]}]
  /\ UNCHANGED <<tables, pending, dropping, answer>>

Forget ==
  /\ \A s \in Slots : pending[s] # NoWrite /\ s[1] \in tables => pending[s] \in durable[s]
  /\ pending' = Empty
  /\ UNCHANGED <<tables, durable, dropping, answer>>

Add(t) == tables' = tables \cup {t} /\ UNCHANGED <<durable, pending, dropping, answer>>

\* A table is dropped in three steps: what is pending of it, what is saved, the end.
Discard(t) ==
  /\ t \notin dropping /\ dropping' = dropping \cup {t}
  /\ pending' = [s \in Slots |-> IF s[1] = t THEN NoWrite ELSE pending[s]]
  /\ UNCHANGED <<tables, durable, answer>>

Remove(t) ==
  /\ t \in dropping
  /\ tables' = tables \ {t}
  /\ \/ durable' = [s \in Slots |-> IF s[1] = t THEN {} ELSE durable[s]]
     \/ UNCHANGED durable
  /\ UNCHANGED <<pending, dropping, answer>>

Dropped(t) ==
  /\ t \in dropping /\ t \notin tables /\ dropping' = dropping \ {t}
  /\ UNCHANGED <<tables, durable, pending, answer>>

\* The new process has read nothing yet.
Crash == pending' = Empty /\ dropping' = {} /\ answer' = NoWrite /\ UNCHANGED <<tables, durable>>

Next ==
  \/ \E s \in Slots : Write(s) \/ Read(s) \/ Save(s)
  \/ \E t \in Tables : Add(t) \/ Discard(t) \/ Remove(t) \/ Dropped(t)
  \/ Forget
  \/ Crash

Spec == Init /\ [][Next]_vars
=============================================================================
