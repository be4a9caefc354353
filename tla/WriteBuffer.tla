------------------------------ MODULE WriteBuffer -----------------------------
(***************************************************************************)
(* What the memory of Memoria promises about the values it was given and   *)
(* has not yet handed to the file system, whatever the frames, pages and   *)
(* replacement policy are: each accepted write stays pending, the newest   *)
(* of its key, until the table is dropped, everything is flushed, or the   *)
(* process ends.                                                           *)
(***************************************************************************)
CONSTANTS Tables, Keys, Writes, Nothing
VARIABLES pending,   \* the newest write of each <<table, key>>, or Nothing
          flushed    \* what the last flush handed over

vars  == <<pending, flushed>>
Slots == Tables \X Keys
Empty == [s \in Slots |-> Nothing]

Init == pending = Empty /\ flushed = Empty

Put(t, k) ==
  /\ \E w \in Writes : w.key = k /\ pending' = [pending EXCEPT ![<<t, k>>] = w]
  /\ UNCHANGED flushed

Discard(t) ==
  /\ pending' = [s \in Slots |-> IF s[1] = t THEN Nothing ELSE pending[s]]
  /\ UNCHANGED flushed

Flush == flushed' = pending /\ pending' = Empty
Lose  == pending' = Empty /\ flushed' = Empty

Next ==
  \/ \E t \in Tables, k \in Keys : Put(t, k)
  \/ \E t \in Tables : Discard(t)
  \/ Flush
  \/ Lose

Spec == Init /\ [][Next]_vars
=============================================================================
