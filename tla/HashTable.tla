------------------------------ MODULE HashTable ------------------------------
(***************************************************************************)
(* The two hash tables of the system: hashmap.c, from numbers, and         *)
(* dictionary.c, from names.  Both are an array of chains that doubles     *)
(* when its last free place is taken.  They differ in what a lookup        *)
(* compares: the hashmap compares the keys, the dictionary only the        *)
(* hashes of the names, so that two names of one hash are one name to it.  *)
(* Here "id" is what is compared: the key itself or its hash.              *)
(*                                                                         *)
(* A chain is a set: its order is seen by the iterators only, which visit  *)
(* all elements.  The hash is a parameter; sizes do not overflow.          *)
(***************************************************************************)
EXTENDS Integers, FiniteSets

CONSTANTS Keys,
          Hash,    \* hashmap_hash or dictionary_hash
          NULL     \* what lookups return when they find nothing

ASSUME HashAssumption == Hash \in [Keys -> Nat]

KeyItself == [k \in Keys |-> k]

Create(size) == [max |-> size, chains |-> [i \in 0 .. size - 1 |-> {}], current |-> 0, amount |-> 0]

\* What the iterators visit.
Elements(table) == UNION {table.chains[i] : i \in 0 .. table.max - 1}

Index(table, k) == Hash[k] % table.max

\* The elements of k's chain that a lookup of k takes for it.
Matches(table, id, k) == {e \in table.chains[Index(table, k)] : id[e.key] = id[k]}

HasKey(table, id, k) == Matches(table, id, k) # {}

Get(table, id, k) ==
  IF HasKey(table, id, k) THEN (CHOOSE e \in Matches(table, id, k) : TRUE).value ELSE NULL

Used(chains, size) == Cardinality({i \in 0 .. size - 1 : chains[i] # {}})

Rehashed(table, size) ==
  [i \in 0 .. size - 1 |-> {e \in Elements(table) : Hash[e.key] % size = i}]

Resize(table, size) ==
  [max |-> size, chains |-> Rehashed(table, size), current |-> Used(Rehashed(table, size), size),
   amount |-> table.amount]

\* An element that is found keeps its key and gets the value.
Overwrite(table, id, k, v) ==
  [table EXCEPT !.chains[Index(table, k)] =
     {IF id[e.key] = id[k] THEN [key |-> e.key, value |-> v] ELSE e : e \in @}]

Insert(table, k, v) ==
  [table EXCEPT !.chains[Index(table, k)] = @ \cup {[key |-> k, value |-> v]},
                !.current = IF table.chains[Index(table, k)] = {} THEN @ + 1 ELSE @,
                !.amount = @ + 1]

\* Only an element that starts a chain may double the array.
Put(table, id, k, v) ==
  IF HasKey(table, id, k) THEN Overwrite(table, id, k, v)
  ELSE IF Insert(table, k, v).current >= table.max /\ table.chains[Index(table, k)] = {}
       THEN Resize(Insert(table, k, v), 2 * table.max)
       ELSE Insert(table, k, v)

\* The amount counts the elements whose value is not NULL.
Remove(table, id, k) ==
  LET rest == table.chains[Index(table, k)] \ Matches(table, id, k) IN
  IF ~HasKey(table, id, k) THEN table
  ELSE [table EXCEPT !.chains[Index(table, k)] = rest,
                     !.current = IF rest = {} THEN @ - 1 ELSE @,
                     !.amount = IF Get(table, id, k) = NULL THEN @ ELSE @ - 1]

Clean(table) == Create(table.max)

-----------------------------------------------------------------------------
hashmap_put(table, k, v)  == Put(table, KeyItself, k, v)
hashmap_get(table, k)     == Get(table, KeyItself, k)
hashmap_remove(table, k)  == Remove(table, KeyItself, k)
hashmap_has_key(table, k) == HasKey(table, KeyItself, k)

dictionary_put(table, k, v)  == Put(table, Hash, k, v)
dictionary_get(table, k)     == Get(table, Hash, k)
dictionary_remove(table, k)  == Remove(table, Hash, k)
dictionary_has_key(table, k) == HasKey(table, Hash, k)
=============================================================================
