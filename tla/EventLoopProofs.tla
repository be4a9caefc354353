---------------------------- MODULE EventLoopProofs ----------------------------
(***************************************************************************)
(* Proofs about HashTable, for any keys, values and hashes, and about      *)
(* EventLoop, whose map it is, for any timers, workers, peers and packets, *)
(* any number of descriptors and any hashes.                               *)
(*                                                                         *)
(* HashTable: "id" is what a lookup compares; all that is asked of it is   *)
(* that it tells at least the hashes apart, as the key itself and the hash *)
(* do.  Every operation is followed through the chains once, by the lemmas *)
(* that say what it does to the set of all elements; the theorems follow   *)
(* from these, since a lookup finds in its chain what it would find in the *)
(* set.                                                                    *)
(*                                                                         *)
(* EventLoop: TInv has the types, and what each step of the dispatcher and *)
(* each call of PeriodicTimer_SetEnabled is about.  WInv counts, for a     *)
(* timer, its workers and what may yet become one.  DInv relates           *)
(* descriptors, epoll, the map and the events of epoll_wait; it rests on   *)
(* what is proved of the map's puts and removes.  PInv numbers what is on  *)
(* each connection.                                                        *)
(***************************************************************************)
EXTENDS EventLoop, FiniteSetTheorems, WellFoundedInduction, TLAPS

Tells(id) == \A a, b \in Keys : id[a] = id[b] => Hash[a] = Hash[b]

Slots(table) == 0 .. table.max - 1

\* The elements are where their hashes say.
InPlace(table, Values) ==
  /\ table.chains \in [Slots(table) -> SUBSET [key : Keys, value : Values]]
  /\ \A i \in Slots(table) : \A e \in table.chains[i] : Index(table, e.key) = i

\* Each id is there once, and the counters count the elements and the chains in use.
WellFormed(table, id, Values) ==
  /\ table = [max |-> table.max, chains |-> table.chains, current |-> table.current,
              amount |-> table.amount]
  /\ table.max \in Nat \ {0}
  /\ InPlace(table, Values)
  /\ \A e, f \in Elements(table) : id[e.key] = id[f.key] => e = f
  /\ IsFiniteSet(Elements(table))
  /\ table.amount = Cardinality(Elements(table))
  /\ table.current = Used(table.chains, table.max)

-----------------------------------------------------------------------------
(***************************************************************************)
(* Chains and elements.                                                    *)
(***************************************************************************)
\* Every key has a chain in the array (hashmap.c, dictionary.c: the hash modulo the size).
LEMMA IndexIsASlot ==
  ASSUME NEW table, table.max \in Nat \ {0}, NEW k \in Keys
  PROVE  Index(table, k) \in Slots(table)
<1>1. Hash[k] \in Nat
  BY HashAssumption
<1> QED
  BY <1>1 DEF Index, Slots

\* A lookup finds in one chain what is in any.
LEMMA MatchesAreOfAllElements ==
  ASSUME NEW id, Tells(id), NEW Values, NEW table, WellFormed(table, id, Values), NEW k \in Keys
  PROVE  Matches(table, id, k) = {e \in Elements(table) : id[e.key] = id[k]}
<1>1. Index(table, k) \in Slots(table)
  BY IndexIsASlot DEF WellFormed
<1>2. Matches(table, id, k) \subseteq {e \in Elements(table) : id[e.key] = id[k]}
  BY <1>1 DEF Matches, Elements, Slots
<1>3. ASSUME NEW e \in Elements(table), id[e.key] = id[k]
      PROVE  e \in Matches(table, id, k)
  <2>1. PICK i \in Slots(table) : e \in table.chains[i]
    BY DEF Elements, Slots
  <2>2. e.key \in Keys /\ Index(table, e.key) = i
    BY <2>1 DEF WellFormed, InPlace
  <2>3. Hash[e.key] = Hash[k]
    BY <1>3, <2>2 DEF Tells
  <2>4. Index(table, k) = i
    BY <2>2, <2>3 DEF Index
  <2> QED
    BY <1>3, <2>1, <2>4 DEF Matches
<1> QED
  BY <1>2, <1>3

\* What lookups return, by the elements alone.
LEMMA GetFindsTheElement ==
  ASSUME NEW id, Tells(id), NEW Values, NEW table, WellFormed(table, id, Values), NEW k \in Keys
  PROVE  /\ HasKey(table, id, k) <=> \E e \in Elements(table) : id[e.key] = id[k]
         /\ ~HasKey(table, id, k) => Get(table, id, k) = NULL
         /\ \A e \in Elements(table) : id[e.key] = id[k] => /\ Matches(table, id, k) = {e}
                                                            /\ Get(table, id, k) = e.value
<1>1. Matches(table, id, k) = {e \in Elements(table) : id[e.key] = id[k]}
  BY MatchesAreOfAllElements
<1>2. HasKey(table, id, k) <=> \E e \in Elements(table) : id[e.key] = id[k]
  BY <1>1 DEF HasKey
<1>3. ~HasKey(table, id, k) => Get(table, id, k) = NULL
  BY DEF Get
<1>4. ASSUME NEW e \in Elements(table), id[e.key] = id[k]
      PROVE  Matches(table, id, k) = {e} /\ Get(table, id, k) = e.value
  <2>1. \A f \in Elements(table) : id[f.key] = id[k] => f = e
    BY <1>4 DEF WellFormed
  <2>2. Matches(table, id, k) = {e}
    BY <1>1, <1>4, <2>1
  <2>3. (CHOOSE f \in Matches(table, id, k) : TRUE) = e
    BY <2>2
  <2> QED
    BY <1>2, <1>4, <2>2, <2>3 DEF Get
<1> QED
  BY <1>2, <1>3, <1>4

\* A step that replaces one chain.
Replaces(new, table, i, chain) ==
  new.max = table.max /\ new.chains = [table.chains EXCEPT ![i] = chain]

ChainOf(table, i, Values) ==
  {chain \in SUBSET [key : Keys, value : Values] : \A e \in chain : Index(table, e.key) = i}

\* What the operations that replace one chain do to the elements of the table...
LEMMA ReplacingOneChain ==
  ASSUME NEW id, NEW Values, NEW table, WellFormed(table, id, Values),
         NEW i \in Slots(table), NEW chain \in ChainOf(table, i, Values),
         NEW new, Replaces(new, table, i, chain)
  PROVE  /\ Elements(new) = (Elements(table) \ table.chains[i]) \cup chain
         /\ InPlace(new, Values)
<1>0. /\ new.max = table.max /\ new.chains = [table.chains EXCEPT ![i] = chain]
      /\ chain \in SUBSET [key : Keys, value : Values]
      /\ \A e \in chain : Index(table, e.key) = i
  BY DEF Replaces, ChainOf
<1>1. /\ table.max \in Nat \ {0} /\ Slots(new) = Slots(table)
      /\ table.chains \in [Slots(table) -> SUBSET [key : Keys, value : Values]]
      /\ \A j \in Slots(table) : \A e \in table.chains[j] : Index(table, e.key) = j
  BY <1>0 DEF WellFormed, InPlace, Slots
<1>2. \A k \in Keys : Index(new, k) = Index(table, k)
  BY <1>0 DEF Index
<1>3. new.chains \in [Slots(new) -> SUBSET [key : Keys, value : Values]]
  BY <1>0, <1>1
<1>4. /\ new.chains[i] = chain
      /\ \A j \in Slots(table) : j # i => new.chains[j] = table.chains[j]
  BY <1>0, <1>1
<1>5. ASSUME NEW j \in Slots(new), NEW e \in new.chains[j]
      PROVE  Index(new, e.key) = j
  <2>1. e.key \in Keys
    BY <1>3, <1>5
  <2> QED
    BY <1>0, <1>1, <1>2, <1>4, <1>5, <2>1
<1>6. Elements(new) = UNION {new.chains[j] : j \in Slots(table)}
  BY <1>1 DEF Elements, Slots
<1>7. Elements(table) = UNION {table.chains[j] : j \in Slots(table)}
  BY DEF Elements, Slots
<1>8. ASSUME NEW e
      PROVE  e \in Elements(new) <=> e \in (Elements(table) \ table.chains[i]) \cup chain
  <2>1. \A j \in Slots(table) : e \in table.chains[j] /\ e \in table.chains[i] => j = i
    BY <1>1
  <2> QED
    BY <1>4, <1>6, <1>7, <2>1
<1>9. Elements(new) = (Elements(table) \ table.chains[i]) \cup chain
  BY <1>8
<1> QED
  BY <1>3, <1>5, <1>9 DEF InPlace

\* ... and what it does to the number of chains in use.
LEMMA UsedAfterReplacing ==
  ASSUME NEW id, NEW Values, NEW table, WellFormed(table, id, Values),
         NEW i \in Slots(table), NEW chain, NEW new, Replaces(new, table, i, chain)
  PROVE  /\ table.current \in Nat
         /\ chain # {} /\ table.chains[i] # {} => Used(new.chains, new.max) = table.current
         /\ chain # {} /\ table.chains[i] = {} => Used(new.chains, new.max) = table.current + 1
         /\ chain = {} /\ table.chains[i] # {} => Used(new.chains, new.max) = table.current - 1
<1> DEFINE Filled    == {j \in Slots(table) : table.chains[j] # {}}
           NewFilled == {j \in Slots(table) : new.chains[j] # {}}
<1>1. /\ new.max = table.max /\ table.max \in Nat \ {0}
      /\ new.chains = [table.chains EXCEPT ![i] = chain] /\ DOMAIN table.chains = Slots(table)
  BY DEF Replaces, WellFormed, InPlace
<1>2. IsFiniteSet(Slots(table))
  <2>1. 0 \in Int /\ table.max - 1 \in Int
    BY <1>1
  <2>2. IsFiniteSet(0 .. table.max - 1)
    BY <2>1, FS_Interval
  <2> QED
    BY <2>2 DEF Slots
<1>3. IsFiniteSet(Filled)
  BY <1>2, FS_Subset
<1>4. Cardinality(Filled) \in Nat
  BY <1>3, FS_CardinalityType
<1>5. new.chains[i] = chain /\ \A j \in Slots(table) : j # i => new.chains[j] = table.chains[j]
  BY <1>1
<1>6. NewFilled = IF chain = {} THEN Filled \ {i} ELSE Filled \cup {i}
  BY <1>5
<1>7. i \in Filled <=> table.chains[i] # {}
  OBVIOUS
<1>8. table.current = Cardinality(Filled) /\ Used(new.chains, new.max) = Cardinality(NewFilled)
  BY <1>1 DEF Used, Slots, WellFormed
<1> HIDE DEF Filled, NewFilled
<1>9. Cardinality(Filled \cup {i}) = IF i \in Filled THEN Cardinality(Filled)
                                     ELSE Cardinality(Filled) + 1
  BY <1>3, FS_AddElement
<1>10. Cardinality(Filled \ {i}) = IF i \in Filled THEN Cardinality(Filled) - 1
                                   ELSE Cardinality(Filled)
  BY <1>3, FS_RemoveElement
<1> QED
  BY <1>4, <1>6, <1>7, <1>8, <1>9, <1>10

-----------------------------------------------------------------------------
(***************************************************************************)
(* The operations.                                                         *)
(***************************************************************************)
\* A new table is well formed and has no element (hashmap_create, dictionary_create, and a
\* clean of either).
LEMMA CreateIsEmpty ==
  ASSUME NEW id, NEW Values, NEW size \in Nat \ {0}
  PROVE  WellFormed(Create(size), id, Values) /\ Elements(Create(size)) = {}
<1> DEFINE new == Create(size)
<1>1. /\ new.max = size /\ new.chains = [i \in 0 .. size - 1 |-> {}]
      /\ new.current = 0 /\ new.amount = 0
      /\ new = [max |-> new.max, chains |-> new.chains, current |-> new.current,
                amount |-> new.amount]
  BY DEF Create
<1> HIDE DEF new
<1>2. Elements(new) = {}
  BY <1>1 DEF Elements
<1>3. {i \in 0 .. size - 1 : new.chains[i] # {}} = {}
  BY <1>1
<1>4. Used(new.chains, size) = 0
  BY <1>3, FS_EmptySet DEF Used
<1>5. InPlace(new, Values)
  BY <1>1 DEF Slots, InPlace
<1>6. IsFiniteSet(Elements(new)) /\ Cardinality(Elements(new)) = 0
  BY <1>2, FS_EmptySet
<1>7. WellFormed(new, id, Values)
  BY <1>1, <1>2, <1>4, <1>5, <1>6 DEF WellFormed
<1> QED
  BY <1>2, <1>7 DEF new

\* A value that is put under an id that is there replaces that of its element.
LEMMA OverwriteReplaces ==
  ASSUME NEW id, Tells(id), NEW Values, NEW table, WellFormed(table, id, Values),
         NEW k \in Keys, NEW v \in Values, NEW e \in Elements(table), id[e.key] = id[k]
  PROVE  LET new == Overwrite(table, id, k, v) IN
         /\ WellFormed(new, id, Values)
         /\ Elements(new) = (Elements(table) \ {e}) \cup {[key |-> e.key, value |-> v]}
<1> DEFINE new   == Overwrite(table, id, k, v)
           i     == Index(table, k)
           e1    == [key |-> e.key, value |-> v]
           chain == {IF id[f.key] = id[k] THEN [key |-> f.key, value |-> v] ELSE f : f \in table.chains[i]}
<1>1. /\ table = [max |-> table.max, chains |-> table.chains, current |-> table.current,
                  amount |-> table.amount]
      /\ table.max \in Nat \ {0}
      /\ table.chains \in [Slots(table) -> SUBSET [key : Keys, value : Values]]
      /\ \A j \in Slots(table) : \A f \in table.chains[j] : Index(table, f.key) = j
      /\ \A f, g \in Elements(table) : id[f.key] = id[g.key] => f = g
      /\ IsFiniteSet(Elements(table))
      /\ table.amount = Cardinality(Elements(table))
      /\ table.current = Used(table.chains, table.max)
  BY DEF WellFormed, InPlace
<1>2. i \in Slots(table)
  BY <1>1, IndexIsASlot
<1>3. Matches(table, id, k) = {e}
  BY GetFindsTheElement
<1>4. e \in table.chains[i] /\ \A f \in table.chains[i] : id[f.key] = id[k] => f = e
  BY <1>3 DEF Matches
<1>5. e \in [key : Keys, value : Values] /\ e1 \in [key : Keys, value : Values] /\ e1.key = e.key
  BY <1>1, <1>2, <1>4
<1>6. chain = (table.chains[i] \ {e}) \cup {e1}
  BY <1>4
<1>7. /\ new.max = table.max /\ new.chains = [table.chains EXCEPT ![i] = chain]
      /\ new.current = table.current /\ new.amount = table.amount
      /\ new = [max |-> new.max, chains |-> new.chains, current |-> new.current,
                amount |-> new.amount]
  <2>1. table = [max |-> table.max, chains |-> table.chains, current |-> table.current,
                 amount |-> table.amount]
    BY <1>1
  <2> HIDE DEF chain, i
  <2>2. new = [table EXCEPT !.chains[i] = chain]
    BY DEF Overwrite, chain, i
  <2>3. new = [max |-> table.max, chains |-> [table.chains EXCEPT ![i] = chain],
               current |-> table.current, amount |-> table.amount]
    BY <2>1, <2>2
  <2> QED
    BY <2>3
<1> HIDE DEF new, i, e1, chain
<1>8. chain \in SUBSET [key : Keys, value : Values] /\ chain # {}
  BY <1>1, <1>2, <1>5, <1>6
<1>9. chain \in ChainOf(table, i, Values) /\ Replaces(new, table, i, chain)
  BY <1>1, <1>2, <1>4, <1>5, <1>6, <1>7, <1>8 DEF ChainOf, Replaces
<1>10. Elements(new) = (Elements(table) \ table.chains[i]) \cup chain /\ InPlace(new, Values)
  BY <1>2, <1>9, ReplacingOneChain
<1>11. table.chains[i] \subseteq Elements(table)
  BY <1>2 DEF Elements, Slots
<1>12. \A f \in table.chains[i] \ {e} : f # e1
  BY <1>4, <1>5
<1>13. Elements(new) = (Elements(table) \ {e}) \cup {e1}
  BY <1>4, <1>6, <1>10, <1>11
<1>14. \A f \in Elements(table) \ {e} : id[f.key] # id[k]
  BY <1>1
<1>15. \A f, g \in Elements(new) : id[f.key] = id[g.key] => f = g
  BY <1>1, <1>5, <1>13, <1>14
<1>16. e1 \notin Elements(table) \ {e}
  BY <1>5, <1>14
<1>17. /\ IsFiniteSet(Elements(table) \ {e})
       /\ Cardinality(Elements(table) \ {e}) = Cardinality(Elements(table)) - 1
  BY <1>1, FS_RemoveElement
<1>18. /\ IsFiniteSet((Elements(table) \ {e}) \cup {e1})
       /\ Cardinality((Elements(table) \ {e}) \cup {e1}) = Cardinality(Elements(table) \ {e}) + 1
  BY <1>16, <1>17, FS_AddElement
<1>19. Cardinality(Elements(table)) \in Nat
  BY <1>1, FS_CardinalityType
<1>20. IsFiniteSet(Elements(new)) /\ new.amount = Cardinality(Elements(new))
  BY <1>1, <1>7, <1>13, <1>17, <1>18, <1>19
<1>21. Used(new.chains, new.max) = table.current
  BY <1>2, <1>4, <1>8, <1>9, UsedAfterReplacing
<1>22. WellFormed(new, id, Values)
  BY <1>1, <1>7, <1>10, <1>15, <1>20, <1>21 DEF WellFormed
<1> QED
  BY <1>13, <1>22 DEF new, e1

\* A new element goes to the end of its chain.
LEMMA InsertAdds ==
  ASSUME NEW id, Tells(id), NEW Values, NEW table, WellFormed(table, id, Values),
         NEW k \in Keys, NEW v \in Values, ~HasKey(table, id, k)
  PROVE  LET new == Insert(table, k, v) IN
         /\ WellFormed(new, id, Values)
         /\ Elements(new) = Elements(table) \cup {[key |-> k, value |-> v]}
<1> DEFINE new   == Insert(table, k, v)
           i     == Index(table, k)
           e1    == [key |-> k, value |-> v]
           chain == table.chains[i] \cup {e1}
<1>1. /\ table = [max |-> table.max, chains |-> table.chains, current |-> table.current,
                  amount |-> table.amount]
      /\ table.max \in Nat \ {0}
      /\ table.chains \in [Slots(table) -> SUBSET [key : Keys, value : Values]]
      /\ \A j \in Slots(table) : \A f \in table.chains[j] : Index(table, f.key) = j
      /\ \A f, g \in Elements(table) : id[f.key] = id[g.key] => f = g
      /\ IsFiniteSet(Elements(table))
      /\ table.amount = Cardinality(Elements(table))
      /\ table.current = Used(table.chains, table.max)
  BY DEF WellFormed, InPlace
<1>2. i \in Slots(table)
  BY <1>1, IndexIsASlot
<1>3. \A f \in Elements(table) : id[f.key] # id[k]
  BY GetFindsTheElement
<1>4. /\ new.max = table.max /\ new.chains = [table.chains EXCEPT ![i] = chain]
      /\ new.current = (IF table.chains[i] = {} THEN table.current + 1 ELSE table.current)
      /\ new.amount = table.amount + 1
      /\ new = [max |-> new.max, chains |-> new.chains, current |-> new.current,
                amount |-> new.amount]
  <2>1. table = [max |-> table.max, chains |-> table.chains, current |-> table.current,
                 amount |-> table.amount]
    BY <1>1
  <2> DEFINE current == IF table.chains[i] = {} THEN table.current + 1 ELSE table.current
             amount  == table.amount + 1
  <2> HIDE DEF chain, i, current, amount
  <2>2. new = [table EXCEPT !.chains[i] = chain, !.current = current, !.amount = amount]
    BY DEF Insert, chain, i, current, amount
  <2>3. new = [max |-> table.max, chains |-> [table.chains EXCEPT ![i] = chain],
               current |-> current, amount |-> amount]
    BY <2>1, <2>2
  <2> QED
    BY <2>3 DEF current, amount
<1>5. e1 \in [key : Keys, value : Values] /\ e1.key = k /\ e1 \in chain
  OBVIOUS
<1> HIDE DEF new, e1, i
<1>6. chain \in SUBSET [key : Keys, value : Values] /\ chain # {}
  BY <1>1, <1>2, <1>5
<1>7. chain \in ChainOf(table, i, Values) /\ Replaces(new, table, i, chain)
  BY <1>1, <1>2, <1>4, <1>5, <1>6 DEF ChainOf, Replaces, i
<1> HIDE DEF chain
<1>8. Elements(new) = (Elements(table) \ table.chains[i]) \cup chain /\ InPlace(new, Values)
  BY <1>2, <1>7, ReplacingOneChain
<1>9. table.chains[i] \subseteq Elements(table)
  BY <1>2 DEF Elements, Slots
<1>10. Elements(new) = Elements(table) \cup {e1}
  BY <1>8, <1>9 DEF chain
<1>11. e1 \notin Elements(table)
  BY <1>3, <1>5
<1>12. \A f, g \in Elements(new) : id[f.key] = id[g.key] => f = g
  BY <1>1, <1>3, <1>5, <1>10
<1>13. IsFiniteSet(Elements(new)) /\ new.amount = Cardinality(Elements(new))
  BY <1>1, <1>4, <1>10, <1>11, FS_AddElement
<1>14. new.current = Used(new.chains, new.max)
  BY <1>2, <1>4, <1>6, <1>7, UsedAfterReplacing
<1>15. WellFormed(new, id, Values)
  BY <1>1, <1>4, <1>8, <1>12, <1>13, <1>14 DEF WellFormed
<1> QED
  BY <1>10, <1>15 DEF new, e1

\* Every element is in the larger array once, where its hash says.
LEMMA ResizeKeeps ==
  ASSUME NEW id, NEW Values, NEW table, WellFormed(table, id, Values), NEW size \in Nat \ {0}
  PROVE  LET new == Resize(table, size) IN
         /\ WellFormed(new, id, Values)
         /\ Elements(new) = Elements(table)
<1> DEFINE new == Resize(table, size)
<1>1. /\ table.max \in Nat \ {0}
      /\ table.chains \in [Slots(table) -> SUBSET [key : Keys, value : Values]]
      /\ \A f, g \in Elements(table) : id[f.key] = id[g.key] => f = g
      /\ IsFiniteSet(Elements(table))
      /\ table.amount = Cardinality(Elements(table))
  BY DEF WellFormed, InPlace
<1>2. /\ new.max = size
      /\ new.chains = [i \in 0 .. size - 1 |-> {e \in Elements(table) : Hash[e.key] % size = i}]
      /\ new.current = Used(new.chains, size) /\ new.amount = table.amount
      /\ new = [max |-> new.max, chains |-> new.chains, current |-> new.current,
                amount |-> new.amount]
  BY DEF Resize, Rehashed
<1> HIDE DEF new
<1>3. Elements(table) \subseteq [key : Keys, value : Values]
  BY <1>1 DEF Elements, Slots
<1>4. \A e \in Elements(table) : Hash[e.key] % size \in 0 .. size - 1
  BY <1>3, HashAssumption
<1>5. Elements(new) = Elements(table)
  <2>1. Elements(new) \subseteq Elements(table)
    BY <1>2 DEF Elements
  <2>2. ASSUME NEW e \in Elements(table)
        PROVE  e \in Elements(new)
    <3>1. e \in new.chains[Hash[e.key] % size]
      BY <1>2, <1>4
    <3> QED
      BY <1>2, <1>4, <3>1 DEF Elements
  <2> QED
    BY <2>1, <2>2
<1>6. new.chains \in [Slots(new) -> SUBSET [key : Keys, value : Values]]
  BY <1>2, <1>3 DEF Slots
<1>7. \A i \in Slots(new) : \A e \in new.chains[i] : Index(new, e.key) = i
  BY <1>2 DEF Slots, Index
<1>8. WellFormed(new, id, Values)
  BY <1>1, <1>2, <1>5, <1>6, <1>7 DEF WellFormed, InPlace
<1> QED
  BY <1>5, <1>8 DEF new

\* The element of an id is taken out of its chain.
LEMMA RemoveTakesOut ==
  ASSUME NEW id, Tells(id), NEW Values, NULL \notin Values,
         NEW table, WellFormed(table, id, Values),
         NEW k \in Keys, NEW e \in Elements(table), id[e.key] = id[k]
  PROVE  LET new == Remove(table, id, k) IN
         /\ WellFormed(new, id, Values)
         /\ Elements(new) = Elements(table) \ {e}
<1> DEFINE new   == Remove(table, id, k)
           i     == Index(table, k)
           chain == table.chains[i] \ {e}
<1>1. /\ table = [max |-> table.max, chains |-> table.chains, current |-> table.current,
                  amount |-> table.amount]
      /\ table.max \in Nat \ {0}
      /\ table.chains \in [Slots(table) -> SUBSET [key : Keys, value : Values]]
      /\ \A j \in Slots(table) : \A f \in table.chains[j] : Index(table, f.key) = j
      /\ \A f, g \in Elements(table) : id[f.key] = id[g.key] => f = g
      /\ IsFiniteSet(Elements(table))
      /\ table.amount = Cardinality(Elements(table))
  BY DEF WellFormed, InPlace
<1>2. i \in Slots(table)
  BY <1>1, IndexIsASlot
<1>3. HasKey(table, id, k) /\ Matches(table, id, k) = {e} /\ Get(table, id, k) = e.value
  BY GetFindsTheElement
<1>4. e \in table.chains[i]
  BY <1>3 DEF Matches
<1>5. e.value # NULL
  BY <1>1, <1>2, <1>4
<1>6. /\ new.max = table.max /\ new.chains = [table.chains EXCEPT ![i] = chain]
      /\ new.current = (IF chain = {} THEN table.current - 1 ELSE table.current)
      /\ new.amount = table.amount - 1
      /\ new = [max |-> new.max, chains |-> new.chains, current |-> new.current,
                amount |-> new.amount]
  <2>1. table = [max |-> table.max, chains |-> table.chains, current |-> table.current,
                 amount |-> table.amount]
    BY <1>1
  <2> DEFINE current == IF chain = {} THEN table.current - 1 ELSE table.current
             amount  == table.amount - 1
  <2> HIDE DEF chain, i, current, amount
  <2>2. new = [table EXCEPT !.chains[i] = chain, !.current = current, !.amount = amount]
    BY <1>3, <1>5 DEF Remove, chain, i, current, amount
  <2>3. new = [max |-> table.max, chains |-> [table.chains EXCEPT ![i] = chain],
               current |-> current, amount |-> amount]
    BY <2>1, <2>2
  <2> QED
    BY <2>3 DEF current, amount
<1> HIDE DEF new, i
<1>7. chain \in ChainOf(table, i, Values) /\ Replaces(new, table, i, chain)
  BY <1>1, <1>2, <1>6 DEF ChainOf, Replaces
<1> HIDE DEF chain
<1>8. Elements(new) = (Elements(table) \ table.chains[i]) \cup chain /\ InPlace(new, Values)
  BY <1>2, <1>7, ReplacingOneChain
<1>9. table.chains[i] \subseteq Elements(table)
  BY <1>2 DEF Elements, Slots
<1>10. Elements(new) = Elements(table) \ {e}
  BY <1>4, <1>8, <1>9 DEF chain
<1>11. \A f, g \in Elements(new) : id[f.key] = id[g.key] => f = g
  BY <1>1, <1>10
<1>12. IsFiniteSet(Elements(new)) /\ new.amount = Cardinality(Elements(new))
  BY <1>1, <1>6, <1>10, FS_RemoveElement
<1>13. new.current = Used(new.chains, new.max)
  BY <1>2, <1>4, <1>6, <1>7, UsedAfterReplacing
<1>14. WellFormed(new, id, Values)
  BY <1>1, <1>6, <1>8, <1>11, <1>12, <1>13 DEF WellFormed
<1> QED
  BY <1>10, <1>14 DEF new

\* What is in a table after a put, whether it overwrites, inserts or grows.
LEMMA PutHasEffect ==
  ASSUME NEW id, Tells(id), NEW Values, NEW table, WellFormed(table, id, Values),
         NEW k \in Keys, NEW v \in Values
  PROVE  LET new == Put(table, id, k, v) IN
         /\ WellFormed(new, id, Values)
         /\ \A f \in Elements(table) : id[f.key] # id[k] => f \in Elements(new)
         /\ \E e \in Elements(new) :
              /\ id[e.key] = id[k] /\ e.value = v
              /\ \A f \in Elements(new) : f = e \/ f \in Elements(table)
<1> DEFINE new == Put(table, id, k, v)
<1>1. CASE HasKey(table, id, k)
  <2>1. PICK e \in Elements(table) : id[e.key] = id[k]
    BY <1>1, GetFindsTheElement
  <2>2. new = Overwrite(table, id, k, v)
    BY <1>1 DEF Put
  <2> HIDE DEF new
  <2>3. /\ WellFormed(new, id, Values)
        /\ Elements(new) = (Elements(table) \ {e}) \cup {[key |-> e.key, value |-> v]}
    BY <2>1, <2>2, OverwriteReplaces
  <2> QED
    BY <2>1, <2>3 DEF new
<1>2. CASE ~HasKey(table, id, k)
  <2> DEFINE more == Insert(table, k, v)
  <2>1. new \in {more, Resize(more, 2 * table.max)}
    BY <1>2 DEF Put
  <2> HIDE DEF new, more
  <2>2. /\ WellFormed(more, id, Values)
        /\ Elements(more) = Elements(table) \cup {[key |-> k, value |-> v]}
    BY <1>2, InsertAdds DEF more
  <2>3. 2 * table.max \in Nat \ {0}
    BY DEF WellFormed
  <2>4. WellFormed(new, id, Values) /\ Elements(new) = Elements(more)
    BY <2>1, <2>2, <2>3, ResizeKeeps
  <2> DEFINE e == [key |-> k, value |-> v]
  <2>5. e.key = k /\ e.value = v
    OBVIOUS
  <2> HIDE DEF e
  <2>6. Elements(new) = Elements(table) \cup {e}
    BY <2>2, <2>4 DEF e
  <2> QED
    BY <2>4, <2>5, <2>6 DEF new
<1> QED
  BY <1>1, <1>2

-----------------------------------------------------------------------------
(***************************************************************************)
(* Growth.  The array doubles when its last free chain gets an element,    *)
(* which is then alone in its chain: of the two chains that this one       *)
(* becomes, one stays free.                                                *)
(***************************************************************************)
\* A number has one remainder.
LEMMA RemainderIsUnique ==
  ASSUME NEW m \in Nat \ {0}, NEW p \in Nat, NEW q \in Nat, NEW r \in 0 .. m - 1, NEW s \in 0 .. m - 1,
         p * m + r = q * m + s
  PROVE  r = s
<1>1. CASE p = q
  BY <1>1
<1>2. CASE p < q
  <2>1. (p + 1) * m <= q * m
    BY <1>2
  <2> QED
    BY <2>1
<1>3. CASE p > q
  <2>1. (q + 1) * m <= p * m
    BY <1>3
  <2> QED
    BY <2>1
<1> QED
  BY <1>1, <1>2, <1>3

\* A hash is its quotient by the size of the array and its index there.
LEMMA QuotientAndRemainder ==
  ASSUME NEW m \in Nat \ {0}, NEW h \in Nat
  PROVE  h % m \in 0 .. m - 1 /\ h \div m \in Nat /\ h = (h \div m) * m + (h % m)
  OBVIOUS

\* The index of a hash in an array of the double size is its old one, or that and the old size.
LEMMA RemainderOfHalf ==
  ASSUME NEW m \in Nat \ {0}, NEW h \in Nat, NEW i \in 0 .. m - 1, h % (2 * m) \in {i, i + m}
  PROVE  h % m = i
<1> DEFINE p == h \div m
           q == h \div (2 * m)
           r == h % m
           s == h % (2 * m)
<1>1. p \in Nat /\ r \in 0 .. m - 1 /\ h = p * m + r
  BY QuotientAndRemainder
<1>2. q \in Nat /\ h = q * (2 * m) + s
  <2>1. 2 * m \in Nat \ {0}
    OBVIOUS
  <2> QED
    BY <2>1, QuotientAndRemainder
<1> HIDE DEF p, q, r, s
<1>3. s \in {i, i + m}
  BY DEF s
<1>4. q * (2 * m) = (2 * q) * m /\ (2 * q) * m + m = (2 * q + 1) * m
  BY <1>2
<1>5. CASE (2 * q) * m + i = p * m + r
  <2>1. 2 * q \in Nat
    BY <1>2
  <2>2. i = r
    BY <1>1, <1>5, <2>1, RemainderIsUnique
  <2> QED
    BY <2>2 DEF r
<1>6. CASE (2 * q + 1) * m + i = p * m + r
  <2>1. 2 * q + 1 \in Nat
    BY <1>2
  <2>2. i = r
    BY <1>1, <1>6, <2>1, RemainderIsUnique
  <2> QED
    BY <2>2 DEF r
<1> QED
  BY <1>1, <1>2, <1>3, <1>4, <1>5, <1>6

\* A table with a chain that is free has fewer chains in use than it has room for.
LEMMA AFreeChainIsNotUsed ==
  ASSUME NEW size \in Nat \ {0}, NEW chains, NEW j \in 0 .. size - 1, chains[j] = {}
  PROVE  Used(chains, size) < size
<1> DEFINE All    == 0 .. size - 1
           Filled == {i \in All : chains[i] # {}}
<1>1. IsFiniteSet(All) /\ Cardinality(All) = size
  <2>1. size - 1 \in Int /\ 0 \in Int /\ ~(0 > size - 1) /\ (size - 1) - 0 + 1 = size
    OBVIOUS
  <2> QED
    BY <2>1, FS_Interval
<1>2. Filled \in SUBSET All /\ Filled # All
  OBVIOUS
<1> HIDE DEF All, Filled
<1>3. IsFiniteSet(Filled) /\ Cardinality(Filled) <= size /\ Cardinality(Filled) # size
  BY <1>1, <1>2, FS_Subset
<1>4. Cardinality(Filled) \in Nat
  BY <1>3, FS_CardinalityType
<1> QED
  BY <1>3, <1>4 DEF Used, All, Filled

\* No put leaves all chains in use: the doubling is tried at the one insert that could
\* (hashmap.c:85, dictionary.c:84), and always makes room.
THEOREM PutLeavesAFreeChain ==
  ASSUME NEW id, Tells(id), NEW Values, NEW table, WellFormed(table, id, Values),
         table.current < table.max, NEW k \in Keys, NEW v \in Values
  PROVE  Put(table, id, k, v).current < Put(table, id, k, v).max
<1> DEFINE new  == Put(table, id, k, v)
           more == Insert(table, k, v)
           i    == Index(table, k)
           e1   == [key |-> k, value |-> v]
<1>1. /\ table = [max |-> table.max, chains |-> table.chains, current |-> table.current,
                  amount |-> table.amount]
      /\ table.max \in Nat \ {0}
      /\ table.chains \in [Slots(table) -> SUBSET [key : Keys, value : Values]]
  BY DEF WellFormed, InPlace
<1>2. i \in Slots(table)
  BY <1>1, IndexIsASlot
<1>3. more.max = table.max
  BY <1>1 DEF Insert
<1>4. more.chains[i] = table.chains[i] \cup {e1}
  BY <1>1, <1>2 DEF Insert
<1>5. more.current = IF table.chains[i] = {} THEN table.current + 1 ELSE table.current
  BY <1>1 DEF Insert
<1>6. CASE HasKey(table, id, k)
  <2>1. new = Overwrite(table, id, k, v)
    BY <1>6 DEF Put
  <2>2. new.max = table.max /\ new.current = table.current
    BY <1>1, <2>1 DEF Overwrite
  <2> QED
    BY <2>2
<1>7. CASE ~HasKey(table, id, k) /\ ~(more.current >= table.max /\ table.chains[i] = {})
  <2>1. new = more
    BY <1>7 DEF Put
  <2>2. table.current \in Nat
    <3>1. Replaces(table, table, i, table.chains[i])
      BY <1>1, <1>2 DEF Replaces
    <3> QED
      BY <1>2, <3>1, UsedAfterReplacing
  <2>3. more.current < table.max
    BY <1>1, <1>5, <1>7, <2>2
  <2> QED
    BY <1>3, <2>1, <2>3
<1>8. CASE ~HasKey(table, id, k) /\ more.current >= table.max /\ table.chains[i] = {}
  <2> DEFINE size == 2 * table.max
  <2>1. new = Resize(more, size)
    BY <1>8 DEF Put
  <2>2. new.max = size /\ new.current = Used(Rehashed(more, size), size)
    BY <2>1 DEF Resize
  <2>3. size \in Nat \ {0} /\ i \in 0 .. table.max - 1 /\ i + table.max \in 0 .. size - 1
    BY <1>1, <1>2 DEF Slots
  <2>4. WellFormed(more, id, Values)
    BY <1>8, InsertAdds
  <2> HIDE DEF more, i, e1, size
  <2>5. ASSUME NEW e \in Elements(more), Hash[e.key] % size \in {i, i + table.max}
        PROVE  e = e1
    <3>1. PICK j \in Slots(more) : e \in more.chains[j]
      BY <2>5 DEF Elements, Slots
    <3>2. e.key \in Keys /\ Index(more, e.key) = j
      BY <2>4, <3>1 DEF WellFormed, InPlace
    <3>3. Hash[e.key] \in Nat
      BY <3>2, HashAssumption
    <3>4. Hash[e.key] % table.max = i
      BY <1>1, <2>3, <2>5, <3>3, RemainderOfHalf DEF size
    <3>5. j = i
      BY <1>3, <3>2, <3>4 DEF Index
    <3> QED
      BY <1>4, <1>8, <3>1, <3>5
  <2>6. \E j \in {i, i + table.max} : Rehashed(more, size)[j] = {}
    <3>1. {i, i + table.max} \subseteq 0 .. size - 1 /\ i # i + table.max
      BY <1>1, <2>3 DEF size
    <3>2. CASE Hash[e1.key] % size = i
      <4>1. \A e \in Elements(more) : Hash[e.key] % size # i + table.max
        BY <2>5, <3>1, <3>2
      <4> QED
        BY <3>1, <4>1 DEF Rehashed
    <3>3. CASE Hash[e1.key] % size # i
      <4>1. \A e \in Elements(more) : Hash[e.key] % size # i
        BY <2>5, <3>3
      <4> QED
        BY <3>1, <4>1 DEF Rehashed
    <3> QED
      BY <3>2, <3>3
  <2>7. {i, i + table.max} \subseteq 0 .. size - 1
    BY <1>1, <2>3 DEF size
  <2>8. Used(Rehashed(more, size), size) < size
    BY <2>3, <2>6, <2>7, AFreeChainIsNotUsed
  <2> QED
    BY <2>2, <2>8 DEF more, size
<1> QED
  BY <1>3, <1>6, <1>7, <1>8

-----------------------------------------------------------------------------
(***************************************************************************)
(* What the users of the tables rely on.                                   *)
(***************************************************************************)
\* After any put the table is well formed, a lookup of an id that was put returns the
\* value, and no other lookup returns anything else than before: whatever the hashes, and
\* although the array may have grown (hashmap_put, dictionary_put).
THEOREM PutThenGet ==
  ASSUME NEW id, Tells(id), NEW Values, NEW table, WellFormed(table, id, Values),
         NEW k \in Keys, NEW v \in Values
  PROVE  /\ WellFormed(Put(table, id, k, v), id, Values)
         /\ \A other \in Keys :
              Get(Put(table, id, k, v), id, other) =
                IF id[other] = id[k] THEN v ELSE Get(table, id, other)
<1> DEFINE new == Put(table, id, k, v)
<1>1. PICK e \in Elements(new) :
        /\ id[e.key] = id[k] /\ e.value = v
        /\ \A f \in Elements(new) : f = e \/ f \in Elements(table)
  BY PutHasEffect
<1>2. /\ WellFormed(new, id, Values)
      /\ \A f \in Elements(table) : id[f.key] # id[k] => f \in Elements(new)
  BY PutHasEffect
<1> HIDE DEF new
<1>3. ASSUME NEW other \in Keys
      PROVE  Get(new, id, other) = IF id[other] = id[k] THEN v ELSE Get(table, id, other)
  <2>1. CASE id[other] = id[k]
    BY <1>1, <1>2, <2>1, GetFindsTheElement
  <2>2. CASE id[other] # id[k] /\ HasKey(table, id, other)
    <3>1. PICK f \in Elements(table) : id[f.key] = id[other]
      BY <2>2, GetFindsTheElement
    <3>2. f \in Elements(new)
      BY <1>2, <2>2, <3>1
    <3>3. Get(new, id, other) = f.value /\ Get(table, id, other) = f.value
      BY <1>2, <3>1, <3>2, GetFindsTheElement
    <3> QED
      BY <2>2, <3>3
  <2>3. CASE id[other] # id[k] /\ ~HasKey(table, id, other)
    <3>1. \A f \in Elements(table) : id[f.key] # id[other]
      BY <2>3, GetFindsTheElement
    <3>2. \A f \in Elements(new) : id[f.key] # id[other]
      BY <1>1, <2>3, <3>1
    <3>3. ~HasKey(new, id, other)
      BY <1>2, <3>2, GetFindsTheElement
    <3> QED
      BY <1>2, <2>3, <3>3, GetFindsTheElement
  <2> QED
    BY <2>1, <2>2, <2>3
<1> QED
  BY <1>2, <1>3 DEF new

\* After a remove that id is gone and every other lookup returns what it did
\* (hashmap_remove, dictionary_remove).
THEOREM RemoveThenGet ==
  ASSUME NEW id, Tells(id), NEW Values, NULL \notin Values,
         NEW table, WellFormed(table, id, Values), NEW k \in Keys
  PROVE  /\ WellFormed(Remove(table, id, k), id, Values)
         /\ \A other \in Keys :
              Get(Remove(table, id, k), id, other) =
                IF id[other] = id[k] THEN NULL ELSE Get(table, id, other)
<1> DEFINE new == Remove(table, id, k)
<1>1. CASE ~HasKey(table, id, k)
  <2>1. new = table
    BY <1>1 DEF Remove
  <2>2. ASSUME NEW other \in Keys, id[other] = id[k]
        PROVE  Get(table, id, other) = NULL
    <3>1. ~HasKey(table, id, other)
      BY <1>1, <2>2, GetFindsTheElement
    <3> QED
      BY <3>1, GetFindsTheElement
  <2> QED
    BY <2>1, <2>2
<1>2. CASE HasKey(table, id, k)
  <2>1. PICK e \in Elements(table) : id[e.key] = id[k]
    BY <1>2, GetFindsTheElement
  <2>2. WellFormed(new, id, Values) /\ Elements(new) = Elements(table) \ {e}
    BY <2>1, RemoveTakesOut
  <2> HIDE DEF new
  <2>3. \A f \in Elements(new) : id[f.key] # id[k]
    BY <2>1, <2>2 DEF WellFormed
  <2>4. ASSUME NEW other \in Keys, id[other] = id[k]
        PROVE  Get(new, id, other) = NULL
    <3>1. ~HasKey(new, id, other)
      BY <2>2, <2>3, <2>4, GetFindsTheElement
    <3> QED
      BY <2>2, <3>1, GetFindsTheElement
  <2>5. ASSUME NEW other \in Keys, id[other] # id[k], HasKey(table, id, other)
        PROVE  Get(new, id, other) = Get(table, id, other)
    <3>1. PICK f \in Elements(table) : id[f.key] = id[other]
      BY <2>5, GetFindsTheElement
    <3>2. f \in Elements(new)
      BY <2>1, <2>2, <2>5, <3>1
    <3>3. Get(new, id, other) = f.value /\ Get(table, id, other) = f.value
      BY <2>2, <3>1, <3>2, GetFindsTheElement
    <3> QED
      BY <3>3
  <2>6. ASSUME NEW other \in Keys, id[other] # id[k], ~HasKey(table, id, other)
        PROVE  Get(new, id, other) = Get(table, id, other)
    <3>1. ~HasKey(new, id, other)
      BY <2>2, <2>6, GetFindsTheElement
    <3> QED
      BY <2>2, <2>6, <3>1, GetFindsTheElement
  <2> QED
    BY <2>2, <2>4, <2>5, <2>6 DEF new
<1> QED
  BY <1>1, <1>2

\* Each operation of hashmap.c on a table that create and put and remove made does to
\* the values of the keys what it does to one function, and hashmap_size tells how many
\* keys have one.
THEOREM HashmapIsAFunction ==
  ASSUME NEW Values, NULL \notin Values,
         NEW table, WellFormed(table, KeyItself, Values), NEW k \in Keys, NEW v \in Values
  PROVE  LET values(hashmap) == [key \in Keys |-> hashmap_get(hashmap, key)] IN
         /\ values(hashmap_put(table, k, v)) = [values(table) EXCEPT ![k] = v]
         /\ values(hashmap_remove(table, k)) = [values(table) EXCEPT ![k] = NULL]
         /\ values(Clean(table)) = [key \in Keys |-> NULL]
         /\ \A key \in Keys : hashmap_has_key(table, key) <=> hashmap_get(table, key) # NULL
         /\ table.amount = Cardinality({key \in Keys : hashmap_has_key(table, key)})
<1>1. Tells(KeyItself) /\ \A key \in Keys : KeyItself[key] = key
  BY DEF Tells, KeyItself
<1>2. [key \in Keys |-> hashmap_get(hashmap_put(table, k, v), key)] =
        [[key \in Keys |-> hashmap_get(table, key)] EXCEPT ![k] = v]
  <2>1. \A key \in Keys : hashmap_get(hashmap_put(table, k, v), key) =
                           IF key = k THEN v ELSE hashmap_get(table, key)
    BY <1>1, PutThenGet DEF hashmap_put, hashmap_get
  <2> QED
    BY <2>1
<1>3. [key \in Keys |-> hashmap_get(hashmap_remove(table, k), key)] =
        [[key \in Keys |-> hashmap_get(table, key)] EXCEPT ![k] = NULL]
  <2>1. \A key \in Keys : hashmap_get(hashmap_remove(table, k), key) =
                           IF key = k THEN NULL ELSE hashmap_get(table, key)
    BY <1>1, RemoveThenGet DEF hashmap_remove, hashmap_get
  <2> QED
    BY <2>1
<1>4. \A key \in Keys : hashmap_get(Clean(table), key) = NULL
  <2>1. table.max \in Nat \ {0}
    BY DEF WellFormed
  <2>2. WellFormed(Clean(table), KeyItself, Values) /\ Elements(Clean(table)) = {}
    BY <2>1, CreateIsEmpty DEF Clean
  <2> QED
    BY <1>1, <2>2, GetFindsTheElement DEF hashmap_get
<1>5. Elements(table) \subseteq [key : Keys, value : Values]
  BY DEF WellFormed, InPlace, Elements, Slots
<1>6. \A key \in Keys : hashmap_has_key(table, key) <=> \E e \in Elements(table) : e.key = key
  BY <1>1, <1>5, GetFindsTheElement DEF hashmap_has_key
<1>7. \A key \in Keys : hashmap_has_key(table, key) <=> hashmap_get(table, key) # NULL
  BY <1>1, <1>5, GetFindsTheElement DEF hashmap_has_key, hashmap_get
<1>8. table.amount = Cardinality({key \in Keys : hashmap_has_key(table, key)})
  <2> DEFINE present == {key \in Keys : hashmap_has_key(table, key)}
             keyOf   == [e \in Elements(table) |-> e.key]
  <2>1. keyOf \in Bijection(Elements(table), present)
    <3>1. keyOf \in [Elements(table) -> present]
      BY <1>5, <1>6
    <3>2. \A e, f \in Elements(table) : keyOf[e] = keyOf[f] => e = f
      BY <1>1, <1>5 DEF WellFormed
    <3>3. \A key \in present : \E e \in Elements(table) : keyOf[e] = key
      BY <1>6
    <3> QED
      BY <3>1, <3>2, <3>3 DEF Bijection, Injection, IsInjective, Surjection
  <2>2. IsFiniteSet(Elements(table)) /\ table.amount = Cardinality(Elements(table))
    BY DEF WellFormed
  <2>3. Cardinality(present) = Cardinality(Elements(table))
    BY <2>1, <2>2, FS_Bijection DEF ExistsBijection
  <2> QED
    BY <2>2, <2>3
<1> QED
  BY <1>2, <1>3, <1>4, <1>7, <1>8

\* dictionary.c compares hashes only (dictionary_get_element): two names of one hash are
\* one name, so that a put or a remove under one is seen under the other.
THEOREM DictionaryTellsHashesOnly ==
  ASSUME NEW Values, NULL \notin Values,
         NEW table, WellFormed(table, Hash, Values), NEW k \in Keys, NEW v \in Values,
         NEW other \in Keys
  PROVE  /\ dictionary_get(dictionary_put(table, k, v), other) =
              IF Hash[other] = Hash[k] THEN v ELSE dictionary_get(table, other)
         /\ dictionary_get(dictionary_remove(table, k), other) =
              IF Hash[other] = Hash[k] THEN NULL ELSE dictionary_get(table, other)
<1>1. Tells(Hash)
  BY DEF Tells
<1> QED
  BY <1>1, PutThenGet, RemoveThenGet DEF dictionary_put, dictionary_get, dictionary_remove

-----------------------------------------------------------------------------
(***************************************************************************)
(* The event loop: what is always so.                                      *)
(***************************************************************************)

\* What each step of the dispatcher has, and what each call sets.
Steps == {"wait", "dispatch", "fire", "spawn", "reload", "set", "header", "recv", "ended"}
PcOK ==
  /\ pc = [at |-> pc.at, timer |-> pc.timer, left |-> pc.left, peer |-> pc.peer, header |-> pc.header,
           todo |-> pc.todo, new |-> pc.new]
  /\ pc.at \in Steps
  /\ pc.at = "fire" => pc.timer \in Timers
  /\ pc.at = "spawn" => pc.timer \in WorkerTimers
  /\ pc.todo \in Seq(Timers)
  /\ pc.at = "set" => pc.todo # <<>> /\ pc.new \in Intervals
  /\ pc.at \in {"header", "recv"} => pc.peer \in Peers

Calling == [timer : Timers, enable : BOOLEAN, step : {"check", "settime", "store"}]
CallsOK ==
  /\ call \in [Threads -> {NoCall} \cup Calling]
  /\ \A w \in Workers : call[w] # NoCall => call[w].enable /\ call[w].timer = worker[w]
  /\ call[Dispatcher] # NoCall =>
       \/ pc.at = "spawn" /\ ~call[Dispatcher].enable /\ call[Dispatcher].timer = pc.timer
       \/ pc.at = "set" /\ ~call[Dispatcher].enable /\ call[Dispatcher].timer = Head(pc.todo)
       \/ pc.at = "reload" /\ call[Dispatcher].enable

TimersOK ==
  /\ TimerEnabled \in [Timers -> BOOLEAN]
  /\ Interval \in [Timers -> Intervals] /\ armed \in [Timers -> Intervals \cup {0}]
  /\ expiries \in [Timers -> 0 .. MaxExpiries]
  /\ worker \in [Workers -> WorkerTimers \cup {None}]
  /\ disturbed \in [Timers -> Nat]

LinksOK ==
  /\ link \in [Peers -> {"none", "backlog", "accepted", "closed"}]
  /\ alive \in [Peers -> {"alive", "fin", "reset"}]
  /\ sending \subseteq Peers
  /\ \A p \in Peers : link[p] \in {"none", "closed"} => alive[p] = "alive"
PeersOK == ProcessRunning \in BOOLEAN /\ garbled \subseteq Peers /\ LinksOK

TInv == PcOK /\ CallsOK /\ TimersOK /\ PeersOK

\* Workers of a timer, and who may yet become one: the timer while it is enabled or being set again, and the
\* dispatcher between the end of its call and pthread_create.
Spawning(t) == pc.at = "spawn" /\ pc.timer = t
Setting(t)  == pc.at = "set" /\ Head(pc.todo) = t
Enabling(t) == pc.at = "reload" /\ call[Dispatcher].timer = t
Called(t)   == call[Dispatcher].timer = t

Tokens(t) ==
  IF (Spawning(t) \/ Setting(t)) /\ Called(t) THEN 1
  ELSE (IF TimerEnabled[t] THEN 1 ELSE 0) + (IF Spawning(t) \/ Setting(t) \/ Enabling(t) THEN 1 ELSE 0)
CountedAt(t) ==
  /\ Cardinality(WorkersOf(t)) + Tokens(t) <= 1 + disturbed[t]
  /\ Spawning(t) /\ Called(t) => TimerEnabled[t]
  /\ Setting(t) /\ Called(t) /\ call[Dispatcher].step # "check" => TimerEnabled[t]
  /\ WorkersOf(t) = {} /\ ~Spawning(t) /\ ~Setting(t) /\ ~Enabling(t) => TimerEnabled[t]

Storing(t) == {th \in Threads : call[th].timer = t /\ call[th].step = "store"}
ArmedAt(t) ==
  disturbed[t] = 0 =>
    /\ Storing(t) = {} => armed[t] = IF TimerEnabled[t] THEN Interval[t] ELSE 0
    /\ \A th \in Storing(t) : armed[t] = IF call[th].enable THEN Interval[t] ELSE 0

WInv == \A t \in WorkerTimers : CountedAt(t) /\ ArmedAt(t)

\* Descriptors.
IsOpen(fdi) == \E fd \in Keys : open[fd] = fdi
DescriptorsOK ==
  /\ open \in [Keys -> Interfaces \cup {None}]
  /\ \A a, b \in Keys : open[a] = open[b] /\ open[a] # None => a = b
  /\ epoll = {fd \in Keys : open[fd] # None}
MapOK ==
  /\ WellFormed(fdiMap, KeyItself, Interfaces)
  /\ \A fd \in Keys : hashmap_get(fdiMap, fd) = IF open[fd] # None THEN open[fd] ELSE NULL
EventsOK ==
  /\ \A event \in batch : event.fdi \in Interfaces /\ IsOpen(event.fdi)
  /\ pc.at \in {"header", "recv"} => IsOpen(pc.peer) /\ \A event \in batch : event.fdi # pc.peer
  /\ pc.at # "ended" => \A p \in Peers : IsOpen(p) <=> link[p] = "accepted"
  /\ pc.at = "ended" => batch = {} /\ epoll = {}

DInv == DescriptorsOK /\ MapOK /\ EventsOK

-----------------------------------------------------------------------------
(***************************************************************************)
(* Types.                                                                  *)
(***************************************************************************)
\* Threads, timers and marks are told apart.
LEMMA Names ==
  /\ Dispatcher \in Threads /\ Dispatcher \notin Workers /\ Workers \subseteq Threads
  /\ None \notin Timers /\ None \notin WorkerTimers /\ WorkerTimers \subseteq Timers
  /\ NoCall.timer = None /\ NoCall.step = None /\ NoCall \notin Calling
  /\ \A p \in Peers : p \notin Timers /\ p \notin {"watcher", "listener", None}
<1>1. NoCall.timer = None /\ NoCall.step = None
  BY DEF NoCall
<1>2. None \notin Timers
  BY NamesAssumption DEF Interfaces
<1>3. NoCall \notin Calling
  BY <1>1, <1>2 DEF Calling
<1>4. Dispatcher \in Threads /\ Dispatcher \notin Workers /\ Workers \subseteq Threads
  BY EventLoopAssumption DEF Dispatcher, Threads
<1>5. WorkerTimers \subseteq Timers
  BY DEF Timers
<1>6. \A p \in Peers : p \notin Timers /\ p \notin {"watcher", "listener", None}
  BY NamesAssumption DEF Interfaces
<1> QED
  BY <1>1, <1>2, <1>3, <1>4, <1>5, <1>6

\* A dispatcher that does not set a timer is in no call.
LEMMA QuietDispatcher ==
  ASSUME CallsOK, pc.at \notin {"spawn", "set", "reload"}
  PROVE  call[Dispatcher] = NoCall
BY DEF CallsOK

\* The dispatcher at a step that has nothing,
LEMMA AtOK ==
  ASSUME NEW at \in {"wait", "dispatch", "reload", "ended"}, pc' = At(at)
  PROVE  PcOK' /\ pc'.at = at
<1>1. pc'.at = at /\ pc'.todo = <<>>
  BY DEF At
<1>2. pc' = [at |-> pc'.at, timer |-> pc'.timer, left |-> pc'.left, peer |-> pc'.peer,
             header |-> pc'.header, todo |-> pc'.todo, new |-> pc'.new]
  BY DEF At
<1>3. pc'.todo \in Seq(Timers)
  BY <1>1
<1> QED
  BY <1>1, <1>2, <1>3 DEF PcOK, Steps

\* and one that makes no call.
LEMMA QuietCalls ==
  ASSUME CallsOK, call' = call, worker' = worker, call[Dispatcher] = NoCall \/ pc' = pc
  PROVE  CallsOK'
BY DEF CallsOK

\* A step that reads a timer at most keeps the types of timers,
LEMMA SameTimers ==
  ASSUME TimersOK, UNCHANGED <<TimerEnabled, Interval, armed, worker, disturbed>>,
         expiries' = expiries \/ \E t \in Timers : expiries' = [expiries EXCEPT ![t] = 0]
  PROVE  TimersOK'
<1>1. MaxExpiries \in Nat
  BY EventLoopAssumption
<1>2. 0 \in 0 .. MaxExpiries
  BY <1>1
<1> QED
  BY <1>2 DEF TimersOK

\* one that does nothing to a peer those of peers,
LEMMA SamePeers == ASSUME PeersOK, UNCHANGED <<ProcessRunning, link, alive, sending, garbled>> PROVE PeersOK'
BY DEF PeersOK, LinksOK

\* and so do one that closes a connection
LEMMA ClosePeers == ASSUME LinksOK, NEW p, Close(p) PROVE LinksOK'
BY DEF LinksOK, Close

\* and one that handles a packet.
LEMMA HandlePeers ==
  ASSUME LinksOK, NEW p, NEW header, NEW whole, NEW rest, HandlePacket(p, header, whole, rest)
  PROVE  LinksOK'
<1>1. CASE Close(p)
  BY <1>1, ClosePeers
<1>2. CASE UNCHANGED <<link, alive>> /\ sending' = IF whole THEN sending ELSE sending \ {p}
  BY <1>2 DEF LinksOK
<1> QED
  BY <1>1, <1>2 DEF HandlePacket

\* What is received closes the connection, is handled, or is a header whose body is received next.
Receiving == Recv_Header \/ Recv_HeaderEnds \/ Interrupt_Header \/ Recv_Body \/ Interrupt_Body
Received(p) ==
  \/ Close(p) /\ pc' = At("dispatch")
  \/ (\E header, whole, rest : HandlePacket(p, header, whole, rest)) /\ pc' = At("dispatch")
  \/ /\ \E header : pc' = [At("recv") EXCEPT !.peer = p, !.header = [size |-> header.size, opcode |-> header.opcode]]
     /\ UNCHANGED <<open, epoll, fdiMap, link, alive, sending>>

LEMMA TakesHeader == ASSUME NEW p, NEW header, NEW whole, NEW rest, TakeHeader(p, header, whole, rest) PROVE Received(p)
<1>1. CASE Close(p) /\ pc' = At("dispatch")
  BY <1>1 DEF Received
<1>2. CASE HandlePacket(p, header, whole, rest) /\ pc' = At("dispatch")
  BY <1>2 DEF Received
<1>3. CASE /\ pc' = [At("recv") EXCEPT !.peer = p, !.header = [size |-> header.size, opcode |-> header.opcode]]
           /\ UNCHANGED <<open, epoll, fdiMap, link, alive, sending>>
  BY <1>3 DEF Received
<1> QED
  BY <1>1, <1>2, <1>3 DEF TakeHeader

LEMMA ReceivesOne ==
  ASSUME PcOK, PeersOK, Receiving
  PROVE  /\ Received(pc.peer) /\ pc.peer \in Peers /\ pc.at \in {"header", "recv"}
         /\ ProcessRunning' \in BOOLEAN /\ garbled' \subseteq Peers /\ UNCHANGED <<batch, timerVars>>
<1>1. pc.at \in {"header", "recv"} /\ UNCHANGED <<batch, timerVars>>
  BY DEF Receiving, Recv_Header, Recv_HeaderEnds, Interrupt_Header, Recv_Body, Interrupt_Body
<1>2. pc.peer \in Peers
  BY <1>1 DEF PcOK
<1>3. ProcessRunning' \in BOOLEAN
  BY DEF Receiving, Recv_Header, Recv_HeaderEnds, Interrupt_Header, Recv_Body, Interrupt_Body, PeersOK
<1>4. garbled' \subseteq Peers
  BY <1>2 DEF Receiving, Recv_Header, Recv_HeaderEnds, Interrupt_Header, Recv_Body, Interrupt_Body, PeersOK
<1>5. ASSUME Recv_Header PROVE Received(pc.peer)
  <2>1. TakeHeader(pc.peer, Head(stream[pc.peer]), TRUE, Tail(stream[pc.peer]))
    BY <1>5 DEF Recv_Header
  <2> QED
    BY <2>1, TakesHeader
<1>6. ASSUME Recv_HeaderEnds PROVE Received(pc.peer)
  <2>1. CASE Close(pc.peer) /\ pc' = At("dispatch")
    BY <2>1 DEF Received
  <2>2. CASE \E header \in Garbage : TakeHeader(pc.peer, header, FALSE, <<>>)
    BY <2>2, TakesHeader
  <2> QED
    BY <1>6, <2>1, <2>2 DEF Recv_HeaderEnds
<1>7. ASSUME Interrupt_Header PROVE Received(pc.peer)
  <2>1. \E header \in Garbage : TakeHeader(pc.peer, header, FALSE, <<>>)
    BY <1>7 DEF Interrupt_Header
  <2> QED
    BY <2>1, TakesHeader
<1>8. ASSUME Recv_Body PROVE Received(pc.peer)
  <2>1. pc' = At("dispatch")
    BY <1>8 DEF Recv_Body
  <2>2. \/ Close(pc.peer)
        \/ HandlePacket(pc.peer, pc.header, Head(stream[pc.peer]).whole, Tail(stream[pc.peer]))
    BY <1>8 DEF Recv_Body
  <2> QED
    BY <2>1, <2>2 DEF Received
<1>9. ASSUME Interrupt_Body PROVE Received(pc.peer)
  <2>1. HandlePacket(pc.peer, pc.header, FALSE, <<>>) /\ pc' = At("dispatch")
    BY <1>9 DEF Interrupt_Body
  <2> QED
    BY <2>1 DEF Received
<1> QED
  BY <1>1, <1>2, <1>3, <1>4, <1>5, <1>6, <1>7, <1>8, <1>9 DEF Receiving

\* The types hold at the start.
LEMMA InitTypes == Init => TInv
<1> SUFFICES ASSUME Init PROVE TInv
  OBVIOUS
<1>1. PcOK
  <2>1. pc = At("wait")
    BY DEF Init
  <2>2. pc.at = "wait" /\ pc.todo = <<>>
    BY <2>1 DEF At
  <2>3. pc = [at |-> pc.at, timer |-> pc.timer, left |-> pc.left, peer |-> pc.peer, header |-> pc.header,
              todo |-> pc.todo, new |-> pc.new]
    BY <2>1 DEF At
  <2>4. pc.todo \in Seq(Timers)
    BY <2>2
  <2> QED
    BY <2>2, <2>3, <2>4 DEF PcOK, Steps
<1>2. CallsOK
  BY Names DEF Init, CallsOK
<1>3. TimersOK
  <2>1. MaxExpiries \in Nat /\ FirstInterval \in [Timers -> Intervals] /\ StartedWith \in Seq(WorkerTimers)
    BY EventLoopAssumption
  <2>2. 0 \in 0 .. MaxExpiries
    BY <2>1
  <2>3. worker \in [Workers -> WorkerTimers \cup {None}]
    <3>1. \A w \in DOMAIN StartedWith : StartedWith[w] \in WorkerTimers
      BY <2>1
    <3> QED
      BY <3>1 DEF Init
  <2> QED
    BY <2>1, <2>2, <2>3 DEF Init, TimersOK
<1>4. PeersOK
  BY DEF Init, PeersOK, LinksOK
<1> QED
  BY <1>1, <1>2, <1>3, <1>4 DEF TInv

\* A thread's call goes on or returns.
LEMMA ReturnsOK ==
  ASSUME TInv, NEW th \in Threads, Returns(th), pc' = pc
  PROVE  CallsOK' /\ worker' \in [Workers -> WorkerTimers \cup {None}]
<1>1. call' \in [Threads -> {NoCall} \cup Calling] /\ worker' \in [Workers -> WorkerTimers \cup {None}]
  BY DEF TInv, CallsOK, TimersOK, Returns
<1>2. ASSUME NEW w \in Workers, call'[w] # NoCall PROVE call'[w].enable /\ call'[w].timer = worker'[w]
  <2>1. w # th /\ call'[w] = call[w]
    BY <1>2, Names DEF TInv, CallsOK, Returns
  <2>2. worker'[w] = worker[w]
    BY <2>1 DEF TInv, TimersOK, Returns
  <2> QED
    BY <1>2, <2>1, <2>2 DEF TInv, CallsOK
<1>3. call'[Dispatcher] # NoCall => call'[Dispatcher] = call[Dispatcher]
  BY Names DEF TInv, CallsOK, Returns
<1> QED
  BY <1>1, <1>2, <1>3 DEF TInv, CallsOK

\* What a step of a call knows.
LEMMA InCall ==
  ASSUME CallsOK, NEW th \in Threads, call[th].step # None
  PROVE  call[th] # NoCall /\ call[th] \in Calling /\ call[th].timer \in Timers /\ call[th].enable \in BOOLEAN
BY Names DEF CallsOK, Calling

\* The dispatcher and the workers are in calls of their own, whatever step of it they do,
LEMMA StepOK ==
  ASSUME TInv, NEW th \in Threads, call[th].step # None, NEW step \in {"settime", "store"},
         call' = [call EXCEPT ![th].step = step], UNCHANGED <<worker, pc>>
  PROVE  CallsOK'
<1>1. call[th] \in Calling /\ call[th] # NoCall
  BY InCall DEF TInv
<1> DEFINE next == [call[th] EXCEPT !.step = step]
<1>2. next \in Calling /\ next.timer = call[th].timer /\ next.enable = call[th].enable
  BY <1>1 DEF Calling
<1>3. call' = [call EXCEPT ![th] = next]
  OBVIOUS
<1>4. call' \in [Threads -> {NoCall} \cup Calling]
  BY <1>2, <1>3 DEF TInv, CallsOK
<1>5. \A u \in Threads : IF u = th THEN call'[u] = next ELSE call'[u] = call[u]
  BY <1>3 DEF TInv, CallsOK
<1> HIDE DEF next
<1>6. \A u \in Threads : call'[u] # NoCall =>
        call[u] # NoCall /\ call'[u].timer = call[u].timer /\ call'[u].enable = call[u].enable
  BY <1>1, <1>2, <1>5
<1> QED
  BY <1>4, <1>6, Names DEF TInv, CallsOK

\* A call that begins.
LEMMA CallsBegin ==
  ASSUME TInv, NEW th \in Threads, NEW t \in Timers, NEW enable \in BOOLEAN, Calls(th, t, enable)
  PROVE  /\ call' \in [Threads -> {NoCall} \cup Calling]
         /\ call'[th] # NoCall /\ call'[th].timer = t /\ call'[th].enable = enable /\ call'[th].step = "check"
         /\ \A u \in Threads \ {th} : call'[u] = call[u]
<1> DEFINE new == [timer |-> t, enable |-> enable, step |-> "check"]
<1>1. new \in Calling /\ new.timer = t /\ new.enable = enable /\ new.step = "check"
  BY DEF Calling
<1>2. call' = [call EXCEPT ![th] = new]
  BY DEF Calls
<1>3. call' \in [Threads -> {NoCall} \cup Calling] /\ call'[th] = new /\ \A u \in Threads \ {th} : call'[u] = call[u]
  BY <1>1, <1>2 DEF TInv, CallsOK
<1> HIDE DEF new
<1>4. new # NoCall
  BY <1>1, Names
<1> QED
  BY <1>1, <1>3, <1>4

\* so that the three steps of PeriodicTimer_SetEnabled keep the types,
LEMMA SetEnabledTypes == ASSUME TInv, NEW th \in Threads, SetEnabled(th) PROVE TInv'
<1>1. PcOK' /\ PeersOK'
  BY SamePeers DEF TInv, PcOK, SetEnabled, SetEnabled_Check, SetEnabled_Settime, SetEnabled_Store, procVars,
     loopVars, peerVars
<1>2. CASE SetEnabled_Check(th)
  <2>1. UNCHANGED <<pc, TimerEnabled, Interval, armed, expiries, disturbed>>
    BY <1>2 DEF SetEnabled_Check, loopVars
  <2>2. CASE Returns(th)
    BY <1>1, <2>1, <2>2, ReturnsOK DEF TInv, TimersOK
  <2>3. CASE call' = [call EXCEPT ![th].step = "settime"] /\ UNCHANGED worker
    <3>1. call[th].step # None
      BY <1>2 DEF SetEnabled_Check, None
    <3> QED
      BY <1>1, <2>1, <2>3, <3>1, StepOK DEF TInv, TimersOK
  <2> QED
    BY <1>2, <2>2, <2>3 DEF SetEnabled_Check
<1>3. CASE SetEnabled_Settime(th)
  <2> DEFINE t == call[th].timer
  <2>1. call[th].step # None
    BY <1>3 DEF SetEnabled_Settime, None
  <2>2. t \in Timers
    BY <2>1, InCall DEF TInv
  <2>3. CallsOK'
    BY <1>3, <2>1, StepOK DEF SetEnabled_Settime, loopVars
  <2>4. armed' = [armed EXCEPT ![t] = IF call[th].enable THEN Interval[t] ELSE 0]
        /\ expiries' = [expiries EXCEPT ![t] = 0] /\ UNCHANGED <<TimerEnabled, Interval, worker, disturbed>>
    BY <1>3 DEF SetEnabled_Settime
  <2>5. 0 \in 0 .. MaxExpiries
    BY EventLoopAssumption
  <2> HIDE DEF t
  <2>6. TimersOK'
    BY <2>2, <2>4, <2>5 DEF TInv, TimersOK
  <2> QED
    BY <1>1, <2>3, <2>6 DEF TInv
<1>4. CASE SetEnabled_Store(th)
  <2>1. call[th].step # None
    BY <1>4 DEF SetEnabled_Store, None
  <2>2. call[th].timer \in Timers /\ call[th].enable \in BOOLEAN
    BY <2>1, InCall DEF TInv
  <2>3. Returns(th) /\ pc' = pc /\ TimerEnabled' = [TimerEnabled EXCEPT ![call[th].timer] = call[th].enable]
        /\ UNCHANGED <<Interval, armed, expiries, disturbed>>
    BY <1>4 DEF SetEnabled_Store, loopVars
  <2>4. CallsOK' /\ worker' \in [Workers -> WorkerTimers \cup {None}]
    BY <2>3, ReturnsOK
  <2> QED
    BY <1>1, <2>2, <2>3, <2>4 DEF TInv, TimersOK
<1> QED
  BY <1>2, <1>3, <1>4 DEF SetEnabled

\* The lowest number of a set is one of it.
LEMMA LowestIsLeast == ASSUME NEW S \in SUBSET Nat, S # {} PROVE Lowest(S) \in S /\ \A y \in S : Lowest(S) <= y
<1>1. IsWellFoundedOn(OpToRel(<, Nat), Nat)
  BY NatLessThanWellFounded
<1>2. PICK x \in S : \A y \in S : ~(<<y, x>> \in OpToRel(<, Nat))
  BY <1>1, WFMin
<1>3. \A y \in S : ~(y < x)
  BY <1>2 DEF OpToRel
<1>4. \A y \in S : x <= y
  BY <1>3
<1> DEFINE m == CHOOSE z \in S : \A y \in S : z <= y
<1>5. m \in S /\ \A y \in S : m <= y
  BY <1>4
<1>6. Lowest(S) = m
  BY DEF Lowest
<1> HIDE DEF m
<1> QED
  BY <1>5, <1>6

\* and so does every step.
LEMMA NextTInv == TInv /\ [Next]_vars => TInv'
<1> SUFFICES ASSUME TInv, [Next]_vars PROVE TInv'
  OBVIOUS
<1> USE DEF TInv
<1>1. ASSUME NEW t \in Timers, Expire(t) PROVE TInv'
  <2>1. expiries' \in [Timers -> 0 .. MaxExpiries]
    BY <1>1, EventLoopAssumption DEF TimersOK, Expire
  <2>2. UNCHANGED <<pc, call, worker, TimerEnabled, Interval, armed, disturbed, ProcessRunning, link, alive, sending, garbled>>
    BY <1>1 DEF Expire, procVars, loopVars, peerVars
  <2> QED
    BY <2>1, <2>2, QuietCalls, SamePeers DEF PcOK, TimersOK
<1>2. ASSUME EventDispatcher_Dispatch \/ EventDispatcher_Loop PROVE TInv'
  <2>1. call[Dispatcher] = NoCall
    BY <1>2, QuietDispatcher DEF EventDispatcher_Dispatch, EventDispatcher_Loop
  <2>2. PcOK'
    BY <1>2, AtOK DEF EventDispatcher_Dispatch, EventDispatcher_Loop
  <2>3. UNCHANGED <<call, worker, TimerEnabled, Interval, armed, expiries, disturbed, ProcessRunning, link, alive, sending, garbled>>
    BY <1>2 DEF EventDispatcher_Dispatch, EventDispatcher_Loop, procVars, timerVars, peerVars
  <2> QED
    BY <2>1, <2>2, <2>3, QuietCalls, SameTimers, SamePeers
<1>3. ASSUME NEW p \in Peers, Dispatch_HangUp(p) PROVE TInv'
  <2>1. /\ UNCHANGED <<pc, call, worker, TimerEnabled, Interval, armed, expiries, disturbed, ProcessRunning>>
        /\ Close(p) /\ UNCHANGED garbled
    BY <1>3 DEF Dispatch_HangUp, timerVars
  <2>2. PeersOK'
    BY <2>1, ClosePeers DEF PeersOK
  <2> QED
    BY <2>1, <2>2, QuietCalls, SameTimers DEF PcOK
<1>4. ASSUME NEW p \in Peers, Socket_RecvPacket(p) PROVE TInv'
  <2>1. /\ call[Dispatcher] = NoCall
        /\ UNCHANGED <<call, worker, TimerEnabled, Interval, armed, expiries, disturbed, ProcessRunning, link, alive, sending, garbled>>
        /\ pc' = [At("header") EXCEPT !.peer = p]
    BY <1>4, QuietDispatcher DEF Socket_RecvPacket, Event, timerVars, procVars, peerVars
  <2>2. pc' = [at |-> pc'.at, timer |-> pc'.timer, left |-> pc'.left, peer |-> pc'.peer,
               header |-> pc'.header, todo |-> pc'.todo, new |-> pc'.new]
        /\ pc'.at = "header" /\ pc'.peer = p /\ pc'.todo = <<>>
    BY <2>1 DEF At
  <2>3. pc'.todo \in Seq(Timers)
    BY <2>2
  <2>4. PcOK'
    BY <2>2, <2>3 DEF PcOK, Steps
  <2> QED
    BY <2>1, <2>4, QuietCalls, SameTimers, SamePeers
<1>5. ASSUME NEW t \in Timers, Timer_readCb(t) PROVE TInv'
  <2>1. /\ call[Dispatcher] = NoCall
        /\ UNCHANGED <<call, worker, TimerEnabled, Interval, armed, disturbed, ProcessRunning, link, alive, sending, garbled>>
        /\ expiries' = [expiries EXCEPT ![t] = 0]
    BY <1>5, QuietDispatcher DEF Timer_readCb, Event, procVars, peerVars
  <2>2. PcOK'
    <3>1. CASE pc' = pc
      BY <3>1 DEF PcOK
    <3>2. CASE pc' = [At("fire") EXCEPT !.timer = t, !.left = expiries[t]]
      <4>1. pc' = [at |-> pc'.at, timer |-> pc'.timer, left |-> pc'.left, peer |-> pc'.peer,
                   header |-> pc'.header, todo |-> pc'.todo, new |-> pc'.new]
            /\ pc'.at = "fire" /\ pc'.timer = t /\ pc'.todo = <<>>
        BY <3>2 DEF At
      <4>2. pc'.todo \in Seq(Timers)
        BY <4>1
      <4> QED
        BY <4>1, <4>2 DEF PcOK, Steps
    <3> QED
      BY <1>5, <3>1, <3>2 DEF Timer_readCb
  <2> QED
    BY <2>1, <2>2, QuietCalls, SameTimers, SamePeers
<1>6. ASSUME Callback_Inline PROVE TInv'
  <2>1. /\ call[Dispatcher] = NoCall
        /\ UNCHANGED <<call, worker, TimerEnabled, Interval, armed, expiries, disturbed, ProcessRunning, link, alive, sending, garbled>>
    BY <1>6, QuietDispatcher DEF Callback_Inline, FiresAgain, procVars, timerVars, peerVars
  <2>2. pc' = [pc EXCEPT !.left = @ - 1]
    BY <1>6 DEF Callback_Inline
  <2>3. PcOK'
    BY <2>2 DEF PcOK
  <2> QED
    BY <2>1, <2>3, QuietCalls, SameTimers, SamePeers
<1>7. ASSUME Gossip_Do PROVE TInv'
  <2>1. Calls(Dispatcher, pc.timer, FALSE) /\ pc.timer \in WorkerTimers /\ pc.at = "fire"
        /\ pc' = [pc EXCEPT !.at = "spawn", !.left = @ - 1]
        /\ UNCHANGED <<worker, TimerEnabled, Interval, armed, expiries, disturbed, ProcessRunning, link, alive, sending, garbled>>
    BY <1>7 DEF Gossip_Do, FiresAgain, procVars, peerVars
  <2>2. PcOK' /\ pc'.at = "spawn" /\ pc'.timer = pc.timer
    BY <2>1 DEF PcOK, Steps
  <2>3. /\ call' \in [Threads -> {NoCall} \cup Calling]
        /\ call'[Dispatcher].timer = pc.timer /\ call'[Dispatcher].enable = FALSE
        /\ \A u \in Threads \ {Dispatcher} : call'[u] = call[u]
    BY <2>1, CallsBegin, Names
  <2>4. CallsOK'
    BY <2>1, <2>2, <2>3, Names DEF CallsOK
  <2> QED
    BY <2>1, <2>2, <2>4, SameTimers, SamePeers
<1>8. ASSUME Threads_CreateDetached PROVE TInv'
  <2> DEFINE w == Lowest({u \in Workers : worker[u] = None})
  <2>1. pc.timer \in WorkerTimers /\ call[Dispatcher] = NoCall /\ worker' = [worker EXCEPT ![w] = pc.timer]
        /\ pc' = [pc EXCEPT !.at = "fire"]
        /\ UNCHANGED <<call, TimerEnabled, Interval, armed, expiries, disturbed, ProcessRunning, link, alive, sending, garbled>>
    BY <1>8 DEF Threads_CreateDetached, PcOK, procVars, peerVars
  <2>2. w \in Workers /\ worker[w] = None
    <3>1. Workers \subseteq Nat
      BY EventLoopAssumption
    <3>2. \E u \in Workers : worker[u] = None
      BY <1>8 DEF Threads_CreateDetached
    <3> QED
      BY <3>1, <3>2, LowestIsLeast
  <2>3. PcOK'
    BY <2>1, Names DEF PcOK, Steps
  <2>4. CallsOK'
    <3>1. \A u \in Workers : call'[u] # NoCall => worker'[u] = worker[u]
      BY <2>1, <2>2, Names, InCall DEF CallsOK, TimersOK, Calling
    <3> QED
      BY <2>1, <3>1 DEF CallsOK
  <2>5. TimersOK'
    <3> HIDE DEF w
    <3> QED
      BY <2>1, <2>2 DEF TimersOK
  <2> QED
    BY <2>1, <2>3, <2>4, <2>5, SamePeers
<1>9. ASSUME Callback_End \/ FileWatcher_readCb PROVE TInv'
  <2>1. call[Dispatcher] = NoCall
    BY <1>9, QuietDispatcher DEF Callback_End, FileWatcher_readCb, Event
  <2>2. PcOK'
    BY <1>9, AtOK DEF Callback_End, FileWatcher_readCb
  <2>3. UNCHANGED <<call, worker, TimerEnabled, Interval, armed, expiries, disturbed, ProcessRunning, link, alive, sending, garbled>>
    BY <1>9 DEF Callback_End, FileWatcher_readCb, procVars, timerVars, peerVars
  <2> QED
    BY <2>1, <2>2, <2>3, QuietCalls, SameTimers, SamePeers
<1>10. ASSUME _reLoadConfig PROVE TInv'
  <2>1. call[Dispatcher] = NoCall /\ pc.at = "reload"
        /\ UNCHANGED <<call, worker, TimerEnabled, Interval, armed, expiries, disturbed, ProcessRunning, link, alive, sending, garbled>>
    BY <1>10 DEF _reLoadConfig, procVars, timerVars, peerVars
  <2>2. PcOK'
    <3>1. CASE pc' = At("dispatch")
      BY <3>1, AtOK
    <3>2. CASE pc' = [pc EXCEPT !.todo = TimerOrder]
      BY <2>1, <3>2, EventLoopAssumption DEF PcOK
    <3> QED
      BY <1>10, <3>1, <3>2 DEF _reLoadConfig
  <2> QED
    BY <2>1, <2>2, QuietCalls, SameTimers, SamePeers
<1>11. ASSUME ReSetTimer PROVE TInv'
  <2> DEFINE t == Head(pc.todo)
  <2>1. pc.at = "reload" /\ pc.todo # <<>> /\ call[Dispatcher] = NoCall
        /\ UNCHANGED <<worker, TimerEnabled, Interval, armed, expiries, ProcessRunning, link, alive, sending, garbled>>
    BY <1>11 DEF ReSetTimer, procVars, peerVars
  <2>2. t \in Timers /\ Tail(pc.todo) \in Seq(Timers)
    BY <2>1 DEF PcOK
  <2>3. CASE pc' = [pc EXCEPT !.todo = Tail(@)] /\ UNCHANGED <<call, disturbed>>
    BY <2>1, <2>2, <2>3, QuietCalls, SameTimers, SamePeers DEF PcOK
  <2>4. CASE /\ \E new \in Intervals \ {Interval[t]} : pc' = [pc EXCEPT !.at = "set", !.new = new]
             /\ Calls(Dispatcher, t, FALSE)
             /\ disturbed' = [disturbed EXCEPT ![t] = IF \E w \in Workers : worker[w] = t THEN @ + 1 ELSE @]
    <3>1. PcOK' /\ pc'.at = "set" /\ pc'.todo = pc.todo
      BY <2>1, <2>4 DEF PcOK, Steps
    <3>2. /\ call' \in [Threads -> {NoCall} \cup Calling]
          /\ call'[Dispatcher].timer = t /\ call'[Dispatcher].enable = FALSE
          /\ \A u \in Threads \ {Dispatcher} : call'[u] = call[u]
      BY <2>2, <2>4, CallsBegin, Names
    <3>3. CallsOK'
      BY <2>1, <3>1, <3>2, Names DEF CallsOK
    <3>4. disturbed' \in [Timers -> Nat]
      <4> HIDE DEF t
      <4> QED
        BY <2>2, <2>4 DEF TimersOK
    <3>5. TimersOK'
      BY <2>1, <3>4 DEF TimersOK
    <3> QED
      BY <2>1, <3>1, <3>3, <3>5, SamePeers
  <2> QED
    BY <1>11, <2>3, <2>4 DEF ReSetTimer
<1>12. ASSUME ReSetTimer_Enable PROVE TInv'
  <2> DEFINE t == Head(pc.todo)
  <2>1. pc.at = "set" /\ call[Dispatcher] = NoCall /\ Calls(Dispatcher, t, TRUE)
        /\ Interval' = [Interval EXCEPT ![t] = pc.new]
        /\ pc' = [pc EXCEPT !.at = "reload", !.todo = Tail(@), !.new = 0]
        /\ UNCHANGED <<worker, TimerEnabled, armed, expiries, disturbed, ProcessRunning, link, alive, sending, garbled>>
    BY <1>12 DEF ReSetTimer_Enable, procVars, peerVars
  <2>2. t \in Timers /\ Tail(pc.todo) \in Seq(Timers) /\ pc.new \in Intervals
    BY <2>1 DEF PcOK
  <2>3. PcOK' /\ pc'.at = "reload"
    BY <2>1, <2>2 DEF PcOK, Steps
  <2>4. /\ call' \in [Threads -> {NoCall} \cup Calling]
        /\ call'[Dispatcher].timer = t /\ call'[Dispatcher].enable = TRUE
        /\ \A u \in Threads \ {Dispatcher} : call'[u] = call[u]
    BY <2>1, <2>2, CallsBegin, Names
  <2>5. CallsOK'
    BY <2>1, <2>3, <2>4, Names DEF CallsOK
  <2>6. TimersOK'
    <3> HIDE DEF t
    <3> QED
      BY <2>1, <2>2 DEF TimersOK
  <2> QED
    BY <2>1, <2>3, <2>5, <2>6, SamePeers
<1>13. ASSUME _acceptCb PROVE TInv'
  BY <1>13, QuietCalls, SameTimers DEF _acceptCb, timerVars, PeersOK, LinksOK, PcOK
<1>14. ASSUME Receiving PROVE TInv'
  <2>1. /\ Received(pc.peer) /\ pc.peer \in Peers /\ pc.at \in {"header", "recv"}
        /\ ProcessRunning' \in BOOLEAN /\ garbled' \subseteq Peers
        /\ UNCHANGED <<call, worker, TimerEnabled, Interval, armed, expiries, disturbed>>
    BY <1>14, ReceivesOne DEF timerVars
  <2>2. LinksOK'
    BY <2>1, ClosePeers, HandlePeers DEF Received, PeersOK, LinksOK
  <2>3. PcOK'
    <3>1. CASE pc' = At("dispatch")
      BY <3>1, AtOK
    <3>2. CASE \E header : pc' = [At("recv") EXCEPT !.peer = pc.peer, !.header = [size |-> header.size, opcode |-> header.opcode]]
      <4>1. pc' = [at |-> pc'.at, timer |-> pc'.timer, left |-> pc'.left, peer |-> pc'.peer,
                   header |-> pc'.header, todo |-> pc'.todo, new |-> pc'.new]
            /\ pc'.at = "recv" /\ pc'.peer = pc.peer /\ pc'.todo = <<>>
        BY <3>2 DEF At
      <4>2. pc'.todo \in Seq(Timers)
        BY <4>1
      <4> QED
        BY <2>1, <4>1, <4>2 DEF PcOK, Steps
    <3> QED
      BY <2>1, <3>1, <3>2 DEF Received
  <2>4. call[Dispatcher] = NoCall
    BY <2>1, QuietDispatcher
  <2> QED
    BY <2>1, <2>2, <2>3, <2>4, QuietCalls, SameTimers DEF PeersOK
<1>15. ASSUME NEW w \in Workers, WorkerEnds(w) PROVE TInv'
  <2>1. worker[w] \in WorkerTimers /\ worker[w] \in Timers /\ Calls(w, worker[w], TRUE)
        /\ UNCHANGED <<pc, worker, TimerEnabled, Interval, armed, expiries, disturbed, ProcessRunning, link, alive, sending, garbled>>
    BY <1>15, Names DEF WorkerEnds, procVars, loopVars, peerVars, TimersOK
  <2>2. /\ call' \in [Threads -> {NoCall} \cup Calling]
        /\ call'[w].timer = worker[w] /\ call'[w].enable = TRUE
        /\ \A u \in Threads \ {w} : call'[u] = call[u]
    BY <2>1, CallsBegin, Names
  <2>3. CallsOK'
    BY <2>1, <2>2, Names DEF CallsOK
  <2> QED
    BY <2>1, <2>3, SameTimers, SamePeers DEF PcOK
<1>16. ASSUME NEW p \in Peers, Connect(p) \/ Socket_SendPacket(p) \/ Arrive(p) \/ PeerEnds(p) PROVE TInv'
  <2>1. UNCHANGED <<pc, call, worker, TimerEnabled, Interval, armed, expiries, disturbed, ProcessRunning>>
    BY <1>16 DEF Connect, Socket_SendPacket, Arrive, PeerEnds, procVars, loopVars, timerVars
  <2>2. PeersOK'
    <3>1. CASE Connect(p)
      BY <2>1, <3>1 DEF Connect, PeersOK, LinksOK
    <3>2. CASE Socket_SendPacket(p)
      BY <2>1, <3>2 DEF Socket_SendPacket, PeersOK, LinksOK
    <3>3. CASE Arrive(p)
      <4>1. sending' \subseteq Peers
        BY <3>3 DEF Arrive, Arrive_Header, Arrive_Body, PeersOK, LinksOK
      <4> QED
        BY <2>1, <3>3, <4>1 DEF Arrive, PeersOK, LinksOK
    <3>4. CASE PeerEnds(p)
      <4>1. UNCHANGED <<link, garbled>> /\ sending' = sending \ {p} /\ link[p] \notin {"none", "closed"}
        BY <3>4 DEF PeerEnds, Connected
      <4>2. PICK how \in {"fin", "reset"} : alive' = [alive EXCEPT ![p] = how]
        BY <3>4 DEF PeerEnds
      <4> QED
        BY <2>1, <4>1, <4>2 DEF PeersOK, LinksOK
    <3> QED
      BY <1>16, <3>1, <3>2, <3>3, <3>4
  <2> QED
    BY <2>1, <2>2, QuietCalls, SameTimers DEF PcOK
<1>17. ASSUME ChangeConfig \/ UNCHANGED vars PROVE TInv'
  BY <1>17, QuietCalls, SameTimers, SamePeers DEF ChangeConfig, vars, procVars, loopVars, timerVars, peerVars,
     PcOK
<1>18. ASSUME Stop PROVE TInv'
  <2>1. call[Dispatcher] = NoCall \/ pc' = pc
    BY <1>18, QuietDispatcher DEF Stop, Waits
  <2>2. PcOK'
    BY <1>18, AtOK DEF Stop, PcOK
  <2>3. PeersOK'
    BY <1>18 DEF Stop, PeersOK, LinksOK, peerVars
  <2> QED
    BY <1>18, <2>1, <2>2, <2>3, QuietCalls, SameTimers DEF Stop, timerVars
<1> QED
  BY <1>1, <1>2, <1>3, <1>4, <1>5, <1>6, <1>7, <1>8, <1>9, <1>10, <1>11, <1>12, <1>13, <1>14, <1>15, <1>16,
     <1>17, <1>18,
     SetEnabledTypes, Names DEF Next, DispatcherStep, WorkerStep, Outside, Receiving

-----------------------------------------------------------------------------
(***************************************************************************)
(* One worker for a timer.                                                 *)
(***************************************************************************)
\* Nothing changes for a timer that nobody sets and that gets and loses no worker,
LEMMA Elsewhere ==
  ASSUME NEW t \in WorkerTimers, CountedAt(t), ArmedAt(t),
         TimerEnabled'[t] = TimerEnabled[t], armed'[t] = armed[t], Interval'[t] = Interval[t],
         disturbed'[t] = disturbed[t], WorkersOf(t)' = WorkersOf(t),
         Spawning(t)' <=> Spawning(t), Setting(t)' <=> Setting(t), Enabling(t)' <=> Enabling(t),
         \A th \in Threads : call[th].timer = t \/ call'[th].timer = t => call'[th] = call[th]
  PROVE  CountedAt(t)' /\ ArmedAt(t)'
<1>1. (Called(t)' <=> Called(t)) /\ (Called(t) => call'[Dispatcher] = call[Dispatcher])
  BY Names DEF Called
<1>2. Tokens(t)' = Tokens(t)
  BY <1>1 DEF Tokens
<1>3. CountedAt(t)'
  BY <1>1, <1>2 DEF CountedAt
<1>4. Storing(t)' = Storing(t)
  BY DEF Storing
<1>5. \A th \in Storing(t) : call'[th] = call[th]
  BY DEF Storing
<1>6. ArmedAt(t)'
  BY <1>4, <1>5 DEF ArmedAt
<1> QED
  BY <1>3, <1>6

\* and in the steps of a dispatcher that sets none.
LEMMA QuietKeeps ==
  ASSUME TInv, WInv, UNCHANGED <<TimerEnabled, Interval, armed, call, worker, disturbed>>,
         \/ pc' = pc
         \/ call[Dispatcher] = NoCall /\ pc.at \notin {"spawn", "set"} /\ pc'.at \notin {"spawn", "set"}
  PROVE  WInv'
<1> SUFFICES ASSUME NEW t \in WorkerTimers PROVE CountedAt(t)' /\ ArmedAt(t)'
  BY DEF WInv
<1>1. CountedAt(t) /\ ArmedAt(t)
  BY DEF WInv
<1>2. WorkersOf(t)' = WorkersOf(t)
  BY DEF WorkersOf
<1>3. (Spawning(t)' <=> Spawning(t)) /\ (Setting(t)' <=> Setting(t)) /\ (Enabling(t)' <=> Enabling(t))
  BY Names DEF Spawning, Setting, Enabling
<1> QED
  BY <1>1, <1>2, <1>3, Elsewhere

\* The workers of a timer can be counted.
LEMMA WorkersCount ==
  ASSUME NEW t
  PROVE  /\ IsFiniteSet(WorkersOf(t)) /\ Cardinality(WorkersOf(t)) \in Nat
         /\ (Cardinality(WorkersOf(t)) = 0 <=> WorkersOf(t) = {})
<1>1. IsFiniteSet(WorkersOf(t))
  BY NamesAssumption, FS_Subset DEF WorkersOf
<1> QED
  BY <1>1, FS_CardinalityType, FS_EmptySet

\* The terms of that count are numbers.
LEMMA Booleans == TInv => \A t \in WorkerTimers : /\ TimerEnabled[t] \in BOOLEAN /\ disturbed[t] \in Nat
                                                  /\ Tokens(t) \in 0 .. 2
BY Names DEF TInv, TimersOK, Tokens

\* At the start a timer is enabled, or its callback ran and left it one worker.
LEMMA InitWorkers == Init => WInv
<1> SUFFICES ASSUME Init, NEW t \in WorkerTimers PROVE CountedAt(t) /\ ArmedAt(t)
  BY DEF WInv
<1>1. t \in Timers /\ t # None /\ (TimerEnabled[t] <=> ~Started(t)) /\ disturbed[t] = 0
  BY Names DEF Init
<1>2. ~Spawning(t) /\ ~Setting(t) /\ ~Enabling(t)
  BY DEF Init, At, Spawning, Setting, Enabling
<1>3. Tokens(t) = IF Started(t) THEN 0 ELSE 1
  BY <1>1, <1>2 DEF Tokens
<1>4. \A w \in Workers : worker[w] = t <=> w \in DOMAIN StartedWith /\ StartedWith[w] = t
  BY <1>1 DEF Init
<1>5. CountedAt(t)
  <2>1. CASE Started(t)
    <3>1. PICK i \in DOMAIN StartedWith : StartedWith[i] = t
      BY <2>1 DEF Started
    <3>2. WorkersOf(t) = {i}
      BY <1>4, <3>1, NamesAssumption DEF WorkersOf
    <3>3. Cardinality(WorkersOf(t)) = 1
      BY <3>2, FS_Singleton
    <3> QED
      BY <1>1, <1>2, <1>3, <2>1, <3>2, <3>3 DEF CountedAt
  <2>2. CASE ~Started(t)
    <3>1. WorkersOf(t) = {}
      BY <1>4, <2>2 DEF WorkersOf, Started
    <3>2. Cardinality(WorkersOf(t)) = 0
      BY <3>1, FS_EmptySet
    <3> QED
      BY <1>1, <1>2, <1>3, <2>2, <3>2 DEF CountedAt
  <2> QED
    BY <2>1, <2>2
<1>6. Storing(t) = {}
  BY <1>1 DEF Init, Storing, NoCall
<1>7. armed[t] = IF TimerEnabled[t] THEN Interval[t] ELSE 0
  BY <1>1 DEF Init
<1> QED
  BY <1>5, <1>6, <1>7 DEF ArmedAt

\* Two threads that set a timer no reload disturbed set it alike.
LEMMA SetAlike ==
  ASSUME TInv, NEW t \in WorkerTimers, CountedAt(t), disturbed[t] = 0,
         NEW th \in Threads, NEW u \in Threads, call[th].timer = t, call[u].timer = t
  PROVE  call[th].enable = call[u].enable
<1>1. call[th] # NoCall /\ call[u] # NoCall /\ call[th].enable \in BOOLEAN /\ call[u].enable \in BOOLEAN
  BY Names DEF TInv, CallsOK, Calling
<1>2. \A w \in Workers : call[w] # NoCall /\ call[w].timer = t => call[w].enable /\ w \in WorkersOf(t)
  BY DEF TInv, CallsOK, WorkersOf
<1>3. call[Dispatcher] # NoCall /\ call[Dispatcher].timer = t /\ ~call[Dispatcher].enable => WorkersOf(t) = {}
  <2> SUFFICES ASSUME call[Dispatcher] # NoCall, call[Dispatcher].timer = t, ~call[Dispatcher].enable PROVE WorkersOf(t) = {}
    OBVIOUS
  <2>1. Tokens(t) = 1
    BY DEF TInv, CallsOK, Tokens, Called, Spawning, Setting
  <2>2. Cardinality(WorkersOf(t)) + 1 <= 1
    BY <2>1 DEF CountedAt
  <2> QED
    BY <2>2, WorkersCount
<1> QED
  BY <1>1, <1>2, <1>3 DEF Threads

\* A call that goes on is the same call at another step,
LEMMA GoesOn ==
  ASSUME TInv, NEW th \in Threads, call[th].step # None, NEW step \in {"settime", "store"},
         call' = [call EXCEPT ![th].step = step]
  PROVE  /\ call'[th].timer = call[th].timer /\ call'[th].enable = call[th].enable /\ call'[th].step = step
         /\ \A u \in Threads \ {th} : call'[u] = call[u]
<1>1. call[th] \in Calling
  BY InCall DEF TInv
<1> DEFINE next == [call[th] EXCEPT !.step = step]
<1>2. next.timer = call[th].timer /\ next.enable = call[th].enable /\ next.step = step
  BY <1>1 DEF Calling
<1>3. call' = [call EXCEPT ![th] = next]
  OBVIOUS
<1>4. call'[th] = next /\ \A u \in Threads \ {th} : call'[u] = call[u]
  BY <1>3 DEF TInv, CallsOK
<1> HIDE DEF next
<1> QED
  BY <1>2, <1>4

\* and one that returns ends the work of its worker.
LEMMA GoesBack ==
  ASSUME TInv, NEW th \in Threads, call[th].step # None, Returns(th)
  PROVE  /\ call'[th] = NoCall /\ \A u \in Threads \ {th} : call'[u] = call[u]
         /\ \A t \in WorkerTimers \ {call[th].timer} : WorkersOf(t)' = WorkersOf(t)
         /\ th = Dispatcher => \A t \in WorkerTimers : WorkersOf(t)' = WorkersOf(t)
         /\ th \in Workers => /\ call[th].enable
                              /\ \A t \in {call[th].timer} :
                                   Cardinality(WorkersOf(t)') = Cardinality(WorkersOf(t)) - 1
<1>1. call[th] # NoCall
  BY InCall DEF TInv
<1>2. call'[th] = NoCall /\ \A u \in Threads \ {th} : call'[u] = call[u]
  BY DEF TInv, CallsOK, Returns
<1>3. CASE th \in Workers
  <2>1. th # Dispatcher /\ call[th].enable /\ worker[th] = call[th].timer /\ call[th].timer # None
    BY <1>1, <1>3, Names, InCall DEF TInv, CallsOK
  <2>2. worker' = [worker EXCEPT ![th] = None]
    BY <1>3 DEF Returns
  <2>3. \A s \in WorkerTimers \ {call[th].timer} : WorkersOf(s)' = WorkersOf(s)
    BY <1>3, <2>1, <2>2, Names DEF WorkersOf, TInv, TimersOK
  <2>4. ASSUME NEW t, t = call[th].timer PROVE Cardinality(WorkersOf(t)') = Cardinality(WorkersOf(t)) - 1
    <3>1. \A w \in Workers : worker'[w] = t <=> worker[w] = t /\ w # th
      BY <1>3, <2>1, <2>2, <2>4 DEF TInv, TimersOK
    <3>2. WorkersOf(t)' = WorkersOf(t) \ {th} /\ th \in WorkersOf(t)
      BY <1>3, <2>1, <2>4, <3>1 DEF WorkersOf
    <3> QED
      BY <3>2, WorkersCount, FS_RemoveElement
  <2> QED
    BY <1>2, <2>1, <2>3, <2>4, <1>3, Names
<1>4. CASE th = Dispatcher
  <2>1. worker' = worker /\ th \notin Workers
    BY <1>4, Names DEF Returns
  <2> QED
    BY <1>2, <1>4, <2>1 DEF WorkersOf
<1> QED
  BY <1>3, <1>4 DEF Threads

\* A call changes nothing for other timers.
LEMMA OtherTimers ==
  ASSUME TInv, WInv, NEW th \in Threads, SetEnabled(th), NEW t \in WorkerTimers, t # call[th].timer
  PROVE  CountedAt(t)' /\ ArmedAt(t)'
<1>1. call[th].step # None /\ UNCHANGED <<pc, Interval, disturbed>>
  BY DEF SetEnabled, SetEnabled_Check, SetEnabled_Settime, SetEnabled_Store, None, loopVars
<1>2. TimerEnabled'[t] = TimerEnabled[t] /\ armed'[t] = armed[t]
  BY Names DEF TInv, TimersOK, SetEnabled, SetEnabled_Check, SetEnabled_Settime, SetEnabled_Store
<1>3. \/ Returns(th)
      \/ UNCHANGED worker /\ \E step \in {"settime", "store"} : call' = [call EXCEPT ![th].step = step]
  BY DEF SetEnabled, SetEnabled_Check, SetEnabled_Settime, SetEnabled_Store
<1>4. /\ call'[th].timer # t /\ \A u \in Threads \ {th} : call'[u] = call[u]
      /\ WorkersOf(t)' = WorkersOf(t)
  <2>1. CASE Returns(th)
    BY <1>1, <2>1, GoesBack, Names
  <2>2. CASE UNCHANGED worker /\ \E step \in {"settime", "store"} : call' = [call EXCEPT ![th].step = step]
    <3>1. PICK step \in {"settime", "store"} : call' = [call EXCEPT ![th].step = step]
      BY <2>2
    <3> QED
      BY <1>1, <2>2, <3>1, GoesOn DEF WorkersOf
  <2> QED
    BY <1>3, <2>1, <2>2
<1>5. \A u \in Threads : call[u].timer = t \/ call'[u].timer = t => call'[u] = call[u]
  BY <1>4
<1>6. call'[Dispatcher].timer = t <=> call[Dispatcher].timer = t
  BY <1>4, Names
<1>7. (Spawning(t)' <=> Spawning(t)) /\ (Setting(t)' <=> Setting(t)) /\ (Enabling(t)' <=> Enabling(t))
  BY <1>1, <1>6 DEF Spawning, Setting, Enabling
<1> QED
  BY <1>1, <1>2, <1>4, <1>5, <1>7, Elsewhere DEF WInv

\* The first step of a call,
LEMMA CheckKeeps ==
  ASSUME TInv, WInv, NEW th \in Threads, SetEnabled_Check(th), NEW t \in WorkerTimers, t = call[th].timer
  PROVE  CountedAt(t)' /\ ArmedAt(t)'
<1>1. call[th].step = "check" /\ UNCHANGED <<pc, TimerEnabled, Interval, armed, disturbed>>
  BY DEF SetEnabled_Check, loopVars
<1>2. call[th].step # None /\ call[th] # NoCall
  BY <1>1, Names, InCall DEF None, TInv
<1>3. CountedAt(t) /\ ArmedAt(t) /\ TimerEnabled[t] \in BOOLEAN /\ disturbed[t] \in Nat
  BY Booleans DEF WInv
<1>4. (Spawning(t)' <=> Spawning(t)) /\ (Setting(t)' <=> Setting(t)) /\ th = Dispatcher => Called(t)
  BY <1>1 DEF Spawning, Setting, Called
<1>5. CASE Returns(th) /\ TimerEnabled[t] = call[th].enable
  <2>1. /\ call'[th] = NoCall /\ \A u \in Threads \ {th} : call'[u] = call[u]
        /\ th = Dispatcher => WorkersOf(t)' = WorkersOf(t)
        /\ th \in Workers => call[th].enable /\ Cardinality(WorkersOf(t)') = Cardinality(WorkersOf(t)) - 1
    BY <1>2, <1>5, GoesBack
  <2>2. Storing(t)' = Storing(t) /\ \A u \in Storing(t) : call'[u] = call[u]
    BY <1>1, <2>1, Names DEF Storing
  <2>3. ArmedAt(t)'
    BY <1>1, <1>3, <2>2 DEF ArmedAt
  <2>4. CountedAt(t)'
    <3>1. CASE th \in Workers
      <4>1. call'[Dispatcher] = call[Dispatcher] /\ TimerEnabled[t]
        BY <1>5, <2>1, <3>1, Names
      <4>2. (Called(t)' <=> Called(t)) /\ (Enabling(t)' <=> Enabling(t)) /\ Tokens(t)' = Tokens(t)
        BY <1>1, <4>1 DEF Called, Enabling, Tokens, Spawning, Setting
      <4>3. Cardinality(WorkersOf(t)') + Tokens(t)' <= 1 + disturbed[t]
        BY <1>3, <2>1, <3>1, <4>2, WorkersCount, Booleans DEF CountedAt
      <4> QED
        BY <1>1, <4>1, <4>3 DEF CountedAt
    <3>2. CASE th = Dispatcher
      <4>1. ~Called(t)' /\ ~Enabling(t)' /\ Called(t) /\ WorkersOf(t)' = WorkersOf(t)
        BY <1>2, <2>1, <3>2, Names DEF Called, Enabling
      <4>2. \/ Spawning(t) /\ ~call[th].enable
            \/ Setting(t) /\ ~call[th].enable
            \/ Enabling(t) /\ call[th].enable /\ ~Spawning(t) /\ ~Setting(t)
        BY <1>2, <3>2 DEF TInv, CallsOK, Spawning, Setting, Enabling
      <4>3. ~Spawning(t)
        BY <1>3, <1>5, <4>1, <4>2 DEF CountedAt, Spawning, Setting, Enabling
      <4>4. Tokens(t)' = 1 /\ Tokens(t) >= 1 /\ (Setting(t) \/ TimerEnabled[t])
        BY <1>1, <1>3, <1>5, <4>1, <4>2, <4>3 DEF Tokens, Spawning, Setting
      <4>5. Cardinality(WorkersOf(t)') + Tokens(t)' <= 1 + disturbed[t]
        BY <1>3, <4>1, <4>4, WorkersCount, Booleans DEF CountedAt
      <4> QED
        BY <1>1, <1>4, <4>1, <4>3, <4>4, <4>5 DEF CountedAt, Spawning, Setting
    <3> QED
      BY <3>1, <3>2 DEF Threads
  <2> QED
    BY <2>3, <2>4
<1>6. CASE TimerEnabled[t] # call[th].enable /\ call' = [call EXCEPT ![th].step = "settime"] /\ UNCHANGED worker
  <2>1. /\ call'[th].timer = t /\ call'[th].enable = call[th].enable /\ call'[th].step = "settime"
        /\ \A u \in Threads \ {th} : call'[u] = call[u]
    BY <1>2, <1>6, GoesOn
  <2>2. WorkersOf(t)' = WorkersOf(t) /\ (Called(t)' <=> Called(t))
    BY <1>6, <2>1, Names DEF WorkersOf, Called
  <2>3. (Enabling(t)' <=> Enabling(t)) /\ Tokens(t)' = Tokens(t)
    BY <1>1, <2>2 DEF Called, Enabling, Tokens, Spawning, Setting
  <2>4. Storing(t)' = Storing(t) /\ \A u \in Storing(t) : call'[u] = call[u]
    BY <1>1, <2>1 DEF Storing
  <2>5. ArmedAt(t)'
    BY <1>1, <1>3, <2>4 DEF ArmedAt
  <2>6. Setting(t)' /\ Called(t)' /\ call'[Dispatcher].step # "check" => TimerEnabled'[t]
    <3> SUFFICES ASSUME Setting(t), Called(t), call'[Dispatcher].step # "check" PROVE TimerEnabled[t]
      BY <1>1, <2>2 DEF Setting
    <3>1. CASE th = Dispatcher
      <4>1. ~call[th].enable
        BY <1>2, <3>1 DEF TInv, CallsOK, Setting
      <4> QED
        BY <1>2, <1>3, <1>6, <4>1, InCall DEF TInv
    <3>2. CASE th # Dispatcher
      BY <1>3, <2>1, <3>2, Names DEF CountedAt
    <3> QED
      BY <3>1, <3>2
  <2>7. CountedAt(t)'
    BY <1>1, <1>3, <2>2, <2>3, <2>6 DEF CountedAt, Spawning, Setting
  <2> QED
    BY <2>5, <2>7
<1> QED
  BY <1>5, <1>6 DEF SetEnabled_Check

\* its second,
LEMMA SettimeKeeps ==
  ASSUME TInv, WInv, NEW th \in Threads, SetEnabled_Settime(th), NEW t \in WorkerTimers, t = call[th].timer
  PROVE  CountedAt(t)' /\ ArmedAt(t)'
<1>1. call[th].step = "settime" /\ UNCHANGED <<pc, TimerEnabled, Interval, worker, disturbed>>
      /\ armed'[t] = (IF call[th].enable THEN Interval[t] ELSE 0)
      /\ call' = [call EXCEPT ![th].step = "store"]
  BY Names DEF SetEnabled_Settime, loopVars, TInv, TimersOK
<1>2. call[th].step # None /\ call[th] # NoCall
  BY <1>1, Names, InCall DEF None, TInv
<1>3. CountedAt(t) /\ ArmedAt(t)
  BY DEF WInv
<1>4. /\ call'[th].timer = t /\ call'[th].enable = call[th].enable /\ call'[th].step = "store"
      /\ \A u \in Threads \ {th} : call'[u] = call[u]
  BY <1>1, <1>2, GoesOn
<1>5. WorkersOf(t)' = WorkersOf(t) /\ (Called(t)' <=> Called(t))
  BY <1>1, <1>4, Names DEF WorkersOf, Called
<1>6. (Enabling(t)' <=> Enabling(t)) /\ Tokens(t)' = Tokens(t)
  BY <1>1, <1>5 DEF Called, Enabling, Tokens, Spawning, Setting
<1>7. Called(t)' /\ call'[Dispatcher].step # "check" => Called(t) /\ call[Dispatcher].step # "check"
  BY <1>1, <1>4, <1>5, Names
<1>8. CountedAt(t)'
  BY <1>1, <1>3, <1>5, <1>6, <1>7 DEF CountedAt, Spawning, Setting
<1>9. ArmedAt(t)'
  <2> SUFFICES ASSUME disturbed[t] = 0
               PROVE  /\ th \in Storing(t)'
                      /\ \A u \in Storing(t)' : armed'[t] = IF call'[u].enable THEN Interval[t] ELSE 0
    BY <1>1 DEF ArmedAt
  <2>1. th \in Storing(t)'
    BY <1>4 DEF Storing
  <2>2. ASSUME NEW u \in Threads, u \in Storing(t)' PROVE call'[u].enable = call[th].enable
    <3>1. call[u].timer = t /\ call'[u].enable = call[u].enable
      BY <1>4, <2>2 DEF Storing
    <3> QED
      BY <1>3, <3>1, SetAlike
  <2>3. \A u \in Storing(t)' : u \in Threads
    BY DEF Storing
  <2> QED
    BY <1>1, <2>1, <2>2, <2>3
<1> QED
  BY <1>8, <1>9

\* and its last.
LEMMA StoreKeeps ==
  ASSUME TInv, WInv, NEW th \in Threads, SetEnabled_Store(th), NEW t \in WorkerTimers, t = call[th].timer
  PROVE  CountedAt(t)' /\ ArmedAt(t)'
<1>1. call[th].step = "store" /\ UNCHANGED <<pc, Interval, armed, disturbed>>
      /\ TimerEnabled'[t] = call[th].enable /\ Returns(th)
  BY Names DEF SetEnabled_Store, loopVars, TInv, TimersOK
<1>2. call[th].step # None /\ call[th] # NoCall /\ call[th].enable \in BOOLEAN
  BY <1>1, Names, InCall DEF None, TInv
<1>3. CountedAt(t) /\ ArmedAt(t) /\ TimerEnabled[t] \in BOOLEAN /\ disturbed[t] \in Nat
  BY Booleans DEF WInv
<1>4. /\ call'[th] = NoCall /\ \A u \in Threads \ {th} : call'[u] = call[u]
      /\ th = Dispatcher => WorkersOf(t)' = WorkersOf(t)
      /\ th \in Workers => call[th].enable /\ Cardinality(WorkersOf(t)') = Cardinality(WorkersOf(t)) - 1
  BY <1>1, <1>2, GoesBack
<1>5. (Spawning(t)' <=> Spawning(t)) /\ (Setting(t)' <=> Setting(t))
  BY <1>1 DEF Spawning, Setting
<1>6. ArmedAt(t)'
  <2>1. \A u \in Storing(t)' : u \in Storing(t) /\ call'[u] = call[u]
    BY <1>4, Names DEF Storing
  <2>2. th \in Storing(t)
    BY <1>1 DEF Storing
  <2> QED
    BY <1>1, <1>3, <2>1, <2>2 DEF ArmedAt
<1>7. CountedAt(t)'
  <2>1. CASE th \in Workers
    <3>1. call'[Dispatcher] = call[Dispatcher] /\ TimerEnabled'[t]
      BY <1>1, <1>4, <2>1, Names
    <3>2. (Called(t)' <=> Called(t)) /\ (Enabling(t)' <=> Enabling(t))
      BY <1>1, <3>1 DEF Called, Enabling
    <3>3. Tokens(t)' <= Tokens(t) + 1 /\ Tokens(t)' \in 0 .. 2
      BY <1>3, <1>5, <3>1, <3>2 DEF Tokens
    <3>4. Cardinality(WorkersOf(t)') + Tokens(t)' <= 1 + disturbed[t]
      BY <1>3, <1>4, <2>1, <3>3, WorkersCount, Booleans DEF CountedAt
    <3> QED
      BY <1>1, <3>1, <3>4 DEF CountedAt
  <2>2. CASE th = Dispatcher
    <3>1. ~Called(t)' /\ ~Enabling(t)' /\ Called(t) /\ WorkersOf(t)' = WorkersOf(t)
      BY <1>2, <1>4, <2>2, Names DEF Called, Enabling
    <3>2. \/ (Spawning(t) \/ Setting(t)) /\ ~call[th].enable
          \/ Enabling(t) /\ call[th].enable /\ ~Spawning(t) /\ ~Setting(t)
      BY <1>2, <2>2 DEF TInv, CallsOK, Spawning, Setting, Enabling
    <3>3. Tokens(t)' = 1 /\ Tokens(t) >= 1 /\ (Spawning(t) \/ Setting(t) \/ TimerEnabled'[t])
      BY <1>1, <1>3, <1>5, <3>1, <3>2 DEF Tokens
    <3>4. Cardinality(WorkersOf(t)') + Tokens(t)' <= 1 + disturbed[t]
      BY <1>3, <3>1, <3>3, WorkersCount, Booleans DEF CountedAt
    <3> QED
      BY <1>1, <1>5, <3>1, <3>3, <3>4 DEF CountedAt
  <2> QED
    BY <2>1, <2>2 DEF Threads
<1> QED
  BY <1>6, <1>7

\* No step of PeriodicTimer_SetEnabled adds a worker to a timer that has one.
LEMMA SetEnabledKeeps == ASSUME TInv, WInv, NEW th \in Threads, SetEnabled(th) PROVE WInv'
<1> SUFFICES ASSUME NEW t \in WorkerTimers PROVE CountedAt(t)' /\ ArmedAt(t)'
  BY DEF WInv
<1> QED
  BY OtherTimers, CheckKeeps, SettimeKeeps, StoreKeeps DEF SetEnabled

\* The timer's callback: it disables the timer,
LEMMA GossipDoKeeps == ASSUME TInv, WInv, Gossip_Do PROVE WInv'
<1>1. /\ pc.at = "fire" /\ TimerEnabled[pc.timer] /\ Calls(Dispatcher, pc.timer, FALSE)
      /\ pc' = [pc EXCEPT !.at = "spawn", !.left = @ - 1] /\ pc.timer \in Timers
      /\ UNCHANGED <<TimerEnabled, Interval, armed, worker, disturbed>>
  BY Names DEF Gossip_Do, FiresAgain
<1>2. pc'.at = "spawn" /\ pc'.timer = pc.timer
  BY <1>1 DEF TInv, PcOK
<1>3. /\ call'[Dispatcher].timer = pc.timer /\ call'[Dispatcher].step = "check"
      /\ \A u \in Threads \ {Dispatcher} : call'[u] = call[u]
  BY <1>1, CallsBegin, Names
<1>4. call[Dispatcher] = NoCall
  BY <1>1, QuietDispatcher DEF TInv
<1> SUFFICES ASSUME NEW t \in WorkerTimers PROVE CountedAt(t)' /\ ArmedAt(t)'
  BY DEF WInv
<1>5. CountedAt(t) /\ ArmedAt(t) /\ t \in Timers /\ t # None /\ WorkersOf(t)' = WorkersOf(t)
  BY <1>1, Names DEF WInv, WorkersOf
<1>6. ~Spawning(t) /\ ~Setting(t) /\ ~Enabling(t) /\ ~Setting(t)' /\ ~Enabling(t)'
  BY <1>1, <1>2 DEF Spawning, Setting, Enabling
<1>7. CASE t # pc.timer
  <2>1. ~Spawning(t)'
    BY <1>2, <1>7 DEF Spawning
  <2>2. \A u \in Threads : call[u].timer = t \/ call'[u].timer = t => call'[u] = call[u]
    BY <1>3, <1>4, <1>5, <1>7, Names
  <2> QED
    BY <1>1, <1>5, <1>6, <2>1, <2>2, Elsewhere
<1>8. CASE t = pc.timer
  <2>1. Spawning(t)' /\ Called(t)' /\ TimerEnabled[t]
    BY <1>1, <1>2, <1>3, <1>8 DEF Spawning, Called
  <2>2. Tokens(t)' = 1 /\ Tokens(t) = 1
    BY <1>6, <2>1 DEF Tokens
  <2>3. CountedAt(t)'
    BY <1>1, <1>5, <1>6, <2>1, <2>2 DEF CountedAt
  <2>4. Storing(t)' = Storing(t) /\ \A u \in Storing(t) : call'[u] = call[u]
    BY <1>3, <1>4, <1>5, Names DEF Storing
  <2>5. ArmedAt(t)'
    BY <1>1, <1>5, <2>4 DEF ArmedAt
  <2> QED
    BY <2>3, <2>5
<1> QED
  BY <1>7, <1>8

\* and starts its worker.
LEMMA CreateKeeps == ASSUME TInv, WInv, Threads_CreateDetached PROVE WInv'
<1> DEFINE w == Lowest({u \in Workers : worker[u] = None})
<1>1. /\ pc.at = "spawn" /\ call[Dispatcher] = NoCall /\ pc.timer \in WorkerTimers
      /\ worker' = [worker EXCEPT ![w] = pc.timer] /\ pc' = [pc EXCEPT !.at = "fire"]
      /\ UNCHANGED <<TimerEnabled, Interval, armed, call, disturbed>>
  BY DEF Threads_CreateDetached, TInv, PcOK
<1>2. w \in Workers /\ worker[w] = None
  <2>1. Workers \subseteq Nat
    BY EventLoopAssumption
  <2>2. \E u \in Workers : worker[u] = None
    BY DEF Threads_CreateDetached
  <2> QED
    BY <2>1, <2>2, LowestIsLeast
<1> HIDE DEF w
<1>3. pc'.at = "fire"
  BY <1>1 DEF TInv, PcOK
<1> SUFFICES ASSUME NEW t \in WorkerTimers PROVE CountedAt(t)' /\ ArmedAt(t)'
  BY DEF WInv
<1>4. CountedAt(t) /\ ArmedAt(t) /\ t # None /\ TimerEnabled[t] \in BOOLEAN /\ disturbed[t] \in Nat
  BY Names, Booleans DEF WInv
<1>5. ~Called(t) /\ ~Called(t)' /\ ~Spawning(t)' /\ ~Setting(t)' /\ ~Enabling(t)' /\ ~Setting(t) /\ ~Enabling(t)
  BY <1>1, <1>3, <1>4, Names DEF Called, Spawning, Setting, Enabling
<1>6. \A u \in Workers : worker'[u] = IF u = w THEN pc.timer ELSE worker[u]
  BY <1>1, <1>2 DEF TInv, TimersOK
<1>7. CASE t # pc.timer
  <2>1. WorkersOf(t)' = WorkersOf(t)
    BY <1>2, <1>4, <1>6, <1>7 DEF WorkersOf
  <2>2. ~Spawning(t)
    BY <1>7 DEF Spawning
  <2> QED
    BY <1>1, <1>4, <1>5, <2>1, <2>2, Elsewhere
<1>8. CASE t = pc.timer
  <2>1. WorkersOf(t)' = WorkersOf(t) \cup {w} /\ w \notin WorkersOf(t)
    BY <1>2, <1>4, <1>6, <1>8 DEF WorkersOf
  <2>2. Cardinality(WorkersOf(t)') = Cardinality(WorkersOf(t)) + 1
    BY <2>1, WorkersCount, FS_AddElement
  <2>3. Tokens(t) = (IF TimerEnabled[t] THEN 1 ELSE 0) + 1 /\ Tokens(t)' = (IF TimerEnabled[t] THEN 1 ELSE 0)
    BY <1>1, <1>4, <1>5, <1>8 DEF Tokens, Spawning
  <2>4. Cardinality(WorkersOf(t)') + Tokens(t)' <= 1 + disturbed[t]
    BY <1>4, <2>2, <2>3, WorkersCount DEF CountedAt
  <2>5. CountedAt(t)'
    BY <1>1, <1>5, <2>1, <2>4 DEF CountedAt
  <2>6. ArmedAt(t)'
    BY <1>1, <1>4 DEF ArmedAt, Storing
  <2> QED
    BY <2>5, <2>6
<1> QED
  BY <1>7, <1>8

\* A reload disables a timer whose interval changes,
LEMMA ReSetKeeps == ASSUME TInv, WInv, ReSetTimer PROVE WInv'
<1> DEFINE head == Head(pc.todo)
<1>1. /\ pc.at = "reload" /\ call[Dispatcher] = NoCall /\ head \in Timers
      /\ UNCHANGED <<TimerEnabled, Interval, armed, worker>>
  <2>1. pc.todo # <<>> /\ pc.todo \in Seq(Timers)
    BY DEF ReSetTimer, TInv, PcOK
  <2>2. head \in Timers
    BY <2>1
  <2> QED
    BY <2>2 DEF ReSetTimer
<1>2. CASE pc' = [pc EXCEPT !.todo = Tail(@)] /\ UNCHANGED <<call, disturbed>>
  <2>1. pc'.at = "reload"
    BY <1>1, <1>2 DEF TInv, PcOK
  <2> QED
    BY <1>1, <1>2, <2>1, QuietKeeps
<1>3. CASE /\ \E new \in Intervals \ {Interval[head]} : pc' = [pc EXCEPT !.at = "set", !.new = new]
           /\ Calls(Dispatcher, head, FALSE)
           /\ disturbed' = [disturbed EXCEPT ![head] = IF \E w \in Workers : worker[w] = head THEN @ + 1 ELSE @]
  <2>1. pc'.at = "set" /\ pc'.todo = pc.todo
    BY <1>3 DEF TInv, PcOK
  <2>2. /\ call'[Dispatcher].timer = head /\ call'[Dispatcher].step = "check"
        /\ \A u \in Threads \ {Dispatcher} : call'[u] = call[u]
    BY <1>1, <1>3, CallsBegin, Names
  <2>3. \A s \in Timers : disturbed'[s] = IF s = head /\ (\E w \in Workers : worker[w] = head) THEN disturbed[s] + 1 ELSE disturbed[s]
    BY <1>1, <1>3 DEF TInv, TimersOK
  <2> SUFFICES ASSUME NEW t \in WorkerTimers PROVE CountedAt(t)' /\ ArmedAt(t)'
    BY DEF WInv
  <2>4. /\ CountedAt(t) /\ ArmedAt(t) /\ t \in Timers /\ t # None /\ WorkersOf(t)' = WorkersOf(t)
        /\ TimerEnabled[t] \in BOOLEAN /\ disturbed[t] \in Nat
    BY <1>1, Names, Booleans DEF WInv, WorkersOf
  <2>5. ~Spawning(t) /\ ~Setting(t) /\ ~Enabling(t) /\ ~Spawning(t)' /\ ~Enabling(t)'
    BY <1>1, <2>1, <2>4, Names DEF Spawning, Setting, Enabling
  <2>6. CASE t # head
    <3>1. ~Setting(t)'
      BY <2>1, <2>6 DEF Setting
    <3>2. \A u \in Threads : call[u].timer = t \/ call'[u].timer = t => call'[u] = call[u]
      BY <1>1, <2>2, <2>4, <2>6, Names
    <3> QED
      BY <1>1, <2>3, <2>4, <2>5, <2>6, <3>1, <3>2, Elsewhere
  <2>7. CASE t = head
    <3>1. Setting(t)' /\ Called(t)' /\ call'[Dispatcher].step = "check"
      BY <2>1, <2>2, <2>7 DEF Setting, Called
    <3>2. Tokens(t)' = 1 /\ Tokens(t) = IF TimerEnabled[t] THEN 1 ELSE 0
      BY <2>5, <3>1 DEF Tokens
    <3>3. disturbed'[t] = IF WorkersOf(t) # {} THEN disturbed[t] + 1 ELSE disturbed[t]
      BY <2>3, <2>4, <2>7 DEF WorkersOf
    <3>4. TimerEnabled[t] \/ WorkersOf(t) # {}
      BY <2>4, <2>5 DEF CountedAt
    <3>5. Cardinality(WorkersOf(t)) + 1 <= 1 + disturbed'[t]
      BY <2>4, <3>2, <3>3, <3>4, WorkersCount DEF CountedAt
    <3>6. CountedAt(t)'
      BY <2>4, <2>5, <3>1, <3>2, <3>5 DEF CountedAt
    <3>7. Storing(t)' = Storing(t) /\ \A u \in Storing(t) : call'[u] = call[u]
      BY <1>1, <2>2, <2>4, Names DEF Storing
    <3>8. disturbed'[t] = 0 => disturbed[t] = 0
      BY <2>4, <3>3
    <3>9. ArmedAt(t)'
      BY <1>1, <2>4, <3>7, <3>8 DEF ArmedAt
    <3> QED
      BY <3>6, <3>9
  <2> QED
    BY <2>6, <2>7
<1> QED
  BY <1>2, <1>3 DEF ReSetTimer

\* and enables it with its new interval.
LEMMA EnableKeeps == ASSUME TInv, WInv, ReSetTimer_Enable PROVE WInv'
<1> DEFINE head == Head(pc.todo)
<1>1. /\ pc.at = "set" /\ call[Dispatcher] = NoCall /\ Calls(Dispatcher, head, TRUE) /\ head \in Timers
      /\ Interval' = [Interval EXCEPT ![head] = pc.new]
      /\ pc' = [pc EXCEPT !.at = "reload", !.todo = Tail(@), !.new = 0]
      /\ UNCHANGED <<TimerEnabled, armed, worker, disturbed>>
  <2>1. pc.todo # <<>> /\ pc.todo \in Seq(Timers)
    BY DEF ReSetTimer_Enable, TInv, PcOK
  <2>2. head \in Timers
    BY <2>1
  <2> QED
    BY <2>2 DEF ReSetTimer_Enable
<1>2. pc'.at = "reload"
  BY <1>1 DEF TInv, PcOK
<1>3. /\ call'[Dispatcher].timer = head /\ call'[Dispatcher].step = "check"
      /\ \A u \in Threads \ {Dispatcher} : call'[u] = call[u]
  BY <1>1, CallsBegin, Names
<1>4. \A s \in Timers \ {head} : Interval'[s] = Interval[s]
  BY <1>1 DEF TInv, TimersOK
<1> SUFFICES ASSUME NEW t \in WorkerTimers PROVE CountedAt(t)' /\ ArmedAt(t)'
  BY DEF WInv
<1>5. /\ CountedAt(t) /\ ArmedAt(t) /\ t \in Timers /\ t # None /\ WorkersOf(t)' = WorkersOf(t)
      /\ TimerEnabled[t] \in BOOLEAN /\ disturbed[t] \in Nat
  BY <1>1, Names, Booleans DEF WInv, WorkersOf
<1>6. ~Spawning(t) /\ ~Enabling(t) /\ ~Spawning(t)' /\ ~Setting(t)' /\ ~Called(t)
  BY <1>1, <1>2, <1>5, Names DEF Spawning, Setting, Enabling, Called
<1>7. CASE t # head
  <2>1. ~Setting(t) /\ ~Enabling(t)'
    BY <1>3, <1>7 DEF Setting, Enabling
  <2>2. \A u \in Threads : call[u].timer = t \/ call'[u].timer = t => call'[u] = call[u]
    BY <1>1, <1>3, <1>5, <1>7, Names
  <2> QED
    BY <1>1, <1>4, <1>5, <1>6, <1>7, <2>1, <2>2, Elsewhere
<1>8. CASE t = head
  <2>1. Setting(t) /\ Enabling(t)'
    BY <1>1, <1>2, <1>3, <1>8 DEF Setting, Enabling
  <2>2. Tokens(t) = (IF TimerEnabled[t] THEN 1 ELSE 0) + 1 /\ Tokens(t)' = Tokens(t)
    BY <1>1, <1>6, <2>1 DEF Tokens
  <2>3. CountedAt(t)'
    BY <1>1, <1>5, <1>6, <2>1, <2>2 DEF CountedAt
  <2>4. ASSUME disturbed[t] = 0 PROVE ~TimerEnabled[t] /\ Storing(t)' = {} /\ Storing(t) = {}
    <3>1. ~TimerEnabled[t] /\ WorkersOf(t) = {}
      BY <1>5, <2>2, <2>4, WorkersCount DEF CountedAt
    <3>2. \A u \in Workers : call[u].timer # t
      BY <1>5, <3>1, Names DEF TInv, CallsOK, WorkersOf
    <3> QED
      BY <1>1, <1>3, <1>5, <3>1, <3>2, Names DEF Storing, Threads
  <2>5. ArmedAt(t)'
    BY <1>1, <1>5, <2>4 DEF ArmedAt
  <2> QED
    BY <2>3, <2>5
<1> QED
  BY <1>7, <1>8

\* A worker that is done begins to enable its timer.
LEMMA EndsKeeps == ASSUME TInv, WInv, NEW w \in Workers, WorkerEnds(w) PROVE WInv'
<1>1. /\ worker[w] \in WorkerTimers /\ call[w] = NoCall /\ Calls(w, worker[w], TRUE)
      /\ UNCHANGED <<pc, worker, TimerEnabled, Interval, armed, disturbed>>
  BY DEF WorkerEnds, loopVars, TInv, TimersOK
<1>2. call'[w].step = "check" /\ \A u \in Threads \ {w} : call'[u] = call[u]
  BY <1>1, CallsBegin, Names
<1>3. call'[Dispatcher] = call[Dispatcher]
  BY <1>2, Names
<1> SUFFICES ASSUME NEW t \in WorkerTimers PROVE CountedAt(t)' /\ ArmedAt(t)'
  BY DEF WInv
<1>4. CountedAt(t) /\ ArmedAt(t) /\ WorkersOf(t)' = WorkersOf(t) /\ t # None
  BY <1>1, Names DEF WInv, WorkersOf
<1>5. Tokens(t)' = Tokens(t)
  BY <1>1, <1>3 DEF Tokens, Spawning, Setting, Enabling, Called
<1>6. CountedAt(t)'
  BY <1>1, <1>3, <1>4, <1>5 DEF CountedAt, Spawning, Setting, Enabling, Called
<1>7. Storing(t)' = Storing(t) /\ \A u \in Storing(t) : call'[u] = call[u]
  BY <1>1, <1>2, <1>4, Names DEF Storing
<1>8. ArmedAt(t)'
  BY <1>1, <1>4, <1>7 DEF ArmedAt
<1> QED
  BY <1>6, <1>8

\* No step does.
LEMMA NextWInv == TInv /\ WInv /\ [Next]_vars => WInv'
<1> SUFFICES ASSUME TInv, WInv, [Next]_vars PROVE WInv'
  OBVIOUS
<1>1. CallsOK
  BY DEF TInv
<1>2. ASSUME EventDispatcher_Dispatch \/ EventDispatcher_Loop \/ Callback_End \/ FileWatcher_readCb PROVE WInv'
  <2>1. /\ UNCHANGED <<TimerEnabled, Interval, armed, call, worker, disturbed>>
        /\ pc.at \notin {"spawn", "set", "reload"}
    BY <1>2 DEF EventDispatcher_Dispatch, EventDispatcher_Loop, Callback_End, FileWatcher_readCb, Event,
       timerVars
  <2>2. pc'.at \notin {"spawn", "set"}
    BY <1>2, AtOK DEF EventDispatcher_Dispatch, EventDispatcher_Loop, Callback_End, FileWatcher_readCb
  <2> QED
    BY <1>1, <2>1, <2>2, QuietDispatcher, QuietKeeps
<1>3. ASSUME NEW p \in Peers, Dispatch_HangUp(p) \/ Socket_RecvPacket(p) PROVE WInv'
  <2>1. UNCHANGED <<TimerEnabled, Interval, armed, call, worker, disturbed>> /\ pc.at = "dispatch"
    BY <1>3 DEF Dispatch_HangUp, Socket_RecvPacket, Event, timerVars
  <2>2. pc' = pc \/ pc'.at = "header"
    BY <1>3 DEF Dispatch_HangUp, Socket_RecvPacket, At
  <2> QED
    BY <1>1, <2>1, <2>2, QuietDispatcher, QuietKeeps
<1>4. ASSUME NEW t \in Timers, Timer_readCb(t) PROVE WInv'
  <2>1. UNCHANGED <<TimerEnabled, Interval, armed, call, worker, disturbed>> /\ pc.at = "dispatch"
    BY <1>4 DEF Timer_readCb, Event
  <2>2. pc' = pc \/ pc'.at = "fire"
    BY <1>4 DEF Timer_readCb, At
  <2> QED
    BY <1>1, <2>1, <2>2, QuietDispatcher, QuietKeeps
<1>5. ASSUME Callback_Inline PROVE WInv'
  <2>1. UNCHANGED <<TimerEnabled, Interval, armed, call, worker, disturbed>> /\ pc.at = "fire"
        /\ pc' = [pc EXCEPT !.left = @ - 1]
    BY <1>5 DEF Callback_Inline, FiresAgain, timerVars
  <2>2. pc'.at = "fire"
    BY <2>1 DEF TInv, PcOK
  <2> QED
    BY <1>1, <2>1, <2>2, QuietDispatcher, QuietKeeps
<1>6. ASSUME _reLoadConfig PROVE WInv'
  <2>1. /\ UNCHANGED <<TimerEnabled, Interval, armed, call, worker, disturbed>>
        /\ pc.at = "reload" /\ call[Dispatcher] = NoCall
    BY <1>6 DEF _reLoadConfig, timerVars
  <2>2. pc'.at \in {"reload", "dispatch"}
    <3>1. CASE pc' = At("dispatch")
      BY <3>1, AtOK
    <3>2. CASE pc' = [pc EXCEPT !.todo = TimerOrder]
      BY <2>1, <3>2 DEF TInv, PcOK
    <3> QED
      BY <1>6, <3>1, <3>2 DEF _reLoadConfig
  <2> QED
    BY <2>1, <2>2, QuietKeeps
<1>7. ASSUME _acceptCb PROVE WInv'
  BY <1>7, QuietKeeps DEF _acceptCb, timerVars
<1>8. ASSUME Receiving PROVE WInv'
  <2>1. Received(pc.peer) /\ pc.at \in {"header", "recv"} /\ UNCHANGED <<TimerEnabled, Interval, armed, call, worker, disturbed>>
    BY <1>8, ReceivesOne DEF TInv, timerVars
  <2>2. pc'.at \in {"dispatch", "recv"}
    <3>1. CASE pc' = At("dispatch")
      BY <3>1, AtOK
    <3>2. CASE \E header : pc' = [At("recv") EXCEPT !.peer = pc.peer, !.header = [size |-> header.size, opcode |-> header.opcode]]
      BY <3>2 DEF At
    <3> QED
      BY <2>1, <3>1, <3>2 DEF Received
  <2> QED
    BY <1>1, <2>1, <2>2, QuietDispatcher, QuietKeeps
<1>9. ASSUME Stop PROVE WInv'
  <2>1. UNCHANGED <<TimerEnabled, Interval, armed, call, worker, disturbed>>
    BY <1>9 DEF Stop, timerVars
  <2>2. pc' = pc \/ (pc.at = "wait" /\ pc'.at = "dispatch")
    BY <1>9, AtOK DEF Stop, Waits
  <2> QED
    BY <1>1, <2>1, <2>2, QuietDispatcher, QuietKeeps
<1>10. ASSUME NEW p \in Peers, Connect(p) \/ Socket_SendPacket(p) \/ Arrive(p) \/ PeerEnds(p) PROVE WInv'
  BY <1>10, QuietKeeps DEF Connect, Socket_SendPacket, Arrive, PeerEnds, timerVars, loopVars
<1>11. ASSUME ChangeConfig \/ UNCHANGED vars \/ \E t \in Timers : Expire(t) PROVE WInv'
  BY <1>11, QuietKeeps DEF ChangeConfig, Expire, vars, timerVars, loopVars
<1> QED
  BY <1>2, <1>3, <1>4, <1>5, <1>6, <1>7, <1>8, <1>9, <1>10, <1>11, SetEnabledKeeps, GossipDoKeeps, CreateKeeps,
     ReSetKeeps, EnableKeeps, EndsKeeps, Names DEF Next, DispatcherStep, WorkerStep, Outside, Receiving

\* A timer fires or has one worker, and is armed as it should be.
THEOREM EventLoopOneWorkerPerTimer == Spec => []OneWorkerPerTimer
<1>1. Spec => [](TInv /\ WInv)
  <2>1. Init => TInv /\ WInv
    BY InitTypes, InitWorkers
  <2>2. TInv /\ WInv /\ [Next]_vars => (TInv /\ WInv)'
    BY NextTInv, NextWInv
  <2> QED
    BY <2>1, <2>2, PTL DEF Spec
<1>2. TInv /\ WInv => OneWorkerPerTimer
  <2> SUFFICES ASSUME TInv, WInv, NEW t \in WorkerTimers
               PROVE  /\ Cardinality(WorkersOf(t)) <= 1 + disturbed[t]
                      /\ Running /\ disturbed[t] = 0 /\ (\A th \in Threads : call[th].timer # t)
                         /\ ~(pc.at \in {"spawn", "set"}) =>
                         /\ TimerEnabled[t] <=> WorkersOf(t) = {}
                         /\ armed[t] = IF TimerEnabled[t] THEN Interval[t] ELSE 0
    BY DEF OneWorkerPerTimer
  <2>1. /\ CountedAt(t) /\ ArmedAt(t) /\ TimerEnabled[t] \in BOOLEAN
        /\ disturbed[t] \in Nat /\ Tokens(t) \in 0 .. 2
    BY Booleans DEF WInv
  <2>2. Cardinality(WorkersOf(t)) <= 1 + disturbed[t]
    BY <2>1, WorkersCount DEF CountedAt
  <2>3. ASSUME disturbed[t] = 0, \A th \in Threads : call[th].timer # t, pc.at \notin {"spawn", "set"}
        PROVE  (TimerEnabled[t] <=> WorkersOf(t) = {}) /\ armed[t] = IF TimerEnabled[t] THEN Interval[t] ELSE 0
    <3>1. ~Spawning(t) /\ ~Setting(t) /\ ~Enabling(t)
      BY <2>3, Names DEF Spawning, Setting, Enabling
    <3>2. Tokens(t) = IF TimerEnabled[t] THEN 1 ELSE 0
      BY <2>1, <3>1 DEF Tokens
    <3>3. TimerEnabled[t] => WorkersOf(t) = {}
      BY <2>1, <2>3, <3>2, WorkersCount DEF CountedAt
    <3>4. WorkersOf(t) = {} => TimerEnabled[t]
      BY <2>1, <3>1 DEF CountedAt
    <3>5. Storing(t) = {}
      BY <2>3 DEF Storing
    <3> QED
      BY <2>1, <2>3, <3>3, <3>4, <3>5 DEF ArmedAt
  <2> QED
    BY <2>2, <2>3
<1> QED
  BY <1>1, <1>2, PTL

-----------------------------------------------------------------------------
(***************************************************************************)
(* Descriptors, epoll and the map.                                         *)
(***************************************************************************)
\* What the dispatcher's map holds after a put,
LEMMA MapPut ==
  ASSUME NEW map, WellFormed(map, KeyItself, Interfaces), NEW k \in Keys, NEW v \in Interfaces
  PROVE  /\ WellFormed(hashmap_put(map, k, v), KeyItself, Interfaces)
         /\ \A fd \in Keys : hashmap_get(hashmap_put(map, k, v), fd) = IF fd = k THEN v ELSE hashmap_get(map, fd)
<1>1. Tells(KeyItself) /\ \A fd \in Keys : KeyItself[fd] = fd
  BY DEF Tells, KeyItself
<1> QED
  BY <1>1, PutThenGet DEF hashmap_put, hashmap_get

\* a remove,
LEMMA MapRemove ==
  ASSUME NEW map, WellFormed(map, KeyItself, Interfaces), NEW k \in Keys
  PROVE  /\ WellFormed(hashmap_remove(map, k), KeyItself, Interfaces)
         /\ \A fd \in Keys : hashmap_get(hashmap_remove(map, k), fd) = IF fd = k THEN NULL ELSE hashmap_get(map, fd)
<1>1. Tells(KeyItself) /\ \A fd \in Keys : KeyItself[fd] = fd
  BY DEF Tells, KeyItself
<1> QED
  BY <1>1, RemoveThenGet, NamesAssumption DEF hashmap_remove, hashmap_get

\* and at its creation.
LEMMA MapEmpty ==
  ASSUME NEW size \in Nat \ {0}
  PROVE  /\ WellFormed(Create(size), KeyItself, Interfaces)
         /\ \A fd \in Keys : hashmap_get(Create(size), fd) = NULL
<1>1. Tells(KeyItself)
  BY DEF Tells, KeyItself
<1>2. WellFormed(Create(size), KeyItself, Interfaces) /\ Elements(Create(size)) = {}
  BY CreateIsEmpty
<1> QED
  BY <1>1, <1>2, GetFindsTheElement DEF hashmap_get

\* An interface that is removed is closed, and no other.
LEMMA ClosesOne ==
  ASSUME DescriptorsOK, MapOK, NEW p \in Interfaces, IsOpen(p), EventDispatcher_RemoveFDI(p)
  PROVE  /\ DescriptorsOK' /\ MapOK' /\ ~IsOpen(p)'
         /\ \A f \in Interfaces \ {p} : IsOpen(f)' <=> IsOpen(f)
<1> DEFINE fd == DescriptorOf(p)
<1>1. fd \in Keys /\ open[fd] = p
  BY DEF IsOpen, DescriptorOf
<1>2. hashmap_get(fdiMap, fd) = p /\ p # None /\ p # NULL
  BY <1>1, NamesAssumption DEF MapOK
<1>3. open' = [open EXCEPT ![fd] = None] /\ epoll' = epoll \ {fd} /\ fdiMap' = hashmap_remove(fdiMap, fd)
  BY <1>2 DEF EventDispatcher_RemoveFDI
<1> HIDE DEF fd
<1>4. \A a \in Keys : open'[a] = IF a = fd THEN None ELSE open[a]
  BY <1>1, <1>3 DEF DescriptorsOK
<1>5. DescriptorsOK'
  BY <1>1, <1>3, <1>4 DEF DescriptorsOK
<1>6. MapOK'
  <2>1. WellFormed(fdiMap', KeyItself, Interfaces)
    BY <1>1, <1>3, MapRemove DEF MapOK
  <2>2. \A a \in Keys : hashmap_get(fdiMap', a) = IF a = fd THEN NULL ELSE hashmap_get(fdiMap, a)
    BY <1>1, <1>3, MapRemove DEF MapOK
  <2>3. \A a \in Keys : hashmap_get(fdiMap', a) = IF open'[a] # None THEN open'[a] ELSE NULL
    BY <1>4, <2>2 DEF MapOK
  <2> QED
    BY <2>1, <2>3 DEF MapOK
<1>7. ~IsOpen(p)'
  BY <1>1, <1>2, <1>4 DEF IsOpen, DescriptorsOK
<1>8. \A f \in Interfaces \ {p} : IsOpen(f)' <=> IsOpen(f)
  BY <1>1, <1>4, NamesAssumption DEF IsOpen
<1> QED
  BY <1>5, <1>6, <1>7, <1>8

\* There is a free descriptor for an interface that has none.
LEMMA FreeDescriptorIsFree ==
  ASSUME DescriptorsOK, NEW p \in Interfaces, ~IsOpen(p)
  PROVE  FreeDescriptor \in Keys /\ open[FreeDescriptor] = None
<1>1. \E fd \in Keys : open[fd] = None
  <2> SUFFICES ASSUME \A fd \in Keys : open[fd] # None PROVE FALSE
    OBVIOUS
  <2>1. open \in Injection(Keys, Interfaces \ {p})
    BY DEF DescriptorsOK, IsOpen, Injection, IsInjective
  <2>2. IsFiniteSet(Interfaces \ {p}) /\ Cardinality(Interfaces \ {p}) = Cardinality(Interfaces) - 1
    BY NamesAssumption, FS_RemoveElement
  <2>3. Cardinality(Keys) <= Cardinality(Interfaces \ {p})
    BY <2>1, <2>2, FS_Injection
  <2>4. /\ Cardinality(Keys) \in Nat /\ Cardinality(Interfaces) \in Nat
        /\ Cardinality(Interfaces) <= Cardinality(Keys)
    BY NamesAssumption, FS_CardinalityType
  <2> QED
    BY <2>2, <2>3, <2>4
<1> DEFINE free == {fd \in Keys : open[fd] = None}
<1>2. free \in SUBSET Nat /\ free # {}
  BY <1>1, EventLoopAssumption
<1>3. Lowest(free) \in free
  BY <1>2, LowestIsLeast
<1> QED
  BY <1>3 DEF FreeDescriptor

\* An interface that is added is open, epoll watches it and the map has it.
LEMMA OpensOne ==
  ASSUME DescriptorsOK, MapOK, NEW p \in Interfaces, ~IsOpen(p), EventDispatcher_AddFDI(FreeDescriptor, p)
  PROVE  /\ DescriptorsOK' /\ MapOK' /\ IsOpen(p)'
         /\ \A f \in Interfaces \ {p} : IsOpen(f)' <=> IsOpen(f)
<1> DEFINE fd == FreeDescriptor
<1>1. fd \in Keys /\ open[fd] = None /\ p # None
  BY FreeDescriptorIsFree, NamesAssumption
<1>2. open' = [open EXCEPT ![fd] = p] /\ epoll' = epoll \cup {fd} /\ fdiMap' = hashmap_put(fdiMap, fd, p)
  BY DEF EventDispatcher_AddFDI
<1> HIDE DEF fd
<1>3. \A a \in Keys : open'[a] = IF a = fd THEN p ELSE open[a]
  BY <1>1, <1>2 DEF DescriptorsOK
<1>4. DescriptorsOK'
  BY <1>1, <1>2, <1>3 DEF DescriptorsOK, IsOpen
<1>5. MapOK'
  <2>1. WellFormed(fdiMap', KeyItself, Interfaces)
    BY <1>1, <1>2, MapPut DEF MapOK
  <2>2. \A a \in Keys : hashmap_get(fdiMap', a) = IF a = fd THEN p ELSE hashmap_get(fdiMap, a)
    BY <1>1, <1>2, MapPut DEF MapOK
  <2>3. \A a \in Keys : hashmap_get(fdiMap', a) = IF open'[a] # None THEN open'[a] ELSE NULL
    BY <1>1, <1>3, <2>2 DEF MapOK
  <2> QED
    BY <2>1, <2>3 DEF MapOK
<1>6. IsOpen(p)' /\ \A f \in Interfaces \ {p} : IsOpen(f)' <=> IsOpen(f)
  BY <1>1, <1>3, NamesAssumption DEF IsOpen
<1> QED
  BY <1>4, <1>5, <1>6

\* All are closed at the end.
LEMMA TerminateCloses ==
  ASSUME DescriptorsOK, MapOK, EventDispatcher_Terminate
  PROVE  DescriptorsOK' /\ MapOK' /\ epoll' = {}
<1>1. \A fd \in Keys : open[fd] # None => open[fd] \in {e.value : e \in Elements(fdiMap)}
  <2> SUFFICES ASSUME NEW fd \in Keys, open[fd] # None PROVE \E e \in Elements(fdiMap) : open[fd] = e.value
    OBVIOUS
  <2>1. Tells(KeyItself)
    BY DEF Tells, KeyItself
  <2>2. open[fd] # NULL
    BY NamesAssumption DEF DescriptorsOK
  <2>3. Get(fdiMap, KeyItself, fd) = open[fd]
    BY DEF MapOK, hashmap_get
  <2>4. HasKey(fdiMap, KeyItself, fd)
    BY <2>1, <2>2, <2>3, GetFindsTheElement DEF MapOK
  <2> QED
    BY <2>1, <2>3, <2>4, GetFindsTheElement DEF MapOK
<1>2. \A fd \in Keys : open'[fd] = None
  BY <1>1 DEF EventDispatcher_Terminate
<1>3. open' \in [Keys -> Interfaces \cup {None}]
  BY <1>2 DEF EventDispatcher_Terminate
<1>4. DescriptorsOK' /\ epoll' = {}
  BY <1>2, <1>3 DEF DescriptorsOK, EventDispatcher_Terminate
<1>5. fdiMap' = Create(fdiMap.max) /\ fdiMap.max \in Nat \ {0}
  BY DEF EventDispatcher_Terminate, Clean, MapOK, WellFormed
<1>6. MapOK'
  BY <1>2, <1>5, MapEmpty DEF MapOK
<1> QED
  BY <1>4, <1>6

\* A step that opens and closes nothing,
LEMMA SameDescriptors ==
  ASSUME DInv, UNCHANGED <<open, epoll, fdiMap, link>>, batch' \subseteq batch,
         pc' = pc \/ (pc.at # "ended" /\ pc'.at \notin {"header", "recv", "ended"})
  PROVE  DInv'
<1>1. DescriptorsOK' /\ MapOK'
  BY DEF DInv, DescriptorsOK, MapOK
<1>2. EventsOK'
  BY DEF DInv, EventsOK, IsOpen
<1> QED
  BY <1>1, <1>2 DEF DInv

\* one that closes a connection,
LEMMA CloseKeeps ==
  ASSUME DInv, LinksOK, NEW p \in Peers, IsOpen(p), Close(p), \A event \in batch' : event \in batch /\ event.fdi # p,
         pc.at # "ended", pc'.at \notin {"header", "recv", "ended"}
  PROVE  DInv'
<1>1. p \in Interfaces /\ Peers \subseteq Interfaces
  BY DEF Interfaces
<1>2. /\ DescriptorsOK' /\ MapOK' /\ ~IsOpen(p)'
      /\ \A f \in Interfaces \ {p} : IsOpen(f)' <=> IsOpen(f)
  BY <1>1, ClosesOne DEF Close, DInv
<1>3. \A q \in Peers : link'[q] = IF q = p THEN "closed" ELSE link[q]
  BY DEF Close, LinksOK
<1>4. \A q \in Peers : IsOpen(q)' <=> link'[q] = "accepted"
  BY <1>1, <1>2, <1>3 DEF DInv, EventsOK
<1>5. \A event \in batch' : event.fdi \in Interfaces /\ IsOpen(event.fdi)'
  <2> SUFFICES ASSUME NEW event \in batch', NEW f, f = event.fdi PROVE f \in Interfaces /\ IsOpen(f)'
    BY DEF IsOpen
  <2> QED
    BY <1>2 DEF DInv, EventsOK
<1>6. EventsOK'
  BY <1>4, <1>5 DEF EventsOK, IsOpen
<1> QED
  BY <1>2, <1>6 DEF DInv

\* and one that handles a packet.
LEMMA HandleKeeps ==
  ASSUME DInv, LinksOK, NEW p \in Peers, IsOpen(p), NEW header, NEW whole, NEW rest, HandlePacket(p, header, whole, rest),
         \A event \in batch' : event \in batch /\ event.fdi # p, pc.at # "ended", pc'.at \notin {"header", "recv", "ended"}
  PROVE  DInv'
<1>1. CASE Close(p)
  BY <1>1, CloseKeeps
<1>2. CASE UNCHANGED <<open, epoll, fdiMap, link>>
  BY <1>2, SameDescriptors
<1> QED
  BY <1>1, <1>2 DEF HandlePacket

\* An event that is dispatched is not dispatched again.
LEMMA DispatchedOK ==
  ASSUME NEW f, Dispatched(f)
  PROVE  /\ \A event \in batch' : event \in batch /\ event.fdi # f
         /\ batch' \subseteq batch
BY DEF Dispatched

\* Every step keeps descriptors, epoll, the map and the events that wait in agreement.
LEMMA NextDInv == TInv /\ DInv /\ [Next]_vars => DInv'
<1> SUFFICES ASSUME TInv, DInv, [Next]_vars PROVE DInv'
  OBVIOUS
<1>1. Peers \subseteq Interfaces /\ LinksOK
  BY DEF Interfaces, TInv, PeersOK
<1>2. ASSUME EventDispatcher_Dispatch PROVE DInv'
  <2>1. UNCHANGED <<open, epoll, fdiMap, link>> /\ pc'.at = "dispatch" /\ pc.at = "wait"
    BY <1>2, AtOK DEF EventDispatcher_Dispatch, procVars, peerVars
  <2>2. \A event \in batch' : event.fdi \in {open[fd] : fd \in epoll}
    BY <1>2 DEF EventDispatcher_Dispatch
  <2>3. \A event \in batch' : event.fdi \in Interfaces /\ IsOpen(event.fdi)'
    BY <2>1, <2>2 DEF DInv, DescriptorsOK, IsOpen
  <2>4. EventsOK'
    BY <2>1, <2>3 DEF DInv, EventsOK, IsOpen
  <2> QED
    BY <2>1, <2>4 DEF DInv, DescriptorsOK, MapOK
<1>3. ASSUME EventDispatcher_Loop PROVE DInv'
  <2>1. pc.at = "dispatch" /\ batch = {} /\ batch' = batch /\ link' = link
    BY <1>3 DEF EventDispatcher_Loop, peerVars
  <2>2. CASE pc' = At("wait") /\ UNCHANGED <<open, epoll, fdiMap>>
    BY <2>1, <2>2, AtOK, SameDescriptors
  <2>3. CASE pc' = At("ended") /\ EventDispatcher_Terminate
    <3>1. DescriptorsOK' /\ MapOK' /\ epoll' = {} /\ pc'.at = "ended"
      BY <2>3, TerminateCloses, AtOK DEF DInv
    <3>2. EventsOK'
      BY <2>1, <3>1 DEF EventsOK
    <3> QED
      BY <3>1, <3>2 DEF DInv
  <2> QED
    BY <1>3, <2>2, <2>3 DEF EventDispatcher_Loop
<1>4. ASSUME NEW p \in Peers, Dispatch_HangUp(p) PROVE DInv'
  <2>1. pc' = pc /\ pc.at = "dispatch" /\ Dispatched(p) /\ Close(p) /\ [fdi |-> p, hup |-> TRUE] \in batch
    BY <1>4 DEF Dispatch_HangUp
  <2>2. IsOpen(p)
    BY <2>1 DEF DInv, EventsOK
  <2> QED
    BY <1>1, <2>1, <2>2, DispatchedOK, CloseKeeps
<1>5. ASSUME NEW p \in Peers, Socket_RecvPacket(p) PROVE DInv'
  <2>1. /\ pc.at = "dispatch" /\ Dispatched(p) /\ [fdi |-> p, hup |-> FALSE] \in batch
        /\ pc' = [At("header") EXCEPT !.peer = p] /\ UNCHANGED <<open, epoll, fdiMap, link>>
    BY <1>5 DEF Socket_RecvPacket, Event, procVars, peerVars
  <2>2. IsOpen(p)
    BY <2>1 DEF DInv, EventsOK
  <2>3. pc'.at = "header" /\ pc'.peer = p
    BY <2>1 DEF At
  <2>4. EventsOK'
    BY <2>1, <2>2, <2>3, DispatchedOK DEF DInv, EventsOK, IsOpen
  <2> QED
    BY <2>1, <2>4 DEF DInv, DescriptorsOK, MapOK
<1>6. ASSUME NEW t \in Timers, Timer_readCb(t) PROVE DInv'
  <2>1. UNCHANGED <<open, epoll, fdiMap, link>> /\ pc.at = "dispatch" /\ Dispatched(t)
    BY <1>6 DEF Timer_readCb, Event, procVars, peerVars
  <2>2. pc' = pc \/ pc'.at = "fire"
    BY <1>6 DEF Timer_readCb, At
  <2> QED
    BY <2>1, <2>2, DispatchedOK, SameDescriptors
<1>7. ASSUME Callback_Inline \/ Gossip_Do \/ Threads_CreateDetached PROVE DInv'
  <2>1. UNCHANGED <<open, epoll, fdiMap, link, batch>> /\ pc.at \in {"fire", "spawn"}
    BY <1>7 DEF Callback_Inline, Gossip_Do, Threads_CreateDetached, FiresAgain, procVars, peerVars
  <2>2. pc'.at \in {"fire", "spawn"}
    <3>1. CASE Callback_Inline
      BY <2>1, <3>1 DEF Callback_Inline, TInv, PcOK
    <3>2. CASE Gossip_Do
      BY <3>2 DEF Gossip_Do, TInv, PcOK
    <3>3. CASE Threads_CreateDetached
      BY <3>3 DEF Threads_CreateDetached, TInv, PcOK
    <3> QED
      BY <1>7, <3>1, <3>2, <3>3
  <2> QED
    BY <2>1, <2>2, SameDescriptors
<1>8. ASSUME Callback_End PROVE DInv'
  BY <1>8, AtOK, SameDescriptors DEF Callback_End, procVars, peerVars
<1>9. ASSUME FileWatcher_readCb PROVE DInv'
  <2>1. /\ UNCHANGED <<open, epoll, fdiMap, link>> /\ pc.at = "dispatch"
        /\ Dispatched("watcher") /\ pc'.at = "reload"
    BY <1>9, AtOK DEF FileWatcher_readCb, Event, procVars, peerVars
  <2> QED
    BY <2>1, DispatchedOK, SameDescriptors
<1>10. ASSUME _reLoadConfig PROVE DInv'
  <2>1. UNCHANGED <<open, epoll, fdiMap, link, batch>> /\ pc.at = "reload"
    BY <1>10 DEF _reLoadConfig, procVars, peerVars
  <2>2. pc'.at \in {"reload", "dispatch"}
    <3>1. CASE pc' = At("dispatch")
      BY <3>1, AtOK
    <3>2. CASE pc' = [pc EXCEPT !.todo = TimerOrder]
      BY <2>1, <3>2 DEF TInv, PcOK
    <3> QED
      BY <1>10, <3>1, <3>2 DEF _reLoadConfig
  <2> QED
    BY <2>1, <2>2, SameDescriptors
<1>11. ASSUME ReSetTimer PROVE DInv'
  <2>1. UNCHANGED <<open, epoll, fdiMap, link, batch>> /\ pc.at = "reload"
    BY <1>11 DEF ReSetTimer, procVars, peerVars
  <2>2. pc'.at \in {"reload", "set"}
    <3>1. CASE pc' = [pc EXCEPT !.todo = Tail(@)]
      BY <2>1, <3>1 DEF TInv, PcOK
    <3>2. CASE \E new \in Intervals : pc' = [pc EXCEPT !.at = "set", !.new = new]
      BY <3>2 DEF TInv, PcOK
    <3> QED
      BY <1>11, <3>1, <3>2 DEF ReSetTimer
  <2> QED
    BY <2>1, <2>2, SameDescriptors
<1>12. ASSUME ReSetTimer_Enable PROVE DInv'
  <2>1. UNCHANGED <<open, epoll, fdiMap, link, batch>> /\ pc.at = "set"
        /\ pc' = [pc EXCEPT !.at = "reload", !.todo = Tail(@), !.new = 0]
    BY <1>12 DEF ReSetTimer_Enable, procVars, peerVars
  <2>2. pc'.at = "reload"
    BY <2>1 DEF TInv, PcOK
  <2> QED
    BY <2>1, <2>2, SameDescriptors
<1>13. ASSUME _acceptCb PROVE DInv'
  <2>1. pc' = pc /\ pc.at = "dispatch" /\ Dispatched("listener")
    BY <1>13 DEF _acceptCb, Event
  <2>2. PICK p \in Peers : link[p] = "backlog" /\ link' = [link EXCEPT ![p] = "accepted"]
                           /\ EventDispatcher_AddFDI(FreeDescriptor, p)
    BY <1>13 DEF _acceptCb
  <2>3. ~IsOpen(p) /\ p \in Interfaces
    BY <1>1, <2>1, <2>2 DEF DInv, EventsOK
  <2>4. /\ DescriptorsOK' /\ MapOK' /\ IsOpen(p)'
        /\ \A f \in Interfaces \ {p} : IsOpen(f)' <=> IsOpen(f)
    BY <2>2, <2>3, OpensOne DEF DInv
  <2>5. \A q \in Peers : link'[q] = IF q = p THEN "accepted" ELSE link[q]
    BY <1>1, <2>2 DEF LinksOK
  <2>6. \A q \in Peers : IsOpen(q)' <=> link'[q] = "accepted"
    BY <1>1, <2>1, <2>4, <2>5 DEF DInv, EventsOK
  <2>7. \A event \in batch' : event.fdi \in Interfaces /\ IsOpen(event.fdi)'
    <3> SUFFICES ASSUME NEW event \in batch', NEW f, f = event.fdi PROVE f \in Interfaces /\ IsOpen(f)'
      BY DEF IsOpen
    <3> QED
      BY <2>1, <2>4, DispatchedOK DEF DInv, EventsOK
  <2>8. EventsOK'
    BY <2>1, <2>6, <2>7 DEF EventsOK, IsOpen
  <2> QED
    BY <2>4, <2>8 DEF DInv
<1>14. ASSUME Receiving PROVE DInv'
  <2>1. Received(pc.peer) /\ pc.peer \in Peers /\ pc.at \in {"header", "recv"} /\ batch' = batch
    BY <1>14, ReceivesOne DEF TInv
  <2>2. PICK p \in Peers : p = pc.peer
    BY <2>1
  <2>3. IsOpen(p) /\ \A event \in batch' : event \in batch /\ event.fdi # p
    BY <2>1, <2>2 DEF DInv, EventsOK
  <2>4. CASE (\E header, whole, rest : HandlePacket(p, header, whole, rest)) /\ pc' = At("dispatch")
    BY <1>1, <2>1, <2>3, <2>4, AtOK, HandleKeeps
  <2>5. CASE Close(p) /\ pc' = At("dispatch")
    BY <1>1, <2>1, <2>3, <2>5, AtOK, CloseKeeps
  <2>6. CASE /\ \E header : pc' = [At("recv") EXCEPT !.peer = p, !.header = [size |-> header.size, opcode |-> header.opcode]]
             /\ UNCHANGED <<open, epoll, fdiMap, link>>
    <3>1. pc'.at = "recv" /\ pc'.peer = p
      BY <2>6 DEF At
    <3>2. EventsOK'
      BY <2>1, <2>2, <2>3, <2>6, <3>1 DEF DInv, EventsOK, IsOpen
    <3> QED
      BY <2>6, <3>2 DEF DInv, DescriptorsOK, MapOK
  <2> QED
    BY <2>1, <2>2, <2>4, <2>5, <2>6 DEF Received
<1>15. ASSUME NEW p \in Peers, Connect(p) PROVE DInv'
  <2>1. UNCHANGED <<open, epoll, fdiMap, batch, pc>> /\ pc.at = "wait" /\ link[p] \in {"none", "closed"}
        /\ link' = [link EXCEPT ![p] = "backlog"]
    BY <1>15 DEF Connect, Waits, procVars, loopVars
  <2>2. \A q \in Peers : link'[q] = "accepted" <=> link[q] = "accepted"
    BY <1>1, <2>1 DEF LinksOK
  <2>3. EventsOK'
    BY <2>1, <2>2 DEF DInv, EventsOK, IsOpen
  <2> QED
    BY <2>1, <2>3 DEF DInv, DescriptorsOK, MapOK
<1>16. ASSUME NEW p \in Peers, Socket_SendPacket(p) \/ Arrive(p) \/ PeerEnds(p) PROVE DInv'
  BY <1>16, SameDescriptors DEF Socket_SendPacket, Arrive, PeerEnds, procVars, loopVars
<1>17. ASSUME Stop PROVE DInv'
  <2>1. UNCHANGED <<open, epoll, fdiMap, link, batch>>
    BY <1>17 DEF Stop, peerVars
  <2>2. pc' = pc \/ (pc.at = "wait" /\ pc'.at = "dispatch")
    BY <1>17, AtOK DEF Stop, Waits
  <2> QED
    BY <2>1, <2>2, SameDescriptors
<1>18. ASSUME NEW th \in Threads, SetEnabled(th) PROVE DInv'
  BY <1>18, SameDescriptors DEF SetEnabled, SetEnabled_Check, SetEnabled_Settime, SetEnabled_Store, procVars,
     loopVars, peerVars
<1>19. ASSUME ChangeConfig \/ UNCHANGED vars \/ (\E t \in Timers : Expire(t)) \/ (\E w \in Workers : WorkerEnds(w)) PROVE DInv'
  BY <1>19, SameDescriptors DEF ChangeConfig, Expire, WorkerEnds, vars, procVars, loopVars, peerVars
<1> QED
  BY <1>2, <1>3, <1>4, <1>5, <1>6, <1>7, <1>8, <1>9, <1>10, <1>11, <1>12, <1>13, <1>14, <1>15, <1>16, <1>17,
     <1>18, <1>19,
     Names DEF Next, DispatcherStep, WorkerStep, Outside, Receiving

\* The descriptors below one.
Below(fd) == {x \in Keys : x < fd}

\* They can be counted.
LEMMA BelowOK ==
  /\ IsFiniteSet(Keys) /\ Keys \subseteq Nat /\ Cardinality(Keys) \in Nat
  /\ \A fd \in Keys : IsFiniteSet(Below(fd)) /\ Cardinality(Below(fd)) \in Nat
<1>1. IsFiniteSet(Keys) /\ Keys \subseteq Nat
  BY EventLoopAssumption, NamesAssumption
<1>2. \A fd \in Keys : IsFiniteSet(Below(fd))
  BY <1>1, FS_Subset DEF Below
<1> QED
  BY <1>1, <1>2, FS_CardinalityType

\* As many as there are can be opened, one after the other.
LEMMA EveryRank == \A n \in Nat : n < Cardinality(Keys) => \E fd \in Keys : Cardinality(Below(fd)) = n
<1> DEFINE none == {n \in Nat : n < Cardinality(Keys) /\ \A fd \in Keys : Cardinality(Below(fd)) # n}
<1> SUFFICES ASSUME none # {} PROVE FALSE
  OBVIOUS
<1>1. Lowest(none) \in none /\ \A m \in none : Lowest(none) <= m
  BY LowestIsLeast
<1> DEFINE n == Lowest(none)
<1> HIDE DEF n
<1>2. /\ n \in Nat /\ n < Cardinality(Keys) /\ \A fd \in Keys : Cardinality(Below(fd)) # n
      /\ \A m \in Nat : m < n => m \notin none
  BY <1>1 DEF n
<1>3. CASE n = 0
  <2>1. Keys # {}
    BY <1>2, BelowOK, FS_EmptySet
  <2>2. Lowest(Keys) \in Keys /\ \A x \in Keys : Lowest(Keys) <= x
    BY <2>1, BelowOK, LowestIsLeast
  <2>3. Below(Lowest(Keys)) = {}
    <3>1. \A x \in Keys : x \in Nat /\ Lowest(Keys) \in Nat /\ Lowest(Keys) <= x
      BY <2>2, BelowOK
    <3>2. \A x \in Keys : ~(x < Lowest(Keys))
      BY <3>1
    <3> QED
      BY <3>2 DEF Below
  <2>4. Cardinality(Below(Lowest(Keys))) = 0
    BY <2>3, FS_EmptySet
  <2> QED
    BY <1>2, <1>3, <2>2, <2>4
<1>4. CASE n # 0
  <2>1. n - 1 \in Nat /\ n - 1 < n /\ n - 1 < Cardinality(Keys)
    BY <1>2, <1>4, BelowOK
  <2>2. PICK fd \in Keys : Cardinality(Below(fd)) = n - 1
    BY <1>2, <2>1
  <2> DEFINE upTo == Below(fd) \cup {fd}
             above == Keys \ upTo
  <2>3. Cardinality(upTo) = n /\ IsFiniteSet(upTo)
    <3>1. fd \notin Below(fd)
      BY BelowOK DEF Below
    <3>2. Cardinality(upTo) = Cardinality(Below(fd)) + 1 /\ IsFiniteSet(upTo)
      BY <3>1, BelowOK, FS_AddElement
    <3> QED
      BY <1>2, <2>2, <3>2
  <2>4. above # {}
    <3>1. upTo \subseteq Keys
      BY DEF Below
    <3>2. above = {} => upTo = Keys
      BY <3>1
    <3> QED
      BY <1>2, <2>3, <3>2, BelowOK
  <2> DEFINE next == Lowest(above)
  <2>5. next \in above /\ \A x \in above : next <= x
    BY <2>4, BelowOK, LowestIsLeast
  <2>6. \A x \in above : x > fd
    BY BelowOK DEF Below
  <2> HIDE DEF next
  <2>7. Below(next) = upTo
    <3>1. next \in Keys /\ next > fd
      BY <2>5, <2>6
    <3>2. \A x \in Keys : x \in Below(next) <=> x \in upTo
      BY <2>5, <3>1, BelowOK DEF Below
    <3>3. upTo \subseteq Keys /\ Below(next) \subseteq Keys
      BY DEF Below
    <3> QED
      BY <3>2, <3>3
  <2> QED
    BY <1>2, <2>3, <2>5, <2>7
<1> QED
  BY <1>3, <1>4

\* What is open at the start, each once.
LEMMA AtStartOK ==
  /\ Len(AtStart) \in Nat \ {0} /\ DOMAIN AtStart = 1 .. Len(AtStart)
  /\ \A i \in DOMAIN AtStart : AtStart[i] \in Interfaces \ Peers
  /\ \A i, j \in DOMAIN AtStart : AtStart[i] = AtStart[j] => i = j
  /\ Len(AtStart) <= Cardinality(Keys)
<1> DEFINE n == Len(TimerOrder)
<1>1. TimerOrder \in Seq(Timers) /\ n \in Nat
  BY EventLoopAssumption
<1>2. /\ Len(AtStart) = n + 2 /\ DOMAIN AtStart = 1 .. n + 2
      /\ AtStart[1] = "watcher" /\ AtStart[n + 2] = "listener"
      /\ \A i \in 2 .. n + 1 : AtStart[i] = TimerOrder[i - 1] /\ AtStart[i] \in Timers
  BY <1>1 DEF AtStart
<1>3. /\ "watcher" \notin Timers /\ "listener" \notin Timers /\ "watcher" # "listener"
      /\ "watcher" \in Interfaces \ Peers /\ "listener" \in Interfaces \ Peers
      /\ \A t \in Timers : t \in Interfaces \ Peers
  BY NamesAssumption DEF Interfaces
<1>4. \A i, j \in 2 .. n + 1 : AtStart[i] = AtStart[j] => i = j
  <2> SUFFICES ASSUME NEW i \in 2 .. n + 1, NEW j \in 2 .. n + 1, AtStart[i] = AtStart[j] PROVE i = j
    OBVIOUS
  <2>1. i - 1 \in DOMAIN TimerOrder /\ j - 1 \in DOMAIN TimerOrder
    BY <1>1
  <2>2. TimerOrder[i - 1] = TimerOrder[j - 1]
    BY <1>2
  <2>3. i - 1 = j - 1
    BY <2>1, <2>2, NamesAssumption
  <2> QED
    BY <1>1, <2>3
<1> HIDE DEF n
<1>5. \A i \in 1 .. n + 2 : i = 1 \/ i = n + 2 \/ i \in 2 .. n + 1
  BY <1>1
<1>6. \A i \in DOMAIN AtStart : AtStart[i] \in Interfaces \ Peers
  BY <1>2, <1>3, <1>5
<1>7. \A i, j \in DOMAIN AtStart : AtStart[i] = AtStart[j] => i = j
  BY <1>2, <1>3, <1>4, <1>5
<1>8. AtStart \in Injection(1 .. n + 2, Interfaces)
  <2>1. AtStart \in [1 .. n + 2 -> Interfaces]
    <3>1. AtStart \in Seq(Interfaces)
      <4>1. /\ <<"watcher">> \in Seq(Interfaces) /\ <<"listener">> \in Seq(Interfaces)
            /\ TimerOrder \in Seq(Interfaces)
        BY <1>1, <1>3
      <4> QED
        BY <4>1 DEF AtStart
    <3> QED
      BY <1>2, <3>1
  <2> QED
    BY <1>2, <1>7, <2>1 DEF Injection, IsInjective
<1>9. n + 2 <= Cardinality(Keys)
  <2>1. Cardinality(1 .. n + 2) <= Cardinality(Interfaces)
    BY <1>8, NamesAssumption, FS_Injection
  <2>2. Cardinality(1 .. n + 2) = n + 2
    BY <1>1, FS_Interval
  <2>3. Cardinality(Interfaces) \in Nat /\ Cardinality(Interfaces) <= Cardinality(Keys)
    BY NamesAssumption, FS_CardinalityType
  <2> QED
    BY <1>1, <2>1, <2>2, <2>3, BelowOK
<1> QED
  BY <1>1, <1>2, <1>6, <1>7, <1>9

\* Each has a descriptor of its own.
LEMMA DescriptorsAtStart ==
  /\ \A i \in DOMAIN AtStart : Descriptors[i] \in Keys
  /\ \A i, j \in DOMAIN AtStart : Descriptors[i] = Descriptors[j] => i = j
<1>1. \A i \in DOMAIN AtStart : Descriptors[i] \in Keys /\ Cardinality(Below(Descriptors[i])) = i - 1
  <2> SUFFICES ASSUME NEW i \in DOMAIN AtStart
               PROVE  Descriptors[i] \in Keys /\ Cardinality(Below(Descriptors[i])) = i - 1
    OBVIOUS
  <2> DEFINE ranked == {fd \in Keys : Cardinality(Below(fd)) = i - 1}
  <2>1. i - 1 \in Nat /\ i - 1 < Cardinality(Keys)
    BY AtStartOK, BelowOK
  <2>2. ranked # {} /\ ranked \in SUBSET Nat
    BY <2>1, EveryRank, BelowOK
  <2>3. Lowest(ranked) \in ranked
    BY <2>2, LowestIsLeast
  <2>4. Descriptors[i] = Lowest(ranked)
    BY DEF Descriptors, Below
  <2> QED
    BY <2>3, <2>4
<1>2. ASSUME NEW i \in DOMAIN AtStart, NEW j \in DOMAIN AtStart, Descriptors[i] = Descriptors[j] PROVE i = j
  <2>1. i - 1 = j - 1 /\ i \in Nat /\ j \in Nat
    BY <1>1, <1>2, AtStartOK
  <2> QED
    BY <2>1
<1> QED
  BY <1>1, <1>2

\* The maps after each of the first n puts: the equation of MapAtStart has a solution,
IsMapTo(f, n) ==
  f = [i \in 0 .. n |-> IF i = 0 THEN Create(InitialSize) ELSE hashmap_put(f[i - 1], Descriptors[i], AtStart[i])]

\* as the least number without one shows,
LEMMA MapAtStartExists == IsMapTo(MapAtStart, Len(AtStart))
<1> DEFINE none == {n \in Nat : \A f : ~IsMapTo(f, n)}
<1>1. none = {}
  <2> SUFFICES ASSUME none # {} PROVE FALSE
    OBVIOUS
  <2> DEFINE n == Lowest(none)
  <2>1. n \in none /\ \A m \in none : n <= m
    BY LowestIsLeast
  <2> HIDE DEF n
  <2>2. n \in Nat /\ (\A f : ~IsMapTo(f, n)) /\ \A m \in Nat : m < n => m \notin none
    BY <2>1
  <2>3. CASE n = 0
    <3> DEFINE f == [i \in 0 .. 0 |-> Create(InitialSize)]
    <3>1. IsMapTo(f, 0)
      BY DEF IsMapTo
    <3> QED
      BY <2>2, <2>3, <3>1
  <2>4. CASE n # 0
    <3>1. n - 1 \in Nat /\ n - 1 < n
      BY <2>2, <2>4
    <3>2. PICK f : IsMapTo(f, n - 1)
      BY <2>2, <3>1
    <3> DEFINE g == [i \in 0 .. n |-> IF i = n THEN hashmap_put(f[n - 1], Descriptors[n], AtStart[n]) ELSE f[i]]
    <3>3. DOMAIN f = 0 .. n - 1
      BY <3>2 DEF IsMapTo
    <3>4. \A i \in 0 .. n - 1 : f[i] = IF i = 0 THEN Create(InitialSize) ELSE hashmap_put(f[i - 1], Descriptors[i], AtStart[i])
      BY <3>2 DEF IsMapTo
    <3>5. g[n] = hashmap_put(f[n - 1], Descriptors[n], AtStart[n]) /\ \A i \in 0 .. n - 1 : g[i] = f[i]
      BY <2>2
    <3>6. \A i \in 0 .. n : g[i] = IF i = 0 THEN Create(InitialSize) ELSE hashmap_put(g[i - 1], Descriptors[i], AtStart[i])
      <4> HIDE DEF g
      <4> TAKE i \in 0 .. n
      <4>1. CASE i = n
        <5>1. n - 1 \in 0 .. n - 1
          BY <3>1
        <5> QED
          BY <2>4, <3>5, <4>1, <5>1
      <4>2. CASE i # n
        <5>1. i \in 0 .. n - 1 /\ (i # 0 => i - 1 \in 0 .. n - 1)
          BY <2>2, <4>2
        <5> QED
          BY <3>4, <3>5, <5>1
      <4> QED
        BY <4>1, <4>2
    <3>7. g = [i \in 0 .. n |-> g[i]]
      OBVIOUS
    <3> HIDE DEF g
    <3>8. IsMapTo(g, n)
      BY <3>6, <3>7 DEF IsMapTo
    <3> QED
      BY <2>2, <3>8
  <2> QED
    BY <2>3, <2>4
<1>2. PICK f : IsMapTo(f, Len(AtStart))
  BY <1>1, AtStartOK
<1> QED
  BY <1>2 DEF IsMapTo, MapAtStart

\* and the map holds, after n puts, the first n interfaces.
MapHas(n) ==
  /\ WellFormed(MapAtStart[n], KeyItself, Interfaces)
  /\ \A fd \in Keys :
       /\ \A i \in 1 .. n : Descriptors[i] = fd => hashmap_get(MapAtStart[n], fd) = AtStart[i]
       /\ (\A i \in 1 .. n : Descriptors[i] # fd) => hashmap_get(MapAtStart[n], fd) = NULL

\* At the start the map has all of them.
LEMMA MapAtStartHas == MapHas(Len(AtStart))
<1>1. \A n \in 0 .. Len(AtStart) :
        MapAtStart[n] = IF n = 0 THEN Create(InitialSize) ELSE hashmap_put(MapAtStart[n - 1], Descriptors[n], AtStart[n])
  BY MapAtStartExists DEF IsMapTo
<1>2. Len(AtStart) \in Nat /\ DOMAIN AtStart = 1 .. Len(AtStart)
  BY AtStartOK
<1> DEFINE not == {n \in Nat : n <= Len(AtStart) /\ ~MapHas(n)}
<1> SUFFICES ASSUME not # {} PROVE FALSE
  BY <1>2
<1> DEFINE n == Lowest(not)
<1>3. n \in not /\ \A m \in not : n <= m
  BY LowestIsLeast
<1> HIDE DEF n
<1>4. n \in Nat /\ n <= Len(AtStart) /\ ~MapHas(n) /\ \A m \in Nat : m < n => m \notin not
  BY <1>3
<1>5. CASE n = 0
  <2>1. MapAtStart[n] = Create(InitialSize) /\ InitialSize \in Nat \ {0}
    BY <1>1, <1>2, <1>5, EventLoopAssumption
  <2>2. MapHas(n)
    BY <1>5, <2>1, MapEmpty DEF MapHas
  <2> QED
    BY <1>4, <2>2
<1>6. CASE n # 0
  <2>1. n - 1 \in Nat /\ n - 1 < n /\ n - 1 <= Len(AtStart) /\ n \in DOMAIN AtStart /\ n \in 0 .. Len(AtStart)
    BY <1>2, <1>4, <1>6
  <2>2. MapHas(n - 1)
    BY <1>4, <2>1
  <2>3. Descriptors[n] \in Keys /\ AtStart[n] \in Interfaces
    BY <2>1, DescriptorsAtStart, AtStartOK
  <2>4. MapAtStart[n] = hashmap_put(MapAtStart[n - 1], Descriptors[n], AtStart[n])
    BY <1>1, <1>6, <2>1
  <2>5. /\ WellFormed(MapAtStart[n], KeyItself, Interfaces)
        /\ \A fd \in Keys : hashmap_get(MapAtStart[n], fd) =
             IF fd = Descriptors[n] THEN AtStart[n] ELSE hashmap_get(MapAtStart[n - 1], fd)
    BY <2>2, <2>3, <2>4, MapPut DEF MapHas
  <2>6. \A i \in 1 .. n : i = n \/ i \in 1 .. n - 1
    BY <1>4
  <2>7. \A i \in 1 .. n - 1 : i \in 1 .. n /\ i # n /\ i \in DOMAIN AtStart
    BY <1>2, <1>4
  <2>8. ASSUME NEW fd \in Keys, NEW i \in 1 .. n, Descriptors[i] = fd PROVE hashmap_get(MapAtStart[n], fd) = AtStart[i]
    <3>1. CASE i = n
      BY <2>5, <2>8, <3>1
    <3>2. CASE i # n
      <4>1. i \in 1 .. n - 1 /\ Descriptors[n] # fd
        BY <2>1, <2>6, <2>7, <2>8, <3>2, DescriptorsAtStart
      <4> QED
        BY <2>2, <2>5, <2>8, <4>1 DEF MapHas
    <3> QED
      BY <3>1, <3>2
  <2>9. ASSUME NEW fd \in Keys, \A i \in 1 .. n : Descriptors[i] # fd PROVE hashmap_get(MapAtStart[n], fd) = NULL
    <3>1. n \in 1 .. n
      BY <1>4, <1>6
    <3>2. Descriptors[n] # fd /\ \A i \in 1 .. n - 1 : Descriptors[i] # fd
      BY <2>7, <2>9, <3>1
    <3> QED
      BY <2>2, <2>5, <3>2 DEF MapHas
  <2>10. MapHas(n)
    BY <2>5, <2>8, <2>9 DEF MapHas
  <2> QED
    BY <1>4, <2>10
<1> QED
  BY <1>5, <1>6

\* Descriptors, epoll and the map agree at the start.
LEMMA InitDescriptors == Init => DInv
<1> SUFFICES ASSUME Init PROVE DInv
  OBVIOUS
<1>1. DOMAIN AtStart = 1 .. Len(AtStart)
  BY AtStartOK
<1>2. ASSUME NEW fd \in Keys, NEW i \in DOMAIN AtStart, Descriptors[i] = fd PROVE open[fd] = AtStart[i]
  <2> DEFINE j == CHOOSE j \in DOMAIN AtStart : Descriptors[j] = fd
  <2>1. j \in DOMAIN AtStart /\ Descriptors[j] = fd
    BY <1>2
  <2>2. open[fd] = AtStart[j]
    BY <1>2 DEF Init
  <2> HIDE DEF j
  <2>3. i = j
    BY <1>2, <2>1, DescriptorsAtStart
  <2> QED
    BY <2>2, <2>3
<1>3. \A fd \in Keys : (\A i \in DOMAIN AtStart : Descriptors[i] # fd) => open[fd] = None
  BY DEF Init
<1>4. \A i \in DOMAIN AtStart : AtStart[i] \in Interfaces /\ AtStart[i] # None /\ AtStart[i] \notin Peers
  BY AtStartOK, NamesAssumption
<1>5. open \in [Keys -> Interfaces \cup {None}]
  <2>1. DOMAIN open = Keys /\ open = [fd \in Keys |-> open[fd]]
    BY DEF Init
  <2>2. \A fd \in Keys : open[fd] \in Interfaces \cup {None}
    BY <1>2, <1>3, <1>4
  <2> QED
    BY <2>1, <2>2
<1>6. \A fd \in Keys : open[fd] # None <=> \E i \in DOMAIN AtStart : Descriptors[i] = fd
  BY <1>2, <1>3, <1>4
<1>7. DescriptorsOK
  <2>1. epoll = {fd \in Keys : open[fd] # None}
    <3>1. epoll = {Descriptors[i] : i \in DOMAIN AtStart}
      BY DEF Init
    <3>2. \A fd : fd \in epoll <=> fd \in Keys /\ open[fd] # None
      BY <1>6, <3>1, DescriptorsAtStart
    <3> QED
      BY <3>2
  <2>2. ASSUME NEW a \in Keys, NEW b \in Keys, open[a] = open[b], open[a] # None PROVE a = b
    <3>1. PICK i \in DOMAIN AtStart : Descriptors[i] = a
      BY <1>6, <2>2
    <3>2. PICK j \in DOMAIN AtStart : Descriptors[j] = b
      BY <1>6, <2>2
    <3>3. AtStart[i] = AtStart[j]
      BY <1>2, <2>2, <3>1, <3>2
    <3> QED
      BY <3>1, <3>2, <3>3, AtStartOK
  <2> QED
    BY <1>5, <2>1, <2>2 DEF DescriptorsOK
<1>8. MapOK
  <2>1. fdiMap = MapAtStart[Len(AtStart)] /\ MapHas(Len(AtStart))
    BY MapAtStartHas DEF Init
  <2>2. ASSUME NEW fd \in Keys PROVE hashmap_get(fdiMap, fd) = IF open[fd] # None THEN open[fd] ELSE NULL
    <3>1. CASE open[fd] # None
      <4>1. PICK i \in DOMAIN AtStart : Descriptors[i] = fd
        BY <1>6, <3>1
      <4> QED
        BY <1>1, <1>2, <2>1, <3>1, <4>1 DEF MapHas
    <3>2. CASE open[fd] = None
      BY <1>1, <1>6, <2>1, <3>2 DEF MapHas
    <3> QED
      BY <3>1, <3>2
  <2> QED
    BY <2>1, <2>2 DEF MapOK, MapHas
<1>9. EventsOK
  <2>1. batch = {} /\ pc.at = "wait" /\ \A p \in Peers : link[p] = "none"
    BY DEF Init, At
  <2>2. \A p \in Peers : ~IsOpen(p)
    <3>1. \A p \in Peers : p # None
      BY Names
    <3> QED
      BY <1>2, <1>4, <1>6, <3>1 DEF IsOpen
  <2> QED
    BY <2>1, <2>2 DEF EventsOK
<1> QED
  BY <1>7, <1>8, <1>9 DEF DInv

\* Types and descriptors hold throughout.
LEMMA Invariants == Spec => [](TInv /\ DInv)
<1>1. Init => TInv /\ DInv
  BY InitTypes, InitDescriptors
<1>2. TInv /\ DInv /\ [Next]_vars => (TInv /\ DInv)'
  BY NextTInv, NextDInv
<1> QED
  BY <1>1, <1>2, PTL DEF Spec

\* The event loop's state keeps its types.
THEOREM EventLoopTypeOK == Spec => []TypeOK
<1>1. TInv /\ DInv => TypeOK
  <2> SUFFICES ASSUME TInv, DInv PROVE TypeOK
    OBVIOUS
  <2>1. epoll \subseteq Keys /\ open \in [Keys -> Interfaces \cup {None}] /\ \A event \in batch : event.fdi \in Interfaces
    BY DEF DInv, DescriptorsOK, EventsOK
  <2>2. \A th \in Threads : call[th].step \in {None, "check", "settime", "store"}
    BY Names DEF TInv, CallsOK, Calling
  <2> QED
    BY <2>1, <2>2 DEF TypeOK, TInv, PcOK, Steps, TimersOK, PeersOK, LinksOK
<1> QED
  BY <1>1, Invariants, PTL

\* What is open, what epoll watches and what the map has agree.
THEOREM EventLoopDescriptors == Spec => []EveryDescriptorHasItsInterface
<1>1. DInv => EveryDescriptorHasItsInterface
  <2> SUFFICES ASSUME DInv PROVE EveryDescriptorHasItsInterface
    OBVIOUS
  <2>1. /\ epoll = {fd \in Keys : open[fd] # None}
        /\ \A fd \in Keys : hashmap_get(fdiMap, fd) = IF fd \in epoll THEN open[fd] ELSE NULL
    BY DEF DInv, DescriptorsOK, MapOK
  <2>2. \A event \in batch : \E fd \in epoll : open[fd] = event.fdi
    BY <2>1, NamesAssumption DEF DInv, EventsOK, IsOpen
  <2>3. pc.at = "ended" => epoll = {}
    BY DEF DInv, EventsOK
  <2>4. fdiMap.amount = Cardinality(epoll)
    <3>1. PICK v : v \in Interfaces
      BY DEF Interfaces
    <3>2. /\ \A fd \in Keys : hashmap_has_key(fdiMap, fd) <=> hashmap_get(fdiMap, fd) # NULL
          /\ fdiMap.amount = Cardinality({fd \in Keys : hashmap_has_key(fdiMap, fd)})
      <4>1. CASE Keys = {}
        BY AtStartOK, DescriptorsAtStart, <4>1
      <4>2. CASE Keys # {}
        BY <3>1, <4>2, NamesAssumption, HashmapIsAFunction DEF DInv, MapOK
      <4> QED
        BY <4>1, <4>2
    <3>3. \A fd \in Keys : fd \in epoll <=> hashmap_has_key(fdiMap, fd)
      <4>1. NULL \notin Interfaces /\ open \in [Keys -> Interfaces \cup {None}]
        BY NamesAssumption DEF DInv, DescriptorsOK
      <4> QED
        BY <2>1, <3>2, <4>1
    <3>4. epoll = {fd \in Keys : hashmap_has_key(fdiMap, fd)}
      BY <2>1, <3>3
    <3> QED
      BY <3>2, <3>4
  <2> QED
    BY <2>1, <2>2, <2>3, <2>4 DEF EveryDescriptorHasItsInterface
<1> QED
  BY <1>1, Invariants, PTL

-----------------------------------------------------------------------------
(***************************************************************************)
(* Packets.                                                                *)
(***************************************************************************)
\* A packet that was cut short is the last of its peer, which ended within it, or SIGINT came within it: the
\* dispatcher then does not wait for events again.
Interrupted    == ~ProcessRunning /\ pc.at # "wait"
CutShort(p, i) == i = Len(sent[p]) /\ (alive[p] # "alive" \/ Interrupted)

Its(p, header, i)        == header.opcode = sent[p][i].opcode /\ header.size = sent[p][i].size % Width
ItsOrGarbled(p, header, i) == Its(p, header, i) \/ (CutShort(p, i) /\ p \in garbled)

\* What is on a connection: after the packets that were handled come, in order, the header of each and its body
\* if it has one. A position tells the number of its packet, and whether the body of that is still to come.
Reading(p) == pc.at = "recv" /\ pc.peer = p

HeaderAt(p, number, awaits, j) ==
  /\ j - 1 \notin awaits /\ number[j] = number[j - 1] + 1
  /\ \/ stream[p][j] = Header(sent[p][number[j]], TRUE)
     \/ stream[p][j] = Header(sent[p][number[j]], FALSE) /\ j = Len(stream[p])
  /\ j \in awaits <=> stream[p][j].size > 0
BodyAt(p, number, awaits, j) ==
  /\ j - 1 \in awaits /\ j \notin awaits /\ number[j] = number[j - 1]
  /\ \/ stream[p][j] = Body(TRUE)
     \/ stream[p][j] = Body(FALSE) /\ j = Len(stream[p]) /\ alive[p] # "alive"

ExpectsMore(p, awaits) == Len(stream[p]) \in awaits \/ ~HeaderArrived(p)

Positions(p, number, awaits) ==
  /\ number \in [0 .. Len(stream[p]) -> 0 .. Len(sent[p])] /\ awaits \subseteq 0 .. Len(stream[p])
  /\ number[0] = IF Reading(p) THEN Len(handled[p]) + 1 ELSE Len(handled[p])
  /\ 0 \in awaits <=> Reading(p)
  /\ \A j \in 1 .. Len(stream[p]) : HeaderAt(p, number, awaits, j) \/ BodyAt(p, number, awaits, j)
  /\ number[Len(stream[p])] = Len(sent[p])
  /\ IF alive[p] = "alive" THEN p \in sending <=> ExpectsMore(p, awaits) ELSE p \notin sending

HandledOne(p, packet, i) ==
  i <= Len(sent[p]) /\ (packet.whole \/ CutShort(p, i)) /\ ItsOrGarbled(p, packet, i)
HandledOK(p) == \A i \in DOMAIN handled[p] : HandledOne(p, handled[p][i], i)

HeaderTaken(p) ==
  Reading(p) => pc.header \in [size : Nat, opcode : Nat] /\ ItsOrGarbled(p, pc.header, Len(handled[p]) + 1)

OnTheWay(p) == HandledOK(p) /\ HeaderTaken(p) /\ \E number, awaits : Positions(p, number, awaits)

Parts == [part : {"header"}, whole : BOOLEAN, size : Nat, opcode : Nat] \cup [part : {"body"}, whole : BOOLEAN]
Handled == [size : Nat, opcode : Nat, whole : BOOLEAN]
StreamsOK ==
  /\ sent \in [Peers -> Seq(Packets)] /\ stream \in [Peers -> Seq(Parts)] /\ handled \in [Peers -> Seq(Handled)]
  /\ alive \in [Peers -> {"alive", "fin", "reset"}] /\ sending \subseteq Peers

PInv == StreamsOK /\ \A p \in Peers : OnTheWay(p)

\* An interruption lasts.
LEMMA InterruptionLasts == ASSUME TInv, [Next]_vars, Interrupted PROVE Interrupted'
<1>1. ~ProcessRunning /\ pc.at # "wait"
  BY DEF Interrupted
<1>2. ProcessRunning' = ProcessRunning \/ ProcessRunning' = FALSE
  BY DEF Next, DispatcherStep, WorkerStep, Outside, vars, procVars, SetEnabled, SetEnabled_Check, SetEnabled_Settime,
     SetEnabled_Store, EventDispatcher_Dispatch, EventDispatcher_Loop, Dispatch_HangUp, Socket_RecvPacket,
     Timer_readCb, Callback_Inline, Gossip_Do, Threads_CreateDetached, Callback_End, FileWatcher_readCb,
     _reLoadConfig, ReSetTimer, ReSetTimer_Enable, _acceptCb, Recv_Header, Recv_HeaderEnds, Recv_Body, WorkerEnds,
     Expire, Connect, Socket_SendPacket, Arrive, PeerEnds, ChangeConfig, Stop, Interrupt_Header, Interrupt_Body
<1>3. ASSUME Receiving PROVE pc'.at # "wait"
  <2>1. Received(pc.peer)
    BY <1>3, ReceivesOne DEF TInv
  <2>2. CASE pc' = At("dispatch")
    BY <2>2, AtOK
  <2>3. CASE \E header : pc' = [At("recv") EXCEPT !.peer = pc.peer, !.header = [size |-> header.size, opcode |-> header.opcode]]
    BY <2>3 DEF At
  <2> QED
    BY <2>1, <2>2, <2>3 DEF Received
<1>4. ASSUME EventDispatcher_Dispatch \/ EventDispatcher_Loop \/ Callback_End \/ FileWatcher_readCb PROVE pc'.at # "wait"
  BY <1>1, <1>4 DEF EventDispatcher_Dispatch, EventDispatcher_Loop, Callback_End, FileWatcher_readCb, At
<1>5. ASSUME NEW p \in Peers, Dispatch_HangUp(p) \/ Socket_RecvPacket(p) \/ Connect(p) \/ Socket_SendPacket(p)
                              \/ Arrive(p) \/ PeerEnds(p)
      PROVE  pc'.at # "wait"
  BY <1>1, <1>5 DEF Dispatch_HangUp, Socket_RecvPacket, Connect, Socket_SendPacket, Arrive, PeerEnds, loopVars, At
<1>6. ASSUME NEW t \in Timers, Timer_readCb(t) \/ Expire(t) PROVE pc'.at # "wait"
  BY <1>1, <1>6 DEF Timer_readCb, Expire, loopVars, At
<1>7. ASSUME Callback_Inline \/ Gossip_Do \/ Threads_CreateDetached PROVE pc'.at # "wait"
  <2>1. CASE Callback_Inline
    BY <2>1 DEF Callback_Inline, FiresAgain, TInv, PcOK
  <2>2. CASE Gossip_Do
    <3>1. pc' = [pc EXCEPT !.at = "spawn", !.left = @ - 1]
      BY <2>2 DEF Gossip_Do
    <3> QED
      BY <3>1 DEF TInv, PcOK
  <2>3. CASE Threads_CreateDetached
    <3>1. pc' = [pc EXCEPT !.at = "fire"]
      BY <2>3 DEF Threads_CreateDetached
    <3> QED
      BY <3>1 DEF TInv, PcOK
  <2> QED
    BY <1>7, <2>1, <2>2, <2>3
<1>8. ASSUME _reLoadConfig \/ ReSetTimer \/ ReSetTimer_Enable PROVE pc'.at # "wait"
  <2>1. CASE _reLoadConfig
    BY <1>1, <2>1 DEF _reLoadConfig, TInv, PcOK, At
  <2>2. CASE ReSetTimer
    BY <1>1, <2>2 DEF ReSetTimer, TInv, PcOK
  <2>3. CASE ReSetTimer_Enable
    <3>1. pc' = [pc EXCEPT !.at = "reload", !.todo = Tail(@), !.new = 0]
      BY <2>3 DEF ReSetTimer_Enable
    <3> QED
      BY <3>1 DEF TInv, PcOK
  <2> QED
    BY <1>8, <2>1, <2>2, <2>3
<1>9. ASSUME _acceptCb \/ Stop \/ ChangeConfig \/ UNCHANGED vars \/ \E w \in Workers : WorkerEnds(w)
      PROVE  pc'.at # "wait"
  BY <1>1, <1>9 DEF _acceptCb, Stop, ChangeConfig, WorkerEnds, vars, loopVars, At
<1>10. ASSUME NEW th \in Threads, SetEnabled(th) PROVE pc'.at # "wait"
  BY <1>1, <1>10 DEF SetEnabled, SetEnabled_Check, SetEnabled_Settime, SetEnabled_Store, loopVars
<1>11. pc'.at # "wait"
  BY <1>3, <1>4, <1>5, <1>6, <1>7, <1>8, <1>9, <1>10, Names DEF Next, DispatcherStep, WorkerStep, Outside, Receiving
<1> QED
  BY <1>1, <1>2, <1>11 DEF Interrupted

\* What was handled stays right as long as nothing is sent or received,
LEMMA HandledStays ==
  ASSUME NEW p, handled'[p] = handled[p], sent'[p] = sent[p], alive[p] # "alive" => alive'[p] # "alive",
         p \in garbled => p \in garbled', Interrupted => Interrupted'
  PROVE  /\ HandledOK(p) => HandledOK(p)'
         /\ \A header, i : ItsOrGarbled(p, header, i) => ItsOrGarbled(p, header, i)'
<1>1. \A i : CutShort(p, i) => CutShort(p, i)'
  BY DEF CutShort
<1>2. \A header, i : ItsOrGarbled(p, header, i) => ItsOrGarbled(p, header, i)'
  BY <1>1 DEF ItsOrGarbled, Its
<1>3. \A packet, i : HandledOne(p, packet, i) => HandledOne(p, packet, i)'
  BY <1>1, <1>2 DEF HandledOne
<1> QED
  BY <1>2, <1>3 DEF HandledOK

\* and the connection of another peer is as it was,
Untouched(q) ==
  /\ stream'[q] = stream[q] /\ sent'[q] = sent[q] /\ handled'[q] = handled[q] /\ alive'[q] = alive[q]
  /\ q \in sending' <=> q \in sending
  /\ q \in garbled => q \in garbled'

LEMMA OtherPeers ==
  ASSUME NEW q, OnTheWay(q), Untouched(q), Interrupted => Interrupted',
         Reading(q)' <=> Reading(q), Reading(q) => pc'.header = pc.header
  PROVE  OnTheWay(q)'
<1>1. HandledOK(q)' /\ HeaderTaken(q)'
  BY HandledStays DEF OnTheWay, Untouched, HeaderTaken
<1>2. PICK number, awaits : Positions(q, number, awaits)
  BY DEF OnTheWay
<1>3. Positions(q, number, awaits)'
  <2>1. \A j : HeaderAt(q, number, awaits, j) => HeaderAt(q, number, awaits, j)'
    BY DEF HeaderAt, Untouched
  <2>2. \A j : BodyAt(q, number, awaits, j) => BodyAt(q, number, awaits, j)'
    BY DEF BodyAt, Untouched
  <2>3. ExpectsMore(q, awaits)' <=> ExpectsMore(q, awaits)
    BY DEF ExpectsMore, HeaderArrived, Untouched
  <2> QED
    BY <1>2, <2>1, <2>2, <2>3 DEF Positions, Untouched
<1> QED
  BY <1>1, <1>3 DEF OnTheWay

\* so that a step need look only at its own.
LEMMA OthersOnTheWay ==
  ASSUME PInv, NEW p \in Peers, \A q \in Peers \ {p} : Untouched(q), Interrupted => Interrupted',
         \/ pc' = pc
         \/ pc.at # "recv" /\ (pc'.at = "recv" => pc'.peer = p)
         \/ pc.at = "recv" /\ pc.peer = p /\ pc'.at # "recv",
         OnTheWay(p)', StreamsOK'
  PROVE  PInv'
<1>1. ASSUME NEW q \in Peers, q # p PROVE OnTheWay(q)'
  <2>1. (Reading(q)' <=> Reading(q)) /\ (Reading(q) => pc'.header = pc.header) /\ OnTheWay(q) /\ Untouched(q)
    BY <1>1 DEF Reading, PInv
  <2> QED
    BY <2>1, OtherPeers
<1> QED
  BY <1>1 DEF PInv

\* Nothing changes on the way in the steps of others.
LEMMA SameStreams ==
  ASSUME PInv, UNCHANGED <<stream, sent, handled, alive, sending, garbled>>, Interrupted => Interrupted',
         pc' = pc \/ (pc.at # "recv" /\ pc'.at # "recv")
  PROVE  PInv'
<1>1. StreamsOK'
  BY DEF PInv, StreamsOK
<1>2. ASSUME NEW q \in Peers PROVE OnTheWay(q)'
  <2>1. (Reading(q)' <=> Reading(q)) /\ (Reading(q) => pc'.header = pc.header) /\ OnTheWay(q) /\ Untouched(q)
    BY DEF Reading, PInv, Untouched
  <2> QED
    BY <2>1, OtherPeers
<1> QED
  BY <1>1, <1>2 DEF PInv

\* With nothing on the way the last packet was handled, or its body is received.
LEMMA NothingOnTheWay ==
  ASSUME NEW p, stream'[p] = <<>>, NEW last \in Nat, Len(sent'[p]) = last,
         last = (IF Reading(p)' THEN Len(handled'[p]) + 1 ELSE Len(handled'[p])),
         IF alive'[p] = "alive" THEN p \in sending' <=> Reading(p)' ELSE p \notin sending'
  PROVE  \E number, awaits : Positions(p, number, awaits)'
<1> PICK number : number = [j \in 0 .. 0 |-> last]
  OBVIOUS
<1> PICK awaits : awaits = IF Reading(p)' THEN {0} ELSE {}
  OBVIOUS
<1>1. number \in [0 .. 0 -> 0 .. last] /\ number[0] = last /\ awaits \subseteq 0 .. 0 /\ (0 \in awaits <=> Reading(p)')
  OBVIOUS
<1>2. Len(stream'[p]) = 0 /\ 1 .. 0 = {}
  OBVIOUS
<1>3. ExpectsMore(p, awaits)' <=> Reading(p)'
  BY <1>1, <1>2 DEF ExpectsMore, HeaderArrived
<1>4. Positions(p, number, awaits)'
  BY <1>1, <1>2, <1>3 DEF Positions
<1> QED
  BY <1>4

\* A connection that is closed forgets what was on its way.
LEMMA CloseStreams ==
  ASSUME PInv, NEW p \in Peers, Close(p), garbled \subseteq garbled', Interrupted => Interrupted',
         (pc.at # "recv" /\ pc'.at # "recv") \/ (pc.at = "recv" /\ pc.peer = p /\ pc'.at # "recv")
  PROVE  PInv'
<1>1. /\ alive' = [alive EXCEPT ![p] = "alive"] /\ sending' = sending \ {p}
      /\ stream' = [stream EXCEPT ![p] = <<>>]
      /\ sent' = [sent EXCEPT ![p] = <<>>] /\ handled' = [handled EXCEPT ![p] = <<>>]
  BY DEF Close
<1>2. StreamsOK'
  BY <1>1 DEF PInv, StreamsOK
<1>3. /\ stream'[p] = <<>> /\ sent'[p] = <<>> /\ handled'[p] = <<>> /\ alive'[p] = "alive"
      /\ p \notin sending' /\ ~Reading(p)'
  BY <1>1 DEF PInv, StreamsOK, Reading
<1>4. Len(sent'[p]) = 0 /\ Len(handled'[p]) = 0 /\ DOMAIN handled'[p] = {}
  BY <1>3
<1>5. \E number, awaits : Positions(p, number, awaits)'
  BY <1>3, <1>4, NothingOnTheWay
<1>6. OnTheWay(p)'
  BY <1>3, <1>4, <1>5 DEF OnTheWay, HandledOK, HeaderTaken
<1>7. \A q \in Peers \ {p} : Untouched(q)
  BY <1>1 DEF PInv, StreamsOK, Untouched
<1> QED
  BY <1>2, <1>6, <1>7, OthersOnTheWay

\* The header of a packet that was sent is its own.
LEMMA HeaderType ==
  ASSUME StreamsOK, NEW p \in Peers, NEW i \in 1 .. Len(sent[p]), NEW whole \in BOOLEAN
  PROVE  LET header == Header(sent[p][i], whole) IN
         header \in Parts /\ header.size \in Nat /\ header.opcode \in Nat /\ header.whole = whole /\ Its(p, header, i)
<1>1. sent[p] \in Seq(Packets)
  BY DEF StreamsOK
<1>2. sent[p][i] \in [size : Nat, opcode : Nat]
  BY <1>1, EventLoopAssumption
<1>3. sent[p][i].size % Width \in Nat /\ sent[p][i].opcode \in Nat
  BY <1>2, EventLoopAssumption
<1> QED
  BY <1>3 DEF Header, Parts, Its

NextPacket(p, i) == i = Len(handled[p]) + 1

\* The first of a stream is the next header, or the body of the one that was read.
LEMMA First ==
  ASSUME StreamsOK, NEW p \in Peers, NEW number, NEW awaits, Positions(p, number, awaits), stream[p] # <<>>,
         NEW next, NextPacket(p, next)
  PROVE  /\ next \in 1 .. Len(sent[p]) /\ number[1] = next /\ Head(stream[p]) = stream[p][1]
         /\ ~Reading(p) => /\ 1 \in awaits <=> Head(stream[p]).size > 0
                           /\ \/ Head(stream[p]) = Header(sent[p][next], TRUE)
                              \/ /\ Head(stream[p]) = Header(sent[p][next], FALSE) /\ next = Len(sent[p])
                                 /\ alive[p] = "alive" => p \in sending
         /\ Reading(p) => /\ 1 \notin awaits
                          /\ \/ Head(stream[p]) = Body(TRUE)
                             \/ Head(stream[p]) = Body(FALSE) /\ next = Len(sent[p]) /\ alive[p] # "alive"
<1>1. /\ stream[p] \in Seq(Parts) /\ handled[p] \in Seq(Handled) /\ sent[p] \in Seq(Packets)
  BY DEF StreamsOK
<1>2. /\ Len(stream[p]) \in Nat \ {0} /\ Len(handled[p]) \in Nat
      /\ Head(stream[p]) = stream[p][1] /\ Len(sent[p]) \in Nat
  BY <1>1
<1> USE DEF NextPacket
<1>3. 1 \in 1 .. Len(stream[p]) /\ 1 \in 0 .. Len(stream[p])
  BY <1>2
<1>4. HeaderAt(p, number, awaits, 1) \/ BodyAt(p, number, awaits, 1)
  BY <1>3 DEF Positions
<1>5. number[1] \in 0 .. Len(sent[p]) /\ number[Len(stream[p])] = Len(sent[p]) /\ 1 - 1 = 0
  BY <1>3 DEF Positions
<1>6. ASSUME Reading(p)
      PROVE  /\ number[1] = next /\ 1 \notin awaits
             /\ \/ Head(stream[p]) = Body(TRUE)
                \/ Head(stream[p]) = Body(FALSE) /\ next = Len(sent[p]) /\ alive[p] # "alive"
  <2>1. 0 \in awaits /\ number[0] = next
    BY <1>6 DEF Positions
  <2>2. BodyAt(p, number, awaits, 1)
    BY <1>4, <1>5, <2>1 DEF HeaderAt
  <2>3. 1 \notin awaits /\ number[1] = next
        /\ (stream[p][1] = Body(TRUE) \/ (stream[p][1] = Body(FALSE) /\ Len(stream[p]) = 1 /\ alive[p] # "alive"))
    BY <1>5, <2>1, <2>2 DEF BodyAt
  <2> QED
    BY <1>2, <1>5, <2>3
<1>7. ASSUME ~Reading(p)
      PROVE  /\ number[1] = next /\ (1 \in awaits <=> Head(stream[p]).size > 0)
             /\ \/ Head(stream[p]) = Header(sent[p][next], TRUE)
                \/ Head(stream[p]) = Header(sent[p][next], FALSE) /\ next = Len(sent[p])
                   /\ (alive[p] = "alive" => p \in sending)
  <2>1. 0 \notin awaits /\ number[0] = Len(handled[p])
    BY <1>7 DEF Positions
  <2>2. HeaderAt(p, number, awaits, 1)
    BY <1>4, <1>5, <2>1 DEF BodyAt
  <2>3. /\ number[1] = next /\ (1 \in awaits <=> stream[p][1].size > 0)
        /\ \/ stream[p][1] = Header(sent[p][next], TRUE)
           \/ stream[p][1] = Header(sent[p][next], FALSE) /\ Len(stream[p]) = 1
    BY <1>5, <2>1, <2>2 DEF HeaderAt
  <2>4. ASSUME stream[p][1] = Header(sent[p][next], FALSE), Len(stream[p]) = 1, alive[p] = "alive" PROVE p \in sending
    <3>1. ~HeaderArrived(p)
      BY <2>4 DEF HeaderArrived, Header
    <3> QED
      BY <2>4, <3>1 DEF Positions, ExpectsMore
  <2> QED
    BY <1>2, <1>5, <2>3, <2>4
<1>8. number[1] = next
  BY <1>6, <1>7
<1>9. next \in 1 .. Len(sent[p])
  BY <1>2, <1>5, <1>8
<1> QED
  BY <1>2, <1>6, <1>7, <1>8, <1>9

\* A sequence of no length is empty.
LEMMA NothingLeft == ASSUME NEW S, NEW s \in Seq(S), Len(s) = 0 PROVE s = <<>>
OBVIOUS

\* One element of a sequence is replaced.
LEMMA ReplacesOne ==
  ASSUME NEW S, NEW s \in Seq(S), NEW n \in 1 .. Len(s), NEW e \in S, NEW t, t = [s EXCEPT ![n] = e]
  PROVE  t \in Seq(S) /\ Len(t) = Len(s) /\ t[n] = e /\ \A j \in 1 .. Len(s) : j # n => t[j] = s[j]
OBVIOUS

\* The last of a sequence is the last of its tail, if it has one.
LEMMA LastOfTail ==
  ASSUME NEW S, NEW s \in Seq(S), s # <<>>
  PROVE  /\ Len(s) = 1 => Tail(s) = <<>> /\ s[Len(s)] = Head(s)
         /\ Len(s) # 1 => Tail(s) # <<>> /\ Tail(s)[Len(Tail(s))] = s[Len(s)]
<1>1. Len(s) \in Nat \ {0} /\ Len(Tail(s)) = Len(s) - 1 /\ Tail(s) \in Seq(S)
  OBVIOUS
<1>2. ASSUME Len(s) = 1 PROVE Tail(s) = <<>> /\ s[Len(s)] = Head(s)
  <2>1. Len(Tail(s)) = 0
    BY <1>1, <1>2
  <2>2. Tail(s) = <<>>
    BY <1>1, <2>1, NothingLeft
  <2>3. s[1] = Head(s)
    OBVIOUS
  <2> QED
    BY <1>2, <2>2, <2>3
<1>3. ASSUME Len(s) # 1 PROVE Tail(s) # <<>> /\ Tail(s)[Len(Tail(s))] = s[Len(s)]
  <2>1. Len(Tail(s)) \in 1 .. Len(Tail(s)) /\ Len(Tail(s)) + 1 = Len(s)
    BY <1>1, <1>3
  <2>2. Tail(s) # <<>>
    <3>1. Len(<<>>) = 0
      OBVIOUS
    <3>2. Len(Tail(s)) # 0
      BY <1>1, <1>3
    <3> QED
      BY <3>1, <3>2
  <2>3. Tail(s)[Len(Tail(s))] = s[Len(Tail(s)) + 1]
    BY <2>1
  <2> QED
    BY <2>1, <2>2, <2>3
<1> QED
  BY <1>2, <1>3

\* With a whole first part taken, the last header has arrived if it had.
LEMMA TailArrived ==
  ASSUME StreamsOK, NEW p \in Peers, stream[p] # <<>>, stream'[p] = Tail(stream[p]), Head(stream[p]).whole
  PROVE  HeaderArrived(p)' <=> HeaderArrived(p)
<1>1. stream[p] \in Seq(Parts)
  BY DEF StreamsOK
<1> QED
  BY <1>1, LastOfTail DEF HeaderArrived

\* The first part of a stream is taken.
LEMMA TakesFirst ==
  ASSUME StreamsOK, NEW p \in Peers, NEW number, NEW awaits, Positions(p, number, awaits), stream[p] # <<>>,
         stream'[p] = Tail(stream[p]), sent'[p] = sent[p], alive'[p] = alive[p], p \in sending' <=> p \in sending,
         Reading(p)' <=> 1 \in awaits, Head(stream[p]).whole \/ alive[p] # "alive",
         number[1] = (IF Reading(p)' THEN Len(handled'[p]) + 1 ELSE Len(handled'[p]))
  PROVE  \E numbers, waits : Positions(p, numbers, waits)'
<1> PICK last : last = Len(stream[p])
  OBVIOUS
<1> PICK numbers : numbers = [j \in 0 .. last - 1 |-> number[j + 1]]
  OBVIOUS
<1> PICK waits : waits = {j \in 0 .. last - 1 : j + 1 \in awaits}
  OBVIOUS
<1>1. /\ last \in Nat \ {0} /\ Len(stream'[p]) = last - 1
      /\ \A j \in 1 .. last - 1 : stream'[p][j] = stream[p][j + 1]
  <2>1. stream[p] \in Seq(Parts)
    BY DEF StreamsOK
  <2> QED
    BY <2>1
<1>2. number \in [0 .. last -> 0 .. Len(sent[p])]
  BY DEF Positions
<1>3. numbers \in [0 .. last - 1 -> 0 .. Len(sent[p])] /\ waits \subseteq 0 .. last - 1
  BY <1>1, <1>2
<1>4. \A j \in 0 .. last - 1 : numbers[j] = number[j + 1] /\ (j \in waits <=> j + 1 \in awaits)
  OBVIOUS
<1>5. numbers[0] = number[1] /\ (0 \in waits <=> 1 \in awaits)
  <2>1. 0 \in 0 .. last - 1 /\ 0 + 1 = 1
    BY <1>1
  <2> QED
    BY <1>4, <2>1
<1>6. numbers[last - 1] = Len(sent[p]) /\ (last - 1 \in waits <=> last \in awaits)
  <2>1. last - 1 \in 0 .. last - 1 /\ (last - 1) + 1 = last
    BY <1>1
  <2> QED
    BY <1>4, <2>1 DEF Positions
<1>7. ASSUME NEW j \in 1 .. last - 1 PROVE HeaderAt(p, numbers, waits, j)' \/ BodyAt(p, numbers, waits, j)'
  <2>1. /\ j \in 0 .. last - 1 /\ j - 1 \in 0 .. last - 1
        /\ (j - 1) + 1 = j /\ j + 1 \in 1 .. last /\ (j + 1) - 1 = j
        /\ (j + 1 = last <=> j = last - 1)
    <3>1. j \in Int /\ last \in Int /\ 1 <= j /\ j <= last - 1
      BY <1>1
    <3>2. j \in 0 .. last - 1 /\ j - 1 \in 0 .. last - 1 /\ j + 1 \in 1 .. last
      BY <3>1
    <3>3. (j - 1) + 1 = j /\ (j + 1) - 1 = j /\ (j + 1 = last <=> j = last - 1)
      BY <3>1
    <3> QED
      BY <3>2, <3>3
  <2>2. /\ numbers[j] = number[j + 1] /\ numbers[j - 1] = number[j] /\ (j \in waits <=> j + 1 \in awaits)
        /\ (j - 1 \in waits <=> j \in awaits)
    BY <1>4, <2>1
  <2>3. HeaderAt(p, number, awaits, j + 1) \/ BodyAt(p, number, awaits, j + 1)
    BY <2>1 DEF Positions
  <2>4. stream'[p][j] = stream[p][j + 1]
    BY <1>1
  <2>5. CASE HeaderAt(p, number, awaits, j + 1)
    <3>1. /\ j \notin awaits /\ number[j + 1] = number[j] + 1 /\ (j + 1 \in awaits <=> stream[p][j + 1].size > 0)
          /\ \/ stream[p][j + 1] = Header(sent[p][number[j + 1]], TRUE)
             \/ stream[p][j + 1] = Header(sent[p][number[j + 1]], FALSE) /\ j + 1 = last
      BY <2>1, <2>5 DEF HeaderAt
    <3> QED
      BY <1>1, <2>1, <2>2, <2>4, <3>1 DEF HeaderAt
  <2>6. CASE BodyAt(p, number, awaits, j + 1)
    <3>1. j \in awaits /\ j + 1 \notin awaits /\ number[j + 1] = number[j]
          /\ (stream[p][j + 1] = Body(TRUE) \/ (stream[p][j + 1] = Body(FALSE) /\ j + 1 = last /\ alive[p] # "alive"))
      BY <2>1, <2>6 DEF BodyAt
    <3> QED
      BY <1>1, <2>1, <2>2, <2>4, <3>1 DEF BodyAt
  <2> QED
    BY <2>3, <2>5, <2>6
<1>8. IF alive'[p] = "alive" THEN p \in sending' <=> ExpectsMore(p, waits)' ELSE p \notin sending'
  <2>1. IF alive[p] = "alive" THEN p \in sending <=> (last \in awaits \/ ~HeaderArrived(p)) ELSE p \notin sending
    BY DEF Positions, ExpectsMore
  <2>2. ASSUME alive[p] = "alive" PROVE HeaderArrived(p)' <=> HeaderArrived(p)
    BY <2>2, TailArrived
  <2>3. ExpectsMore(p, waits)' <=> last \in awaits \/ ~HeaderArrived(p)'
    BY <1>1, <1>6 DEF ExpectsMore
  <2> QED
    BY <2>1, <2>2, <2>3
<1>9. Positions(p, numbers, waits)'
  BY <1>1, <1>3, <1>5, <1>6, <1>7, <1>8 DEF Positions
<1> QED
  BY <1>9

\* A part arrives, and what was there is whole: the header of a new packet, or the body of the last.
LEMMA GetsPart ==
  ASSUME StreamsOK, NEW p \in Peers, NEW number, NEW awaits, Positions(p, number, awaits), alive[p] = "alive",
         HeaderArrived(p), NEW part, stream'[p] = Append(stream[p], part), handled'[p] = handled[p],
         Reading(p)' <=> Reading(p),
         sent'[p] \in Seq(Packets), Len(sent[p]) <= Len(sent'[p]), \A i \in 1 .. Len(sent[p]) : sent'[p][i] = sent[p][i],
         NEW next, next = Len(sent[p]) + 1,
         \/ /\ p \notin sending /\ Len(sent'[p]) = Len(sent[p]) + 1 /\ alive'[p] = "alive"
            /\ part = Header(sent'[p][next], TRUE) \/ part = Header(sent'[p][next], FALSE)
            /\ p \in sending' <=> part.size > 0 \/ ~part.whole
         \/ /\ p \in sending /\ Len(sent'[p]) = Len(sent[p]) /\ p \notin sending'
            /\ part = Body(TRUE) \/ (part = Body(FALSE) /\ alive'[p] # "alive")
  PROVE  \E numbers, waits : Positions(p, numbers, waits)'
<1> PICK last : last = Len(stream[p])
  OBVIOUS
<1> PICK numbers : numbers = [j \in 0 .. last + 1 |-> IF j = last + 1 THEN Len(sent'[p]) ELSE number[j]]
  OBVIOUS
<1> PICK waits : waits = IF p \notin sending /\ part.size > 0 THEN awaits \cup {last + 1} ELSE awaits
  OBVIOUS
<1>1. last \in Nat /\ Len(sent[p]) \in Nat /\ Len(sent'[p]) \in Nat /\ Len(stream'[p]) = last + 1
      /\ stream'[p][last + 1] = part /\ \A j \in 1 .. last : stream'[p][j] = stream[p][j]
  BY DEF StreamsOK
<1>2. number \in [0 .. last -> 0 .. Len(sent[p])] /\ awaits \subseteq 0 .. last /\ number[last] = Len(sent[p])
      /\ (last \in awaits <=> p \in sending)
  BY DEF Positions, ExpectsMore
<1>3. numbers \in [0 .. last + 1 -> 0 .. Len(sent'[p])]
  <2>1. \A j \in 0 .. last : number[j] \in 0 .. Len(sent'[p])
    <3> TAKE j \in 0 .. last
    <3>1. number[j] \in 0 .. Len(sent[p])
      BY <1>2
    <3> QED
      BY <1>1, <3>1
  <2>2. \A j \in 0 .. last + 1 : j = last + 1 \/ j \in 0 .. last
    BY <1>1
  <2>3. Len(sent'[p]) \in 0 .. Len(sent'[p])
    BY <1>1
  <2> QED
    BY <2>1, <2>2, <2>3
<1>4. waits \subseteq 0 .. last + 1
  <2>1. 0 .. last \subseteq 0 .. last + 1 /\ last + 1 \in 0 .. last + 1
    BY <1>1
  <2>2. awaits \subseteq 0 .. last + 1
    BY <1>2, <2>1
  <2> QED
    BY <2>1, <2>2
<1>5. numbers[last + 1] = Len(sent'[p]) /\ \A j \in 0 .. last : numbers[j] = number[j] /\ (j \in waits <=> j \in awaits)
  BY <1>1
<1>6. last + 1 \in waits <=> p \notin sending /\ part.size > 0
  BY <1>1, <1>2
<1>7. ASSUME NEW j \in 1 .. last PROVE HeaderAt(p, numbers, waits, j)' \/ BodyAt(p, numbers, waits, j)'
  <2>1. j \in 0 .. last /\ j - 1 \in 0 .. last
    BY <1>1
  <2>2. /\ numbers[j] = number[j] /\ numbers[j - 1] = number[j - 1] /\ (j \in waits <=> j \in awaits)
        /\ (j - 1 \in waits <=> j - 1 \in awaits)
    BY <1>5, <2>1
  <2>3. HeaderAt(p, number, awaits, j) \/ BodyAt(p, number, awaits, j)
    BY DEF Positions
  <2>4. stream'[p][j] = stream[p][j]
    BY <1>1
  <2>5. CASE HeaderAt(p, number, awaits, j)
    <3>1. number[j] \in 1 .. Len(sent[p])
      <4>1. number[j] = number[j - 1] + 1
        BY <2>5 DEF HeaderAt
      <4>2. number[j] \in 0 .. Len(sent[p]) /\ number[j - 1] \in 0 .. Len(sent[p])
        BY <1>2, <2>1
      <4> QED
        BY <1>1, <4>1, <4>2
    <3>2. sent'[p][number[j]] = sent[p][number[j]]
      BY <3>1
    <3>3. stream[p][j] = Header(sent[p][number[j]], TRUE)
      <4>1. ASSUME j = last PROVE stream[p][j].whole
        <5>1. stream[p] # <<>>
          BY <4>1
        <5> QED
          BY <4>1, <5>1 DEF HeaderArrived
      <4>2. ~Header(sent[p][number[j]], FALSE).whole
        BY DEF Header
      <4> QED
        BY <2>5, <4>1, <4>2 DEF HeaderAt
    <3> QED
      BY <2>2, <2>4, <2>5, <3>2, <3>3 DEF HeaderAt
  <2>6. CASE BodyAt(p, number, awaits, j)
    BY <2>2, <2>4, <2>6 DEF BodyAt
  <2> QED
    BY <2>3, <2>5, <2>6
<1>8. HeaderAt(p, numbers, waits, last + 1)' \/ BodyAt(p, numbers, waits, last + 1)'
  <2>1. (last + 1) - 1 = last /\ last \in 0 .. last
    BY <1>1
  <2>2. numbers[(last + 1) - 1] = Len(sent[p]) /\ ((last + 1) - 1 \in waits <=> p \in sending)
    BY <1>2, <1>5, <2>1
  <2>3. CASE p \notin sending
    <3>1. Len(sent'[p]) = next /\ next = Len(sent[p]) + 1
          /\ (part = Header(sent'[p][next], TRUE) \/ part = Header(sent'[p][next], FALSE))
      BY <2>3
    <3>2. numbers[last + 1] = numbers[(last + 1) - 1] + 1 /\ (last + 1) - 1 \notin waits
      BY <1>5, <2>2, <2>3, <3>1
    <3>3. numbers[last + 1] = next
      BY <1>5, <3>1
    <3>4. last + 1 \in waits <=> stream'[p][last + 1].size > 0
      BY <1>1, <1>6, <2>3
    <3> QED
      BY <1>1, <3>1, <3>2, <3>3, <3>4 DEF HeaderAt
  <2>4. CASE p \in sending
    <3>1. Len(sent'[p]) = Len(sent[p]) /\ (part = Body(TRUE) \/ (part = Body(FALSE) /\ alive'[p] # "alive"))
      BY <2>4
    <3> QED
      BY <1>1, <1>5, <1>6, <2>2, <2>4, <3>1 DEF BodyAt
  <2> QED
    BY <2>3, <2>4
<1>9. \A j \in 1 .. last + 1 : HeaderAt(p, numbers, waits, j)' \/ BodyAt(p, numbers, waits, j)'
  <2>1. \A j \in 1 .. last + 1 : j = last + 1 \/ j \in 1 .. last
    BY <1>1
  <2> QED
    BY <1>7, <1>8, <2>1
<1>10. numbers[0] = (IF Reading(p) THEN Len(handled[p]) + 1 ELSE Len(handled[p])) /\ (0 \in waits <=> Reading(p))
  <2>1. 0 \in 0 .. last
    BY <1>1
  <2> QED
    BY <1>5, <2>1 DEF Positions
<1>11. IF alive'[p] = "alive" THEN p \in sending' <=> ExpectsMore(p, waits)' ELSE p \notin sending'
  <2>1. HeaderArrived(p)' <=> part.whole
    BY <1>1 DEF HeaderArrived
  <2>2. ExpectsMore(p, waits)' <=> (p \notin sending /\ part.size > 0) \/ ~part.whole
    BY <1>1, <1>6, <2>1 DEF ExpectsMore
  <2>3. CASE p \in sending
    <3>1. p \notin sending' /\ (alive'[p] = "alive" => part = Body(TRUE)) /\ Body(TRUE).whole
      BY <2>3 DEF Body
    <3> QED
      BY <2>2, <2>3, <3>1
  <2> QED
    BY <2>2, <2>3
<1>12. Positions(p, numbers, waits)'
  BY <1>1, <1>3, <1>4, <1>5, <1>9, <1>10, <1>11 DEF Positions
<1> QED
  BY <1>12

\* A header of which the rest arrives is the header of the same packet.
LEMMA HeaderCompletes ==
  ASSUME NEW packet, NEW before, before = Header(packet, FALSE), NEW after, after = [before EXCEPT !.whole = TRUE]
  PROVE  after = Header(packet, TRUE) /\ after.size = before.size /\ after.whole
BY DEF Header

\* The rest of a header arrives: as long as some is missing it is the last on the way.
LEMMA GetsHeader ==
  ASSUME StreamsOK, NEW p \in Peers, NEW number, NEW awaits, Positions(p, number, awaits), alive[p] = "alive",
         NEW last, last = Len(stream[p]), ~HeaderArrived(p), stream' = [stream EXCEPT ![p][last].whole = TRUE],
         sending' = (IF stream[p][last].size = 0 THEN sending \ {p} ELSE sending),
         sent'[p] = sent[p], handled'[p] = handled[p], alive'[p] = alive[p], Reading(p)' <=> Reading(p)
  PROVE  Positions(p, number, awaits)' /\ stream'[p] \in Seq(Parts)
<1>1. stream[p] \in Seq(Parts) /\ stream[p] # <<>> /\ ~stream[p][last].whole
  BY DEF StreamsOK, HeaderArrived
<1>2. last \in Nat \ {0} /\ last \in 1 .. last
  BY <1>1
<1> DEFINE before == stream[p][last]
           after  == [before EXCEPT !.whole = TRUE]
<1>3. HeaderAt(p, number, awaits, last)
  <2>1. HeaderAt(p, number, awaits, last) \/ BodyAt(p, number, awaits, last)
    BY <1>2 DEF Positions
  <2>2. Body(TRUE).whole
    BY DEF Body
  <2> QED
    BY <1>1, <2>1, <2>2 DEF BodyAt
<1>4. before = Header(sent[p][number[last]], FALSE)
  <2>1. Header(sent[p][number[last]], TRUE).whole
    BY DEF Header
  <2> QED
    BY <1>1, <1>3, <2>1 DEF HeaderAt
<1>5. after = Header(sent[p][number[last]], TRUE) /\ after.size = before.size /\ after.whole
  BY <1>4, HeaderCompletes
<1>6. before \in [part : {"header"}, whole : BOOLEAN, size : Nat, opcode : Nat]
  <2>1. before \in Parts
    BY <1>1, <1>2
  <2>2. before.part = "header"
    BY <1>4 DEF Header
  <2> QED
    BY <2>1, <2>2 DEF Parts
<1>7. after \in Parts
  BY <1>6 DEF Parts
<1>8. stream'[p] = [stream[p] EXCEPT ![last] = after]
  BY DEF StreamsOK
<1> HIDE DEF before, after
<1>9. /\ stream'[p] \in Seq(Parts) /\ Len(stream'[p]) = last /\ stream'[p][last] = after
      /\ \A j \in 1 .. last : j # last => stream'[p][j] = stream[p][j]
  <2>1. PICK s \in Seq(Parts) : s = stream[p]
    BY <1>1
  <2>2. PICK n \in 1 .. Len(s) : n = last
    BY <1>2, <2>1
  <2>3. PICK t : t = stream'[p]
    OBVIOUS
  <2>4. t = [s EXCEPT ![n] = after]
    BY <1>8, <2>1, <2>2, <2>3
  <2>5. t \in Seq(Parts) /\ Len(t) = Len(s) /\ t[n] = after /\ \A j \in 1 .. Len(s) : j # n => t[j] = s[j]
    BY <1>7, <2>4, ReplacesOne
  <2> QED
    BY <2>1, <2>2, <2>3, <2>5
<1>10. ASSUME NEW j \in 1 .. last PROVE HeaderAt(p, number, awaits, j)' \/ BodyAt(p, number, awaits, j)'
  <2>1. CASE j = last
    <3>1. last - 1 \notin awaits /\ number[last] = number[last - 1] + 1 /\ (last \in awaits <=> before.size > 0)
      BY <1>3 DEF HeaderAt, before
    <3> QED
      BY <1>5, <1>9, <2>1, <3>1 DEF HeaderAt
  <2>2. CASE j # last
    <3>1. HeaderAt(p, number, awaits, j) \/ BodyAt(p, number, awaits, j)
      BY DEF Positions
    <3>2. stream'[p][j] = stream[p][j]
      BY <1>9, <2>2
    <3> QED
      BY <1>9, <2>2, <3>1, <3>2 DEF HeaderAt, BodyAt
  <2> QED
    BY <2>1, <2>2
<1>11. p \in sending' <=> ExpectsMore(p, awaits)'
  <2>1. HeaderArrived(p)'
    BY <1>5, <1>9 DEF HeaderArrived
  <2>2. p \in sending
    BY DEF Positions, ExpectsMore
  <2>3. last \in awaits <=> before.size > 0
    BY <1>3 DEF HeaderAt, before
  <2>4. before.size \in Nat
    BY <1>6
  <2>5. p \in sending' <=> before.size # 0
    BY <2>2 DEF before
  <2> QED
    BY <1>9, <2>1, <2>3, <2>4, <2>5 DEF ExpectsMore
<1>12. Positions(p, number, awaits)'
  BY <1>9, <1>10, <1>11 DEF Positions
<1> QED
  BY <1>9, <1>12

\* A packet is handled: the next one, or the last, cut short.
LEMMA HandlesOne ==
  ASSUME PInv, NEW p \in Peers, NEW header, NEW whole \in BOOLEAN, NEW rest \in Seq(Parts), HandlePacket(p, header, whole, rest),
         pc.at \in {"header", "recv"}, pc.peer = p, pc'.at # "recv", garbled \subseteq garbled', Interrupted => Interrupted',
         header.size \in Nat, header.opcode \in Nat, NEW next, next = Len(handled[p]) + 1, next <= Len(sent[p]),
         sent' = sent /\ alive' = alive =>
           /\ whole \/ CutShort(p, next)'
           /\ Its(p, header, next) \/ (CutShort(p, next)' /\ p \in garbled'),
         stream'[p] = rest /\ sent' = sent /\ alive' = alive /\ Len(handled'[p]) = next
           /\ sending' = (IF whole THEN sending ELSE sending \ {p}) =>
           \E numbers, waits : Positions(p, numbers, waits)'
  PROVE  PInv'
<1>1. CASE Close(p)
  BY <1>1, CloseStreams
<1>2. CASE /\ handled' = [handled EXCEPT ![p] = Append(@, [size |-> header.size, opcode |-> header.opcode, whole |-> whole])]
           /\ stream' = [stream EXCEPT ![p] = rest] /\ sending' = (IF whole THEN sending ELSE sending \ {p})
           /\ UNCHANGED <<alive, sent>>
  <2>1. StreamsOK /\ HandledOK(p)
    BY DEF PInv, OnTheWay
  <2>2. PICK more : more = [size |-> header.size, opcode |-> header.opcode, whole |-> whole]
    OBVIOUS
  <2>3. more \in Handled /\ more.size = header.size /\ more.opcode = header.opcode /\ more.whole = whole
    BY <2>2 DEF Handled
  <2>4. handled[p] \in Seq(Handled) /\ handled'[p] = Append(handled[p], more)
    BY <1>2, <2>1, <2>2 DEF StreamsOK
  <2>5. /\ Len(handled'[p]) = next /\ handled'[p][next] = more /\ DOMAIN handled'[p] = 1 .. next
        /\ next \in Nat /\ DOMAIN handled[p] = 1 .. next - 1 /\ handled'[p] \in Seq(Handled)
        /\ \A i \in 1 .. next - 1 : handled'[p][i] = handled[p][i]
    BY <2>3, <2>4
  <2>6. \A i \in 1 .. next : i = next \/ i \in 1 .. next - 1
    BY <2>5
  <2>7. HandledOne(p, more, next)'
    BY <1>2, <2>3 DEF HandledOne, ItsOrGarbled, Its
  <2>8. \A i \in 1 .. next - 1 : HandledOne(p, handled[p][i], i)'
    <3>1. \A i \in 1 .. next - 1 : HandledOne(p, handled[p][i], i)
      BY <2>1, <2>5 DEF HandledOK
    <3>2. \A i : CutShort(p, i) => CutShort(p, i)'
      BY <1>2 DEF CutShort
    <3> QED
      BY <1>2, <3>1, <3>2 DEF HandledOne, ItsOrGarbled, Its
  <2>9. HandledOK(p)'
    <3>1. ASSUME NEW i \in 1 .. next PROVE HandledOne(p, handled[p][i], i)'
      <4>1. CASE i = next
        BY <2>5, <2>7, <4>1 DEF HandledOne, ItsOrGarbled, Its
      <4>2. CASE i \in 1 .. next - 1
        BY <2>8, <4>2
      <4> QED
        BY <2>6, <4>1, <4>2
    <3> QED
      BY <2>5, <3>1 DEF HandledOK
  <2>10. ~Reading(p)'
    BY DEF Reading
  <2>11. stream'[p] = rest /\ stream' \in [Peers -> Seq(Parts)] /\ handled' \in [Peers -> Seq(Handled)]
    BY <1>2, <2>1, <2>4, <2>5 DEF StreamsOK
  <2>12. \E numbers, waits : Positions(p, numbers, waits)'
    BY <1>2, <2>5, <2>11
  <2>13. StreamsOK'
    BY <1>2, <2>1, <2>11 DEF StreamsOK
  <2>14. OnTheWay(p)'
    BY <2>9, <2>10, <2>12 DEF OnTheWay, HeaderTaken
  <2>15. \A q \in Peers \ {p} : Untouched(q)
    BY <1>2, <2>1 DEF StreamsOK, Untouched
  <2> QED
    BY <2>13, <2>14, <2>15, OthersOnTheWay
<1> QED
  BY <1>1, <1>2 DEF HandlePacket

\* A header is taken whose body is to come.
LEMMA ExpectsBody ==
  ASSUME PInv, NEW p \in Peers, NEW header, header.size \in Nat, header.opcode \in Nat,
         NEW rest \in Seq(Parts), stream' = [stream EXCEPT ![p] = rest], UNCHANGED <<alive, sending, sent, handled>>,
         pc.at = "header", pc'.at = "recv", pc'.peer = p, pc'.header = [size |-> header.size, opcode |-> header.opcode],
         garbled \subseteq garbled', Interrupted => Interrupted', NEW next, next = Len(handled[p]) + 1,
         Its(p, header, next) \/ (CutShort(p, next)' /\ p \in garbled'),
         Reading(p)' => \E numbers, waits : Positions(p, numbers, waits)'
  PROVE  PInv'
<1>1. StreamsOK /\ HandledOK(p)
  BY DEF PInv, OnTheWay
<1>2. stream' \in [Peers -> Seq(Parts)]
  BY <1>1 DEF StreamsOK
<1>3. Reading(p)'
  BY DEF Reading
<1>4. HandledOK(p)'
  BY <1>1, HandledStays
<1>5. pc'.header \in [size : Nat, opcode : Nat] /\ pc'.header.size = header.size /\ pc'.header.opcode = header.opcode
  OBVIOUS
<1>6. HeaderTaken(p)'
  BY <1>5 DEF HeaderTaken, ItsOrGarbled, Its
<1>7. OnTheWay(p)' /\ StreamsOK'
  BY <1>1, <1>2, <1>3, <1>4, <1>6 DEF OnTheWay, StreamsOK
<1>8. \A q \in Peers \ {p} : Untouched(q)
  BY <1>1 DEF StreamsOK, Untouched
<1> QED
  BY <1>7, <1>8, OthersOnTheWay

\* A header that arrived whole is that of the next packet.
LEMMA WholeHeader ==
  ASSUME TInv, PInv, Recv_Header, Interrupted => Interrupted'
  PROVE  PInv'
<1>1. PICK p \in Peers : p = pc.peer
  BY DEF TInv, PcOK, Recv_Header
<1>2. PICK header : header = Head(stream[p])
  OBVIOUS
<1>3. PICK rest : rest = Tail(stream[p])
  OBVIOUS
<1>4. /\ pc.at = "header" /\ stream[p] # <<>> /\ header.whole /\ TakeHeader(p, header, TRUE, rest)
      /\ ~Reading(p) /\ garbled' = garbled
  BY <1>1, <1>2, <1>3 DEF Recv_Header, Reading
<1>5. StreamsOK
  BY DEF PInv
<1>6. PICK number, awaits : Positions(p, number, awaits)
  BY DEF PInv, OnTheWay
<1>7. PICK next : next = Len(handled[p]) + 1 /\ NextPacket(p, next)
  BY DEF NextPacket
<1>8. /\ next \in 1 .. Len(sent[p]) /\ number[1] = next /\ (1 \in awaits <=> header.size > 0)
      /\ header = Header(sent[p][next], TRUE) \/ header = Header(sent[p][next], FALSE)
  <2>1. p \in Peers /\ StreamsOK /\ Positions(p, number, awaits) /\ stream[p] # <<>> /\ NextPacket(p, next)
    BY <1>4, <1>5, <1>6, <1>7
  <2>2. next \in 1 .. Len(sent[p]) /\ number[1] = next
    BY <2>1, First
  <2>3. 1 \in awaits <=> Head(stream[p]).size > 0
    BY <1>4, <2>1, First
  <2>4. Head(stream[p]) = Header(sent[p][next], TRUE) \/ Head(stream[p]) = Header(sent[p][next], FALSE)
    BY <1>4, <2>1, First
  <2> QED
    BY <1>2, <2>2, <2>3, <2>4
<1>9. header = Header(sent[p][next], TRUE)
  BY <1>4, <1>8 DEF Header
<1>10. header.size \in Nat /\ header.opcode \in Nat /\ Its(p, header, next)
  BY <1>5, <1>8, <1>9, HeaderType
<1>11. rest \in Seq(Parts) /\ next \in Nat /\ Len(sent[p]) \in Nat /\ next <= Len(sent[p])
  <2>1. stream[p] \in Seq(Parts) /\ sent[p] \in Seq(Packets)
    BY <1>5 DEF StreamsOK
  <2>2. Len(sent[p]) \in Nat /\ rest \in Seq(Parts)
    BY <1>3, <1>4, <2>1
  <2> QED
    BY <1>8, <2>2
<1>12. CASE Close(p) /\ pc' = At("dispatch")
  <2>1. pc'.at = "dispatch"
    BY <1>12, AtOK
  <2> QED
    BY <1>4, <1>12, <2>1, CloseStreams
<1>13. CASE header.size = 0 /\ HandlePacket(p, header, TRUE, rest) /\ pc' = At("dispatch")
  <2>1. pc'.at = "dispatch" /\ ~Reading(p)' /\ 1 \notin awaits
    BY <1>8, <1>13, AtOK DEF Reading
  <2>2. ASSUME stream'[p] = rest, sent' = sent, alive' = alive, Len(handled'[p]) = next, sending' = sending
        PROVE  \E numbers, waits : Positions(p, numbers, waits)'
    BY <1>2, <1>3, <1>4, <1>5, <1>6, <1>8, <2>1, <2>2, TakesFirst
  <2> QED
    BY <1>1, <1>4, <1>7, <1>10, <1>11, <1>13, <2>1, <2>2, HandlesOne
<1>14. CASE /\ header.size > 0 /\ stream' = [stream EXCEPT ![p] = rest]
            /\ pc' = [At("recv") EXCEPT !.peer = p, !.header = [size |-> header.size, opcode |-> header.opcode]]
            /\ UNCHANGED <<alive, sending, sent, handled>>
  <2>1. pc'.at = "recv" /\ pc'.peer = p /\ pc'.header = [size |-> header.size, opcode |-> header.opcode]
    BY <1>14 DEF At
  <2>2. Reading(p)' /\ 1 \in awaits /\ stream'[p] = Tail(stream[p])
    BY <1>3, <1>5, <1>8, <1>14, <2>1 DEF Reading, StreamsOK
  <2>3. \E numbers, waits : Positions(p, numbers, waits)'
    BY <1>2, <1>4, <1>5, <1>6, <1>7, <1>8, <1>14, <2>2, TakesFirst
  <2> QED
    BY <1>4, <1>7, <1>10, <1>11, <1>14, <2>1, <2>3, ExpectsBody
<1> QED
  BY <1>4, <1>12, <1>13, <1>14 DEF TakeHeader

\* A header of which a part was taken is of the last packet.
LEMMA PartOfHeader ==
  ASSUME PInv, NEW p \in Peers, pc.peer = p, pc.at = "header", stream[p] # <<>>, ~Head(stream[p]).whole,
         NEW header \in Garbage, TakeHeader(p, header, FALSE, <<>>), garbled' = garbled \cup {p},
         Interrupted => Interrupted', alive[p] # "alive" \/ Interrupted'
  PROVE  PInv'
<1>1. ~Reading(p) /\ StreamsOK /\ header.size \in Nat /\ header.opcode \in Nat
  BY EventLoopAssumption DEF Reading, PInv
<1>2. PICK number, awaits : Positions(p, number, awaits)
  BY DEF PInv, OnTheWay
<1>3. PICK next : next = Len(handled[p]) + 1 /\ NextPacket(p, next)
  BY DEF NextPacket
<1>4. next \in 1 .. Len(sent[p]) /\ next = Len(sent[p]) /\ (alive[p] = "alive" => p \in sending)
  <2>1. Header(sent[p][next], TRUE).whole
    BY DEF Header
  <2>2. p \in Peers /\ StreamsOK /\ Positions(p, number, awaits) /\ stream[p] # <<>> /\ NextPacket(p, next)
    BY <1>1, <1>2, <1>3
  <2>3. next \in 1 .. Len(sent[p])
    BY <2>2, First
  <2>4. \/ Head(stream[p]) = Header(sent[p][next], TRUE)
        \/ /\ Head(stream[p]) = Header(sent[p][next], FALSE) /\ next = Len(sent[p])
           /\ alive[p] = "alive" => p \in sending
    BY <1>1, <2>2, First
  <2> QED
    BY <2>1, <2>3, <2>4
<1>5. next \in Nat /\ Len(sent[p]) \in Nat /\ next <= Len(sent[p]) /\ <<>> \in Seq(Parts)
  <2>1. sent[p] \in Seq(Packets)
    BY <1>1 DEF StreamsOK
  <2>2. Len(sent[p]) \in Nat
    BY <2>1
  <2> QED
    BY <1>4, <2>2
<1>6. sent' = sent /\ alive' = alive => CutShort(p, next)' /\ p \in garbled'
  BY <1>4 DEF CutShort
<1>7. alive[p] # "alive" => p \notin sending
  BY <1>2 DEF Positions
<1>8. CASE Close(p) /\ pc' = At("dispatch")
  <2>1. pc'.at = "dispatch"
    BY <1>8, AtOK
  <2> QED
    BY <1>8, <2>1, CloseStreams
<1>9. CASE HandlePacket(p, header, FALSE, <<>>) /\ pc' = At("dispatch")
  <2>1. pc'.at = "dispatch" /\ ~Reading(p)'
    BY <1>9, AtOK DEF Reading
  <2>2. ASSUME stream'[p] = <<>>, sent' = sent, alive' = alive, Len(handled'[p]) = next, sending' = sending \ {p}
        PROVE  \E numbers, waits : Positions(p, numbers, waits)'
    BY <1>4, <1>5, <2>1, <2>2, NothingOnTheWay
  <2> QED
    BY <1>1, <1>3, <1>5, <1>6, <1>9, <2>1, <2>2, HandlesOne
<1>10. CASE /\ stream' = [stream EXCEPT ![p] = <<>>]
            /\ pc' = [At("recv") EXCEPT !.peer = p, !.header = [size |-> header.size, opcode |-> header.opcode]]
            /\ UNCHANGED <<alive, sending, sent, handled>>
  <2>1. pc'.at = "recv" /\ pc'.peer = p /\ pc'.header = [size |-> header.size, opcode |-> header.opcode]
    BY <1>10 DEF At
  <2>2. Reading(p)' /\ stream'[p] = <<>>
    BY <1>1, <1>10, <2>1 DEF Reading, StreamsOK
  <2>3. \E numbers, waits : Positions(p, numbers, waits)'
    BY <1>3, <1>4, <1>5, <1>7, <1>10, <2>2, NothingOnTheWay
  <2> QED
    BY <1>1, <1>3, <1>5, <1>6, <1>10, <2>1, <2>3, ExpectsBody
<1> QED
  BY <1>8, <1>9, <1>10 DEF TakeHeader


\* A body is received, or what there is of it.
LEMMA TakesBody ==
  ASSUME TInv, PInv, Recv_Body \/ Interrupt_Body, Interrupted => Interrupted'
  PROVE  PInv'
<1>1. pc.at = "recv" /\ pc' = At("dispatch") /\ garbled' = garbled /\ pc'.at = "dispatch"
  BY AtOK DEF Recv_Body, Interrupt_Body
<1>2. PICK p \in Peers : p = pc.peer
  BY <1>1 DEF TInv, PcOK
<1>3. Reading(p) /\ ~Reading(p)' /\ StreamsOK /\ HeaderTaken(p)
  BY <1>1, <1>2 DEF Reading, PInv, OnTheWay
<1>4. PICK number, awaits : Positions(p, number, awaits)
  BY DEF PInv, OnTheWay
<1>5. PICK next : next = Len(handled[p]) + 1 /\ NextPacket(p, next)
  BY DEF NextPacket
<1>6. PICK header : header = pc.header
  OBVIOUS
<1>7. header.size \in Nat /\ header.opcode \in Nat /\ ItsOrGarbled(p, header, next)
  BY <1>3, <1>5, <1>6 DEF HeaderTaken
<1>8. number[0] = next /\ next \in Nat /\ Len(sent[p]) \in Nat /\ next <= Len(sent[p])
  <2>1. sent[p] \in Seq(Packets) /\ handled[p] \in Seq(Handled) /\ stream[p] \in Seq(Parts)
    BY <1>3 DEF StreamsOK
  <2>2. Len(sent[p]) \in Nat /\ next \in Nat /\ 0 \in 0 .. Len(stream[p])
    BY <1>5, <2>1
  <2>3. number[0] \in 0 .. Len(sent[p]) /\ number[0] = next
    BY <1>3, <1>4, <1>5, <2>2 DEF Positions
  <2> QED
    BY <2>2, <2>3
<1>9. sent' = sent /\ alive' = alive => Its(p, header, next) \/ (CutShort(p, next)' /\ p \in garbled')
  <2>1. Its(p, header, next) \/ (CutShort(p, next) /\ p \in garbled)
    BY <1>7 DEF ItsOrGarbled
  <2>2. sent' = sent /\ alive' = alive /\ CutShort(p, next) => CutShort(p, next)'
    BY DEF CutShort
  <2> QED
    BY <1>1, <2>1, <2>2
<1>10. CASE Close(p)
  BY <1>1, <1>2, <1>10, CloseStreams
<1>11. CASE Recv_Body /\ stream[p] # <<>> /\ HandlePacket(p, pc.header, Head(stream[p]).whole, Tail(stream[p]))
  <2>1. PICK rest : rest = Tail(stream[p])
    OBVIOUS
  <2>2. PICK whole : whole = Head(stream[p]).whole
    OBVIOUS
  <2>3. p \in Peers /\ StreamsOK /\ Positions(p, number, awaits) /\ stream[p] # <<>> /\ NextPacket(p, next)
    BY <1>3, <1>4, <1>5, <1>11
  <2>4. number[1] = next
    BY <2>3, First
  <2>5. /\ 1 \notin awaits
        /\ \/ Head(stream[p]) = Body(TRUE)
           \/ Head(stream[p]) = Body(FALSE) /\ next = Len(sent[p]) /\ alive[p] # "alive"
    BY <1>3, <2>3, First
  <2>6. Body(TRUE).whole = TRUE /\ Body(FALSE).whole = FALSE
    BY DEF Body
  <2>7. whole \in BOOLEAN /\ (~whole => next = Len(sent[p]) /\ alive[p] # "alive")
    BY <2>2, <2>5, <2>6
  <2>8. rest \in Seq(Parts)
    <3>1. stream[p] \in Seq(Parts)
      BY <1>3 DEF StreamsOK
    <3> QED
      BY <1>11, <2>1, <3>1
  <2>9. sent' = sent /\ alive' = alive => whole \/ CutShort(p, next)'
    BY <2>7 DEF CutShort
  <2>10. ASSUME stream'[p] = rest, sent' = sent, alive' = alive, Len(handled'[p]) = next,
                sending' = (IF whole THEN sending ELSE sending \ {p})
         PROVE  \E numbers, waits : Positions(p, numbers, waits)'
    <3>1. p \in sending' <=> p \in sending
      <4>1. alive[p] # "alive" => p \notin sending
        BY <1>4 DEF Positions
      <4> QED
        BY <2>7, <2>10, <4>1
    <3>2. Head(stream[p]).whole \/ alive[p] # "alive"
      BY <2>2, <2>7
    <3>3. stream'[p] = Tail(stream[p]) /\ sent'[p] = sent[p] /\ alive'[p] = alive[p] /\ (Reading(p)' <=> 1 \in awaits)
          /\ number[1] = (IF Reading(p)' THEN Len(handled'[p]) + 1 ELSE Len(handled'[p]))
      BY <1>3, <2>1, <2>4, <2>5, <2>10
    <3> QED
      BY <2>3, <3>1, <3>2, <3>3, TakesFirst
  <2>11. HandlePacket(p, header, whole, rest)
    BY <1>6, <1>11, <2>1, <2>2
  <2> QED
    BY <1>1, <1>2, <1>5, <1>7, <1>8, <1>9, <2>7, <2>8, <2>9, <2>10, <2>11, HandlesOne
<1>12. CASE Interrupt_Body
  <2>1. /\ HandlePacket(p, header, FALSE, <<>>) /\ stream[p] = <<>> /\ ProcessRunning' = FALSE
        /\ alive[p] = "alive" /\ p \in sending
    BY <1>2, <1>6, <1>12 DEF Interrupt_Body
  <2>2. Interrupted'
    BY <1>1, <2>1 DEF Interrupted
  <2>3. next = Len(sent[p])
    <3>1. Len(stream[p]) = 0
      BY <2>1
    <3> QED
      BY <1>4, <1>8, <3>1 DEF Positions
  <2>4. sent' = sent /\ alive' = alive => CutShort(p, next)'
    BY <2>2, <2>3 DEF CutShort
  <2>5. ASSUME stream'[p] = <<>>, sent' = sent, alive' = alive, Len(handled'[p]) = next, sending' = sending \ {p}
        PROVE  \E numbers, waits : Positions(p, numbers, waits)'
    BY <1>3, <1>8, <2>3, <2>5, NothingOnTheWay
  <2>6. <<>> \in Seq(Parts)
    OBVIOUS
  <2> QED
    BY <1>1, <1>2, <1>5, <1>7, <1>8, <1>9, <2>1, <2>4, <2>5, <2>6, HandlesOne
<1> QED
  BY <1>2, <1>10, <1>11, <1>12 DEF Recv_Body

\* A header is received, or what there is of it.
LEMMA ReceiveKeeps ==
  ASSUME TInv, PInv, Receiving, Interrupted => Interrupted'
  PROVE  PInv'
<1>1. PICK p \in Peers : p = pc.peer
  BY ReceivesOne DEF TInv
<1>2. ASSUME Recv_HeaderEnds PROVE PInv'
  <2>1. pc.at = "header" /\ alive[p] # "alive" /\ pc.peer = p
    BY <1>1, <1>2 DEF Recv_HeaderEnds
  <2>2. CASE Close(p) /\ pc' = At("dispatch") /\ UNCHANGED garbled
    <3>1. pc'.at = "dispatch"
      BY <2>2, AtOK
    <3> QED
      BY <2>1, <2>2, <3>1, CloseStreams
  <2>3. CASE /\ stream[p] # <<>> /\ ~Head(stream[p]).whole
             /\ \E header \in Garbage : TakeHeader(p, header, FALSE, <<>>)
             /\ garbled' = garbled \cup {p}
    BY <2>1, <2>3, PartOfHeader
  <2> QED
    BY <1>1, <1>2, <2>2, <2>3 DEF Recv_HeaderEnds
<1>3. ASSUME Interrupt_Header PROVE PInv'
  <2>1. /\ pc.at = "header" /\ pc.peer = p /\ stream[p] # <<>> /\ ~Head(stream[p]).whole
        /\ garbled' = garbled \cup {p} /\ ProcessRunning' = FALSE
    BY <1>1, <1>3 DEF Interrupt_Header
  <2>2. PICK header \in Garbage : TakeHeader(p, header, FALSE, <<>>)
    BY <1>1, <1>3 DEF Interrupt_Header
  <2>3. Interrupted'
    <3>1. pc'.at \in {"dispatch", "recv"}
      <4>1. CASE pc' = At("dispatch")
        BY <4>1, AtOK
      <4>2. CASE pc' = [At("recv") EXCEPT !.peer = p, !.header = [size |-> header.size, opcode |-> header.opcode]]
        BY <4>2 DEF At
      <4> QED
        BY <2>2, <4>1, <4>2 DEF TakeHeader
    <3> QED
      BY <2>1, <3>1 DEF Interrupted
  <2> QED
    BY <2>1, <2>2, <2>3, PartOfHeader
<1> QED
  BY <1>2, <1>3, WholeHeader, TakesBody DEF Receiving

\* While the dispatcher waits, what it has handled of a peer that is alive is whole.
LEMMA HandledWhole ==
  ASSUME NEW p, HandledOK(p), pc.at = "wait", alive[p] = "alive", NEW i \in DOMAIN handled[p]
  PROVE  i <= Len(sent[p]) /\ handled[p][i].whole /\ Its(p, handled[p][i], i)
<1>1. HandledOne(p, handled[p][i], i) /\ ~CutShort(p, i)
  BY DEF HandledOK, CutShort, Interrupted
<1> QED
  BY <1>1 DEF HandledOne, ItsOrGarbled

\* A peer that connects again starts anew,
LEMMA ConnectKeeps == ASSUME TInv, PInv, NEW p \in Peers, Connect(p) PROVE PInv'
<1>1. /\ pc.at = "wait" /\ alive[p] = "alive" /\ garbled' = garbled \ {p}
      /\ UNCHANGED <<pc, ProcessRunning, stream, sent, handled, alive, sending>>
      /\ StreamsOK /\ HandledOK(p)
  BY DEF Connect, Waits, loopVars, procVars, TInv, PeersOK, LinksOK, PInv, OnTheWay
<1>2. ~Reading(p) /\ ~Reading(p)'
  BY <1>1 DEF Reading
<1>3. HandledOK(p)'
  <2>1. ASSUME NEW i \in DOMAIN handled[p] PROVE HandledOne(p, handled[p][i], i)'
    <3>1. i <= Len(sent[p]) /\ handled[p][i].whole /\ Its(p, handled[p][i], i)
      BY <1>1, HandledWhole
    <3> QED
      BY <1>1, <3>1 DEF HandledOne, ItsOrGarbled, Its
  <2> QED
    BY <1>1, <2>1 DEF HandledOK
<1>4. PICK number, awaits : Positions(p, number, awaits)
  BY DEF PInv, OnTheWay
<1>5. Positions(p, number, awaits)'
  BY <1>1, <1>2, <1>4 DEF Positions, HeaderAt, BodyAt, ExpectsMore, HeaderArrived
<1>6. OnTheWay(p)' /\ StreamsOK'
  BY <1>1, <1>2, <1>3, <1>5 DEF OnTheWay, HeaderTaken, StreamsOK
<1>7. \A q \in Peers \ {p} : Untouched(q)
  BY <1>1 DEF Untouched
<1>8. Interrupted => Interrupted'
  BY <1>1 DEF Interrupted
<1> QED
  BY <1>1, <1>6, <1>7, <1>8, OthersOnTheWay

\* it sends a packet,
LEMMA SendKeeps == ASSUME PInv, NEW p \in Peers, Socket_SendPacket(p) PROVE PInv'
<1>1. /\ pc.at = "wait" /\ alive[p] = "alive" /\ p \notin sending
      /\ UNCHANGED <<pc, ProcessRunning, handled, alive, garbled>>
      /\ StreamsOK /\ HandledOK(p)
  BY DEF Socket_SendPacket, Connected, Waits, loopVars, procVars, PInv, OnTheWay
<1>2. ~Reading(p) /\ ~Reading(p)'
  BY <1>1 DEF Reading
<1>3. PICK packet \in Packets, complete \in BOOLEAN :
        /\ sent' = [sent EXCEPT ![p] = Append(@, packet)]
        /\ stream' = [stream EXCEPT ![p] = Append(@, Header(packet, complete))]
        /\ sending' = IF complete /\ packet.size % Width = 0 THEN sending ELSE sending \cup {p}
  BY DEF Socket_SendPacket
<1>4. PICK part : part = Header(packet, complete)
  OBVIOUS
<1>5. packet.size % Width \in Nat /\ packet.opcode \in Nat
  BY EventLoopAssumption
<1>6. part \in Parts /\ part.size = packet.size % Width /\ part.whole = complete
  BY <1>4, <1>5 DEF Header, Parts
<1>7. /\ sent'[p] = Append(sent[p], packet) /\ stream'[p] = Append(stream[p], part)
      /\ sent[p] \in Seq(Packets) /\ stream[p] \in Seq(Parts)
  BY <1>1, <1>3, <1>4 DEF StreamsOK
<1>8. PICK next : next = Len(sent[p]) + 1
  OBVIOUS
<1>9. /\ sent'[p] \in Seq(Packets) /\ Len(sent[p]) <= Len(sent'[p]) /\ Len(sent'[p]) = Len(sent[p]) + 1
      /\ sent'[p][next] = packet /\ \A i \in 1 .. Len(sent[p]) : sent'[p][i] = sent[p][i]
      /\ Len(sent[p]) \in Nat /\ Len(sent'[p]) \in Nat
  BY <1>7, <1>8
<1>10. part = Header(sent'[p][next], TRUE) \/ part = Header(sent'[p][next], FALSE)
  <2>1. complete = TRUE \/ complete = FALSE
    OBVIOUS
  <2> QED
    BY <1>4, <1>9, <2>1
<1>11. p \in sending' <=> part.size > 0 \/ ~part.whole
  BY <1>1, <1>3, <1>5, <1>6
<1>12. PICK number, awaits : Positions(p, number, awaits)
  BY DEF PInv, OnTheWay
<1>13. HeaderArrived(p)
  BY <1>1, <1>12 DEF Positions, ExpectsMore
<1>14. \E numbers, waits : Positions(p, numbers, waits)'
  <2>1. handled'[p] = handled[p] /\ alive'[p] = "alive" /\ (Reading(p)' <=> Reading(p))
    BY <1>1, <1>2
  <2> QED
    BY <1>1, <1>7, <1>8, <1>9, <1>10, <1>11, <1>12, <1>13, <2>1, GetsPart
<1>15. HandledOK(p)'
  <2>1. ASSUME NEW i \in DOMAIN handled[p] PROVE HandledOne(p, handled[p][i], i)'
    <3>1. i <= Len(sent[p]) /\ handled[p][i].whole /\ Its(p, handled[p][i], i)
      BY <1>1, HandledWhole
    <3>2. handled[p] \in Seq(Handled)
      BY <1>1 DEF StreamsOK
    <3>3. i \in 1 .. Len(sent[p])
      BY <1>9, <3>1, <3>2
    <3>4. sent'[p][i] = sent[p][i] /\ i <= Len(sent'[p])
      BY <1>9, <3>3
    <3> QED
      BY <1>1, <3>1, <3>4 DEF HandledOne, ItsOrGarbled, Its
  <2> QED
    BY <1>1, <2>1 DEF HandledOK
<1>16. StreamsOK'
  <2>1. sending' \subseteq Peers
    BY <1>1, <1>3 DEF StreamsOK
  <2>2. stream' = [stream EXCEPT ![p] = Append(stream[p], part)] /\ Append(stream[p], part) \in Seq(Parts)
    BY <1>3, <1>4, <1>6, <1>7
  <2>3. stream' \in [Peers -> Seq(Parts)]
    BY <1>1, <2>2 DEF StreamsOK
  <2>4. sent' \in [Peers -> Seq(Packets)]
    BY <1>1, <1>3, <1>7, <1>9 DEF StreamsOK
  <2> QED
    BY <1>1, <2>1, <2>3, <2>4 DEF StreamsOK
<1>17. OnTheWay(p)'
  BY <1>2, <1>14, <1>15 DEF OnTheWay, HeaderTaken
<1>18. \A q \in Peers \ {p} : Untouched(q)
  BY <1>1, <1>3 DEF StreamsOK, Untouched
<1>19. Interrupted => Interrupted'
  BY <1>1 DEF Interrupted
<1> QED
  BY <1>1, <1>16, <1>17, <1>18, <1>19, OthersOnTheWay

\* the body of it arrives, or a part before its peer ends,
LEMMA BodyArrives ==
  ASSUME PInv, NEW p \in Peers, alive[p] = "alive", p \in sending, HeaderArrived(p), sending' = sending \ {p},
         UNCHANGED <<pc, ProcessRunning, sent, handled, garbled>>,
         alive' \in [Peers -> {"alive", "fin", "reset"}], \A q \in Peers \ {p} : alive'[q] = alive[q],
         NEW whole \in BOOLEAN, whole \/ alive'[p] # "alive", stream' = [stream EXCEPT ![p] = Append(@, Body(whole))]
  PROVE  PInv'
<1>1. StreamsOK /\ HandledOK(p) /\ HeaderTaken(p)
  BY DEF PInv, OnTheWay
<1>2. PICK part : part = Body(whole)
  OBVIOUS
<1>3. part \in Parts /\ (part = Body(TRUE) \/ (part = Body(FALSE) /\ alive'[p] # "alive"))
  BY <1>2 DEF Body, Parts
<1>4. /\ stream'[p] = Append(stream[p], part) /\ stream' = [stream EXCEPT ![p] = Append(stream[p], part)]
      /\ stream[p] \in Seq(Parts) /\ sent[p] \in Seq(Packets) /\ sent'[p] = sent[p]
  BY <1>1, <1>2 DEF StreamsOK
<1>5. Len(sent[p]) \in Nat
  BY <1>4
<1>6. PICK number, awaits : Positions(p, number, awaits)
  BY DEF PInv, OnTheWay
<1>7. (Reading(p)' <=> Reading(p)) /\ (Interrupted => Interrupted')
  BY DEF Reading, Interrupted
<1>8. PICK next : next = Len(sent[p]) + 1
  OBVIOUS
<1>9. /\ p \notin sending' /\ handled'[p] = handled[p]
      /\ Len(sent'[p]) = Len(sent[p]) /\ Len(sent[p]) <= Len(sent'[p])
  BY <1>4, <1>5
<1>10. \E numbers, waits : Positions(p, numbers, waits)'
  BY <1>1, <1>3, <1>4, <1>6, <1>7, <1>8, <1>9, GetsPart
<1>11. HandledOK(p)' /\ HeaderTaken(p)'
  <2>1. \A header, i : ItsOrGarbled(p, header, i) => ItsOrGarbled(p, header, i)'
    BY <1>4, <1>7, <1>9, HandledStays
  <2>2. HandledOK(p)'
    BY <1>1, <1>4, <1>7, <1>9, HandledStays
  <2> QED
    BY <1>1, <1>7, <2>1, <2>2 DEF HeaderTaken
<1>12. stream' \in [Peers -> Seq(Parts)]
  <2>1. Append(stream[p], part) \in Seq(Parts)
    BY <1>3, <1>4
  <2> QED
    BY <1>1, <1>4, <2>1 DEF StreamsOK
<1>13. StreamsOK' /\ OnTheWay(p)'
  BY <1>1, <1>10, <1>11, <1>12 DEF StreamsOK, OnTheWay
<1>14. \A q \in Peers \ {p} : Untouched(q)
  BY <1>1, <1>4 DEF StreamsOK, Untouched
<1> QED
  BY <1>7, <1>13, <1>14, OthersOnTheWay

\* before that the rest of its header,
LEMMA HeaderArrives ==
  ASSUME PInv, NEW p \in Peers, alive[p] = "alive", Arrive_Header(p),
         UNCHANGED <<pc, ProcessRunning, sent, handled, alive, garbled>>
  PROVE  PInv'
<1>1. StreamsOK /\ HandledOK(p) /\ HeaderTaken(p)
  BY DEF PInv, OnTheWay
<1>2. PICK last : last = Len(stream[p])
  OBVIOUS
<1>3. /\ ~HeaderArrived(p) /\ stream' = [stream EXCEPT ![p][last].whole = TRUE]
      /\ sending' = (IF stream[p][last].size = 0 THEN sending \ {p} ELSE sending)
  BY <1>2 DEF Arrive_Header
<1>4. PICK number, awaits : Positions(p, number, awaits)
  BY DEF PInv, OnTheWay
<1>5. (Reading(p)' <=> Reading(p)) /\ (Interrupted => Interrupted')
  BY DEF Reading, Interrupted
<1>6. Positions(p, number, awaits)' /\ stream'[p] \in Seq(Parts)
  BY <1>1, <1>2, <1>3, <1>4, <1>5, GetsHeader
<1>7. HandledOK(p)' /\ HeaderTaken(p)'
  BY <1>1, <1>5, HandledStays DEF HeaderTaken
<1>8. stream' \in [Peers -> Seq(Parts)]
  BY <1>1, <1>3, <1>6 DEF StreamsOK
<1>9. StreamsOK' /\ OnTheWay(p)'
  BY <1>1, <1>3, <1>6, <1>7, <1>8 DEF StreamsOK, OnTheWay
<1>10. \A q \in Peers \ {p} : Untouched(q)
  BY <1>1, <1>3 DEF StreamsOK, Untouched
<1> QED
  BY <1>5, <1>9, <1>10, OthersOnTheWay

\* and it ends.
LEMMA PeerEndsKeeps == ASSUME PInv, NEW p \in Peers, PeerEnds(p) PROVE PInv'
<1>1. /\ alive[p] = "alive" /\ sending' = sending \ {p}
      /\ UNCHANGED <<pc, ProcessRunning, sent, handled, garbled>> /\ StreamsOK /\ HandledOK(p) /\ HeaderTaken(p)
  BY DEF PeerEnds, Connected, loopVars, procVars, PInv, OnTheWay
<1>2. PICK how \in {"fin", "reset"} : alive' = [alive EXCEPT ![p] = how]
  BY DEF PeerEnds
<1>3. alive' \in [Peers -> {"alive", "fin", "reset"}] /\ alive'[p] # "alive" /\ \A q \in Peers \ {p} : alive'[q] = alive[q]
  BY <1>1, <1>2 DEF StreamsOK
<1>4. CASE p \in sending /\ HeaderArrived(p) /\ stream' = [stream EXCEPT ![p] = Append(@, Body(FALSE))]
  BY <1>1, <1>3, <1>4, BodyArrives
<1>5. CASE UNCHANGED stream
  <2>1. PICK number, awaits : Positions(p, number, awaits)
    BY DEF PInv, OnTheWay
  <2>2. (Reading(p)' <=> Reading(p)) /\ (Interrupted => Interrupted')
    BY <1>1 DEF Reading, Interrupted
  <2>3. \A j : HeaderAt(p, number, awaits, j) => HeaderAt(p, number, awaits, j)'
    BY <1>1, <1>5 DEF HeaderAt
  <2>4. \A j : BodyAt(p, number, awaits, j) => BodyAt(p, number, awaits, j)'
    BY <1>1, <1>3, <1>5 DEF BodyAt
  <2>5. Positions(p, number, awaits)'
    BY <1>1, <1>3, <1>5, <2>1, <2>2, <2>3, <2>4 DEF Positions
  <2>6. HandledOK(p)' /\ HeaderTaken(p)'
    BY <1>1, <1>3, <2>2, HandledStays DEF HeaderTaken
  <2>7. OnTheWay(p)' /\ StreamsOK'
    BY <1>1, <1>3, <1>5, <2>5, <2>6 DEF OnTheWay, StreamsOK
  <2>8. \A q \in Peers \ {p} : Untouched(q)
    BY <1>1, <1>3, <1>5 DEF Untouched
  <2> QED
    BY <1>1, <2>2, <2>7, <2>8, OthersOnTheWay
<1> QED
  BY <1>4, <1>5 DEF PeerEnds

\* Every step keeps what is on the way in order.
LEMMA NextPInv == TInv /\ PInv /\ [Next]_vars => PInv'
<1> SUFFICES ASSUME TInv, PInv, [Next]_vars PROVE PInv'
  OBVIOUS
<1>0. Interrupted => Interrupted'
  BY InterruptionLasts
<1>1. ASSUME EventDispatcher_Dispatch \/ EventDispatcher_Loop \/ Callback_End \/ FileWatcher_readCb PROVE PInv'
  <2>1. UNCHANGED <<stream, sent, handled, alive, sending, garbled>> /\ pc.at # "recv"
    BY <1>1 DEF EventDispatcher_Dispatch, EventDispatcher_Loop, Callback_End, FileWatcher_readCb, Event,
       peerVars
  <2>2. pc'.at # "recv"
    BY <1>1, AtOK DEF EventDispatcher_Dispatch, EventDispatcher_Loop, Callback_End, FileWatcher_readCb
  <2> QED
    BY <1>0, <2>1, <2>2, SameStreams
<1>2. ASSUME NEW p \in Peers, Dispatch_HangUp(p) PROVE PInv'
  BY <1>0, <1>2, CloseStreams DEF Dispatch_HangUp
<1>3. ASSUME NEW p \in Peers, Socket_RecvPacket(p) PROVE PInv'
  <2>1. UNCHANGED <<stream, sent, handled, alive, sending, garbled>> /\ pc.at = "dispatch"
    BY <1>3 DEF Socket_RecvPacket, Event, peerVars
  <2>2. pc'.at = "header"
    BY <1>3 DEF Socket_RecvPacket, At
  <2> QED
    BY <1>0, <2>1, <2>2, SameStreams
<1>4. ASSUME Receiving PROVE PInv'
  BY <1>0, <1>4, ReceiveKeeps
<1>5. ASSUME NEW t \in Timers, Timer_readCb(t) PROVE PInv'
  <2>1. UNCHANGED <<stream, sent, handled, alive, sending, garbled>> /\ pc.at = "dispatch"
    BY <1>5 DEF Timer_readCb, Event, peerVars
  <2>2. pc' = pc \/ pc'.at = "fire"
    BY <1>5 DEF Timer_readCb, At
  <2> QED
    BY <1>0, <2>1, <2>2, SameStreams
<1>6. ASSUME Callback_Inline \/ Gossip_Do \/ Threads_CreateDetached PROVE PInv'
  <2>1. UNCHANGED <<stream, sent, handled, alive, sending, garbled>> /\ pc.at \in {"fire", "spawn"}
    BY <1>6 DEF Callback_Inline, Gossip_Do, Threads_CreateDetached, FiresAgain, peerVars
  <2>2. pc'.at \in {"fire", "spawn"}
    <3>1. CASE Callback_Inline
      BY <2>1, <3>1 DEF Callback_Inline, TInv, PcOK
    <3>2. CASE Gossip_Do
      BY <3>2 DEF Gossip_Do, TInv, PcOK
    <3>3. CASE Threads_CreateDetached
      BY <3>3 DEF Threads_CreateDetached, TInv, PcOK
    <3> QED
      BY <1>6, <3>1, <3>2, <3>3
  <2> QED
    BY <1>0, <2>1, <2>2, SameStreams
<1>7. ASSUME _reLoadConfig PROVE PInv'
  <2>1. UNCHANGED <<stream, sent, handled, alive, sending, garbled>> /\ pc.at = "reload"
    BY <1>7 DEF _reLoadConfig, peerVars
  <2>2. pc'.at \in {"reload", "dispatch"}
    <3>1. CASE pc' = At("dispatch")
      BY <3>1, AtOK
    <3>2. CASE pc' = [pc EXCEPT !.todo = TimerOrder]
      BY <2>1, <3>2 DEF TInv, PcOK
    <3> QED
      BY <1>7, <3>1, <3>2 DEF _reLoadConfig
  <2> QED
    BY <1>0, <2>1, <2>2, SameStreams
<1>8. ASSUME ReSetTimer PROVE PInv'
  <2>1. UNCHANGED <<stream, sent, handled, alive, sending, garbled>> /\ pc.at = "reload"
    BY <1>8 DEF ReSetTimer, peerVars
  <2>2. pc'.at \in {"reload", "set"}
    <3>1. CASE pc' = [pc EXCEPT !.todo = Tail(@)]
      BY <2>1, <3>1 DEF TInv, PcOK
    <3>2. CASE \E new \in Intervals : pc' = [pc EXCEPT !.at = "set", !.new = new]
      BY <3>2 DEF TInv, PcOK
    <3> QED
      BY <1>8, <3>1, <3>2 DEF ReSetTimer
  <2> QED
    BY <1>0, <2>1, <2>2, SameStreams
<1>9. ASSUME ReSetTimer_Enable PROVE PInv'
  <2>1. UNCHANGED <<stream, sent, handled, alive, sending, garbled>> /\ pc.at = "set"
        /\ pc' = [pc EXCEPT !.at = "reload", !.todo = Tail(@), !.new = 0]
    BY <1>9 DEF ReSetTimer_Enable, peerVars
  <2>2. pc'.at = "reload"
    BY <2>1 DEF TInv, PcOK
  <2> QED
    BY <1>0, <2>1, <2>2, SameStreams
<1>10. ASSUME _acceptCb PROVE PInv'
  BY <1>0, <1>10, SameStreams DEF _acceptCb
<1>11. ASSUME NEW p \in Peers, Arrive(p) PROVE PInv'
  <2>1. /\ alive[p] = "alive" /\ p \in sending /\ UNCHANGED <<pc, ProcessRunning, sent, handled, alive, garbled>>
        /\ Arrive_Header(p) \/ Arrive_Body(p)
    BY <1>11 DEF Arrive, Connected, loopVars, procVars
  <2>2. CASE Arrive_Body(p)
    <3>1. alive' \in [Peers -> {"alive", "fin", "reset"}] /\ \A q \in Peers \ {p} : alive'[q] = alive[q]
      BY <2>1 DEF PInv, StreamsOK
    <3> QED
      BY <2>1, <2>2, <3>1, BodyArrives DEF Arrive_Body
  <2> QED
    BY <2>1, <2>2, HeaderArrives
<1>12. ASSUME Stop PROVE PInv'
  <2>1. UNCHANGED <<stream, sent, handled, alive, sending, garbled>>
    BY <1>12 DEF Stop, peerVars
  <2>2. pc' = pc \/ (pc.at = "wait" /\ pc'.at = "dispatch")
    BY <1>12, AtOK DEF Stop, Waits
  <2> QED
    BY <1>0, <2>1, <2>2, SameStreams
<1>13. ASSUME NEW th \in Threads, SetEnabled(th) PROVE PInv'
  BY <1>0, <1>13, SameStreams DEF SetEnabled, SetEnabled_Check, SetEnabled_Settime, SetEnabled_Store, loopVars,
     peerVars
<1>14. ASSUME ChangeConfig \/ UNCHANGED vars \/ (\E t \in Timers : Expire(t)) \/ (\E w \in Workers : WorkerEnds(w)) PROVE PInv'
  BY <1>0, <1>14, SameStreams DEF ChangeConfig, Expire, WorkerEnds, vars, loopVars, peerVars
<1> QED
  BY <1>1, <1>2, <1>3, <1>4, <1>5, <1>6, <1>7, <1>8, <1>9, <1>10, <1>11, <1>12, <1>13, <1>14, ConnectKeeps,
     SendKeeps, PeerEndsKeeps, Names DEF Next, DispatcherStep, WorkerStep, Outside, Receiving

\* Nothing is on its way at the start.
LEMMA InitStreams == Init => PInv
<1> SUFFICES ASSUME Init PROVE PInv
  OBVIOUS
<1>1. /\ sent = [p \in Peers |-> <<>>] /\ stream = [p \in Peers |-> <<>>] /\ handled = [p \in Peers |-> <<>>]
      /\ alive = [p \in Peers |-> "alive"] /\ sending = {} /\ pc.at = "wait"
  BY DEF Init, At
<1>2. StreamsOK
  BY <1>1 DEF StreamsOK
<1>3. ASSUME NEW p \in Peers PROVE OnTheWay(p)
  <2> DEFINE number == [j \in 0 .. 0 |-> 0]
  <2>1. number \in [0 .. 0 -> 0 .. 0] /\ number[0] = 0 /\ 0 \notin {}
    OBVIOUS
  <2> HIDE DEF number
  <2>2. /\ stream[p] = <<>> /\ sent[p] = <<>> /\ handled[p] = <<>>
        /\ alive[p] = "alive" /\ p \notin sending /\ ~Reading(p)
    BY <1>1 DEF Reading
  <2>3. \E numbers, waits : Positions(p, numbers, waits)
    <3>1. ~ExpectsMore(p, {}) /\ Len(stream[p]) = 0 /\ 1 .. 0 = {}
      BY <2>2 DEF ExpectsMore, HeaderArrived
    <3>2. Positions(p, number, {})
      BY <2>1, <2>2, <3>1 DEF Positions
    <3> QED
      BY <3>2
  <2> QED
    BY <2>2, <2>3 DEF OnTheWay, HandledOK, HeaderTaken
<1> QED
  BY <1>2, <1>3 DEF PInv

\* Handlers get the packets of each peer in order, whole and with their own contents, although headers and
\* bodies arrive in parts: all but the last, when its peer ended within it or SIGINT came within it
\* (Socket_RecvPacket).
THEOREM EventLoopPacketsArriveWhole == Spec => []PacketsArriveWhole
<1>1. Init => TInv /\ PInv
  BY InitTypes, InitStreams
<1>2. TInv /\ PInv /\ [Next]_vars => (TInv /\ PInv)'
  BY NextTInv, NextPInv
<1>3. PInv => PacketsArriveWhole
  <2> SUFFICES ASSUME PInv, NEW p \in Peers, NEW i \in DOMAIN handled[p]
               PROVE  LET itsHeader == /\ handled[p][i].opcode = sent[p][i].opcode
                                       /\ handled[p][i].size = sent[p][i].size % Width
                          last      == i = Len(sent[p]) /\ (alive[p] # "alive" \/ ~ProcessRunning)
                      IN /\ i <= Len(sent[p])
                         /\ handled[p][i].whole \/ last
                         /\ itsHeader \/ (last /\ p \in garbled)
    BY DEF PacketsArriveWhole
  <2>1. HandledOne(p, handled[p][i], i)
    BY DEF PInv, OnTheWay, HandledOK
  <2>2. CutShort(p, i) => i = Len(sent[p]) /\ (alive[p] # "alive" \/ ~ProcessRunning)
    BY DEF CutShort, Interrupted
  <2> QED
    BY <2>1, <2>2 DEF HandledOne, ItsOrGarbled, Its
<1> QED
  BY <1>1, <1>2, <1>3, PTL DEF Spec
================================================================================
