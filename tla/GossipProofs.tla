----------------------------- MODULE GossipProofs -----------------------------
(***************************************************************************)
(* Proofs about Gossip, for any memories, seeds and number of stops.       *)
(*                                                                         *)
(* Addresses travel: from a table into a handshake, into the table of the  *)
(* memory that is visited, into the list of its answer and from there into *)
(* the table of the visitor.  The inductive invariant says of each of      *)
(* these that it holds memories that ran only, and that the answer to an   *)
(* open handshake finds the worker that waits for it.                      *)
(***************************************************************************)
EXTENDS Gossip, TLAPS

\* Who sends and who receives a handshake ran, and its answer is waited for: a memory
\* has one visit under way, and the one it visits has not stopped.
HandshakesAreAwaited ==
  /\ \A h \in handshakes : h.from \in ran /\ h.to \in up
  /\ \A h \in handshakes : h.open =>
       worker[h.from].at = "asked" /\ worker[h.from].peer = h.to
  /\ \A h, g \in handshakes : h.open /\ g.open /\ h.from = g.from => h = g

\* A worker belongs to a memory that runs, and the list it got holds memories that ran.
ListsInTransit ==
  \A m \in Memories : worker[m] # NoWorker => m \in up /\ worker[m].list \subseteq ran

IInv == TypeOK /\ OnlyMemoriesThatRanAreShared /\ HandshakesAreAwaited /\ ListsInTransit

-----------------------------------------------------------------------------
\* No memory runs yet.
LEMMA InitIInv == Init => IInv
<1> SUFFICES ASSUME Init PROVE IInv
  OBVIOUS
<1>1. TypeOK
  BY GossipAssumption DEF Init, TypeOK
<1>2. OnlyMemoriesThatRanAreShared /\ HandshakesAreAwaited /\ ListsInTransit
  BY DEF Init, OnlyMemoriesThatRanAreShared, HandshakesAreAwaited, ListsInTransit
<1> QED
  BY <1>1, <1>2 DEF IInv

\* A memory starts without a worker and shares nothing.
LEMMA StartPreserves ==
  ASSUME IInv, NEW m \in Memories, Gossip_Init(m)
  PROVE  IInv'
<1>1. TypeOK'
  BY DEF IInv, TypeOK, Gossip_Init
<1>2. OnlyMemoriesThatRanAreShared' /\ HandshakesAreAwaited' /\ ListsInTransit'
  BY DEF IInv, OnlyMemoriesThatRanAreShared, HandshakesAreAwaited, ListsInTransit, Gossip_Init
<1> QED
  BY <1>1, <1>2 DEF IInv

\* What had been sent to it is gone, and what it had sent is not answered any more.
LEMMA StopPreserves ==
  ASSUME IInv, NEW m \in Memories, Stop(m)
  PROVE  IInv'
<1>1. ASSUME NEW h \in handshakes'
      PROVE  \E g \in handshakes :
               /\ g.to # m /\ h = [g EXCEPT !.open = g.open /\ g.from # m]
               /\ h.from = g.from /\ h.to = g.to /\ h.items = g.items
               /\ h.open <=> g.open /\ g.from # m
               /\ h \in Handshake
  <2>1. PICK g \in handshakes : g.to # m /\ h = [g EXCEPT !.open = @ /\ g.from # m]
    BY <1>1 DEF Stop
  <2>2. g \in Handshake
    BY DEF IInv, TypeOK
  <2> QED
    BY <2>1, <2>2 DEF Handshake
<1>2. ASSUME NEW n \in Memories
      PROVE  /\ worker'[n] \in Round \cup {NoWorker}
             /\ worker'[n] = NoWorker <=> (n = m \/ worker[n] = NoWorker)
             /\ worker'[n] # NoWorker => worker'[n].list = worker[n].list
             /\ (n # m /\ ~(worker[n].at = "asked" /\ worker[n].peer = m)) => worker'[n] = worker[n]
  <2>1. worker[n] \in Round \cup {NoWorker} /\ NoWorker \notin Round
    BY DEF IInv, TypeOK, Round, NoWorker
  <2>2. CASE n = m
    BY <2>2 DEF Stop
  <2>3. CASE n # m /\ worker[n].at = "asked" /\ worker[n].peer = m
    <3>1. worker'[n] = [worker[n] EXCEPT !.at = "broken"]
      BY <2>3 DEF Stop
    <3>2. worker[n] \in Round
      BY <2>1, <2>3 DEF NoWorker
    <3>3. worker'[n] \in Round /\ worker'[n].list = worker[n].list
      BY <3>1, <3>2 DEF Round
    <3> QED
      BY <2>1, <2>3, <3>2, <3>3
  <2>4. CASE n # m /\ ~(worker[n].at = "asked" /\ worker[n].peer = m)
    BY <2>1, <2>4 DEF Stop
  <2> QED
    BY <2>2, <2>3, <2>4
<1>3. TypeOK'
  <2>1. worker' \in [Memories -> Round \cup {NoWorker}]
    BY <1>2 DEF Stop
  <2>2. handshakes' \subseteq Handshake
    BY <1>1
  <2>3. table' \in [Memories -> SUBSET Memories]
        /\ peers' \in [Memories -> [Memories -> {"none", "seed", "known"}]]
    BY DEF IInv, TypeOK, Stop
  <2>4. stops' \in 0 .. MaxStops
    BY GossipAssumption DEF IInv, TypeOK, Stop
  <2> QED
    BY <2>1, <2>2, <2>3, <2>4 DEF IInv, TypeOK, Stop
<1>4. OnlyMemoriesThatRanAreShared'
  <2>1. \A n \in Memories : table'[n] = {} \/ table'[n] = table[n]
    BY DEF IInv, TypeOK, Stop
  <2>2. \A h \in handshakes' : \E g \in handshakes : h.items = g.items
    BY <1>1
  <2> QED
    BY <2>1, <2>2 DEF IInv, OnlyMemoriesThatRanAreShared, Stop
<1>5. HandshakesAreAwaited'
  <2>1. \A h \in handshakes' : h.from \in ran' /\ h.to \in up'
    BY <1>1 DEF IInv, HandshakesAreAwaited, Stop
  <2>2. ASSUME NEW h \in handshakes', h.open
        PROVE  worker'[h.from].at = "asked" /\ worker'[h.from].peer = h.to
    <3>1. PICK g \in handshakes : g.to # m /\ h.from = g.from /\ h.to = g.to /\ g.open /\ g.from # m
      BY <1>1, <2>2
    <3>2. g.from \in Memories
      BY DEF IInv, TypeOK, Handshake
    <3> QED
      BY <1>2, <3>1, <3>2 DEF IInv, HandshakesAreAwaited
  <2>3. ASSUME NEW h \in handshakes', NEW i \in handshakes', h.open, i.open, h.from = i.from
        PROVE  h = i
    <3>1. PICK g \in handshakes : h = [g EXCEPT !.open = g.open /\ g.from # m] /\ h.from = g.from
                                  /\ g.open
      BY <1>1, <2>3
    <3>2. PICK j \in handshakes : i = [j EXCEPT !.open = j.open /\ j.from # m] /\ i.from = j.from
                                  /\ j.open
      BY <1>1, <2>3
    <3>3. g = j
      BY <2>3, <3>1, <3>2 DEF IInv, HandshakesAreAwaited
    <3> QED
      BY <3>1, <3>2, <3>3
  <2> QED
    BY <2>1, <2>2, <2>3 DEF HandshakesAreAwaited
<1>6. ListsInTransit'
  BY <1>2 DEF IInv, ListsInTransit, Stop
<1> QED
  BY <1>3, <1>4, <1>5, <1>6 DEF IInv

\* A worker's step that leaves the handshakes, what may be shared and who runs as they
\* are, and gives m a worker that waits for no answer or none.
LEMMA WorkerPreserves ==
  ASSUME IInv, NEW m \in up, NEW w \in Round \cup {NoWorker},
         worker[m].at # "asked",
         worker' = [worker EXCEPT ![m] = w],
         w # NoWorker => w.list \subseteq ran,
         table' \in [Memories -> SUBSET ran],
         peers' \in [Memories -> [Memories -> {"none", "seed", "known"}]],
         UNCHANGED <<up, handshakes, ran, stops>>
  PROVE  IInv'
<1>1. m \in Memories /\ worker' \in [Memories -> Round \cup {NoWorker}] /\ worker'[m] = w
      /\ \A n \in Memories : n # m => worker'[n] = worker[n]
  BY DEF IInv, TypeOK
<1>2. TypeOK'
  BY <1>1 DEF IInv, TypeOK
<1>3. OnlyMemoriesThatRanAreShared'
  BY DEF IInv, OnlyMemoriesThatRanAreShared
<1>4. HandshakesAreAwaited'
  <2>1. \A h \in handshakes : h.from \in Memories /\ (h.open => h.from # m)
    BY DEF IInv, TypeOK, Handshake, HandshakesAreAwaited
  <2> QED
    BY <1>1, <2>1 DEF IInv, HandshakesAreAwaited
<1>5. ListsInTransit'
  BY <1>1 DEF IInv, ListsInTransit
<1> QED
  BY <1>2, <1>3, <1>4, <1>5 DEF IInv

\* What _removeAndBlock leaves of the table and makes of the worker w.
LEMMA RemoveAndBlockHasEffect ==
  ASSUME IInv, NEW m \in Memories, NEW p, NEW w \in Round, _removeAndBlock(m, p, w)
  PROVE  /\ table' \in [Memories -> SUBSET ran]
         /\ \E v \in Round : worker' = [worker EXCEPT ![m] = v] /\ v.at = w.at /\ v.list = w.list
<1> DEFINE known == {p} \cap {q \in Memories : peers[m][q] = "known"}
           v     == [w EXCEPT !.blacklist = @ \cup known]
<1>1. v \in Round /\ v.at = w.at /\ v.list = w.list
  BY DEF Round
<1>2. worker' = [worker EXCEPT ![m] = v] /\ table' = [table EXCEPT ![m] = @ \ known]
  BY DEF _removeAndBlock
<1>3. table' \in [Memories -> SUBSET ran]
  BY <1>2 DEF IInv, TypeOK, OnlyMemoriesThatRanAreShared
<1> QED
  BY <1>1, <1>2, <1>3

\* The memories tables hold are those that ran.
LEMMA TablesHoldRan == IInv => table \in [Memories -> SUBSET ran]
BY DEF IInv, TypeOK, OnlyMemoriesThatRanAreShared

\* A round begins with an empty list.
LEMMA GossipDoPreserves ==
  ASSUME IInv, NEW m \in Memories, Gossip_Do(m)
  PROVE  IInv'
<1> DEFINE w == [at |-> "visit", left |-> {p \in Memories : peers'[m][p] # "none"}, peer |-> m,
                 list |-> {}, blacklist |-> {}, newDiscoveries |-> {}]
<1>1. w \in Round /\ w.list = {}
  BY DEF Round
<1>2. peers' \in [Memories -> [Memories -> {"none", "seed", "known"}]]
  BY DEF IInv, TypeOK, Gossip_Do
<1>3. m \in up /\ worker[m].at # "asked" /\ worker' = [worker EXCEPT ![m] = w]
      /\ UNCHANGED <<up, handshakes, ran, stops>> /\ table' = table
  BY DEF Gossip_Do, NoWorker
<1> HIDE DEF w
<1> QED
  BY <1>1, <1>2, <1>3, TablesHoldRan, WorkerPreserves

\* A visit leaves a handshake with what the table holds, or blocks a peer that is gone.
LEMMA VisitPreserves ==
  ASSUME IInv, NEW m \in Memories, NEW p \in Memories, Visit(m, p)
  PROVE  IInv'
<1> DEFINE w == [worker[m] EXCEPT !.left = @ \ {p}]
<1>1. worker[m] \in Round /\ worker[m].at = "visit" /\ m \in up /\ worker[m].list \subseteq ran
  BY DEF IInv, TypeOK, ListsInTransit, Visit, NoWorker
<1>2. w \in Round /\ w.at = "visit" /\ w.list = worker[m].list
  BY <1>1 DEF Round
<1>3. UNCHANGED <<up, peers, ran, stops>>
      /\ peers' \in [Memories -> [Memories -> {"none", "seed", "known"}]]
  BY DEF Visit, IInv, TypeOK
<1>4. CASE worker' = [worker EXCEPT ![m] = w] /\ UNCHANGED <<table, handshakes>>
  <2> HIDE DEF w
  <2> QED
    BY <1>1, <1>2, <1>3, <1>4, TablesHoldRan, WorkerPreserves
<1>5. CASE _removeAndBlock(m, p, w) /\ UNCHANGED handshakes
  <2> HIDE DEF w
  <2>1. PICK v \in Round : worker' = [worker EXCEPT ![m] = v] /\ v.at = w.at /\ v.list = w.list
    BY <1>2, <1>5, RemoveAndBlockHasEffect
  <2>2. table' \in [Memories -> SUBSET ran]
    BY <1>2, <1>5, RemoveAndBlockHasEffect
  <2> QED
    BY <1>1, <1>2, <1>3, <1>5, <2>1, <2>2, WorkerPreserves
<1>6. ASSUME p \in up, UNCHANGED table,
             handshakes' = handshakes \cup
               {[from |-> m, to |-> p, items |-> table[m], open |-> TRUE]},
             worker' = [worker EXCEPT ![m] = [w EXCEPT !.at = "asked", !.peer = p]]
      PROVE  IInv'
  <2> DEFINE h == [from |-> m, to |-> p, items |-> table[m], open |-> TRUE]
             v == [w EXCEPT !.at = "asked", !.peer = p]
  <2>1. h \in Handshake /\ h.from = m /\ h.to = p /\ h.items = table[m] /\ h.open
        /\ handshakes' = handshakes \cup {h}
    BY <1>6 DEF IInv, TypeOK, Handshake
  <2>2. v \in Round /\ v.at = "asked" /\ v.peer = p /\ v.list = worker[m].list /\ v # NoWorker
    BY <1>2 DEF Round, NoWorker
  <2>3. worker' \in [Memories -> Round \cup {NoWorker}] /\ worker'[m] = v
        /\ \A n \in Memories : n # m => worker'[n] = worker[n]
    BY <1>6, <2>2 DEF IInv, TypeOK
  <2> HIDE DEF h, v, w
  <2>4. TypeOK'
    BY <1>3, <1>6, <2>1, <2>3 DEF IInv, TypeOK
  <2>5. OnlyMemoriesThatRanAreShared'
    BY <1>3, <1>6, <2>1 DEF IInv, OnlyMemoriesThatRanAreShared
  <2>6. HandshakesAreAwaited'
    <3>1. \A g \in handshakes : g.from \in Memories /\ (g.open => g.from # m)
      BY <1>1 DEF IInv, TypeOK, Handshake, HandshakesAreAwaited
    <3>2. m \in ran
      BY <1>1 DEF IInv, TypeOK
    <3> QED
      BY <1>3, <1>6, <2>1, <2>2, <2>3, <3>1, <3>2 DEF IInv, HandshakesAreAwaited
  <2>7. ListsInTransit'
    BY <1>1, <1>3, <2>2, <2>3 DEF IInv, ListsInTransit
  <2> QED
    BY <2>4, <2>5, <2>6, <2>7 DEF IInv
<1> QED
  BY <1>4, <1>5, <1>6 DEF Visit

\* The table takes the visitor, what it offered and the visited memory itself, all of
\* which ran; an open handshake's answer goes to the worker that waits for it.
LEMMA HandshakePreserves ==
  ASSUME IInv, NEW h \in handshakes, HandleHandshake(h)
  PROVE  IInv'
<1>1. h \in Handshake /\ h.from \in ran /\ h.to \in ran /\ h.items \subseteq ran /\ ran \subseteq Memories
  BY DEF IInv, TypeOK, HandshakesAreAwaited, OnlyMemoriesThatRanAreShared
<1>2. table' \in [Memories -> SUBSET ran]
  BY <1>1, TablesHoldRan DEF HandleHandshake
<1>3. handshakes' = handshakes \ {h} /\ UNCHANGED <<up, peers, ran, stops>>
  BY DEF HandleHandshake
<1>4. CASE ~h.open
  <2>1. worker' = worker
    BY <1>4 DEF HandleHandshake
  <2>2. TypeOK'
    BY <1>1, <1>2, <1>3, <2>1 DEF IInv, TypeOK
  <2> QED
    BY <1>2, <1>3, <2>1, <2>2
       DEF IInv, TypeOK, OnlyMemoriesThatRanAreShared, HandshakesAreAwaited, ListsInTransit
<1>5. CASE h.open
  <2> DEFINE f == h.from
             v == [worker[f] EXCEPT !.at = "answered", !.list = table'[h.to]]
  <2>1. f \in Memories /\ h.to \in Memories /\ worker[f].at = "asked"
    BY <1>1, <1>5 DEF IInv, HandshakesAreAwaited
  <2>2. worker[f] \in Round /\ f \in up
    BY <2>1 DEF IInv, TypeOK, ListsInTransit, NoWorker
  <2>3. v \in Round /\ v.list \subseteq ran
    BY <1>1, <1>2, <2>1, <2>2 DEF Round
  <2>4. worker' = [worker EXCEPT ![f] = v]
    BY <1>5, <2>1 DEF HandleHandshake, IInv, TypeOK
  <2>5. worker' \in [Memories -> Round \cup {NoWorker}] /\ worker'[f] = v
        /\ \A n \in Memories : n # f => worker'[n] = worker[n]
    BY <2>1, <2>3, <2>4 DEF IInv, TypeOK
  <2> HIDE DEF v
  <2>6. TypeOK'
    BY <1>1, <1>2, <1>3, <2>5 DEF IInv, TypeOK
  <2>7. OnlyMemoriesThatRanAreShared'
    BY <1>2, <1>3 DEF IInv, OnlyMemoriesThatRanAreShared
  <2>8. HandshakesAreAwaited'
    <3>1. \A g \in handshakes' : g \in handshakes /\ g.from \in Memories /\ (g.open => g.from # f)
      BY <1>3, <1>5 DEF IInv, TypeOK, Handshake, HandshakesAreAwaited
    <3> QED
      BY <1>3, <2>5, <3>1 DEF IInv, HandshakesAreAwaited
  <2>9. ListsInTransit'
    BY <1>3, <2>2, <2>3, <2>5 DEF IInv, ListsInTransit
  <2> QED
    BY <2>6, <2>7, <2>8, <2>9 DEF IInv
<1> QED
  BY <1>4, <1>5

\* The kernel adds only the memory it speaks to.
LEMMA KernelHandshakePreserves ==
  ASSUME IInv, NEW p \in Memories, KernelHandshake(p)
  PROVE  IInv'
<1>1. table' \in [Memories -> SUBSET ran] /\ UNCHANGED <<up, peers, worker, handshakes, ran, stops>>
  BY TablesHoldRan DEF KernelHandshake, IInv, TypeOK
<1>2. TypeOK'
  BY <1>1 DEF IInv, TypeOK
<1> QED
  BY <1>1, <1>2 DEF IInv, OnlyMemoriesThatRanAreShared, HandshakesAreAwaited, ListsInTransit

\* The worker goes on with its visits without the peer it lost.
LEMMA DisconnectedPreserves ==
  ASSUME IInv, NEW m \in Memories, Disconnected(m)
  PROVE  IInv'
<1> DEFINE w == [worker[m] EXCEPT !.at = "visit", !.peer = m]
<1>1. worker[m] \in Round /\ worker[m].at = "broken" /\ m \in up /\ worker[m].list \subseteq ran
  BY DEF IInv, TypeOK, ListsInTransit, Disconnected, NoWorker
<1>2. w \in Round /\ w.at = "visit" /\ w.list = worker[m].list
  BY <1>1 DEF Round
<1>3. _removeAndBlock(m, worker[m].peer, w) /\ UNCHANGED <<up, peers, handshakes, ran, stops>>
  BY DEF Disconnected
<1>4. peers' \in [Memories -> [Memories -> {"none", "seed", "known"}]]
  BY <1>3 DEF IInv, TypeOK
<1> HIDE DEF w
<1>5. PICK v \in Round : worker' = [worker EXCEPT ![m] = v] /\ v.at = w.at /\ v.list = w.list
  BY <1>2, <1>3, RemoveAndBlockHasEffect
<1>6. table' \in [Memories -> SUBSET ran]
  BY <1>2, <1>3, RemoveAndBlockHasEffect
<1> QED
  BY <1>1, <1>2, <1>3, <1>4, <1>5, <1>6, WorkerPreserves

\* The list of an answer goes into the table.
LEMMA MergePreserves ==
  ASSUME IInv, NEW m \in Memories, Merge(m)
  PROVE  IInv'
<1> DEFINE w == [worker[m] EXCEPT !.at = "visit", !.peer = m, !.list = {},
                                  !.newDiscoveries = @ \cup worker[m].list]
<1>1. worker[m] \in Round /\ worker[m].at = "answered" /\ m \in up /\ worker[m].list \subseteq ran
  BY DEF IInv, TypeOK, ListsInTransit, Merge, NoWorker
<1>2. w \in Round /\ w.list = {}
  BY <1>1 DEF Round
<1>3. table' \in [Memories -> SUBSET ran]
  BY <1>1, TablesHoldRan DEF Merge
<1>4. worker' = [worker EXCEPT ![m] = w] /\ UNCHANGED <<up, peers, handshakes, ran, stops>>
  BY DEF Merge
<1>5. peers' \in [Memories -> [Memories -> {"none", "seed", "known"}]]
  BY <1>4 DEF IInv, TypeOK
<1> HIDE DEF w
<1> QED
  BY <1>1, <1>2, <1>3, <1>4, <1>5, WorkerPreserves

\* The worker is gone; what it discovered are peers, and not yet shared.
LEMMA EndRoundPreserves ==
  ASSUME IInv, NEW m \in Memories, EndRound(m)
  PROVE  IInv'
<1>1. worker[m].at = "visit" /\ m \in up
  BY DEF IInv, ListsInTransit, EndRound, NoWorker
<1>2. worker' = [worker EXCEPT ![m] = NoWorker] /\ UNCHANGED <<up, table, handshakes, ran, stops>>
  BY DEF EndRound
<1>3. peers' \in [Memories -> [Memories -> {"none", "seed", "known"}]]
  BY DEF IInv, TypeOK, EndRound
<1> QED
  BY <1>1, <1>2, <1>3, TablesHoldRan, WorkerPreserves

LEMMA NextPreserves == IInv /\ [Next]_vars => IInv'
<1> SUFFICES ASSUME IInv, [Next]_vars PROVE IInv'
  OBVIOUS
<1>1. ASSUME NEW m \in Memories, Gossip_Init(m) PROVE IInv'
  BY <1>1, StartPreserves
<1>2. ASSUME NEW m \in Memories, Stop(m) PROVE IInv'
  BY <1>2, StopPreserves
<1>3. ASSUME NEW m \in Memories, Worker(m) PROVE IInv'
  BY <1>3, GossipDoPreserves, VisitPreserves, DisconnectedPreserves, MergePreserves,
     EndRoundPreserves DEF Worker
<1>4. ASSUME NEW m \in Memories, KernelHandshake(m) PROVE IInv'
  BY <1>4, KernelHandshakePreserves
<1>5. ASSUME NEW m \in Memories, NEW p \in Memories, Answer(m, p) PROVE IInv'
  BY <1>5, HandshakePreserves DEF Answer
<1>6. CASE UNCHANGED vars
  BY <1>6 DEF vars, IInv, TypeOK, OnlyMemoriesThatRanAreShared, HandshakesAreAwaited, ListsInTransit
<1> QED
  BY <1>1, <1>2, <1>3, <1>4, <1>5, <1>6 DEF Next

-----------------------------------------------------------------------------
THEOREM GossipInvariant == Spec => []IInv
BY InitIInv, NextPreserves, PTL DEF Spec

\* Tables, peers, workers and handshakes are well formed, whatever memories start and
\* stop while rounds and answers interleave (Gossip.c).
THEOREM GossipTypeOK == Spec => []TypeOK
<1>1. IInv => TypeOK
  BY DEF IInv
<1> QED
  BY <1>1, GossipInvariant, PTL

\* A seed that never ran is in no table and in no handshake (Gossip.c:263), for any
\* number of memories and any seeds.
THEOREM GossipSharesWhatRan == Spec => []OnlyMemoriesThatRanAreShared
<1>1. IInv => OnlyMemoriesThatRanAreShared
  BY DEF IInv
<1> QED
  BY <1>1, GossipInvariant, PTL
===============================================================================
