-------------------------------- MODULE Gossip --------------------------------
(***************************************************************************)
(* How memories find each other: Gossip.c, and the handshake of            *)
(* Memoria/Handlers.c.  A memory keeps the addresses it will visit         *)
(* (GossipPeers, from its seeds on) and the table it shares with memories  *)
(* and kernel (GossipingTable).  In each round a worker thread visits its  *)
(* peers in turn, offers its table and merges the answer; the dispatcher   *)
(* answers the visits of others meanwhile.                                 *)
(*                                                                         *)
(* A memory has one address and one number, and here a number stands for   *)
(* both; peers are visited in the order of the dictionary, the same in     *)
(* every memory, and here that of the numbers.  The timer starts one       *)
(* worker at a time.                                                       *)
(***************************************************************************)
EXTENDS Naturals, FiniteSets

CONSTANTS Memories,
          Seeds,       \* IP_SEEDS and PUERTO_SEEDS of each memory
          Unstable,    \* memories that may stop
          MaxStops,    \* bound of how often they do, all together
          Restarts     \* whether a memory that stopped starts again

ASSUME GossipAssumption ==
  /\ Memories \subseteq Nat /\ IsFiniteSet(Memories)
  /\ Seeds \in [Memories -> SUBSET Memories]
  /\ Unstable \subseteq Memories /\ MaxStops \in Nat /\ Restarts \in BOOLEAN

VARIABLES up,          \* memories that run
          peers,       \* GossipPeers: the seeds whose number is not known, and the others
          table,       \* GossipingTable
          worker,      \* the worker of each memory
          handshakes,  \* MSG_HANDSHAKEs that were sent and not handled
          ran,         \* memories that ran at some time
          stops
vars == <<up, peers, table, worker, handshakes, ran, stops>>

NoWorker  == [at |-> "none"]
Round     == [at : {"visit", "asked", "answered", "broken"}, left : SUBSET Memories,
              peer : Memories, list : SUBSET Memories,
              blacklist : SUBSET Memories, newDiscoveries : SUBSET Memories]
Handshake == [from : Memories, to : Memories, items : SUBSET Memories, open : BOOLEAN]

\* What the gossip dictionary of a memory and the sockets of its rounds hold while Gossip.c runs in several
\* memories that start and stop.
TypeOK ==
  /\ up \subseteq ran /\ ran \subseteq Memories
  /\ peers \in [Memories -> [Memories -> {"none", "seed", "known"}]]
  /\ table \in [Memories -> SUBSET Memories]
  /\ worker \in [Memories -> Round \cup {NoWorker}]
  /\ handshakes \subseteq Handshake
  /\ stops \in 0 .. MaxStops

Init ==
  /\ up = {} /\ ran = {}
  /\ peers = [m \in Memories |-> [p \in Memories |-> "none"]]
  /\ table = [m \in Memories |-> {}]
  /\ worker = [m \in Memories |-> NoWorker]
  /\ handshakes = {}
  /\ stops = 0

-----------------------------------------------------------------------------
(***************************************************************************)
(* Start and end of a memory.                                              *)
(***************************************************************************)
\* Variant: the seeds are shared from the start.
Gossip_Init_SharesSeeds(m) ==
  /\ m \notin up /\ (m \in ran => Restarts)
  /\ up' = up \cup {m} /\ ran' = ran \cup {m}
  /\ peers' = [peers EXCEPT ![m] = [p \in Memories |-> IF p \in Seeds[m] THEN "seed" ELSE "none"]]
  /\ table' = [table EXCEPT ![m] = Seeds[m]]
  /\ UNCHANGED <<worker, handshakes, stops>>

Gossip_Init(m) ==
  /\ m \notin up /\ (m \in ran => Restarts)
  /\ up' = up \cup {m} /\ ran' = ran \cup {m}
  /\ peers' = [peers EXCEPT ![m] = [p \in Memories |-> IF p \in Seeds[m] THEN "seed" ELSE "none"]]
  /\ UNCHANGED <<table, worker, handshakes, stops>>

\* Connections to it break; what it had sent to others still arrives there.
Stop(m) ==
  /\ m \in up \cap Unstable /\ stops < MaxStops
  /\ stops' = stops + 1
  /\ up' = up \ {m}
  /\ peers' = [peers EXCEPT ![m] = [p \in Memories |-> "none"]]
  /\ table' = [table EXCEPT ![m] = {}]
  /\ worker' = [n \in Memories |->
       IF n = m THEN NoWorker
       ELSE IF worker[n].at = "asked" /\ worker[n].peer = m THEN [worker[n] EXCEPT !.at = "broken"]
       ELSE worker[n]]
  /\ handshakes' = {[h EXCEPT !.open = @ /\ h.from # m] : h \in {g \in handshakes : g.to # m}}
  /\ UNCHANGED ran

-----------------------------------------------------------------------------
(***************************************************************************)
(* A round of gossip.                                                      *)
(***************************************************************************)
\* Gossip_Do, when the timer fires, and the worker's start: what others told this
\* memory becomes a peer.
Gossip_Do(m) ==
  /\ m \in up /\ worker[m] = NoWorker
  /\ peers' = [peers EXCEPT ![m] =
       [p \in Memories |-> IF p \in table[m] /\ @[p] = "none" THEN "known" ELSE @[p]]]
  /\ worker' = [worker EXCEPT ![m] =
       [at |-> "visit", left |-> {p \in Memories : peers'[m][p] # "none"}, peer |-> m, list |-> {},
        blacklist |-> {}, newDiscoveries |-> {}]]
  /\ UNCHANGED <<up, table, handshakes, ran, stops>>

\* _removeAndBlock, of a peer whose number is known.
_removeAndBlock(m, p, w) ==
  LET known == {p} \cap {q \in Memories : peers[m][q] = "known"} IN
  /\ table' = [table EXCEPT ![m] = @ \ known]
  /\ worker' = [worker EXCEPT ![m] = [w EXCEPT !.blacklist = @ \cup known]]

\* _iterateSuccessfulMemories: itself is left out, once it knows that it is itself.
Visit(m, p) ==
  LET w == [worker[m] EXCEPT !.left = @ \ {p}] IN
  /\ worker[m].at = "visit"
  /\ p \in worker[m].left /\ \A q \in worker[m].left : p <= q
  /\ \/ /\ p = m /\ peers[m][p] = "known"
        /\ worker' = [worker EXCEPT ![m] = w]
        /\ UNCHANGED <<table, handshakes>>
     \/ /\ ~(p = m /\ peers[m][p] = "known") /\ p \notin up
        /\ _removeAndBlock(m, p, w)
        /\ UNCHANGED handshakes
     \/ /\ ~(p = m /\ peers[m][p] = "known") /\ p \in up
        /\ handshakes' = handshakes \cup
             {[from |-> m, to |-> p, items |-> table[m], open |-> TRUE]}
        /\ worker' = [worker EXCEPT ![m] = [w EXCEPT !.at = "asked", !.peer = p]]
        /\ UNCHANGED table
  /\ UNCHANGED <<up, peers, ran, stops>>

\* Variant: the answer is for whoever has the connection by now.
HandleHandshake_AnyReader(h) ==
  LET p == h.to IN
  /\ table' = [table EXCEPT ![p] = @ \cup {p, h.from} \cup h.items]
  /\ handshakes' = handshakes \ {h}
  /\ worker' = [worker EXCEPT ![h.from].at = "answered"]
  /\ UNCHANGED <<up, peers, ran, stops>>

\* Variant: the visits are made by the thread that answers those of others.
HandleHandshake_OneThread(h) ==
  LET p == h.to IN
  /\ worker[p].at # "asked"
  /\ table' = [table EXCEPT ![p] = @ \cup {p, h.from} \cup h.items]
  /\ handshakes' = handshakes \ {h}
  /\ worker' = IF h.open
               THEN [worker EXCEPT ![h.from].at = "answered", ![h.from].list = table'[p]]
               ELSE worker
  /\ UNCHANGED <<up, peers, ran, stops>>

\* Variant: the memory that visits is not added.
HandleHandshake_NotTheOther(h) ==
  LET p == h.to IN
  /\ table' = [table EXCEPT ![p] = @ \cup {p} \cup h.items]
  /\ handshakes' = handshakes \ {h}
  /\ worker' = IF h.open
               THEN [worker EXCEPT ![h.from].at = "answered", ![h.from].list = table'[p]]
               ELSE worker
  /\ UNCHANGED <<up, peers, ran, stops>>

\* HandleHandshakeOpcode, in the dispatcher of the memory that is visited.
HandleHandshake(h) ==
  LET p == h.to IN
  /\ table' = [table EXCEPT ![p] = @ \cup {p, h.from} \cup h.items]
  /\ handshakes' = handshakes \ {h}
  /\ worker' = IF h.open
               THEN [worker EXCEPT ![h.from].at = "answered", ![h.from].list = table'[p]]
               ELSE worker
  /\ UNCHANGED <<up, peers, ran, stops>>

\* The same from the kernel, which offers nothing.
KernelHandshake(p) ==
  /\ p \in up
  /\ table' = [table EXCEPT ![p] = @ \cup {p}]
  /\ UNCHANGED <<up, peers, worker, handshakes, ran, stops>>

Disconnected(m) ==
  /\ worker[m].at = "broken"
  /\ _removeAndBlock(m, worker[m].peer, [worker[m] EXCEPT !.at = "visit", !.peer = m])
  /\ UNCHANGED <<up, peers, handshakes, ran, stops>>

Merge(m) ==
  /\ worker[m].at = "answered"
  /\ table' = [table EXCEPT ![m] = @ \cup (worker[m].list \ worker[m].blacklist)]
  /\ worker' = [worker EXCEPT ![m] =
       [worker[m] EXCEPT !.at = "visit", !.peer = m, !.list = {},
                         !.newDiscoveries = @ \cup worker[m].list]]
  /\ UNCHANGED <<up, peers, handshakes, ran, stops>>

\* _addToKnownPeers, and the timer is armed again.
EndRound(m) ==
  /\ worker[m].at = "visit" /\ worker[m].left = {}
  /\ peers' = [peers EXCEPT ![m] =
       [p \in Memories |-> IF p \in worker[m].newDiscoveries THEN "known" ELSE @[p]]]
  /\ worker' = [worker EXCEPT ![m] = NoWorker]
  /\ UNCHANGED <<up, table, handshakes, ran, stops>>

Worker(m) == \/ Gossip_Do(m)
             \/ \E p \in Memories : Visit(m, p)
             \/ Disconnected(m) \/ Merge(m) \/ EndRound(m)

Answer(from, to) == \E h \in handshakes : h.from = from /\ h.to = to /\ HandleHandshake(h)

Next ==
  \/ \E m \in Memories : Gossip_Init(m) \/ Stop(m) \/ Worker(m) \/ KernelHandshake(m)
  \/ \E m, p \in Memories : Answer(m, p)

Spec == Init /\ [][Next]_vars

\* Memories are started, timers fire, threads run, and a dispatcher handles what arrives.
FairSpec ==
  /\ Spec
  /\ \A m \in Memories : WF_vars(Gossip_Init(m)) /\ WF_vars(Worker(m))
  /\ \A m, p \in Memories : WF_vars(Answer(m, p))

-----------------------------------------------------------------------------
(***************************************************************************)
(* Properties.                                                             *)
(***************************************************************************)
\* What is shared with other memories and with the kernel are memories that were seen
\* to run, by themselves or by others: a seed that never ran is never offered.
OnlyMemoriesThatRanAreShared ==
  /\ \A m \in Memories : table[m] \subseteq ran
  /\ \A h \in handshakes : h.items \subseteq ran

\* The visits of a round are all answered or broken: memories that visit each other, or
\* themselves, do not wait for each other.
EveryRoundEnds == \A m \in Memories : worker[m] # NoWorker ~> worker[m] = NoWorker

\* Once no memory stops any more they all find each other, although they only know
\* their seeds, and one that came back without its peers is found again.
EveryMemoryIsFound == <>[](\A m \in Memories : table[m] = Memories)

\* "borrar de tabla de gossip para mantenerla actualizada" (Gossip.c:191): a memory that
\* stopped for good is in nobody's table in the end.
DeadMemoriesAreForgotten ==
  \A m \in Memories : <>[](m \in ran \ up) => <>[](\A n \in up : m \notin table[n])
===============================================================================
