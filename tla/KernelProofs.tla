------------------------------ MODULE KernelProofs ------------------------------
(***************************************************************************)
(* Proofs about Kernel, for any memories, tables, workers and commands.    *)
(*                                                                         *)
(* IInv relates each connection to the threads: a request that is to be    *)
(* answered, and an answer, are those of the one thread that waits there,  *)
(* and only JOURNALs come between.  It is kept because MemLock lets one    *)
(* thread wait at an entry and because entries that threads hold stay in   *)
(* place: a step after which they do not makes end "undefined", and of     *)
(* such a state less is claimed.                                           *)
(*                                                                         *)
(* SocketsAreCounted relates the criteria to the open connections, which   *)
(* is what a memory that leaves the map must have none of.                 *)
(*                                                                         *)
(* Arrays that lose memories are followed through Without, first entry to  *)
(* last, by the lowest number of entries for which a claim fails.          *)
(***************************************************************************)
EXTENDS Kernel, FiniteSetTheorems, SequenceTheorems, WellFoundedInduction, TLAPS

-----------------------------------------------------------------------------
(***************************************************************************)
(* The inductive invariant.                                                *)
(***************************************************************************)
Criteria == CriteriaTypes \cup {None}
Keys     == Memories \cup {SeedKey}
Ops      == {"select", "insert", "create", "drop", "describe", "global"}
Entry    == [mem : Memories, broken : BOOLEAN, requests : Seq(Request), answers : Seq(Answer)]

\* What a thread has at hand: of a command, of an ADD, of a discovery.
Choosing    == [at : {"choose"}, op : Ops, table : Tables, ct : Criteria, entry : {<<>>}, answer : {NoAnswer}]
Sending     == [at : {"lock", "wait", "journal"}, op : Ops, table : Tables, ct : Criteria,
                entry : CriteriaTypes \X Nat, answer : Answer \cup {NoAnswer}]
Answered    == [at : {"answered"}, op : Ops, table : Tables, ct : Criteria,
                entry : CriteriaTypes \X Nat, answer : Answer]
Adding      == [at : {"connect"}, ct : CriteriaTypes, mem : Memories]
Discovering == [at : {"discover"}, left : SUBSET Keys, diff : SUBSET Memories]
Visiting    == [at : {"discover", "handshake"}, left : SUBSET Keys, diff : SUBSET Memories, peer : Keys]
States      == {Idle} \cup Choosing \cup Sending \cup Answered \cup Adding \cup Discovering \cup Visiting

ExternalOK == /\ up \subseteq Memories /\ full \subseteq up
              /\ tables \in [Tables -> Criteria]
MembersOK  == members \in [CriteriaTypes -> Seq(Entry)]
ThreadsOK  == thread \in [Threads -> States]

TInv == /\ ExternalOK /\ MembersOK /\ ThreadsOK
        /\ metadata \in [Tables -> Criteria]
        /\ memoryIPMap \subseteq Keys
        /\ end \in {None, "crash", "undefined"}

\* No memory is twice in a criterion, and SC has one at most.
Distinct(entries) == \A i, j \in 1 .. Len(entries) : entries[i].mem = entries[j].mem => i = j
OncePerCriterion  == (\A c \in CriteriaTypes : Distinct(members[c])) /\ Len(members["SC"]) <= 1

\* A request that is to be answered is that of a thread that waits.
Asks(r, threads) == r.by \in Threads /\ threads[r.by].at = "wait" /\ threads[r.by].op = r.op
Meant(e, threads) == \A j \in 1 .. Len(e.requests) : e.requests[j].op # "journal" => Asks(e.requests[j], threads)

\* What is in a connection is of who waits for it, and is one request or one answer,
Exchange(e, c, i, threads) ==
  /\ \A j \in 1 .. Len(e.requests) : e.requests[j].op # "journal" => threads[e.requests[j].by].entry = <<c, i>>
  /\ \A j \in 1 .. Len(e.answers) : Asks(e.answers[j], threads) /\ threads[e.answers[j].by].entry = <<c, i>>
  /\ \A j, k \in 1 .. Len(e.requests) : e.requests[j].op # "journal" /\ e.requests[k].op # "journal" => j = k
  /\ Len(e.answers) <= 1
  /\ e.answers # <<>> => \A j \in 1 .. Len(e.requests) : e.requests[j].op = "journal"

\* and who waits has it there, or the connection is broken.
Awaited(e, c, i, threads) ==
  \A th \in Threads : threads[th].at = "wait" /\ threads[th].entry = <<c, i>> =>
    \/ e.broken
    \/ \E j \in 1 .. Len(e.requests) : e.requests[j] = [by |-> th, op |-> threads[th].op]
    \/ e.answers # <<>>

Sound(e, c, i, threads, ended) ==
  /\ e.broken => e.requests = <<>>
  /\ Meant(e, threads)
  /\ ended = None => Exchange(e, c, i, threads) /\ Awaited(e, c, i, threads)
ConnectionsAreSound ==
  \A c \in CriteriaTypes : \A i \in 1 .. Len(members[c]) : Sound(members[c][i], c, i, thread, end)

AnswersAreOwn   == \A th \in Threads : thread[th].at = "answered" =>
                     thread[th].answer.by = th /\ thread[th].answer.op = thread[th].op

\* Nobody's entry has gone, and MemLock lets one thread wait for each.
EntriesAreThere == \A th \in Holders : thread[th].entry[2] \in 1 .. Len(members[thread[th].entry[1]])
OneWaits        == \A o, th \in Threads :
                     thread[o].at = "wait" /\ thread[th].at = "wait" /\ thread[o].entry = thread[th].entry => o = th

CInv == /\ ConnectionsAreSound /\ AnswersAreOwn
        /\ end = None => EntriesAreThere /\ OneWaits

IInv == TInv /\ OncePerCriterion /\ CInv

\* The connections that are open are those of the criteria.
CriteriaOf(m)   == {c \in CriteriaTypes : \E i \in DOMAIN members[c] : members[c][i].mem = m}
SocketsAreCounted == /\ sockets \in [Memories -> Nat]
                     /\ \A m \in Memories : sockets[m] = Cardinality(CriteriaOf(m))
-----------------------------------------------------------------------------
(***************************************************************************)
(* What remains of an array.                                               *)
(***************************************************************************)
Lowest(S) == CHOOSE x \in S : \A y \in S : x <= y

\* The lowest number of a set is one of it.
LEMMA LowestIsLeast == ASSUME NEW S \in SUBSET Nat, S # {} PROVE Lowest(S) \in S /\ \A y \in S : Lowest(S) <= y
<1>1. IsWellFoundedOn(OpToRel(<, Nat), Nat)
  BY NatLessThanWellFounded
<1>2. PICK x \in S : \A y \in S : ~(<<y, x>> \in OpToRel(<, Nat))
  BY <1>1, WFMin
<1>3. \A y \in S : ~(y < x)
  BY <1>2 DEF OpToRel
<1>4. \A y \in S : x <= y
  BY <1>3
<1> DEFINE m == CHOOSE z \in S : \A y \in S : z <= y
<1>5. m \in S /\ \A y \in S : m <= y
  BY <1>4
<1>6. Lowest(S) = m
  BY DEF Lowest
<1> HIDE DEF m
<1> QED
  BY <1>5, <1>6

\* The equation of Without's "kept", for the first n entries.
IsKept(f, entries, gone, n) ==
  f = [i \in 0 .. n |-> IF i = 0 THEN <<>>
                        ELSE IF entries[i].mem \in gone THEN f[i - 1]
                        ELSE Append(f[i - 1], entries[i])]

\* It has a solution for one more entry,
LEMMA KeepsOneMore ==
  ASSUME NEW entries, NEW gone, NEW n \in Nat, n # 0, NEW f, IsKept(f, entries, gone, n - 1)
  PROVE  \E g : IsKept(g, entries, gone, n)
<1> DEFINE next == IF entries[n].mem \in gone THEN f[n - 1] ELSE Append(f[n - 1], entries[n])
           g == [i \in 0 .. n |-> IF i = n THEN next ELSE f[i]]
<1>1. \A i \in 0 .. n - 1 : f[i] = IF i = 0 THEN <<>>
                                  ELSE IF entries[i].mem \in gone THEN f[i - 1]
                                  ELSE Append(f[i - 1], entries[i])
  BY DEF IsKept
<1> HIDE DEF next
<1>2. g[n] = next /\ \A i \in 0 .. n - 1 : g[i] = f[i]
  OBVIOUS
<1>3. g = [i \in 0 .. n |-> g[i]]
  OBVIOUS
<1> HIDE DEF g
<1>4. ASSUME NEW i \in 0 .. n
      PROVE  g[i] = IF i = 0 THEN <<>>
                    ELSE IF entries[i].mem \in gone THEN g[i - 1] ELSE Append(g[i - 1], entries[i])
  <2>1. CASE i = n
    <3>1. n - 1 \in 0 .. n - 1
      OBVIOUS
    <3>2. g[n - 1] = f[n - 1]
      BY <1>2, <3>1
    <3> QED
      BY <1>2, <2>1, <3>2 DEF next
  <2>2. CASE i # n
    <3>1. i \in 0 .. n - 1 /\ (i # 0 => i - 1 \in 0 .. n - 1)
      BY <2>2
    <3> QED
      BY <1>1, <1>2, <3>1
  <2> QED
    BY <2>1, <2>2
<1>5. IsKept(g, entries, gone, n)
  BY <1>3, <1>4 DEF IsKept
<1> QED
  BY <1>5

\* and so for all of them.
LEMMA KeptIsDefined == ASSUME NEW entries, NEW gone, NEW n \in Nat PROVE \E f : IsKept(f, entries, gone, n)
<1> DEFINE none == {k \in Nat : \A f : ~IsKept(f, entries, gone, k)}
<1> SUFFICES ASSUME none # {} PROVE FALSE
  OBVIOUS
<1> DEFINE k == Lowest(none)
<1>1. k \in none /\ \A i \in none : k <= i
  BY LowestIsLeast
<1> HIDE DEF k
<1>2. k \in Nat /\ (\A f : ~IsKept(f, entries, gone, k)) /\ \A i \in Nat : i < k => i \notin none
  BY <1>1
<1>3. CASE k = 0
  <2> DEFINE f == [i \in 0 .. 0 |-> <<>>]
  <2>1. IsKept(f, entries, gone, 0)
    BY DEF IsKept
  <2> QED
    BY <1>2, <1>3, <2>1
<1>4. CASE k # 0
  <2>1. k - 1 \in Nat /\ k - 1 < k
    BY <1>2, <1>4
  <2>2. PICK f : IsKept(f, entries, gone, k - 1)
    BY <1>2, <2>1
  <2> QED
    BY <1>2, <1>4, <2>2, KeepsOneMore
<1> QED
  BY <1>3, <1>4

\* The equation of Without.
LEMMA WithoutIsDefined ==
  ASSUME NEW entries, Len(entries) \in Nat, NEW gone
  PROVE  \E f : IsKept(f, entries, gone, Len(entries)) /\ Without(entries, gone) = f[Len(entries)]
<1> DEFINE f == CHOOSE f : IsKept(f, entries, gone, Len(entries))
<1>1. IsKept(f, entries, gone, Len(entries))
  BY KeptIsDefined
<1>2. Without(entries, gone) = f[Len(entries)]
  BY DEF Without, IsKept
<1> QED
  BY <1>1, <1>2

\* What remains of s when r does: the entries of others and no more, in place as long as none before them
\* has gone.
Remains(r, s, gone) ==
  /\ \A k \in 1 .. Len(r) : \E i \in 1 .. Len(s) : r[k] = s[i] /\ s[i].mem \notin gone
  /\ \A i \in 1 .. Len(s) : s[i].mem \notin gone => \E k \in 1 .. Len(r) : r[k] = s[i]
  /\ Distinct(s) => Distinct(r)
  /\ \A n \in 1 .. Len(s) : (\A i \in 1 .. n : s[i].mem \notin gone) =>
                              n <= Len(r) /\ \A i \in 1 .. n : r[i] = s[i]

\* The same of the first m entries of s.
RemainsOf(r, s, m, gone) ==
  /\ \A k \in 1 .. Len(r) : \E i \in 1 .. m : r[k] = s[i] /\ s[i].mem \notin gone
  /\ \A i \in 1 .. m : s[i].mem \notin gone => \E k \in 1 .. Len(r) : r[k] = s[i]
  /\ Distinct(s) => Distinct(r)
  /\ \A n \in 1 .. m : (\A i \in 1 .. n : s[i].mem \notin gone) => n <= Len(r) /\ \A i \in 1 .. n : r[i] = s[i]
  /\ (\A i \in 1 .. m : s[i].mem \notin gone) => Len(r) = m

\* An entry that goes,
LEMMA RemainsWhenGone ==
  ASSUME NEW S, NEW s \in Seq(S), NEW gone, NEW m \in Nat \ {0}, m <= Len(s), NEW r \in Seq(S),
         RemainsOf(r, s, m - 1, gone), s[m].mem \in gone
  PROVE  RemainsOf(r, s, m, gone)
<1>1. \A i \in 1 .. m : i = m \/ i \in 1 .. m - 1
  OBVIOUS
<1>2. \A i \in 1 .. m - 1 : i \in 1 .. m
  OBVIOUS
<1>3. \A k \in 1 .. Len(r) : \E i \in 1 .. m : r[k] = s[i] /\ s[i].mem \notin gone
  BY <1>2 DEF RemainsOf
<1>4. \A i \in 1 .. m : s[i].mem \notin gone => \E k \in 1 .. Len(r) : r[k] = s[i]
  BY <1>1 DEF RemainsOf
<1>5. ASSUME NEW n \in 1 .. m, \A i \in 1 .. n : s[i].mem \notin gone
      PROVE  n <= Len(r) /\ \A i \in 1 .. n : r[i] = s[i]
  <2>1. n \in 1 .. m - 1
    BY <1>1, <1>5
  <2> QED
    BY <1>5, <2>1 DEF RemainsOf
<1>6. ~ \A i \in 1 .. m : s[i].mem \notin gone
  OBVIOUS
<1> QED
  BY <1>3, <1>4, <1>5, <1>6 DEF RemainsOf

\* and one that stays.
LEMMA RemainsWhenKept ==
  ASSUME NEW S, NEW s \in Seq(S), NEW gone, NEW m \in Nat \ {0}, m <= Len(s), NEW r \in Seq(S),
         RemainsOf(r, s, m - 1, gone), s[m].mem \notin gone
  PROVE  RemainsOf(Append(r, s[m]), s, m, gone)
<1> DEFINE a == Append(r, s[m])
<1>1. s[m] \in S /\ Len(r) \in Nat /\ m \in 1 .. m /\ m \in 1 .. Len(s)
  OBVIOUS
<1>2. Len(a) = Len(r) + 1 /\ (\A k \in 1 .. Len(r) : a[k] = r[k]) /\ a[Len(r) + 1] = s[m]
  BY <1>1
<1> HIDE DEF a
<1>3. \A i \in 1 .. m : i = m \/ i \in 1 .. m - 1
  OBVIOUS
<1>4. \A i \in 1 .. m - 1 : i \in 1 .. m /\ i # m /\ i \in 1 .. Len(s)
  OBVIOUS
<1>5. \A k \in 1 .. Len(a) : k = Len(r) + 1 \/ k \in 1 .. Len(r)
  BY <1>1, <1>2
<1>6. Len(r) + 1 \in 1 .. Len(a) /\ \A k \in 1 .. Len(r) : k \in 1 .. Len(a)
  BY <1>1, <1>2
<1>7. ASSUME NEW k \in 1 .. Len(a) PROVE \E i \in 1 .. m : a[k] = s[i] /\ s[i].mem \notin gone
  <2>1. CASE k = Len(r) + 1
    BY <1>1, <1>2, <2>1
  <2>2. CASE k \in 1 .. Len(r)
    <3>1. PICK i \in 1 .. m - 1 : r[k] = s[i] /\ s[i].mem \notin gone
      BY <2>2 DEF RemainsOf
    <3> QED
      BY <1>2, <1>4, <2>2, <3>1
  <2> QED
    BY <1>5, <2>1, <2>2
<1>8. ASSUME NEW i \in 1 .. m, s[i].mem \notin gone PROVE \E k \in 1 .. Len(a) : a[k] = s[i]
  <2>1. CASE i = m
    BY <1>2, <1>6, <2>1
  <2>2. CASE i \in 1 .. m - 1
    <3>1. PICK k \in 1 .. Len(r) : r[k] = s[i]
      BY <1>8, <2>2 DEF RemainsOf
    <3> QED
      BY <1>2, <1>6, <3>1
  <2> QED
    BY <1>3, <2>1, <2>2
<1>9. ASSUME Distinct(s) PROVE Distinct(a)
  <2>1. \A k \in 1 .. Len(r) : a[k].mem # s[m].mem
    <3> TAKE k \in 1 .. Len(r)
    <3>1. PICK i \in 1 .. m - 1 : r[k] = s[i]
      BY DEF RemainsOf
    <3>2. s[i].mem # s[m].mem
      BY <1>1, <1>4, <1>9, <3>1 DEF Distinct
    <3> QED
      BY <1>2, <3>1, <3>2
  <2>2. Distinct(r)
    BY <1>9 DEF RemainsOf
  <2>3. SUFFICES ASSUME NEW k \in 1 .. Len(a), NEW l \in 1 .. Len(a), a[k].mem = a[l].mem PROVE k = l
    BY DEF Distinct
  <2>4. CASE k \in 1 .. Len(r) /\ l \in 1 .. Len(r)
    BY <1>2, <2>2, <2>3, <2>4 DEF Distinct
  <2>5. CASE k = Len(r) + 1 /\ l = Len(r) + 1
    BY <2>5
  <2>6. CASE k = Len(r) + 1 /\ l \in 1 .. Len(r)
    BY <1>2, <2>1, <2>3, <2>6
  <2>7. CASE k \in 1 .. Len(r) /\ l = Len(r) + 1
    BY <1>2, <2>1, <2>3, <2>7
  <2> QED
    BY <1>5, <2>4, <2>5, <2>6, <2>7
<1>10. ASSUME \A i \in 1 .. m : s[i].mem \notin gone PROVE Len(r) = m - 1
  BY <1>4, <1>10 DEF RemainsOf
<1>11. ASSUME NEW n \in 1 .. m, \A i \in 1 .. n : s[i].mem \notin gone
       PROVE  n <= Len(a) /\ \A i \in 1 .. n : a[i] = s[i]
  <2>1. CASE n = m
    <3>1. Len(r) = m - 1
      BY <1>10, <1>11, <2>1
    <3>2. \A i \in 1 .. m - 1 : r[i] = s[i]
      <4>1. CASE m - 1 = 0
        BY <4>1
      <4>2. CASE m - 1 # 0
        <5>1. m - 1 \in 1 .. m - 1
          BY <4>2
        <5> QED
          BY <1>4, <1>11, <2>1, <5>1 DEF RemainsOf
      <4> QED
        BY <4>1, <4>2
    <3> QED
      BY <1>2, <1>3, <2>1, <3>1, <3>2
  <2>2. CASE n \in 1 .. m - 1
    <3>1. n <= Len(r) /\ \A i \in 1 .. n : r[i] = s[i]
      BY <1>11, <2>2 DEF RemainsOf
    <3>2. \A i \in 1 .. n : i \in 1 .. Len(r)
      BY <1>1, <3>1
    <3> QED
      BY <1>1, <1>2, <3>1, <3>2
  <2> QED
    BY <1>3, <2>1, <2>2
<1>12. (\A i \in 1 .. m : s[i].mem \notin gone) => Len(a) = m
  BY <1>2, <1>10
<1>13. RemainsOf(a, s, m, gone)
  BY <1>7, <1>8, <1>9, <1>11, <1>12 DEF RemainsOf
<1> QED
  BY <1>13 DEF a

\* What Without returns.
LEMMA WithoutHas ==
  ASSUME NEW S, NEW s \in Seq(S), NEW gone
  PROVE  Without(s, gone) \in Seq(S) /\ Remains(Without(s, gone), s, gone)
         /\ ((\A i \in 1 .. Len(s) : s[i].mem \notin gone) => Len(Without(s, gone)) = Len(s))
<1>1. Len(s) \in Nat
  OBVIOUS
<1>2. PICK f : IsKept(f, s, gone, Len(s)) /\ Without(s, gone) = f[Len(s)]
  BY <1>1, WithoutIsDefined
<1>3. \A m \in 0 .. Len(s) : f[m] = IF m = 0 THEN <<>>
                                   ELSE IF s[m].mem \in gone THEN f[m - 1] ELSE Append(f[m - 1], s[m])
  BY <1>2 DEF IsKept
<1> DEFINE Good(m) == f[m] \in Seq(S) /\ RemainsOf(f[m], s, m, gone)
           not == {m \in Nat : m <= Len(s) /\ ~Good(m)}
<1>4. ASSUME not # {} PROVE FALSE
  <2> DEFINE m == Lowest(not)
  <2>1. m \in not /\ \A i \in not : m <= i
    BY <1>4, LowestIsLeast
  <2> HIDE DEF m
  <2>2. m \in Nat /\ m <= Len(s) /\ ~Good(m) /\ \A i \in Nat : i < m => i \notin not
    BY <2>1
  <2>3. m \in 0 .. Len(s)
    BY <1>1, <2>2
  <2>4. CASE m = 0
    <3>1. f[m] = <<>>
      BY <1>3, <2>3, <2>4
    <3>2. <<>> \in Seq(S) /\ Len(<<>>) = 0
      OBVIOUS
    <3>3. RemainsOf(f[m], s, 0, gone)
      BY <3>1, <3>2 DEF RemainsOf, Distinct
    <3> QED
      BY <2>2, <2>4, <3>1, <3>2, <3>3
  <2>5. CASE m # 0
    <3>1. m \in Nat \ {0} /\ m - 1 \in Nat /\ m - 1 < m /\ m - 1 <= Len(s)
      BY <1>1, <2>2, <2>5
    <3>2. Good(m - 1)
      BY <2>2, <3>1
    <3> HIDE DEF not
    <3>3. CASE s[m].mem \in gone
      BY <1>3, <2>2, <2>3, <2>5, <3>1, <3>2, <3>3, RemainsWhenGone
    <3>4. CASE s[m].mem \notin gone
      <4>1. s[m] \in S
        BY <2>2, <3>1
      <4>2. f[m] = Append(f[m - 1], s[m])
        BY <1>3, <2>3, <2>5, <3>4
      <4>3. f[m] \in Seq(S)
        BY <3>2, <4>1, <4>2
      <4>4. RemainsOf(f[m], s, m, gone)
        BY <2>2, <3>1, <3>2, <3>4, <4>2, RemainsWhenKept
      <4> QED
        BY <2>2, <4>3, <4>4
    <3> QED
      BY <3>3, <3>4
  <2> QED
    BY <2>4, <2>5
<1>5. Good(Len(s))
  BY <1>1, <1>4
<1>6. RemainsOf(f[Len(s)], s, Len(s), gone) => Remains(f[Len(s)], s, gone)
  BY DEF Remains, RemainsOf
<1>7. RemainsOf(f[Len(s)], s, Len(s), gone) => ((\A i \in 1 .. Len(s) : s[i].mem \notin gone) => Len(f[Len(s)]) = Len(s))
  BY DEF RemainsOf
<1> QED
  BY <1>2, <1>5, <1>6, <1>7

-----------------------------------------------------------------------------
(***************************************************************************)
(* Threads.                                                                *)
(***************************************************************************)
\* What a thread has at hand is told by where it is.
LEMMA StateOfPlace ==
  ASSUME NEW s \in States
  PROVE  /\ s.at = "choose" => s \in Choosing
         /\ s.at \in {"lock", "wait", "journal"} => s \in Sending
         /\ s.at = "answered" => s \in Answered
         /\ s.at = "connect" => s \in Adding
         /\ s.at = "discover" => s \in Discovering \cup Visiting
         /\ s.at = "handshake" => s \in Visiting
         /\ s.at = "idle" => s = Idle
<1>1. CASE s = Idle
  BY <1>1 DEF Idle
<1>2. CASE s \in Choosing
  BY <1>2 DEF Choosing
<1>3. CASE s \in Sending
  BY <1>3 DEF Sending
<1>4. CASE s \in Answered
  BY <1>4 DEF Answered
<1>5. CASE s \in Adding
  BY <1>5 DEF Adding
<1>6. CASE s \in Discovering
  BY <1>6 DEF Discovering
<1>7. CASE s \in Visiting
  BY <1>7 DEF Visiting
<1> QED
  BY <1>1, <1>2, <1>3, <1>4, <1>5, <1>6, <1>7 DEF States

MovesTo(th, s) == thread' = [thread EXCEPT ![th] = s]

\* A thread moves and the others do not.
LEMMA OneMoves ==
  ASSUME ThreadsOK, NEW th \in Threads, NEW s \in States, MovesTo(th, s)
  PROVE  ThreadsOK' /\ thread'[th] = s /\ \A o \in Threads \ {th} : thread'[o] = thread[o]
BY DEF ThreadsOK, MovesTo

\* The entry of a thread that has one is that of an array.
LEMMA EntryOfHolder ==
  ASSUME TInv, NEW th \in Threads, thread[th].at \in {"lock", "wait", "journal", "answered"}
  PROVE  /\ thread[th].entry \in CriteriaTypes \X Nat
         /\ thread[th].entry[1] \in CriteriaTypes /\ thread[th].entry[2] \in Nat
         /\ thread[th].op \in Ops /\ thread[th].table \in Tables /\ thread[th].ct \in Criteria
         /\ thread[th].entry = <<thread[th].entry[1], thread[th].entry[2]>>
<1>1. thread[th] \in States
  BY DEF TInv, ThreadsOK
<1>2. thread[th] \in Sending \cup Answered
  BY <1>1, StateOfPlace
<1> QED
  BY <1>2 DEF Sending, Answered

\* An entry of an array.
LEMMA EntryOfArray ==
  ASSUME MembersOK, NEW c \in CriteriaTypes, NEW i \in 1 .. Len(members[c])
  PROVE  /\ members[c][i] \in Entry /\ members[c] \in Seq(Entry)
         /\ members[c][i].mem \in Memories /\ members[c][i].broken \in BOOLEAN
         /\ members[c][i].requests \in Seq(Request) /\ members[c][i].answers \in Seq(Answer)
<1>1. members[c] \in Seq(Entry)
  BY DEF MembersOK
<1>2. members[c][i] \in Entry
  BY <1>1
<1> QED
  BY <1>1, <1>2 DEF Entry

\* The entry that a thread will use.
LEMMA EntryAt ==
  ASSUME IInv, end = None, NEW th \in Holders
  PROVE  /\ th \in Threads /\ thread[th].entry[1] \in CriteriaTypes
         /\ thread[th].entry[2] \in 1 .. Len(members[thread[th].entry[1]])
         /\ thread[th].entry = <<thread[th].entry[1], thread[th].entry[2]>>
         /\ At(th) = members[thread[th].entry[1]][thread[th].entry[2]] /\ At(th) \in Entry
<1>1. th \in Threads /\ thread[th].at \in {"lock", "wait", "journal", "answered"}
  BY DEF Holders
<1>2. thread[th].entry[2] \in 1 .. Len(members[thread[th].entry[1]])
  BY DEF IInv, CInv, EntriesAreThere
<1> QED
  BY <1>1, <1>2, EntryOfHolder, EntryOfArray DEF IInv, TInv, At

\* Who has nothing in a connection.
Silent(th, e) ==
  /\ \A j \in 1 .. Len(e.requests) : e.requests[j].op # "journal" => e.requests[j].by # th
  /\ \A j \in 1 .. Len(e.answers) : e.answers[j].by # th

\* Who does not wait has nothing in any connection.
LEMMA SilentUnlessWaiting ==
  ASSUME IInv, end = None, NEW th \in Threads, thread[th].at # "wait",
         NEW c \in CriteriaTypes, NEW i \in 1 .. Len(members[c])
  PROVE  Silent(th, members[c][i])
<1>1. Sound(members[c][i], c, i, thread, end)
  BY DEF IInv, CInv, ConnectionsAreSound
<1> QED
  BY <1>1 DEF Sound, Meant, Exchange, Asks, Silent

\* A connection that a thread has nothing in stays sound when the thread moves, unless it begins to wait
\* for it.
LEMMA SoundForOthers ==
  ASSUME NEW e, NEW c, NEW i, NEW threads, NEW th \in Threads, NEW after, NEW ended,
         Sound(e, c, i, threads, None), Silent(th, e),
         \A o \in Threads \ {th} : after[o] = threads[o],
         after[th].at = "wait" => after[th].entry # <<c, i>>
  PROVE  Sound(e, c, i, after, ended)
<1>1. Meant(e, after)
  BY DEF Sound, Meant, Silent, Asks
<1>2. Exchange(e, c, i, after)
  <2>1. \A j \in 1 .. Len(e.requests) : e.requests[j].op # "journal" => after[e.requests[j].by].entry = <<c, i>>
    <3>1. \A j \in 1 .. Len(e.requests) : e.requests[j].op # "journal" =>
            e.requests[j].by \in Threads \ {th} /\ threads[e.requests[j].by].entry = <<c, i>>
      BY DEF Sound, Meant, Exchange, Silent, Asks
    <3> QED
      BY <3>1
  <2>2. \A j \in 1 .. Len(e.answers) : Asks(e.answers[j], after) /\ after[e.answers[j].by].entry = <<c, i>>
    <3>1. \A j \in 1 .. Len(e.answers) : e.answers[j].by # th /\ Asks(e.answers[j], threads)
                                         /\ threads[e.answers[j].by].entry = <<c, i>>
      BY DEF Sound, Exchange, Silent
    <3> QED
      BY <3>1 DEF Asks
  <2> QED
    BY <2>1, <2>2 DEF Sound, Exchange
<1>3. Awaited(e, c, i, after)
  BY DEF Sound, Awaited
<1> QED
  BY <1>1, <1>2, <1>3 DEF Sound

\* A thread that is silent before and after it moves, and has chosen no entry or one that is there.
LEMMA QuietMove ==
  ASSUME IInv, end = None, NEW th \in Threads, NEW s \in States, MovesTo(th, s),
         thread[th].at # "wait", s.at \notin {"wait", "answered"},
         s.at \in {"lock", "journal"} => s.entry[2] \in 1 .. Len(members[s.entry[1]]),
         UNCHANGED <<external, members>>, memoryIPMap' \subseteq Keys, metadata' \in [Tables -> Criteria],
         end' = None
  PROVE  IInv'
<1>1. ThreadsOK' /\ thread'[th] = s /\ \A o \in Threads \ {th} : thread'[o] = thread[o]
  BY OneMoves DEF IInv, TInv
<1>2. TInv'
  BY <1>1 DEF IInv, TInv, ExternalOK, MembersOK, external
<1>3. OncePerCriterion'
  BY DEF IInv, OncePerCriterion, Distinct
<1>4. ConnectionsAreSound'
  <2> SUFFICES ASSUME NEW c \in CriteriaTypes, NEW i \in 1 .. Len(members[c])
               PROVE  Sound(members[c][i], c, i, thread', end')
    BY DEF ConnectionsAreSound
  <2>1. Sound(members[c][i], c, i, thread, None)
    BY DEF IInv, CInv, ConnectionsAreSound
  <2> QED
    BY <1>1, <2>1, SilentUnlessWaiting, SoundForOthers
<1>5. AnswersAreOwn'
  BY <1>1 DEF IInv, CInv, AnswersAreOwn
<1>6. Holders' \subseteq Holders \cup {th} /\ (th \in Holders' => s.at \in {"lock", "journal"})
  BY <1>1 DEF Holders
<1>7. EntriesAreThere'
  <2> SUFFICES ASSUME NEW o \in Holders'
               PROVE  thread'[o].entry[2] \in 1 .. Len(members[thread'[o].entry[1]])
    BY DEF EntriesAreThere
  <2>1. CASE o = th
    BY <1>1, <1>6, <2>1
  <2>2. CASE o # th
    <3>1. o \in Holders /\ o \in Threads \ {th}
      BY <1>6, <2>2 DEF Holders
    <3>2. thread'[o] = thread[o]
      BY <1>1, <3>1
    <3> QED
      BY <3>1, <3>2 DEF IInv, CInv, EntriesAreThere
  <2> QED
    BY <2>1, <2>2
<1>8. OneWaits'
  BY <1>1 DEF IInv, CInv, OneWaits
<1> QED
  BY <1>2, <1>3, <1>4, <1>5, <1>7, <1>8 DEF IInv, CInv

-----------------------------------------------------------------------------
(***************************************************************************)
(* Steps that touch no connection.                                         *)
(***************************************************************************)
\* What a quiet step of a thread leaves alone.
LEMMA OtherThanThreads ==
  ASSUME IInv PROVE memoryIPMap \subseteq Keys /\ metadata \in [Tables -> Criteria] /\ thread \in [Threads -> States]
                    /\ tables \in [Tables -> Criteria]
BY DEF IInv, TInv, ThreadsOK, ExternalOK

\* The start of a command, of PeriodicDescribe too.
LEMMA BeginPreserves ==
  ASSUME IInv, NEW th \in Threads, NEW op \in Ops, NEW t \in Tables, NEW ct \in Criteria, Begin(th, op, t, ct)
  PROVE  IInv'
<1> DEFINE s == [at |-> "choose", op |-> op, table |-> t, ct |-> ct, entry |-> <<>>, answer |-> NoAnswer]
<1>1. s \in Choosing /\ s.at = "choose"
  BY DEF Choosing
<1>2. s \in States
  BY <1>1 DEF States
<1>3. MovesTo(th, s) /\ thread[th].at # "wait" /\ end = None
  BY DEF Begin, MovesTo, Idle
<1>4. UNCHANGED <<external, members, memoryIPMap, metadata, end>>
  BY DEF Begin
<1> HIDE DEF s
<1> QED
  BY <1>1, <1>2, <1>3, <1>4, QuietMove, OtherThanThreads

\* Criteria_GetMemoryFor.
LEMMA ChoosePreserves == ASSUME IInv, NEW th \in Threads, Criteria_GetMemoryFor(th) PROVE IInv'
<1>1. end = None /\ thread[th].at = "choose" /\ UNCHANGED <<external, members, memoryIPMap, metadata, end>>
  BY DEF Criteria_GetMemoryFor
<1>2. CASE thread' = [thread EXCEPT ![th] = Idle]
  <2>1. Idle \in States /\ Idle.at = "idle"
    BY DEF States, Idle
  <2> QED
    BY <1>1, <1>2, <2>1, QuietMove, OtherThanThreads DEF MovesTo
<1>3. ASSUME NEW c \in CriteriaTypes, NEW i \in DOMAIN members[c],
             thread' = [thread EXCEPT ![th].at = "lock", ![th].entry = <<c, i>>]
      PROVE  IInv'
  <2> DEFINE s == [thread[th] EXCEPT !.at = "lock", !.entry = <<c, i>>]
  <2>1. thread[th] \in Choosing
    BY <1>1, OtherThanThreads, StateOfPlace
  <2>2. members[c] \in Seq(Entry)
    BY DEF IInv, TInv, MembersOK
  <2>3. i \in 1 .. Len(members[c]) /\ i \in Nat
    BY <2>2
  <2>4. s \in Sending /\ s.at = "lock" /\ s.entry = <<c, i>>
    BY <2>1, <2>3 DEF Choosing, Sending
  <2>5. MovesTo(th, s)
    BY <1>3, OtherThanThreads DEF MovesTo
  <2> HIDE DEF s
  <2>6. s \in States
    BY <2>4 DEF States
  <2>7. s.entry[2] \in 1 .. Len(members[s.entry[1]])
    BY <2>3, <2>4
  <2> QED
    BY <1>1, <2>4, <2>5, <2>6, <2>7, QuietMove, OtherThanThreads
<1> QED
  BY <1>2, <1>3 DEF Criteria_GetMemoryFor, Eligible

\* HandleInsert and HandleSelect, when the memory is full.
LEMMA FullPreserves == ASSUME IInv, NEW th \in Threads, HandleFull(th) PROVE IInv'
<1>1. end = None /\ thread[th].at = "answered" /\ thread[th].answer.result = "full"
      /\ UNCHANGED <<external, members, memoryIPMap, metadata, end>>
  BY DEF HandleFull
<1> DEFINE s == [thread[th] EXCEPT !.at = "journal"]
<1>2. thread[th] \in Answered
  BY <1>1, OtherThanThreads, StateOfPlace
<1>3. s \in Sending /\ s.at = "journal" /\ s.entry = thread[th].entry
  BY <1>2 DEF Answered, Sending
<1>4. MovesTo(th, s)
  BY OtherThanThreads DEF HandleFull, MovesTo
<1> HIDE DEF s
<1>5. s \in States
  BY <1>3 DEF States
<1>6. th \in Holders
  BY <1>1 DEF Holders
<1>7. s.entry[2] \in 1 .. Len(members[s.entry[1]])
  BY <1>1, <1>3, <1>6 DEF IInv, CInv, EntriesAreThere
<1> QED
  BY <1>1, <1>3, <1>4, <1>5, <1>7, QuietMove, OtherThanThreads

\* Metadata_Add and Metadata_Update.
LEMMA UpdateType ==
  ASSUME IInv, NEW th \in Threads, thread[th].at = "answered"
  PROVE  Metadata_Update(th) \in [Tables -> Criteria]
<1>1. thread[th] \in Answered
  BY OtherThanThreads, StateOfPlace
<1>2. thread[th].answer.tables \in [Tables -> Criteria] /\ thread[th].table \in Tables /\ thread[th].ct \in Criteria
  BY <1>1 DEF Answered, Answer, Criteria
<1> DEFINE a == thread[th].answer.tables
           t == thread[th].table
<1>3. [metadata EXCEPT ![t] = thread[th].ct] \in [Tables -> Criteria]
      /\ [metadata EXCEPT ![t] = a[t]] \in [Tables -> Criteria]
  BY <1>2, OtherThanThreads
<1> QED
  BY <1>2, <1>3, OtherThanThreads DEF Metadata_Update

\* A command ends with its answer.
LEMMA AnswerPreserves == ASSUME IInv, NEW th \in Threads, HandleAnswer(th) PROVE IInv'
<1>1. end = None /\ thread[th].at = "answered" /\ MovesTo(th, Idle) /\ metadata' = Metadata_Update(th)
      /\ UNCHANGED <<external, members, memoryIPMap, end>>
  BY DEF HandleAnswer, MovesTo
<1>2. Idle \in States /\ Idle.at = "idle"
  BY DEF States, Idle
<1>3. metadata' \in [Tables -> Criteria]
  BY <1>1, UpdateType
<1> QED
  BY <1>1, <1>2, <1>3, QuietMove, OtherThanThreads

\* HandleAdd takes an address from the map.
LEMMA AddPreserves ==
  ASSUME IInv, NEW th \in Threads, NEW c \in CriteriaTypes, NEW m \in Memories, HandleAdd(th, c, m)
  PROVE  IInv'
<1> DEFINE s == [at |-> "connect", ct |-> c, mem |-> m]
<1>1. s \in Adding /\ s.at = "connect"
  BY DEF Adding
<1>2. s \in States
  BY <1>1 DEF States
<1>3. MovesTo(th, s) /\ thread[th].at # "wait" /\ end = None
      /\ UNCHANGED <<external, members, memoryIPMap, metadata, end>>
  BY DEF HandleAdd, MovesTo, Idle
<1> HIDE DEF s
<1> QED
  BY <1>1, <1>2, <1>3, QuietMove, OtherThanThreads

\* A discovery begins,
LEMMA UpdatePreserves == ASSUME IInv, NEW th \in Threads, Criterias_Update(th) PROVE IInv'
<1>1. end = None /\ thread[th].at # "wait" /\ memoryIPMap' = memoryIPMap \cup {SeedKey}
      /\ UNCHANGED <<external, members, metadata, end>>
  BY DEF Criterias_Update, Idle
<1>2. memoryIPMap' \subseteq Keys
  BY <1>1, OtherThanThreads DEF Keys
<1>3. PICK left : left = memoryIPMap'
  OBVIOUS
<1> DEFINE s == [at |-> "discover", left |-> left, diff |-> {}]
<1>4. s \in Discovering /\ s.at = "discover"
  BY <1>2, <1>3 DEF Discovering
<1>5. MovesTo(th, s)
  BY <1>3 DEF Criterias_Update, MovesTo
<1> HIDE DEF s
<1>6. s \in States
  BY <1>4 DEF States
<1> QED
  BY <1>1, <1>2, <1>4, <1>5, <1>6, QuietMove, OtherThanThreads

\* visits a peer,
LEMMA VisitPreserves == ASSUME IInv, NEW th \in Threads, NEW key \in Keys, _iteratePeer(th, key) PROVE IInv'
<1>1. end = None /\ thread[th].at = "discover" /\ UNCHANGED <<external, members, memoryIPMap, metadata, end>>
  BY DEF _iteratePeer
<1>2. thread[th] \in Discovering \cup Visiting
  BY <1>1, OtherThanThreads, StateOfPlace
<1>3. thread[th].left \subseteq Keys /\ thread[th].diff \subseteq Memories
  BY <1>2 DEF Discovering, Visiting
<1> DEFINE place == IF key \in memoryIPMap /\ Address(key) \in up THEN "handshake" ELSE "discover"
           s == [at |-> place, left |-> thread[th].left \ {key}, diff |-> thread[th].diff, peer |-> key]
<1>4. place \in {"discover", "handshake"}
  OBVIOUS
<1>5. MovesTo(th, s)
  BY OtherThanThreads DEF _iteratePeer, MovesTo
<1> HIDE DEF place
<1>6. s \in Visiting /\ s.at \in {"discover", "handshake"}
  BY <1>3, <1>4 DEF Visiting
<1> HIDE DEF s
<1>7. s \in States
  BY <1>6 DEF States
<1> QED
  BY <1>1, <1>5, <1>6, <1>7, QuietMove, OtherThanThreads

\* and hears what it knows.
LEMMA VisitAnswerPreserves == ASSUME IInv, NEW th \in Threads, _iteratePeer_Answer(th) PROVE IInv'
<1>1. end = None /\ thread[th].at = "handshake" /\ UNCHANGED <<external, members, memoryIPMap, metadata, end>>
  BY DEF _iteratePeer_Answer
<1>2. thread[th] \in Visiting
  BY <1>1, OtherThanThreads, StateOfPlace
<1>3. thread[th].left \subseteq Keys /\ thread[th].diff \subseteq Memories
  BY <1>2 DEF Visiting
<1>4. PICK known \in SUBSET Memories :
        thread' = [thread EXCEPT ![th] =
                     [at |-> "discover", left |-> @.left, diff |-> @.diff \cup known, peer |-> SeedKey]]
  BY DEF _iteratePeer_Answer
<1> DEFINE s == [at |-> "discover", left |-> thread[th].left, diff |-> thread[th].diff \cup known, peer |-> SeedKey]
<1>5. MovesTo(th, s)
  BY <1>4, OtherThanThreads DEF MovesTo
<1>6. s \in Visiting /\ s.at = "discover"
  BY <1>3 DEF Visiting, Keys
<1> HIDE DEF s
<1>7. s \in States
  BY <1>6 DEF States
<1> QED
  BY <1>1, <1>5, <1>6, <1>7, QuietMove, OtherThanThreads

\* Memories that start or fill up change no connection.
LEMMA SameConnections ==
  ASSUME IInv, ExternalOK', UNCHANGED <<members, thread, metadata, memoryIPMap, end>>
  PROVE  IInv'
<1>1. TInv'
  BY DEF IInv, TInv, MembersOK, ThreadsOK
<1>2. OncePerCriterion'
  BY DEF IInv, OncePerCriterion, Distinct
<1>3. ConnectionsAreSound' /\ AnswersAreOwn'
  BY DEF IInv, CInv, ConnectionsAreSound, AnswersAreOwn
<1>4. end' = None => EntriesAreThere' /\ OneWaits'
  BY DEF IInv, CInv, EntriesAreThere, OneWaits, Holders
<1> QED
  BY <1>1, <1>2, <1>3, <1>4 DEF IInv, CInv

-----------------------------------------------------------------------------
(***************************************************************************)
(* One connection.                                                         *)
(***************************************************************************)
\* Append and Tail, by positions.
LEMMA AppendedAt ==
  ASSUME NEW S, NEW s \in Seq(S), NEW r \in S
  PROVE  /\ Append(s, r) \in Seq(S) /\ Len(Append(s, r)) = Len(s) + 1 /\ Append(s, r) # <<>>
         /\ Len(s) + 1 \in 1 .. Len(s) + 1 /\ Append(s, r)[Len(s) + 1] = r
         /\ \A j \in 1 .. Len(s) : j \in 1 .. Len(s) + 1 /\ Append(s, r)[j] = s[j]
         /\ \A j \in 1 .. Len(s) + 1 : j = Len(s) + 1 \/ j \in 1 .. Len(s)
OBVIOUS

\* What is left of a sequence whose head is taken.
LEMMA TailAt ==
  ASSUME NEW S, NEW s \in Seq(S), s # <<>>
  PROVE  /\ Tail(s) \in Seq(S) /\ Len(Tail(s)) = Len(s) - 1 /\ Len(s) \in Nat \ {0}
         /\ 1 \in 1 .. Len(s) /\ Head(s) = s[1] /\ Head(s) \in S
         /\ \A j \in 1 .. Len(Tail(s)) : j + 1 \in 1 .. Len(s) /\ j + 1 # 1 /\ Tail(s)[j] = s[j + 1]
         /\ \A j \in 1 .. Len(s) : j = 1 \/ (j - 1 \in 1 .. Len(Tail(s)) /\ Tail(s)[j - 1] = s[j])
OBVIOUS

\* A sequence without positions is empty.
LEMMA EmptyAt == ASSUME NEW S, NEW s \in Seq(S), Len(s) = 0 PROVE s = <<>>
BY EmptySeq

\* A memory that stops breaks the connection; what it has answered can still be received.
LEMMA SoundWhenBroken ==
  ASSUME NEW e \in Entry, NEW c, NEW i, NEW threads, NEW ended, Sound(e, c, i, threads, ended)
  PROVE  Sound([e EXCEPT !.broken = TRUE, !.requests = <<>>], c, i, threads, ended)
         /\ [e EXCEPT !.broken = TRUE, !.requests = <<>>] \in Entry
<1> DEFINE f == [e EXCEPT !.broken = TRUE, !.requests = <<>>]
<1> DEFINE none == <<>>
<1>0. none \in Seq(Request) /\ Len(none) = 0
  OBVIOUS
<1> HIDE DEF none
<1>1. f \in Entry /\ f.broken /\ f.requests = none /\ f.answers = e.answers
  <2>1. f = [e EXCEPT !.broken = TRUE, !.requests = none]
    BY DEF none
  <2> QED
    BY <1>0, <2>1 DEF Entry
<1> HIDE DEF f
<1>2. Sound(f, c, i, threads, ended)
  BY <1>0, <1>1 DEF Sound, Meant, Exchange, Awaited, none
<1> QED
  BY <1>1, <1>2 DEF f

\* A JOURNAL is one more request, which nobody waits for.
LEMMA SoundWithJournal ==
  ASSUME NEW e \in Entry, ~e.broken, NEW c, NEW i, NEW threads, NEW ended, Sound(e, c, i, threads, ended),
         NEW th \in Threads
  PROVE  Sound([e EXCEPT !.requests = Append(@, [by |-> th, op |-> "journal"])], c, i, threads, ended)
         /\ [e EXCEPT !.requests = Append(@, [by |-> th, op |-> "journal"])] \in Entry
<1> DEFINE r == [by |-> th, op |-> "journal"]
           f == [e EXCEPT !.requests = Append(@, r)]
<1>1. r \in Request /\ r.op = "journal"
  BY DEF Request
<1>2. e.requests \in Seq(Request)
  BY DEF Entry
<1> HIDE DEF r
<1>3. f \in Entry /\ f.broken = e.broken /\ f.answers = e.answers /\ f.requests = Append(e.requests, r)
  BY <1>1, <1>2, AppendedAt DEF Entry
<1> HIDE DEF f
<1>4. /\ Len(f.requests) = Len(e.requests) + 1
      /\ \A j \in 1 .. Len(f.requests) :
           f.requests[j].op # "journal" => j \in 1 .. Len(e.requests) /\ f.requests[j] = e.requests[j]
      /\ \A j \in 1 .. Len(e.requests) : j \in 1 .. Len(f.requests) /\ f.requests[j] = e.requests[j]
  BY <1>1, <1>2, <1>3, AppendedAt
<1>5. Meant(f, threads)
  BY <1>4 DEF Sound, Meant
<1>6. ASSUME ended = None PROVE Exchange(f, c, i, threads)
  <2>1. Exchange(e, c, i, threads)
    BY <1>6 DEF Sound
  <2>2. \A j \in 1 .. Len(f.requests) : f.requests[j].op # "journal" => threads[f.requests[j].by].entry = <<c, i>>
    BY <1>4, <2>1 DEF Exchange
  <2>3. \A j, k \in 1 .. Len(f.requests) : f.requests[j].op # "journal" /\ f.requests[k].op # "journal" => j = k
    BY <1>4, <2>1 DEF Exchange
  <2>4. f.answers # <<>> => \A j \in 1 .. Len(f.requests) : f.requests[j].op = "journal"
    BY <1>3, <1>4, <2>1 DEF Exchange
  <2> QED
    BY <1>3, <2>1, <2>2, <2>3, <2>4 DEF Exchange
<1>7. ASSUME ended = None PROVE Awaited(f, c, i, threads)
  BY <1>3, <1>4, <1>7 DEF Sound, Awaited
<1>8. Sound(f, c, i, threads, ended)
  BY <1>3, <1>5, <1>6, <1>7 DEF Sound
<1> QED
  BY <1>3, <1>8 DEF f, r

\* The requests that are left.
LEMMA RequestServed ==
  ASSUME NEW e \in Entry, e.requests # <<>>, NEW threads, Meant(e, threads)
  PROVE  /\ Tail(e.requests) \in Seq(Request) /\ Head(e.requests) \in Request
         /\ Head(e.requests).op # "journal" => Asks(Head(e.requests), threads)
         /\ \A j \in 1 .. Len(Tail(e.requests)) :
              j + 1 \in 1 .. Len(e.requests) /\ j + 1 # 1 /\ Tail(e.requests)[j] = e.requests[j + 1]
         /\ 1 \in 1 .. Len(e.requests) /\ Head(e.requests) = e.requests[1]
<1>1. e.requests \in Seq(Request)
  BY DEF Entry
<1> QED
  BY <1>1, TailAt DEF Meant

\* A memory takes a JOURNAL,
LEMMA SoundJournalServed ==
  ASSUME NEW e \in Entry, NEW c, NEW i, NEW threads, NEW ended, Sound(e, c, i, threads, ended),
         e.requests # <<>>, Head(e.requests).op = "journal",
         \A th \in Threads : threads[th].at = "wait" => threads[th].op # "journal"
  PROVE  Sound([e EXCEPT !.requests = Tail(@)], c, i, threads, ended) /\ [e EXCEPT !.requests = Tail(@)] \in Entry
<1> DEFINE f == [e EXCEPT !.requests = Tail(@)]
<1>1. Meant(e, threads) /\ ~e.broken
  BY DEF Sound
<1>2. /\ Tail(e.requests) \in Seq(Request) /\ e.requests \in Seq(Request)
      /\ \A j \in 1 .. Len(Tail(e.requests)) :
           j + 1 \in 1 .. Len(e.requests) /\ j + 1 # 1 /\ Tail(e.requests)[j] = e.requests[j + 1]
  BY <1>1, RequestServed DEF Entry
<1>3. f \in Entry /\ f.broken = e.broken /\ f.answers = e.answers /\ f.requests = Tail(e.requests)
  BY <1>2 DEF Entry
<1> HIDE DEF f
<1>4. Meant(f, threads)
  BY <1>1, <1>2, <1>3 DEF Meant
<1>5. ASSUME ended = None PROVE Exchange(f, c, i, threads)
  <2>1. Exchange(e, c, i, threads)
    BY <1>5 DEF Sound
  <2>2. ASSUME NEW j \in 1 .. Len(f.requests), f.requests[j].op # "journal"
        PROVE  threads[f.requests[j].by].entry = <<c, i>>
    <3>1. j + 1 \in 1 .. Len(e.requests) /\ f.requests[j] = e.requests[j + 1]
      BY <1>2, <1>3
    <3> QED
      BY <2>1, <2>2, <3>1 DEF Exchange
  <2>3. ASSUME NEW j \in 1 .. Len(f.requests), NEW k \in 1 .. Len(f.requests),
               f.requests[j].op # "journal", f.requests[k].op # "journal"
        PROVE  j = k
    <3>1. j + 1 = k + 1
      BY <1>2, <1>3, <2>1, <2>3 DEF Exchange
    <3> QED
      BY <3>1
  <2>4. ASSUME f.answers # <<>>, NEW j \in 1 .. Len(f.requests) PROVE f.requests[j].op = "journal"
    <3>1. j + 1 \in 1 .. Len(e.requests) /\ f.requests[j] = e.requests[j + 1]
      BY <1>2, <1>3
    <3> QED
      BY <1>3, <2>1, <2>4, <3>1 DEF Exchange
  <2> QED
    BY <1>3, <2>1, <2>2, <2>3, <2>4 DEF Exchange
<1>6. ASSUME ended = None PROVE Awaited(f, c, i, threads)
  <2> SUFFICES ASSUME NEW th \in Threads, threads[th].at = "wait", threads[th].entry = <<c, i>>, f.answers = <<>>
               PROVE  \E j \in 1 .. Len(f.requests) : f.requests[j] = [by |-> th, op |-> threads[th].op]
    BY DEF Awaited
  <2>1. PICK j \in 1 .. Len(e.requests) : e.requests[j] = [by |-> th, op |-> threads[th].op]
    BY <1>1, <1>3, <1>6 DEF Sound, Awaited
  <2>2. CASE j = 1
    <3>1. Head(e.requests) = [by |-> th, op |-> threads[th].op]
      BY <1>1, <2>1, <2>2, RequestServed
    <3>2. threads[th].op = "journal"
      BY <3>1
    <3>3. e.requests[j].by = th
      BY <2>1
    <3> QED
      BY <2>1, <2>2, <3>1, <3>2
  <2>3. CASE j # 1
    <3>1. j - 1 \in 1 .. Len(f.requests) /\ f.requests[j - 1] = e.requests[j]
      BY <1>2, <1>3, <2>3, TailAt
    <3> QED
      BY <2>1, <3>1
  <2> QED
    BY <2>2, <2>3
<1>7. Sound(f, c, i, threads, ended)
  BY <1>1, <1>3, <1>4, <1>5, <1>6 DEF Sound
<1> QED
  BY <1>3, <1>7 DEF f

\* and answers any other request: whoever waits has the answer, and no other is in the connection.
LEMMA SoundServed ==
  ASSUME NEW e \in Entry, NEW c, NEW i, NEW threads, NEW ended, Sound(e, c, i, threads, ended),
         e.requests # <<>>, Head(e.requests).op # "journal",
         NEW a \in Answer, a.by = Head(e.requests).by, a.op = Head(e.requests).op
  PROVE  Sound([e EXCEPT !.requests = Tail(@), !.answers = Append(@, a)], c, i, threads, ended)
         /\ [e EXCEPT !.requests = Tail(@), !.answers = Append(@, a)] \in Entry
<1> DEFINE f == [e EXCEPT !.requests = Tail(@), !.answers = Append(@, a)]
<1>1. Meant(e, threads) /\ ~e.broken
  BY DEF Sound
<1>2. /\ Tail(e.requests) \in Seq(Request)
      /\ Asks(Head(e.requests), threads)
      /\ \A j \in 1 .. Len(Tail(e.requests)) :
           j + 1 \in 1 .. Len(e.requests) /\ j + 1 # 1 /\ Tail(e.requests)[j] = e.requests[j + 1]
      /\ 1 \in 1 .. Len(e.requests) /\ Head(e.requests) = e.requests[1]
  BY <1>1, RequestServed
<1>3. e.answers \in Seq(Answer)
  BY DEF Entry
<1>4. Append(e.answers, a) \in Seq(Answer) /\ Len(Append(e.answers, a)) = Len(e.answers) + 1
      /\ Append(e.answers, a) # <<>> /\ Append(e.answers, a)[Len(e.answers) + 1] = a
  BY <1>3, AppendedAt
<1>5. f \in Entry /\ f.broken = e.broken /\ f.answers = Append(e.answers, a) /\ f.requests = Tail(e.requests)
  BY <1>2, <1>4 DEF Entry
<1> HIDE DEF f
<1>6. Meant(f, threads)
  BY <1>1, <1>2, <1>5 DEF Meant
<1>7. ASSUME ended = None PROVE Exchange(f, c, i, threads)
  <2>1. Exchange(e, c, i, threads)
    BY <1>7 DEF Sound
  <2>2. e.answers = <<>> /\ Len(e.answers) = 0
    BY <1>2, <1>3, <2>1 DEF Exchange
  <2>3. Len(f.answers) = 1 /\ f.answers[1] = a
    BY <1>4, <1>5, <2>2
  <2>4. Asks(a, threads) /\ threads[a.by].entry = <<c, i>>
    BY <1>2, <2>1 DEF Exchange, Asks
  <2>5. \A j \in 1 .. Len(f.answers) : Asks(f.answers[j], threads) /\ threads[f.answers[j].by].entry = <<c, i>>
    BY <2>3, <2>4
  <2>6. ASSUME NEW j \in 1 .. Len(f.requests) PROVE f.requests[j].op = "journal"
    <3>1. j + 1 \in 1 .. Len(e.requests) /\ j + 1 # 1 /\ f.requests[j] = e.requests[j + 1]
      BY <1>2, <1>5
    <3>2. \A k \in 1 .. Len(e.requests) : e.requests[k].op # "journal" => k = 1
      BY <1>2, <2>1 DEF Exchange
    <3> QED
      BY <3>1, <3>2
  <2> QED
    BY <2>3, <2>5, <2>6 DEF Exchange
<1>8. Awaited(f, c, i, threads)
  BY <1>4, <1>5 DEF Awaited
<1>9. Sound(f, c, i, threads, ended)
  BY <1>1, <1>5, <1>6, <1>7, <1>8 DEF Sound
<1> QED
  BY <1>5, <1>9 DEF f

\* Who waits at an entry, and which threads move.
NobodyWaits(c, i, threads) == \A o \in Threads : threads[o].at = "wait" => threads[o].entry # <<c, i>>
NobodyElseWaits(th, c, i, threads) ==
  \A o \in Threads \ {th} : threads[o].at = "wait" => threads[o].entry # <<c, i>>
OnlyMoves(th, threads, after) == \A o \in Threads \ {th} : after[o] = threads[o]

\* Nobody waits for a connection: there are but JOURNALs in it.
LEMMA OnlyJournals ==
  ASSUME NEW e \in Entry, NEW c, NEW i, NEW threads, Sound(e, c, i, threads, None),
         NobodyWaits(c, i, threads)
  PROVE  Len(e.answers) = 0 /\ \A j \in 1 .. Len(e.requests) : e.requests[j].op = "journal"
<1>1. Meant(e, threads) /\ Exchange(e, c, i, threads)
  BY DEF Sound
<1>2. ASSUME NEW j \in 1 .. Len(e.requests) PROVE e.requests[j].op = "journal"
  BY <1>1 DEF Meant, Exchange, Asks, NobodyWaits
<1>3. ASSUME NEW j \in 1 .. Len(e.answers) PROVE FALSE
  BY <1>1 DEF Exchange, Asks, NobodyWaits
<1>4. Len(e.answers) \in Nat
  BY DEF Entry
<1>5. Len(e.answers) = 0
  <2> SUFFICES ASSUME Len(e.answers) # 0 PROVE FALSE
    OBVIOUS
  <2>1. 1 \in 1 .. Len(e.answers)
    BY <1>4
  <2> QED
    BY <1>3, <2>1
<1> QED
  BY <1>2, <1>5

\* A thread sends its request, if the connection is not broken, and waits.
LEMMA SoundSent ==
  ASSUME NEW e \in Entry, NEW c, NEW i, NEW threads, Sound(e, c, i, threads, None),
         NobodyWaits(c, i, threads), NEW th \in Threads, NEW after, OnlyMoves(th, threads, after),
         NEW op \in Ops, after[th].at = "wait", after[th].op = op, after[th].entry = <<c, i>>
  PROVE  IF e.broken THEN Sound(e, c, i, after, None)
         ELSE /\ Sound([e EXCEPT !.requests = Append(@, [by |-> th, op |-> op])], c, i, after, None)
              /\ [e EXCEPT !.requests = Append(@, [by |-> th, op |-> op])] \in Entry
<1>1. Len(e.answers) = 0 /\ \A j \in 1 .. Len(e.requests) : e.requests[j].op = "journal"
  BY OnlyJournals
<1>2. CASE e.broken
  <2>1. Meant(e, after) /\ Exchange(e, c, i, after)
    <3>1. e.requests = <<>> /\ Len(e.requests) = 0
      BY <1>2 DEF Sound
    <3> QED
      BY <1>1, <3>1 DEF Meant, Exchange
  <2>2. Awaited(e, c, i, after)
    BY <1>2 DEF Awaited
  <2> QED
    BY <1>2, <2>1, <2>2 DEF Sound
<1>3. CASE ~e.broken
  <2> DEFINE r == [by |-> th, op |-> op]
             f == [e EXCEPT !.requests = Append(@, r)]
  <2>1. r \in Request /\ r.by = th /\ r.op = op /\ r.op # "journal"
    BY DEF Request, Ops
  <2>2. e.requests \in Seq(Request)
    BY DEF Entry
  <2>4. r = [by |-> th, op |-> after[th].op]
    OBVIOUS
  <2> HIDE DEF r
  <2>5. f \in Entry /\ ~f.broken /\ f.answers = e.answers /\ f.requests = Append(e.requests, r)
    <3>1. Append(e.requests, r) \in Seq(Request)
      BY <2>1, <2>2, AppendedAt
    <3> QED
      BY <1>3, <3>1 DEF Entry
  <2> HIDE DEF f
  <2>6. /\ Len(f.requests) = Len(e.requests) + 1 /\ Len(e.requests) + 1 \in 1 .. Len(f.requests)
        /\ f.requests[Len(e.requests) + 1] = r
        /\ \A j \in 1 .. Len(f.requests) : j = Len(e.requests) + 1 \/ f.requests[j].op = "journal"
    BY <1>1, <2>1, <2>2, <2>5, AppendedAt
  <2>7. Asks(r, after) /\ after[r.by].entry = <<c, i>>
    BY <2>1 DEF Asks
  <2>8. Meant(f, after)
    BY <2>6, <2>7 DEF Meant
  <2>9. Exchange(f, c, i, after)
    <3>1. \A j \in 1 .. Len(f.requests) : f.requests[j].op # "journal" => after[f.requests[j].by].entry = <<c, i>>
      BY <2>6, <2>7
    <3>2. \A j, k \in 1 .. Len(f.requests) : f.requests[j].op # "journal" /\ f.requests[k].op # "journal" => j = k
      BY <2>6
    <3>3. f.answers = <<>>
      BY <1>1, <2>5, EmptyAt DEF Entry
    <3>4. Len(f.answers) = 0
      BY <1>1, <2>5
    <3> QED
      BY <3>1, <3>2, <3>3, <3>4 DEF Exchange
  <2>10. Awaited(f, c, i, after)
    <3> SUFFICES ASSUME NEW o \in Threads, after[o].at = "wait", after[o].entry = <<c, i>>
                 PROVE  \E j \in 1 .. Len(f.requests) : f.requests[j] = [by |-> o, op |-> after[o].op]
      BY DEF Awaited
    <3>1. o = th
      BY DEF NobodyWaits, OnlyMoves
    <3> QED
      BY <2>4, <2>6, <3>1
  <2>11. Sound(f, c, i, after, None)
    BY <2>5, <2>8, <2>9, <2>10 DEF Sound
  <2> QED
    BY <1>3, <2>5, <2>11 DEF f, r
<1> QED
  BY <1>2, <1>3

\* Of one answer none is left.
LEMMA OneLessIsNone == ASSUME NEW n \in Nat \ {0}, n <= 1 PROVE n - 1 = 0
OBVIOUS

\* A thread takes the answer, which is its own, and waits no more.
LEMMA SoundReceived ==
  ASSUME NEW e \in Entry, NEW c, NEW i, NEW threads, Sound(e, c, i, threads, None), e.answers # <<>>,
         NEW th \in Threads, threads[th].at = "wait", threads[th].entry = <<c, i>>,
         NobodyElseWaits(th, c, i, threads), NEW after, OnlyMoves(th, threads, after), after[th].at # "wait"
  PROVE  /\ Sound([e EXCEPT !.answers = Tail(@)], c, i, after, None) /\ [e EXCEPT !.answers = Tail(@)] \in Entry
         /\ Head(e.answers) \in Answer /\ Head(e.answers).by = th /\ Head(e.answers).op = threads[th].op
<1> DEFINE f == [e EXCEPT !.answers = Tail(@)]
<1>1. Exchange(e, c, i, threads) /\ e.answers \in Seq(Answer)
  BY DEF Sound, Entry
<1>2. /\ Tail(e.answers) \in Seq(Answer) /\ Len(Tail(e.answers)) = Len(e.answers) - 1 /\ Len(e.answers) \in Nat \ {0}
      /\ 1 \in 1 .. Len(e.answers) /\ Head(e.answers) = e.answers[1] /\ Head(e.answers) \in Answer
  BY <1>1, TailAt
<1>3. f \in Entry /\ f.broken = e.broken /\ f.requests = e.requests /\ f.answers = Tail(e.answers)
  BY <1>2 DEF Entry
<1> HIDE DEF f
<1>4. Len(f.answers) = 0 /\ f.answers = <<>>
  <2>1. Len(e.answers) <= 1
    BY <1>1 DEF Exchange
  <2>2. Len(e.answers) - 1 = 0
    BY <1>2, <2>1, OneLessIsNone
  <2>3. Len(f.answers) = 0
    BY <1>2, <1>3, <2>2
  <2> QED
    BY <1>2, <1>3, <2>3, EmptyAt
<1>5. Asks(Head(e.answers), threads) /\ threads[Head(e.answers).by].entry = <<c, i>>
  BY <1>1, <1>2 DEF Exchange
<1>6. Head(e.answers).by = th /\ Head(e.answers).op = threads[th].op
  BY <1>5 DEF Asks, NobodyElseWaits
<1>7. \A j \in 1 .. Len(f.requests) : f.requests[j].op = "journal"
  BY <1>1, <1>3 DEF Exchange
<1>8. Meant(f, after) /\ Exchange(f, c, i, after)
  BY <1>4, <1>7 DEF Meant, Exchange
<1>9. Awaited(f, c, i, after)
  BY DEF Awaited, NobodyElseWaits, OnlyMoves
<1>10. Sound(f, c, i, after, None)
  BY <1>3, <1>8, <1>9 DEF Sound
<1> QED
  BY <1>2, <1>3, <1>6, <1>10 DEF f

-----------------------------------------------------------------------------
(***************************************************************************)
(* Steps that change connections in their places.                          *)
(***************************************************************************)
\* The arrays keep their lengths and their memories.
SamePlaces == /\ MembersOK'
              /\ \A c \in CriteriaTypes :
                   /\ Len(members'[c]) = Len(members[c])
                   /\ \A i \in 1 .. Len(members[c]) : members'[c][i].mem = members[c][i].mem

\* One connection becomes e.
Becomes(c, i, e) ==
  /\ members' \in [CriteriaTypes -> Seq(Entry)]
  /\ \A d \in CriteriaTypes :
       /\ Len(members'[d]) = Len(members[d])
       /\ \A j \in 1 .. Len(members[d]) : members'[d][j] = IF d = c /\ j = i THEN e ELSE members[d][j]

\* It does, by an assignment to its field, and its memory is the same,
LEMMA EntryBecomes ==
  ASSUME MembersOK, NEW c \in CriteriaTypes, NEW i \in 1 .. Len(members[c]), NEW e \in Entry,
         members' = [members EXCEPT ![c] = [members[c] EXCEPT ![i] = e]], e.mem = members[c][i].mem
  PROVE  Becomes(c, i, e) /\ SamePlaces
<1>1. members \in [CriteriaTypes -> Seq(Entry)] /\ members[c] \in Seq(Entry)
  BY DEF MembersOK
<1> DEFINE s == [members[c] EXCEPT ![i] = e]
<1>2. s \in Seq(Entry) /\ Len(s) = Len(members[c]) /\ \A j \in 1 .. Len(members[c]) : s[j] = IF j = i THEN e ELSE members[c][j]
  BY <1>1, ExceptSeq
<1> HIDE DEF s
<1>3. members' = [members EXCEPT ![c] = s]
  BY DEF s
<1>4. members'[c] = s /\ (\A d \in CriteriaTypes : d # c => members'[d] = members[d])
      /\ members' \in [CriteriaTypes -> Seq(Entry)]
  BY <1>1, <1>2, <1>3
<1>5. Becomes(c, i, e)
  BY <1>2, <1>4 DEF Becomes
<1> QED
  BY <1>4, <1>5 DEF Becomes, SamePlaces, MembersOK

\* then no memory is twice in a criterion,
LEMMA SamePlacesOnce == ASSUME IInv, SamePlaces PROVE OncePerCriterion'
<1>1. ASSUME NEW c \in CriteriaTypes PROVE Distinct(members[c])'
  BY DEF IInv, OncePerCriterion, SamePlaces, Distinct
<1>2. Len(members'["SC"]) <= 1
  BY DEF IInv, OncePerCriterion, SamePlaces, CriteriaTypes
<1> QED
  BY <1>1, <1>2 DEF OncePerCriterion, Distinct

\* and if no thread moves either it is enough that connections are sound.
LEMMA SamePlacesPreserves ==
  ASSUME IInv, SamePlaces, ExternalOK', UNCHANGED <<thread, metadata, memoryIPMap, end>>, ConnectionsAreSound'
  PROVE  IInv'
<1>1. TInv'
  BY DEF IInv, TInv, SamePlaces, ThreadsOK
<1>2. AnswersAreOwn' /\ (end' = None => OneWaits')
  BY DEF IInv, CInv, AnswersAreOwn, OneWaits
<1>3. ASSUME end' = None PROVE EntriesAreThere'
  <2> SUFFICES ASSUME NEW th \in Holders
               PROVE  thread[th].entry[2] \in 1 .. Len(members'[thread[th].entry[1]])
    BY DEF EntriesAreThere, Holders
  <2>1. thread[th].entry[1] \in CriteriaTypes /\ thread[th].entry[2] \in 1 .. Len(members[thread[th].entry[1]])
    BY <1>3, EntryAt
  <2> QED
    BY <2>1 DEF SamePlaces
<1> QED
  BY <1>1, <1>2, <1>3, SamePlacesOnce DEF IInv, CInv

\* Every connection changes in its place.
LEMMA EachInPlace ==
  ASSUME IInv, UNCHANGED <<thread, end>>, members' = [c \in CriteriaTypes |-> members'[c]],
         \A c \in CriteriaTypes : members'[c] = [i \in DOMAIN members[c] |-> members'[c][i]],
         \A c \in CriteriaTypes : \A i \in 1 .. Len(members[c]) :
           /\ members'[c][i] \in Entry /\ members'[c][i].mem = members[c][i].mem
           /\ Sound(members'[c][i], c, i, thread, end)
  PROVE  SamePlaces /\ ConnectionsAreSound'
<1>1. ASSUME NEW c \in CriteriaTypes PROVE members'[c] \in Seq(Entry) /\ Len(members'[c]) = Len(members[c])
  <2>1. DOMAIN members[c] = 1 .. Len(members[c]) /\ Len(members[c]) \in Nat
    BY DEF IInv, TInv, MembersOK
  <2>2. PICK s : s = members'[c]
    OBVIOUS
  <2>3. s = [i \in 1 .. Len(members[c]) |-> s[i]] /\ \A i \in 1 .. Len(members[c]) : s[i] \in Entry
    BY <2>1, <2>2
  <2> QED
    BY <2>1, <2>2, <2>3
<1>2. MembersOK'
  BY <1>1 DEF MembersOK
<1>3. SamePlaces
  BY <1>1, <1>2 DEF SamePlaces
<1>4. ConnectionsAreSound'
  BY <1>1 DEF ConnectionsAreSound
<1> QED
  BY <1>3, <1>4

\* A memory stops.
LEMMA StopPreserves == ASSUME IInv, NEW m \in Memories, Stop(m) PROVE IInv' /\ SamePlaces
<1> DEFINE f(e) == IF e.mem = m THEN [e EXCEPT !.broken = TRUE, !.requests = <<>>] ELSE e
<1>1. members' = [c \in CriteriaTypes |-> [i \in DOMAIN members[c] |-> f(members[c][i])]]
      /\ UNCHANGED <<thread, metadata, memoryIPMap, end>>
  BY DEF Stop
<1>2. ExternalOK'
  BY DEF Stop, IInv, TInv, ExternalOK
<1>3. ASSUME NEW c \in CriteriaTypes, NEW i \in 1 .. Len(members[c])
      PROVE  /\ f(members[c][i]) \in Entry /\ f(members[c][i]).mem = members[c][i].mem
             /\ Sound(f(members[c][i]), c, i, thread, end)
  <2>1. members[c][i] \in Entry /\ Sound(members[c][i], c, i, thread, end)
    BY EntryOfArray DEF IInv, TInv, CInv, ConnectionsAreSound
  <2> DEFINE e == members[c][i]
  <2>2. [e EXCEPT !.broken = TRUE, !.requests = <<>>] \in Entry
        /\ Sound([e EXCEPT !.broken = TRUE, !.requests = <<>>], c, i, thread, end)
    BY <2>1, SoundWhenBroken
  <2>3. [e EXCEPT !.broken = TRUE, !.requests = <<>>].mem = e.mem
    BY <2>1 DEF Entry
  <2> QED
    BY <2>1, <2>2, <2>3
<1> HIDE DEF f
<1>4. \A c \in CriteriaTypes : \A i \in 1 .. Len(members[c]) : members'[c][i] = f(members[c][i])
  <2>1. \A c \in CriteriaTypes : DOMAIN members[c] = 1 .. Len(members[c])
    BY DEF IInv, TInv, MembersOK
  <2> QED
    BY <1>1, <2>1
<1>5. members' = [c \in CriteriaTypes |-> members'[c]]
      /\ \A c \in CriteriaTypes : members'[c] = [i \in DOMAIN members[c] |-> members'[c][i]]
  BY <1>1
<1>6. SamePlaces /\ ConnectionsAreSound'
  BY <1>1, <1>3, <1>4, <1>5, EachInPlace
<1> QED
  BY <1>1, <1>2, <1>6, SamePlacesPreserves

\* JOURNAL to all, Criterias_BroadcastJournal.
LEMMA BroadcastPreserves == ASSUME IInv, NEW th \in Threads, Criterias_BroadcastJournal(th) PROVE IInv' /\ SamePlaces
<1> DEFINE f(e) == IF e.broken THEN e ELSE [e EXCEPT !.requests = Append(@, [by |-> th, op |-> "journal"])]
<1>1. members' = [c \in CriteriaTypes |-> [i \in DOMAIN members[c] |-> f(members[c][i])]]
      /\ UNCHANGED <<external, thread, metadata, memoryIPMap, end>>
  BY DEF Criterias_BroadcastJournal
<1>2. ExternalOK'
  BY <1>1 DEF IInv, TInv, ExternalOK, external
<1>3. ASSUME NEW c \in CriteriaTypes, NEW i \in 1 .. Len(members[c])
      PROVE  /\ f(members[c][i]) \in Entry /\ f(members[c][i]).mem = members[c][i].mem
             /\ Sound(f(members[c][i]), c, i, thread, end)
  <2> DEFINE e == members[c][i]
             g == [e EXCEPT !.requests = Append(@, [by |-> th, op |-> "journal"])]
  <2>1. e \in Entry /\ Sound(e, c, i, thread, end)
    BY EntryOfArray DEF IInv, TInv, CInv, ConnectionsAreSound
  <2>2. ASSUME ~e.broken PROVE g \in Entry /\ Sound(g, c, i, thread, end)
    BY <2>1, <2>2, SoundWithJournal
  <2>3. g.mem = e.mem
    BY <2>1 DEF Entry
  <2> QED
    BY <2>1, <2>2, <2>3
<1> HIDE DEF f
<1>4. \A c \in CriteriaTypes : \A i \in 1 .. Len(members[c]) : members'[c][i] = f(members[c][i])
  <2>1. \A c \in CriteriaTypes : DOMAIN members[c] = 1 .. Len(members[c])
    BY DEF IInv, TInv, MembersOK
  <2> QED
    BY <1>1, <2>1
<1>5. members' = [c \in CriteriaTypes |-> members'[c]]
      /\ \A c \in CriteriaTypes : members'[c] = [i \in DOMAIN members[c] |-> members'[c][i]]
  BY <1>1
<1>6. SamePlaces /\ ConnectionsAreSound'
  BY <1>1, <1>3, <1>4, <1>5, EachInPlace
<1> QED
  BY <1>1, <1>2, <1>6, SamePlacesPreserves

\* What a memory answers, and what it makes of the tables.
LEMMA ResultsTypes ==
  ASSUME IInv, NEW m, NEW op \in Ops, NEW t, NEW ct \in Criteria, NEW r \in Results(m, op, t, ct)
  PROVE  r[1] \in {"ok", "full", "error"} /\ r[2] \in [Tables -> Criteria]
<1>1. tables \in [Tables -> Criteria]
  BY OtherThanThreads
<1>2. [tables EXCEPT ![t] = ct] \in [Tables -> Criteria]
  BY <1>1
<1>3. [tables EXCEPT ![t] = None] \in [Tables -> Criteria]
  BY <1>1 DEF Criteria
<1>4. CASE op = "select"
  BY <1>1, <1>4 DEF Results
<1>5. CASE op = "insert"
  BY <1>1, <1>5 DEF Results
<1>6. CASE op = "create"
  BY <1>1, <1>2, <1>6 DEF Results
<1>7. CASE op = "drop"
  BY <1>1, <1>3, <1>7 DEF Results
<1>8. CASE op \in {"describe", "global"}
  BY <1>1, <1>8 DEF Results
<1> QED
  BY <1>4, <1>5, <1>6, <1>7, <1>8 DEF Ops

\* One connection changes, and stays sound.
LEMMA OneEntryPreserves ==
  ASSUME IInv, NEW c \in CriteriaTypes, NEW i \in 1 .. Len(members[c]),
         NEW f \in Entry, Sound(f, c, i, thread, end), f.mem = members[c][i].mem,
         members' = [members EXCEPT ![c] = [members[c] EXCEPT ![i] = f]], ExternalOK',
         UNCHANGED <<thread, metadata, memoryIPMap, end>>
  PROVE  IInv' /\ SamePlaces
<1>1. MembersOK /\ members[c] \in Seq(Entry)
  BY DEF IInv, TInv, MembersOK
<1>2. Becomes(c, i, f) /\ SamePlaces
  BY <1>1, EntryBecomes
<1>3. ConnectionsAreSound'
  <2> SUFFICES ASSUME NEW d \in CriteriaTypes, NEW j \in 1 .. Len(members[d])
               PROVE  Sound(members'[d][j], d, j, thread, end)
    BY <1>2 DEF ConnectionsAreSound, Becomes
  <2>1. Sound(members[d][j], d, j, thread, end)
    BY DEF IInv, CInv, ConnectionsAreSound
  <2>2. members'[d][j] = IF d = c /\ j = i THEN f ELSE members[d][j]
    BY <1>2 DEF Becomes
  <2> QED
    BY <2>1, <2>2
<1> QED
  BY <1>2, <1>3, SamePlacesPreserves

\* A memory gives an answer that is refused.
LEMMA TooLargePreserves ==
  ASSUME IInv, NEW c \in CriteriaTypes, NEW i \in 1 .. Len(members[c]), Serve_TooLarge(c, i)
  PROVE  IInv' /\ SamePlaces
<1> DEFINE e == members[c][i]
           f == [e EXCEPT !.broken = TRUE, !.requests = <<>>]
<1>1. MembersOK /\ members[c] \in Seq(Entry) /\ e \in Entry /\ Sound(e, c, i, thread, end)
  BY EntryOfArray DEF IInv, TInv, CInv, ConnectionsAreSound
<1>2. UNCHANGED <<external, thread, metadata, memoryIPMap, end>>
  BY DEF Serve_TooLarge
<1>3. members' = [members EXCEPT ![c] = [members[c] EXCEPT ![i] = f]]
  BY <1>1 DEF Serve_TooLarge, MembersOK
<1>4. f \in Entry /\ Sound(f, c, i, thread, end)
  BY <1>1, SoundWhenBroken
<1>5. f.mem = e.mem
  BY <1>1 DEF Entry
<1>6. ExternalOK'
  BY <1>2 DEF IInv, TInv, ExternalOK, external
<1> HIDE DEF f
<1> QED
  BY <1>2, <1>3, <1>4, <1>5, <1>6, OneEntryPreserves

\* A memory serves a request.
LEMMA ServePreserves ==
  ASSUME IInv, NEW c \in CriteriaTypes, NEW i \in 1 .. Len(members[c]), Serve(c, i)
  PROVE  IInv' /\ SamePlaces
<1> DEFINE e == members[c][i]
<1>1. MembersOK /\ members[c] \in Seq(Entry) /\ e \in Entry /\ Sound(e, c, i, thread, end) /\ e.requests # <<>>
  BY EntryOfArray DEF IInv, TInv, CInv, ConnectionsAreSound, Serve
<1>2. UNCHANGED <<up, thread, metadata, memoryIPMap, end>>
  BY DEF Serve
<1>3. ASSUME NEW f \in Entry, Sound(f, c, i, thread, end), f.mem = e.mem,
             members' = [members EXCEPT ![c] = [members[c] EXCEPT ![i] = f]], ExternalOK'
      PROVE  IInv' /\ SamePlaces
  BY <1>2, <1>3, OneEntryPreserves
<1>4. CASE Head(e.requests).op = "journal"
  <2>1. \A th \in Threads : thread[th].at = "wait" => thread[th].op # "journal"
    BY EntryOfHolder DEF IInv, Ops
  <2> DEFINE f == [e EXCEPT !.requests = Tail(@)]
  <2>2. f \in Entry /\ Sound(f, c, i, thread, end)
    BY <1>1, <1>4, <2>1, SoundJournalServed
  <2>3. f.mem = e.mem
    BY <1>1 DEF Entry
  <2>4. full' = full \ {e.mem} /\ members' = [members EXCEPT ![c][i].requests = Tail(@)] /\ UNCHANGED tables
    BY <1>4 DEF Serve
  <2>5. members' = [members EXCEPT ![c] = [members[c] EXCEPT ![i] = f]]
    BY <1>1, <2>4 DEF MembersOK
  <2>6. ExternalOK'
    BY <1>2, <2>4 DEF IInv, TInv, ExternalOK
  <2> HIDE DEF f
  <2> QED
    BY <1>3, <2>2, <2>3, <2>5, <2>6
<1>5. CASE Head(e.requests).op # "journal"
  <2> DEFINE req == Head(e.requests)
  <2>1. req \in Request /\ Asks(req, thread)
    BY <1>1, <1>5, RequestServed DEF Sound
  <2>2. req.by \in Threads /\ req.op \in Ops
    BY <1>5, <2>1 DEF Request, Ops
  <2>3. thread[req.by].ct \in Criteria
    BY <2>1, EntryOfHolder DEF Asks, IInv
  <2>4. PICK r \in Results(e.mem, req.op, thread[req.by].table, thread[req.by].ct) :
          /\ tables' = r[2]
          /\ members' = [members EXCEPT ![c][i].requests = Tail(@), ![c][i].answers =
               Append(@, [by |-> req.by, op |-> req.op, result |-> r[1], tables |-> r[2]])]
          /\ UNCHANGED full
    BY <1>5 DEF Serve
  <2>5. r[1] \in {"ok", "full", "error"} /\ r[2] \in [Tables -> Criteria]
    BY <2>2, <2>3, ResultsTypes
  <2> DEFINE a == [by |-> req.by, op |-> req.op, result |-> r[1], tables |-> r[2]]
             f == [e EXCEPT !.requests = Tail(@), !.answers = Append(@, a)]
  <2>6. a \in Answer /\ a.by = req.by /\ a.op = req.op
    BY <2>2, <2>5 DEF Answer, Ops, Criteria
  <2>7. members' = [members EXCEPT ![c] = [members[c] EXCEPT ![i] = f]]
    BY <1>1, <2>4 DEF MembersOK
  <2> HIDE DEF a
  <2>8. f \in Entry /\ Sound(f, c, i, thread, end)
    BY <1>1, <1>5, <2>6, SoundServed
  <2>9. f.mem = e.mem
    BY <1>1 DEF Entry
  <2>10. ExternalOK'
    BY <1>2, <2>4, <2>5 DEF IInv, TInv, ExternalOK
  <2> HIDE DEF f
  <2> QED
    BY <1>3, <2>7, <2>8, <2>9, <2>10
<1> QED
  BY <1>4, <1>5

-----------------------------------------------------------------------------
(***************************************************************************)
(* Requests and answers.                                                   *)
(***************************************************************************)
\* A thread that has an entry moves and keeps it, or is done with it.
LEMMA HolderMove ==
  ASSUME IInv, end = None, NEW th \in Holders, NEW s \in States, MovesTo(th, s), SamePlaces,
         UNCHANGED <<external, metadata, memoryIPMap, end>>, ConnectionsAreSound',
         s.at \in {"lock", "wait", "journal", "answered"} => s.entry = thread[th].entry,
         s.at = "wait" => \A o \in Threads \ {th} : thread[o].at = "wait" => thread[o].entry # s.entry,
         s.at = "answered" => s.answer.by = th /\ s.answer.op = s.op
  PROVE  IInv'
<1>1. th \in Threads /\ ThreadsOK
  BY DEF Holders, IInv, TInv
<1>2. ThreadsOK' /\ thread'[th] = s /\ \A o \in Threads \ {th} : thread'[o] = thread[o]
  BY <1>1, OneMoves
<1>3. TInv'
  BY <1>2 DEF IInv, TInv, ExternalOK, SamePlaces, external
<1>4. AnswersAreOwn'
  BY <1>2 DEF IInv, CInv, AnswersAreOwn
<1>5. OneWaits'
  <2> SUFFICES ASSUME NEW o \in Threads, NEW p \in Threads, thread'[o].at = "wait", thread'[p].at = "wait",
                      thread'[o].entry = thread'[p].entry
               PROVE  o = p
    BY DEF OneWaits
  <2>1. CASE o # th /\ p # th
    BY <1>2, <2>1 DEF IInv, CInv, OneWaits
  <2>2. CASE o = th /\ p # th
    BY <1>2, <2>2
  <2>3. CASE o # th /\ p = th
    BY <1>2, <2>3
  <2> QED
    BY <2>1, <2>2, <2>3
<1>6. EntriesAreThere'
  <2> SUFFICES ASSUME NEW o \in Holders'
               PROVE  thread'[o].entry[2] \in 1 .. Len(members'[thread'[o].entry[1]])
    BY DEF EntriesAreThere
  <2>1. o \in Threads
    BY DEF Holders
  <2>2. CASE o = th
    <3>1. thread'[o].entry = thread[th].entry
      BY <1>2, <2>2 DEF Holders
    <3>2. thread[th].entry[1] \in CriteriaTypes /\ thread[th].entry[2] \in 1 .. Len(members[thread[th].entry[1]])
      BY EntryAt
    <3> QED
      BY <3>1, <3>2 DEF SamePlaces
  <2>3. CASE o # th
    <3>1. o \in Holders /\ thread'[o] = thread[o]
      BY <1>2, <2>1, <2>3 DEF Holders
    <3>2. thread[o].entry[1] \in CriteriaTypes /\ thread[o].entry[2] \in 1 .. Len(members[thread[o].entry[1]])
      BY <3>1, EntryAt
    <3> QED
      BY <3>1, <3>2 DEF SamePlaces
  <2> QED
    BY <2>2, <2>3
<1> QED
  BY <1>3, <1>4, <1>5, <1>6, SamePlacesOnce DEF IInv, CInv

\* The connection of a thread becomes f, and the others stay sound.
LEMMA SoundAfterExchange ==
  ASSUME IInv, end = None, NEW th \in Holders, NEW c, NEW i, thread[th].entry = <<c, i>>, NEW f, Becomes(c, i, f),
         end' = None, \A o \in Threads \ {th} : thread'[o] = thread[o],
         thread'[th].at = "wait" => thread'[th].entry = <<c, i>>,
         \A d \in CriteriaTypes : \A j \in 1 .. Len(members[d]) : d # c \/ j # i => Silent(th, members[d][j]),
         Sound(f, c, i, thread', None)
  PROVE  ConnectionsAreSound'
<1> SUFFICES ASSUME NEW d \in CriteriaTypes, NEW j \in 1 .. Len(members[d])
             PROVE  Sound(members'[d][j], d, j, thread', None)
  BY DEF ConnectionsAreSound, Becomes
<1>1. members'[d][j] = IF d = c /\ j = i THEN f ELSE members[d][j]
  BY DEF Becomes
<1>2. CASE d = c /\ j = i
  BY <1>1, <1>2
<1>3. CASE d # c \/ j # i
  <2>1. Sound(members[d][j], d, j, thread, None) /\ th \in Threads
    BY DEF IInv, CInv, ConnectionsAreSound, Holders
  <2>2. thread'[th].at = "wait" => thread'[th].entry # <<d, j>>
    BY <1>3
  <2>3. Silent(th, members[d][j]) /\ members'[d][j] = members[d][j]
    BY <1>1, <1>3
  <2> QED
    BY <2>1, <2>2, <2>3, SoundForOthers
<1> QED
  BY <1>2, <1>3

\* What Put does to the arrays.
LEMMA PutBecomes ==
  ASSUME IInv, end = None, NEW th \in Holders, NEW op, Put(th, op),
         NEW c, NEW i, thread[th].entry = <<c, i>>, NEW f,
         f = IF At(th).broken THEN At(th) ELSE [At(th) EXCEPT !.requests = Append(@, [by |-> th, op |-> op])],
         f \in Entry
  PROVE  Becomes(c, i, f) /\ SamePlaces
<1>1. c \in CriteriaTypes /\ i \in 1 .. Len(members[c]) /\ At(th) = members[c][i] /\ At(th) \in Entry
  BY EntryAt
<1>2. MembersOK /\ members[c] \in Seq(Entry)
  BY <1>1 DEF IInv, TInv, MembersOK
<1>3. CASE At(th).broken
  <2>1. members' = members /\ f = members[c][i]
    BY <1>1, <1>3 DEF Put
  <2> QED
    BY <1>2, <2>1 DEF Becomes, SamePlaces, MembersOK
<1>4. CASE ~At(th).broken
  <2>1. members' = [members EXCEPT ![c][i].requests = Append(@, [by |-> th, op |-> op])]
    BY <1>4 DEF Put
  <2>2. f = [members[c][i] EXCEPT !.requests = Append(@, [by |-> th, op |-> op])]
    BY <1>1, <1>4
  <2>3. members' = [members EXCEPT ![c] = [members[c] EXCEPT ![i] = f]]
    BY <1>1, <1>2, <2>1, <2>2 DEF MembersOK
  <2>4. f.mem = members[c][i].mem
    BY <1>1, <2>2 DEF Entry
  <2> QED
    BY <1>1, <1>2, <2>3, <2>4, EntryBecomes
<1> QED
  BY <1>3, <1>4

\* Memory_SendRequestWithAnswer, under MemLock.
LEMMA SendPreserves == ASSUME IInv, NEW th \in Threads, Memory_SendRequestWithAnswer(th) PROVE IInv' /\ SamePlaces
<1>1. end = None /\ thread[th].at = "lock" /\ MemLockFree(th) /\ Put(th, thread[th].op) /\ th \in Holders
      /\ UNCHANGED <<external, metadata, memoryIPMap, end>>
  BY DEF Memory_SendRequestWithAnswer, Holders
<1>2. PICK c, i : /\ thread[th].entry = <<c, i>> /\ c \in CriteriaTypes /\ i \in 1 .. Len(members[c])
                  /\ At(th) = members[c][i] /\ At(th) \in Entry
  BY <1>1, EntryAt
<1>3. thread[th] \in Sending
  BY <1>1, OtherThanThreads, StateOfPlace
<1> DEFINE s == [thread[th] EXCEPT !.at = "wait"]
<1>4. s \in Sending /\ s.at = "wait" /\ s.entry = <<c, i>> /\ s.op = thread[th].op /\ s.op \in Ops
  BY <1>2, <1>3 DEF Sending
<1>5. MovesTo(th, s)
  BY OtherThanThreads DEF Memory_SendRequestWithAnswer, MovesTo
<1> HIDE DEF s
<1>6. s \in States
  BY <1>4 DEF States
<1>7. thread'[th] = s /\ \A o \in Threads \ {th} : thread'[o] = thread[o]
  BY <1>5, <1>6, OneMoves DEF IInv, TInv
<1>8. \A o \in Threads : thread[o].at = "wait" => thread[o].entry # <<c, i>>
  BY <1>1, <1>2 DEF MemLockFree
<1>9. Sound(At(th), c, i, thread, None)
  BY <1>1, <1>2 DEF IInv, CInv, ConnectionsAreSound
<1> DEFINE g == [At(th) EXCEPT !.requests = Append(@, [by |-> th, op |-> thread[th].op])]
           f == IF At(th).broken THEN At(th) ELSE g
<1>10. IF At(th).broken THEN Sound(At(th), c, i, thread', None) ELSE Sound(g, c, i, thread', None) /\ g \in Entry
  <2>1. thread'[th].at = "wait" /\ thread'[th].op = thread[th].op /\ thread'[th].entry = <<c, i>>
        /\ thread[th].op \in Ops
    BY <1>4, <1>7
  <2>2. OnlyMoves(th, thread, thread') /\ NobodyWaits(c, i, thread)
    BY <1>7, <1>8 DEF OnlyMoves, NobodyWaits
  <2>3. At(th) \in Entry
    BY <1>2
  <2> QED
    BY <1>9, <2>1, <2>2, <2>3, SoundSent
<1>11. Sound(f, c, i, thread', None) /\ f \in Entry
  BY <1>2, <1>10
<1>12. Becomes(c, i, f) /\ SamePlaces
  BY <1>1, <1>2, <1>11, PutBecomes
<1> HIDE DEF f
<1>13. \A d \in CriteriaTypes : \A j \in 1 .. Len(members[d]) : Silent(th, members[d][j])
  BY <1>1, SilentUnlessWaiting
<1>14. ConnectionsAreSound'
  BY <1>1, <1>2, <1>4, <1>7, <1>11, <1>12, <1>13, SoundAfterExchange
<1> QED
  BY <1>1, <1>2, <1>4, <1>5, <1>6, <1>8, <1>12, <1>14, HolderMove

\* Who waits at an entry is silent in all others.
LEMMA SilentElsewhere ==
  ASSUME IInv, end = None, NEW th \in Threads, NEW c, NEW i, thread[th].entry = <<c, i>>,
         NEW d \in CriteriaTypes, NEW j \in 1 .. Len(members[d]), d # c \/ j # i
  PROVE  Silent(th, members[d][j])
<1>1. PICK e : e = members[d][j]
  OBVIOUS
<1>2. Exchange(e, d, j, thread)
  BY <1>1 DEF IInv, CInv, ConnectionsAreSound, Sound
<1>3. thread[th].entry # <<d, j>>
  OBVIOUS
<1>4. \A k \in 1 .. Len(e.requests) : e.requests[k].op # "journal" => e.requests[k].by # th
  BY <1>2, <1>3 DEF Exchange
<1>5. \A k \in 1 .. Len(e.answers) : e.answers[k].by # th
  BY <1>2, <1>3 DEF Exchange
<1> QED
  BY <1>1, <1>4, <1>5 DEF Silent

\* It receives its answer.
LEMMA ReceivePreserves == ASSUME IInv, NEW th \in Threads, Receive(th) PROVE IInv' /\ SamePlaces
<1>1. end = None /\ thread[th].at = "wait" /\ At(th).answers # <<>> /\ th \in Holders
      /\ UNCHANGED <<external, metadata, memoryIPMap, end>>
  BY DEF Receive, Holders
<1>2. PICK c, i : /\ thread[th].entry = <<c, i>> /\ c \in CriteriaTypes /\ i \in 1 .. Len(members[c])
                  /\ At(th) = members[c][i] /\ At(th) \in Entry
  BY <1>1, EntryAt
<1>3. thread[th] \in Sending
  BY <1>1, OtherThanThreads, StateOfPlace
<1>4. Sound(At(th), c, i, thread, None)
  BY <1>1, <1>2 DEF IInv, CInv, ConnectionsAreSound
<1>5. \A o \in Threads \ {th} : thread[o].at = "wait" => thread[o].entry # <<c, i>>
  BY <1>1, <1>2 DEF IInv, CInv, OneWaits
<1> DEFINE a == Head(At(th).answers)
           s == [thread[th] EXCEPT !.at = "answered", !.answer = a]
           f == [At(th) EXCEPT !.answers = Tail(@)]
<1>6. MovesTo(th, s)
  BY OtherThanThreads DEF Receive, MovesTo
<1>7. s.at = "answered" /\ s.answer = a /\ s.op = thread[th].op /\ s.entry = thread[th].entry
  BY <1>3 DEF Sending
<1>8. thread'[th] = s /\ \A o \in Threads \ {th} : thread'[o] = thread[o]
  BY <1>6, OtherThanThreads DEF MovesTo
<1> HIDE DEF s
<1>9. Sound(f, c, i, thread', None) /\ f \in Entry /\ a \in Answer /\ a.by = th /\ a.op = thread[th].op
  <2>1. PICK e, after : e = At(th) /\ after = thread'
    OBVIOUS
  <2>2. OnlyMoves(th, thread, after) /\ NobodyElseWaits(th, c, i, thread) /\ after[th].at # "wait"
    BY <1>5, <1>7, <1>8, <2>1 DEF OnlyMoves, NobodyElseWaits
  <2>3. e \in Entry /\ e.answers # <<>> /\ Sound(e, c, i, thread, None)
        /\ thread[th].at = "wait" /\ thread[th].entry = <<c, i>>
    BY <1>1, <1>2, <1>4, <2>1
  <2> HIDE DEF f, a
  <2>4. /\ Sound([e EXCEPT !.answers = Tail(@)], c, i, after, None) /\ [e EXCEPT !.answers = Tail(@)] \in Entry
        /\ Head(e.answers) \in Answer /\ Head(e.answers).by = th /\ Head(e.answers).op = thread[th].op
    BY <2>2, <2>3, SoundReceived, SMTT(40)
  <2> QED
    BY <2>1, <2>4 DEF f, a
<1>10. s \in States
  <2>1. s \in Answered
    BY <1>3, <1>9 DEF Answered, Sending, s
  <2> QED
    BY <2>1 DEF States
<1>11. Becomes(c, i, f) /\ SamePlaces
  <2>1. MembersOK /\ members[c] \in Seq(Entry)
    BY <1>2 DEF IInv, TInv, MembersOK
  <2>2. members' = [members EXCEPT ![c][i].answers = Tail(@)]
    BY <1>2 DEF Receive
  <2>3. members' = [members EXCEPT ![c] = [members[c] EXCEPT ![i] = f]]
    BY <1>2, <2>1, <2>2 DEF MembersOK
  <2>4. f.mem = members[c][i].mem
    BY <1>2 DEF Entry
  <2> QED
    BY <1>2, <1>9, <2>1, <2>3, <2>4, EntryBecomes
<1> HIDE DEF f
<1>12. ConnectionsAreSound'
  BY <1>1, <1>2, <1>7, <1>8, <1>9, <1>11, SilentElsewhere, SoundAfterExchange
<1> QED
  BY <1>1, <1>6, <1>7, <1>9, <1>10, <1>11, <1>12, HolderMove

\* JOURNAL to a memory that is full, Memory_SendRequest.
LEMMA JournalPreserves == ASSUME IInv, NEW th \in Threads, Memory_SendRequest(th) PROVE IInv' /\ SamePlaces
<1>1. end = None /\ thread[th].at = "journal" /\ Put(th, "journal") /\ th \in Holders
      /\ UNCHANGED <<external, metadata, memoryIPMap, end>>
  BY DEF Memory_SendRequest, Holders
<1>2. PICK c, i : /\ thread[th].entry = <<c, i>> /\ c \in CriteriaTypes /\ i \in 1 .. Len(members[c])
                  /\ At(th) = members[c][i] /\ At(th) \in Entry
  BY <1>1, EntryAt
<1>3. thread[th] \in Sending
  BY <1>1, OtherThanThreads, StateOfPlace
<1> DEFINE s == IF thread[th].op = "insert" THEN [thread[th] EXCEPT !.at = "lock"] ELSE Idle
<1>4. s \in States /\ s.at \in {"lock", "idle"} /\ (s.at = "lock" => s.entry = thread[th].entry)
  BY <1>3 DEF Sending, States, Idle
<1>5. MovesTo(th, s)
  BY OtherThanThreads DEF Memory_SendRequest, MovesTo
<1> HIDE DEF s
<1>6. thread'[th] = s /\ \A o \in Threads \ {th} : thread'[o] = thread[o]
  BY <1>4, <1>5, OneMoves DEF IInv, TInv
<1> DEFINE g == [At(th) EXCEPT !.requests = Append(@, [by |-> th, op |-> "journal"])]
           f == IF At(th).broken THEN At(th) ELSE g
<1>7. Sound(At(th), c, i, thread, None) /\ Silent(th, At(th))
  BY <1>1, <1>2, SilentUnlessWaiting DEF IInv, CInv, ConnectionsAreSound
<1>8. Sound(At(th), c, i, thread', None)
  BY <1>4, <1>6, <1>7, SoundForOthers
<1>9. ~At(th).broken => Sound(g, c, i, thread', None) /\ g \in Entry
  BY <1>2, <1>8, SoundWithJournal
<1>10. Sound(f, c, i, thread', None) /\ f \in Entry
  BY <1>2, <1>8, <1>9
<1>11. Becomes(c, i, f) /\ SamePlaces
  BY <1>1, <1>2, <1>10, PutBecomes
<1> HIDE DEF f
<1>12. ConnectionsAreSound'
  <2>1. \A d \in CriteriaTypes : \A j \in 1 .. Len(members[d]) : Silent(th, members[d][j])
    BY <1>1, SilentUnlessWaiting
  <2>2. thread'[th].at # "wait"
    BY <1>4, <1>6
  <2> QED
    BY <1>1, <1>2, <1>6, <1>10, <1>11, <2>1, <2>2, SoundAfterExchange
<1> QED
  BY <1>1, <1>4, <1>5, <1>11, <1>12, HolderMove

-----------------------------------------------------------------------------
(***************************************************************************)
(* Steps that take memories out of the criteria.                           *)
(***************************************************************************)
Disconnected(gone) == members' = [c \in CriteriaTypes |-> Without(members[c], gone)]

\* The arrays that are left.
LEMMA DisconnectedHas ==
  ASSUME IInv, NEW gone, Disconnected(gone)
  PROVE  /\ MembersOK' /\ OncePerCriterion'
         /\ \A c \in CriteriaTypes : Remains(members'[c], members[c], gone)
<1>1. ASSUME NEW c \in CriteriaTypes
      PROVE  members'[c] \in Seq(Entry) /\ Remains(members'[c], members[c], gone) /\ members[c] \in Seq(Entry)
  <2>1. members[c] \in Seq(Entry)
    BY DEF IInv, TInv, MembersOK
  <2>2. members'[c] = Without(members[c], gone)
    BY DEF Disconnected
  <2> QED
    BY <2>1, <2>2, WithoutHas
<1>2. members' = [c \in CriteriaTypes |-> members'[c]]
  BY DEF Disconnected
<1>3. MembersOK'
  BY <1>1, <1>2 DEF MembersOK
<1>4. \A c \in CriteriaTypes : Distinct(members'[c])
  BY <1>1 DEF Remains, IInv, OncePerCriterion
<1>5. Len(members'["SC"]) <= 1
  <2> DEFINE r == members'["SC"]
             s == members["SC"]
  <2>1. Len(r) \in Nat /\ Len(s) \in Nat /\ Len(s) <= 1 /\ Distinct(r) /\ Remains(r, s, gone)
    BY <1>1, <1>4 DEF CriteriaTypes, IInv, OncePerCriterion
  <2> HIDE DEF r, s
  <2> SUFFICES ASSUME Len(r) > 1 PROVE FALSE
    BY <2>1 DEF r
  <2>2. 1 \in 1 .. Len(r) /\ 2 \in 1 .. Len(r)
    BY <2>1
  <2>3. \A i \in 1 .. Len(s) : i = 1
    BY <2>1
  <2>4. r[1] = s[1] /\ r[2] = s[1]
    BY <2>1, <2>2, <2>3 DEF Remains
  <2> QED
    BY <2>1, <2>2, <2>4 DEF Distinct
<1> QED
  BY <1>1, <1>3, <1>4, <1>5 DEF OncePerCriterion, Distinct

\* No other thread has an entry that goes, or moves.
Unmoved(th, gone) ==
  \A o \in Holders \ {th} : \A j \in 1 .. thread[o].entry[2] : members[thread[o].entry[1]][j].mem \notin gone

\* The entry of another thread is where it was.
LEMMA EntryStays ==
  ASSUME IInv, end = None, NEW th, NEW gone, Disconnected(gone), Unmoved(th, gone), NEW o \in Holders \ {th},
         NEW c, NEW j, thread[o].entry = <<c, j>>
  PROVE  /\ c \in CriteriaTypes /\ j \in 1 .. Len(members[c]) /\ j \in 1 .. Len(members'[c])
         /\ members'[c][j] = members[c][j]
<1>1. c \in CriteriaTypes /\ j \in 1 .. Len(members[c])
  BY EntryAt
<1>2. \A i \in 1 .. j : members[c][i].mem \notin gone
  BY DEF Unmoved
<1>3. j <= Len(members'[c]) /\ \A i \in 1 .. j : members'[c][i] = members[c][i]
  BY <1>1, <1>2, DisconnectedHas DEF Remains
<1>4. j \in 1 .. j /\ members'[c] \in Seq(Entry)
  BY <1>1, DisconnectedHas DEF MembersOK
<1> QED
  BY <1>1, <1>3, <1>4

\* A thread waits no more; a connection in which but it had something, or nobody, has moved.
LEMMA SoundWhenMoved ==
  ASSUME NEW e \in Entry, NEW c, NEW i, NEW k, NEW threads, Sound(e, c, i, threads, None),
         NEW th \in Threads, Silent(th, e), NobodyElseWaits(th, c, i, threads),
         NEW after, OnlyMoves(th, threads, after), NobodyWaits(c, k, after)
  PROVE  Sound(e, c, k, after, None)
<1>1. Meant(e, threads) /\ Exchange(e, c, i, threads) /\ (e.broken => e.requests = <<>>)
  BY DEF Sound
<1>2. ASSUME NEW j \in 1 .. Len(e.requests), e.requests[j].op # "journal" PROVE FALSE
  <2>1. Asks(e.requests[j], threads) /\ threads[e.requests[j].by].entry = <<c, i>> /\ e.requests[j].by # th
    BY <1>1, <1>2 DEF Meant, Exchange, Silent
  <2> QED
    BY <2>1 DEF Asks, NobodyElseWaits
<1>3. \A j \in 1 .. Len(e.answers) : FALSE
  BY <1>1 DEF Exchange, Asks, NobodyElseWaits, Silent
<1>4. Len(e.answers) <= 1
  BY <1>1 DEF Exchange
<1>5. Meant(e, after) /\ Exchange(e, c, k, after)
  BY <1>2, <1>3, <1>4 DEF Meant, Exchange
<1>6. Awaited(e, c, k, after)
  BY DEF Awaited, NobodyWaits
<1> QED
  BY <1>1, <1>5, <1>6 DEF Sound

\* A connection that remains is sound, even if the step is undefined.
LEMMA SoundStill ==
  ASSUME IInv, end = None, NEW th \in Threads, MovesTo(th, Idle), NEW gone, Disconnected(gone),
         end' = None => Unmoved(th, gone), NEW c \in CriteriaTypes, NEW k \in 1 .. Len(members'[c]),
         \A i \in 1 .. Len(members[c]) : members[c][i].mem \notin gone => Silent(th, members[c][i])
  PROVE  Sound(members'[c][k], c, k, thread', end')
<1>1. thread'[th] = Idle /\ \A o \in Threads \ {th} : thread'[o] = thread[o]
  BY OtherThanThreads DEF MovesTo
<1>2. PICK i \in 1 .. Len(members[c]) : members'[c][k] = members[c][i] /\ members[c][i].mem \notin gone
  <2>1. Remains(members'[c], members[c], gone)
    BY DisconnectedHas
  <2> QED
    BY <2>1 DEF Remains
<1>3. PICK e : e = members[c][i]
  OBVIOUS
<1>4. e \in Entry /\ Sound(e, c, i, thread, None) /\ Silent(th, e)
  BY <1>2, <1>3, EntryOfArray DEF IInv, TInv, CInv, ConnectionsAreSound
<1>5. Idle.at # "wait"
  BY DEF Idle
<1>6. ASSUME end' # None PROVE Sound(e, c, k, thread', end')
  <2>1. Meant(e, thread')
    BY <1>1, <1>4 DEF Sound, Meant, Silent, Asks
  <2> QED
    BY <1>4, <1>6, <2>1 DEF Sound
<1>7. CASE end' = None /\ k = i
  <2>1. thread'[th].at # "wait"
    BY <1>1, <1>5
  <2>2. Sound(e, c, i, thread', end')
    BY <1>1, <1>4, <2>1, SoundForOthers
  <2> QED
    BY <1>2, <1>3, <1>7, <2>2
<1>8. CASE end' = None /\ k # i
  <2>1. ASSUME NEW o \in Threads \ {th}, thread[o].at = "wait", NEW j \in {i, k}, thread[o].entry = <<c, j>>
        PROVE  FALSE
    <3>1. o \in Holders \ {th}
      BY <2>1 DEF Holders
    <3>2. j \in 1 .. Len(members[c]) /\ j \in 1 .. Len(members'[c]) /\ members'[c][j] = members[c][j]
      BY <1>8, <2>1, <3>1, EntryStays
    <3>3. CASE j = i
      <4>1. members'[c][i] = members'[c][k]
        BY <1>2, <3>2, <3>3
      <4> QED
        BY <1>8, <3>2, <3>3, <4>1, DisconnectedHas DEF OncePerCriterion, Distinct
    <3>4. CASE j = k
      <4>1. members[c][k] = members[c][i]
        BY <1>2, <3>2, <3>4
      <4> QED
        BY <1>8, <3>2, <3>4, <4>1 DEF IInv, OncePerCriterion, Distinct
    <3> QED
      BY <3>3, <3>4
  <2>2. NobodyElseWaits(th, c, i, thread)
    BY <2>1 DEF NobodyElseWaits
  <2>3. NobodyWaits(c, k, thread')
    BY <1>1, <1>5, <2>1 DEF NobodyWaits
  <2>4. OnlyMoves(th, thread, thread')
    BY <1>1 DEF OnlyMoves
  <2>5. PICK after : after = thread'
    OBVIOUS
  <2>6. Sound(e, c, k, after, None)
    BY <1>4, <2>2, <2>3, <2>4, <2>5, SoundWhenMoved
  <2> QED
    BY <1>2, <1>3, <1>8, <2>5, <2>6
<1> QED
  BY <1>2, <1>3, <1>6, <1>7, <1>8

\* A thread is done, and memories go with it.
LEMMA DisconnectPreserves ==
  ASSUME IInv, end = None, NEW th \in Threads, MovesTo(th, Idle), NEW gone, Disconnected(gone),
         UNCHANGED <<external, metadata>>, memoryIPMap' \subseteq Keys,
         end' \in {None, "crash", "undefined"}, end' = None => Unmoved(th, gone),
         \A c \in CriteriaTypes : \A i \in 1 .. Len(members[c]) :
           members[c][i].mem \notin gone => Silent(th, members[c][i])
  PROVE  IInv'
<1>1. Idle \in States /\ Idle.at = "idle"
  BY DEF Idle, States
<1>2. ThreadsOK' /\ thread'[th] = Idle /\ \A o \in Threads \ {th} : thread'[o] = thread[o]
  BY <1>1, OneMoves DEF IInv, TInv
<1>3. TInv'
  BY <1>2, DisconnectedHas DEF IInv, TInv, ExternalOK, external
<1>4. ConnectionsAreSound'
  BY SoundStill DEF ConnectionsAreSound
<1>5. AnswersAreOwn'
  BY <1>1, <1>2 DEF IInv, CInv, AnswersAreOwn
<1>6. OneWaits'
  BY <1>1, <1>2 DEF IInv, CInv, OneWaits
<1>7. ASSUME end' = None PROVE EntriesAreThere'
  <2> SUFFICES ASSUME NEW o \in Holders'
               PROVE  thread'[o].entry[2] \in 1 .. Len(members'[thread'[o].entry[1]])
    BY DEF EntriesAreThere
  <2>1. o \in Holders \ {th} /\ thread'[o] = thread[o]
    BY <1>1, <1>2 DEF Holders
  <2>2. thread[o].entry = <<thread[o].entry[1], thread[o].entry[2]>>
    BY <2>1, EntryAt
  <2> QED
    BY <1>7, <2>1, <2>2, EntryStays
<1> QED
  BY <1>3, <1>4, <1>5, <1>6, <1>7, DisconnectedHas DEF IInv, CInv

\* Who holds nothing that moves.
LEMMA UnmovedUnlessHeld ==
  ASSUME NEW th, NEW ms, \A m \in ms : ~HeldByOthers(th, m), NEW gone \in SUBSET ms
  PROVE  Unmoved(th, gone)
BY DEF Unmoved, HeldByOthers

\* A memory that went down while a thread waited for it.
LEMMA DownPreserves == ASSUME IInv, NEW th \in Threads, MemoryDown(th) PROVE IInv'
<1> DEFINE m    == At(th).mem
           gone == {m} \cap memoryIPMap
<1>1. end = None /\ thread[th].at = "wait" /\ At(th).answers = <<>> /\ At(th).broken /\ th \in Holders
      /\ UNCHANGED <<external, metadata>> /\ memoryIPMap' = memoryIPMap \ {m} /\ MovesTo(th, Idle)
      /\ end' \in {None, "crash", "undefined"} /\ (end' = None => ~HeldByOthers(th, m))
  BY DEF MemoryDown, Holders, MovesTo, None
<1>2. Disconnected(gone)
  BY DEF MemoryDown, _disconnectMemories, Disconnected
<1>3. PICK c, i : /\ thread[th].entry = <<c, i>> /\ c \in CriteriaTypes /\ i \in 1 .. Len(members[c])
                  /\ At(th) = members[c][i] /\ At(th) \in Entry
  BY <1>1, EntryAt
<1>4. memoryIPMap' \subseteq Keys
  BY <1>1, OtherThanThreads
<1>5. end' = None => Unmoved(th, gone)
  BY <1>1, UnmovedUnlessHeld
<1>6. Silent(th, At(th))
  <2>1. At(th).requests = <<>>
    BY <1>1, <1>3 DEF IInv, CInv, ConnectionsAreSound, Sound
  <2>2. Len(At(th).requests) = 0 /\ Len(At(th).answers) = 0
    BY <1>1, <2>1
  <2> QED
    BY <2>2 DEF Silent
<1> HIDE DEF gone
<1>7. ASSUME NEW d \in CriteriaTypes, NEW j \in 1 .. Len(members[d]) PROVE Silent(th, members[d][j])
  <2>1. CASE d = c /\ j = i
    BY <1>3, <1>6, <2>1
  <2>2. CASE d # c \/ j # i
    BY <1>1, <1>3, <2>2, SilentElsewhere
  <2> QED
    BY <2>1, <2>2
<1> QED
  BY <1>1, <1>2, <1>4, <1>5, <1>7, DisconnectPreserves

\* The end of a discovery.
LEMMA EndUpdatePreserves == ASSUME IInv, NEW th \in Threads, EndUpdate(th) PROVE IInv'
<1> DEFINE old  == (memoryIPMap \ thread[th].diff) \ {SeedKey}
           gone == old \cap memoryIPMap
<1>1. end = None /\ thread[th].at = "discover"
      /\ UNCHANGED <<external, metadata>> /\ memoryIPMap' = thread[th].diff /\ MovesTo(th, Idle)
      /\ end' \in {None, "crash", "undefined"} /\ (end' = None => \A m \in old : ~HeldByOthers(th, m))
  BY DEF EndUpdate, MovesTo, None
<1>2. Disconnected(gone)
  BY DEF EndUpdate, _disconnectMemories, Disconnected
<1>3. thread[th] \in Discovering \cup Visiting
  BY <1>1, OtherThanThreads, StateOfPlace
<1>4. memoryIPMap' \subseteq Keys
  BY <1>1, <1>3 DEF Discovering, Visiting, Keys
<1>5. end' = None => Unmoved(th, gone)
  BY <1>1, UnmovedUnlessHeld
<1> HIDE DEF gone
<1> QED
  BY <1>1, <1>2, <1>4, <1>5, SilentUnlessWaiting, DisconnectPreserves

\* An ADD that connects: the entry is new, and empty.
LEMMA ConnectPreserves ==
  ASSUME IInv, end = None, NEW th \in Threads, MovesTo(th, Idle), thread[th].at = "connect",
         NEW c \in CriteriaTypes, NEW m \in Memories, ~Refuses(c, m), NEW e \in Entry, e.mem = m, ~e.broken,
         e.requests = <<>>, e.answers = <<>>, members' = [members EXCEPT ![c] = Append(@, e)],
         end' \in {None, "undefined"}, end' = None => \A o \in Holders : thread[o].entry[1] # c,
         UNCHANGED <<external, metadata, memoryIPMap>>
  PROVE  IInv'
<1>1. Idle \in States /\ Idle.at = "idle"
  BY DEF Idle, States
<1>2. ThreadsOK' /\ thread'[th] = Idle /\ \A o \in Threads \ {th} : thread'[o] = thread[o]
  BY <1>1, OneMoves DEF IInv, TInv
<1>3. members \in [CriteriaTypes -> Seq(Entry)] /\ members[c] \in Seq(Entry)
  BY DEF IInv, TInv, MembersOK
<1>4. PICK a : a = Append(members[c], e)
  OBVIOUS
<1>5. /\ a \in Seq(Entry) /\ Len(a) = Len(members[c]) + 1 /\ a[Len(a)] = e /\ Len(a) \in 1 .. Len(a)
      /\ \A j \in 1 .. Len(members[c]) : j \in 1 .. Len(a) /\ a[j] = members[c][j]
      /\ \A j \in 1 .. Len(a) : j = Len(a) \/ j \in 1 .. Len(members[c])
  BY <1>3, <1>4, AppendedAt
<1>6. members'[c] = a /\ (\A d \in CriteriaTypes : d # c => members'[d] = members[d]) /\ MembersOK'
  BY <1>3, <1>4, <1>5 DEF MembersOK
<1>7. TInv'
  BY <1>2, <1>6 DEF IInv, TInv, ExternalOK, external
<1>8. OncePerCriterion'
  <2>1. \A j \in 1 .. Len(members[c]) : members[c][j].mem # m
    BY <1>3 DEF Refuses
  <2>2. Distinct(a)
    <3> SUFFICES ASSUME NEW j \in 1 .. Len(a), NEW k \in 1 .. Len(a), a[j].mem = a[k].mem PROVE j = k
      BY DEF Distinct
    <3>1. CASE j \in 1 .. Len(members[c]) /\ k \in 1 .. Len(members[c])
      BY <1>5, <3>1 DEF IInv, OncePerCriterion, Distinct
    <3> QED
      BY <1>5, <2>1, <3>1
  <2>3. \A d \in CriteriaTypes : Distinct(members'[d])
    BY <1>6, <2>2 DEF IInv, OncePerCriterion
  <2>4. Len(members'["SC"]) <= 1
    <3>1. CASE c = "SC"
      <4>1. members[c] = <<>> /\ Len(members[c]) = 0
        BY <3>1 DEF Refuses
      <4> QED
        BY <1>5, <1>6, <3>1, <4>1
    <3>2. CASE c # "SC"
      BY <1>6, <3>2 DEF IInv, OncePerCriterion, CriteriaTypes
    <3> QED
      BY <3>1, <3>2
  <2> QED
    BY <2>3, <2>4 DEF OncePerCriterion, Distinct
<1>9. ASSUME NEW d \in CriteriaTypes, NEW i \in 1 .. Len(members[d]) PROVE Sound(members[d][i], d, i, thread', end')
  <2>1. Sound(members[d][i], d, i, thread, None)
    BY DEF IInv, CInv, ConnectionsAreSound
  <2>2. Silent(th, members[d][i])
    BY SilentUnlessWaiting
  <2>3. thread'[th].at # "wait"
    BY <1>1, <1>2
  <2> QED
    BY <1>2, <2>1, <2>2, <2>3, SoundForOthers
<1>10. Sound(e, c, Len(a), thread', end')
  <2>1. Len(e.requests) = 0 /\ Len(e.answers) = 0
    OBVIOUS
  <2>2. Meant(e, thread') /\ Exchange(e, c, Len(a), thread')
    BY <2>1 DEF Meant, Exchange
  <2>3. ASSUME end' = None PROVE Awaited(e, c, Len(a), thread')
    <3>1. \A o \in Threads : thread'[o].at = "wait" => o \in Holders /\ thread'[o].entry = thread[o].entry
      BY <1>1, <1>2 DEF Holders
    <3>2. \A o \in Threads : thread'[o].at = "wait" => thread'[o].entry # <<c, Len(a)>>
      BY <2>3, <3>1
    <3> QED
      BY <3>2 DEF Awaited
  <2> QED
    BY <2>2, <2>3 DEF Sound
<1>11. ConnectionsAreSound'
  <2> SUFFICES ASSUME NEW d \in CriteriaTypes, NEW i \in 1 .. Len(members'[d])
               PROVE  Sound(members'[d][i], d, i, thread', end')
    BY DEF ConnectionsAreSound
  <2>1. CASE d # c
    BY <1>6, <1>9, <2>1
  <2>2. CASE d = c /\ i = Len(a)
    BY <1>5, <1>6, <1>10, <2>2
  <2>3. CASE d = c /\ i # Len(a)
    BY <1>5, <1>6, <1>9, <2>3
  <2> QED
    BY <2>1, <2>2, <2>3
<1>12. AnswersAreOwn'
  BY <1>1, <1>2 DEF IInv, CInv, AnswersAreOwn
<1>13. OneWaits'
  BY <1>1, <1>2 DEF IInv, CInv, OneWaits
<1>14. EntriesAreThere'
  <2> SUFFICES ASSUME NEW o \in Holders'
               PROVE  thread'[o].entry[2] \in 1 .. Len(members'[thread'[o].entry[1]])
    BY DEF EntriesAreThere
  <2>1. o \in Holders /\ thread'[o] = thread[o]
    BY <1>1, <1>2 DEF Holders
  <2>2. thread[o].entry[1] \in CriteriaTypes /\ thread[o].entry[2] \in 1 .. Len(members[thread[o].entry[1]])
    BY <2>1, EntryAt
  <2> QED
    BY <1>5, <1>6, <2>1, <2>2
<1> QED
  BY <1>7, <1>8, <1>11, <1>12, <1>13, <1>14 DEF IInv, CInv

\* Criteria_AddMemory, which refuses, connects, or finds the memory down.
LEMMA AddMemoryPreserves == ASSUME IInv, NEW th \in Threads, Criteria_AddMemory(th) PROVE IInv'
<1> DEFINE c == thread[th].ct
           m == thread[th].mem
<1>1. end = None /\ thread[th].at = "connect" /\ MovesTo(th, Idle) /\ UNCHANGED <<external, metadata>>
  BY DEF Criteria_AddMemory, MovesTo
<1>2. thread[th] \in Adding
  BY <1>1, OtherThanThreads, StateOfPlace
<1>3. c \in CriteriaTypes /\ m \in Memories
  BY <1>2 DEF Adding
<1>4. Idle \in States /\ Idle.at = "idle"
  BY DEF States, Idle
<1>5. CASE m \in up /\ Refuses(c, m) /\ UNCHANGED <<members, sockets, memoryIPMap, end>>
  BY <1>1, <1>4, <1>5, QuietMove, OtherThanThreads
<1>6. CASE /\ m \in up /\ ~Refuses(c, m)
           /\ members' = [members EXCEPT ![c] =
                Append(@, [mem |-> m, broken |-> FALSE, requests |-> <<>>, answers |-> <<>>])]
           /\ end' = IF \E o \in Holders : thread[o].entry[1] = c THEN "undefined" ELSE None
           /\ UNCHANGED memoryIPMap
  <2> DEFINE e == [mem |-> m, broken |-> FALSE, requests |-> <<>>, answers |-> <<>>]
  <2>1. e \in Entry /\ e.mem = m /\ ~e.broken /\ e.requests = <<>> /\ e.answers = <<>>
    BY <1>3 DEF Entry
  <2>2. members' = [members EXCEPT ![c] = Append(@, e)]
    BY <1>6
  <2>3. end' \in {None, "undefined"} /\ (end' = None => \A o \in Holders : thread[o].entry[1] # c)
    BY <1>6 DEF None
  <2>4. ~Refuses(c, m) /\ UNCHANGED <<external, metadata, memoryIPMap>>
    BY <1>1, <1>6
  <2> HIDE DEF e, c, m
  <2> QED
    BY <1>1, <1>3, <2>1, <2>2, <2>3, <2>4, ConnectPreserves
<1>7. CASE /\ m \notin up /\ _disconnectMemories({m}) /\ memoryIPMap' = memoryIPMap \ {m}
           /\ end' = IF HeldByOthers(th, m) THEN "undefined" ELSE None
  <2> DEFINE gone == {m} \cap memoryIPMap
  <2>1. Disconnected(gone)
    BY <1>7 DEF _disconnectMemories, Disconnected
  <2>2. end' \in {None, "crash", "undefined"} /\ (end' = None => Unmoved(th, gone))
    BY <1>7, UnmovedUnlessHeld DEF None
  <2>3. memoryIPMap' \subseteq Keys
    BY <1>7, OtherThanThreads
  <2> HIDE DEF gone
  <2> QED
    BY <1>1, <2>1, <2>2, <2>3, SilentUnlessWaiting, DisconnectPreserves
<1> QED
  BY <1>5, <1>6, <1>7 DEF Criteria_AddMemory
-----------------------------------------------------------------------------
(***************************************************************************)
(* The specification.                                                      *)
(***************************************************************************)
\* At first no thread works and no connection is open.
LEMMA InitEstablishes == Init => IInv
<1> SUFFICES ASSUME Init PROVE IInv
  OBVIOUS
<1> DEFINE none == <<>>
<1>1. none \in Seq(Entry) /\ Len(none) = 0
  OBVIOUS
<1> HIDE DEF none
<1>2. \A c \in CriteriaTypes : members[c] = none /\ Len(members[c]) = 0
  BY <1>1 DEF Init, none
<1>3. members \in [CriteriaTypes -> Seq(Entry)]
  <2>1. members = [c \in CriteriaTypes |-> none]
    BY DEF Init, none
  <2> QED
    BY <1>1, <2>1
<1>4. thread \in [Threads -> States] /\ \A th \in Threads : thread[th].at = "idle"
  BY DEF Init, States, Idle
<1>5. TInv
  BY <1>3, <1>4 DEF Init, TInv, ExternalOK, MembersOK, ThreadsOK, Criteria, Keys, None
<1>6. OncePerCriterion
  BY <1>2 DEF OncePerCriterion, Distinct, CriteriaTypes
<1>7. CInv
  BY <1>2, <1>4 DEF CInv, ConnectionsAreSound, AnswersAreOwn, EntriesAreThere, OneWaits, Holders
<1> QED
  BY <1>5, <1>6, <1>7 DEF IInv

\* The commands of the workers, and the periodic DESCRIBE.
LEMMA CommandPreserves == ASSUME IInv, NEW th \in Workers, Command(th) PROVE IInv'
<1>1. th \in Threads
  BY DEF Threads
<1>2. ASSUME NEW t \in Tables, \/ HandleSelect(th, t) \/ HandleInsert(th, t) \/ HandleCreate(th, t)
                              \/ HandleDescribe(th, t) \/ HandleDrop(th, t)
      PROVE  IInv'
  <2>1. metadata[t] \in Criteria
    BY OtherThanThreads
  <2>2. {"select", "insert", "create", "drop", "describe"} \subseteq Ops
    BY DEF Ops
  <2>3. CASE HandleSelect(th, t)
    BY <1>1, <2>1, <2>2, <2>3, BeginPreserves DEF HandleSelect
  <2>4. CASE HandleInsert(th, t)
    BY <1>1, <2>1, <2>2, <2>4, BeginPreserves DEF HandleInsert
  <2>5. CASE HandleCreate(th, t)
    <3>1. PICK ct \in Consistencies : Begin(th, "create", t, ct)
      BY <2>5 DEF HandleCreate
    <3>2. ct \in Criteria
      BY KernelAssumption DEF Criteria
    <3> QED
      BY <1>1, <2>2, <3>1, <3>2, BeginPreserves
  <2>6. CASE HandleDescribe(th, t)
    BY <1>1, <2>1, <2>2, <2>6, BeginPreserves DEF HandleDescribe
  <2>7. CASE HandleDrop(th, t)
    BY <1>1, <2>1, <2>2, <2>7, BeginPreserves DEF HandleDrop
  <2> QED
    BY <1>2, <2>3, <2>4, <2>5, <2>6, <2>7
<1>3. ASSUME NEW add \in Adds, HandleAdd(th, add[1], add[2]) PROVE IInv'
  <2>1. add[1] \in CriteriaTypes /\ add[2] \in Memories
    BY KernelAssumption
  <2> QED
    BY <1>1, <1>3, <2>1, AddPreserves
<1> QED
  BY <1>1, <1>2, <1>3, BroadcastPreserves DEF Command

\* What a thread does once it has begun.
LEMMA StepPreserves == ASSUME IInv, NEW th \in Threads, Step(th) PROVE IInv'
<1>1. CASE \E key \in Memories \cup {SeedKey} : _iteratePeer(th, key)
  BY <1>1, VisitPreserves DEF Keys
<1> QED
  BY <1>1, ChoosePreserves, SendPreserves, ReceivePreserves, DownPreserves, FullPreserves, JournalPreserves,
     AnswerPreserves, AddMemoryPreserves, VisitAnswerPreserves, EndUpdatePreserves DEF Step

\* A memory runs, fills up, stops or serves.
LEMMA MemoryPreserves ==
  ASSUME IInv, NEW m \in Memories, Stop(m) \/ Start(m) \/ Fill(m) \/ MemoryServes(m)
  PROVE  IInv'
<1>1. ExternalOK
  BY DEF IInv, TInv
<1>2. CASE Start(m)
  <2>1. ExternalOK'
    BY <1>1, <1>2 DEF Start, ExternalOK
  <2> QED
    BY <1>2, <2>1, SameConnections DEF Start
<1>3. CASE Fill(m)
  <2>1. ExternalOK'
    BY <1>1, <1>3 DEF Fill, ExternalOK
  <2> QED
    BY <1>3, <2>1, SameConnections DEF Fill
<1>4. CASE MemoryServes(m)
  <2>1. PICK c \in CriteriaTypes : \E i \in DOMAIN members[c] : Serve(c, i) \/ Serve_TooLarge(c, i)
    BY <1>4 DEF MemoryServes
  <2>2. DOMAIN members[c] = 1 .. Len(members[c])
    BY DEF IInv, TInv, MembersOK
  <2> QED
    BY <2>1, <2>2, ServePreserves, TooLargePreserves
<1> QED
  BY <1>2, <1>3, <1>4, StopPreserves

\* No step of anyone breaks it.
LEMMA NextPreserves == IInv /\ [Next]_vars => IInv'
<1> SUFFICES ASSUME IInv, [Next]_vars PROVE IInv'
  OBVIOUS
<1>1. CASE UNCHANGED vars
  <2>1. ExternalOK' /\ UNCHANGED <<members, thread, metadata, memoryIPMap, end>>
    BY <1>1 DEF vars, external, IInv, TInv, ExternalOK
  <2> QED
    BY <2>1, SameConnections
<1>2. Dispatcher \in Threads /\ Workers \subseteq Threads
  BY DEF Threads
<1>3. CASE PeriodicDescribe
  <2>1. PICK t \in Tables : Begin(Dispatcher, "global", t, None)
    BY <1>3 DEF PeriodicDescribe
  <2>2. "global" \in Ops /\ None \in Criteria
    BY DEF Ops, Criteria
  <2> QED
    BY <1>2, <2>1, <2>2, BeginPreserves
<1> QED
  BY <1>1, <1>2, <1>3, MemoryPreserves, CommandPreserves, StepPreserves, UpdatePreserves DEF Next

\* The invariant implies what the runs check.
LEMMA IInvImplies == ASSUME IInv PROVE TypeOK /\ ConnectionsStayInStep
<1>1. ASSUME NEW c \in CriteriaTypes, NEW i \in DOMAIN members[c]
      PROVE  /\ members[c][i].mem \in Memories /\ members[c][i].broken \in BOOLEAN
             /\ \A j \in DOMAIN members[c][i].requests : members[c][i].requests[j] \in Request
             /\ \A j \in DOMAIN members[c][i].answers : members[c][i].answers[j] \in Answer
             /\ \A j \in 1 .. (i - 1) : members[c][j].mem # members[c][i].mem
  <2>1. members[c] \in Seq(Entry)
    BY DEF IInv, TInv, MembersOK
  <2>2. i \in 1 .. Len(members[c]) /\ DOMAIN members[c] = 1 .. Len(members[c]) /\ Len(members[c]) \in Nat
    BY <2>1
  <2>3. /\ members[c][i].mem \in Memories /\ members[c][i].broken \in BOOLEAN
        /\ members[c][i].requests \in Seq(Request) /\ members[c][i].answers \in Seq(Answer)
    BY <2>2, EntryOfArray DEF IInv, TInv
  <2>4. \A j \in 1 .. (i - 1) : j \in 1 .. Len(members[c]) /\ j # i
    BY <2>2
  <2>5. \A j \in 1 .. (i - 1) : members[c][j].mem # members[c][i].mem
    BY <2>2, <2>4 DEF IInv, OncePerCriterion, Distinct
  <2> QED
    BY <2>3, <2>5
<1>2. TypeOK
  BY <1>1 DEF IInv, TInv, OncePerCriterion, ExternalOK, ThreadsOK, TypeOK, Criteria, Keys
<1>3. ASSUME end = None, NEW th \in Threads, thread[th].at = "wait"
      PROVE  \/ At(th).broken
             \/ \E j \in DOMAIN At(th).requests : At(th).requests[j] = [by |-> th, op |-> thread[th].op]
             \/ \E j \in DOMAIN At(th).answers : At(th).answers[j].by = th
  <2>1. th \in Holders
    BY <1>3 DEF Holders
  <2>2. PICK c, i : /\ thread[th].entry = <<c, i>> /\ c \in CriteriaTypes /\ i \in 1 .. Len(members[c])
                    /\ At(th) = members[c][i] /\ At(th) \in Entry
    BY <1>3, <2>1, EntryAt
  <2>3. Awaited(At(th), c, i, thread) /\ Exchange(At(th), c, i, thread)
    BY <1>3, <2>2 DEF IInv, CInv, ConnectionsAreSound, Sound
  <2>4. At(th).requests \in Seq(Request) /\ At(th).answers \in Seq(Answer)
    BY <2>2 DEF Entry
  <2>5. CASE At(th).answers # <<>>
    <3>1. 1 \in 1 .. Len(At(th).answers) /\ DOMAIN At(th).answers = 1 .. Len(At(th).answers)
      BY <2>4, <2>5
    <3>2. Asks(At(th).answers[1], thread) /\ thread[At(th).answers[1].by].entry = <<c, i>>
      BY <2>3, <3>1 DEF Exchange
    <3>3. At(th).answers[1].by = th
      BY <1>3, <2>2, <3>2 DEF Asks, IInv, CInv, OneWaits
    <3> QED
      BY <3>1, <3>3
  <2>6. CASE At(th).answers = <<>>
    <3>1. \/ At(th).broken
          \/ \E j \in 1 .. Len(At(th).requests) : At(th).requests[j] = [by |-> th, op |-> thread[th].op]
      BY <1>3, <2>2, <2>3, <2>6 DEF Awaited
    <3>2. DOMAIN At(th).requests = 1 .. Len(At(th).requests)
      BY <2>4
    <3> QED
      BY <3>1, <3>2
  <2> QED
    BY <2>5, <2>6
<1>4. ConnectionsStayInStep
  BY <1>3 DEF ConnectionsStayInStep, IInv, CInv, AnswersAreOwn
<1> QED
  BY <1>2, <1>4

\* The inductive invariant, whatever the threads, the memories and the commands are.
THEOREM KernelInvariant == Spec => []IInv
<1>1. Init => IInv
  BY InitEstablishes
<1>2. IInv /\ [Next]_vars => IInv'
  BY NextPreserves
<1> QED
  BY <1>1, <1>2, PTL DEF Spec

\* The criteria, the connections, Metadata and the map hold what they should while commands, discovery and
\* memories that stop and start interleave: no memory is twice in a criterion, and SC has one at most
\* (_sc_add, _addMemoryToArray, Criteria.c).
THEOREM KernelTypeOK == Spec => []TypeOK
<1>1. IInv => TypeOK
  BY IInvImplies
<1> QED
  BY <1>1, KernelInvariant, PTL

\* A thread that waits in Memory_SendRequestWithAnswer has its request or its answer in the connection, or
\* that is broken, and what it receives is the answer to its own request: MemLock keeps threads in step
\* though JOURNALs come between, and memories come and go.
THEOREM KernelConnectionsStayInStep == Spec => []ConnectionsStayInStep
<1>1. IInv => ConnectionsStayInStep
  BY IInvImplies
<1> QED
  BY <1>1, KernelInvariant, PTL

-----------------------------------------------------------------------------
(***************************************************************************)
(* The memories of the criteria, the map and the sockets.                  *)
(***************************************************************************)
CountInv == IInv /\ SocketsAreCounted

\* The criteria of a memory are those whose arrays have it.
LEMMA CriteriaHas ==
  ASSUME NEW m
  PROVE  /\ IInv => CriteriaOf(m) = {c \in CriteriaTypes : \E i \in 1 .. Len(members[c]) : members[c][i].mem = m}
         /\ MembersOK' => (CriteriaOf(m))' =
              {c \in CriteriaTypes : \E i \in 1 .. Len(members'[c]) : members'[c][i].mem = m}
         /\ CriteriaOf(m) \subseteq CriteriaTypes /\ (CriteriaOf(m))' \subseteq CriteriaTypes
<1>1. MembersOK => \A c \in CriteriaTypes : DOMAIN members[c] = 1 .. Len(members[c])
  BY DEF MembersOK
<1>2. MembersOK' => \A c \in CriteriaTypes : DOMAIN members'[c] = 1 .. Len(members'[c])
  BY DEF MembersOK
<1> QED
  BY <1>1, <1>2 DEF CriteriaOf, IInv, TInv

\* There are three criteria.
LEMMA CriteriaAreFinite == IsFiniteSet(CriteriaTypes)
<1>1. CriteriaTypes = ({"SC"} \cup {"SHC"}) \cup {"EC"}
  BY DEF CriteriaTypes
<1>2. IsFiniteSet({"SC"}) /\ IsFiniteSet({"SC"} \cup {"SHC"}) /\ IsFiniteSet(({"SC"} \cup {"SHC"}) \cup {"EC"})
  BY FS_Singleton, FS_AddElement
<1> QED
  BY <1>1, <1>2

\* and so are those of a memory.
LEMMA CriteriaOfFinite ==
  ASSUME NEW m
  PROVE  IsFiniteSet(CriteriaOf(m)) /\ Cardinality(CriteriaOf(m)) \in Nat
<1>1. CriteriaOf(m) \in SUBSET CriteriaTypes
  BY CriteriaHas
<1> QED
  BY <1>1, CriteriaAreFinite, FS_Subset, FS_CardinalityType

\* Arrays that keep their memories.
LEMMA SameCriteria == ASSUME IInv, SamePlaces, NEW m PROVE (CriteriaOf(m))' = CriteriaOf(m)
<1>1. \A c \in CriteriaTypes : (\E i \in 1 .. Len(members'[c]) : members'[c][i].mem = m)
                               <=> (\E i \in 1 .. Len(members[c]) : members[c][i].mem = m)
  BY DEF SamePlaces
<1> QED
  BY <1>1, CriteriaHas DEF SamePlaces

\* Then their sockets are counted as before.
LEMMA CountedInPlace == ASSUME CountInv, SamePlaces, UNCHANGED sockets PROVE SocketsAreCounted'
BY SameCriteria DEF CountInv, SocketsAreCounted

\* No memory comes or goes.
LEMMA SameMembers == ASSUME IInv, UNCHANGED members PROVE SamePlaces
BY DEF SamePlaces, IInv, TInv, MembersOK

\* What is taken out of the criteria: all that go, from each criterion.
LEMMA CriteriaLeft ==
  ASSUME IInv, NEW gone, Disconnected(gone), NEW m
  PROVE  (CriteriaOf(m))' = IF m \in gone THEN {} ELSE CriteriaOf(m)
<1>1. MembersOK' /\ \A c \in CriteriaTypes : Remains(members'[c], members[c], gone)
  BY DisconnectedHas
<1>2. ASSUME NEW c \in CriteriaTypes
      PROVE  (\E k \in 1 .. Len(members'[c]) : members'[c][k].mem = m)
             <=> m \notin gone /\ \E i \in 1 .. Len(members[c]) : members[c][i].mem = m
  <2> DEFINE r == members'[c]
             s == members[c]
  <2>1. Remains(r, s, gone)
    BY <1>1
  <2> HIDE DEF r, s
  <2>2. \A k \in 1 .. Len(r) : \E i \in 1 .. Len(s) : r[k] = s[i] /\ s[i].mem \notin gone
    BY <2>1 DEF Remains
  <2>3. \A i \in 1 .. Len(s) : s[i].mem \notin gone => \E k \in 1 .. Len(r) : r[k] = s[i]
    BY <2>1 DEF Remains
  <2>4. (\E k \in 1 .. Len(r) : r[k].mem = m) => m \notin gone /\ \E i \in 1 .. Len(s) : s[i].mem = m
    BY <2>2
  <2>5. m \notin gone /\ (\E i \in 1 .. Len(s) : s[i].mem = m) => \E k \in 1 .. Len(r) : r[k].mem = m
    BY <2>3
  <2> QED
    BY <2>4, <2>5 DEF r, s
<1>3. /\ CriteriaOf(m) = {c \in CriteriaTypes : \E i \in 1 .. Len(members[c]) : members[c][i].mem = m}
      /\ (CriteriaOf(m))' = {c \in CriteriaTypes : \E k \in 1 .. Len(members'[c]) : members'[c][k].mem = m}
  BY <1>1, CriteriaHas
<1> QED
  BY <1>2, <1>3

\* The sockets that are closed.
Closed(gone) ==
  sockets' = [m \in Memories |->
    sockets[m] - Cardinality({c \in CriteriaTypes : m \in gone /\
                              \E i \in DOMAIN members[c] : members[c][i].mem = m})]

\* Memories that go leave no socket, and the others keep theirs.
LEMMA CountedWhenDisconnected ==
  ASSUME CountInv, NEW gone, Disconnected(gone), Closed(gone)
  PROVE  SocketsAreCounted'
<1>1. ASSUME NEW m \in Memories
      PROVE  sockets'[m] \in Nat /\ sockets'[m] = Cardinality((CriteriaOf(m))')
  <2> DEFINE closed == {c \in CriteriaTypes : m \in gone /\ \E i \in DOMAIN members[c] : members[c][i].mem = m}
  <2>1. sockets[m] = Cardinality(CriteriaOf(m)) /\ sockets[m] \in Nat
    BY CriteriaOfFinite DEF CountInv, SocketsAreCounted
  <2>2. sockets'[m] = sockets[m] - Cardinality(closed)
    BY DEF Closed
  <2>3. closed = IF m \in gone THEN CriteriaOf(m) ELSE {}
    BY DEF CriteriaOf
  <2>4. (CriteriaOf(m))' = IF m \in gone THEN {} ELSE CriteriaOf(m)
    BY CriteriaLeft DEF CountInv
  <2> HIDE DEF closed
  <2>5. Cardinality({}) = 0
    BY FS_EmptySet
  <2> QED
    BY <2>1, <2>2, <2>3, <2>4, <2>5
<1>2. sockets' = [m \in Memories |-> sockets'[m]]
  BY DEF Closed
<1> QED
  BY <1>1, <1>2 DEF SocketsAreCounted

\* A memory that went down, and a discovery: what leaves the map is disconnected.
LEMMA DownDisconnects ==
  ASSUME NEW th \in Threads, MemoryDown(th)
  PROVE  \E gone : /\ Disconnected(gone) /\ Closed(gone)
                   /\ \A m \in Memories : m \in memoryIPMap /\ m \notin memoryIPMap' => m \in gone
<1>1. Disconnected({At(th).mem} \cap memoryIPMap) /\ Closed({At(th).mem} \cap memoryIPMap)
  BY DEF MemoryDown, _disconnectMemories, Disconnected, Closed
<1>2. memoryIPMap' = memoryIPMap \ {At(th).mem}
  BY DEF MemoryDown
<1> QED
  BY <1>1, <1>2

LEMMA EndUpdateDisconnects ==
  ASSUME NEW th \in Threads, EndUpdate(th)
  PROVE  \E gone : /\ Disconnected(gone) /\ Closed(gone)
                   /\ \A m \in Memories : m \in memoryIPMap /\ m \notin memoryIPMap' => m \in gone
<1> DEFINE old  == (memoryIPMap \ thread[th].diff) \ {SeedKey}
           gone == old \cap memoryIPMap
<1>1. Disconnected(gone) /\ Closed(gone) /\ memoryIPMap' = thread[th].diff
  BY DEF EndUpdate, _disconnectMemories, Disconnected, Closed
<1>2. \A m \in Memories : m \in memoryIPMap /\ m \notin memoryIPMap' => m \in gone
  BY <1>1, KernelAssumption
<1> HIDE DEF gone
<1> QED
  BY <1>1, <1>2

\* So is one to which an ADD did not connect.
LEMMA RefusedDisconnects ==
  ASSUME NEW m, _disconnectMemories({m}), memoryIPMap' = memoryIPMap \ {m}
  PROVE  \E gone : /\ Disconnected(gone) /\ Closed(gone)
                   /\ \A n \in Memories : n \in memoryIPMap /\ n \notin memoryIPMap' => n \in gone
<1>1. Disconnected({m} \cap memoryIPMap) /\ Closed({m} \cap memoryIPMap)
  BY DEF _disconnectMemories, Disconnected, Closed
<1> QED
  BY <1>1

\* An ADD that connects opens one socket.
LEMMA ConnectCounted ==
  ASSUME CountInv, IInv', NEW c \in CriteriaTypes, NEW m \in Memories, ~Refuses(c, m), NEW e \in Entry, e.mem = m,
         members' = [members EXCEPT ![c] = Append(@, e)], sockets' = [sockets EXCEPT ![m] = @ + 1]
  PROVE  SocketsAreCounted'
<1>1. members \in [CriteriaTypes -> Seq(Entry)] /\ members[c] \in Seq(Entry) /\ MembersOK'
  BY DEF CountInv, IInv, TInv, MembersOK
<1>2. PICK a : a = Append(members[c], e)
  OBVIOUS
<1>3. /\ Len(a) = Len(members[c]) + 1 /\ a[Len(a)] = e /\ Len(a) \in 1 .. Len(a)
      /\ \A j \in 1 .. Len(members[c]) : j \in 1 .. Len(a) /\ a[j] = members[c][j]
      /\ \A j \in 1 .. Len(a) : j = Len(a) \/ j \in 1 .. Len(members[c])
  BY <1>1, <1>2, AppendedAt
<1>4. members'[c] = a /\ (\A d \in CriteriaTypes : d # c => members'[d] = members[d])
  BY <1>1, <1>2
<1>5. ASSUME NEW n \in Memories
      PROVE  (CriteriaOf(n))' = IF n = m THEN CriteriaOf(n) \cup {c} ELSE CriteriaOf(n)
  <2>1. ASSUME NEW d \in CriteriaTypes
        PROVE  (\E k \in 1 .. Len(members'[d]) : members'[d][k].mem = n)
               <=> (d = c /\ n = m) \/ \E i \in 1 .. Len(members[d]) : members[d][i].mem = n
    BY <1>3, <1>4
  <2>2. /\ CriteriaOf(n) = {d \in CriteriaTypes : \E i \in 1 .. Len(members[d]) : members[d][i].mem = n}
        /\ (CriteriaOf(n))' = {d \in CriteriaTypes : \E k \in 1 .. Len(members'[d]) : members'[d][k].mem = n}
    BY <1>1, CriteriaHas DEF CountInv
  <2> QED
    BY <2>1, <2>2
<1>6. c \notin CriteriaOf(m)
  BY DEF Refuses, CriteriaOf
<1>7. sockets \in [Memories -> Nat] /\ \A n \in Memories : sockets[n] = Cardinality(CriteriaOf(n))
  BY DEF CountInv, SocketsAreCounted
<1>8. Cardinality(CriteriaOf(m) \cup {c}) = Cardinality(CriteriaOf(m)) + 1
  BY <1>6, CriteriaOfFinite, FS_AddElement
<1>9. sockets' \in [Memories -> Nat] /\ \A n \in Memories : sockets'[n] = IF n = m THEN sockets[n] + 1 ELSE sockets[n]
  BY <1>7
<1>10. \A n \in Memories : sockets'[n] = Cardinality((CriteriaOf(n))')
  BY <1>5, <1>7, <1>8, <1>9
<1> QED
  BY <1>9, <1>10 DEF SocketsAreCounted

\* Criteria_AddMemory.
LEMMA AddMemoryCounted == ASSUME CountInv, IInv', NEW th \in Threads, Criteria_AddMemory(th) PROVE SocketsAreCounted'
<1> DEFINE c == thread[th].ct
           m == thread[th].mem
<1>1. thread[th].at = "connect"
  BY DEF Criteria_AddMemory
<1>2. c \in CriteriaTypes /\ m \in Memories
  BY <1>1, OtherThanThreads, StateOfPlace DEF CountInv, Adding
<1>3. CASE UNCHANGED <<members, sockets>>
  BY <1>3, SameMembers, CountedInPlace DEF CountInv
<1>4. CASE /\ ~Refuses(c, m)
           /\ members' = [members EXCEPT ![c] =
                Append(@, [mem |-> m, broken |-> FALSE, requests |-> <<>>, answers |-> <<>>])]
           /\ sockets' = [sockets EXCEPT ![m] = @ + 1]
  <2> DEFINE e == [mem |-> m, broken |-> FALSE, requests |-> <<>>, answers |-> <<>>]
  <2>1. e \in Entry /\ e.mem = m
    BY <1>2 DEF Entry
  <2>2. members' = [members EXCEPT ![c] = Append(@, e)]
    BY <1>4
  <2> HIDE DEF e
  <2> QED
    BY <1>2, <1>4, <2>1, <2>2, ConnectCounted
<1>5. CASE _disconnectMemories({m}) /\ memoryIPMap' = memoryIPMap \ {m}
  BY <1>5, RefusedDisconnects, CountedWhenDisconnected
<1> QED
  BY <1>3, <1>4, <1>5 DEF Criteria_AddMemory

\* Any step of a thread that works.
LEMMA StepCounted == ASSUME CountInv, IInv', NEW th \in Threads, Step(th) PROVE SocketsAreCounted'
<1>1. IInv
  BY DEF CountInv
<1>2. CASE Criteria_GetMemoryFor(th) \/ HandleFull(th) \/ HandleAnswer(th)
           \/ (\E key \in Memories \cup {SeedKey} : _iteratePeer(th, key)) \/ _iteratePeer_Answer(th)
  <2>1. UNCHANGED <<members, sockets>>
    BY <1>2 DEF Criteria_GetMemoryFor, HandleFull, HandleAnswer, _iteratePeer, _iteratePeer_Answer
  <2> QED
    BY <1>1, <2>1, SameMembers, CountedInPlace
<1>3. CASE Memory_SendRequestWithAnswer(th) \/ Receive(th) \/ Memory_SendRequest(th)
  <2>1. SamePlaces
    BY <1>1, <1>3, SendPreserves, ReceivePreserves, JournalPreserves
  <2>2. UNCHANGED sockets
    BY <1>3 DEF Memory_SendRequestWithAnswer, Receive, Memory_SendRequest
  <2> QED
    BY <2>1, <2>2, CountedInPlace
<1>4. CASE MemoryDown(th) \/ EndUpdate(th)
  BY <1>4, DownDisconnects, EndUpdateDisconnects, CountedWhenDisconnected
<1> QED
  BY <1>2, <1>3, <1>4, AddMemoryCounted DEF Step

\* The commands.
LEMMA CommandCounted == ASSUME CountInv, NEW th \in Workers, Command(th) PROVE SocketsAreCounted'
<1>1. th \in Threads
  BY DEF Threads
<1>2. CASE Criterias_BroadcastJournal(th)
  <2>1. SamePlaces
    BY <1>1, <1>2, BroadcastPreserves DEF CountInv
  <2> QED
    BY <1>2, <2>1, CountedInPlace DEF Criterias_BroadcastJournal
<1>3. CASE ~Criterias_BroadcastJournal(th)
  <2>1. UNCHANGED <<members, sockets>>
    BY <1>3 DEF Command, HandleSelect, HandleInsert, HandleCreate, HandleDescribe, HandleDrop, HandleAdd, Begin
  <2> QED
    BY <2>1, SameMembers, CountedInPlace DEF CountInv
<1> QED
  BY <1>2, <1>3

\* What happens to the memories themselves.
LEMMA MemoryCounted ==
  ASSUME CountInv, NEW m \in Memories, Stop(m) \/ Start(m) \/ Fill(m) \/ MemoryServes(m)
  PROVE  SocketsAreCounted'
<1>1. IInv
  BY DEF CountInv
<1>2. CASE Stop(m)
  BY <1>1, <1>2, StopPreserves, CountedInPlace DEF Stop
<1>3. CASE Start(m) \/ Fill(m)
  BY <1>1, <1>3, SameMembers, CountedInPlace DEF Start, Fill
<1>4. CASE MemoryServes(m)
  <2>1. PICK c \in CriteriaTypes : \E i \in DOMAIN members[c] : Serve(c, i) \/ Serve_TooLarge(c, i)
    BY <1>4 DEF MemoryServes
  <2>2. DOMAIN members[c] = 1 .. Len(members[c])
    BY <1>1 DEF IInv, TInv, MembersOK
  <2>3. PICK i \in 1 .. Len(members[c]) : Serve(c, i) \/ Serve_TooLarge(c, i)
    BY <2>1, <2>2
  <2>4. SamePlaces
    BY <1>1, <2>3, ServePreserves, TooLargePreserves
  <2>5. UNCHANGED sockets
    BY <2>3 DEF Serve, Serve_TooLarge
  <2> QED
    BY <2>4, <2>5, CountedInPlace
<1> QED
  BY <1>2, <1>3, <1>4

\* At first the criteria are empty.
LEMMA InitCounted == Init => SocketsAreCounted
<1> SUFFICES ASSUME Init PROVE SocketsAreCounted
  OBVIOUS
<1>1. \A m \in Memories : CriteriaOf(m) = {} /\ sockets[m] = 0
  BY DEF Init, CriteriaOf
<1>2. sockets \in [Memories -> Nat]
  BY DEF Init
<1> QED
  BY <1>1, <1>2, FS_EmptySet DEF SocketsAreCounted

\* No step breaks it.
LEMMA NextCounted == ASSUME CountInv, IInv', [Next]_vars PROVE SocketsAreCounted'
<1>1. CASE UNCHANGED vars
  BY <1>1, SameMembers, CountedInPlace DEF vars, CountInv
<1>2. CASE PeriodicDescribe \/ Criterias_Update(Dispatcher)
  <2>1. UNCHANGED <<members, sockets>>
    BY <1>2 DEF PeriodicDescribe, Begin, Criterias_Update
  <2> QED
    BY <2>1, SameMembers, CountedInPlace DEF CountInv
<1> QED
  BY <1>1, <1>2, MemoryCounted, CommandCounted, StepCounted DEF Next

\* The invariant of the connections and the sockets.
THEOREM KernelCount == Spec => []CountInv
<1>1. Init => CountInv
  BY InitEstablishes, InitCounted DEF CountInv
<1>2. CountInv /\ [Next]_vars => CountInv'
  BY NextPreserves, NextCounted DEF CountInv
<1> QED
  BY <1>1, <1>2, PTL DEF Spec

\* The sockets that are open are those of the criteria, one for each memory of each: no disconnection leaves
\* one open, whatever runs (_disconnectMemory, Criteria.c).
THEOREM KernelSocketsAreCounted == Spec => []SocketsAreCounted
<1>1. CountInv => SocketsAreCounted
  BY DEF CountInv
<1> QED
  BY <1>1, KernelCount, PTL

\* What a step takes out of the map.
LEMMA LeavesTheMap ==
  ASSUME IInv, [Next]_vars, NEW m \in Memories, m \in memoryIPMap, m \notin memoryIPMap'
  PROVE  (CriteriaOf(m))' = {}
<1> DEFINE Goes == \E gone : /\ Disconnected(gone) /\ Closed(gone)
                            /\ \A n \in Memories : n \in memoryIPMap /\ n \notin memoryIPMap' => n \in gone
<1>1. Goes => (CriteriaOf(m))' = {}
  BY CriteriaLeft
<1> HIDE DEF Goes
<1>2. memoryIPMap' # memoryIPMap
  OBVIOUS
<1>3. CASE \E n \in Memories : Stop(n) \/ Start(n) \/ Fill(n) \/ MemoryServes(n)
  <2>1. PICK n \in Memories : Stop(n) \/ Start(n) \/ Fill(n) \/ MemoryServes(n)
    BY <1>3
  <2>2. CASE Stop(n) \/ Start(n) \/ Fill(n)
    BY <1>2, <2>2 DEF Stop, Start, Fill
  <2>3. ASSUME NEW c, NEW i, Serve(c, i) \/ Serve_TooLarge(c, i) PROVE UNCHANGED memoryIPMap
    BY <2>3 DEF Serve, Serve_TooLarge
  <2> QED
    BY <1>2, <2>1, <2>2, <2>3 DEF MemoryServes
<1>4. CASE PeriodicDescribe \/ Criterias_Update(Dispatcher)
  BY <1>4 DEF PeriodicDescribe, Begin, Criterias_Update
<1>5. ASSUME NEW th \in Workers, Command(th) PROVE FALSE
  BY <1>2, <1>5 DEF Command, HandleSelect, HandleInsert, HandleCreate, HandleDescribe, HandleDrop, HandleAdd, Begin,
     Criterias_BroadcastJournal
<1>6. ASSUME NEW th \in Threads, Step(th) PROVE Goes
  <2>1. CASE MemoryDown(th) \/ EndUpdate(th)
    BY <2>1, DownDisconnects, EndUpdateDisconnects DEF Goes
  <2>2. CASE Criteria_AddMemory(th)
    <3>1. _disconnectMemories({thread[th].mem}) /\ memoryIPMap' = memoryIPMap \ {thread[th].mem}
      BY <1>2, <2>2 DEF Criteria_AddMemory
    <3> QED
      BY <3>1, RefusedDisconnects DEF Goes
  <2>3. CASE Criteria_GetMemoryFor(th) \/ Memory_SendRequestWithAnswer(th) \/ Receive(th) \/ HandleFull(th)
             \/ Memory_SendRequest(th) \/ HandleAnswer(th) \/ _iteratePeer_Answer(th)
             \/ (\E key \in Memories \cup {SeedKey} : _iteratePeer(th, key))
    BY <1>2, <2>3 DEF Criteria_GetMemoryFor, Memory_SendRequestWithAnswer, Receive, HandleFull, Memory_SendRequest,
       HandleAnswer, _iteratePeer_Answer, _iteratePeer
  <2> QED
    BY <1>6, <2>1, <2>2, <2>3 DEF Step
<1>7. CASE UNCHANGED vars
  BY <1>2, <1>7 DEF vars
<1> QED
  BY <1>1, <1>3, <1>4, <1>5, <1>6, <1>7 DEF Next

\* Whatever overlaps, a memory that leaves the map leaves every criterion in the same step, and none of the
\* connections to it stays open (_disconnectMemory, Criteria.c).
THEOREM KernelMemoriesAreForgottenWhole == Spec => MemoriesAreForgottenWhole
<1> DEFINE Whole == \A m \in Memories : m \in memoryIPMap /\ m \notin memoryIPMap' =>
                      /\ sockets'[m] = 0
                      /\ \A c \in CriteriaTypes : \A i \in DOMAIN members'[c] : members'[c][i].mem # m
<1>1. ASSUME CountInv, CountInv', [Next]_vars PROVE Whole
  <2> SUFFICES ASSUME NEW m \in Memories, m \in memoryIPMap, m \notin memoryIPMap'
               PROVE  /\ sockets'[m] = 0
                      /\ \A c \in CriteriaTypes : \A i \in DOMAIN members'[c] : members'[c][i].mem # m
    OBVIOUS
  <2>1. (CriteriaOf(m))' = {}
    BY <1>1, LeavesTheMap DEF CountInv
  <2>2. sockets'[m] = Cardinality((CriteriaOf(m))')
    BY <1>1 DEF CountInv, SocketsAreCounted
  <2> QED
    BY <2>1, <2>2, FS_EmptySet DEF CriteriaOf
<1>2. CountInv /\ CountInv' /\ [Next]_vars => [Whole]_vars
  BY <1>1
<1>3. [][Whole]_vars => MemoriesAreForgottenWhole
  BY PTL DEF MemoriesAreForgottenWhole
<1> QED
  BY <1>2, <1>3, KernelCount, PTL DEF Spec
=============================================================================
