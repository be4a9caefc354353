--------------------------- MODULE MainMemoryProofs ---------------------------
(***************************************************************************)
(* Proofs about MainMemory, for any tables, keys, values and number of     *)
(* frames.  The invariant is inductive: which frame GetFreeFrame may give  *)
(* depends on every page having a frame of its own that holds its key.     *)
(***************************************************************************)
EXTENDS MainMemory, TLAPS

IInv ==
  /\ TypeOK
  /\ OneOwnerPerFrame
  /\ FrameHoldsPageKey
  /\ NoEmptySegment
  /\ FullMeansNoVictim
  /\ DistinctCounters

USE FramesAssumption, CounterAssumption, NoPageAssumption

-----------------------------------------------------------------------------
\* A slot is its table and its key.
LEMMA SlotsFacts ==
  /\ \A t \in Tables, k \in Keys : <<t, k>> \in Slots
  /\ \A s \in Slots : s = <<s[1], s[2]>> /\ s[1] \in Tables /\ s[2] \in Keys
BY DEF Slots

\* The initial state, a fresh process, satisfies the invariant.
LEMMA InitIInv == Init => IInv
<1> SUFFICES ASSUME Init PROVE IInv
  OBVIOUS
<1>1. TypeOK
  <2>1. frameStatus \in [Frames -> BOOLEAN] /\ full \in BOOLEAN
    BY DEF Init
  <2>2. monotonicCounter \in 0 .. MaxCounter
    BY DEF Init
  <2>3. pages \in [Slots -> Page \cup {NoPage}] /\ journaled \in [Slots -> FrameData \cup {NoEntry}]
    BY DEF Init
  <2>4. QED
    BY <2>1, <2>2, <2>3 DEF Init, TypeOK
<1>2. \A s \in Slots : ~Used(s)
  BY DEF Init, Used
<1>3. QED
  BY <1>1, <1>2, SlotsFacts DEF Init, IInv, OneOwnerPerFrame, FrameHoldsPageKey, NoEmptySegment,
     FullMeansNoVictim, DistinctCounters

\* The slots GetFreeFrame preempts are exactly those whose page is in the frame it
\* gives, and their pages are clean: the victim found by the key in its frame is the
\* page that was chosen.
LEMMA FreeFrameIsUnowned ==
  ASSUME IInv, NEW f \in Frames, NEW evicted, GetFreeFrame(f, evicted)
  PROVE  /\ evicted \subseteq Slots
         /\ \A s \in evicted : Clean(s)
         /\ \A s \in Slots : Used(s) => (pages[s].frame = f <=> s \in evicted)
<1> USE DEF IInv
<1>1. CASE FirstFreeFrame(f) /\ evicted = {}
  BY <1>1 DEF FirstFreeFrame, OneOwnerPerFrame
<1>2. CASE \E s \in Slots : LRUPage(s) /\ f = pages[s].frame /\ evicted = {<<s[1], memory[f].key>>}
  <2> PICK s \in Slots : LRUPage(s) /\ f = pages[s].frame /\ evicted = {<<s[1], memory[f].key>>}
    BY <1>2
  <2>1. Clean(s) /\ Used(s)
    BY DEF LRUPage, Clean
  <2>2. evicted = {s}
    BY <2>1, SlotsFacts DEF FrameHoldsPageKey
  <2>3. QED
    BY <2>1, <2>2 DEF OneOwnerPerFrame
<1>3. QED
  BY <1>1, <1>2 DEF GetFreeFrame

\* What a new page changes: its slot is used, the preempted ones are not, the other
\* pages stay as they were, and so do the contents of their frames.
NewPageEffect(t, ts, k, v, new, f, evicted) ==
  /\ \A s \in evicted : Clean(s)
  /\ <<t, k>> \notin evicted
  /\ \A s \in Slots : Used(s) => (pages[s].frame = f <=> s \in evicted)
  /\ ~full /\ full' = full /\ journaled' = journaled
  /\ monotonicCounter + 1 \in 1 .. MaxCounter
  /\ monotonicCounter' = monotonicCounter + 1
  /\ frameStatus' = [g \in Frames |-> g = f \/ frameStatus[g]]
  /\ memory' = [memory EXCEPT ![f] = [key |-> k, timestamp |-> ts, value |-> v]]
  /\ segmentTable' =
       {t} \cup {u \in segmentTable : (\E s \in evicted : s[1] = u) =>
                  \E k2 \in Keys : <<u, k2>> \notin evicted /\ Used(<<u, k2>>)}
  /\ new.frame = f /\ new.counter = monotonicCounter + 1
  /\ pages' = [s \in Slots |-> IF s = <<t, k>> THEN new
                              ELSE IF s \in evicted THEN NoPage ELSE pages[s]]

\* What PageInNewFrame does to the state, in one place: GetFreeFrame's frame, the page
\* that made room for it if there was one, and the new page in it.
LEMMA NewPageHasEffect ==
  ASSUME IInv, NEW t \in Tables, NEW k \in Keys, NEW ts \in Timestamps, NEW v \in Values,
         NEW dirty \in BOOLEAN, ~Used(<<t, k>>), PageInNewFrame(t, ts, k, v, dirty)
  PROVE  \E f \in Frames, evicted \in SUBSET Slots, new \in Page :
           NewPageEffect(t, ts, k, v, new, f, evicted) /\ new.dirty = dirty
<1>1. PICK f \in Frames, evicted \in {{}} \cup {{s} : s \in Slots} :
        /\ GetFreeFrame(f, evicted)
        /\ CreateNewPage(t, k, f, evicted, dirty)
        /\ WriteFrame(f, ts, k, v)
        /\ UNCHANGED <<full, journaled>>
  BY DEF PageInNewFrame
<1> DEFINE new == [counter |-> monotonicCounter + 1, frame |-> f, dirty |-> dirty]
<1>2. /\ evicted \in SUBSET Slots
      /\ \A s \in evicted : Clean(s)
      /\ \A s \in Slots : Used(s) => (pages[s].frame = f <=> s \in evicted)
  BY <1>1, FreeFrameIsUnowned
<1>3. <<t, k>> \notin evicted
  BY <1>2 DEF Clean
<1>4. monotonicCounter + 1 \in 1 .. MaxCounter /\ monotonicCounter' = monotonicCounter + 1
  BY <1>1 DEF CreateNewPage, IInv, TypeOK
<1>5. new \in Page /\ new.frame = f /\ new.counter = monotonicCounter + 1 /\ new.dirty = dirty
  BY <1>4 DEF Page
<1>6. frameStatus' = [g \in Frames |-> g = f \/ frameStatus[g]]
  <2>1. \A g \in Frames : (\E s \in evicted : Used(s) /\ pages[s].frame = g) => g = f
    BY <1>2 DEF Clean
  <2>2. QED
    BY <1>1, <2>1 DEF CreateNewPage
<1>7. ~full
  BY <1>1 DEF GetFreeFrame
<1> HIDE DEF new
<1>8. pages' = [s \in Slots |-> IF s = <<t, k>> THEN new
                              ELSE IF s \in evicted THEN NoPage ELSE pages[s]]
  BY <1>1 DEF CreateNewPage, new
<1>9. QED
  BY <1>1, <1>2, <1>3, <1>4, <1>5, <1>6, <1>7, <1>8 DEF CreateNewPage, WriteFrame, NewPageEffect

\* A page created by INSERT, or for a value read from the file system, preserves the
\* invariant, with or without a victim.
LEMMA NewPagePreserves ==
  ASSUME IInv, NEW t \in Tables, NEW k \in Keys, NEW ts \in Timestamps, NEW v \in Values,
         NEW dirty \in BOOLEAN, ~Used(<<t, k>>), PageInNewFrame(t, ts, k, v, dirty)
  PROVE  IInv'
<1> DEFINE datum == [key |-> k, timestamp |-> ts, value |-> v]
           slot  == <<t, k>>
<1> PICK f \in Frames, evicted \in SUBSET Slots, new \in Page :
      NewPageEffect(t, ts, k, v, new, f, evicted)
  BY NewPageHasEffect
<1>1. /\ slot \notin evicted /\ slot \in Slots
      /\ \A s \in Slots : Used(s) => (pages[s].frame = f <=> s \in evicted)
  BY SlotsFacts DEF NewPageEffect
<1>2. full' = FALSE /\ journaled' = journaled
  BY DEF NewPageEffect, IInv, TypeOK
<1>3. monotonicCounter' \in 1 .. MaxCounter /\ monotonicCounter' = monotonicCounter + 1
  BY DEF NewPageEffect
<1>4. /\ new.frame = f /\ new.counter = monotonicCounter' /\ new # NoPage
      /\ pages' = [s \in Slots |-> IF s = slot THEN new
                                  ELSE IF s \in evicted THEN NoPage ELSE pages[s]]
  BY DEF NewPageEffect
<1>5. frameStatus' = [g \in Frames |-> g = f \/ frameStatus[g]]
  BY DEF NewPageEffect
<1>6. memory' = [memory EXCEPT ![f] = datum] /\ datum \in FrameData /\ datum.key = k
  BY DEF NewPageEffect, FrameData
<1>7. segmentTable' =
        {t} \cup {u \in segmentTable : (\E s \in evicted : s[1] = u) =>
                    \E k2 \in Keys : <<u, k2>> \notin evicted /\ Used(<<u, k2>>)}
  BY DEF NewPageEffect
<1> slot # <<>> /\ slot[1] = t /\ slot[2] = k
  OBVIOUS
<1> HIDE DEF datum, slot
<1>8. TypeOK'
  <2>1. pages' \in [Slots -> Page \cup {NoPage}]
    BY <1>4 DEF IInv, TypeOK
  <2>2. segmentTable' \subseteq Tables
    BY <1>7 DEF IInv, TypeOK
  <2>3. frameStatus' \in [Frames -> BOOLEAN]
    BY <1>5 DEF IInv, TypeOK
  <2>4. memory' \in [Frames -> FrameData]
    BY <1>6 DEF IInv, TypeOK
  <2>5. monotonicCounter' \in 0 .. MaxCounter
    BY <1>3
  <2>6. QED
    BY <1>2, <2>1, <2>2, <2>3, <2>4, <2>5 DEF IInv, TypeOK
\* The pages afterwards: the new one, and the others that were not preempted.
<1>9. /\ pages'[slot] = new
      /\ \A s \in Slots : s # slot /\ pages'[s] # NoPage =>
           pages'[s] = pages[s] /\ Used(s) /\ s \notin evicted
      /\ \A s \in Slots : Used(s) /\ s \notin evicted /\ s # slot => pages'[s] = pages[s]
  BY <1>1, <1>4 DEF Used
<1>10. \A s \in Slots : s # slot /\ pages'[s] # NoPage => pages'[s].frame # f
  BY <1>1, <1>9
<1>11. OneOwnerPerFrame'
  <2>1. \A s, r \in Slots : pages'[s] # NoPage /\ pages'[r] # NoPage
                            /\ pages'[s].frame = pages'[r].frame => s = r
    <3> SUFFICES ASSUME NEW s \in Slots, NEW r \in Slots, pages'[s] # NoPage, pages'[r] # NoPage,
                        pages'[s].frame = pages'[r].frame, s # slot, r # slot
                 PROVE  s = r
      BY <1>4, <1>9, <1>10
    <3> QED
      BY <1>9 DEF IInv, OneOwnerPerFrame
  <2>2. ASSUME NEW g \in Frames, g # f
        PROVE  frameStatus'[g] <=> \E s \in Slots : pages'[s] # NoPage /\ pages'[s].frame = g
    <3>1. frameStatus'[g] <=> \E s \in Slots : Used(s) /\ pages[s].frame = g
      BY <1>5, <2>2 DEF IInv, OneOwnerPerFrame
    <3>2. ASSUME NEW s \in Slots, Used(s), pages[s].frame = g
          PROVE  pages'[s] # NoPage /\ pages'[s].frame = g
      <4>1. s \notin evicted
        BY <1>1, <2>2, <3>2
      <4>2. CASE s = slot
        BY <1>4, <1>9, <3>2, <4>2, ~Used(slot) DEF slot
      <4>3. QED
        BY <1>9, <3>2, <4>1, <4>2 DEF Used
    <3>3. ASSUME NEW s \in Slots, pages'[s] # NoPage, pages'[s].frame = g
          PROVE  Used(s) /\ pages[s].frame = g
      BY <1>4, <1>9, <2>2, <3>3
    <3>4. QED
      BY <3>1, <3>2, <3>3
  <2>3. frameStatus'[f] /\ pages'[slot] # NoPage /\ pages'[slot].frame = f
    BY <1>4, <1>5, <1>9
  <2>4. QED
    BY <1>1, <2>1, <2>2, <2>3 DEF OneOwnerPerFrame, Used
<1>12. FrameHoldsPageKey'
  <2>1. ASSUME NEW s \in Slots, pages'[s] # NoPage, s # slot
        PROVE  memory'[pages'[s].frame].key = s[2]
    <3>1. pages'[s] = pages[s] /\ Used(s) /\ pages[s].frame # f
      BY <1>9, <1>10, <2>1
    <3>2. pages[s].frame \in Frames
      BY <3>1 DEF IInv, TypeOK, Page, Used
    <3>3. QED
      BY <1>6, <3>1, <3>2 DEF IInv, TypeOK, FrameHoldsPageKey
  <2>2. memory'[pages'[slot].frame].key = k
    BY <1>4, <1>6, <1>9 DEF IInv, TypeOK
  <2>3. QED
    BY <2>1, <2>2 DEF FrameHoldsPageKey, Used
<1>13. NoEmptySegment'
  <2>1. ASSUME NEW u \in Tables
        PROVE  u \in segmentTable' <=> \E k2 \in Keys : pages'[<<u, k2>>] # NoPage
    <3>1. CASE u = t
      BY <1>4, <1>7, <1>9, <3>1 DEF slot
    <3>2. CASE u # t
      <4>1. \A k2 \in Keys : <<u, k2>> \in Slots /\ <<u, k2>> # slot
        BY <3>2, SlotsFacts DEF slot
      <4>2. \A k2 \in Keys : pages'[<<u, k2>>] # NoPage
                               <=> Used(<<u, k2>>) /\ <<u, k2>> \notin evicted
        BY <1>9, <4>1 DEF Used
      <4>3. (\A s \in evicted : s[1] # u) => \A k2 \in Keys : <<u, k2>> \notin evicted
        OBVIOUS
      <4>4. u \in segmentTable' <=>
              u \in segmentTable /\ ((\E s \in evicted : s[1] = u) =>
                 \E k2 \in Keys : <<u, k2>> \notin evicted /\ Used(<<u, k2>>))
        BY <1>7, <3>2
      <4>5. u \in segmentTable <=> \E k2 \in Keys : Used(<<u, k2>>)
        BY DEF IInv, NoEmptySegment
      <4>6. QED
        BY <4>2, <4>3, <4>4, <4>5
    <3>3. QED
      BY <3>1, <3>2
  <2>2. QED
    BY <1>8, <2>1 DEF NoEmptySegment, TypeOK, Used
<1>14. FullMeansNoVictim'
  BY <1>2 DEF FullMeansNoVictim
<1>15. DistinctCounters'
  <2>1. \A s \in Slots : Used(s) => pages[s].counter \in 1 .. MaxCounter
    BY DEF IInv, TypeOK, Page, Used
  <2>2. monotonicCounter \in Int
    BY DEF IInv, TypeOK
  <2>3. \A s \in Slots : s # slot /\ pages'[s] # NoPage => pages'[s].counter < monotonicCounter'
    <3> SUFFICES ASSUME NEW s \in Slots, s # slot, pages'[s] # NoPage
                 PROVE  pages'[s].counter < monotonicCounter'
      OBVIOUS
    <3>1. pages'[s] = pages[s] /\ Used(s)
      BY <1>9
    <3>2. pages[s].counter <= monotonicCounter
      BY <3>1 DEF IInv, DistinctCounters
    <3>3. QED
      BY <1>3, <2>1, <2>2, <3>1, <3>2
  <2>4. ASSUME NEW s \in Slots, NEW r \in Slots, pages'[s] # NoPage, pages'[r] # NoPage,
               pages'[r].counter = pages'[s].counter
        PROVE  r = s
    <3>1. CASE s = slot \/ r = slot
      BY <1>3, <1>4, <1>9, <2>1, <2>2, <2>3, <2>4, <3>1
    <3>2. CASE s # slot /\ r # slot
      BY <1>9, <2>4, <3>2 DEF IInv, DistinctCounters
    <3>3. QED
      BY <3>1, <3>2
  <2>5. \A s \in Slots : pages'[s] # NoPage => pages'[s].counter <= monotonicCounter'
    <3> SUFFICES ASSUME NEW s \in Slots, pages'[s] # NoPage
                 PROVE  pages'[s].counter <= monotonicCounter'
      OBVIOUS
    <3>1. CASE s = slot
      BY <1>3, <1>4, <1>9, <2>2, <3>1
    <3>2. CASE s # slot
      BY <1>3, <1>9, <2>1, <2>2, <2>3, <3>2
    <3>3. QED
      BY <3>1, <3>2
  <2>6. QED
    BY <2>4, <2>5 DEF DistinctCounters, Used
<1>16. QED
  BY <1>8, <1>11, <1>12, <1>13, <1>14, <1>15 DEF IInv

\* Touching a page, or writing its frame with the same key, moves no page.
LEMMA TouchPreserves ==
  ASSUME IInv, NEW t \in Tables, NEW k \in Keys, NEW dirty \in BOOLEAN, Used(<<t, k>>),
         TouchPage(<<t, k>>, dirty), ~full \/ dirty \/ Dirty(<<t, k>>),
         UNCHANGED <<frameStatus, full, segmentTable, journaled>>,
         memory' \in [Frames -> FrameData],
         \A g \in Frames : memory'[g].key = memory[g].key
  PROVE  IInv'
<1> DEFINE slot == <<t, k>>
<1>1. slot \in Slots /\ Used(slot) /\ pages[slot] \in Page
  BY SlotsFacts DEF IInv, TypeOK, Used
<1>2. monotonicCounter' \in 1 .. MaxCounter /\ monotonicCounter' = monotonicCounter + 1
  BY DEF TouchPage, IInv, TypeOK
<1> DEFINE touched == [pages[slot] EXCEPT !.counter = monotonicCounter', !.dirty = @ \/ dirty]
<1>3. pages' = [pages EXCEPT ![slot] = touched]
  BY <1>1, <1>2 DEF TouchPage, IInv, TypeOK
<1>4. /\ touched.counter = monotonicCounter' /\ touched.frame = pages[slot].frame
      /\ touched.dirty = (pages[slot].dirty \/ dirty) /\ touched \in Page
  BY <1>1, <1>2 DEF Page
<1> HIDE DEF slot, touched
<1>5. pages'[slot] = touched
  BY <1>1, <1>3 DEF IInv, TypeOK
<1>6. /\ \A s \in Slots : s # slot => pages'[s] = pages[s]
      /\ \A s \in Slots : pages'[s] # NoPage => pages[s] # NoPage
      /\ \A s \in Slots : pages[s] # NoPage => pages'[s] # NoPage
      /\ \A s \in Slots : pages[s] # NoPage => pages'[s].frame = pages[s].frame
  BY <1>1, <1>3, <1>4, <1>5 DEF IInv, TypeOK, Used
<1>7. TypeOK'
  <2>1. pages' \in [Slots -> Page \cup {NoPage}]
    BY <1>3, <1>4 DEF IInv, TypeOK
  <2>2. monotonicCounter' \in 0 .. MaxCounter
    BY <1>2
  <2>3. QED
    BY <2>1, <2>2 DEF IInv, TypeOK
<1>8. OneOwnerPerFrame'
  BY <1>6 DEF IInv, OneOwnerPerFrame, Used
<1>9. FrameHoldsPageKey'
  <2> SUFFICES ASSUME NEW s \in Slots, pages[s] # NoPage PROVE memory'[pages'[s].frame].key = s[2]
    BY <1>6 DEF FrameHoldsPageKey, Used
  <2>1. pages[s].frame \in Frames
    BY DEF IInv, TypeOK, Page, Used
  <2>2. QED
    BY <1>6, <2>1 DEF IInv, FrameHoldsPageKey, Used
<1>10. NoEmptySegment'
  BY <1>6, SlotsFacts DEF IInv, NoEmptySegment, Used
<1>11. FullMeansNoVictim'
  <2> SUFFICES ASSUME full, NEW s \in Slots, pages'[s] # NoPage PROVE pages'[s].dirty
    BY DEF FullMeansNoVictim, Clean, Used
  <2>1. CASE s = slot
    <3>1. pages[slot].dirty
      BY <1>1 DEF IInv, FullMeansNoVictim, Clean
    <3>2. QED
      BY <1>4, <1>5, <2>1, <3>1
  <2>2. CASE s # slot
    BY <1>6, <2>2 DEF IInv, FullMeansNoVictim, Clean, Used
  <2>3. QED
    BY <2>1, <2>2
<1>12. DistinctCounters'
  <2>1. \A s \in Slots : Used(s) => pages[s].counter \in 1 .. MaxCounter
    BY DEF IInv, TypeOK, Page, Used
  <2>2. monotonicCounter \in Int
    BY DEF IInv, TypeOK
  <2>3. pages'[slot].counter = monotonicCounter'
    BY <1>4, <1>5
  <2>4. ASSUME NEW s \in Slots, s # slot, Used(s)
        PROVE  pages'[s].counter = pages[s].counter /\ pages'[s].counter < monotonicCounter'
    <3>1. pages'[s] = pages[s] /\ pages[s].counter <= monotonicCounter
      BY <1>6, <2>4 DEF IInv, DistinctCounters
    <3>2. QED
      BY <1>2, <2>1, <2>2, <2>4, <3>1
  <2>5. ASSUME NEW s \in Slots, NEW r \in Slots, Used(s), Used(r),
               pages'[r].counter = pages'[s].counter
        PROVE  r = s
    <3>1. CASE s = slot \/ r = slot
      BY <1>2, <2>1, <2>2, <2>3, <2>4, <2>5, <3>1
    <3>2. CASE s # slot /\ r # slot
      BY <2>4, <2>5, <3>2 DEF IInv, DistinctCounters
    <3>3. QED
      BY <3>1, <3>2
  <2>6. \A s \in Slots : Used(s) => pages'[s].counter <= monotonicCounter'
    <3> SUFFICES ASSUME NEW s \in Slots, Used(s) PROVE pages'[s].counter <= monotonicCounter'
      OBVIOUS
    <3>1. CASE s = slot
      BY <1>2, <2>2, <2>3, <3>1
    <3>2. CASE s # slot
      BY <1>2, <2>1, <2>2, <2>4, <3>2
    <3>3. QED
      BY <3>1, <3>2
  <2>7. QED
    BY <1>6, <2>5, <2>6 DEF DistinctCounters, Used
<1>13. QED
  BY <1>7, <1>8, <1>9, <1>10, <1>11, <1>12 DEF IInv

\* DROP's eviction of a whole segment preserves the invariant.
LEMMA EvictPagesPreserves ==
  ASSUME IInv, NEW t \in Tables, Memory_EvictPages(t) PROVE IInv'
<1>1. pages' = [s \in Slots |-> IF s[1] = t THEN NoPage ELSE pages[s]]
  BY DEF Memory_EvictPages
<1>2. /\ \A s \in Slots : pages'[s] # NoPage => pages'[s] = pages[s] /\ pages[s] # NoPage /\ s[1] # t
      /\ \A s \in Slots : pages[s] # NoPage /\ s[1] # t => pages'[s] = pages[s]
  BY <1>1 DEF Used
<1>3. TypeOK'
  <2>1. pages' \in [Slots -> Page \cup {NoPage}]
    BY <1>1 DEF IInv, TypeOK
  <2>2. frameStatus' \in [Frames -> BOOLEAN]
    BY DEF Memory_EvictPages, IInv, TypeOK
  <2>3. QED
    BY <2>1, <2>2 DEF Memory_EvictPages, IInv, TypeOK
<1>4. OneOwnerPerFrame'
  <2>1. \A s, r \in Slots : pages'[s] # NoPage /\ pages'[r] # NoPage
                            /\ pages'[s].frame = pages'[r].frame => s = r
    BY <1>2 DEF IInv, OneOwnerPerFrame, Used
  <2>2. ASSUME NEW f \in Frames
        PROVE  frameStatus'[f] <=> \E s \in Slots : pages'[s] # NoPage /\ pages'[s].frame = f
    <3>1. frameStatus'[f] <=> frameStatus[f] /\ ~ \E k \in Keys : Used(<<t, k>>) /\ pages[<<t, k>>].frame = f
      BY DEF Memory_EvictPages
    <3>2. (\E k \in Keys : Used(<<t, k>>) /\ pages[<<t, k>>].frame = f)
            => ~ \E s \in Slots : pages'[s] # NoPage /\ pages'[s].frame = f
      <4> SUFFICES ASSUME NEW k \in Keys, Used(<<t, k>>), pages[<<t, k>>].frame = f,
                          NEW s \in Slots, pages'[s] # NoPage, pages'[s].frame = f
                   PROVE  FALSE
        OBVIOUS
      <4>1. s[1] # t /\ Used(s) /\ pages[s].frame = f
        BY <1>2 DEF Used
      <4>2. s = <<t, k>>
        BY <4>1, SlotsFacts DEF IInv, OneOwnerPerFrame
      <4>3. QED
        BY <4>1, <4>2
    <3>3. ASSUME NEW s \in Slots, Used(s), pages[s].frame = f,
                 ~ \E k \in Keys : Used(<<t, k>>) /\ pages[<<t, k>>].frame = f
          PROVE  pages'[s] # NoPage /\ pages'[s].frame = f
      <4>1. s[1] # t
        BY <3>3, SlotsFacts
      <4>2. QED
        BY <1>2, <3>3, <4>1 DEF Used
    <3>4. ASSUME NEW s \in Slots, pages'[s] # NoPage, pages'[s].frame = f PROVE frameStatus[f]
      BY <1>2, <3>4 DEF IInv, OneOwnerPerFrame, Used
    <3>5. frameStatus[f] => \E s \in Slots : Used(s) /\ pages[s].frame = f
      BY DEF IInv, OneOwnerPerFrame
    <3>6. QED
      BY <3>1, <3>2, <3>3, <3>4, <3>5
  <2>3. QED
    BY <2>1, <2>2 DEF OneOwnerPerFrame, Used
<1>5. FrameHoldsPageKey'
  BY <1>2 DEF Memory_EvictPages, IInv, FrameHoldsPageKey, Used
<1>6. NoEmptySegment'
  <2>1. \A u \in Tables, k \in Keys :
          /\ pages'[<<u, k>>] # NoPage => u # t /\ Used(<<u, k>>)
          /\ u # t /\ Used(<<u, k>>) => pages'[<<u, k>>] # NoPage
    <3> SUFFICES ASSUME NEW u \in Tables, NEW k \in Keys
                 PROVE  /\ pages'[<<u, k>>] # NoPage => u # t /\ Used(<<u, k>>)
                        /\ u # t /\ Used(<<u, k>>) => pages'[<<u, k>>] # NoPage
      OBVIOUS
    <3>1. <<u, k>> \in Slots /\ <<u, k>>[1] = u
      BY SlotsFacts
    <3>2. QED
      BY <1>2, <3>1 DEF Used
  <2>2. QED
    BY <2>1 DEF Memory_EvictPages, IInv, NoEmptySegment, Used
<1>7. FullMeansNoVictim'
  BY <1>2 DEF Memory_EvictPages, IInv, FullMeansNoVictim, Clean, Used
<1>8. DistinctCounters'
  BY <1>2 DEF Memory_EvictPages, IInv, DistinctCounters, Used
<1>9. QED
  BY <1>3, <1>4, <1>5, <1>6, <1>7, <1>8 DEF IInv

\* The journal and a restart leave a memory without pages.
LEMMA EmptyMemory ==
  ASSUME TypeOK', frameStatus' = [f \in Frames |-> FALSE], full' = FALSE, segmentTable' = {},
         pages' = [s \in Slots |-> NoPage]
  PROVE  IInv'
<1>1. \A s \in Slots : pages'[s] = NoPage
  OBVIOUS
<1>2. \A t \in Tables, k \in Keys : pages'[<<t, k>>] = NoPage
  BY SlotsFacts
<1>3. QED
  BY <1>1, <1>2 DEF IInv, OneOwnerPerFrame, FrameHoldsPageKey, NoEmptySegment,
     FullMeansNoVictim, DistinctCounters, Used, Clean

\* The journal, which leaves the memory clean, preserves the invariant.
LEMMA JournalPreserves == IInv /\ Memory_DoJournal => IInv'
<1> SUFFICES ASSUME IInv, Memory_DoJournal PROVE IInv'
  OBVIOUS
<1>1. DirtyFrames \in [Slots -> FrameData \cup {NoEntry}]
  <2>1. \A s \in Slots : Dirty(s) => memory[pages[s].frame] \in FrameData
    BY DEF IInv, TypeOK, Dirty, Used, Page
  <2>2. QED
    BY <2>1 DEF DirtyFrames
<1>2. frameStatus' \in [Frames -> BOOLEAN] /\ pages' \in [Slots -> Page \cup {NoPage}]
  BY DEF Memory_DoJournal, CleanMemory
<1>3. TypeOK'
  BY <1>1, <1>2 DEF Memory_DoJournal, CleanMemory, IInv, TypeOK
<1>4. QED
  BY <1>3, EmptyMemory DEF Memory_DoJournal, CleanMemory

\* A new process starts in the invariant.
LEMMA RestartPreserves == Restart => IInv'
<1> SUFFICES ASSUME Restart PROVE IInv'
  OBVIOUS
<1>1. frameStatus' \in [Frames -> BOOLEAN] /\ pages' \in [Slots -> Page \cup {NoPage}]
  BY DEF Restart
<1>2. monotonicCounter' \in 0 .. MaxCounter /\ journaled' \in [Slots -> FrameData \cup {NoEntry}]
  BY DEF Restart
<1>3. TypeOK'
  BY <1>1, <1>2 DEF Restart, TypeOK
<1>4. QED
  BY <1>3, EmptyMemory DEF Restart

\* Caching that there is no frame preserves the invariant: nothing could be evicted.
LEMMA RefusePreserves == IInv /\ RefuseFrame => IInv'
<1> SUFFICES ASSUME IInv, RefuseFrame PROVE IInv'
  OBVIOUS
<1>1. \A s \in Slots : ~Clean(s)
  BY DEF RefuseFrame, NoFreeFrame, IInv, FullMeansNoVictim
<1>2. FullMeansNoVictim'
  BY <1>1 DEF RefuseFrame, FullMeansNoVictim, Clean, Used
<1>3. QED
  BY <1>2 DEF RefuseFrame, IInv, TypeOK, OneOwnerPerFrame, FrameHoldsPageKey, NoEmptySegment,
     DistinctCounters, Used

\* A read of a page, which stamps it, preserves the invariant.
LEMMA GetFramePreserves ==
  ASSUME IInv, NEW t \in Tables, NEW k \in Keys, Memory_GetFrame(t, k) PROVE IInv'
<1>1. Used(<<t, k>>) /\ TouchPage(<<t, k>>, FALSE)
  BY DEF Memory_GetFrame
<1>2. ~full \/ Dirty(<<t, k>>)
  BY <1>1, SlotsFacts DEF IInv, FullMeansNoVictim, Clean, Dirty
<1>3. QED
  BY <1>1, <1>2, TouchPreserves DEF Memory_GetFrame, IInv, TypeOK

\* An INSERT over a page that is there, which becomes modified, preserves the invariant.
LEMMA UpsertPresentPreserves ==
  ASSUME IInv, NEW t \in Tables, NEW k \in Keys, NEW ts \in Timestamps, NEW v \in Values,
         Upsert_Present(t, ts, k, v)
  PROVE  IInv'
<1> DEFINE datum == [key |-> k, timestamp |-> ts, value |-> v]
           f     == pages[<<t, k>>].frame
<1>1. Used(<<t, k>>) /\ TouchPage(<<t, k>>, TRUE) /\ memory' = [memory EXCEPT ![f] = datum]
  BY DEF Upsert_Present, WriteFrame
<1>2. f \in Frames /\ memory[f].key = k /\ datum.key = k /\ datum \in FrameData
  BY <1>1, SlotsFacts DEF IInv, TypeOK, FrameHoldsPageKey, Used, Page, FrameData
<1> HIDE DEF datum, f
<1>3. memory' \in [Frames -> FrameData] /\ \A g \in Frames : memory'[g].key = memory[g].key
  BY <1>1, <1>2 DEF IInv, TypeOK
<1>4. QED
  BY <1>1, <1>3, TouchPreserves DEF Upsert_Present

\* Every step preserves the invariant.
LEMMA NextPreserves == IInv /\ [Next]_vars => IInv'
<1> SUFFICES ASSUME IInv, [Next]_vars PROVE IInv'
  OBVIOUS
<1>1. ASSUME NEW t \in Tables, NEW k \in Keys, NEW ts \in Timestamps, NEW v \in Values,
             ~Used(<<t, k>>), Memory_InsertNewValue(t, ts, k, v)
      PROVE  IInv'
  <2>1. CASE PageInNewFrame(t, ts, k, v, FALSE)
    BY <1>1, <2>1, NewPagePreserves
  <2>2. CASE RefuseFrame
    BY <2>2, RefusePreserves
  <2>3. QED
    BY <1>1, <2>1, <2>2 DEF Memory_InsertNewValue
<1>2. ASSUME NEW t \in Tables, NEW k \in Keys, NEW ts \in Timestamps, NEW v \in Values,
             Memory_UpsertValue(t, ts, k, v)
      PROVE  IInv'
  <2>1. CASE Upsert_Present(t, ts, k, v)
    BY <2>1, UpsertPresentPreserves
  <2>2. CASE Upsert_Absent(t, ts, k, v)
    BY <2>2, NewPagePreserves DEF Upsert_Absent
  <2>3. CASE Upsert_Refused(t, k)
    BY <2>3, RefusePreserves DEF Upsert_Refused
  <2>4. QED
    BY <1>2, <2>1, <2>2, <2>3 DEF Memory_UpsertValue
<1>3. ASSUME NEW t \in Tables, NEW k \in Keys, Memory_GetFrame(t, k) PROVE IInv'
  BY <1>3, GetFramePreserves
<1>4. ASSUME NEW t \in Tables, Memory_EvictPages(t) PROVE IInv'
  BY <1>4, EvictPagesPreserves
<1>5. CASE Memory_DoJournal
  BY <1>5, JournalPreserves
<1>6. CASE Restart
  BY <1>6, RestartPreserves
<1>7. CASE UNCHANGED vars
  BY <1>7 DEF vars, IInv, TypeOK, OneOwnerPerFrame, FrameHoldsPageKey, NoEmptySegment,
     FullMeansNoVictim, DistinctCounters, Used, Clean
<1>8. QED
  BY <1>1, <1>2, <1>3, <1>4, <1>5, <1>6, <1>7 DEF Next

\* Type correctness of the memory, with the invariant it needs to be inductive.
THEOREM MemoryInvariant == Spec => []IInv
BY InitIInv, NextPreserves, PTL DEF Spec

\* Every variable keeps its type whatever the operations of Memoria are.
THEOREM MemoryTypeOK == Spec => []TypeOK
<1>1. IInv => TypeOK
  BY DEF IInv
<1>2. QED
  BY <1>1, MemoryInvariant, PTL

\* No frame is shared by two pages and none is leaked, for any number of frames and
\* any sequence of INSERT, SELECT, DROP, JOURNAL, eviction and restart.
THEOREM MemoryOneOwnerPerFrame == Spec => []OneOwnerPerFrame
<1>1. IInv => OneOwnerPerFrame
  BY DEF IInv
<1>2. QED
  BY <1>1, MemoryInvariant, PTL

\* The LRU victim found through the key in its frame is always the page chosen.
THEOREM MemoryFrameHoldsPageKey == Spec => []FrameHoldsPageKey
<1>1. IInv => FrameHoldsPageKey
  BY DEF IInv
<1>2. QED
  BY <1>1, MemoryInvariant, PTL

\* While Full is cached there is nothing to evict.
THEOREM MemoryFullMeansNoVictim == Spec => []FullMeansNoVictim
<1>1. IInv => FullMeansNoVictim
  BY DEF IInv
<1>2. QED
  BY <1>1, MemoryInvariant, PTL

\* No two pages were used last at the same time: there is one least recently used page,
\* whatever was read, evicted or dropped.
THEOREM MemoryDistinctCounters == Spec => []DistinctCounters
<1>1. IInv => DistinctCounters
  BY DEF IInv
<1>2. QED
  BY <1>1, MemoryInvariant, PTL

-----------------------------------------------------------------------------
(***************************************************************************)
(* MainMemory implements WriteBuffer.                                      *)
(***************************************************************************)

\* A memory without pages is an empty buffer.
LEMMA InitBuffer == Init => Buffer!Init
BY DEF Init, Buffer!Init, Buffer!Empty, Buffer!Slots, DirtyFrames, Dirty, Used, Slots

\* A new page adds to the buffer the value it was written with, if it is marked as
\* modified; the page that made room for it was not in the buffer.
LEMMA NewPageBuffer ==
  ASSUME IInv, NEW t \in Tables, NEW k \in Keys, NEW ts \in Timestamps, NEW v \in Values,
         NEW dirty \in BOOLEAN, ~Used(<<t, k>>), PageInNewFrame(t, ts, k, v, dirty)
  PROVE  /\ dirty => Buffer!Put(t, k)
         /\ ~dirty => UNCHANGED <<DirtyFrames, journaled>>
<1> DEFINE datum == [key |-> k, timestamp |-> ts, value |-> v]
           slot  == <<t, k>>
<1> PICK f \in Frames, evicted \in SUBSET Slots, new \in Page :
      NewPageEffect(t, ts, k, v, new, f, evicted) /\ new.dirty = dirty
  BY NewPageHasEffect
<1>1. /\ slot \notin evicted /\ slot \in Slots /\ ~Used(slot)
      /\ \A s \in Slots : Used(s) /\ s \notin evicted => pages[s].frame # f
      /\ \A s \in evicted : Clean(s)
  BY SlotsFacts DEF NewPageEffect
<1>2. /\ new.frame = f /\ new # NoPage
      /\ pages' = [s \in Slots |-> IF s = slot THEN new
                                  ELSE IF s \in evicted THEN NoPage ELSE pages[s]]
  BY DEF NewPageEffect
<1>3. memory' = [memory EXCEPT ![f] = datum] /\ datum \in FrameData /\ datum.key = k
  BY DEF NewPageEffect, FrameData
<1>4. journaled' = journaled
  BY DEF NewPageEffect
<1> HIDE DEF datum, slot
<1> DEFINE D(s) == IF pages'[s] # NoPage /\ pages'[s].dirty THEN memory'[pages'[s].frame] ELSE NoEntry
<1>5. DirtyFrames' = [s \in Slots |-> D(s)]
  BY DEF DirtyFrames, Dirty, Used
<1>6. ASSUME NEW s \in Slots, s # slot PROVE D(s) = DirtyFrames[s]
  <2>1. CASE s \in evicted
    <3>1. DirtyFrames[s] = NoEntry
      BY <1>1, <2>1 DEF DirtyFrames, Dirty, Clean
    <3>2. pages'[s] = NoPage
      BY <1>2, <1>6, <2>1
    <3>3. QED
      BY <3>1, <3>2
  <2>2. CASE s \notin evicted
    <3>1. pages'[s] = pages[s]
      BY <1>2, <1>6, <2>2
    <3>2. CASE pages[s] = NoPage
      BY <3>1, <3>2 DEF DirtyFrames, Dirty, Used
    <3>3. CASE pages[s] # NoPage
      <4>1. pages[s].frame # f /\ pages[s].frame \in Frames
        BY <1>1, <2>2, <3>3 DEF IInv, TypeOK, Page, Used
      <4>2. memory'[pages[s].frame] = memory[pages[s].frame]
        BY <1>3, <4>1 DEF IInv, TypeOK
      <4>3. QED
        BY <3>1, <3>3, <4>2 DEF DirtyFrames, Dirty, Used
    <3>4. QED
      BY <3>2, <3>3
  <2>3. QED
    BY <2>1, <2>2
<1>7. D(slot) = IF dirty THEN datum ELSE NoEntry
  <2>1. pages'[slot] = new /\ memory'[f] = datum
    BY <1>1, <1>2, <1>3 DEF IInv, TypeOK
  <2>2. QED
    BY <1>2, <2>1
<1>8. DirtyFrames[slot] = NoEntry
  BY <1>1 DEF DirtyFrames, Dirty
<1> HIDE DEF D
<1>9. DirtyFrames \in [Slots -> FrameData \cup {NoEntry}] /\ DOMAIN DirtyFrames = Slots
  <2>1. \A s \in Slots : Dirty(s) => memory[pages[s].frame] \in FrameData
    BY DEF IInv, TypeOK, Dirty, Used, Page
  <2>2. QED
    BY <2>1 DEF DirtyFrames
<1>10. CASE dirty
  <2>1. DirtyFrames' = [DirtyFrames EXCEPT ![slot] = datum]
    BY <1>1, <1>5, <1>6, <1>7, <1>9, <1>10
  <2>2. QED
    BY <1>3, <1>4, <1>10, <2>1 DEF Buffer!Put, slot
<1>11. CASE ~dirty
  <2>1. DirtyFrames' = DirtyFrames
    BY <1>5, <1>6, <1>7, <1>8, <1>9, <1>11
  <2>2. QED
    BY <1>4, <1>11, <2>1
<1>12. QED
  BY <1>10, <1>11

\* SELECT of a page changes no write; UPSERT of a page that is present puts one.
LEMMA GetFrameBuffer ==
  ASSUME IInv, NEW t \in Tables, NEW k \in Keys, Memory_GetFrame(t, k)
  PROVE  UNCHANGED <<DirtyFrames, journaled>>
<1> DEFINE slot == <<t, k>>
<1>1. pages' = [pages EXCEPT ![slot].counter = monotonicCounter + 1, ![slot].dirty = @ \/ FALSE]
  BY DEF Memory_GetFrame, TouchPage
<1>2. slot \in Slots /\ pages[slot] \in Page
  BY SlotsFacts DEF Memory_GetFrame, IInv, TypeOK, Used
<1>3. /\ pages[slot] # NoPage /\ pages'[slot] # NoPage
      /\ pages'[slot].frame = pages[slot].frame
      /\ pages'[slot].dirty = pages[slot].dirty
  <2>1. monotonicCounter + 1 \in 1 .. MaxCounter
    BY DEF Memory_GetFrame, TouchPage, IInv, TypeOK
  <2> DEFINE new == [counter |-> monotonicCounter + 1, frame |-> pages[slot].frame,
                     dirty |-> pages[slot].dirty]
  <2>2. new \in Page /\ pages'[slot] = new
    BY <1>1, <1>2, <2>1 DEF Page, IInv, TypeOK
  <2>3. QED
    BY <1>2, <2>2
<1>4. \A s \in Slots : s # slot => pages'[s] = pages[s]
  BY <1>1 DEF IInv, TypeOK
<1>5. DirtyFrames' = DirtyFrames
  BY <1>3, <1>4 DEF DirtyFrames, Dirty, Used, Memory_GetFrame
<1>6. QED
  BY <1>5 DEF Memory_GetFrame

\* An INSERT over a page that is there replaces what the buffer held of its key.
LEMMA UpsertPresentBuffer ==
  ASSUME IInv, NEW t \in Tables, NEW k \in Keys, NEW ts \in Timestamps, NEW v \in Values,
         Upsert_Present(t, ts, k, v)
  PROVE  Buffer!Put(t, k)
<1> DEFINE datum == [key |-> k, timestamp |-> ts, value |-> v]
           slot  == <<t, k>>
           f     == pages[slot].frame
<1>1. /\ Used(slot) /\ slot \in Slots /\ pages[slot] \in Page
      /\ pages' = [pages EXCEPT ![slot].counter = monotonicCounter + 1, ![slot].dirty = @ \/ TRUE]
      /\ memory' = [memory EXCEPT ![f] = datum]
  BY SlotsFacts DEF Upsert_Present, TouchPage, WriteFrame, Used, IInv, TypeOK
<1>2. datum \in FrameData /\ datum.key = k /\ f \in Frames
  BY <1>1 DEF FrameData, Page
<1>3. pages'[slot] # NoPage /\ pages'[slot].frame = f /\ pages'[slot].dirty
  <2>1. monotonicCounter + 1 \in 1 .. MaxCounter
    BY DEF Upsert_Present, TouchPage, IInv, TypeOK
  <2> DEFINE new == [counter |-> monotonicCounter + 1, frame |-> f, dirty |-> TRUE]
  <2>2. new \in Page /\ pages'[slot] = new
    BY <1>1, <2>1 DEF Page, IInv, TypeOK
  <2>3. new # NoPage /\ new.frame = f /\ new.dirty = TRUE
    BY <2>2
  <2> HIDE DEF new, f, slot
  <2>4. QED
    BY <2>2, <2>3
<1>4. \A s \in Slots : s # slot => pages'[s] = pages[s]
  BY <1>1 DEF IInv, TypeOK
<1>5. memory'[f] = datum /\ \A g \in Frames : g # f => memory'[g] = memory[g]
  BY <1>1, <1>2 DEF IInv, TypeOK
<1>6. \A s \in Slots : s # slot /\ Used(s) => pages[s].frame # f /\ pages[s].frame \in Frames
  BY <1>1 DEF IInv, OneOwnerPerFrame, TypeOK, Used, Page
<1> HIDE DEF datum, slot, f
<1> DEFINE D(s) == IF pages'[s] # NoPage /\ pages'[s].dirty THEN memory'[pages'[s].frame] ELSE NoEntry
<1>7. DirtyFrames' = [s \in Slots |-> D(s)]
  BY DEF DirtyFrames, Dirty, Used
<1>8. D(slot) = datum
  BY <1>3, <1>5
<1>9. ASSUME NEW s \in Slots, s # slot PROVE D(s) = DirtyFrames[s]
  BY <1>4, <1>5, <1>6, <1>9 DEF DirtyFrames, Dirty, Used
<1> HIDE DEF D
<1>10. DirtyFrames' = [DirtyFrames EXCEPT ![slot] = datum]
  BY <1>1, <1>7, <1>8, <1>9 DEF DirtyFrames
<1>11. QED
  BY <1>2, <1>10 DEF Buffer!Put, Upsert_Present, slot

\* DROP's eviction takes from the buffer what it held of that table, and nothing else.
LEMMA EvictPagesBuffer ==
  ASSUME IInv, NEW t \in Tables, Memory_EvictPages(t) PROVE Buffer!Discard(t)
<1>1. /\ pages' = [s \in Slots |-> IF s[1] = t THEN NoPage ELSE pages[s]]
      /\ memory' = memory /\ journaled' = journaled
  BY DEF Memory_EvictPages
<1>2. DirtyFrames' = [s \in Slots |-> IF s[1] = t THEN NoEntry ELSE DirtyFrames[s]]
  BY <1>1 DEF DirtyFrames, Dirty, Used
<1>3. QED
  BY <1>1, <1>2 DEF Buffer!Discard, Buffer!Slots, Slots

\* The journal hands over the whole buffer and empties it.
LEMMA JournalBuffer == Memory_DoJournal => Buffer!Flush
BY DEF Memory_DoJournal, CleanMemory, Buffer!Flush, Buffer!Empty, Buffer!Slots, Slots,
   DirtyFrames, Dirty, Used

\* The end of the process loses the buffer.
LEMMA RestartBuffer == Restart => Buffer!Lose
BY DEF Restart, Buffer!Lose, Buffer!Empty, Buffer!Slots, Slots, DirtyFrames, Dirty, Used

\* A refused INSERT leaves the buffer alone.
LEMMA RefuseBuffer == RefuseFrame => UNCHANGED Buffer!vars
BY DEF RefuseFrame, Buffer!vars, DirtyFrames, Dirty, Used

\* Every step of the memory is a step of the buffer or leaves it alone.
LEMMA NextBuffer == IInv /\ [Next]_vars => [Buffer!Next]_Buffer!vars
<1> SUFFICES ASSUME IInv, [Next]_vars PROVE [Buffer!Next]_Buffer!vars
  OBVIOUS
<1>1. ASSUME NEW t \in Tables, NEW k \in Keys, NEW ts \in Timestamps, NEW v \in Values,
             ~Used(<<t, k>>), Memory_InsertNewValue(t, ts, k, v)
      PROVE  [Buffer!Next]_Buffer!vars
  <2>1. CASE PageInNewFrame(t, ts, k, v, FALSE)
    BY <1>1, <2>1, NewPageBuffer DEF Buffer!vars
  <2>2. CASE RefuseFrame
    BY <2>2, RefuseBuffer
  <2>3. QED
    BY <1>1, <2>1, <2>2 DEF Memory_InsertNewValue
<1>2. ASSUME NEW t \in Tables, NEW k \in Keys, NEW ts \in Timestamps, NEW v \in Values,
             Memory_UpsertValue(t, ts, k, v)
      PROVE  [Buffer!Next]_Buffer!vars
  <2>1. CASE Upsert_Present(t, ts, k, v)
    BY <2>1, UpsertPresentBuffer DEF Buffer!Next
  <2>2. CASE Upsert_Absent(t, ts, k, v)
    BY <2>2, NewPageBuffer DEF Upsert_Absent, Buffer!Next
  <2>3. CASE Upsert_Refused(t, k)
    BY <2>3, RefuseBuffer DEF Upsert_Refused
  <2>4. QED
    BY <1>2, <2>1, <2>2, <2>3 DEF Memory_UpsertValue
<1>3. ASSUME NEW t \in Tables, NEW k \in Keys, Memory_GetFrame(t, k)
      PROVE  [Buffer!Next]_Buffer!vars
  BY <1>3, GetFrameBuffer DEF Buffer!vars
<1>4. ASSUME NEW t \in Tables, Memory_EvictPages(t) PROVE [Buffer!Next]_Buffer!vars
  BY <1>4, EvictPagesBuffer DEF Buffer!Next
<1>5. CASE Memory_DoJournal
  BY <1>5, JournalBuffer DEF Buffer!Next
<1>6. CASE Restart
  BY <1>6, RestartBuffer DEF Buffer!Next
<1>7. CASE UNCHANGED vars
  BY <1>7 DEF vars, Buffer!vars, DirtyFrames, Dirty, Used
<1>8. QED
  BY <1>1, <1>2, <1>3, <1>4, <1>5, <1>6, <1>7 DEF Next

\* Whatever is evicted to make room, an accepted INSERT stays in memory, newest value
\* of its key, until the journal hands it over, its table is dropped or the process ends.
THEOREM MemoryImplementsWriteBuffer == Spec => ImplementsWriteBuffer
<1>1. Spec => []IInv
  BY MemoryInvariant
<1>2. QED
  BY <1>1, InitBuffer, NextBuffer, PTL DEF Spec, ImplementsWriteBuffer, Buffer!Spec
=============================================================================
