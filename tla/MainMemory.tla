------------------------------ MODULE MainMemory ------------------------------
(***************************************************************************)
(* The memory of a Memoria process: MainMemory.c, SegmentTable.c and       *)
(* PageTable.c.  An array of frames, a bitmap of the frames in use, one    *)
(* segment per table with one page per key, least-recently-used            *)
(* replacement of clean pages, and the cached flag Full.                   *)
(*                                                                         *)
(* The dispatcher thread runs each operation to its end, so an operation   *)
(* is one action here.  MemoriaApi adds the file system and the threads.   *)
(***************************************************************************)
EXTENDS Integers, FiniteSets

CONSTANTS Tables,      \* names of tables
          Keys,        \* keys of a table
          Values,      \* values of a key
          Timestamps,  \* what GetMSEpoch, or the file system, may give
          NumFrames,   \* TAM_MEM / FrameSize
          MaxCounter,  \* bound of the usage counter
          NoPage       \* what hashmap_get gives for an absent key

ASSUME FramesAssumption  == NumFrames \in Nat \ {0}
ASSUME CounterAssumption == MaxCounter \in Nat

Frames    == 0 .. NumFrames - 1
Slots     == Tables \X Keys
FrameData == [key : Keys, timestamp : Timestamps, value : Values]
Page      == [counter : 1 .. MaxCounter, frame : Frames, dirty : BOOLEAN]
NoEntry   == [key |-> NoPage]   \* not journaled

ASSUME NoPageAssumption == NoPage \notin Page /\ NoEntry \notin FrameData

VARIABLES frameStatus,      \* the bitmap: which frames are in use
          full,             \* Full
          memory,           \* the contents of the frames
          segmentTable,     \* tables that have a segment
          pages,            \* the page of each slot <<table, key>>
          monotonicCounter, \* MonotonicCounter of PageTable.c
          journaled         \* what the last DoJournal gave to its insertFn

vars == <<frameStatus, full, memory, segmentTable, pages, monotonicCounter, journaled>>

\* What the frame array, the segment list and the journal record hold while MainMemory.c runs: every page
\* of a segment is {frame, key, time, dirty}, a frame without a page may still hold an old datum.
TypeOK ==
  /\ frameStatus \in [Frames -> BOOLEAN]
  /\ full \in BOOLEAN
  /\ memory \in [Frames -> FrameData]
  /\ segmentTable \subseteq Tables
  /\ pages \in [Slots -> Page \cup {NoPage}]
  /\ monotonicCounter \in 0 .. MaxCounter
  /\ journaled \in [Slots -> FrameData \cup {NoEntry}]

-----------------------------------------------------------------------------
Used(s)  == pages[s] # NoPage
Dirty(s) == Used(s) /\ pages[s].dirty
Clean(s) == Used(s) /\ ~pages[s].dirty

\* Variant: the vector takes the page, not the frame behind it.
DirtyFrames_Pages == [s \in Slots |-> IF Dirty(s) THEN pages[s] ELSE NoEntry]

\* The vector SegmentTable_GetDirtyFrames builds: the frame behind each dirty page.
DirtyFrames == [s \in Slots |-> IF Dirty(s) THEN memory[pages[s].frame] ELSE NoEntry]

\* Memory_Initialize: nothing writes the frames it allocates.
Init ==
  /\ frameStatus = [f \in Frames |-> FALSE]
  /\ full = FALSE
  /\ memory \in [Frames -> FrameData]
  /\ segmentTable = {}
  /\ pages = [s \in Slots |-> NoPage]
  /\ monotonicCounter = 0
  /\ journaled = [s \in Slots |-> NoEntry]

-----------------------------------------------------------------------------
\* Variant: modified pages are victims too.
LRUPage_ModifiedToo(s) == Used(s) /\ \A r \in Slots : Used(r) => pages[s].counter <= pages[r].counter

\* _saveLRUPage, over the pages of a segment and then over the segments.
LRUPage(s) == Clean(s) /\ \A r \in Slots : Clean(r) => pages[s].counter <= pages[r].counter

FirstFreeFrame(f) == ~frameStatus[f] /\ \A g \in Frames : g < f => frameStatus[g]

\* GetFreeFrame gives f, having preempted the pages of the slots in evicted.  The
\* victim is removed under the key its FRAME holds, not under its page's.
GetFreeFrame(f, evicted) ==
  /\ ~full
  /\ \/ FirstFreeFrame(f) /\ evicted = {}
     \/ /\ \A g \in Frames : frameStatus[g]
        /\ \E s \in Slots : /\ LRUPage(s)
                            /\ f = pages[s].frame
                            /\ evicted = {<<s[1], memory[f].key>>}

\* Variant: without a free frame there is no search for a victim.
NoFreeFrame_NoSearch == full \/ \A f \in Frames : frameStatus[f]

NoFreeFrame == full \/ ((\A f \in Frames : frameStatus[f]) /\ ~ \E s \in Slots : Clean(s))

\* CreateNewPage after GetFreeFrame: a segment left without pages is gone, the one
\* of the new page exists, and a page already under that key is overwritten, its
\* frame still marked in use.
CreateNewPage(t, k, f, evicted, dirty) ==
  /\ monotonicCounter < MaxCounter
  /\ monotonicCounter' = monotonicCounter + 1
  /\ pages' = [s \in Slots |->
       IF s = <<t, k>> THEN [counter |-> monotonicCounter + 1, frame |-> f, dirty |-> dirty]
       ELSE IF s \in evicted THEN NoPage ELSE pages[s]]
  /\ frameStatus' = [g \in Frames |->
       \/ g = f
       \/ frameStatus[g] /\ ~ \E s \in evicted : Used(s) /\ pages[s].frame = g]
  /\ segmentTable' =
       {t} \cup {u \in segmentTable :
                   (\E s \in evicted : s[1] = u) =>
                     \E k2 \in Keys : <<u, k2>> \notin evicted /\ Used(<<u, k2>>)}

\* Variant: the key stays as the frame's last page had it.
WriteFrame_NoKey(f, ts, k, v) == memory' = [memory EXCEPT ![f].timestamp = ts, ![f].value = v]

WriteFrame(f, ts, k, v) ==
  memory' = [memory EXCEPT ![f] = [key |-> k, timestamp |-> ts, value |-> v]]

PageInNewFrame(t, ts, k, v, dirty) ==
  \E f \in Frames, evicted \in {{}} \cup {{s} : s \in Slots} :
    /\ GetFreeFrame(f, evicted)
    /\ CreateNewPage(t, k, f, evicted, dirty)
    /\ WriteFrame(f, ts, k, v)
    /\ UNCHANGED <<full, journaled>>

\* GetFreeFrame gives no frame: the outcome is cached in Full.
RefuseFrame ==
  /\ NoFreeFrame
  /\ full' = TRUE
  /\ UNCHANGED <<frameStatus, memory, segmentTable, pages, monotonicCounter, journaled>>

\* Variant: the counter is read and not advanced.
TouchPage_SameCounter(s, dirty) ==
  /\ pages' = [pages EXCEPT ![s].counter = monotonicCounter, ![s].dirty = @ \/ dirty]
  /\ UNCHANGED monotonicCounter

TouchPage(s, dirty) ==
  /\ monotonicCounter < MaxCounter
  /\ monotonicCounter' = monotonicCounter + 1
  /\ pages' = [pages EXCEPT ![s].counter = monotonicCounter + 1, ![s].dirty = @ \/ dirty]

-----------------------------------------------------------------------------
\* Memory_GetFrame of a page that is present; an absent one changes nothing.
Memory_GetFrame(t, k) ==
  /\ Used(<<t, k>>)
  /\ TouchPage(<<t, k>>, FALSE)
  /\ UNCHANGED <<frameStatus, full, memory, segmentTable, journaled>>

\* Memory_InsertNewValue, which API_Select calls for a value it did not find here.
Memory_InsertNewValue(t, ts, k, v) == PageInNewFrame(t, ts, k, v, FALSE) \/ RefuseFrame

\* Memory_UpsertValue of a page that is present, and of one that is not.
Upsert_Present(t, ts, k, v) ==
  /\ Used(<<t, k>>)
  /\ TouchPage(<<t, k>>, TRUE)
  /\ WriteFrame(pages[<<t, k>>].frame, ts, k, v)
  /\ UNCHANGED <<frameStatus, full, segmentTable, journaled>>

Upsert_Absent(t, ts, k, v) ==
  ~Used(<<t, k>>) /\ PageInNewFrame(t, ts, k, v, TRUE)

Upsert_Refused(t, k) == ~Used(<<t, k>>) /\ RefuseFrame

Memory_UpsertValue(t, ts, k, v) ==
  Upsert_Present(t, ts, k, v) \/ Upsert_Absent(t, ts, k, v) \/ Upsert_Refused(t, k)

\* Variant: the frames of the pages are not marked free.
Memory_EvictPages_KeepsFrames(t) ==
  /\ pages' = [s \in Slots |-> IF s[1] = t THEN NoPage ELSE pages[s]]
  /\ segmentTable' = segmentTable \ {t}
  /\ UNCHANGED <<frameStatus, full, memory, monotonicCounter, journaled>>

\* Memory_EvictPages: the table's segment with its pages, dirty ones included.
Memory_EvictPages(t) ==
  /\ pages' = [s \in Slots |-> IF s[1] = t THEN NoPage ELSE pages[s]]
  /\ frameStatus' = [f \in Frames |->
       frameStatus[f] /\ ~ \E k \in Keys : Used(<<t, k>>) /\ pages[<<t, k>>].frame = f]
  /\ segmentTable' = segmentTable \ {t}
  /\ UNCHANGED <<full, memory, monotonicCounter, journaled>>

\* _cleanMemory
CleanMemory ==
  /\ frameStatus' = [f \in Frames |-> FALSE]
  /\ segmentTable' = {}
  /\ pages' = [s \in Slots |-> NoPage]
  /\ full' = FALSE
  /\ UNCHANGED <<memory, monotonicCounter>>

Memory_DoJournal == journaled' = DirtyFrames /\ CleanMemory

\* _ungratefulExit, or the end of the process, and a new process: nothing is saved.
Restart ==
  /\ frameStatus' = [f \in Frames |-> FALSE]
  /\ full' = FALSE
  /\ memory' \in [Frames -> FrameData]
  /\ segmentTable' = {}
  /\ pages' = [s \in Slots |-> NoPage]
  /\ monotonicCounter' = 0
  /\ journaled' = [s \in Slots |-> NoEntry]

Next ==
  \/ \E t \in Tables, k \in Keys, ts \in Timestamps, v \in Values :
       \/ ~Used(<<t, k>>) /\ Memory_InsertNewValue(t, ts, k, v)
       \/ Memory_UpsertValue(t, ts, k, v)
  \/ \E t \in Tables, k \in Keys : Memory_GetFrame(t, k)
  \/ \E t \in Tables : Memory_EvictPages(t)
  \/ Memory_DoJournal
  \/ Restart

Spec == Init /\ [][Next]_vars

-----------------------------------------------------------------------------
(***************************************************************************)
(* Properties.                                                             *)
(***************************************************************************)

\* A frame is in use exactly when one page owns it: no two pages share a frame (an
\* UPSERT of one would change the other's value) and no frame is leaked by
\* eviction, replacement, DROP or journal.
OneOwnerPerFrame ==
  /\ \A s, r \in Slots : Used(s) /\ Used(r) /\ pages[s].frame = pages[r].frame => s = r
  /\ \A f \in Frames : frameStatus[f] <=> \E s \in Slots : Used(s) /\ pages[s].frame = f

\* The frame of a page holds that page's key: SegmentTable_GetLRUFrame removes its
\* victim by the key in the frame, and would remove another page or none.
FrameHoldsPageKey == \A s \in Slots : Used(s) => memory[pages[s].frame].key = s[2]

\* A segment exists exactly for the tables that have a page: eviction deletes the
\* segment it empties, and the page created next re-creates it if it must.
NoEmptySegment == segmentTable = {t \in Tables : \E k \in Keys : Used(<<t, k>>)}

\* Full is cached only while no page could be evicted: no clean page appears before
\* the journal that resets it.
FullMeansNoVictim == full => \A s \in Slots : ~Clean(s)

\* No two pages were last used at the same time, so the LRU victim is one page.
DistinctCounters ==
  \A s \in Slots : Used(s) =>
    /\ pages[s].counter <= monotonicCounter
    /\ \A r \in Slots : Used(r) /\ pages[r].counter = pages[s].counter => r = s

\* "valor cacheado para no tener que pasar por LRU de nuevo" (MainMemory.c:23): Full
\* says what the search for a frame would say again, that there is none.
FullIsWhatTheSearchWouldSay ==
  full => (\A f \in Frames : frameStatus[f]) /\ ~ \E s \in Slots : Clean(s)

\* The pages an INSERT marked as modified, with the last value written to each.
Buffer == INSTANCE WriteBuffer
            WITH pending <- DirtyFrames, flushed <- journaled, Nothing <- NoEntry,
                 Writes <- FrameData

\* The modified pages are a buffer of writes: only an INSERT adds to it, only DROP, the
\* journal (which hands over all of it) and the end of the process take from it.
\* The eviction of a page for another never does.
ImplementsWriteBuffer == Buffer!Spec
=============================================================================
