--------------------------- MODULE MemoriaApiProofs ---------------------------
(***************************************************************************)
(* Proofs about MemoriaApi.  The types hold for any number of threads.     *)
(* The rest holds for the dispatcher alone, whatever the tables, keys,     *)
(* values and frames are: next to the console thread it does not, as the   *)
(* run of MCMemoriaApiRace shows.                                          *)
(*                                                                         *)
(* What MainMemoryProofs shows of one operation of the memory is used here *)
(* for each operation that a function of API.c calls.  The invariant says  *)
(* what is on the socket at each point of an exchange, how far a journal   *)
(* has come, and how pages and file system agree meanwhile.                *)
(***************************************************************************)
EXTENDS MemoriaApi, FiniteSetTheorems, SequenceTheorems, TLAPS

MP == INSTANCE MainMemoryProofs

\* What a thread remembers while it waits.
Sent   == [Slots -> Mem!FrameData \cup {Mem!NoEntry}]
States == {Idle} \cup [at : {"select"}, table : Tables, key : Keys]
            \cup [at : {"create", "describe"}] \cup [at : {"drop"}, table : Tables]
            \cup [at : {"journal", "journaling"}, left : SUBSET (Tables \X Mem!Frames), sent : Sent]

TInv == TypeOK /\ pc \in [Threads -> States]

\* The socket within an exchange.
Quiet       == requests = <<>> /\ replies = <<>>
Asked(r)    == requests = <<r>> /\ replies = <<>>
Answered(a) == requests = <<>> /\ replies = <<a>>

\* A write that the journal handed over is in the file system, if its table is.
Saved(s, sent) == sent[s] # Mem!NoEntry /\ s[1] \in fsTables => sent[s] \in fsData[s]

SelectInStep(p) ==
  /\ ~Mem!Used(<<p.table, p.key>>)
  /\ \/ Asked([op |-> "SELECT", table |-> p.table, key |-> p.key])
     \/ \E found \in Found(p.table, p.key) : Answered([op |-> "SELECT", found |-> found])

CreateInStep == (\E t \in Tables : Asked([op |-> "CREATE", table |-> t])) \/ Answered([op |-> "CREATE"])

DropInStep(p) ==
  /\ \A k \in Keys : ~Mem!Used(<<p.table, k>>)
  /\ \/ Asked([op |-> "DROP", table |-> p.table])
     \/ Answered([op |-> "DROP"]) /\ p.table \notin fsTables

DescribeInStep == 
  \/ \E tables \in SUBSET Tables : Asked([op |-> "DESCRIBE", asked |-> tables])
  \/ \E tables \in SUBSET Tables : Answered([op |-> "DESCRIBE", tables |-> tables])

JournalInStep(sent) ==
  \E s \in Slots :
    /\ sent[s] # Mem!NoEntry
    /\ \/ Asked([op |-> "INSERT", table |-> s[1], datum |-> sent[s]])
          /\ \A r \in Slots : r # s => Saved(r, sent)
       \/ Answered([op |-> "INSERT"]) /\ \A r \in Slots : Saved(r, sent)

InStep(p) ==
  /\ p.at = "idle" => Quiet
  /\ p.at = "select" => SelectInStep(p)
  /\ p.at = "create" => CreateInStep
  /\ p.at = "drop" => DropInStep(p)
  /\ p.at = "describe" => DescribeInStep
  /\ p.at = "journal" => Quiet /\ \A s \in Slots : Saved(s, p.sent)
  /\ p.at = "journaling" => JournalInStep(p.sent)

\* What the journal has handed over, and what is left, are the modified pages.
Datum(s) == memory[pages[s].frame]
JournalIsTheBuffer(p) ==
  p.at \in {"journal", "journaling"} =>
    /\ \A s \in Slots : p.sent[s] # Mem!NoEntry => Mem!Dirty(s) /\ p.sent[s] = Datum(s)
    /\ p.left = {<<s[1], pages[s].frame>> : s \in {r \in Slots : Mem!Dirty(r) /\ p.sent[r] = Mem!NoEntry}}

\* No record is from the future, so an INSERT is newer than all there are.
RecordsAreOld ==
  /\ \A s \in Slots : \A w \in fsData[s] : w.key = s[2] /\ w.timestamp <= clock
  /\ \A s \in Slots : Mem!Dirty(s) => Datum(s).timestamp <= clock

NoGarbage == answer # NoWrite => answer.value # Garbage

IInv ==
  /\ TInv /\ MP!IInv
  /\ \A th \in Threads : InStep(pc[th]) /\ JournalIsTheBuffer(pc[th])
  /\ RecordsAreOld /\ PagesAgreeWithRecords /\ NoGarbage

USE MemoryAssumption, MarksAssumption, ClockAssumption

-----------------------------------------------------------------------------
(***************************************************************************)
(* The memory.  MainMemoryProofs is about an instance of MainMemory of its *)
(* own, with the same operators as that of MemoriaApi.                     *)
(***************************************************************************)
\* Their constants,
LEMMA SameConstants ==
  /\ MP!Frames = Mem!Frames /\ MP!Slots = Slots /\ Mem!Slots = Slots
  /\ MP!FrameData = Mem!FrameData /\ MP!Page = Mem!Page /\ MP!NoEntry = Mem!NoEntry
BY DEF MP!Frames, Mem!Frames, MP!Slots, Mem!Slots, Slots, MP!FrameData, Mem!FrameData, MP!Page, Mem!Page,
       MP!NoEntry, Mem!NoEntry

\* their state,
LEMMA SameState ==
  /\ \A s : MP!Used(s) <=> Mem!Used(s)
  /\ \A s : MP!Dirty(s) <=> Mem!Dirty(s)
  /\ \A s : MP!Clean(s) <=> Mem!Clean(s)
  /\ MP!DirtyFrames = Mem!DirtyFrames
  /\ MP!TypeOK <=> Mem!TypeOK
<1>1. \A s : MP!Used(s) <=> Mem!Used(s)
  BY DEF MP!Used, Mem!Used
<1>2. \A s : MP!Dirty(s) <=> Mem!Dirty(s)
  BY DEF MP!Used, Mem!Used, MP!Dirty, Mem!Dirty
<1>3. \A s : MP!Clean(s) <=> Mem!Clean(s)
  BY DEF MP!Used, Mem!Used, MP!Clean, Mem!Clean
<1>4. MP!DirtyFrames = Mem!DirtyFrames
  BY <1>2, SameConstants DEF MP!DirtyFrames, Mem!DirtyFrames
<1>5. MP!TypeOK <=> Mem!TypeOK
  BY SameConstants DEF MP!TypeOK, Mem!TypeOK
<1> QED
  BY <1>1, <1>2, <1>3, <1>4, <1>5

\* a new page,
LEMMA SameNewPage ==
  ASSUME NEW t, NEW ts, NEW k, NEW v, NEW dirty
  PROVE  MP!PageInNewFrame(t, ts, k, v, dirty) <=> Mem!PageInNewFrame(t, ts, k, v, dirty)
BY DEF MP!PageInNewFrame, Mem!PageInNewFrame, MP!GetFreeFrame, Mem!GetFreeFrame, MP!CreateNewPage,
   Mem!CreateNewPage, MP!WriteFrame, Mem!WriteFrame, MP!LRUPage, Mem!LRUPage, MP!FirstFreeFrame,
   Mem!FirstFreeFrame, MP!Frames, Mem!Frames, MP!Slots, Mem!Slots, MP!Used, Mem!Used, MP!Clean, Mem!Clean

\* no frame for one,
LEMMA SameRefuse == MP!RefuseFrame <=> Mem!RefuseFrame
BY DEF MP!RefuseFrame, Mem!RefuseFrame, MP!NoFreeFrame, Mem!NoFreeFrame, MP!Frames, Mem!Frames,
   MP!Slots, Mem!Slots, MP!Used, Mem!Used, MP!Clean, Mem!Clean

\* and the operations.
LEMMA SameOperations ==
  ASSUME NEW t, NEW ts, NEW k, NEW v
  PROVE  /\ MP!Memory_GetFrame(t, k) <=> Mem!Memory_GetFrame(t, k)
         /\ MP!Upsert_Present(t, ts, k, v) <=> Mem!Upsert_Present(t, ts, k, v)
         /\ MP!Memory_EvictPages(t) <=> Mem!Memory_EvictPages(t)
         /\ MP!CleanMemory <=> Mem!CleanMemory
         /\ MP!Restart <=> Mem!Restart
         /\ MP!Init <=> Mem!Init
<1>1. MP!Memory_GetFrame(t, k) <=> Mem!Memory_GetFrame(t, k)
  BY DEF MP!Memory_GetFrame, Mem!Memory_GetFrame, MP!TouchPage, Mem!TouchPage, MP!Used, Mem!Used
<1>2. MP!Upsert_Present(t, ts, k, v) <=> Mem!Upsert_Present(t, ts, k, v)
  BY DEF MP!Upsert_Present, Mem!Upsert_Present, MP!TouchPage, Mem!TouchPage, MP!Used, Mem!Used,
     MP!WriteFrame, Mem!WriteFrame
<1>3. MP!Memory_EvictPages(t) <=> Mem!Memory_EvictPages(t)
  BY DEF MP!Memory_EvictPages, Mem!Memory_EvictPages, MP!Used, Mem!Used, MP!Slots, Mem!Slots,
     MP!Frames, Mem!Frames
<1>4. MP!CleanMemory <=> Mem!CleanMemory
  BY DEF MP!CleanMemory, Mem!CleanMemory, MP!Slots, Mem!Slots, MP!Frames, Mem!Frames
<1>5. MP!Restart <=> Mem!Restart
  BY SameConstants DEF MP!Restart, Mem!Restart
<1>6. MP!Init <=> Mem!Init
  BY SameConstants DEF MP!Init, Mem!Init
<1> QED
  BY <1>1, <1>2, <1>3, <1>4, <1>5, <1>6

\* What MainMemoryProofs shows, of this instance.
LEMMA MemoryFacts == (MP!Init => MP!IInv) /\ (MP!IInv /\ [MP!Next]_MP!vars => MP!IInv')
<1>1. NoPage \notin MP!Page /\ MP!NoEntry \notin MP!FrameData
  BY SameConstants
<1> QED
  BY <1>1, MP!InitIInv, MP!NextPreserves

-----------------------------------------------------------------------------
(***************************************************************************)
(* Types, for any number of threads.                                       *)
(***************************************************************************)
\* An operation of the memory keeps its types, also if another thread has made the page
\* of the same slot meanwhile.
LEMMA NewPageType ==
  ASSUME Mem!TypeOK, NEW t \in Tables, NEW k \in Keys, NEW ts \in Timestamps, NEW v \in Values,
         NEW dirty \in BOOLEAN, Mem!PageInNewFrame(t, ts, k, v, dirty)
  PROVE  Mem!TypeOK'
<1> USE DEF Mem!TypeOK
<1>1. PICK f \in Mem!Frames, evicted \in {{}} \cup {{s} : s \in Mem!Slots} :
        /\ Mem!CreateNewPage(t, k, f, evicted, dirty)
        /\ Mem!WriteFrame(f, ts, k, v)
        /\ UNCHANGED <<full, journaled>>
  BY DEF Mem!PageInNewFrame
<1>2. monotonicCounter' = monotonicCounter + 1 /\ monotonicCounter' \in 1 .. MaxCounter
  BY <1>1 DEF Mem!CreateNewPage
<1>3. [counter |-> monotonicCounter + 1, frame |-> f, dirty |-> dirty] \in Mem!Page
  BY <1>2 DEF Mem!Page
<1>4. pages' \in [Mem!Slots -> Mem!Page \cup {NoPage}]
  BY <1>1, <1>3 DEF Mem!CreateNewPage
<1>5. frameStatus' \in [Mem!Frames -> BOOLEAN]
  <2>1. \A g \in Mem!Frames :
          (g = f \/ (frameStatus[g] /\ ~ \E s \in evicted : Mem!Used(s) /\ pages[s].frame = g)) \in BOOLEAN
    OBVIOUS
  <2> QED
    BY <1>1, <2>1 DEF Mem!CreateNewPage
<1>6. segmentTable' \subseteq Tables
  BY <1>1 DEF Mem!CreateNewPage
<1>7. memory' \in [Mem!Frames -> Mem!FrameData]
  BY <1>1 DEF Mem!WriteFrame, Mem!FrameData
<1> QED
  BY <1>1, <1>2, <1>4, <1>5, <1>6, <1>7

\* Full alone changes.
LEMMA RefuseType == Mem!TypeOK /\ Mem!RefuseFrame => Mem!TypeOK'
BY DEF Mem!TypeOK, Mem!RefuseFrame

\* A page that is used.
LEMMA TouchType ==
  ASSUME Mem!TypeOK, NEW s \in Mem!Slots, Mem!Used(s), NEW dirty \in BOOLEAN, Mem!TouchPage(s, dirty)
  PROVE  /\ monotonicCounter' \in 0 .. MaxCounter
         /\ pages' \in [Mem!Slots -> Mem!Page \cup {NoPage}]
<1>1. monotonicCounter' = monotonicCounter + 1 /\ monotonicCounter' \in 1 .. MaxCounter
  BY DEF Mem!TouchPage, Mem!TypeOK
<1>2. pages[s] \in Mem!Page
  BY DEF Mem!TypeOK, Mem!Used
<1>3. [pages[s] EXCEPT !.counter = monotonicCounter + 1, !.dirty = pages[s].dirty \/ dirty] \in Mem!Page
  BY <1>1, <1>2 DEF Mem!Page
<1>4. pages' = [pages EXCEPT ![s] = [pages[s] EXCEPT !.counter = monotonicCounter + 1,
                                                     !.dirty = pages[s].dirty \/ dirty]]
  BY <1>2 DEF Mem!TouchPage, Mem!TypeOK, Mem!Page
<1> QED
  BY <1>1, <1>3, <1>4 DEF Mem!TypeOK

\* Memory_GetFrame.
LEMMA GetFrameType ==
  ASSUME Mem!TypeOK, NEW t \in Tables, NEW k \in Keys, Mem!Memory_GetFrame(t, k)
  PROVE  Mem!TypeOK'
<1>1. <<t, k>> \in Mem!Slots
  BY DEF Mem!Slots
<1> QED
  BY <1>1, TouchType DEF Mem!Memory_GetFrame, Mem!TypeOK

\* Memory_UpsertValue of a page that is there.
LEMMA UpsertPresentType ==
  ASSUME Mem!TypeOK, NEW t \in Tables, NEW k \in Keys, NEW ts \in Timestamps, NEW v \in Values,
         Mem!Upsert_Present(t, ts, k, v)
  PROVE  Mem!TypeOK'
<1>1. <<t, k>> \in Mem!Slots
  BY DEF Mem!Slots
<1>2. pages[<<t, k>>].frame \in Mem!Frames /\ [key |-> k, timestamp |-> ts, value |-> v] \in Mem!FrameData
  BY <1>1 DEF Mem!Upsert_Present, Mem!TypeOK, Mem!Used, Mem!Page, Mem!FrameData
<1>3. memory' \in [Mem!Frames -> Mem!FrameData]
  BY <1>2 DEF Mem!Upsert_Present, Mem!WriteFrame, Mem!TypeOK
<1> QED
  BY <1>1, <1>3, TouchType DEF Mem!Upsert_Present, Mem!TypeOK

\* Memory_EvictPages.
LEMMA EvictPagesType ==
  ASSUME Mem!TypeOK, NEW t \in Tables, Mem!Memory_EvictPages(t) PROVE Mem!TypeOK'
<1>1. \A f \in Mem!Frames :
        (frameStatus[f] /\ ~ \E k \in Keys : Mem!Used(<<t, k>>) /\ pages[<<t, k>>].frame = f) \in BOOLEAN
  OBVIOUS
<1>2. frameStatus' \in [Mem!Frames -> BOOLEAN]
  BY <1>1 DEF Mem!Memory_EvictPages
<1>3. pages' \in [Mem!Slots -> Mem!Page \cup {NoPage}]
  BY DEF Mem!Memory_EvictPages, Mem!TypeOK
<1> QED
  BY <1>2, <1>3 DEF Mem!Memory_EvictPages, Mem!TypeOK

\* _cleanMemory, after any journal.
LEMMA CleanType ==
  ASSUME Mem!TypeOK, Mem!CleanMemory, journaled' \in [Mem!Slots -> Mem!FrameData \cup {Mem!NoEntry}]
  PROVE  Mem!TypeOK'
BY DEF Mem!CleanMemory, Mem!TypeOK

\* A new process.
LEMMA RestartType == Mem!Restart => Mem!TypeOK'
<1> SUFFICES ASSUME Mem!Restart PROVE Mem!TypeOK'
  OBVIOUS
<1>1. frameStatus' \in [Mem!Frames -> BOOLEAN] /\ pages' \in [Mem!Slots -> Mem!Page \cup {NoPage}]
  BY DEF Mem!Restart
<1>2. journaled' \in [Mem!Slots -> Mem!FrameData \cup {Mem!NoEntry}] /\ monotonicCounter' \in 0 .. MaxCounter
  BY DEF Mem!Restart
<1> QED
  BY <1>1, <1>2 DEF Mem!Restart, Mem!TypeOK

-----------------------------------------------------------------------------
\* What a step must show: the types of the memory, of its thread's next state, and of
\* what it sends, serves or receives.
LEMMA NextState ==
  ASSUME TInv, NEW th \in Threads, NEW p \in States, Goto(th, p)
  PROVE  /\ pc' \in [Threads -> States]
         /\ \A u \in Threads : pc'[u].at \in {"idle", "select", "create", "drop", "describe", "journal", "journaling"}
         /\ pc'[th] = p /\ \A u \in Threads : u # th => pc'[u] = pc[u]
<1>1. pc' \in [Threads -> States] /\ pc'[th] = p /\ \A u \in Threads : u # th => pc'[u] = pc[u]
  BY DEF Goto, TInv
<1>2. \A q \in States : q.at \in {"idle", "select", "create", "drop", "describe", "journal", "journaling"}
  BY DEF States, Idle
<1> QED
  BY <1>1, <1>2

\* A request that is sent has its type,
LEMMA SendType ==
  ASSUME TypeOK, NEW r \in Request, Send(r)
  PROVE  requests' \in Seq(Request) /\ replies' \in Seq(Reply)
BY AppendProperties DEF Send, TypeOK

\* and so has a reply that is received.
LEMMA ReceiveType ==
  ASSUME TypeOK, NEW reply, Receive(reply), UNCHANGED requests
  PROVE  reply \in Reply /\ requests' \in Seq(Request) /\ replies' \in Seq(Reply)
BY HeadTailProperties DEF Receive, TypeOK

\* The members of the states of a thread.
LEMMA StatesFacts ==
  ASSUME NEW p \in States
  PROVE  /\ p.at = "idle" => p = Idle
         /\ p.at = "select" => p.table \in Tables /\ p.key \in Keys
         /\ p.at = "drop" => p.table \in Tables
         /\ p.at \in {"journal", "journaling"} =>
              p \in [at : {"journal", "journaling"}, left : SUBSET (Tables \X Mem!Frames), sent : Sent]
BY DEF States, Idle

\* At the start.
LEMMA InitTInv == Init => TInv
<1> SUFFICES ASSUME Init PROVE TInv
  OBVIOUS
<1>1. MP!TypeOK
  <2>1. MP!Init
    BY SameOperations DEF Init
  <2>2. MP!Init => MP!IInv
    BY MemoryFacts
  <2> QED
    BY <2>1, <2>2 DEF MP!IInv
<1>2. pc \in [Threads -> States] /\ \A th \in Threads : pc[th].at = "idle"
  BY DEF Init, States, Idle
<1>3. requests \in Seq(Request) /\ replies \in Seq(Reply)
  BY EmptySeq DEF Init
<1>4. /\ fsTables \subseteq Tables /\ fsData \in [Slots -> SUBSET Mem!FrameData]
      /\ clock \in Timestamps /\ accepted \in [Slots -> Mem!FrameData \cup {NoWrite}]
  BY DEF Init, Timestamps
<1> QED
  BY <1>1, <1>2, <1>3, <1>4, SameState DEF TInv, TypeOK

\* The file system answers a request with a reply of its kind.
LEMMA FileSystemType == ASSUME TInv, FileSystem PROVE TInv'
<1> PICK r : r = Head(requests)
  OBVIOUS
<1>1. r \in Request /\ Tail(requests) \in Seq(Request) /\ requests # <<>>
  BY HeadTailProperties DEF FileSystem, TInv, TypeOK
<1>2. PICK reply : Served(reply) /\
        \/ /\ r.op = "SELECT" /\ \E found \in Found(r.table, r.key) : reply = [op |-> "SELECT", found |-> found]
           /\ UNCHANGED fsVars
        \/ /\ r.op = "INSERT" /\ reply = [op |-> "INSERT"] /\ Record(r.table, r.datum) /\ UNCHANGED fsTables
        \/ /\ r.op = "CREATE" /\ reply = [op |-> "CREATE"]
           /\ fsTables' \in {fsTables, fsTables \cup {r.table}} /\ UNCHANGED fsData
        \/ /\ r.op = "DROP" /\ reply = [op |-> "DROP"] /\ fsTables' = fsTables \ {r.table}
           /\ \/ fsData' = [s \in Slots |-> IF s[1] = r.table THEN {} ELSE fsData[s]]
              \/ UNCHANGED fsData
        \/ /\ r.op = "DESCRIBE" /\ reply = [op |-> "DESCRIBE", tables |-> r.asked \cap fsTables] /\ UNCHANGED fsVars
  BY DEF FileSystem
<1>3. /\ r.op = "SELECT" => r.table \in Tables /\ r.key \in Keys
      /\ r.op = "INSERT" => r.table \in Tables /\ r.datum \in Mem!FrameData
      /\ r.op \in {"CREATE", "DROP"} => r.table \in Tables
      /\ r.op = "DESCRIBE" => r.asked \in SUBSET Tables
  BY <1>1 DEF Request
<1>4. /\ fsTables \subseteq Tables /\ fsData \in [Slots -> SUBSET Mem!FrameData]
      /\ replies \in Seq(Reply)
  BY DEF TInv, TypeOK
<1>5. reply \in Reply
  <2>1. CASE r.op = "SELECT"
    <3>1. Found(r.table, r.key) \subseteq Mem!FrameData \cup {[key |-> KeyNotFound], [key |-> TableNotFound]}
      BY <1>3, <1>4, <2>1 DEF Found, Slots
    <3> QED
      BY <1>2, <2>1, <3>1 DEF Reply
  <2>2. CASE r.op \in {"INSERT", "CREATE", "DROP"}
    BY <1>2, <2>2 DEF Reply
  <2>3. CASE r.op = "DESCRIBE"
    BY <1>2, <1>3, <1>4, <2>3 DEF Reply
  <2> QED
    BY <1>2, <2>1, <2>2, <2>3
<1>6. requests' \in Seq(Request) /\ replies' \in Seq(Reply)
  BY <1>1, <1>2, <1>4, <1>5, AppendProperties DEF Served
<1>7. fsTables' \subseteq Tables
  BY <1>2, <1>3, <1>4 DEF fsVars
<1>8. fsData' \in [Slots -> SUBSET Mem!FrameData]
  <2>1. CASE r.op = "INSERT"
    <3>1. \/ fsData' = fsData
          \/ fsData' = [fsData EXCEPT ![<<r.table, r.datum.key>>] = fsData[<<r.table, r.datum.key>>] \cup {r.datum}]
      BY <1>2, <2>1 DEF Record
    <3> QED
      BY <1>3, <1>4, <2>1, <3>1
  <2>2. CASE r.op # "INSERT"
    BY <1>2, <1>4, <2>2 DEF fsVars
  <2> QED
    BY <2>1, <2>2
<1>9. UNCHANGED <<memVars, clock, pc, answer, accepted>>
  BY DEF FileSystem
<1>10. Mem!TypeOK'
  BY <1>9 DEF memVars, TInv, TypeOK, Mem!TypeOK
<1> QED
  BY <1>6, <1>7, <1>8, <1>9, <1>10 DEF TInv, TypeOK

\* A thread that sends a request, remembering what it asked for.
LEMMA SendStepType ==
  ASSUME TInv, NEW th \in Threads, NEW p \in States, NEW r \in Request, Send(r), Goto(th, p),
         Mem!TypeOK', UNCHANGED <<fsVars, clock>>,
         accepted' \in [Slots -> Mem!FrameData \cup {NoWrite}]
  PROVE  TInv'
<1>1. requests' \in Seq(Request) /\ replies' \in Seq(Reply)
  BY SendType DEF TInv
<1> QED
  BY <1>1, NextState DEF TInv, TypeOK, fsVars

\* A thread that receives one, whatever it is.
LEMMA ReceiveStepType ==
  ASSUME TInv, NEW th \in Threads, NEW p \in States, NEW reply, Receive(reply), Goto(th, p),
         Mem!TypeOK', UNCHANGED <<fsVars, clock, requests, accepted>>
  PROVE  TInv'
<1>1. requests' \in Seq(Request) /\ replies' \in Seq(Reply)
  BY ReceiveType DEF TInv
<1> QED
  BY <1>1, NextState DEF TInv, TypeOK, fsVars

\* A thread that uses the memory only.
LEMMA LocalStepType ==
  ASSUME TInv, pc' \in [Threads -> States], Mem!TypeOK', UNCHANGED <<fsVars, requests, replies>>,
         clock' \in Timestamps, accepted' \in [Slots -> Mem!FrameData \cup {NoWrite}]
  PROVE  TInv'
<1>1. \A p \in States : p.at \in {"idle", "select", "create", "drop", "describe", "journal", "journaling"}
  BY DEF States, Idle
<1>2. \A th \in Threads : pc'[th].at \in {"idle", "select", "create", "drop", "describe", "journal", "journaling"}
  BY <1>1
<1> QED
  BY <1>2 DEF TInv, TypeOK, fsVars

\* Each step of a thread.
LEMMA ThreadType == ASSUME TInv, NEW th \in Threads, Thread(th) PROVE TInv'
<1> TypeOK /\ Mem!TypeOK /\ pc \in [Threads -> States]
  BY DEF TInv, TypeOK
<1>0. Mem!Slots = Slots /\ (memVars' = memVars => Mem!TypeOK') /\ Idle \in States
  BY SameConstants DEF Mem!TypeOK, memVars, States
<1>1. ASSUME NEW t \in Tables, NEW k \in Keys, API_Select_Hit(th, t, k) PROVE TInv'
  <2>1. Mem!TypeOK' /\ UNCHANGED <<fsVars, clock, pc, requests, replies, accepted>>
    BY <1>1, GetFrameType DEF API_Select_Hit
  <2> QED
    BY <2>1, LocalStepType DEF TypeOK
<1>2. ASSUME NEW t \in Tables, NEW k \in Keys, API_Select_Miss(th, t, k) PROVE TInv'
  <2>1. [op |-> "SELECT", table |-> t, key |-> k] \in Request
    BY DEF Request
  <2>2. [at |-> "select", table |-> t, key |-> k] \in States
    BY DEF States
  <2> QED
    BY <1>0, <1>2, <2>1, <2>2, SendStepType DEF API_Select_Miss, TypeOK
<1>3. ASSUME NEW t \in Tables, NEW k \in Keys, NEW v \in Values, API_Insert(th, t, k, v) PROVE TInv'
  <2>1. clock' \in Timestamps
    BY <1>3 DEF API_Insert, TypeOK, Timestamps
  <2>2. [key |-> k, timestamp |-> clock', value |-> v] \in Mem!FrameData
    BY <2>1 DEF Mem!FrameData
  <2>3. accepted' \in [Slots -> Mem!FrameData \cup {NoWrite}]
    BY <1>3, <2>2 DEF API_Insert, TypeOK
  <2>4. Mem!TypeOK'
    <3>1. \/ Mem!Upsert_Present(t, clock', k, v) \/ Mem!PageInNewFrame(t, clock', k, v, TRUE)
          \/ Mem!RefuseFrame
      BY <1>3 DEF API_Insert, Mem!Upsert_Absent, Mem!Upsert_Refused
    <3>2. PICK ts \in Timestamps : ts = clock'
      BY <2>1
    <3> QED
      BY <3>1, <3>2, UpsertPresentType, NewPageType, RefuseType
  <2>5. UNCHANGED <<fsVars, pc, requests, replies>>
    BY <1>3 DEF API_Insert
  <2> QED
    BY <2>1, <2>3, <2>4, <2>5, LocalStepType
<1>4. ASSUME NEW t \in Tables, API_Create(th, t) PROVE TInv'
  <2>1. [op |-> "CREATE", table |-> t] \in Request /\ [at |-> "create"] \in States
    BY DEF Request, States
  <2> QED
    BY <1>0, <1>4, <2>1, SendStepType DEF API_Create, TypeOK
<1>5. ASSUME NEW t \in Tables, API_Drop(th, t) PROVE TInv'
  <2>1. [op |-> "DROP", table |-> t] \in Request /\ [at |-> "drop", table |-> t] \in States
    BY DEF Request, States
  <2>2. accepted' \in [Slots -> Mem!FrameData \cup {NoWrite}]
    BY <1>5 DEF API_Drop, TypeOK
  <2>3. Mem!TypeOK'
    BY <1>5, EvictPagesType DEF API_Drop
  <2> QED
    BY <1>5, <2>1, <2>2, <2>3, SendStepType DEF API_Drop
<1>6. ASSUME NEW asked \in SUBSET Tables, API_Describe(th, asked) PROVE TInv'
  <2>1. [op |-> "DESCRIBE", asked |-> asked] \in Request /\ [at |-> "describe"] \in States
    BY DEF Request, States
  <2> QED
    BY <1>0, <1>6, <2>1, SendStepType DEF API_Describe, TypeOK
<1>7. ASSUME API_Select_Answer(th) PROVE TInv'
  <2>1. pc[th].table \in Tables /\ pc[th].key \in Keys
    BY <1>7, StatesFacts DEF API_Select_Answer
  <2>2. PICK reply \in ReplySet : Receive(reply) /\
          (memVars' = memVars \/ (/\ reply.op = "SELECT" /\ reply.found.key \in Keys
                                  /\ Mem!Memory_InsertNewValue(pc[th].table, reply.found.timestamp,
                                                               pc[th].key, reply.found.value)))
    BY <1>7 DEF API_Select_Answer, memVars
  <2>3. UNCHANGED <<fsVars, clock, requests, accepted>> /\ Goto(th, Idle)
    BY <1>7 DEF API_Select_Answer
  <2>4. reply \in Reply
    BY <2>2, <2>3, ReceiveType
  <2>5. reply.op = "SELECT" /\ reply.found.key \in Keys =>
          reply.found.timestamp \in Timestamps /\ reply.found.value \in Values
    BY <2>4 DEF Reply, Mem!FrameData
  <2>6. Mem!TypeOK'
    BY <1>0, <2>1, <2>2, <2>5, NewPageType, RefuseType DEF Mem!Memory_InsertNewValue
  <2> QED
    BY <1>0, <2>2, <2>3, <2>6, ReceiveStepType
<1>8. ASSUME API_CreateDrop_Answer(th) \/ API_Describe_Answer(th) PROVE TInv'
  BY <1>0, <1>8, ReceiveStepType DEF API_CreateDrop_Answer, API_Describe_Answer
<1>9. ASSUME API_Journal(th) PROVE TInv'
  <2> DEFINE left == {<<s[1], pages[s].frame>> : s \in {r \in Slots : Mem!Dirty(r)}}
             p    == [at |-> "journal", left |-> left, sent |-> [s \in Slots |-> Mem!NoEntry]]
  <2>1. left \in SUBSET (Tables \X Mem!Frames)
    BY <1>0 DEF Mem!TypeOK, Mem!Dirty, Mem!Used, Mem!Page, Slots
  <2>2. p \in States
    BY <2>1 DEF States, Sent
  <2>3. Goto(th, p) /\ UNCHANGED <<memVars, fsVars, clock, requests, replies, answer, accepted>>
    BY <1>9 DEF API_Journal
  <2> HIDE DEF p
  <2> QED
    BY <1>0, <2>2, <2>3, NextState, LocalStepType DEF TypeOK
<1>10. ASSUME Journal_Register(th) PROVE TInv'
  <2>1. PICK d \in pc[th].left :
          /\ Send([op |-> "INSERT", table |-> d[1], datum |-> memory[d[2]]])
          /\ Goto(th, [at |-> "journaling", left |-> pc[th].left \ {d},
                       sent |-> [pc[th].sent EXCEPT ![<<d[1], memory[d[2]].key>>] = memory[d[2]]]])
    BY <1>10 DEF Journal_Register
  <2>2. pc[th] \in [at : {"journal", "journaling"}, left : SUBSET (Tables \X Mem!Frames), sent : Sent]
    BY <1>10, StatesFacts DEF Journal_Register
  <2>3. d[1] \in Tables /\ memory[d[2]] \in Mem!FrameData
    BY <2>2 DEF Mem!TypeOK
  <2>4. [op |-> "INSERT", table |-> d[1], datum |-> memory[d[2]]] \in Request
    BY <2>3 DEF Request
  <2>5. [pc[th].sent EXCEPT ![<<d[1], memory[d[2]].key>>] = memory[d[2]]] \in Sent
    BY <2>2, <2>3 DEF Sent
  <2>6. [at |-> "journaling", left |-> pc[th].left \ {d},
         sent |-> [pc[th].sent EXCEPT ![<<d[1], memory[d[2]].key>>] = memory[d[2]]]] \in States
    BY <2>2, <2>5 DEF States
  <2> QED
    BY <1>0, <1>10, <2>1, <2>4, <2>6, SendStepType DEF Journal_Register, TypeOK
<1>11. ASSUME Journal_Register_Answer(th) PROVE TInv'
  <2>1. pc[th] \in [at : {"journal", "journaling"}, left : SUBSET (Tables \X Mem!Frames), sent : Sent]
    BY <1>11, StatesFacts DEF Journal_Register_Answer
  <2>2. [pc[th] EXCEPT !.at = "journal"] \in States
    BY <2>1 DEF States
  <2> QED
    BY <1>0, <1>11, <2>2, ReceiveStepType DEF Journal_Register_Answer
<1>12. ASSUME Journal_Clean(th) PROVE TInv'
  <2>1. pc[th].sent \in Sent
    BY <1>12, StatesFacts DEF Journal_Clean
  <2>2. Mem!TypeOK'
    BY <1>0, <1>12, <2>1, CleanType DEF Journal_Clean, Sent
  <2>3. accepted' \in [Slots -> Mem!FrameData \cup {NoWrite}]
    BY <1>12 DEF Journal_Clean, TypeOK
  <2>4. Goto(th, Idle) /\ UNCHANGED <<fsVars, clock, requests, replies>>
    BY <1>12 DEF Journal_Clean
  <2> QED
    BY <1>0, <2>2, <2>3, <2>4, NextState, LocalStepType DEF TypeOK
<1> QED
  BY <1>1, <1>2, <1>3, <1>4, <1>5, <1>6, <1>7, <1>8, <1>9, <1>10, <1>11, <1>12 DEF Thread

\* Each step.
LEMMA NextTInv == TInv /\ [Next]_vars => TInv'
<1> SUFFICES ASSUME TInv, [Next]_vars PROVE TInv'
  OBVIOUS
<1>1. CASE Restart
  <2>1. Mem!TypeOK'
    BY <1>1, RestartType DEF Restart
  <2>2. pc' \in [Threads -> States] /\ \A th \in Threads : pc'[th].at = "idle"
    BY <1>1 DEF Restart, States, Idle
  <2>3. requests' \in Seq(Request) /\ replies' \in Seq(Reply)
    BY <1>1, EmptySeq DEF Restart
  <2> QED
    BY <1>1, <2>1, <2>2, <2>3 DEF Restart, TInv, TypeOK, fsVars
<1>2. CASE UNCHANGED vars
  BY <1>2 DEF vars, memVars, fsVars, TInv, TypeOK, Mem!TypeOK
<1> QED
  BY <1>1, <1>2, FileSystemType, ThreadType DEF Next

\* Memory, socket, file system and threads keep their types, whatever the dispatcher and
\* the console do at once.
THEOREM ApiTypeOK == Spec => []TypeOK
<1>1. Init => TInv
  BY InitTInv
<1>2. TInv /\ [Next]_vars => TInv'
  BY NextTInv
<1>3. TInv => TypeOK
  BY DEF TInv
<1> QED
  BY <1>1, <1>2, <1>3, PTL DEF Spec

-----------------------------------------------------------------------------
(***************************************************************************)
(* What an operation of the memory does to the page of each slot.          *)
(***************************************************************************)
\* The page stays, perhaps used more recently, and so does its datum;
Kept(s) ==
  /\ Mem!Used(s)' <=> Mem!Used(s)
  /\ Mem!Used(s) => /\ pages'[s].dirty = pages[s].dirty /\ pages'[s].frame = pages[s].frame
                    /\ memory'[pages[s].frame] = memory[pages[s].frame]

\* the page has a new datum.
Given(s, datum, dirty) ==
  Mem!Used(s)' /\ pages'[s].dirty = dirty /\ memory'[pages'[s].frame] = datum

\* What follows for a page that stays,
LEMMA KeptFacts ==
  ASSUME NEW s, Kept(s)
  PROVE  /\ Mem!Dirty(s)' <=> Mem!Dirty(s)
         /\ Mem!Clean(s)' <=> Mem!Clean(s)
         /\ Mem!Used(s) => Datum(s)' = Datum(s) /\ pages'[s].frame = pages[s].frame
BY DEF Kept, Mem!Dirty, Mem!Clean, Datum

\* and for one that has a new datum.
LEMMA GivenFacts ==
  ASSUME NEW s, NEW datum, NEW dirty \in BOOLEAN, Given(s, datum, dirty)
  PROVE  /\ Mem!Dirty(s)' <=> dirty
         /\ Mem!Clean(s)' <=> ~dirty
         /\ Datum(s)' = datum
BY DEF Given, Mem!Dirty, Mem!Clean, Datum

\* A new page, and the clean one that made room for it if there was one.
LEMMA NewPageContents ==
  ASSUME MP!IInv, NEW t \in Tables, NEW k \in Keys, NEW ts \in Timestamps, NEW v \in Values,
         NEW dirty \in BOOLEAN, ~Mem!Used(<<t, k>>), Mem!PageInNewFrame(t, ts, k, v, dirty)
  PROVE  /\ Given(<<t, k>>, [key |-> k, timestamp |-> ts, value |-> v], dirty)
         /\ \A s \in Slots : s # <<t, k>> => Kept(s) \/ (Mem!Clean(s) /\ ~Mem!Used(s)')
<1> DEFINE datum == [key |-> k, timestamp |-> ts, value |-> v]
           slot  == <<t, k>>
<1>1. NoPage \notin MP!Page /\ MP!NoEntry \notin MP!FrameData
  BY SameConstants
<1>2. ~MP!Used(<<t, k>>) /\ MP!PageInNewFrame(t, ts, k, v, dirty)
  BY SameState, SameNewPage
<1>3. PICK f \in MP!Frames, evicted \in SUBSET MP!Slots, new \in MP!Page :
        MP!NewPageEffect(t, ts, k, v, new, f, evicted) /\ new.dirty = dirty
  BY <1>1, <1>2, MP!NewPageHasEffect
<1>4. /\ new # NoPage /\ new.frame = f /\ slot \in Slots /\ f \in Mem!Frames
      /\ \A s \in evicted : Mem!Clean(s)
      /\ \A s \in Slots : Mem!Used(s) => (pages[s].frame = f <=> s \in evicted)
  BY <1>1, <1>3, SameConstants, SameState DEF MP!NewPageEffect, Slots
<1>5. memory' = [memory EXCEPT ![f] = datum]
      /\ pages' = [s \in Slots |-> IF s = slot THEN new ELSE IF s \in evicted THEN NoPage ELSE pages[s]]
  BY <1>3, SameConstants DEF MP!NewPageEffect
<1>6. /\ memory \in [Mem!Frames -> Mem!FrameData]
      /\ \A s \in Slots : Mem!Used(s) => pages[s].frame \in Mem!Frames
  BY SameConstants, SameState DEF MP!IInv, Mem!TypeOK, Mem!Used, Mem!Page
<1> HIDE DEF datum, slot
<1>7. Given(slot, datum, dirty)
  <2>1. pages'[slot] = new
    BY <1>4, <1>5
  <2>2. memory'[f] = datum
    BY <1>4, <1>5, <1>6
  <2> QED
    BY <1>3, <1>4, <2>1, <2>2 DEF Given, Mem!Used
<1>8. ASSUME NEW s \in Slots, s # slot PROVE Kept(s) \/ (Mem!Clean(s) /\ ~Mem!Used(s)')
  <2>1. CASE s \in evicted
    BY <1>4, <1>5, <1>8, <2>1 DEF Mem!Used
  <2>2. CASE s \notin evicted
    <3>1. pages'[s] = pages[s]
      BY <1>5, <1>8, <2>2
    <3>2. Mem!Used(s) => memory'[pages[s].frame] = memory[pages[s].frame]
      BY <1>4, <1>5, <1>6, <2>2
    <3> QED
      BY <3>1, <3>2 DEF Kept, Mem!Used
  <2> QED
    BY <2>1, <2>2
<1> QED
  BY <1>7, <1>8 DEF datum, slot

\* A page that is used or written again.
LEMMA TouchContents ==
  ASSUME MP!IInv, NEW t \in Tables, NEW k \in Keys, Mem!Used(<<t, k>>), NEW dirty \in BOOLEAN,
         Mem!TouchPage(<<t, k>>, dirty)
  PROVE  LET s == <<t, k>> IN
         /\ Mem!Used(s)' /\ pages'[s].frame = pages[s].frame /\ pages'[s].dirty = (pages[s].dirty \/ dirty)
         /\ \A r \in Slots : r # s => pages'[r] = pages[r]
         /\ pages[s].frame \in Mem!Frames /\ memory \in [Mem!Frames -> Mem!FrameData]
         /\ \A r \in Slots : Mem!Used(r) /\ r # s => pages[r].frame # pages[s].frame
         /\ pages[s].dirty \in BOOLEAN
<1> DEFINE s == <<t, k>>
           new == [counter |-> monotonicCounter + 1, frame |-> pages[s].frame, dirty |-> pages[s].dirty \/ dirty]
<1>1. Mem!TypeOK /\ s \in Slots /\ Slots = Mem!Slots
  BY SameConstants, SameState DEF MP!IInv, Slots
<1>2. pages[s] \in Mem!Page
  BY <1>1 DEF Mem!TypeOK, Mem!Used
<1>3. monotonicCounter + 1 \in 1 .. MaxCounter
  BY <1>1 DEF Mem!TouchPage, Mem!TypeOK
<1>4. new \in Mem!Page /\ pages'[s] = new
  BY <1>1, <1>2, <1>3 DEF Mem!Page, Mem!TypeOK, Mem!TouchPage
<1>5. new.frame = pages[s].frame /\ new.dirty = (pages[s].dirty \/ dirty)
  OBVIOUS
<1>6. \A r \in Slots : r # s => pages'[r] = pages[r]
  BY <1>1 DEF Mem!TouchPage, Mem!TypeOK
<1>7. pages[s].frame \in Mem!Frames /\ pages[s].dirty \in BOOLEAN /\ memory \in [Mem!Frames -> Mem!FrameData]
  BY <1>1, <1>2 DEF Mem!Page, Mem!TypeOK
<1>8. \A r \in Slots : Mem!Used(r) /\ r # s => pages[r].frame # pages[s].frame
  BY <1>1, SameConstants, SameState DEF MP!IInv, MP!OneOwnerPerFrame
<1> HIDE DEF new, s
<1>9. Mem!Used(s)' /\ pages'[s].frame = pages[s].frame /\ pages'[s].dirty = (pages[s].dirty \/ dirty)
  BY <1>4, <1>5 DEF Mem!Used
<1> QED
  BY <1>6, <1>7, <1>8, <1>9 DEF s

\* A hit changes no datum.
LEMMA GetFrameContents ==
  ASSUME MP!IInv, NEW t \in Tables, NEW k \in Keys, Mem!Memory_GetFrame(t, k)
  PROVE  \A s \in Slots : Kept(s)
<1>1. Mem!Used(<<t, k>>) /\ Mem!TouchPage(<<t, k>>, FALSE) /\ memory' = memory
  BY DEF Mem!Memory_GetFrame
<1> QED
  BY <1>1, TouchContents DEF Kept, Mem!Used

\* An INSERT on a page that is there changes that page alone.
LEMMA UpsertPresentContents ==
  ASSUME MP!IInv, NEW t \in Tables, NEW k \in Keys, NEW ts \in Timestamps, NEW v \in Values,
         Mem!Upsert_Present(t, ts, k, v)
  PROVE  /\ Given(<<t, k>>, [key |-> k, timestamp |-> ts, value |-> v], TRUE)
         /\ \A s \in Slots : s # <<t, k>> => Kept(s)
<1> DEFINE datum == [key |-> k, timestamp |-> ts, value |-> v]
           slot  == <<t, k>>
<1>1. /\ Mem!Used(slot) /\ Mem!TouchPage(slot, TRUE)
      /\ memory' = [memory EXCEPT ![pages[slot].frame] = datum]
  BY DEF Mem!Upsert_Present, Mem!WriteFrame
<1>2. /\ Mem!Used(slot)' /\ pages'[slot].frame = pages[slot].frame /\ pages'[slot].dirty = (pages[slot].dirty \/ TRUE)
      /\ \A r \in Slots : r # slot => pages'[r] = pages[r]
      /\ pages[slot].frame \in Mem!Frames /\ memory \in [Mem!Frames -> Mem!FrameData]
      /\ \A r \in Slots : Mem!Used(r) /\ r # slot => pages[r].frame # pages[slot].frame
      /\ pages[slot].dirty \in BOOLEAN
  BY <1>1, TouchContents
<1> HIDE DEF datum, slot
<1>3. \A r \in Slots : Mem!Used(r) => pages[r].frame \in Mem!Frames
  BY SameConstants, SameState DEF MP!IInv, Mem!TypeOK, Mem!Used, Mem!Page
<1>4. memory'[pages[slot].frame] = datum
      /\ \A f \in Mem!Frames : f # pages[slot].frame => memory'[f] = memory[f]
  BY <1>1, <1>2
<1>5. Given(slot, datum, TRUE)
  BY <1>2, <1>4 DEF Given
<1>6. \A s \in Slots : s # slot => Kept(s)
  BY <1>2, <1>3, <1>4 DEF Kept, Mem!Used
<1> QED
  BY <1>5, <1>6 DEF datum, slot

\* Memory_EvictPages takes the pages of the table and leaves the rest.
LEMMA EvictPagesContents ==
  ASSUME NEW t \in Tables, Mem!Memory_EvictPages(t)
  PROVE  \A s \in Slots : IF s[1] = t THEN ~Mem!Used(s)' ELSE Kept(s)
BY SameConstants DEF Mem!Memory_EvictPages, Kept, Mem!Used

\* After a journal or a restart there is no page.
LEMMA EmptyContents == Mem!CleanMemory \/ Mem!Restart => \A s \in Slots : ~Mem!Used(s)'
BY SameConstants DEF Mem!CleanMemory, Mem!Restart, Mem!Used

\* Nothing happens to the pages.
LEMMA SameContents == memory' = memory /\ pages' = pages => \A s \in Slots : Kept(s)
BY DEF Kept, Mem!Used

\* An accepted INSERT.
LEMMA UpsertContents ==
  ASSUME MP!IInv, NEW t \in Tables, NEW k \in Keys, NEW ts \in Timestamps, NEW v \in Values,
         Mem!Upsert_Present(t, ts, k, v) \/ Mem!Upsert_Absent(t, ts, k, v)
  PROVE  /\ Given(<<t, k>>, [key |-> k, timestamp |-> ts, value |-> v], TRUE)
         /\ \A s \in Slots : s # <<t, k>> => Kept(s) \/ (Mem!Clean(s) /\ ~Mem!Used(s)')
BY UpsertPresentContents, NewPageContents DEF Mem!Upsert_Absent

-----------------------------------------------------------------------------
(***************************************************************************)
(* The socket, when one thread uses it.                                    *)
(***************************************************************************)
\* A request is sent on a quiet socket,
LEMMA SendAsks == ASSUME NEW r, Quiet, Send(r) PROVE Asked(r)'
BY DEF Quiet, Send, Asked

\* served,
LEMMA ServedAnswers == ASSUME NEW r, NEW a, Asked(r), Served(a) PROVE Answered(a)'
BY DEF Asked, Served, Answered

\* and its answer received.
LEMMA ReceiveQuiets ==
  ASSUME NEW a, NEW reply, Answered(a), Receive(reply), UNCHANGED requests
  PROVE  reply = a /\ Quiet'
BY DEF Answered, Receive, Quiet

\* There is a request to serve only where one was asked, and nothing to receive before.
LEMMA OneAtATime ==
  /\ \A reply : Receive(reply) => ~Quiet /\ \A r : ~Asked(r)
  /\ FileSystem => ~Quiet /\ \A a : ~Answered(a)
BY DEF Receive, FileSystem, Quiet, Asked, Answered

-----------------------------------------------------------------------------
(***************************************************************************)
(* The memory is used as MainMemory allows.                                *)
(***************************************************************************)
\* One step of one instance is a step of the other.
LEMMA SameNext == (MP!Next <=> Mem!Next) /\ (MP!vars = memVars) /\ (Mem!vars = memVars)
<1>1. ASSUME NEW t, NEW ts, NEW k, NEW v
      PROVE  /\ MP!Memory_InsertNewValue(t, ts, k, v) <=> Mem!Memory_InsertNewValue(t, ts, k, v)
             /\ MP!Memory_UpsertValue(t, ts, k, v) <=> Mem!Memory_UpsertValue(t, ts, k, v)
  BY SameState, SameNewPage, SameRefuse, SameOperations
     DEF MP!Memory_InsertNewValue, Mem!Memory_InsertNewValue, MP!Memory_UpsertValue, Mem!Memory_UpsertValue,
         MP!Upsert_Absent, Mem!Upsert_Absent, MP!Upsert_Refused, Mem!Upsert_Refused
<1>2. MP!Memory_DoJournal <=> Mem!Memory_DoJournal
  BY SameState, SameOperations DEF MP!Memory_DoJournal, Mem!Memory_DoJournal
<1>3. \A t, k, ts, v :
        /\ (\/ ~MP!Used(<<t, k>>) /\ MP!Memory_InsertNewValue(t, ts, k, v)
            \/ MP!Memory_UpsertValue(t, ts, k, v))
           <=> (\/ ~Mem!Used(<<t, k>>) /\ Mem!Memory_InsertNewValue(t, ts, k, v)
                \/ Mem!Memory_UpsertValue(t, ts, k, v))
        /\ MP!Memory_GetFrame(t, k) <=> Mem!Memory_GetFrame(t, k)
        /\ MP!Memory_EvictPages(t) <=> Mem!Memory_EvictPages(t)
  BY <1>1, SameState, SameOperations
<1>4. MP!Restart <=> Mem!Restart
  BY SameOperations
<1>5. MP!Next <=> Mem!Next
  BY <1>2, <1>3, <1>4, Zenon DEF MP!Next, Mem!Next
<1> QED
  BY <1>5 DEF MP!vars, Mem!vars, memVars

\* What the journal has handed over when nothing is left of it is what was modified.
LEMMA JournalHandsOverTheBuffer ==
  ASSUME TInv, NEW d \in Threads, pc[d].at = "journal", pc[d].left = {}, JournalIsTheBuffer(pc[d])
  PROVE  pc[d].sent = Mem!DirtyFrames
<1>1. pc[d].sent \in Sent
  BY StatesFacts DEF TInv
<1>2. \A s \in Slots : pc[d].sent[s] # Mem!NoEntry => Mem!Dirty(s) /\ pc[d].sent[s] = Datum(s)
  BY DEF JournalIsTheBuffer
<1>3. ASSUME NEW s \in Slots, Mem!Dirty(s), pc[d].sent[s] = Mem!NoEntry PROVE FALSE
  <2> DEFINE unsent == {r \in Slots : Mem!Dirty(r) /\ pc[d].sent[r] = Mem!NoEntry}
  <2>1. {} = {<<r[1], pages[r].frame>> : r \in unsent}
    BY DEF JournalIsTheBuffer
  <2>2. s \in unsent
    BY <1>3
  <2> HIDE DEF unsent
  <2> QED
    BY <2>1, <2>2
<1> QED
  BY <1>1, <1>2, <1>3, SameConstants DEF Mem!DirtyFrames, Sent, Datum

\* An answer to API_Select is the answer to its request, and its record is one that the
\* file system holds.
LEMMA SelectAnswerFacts ==
  ASSUME TInv, RecordsAreOld, NEW d \in Threads, InStep(pc[d]), pc[d].at = "select",
         NEW reply, Receive(reply), UNCHANGED requests
  PROVE  /\ Quiet' /\ reply.op = "SELECT" /\ reply.found \in Found(pc[d].table, pc[d].key)
         /\ ~Mem!Used(<<pc[d].table, pc[d].key>>)
         /\ pc[d].table \in Tables /\ pc[d].key \in Keys /\ <<pc[d].table, pc[d].key>> \in Slots
         /\ reply.found.key \in Keys =>
              /\ pc[d].table \in fsTables /\ reply.found \in fsData[<<pc[d].table, pc[d].key>>]
              /\ reply.found \in Mem!FrameData /\ reply.found.key = pc[d].key
              /\ reply.found.timestamp \in Timestamps /\ reply.found.value \in Values
<1>1. pc[d].table \in Tables /\ pc[d].key \in Keys /\ <<pc[d].table, pc[d].key>> \in Slots
  BY StatesFacts DEF TInv, Slots
<1> PICK found \in Found(pc[d].table, pc[d].key) : Answered([op |-> "SELECT", found |-> found])
  BY OneAtATime DEF InStep, SelectInStep
<1>2. ~Mem!Used(<<pc[d].table, pc[d].key>>)
  BY DEF InStep, SelectInStep
<1>3. Quiet' /\ reply = [op |-> "SELECT", found |-> found]
  BY ReceiveQuiets
<1>4. reply.op = "SELECT" /\ reply.found \in Found(pc[d].table, pc[d].key)
  BY <1>3
<1>5. fsData \in [Slots -> SUBSET Mem!FrameData]
  BY DEF TInv, TypeOK
<1>6. ASSUME reply.found.key \in Keys
      PROVE  pc[d].table \in fsTables /\ reply.found \in fsData[<<pc[d].table, pc[d].key>>]
  <2>1. reply.found # [key |-> TableNotFound] /\ reply.found # [key |-> KeyNotFound]
    BY <1>6
  <2> QED
    BY <1>4, <2>1 DEF Found
<1>7. ASSUME reply.found.key \in Keys
      PROVE  reply.found \in Mem!FrameData /\ reply.found.key = pc[d].key
  BY <1>1, <1>5, <1>6, <1>7 DEF RecordsAreOld
<1>8. reply.found \in Mem!FrameData => reply.found.timestamp \in Timestamps /\ reply.found.value \in Values
  BY DEF Mem!FrameData
<1> QED
  BY <1>1, <1>2, <1>3, <1>4, <1>6, <1>7, <1>8

\* Each step of a thread is a step of MainMemory, or none: the answer to a SELECT makes a page
\* where there is none, and the end of a journal is Memory_DoJournal.
LEMMA ThreadMemoryStep ==
  ASSUME IInv, NEW d \in Threads, Thread(d) PROVE [Mem!Next]_memVars
<1> TInv /\ MP!IInv /\ InStep(pc[d]) /\ JournalIsTheBuffer(pc[d]) /\ RecordsAreOld
  BY DEF IInv
<1>1. ASSUME NEW t \in Tables, NEW k \in Keys, API_Select_Hit(d, t, k) PROVE Mem!Next
  BY <1>1 DEF API_Select_Hit, Mem!Next
<1>2. ASSUME NEW t \in Tables, NEW k \in Keys, NEW v \in Values, API_Insert(d, t, k, v) PROVE Mem!Next
  <2>1. PICK ts \in Timestamps : ts = clock'
    BY <1>2 DEF API_Insert, TInv, TypeOK, Timestamps
  <2>2. Mem!Memory_UpsertValue(t, ts, k, v)
    BY <1>2, <2>1 DEF API_Insert, Mem!Memory_UpsertValue
  <2> QED
    BY <2>2 DEF Mem!Next
<1>3. ASSUME NEW t \in Tables, API_Drop(d, t) PROVE Mem!Next
  BY <1>3 DEF API_Drop, Mem!Next
<1>4. ASSUME API_Select_Answer(d) PROVE [Mem!Next]_memVars
  <2>1. PICK reply \in ReplySet : Receive(reply) /\
          (memVars' = memVars \/ (/\ reply.op = "SELECT" /\ reply.found.key \in Keys
                                  /\ Mem!Memory_InsertNewValue(pc[d].table, reply.found.timestamp,
                                                               pc[d].key, reply.found.value)))
    BY <1>4 DEF API_Select_Answer, memVars
  <2>2. pc[d].at = "select" /\ UNCHANGED requests
    BY <1>4 DEF API_Select_Answer
  <2>3. /\ ~Mem!Used(<<pc[d].table, pc[d].key>>) /\ pc[d].table \in Tables /\ pc[d].key \in Keys
        /\ reply.found.key \in Keys => reply.found.timestamp \in Timestamps /\ reply.found.value \in Values
    BY <2>1, <2>2, SelectAnswerFacts
  <2> QED
    BY <2>1, <2>3 DEF Mem!Next
<1>5. ASSUME Journal_Clean(d) PROVE Mem!Next
  <2>1. pc[d].sent = Mem!DirtyFrames
    BY <1>5, JournalHandsOverTheBuffer DEF Journal_Clean
  <2> QED
    BY <1>5, <2>1 DEF Journal_Clean, Mem!Memory_DoJournal, Mem!Next
<1>6. ASSUME NEW t \in Tables, NEW k \in Keys, API_Select_Miss(d, t, k) PROVE UNCHANGED memVars
  BY <1>6 DEF API_Select_Miss
<1>7. ASSUME NEW t \in Tables, API_Create(d, t) PROVE UNCHANGED memVars
  BY <1>7 DEF API_Create
<1>8. ASSUME NEW asked, API_Describe(d, asked) PROVE UNCHANGED memVars
  BY <1>8 DEF API_Describe
<1>9. API_CreateDrop_Answer(d) \/ API_Describe_Answer(d) \/ API_Journal(d) \/ Journal_Register(d)
      \/ Journal_Register_Answer(d) => UNCHANGED memVars
  BY DEF API_CreateDrop_Answer, API_Describe_Answer, API_Journal, Journal_Register, Journal_Register_Answer
<1> QED
  BY <1>1, <1>2, <1>3, <1>4, <1>5, <1>6, <1>7, <1>8, <1>9 DEF Thread

\* So is each step.
LEMMA MemoryStep == IInv /\ [Next]_vars => [Mem!Next]_memVars
<1> SUFFICES ASSUME IInv, [Next]_vars PROVE [Mem!Next]_memVars
  OBVIOUS
<1>1. FileSystem => UNCHANGED memVars
  BY DEF FileSystem
<1>2. Restart => Mem!Next
  BY DEF Restart, Mem!Next
<1>3. UNCHANGED vars => UNCHANGED memVars
  BY DEF vars
<1> QED
  BY <1>1, <1>2, <1>3, ThreadMemoryStep DEF Next

\* So the invariant of MainMemoryProofs holds here.
LEMMA MemoryInvariantKept == IInv /\ [Next]_vars => MP!IInv'
<1> SUFFICES ASSUME IInv, [Next]_vars PROVE MP!IInv'
  OBVIOUS
<1>1. [MP!Next]_MP!vars
  <2>1. UNCHANGED memVars => UNCHANGED MP!vars
    BY DEF memVars, MP!vars
  <2> QED
    BY <2>1, MemoryStep, SameNext
<1> QED
  BY <1>1, MemoryFacts DEF IInv

-----------------------------------------------------------------------------
(***************************************************************************)
(* Pages and file system agree.                                            *)
(***************************************************************************)
Agree == RecordsAreOld /\ PagesAgreeWithRecords

AgreeAt(s) ==
  /\ \A w \in fsData[s] : w.key = s[2] /\ w.timestamp <= clock
  /\ Mem!Dirty(s) => Datum(s).timestamp <= clock
  /\ Mem!Clean(s) => s[1] \in fsTables /\ Datum(s) \in fsData[s]
  /\ Mem!Dirty(s) => \A w \in fsData[s] : Datum(s).timestamp > w.timestamp \/ Datum(s) = w

\* Slot by slot.
LEMMA AgreePointwise ==
  /\ Agree <=> \A s \in Slots : AgreeAt(s)
  /\ Agree' <=> \A s \in Slots : AgreeAt(s)'
BY DEF Agree, AgreeAt, RecordsAreOld, PagesAgreeWithRecords, Datum

\* The types of what is compared.
LEMMA AgreeTypes ==
  ASSUME TInv, NEW s \in Slots
  PROVE  /\ clock \in 0 .. MaxClock
         /\ fsData[s] \subseteq Mem!FrameData
         /\ \A w \in fsData[s] : w.timestamp \in 0 .. MaxClock
         /\ Mem!Used(s) => pages[s].frame \in Mem!Frames /\ Datum(s) \in Mem!FrameData
         /\ Mem!Used(s) => Datum(s).timestamp \in 0 .. MaxClock
<1>1. clock \in 0 .. MaxClock /\ fsData[s] \subseteq Mem!FrameData
  BY DEF TInv, TypeOK, Timestamps
<1>2. \A w \in Mem!FrameData : w.timestamp \in 0 .. MaxClock
  BY DEF Mem!FrameData, Timestamps
<1>3. Mem!Used(s) => pages[s].frame \in Mem!Frames /\ Datum(s) \in Mem!FrameData
  BY SameConstants DEF TInv, TypeOK, Mem!TypeOK, Mem!Used, Mem!Page, Datum
<1> QED
  BY <1>1, <1>2, <1>3

\* Neither pages nor file system change, except for pages that go.
LEMMA AgreeKept ==
  ASSUME Agree, UNCHANGED fsVars, clock' = clock,
         \A s \in Slots : Kept(s) \/ ~Mem!Used(s)'
  PROVE  Agree'
<1> SUFFICES ASSUME NEW s \in Slots PROVE AgreeAt(s)'
  BY AgreePointwise
<1>1. AgreeAt(s) /\ fsTables' = fsTables /\ fsData' = fsData /\ clock' = clock
  BY AgreePointwise DEF fsVars
<1>2. CASE Kept(s)
  BY <1>1, <1>2, KeptFacts DEF AgreeAt, Mem!Dirty, Mem!Clean
<1>3. CASE ~Mem!Used(s)'
  BY <1>1, <1>3 DEF AgreeAt, Mem!Dirty, Mem!Clean
<1> QED
  BY <1>2, <1>3

\* A page made from what the file system answered.
LEMMA AgreeRead ==
  ASSUME Agree, UNCHANGED fsVars, clock' = clock, NEW r \in Slots, NEW datum,
         r[1] \in fsTables, datum \in fsData[r], Given(r, datum, FALSE),
         \A s \in Slots : s # r => Kept(s) \/ ~Mem!Used(s)'
  PROVE  Agree'
<1> SUFFICES ASSUME NEW s \in Slots PROVE AgreeAt(s)'
  BY AgreePointwise
<1>1. AgreeAt(s) /\ fsTables' = fsTables /\ fsData' = fsData /\ clock' = clock
  BY AgreePointwise DEF fsVars
<1>2. CASE s # r /\ Kept(s)
  BY <1>1, <1>2, KeptFacts DEF AgreeAt, Mem!Dirty, Mem!Clean
<1>3. CASE ~Mem!Used(s)'
  BY <1>1, <1>3 DEF AgreeAt, Mem!Dirty, Mem!Clean
<1>4. CASE s = r
  BY <1>1, <1>4, GivenFacts DEF AgreeAt
<1> QED
  BY <1>2, <1>3, <1>4

\* An INSERT is newer than all records.
LEMMA AgreeWrite ==
  ASSUME TInv, Agree, UNCHANGED fsVars, clock' = clock + 1, NEW r \in Slots, NEW datum,
         datum.timestamp = clock + 1, Given(r, datum, TRUE),
         \A s \in Slots : s # r => Kept(s) \/ ~Mem!Used(s)'
  PROVE  Agree'
<1> SUFFICES ASSUME NEW s \in Slots PROVE AgreeAt(s)'
  BY AgreePointwise
<1>1. AgreeAt(s) /\ fsTables' = fsTables /\ fsData' = fsData
  BY AgreePointwise DEF fsVars
<1>2. /\ clock \in Nat /\ (\A w \in fsData[s] : w.timestamp \in Nat)
      /\ Mem!Used(s) => Datum(s).timestamp \in Nat
  BY AgreeTypes
<1>3. \A w \in fsData[s] : w.timestamp <= clock + 1 /\ clock + 1 > w.timestamp
  BY <1>1, <1>2 DEF AgreeAt
<1>4. CASE s # r /\ Kept(s)
  <2>1. Mem!Dirty(s) => Datum(s).timestamp <= clock + 1
    BY <1>1, <1>2 DEF AgreeAt, Mem!Dirty
  <2> QED
    BY <1>1, <1>3, <1>4, <2>1, KeptFacts DEF AgreeAt, Mem!Dirty, Mem!Clean
<1>5. CASE ~Mem!Used(s)'
  BY <1>1, <1>3, <1>5 DEF AgreeAt, Mem!Dirty, Mem!Clean
<1>6. CASE s = r
  <2>1. Given(s, datum, TRUE)
    BY <1>6
  <2>2. Datum(s)' = datum /\ ~Mem!Clean(s)'
    BY <2>1, GivenFacts
  <2>3. Datum(s)'.timestamp = clock + 1 /\ clock + 1 <= clock + 1
    BY <1>2, <2>2
  <2> QED
    BY <1>1, <1>3, <2>2, <2>3 DEF AgreeAt
<1> QED
  BY <1>4, <1>5, <1>6

\* An INSERT that the memory refused.
LEMMA AgreeLater ==
  ASSUME TInv, Agree, UNCHANGED fsVars, clock' = clock + 1, \A s \in Slots : Kept(s)
  PROVE  Agree'
<1> SUFFICES ASSUME NEW s \in Slots PROVE AgreeAt(s)'
  BY AgreePointwise
<1>1. AgreeAt(s) /\ fsTables' = fsTables /\ fsData' = fsData
  BY AgreePointwise DEF fsVars
<1>2. /\ clock \in Nat /\ (\A w \in fsData[s] : w.timestamp \in Nat)
      /\ Mem!Used(s) => Datum(s).timestamp \in Nat
  BY AgreeTypes
<1>3. \A w \in fsData[s] : w.timestamp <= clock + 1
  BY <1>1, <1>2 DEF AgreeAt
<1>4. Mem!Dirty(s) => Datum(s).timestamp <= clock + 1
  BY <1>1, <1>2 DEF AgreeAt, Mem!Dirty
<1> QED
  BY <1>1, <1>3, <1>4, KeptFacts DEF AgreeAt, Mem!Dirty, Mem!Clean

\* A record that the journal saves is the page's.
LEMMA AgreeSaved ==
  ASSUME TInv, Agree, UNCHANGED <<memVars, fsTables, clock>>, NEW r \in Slots, NEW datum,
         Mem!Dirty(r), datum = Datum(r), datum.key = r[2],
         fsData' = fsData \/ fsData' = [fsData EXCEPT ![r] = fsData[r] \cup {datum}]
  PROVE  Agree'
<1> SUFFICES ASSUME NEW s \in Slots PROVE AgreeAt(s)'
  BY AgreePointwise
<1>1. AgreeAt(s) /\ AgreeAt(r)
  BY AgreePointwise
<1>2. /\ Mem!Dirty(s)' <=> Mem!Dirty(s)
      /\ Mem!Clean(s)' <=> Mem!Clean(s)
      /\ Datum(s)' = Datum(s)
  BY DEF memVars, Mem!Dirty, Mem!Clean, Mem!Used, Datum
<1>3. fsData'[s] = fsData[s] \/ (s = r /\ fsData'[s] = fsData[s] \cup {datum})
  BY DEF TInv, TypeOK
<1>4. CASE fsData'[s] = fsData[s]
  BY <1>1, <1>2, <1>4 DEF AgreeAt
<1>5. CASE s = r /\ fsData'[s] = fsData[s] \cup {datum}
  BY <1>1, <1>2, <1>5 DEF AgreeAt, Mem!Dirty, Mem!Clean
<1> QED
  BY <1>3, <1>4, <1>5

\* A table that comes, or goes, with its records or without them.
LEMMA AgreeTables ==
  ASSUME TInv, Agree, UNCHANGED <<memVars, clock>>, NEW t \in Tables,
         \/ fsTables' \in {fsTables, fsTables \cup {t}} /\ fsData' = fsData
         \/ /\ fsTables' = fsTables \ {t} /\ \A k \in Keys : ~Mem!Used(<<t, k>>)
            /\ \/ fsData' = [s \in Slots |-> IF s[1] = t THEN {} ELSE fsData[s]]
               \/ fsData' = fsData
  PROVE  Agree'
<1> SUFFICES ASSUME NEW s \in Slots PROVE AgreeAt(s)'
  BY AgreePointwise
<1>1. AgreeAt(s) /\ clock' = clock
  BY AgreePointwise
<1>2. /\ Mem!Used(s)' <=> Mem!Used(s)
      /\ Mem!Dirty(s)' <=> Mem!Dirty(s)
      /\ Mem!Clean(s)' <=> Mem!Clean(s)
      /\ Datum(s)' = Datum(s)
  BY DEF memVars, Mem!Dirty, Mem!Clean, Mem!Used, Datum
<1>3. CASE fsTables' \in {fsTables, fsTables \cup {t}} /\ fsData' = fsData
  BY <1>1, <1>2, <1>3 DEF AgreeAt
<1>4. CASE /\ fsTables' = fsTables \ {t} /\ \A k \in Keys : ~Mem!Used(<<t, k>>)
           /\ \/ fsData' = [u \in Slots |-> IF u[1] = t THEN {} ELSE fsData[u]]
              \/ fsData' = fsData
  <2>1. CASE s[1] = t
    <3>1. ~Mem!Used(s)
      BY <1>4, <2>1 DEF Slots
    <3> QED
      BY <1>1, <1>2, <1>4, <2>1, <3>1 DEF AgreeAt, Mem!Dirty, Mem!Clean
  <2>2. CASE s[1] # t
    BY <1>1, <1>2, <1>4, <2>2 DEF AgreeAt
  <2> QED
    BY <2>1, <2>2
<1> QED
  BY <1>3, <1>4

-----------------------------------------------------------------------------
(***************************************************************************)
(* The points that the only thread can be at, and the socket there.        *)
(***************************************************************************)
Alone(d) == InStep(pc[d]) /\ JournalIsTheBuffer(pc[d])

\* Nothing is on the socket of an idle thread.
LEMMA AtIdle == ASSUME NEW d, pc'[d] = Idle, Quiet' PROVE Alone(d)'
BY DEF Alone, InStep, JournalIsTheBuffer, Idle

\* API_Select waits.
LEMMA AtSelect ==
  ASSUME NEW d, NEW t, NEW k, pc'[d] = [at |-> "select", table |-> t, key |-> k], ~Mem!Used(<<t, k>>)',
         \/ Asked([op |-> "SELECT", table |-> t, key |-> k])'
         \/ \E found \in Found(t, k)' : Answered([op |-> "SELECT", found |-> found])'
  PROVE  Alone(d)'
<1> DEFINE p == [at |-> "select", table |-> t, key |-> k]
<1>1. p.at = "select" /\ p.table = t /\ p.key = k /\ pc'[d] = p
  OBVIOUS
<1> HIDE DEF p
<1> QED
  BY <1>1 DEF Alone, InStep, JournalIsTheBuffer, SelectInStep, Asked, Answered, Found, Mem!Used

\* API_Create waits.
LEMMA AtCreate == ASSUME NEW d, pc'[d] = [at |-> "create"], CreateInStep' PROVE Alone(d)'
BY DEF Alone, InStep, JournalIsTheBuffer

\* API_Describe waits.
LEMMA AtDescribe == ASSUME NEW d, pc'[d] = [at |-> "describe"], DescribeInStep' PROVE Alone(d)'
BY DEF Alone, InStep, JournalIsTheBuffer

\* API_Drop waits, its pages evicted.
LEMMA AtDrop ==
  ASSUME NEW d, NEW t, pc'[d] = [at |-> "drop", table |-> t], \A k \in Keys : ~Mem!Used(<<t, k>>)',
         \/ Asked([op |-> "DROP", table |-> t])'
         \/ Answered([op |-> "DROP"])' /\ t \notin fsTables'
  PROVE  Alone(d)'
<1> DEFINE p == [at |-> "drop", table |-> t]
<1>1. p.at = "drop" /\ p.table = t /\ pc'[d] = p
  OBVIOUS
<1> HIDE DEF p
<1> QED
  BY <1>1 DEF Alone, InStep, JournalIsTheBuffer, DropInStep, Asked, Answered, Mem!Used

\* The pages and the socket stay as they are at these points.
LEMMA StatesAre ==
  ASSUME NEW p \in States
  PROVE  /\ p.at \in {"idle", "select", "create", "drop", "describe", "journal", "journaling"}
         /\ p.at = "select" => p = [at |-> "select", table |-> p.table, key |-> p.key]
         /\ p.at = "create" => p = [at |-> "create"]
         /\ p.at = "describe" => p = [at |-> "describe"]
         /\ p.at = "drop" => p = [at |-> "drop", table |-> p.table]
BY DEF States, Idle

\* What the file system does to a request of each kind.
LEMMA FileSystemServes ==
  ASSUME FileSystem, NEW r, Asked(r)
  PROVE  /\ UNCHANGED <<memVars, clock, pc, answer, accepted>>
         /\ \/ /\ r.op = "SELECT" /\ \E found \in Found(r.table, r.key) : Served([op |-> "SELECT", found |-> found])
               /\ UNCHANGED fsVars
            \/ /\ r.op = "INSERT" /\ Served([op |-> "INSERT"]) /\ Record(r.table, r.datum) /\ UNCHANGED fsTables
            \/ /\ r.op = "CREATE" /\ Served([op |-> "CREATE"])
               /\ fsTables' \in {fsTables, fsTables \cup {r.table}} /\ UNCHANGED fsData
            \/ /\ r.op = "DROP" /\ Served([op |-> "DROP"]) /\ fsTables' = fsTables \ {r.table}
               /\ \/ fsData' = [s \in Slots |-> IF s[1] = r.table THEN {} ELSE fsData[s]]
                  \/ UNCHANGED fsData
            \/ /\ r.op = "DESCRIBE"
               /\ Served([op |-> "DESCRIBE", tables |-> r.asked \cap fsTables])
               /\ UNCHANGED fsVars
<1>1. Head(requests) = r
  BY DEF Asked
<1> QED
  BY <1>1 DEF FileSystem

\* The record of a SELECT is looked up.
LEMMA FileSystemSelect ==
  ASSUME TInv, Agree, NEW d \in Threads, pc[d].at = "select", Alone(d), FileSystem
  PROVE  Alone(d)' /\ Agree'
<1> PICK p \in States : p = pc[d]
  BY DEF TInv
<1> DEFINE r == [op |-> "SELECT", table |-> p.table, key |-> p.key]
<1>1. p = [at |-> "select", table |-> p.table, key |-> p.key]
  BY StatesAre
<1>2. ~Mem!Used(<<p.table, p.key>>) /\ Asked(r)
  BY OneAtATime DEF Alone, InStep, SelectInStep
<1>3. r.op = "SELECT" /\ r.table = p.table /\ r.key = p.key
  OBVIOUS
<1> HIDE DEF r
<1>4. /\ UNCHANGED <<memVars, fsVars, clock, pc>>
      /\ \E found \in Found(p.table, p.key) : Served([op |-> "SELECT", found |-> found])
  BY <1>2, <1>3, FileSystemServes
<1>5. \E found \in Found(p.table, p.key)' : Answered([op |-> "SELECT", found |-> found])'
  <2>1. PICK found \in Found(p.table, p.key) : Served([op |-> "SELECT", found |-> found])
    BY <1>4
  <2>2. found \in Found(p.table, p.key)'
    BY <1>4 DEF Found, fsVars
  <2>3. Answered([op |-> "SELECT", found |-> found])'
    BY <1>2, <2>1, ServedAnswers
  <2> QED
    BY <2>2, <2>3
<1>6. ~Mem!Used(<<p.table, p.key>>)'
  BY <1>2, <1>4 DEF Mem!Used, memVars
<1>7. Alone(d)'
  BY <1>1, <1>4, <1>5, <1>6, AtSelect
<1> QED
  BY <1>4, <1>7, AgreeKept, SameContents DEF memVars

\* A table is created.
LEMMA FileSystemCreate ==
  ASSUME TInv, Agree, NEW d \in Threads, pc[d].at = "create", Alone(d), FileSystem
  PROVE  Alone(d)' /\ Agree'
<1>1. pc[d] = [at |-> "create"]
  BY StatesAre DEF TInv
<1>2. PICK t \in Tables : Asked([op |-> "CREATE", table |-> t])
  BY OneAtATime DEF Alone, InStep, CreateInStep
<1> DEFINE r == [op |-> "CREATE", table |-> t]
<1>3. r.op = "CREATE" /\ r.table = t /\ Asked(r)
  BY <1>2
<1> HIDE DEF r
<1>4. /\ UNCHANGED <<memVars, clock, pc>> /\ Served([op |-> "CREATE"])
      /\ fsTables' \in {fsTables, fsTables \cup {t}} /\ fsData' = fsData
  BY <1>3, FileSystemServes
<1>5. CreateInStep'
  BY <1>2, <1>4, ServedAnswers DEF CreateInStep
<1>6. Alone(d)'
  BY <1>1, <1>4, <1>5, AtCreate
<1> QED
  BY <1>4, <1>6, AgreeTables

\* A table is dropped that has no page.
LEMMA FileSystemDrop ==
  ASSUME TInv, Agree, NEW d \in Threads, pc[d].at = "drop", Alone(d), FileSystem
  PROVE  Alone(d)' /\ Agree'
<1> PICK p \in States : p = pc[d]
  BY DEF TInv
<1>1. p = [at |-> "drop", table |-> p.table] /\ p.table \in Tables
  BY StatesAre, StatesFacts
<1>2. Asked([op |-> "DROP", table |-> p.table]) /\ \A k \in Keys : ~Mem!Used(<<p.table, k>>)
  BY OneAtATime DEF Alone, InStep, DropInStep
<1> DEFINE r == [op |-> "DROP", table |-> p.table]
<1>3. r.op = "DROP" /\ r.table = p.table /\ Asked(r)
  BY <1>2
<1> HIDE DEF r
<1>4. /\ UNCHANGED <<memVars, clock, pc>> /\ Served([op |-> "DROP"])
      /\ fsTables' = fsTables \ {p.table}
      /\ \/ fsData' = [s \in Slots |-> IF s[1] = p.table THEN {} ELSE fsData[s]]
         \/ fsData' = fsData
  BY <1>3, FileSystemServes
<1>5. Answered([op |-> "DROP"])' /\ p.table \notin fsTables'
  BY <1>2, <1>4, ServedAnswers
<1>6. \A k \in Keys : ~Mem!Used(<<p.table, k>>)'
  BY <1>2, <1>4 DEF Mem!Used, memVars
<1>7. Alone(d)'
  BY <1>1, <1>4, <1>5, <1>6, AtDrop
<1> QED
  BY <1>1, <1>2, <1>4, <1>7, AgreeTables

\* Tables are described.
LEMMA FileSystemDescribe ==
  ASSUME TInv, Agree, NEW d \in Threads, pc[d].at = "describe", Alone(d), FileSystem
  PROVE  Alone(d)' /\ Agree'
<1>1. pc[d] = [at |-> "describe"]
  BY StatesAre DEF TInv
<1>2. PICK asked \in SUBSET Tables : Asked([op |-> "DESCRIBE", asked |-> asked])
  BY OneAtATime DEF Alone, InStep, DescribeInStep
<1> DEFINE r == [op |-> "DESCRIBE", asked |-> asked]
<1>3. r.op = "DESCRIBE" /\ r.asked = asked /\ Asked(r)
  BY <1>2
<1> HIDE DEF r
<1>4. /\ UNCHANGED <<memVars, fsVars, clock, pc>>
      /\ Served([op |-> "DESCRIBE", tables |-> asked \cap fsTables])
  BY <1>3, FileSystemServes
<1>5. PICK tables \in SUBSET Tables : tables = asked \cap fsTables
  OBVIOUS
<1>6. Answered([op |-> "DESCRIBE", tables |-> tables])'
  BY <1>2, <1>4, <1>5, ServedAnswers
<1>7. DescribeInStep'
  BY <1>6 DEF DescribeInStep
<1>8. Alone(d)'
  BY <1>1, <1>4, <1>7, AtDescribe
<1> QED
  BY <1>4, <1>8, AgreeKept, SameContents DEF memVars

\* The INSERT of the journal adds the record of the page to those of the file system.
LEMMA FileSystemInsert ==
  ASSUME TInv, MP!IInv, Agree, NEW d \in Threads, pc[d].at = "journaling", Alone(d), FileSystem
  PROVE  Alone(d)' /\ Agree'
<1> PICK p \in States : p = pc[d]
  BY DEF TInv
<1>0. p.sent \in Sent /\ p.at = "journaling"
  BY StatesFacts
<1>1. PICK s \in Slots :
        /\ p.sent[s] # Mem!NoEntry
        /\ Asked([op |-> "INSERT", table |-> s[1], datum |-> p.sent[s]])
        /\ \A u \in Slots : u # s => Saved(u, p.sent)
  BY OneAtATime DEF Alone, InStep, JournalInStep
<1>2. PICK datum : datum = p.sent[s]
  OBVIOUS
<1>3. Mem!Dirty(s) /\ datum = Datum(s) /\ datum \in Mem!FrameData
  BY <1>0, <1>1, <1>2 DEF Alone, JournalIsTheBuffer, Sent
<1>4. datum.key = s[2] /\ s = <<s[1], s[2]>> /\ s[1] \in Tables
  BY <1>3, SameConstants, SameState DEF MP!IInv, MP!FrameHoldsPageKey, Datum, Mem!Dirty, Slots
<1> DEFINE r == [op |-> "INSERT", table |-> s[1], datum |-> datum]
<1>5. r.op = "INSERT" /\ r.table = s[1] /\ r.datum = datum /\ Asked(r)
  BY <1>1, <1>2
<1> HIDE DEF r
<1>6. /\ UNCHANGED <<memVars, fsTables, clock, pc>> /\ Served([op |-> "INSERT"])
      /\ Record(s[1], datum)
  BY <1>5, FileSystemServes
<1>7. \/ fsData' = [fsData EXCEPT ![s] = fsData[s] \cup {datum}]
      \/ s[1] \notin fsTables /\ fsData' = fsData
  BY <1>4, <1>6 DEF Record
<1>8. /\ \A u \in Slots : u # s => fsData'[u] = fsData[u]
      /\ s[1] \in fsTables => datum \in fsData'[s]
  BY <1>7 DEF TInv, TypeOK
<1>9. Answered([op |-> "INSERT"])'
  BY <1>1, <1>6, ServedAnswers
<1>10. \A u \in Slots : Saved(u, p.sent)'
  BY <1>1, <1>2, <1>6, <1>8 DEF Saved
<1>11. Alone(d)'
  <2>1. InStep(p)'
    BY <1>0, <1>1, <1>9, <1>10 DEF InStep, JournalInStep
  <2>2. JournalIsTheBuffer(p)'
    BY <1>6 DEF Alone, JournalIsTheBuffer, memVars, Mem!Dirty, Mem!Used, Datum
  <2>3. pc'[d] = p
    BY <1>6
  <2> QED
    BY <2>1, <2>2, <2>3 DEF Alone, InStep, JournalIsTheBuffer, SelectInStep, DropInStep, JournalInStep, Saved,
       Found, Asked, Answered, Mem!Used, Mem!Dirty, Datum
<1> QED
  BY <1>3, <1>4, <1>6, <1>7, <1>11, AgreeSaved

\* Each request that is served.
LEMMA FileSystemStep ==
  ASSUME TInv, MP!IInv, Agree, NEW d \in Threads, Alone(d), FileSystem
  PROVE  Alone(d)' /\ Agree'
<1>1. pc[d].at \in {"idle", "select", "create", "drop", "describe", "journal", "journaling"}
  BY DEF TInv, TypeOK
<1>2. pc[d].at \notin {"idle", "journal"}
  BY OneAtATime DEF Alone, InStep
<1> QED
  BY <1>1, <1>2, FileSystemSelect, FileSystemCreate, FileSystemDrop, FileSystemDescribe, FileSystemInsert

-----------------------------------------------------------------------------
(***************************************************************************)
(* The steps of the only thread.                                           *)
(***************************************************************************)
\* A thread sends only on a quiet socket.
LEMMA IdleIsQuiet == ASSUME NEW d, pc[d] = Idle, Alone(d) PROVE Quiet
BY DEF Idle, Alone, InStep

\* pc after a step.
LEMMA Goes ==
  ASSUME TInv, NEW d \in Threads, NEW p, Goto(d, p) PROVE pc'[d] = p
BY DEF Goto, TInv

\* The memory as it was.
LEMMA AgreeSame == ASSUME Agree, UNCHANGED <<memVars, fsVars, clock>> PROVE Agree'
BY AgreeKept, SameContents DEF memVars

\* API_Select of a page that is there.
LEMMA HitStep ==
  ASSUME TInv, MP!IInv, Agree, NoGarbage, NEW d \in Threads, Alone(d), NEW t \in Tables, NEW k \in Keys,
         API_Select_Hit(d, t, k)
  PROVE  Alone(d)' /\ Agree' /\ NoGarbage'
<1>1. /\ pc[d] = Idle /\ Mem!Memory_GetFrame(t, k)
      /\ answer' = [slot |-> <<t, k>>, value |-> memory[pages[<<t, k>>].frame].value]
      /\ UNCHANGED <<fsVars, clock, pc, requests, replies, accepted>>
  BY DEF API_Select_Hit
<1>2. Quiet'
  BY <1>1, IdleIsQuiet DEF Quiet
<1>3. Alone(d)'
  BY <1>1, <1>2, AtIdle
<1>4. Agree'
  BY <1>1, GetFrameContents, AgreeKept
<1>5. <<t, k>> \in Slots /\ Mem!Used(<<t, k>>)
  BY <1>1 DEF Slots, Mem!Memory_GetFrame
<1>6. memory[pages[<<t, k>>].frame] \in Mem!FrameData
  BY <1>5, AgreeTypes DEF Datum
<1>7. answer'.value \in Values
  BY <1>1, <1>6 DEF Mem!FrameData
<1> QED
  BY <1>3, <1>4, <1>7 DEF NoGarbage

\* API_Select of one that is not.
LEMMA MissStep ==
  ASSUME TInv, Agree, NoGarbage, NEW d \in Threads, Alone(d), NEW t \in Tables, NEW k \in Keys,
         API_Select_Miss(d, t, k)
  PROVE  Alone(d)' /\ Agree' /\ NoGarbage'
<1>1. /\ pc[d] = Idle /\ ~Mem!Used(<<t, k>>)
      /\ Send([op |-> "SELECT", table |-> t, key |-> k])
      /\ Goto(d, [at |-> "select", table |-> t, key |-> k])
      /\ UNCHANGED <<memVars, fsVars, clock, answer, accepted>>
  BY DEF API_Select_Miss
<1>2. Asked([op |-> "SELECT", table |-> t, key |-> k])'
  BY <1>1, IdleIsQuiet, SendAsks
<1>3. ~Mem!Used(<<t, k>>)' /\ pc'[d] = [at |-> "select", table |-> t, key |-> k]
  BY <1>1, Goes DEF Mem!Used, memVars
<1>4. Alone(d)'
  BY <1>2, <1>3, AtSelect
<1> QED
  BY <1>1, <1>4, AgreeSame DEF NoGarbage

\* The answer to that: the page that is made holds the file system's record.
LEMMA AnswerStep ==
  ASSUME TInv, MP!IInv, Agree, NoGarbage, NEW d \in Threads, Alone(d), API_Select_Answer(d)
  PROVE  Alone(d)' /\ Agree' /\ NoGarbage'
<1> PICK t, k : t = pc[d].table /\ k = pc[d].key
  OBVIOUS
<1>1. /\ pc[d].at = "select" /\ Goto(d, Idle)
      /\ UNCHANGED <<fsVars, clock, requests, accepted>>
  BY DEF API_Select_Answer
<1>2. PICK reply \in ReplySet : Receive(reply) /\
        \/ reply.op # "SELECT"
        \/ /\ reply.op = "SELECT" /\ reply.found.key \in {KeyNotFound, TableNotFound}
           /\ answer' = [slot |-> <<t, k>>, value |-> reply.found.key]
           /\ UNCHANGED memVars
        \/ /\ reply.op = "SELECT" /\ reply.found.key \in Keys
           /\ answer' = [slot |-> <<t, k>>, value |-> reply.found.value]
           /\ Mem!Memory_InsertNewValue(t, reply.found.timestamp, k, reply.found.value)
  BY DEF API_Select_Answer, memVars
<1>3. /\ Quiet' /\ reply.op = "SELECT" /\ reply.found \in Found(t, k)
      /\ ~Mem!Used(<<t, k>>) /\ t \in Tables /\ k \in Keys /\ <<t, k>> \in Slots
      /\ reply.found.key \in Keys =>
           /\ t \in fsTables /\ reply.found \in fsData[<<t, k>>]
           /\ reply.found \in Mem!FrameData /\ reply.found.key = k
           /\ reply.found.timestamp \in Timestamps /\ reply.found.value \in Values
  BY <1>1, <1>2, SelectAnswerFacts DEF Alone, Agree
<1>4. Alone(d)'
  BY <1>1, <1>3, AtIdle, Goes
<1>5. CASE /\ reply.found.key \in {KeyNotFound, TableNotFound}
           /\ answer' = [slot |-> <<t, k>>, value |-> reply.found.key]
           /\ UNCHANGED memVars
  <2>1. answer'.value \in {KeyNotFound, TableNotFound}
    BY <1>5
  <2>2. NoGarbage'
    BY <2>1 DEF NoGarbage
  <2> QED
    BY <1>1, <1>4, <1>5, <2>2, AgreeSame
<1>6. CASE /\ reply.found.key \in Keys
           /\ answer' = [slot |-> <<t, k>>, value |-> reply.found.value]
           /\ Mem!Memory_InsertNewValue(t, reply.found.timestamp, k, reply.found.value)
  <2>1. PICK datum : datum = reply.found
    OBVIOUS
  <2>2. /\ datum \in Mem!FrameData /\ datum.key = k /\ datum \in fsData[<<t, k>>] /\ t \in fsTables
        /\ datum.timestamp \in Timestamps /\ datum.value \in Values
    BY <1>3, <1>6, <2>1
  <2>3. datum = [key |-> k, timestamp |-> datum.timestamp, value |-> datum.value]
    BY <2>2 DEF Mem!FrameData
  <2>4. NoGarbage'
    <3>1. answer'.value \in Values
      BY <1>6, <2>1, <2>2
    <3> QED
      BY <3>1 DEF NoGarbage
  <2>5. CASE Mem!PageInNewFrame(t, datum.timestamp, k, datum.value, FALSE)
    <3>1. /\ Given(<<t, k>>, datum, FALSE)
          /\ \A s \in Slots : s # <<t, k>> => Kept(s) \/ (Mem!Clean(s) /\ ~Mem!Used(s)')
      <4> PICK ts \in Timestamps, v \in Values : ts = datum.timestamp /\ v = datum.value
        BY <2>2
      <4> DEFINE new == [key |-> k, timestamp |-> ts, value |-> v]
      <4>1. /\ Given(<<t, k>>, new, FALSE)
            /\ \A s \in Slots : s # <<t, k>> => Kept(s) \/ (Mem!Clean(s) /\ ~Mem!Used(s)')
        BY <1>3, <2>5, NewPageContents
      <4>2. new = datum
        BY <2>3
      <4> HIDE DEF new
      <4> QED
        BY <4>1, <4>2
    <3>2. PICK r \in Slots : r = <<t, k>> /\ r[1] = t
      BY <1>3
    <3>3. UNCHANGED fsVars /\ clock' = clock /\ r[1] \in fsTables /\ datum \in fsData[r]
      BY <1>1, <2>2, <3>2
    <3>4. Given(r, datum, FALSE) /\ \A s \in Slots : s # r => Kept(s) \/ ~Mem!Used(s)'
      BY <3>1, <3>2
    <3>5. Agree'
      BY <3>3, <3>4, AgreeRead
    <3> QED
      BY <1>4, <2>4, <3>5
  <2>6. CASE Mem!RefuseFrame
    BY <1>1, <1>4, <2>4, <2>6, AgreeKept, SameContents DEF Mem!RefuseFrame
  <2> QED
    BY <1>6, <2>1, <2>5, <2>6 DEF Mem!Memory_InsertNewValue
<1> QED
  BY <1>2, <1>3, <1>5, <1>6

\* API_Insert: the page that is written is newer than any record.
LEMMA InsertStep ==
  ASSUME TInv, MP!IInv, Agree, NoGarbage, NEW d \in Threads, Alone(d), NEW t \in Tables, NEW k \in Keys,
         NEW v \in Values, API_Insert(d, t, k, v)
  PROVE  Alone(d)' /\ Agree' /\ NoGarbage'
<1>1. /\ pc[d] = Idle /\ clock' = clock + 1 /\ UNCHANGED <<fsVars, pc, requests, replies, answer>>
      /\ \/ Mem!Upsert_Present(t, clock', k, v) \/ Mem!Upsert_Absent(t, clock', k, v)
         \/ Mem!Upsert_Refused(t, k)
  BY DEF API_Insert
<1>2. PICK ts \in Timestamps : ts = clock' /\ ts = clock + 1
  BY <1>1 DEF API_Insert, TInv, TypeOK, Timestamps
<1>3. Alone(d)' /\ NoGarbage'
  BY <1>1, IdleIsQuiet, AtIdle DEF Quiet, NoGarbage
<1>4. CASE Mem!Upsert_Present(t, clock', k, v) \/ Mem!Upsert_Absent(t, clock', k, v)
  <2> DEFINE datum == [key |-> k, timestamp |-> ts, value |-> v]
  <2>1. /\ Given(<<t, k>>, datum, TRUE)
        /\ \A s \in Slots : s # <<t, k>> => Kept(s) \/ (Mem!Clean(s) /\ ~Mem!Used(s)')
    BY <1>2, <1>4, UpsertContents
  <2>2. datum.timestamp = clock + 1 /\ <<t, k>> \in Slots
    BY <1>2 DEF Slots
  <2> HIDE DEF datum
  <2>3. Agree'
    BY <1>1, <2>1, <2>2, AgreeWrite
  <2> QED
    BY <1>3, <2>3
<1>5. CASE Mem!Upsert_Refused(t, k)
  BY <1>1, <1>3, <1>5, AgreeLater, SameContents DEF Mem!Upsert_Refused, Mem!RefuseFrame
<1> QED
  BY <1>1, <1>4, <1>5

\* API_Create.
LEMMA CreateStep ==
  ASSUME TInv, Agree, NoGarbage, NEW d \in Threads, Alone(d), NEW t \in Tables, API_Create(d, t)
  PROVE  Alone(d)' /\ Agree' /\ NoGarbage'
<1>1. /\ pc[d] = Idle /\ Send([op |-> "CREATE", table |-> t]) /\ Goto(d, [at |-> "create"])
      /\ UNCHANGED <<memVars, fsVars, clock, answer, accepted>>
  BY DEF API_Create
<1>2. Asked([op |-> "CREATE", table |-> t])'
  BY <1>1, IdleIsQuiet, SendAsks
<1>3. CreateInStep' /\ pc'[d] = [at |-> "create"]
  BY <1>1, <1>2, Goes DEF CreateInStep
<1> QED
  BY <1>1, <1>3, AtCreate, AgreeSame DEF NoGarbage

\* API_Describe.
LEMMA DescribeStep ==
  ASSUME TInv, Agree, NoGarbage, NEW d \in Threads, Alone(d), NEW asked \in SUBSET Tables, API_Describe(d, asked)
  PROVE  Alone(d)' /\ Agree' /\ NoGarbage'
<1>1. /\ pc[d] = Idle /\ Send([op |-> "DESCRIBE", asked |-> asked]) /\ Goto(d, [at |-> "describe"])
      /\ UNCHANGED <<memVars, fsVars, clock, answer, accepted>>
  BY DEF API_Describe
<1>2. Asked([op |-> "DESCRIBE", asked |-> asked])'
  BY <1>1, IdleIsQuiet, SendAsks
<1>3. DescribeInStep' /\ pc'[d] = [at |-> "describe"]
  BY <1>1, <1>2, Goes DEF DescribeInStep
<1> QED
  BY <1>1, <1>3, AtDescribe, AgreeSame DEF NoGarbage

\* API_Drop.
LEMMA DropStep ==
  ASSUME TInv, Agree, NoGarbage, NEW d \in Threads, Alone(d), NEW t \in Tables, API_Drop(d, t)
  PROVE  Alone(d)' /\ Agree' /\ NoGarbage'
<1>1. /\ pc[d] = Idle /\ Mem!Memory_EvictPages(t) /\ Send([op |-> "DROP", table |-> t])
      /\ Goto(d, [at |-> "drop", table |-> t]) /\ UNCHANGED <<fsVars, clock, answer>>
  BY DEF API_Drop
<1>2. Asked([op |-> "DROP", table |-> t])' /\ pc'[d] = [at |-> "drop", table |-> t]
  BY <1>1, IdleIsQuiet, SendAsks, Goes
<1>3. \A s \in Slots : IF s[1] = t THEN ~Mem!Used(s)' ELSE Kept(s)
  BY <1>1, EvictPagesContents
<1>4. \A k \in Keys : ~Mem!Used(<<t, k>>)'
  BY <1>3 DEF Slots
<1> QED
  BY <1>1, <1>2, <1>3, <1>4, AtDrop, AgreeKept DEF NoGarbage

\* The answers that carry nothing for the memory.
LEMMA AnsweredStep ==
  ASSUME TInv, Agree, NoGarbage, NEW d \in Threads, Alone(d),
         API_CreateDrop_Answer(d) \/ API_Describe_Answer(d)
  PROVE  Alone(d)' /\ Agree' /\ NoGarbage'
<1>1. PICK reply : Receive(reply)
  BY DEF API_CreateDrop_Answer, API_Describe_Answer
<1>2. /\ pc[d].at \in {"create", "drop", "describe"} /\ Goto(d, Idle)
      /\ UNCHANGED <<memVars, fsVars, clock, requests, answer>>
  BY DEF API_CreateDrop_Answer, API_Describe_Answer
<1>3. \E a : Answered(a)
  BY <1>1, <1>2, OneAtATime DEF Alone, InStep, CreateInStep, DropInStep, DescribeInStep
<1>4. Quiet'
  BY <1>1, <1>2, <1>3, ReceiveQuiets
<1> QED
  BY <1>2, <1>4, AtIdle, Goes, AgreeSame DEF NoGarbage

\* The answer for one modified frame: its record is saved.
LEMMA RegisterAnswerStep ==
  ASSUME TInv, Agree, NoGarbage, NEW d \in Threads, Alone(d), Journal_Register_Answer(d)
  PROVE  Alone(d)' /\ Agree' /\ NoGarbage'
<1> PICK p \in States : p = pc[d]
  BY DEF TInv
<1>1. PICK reply : Receive(reply)
  BY DEF Journal_Register_Answer
<1>2. /\ p.at = "journaling" /\ Goto(d, [p EXCEPT !.at = "journal"])
      /\ UNCHANGED <<memVars, fsVars, clock, requests, answer>>
  BY DEF Journal_Register_Answer
<1>3. Answered([op |-> "INSERT"]) /\ \A s \in Slots : Saved(s, p.sent)
  BY <1>1, <1>2, OneAtATime DEF Alone, InStep, JournalInStep
<1>4. Quiet'
  BY <1>1, <1>2, <1>3, ReceiveQuiets
<1>5. PICK q : q = [p EXCEPT !.at = "journal"]
  OBVIOUS
<1>6. q.at = "journal" /\ q.sent = p.sent /\ q.left = p.left /\ pc'[d] = q
  BY <1>2, <1>5, StatesFacts, Goes
<1>7. \A s \in Slots : Saved(s, q.sent)'
  BY <1>2, <1>3, <1>6 DEF Saved, fsVars
<1>8. InStep(pc[d])'
  BY <1>4, <1>6, <1>7 DEF InStep, Saved
<1>9. JournalIsTheBuffer(pc[d])'
  BY <1>2, <1>6 DEF Alone, JournalIsTheBuffer, memVars, Mem!Dirty, Mem!Used, Datum
<1> QED
  BY <1>2, <1>8, <1>9, AgreeSame DEF NoGarbage, Alone

\* The journal begins with all the modified frames.
LEMMA JournalStep ==
  ASSUME TInv, Agree, NoGarbage, NEW d \in Threads, Alone(d), API_Journal(d)
  PROVE  Alone(d)' /\ Agree' /\ NoGarbage'
<1> DEFINE left == {<<s[1], pages[s].frame>> : s \in {r \in Slots : Mem!Dirty(r)}}
           none == [s \in Slots |-> Mem!NoEntry]
<1>1. /\ pc[d] = Idle /\ Goto(d, [at |-> "journal", left |-> left, sent |-> none])
      /\ UNCHANGED <<memVars, fsVars, clock, requests, replies, answer, accepted>>
  BY DEF API_Journal
<1>2. PICK q : q = [at |-> "journal", left |-> left, sent |-> none]
  OBVIOUS
<1>3. q.at = "journal" /\ q.left = left /\ q.sent = none /\ pc'[d] = q
  BY <1>1, <1>2, Goes
<1>4. \A s \in Slots : q.sent[s] = Mem!NoEntry
  BY <1>3
<1>5. Quiet'
  BY <1>1, IdleIsQuiet DEF Quiet
<1>6. InStep(pc[d])'
  BY <1>3, <1>4, <1>5 DEF InStep, Saved
<1>7. q.left = {<<s[1], pages[s].frame>> : s \in {r \in Slots : Mem!Dirty(r) /\ q.sent[r] = Mem!NoEntry}}
  BY <1>3, <1>4
<1>8. JournalIsTheBuffer(pc[d])'
  BY <1>1, <1>3, <1>4, <1>7 DEF JournalIsTheBuffer, memVars, Mem!Dirty, Mem!Used, Datum
<1> QED
  BY <1>1, <1>6, <1>8, AgreeSame DEF NoGarbage, Alone

\* The journal's end.
LEMMA CleanStep ==
  ASSUME TInv, Agree, NoGarbage, NEW d \in Threads, Alone(d), Journal_Clean(d)
  PROVE  Alone(d)' /\ Agree' /\ NoGarbage'
<1>1. /\ pc[d].at = "journal" /\ Mem!CleanMemory /\ Goto(d, Idle)
      /\ UNCHANGED <<fsVars, clock, requests, replies, answer>>
  BY DEF Journal_Clean
<1>2. Quiet'
  BY <1>1 DEF Alone, InStep, Quiet
<1> QED
  BY <1>1, <1>2, AtIdle, Goes, EmptyContents, AgreeKept DEF NoGarbage

\* The request for one modified frame: no two pages are in it, and its key says which page.
LEMMA RegisterStep ==
  ASSUME TInv, MP!IInv, Agree, NoGarbage, NEW d \in Threads, Alone(d), Journal_Register(d)
  PROVE  Alone(d)' /\ Agree' /\ NoGarbage'
<1> PICK p \in States : p = pc[d]
  BY DEF TInv
<1> DEFINE Pair(r)   == <<r[1], pages[r].frame>>
           Unsent(e) == {r \in Slots : Mem!Dirty(r) /\ e[r] = Mem!NoEntry}
<1>0. p.at = "journal" /\ p.sent \in Sent
  BY StatesFacts DEF Journal_Register
<1>1. /\ Quiet /\ (\A s \in Slots : Saved(s, p.sent))
      /\ \A s \in Slots : p.sent[s] # Mem!NoEntry => Mem!Dirty(s) /\ p.sent[s] = Datum(s)
      /\ p.left = {Pair(r) : r \in Unsent(p.sent)}
  BY <1>0 DEF Alone, InStep, JournalIsTheBuffer
<1>2. PICK x \in p.left :
        /\ Send([op |-> "INSERT", table |-> x[1], datum |-> memory[x[2]]])
        /\ Goto(d, [at |-> "journaling", left |-> p.left \ {x},
                    sent |-> [p.sent EXCEPT ![<<x[1], memory[x[2]].key>>] = memory[x[2]]]])
        /\ UNCHANGED <<memVars, fsVars, clock, answer, accepted>>
  BY DEF Journal_Register
<1>3. PICK s \in Unsent(p.sent) : x = Pair(s)
  BY <1>1
<1>4. s \in Slots /\ Mem!Dirty(s) /\ p.sent[s] = Mem!NoEntry
  BY <1>3
<1>5. PICK datum : datum = memory[x[2]]
  OBVIOUS
<1>6. datum = Datum(s) /\ x[1] = s[1]
  BY <1>3, <1>5 DEF Datum
<1>7. datum.key = s[2] /\ s = <<s[1], s[2]>> /\ datum \in Mem!FrameData /\ datum # Mem!NoEntry
  <2>1. datum.key = s[2] /\ s = <<s[1], s[2]>>
    BY <1>4, <1>6, SameConstants, SameState DEF MP!IInv, MP!FrameHoldsPageKey, Datum, Mem!Dirty, Slots
  <2>2. datum \in Mem!FrameData
    BY <1>4, <1>6, AgreeTypes DEF Mem!Dirty
  <2> QED
    BY <2>1, <2>2
<1>8. PICK sent, left : sent = [p.sent EXCEPT ![s] = datum] /\ left = p.left \ {x}
  OBVIOUS
<1>9. /\ Send([op |-> "INSERT", table |-> s[1], datum |-> datum])
      /\ Goto(d, [at |-> "journaling", left |-> left, sent |-> sent])
  BY <1>2, <1>5, <1>6, <1>7, <1>8
<1>10. sent[s] = datum /\ \A r \in Slots : r # s => sent[r] = p.sent[r]
  BY <1>0, <1>4, <1>8 DEF Sent
<1> PICK q : q = [at |-> "journaling", left |-> left, sent |-> sent]
  OBVIOUS
<1>11. q.at = "journaling" /\ q.left = left /\ q.sent = sent /\ pc'[d] = q
  BY <1>9, Goes
<1>12. InStep(pc[d])'
  <2>1. Asked([op |-> "INSERT", table |-> s[1], datum |-> sent[s]])'
    BY <1>1, <1>9, <1>10, SendAsks
  <2>2. \A r \in Slots : r # s => Saved(r, sent)'
    BY <1>1, <1>2, <1>10 DEF Saved, fsVars
  <2>3. JournalInStep(sent)'
    BY <1>4, <1>7, <1>10, <2>1, <2>2 DEF JournalInStep
  <2> QED
    BY <1>11, <2>3 DEF InStep, JournalInStep, Asked, Answered, Saved
<1>13. \A r \in Unsent(p.sent) : Pair(r) = Pair(s) => r = s
  BY <1>3, SameConstants, SameState DEF MP!IInv, MP!OneOwnerPerFrame, Mem!Dirty
<1>14. Unsent(sent) = Unsent(p.sent) \ {s}
  BY <1>4, <1>7, <1>10
<1>15. left = {Pair(r) : r \in Unsent(sent)}
  <2> HIDE DEF Pair, Unsent
  <2>1. p.left \ {Pair(s)} = {Pair(r) : r \in Unsent(p.sent) \ {s}}
    BY <1>1, <1>3, <1>13
  <2> QED
    BY <1>3, <1>8, <1>14, <2>1
<1>16. \A r \in Slots : sent[r] # Mem!NoEntry => Mem!Dirty(r) /\ sent[r] = Datum(r)
  BY <1>1, <1>4, <1>6, <1>10
<1>17. JournalIsTheBuffer(pc[d])'
  BY <1>2, <1>11, <1>15, <1>16 DEF JournalIsTheBuffer, memVars, Mem!Dirty, Mem!Used, Datum
<1> QED
  BY <1>2, <1>12, <1>17, AgreeSame DEF NoGarbage, Alone

\* Each step of the thread.
LEMMA ThreadStep ==
  ASSUME IInv, NEW d \in Threads, Thread(d)
  PROVE  Alone(d)' /\ Agree' /\ NoGarbage'
<1> TInv /\ MP!IInv /\ Agree /\ NoGarbage /\ Alone(d)
  BY DEF IInv, Agree, Alone
<1>1. ASSUME NEW t \in Tables, NEW k \in Keys,
             API_Select_Hit(d, t, k) \/ API_Select_Miss(d, t, k) \/ \E v \in Values : API_Insert(d, t, k, v)
      PROVE  Alone(d)' /\ Agree' /\ NoGarbage'
  BY <1>1, HitStep, MissStep, InsertStep
<1>2. ASSUME NEW t \in Tables, API_Create(d, t) \/ API_Drop(d, t) PROVE Alone(d)' /\ Agree' /\ NoGarbage'
  BY <1>2, CreateStep, DropStep
<1>3. ASSUME NEW asked \in SUBSET Tables, API_Describe(d, asked) PROVE Alone(d)' /\ Agree' /\ NoGarbage'
  BY <1>3, DescribeStep
<1>4. ASSUME \/ API_Select_Answer(d) \/ API_CreateDrop_Answer(d) \/ API_Describe_Answer(d) \/ API_Journal(d)
             \/ Journal_Register(d) \/ Journal_Register_Answer(d) \/ Journal_Clean(d)
      PROVE  Alone(d)' /\ Agree' /\ NoGarbage'
  BY <1>4, AnswerStep, AnsweredStep, JournalStep, RegisterStep, RegisterAnswerStep, CleanStep
<1> QED
  BY <1>1, <1>2, <1>3, <1>4 DEF Thread

-----------------------------------------------------------------------------
(***************************************************************************)
(* The invariant, when one thread runs the functions of API.c.             *)
(***************************************************************************)
\* The invariant, by its parts.
LEMMA InvariantOfOne ==
  ASSUME NEW d, Threads = {d}
  PROVE  /\ IInv <=> TInv /\ MP!IInv /\ Alone(d) /\ Agree /\ NoGarbage
         /\ IInv' <=> TInv' /\ MP!IInv' /\ Alone(d)' /\ Agree' /\ NoGarbage'
<1>1. \A th \in Threads : th = d
  OBVIOUS
<1>2. (\A th \in Threads : InStep(pc[th]) /\ JournalIsTheBuffer(pc[th])) <=> Alone(d)
  BY DEF Alone
<1>3. (\A th \in Threads : InStep(pc[th]) /\ JournalIsTheBuffer(pc[th]))' <=> Alone(d)'
  BY DEF Alone
<1> QED
  BY <1>2, <1>3 DEF IInv, Agree

\* At the start.
LEMMA InitIInv == ASSUME NEW d, Threads = {d}, Init PROVE IInv
<1>1. TInv
  BY InitTInv
<1>2. MP!IInv
  <2>1. MP!Init
    BY SameOperations DEF Init
  <2> QED
    BY <2>1, MemoryFacts
<1>3. Alone(d)
  BY DEF Init, Alone, InStep, JournalIsTheBuffer, Idle, Quiet
<1>4. \A s \in Slots : ~Mem!Used(s) /\ fsData[s] = {}
  BY SameConstants DEF Init, Mem!Init, Mem!Used
<1>5. Agree
  BY <1>4, AgreePointwise DEF AgreeAt, Mem!Dirty, Mem!Clean
<1>6. NoGarbage
  BY DEF Init, NoGarbage
<1> QED
  BY <1>1, <1>2, <1>3, <1>5, <1>6, InvariantOfOne

\* Each step keeps it.
LEMMA NextPreserves == ASSUME NEW d, Threads = {d}, IInv, [Next]_vars PROVE IInv'
<1> TInv /\ MP!IInv /\ Alone(d) /\ Agree /\ NoGarbage /\ d \in Threads
  BY InvariantOfOne
<1>1. TInv' /\ MP!IInv'
  BY NextTInv, MemoryInvariantKept
<1>2. CASE FileSystem
  <2>1. NoGarbage'
    BY <1>2 DEF FileSystem, NoGarbage
  <2> QED
    BY <1>1, <1>2, <2>1, FileSystemStep, InvariantOfOne
<1>3. CASE \E th \in Threads : Thread(th)
  BY <1>1, <1>3, ThreadStep, InvariantOfOne
<1>4. CASE Restart
  <2>1. Mem!Restart /\ pc'[d] = Idle /\ Quiet' /\ NoGarbage' /\ UNCHANGED <<fsVars, clock>>
    BY <1>4 DEF Restart, Quiet, NoGarbage
  <2>2. Alone(d)' /\ Agree'
    BY <2>1, AtIdle, EmptyContents, AgreeKept
  <2> QED
    BY <1>1, <2>1, <2>2, InvariantOfOne
<1>5. CASE UNCHANGED vars
  <2>1. UNCHANGED <<memVars, fsVars, clock, pc, requests, replies, answer>>
    BY <1>5 DEF vars
  <2>2. Alone(d)'
    BY <2>1 DEF Alone, InStep, SelectInStep, CreateInStep, DropInStep, DescribeInStep, JournalInStep, Saved,
       Quiet, Asked, Answered, Found, JournalIsTheBuffer, Datum, memVars, fsVars, Mem!Used, Mem!Dirty
  <2>3. NoGarbage'
    BY <2>1 DEF NoGarbage
  <2> QED
    BY <1>1, <2>1, <2>2, <2>3, AgreeSame, InvariantOfOne
<1> QED
  BY <1>2, <1>3, <1>4, <1>5 DEF Next

\* A Memoria whose console is not used keeps memory, socket and file system in agreement at every
\* step of every exchange.
THEOREM ApiInvariant == ASSUME NEW d, Threads = {d} PROVE Spec => []IInv
<1>1. Init => IInv
  BY InitIInv
<1>2. IInv /\ [Next]_vars => IInv'
  BY NextPreserves
<1> QED
  BY <1>1, <1>2, PTL DEF Spec

-----------------------------------------------------------------------------
(***************************************************************************)
(* What follows, for one thread.                                           *)
(***************************************************************************)
\* Clean pages hold records that the file system accepted, and modified ones are newer than all.
THEOREM ApiPagesAgreeWithRecords == ASSUME NEW d, Threads = {d} PROVE Spec => []PagesAgreeWithRecords
<1>1. Spec => []IInv
  BY ApiInvariant
<1>2. IInv => PagesAgreeWithRecords
  BY DEF IInv
<1> QED
  BY <1>1, <1>2, PTL

\* One message is on the socket while the thread waits and none while it does not, and
\* API_Select never returns the caller's buffer as it found it.
THEOREM ApiConnectionStaysInStep == ASSUME NEW d, Threads = {d} PROVE Spec => []ConnectionStaysInStep
<1>1. Spec => []IInv
  BY ApiInvariant
<1>2. ASSUME IInv PROVE ConnectionStaysInStep
  <2> DEFINE Waits   == {"select", "create", "drop", "describe", "journaling"}
             Waiting == {th \in Threads : pc[th].at \in Waits}
  <2>1. TInv /\ Alone(d) /\ NoGarbage /\ d \in Threads
    BY <1>2, InvariantOfOne
  <2>2. Cardinality({}) = 0 /\ Cardinality({d}) = 1
    BY FS_EmptySet, FS_Singleton
  <2>3. CASE pc[d].at \in Waits
    <3>1. (\E r : Asked(r)) \/ (\E a : Answered(a))
      BY <2>1, <2>3 DEF Alone, InStep, SelectInStep, CreateInStep, DropInStep, DescribeInStep, JournalInStep
    <3>2. Len(requests) + Len(replies) = 1
      <4>1. \A r : Len(<<r>>) = 1 /\ Len(<<>>) = 0
        OBVIOUS
      <4>2. ASSUME NEW r, Asked(r) PROVE Len(requests) + Len(replies) = 1
        <5>1. requests = <<r>> /\ replies = <<>>
          BY <4>2 DEF Asked
        <5>2. Len(requests) = 1 /\ Len(replies) = 0
          BY <4>1, <5>1
        <5> QED
          BY <5>2
      <4>3. ASSUME NEW a, Answered(a) PROVE Len(requests) + Len(replies) = 1
        <5>1. requests = <<>> /\ replies = <<a>>
          BY <4>3 DEF Answered
        <5>2. Len(requests) = 0 /\ Len(replies) = 1
          BY <4>1, <5>1
        <5> QED
          BY <5>2
      <4> QED
        BY <3>1, <4>2, <4>3
    <3>3. Waiting = {d}
      BY <2>3
    <3> QED
      BY <2>1, <2>2, <3>2, <3>3 DEF ConnectionStaysInStep, NoGarbage
  <2>4. CASE pc[d].at \notin Waits
    <3>1. Quiet
      BY <2>1, <2>4 DEF Alone, InStep, TInv, TypeOK
    <3>2. Len(requests) + Len(replies) = 0
      BY <3>1 DEF Quiet
    <3>3. Waiting = {}
      BY <2>4
    <3> QED
      BY <2>1, <2>2, <3>2, <3>3 DEF ConnectionStaysInStep, NoGarbage
  <2> QED
    BY <2>3, <2>4
<1> QED
  BY <1>1, <1>2, PTL

\* The operations with their exchanges change the memory as those of MainMemory do in one
\* step: in particular the journal, whose requests and answers are many steps.
THEOREM ApiImplementsMainMemory == ASSUME NEW d, Threads = {d} PROVE Spec => ImplementsMainMemory
<1>1. Spec => []IInv
  BY ApiInvariant
<1>2. Init => Mem!Init
  BY DEF Init
<1>3. IInv /\ [Next]_vars => [Mem!Next]_Mem!vars
  <2>1. UNCHANGED memVars => UNCHANGED Mem!vars
    BY DEF memVars, Mem!vars
  <2> QED
    BY <2>1, MemoryStep
<1> QED
  BY <1>1, <1>2, <1>3, PTL DEF Spec, ImplementsMainMemory, Mem!Spec

-----------------------------------------------------------------------------
(***************************************************************************)
(* The store that memory and file system are together.                     *)
(***************************************************************************)
\* The refinement mapping.
Pending  == [s \in Slots |-> IF Mem!Dirty(s) THEN Mem!DirtyFrames[s] ELSE NoWrite]
Dropping == {pc[th].table : th \in {x \in Threads : pc[x].at = "drop"}}

\* What is pending is the datum of the modified page.
LEMMA PendingFacts ==
  ASSUME TInv
  PROVE  \A s \in Slots : /\ Pending[s] = IF Mem!Dirty(s) THEN Datum(s) ELSE NoWrite
                          /\ Mem!Dirty(s) => Pending[s] # NoWrite /\ Datum(s) # Mem!NoEntry
<1>1. \A s \in Slots : Mem!Dirty(s) => Datum(s) \in Mem!FrameData
  BY AgreeTypes DEF Mem!Dirty
<1>2. \A s \in Slots : Pending[s] = IF Mem!Dirty(s) THEN Datum(s) ELSE NoWrite
  BY SameConstants DEF Pending, Mem!DirtyFrames, Datum
<1> QED
  BY <1>1, <1>2

\* The same, after a step.
LEMMA PendingNext ==
  \A s \in Slots : Pending'[s] = IF Mem!Dirty(s)' THEN Datum(s)' ELSE NoWrite
BY SameConstants DEF Pending, Mem!DirtyFrames, Datum

\* What makes no page modified, changes no modified one and evicts none cannot be seen.
LEMMA PendingSame ==
  ASSUME TInv, \A s \in Slots : Kept(s) \/ (~Mem!Dirty(s) /\ ~Mem!Dirty(s)')
  PROVE  Pending' = Pending
<1>1. \A s \in Slots : Pending'[s] = Pending[s]
  <2> SUFFICES ASSUME NEW s \in Slots PROVE Pending'[s] = Pending[s]
    OBVIOUS
  <2>1. CASE Kept(s)
    BY <2>1, KeptFacts, PendingFacts, PendingNext DEF Mem!Dirty
  <2>2. CASE ~Mem!Dirty(s) /\ ~Mem!Dirty(s)'
    BY <2>2, PendingFacts, PendingNext
  <2> QED
    BY <2>1, <2>2
<1> QED
  BY <1>1 DEF Pending

\* Without pages nothing is pending.
LEMMA PendingEmpties ==
  ASSUME \A s \in Slots : ~Mem!Used(s)' PROVE Pending' = [s \in Slots |-> NoWrite]
BY DEF Pending, Mem!Dirty

\* With one thread there is one table at most that is being dropped.
LEMMA DroppingIs ==
  ASSUME NEW d, Threads = {d}
  PROVE  /\ Dropping = IF pc[d].at = "drop" THEN {pc[d].table} ELSE {}
         /\ Dropping' = IF pc'[d].at = "drop" THEN {pc'[d].table} ELSE {}
BY DEF Dropping

\* An accepted INSERT is a write,
LEMMA StoreWrite ==
  \A s \in Slots, w \in Mem!FrameData :
      w.key = s[2] /\ Pending' = [Pending EXCEPT ![s] = w]
        /\ UNCHANGED <<fsTables, fsData, Dropping, answer>> => Store!Write(s)
BY DEF Store!Write, Pending, Dropping

\* API_Select a read,
LEMMA StoreRead ==
  ASSUME NEW s \in Slots, NEW v, answer' = [slot |-> s, value |-> v],
         \/ Pending[s] # NoWrite /\ v = Pending[s].value
         \/ Pending[s] = NoWrite /\ s[1] \notin fsTables /\ v = TableNotFound
         \/ Pending[s] = NoWrite /\ s[1] \in fsTables /\ v = KeyNotFound
         \/ Pending[s] = NoWrite /\ s[1] \in fsTables /\ \E w \in fsData[s] : v = w.value,
         UNCHANGED <<fsTables, fsData, Pending, Dropping>>
  PROVE  Store!Read(s)
<1>1. v \in Store!Readable(s)
  BY DEF Store!Readable, Pending
<1> QED
  BY <1>1 DEF Store!Read, Pending, Dropping

\* the journal's INSERT saves a write,
LEMMA StoreSave ==
  \A s \in Slots :
      Pending[s] # NoWrite /\ fsData' = [fsData EXCEPT ![s] = fsData[s] \cup {Pending[s]}]
        /\ UNCHANGED <<fsTables, Pending, Dropping, answer>> => Store!Save(s)
BY DEF Store!Save, Pending, Dropping

\* CREATE adds a table,
LEMMA StoreAdd ==
  \A t \in Tables :
      fsTables' = fsTables \cup {t} /\ UNCHANGED <<fsData, Pending, Dropping, answer>> => Store!Add(t)
BY DEF Store!Add, Pending, Dropping

\* DROP discards what is pending of it,
LEMMA StoreDiscard ==
  \A t \in Tables :
      t \notin Dropping /\ Dropping' = Dropping \cup {t}
        /\ Pending' = [s \in Slots |-> IF s[1] = t THEN NoWrite ELSE Pending[s]]
        /\ UNCHANGED <<fsTables, fsData, answer>> => Store!Discard(t)
BY DEF Store!Discard, Store!Slots, Slots, Pending, Dropping

\* removes it, with its records or without,
LEMMA StoreRemove ==
  \A t \in Tables :
      t \in Dropping /\ fsTables' = fsTables \ {t}
        /\ (fsData' = [s \in Slots |-> IF s[1] = t THEN {} ELSE fsData[s]] \/ fsData' = fsData)
        /\ UNCHANGED <<Pending, Dropping, answer>> => Store!Remove(t)
BY DEF Store!Remove, Store!Slots, Slots, Pending, Dropping

\* and is done;
LEMMA StoreDropped ==
  \A t \in Tables :
      t \in Dropping /\ t \notin fsTables /\ Dropping' = Dropping \ {t}
        /\ UNCHANGED <<fsTables, fsData, Pending, answer>> => Store!Dropped(t)
BY DEF Store!Dropped, Pending, Dropping

\* the end of the journal forgets what was saved,
LEMMA StoreForget ==
  (\A s \in Slots : Pending[s] # NoWrite /\ s[1] \in fsTables => Pending[s] \in fsData[s])
      /\ Pending' = [s \in Slots |-> NoWrite] /\ UNCHANGED <<fsTables, fsData, Dropping, answer>> => Store!Forget
BY DEF Store!Forget, Store!Slots, Store!Empty, Slots, Pending, Dropping

\* and a new process what was not.
LEMMA StoreCrash ==
  Pending' = [s \in Slots |-> NoWrite] /\ Dropping' = {} /\ answer' = NoWrite
      /\ UNCHANGED <<fsTables, fsData>> => Store!Crash
BY DEF Store!Crash, Store!Slots, Store!Empty, Slots, Pending, Dropping

\* Nothing else is seen.
LEMMA StoreStutters ==
  UNCHANGED <<fsTables, fsData, Pending, Dropping, answer>> => UNCHANGED Store!vars
BY DEF Store!vars, Pending, Dropping

\* One step of the only thread, its invariant known.
One(d) == Threads = {d} /\ TInv /\ MP!IInv /\ Alone(d) /\ Agree

\* A step that uses neither file system nor modified pages, and does not enter or leave DROP.
LEMMA StoreUnmoved ==
  ASSUME NEW d, One(d), UNCHANGED <<fsVars, answer>>, pc[d].at # "drop", pc'[d].at # "drop",
         \A s \in Slots : Kept(s) \/ (~Mem!Dirty(s) /\ ~Mem!Dirty(s)')
  PROVE  UNCHANGED Store!vars
<1>1. Dropping' = Dropping
  BY DroppingIs DEF One
<1>2. Pending' = Pending
  BY PendingSame DEF One
<1> QED
  BY <1>1, <1>2, StoreStutters DEF fsVars

\* A hit returns what is pending, or what the file system may answer.
LEMMA HitStore ==
  ASSUME NEW d, One(d), NEW t \in Tables, NEW k \in Keys, API_Select_Hit(d, t, k)
  PROVE  Store!Next
<1>0. <<t, k>> \in Slots /\ <<t, k>>[1] = t
  BY DEF Slots
<1> PICK s \in Slots : s = <<t, k>> /\ s[1] = t
  BY <1>0
<1>1. /\ pc[d] = Idle /\ Mem!Memory_GetFrame(t, k)
      /\ answer' = [slot |-> s, value |-> Datum(s).value]
      /\ UNCHANGED <<fsVars, clock, pc, requests, replies, accepted>>
  BY DEF API_Select_Hit, Datum
<1>2. Mem!Used(s) /\ Datum(s) \in Mem!FrameData
  BY <1>1, AgreeTypes DEF Mem!Memory_GetFrame, One
<1>3. Pending' = Pending /\ Dropping' = Dropping
  BY <1>1, GetFrameContents, PendingSame DEF One, Dropping
<1>4. \/ Pending[s] # NoWrite /\ Datum(s).value = Pending[s].value
      \/ Pending[s] = NoWrite /\ s[1] \in fsTables /\ \E w \in fsData[s] : Datum(s).value = w.value
  <2>1. AgreeAt(s) /\ (Mem!Dirty(s) \/ Mem!Clean(s))
    BY <1>2, AgreePointwise DEF One, Mem!Dirty, Mem!Clean
  <2>2. Pending[s] = (IF Mem!Dirty(s) THEN Datum(s) ELSE NoWrite) /\ Datum(s) # NoWrite
    BY <1>2, PendingFacts DEF One
  <2> QED
    BY <2>1, <2>2 DEF AgreeAt
<1>5. Store!Read(s)
  BY <1>1, <1>3, <1>4, StoreRead DEF fsVars
<1> QED
  BY <1>5 DEF Store!Next, Store!Slots, Slots

\* So does a miss, when its answer comes.
LEMMA AnswerStore ==
  ASSUME NEW d, One(d), API_Select_Answer(d) PROVE Store!Next
<1> PICK t, k : t = pc[d].table /\ k = pc[d].key
  OBVIOUS
<1> TInv /\ MP!IInv /\ Agree /\ Alone(d) /\ d \in Threads
  BY DEF One
<1>1. pc[d].at = "select" /\ Goto(d, Idle) /\ UNCHANGED <<fsVars, clock, requests, accepted>>
  BY DEF API_Select_Answer
<1>2. PICK reply \in ReplySet : Receive(reply) /\
        \/ reply.op # "SELECT"
        \/ /\ reply.op = "SELECT" /\ reply.found.key \in {KeyNotFound, TableNotFound}
           /\ answer' = [slot |-> <<t, k>>, value |-> reply.found.key]
           /\ UNCHANGED memVars
        \/ /\ reply.op = "SELECT" /\ reply.found.key \in Keys
           /\ answer' = [slot |-> <<t, k>>, value |-> reply.found.value]
           /\ Mem!Memory_InsertNewValue(t, reply.found.timestamp, k, reply.found.value)
  BY DEF API_Select_Answer, memVars
<1>3. /\ reply.op = "SELECT" /\ reply.found \in Found(t, k)
      /\ ~Mem!Used(<<t, k>>) /\ t \in Tables /\ k \in Keys /\ <<t, k>> \in Slots
      /\ reply.found.key \in Keys =>
           /\ t \in fsTables /\ reply.found \in fsData[<<t, k>>]
           /\ reply.found \in Mem!FrameData /\ reply.found.key = k
           /\ reply.found.timestamp \in Timestamps /\ reply.found.value \in Values
  BY <1>1, <1>2, SelectAnswerFacts DEF Alone, Agree
<1> PICK s \in Slots : s = <<t, k>> /\ s[1] = t
  BY <1>3
<1>4. Dropping' = Dropping
  <2>1. pc'[d].at = "idle"
    BY <1>1, Goes DEF Idle
  <2> QED
    BY <1>1, <2>1, DroppingIs DEF One
<1>5. Pending[s] = NoWrite
  BY <1>3, PendingFacts DEF Mem!Dirty
<1>6. CASE /\ reply.found.key \in {KeyNotFound, TableNotFound}
           /\ answer' = [slot |-> <<t, k>>, value |-> reply.found.key]
           /\ UNCHANGED memVars
  <2>1. Pending' = Pending
    BY <1>6, PendingSame, SameContents DEF memVars
  <2>2. ASSUME t \notin fsTables PROVE Store!Read(s)
    <3>1. reply.found.key = TableNotFound
      BY <1>3, <2>2 DEF Found
    <3> QED
      BY <1>1, <1>4, <1>5, <1>6, <2>1, <2>2, <3>1, StoreRead DEF fsVars
  <2>3. ASSUME t \in fsTables PROVE Store!Read(s)
    <3>1. reply.found.key = KeyNotFound
      <4>1. reply.found = [key |-> KeyNotFound] \/ reply.found \in fsData[s]
        BY <1>3, <2>3 DEF Found
      <4>2. \A w \in fsData[s] : w.key \in Keys
        BY AgreeTypes DEF Mem!FrameData
      <4> QED
        BY <1>6, <4>1, <4>2
    <3> QED
      BY <1>1, <1>4, <1>5, <1>6, <2>1, <2>3, <3>1, StoreRead DEF fsVars
  <2>5. Store!Read(s)
    BY <2>2, <2>3
  <2> QED
    BY <2>5 DEF Store!Next, Store!Slots, Slots
<1>7. CASE /\ reply.found.key \in Keys
           /\ answer' = [slot |-> <<t, k>>, value |-> reply.found.value]
           /\ Mem!Memory_InsertNewValue(t, reply.found.timestamp, k, reply.found.value)
  <2>1. \A u \in Slots : Kept(u) \/ (~Mem!Dirty(u) /\ ~Mem!Dirty(u)')
    <3>1. CASE Mem!RefuseFrame
      BY <3>1, SameContents DEF Mem!RefuseFrame
    <3>2. CASE Mem!PageInNewFrame(t, reply.found.timestamp, k, reply.found.value, FALSE)
      <4> PICK ts \in Timestamps, v \in Values : ts = reply.found.timestamp /\ v = reply.found.value
        BY <1>3, <1>7
      <4> DEFINE datum == [key |-> k, timestamp |-> ts, value |-> v]
      <4>1. /\ Given(s, datum, FALSE)
            /\ \A u \in Slots : u # s => Kept(u) \/ (Mem!Clean(u) /\ ~Mem!Used(u)')
        BY <1>3, <3>2, NewPageContents
      <4> HIDE DEF datum
      <4>2. ~Mem!Dirty(s) /\ ~Mem!Dirty(s)'
        BY <1>3, <4>1, GivenFacts DEF Mem!Dirty
      <4> QED
        BY <4>1, <4>2 DEF Mem!Dirty, Mem!Clean
    <3> QED
      BY <1>7, <3>1, <3>2 DEF Mem!Memory_InsertNewValue
  <2>2. Pending' = Pending
    BY <2>1, PendingSame
  <2>3. Store!Read(s)
    BY <1>1, <1>3, <1>4, <1>5, <1>7, <2>2, StoreRead DEF fsVars
  <2> QED
    BY <2>3 DEF Store!Next, Store!Slots, Slots
<1> QED
  BY <1>2, <1>3, <1>6, <1>7

\* An accepted INSERT is a write, whatever made room for it; a refused one cannot be seen.
LEMMA InsertStore ==
  ASSUME NEW d, One(d), NEW t \in Tables, NEW k \in Keys, NEW v \in Values, API_Insert(d, t, k, v)
  PROVE  [Store!Next]_Store!vars
<1> TInv /\ MP!IInv /\ d \in Threads
  BY DEF One
<1>0. <<t, k>> \in Slots /\ <<t, k>>[2] = k
  BY DEF Slots
<1> PICK s \in Slots : s = <<t, k>> /\ s[2] = k
  BY <1>0
<1>1. /\ pc[d] = Idle /\ UNCHANGED <<fsVars, pc, requests, replies, answer>>
      /\ \/ Mem!Upsert_Present(t, clock', k, v) \/ Mem!Upsert_Absent(t, clock', k, v)
         \/ Mem!Upsert_Refused(t, k)
  BY DEF API_Insert
<1>2. PICK ts \in Timestamps : ts = clock'
  BY DEF API_Insert, TInv, TypeOK, Timestamps
<1>3. CASE Mem!Upsert_Present(t, clock', k, v) \/ Mem!Upsert_Absent(t, clock', k, v)
  <2> DEFINE datum == [key |-> k, timestamp |-> ts, value |-> v]
  <2>1. /\ Given(s, datum, TRUE)
        /\ \A u \in Slots : u # s => Kept(u) \/ (Mem!Clean(u) /\ ~Mem!Used(u)')
    BY <1>2, <1>3, UpsertContents
  <2>2. datum \in Mem!FrameData /\ datum.key = s[2]
    BY DEF Mem!FrameData
  <2> HIDE DEF datum
  <2>3. Pending'[s] = datum
    BY <2>1, GivenFacts, PendingNext
  <2>4. \A u \in Slots : u # s => Pending'[u] = Pending[u]
    <3> SUFFICES ASSUME NEW u \in Slots, u # s PROVE Pending'[u] = Pending[u]
      OBVIOUS
    <3>1. CASE Kept(u)
      BY <3>1, KeptFacts, PendingFacts, PendingNext DEF Mem!Dirty
    <3>2. CASE Mem!Clean(u) /\ ~Mem!Used(u)'
      BY <3>2, PendingFacts, PendingNext DEF Mem!Dirty, Mem!Clean
    <3> QED
      BY <2>1, <3>1, <3>2
  <2>5. Pending' = [Pending EXCEPT ![s] = datum]
    BY <2>3, <2>4 DEF Pending
  <2>6. Store!Write(s)
    BY <1>1, <2>2, <2>5, StoreWrite DEF fsVars, Dropping
  <2> QED
    BY <2>6 DEF Store!Next, Store!Slots, Slots
<1>4. CASE Mem!Upsert_Refused(t, k)
  <2>1. \A u \in Slots : Kept(u)
    BY <1>4, SameContents DEF Mem!Upsert_Refused, Mem!RefuseFrame
  <2> QED
    BY <1>1, <2>1, StoreUnmoved DEF Idle
<1> QED
  BY <1>1, <1>3, <1>4

\* DROP in its three steps, of which the second is the file system's.
LEMMA DropStore ==
  ASSUME NEW d, One(d), NEW t \in Tables, API_Drop(d, t) PROVE Store!Next
<1> TInv /\ d \in Threads
  BY DEF One
<1>1. /\ pc[d] = Idle /\ Mem!Memory_EvictPages(t) /\ Goto(d, [at |-> "drop", table |-> t])
      /\ UNCHANGED <<fsVars, answer>>
  BY DEF API_Drop
<1>2. Dropping = {} /\ Dropping' = {t}
  <2>1. pc'[d].at = "drop" /\ pc'[d].table = t /\ pc[d].at = "idle"
    BY <1>1, Goes DEF Idle
  <2> QED
    BY <2>1, DroppingIs DEF One
<1>3. \A s \in Slots : IF s[1] = t THEN ~Mem!Used(s)' ELSE Kept(s)
  BY <1>1, EvictPagesContents
<1>4. \A s \in Slots : Pending'[s] = IF s[1] = t THEN NoWrite ELSE Pending[s]
  <2> SUFFICES ASSUME NEW s \in Slots PROVE Pending'[s] = IF s[1] = t THEN NoWrite ELSE Pending[s]
    OBVIOUS
  <2>1. CASE s[1] = t
    BY <1>3, <2>1, PendingNext DEF Mem!Dirty
  <2>2. CASE s[1] # t
    BY <1>3, <2>2, KeptFacts, PendingFacts, PendingNext DEF Mem!Dirty
  <2> QED
    BY <2>1, <2>2
<1>5. Pending' = [s \in Slots |-> IF s[1] = t THEN NoWrite ELSE Pending[s]]
  BY <1>4 DEF Pending
<1>6. Store!Discard(t)
  BY <1>1, <1>2, <1>5, StoreDiscard DEF fsVars
<1> QED
  BY <1>6 DEF Store!Next

\* The end of a DROP can be seen, those of CREATE and DESCRIBE cannot.
LEMMA AnsweredStore ==
  ASSUME NEW d, One(d), API_CreateDrop_Answer(d) \/ API_Describe_Answer(d)
  PROVE  [Store!Next]_Store!vars
<1> TInv /\ Alone(d) /\ d \in Threads
  BY DEF One
<1>1. PICK reply : Receive(reply)
  BY DEF API_CreateDrop_Answer, API_Describe_Answer
<1>2. /\ pc[d].at \in {"create", "drop", "describe"} /\ Goto(d, Idle)
      /\ UNCHANGED <<memVars, fsVars, answer>>
  BY DEF API_CreateDrop_Answer, API_Describe_Answer
<1>3. pc'[d].at = "idle"
  BY <1>2, Goes DEF Idle
<1>4. \A s \in Slots : Kept(s)
  BY <1>2, SameContents DEF memVars
<1>5. CASE pc[d].at # "drop"
  BY <1>2, <1>3, <1>4, <1>5, StoreUnmoved
<1>6. CASE pc[d].at = "drop"
  <2> PICK t : t = pc[d].table
    OBVIOUS
  <2>1. t \in Tables /\ t \notin fsTables
    BY <1>1, <1>6, OneAtATime, StatesFacts DEF Alone, InStep, DropInStep, TInv
  <2>2. Dropping = {t} /\ Dropping' = {}
    BY <1>3, <1>6, DroppingIs DEF One
  <2>3. Pending' = Pending
    BY <1>4, PendingSame
  <2>4. Store!Dropped(t)
    BY <1>2, <2>1, <2>2, <2>3, StoreDropped DEF fsVars
  <2> QED
    BY <2>1, <2>4 DEF Store!Next
<1> QED
  BY <1>5, <1>6

\* The memory forgets what was modified when each write with a table is in the file system.
LEMMA CleanStore ==
  ASSUME NEW d, One(d), Journal_Clean(d) PROVE Store!Next
<1> TInv /\ Alone(d) /\ d \in Threads
  BY DEF One
<1>1. /\ pc[d].at = "journal" /\ pc[d].left = {} /\ Mem!CleanMemory /\ Goto(d, Idle)
      /\ UNCHANGED <<fsVars, answer>>
  BY DEF Journal_Clean
<1>2. Dropping' = Dropping
  <2>1. pc'[d].at = "idle"
    BY <1>1, Goes DEF Idle
  <2> QED
    BY <1>1, <2>1, DroppingIs DEF One
<1>3. Pending' = [s \in Slots |-> NoWrite]
  BY <1>1, EmptyContents, PendingEmpties
<1>4. pc[d].sent = Mem!DirtyFrames /\ \A s \in Slots : Saved(s, pc[d].sent)
  BY <1>1, JournalHandsOverTheBuffer DEF Alone, InStep
<1>5. ASSUME NEW s \in Slots, Pending[s] # NoWrite, s[1] \in fsTables PROVE Pending[s] \in fsData[s]
  <2>1. Mem!Dirty(s) /\ Pending[s] = Datum(s) /\ Datum(s) # Mem!NoEntry
    BY <1>5, PendingFacts
  <2>2. Mem!DirtyFrames[s] = Datum(s)
    BY <2>1, SameConstants DEF Mem!DirtyFrames, Datum
  <2> QED
    BY <1>4, <1>5, <2>1, <2>2 DEF Saved
<1>6. Store!Forget
  BY <1>1, <1>2, <1>3, <1>5, StoreForget DEF fsVars
<1> QED
  BY <1>6 DEF Store!Next

\* The requests that are sent and the journal's steps before its end cannot be seen.
LEMMA SentStore ==
  ASSUME NEW d, One(d),
         \/ \E t \in Tables, k \in Keys : API_Select_Miss(d, t, k)
         \/ \E t \in Tables : API_Create(d, t)
         \/ \E asked \in SUBSET Tables : API_Describe(d, asked)
         \/ API_Journal(d) \/ Journal_Register(d) \/ Journal_Register_Answer(d)
  PROVE  UNCHANGED Store!vars
<1>1. UNCHANGED <<memVars, fsVars, answer>>
  BY DEF API_Select_Miss, API_Create, API_Describe, API_Journal, Journal_Register, Journal_Register_Answer
<1>2. pc[d].at # "drop" /\ \E p : Goto(d, p) /\ p.at # "drop"
  <2>1. ASSUME Journal_Register_Answer(d) PROVE pc[d].at # "drop" /\ \E p : Goto(d, p) /\ p.at # "drop"
    <3>1. pc[d].at = "journaling" /\ Goto(d, [pc[d] EXCEPT !.at = "journal"])
      BY <2>1 DEF Journal_Register_Answer
    <3>2. pc[d] \in [at : {"journal", "journaling"}, left : SUBSET (Tables \X Mem!Frames), sent : Sent]
      BY <3>1, StatesFacts DEF One, TInv
    <3>3. [pc[d] EXCEPT !.at = "journal"].at = "journal"
      BY <3>2
    <3> QED
      BY <3>1, <3>3
  <2>2. ASSUME NEW t \in Tables, NEW k \in Keys, API_Select_Miss(d, t, k)
        PROVE  pc[d].at # "drop" /\ \E p : Goto(d, p) /\ p.at # "drop"
    <3>1. pc[d].at = "idle" /\ Goto(d, [at |-> "select", table |-> t, key |-> k])
      BY <2>2 DEF API_Select_Miss, Idle
    <3>2. [at |-> "select", table |-> t, key |-> k].at = "select"
      OBVIOUS
    <3> QED
      BY <3>1, <3>2
  <2>3. ASSUME \/ \E t \in Tables : API_Create(d, t)
               \/ \E asked \in SUBSET Tables : API_Describe(d, asked)
        PROVE  pc[d].at # "drop" /\ \E p : Goto(d, p) /\ p.at # "drop"
    <3>1. pc[d] = Idle /\ (Goto(d, [at |-> "create"]) \/ Goto(d, [at |-> "describe"]))
      BY <2>3, Zenon DEF API_Create, API_Describe
    <3>2. Idle.at = "idle" /\ [at |-> "create"].at = "create" /\ [at |-> "describe"].at = "describe"
      BY DEF Idle
    <3> QED
      BY <3>1, <3>2
  <2>4. ASSUME API_Journal(d) \/ Journal_Register(d)
        PROVE  pc[d].at # "drop" /\ \E p : Goto(d, p) /\ p.at # "drop"
    <3>1. pc[d].at \in {"idle", "journal"}
      BY <2>4 DEF API_Journal, Journal_Register, Idle
    <3>2. \E at \in {"journal", "journaling"} : \E left, sent :
            Goto(d, [at |-> at, left |-> left, sent |-> sent])
      BY <2>4 DEF API_Journal, Journal_Register
    <3>3. \A at, left, sent : [at |-> at, left |-> left, sent |-> sent].at = at
      OBVIOUS
    <3> QED
      BY <3>1, <3>2, <3>3
  <2> QED
    BY <2>1, <2>2, <2>3, <2>4
<1>3. pc'[d].at # "drop"
  BY <1>2, Goes DEF One
<1> QED
  BY <1>1, <1>2, <1>3, SameContents, StoreUnmoved DEF memVars

\* The file system saves, adds or removes.
LEMMA FileSystemStore ==
  ASSUME NEW d, One(d), FileSystem PROVE [Store!Next]_Store!vars
<1> TInv /\ MP!IInv /\ Alone(d) /\ Agree /\ d \in Threads
  BY DEF One
<1> PICK p \in States : p = pc[d]
  BY DEF TInv
<1>1. UNCHANGED <<memVars, pc, answer>>
  BY DEF FileSystem
<1>2. Pending' = Pending /\ Dropping' = Dropping
  BY <1>1, PendingSame, SameContents DEF memVars, Dropping
<1>3. p.at \in {"select", "create", "drop", "describe", "journaling"}
  BY OneAtATime, StatesAre DEF Alone, InStep
<1>4. CASE p.at = "select"
  <2> DEFINE r == [op |-> "SELECT", table |-> p.table, key |-> p.key]
  <2>1. Asked(r) /\ r.op = "SELECT"
    BY <1>4, OneAtATime DEF Alone, InStep, SelectInStep
  <2> HIDE DEF r
  <2>2. UNCHANGED fsVars
    BY <2>1, FileSystemServes
  <2> QED
    BY <1>1, <1>2, <2>2, StoreStutters DEF fsVars
<1>5. CASE p.at = "describe"
  <2>1. PICK asked \in SUBSET Tables : Asked([op |-> "DESCRIBE", asked |-> asked])
    BY <1>5, OneAtATime DEF Alone, InStep, DescribeInStep
  <2> DEFINE r == [op |-> "DESCRIBE", asked |-> asked]
  <2>2. Asked(r) /\ r.op = "DESCRIBE"
    BY <2>1
  <2> HIDE DEF r
  <2>3. UNCHANGED fsVars
    BY <2>2, FileSystemServes
  <2> QED
    BY <1>1, <1>2, <2>3, StoreStutters DEF fsVars
<1>6. CASE p.at = "create"
  <2>1. PICK t \in Tables : Asked([op |-> "CREATE", table |-> t])
    BY <1>6, OneAtATime DEF Alone, InStep, CreateInStep
  <2> DEFINE r == [op |-> "CREATE", table |-> t]
  <2>2. Asked(r) /\ r.op = "CREATE" /\ r.table = t
    BY <2>1
  <2> HIDE DEF r
  <2>3. fsTables' \in {fsTables, fsTables \cup {t}} /\ fsData' = fsData
    BY <2>2, FileSystemServes
  <2>4. CASE fsTables' = fsTables \cup {t}
    <3>1. Store!Add(t)
      BY <1>1, <1>2, <2>3, <2>4, StoreAdd
    <3> QED
      BY <3>1 DEF Store!Next
  <2>5. CASE fsTables' = fsTables
    BY <1>1, <1>2, <2>3, <2>5, StoreStutters
  <2> QED
    BY <2>3, <2>4, <2>5
<1>7. CASE p.at = "drop"
  <2> PICK t : t = p.table
    OBVIOUS
  <2> DEFINE r == [op |-> "DROP", table |-> t]
  <2>1. Asked(r) /\ r.op = "DROP" /\ r.table = t
    BY <1>7, OneAtATime DEF Alone, InStep, DropInStep
  <2> HIDE DEF r
  <2>2. /\ fsTables' = fsTables \ {t}
        /\ fsData' = [s \in Slots |-> IF s[1] = t THEN {} ELSE fsData[s]] \/ fsData' = fsData
    BY <2>1, FileSystemServes
  <2>3. t \in Tables /\ t \in Dropping
    BY <1>7, StatesFacts, DroppingIs DEF One
  <2>4. Store!Remove(t)
    BY <1>1, <1>2, <2>2, <2>3, StoreRemove
  <2> QED
    BY <2>3, <2>4 DEF Store!Next
<1>8. CASE p.at = "journaling"
  <2>0. p.sent \in Sent
    BY <1>8, StatesFacts
  <2>1. PICK s \in Slots :
          p.sent[s] # Mem!NoEntry /\ Asked([op |-> "INSERT", table |-> s[1], datum |-> p.sent[s]])
    BY <1>8, OneAtATime DEF Alone, InStep, JournalInStep
  <2> PICK datum : datum = p.sent[s]
    OBVIOUS
  <2>2. Mem!Dirty(s) /\ datum = Datum(s)
    BY <1>8, <2>1 DEF Alone, JournalIsTheBuffer
  <2>3. datum.key = s[2] /\ s = <<s[1], s[2]>>
    BY <2>2, SameConstants, SameState DEF MP!IInv, MP!FrameHoldsPageKey, Datum, Mem!Dirty, Slots
  <2>4. datum = Pending[s] /\ Pending[s] # NoWrite
    BY <2>2, PendingFacts
  <2> DEFINE r == [op |-> "INSERT", table |-> s[1], datum |-> datum]
  <2>5. Asked(r) /\ r.op = "INSERT" /\ r.table = s[1] /\ r.datum = datum
    BY <2>1
  <2> HIDE DEF r
  <2>6. Record(s[1], datum) /\ UNCHANGED fsTables
    BY <2>5, FileSystemServes
  <2>7. \/ fsData' = [fsData EXCEPT ![s] = fsData[s] \cup {datum}]
        \/ fsData' = fsData
    BY <2>3, <2>6 DEF Record
  <2>8. CASE fsData' = [fsData EXCEPT ![s] = fsData[s] \cup {datum}]
    <3>1. Store!Save(s)
      BY <1>1, <1>2, <2>4, <2>6, <2>8, StoreSave
    <3> QED
      BY <3>1 DEF Store!Next, Store!Slots, Slots
  <2>9. CASE fsData' = fsData
    BY <1>1, <1>2, <2>6, <2>9, StoreStutters
  <2> QED
    BY <2>7, <2>8, <2>9
<1> QED
  BY <1>3, <1>4, <1>5, <1>6, <1>7, <1>8

\* Each step is one of the store, or cannot be seen.
LEMMA NextStore ==
  ASSUME NEW d, Threads = {d}, IInv, [Next]_vars PROVE [Store!Next]_Store!vars
<1>0. One(d) /\ d \in Threads
  BY InvariantOfOne DEF One
<1>1. CASE \E th \in Threads : Thread(th)
  <2>1. Thread(d)
    BY <1>1
  <2>2. ASSUME NEW t \in Tables, NEW k \in Keys,
               API_Select_Hit(d, t, k) \/ API_Select_Miss(d, t, k) \/ \E v \in Values : API_Insert(d, t, k, v)
        PROVE  [Store!Next]_Store!vars
    BY <1>0, <2>2, HitStore, SentStore, InsertStore
  <2>3. ASSUME NEW t \in Tables, API_Create(d, t) \/ API_Drop(d, t) PROVE [Store!Next]_Store!vars
    BY <1>0, <2>3, SentStore, DropStore
  <2>4. ASSUME NEW asked \in SUBSET Tables, API_Describe(d, asked) PROVE [Store!Next]_Store!vars
    BY <1>0, <2>4, SentStore
  <2>5. ASSUME \/ API_Select_Answer(d) \/ API_CreateDrop_Answer(d) \/ API_Describe_Answer(d) \/ API_Journal(d)
               \/ Journal_Register(d) \/ Journal_Register_Answer(d) \/ Journal_Clean(d)
        PROVE  [Store!Next]_Store!vars
    BY <1>0, <2>5, AnswerStore, AnsweredStore, SentStore, CleanStore
  <2> QED
    BY <2>1, <2>2, <2>3, <2>4, <2>5 DEF Thread
<1>2. CASE Restart
  <2>1. Mem!Restart /\ pc'[d].at = "idle" /\ answer' = NoWrite /\ UNCHANGED fsVars
    BY <1>0, <1>2 DEF Restart, Idle
  <2>2. Pending' = [s \in Slots |-> NoWrite] /\ Dropping' = {}
    BY <2>1, EmptyContents, PendingEmpties, DroppingIs
  <2>3. Store!Crash
    BY <2>1, <2>2, StoreCrash DEF fsVars
  <2> QED
    BY <2>3 DEF Store!Next
<1>3. CASE UNCHANGED vars
  <2>1. UNCHANGED <<memVars, fsVars, pc, answer>>
    BY <1>3 DEF vars
  <2>2. Pending' = Pending /\ Dropping' = Dropping
    BY <1>0, <2>1, PendingSame, SameContents DEF One, memVars, Dropping
  <2> QED
    BY <2>1, <2>2, StoreStutters DEF fsVars
<1> QED
  BY <1>0, <1>1, <1>2, <1>3, FileSystemStore DEF Next

\* Memory and file system together are a store whose reads return the newest write until it
\* is saved, and a saved one or none afterwards, and which forgets none that is not saved.
THEOREM ApiImplementsStore == ASSUME NEW d, Threads = {d} PROVE Spec => ImplementsStore
<1>1. Spec => []IInv
  BY ApiInvariant
<1>2. ASSUME Init PROVE Store!Init
  <2>1. \A s \in Slots : ~Mem!Used(s)
    BY <1>2, SameConstants DEF Init, Mem!Init, Mem!Used
  <2>2. Pending = [s \in Slots |-> NoWrite]
    BY <2>1 DEF Pending, Mem!Dirty
  <2>3. Dropping = {}
    BY <1>2 DEF Init, Dropping, Idle
  <2> QED
    BY <1>2, <2>2, <2>3 DEF Init, Store!Init, Store!Empty, Store!Slots, Slots, Pending, Dropping
<1>3. IInv /\ [Next]_vars => [Store!Next]_Store!vars
  BY NextStore
<1> QED
  BY <1>1, <1>2, <1>3, PTL DEF Spec, ImplementsStore, Store!Spec
=============================================================================
