------------------------------ MODULE MemoriaApi ------------------------------
(***************************************************************************)
(* The operations of a Memoria process (API.c), run by its threads over    *)
(* the memory of MainMemory and one socket to the file system.  The        *)
(* dispatcher serves the requests of the kernel and the journal timer; the *)
(* console thread calls the same functions; no lock protects the memory or *)
(* the socket.  A thread can be overtaken where it blocks: after it sends  *)
(* a request and until it receives an answer.                              *)
(*                                                                         *)
(* The file system is what api_select, api_insert, api_create and api_drop *)
(* of LFS may answer: the records it accepted, of which a SELECT finds any *)
(* or none.  Which one depends on its dumps, its compactions and its ends, *)
(* which module LFS models.                                                *)
(***************************************************************************)
EXTENDS Integers, Sequences, FiniteSets

CONSTANTS Tables, Keys, Values, NumFrames, MaxCounter, NoPage,
          Threads,       \* threads that run API functions
          MaxClock,      \* bound of GetMSEpoch, and so of the INSERTs
          KeyNotFound, TableNotFound, Garbage, NoWrite

ASSUME ClockAssumption == MaxClock \in Nat

Timestamps == 0 .. MaxClock

VARIABLES frameStatus, full, memory, segmentTable, pages, monotonicCounter, journaled,
          fsTables,   \* tables of the file system
          fsData,     \* the records of each <<table, key>> that it accepted
          clock,      \* GetMSEpoch
          pc,         \* what each thread is waiting for
          requests, replies,   \* FileSystemSocket, in both directions
          answer,     \* the last result of API_Select
          accepted    \* the last write of each slot that API_Insert answered InsertOk to

Mem == INSTANCE MainMemory

\* What is asked of MainMemory's constants, and the marks for what is not there differ from
\* the keys, values and records that are.
ASSUME MemoryAssumption ==
  /\ NumFrames \in Nat \ {0} /\ MaxCounter \in Nat
  /\ NoPage \notin Mem!Page /\ Mem!NoEntry \notin Mem!FrameData
ASSUME MarksAssumption ==
  /\ NoWrite \notin Mem!FrameData
  /\ KeyNotFound \notin Keys /\ TableNotFound \notin Keys
  /\ Garbage \notin Values \cup {KeyNotFound, TableNotFound}

memVars == <<frameStatus, full, memory, segmentTable, pages, monotonicCounter, journaled>>
fsVars  == <<fsTables, fsData>>
vars    == <<memVars, fsVars, clock, pc, requests, replies, answer, accepted>>

Slots == Tables \X Keys
Idle  == [at |-> "idle"]

Request == [op : {"SELECT"}, table : Tables, key : Keys]
             \cup [op : {"INSERT"}, table : Tables, datum : Mem!FrameData]
             \cup [op : {"CREATE", "DROP"}, table : Tables]
             \cup [op : {"DESCRIBE"}, asked : SUBSET Tables]
Reply == [op : {"SELECT"}, found : Mem!FrameData \cup {[key |-> KeyNotFound], [key |-> TableNotFound]}]
             \cup [op : {"INSERT", "CREATE", "DROP"}]
             \cup [op : {"DESCRIBE"}, tables : SUBSET Tables]

\* What the threads of a Memoria, the socket to the file system and the tables behind it hold while API.c
\* and Lissandra.c's requests run: one request per thread, replies queued in the order they were asked.
TypeOK ==
  /\ Mem!TypeOK
  /\ fsTables \subseteq Tables
  /\ fsData \in [Slots -> SUBSET Mem!FrameData]
  /\ clock \in Timestamps
  /\ \A th \in Threads : pc[th].at \in {"idle", "select", "create", "drop", "describe", "journal", "journaling"}
  /\ requests \in Seq(Request)
  /\ replies \in Seq(Reply)
  /\ accepted \in [Slots -> Mem!FrameData \cup {NoWrite}]

Init ==
  /\ Mem!Init
  /\ fsTables \in SUBSET Tables
  /\ fsData = [s \in Slots |-> {}]
  /\ clock = 0
  /\ pc = [th \in Threads |-> Idle]
  /\ requests = <<>> /\ replies = <<>>
  /\ answer = NoWrite
  /\ accepted = [s \in Slots |-> NoWrite]

-----------------------------------------------------------------------------
(***************************************************************************)
(* The file system serves the socket's requests in their order.            *)
(***************************************************************************)
\* What a SELECT may find.  While a dump writes the old memtable its records are in no
\* place a SELECT reads, and an LFS that ended has lost its memtable: what is found need
\* not be the newest record, nor be there at all.
Found(t, k) == IF t \notin fsTables THEN {[key |-> TableNotFound]}
               ELSE {[key |-> KeyNotFound]} \cup fsData[<<t, k>>]

\* A record goes to the memtable; what is left of the directory of a table that is no
\* more takes it too.
Record(t, d) ==
  \/ fsData' = [fsData EXCEPT ![<<t, d.key>>] = @ \cup {d}]
  \/ t \notin fsTables /\ UNCHANGED fsData

Served(reply) == requests' = Tail(requests) /\ replies' = Append(replies, reply)

FileSystem ==
  /\ requests # <<>>
  /\ LET r == Head(requests) IN
     \/ /\ r.op = "SELECT"
        /\ \E found \in Found(r.table, r.key) : Served([op |-> "SELECT", found |-> found])
        /\ UNCHANGED fsVars
     \/ /\ r.op = "INSERT"
        /\ Served([op |-> "INSERT"])
        /\ Record(r.table, r.datum)
        /\ UNCHANGED fsTables
     \/ /\ r.op = "CREATE"
        /\ Served([op |-> "CREATE"])
        /\ fsTables' \in {fsTables, fsTables \cup {r.table}}    \* there may be no free block
        /\ UNCHANGED fsData
     \/ /\ r.op = "DROP"
        /\ Served([op |-> "DROP"])
        /\ fsTables' = fsTables \ {r.table}
        /\ \/ fsData' = [s \in Slots |-> IF s[1] = r.table THEN {} ELSE fsData[s]]
           \/ UNCHANGED fsData          \* a dump under way still writes them
     \/ /\ r.op = "DESCRIBE"
        /\ Served([op |-> "DESCRIBE", tables |-> r.asked \cap fsTables])
        /\ UNCHANGED fsVars
  /\ UNCHANGED <<memVars, clock, pc, answer, accepted>>

-----------------------------------------------------------------------------
(***************************************************************************)
(* The threads.                                                            *)
(***************************************************************************)
Goto(th, state) == pc' = [pc EXCEPT ![th] = state]
\* Variant: what is sent comes back.
Send_Loopback(r) == replies' = Append(replies, r) /\ UNCHANGED requests

Send(r)         == requests' = Append(requests, r) /\ UNCHANGED replies
Receive(reply)  == replies # <<>> /\ reply = Head(replies) /\ replies' = Tail(replies)

ReplySet == {replies[i] : i \in DOMAIN replies}

API_Select_Hit(th, t, k) ==
  /\ pc[th] = Idle
  /\ Mem!Memory_GetFrame(t, k)
  /\ answer' = [slot |-> <<t, k>>, value |-> memory[pages[<<t, k>>].frame].value]
  /\ UNCHANGED <<fsVars, clock, pc, requests, replies, accepted>>

API_Select_Miss(th, t, k) ==
  /\ pc[th] = Idle
  /\ ~Mem!Used(<<t, k>>)
  /\ monotonicCounter < MaxCounter     \* the bound, for the page its answer may create
  /\ Send([op |-> "SELECT", table |-> t, key |-> k])
  /\ Goto(th, [at |-> "select", table |-> t, key |-> k])
  /\ UNCHANGED <<memVars, fsVars, clock, answer, accepted>>

\* The answer has no key: the value is stored under the one that was asked for.  An
\* answer to another request is logged and the caller's buffer is returned as it was.
API_Select_Answer(th) ==
  /\ pc[th].at = "select"
  /\ Goto(th, Idle)
  /\ LET t == pc[th].table
         k == pc[th].key
         Answer(v) == answer' = [slot |-> <<t, k>>, value |-> v]
     IN \E reply \in ReplySet : Receive(reply) /\
          \/ /\ reply.op # "SELECT"
             /\ Answer(Garbage)
             /\ UNCHANGED memVars
          \/ /\ reply.op = "SELECT" /\ reply.found.key \in {KeyNotFound, TableNotFound}
             /\ Answer(reply.found.key)
             /\ UNCHANGED memVars
          \/ /\ reply.op = "SELECT" /\ reply.found.key \in Keys
             /\ Answer(reply.found.value)
             /\ Mem!Memory_InsertNewValue(t, reply.found.timestamp, k, reply.found.value)
  /\ UNCHANGED <<fsVars, clock, requests, accepted>>

\* GetMSEpoch moves between two INSERTs: each one sleeps RETARDO_MEM before it answers.
API_Insert(th, t, k, v) ==
  /\ pc[th] = Idle
  /\ clock < MaxClock
  /\ clock' = clock + 1
  /\ \/ /\ Mem!Upsert_Present(t, clock', k, v) \/ Mem!Upsert_Absent(t, clock', k, v)
        /\ accepted' = [accepted EXCEPT ![<<t, k>>] =
                          [key |-> k, timestamp |-> clock', value |-> v]]
     \/ /\ Mem!Upsert_Refused(t, k)      \* InsertFull
        /\ UNCHANGED accepted
  /\ UNCHANGED <<fsVars, pc, requests, replies, answer>>

API_Create(th, t) ==
  /\ pc[th] = Idle
  /\ Send([op |-> "CREATE", table |-> t])
  /\ Goto(th, [at |-> "create"])
  /\ UNCHANGED <<memVars, fsVars, clock, answer, accepted>>

\* Variant: the pages of the table stay.
API_Drop_KeepsPages(th, t) ==
  /\ pc[th] = Idle
  /\ Send([op |-> "DROP", table |-> t])
  /\ Goto(th, [at |-> "drop", table |-> t])
  /\ accepted' = [s \in Slots |-> IF s[1] = t THEN NoWrite ELSE accepted[s]]
  /\ UNCHANGED <<memVars, fsVars, clock, answer>>

\* The pages are evicted before the file system is asked.
API_Drop(th, t) ==
  /\ pc[th] = Idle
  /\ Mem!Memory_EvictPages(t)
  /\ Send([op |-> "DROP", table |-> t])
  /\ Goto(th, [at |-> "drop", table |-> t])
  /\ accepted' = [s \in Slots |-> IF s[1] = t THEN NoWrite ELSE accepted[s]]
  /\ UNCHANGED <<fsVars, clock, answer>>

\* Variant: the answer is left in the socket.
API_CreateDrop_Answer_Unread(th) ==
  /\ pc[th].at \in {"create", "drop"}
  /\ Goto(th, Idle)
  /\ UNCHANGED <<memVars, fsVars, clock, requests, replies, answer, accepted>>

API_CreateDrop_Answer(th) ==
  /\ pc[th].at \in {"create", "drop"}
  /\ \E reply \in ReplySet : Receive(reply)
  /\ Goto(th, Idle)
  /\ UNCHANGED <<memVars, fsVars, clock, requests, answer, accepted>>

\* One table or all of them.
API_Describe(th, asked) ==
  /\ pc[th] = Idle
  /\ Send([op |-> "DESCRIBE", asked |-> asked])
  /\ Goto(th, [at |-> "describe"])
  /\ UNCHANGED <<memVars, fsVars, clock, answer, accepted>>

\* The results go to the kernel or the console; an answer to another request leaves them
\* empty and API_Describe succeeds.
API_Describe_Answer(th) ==
  /\ pc[th].at = "describe"
  /\ \E reply \in ReplySet : Receive(reply)
  /\ Goto(th, Idle)
  /\ UNCHANGED <<memVars, fsVars, clock, requests, answer, accepted>>

\* Variant: one of the modified frames is left out.
API_Journal_SkipsOne(th) ==
  LET modified == {<<s[1], pages[s].frame>> : s \in {r \in Slots : Mem!Dirty(r)}} IN
  /\ pc[th] = Idle
  /\ \E d \in modified \cup {<<>>} :
       Goto(th, [at |-> "journal", left |-> modified \ {d}, sent |-> [s \in Slots |-> Mem!NoEntry]])
  /\ UNCHANGED <<memVars, fsVars, clock, requests, replies, answer, accepted>>

\* Memory_DoJournal: the vector of modified frames, a request and its answer for each
\* frame as it is when its turn comes, and then the memory is cleaned.
API_Journal(th) ==
  /\ pc[th] = Idle
  /\ Goto(th, [at |-> "journal",
               left |-> {<<s[1], pages[s].frame>> : s \in {r \in Slots : Mem!Dirty(r)}},
               sent |-> [s \in Slots |-> Mem!NoEntry]])
  /\ UNCHANGED <<memVars, fsVars, clock, requests, replies, answer, accepted>>

Journal_Register(th) ==
  /\ pc[th].at = "journal"
  /\ \E d \in pc[th].left :
       LET datum == memory[d[2]] IN
       /\ Send([op |-> "INSERT", table |-> d[1], datum |-> datum])
       /\ Goto(th, [at |-> "journaling", left |-> pc[th].left \ {d},
                    sent |-> [pc[th].sent EXCEPT ![<<d[1], datum.key>>] = datum]])
  /\ UNCHANGED <<memVars, fsVars, clock, answer, accepted>>

Journal_Register_Answer(th) ==
  /\ pc[th].at = "journaling"
  /\ \E reply \in ReplySet : Receive(reply)
  /\ Goto(th, [pc[th] EXCEPT !.at = "journal"])
  /\ UNCHANGED <<memVars, fsVars, clock, requests, answer, accepted>>

\* Variant: the memory is cleaned before all the frames were sent.
Journal_Clean_Early(th) ==
  /\ pc[th].at = "journal"
  /\ Mem!CleanMemory
  /\ journaled' = pc[th].sent
  /\ Goto(th, Idle)
  /\ accepted' = [s \in Slots |-> IF s[1] \in fsTables THEN accepted[s] ELSE NoWrite]
  /\ UNCHANGED <<fsVars, clock, requests, replies, answer>>

\* A write the file system has no table for is only reported.
Journal_Clean(th) ==
  /\ pc[th].at = "journal" /\ pc[th].left = {}
  /\ Mem!CleanMemory
  /\ journaled' = pc[th].sent
  /\ Goto(th, Idle)
  /\ accepted' = [s \in Slots |-> IF s[1] \in fsTables THEN accepted[s] ELSE NoWrite]
  /\ UNCHANGED <<fsVars, clock, requests, replies, answer>>

\* _ungratefulExit of any thread, or the end of the process, and a new process.  A request
\* on its way is served, by a step of FileSystem before this one, or lost with the socket.
\* If the file system ended too, it has its tables, and a SELECT may miss any record.
Restart ==
  /\ Mem!Restart
  /\ pc' = [th \in Threads |-> Idle]
  /\ requests' = <<>> /\ replies' = <<>>
  /\ accepted' = [s \in Slots |-> NoWrite]
  /\ answer' = NoWrite
  /\ UNCHANGED <<fsVars, clock>>

Thread(th) ==
  \/ \E t \in Tables, k \in Keys :
       \/ API_Select_Hit(th, t, k)
       \/ API_Select_Miss(th, t, k)
       \/ \E v \in Values : API_Insert(th, t, k, v)
  \/ \E t \in Tables : API_Create(th, t) \/ API_Drop(th, t) \/ API_Describe(th, {t})
  \/ API_Describe(th, Tables)
  \/ API_Select_Answer(th)
  \/ API_CreateDrop_Answer(th)
  \/ API_Describe_Answer(th)
  \/ API_Journal(th)
  \/ Journal_Register(th)
  \/ Journal_Register_Answer(th)
  \/ Journal_Clean(th)

Next == FileSystem \/ (\E th \in Threads : Thread(th)) \/ Restart

Spec == Init /\ [][Next]_vars

-----------------------------------------------------------------------------
(***************************************************************************)
(* Properties.                                                             *)
(***************************************************************************)

\* "el proceso deberá actualizar correctamente las tablas que sí existen" (API.c:244-246):
\* a write that API_Insert accepted, and that neither DROP, the journal of a missing
\* table nor the end of the process discarded, is in a modified page or in the file system.
NoAcceptedWriteIsLost ==
  \A s \in Slots : accepted[s] # NoWrite =>
    \/ Mem!DirtyFrames[s] = accepted[s]
    \/ s[1] \in fsTables /\ accepted[s] \in fsData[s]

\* With one memory no page is made up and none hides a newer write, after any eviction,
\* journal or DROP: a page that was not modified holds a record that the file system
\* accepted for its slot in a table that exists, and a modified one is newer than all of
\* those, which is what makes the journal's INSERT win there.
PagesAgreeWithRecords ==
  \A s \in Slots :
    /\ Mem!Clean(s) => s[1] \in fsTables /\ memory[pages[s].frame] \in fsData[s]
    /\ Mem!Dirty(s) => \A d \in fsData[s] : \/ memory[pages[s].frame].timestamp > d.timestamp
                                           \/ memory[pages[s].frame] = d

\* The journal's exchange of one request per frame, and the file requests of the other
\* operations, change the memory as the operations of MainMemory do in one step.
ImplementsMainMemory == Mem!Spec

\* What a client of memory and file system can see of them.
Store == INSTANCE KeyValueStore
           WITH Writes <- Mem!FrameData, tables <- fsTables, durable <- fsData,
                dropping <- {pc[th].table : th \in {x \in Threads : pc[x].at = "drop"}},
                pending <- [s \in Slots |-> IF Mem!Dirty(s) THEN Mem!DirtyFrames[s] ELSE NoWrite]

\* Memory and file system together are a store whose reads return the newest write until
\* the journal has saved it, and a saved one or none afterwards; a write is forgotten only
\* when all writes were saved.  Pages, frames, eviction and the journal's steps cannot be seen.
ImplementsStore == Store!Spec

\* The exchanges with the file system stay in step: a thread that waits has a request or
\* an answer on its way, nothing is left over on the socket that the next operation would
\* take for its answer, and API_Select never returns the caller's buffer as it found it,
\* which is what it does with an answer to the request of another.
ConnectionStaysInStep ==
  /\ Len(requests) + Len(replies) =
       Cardinality({th \in Threads : pc[th].at \in {"select", "create", "drop", "describe", "journaling"}})
  /\ answer # NoWrite => answer.value # Garbage

=============================================================================
