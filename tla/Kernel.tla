-------------------------------- MODULE Kernel --------------------------------
(***************************************************************************)
(* The kernel's view of the store: the memories of each criterion and the  *)
(* map of known memories (Criteria.c), the criterion of each table         *)
(* (Metadata.c), and the commands that use them (Commands.c).  Commands    *)
(* run in the workers of Runner.c and in the console, discovery and the    *)
(* periodic DESCRIBE in the dispatcher; none of it is locked but Metadata  *)
(* and each memory's connection (MemLock).                                 *)
(*                                                                         *)
(* A thread keeps a pointer to the entry of a memory in its criterion's    *)
(* array from Criteria_GetMemoryFor on.  When another thread removes or    *)
(* moves that entry what happens next is undefined: end becomes            *)
(* "undefined" and the model stops there.                                  *)
(*                                                                         *)
(* Memories and file system are external: a memory stops and starts,       *)
(* may fill up, knows itself and any others, and answers the requests of a *)
(* connection in turn; a JOURNAL has no answer.                            *)
(***************************************************************************)
EXTENDS Naturals, Sequences, FiniteSets

CONSTANTS Memories,
          Tables,
          Workers,       \* threads that run commands
          Dispatcher,    \* the thread of the timers
          Commands,      \* the commands that are given
          Adds,          \* <<criterion, memory>> of the ADDs that are given
          Consistencies, \* criteria that tables are created with
          Seed,          \* the memory of IP_MEMORIA and PUERTO_MEMORIA
          MaxStops, MaxFills,
          MaxRequests    \* bound of the JOURNALs that wait in a connection

CriteriaTypes == {"SC", "SHC", "EC"}
None          == "none"
SeedKey       == 0        \* MemoryIPMap's key of the seed until its number is known

ASSUME KernelAssumption ==
  /\ IsFiniteSet(Memories) /\ SeedKey \notin Memories /\ Seed \in Memories
  /\ Dispatcher \notin Workers
  /\ Adds \subseteq CriteriaTypes \X Memories
  /\ Consistencies \subseteq CriteriaTypes
  /\ MaxStops \in Nat /\ MaxFills \in Nat /\ MaxRequests \in Nat

VARIABLES up, full,      \* memories that run, and those without a frame to give
          stops, fills,
          tables,        \* the criterion in each table's Metadata in the file system, or None
          memoryIPMap,   \* numbers of the memories that are known
          members,       \* the memories of each criterion
          sockets,       \* connections to each memory
          metadata,      \* Metadata of the kernel: the criterion of a table, or None
          thread,
          end            \* None, "crash" or "undefined"
external == <<up, full, stops, fills, tables>>
vars     == <<external, memoryIPMap, members, sockets, metadata, thread, end>>

Threads == Workers \cup {Dispatcher}
Idle    == [at |-> "idle"]
NoAnswer == [result |-> "none"]

\* A request in a connection, and its answer.
Request == [by : Threads, op : {"select", "insert", "create", "drop", "describe", "global", "journal"}]
Answer  == [by : Threads, op : {"select", "insert", "create", "drop", "describe", "global"},
            result : {"ok", "full", "error"}, tables : [Tables -> CriteriaTypes \cup {None}]]

\* What the metadata, the memories map, the criteria and the connections of the Kernel hold while Commands.c,
\* Criteria.c and Metadata.c execute requests on several threads.
TypeOK ==
  /\ up \subseteq Memories /\ full \subseteq up
  /\ tables \in [Tables -> CriteriaTypes \cup {None}]
  /\ metadata \in [Tables -> CriteriaTypes \cup {None}]
  /\ memoryIPMap \subseteq Memories \cup {SeedKey}
  /\ \A c \in CriteriaTypes : \A i \in DOMAIN members[c] :
       /\ members[c][i].mem \in Memories /\ members[c][i].broken \in BOOLEAN
       /\ \A j \in DOMAIN members[c][i].requests : members[c][i].requests[j] \in Request
       /\ \A j \in DOMAIN members[c][i].answers : members[c][i].answers[j] \in Answer
       /\ \A j \in 1 .. (i - 1) : members[c][j].mem # members[c][i].mem
  /\ Len(members["SC"]) <= 1
  /\ DOMAIN thread = Threads
  /\ end \in {None, "crash", "undefined"}

\* Criterias_Init has run a first discovery, in which the seed answered.
Init ==
  /\ up = Memories /\ full = {} /\ stops = 0 /\ fills = 0
  /\ tables = [t \in Tables |-> None]
  /\ memoryIPMap \in {known \in SUBSET Memories : Seed \in known}
  /\ members = [c \in CriteriaTypes |-> <<>>]
  /\ sockets = [m \in Memories |-> 0]
  /\ metadata = [t \in Tables |-> None]
  /\ thread = [th \in Threads |-> Idle]
  /\ end = None

-----------------------------------------------------------------------------
(***************************************************************************)
(* Memories (external).                                                    *)
(***************************************************************************)
Stop(m) ==
  /\ m \in up /\ stops < MaxStops
  /\ up' = up \ {m} /\ full' = full \ {m} /\ stops' = stops + 1
  /\ members' = [c \in CriteriaTypes |-> [i \in DOMAIN members[c] |->
       IF members[c][i].mem = m
       THEN [members[c][i] EXCEPT !.broken = TRUE, !.requests = <<>>]
       ELSE members[c][i]]]
  /\ UNCHANGED <<fills, tables, memoryIPMap, sockets, metadata, thread, end>>

Start(m) ==
  /\ m \notin up /\ up' = up \cup {m}
  /\ UNCHANGED <<full, stops, fills, tables, memoryIPMap, members, sockets, metadata, thread, end>>

\* INSERTs, of this kernel or of others, modify the last clean page.
Fill(m) ==
  /\ m \in up \ full /\ fills < MaxFills
  /\ full' = full \cup {m} /\ fills' = fills + 1
  /\ UNCHANGED <<up, stops, tables, memoryIPMap, members, sockets, metadata, thread, end>>

\* What a memory may answer, and the file system's tables afterwards.
Results(m, op, t, ct) ==
  CASE op = "select" -> {<<r, tables>> : r \in {"ok", "error"} \cup (IF m \in full THEN {"full"} ELSE {})}
    [] op = "insert" -> IF m \in full THEN {<<"full", tables>>}
                        ELSE {<<r, tables>> : r \in {"ok", "error"}}
    [] op = "create" -> IF tables[t] = None THEN {<<"ok", [tables EXCEPT ![t] = ct]>>}
                        ELSE {<<"error", tables>>}
    [] op = "drop"   -> IF tables[t] = None THEN {<<"error", tables>>}
                        ELSE {<<"ok", [tables EXCEPT ![t] = None]>>}
    [] OTHER         -> {<<"ok", tables>>}

Serve(c, i) ==
  LET mem == members[c][i]
      req == Head(mem.requests)
      th  == thread[req.by] IN
  /\ mem.requests # <<>>
  /\ IF req.op = "journal"
     THEN /\ full' = full \ {mem.mem}
          /\ members' = [members EXCEPT ![c][i].requests = Tail(@)]
          /\ UNCHANGED tables
     ELSE \E r \in Results(mem.mem, req.op, th.table, th.ct) :
            /\ tables' = r[2]
            /\ members' = [members EXCEPT ![c][i].requests = Tail(@), ![c][i].answers =
                 Append(@, [by |-> req.by, op |-> req.op, result |-> r[1], tables |-> r[2]])]
            /\ UNCHANGED full
  /\ UNCHANGED <<up, stops, fills, memoryIPMap, sockets, metadata, thread, end>>

\* The tables of the whole file system may be too many for a packet (10240 bytes and more):
\* the receiver refuses the header, and what comes after it is not read from this connection.
Serve_TooLarge(c, i) ==
  /\ members[c][i].requests # <<>> /\ Head(members[c][i].requests).op = "global"
  /\ members' = [members EXCEPT ![c][i].broken = TRUE, ![c][i].requests = <<>>]
  /\ UNCHANGED <<external, memoryIPMap, sockets, metadata, thread, end>>

-----------------------------------------------------------------------------
(***************************************************************************)
(* Pointers into the arrays of the criteria.                               *)
(***************************************************************************)
\* Threads that will use the entry they chose.
Holders == {th \in Threads :
              \/ thread[th].at \in {"lock", "wait", "journal"}
              \/ thread[th].at = "answered" /\ thread[th].answer.result = "full"}
At(th)  == members[thread[th].entry[1]][thread[th].entry[2]]

\* Another thread holds an entry that moves, or goes, when those of m are erased, or
\* visits m in the map.
HeldByOthers(th, m) ==
  \/ \E o \in Holders \ {th} :
       LET c == thread[o].entry[1] IN
       \E j \in 1 .. thread[o].entry[2] : members[c][j].mem = m
  \/ \E o \in Threads \ {th} : thread[o].at = "handshake" /\ thread[o].peer = m

\* _removeFromArray, of each memory in gone: the entries that remain move up.
Without(entries, gone) ==
  LET kept[n \in 0 .. Len(entries)] ==
        IF n = 0 THEN <<>>
        ELSE IF entries[n].mem \in gone THEN kept[n - 1]
        ELSE Append(kept[n - 1], entries[n])
  IN kept[Len(entries)]

\* _disconnectMemory: nothing is removed if the memory is not in the map.
_disconnectMemories(ms) ==
  LET gone == ms \cap memoryIPMap IN
  /\ members' = [c \in CriteriaTypes |-> Without(members[c], gone)]
  /\ sockets' = [m \in Memories |->
       sockets[m] - Cardinality({c \in CriteriaTypes : m \in gone /\
                                 \E i \in DOMAIN members[c] : members[c][i].mem = m})]

-----------------------------------------------------------------------------
(***************************************************************************)
(* Commands.                                                               *)
(***************************************************************************)
\* The start of a command that goes to one memory.
Begin(th, op, t, ct) ==
  /\ end = None /\ thread[th] = Idle
  /\ op \in Commands
  /\ thread' = [thread EXCEPT ![th] =
       [at |-> "choose", op |-> op, table |-> t, ct |-> ct, entry |-> <<>>,
        answer |-> NoAnswer]]
  /\ UNCHANGED <<external, memoryIPMap, members, sockets, metadata, end>>

HandleSelect(th, t)   == metadata[t] # None /\ Begin(th, "select", t, metadata[t])
HandleInsert(th, t)   == metadata[t] # None /\ Begin(th, "insert", t, metadata[t])
HandleDrop(th, t)     == metadata[t] # None /\ Begin(th, "drop", t, metadata[t])
HandleDescribe(th, t) == Begin(th, "describe", t, metadata[t])
HandleCreate(th, t)   == /\ metadata[t] = None
                         /\ \E ct \in Consistencies : Begin(th, "create", t, ct)

\* The criteria with memories among which one is chosen: None stands for CRITERIA_ANY.
Eligible(ct) == {c \in CriteriaTypes : ct \in {c, None} /\ members[c] # <<>>}

\* Which entry of SHC a key maps to depends on the number of entries only, so that any
\* may be chosen.
Criteria_GetMemoryFor(th) ==
  /\ end = None /\ thread[th].at = "choose"
  /\ \/ /\ Eligible(thread[th].ct) = {}
        /\ thread' = [thread EXCEPT ![th] = Idle]
     \/ \E c \in Eligible(thread[th].ct) : \E i \in DOMAIN members[c] :
          thread' = [thread EXCEPT ![th].at = "lock", ![th].entry = <<c, i>>]
  /\ UNCHANGED <<external, memoryIPMap, members, sockets, metadata, end>>

MemLockFree(th) == \A o \in Threads \ {th} :
                     ~(thread[o].at = "wait" /\ thread[o].entry = thread[th].entry)

Put(th, op) ==
  members' = IF At(th).broken THEN members
             ELSE [members EXCEPT ![thread[th].entry[1]][thread[th].entry[2]].requests =
                     Append(@, [by |-> th, op |-> op])]

\* Variant: MemLock is not taken.
Memory_SendRequestWithAnswer_NoLock(th) ==
  /\ end = None /\ thread[th].at = "lock"
  /\ Put(th, thread[th].op)
  /\ thread' = [thread EXCEPT ![th].at = "wait"]
  /\ UNCHANGED <<external, memoryIPMap, sockets, metadata, end>>

\* Memory_SendRequestWithAnswer, up to Socket_RecvPacket.
Memory_SendRequestWithAnswer(th) ==
  /\ end = None /\ thread[th].at = "lock" /\ MemLockFree(th)
  /\ Put(th, thread[th].op)
  /\ thread' = [thread EXCEPT ![th].at = "wait"]
  /\ UNCHANGED <<external, memoryIPMap, sockets, metadata, end>>

Receive(th) ==
  /\ end = None /\ thread[th].at = "wait" /\ At(th).answers # <<>>
  /\ thread' = [thread EXCEPT ![th].at = "answered", ![th].answer = Head(At(th).answers)]
  /\ members' = [members EXCEPT ![thread[th].entry[1]][thread[th].entry[2]].answers = Tail(@)]
  /\ UNCHANGED <<external, memoryIPMap, sockets, metadata, end>>

\* Variant: the memory leaves the map before it is looked up there.
MemoryDown_MapFirst(th) ==
  LET m == At(th).mem IN
  /\ end = None /\ thread[th].at = "wait" /\ At(th).answers = <<>> /\ At(th).broken
  /\ memoryIPMap' = memoryIPMap \ {m}
  /\ thread' = [thread EXCEPT ![th] = Idle]
  /\ UNCHANGED <<external, members, sockets, metadata, end>>

\* No packet was received.  The memory is taken out of every criterion and of the map.  The command goes on
\* to the next, but INSERT in its loop reads the packet that it did not get.
MemoryDown(th) ==
  LET m == At(th).mem IN
  /\ end = None /\ thread[th].at = "wait" /\ At(th).answers = <<>> /\ At(th).broken
  /\ _disconnectMemories({m})
  /\ memoryIPMap' = memoryIPMap \ {m}
  /\ thread' = [thread EXCEPT ![th] = Idle]
  /\ end' = IF HeldByOthers(th, m) THEN "undefined"
            ELSE IF thread[th].op = "insert" /\ thread[th].answer # NoAnswer THEN "crash" ELSE None
  /\ UNCHANGED <<external, metadata>>

\* A memory that is full gives its value all the same to SELECT, and INSERT again.
HandleFull(th) ==
  /\ end = None /\ thread[th].at = "answered" /\ thread[th].answer.result = "full"
  /\ thread' = [thread EXCEPT ![th].at = "journal"]
  /\ UNCHANGED <<external, memoryIPMap, members, sockets, metadata, end>>

Memory_SendRequest(th) ==
  /\ end = None /\ thread[th].at = "journal" /\ MemLockFree(th)
  /\ Put(th, "journal")
  /\ thread' = [thread EXCEPT ![th] = IF @.op = "insert" THEN [@ EXCEPT !.at = "lock"] ELSE Idle]
  /\ UNCHANGED <<external, memoryIPMap, sockets, metadata, end>>

\* Metadata_Add, after a CREATE, and Metadata_Update, after a DESCRIBE: of one table, or
\* of all, which forgets the others.
Metadata_Update(th) ==
  LET answer == thread[th].answer
      t      == thread[th].table IN
  CASE thread[th].op = "create" /\ answer.result = "ok" -> [metadata EXCEPT ![t] = thread[th].ct]
    [] thread[th].op = "describe" -> [metadata EXCEPT ![t] = answer.tables[t]]
    [] thread[th].op = "global"   -> answer.tables
    [] OTHER                      -> metadata

\* SELECT, INSERT and DROP only print.
HandleAnswer(th) ==
  /\ end = None /\ thread[th].at = "answered" /\ thread[th].answer.result # "full"
  /\ metadata' = Metadata_Update(th)
  /\ thread' = [thread EXCEPT ![th] = Idle]
  /\ UNCHANGED <<external, memoryIPMap, members, sockets, end>>

\* Criterias_BroadcastJournal writes to every connection, without MemLock.
Criterias_BroadcastJournal(th) ==
  /\ end = None /\ thread[th] = Idle
  /\ "journal" \in Commands
  /\ \A c \in CriteriaTypes : \A i \in DOMAIN members[c] :
       Len(members[c][i].requests) < MaxRequests
  /\ members' = [c \in CriteriaTypes |-> [i \in DOMAIN members[c] |->
       IF members[c][i].broken THEN members[c][i]
       ELSE [members[c][i] EXCEPT !.requests = Append(@, [by |-> th, op |-> "journal"])]]]
  /\ UNCHANGED <<external, memoryIPMap, sockets, metadata, thread, end>>

\* ADD, in two steps: the address is taken from the map before the connection is made, and no
\* lock keeps a discovery or a failed request from taking the memory out of it meanwhile.
HandleAdd(th, c, m) ==
  /\ end = None /\ thread[th] = Idle
  /\ m \in memoryIPMap
  /\ thread' = [thread EXCEPT ![th] = [at |-> "connect", ct |-> c, mem |-> m]]
  /\ UNCHANGED <<external, memoryIPMap, members, sockets, metadata, end>>

\* Variant: the criterion may have the memory already.
Criteria_AddMemory_NoSearch(th) ==
  LET c == thread[th].ct
      m == thread[th].mem IN
  /\ end = None /\ thread[th].at = "connect" /\ m \in up
  /\ thread' = [thread EXCEPT ![th] = Idle]
  /\ members' = [members EXCEPT ![c] =
       Append(@, [mem |-> m, broken |-> FALSE, requests |-> <<>>, answers |-> <<>>])]
  /\ sockets' = [sockets EXCEPT ![m] = @ + 1]
  /\ UNCHANGED <<external, memoryIPMap, metadata, end>>

\* _sc_add and _addMemoryToArray close the connection if they cannot keep it.
Refuses(c, m) ==
  \/ c = "SC" /\ members[c] # <<>>
  \/ \E i \in DOMAIN members[c] : members[c][i].mem = m

\* A vector that grows moves.
Criteria_AddMemory(th) ==
  LET c == thread[th].ct
      m == thread[th].mem IN
  /\ end = None /\ thread[th].at = "connect"
  /\ thread' = [thread EXCEPT ![th] = Idle]
  /\ \/ /\ m \in up /\ Refuses(c, m)
        /\ UNCHANGED <<members, sockets, memoryIPMap, end>>
     \/ /\ m \in up /\ ~Refuses(c, m)
        /\ members' = [members EXCEPT ![c] =
             Append(@, [mem |-> m, broken |-> FALSE, requests |-> <<>>, answers |-> <<>>])]
        /\ sockets' = [sockets EXCEPT ![m] = @ + 1]
        /\ end' = IF \E o \in Holders : thread[o].entry[1] = c THEN "undefined" ELSE None
        /\ UNCHANGED memoryIPMap
     \/ /\ m \notin up
        /\ _disconnectMemories({m})
        /\ memoryIPMap' = memoryIPMap \ {m}
        /\ end' = IF HeldByOthers(th, m) THEN "undefined" ELSE None
  /\ UNCHANGED <<external, metadata>>

-----------------------------------------------------------------------------
(***************************************************************************)
(* Criterias_Update.                                                       *)
(***************************************************************************)
Criterias_Update(th) ==
  /\ end = None /\ thread[th] = Idle
  /\ memoryIPMap' = memoryIPMap \cup {SeedKey}
  /\ thread' = [thread EXCEPT ![th] = [at |-> "discover", left |-> memoryIPMap', diff |-> {}]]
  /\ UNCHANGED <<external, members, sockets, metadata, end>>

Address(key) == IF key = SeedKey THEN Seed ELSE key

\* _iteratePeer; entries that a worker removed meanwhile are not visited.
_iteratePeer(th, key) ==
  /\ end = None /\ thread[th].at = "discover" /\ key \in thread[th].left
  /\ thread' = [thread EXCEPT ![th] =
       [at |-> IF key \in memoryIPMap /\ Address(key) \in up THEN "handshake" ELSE "discover",
        left |-> @.left \ {key}, diff |-> @.diff, peer |-> key]]
  /\ UNCHANGED <<external, memoryIPMap, members, sockets, metadata, end>>

\* The answer, if it comes: the memories that the peer knows, itself among them.
_iteratePeer_Answer(th) ==
  LET peer == Address(thread[th].peer) IN
  /\ end = None /\ thread[th].at = "handshake"
  /\ \E known \in SUBSET Memories :
       /\ IF peer \in up THEN peer \in known ELSE known = {}
       /\ thread' = [thread EXCEPT ![th] =
            [at |-> "discover", left |-> @.left, diff |-> @.diff \cup known, peer |-> SeedKey]]
  /\ UNCHANGED <<external, memoryIPMap, members, sockets, metadata, end>>

\* _disconnectOldMemories, and diff becomes the map.
EndUpdate(th) ==
  LET old == (memoryIPMap \ thread[th].diff) \ {SeedKey} IN
  /\ end = None /\ thread[th].at = "discover" /\ thread[th].left = {}
  /\ _disconnectMemories(old)
  /\ memoryIPMap' = thread[th].diff
  /\ thread' = [thread EXCEPT ![th] = Idle]
  /\ end' = IF \E m \in old : HeldByOthers(th, m) THEN "undefined" ELSE None
  /\ UNCHANGED <<external, metadata>>

-----------------------------------------------------------------------------
(***************************************************************************)
(* The specification.                                                      *)
(***************************************************************************)
Command(th) ==
  \/ \E t \in Tables : \/ HandleSelect(th, t) \/ HandleInsert(th, t) \/ HandleCreate(th, t)
                        \/ HandleDescribe(th, t) \/ HandleDrop(th, t)
  \/ Criterias_BroadcastJournal(th)
  \/ \E add \in Adds : HandleAdd(th, add[1], add[2])

\* A thread that works goes on.
Step(th) ==
  \/ Criteria_GetMemoryFor(th) \/ Memory_SendRequestWithAnswer(th) \/ Receive(th)
  \/ MemoryDown(th) \/ HandleFull(th) \/ Memory_SendRequest(th) \/ HandleAnswer(th)
  \/ Criteria_AddMemory(th)
  \/ \E key \in Memories \cup {SeedKey} : _iteratePeer(th, key)
  \/ _iteratePeer_Answer(th) \/ EndUpdate(th)

PeriodicDescribe == \E t \in Tables : Begin(Dispatcher, "global", t, None)

MemoryServes(m) == \E c \in CriteriaTypes : \E i \in DOMAIN members[c] :
                     members[c][i].mem = m /\ (Serve(c, i) \/ Serve_TooLarge(c, i))

Next ==
  \/ \E m \in Memories : Stop(m) \/ Start(m) \/ Fill(m) \/ MemoryServes(m)
  \/ \E th \in Workers : Command(th)
  \/ \E th \in Threads : Step(th)
  \/ PeriodicDescribe
  \/ Criterias_Update(Dispatcher)

Spec == Init /\ [][Next]_vars

-----------------------------------------------------------------------------
(***************************************************************************)
(* Properties.                                                             *)
(***************************************************************************)
\* A memory that leaves the map, for a failed request, an ADD that did not connect or a
\* discovery that did not find it, leaves every criterion in the same step, and none of the
\* connections that ADDs ever made to it stays open: later nothing would take it out
\* (_disconnectMemory does nothing for a memory that is not in the map, Criteria.c:487).
MemoriesAreForgottenWhole ==
  [][\A m \in Memories : m \in memoryIPMap /\ m \notin memoryIPMap' =>
       /\ sockets'[m] = 0
       /\ \A c \in CriteriaTypes : \A i \in DOMAIN members'[c] : members'[c][i].mem # m]_vars

\* Threads share the connection of a memory, and journals are sent on it at any time:
\* whoever waits has its request or its answer in the connection, or that is broken, and
\* what it receives is the answer to its own request.
ConnectionsStayInStep ==
  /\ end = None => \A th \in Threads : thread[th].at = "wait" =>
       \/ At(th).broken
       \/ \E j \in DOMAIN At(th).requests : At(th).requests[j] = [by |-> th, op |-> thread[th].op]
       \/ \E j \in DOMAIN At(th).answers : At(th).answers[j].by = th
  /\ \A th \in Threads : thread[th].at = "answered" =>
       thread[th].answer.by = th /\ thread[th].answer.op = thread[th].op

\* A memory that goes down while it serves a request ends that request only (issue 1433,
\* Commands.c:25).
AMemoryDownEndsOneRequest == end # "crash"

\* A memory of a criterion is in the map.  An ADD that overlaps the discovery, or a request that
\* fails, gives a criterion a memory that the map has just lost: when it goes down nothing takes
\* it out, and every request to it fails.
MembersAreKnown ==
  end = None => \A c \in CriteriaTypes : \A i \in DOMAIN members[c] : members[c][i].mem \in memoryIPMap

\* No thread uses an entry after another has removed or moved it.
EntriesStayInPlace == end # "undefined"
===============================================================================
