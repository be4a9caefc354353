# Lissandra: a verification development

Lissandra is a distributed key-value store in C with three programs and a shared library:

| program | directory | what it does |
|---|---|---|
| **Kernel** | `src/Kernel` | runs scripts of commands (LQL) on worker threads, chooses a memory for each by the consistency of its table |
| **Memoria** | `src/Memoria` | caches tables in frames, journals what was modified, finds other memories by gossip |
| **LFS** | `src/LFS` | the file system: a memtable that is dumped to `.tmp` files, which a compactor per table merges into partitions, stored in blocks |
| Shared | `src/Shared` | event loop and timers, sockets and packets, containers, configuration, console |

This directory holds TLA+ modules translated from that code, TLC configurations for small
instances, and theorems for every instance that TLAPS checks. `PROJECT.json` lists the runs,
gives for each definition the lines it stands for ("map"), and one mutation of the code's
definitions per property that TLC finds violated ("mutants"; in the modules they are the definitions
under a comment that starts with "Variant").

Run a check with `tlc -config MCRunner.cfg MCRunner`, and a proof with `tlapm RunnerProofs.tla`.

## 1. Inventory

### Memoria

*Main memory* (`MainMemory.c`, `SegmentTable.c`, `PageTable.c`). State: an array of frames with a
bitmap of those in use, a list of segments (one per table), each with a hash of pages by key; a page
has a usage counter, its frame and the `Dirty` flag; a flag `Full` caches that no frame can be had.
Operations: `Memory_InsertNewValue`, `Memory_UpsertValue`, `Memory_GetFrame`, `Memory_EvictPages`,
`Memory_DoJournal`/`Memory_CleanMemory`. Correct when: bitmap and pages agree and no two pages share a
frame; the key in a frame is that of its page; only clean pages are evicted, the least recently used
one first; `Full` is not believed when there is a page to evict; a modified page disappears only when its
table is dropped, when it is journaled, or when the process ends.

*API* (`API.c`, `Lissandra.c` side of the socket). Each operation works on the main memory and exchanges
messages with the LFS on one blocking socket. The dispatcher thread runs the kernel's requests and the
journal timer; the **console thread calls the same functions with no lock** (hard: interleaving inside
each wait for the socket). Correct when: what an INSERT accepted is in a modified page or in the LFS;
no cached page is made up or hides a newer write; each answer goes to the request it belongs to; together
with the LFS it is a store whose SELECT gives the newest write until it is saved (which saved one it gives is up to LFS).

*Gossip* (`Gossip.c`, the handshakes in `Handlers.c`). Two dictionaries: the peers to visit (from the
seeds of the configuration on) and the table that is shared. A worker thread visits peers in turn
and merges what they answer, the dispatcher answers visits meanwhile. Hard: memories that
stop and start at any time, list taken before and merged after the exchange, workers that wait for each
other. Correct when: rounds end; memories find each other, also after a restart; seeds that never ran are
not shared; those that stopped are forgotten (they are not: section 7).

*Start, handlers, console*: parsing, dispatch and ordered end of the process.

### LFS

*Tables* (`API.c`, `Memtable.c`, `Compactador.c`, `FileSystem.c`, `LissandraLibrary.c`). State: the
memtable; per table a directory with `Metadata`, partitions `N.bin`, dumps `N.tmp` and, during a
compaction, `N.tmpc`; `flock`s on the directories; one compactor thread per table and a
timer that dumps. Operations: INSERT, SELECT, CREATE, DROP, DESCRIBE, dump, compaction, start. Hard:
each is a series of steps on files; a dump empties the memtable before it takes any lock; DROP takes none
and cancels the compactor; threads are cancelled only at cancellation points; the process may
end between two file operations. Correct when: an accepted record is always somewhere until its table is
dropped; a SELECT under the lock sees a record as new as those on file; records are lost in the ways the code
lets them be and in no other; every lock is released; compactors work on their own table.

*Blocks* (`LissandraLibrary.c`, `FileSystem.c`). A bitmap of blocks, and files that list theirs. Files are
created, read, grown, overwritten, renamed and deleted in several steps by threads that mostly lock. Correct when:
no block has two owners, none leaks but where the process ends (those of its threads, and of a `.tmpc` it leaves, which the next
rename replaces without freeing them), and files read back as written.

*Handlers, start, console*: parsing and dispatch.

### Kernel

*Planner* (`Runner.c`): ready queue, a condition variable, worker threads that run a script for a
quantum of lines. Correct when: a script is in one place; no wake-up is lost; lines run in order; every ready script ends;
the quantum, which a reload may change, is not exceeded.

*Criteria and memories* (`Criteria.c`), *commands* (`Commands.c`), *metadata* (`Metadata.c`): a map
of the known memories, an array of memories per criterion (SC, SHC, EC) with a connection each,
the criterion of each table. Workers, console and dispatcher (discovery, periodic DESCRIBE) use them. Hard: most of it
is not locked, entries of arrays are pointed to while others erase them, a memory may go down or fill at
any point of an exchange. Correct when: a memory that leaves the map leaves the criteria (that those of the criteria are in the map is not so: section 7); a connection belongs to one entry; each
request gets its own answer; a memory that goes down ends one request and nothing else.

*Metrics*, *start and console*: averages for a report; reload of the configuration.

### Shared

*Timers and event loop* (`Timer.c`, `EventDispatcher.c`, `FileWatcher.c`, `Threads.h`). State: epoll's set of descriptors, a
hashmap from descriptors to interfaces (timers, sockets, the watcher of the configuration), per timer the flag
`TimerEnabled` and its interval. One dispatcher thread per process reads events and runs callbacks; gossip and dump
disarm their timer and start a detached thread that arms it again, a changed configuration sets timers again.
Hard: descriptors are reused at once, `PeriodicTimer_SetEnabled` runs in two threads with no lock, callbacks and
receives block the loop. Correct when: epoll, map and open descriptors agree, a timer has one worker at a time
and goes on firing, and the loop ends when it should.

*Sockets and packets* (`Socket.c`): a header with a size of sixteen bits, then the body, received with
`MSG_WAITALL`. Hard: the length that `recv` returns is only compared with zero, so a peer that ends, or SIGINT, within a
header or a body leaves a part that is taken for all. Correct when what is handled are the packets sent, whole and in order,
whatever parts they arrive in, but for the one in which that happens.

*Containers*: `hashmap.c` and `dictionary.c` are arrays of chains that double when the last free one is taken (hard: the size at
which they do, and the elements they move); correct when lookups are those of a function. List, vector, queue,
bitarray. *Configuration, strings, logging, console*.

### How they interact

```
 console ──RUN/ADD/…──> Kernel workers ──SELECT/INSERT/…/JOURNAL──> Memoria dispatcher
                             │ discovery (dispatcher)                  │ console thread: same API
                             └────────── gossip list ──────────────────┤
                                                     Memoria <─gossip─> Memoria
                                                                       │ one blocking socket
                                                                       v
                                      LFS dispatcher ── memtable ── dump ── compactors ── blocks
```

## 2. Modules

| module | models | composed with |
|---|---|---|
| `MainMemory` | frames, pages, LRU, `Full` | – |
| `WriteBuffer` | abstract: pending writes, which only DROP, journal and the end of the process take away | implemented by `MainMemory` |
| `MemoriaApi` | API functions, threads, the socket, the LFS as a store | `INSTANCE MainMemory`; implements it and `KeyValueStore` |
| `KeyValueStore` | abstract: tables, durable and pending writes, a read answers the pending one, or a durable one or none | implemented by `MemoriaApi` |
| `LFS` | memtable, dump, compaction, locks, crash and start | – |
| `Blocks` | the block allocator and the files made of blocks | – |
| `Gossip` | rounds of several memories | – |
| `Runner` | queue and workers of the kernel | – |
| `Kernel` | criteria, connections, metadata, commands | external memories |
| `HashTable` | hashmap and dictionary, as operators | – |
| `EventLoop` | dispatcher, timers, workers, reload, descriptors, framing of packets | `EXTENDS HashTable` |
| `MainMemoryProofs`, `RunnerProofs`, `GossipProofs`, `BlocksProofs`, `LFSProofs`, `EventLoopProofs`, `KernelProofs` | theorems of the module they are named after; `EventLoopProofs` has those of `HashTable` too | – |
| `MemoriaApiProofs` | theorems of `MemoriaApi` | `INSTANCE MainMemoryProofs` |
| `MC*` | instances for TLC | |

**MainMemory.** `frameStatus` is the bitmap, `memory` the frames, `segmentTable` the list of
segments (as a set: the order is never used but to search), `pages[<<table, key>>]` the page in the
segment's hash, `full` and `monotonicCounter` as in the code. The dispatcher runs each operation to its end, so
each is one action: `Memory_InsertNewValue` (get a frame: free, else evict the LRU clean page, else
`Full`), `Memory_UpsertValue`, `Memory_GetFrame` (a read stamps the page), `Memory_EvictPages` (DROP),
`Memory_DoJournal`, `Restart`. `journaled` is what the last journal handed to its callback, a history
variable. A frame keeps its old datum after an eviction, as the array does.

**MemoriaApi.** Between a send and its receive a thread waits in `pc[th]`; everything else of an API
function is one action with the action of MainMemory it calls. `requests` and `replies` are the
two directions of the socket, `FileSystem` serves one request as LFS may: `fsData` is every record it accepted, a SELECT finds
any of them or none (`Found`), since `lfs_gap` shows that a dump hides the newest and an LFS that ended has lost its
memtable; a CREATE may fail; a DROP may leave records that a dump under way writes into the table's next directory.
Nothing is thus assumed of LFS that the module LFS refutes. `API_Journal` is the loop of exchanges and the cleaning at its end. `answer` and
`accepted` are history. Garbage stands for the caller's buffer as it was.

**LFS.** One action per file operation, lock or memtable access: each rename, deletion and partition of a table is a step,
between which other threads act and the process may end. Two are taken together: the reads of a compaction (`Compact_Read`), whose
files nobody else changes but a DROP, which cancels it, and the writing of one file (see `Blocks`). `bin`, `tmp`, `tmpc` are the files of a table (their
records, or none), `inode` numbers the directories a table's name has had, `locks` are `flock`s on a directory and go
with it. Actions come in groups: `Insert_*`, `Select_*`, `Create_*`, `Drop_*`, `Describe_*` with
`traverse`, `Dump_*`, `Compact_*`,
`Crash`/`Die`/`Segfault`, `iniciarFileSystem`. `Drop_Open`, `traverse_to_drop` and `Drop_Dir` delete what was listed, a file at
a time; `Create_Bins` creates a partition at a time; `temporales_get_biggest_timestamp` reads a temporary file at a time, and
`Temporaries_Return` gives up, as the code does, when one that was listed is gone. A compactor is cancelled at a
cancellation point (`CancellationPoints`: sleep, and the reads, deletes and writes of files); the lock it held stays, of `Nobody`.

**Blocks.** `bitmap`, `disk`, `file[f]` (size and list of blocks, as the file's `SIZE` and `BLOCKS` say) and one
record of work per thread. Actions follow `crearArchivoLFS`, `leerArchivoLFS` (`Load`),
`_pedirBloquesNuevos`/`GiveUp`/`GiveBack`, `_escribirBloque`, `Save`, `borrarArchivoLFS`/`Unlink`, `_renombrarArchivoATmpc`. `stored` is history: what each
file should read. A file a DROP touched while another thread worked on it goes to `torn`; blocks that an
end of the process or a rename over another file left allocated to nobody go to `lost`.

**Gossip.** Per memory: `peers`, `table`, and its worker with the peers left to visit, the
copied list, the blacklist and the new discoveries. `handshakes` are sent and not yet handled. `Visit`,
`HandleHandshake`, `Merge`, `Disconnected`, `EndRound`; `Stop` and `Gossip_Init` at any time; `KernelHandshake`
is the kernel's visit.

**Runner.** `ready`, `task[s]` (lines and instruction pointer) and `worker[w]`, with its step, script, count of lines and quantum.
Sections under the mutex are one action; `CondWait` gives up the mutex; `SpuriousWakeup` is what POSIX allows.

**Kernel.** `memoryIPMap`, `members` (arrays of entries with their connection's requests and answers),
`metadata`, and per thread the command and the pointer to an entry it holds. The memories and
the file system behind them are external: they stop, start, fill and answer. Where the C code has undefined behaviour
(an entry freed or moved while another thread holds a pointer to it; a map element freed while it is visited) the model sets
`end = "undefined"` and stops; a NULL dereference sets `end = "crash"`. Properties speak of states before that.
An ADD is two steps, the lookup in the map and the connection, and anything happens between them. `Init` is after the
first discovery of `Criterias_Init`.

**HashTable.** A table is its size, its chains (sets: only iterators see their order) and the two counters of the code,
`table_current_size` and `elements_amount`. `Put`, `Get`, `Remove`, `HasKey` take what a lookup compares as a parameter,
`id`: the key in hashmap.c, its hash in dictionary.c, that does not compare the names. The hash function is a constant.

**EventLoop.** The dispatcher of a memory. `pc` says where it is: in `epoll_wait`, dispatching a `batch` of events, in the
callback of a timer (`fire`, `spawn`), of the watcher (`reload`, `set`) or in the first or second `recv` of a packet (`header`, `recv`). `call[th]` is a
thread inside `PeriodicTimer_SetEnabled`, whose check, `timerfd_settime` and store are three actions. `open`, `epoll` and
`fdiMap` (a `HashTable`) are the descriptors. `stream[p]` holds headers and bodies that arrived; the last of them may be a part.
`TakeHeader` is what follows the first `recv`: with the peer's header, or with one of `Garbage` when only a part of it was there
at the peer's end (`Recv_HeaderEnds`) or at SIGINT (`Interrupt_Header`), since nobody set the bytes that did not arrive. `Recv_Body`
takes a body, or the part of it that its peer left, and `Interrupt_Body` the part that had arrived at SIGINT: all are handled as whole.
The timers' worker threads, the system's timers (`Expire`) and the peers (`Connect`, `Socket_SendPacket`, `Arrive`,
`PeerEnds`) are the other actors. `disturbed` is history: how often a reload set a timer while a worker of its was active.

## 3. Runs

| run | instance | distinct states | what it shows |
|---|---|---|---|
| `memory` | 2 tables, 2 keys, 2 frames | 9,886 | With two frames for four possible pages every operation of MainMemory.c, in any order and with restarts, keeps frames and pages consistent and never loses a modified page but to DROP, the journal or the end of the process. Properties: `TypeOK`, `OneOwnerPerFrame`, `FrameHoldsPageKey`, `FullMeansNoVictim`, `DistinctCounters`, `ImplementsWriteBuffer`. |
| `api` | 1 table, 2 keys, 1 frame, the dispatcher | 36,911 | With one thread in the API, what an INSERT accepted stays in a modified page or reaches the file system through any eviction, journal, DROP and restart, no cached page is made up or hides a newer write, and the API over the socket refines both MainMemory (each exchange is one step of it) and a key-value store whose SELECT returns the newest write until it is saved, and which forgets none that is not. Properties: `TypeOK`, `PagesAgreeWithRecords`, `ConnectionStaysInStep`, `ImplementsMainMemory`, `ImplementsStore`. |
| `api_race` | as `api`, 2 frames, with the console | violated | With the console thread next to the dispatcher, an INSERT accepted while a journal waits for the file system is wiped by the journal's cleaning. Properties: `NoAcceptedWriteIsLost`. |
| `lfs` | 2 clients, a dumper, a compactor; INSERT and SELECT | 234,660 | Inserts and selects of two clients against the dump thread and a compactor, in every interleaving of their steps: no accepted record is lost and no file operation hides one from a SELECT that holds the lock. Properties: `TypeOK`, `NoRecordLost`, `SelectIsNotStale`, `PartitionsAreMerged`. |
| `lfs_crash` | 1 client; INSERT, SELECT, CREATE, DROP, DESCRIBE; crashes, restarts; space runs out; fair | 122,395 | One client that also creates, drops and describes, a file system that may run out of blocks and a process that may end at any step: a compactor works only on the table it is registered for, the newest record of a key gets older in nine ways only, and who waits for the lock of a table gets it, unless DROP cancelled the compactor that holds it or left a directory with which the process cannot start. Properties: `CompactorsFollowTables`, `RecordsAreLostInNineWays`, `EveryLockIsReleased`. |
| `lfs_gap` | as `lfs` | violated | A record whose dump has taken it from the memtable and not written it yet is nowhere a SELECT looks. Properties: `SelectSeesAcceptedInserts`. |
| `runner` | 2 scripts, 2 workers, fair | 21,812 | Two workers and two scripts of up to three lines, with RUN, failures, preemption, reloads of QUANTUM and spurious wake-ups: no script is lost, shared or run out of order, and every READY script is run to its end although scripts keep being added. Properties: `TypeOK`, `OnePlacePerScript`, `NoLostWakeup`, `QuantumIsRespected`, `LinesRunInOrder`, `EveryScriptEnds`. |
| `gossip` | 2 memories that stop and start, fair | 7,113 | Two memories of which one knows the other as its seed, that start, stop and start again in any order while their rounds and handshakes interleave: rounds end, seeds that never ran are not shared, and they find each other. Properties: `TypeOK`, `OnlyMemoriesThatRanAreShared`, `EveryRoundEnds`, `EveryMemoryIsFound`. |
| `kernel` | 2 memories, a worker, the dispatcher | 1,423,240 | Commands of a worker, ADD among them, while the dispatcher discovers memories and describes the tables, with a memory that is added to two criteria, fills up, stops and starts at any step: a memory that leaves the map leaves every criterion with its connections, and every request gets its own answer, as long as nobody uses an entry that another thread removed. Properties: `TypeOK`, `MemoriesAreForgottenWhole`, `ConnectionsStayInStep`. |
| `kernel_down` | as `kernel` | violated | A memory that answers INSERT with MEM_FULL and stops before the second attempt: the loop of HandleInsert reads the opcode of a packet it did not get. Properties: `AMemoryDownEndsOneRequest`. |
| `blocks` | 3 blocks, a `.tmp` and its `.tmpc`, 2 threads, crashes | 630,670 | Two threads that create, overwrite, rename and delete the .tmp and the .tmpc of a dump on three blocks, with failures for lack of blocks, DROPs that do not lock and the end of the process at any step: until a deletion is interrupted blocks are not shared, only the end of the process and a rename over a .tmpc leak any, and files read back. Properties: `TypeOK`, `OneOwnerPerBlock`, `BitmapIsExact`, `ReadsBack`. |
| `event_loop` | an inline and a worker timer, 2 worker threads, 1 peer, 1 reload, fair | 156,408 | The dispatcher of a memory with an inline timer, a timer with its worker thread, reloads of the configuration, SIGINT at any time and a peer that connects twice and may end within a header or a body: one worker at a time unless a reload comes in between, packets whole and in order but for the last, descriptors, map and epoll in agreement, and a loop that nothing stops but a peer that neither goes on nor ends. Properties: `TypeOK`, `OneWorkerPerTimer`, `PacketsArriveWhole`, `EveryDescriptorHasItsInterface`, `TheLoopGoesOn`. |

### Bounds and why they are enough

* **MainMemory**: two tables × two keys on two frames: more pages than frames, so eviction, refusal
  and `Full` all happen, and victims of the same and of another table. `MaxCounter` 5 bounds
  how often pages are stamped between journals, enough for each frame to be replaced twice. One
  timestamp: the module only copies it.
* **MemoriaApi**: one frame for two keys: every second operation evicts or is refused. `MaxClock`
  bounds INSERTs (the clock moves only with them), `MaxCounter` page stamps. The race needs
  two frames and three INSERTs.
* **LFS**: `MaxTime` bounds INSERTs, `MaxTmp` names of dump files, `MaxInode` re-creations of a directory.
  Two clients and two partitions for safety; for crashes and DROP one key, two records, two dump files and two
  directories, so that an old `.tmpc` meets a new `.tmp` of the same number and a table is created again. One dumper and one compactor per table, as the code has.
* **Blocks**: three blocks of two bytes, two files of which one is renamed to the other, contents of one and three blocks, so that a file
  needs all, growth fails half-way and gives back. `Bounds` stops at states in which a file is torn or
  two blocks were lost; the properties except torn files, and a second loss repeats the first.
* **Gossip**: two memories, one the seed of the other, two stops. With three memories and one stop
  TLC found no safety error in the 1.2 million states it reached in the time given, but does
  not end: it is not a run.
* **Runner**: quanta 0 (never preempts) and 2, scripts of up to three lines: preempted with one line
  left, ended exactly at the quantum, and empty.
* **EventLoop**: five descriptors, of which four are taken at start, in a map that starts with four chains: the hashes put
  two in one chain, and the fifth descriptor, which the peer closes and gets again, makes the map grow. Two
  expirations that nobody read (`MaxExpiries`), one change of the configuration between intervals 0, 1 and 2
  (`MaxReloads`), two connections of a peer with two and one packets (`MaxConnections`, `MaxPackets`), of a size that wraps in
  sixteen bits, that is refused, without contents, and with an opcode that has no handler. What is read of a header that came in
  part (`Garbage`) has a body, or none. Two workers are as many as
  one reload can cause. In a behaviour either the configuration changes or the peer connects, and what happens
  outside happens when the dispatcher looks (in `epoll_wait`, and in `recv`): earlier it would see no difference.
* **Kernel**: a worker and the dispatcher, one table, memory 2 in SC and SHC (so that one memory has two
  entries), the seed 1 not added; one stop, one fill, one pending JOURNAL.

Symmetry is used only in runs without liveness (`memory`, `api`, `lfs`, `blocks`, there of the threads only). Deadlock is checked but
in `kernel`, `kernel_down` (the kernel may have crashed), `lfs_crash` (the process does not start
again on a directory without Metadata) and `event_loop` (the process ends when it is told to).

### Fairness

* `Runner`: weak fairness of each worker. A line ends (the code has no unbounded wait but for the memory's
  answer), and a thread that wants the mutex of the queue gets it. No fairness of
  RUN, of reloads or of spurious wake-ups.
* `LFS`: weak fairness of each thread's next step; of a client only once it has a request.
  Strong fairness for `flock`: it is given and taken back repeatedly, and the operating system's `flock` wakes who waits
  each time it is free. This is honest only without overlapping readers, who can starve a writer, so the run has one
  client. The process is started again after it ended. `EveryLockIsReleased` excepts a lock that a cancelled compactor
  holds and a directory with which the process cannot start: the code does both (section 7).
* `Gossip`: each memory that is not running starts, a worker goes on, and a memory that runs
  answers a handshake; `Stop` is never required.
* `EventLoop`: weak fairness of the dispatcher, of each worker thread (the work of a gossip round or a dump ends), of
  an armed timer's expiration, and of `Arrive`: a peer that began a packet sends the rest, or ends. Without the last the
  loop stands in `recv` for ever, for the code has no timeout there. It also stands there when SIGINT came within a header: the body
  the garbled header asks for may never come (`WaitsForNothing`, which `TheLoopGoesOn` excepts). Nobody must connect, send, reload or stop.
* No liveness is stated for the kernel, whose memories give no guarantee to answer.

### What the code does not do as it says

Three runs are expected to be violated, each by what the code does against its own comments:

* **api_race** (`NoAcceptedWriteIsLost`, `Memoria/MainMemory.c:131`): the console inserts
  while the journal waits for the LFS; the cleaning at the end of the journal drops a page that was never sent.
* **lfs_gap** (`SelectSeesAcceptedInserts`, `LFS/Memtable.c:171`): a dump takes the memtable before it locks;
  until the `.tmp` is written the records are where no SELECT looks.
* **kernel_down** (`AMemoryDownEndsOneRequest`, `Kernel/Commands.c:186`): a memory answers `MEM_FULL` and
  goes down before the second attempt; the loop reads the opcode of a packet that is NULL.

## 4. Refinement

* `MainMemory` implements `WriteBuffer` under `pending <- DirtyFrames` (the datum of each modified page),
  `flushed <- journaled`. Model-checked (`ImplementsWriteBuffer`) **and proved**.
* `MemoriaApi` implements `MainMemory` (`ImplementsMainMemory`, the identity on the memory's variables): though a
  journal is many steps, with one thread the memory changes as by MainMemory's atomic operations.
* `MemoriaApi` implements `KeyValueStore` (`ImplementsStore`): `durable <- fsData`, `pending` the
  modified pages, `dropping` the tables whose DROP was sent. Frames, eviction and
  the journal's steps are invisible. Both are model-checked **and proved**, with one thread: with two they are false (api_race).

## 5. Theorems

| theorem | statement |
|---|---|
| `MemoryTypeOK`, `MemoryOneOwnerPerFrame`, `MemoryFrameHoldsPageKey`, `MemoryFullMeansNoVictim`, `MemoryDistinctCounters` | `Spec => []...` of `MainMemory` |
| `MemoryImplementsWriteBuffer` | `Spec => ImplementsWriteBuffer` |
| `RunnerTypeOK`, `RunnerOnePlacePerScript`, `RunnerNoLostWakeup`, `RunnerQuantumIsRespected` | `Spec => []...` of `Runner` |
| `RunnerLinesRunInOrder` | `Spec => LinesRunInOrder`, an action property of `Runner` |
| `PutThenGet`, `RemoveThenGet` | every operation of `HashTable` keeps tables well formed, and changes the lookup of its own key only |
| `HashmapIsAFunction` | hashmap.c is a function from keys to values; its amount is the number of keys that have one |
| `PutLeavesAFreeChain` | a table that has a free chain has one after any put |
| `DictionaryTellsHashesOnly` | to dictionary.c two names of one hash are one name |
| `GossipTypeOK`, `GossipSharesWhatRan` | `Spec => []...` of `Gossip` |
| `BlocksTypeOK`, `BlocksOneOwnerPerBlock`, `BlocksBitmapIsExact`, `BlocksReadsBack` | `Spec => []...` of `Blocks` |
| `LFSTypeOK`, `LFSPartitionsAreMerged` | `Spec => []...` of `LFS`, whatever clients ask for and whenever the process ends |
| `LFSCompactorsFollowTables` | `Spec => []CompactorsFollowTables`, without CREATE or with one client (`OneWriter`) |
| `LFSSelectIsNotStale` | `Spec => []SelectIsNotStale`, without DROP (`NoDrops`) |
| `LFSNoRecordLost` | `Spec => []NoRecordLost`, when nothing is asked for that loses records (`Lossless`) |
| `LFSRecordsAreLostInNineWays` | `Spec => RecordsAreLostInNineWays`, an action property of `LFS`, under `OneWriter` and with one dump at a time (`OneDumper`) |
| `EventLoopTypeOK`, `EventLoopOneWorkerPerTimer`, `EventLoopDescriptors`, `EventLoopPacketsArriveWhole` | `Spec => []...` of `EventLoop`: `TypeOK`, `OneWorkerPerTimer`, `EveryDescriptorHasItsInterface`, `PacketsArriveWhole` |
| `KernelTypeOK`, `KernelConnectionsStayInStep`, `KernelSocketsAreCounted` | `Spec => []...` of `Kernel`, whatever overlaps |
| `KernelMemoriesAreForgottenWhole` | `Spec => MemoriesAreForgottenWhole`, an action property of `Kernel` |
| `ApiTypeOK` | `Spec => []TypeOK` of `MemoriaApi`, for any number of threads |
| `ApiConnectionStaysInStep`, `ApiPagesAgreeWithRecords` | `Spec => []...` of `MemoriaApi`, for one thread |
| `ApiImplementsMainMemory`, `ApiImplementsStore` | `MemoriaApi` implements `MainMemory` and `KeyValueStore`, for one thread |

**Assumptions.** `MainMemory`: at least one frame, a bound of the usage counter that is a number, and that the
value for "no page" is not a page. `Runner`: `RunnerAssumption`, that `NoScript` is not a script, quanta are numbers, and
the bound of lines is one. `HashTable`: `HashAssumption`, that hashes are numbers. `Gossip`: a finite set of memories, numbered, and each
one's seeds among them. `Blocks`: a number of blocks, of at least one byte, contents that are sequences of bytes, and that the
marks for no file and no content are neither; and that no file is renamed to itself. `MemoriaApi`: what `MainMemory` assumes, and that the marks for no write, no key, no table and
garbage are none of the keys and values. `LFS`: at least one partition, keys and bounds that are numbers, and three sets of threads
that have none in common. `EventLoop`: `EventLoopAssumption`, types, and at least one chain and one size of a header;
`NamesAssumption`, that timers, peers, the watcher and the listener are not each other, that each timer is created once
(`Memoria.c`, `Gossip.c`), and that there is a thread for each timer started before the loop and a descriptor for each interface (section
6). `Kernel`: `KernelAssumption`, that the seed is a memory and its first key none, the dispatcher no worker, and ADDs and consistencies
are of the three criteria. The sets of tables, keys, values, timestamps, scripts, workers, files, threads and bytes are
arbitrary. TLC evaluates these assumptions in the runs.

**MainMemoryProofs.** None of the invariants is inductive alone. When a clean page is evicted,
the code finds its slot by the key *in the frame*, so that what is removed is the victim's page only
while `FrameHoldsPageKey`; that the frame is then owned by the new page only needs `OneOwnerPerFrame`; that the page
is unique among those least recently used needs `DistinctCounters`; `FullMeansNoVictim` is kept by
a DROP because a page dropped is not there to evict. `NoEmptySegment` ties segments to pages for
the two ways the code goes through them. `IInv` is their conjunction with `TypeOK`. The proof has one lemma per operation
(`NewPagePreserves`, `TouchPreserves`, `EvictPagesPreserves`, …) that `NextPreserves` joins.
The refinement uses the same `IInv`: `NewPageBuffer` shows that an eviction leaves `DirtyFrames` alone
but for the slot written, since the victim was clean and its frame nobody else's.

**RunnerProofs.** `IInv` is the conjunction of the four. That `Append` and `Tail` keep a script in one place
is `PushHasEffect` and `PopPreserves`; `NoLostWakeup` holds over a push because either nobody waits or
the signal takes one worker out of `wait`; `QuantumIsRespected` needs `OnePlacePerScript`, for a
script's lines not to be consumed by another worker. `RunnerLinesRunInOrder` follows from the same invariant:
only `Fetch` changes a script that is not free, and the worker that fetches holds it before and after (`StepKeepsOrder`).

**EventLoopProofs, the map.** The invariant of `HashTable` is `WellFormed`: each element is in the chain of its hash, no two elements have one
`id`, and the counters are the number of chains in use and of elements. It is proved once for any `id` that tells no more than
the key and no less than the hash (`Tells`): a lookup looks at one chain only, so that elements that are equal to it must be
in one chain. `ReplacingOneChain` and `UsedAfterReplacing` say what an operation on one chain does to elements and
counters, `ResizeKeeps` that growing loses nothing. For `PutLeavesAFreeChain`: a put may take the last free chain, and then
doubles the array; its new element, alone in chain `i` before, is in chain `i` or `i + n` after, and no other
element is in either (`RemainderOfHalf`), so that one of the two is free. These are theorems about operators, for
every size, hash and set of keys; the run `event_loop` uses the same operators.

**GossipProofs.** `OnlyMemoriesThatRanAreShared` is about tables; what gets into them was in an answer or came with a
handshake. `HandshakesAreAwaited` says that who sent a handshake ran, and that one still open is the one visit of a
worker that waits for it; `ListsInTransit`, that the lists workers got hold memories that ran. The seeds are in `peers` from the start
and do not get into a table by `RemoveAndBlock` or `Merge`, because only what a list holds is added.

**BlocksProofs.** The invariant has three layers, proved in turn. `TInv`: the types, and that a thread that does not delete has a content to
write; always. `OInv`, as long as no deletion is torn: a file is worked on by one thread, which knows its list of blocks as it is; each
block has one owner (a file, a thread that allocated it, or nobody any more), and the marked ones are those that have one
(`Owners`). The lemmas `OwnersTake`, `OwnersGive`, `OwnersToFile`, `OwnersToThread`, `OwnersMoved` and `OwnersLost` are the only ways a block
changes hands, and each action is one of them. `RInv`: the bytes stored in a file are in its blocks, at the block and offset that
the size of a block gives (`WhereBytesAre`), and a thread that writes has blocks for its content and has written the first of
them. It is kept because a thread writes to blocks that nobody else owns (`WriteKeepsContents`), so that it needs `OInv`.

**MemoriaApiProofs.** A step of an API function changes the memory as an operation of `MainMemory` does or not at all (`MemoryStep`), so
that its invariant, proved in `MainMemoryProofs` and used here through `INSTANCE`, holds of the memory behind the
API. To it `IInv` adds what is on the socket at each point of an exchange (`InStep`), that what a journal has handed over and what it has left are
together the modified pages (`JournalIsTheBuffer`), that no record is from the future, and `PagesAgreeWithRecords`. The types hold for
any number of threads; the rest for one, `Threads = {d}`: the dispatcher without the console, which is how memories run when nobody
types. With two threads all four theorems are false (`api_race`, section 7), so the hypothesis is not for the prover's sake. The refinement of
`KeyValueStore` is proved step by step (`HitStore`, `AnswerStore`, …, `FileSystemStore`): a write gets into `pending` when it is
accepted and is durable when LFS serves the journal's request; an eviction is invisible since the
page evicted is durable.

**LFSProofs.** Six invariants, each a conjunction of named parts. `TInv` adds to the types what each thread knows at each of its
steps. `PInv` adds to `PartitionsAreMerged` that what a compactor carries is the newest of each key: `Merged` makes it so, and a
partition is only ever written with a part of it. `FInv` adds to `CompactorsFollowTables` that a client that creates is alone with
its table, from the `mkdir` to the compactor, and one that drops from the end of the compactor to the `rmdir`. `LInv` is about
`flock`: a name has one directory, who is past the lock has it, and an exclusive lock is the only one of its table. With it,
what is on file for a SELECT that has the lock stays (`ReadersExclude`), so that `ReadsSoFar` holds: what the partition, the
temporary files and the memtable gave together is no older than what was on file. `NInv` is for `NoRecordLost`: a
dump has a file of its own to write to and forgets what it took only when written; the `.tmpc` files of a table are there between the renaming
and the deletion only, so that no renaming replaces one (`NoTmpc`); and what a compactor has merged covers all the `.tmpc` files it
deletes and all the partitions it has yet to write (`CompactionsAreWhole`). Each step then keeps, for every record held, one of its key
that is as new (`NothingLost`), be it on file or in the hands of a dump or a compactor (`Held`).
`RInv` is for `RecordsAreLostInNineWays`, whatever is asked for and whenever the process ends: what a compactor has merged covers what it
deletes and has yet to write (`CompactionsHaveRead`), as in `NInv` but without `Lossless`; a dump has written all it took when it
ends (`DumpsStartEmpty`), and writes to a file with nothing in it (`DumpsToEmptyFiles`); and the compactor that a DROP cancels is that of
its table (`CompactorsOfTables`). Every step then keeps the newest record of a key wherever it is (`Kept`), or is one of the nine
of the property (`Excused`), each of which names the step, its table and, for a partition, its keys.
The hypotheses are the code's and not the prover's: TLC finds `CompactorsFollowTables` violated with two clients that create,
`SelectIsNotStale` with DROP, and with CREATE when there is no room for a table (which drops it); `RecordsAreLostInNineWays` says how records are
lost when `Lossless` is false, and is violated with two clients that create and with two dumps (section 7). `Lossless` leaves out DESCRIBE
as well, since a DESCRIBE that overlaps a compaction ends the process, and has one client create: the directory of a table that another
is still creating has not all its partitions.

**EventLoopProofs, the loop.** Four invariants. `TInv` adds to the types what each step of the dispatcher has at hand and what each call of
`PeriodicTimer_SetEnabled` is about: a worker only arms its own timer, the dispatcher disarms the one it fires or sets again. None of
the steps of a call is locked, so `OneWorkerPerTimer` is proved by counting (`WInv`): the workers of a timer, and what may yet
become one (`Tokens`: the timer while it is enabled, or while a reload is setting it again, and the dispatcher between its call and
`pthread_create`), are one and one more for each reload that disturbed it. A worker that ends gives its place to the timer it
enables; `StoreKeeps` is where two threads could store over one another, and do only if a reload disturbed the timer. Who is between
`timerfd_settime` and the store knows what the system was told (`ArmedAt`). `DInv`: who is open, watched and in the map is the
same, no interface has two descriptors, and each event still in the batch is of an open one, since only the interface whose
event was taken is ever closed while a batch is dispatched. The map's part is `PutThenGet`, `RemoveThenGet` and `HashmapIsAFunction`
for the key itself (`MapPut`, `MapRemove`, `MapEmpty`); that `accept` finds a descriptor
follows by counting (`FreeDescriptorIsFree`). The map that the process starts with is built by a recursive function: that
it has the interfaces of the start is shown for each prefix, by the least one for which it would not (`MapAtStartHas`); and that
the n-th descriptor exists likewise (`EveryRank`).
`PInv` numbers the headers and bodies on a connection by the packets they are of: they are consecutive, begin after what was handled,
and end with what was sent (`Positions`); taking the first, appending one, and the end of a peer within a body keep a numbering
(`TakesFirst`, `GetsPart`, `GetsHeader`). What the dispatcher has in hand between its two receives is the header of the first body, or
garbage in place of it. A part that is taken for all is of the last packet: its peer has ended, or SIGINT has told the loop to end, and then
the dispatcher never again waits for events (`InterruptionLasts`), which is when its peer could send another.
All four hold without further hypotheses: reloads, ends of peers and of the process included.

**KernelProofs.** `ConnectionsStayInStep` is about who waits; what keeps it is about what is in each connection (`Sound`): a request that is
to be answered, and an answer, are those of the one thread that waits there; there is one of them, any number of JOURNALs, which
nobody waits for, around it; and whoever waits has it, or the connection is broken, with no request left. One thread waits at an entry
(`OneWaits`), since `MemLockFree` is asked before anything is sent, and the broadcast of JOURNALs, which does not ask, adds only what nobody
answers. Each way a connection changes is a lemma about one entry, for any threads (`SoundSent`, `SoundServed`, `SoundJournalServed`,
`SoundReceived`, `SoundWithJournal`, `SoundWhenBroken`), and a thread that has nothing in a connection may move (`SoundForOthers`).
When memories are taken out, entries move up; the model says `end = "undefined"` when a thread holds one that goes or moves,
and else entries that are held are where they were (`EntryStays`), so that one that moved is nobody's (`SoundWhenMoved`). Of an undefined
state, in which no thread goes on, the invariant claims the types, and that requests are of who asks: what memories that still
answer need. What `Without` leaves (`WithoutHas`) is known of all its prefixes, since there is no least one for which it fails.
`SocketsAreCounted` is kept by every step because a connection is opened with an entry and closed with it, whatever the step
(`CountedInPlace`, `ConnectCounted`, `CountedWhenDisconnected`). From it `MemoriesAreForgottenWhole`: what a step takes out of the map is what it
disconnects (`DownDisconnects`, `RefusedDisconnects`, `EndUpdateDisconnects`), and of a memory that is in no criterion no
socket is counted. No hypothesis about ADD is needed. The converse, that a memory of a criterion is in the map, is false (section 7).

**Only model-checked**: liveness (`EveryScriptEnds`, `EveryLockIsReleased`, `EveryRoundEnds`,
`EveryMemoryIsFound`, `TheLoopGoesOn`), which is out of the prover's reach. Every invariant and every action property of the runs
that pass is stated by a theorem.

## 6. Abstractions

* **Data.** Keys, values, tables, contents are model values; a packet is a record; a hash is any
  choice (the entry of SHC for a key), a modulus stays (`Part` in LFS). Parsing, formatting, logging and
  what DESCRIBE prints are left out.
* **Main memory.** The usage counter is bounded (a `size_t` in the code).
* **API.** The clock moves with each INSERT: `RETARDO_MEM` makes two INSERTs of one thread fall in
  different milliseconds, and `hazards` names what happens otherwise in LFS. One memory per LFS, whose own console is not used. A page filled by a
  SELECT in the gap of a dump keeps the older record until it is written or evicted: `fsData` allows it, so no property says that
  a clean page is the newest record. An INSERT that is
  too long changes no state; the tables of a DESCRIBE go to the caller and are not kept. What LFS had not read from the socket when the process ends is lost.
* **LFS.** Timestamps are unique. A file is read or written in one step (`Blocks` takes that apart). The initial
  state is a stopped process over a file system with some empty tables. A section under the memtable's
  mutex is one step.
* **Blocks.** One table, a file stands for a path; the table's lock is "no other thread works on the file" (a rename needs that nobody writes the two files; a DROP may be deleting them).
* **Gossip.** One address per memory and a number for both; adding the entries of a list is one step, though the code takes the
  lock for each; memories visit in the same order. The timer starts one worker at a time.
* **Runner.** With quantum 0 the wrap of the counter after 2^32 lines is ignored. `QUIT` and
  `ProcessRunning` are not modelled. Script slots are used again.
* **EventLoop.** The worker's and the handlers' work, addresses, what packets hold. The second word of a timer's interval, which
  `timerfd_settime` reads while a reload writes it, is not torn. The number of events that one
  `epoll_wait` returns (20) is not reached.
  The process does not run out of descriptors (`NamesAssumption`). After the loop no worker goes on, although a detached one may still call
  `PeriodicTimer_SetEnabled` on a timer that was freed.
* **Kernel.** `Criterias_BroadcastJournal` and the end of a discovery are one step each; so is `Metadata_Get`'s
  reading of the entry, and so is each operation on an array (two ADDs that append to one at the same moment are two steps); counters
  for the report are left out. After an answer that is refused for its size (`Serve_TooLarge`) the connection is as a broken one; its unread
  bytes could be taken for a header if the memory was no longer in the map, and so stayed.

**Not modelled**: the kernel's metrics (averages for a report: they change nothing else); list, vector, queue and bitarray
(sequences, sets and functions in the modules of their users); how a connection is tried and times out
(`_connectTimeout`: it is made or it is not), name resolution; the accept of the LFS, that
receives the handshake in its dispatcher and then gives each memory a thread (`memoria_conectar`); system calls that fail in
the event loop, a `pthread_create` for a worker among them; configuration, strings, logging and console.

## 7. Known divergences beyond the runs

These properties are defined in the modules, TLC finds them violated, and no run lists them. Change the named
configuration to see the trace.

| property | module, line of the code | how |
|---|---|---|
| `FullIsWhatTheSearchWouldSay` | MainMemory; `MainMemory.c:182` | INVARIANT in `MCMainMemory.cfg`: DROP frees frames and `Full` stays set |
| `ConnectionStaysInStep` | MemoriaApi; `API.c:52` | `Threads = {dispatcher, console}` in `MCMemoriaApi.cfg`: answers are swapped |
| `DumpFindsItsTable`, `NothingSurvivesADrop` | LFS; `Memtable.c:107` | PROPERTY and INVARIANT in `MCLFSCrash.cfg`: records that a dump has taken arrive in the table created after |
| `OneCompactorPerTable` | LFS; `API.c:127` | INVARIANT in `MCLFSCrash.cfg` with `Clients = {c1, c2}`, `Compactors = {x1, x2}`, `Ops = {"create"}` |
| `RecordsAreLostInNineWays` | LFS; `Memtable.c:145` | PROPERTY in `MCLFSCrash.cfg` with `Dumpers = {d1, d2}`, `SpaceRunsOut` and `Crashes` `FALSE`: a dump that was at its `.tmp` when the table was dropped and created again writes over the `.tmp` that another made since; and with two clients that create |
| `DirectoriesHaveMetadata` | LFS; `API.c:208` | INVARIANT in `MCLFSCrash.cfg` with `Crashes = FALSE`: a `.tmp` is created after DROP has listed the files |
| `EveryLockIsReleased` without `Abandoned` | LFS; `Compactador.c:183` | a compactor that DROP cancels keeps its `flock` and the dump waits for ever |
| `DescribeFindsWhatItLists` | LFS; `LissandraLibrary.c:254` | INVARIANT in `MCLFSCrash.cfg`: a compaction renames a `.tmp` that DESCRIBE has listed; its `stat` fails and `list_size` reads a NULL list |
| `EveryLockIsReleased` | LFS; `Memtable.c:117` | `Clients = {c1, c2}` in `MCLFSCrash.cfg`: SELECTs that overlap keep the dump from the lock |
| `ATimerHasOneWorker` | EventLoop; `Gossip.c:348` | INVARIANT in `MCEventLoop.cfg`: a reload while a worker is active arms the timer and a second worker starts, although the comment says the worker tells that it ended "para que el siguiente pueda ejecutar"; the two may leave the timer disarmed with `TimerEnabled` set |
| `DeadMemoriesAreForgotten` | Gossip; `Gossip.c:191` | three memories, `Restarts = FALSE`: two of them give a stopped one back to each other; TLC does not end in minutes |
| `EntriesStayInPlace` | Kernel; `Criteria.c:479` | INVARIANT in `MCKernel.cfg`: a pointer into an array from which another thread erased |
| `MembersAreKnown` | Kernel; `Criteria.c:182` | INVARIANT in `MCKernel.cfg`: an ADD looks a memory up, a failed request of another thread takes it out of map and criteria, the ADD connects to it and adds it. `_disconnectMemory` then does nothing for it ("Intento de quitar memoria %u no existente!", line 489): once down it stays, and every request that chooses it fails |

Hazards with no property are in `PROJECT.json` with the reason: several memories that hold pages of one table, equal
timestamps in one millisecond, SHC when memories join or leave, names of equal hash in a dictionary (proved to be one name),
a worker thread that cannot be created.

## 8. Plan

Written so far, in order of importance: `MainMemory`, `MemoriaApi` with its abstract store, `LFS`, `Runner`, `Blocks`,
`Gossip`, `Kernel`, `HashTable`, `EventLoop`, and eight proof modules. Next, to model:

* Kernel and values together: what SC, SHC and EC promise about the value a SELECT gives when memories
  join and leave; several memories that cache one table.
* Liveness of the kernel's commands, with fairness for each connection.
* Gossip with three memories under a reduction that lets liveness end.
