---------------------------------- MODULE LFS ---------------------------------
(***************************************************************************)
(* The tables of the file system process: API.c, Memtable.c, Compactador.c *)
(* and the files of LissandraLibrary.c.  Client threads (one per memory    *)
(* connection and the console) select, insert, create and drop; the dump   *)
(* thread moves the memtable to .tmp files; one compactor thread per table *)
(* merges .tmp files into the .bin of each partition.                      *)
(*                                                                         *)
(* The steps of a thread are separated where another can overtake it.  A   *)
(* directory is locked with flock, which locks the inode a descriptor was  *)
(* opened on; files are reached by path.  Blocks are abstracted to whether *)
(* the file system has space; module Blocks models them.                   *)
(*                                                                         *)
(* A record is its key and its timestamp; timestamps are unique, so a      *)
(* timestamp stands for the value written with it.                         *)
(***************************************************************************)
EXTENDS Integers, FiniteSets, FiniteSetsExt

CONSTANTS Tables,
          Keys,           \* numbers: a key's partition is its remainder
          NumPartitions,
          Clients, Dumpers, Compactors,   \* threads
          Nobody,         \* no thread
          Ops,            \* the operations clients ask for
          MaxTime,        \* bound of the timestamps, and so of the inserts
          MaxTmp,         \* bound of the .tmp files of a table
          MaxInode,       \* bound of the times a table is dropped
          SpaceRunsOut,   \* whether buscarBloqueLibre may find no block
          Crashes         \* whether the process may end and start again

ASSUME PartitionsAssumption == NumPartitions \in Nat \ {0} /\ Keys \subseteq Nat
ASSUME FlagsAssumption == SpaceRunsOut \in BOOLEAN /\ Crashes \in BOOLEAN
ASSUME BoundsAssumption == MaxTime \in Nat /\ MaxTmp \in Nat /\ MaxInode \in Nat
ASSUME ThreadsAssumption ==
  /\ Clients \cap Dumpers = {} /\ Clients \cap Compactors = {} /\ Dumpers \cap Compactors = {}
  /\ Nobody \notin Clients \cup Dumpers \cup Compactors

Partitions   == 0 .. NumPartitions - 1
Record       == [key : Keys, timestamp : 1 .. MaxTime]
TmpNames     == 0 .. MaxTmp - 1
NoFile       == {[key |-> -1]}        \* not a set of records
File         == (SUBSET Record) \cup {NoFile}
Threads      == Clients \cup Dumpers \cup Compactors

VARIABLES dirs,        \* directories under Tables/
          metadata,    \* those with their Metadata file
          inode,       \* how many times each table's directory was removed
          bin, tmp, tmpc,   \* the contents of the files of each table
          memtable,    \* the records of each table in memory
          old,         \* per dump thread, the memtable it took and has not written yet
          locks,       \* flock's: who holds which inode, and how
          registered,  \* hilosCompactador
          pc,          \* the step each thread is at
          clock,       \* the last timestamp given
          acked        \* the records api_insert has accepted into the current table

files == <<bin, tmp, tmpc>>
vars  == <<dirs, metadata, inode, files, memtable, old, locks, registered, pc, clock, acked>>

At(steps) == [at : steps]
ClientSteps == {"idle", "insert", "lock", "bin", "tmp", "temps", "mem", "done", "mkdir", "metadata", "bins", "compactor",
                "memtable", "cancel", "list", "delete", "tables", "entries", "down"}

\* What the memtable, the files of a table, their locks and the steps of clients, dumper and compactors
\* hold while the FileSystem of LissandraFS runs, also after its process ended and started again.
TypeOK ==
  /\ dirs \subseteq Tables /\ metadata \subseteq dirs
  /\ inode \in [Tables -> Nat]
  /\ bin \in [Tables -> [Partitions -> File]]
  /\ tmp \in [Tables -> [TmpNames -> File]]
  /\ tmpc \in [Tables -> [TmpNames -> File]]
  /\ memtable \in [Tables -> SUBSET Record]
  /\ old \in [Dumpers -> [Tables -> SUBSET Record]]
  /\ locks \subseteq [thread : Threads \cup {Nobody}, table : Tables, inode : Nat, exclusive : BOOLEAN]
  /\ registered \in [Tables -> Compactors \cup {Nobody}]
  /\ DOMAIN pc = Threads
  /\ \A c \in Clients : pc[c].at \in ClientSteps
  /\ \A d \in Dumpers : pc[d].at \in {"idle", "next", "lock", "create", "write", "down"}
  /\ \A x \in Compactors : pc[x].at \in {"none", "sleep", "lock1", "rename", "read", "lock2", "delete", "write", "down"}
  /\ clock \in 0 .. MaxTime
  /\ acked \in [Tables -> SUBSET Record]

-----------------------------------------------------------------------------
(***************************************************************************)
(* Records and files.                                                      *)
(***************************************************************************)
Part(k) == k % NumPartitions                        \* get_particion

Content(file) == IF file = NoFile THEN {} ELSE file \* leerArchivoLFS
Contents(named) == UNION {Content(named[n]) : n \in DOMAIN named}

\* get_biggest_timestamp: the timestamp found for a key, 0 for none.
Newest(records, k) == Max({0} \cup {r.timestamp : r \in {s \in records : s.key = k}})

\* Variant: every record is kept.
Merged_All(records) == records

\* What _escribirDiccionario leaves in a dictionary: one record per key, the newest.
Merged(records) == {r \in records : r.timestamp = Newest(records, r.key)}

\* The files of a table, and what is in one of those SELECT looks for.
Names(t) == {<<"Metadata", 0>> : u \in metadata \cap {t}}
            \cup {<<"bin", p>>  : p \in {q \in Partitions : bin[t][q] # NoFile}}
            \cup {<<"tmp", j>>  : j \in {i \in TmpNames : tmp[t][i] # NoFile}}
            \cup {<<"tmpc", j>> : j \in {i \in TmpNames : tmpc[t][i] # NoFile}}
Temporaries(names) == {n \in names : n[1] \in {"tmp", "tmpc"}}
Named(t, n) == IF n[1] = "tmp" THEN tmp[t][n[2]] ELSE tmpc[t][n[2]]

NoFiles(t) == /\ \A p \in Partitions : bin[t][p] = NoFile
              /\ \A j \in TmpNames : tmp[t][j] = NoFile /\ tmpc[t][j] = NoFile
Stored(t)  == Contents(bin[t]) \cup Contents(tmp[t]) \cup Contents(tmpc[t])

-----------------------------------------------------------------------------
(***************************************************************************)
(* Threads and locks.                                                      *)
(***************************************************************************)
Goto(th, state) == pc' = [pc EXCEPT ![th] = state]
Step(th, step)  == pc' = [pc EXCEPT ![th].at = step]

Lock(th, exclusive) ==
  /\ \A l \in locks : (l.table = pc[th].table /\ l.inode = pc[th].inode) =>
                        ~exclusive /\ ~l.exclusive
  /\ locks' = locks \cup {[thread |-> th, table |-> pc[th].table, inode |-> pc[th].inode,
                           exclusive |-> exclusive]}
Unlock(th) == locks' = {l \in locks : l.thread # th}

\* The process ends, in an orderly way or not: its memory and its locks go.
Die ==
  /\ pc' = [th \in Threads |-> [at |-> "down"]]
  /\ memtable' = [t \in Tables |-> {}]
  /\ old' = [d \in Dumpers |-> [t \in Tables |-> {}]]
  /\ locks' = {}
  /\ registered' = [t \in Tables |-> Nobody]
  /\ acked' = [t \in Tables |-> Stored(t)]
  /\ UNCHANGED <<dirs, metadata, inode, files, clock>>

\* The process has yet to start, on a file system with some tables, all empty.
Init ==
  /\ dirs \in SUBSET Tables /\ metadata = dirs
  /\ inode = [t \in Tables |-> 0]
  /\ bin = [t \in Tables |-> [p \in Partitions |-> IF t \in dirs THEN {} ELSE NoFile]]
  /\ tmp = [t \in Tables |-> [j \in TmpNames |-> NoFile]]
  /\ tmpc = tmp
  /\ memtable = [t \in Tables |-> {}]
  /\ old = [d \in Dumpers |-> memtable]
  /\ locks = {}
  /\ registered = [t \in Tables |-> Nobody]
  /\ pc = [th \in Threads |-> [at |-> "down"]]
  /\ clock = 0
  /\ acked = memtable

-----------------------------------------------------------------------------
(***************************************************************************)
(* api_insert: the directory is looked for, then the memtable written.     *)
(***************************************************************************)
Insert_Check(c, t, k) ==
  /\ pc[c].at = "idle" /\ "insert" \in Ops
  /\ t \in dirs /\ clock < MaxTime
  /\ clock' = clock + 1
  /\ Goto(c, [at |-> "insert", table |-> t, record |-> [key |-> k, timestamp |-> clock + 1]])
  /\ UNCHANGED <<dirs, metadata, inode, files, memtable, old, locks, registered, acked>>

memtable_new_elem(c) ==
  /\ pc[c].at = "insert"
  /\ memtable' = [memtable EXCEPT ![pc[c].table] = @ \cup {pc[c].record}]
  /\ acked' = [acked EXCEPT ![pc[c].table] = @ \cup {pc[c].record}]
  /\ Goto(c, [at |-> "idle"])
  /\ UNCHANGED <<dirs, metadata, inode, files, old, locks, registered, clock>>

(***************************************************************************)
(* api_select: partition, temporary files and memtable in turn, under a    *)
(* shared lock.  floor and stored are what was acknowledged when it began  *)
(* and on file when it had the lock.                                       *)
(***************************************************************************)
Select_Open(c, t, k) ==
  /\ pc[c].at = "idle" /\ "select" \in Ops
  /\ t \in metadata
  /\ Goto(c, [at |-> "lock", table |-> t, inode |-> inode[t], key |-> k,
              floor |-> Newest(acked[t], k)])
  /\ UNCHANGED <<dirs, metadata, inode, files, memtable, old, locks, registered, clock, acked>>

\* Variant: SELECT goes on without the lock.
Select_Lock_None(c) ==
  /\ pc[c].at = "lock"
  /\ Goto(c, [at |-> "bin", table |-> pc[c].table, inode |-> pc[c].inode, key |-> pc[c].key,
              floor |-> pc[c].floor, stored |-> Newest(Stored(pc[c].table), pc[c].key)])
  /\ UNCHANGED <<dirs, metadata, inode, files, memtable, old, locks, registered, clock, acked>>

Select_Lock(c) ==
  /\ pc[c].at = "lock" /\ Lock(c, FALSE)
  /\ Goto(c, [at |-> "bin", table |-> pc[c].table, inode |-> pc[c].inode, key |-> pc[c].key,
              floor |-> pc[c].floor, stored |-> Newest(Stored(pc[c].table), pc[c].key)])
  /\ UNCHANGED <<dirs, metadata, inode, files, memtable, old, registered, clock, acked>>

scanParticion(c) ==
  /\ pc[c].at = "bin"
  /\ LET t == pc[c].table IN
     Goto(c, [at |-> "tmp", table |-> t, inode |-> pc[c].inode, key |-> pc[c].key,
              floor |-> pc[c].floor, stored |-> pc[c].stored,
              found |-> Newest(Content(bin[t][Part(pc[c].key)]), pc[c].key)])
  /\ UNCHANGED <<dirs, metadata, inode, files, memtable, old, locks, registered, clock, acked>>

\* opendir; the names are read at the first readdir.
Temporaries_Open(c) ==
  /\ pc[c].at = "tmp"
  /\ LET t == pc[c].table IN
     Goto(c, IF t \in dirs
             THEN [at |-> "temps", table |-> t, inode |-> pc[c].inode, key |-> pc[c].key,
                   floor |-> pc[c].floor, stored |-> pc[c].stored, found |-> pc[c].found,
                   names |-> Names(t), best |-> 0]
             ELSE [pc[c] EXCEPT !.at = "mem"])
  /\ UNCHANGED <<dirs, metadata, inode, files, memtable, old, locks, registered, clock, acked>>

\* One temporary file, read empty when it is gone since its stat.
temporales_get_biggest_timestamp(c) ==
  /\ pc[c].at = "temps"
  /\ \E n \in Temporaries(pc[c].names) :
       pc' = [pc EXCEPT ![c].names = @ \ {n},
                        ![c].best = Max({@, Newest(Content(Named(pc[c].table, n)), pc[c].key)})]
  /\ UNCHANGED <<dirs, metadata, inode, files, memtable, old, locks, registered, clock, acked>>

\* The names are over, or stat of one that is gone fails, and then what the others held is
\* not returned.
Temporaries_Return(c) ==
  /\ pc[c].at = "temps"
  /\ \E failed \in BOOLEAN :
       /\ IF failed THEN pc[c].names \ Names(pc[c].table) # {} ELSE Temporaries(pc[c].names) = {}
       /\ Goto(c, [at |-> "mem", table |-> pc[c].table, inode |-> pc[c].inode, key |-> pc[c].key,
                   floor |-> pc[c].floor, stored |-> pc[c].stored,
                   found |-> IF failed THEN pc[c].found ELSE Max({pc[c].found, pc[c].best})])
  /\ UNCHANGED <<dirs, metadata, inode, files, memtable, old, locks, registered, clock, acked>>

memtable_get_biggest_timestamp(c) ==
  /\ pc[c].at = "mem"
  /\ pc' = [pc EXCEPT ![c].at = "done",
                      ![c].found = Max({@, Newest(memtable[pc[c].table], pc[c].key)})]
  /\ Unlock(c)
  /\ UNCHANGED <<dirs, metadata, inode, files, memtable, old, registered, clock, acked>>

Select_Return(c) ==
  /\ pc[c].at = "done"
  /\ Goto(c, [at |-> "idle"])
  /\ UNCHANGED <<dirs, metadata, inode, files, memtable, old, locks, registered, clock, acked>>

(***************************************************************************)
(* api_create                                                              *)
(***************************************************************************)
Create_Check(c, t) ==
  /\ pc[c].at = "idle" /\ "create" \in Ops
  /\ t \notin dirs /\ inode[t] < MaxInode
  /\ Goto(c, [at |-> "mkdir", table |-> t])
  /\ UNCHANGED <<dirs, metadata, inode, files, memtable, old, locks, registered, clock, acked>>

Create_Dir(c) ==
  /\ pc[c].at = "mkdir"
  /\ dirs' = dirs \cup {pc[c].table}
  /\ Step(c, "metadata")
  /\ UNCHANGED <<metadata, inode, files, memtable, old, locks, registered, clock, acked>>

Create_Metadata(c) ==
  /\ pc[c].at = "metadata" /\ pc[c].table \in dirs
  /\ metadata' = metadata \cup {pc[c].table}
  /\ Goto(c, [at |-> "bins", table |-> pc[c].table, part |-> 0])
  /\ UNCHANGED <<dirs, inode, files, memtable, old, locks, registered, clock, acked>>

\* One partition, if it is not there.
Create_Bins(c) ==
  /\ pc[c].at = "bins" /\ pc[c].table \in dirs
  /\ LET t == pc[c].table
         p == pc[c].part
     IN /\ bin' = [bin EXCEPT ![t][p] = IF @ = NoFile THEN {} ELSE @]
        /\ Goto(c, IF p + 1 = NumPartitions THEN [at |-> "compactor", table |-> t]
                   ELSE [at |-> "bins", table |-> t, part |-> p + 1])
  /\ UNCHANGED <<dirs, metadata, inode, tmp, tmpc, memtable, old, locks, registered, clock, acked>>

\* No block for one of the partitions: api_drop, if the directory is there.
Create_NoSpace(c) ==
  /\ SpaceRunsOut /\ pc[c].at = "bins"
  /\ bin[pc[c].table][pc[c].part] = NoFile
  /\ Goto(c, IF pc[c].table \in dirs THEN [at |-> "memtable", table |-> pc[c].table] ELSE [at |-> "idle"])
  /\ UNCHANGED <<dirs, metadata, inode, files, memtable, old, locks, registered, clock, acked>>

agregarTablaCompactador(c) ==
  /\ pc[c].at = "compactor"
  /\ \E x \in Compactors :
       /\ pc[x].at = "none"
       /\ registered' = [registered EXCEPT ![pc[c].table] = x]
       /\ pc' = [pc EXCEPT ![c] = [at |-> "idle"], ![x] = [at |-> "sleep", table |-> pc[c].table]]
  /\ UNCHANGED <<dirs, metadata, inode, files, memtable, old, locks, clock, acked>>

(***************************************************************************)
(* api_drop takes no lock.                                                 *)
(***************************************************************************)
Drop_Check(c, t) ==
  /\ pc[c].at = "idle" /\ "drop" \in Ops
  /\ t \in dirs /\ inode[t] < MaxInode
  /\ Goto(c, [at |-> "memtable", table |-> t])
  /\ UNCHANGED <<dirs, metadata, inode, files, memtable, old, locks, registered, clock, acked>>

memtable_delete_table(c) ==
  /\ pc[c].at = "memtable"
  /\ memtable' = [memtable EXCEPT ![pc[c].table] = {}]
  /\ Step(c, "cancel")
  /\ UNCHANGED <<dirs, metadata, inode, files, old, locks, registered, clock, acked>>

\* pthread_cancel and join: the compactor ends at its next cancellation point, in the
\* sleep or where it opens a file.  Nothing closes the descriptor it has: a lock it
\* holds stays held, by nobody.
CancellationPoints == {"sleep", "read", "delete", "write"}

\* Variant: the thread is forgotten and not cancelled.
quitarTablaCompactador_NoCancel(c) ==
  /\ pc[c].at = "cancel"
  /\ Step(c, "list")
  /\ registered' = [registered EXCEPT ![pc[c].table] = Nobody]
  /\ UNCHANGED <<dirs, metadata, inode, files, memtable, old, locks, clock, acked>>

quitarTablaCompactador(c) ==
  /\ pc[c].at = "cancel"
  /\ LET x == registered[pc[c].table] IN
     /\ x # Nobody => pc[x].at \in CancellationPoints
     /\ pc' = [th \in Threads |-> IF th = c THEN [pc[c] EXCEPT !.at = "list"]
                               ELSE IF th = x THEN [at |-> "none"] ELSE pc[th]]
     /\ locks' = {IF l.thread = x THEN [l EXCEPT !.thread = Nobody] ELSE l : l \in locks}
  /\ registered' = [registered EXCEPT ![pc[c].table] = Nobody]
  /\ UNCHANGED <<dirs, metadata, inode, files, memtable, old, clock, acked>>

\* opendir fails when another DROP was faster.
Drop_Open(c) ==
  /\ pc[c].at = "list"
  /\ LET t == pc[c].table IN
     Goto(c, IF t \in dirs THEN [at |-> "delete", table |-> t, names |-> Names(t)] ELSE [at |-> "idle"])
  /\ UNCHANGED <<dirs, metadata, inode, files, memtable, old, locks, registered, clock, acked>>

\* One of the files listed: borrarArchivoLFS, or unlink of the Metadata.
traverse_to_drop(c) ==
  /\ pc[c].at = "delete"
  /\ LET t == pc[c].table IN
     \E n \in pc[c].names :
       /\ pc' = [pc EXCEPT ![c].names = @ \ {n}]
       /\ metadata' = metadata \ {u \in {t} : n[1] = "Metadata"}
       /\ bin' = [bin EXCEPT ![t] = [p \in Partitions |-> IF n = <<"bin", p>> THEN NoFile ELSE @[p]]]
       /\ tmp' = [tmp EXCEPT ![t] = [j \in TmpNames |-> IF n = <<"tmp", j>> THEN NoFile ELSE @[j]]]
       /\ tmpc' = [tmpc EXCEPT ![t] = [j \in TmpNames |-> IF n = <<"tmpc", j>> THEN NoFile ELSE @[j]]]
  /\ UNCHANGED <<dirs, inode, memtable, old, locks, registered, clock, acked>>

\* rmdir fails when a file was created after the names were read.
Drop_Dir(c) ==
  /\ pc[c].at = "delete" /\ pc[c].names = {}
  /\ LET t == pc[c].table IN
     IF t \in dirs /\ t \notin metadata /\ NoFiles(t)
     THEN /\ dirs' = dirs \ {t}
          /\ inode' = [inode EXCEPT ![t] = @ + 1]
          /\ acked' = [acked EXCEPT ![t] = {}]
     ELSE UNCHANGED <<dirs, inode, acked>>
  /\ Goto(c, [at |-> "idle"])
  /\ UNCHANGED <<metadata, files, memtable, old, locks, registered, clock>>

-----------------------------------------------------------------------------
(***************************************************************************)
(* api_describe of all tables.  A directory's names are read at its first  *)
(* readdir; files and directories come and go until they are looked at.    *)
(***************************************************************************)
Describe_Tables(c) ==
  /\ pc[c].at = "idle" /\ "describe" \in Ops
  /\ Goto(c, [at |-> "tables", left |-> dirs])
  /\ UNCHANGED <<dirs, metadata, inode, files, memtable, old, locks, registered, clock, acked>>

Describe_Open(c) ==
  /\ pc[c].at = "tables"
  /\ \E t \in pc[c].left \cap dirs :
       Goto(c, [at |-> "entries", left |-> pc[c].left \ {t}, table |-> t, names |-> Names(t)])
  /\ UNCHANGED <<dirs, metadata, inode, files, memtable, old, locks, registered, clock, acked>>

Missing(c) == IF pc[c].at = "tables" THEN pc[c].left \ dirs
              ELSE IF pc[c].at = "entries" THEN pc[c].names \ Names(pc[c].table)
              ELSE {}

\* The names of a table are in any order: Metadata ends the visit, wherever it is; without
\* it all others are visited.
traverse(c) ==
  /\ pc[c].at = "entries"
  /\ <<"Metadata", 0>> \notin Missing(c)
  /\ Goto(c, [at |-> "tables", left |-> pc[c].left])
  /\ UNCHANGED <<dirs, metadata, inode, files, memtable, old, locks, registered, clock, acked>>

\* opendir or stat of a name that is gone fails, api_describe returns NULL for a list, and
\* list_size reads it.
Describe_Segfault(c) == Missing(c) # {} /\ Die

Describe_End(c) ==
  /\ pc[c].at = "tables" /\ pc[c].left = {}
  /\ Goto(c, [at |-> "idle"])
  /\ UNCHANGED <<dirs, metadata, inode, files, memtable, old, locks, registered, clock, acked>>

-----------------------------------------------------------------------------
(***************************************************************************)
(* compactar, run by a table's thread after each sleep.                    *)
(***************************************************************************)
Compact_Start(x) ==
  /\ pc[x].at = "sleep"
  /\ LET t == pc[x].table IN
     /\ t \in metadata
     /\ \E j \in TmpNames : tmp[t][j] # NoFile         \* _esTemporal
     /\ Goto(x, [at |-> "lock1", table |-> t, inode |-> inode[t]])
  /\ UNCHANGED <<dirs, metadata, inode, files, memtable, old, locks, registered, clock, acked>>

Compact_Lock(x, step, next) ==
  /\ pc[x].at = step /\ Lock(x, TRUE)
  /\ Step(x, next)
  /\ UNCHANGED <<dirs, metadata, inode, files, memtable, old, registered, clock, acked>>

\* Variant: the new names count from one.
_convertirATmpc_FromOne(x) ==
  /\ pc[x].at = "rename"
  /\ LET t == pc[x].table IN
     \E j \in TmpNames :
       /\ tmp[t][j] # NoFile
       /\ tmpc' = [tmpc EXCEPT ![t] = [i \in 1 .. MaxTmp |-> IF i = j + 1 THEN tmp[t][j] ELSE NoFile]]
       /\ tmp' = [tmp EXCEPT ![t][j] = NoFile]
  /\ UNCHANGED <<dirs, metadata, inode, bin, memtable, old, locks, registered, pc, clock, acked>>

\* One rename.  A .tmpc of the same name, left by a compaction that did not end, is
\* replaced.
_convertirATmpc(x) ==
  /\ pc[x].at = "rename"
  /\ LET t == pc[x].table IN
     \E j \in TmpNames :
       /\ tmp[t][j] # NoFile
       /\ tmpc' = [tmpc EXCEPT ![t][j] = tmp[t][j]]
       /\ tmp' = [tmp EXCEPT ![t][j] = NoFile]
  /\ UNCHANGED <<dirs, metadata, inode, bin, memtable, old, locks, registered, pc, clock, acked>>

Compact_Renamed(x) ==
  /\ pc[x].at = "rename"
  /\ \A j \in TmpNames : tmp[pc[x].table][j] = NoFile
  /\ Unlock(x)
  /\ Step(x, "read")
  /\ UNCHANGED <<dirs, metadata, inode, files, memtable, old, registered, clock, acked>>

\* Variant: the .tmp files are read, and not the .tmpc.
Compact_Read_Tmp(x) ==
  /\ pc[x].at = "read"
  /\ LET t == pc[x].table IN
     Goto(x, [at |-> "lock2", table |-> t, inode |-> pc[x].inode, unwritten |-> Partitions,
              merged |-> Merged(Contents(bin[t]) \cup Contents(tmp[t]))])
  /\ UNCHANGED <<dirs, metadata, inode, files, memtable, old, locks, registered, clock, acked>>

Compact_Read(x) ==
  /\ pc[x].at = "read"
  /\ LET t == pc[x].table IN
     Goto(x, [at |-> "lock2", table |-> t, inode |-> pc[x].inode, unwritten |-> Partitions,
              merged |-> Merged(Contents(bin[t]) \cup Contents(tmpc[t]))])
  /\ UNCHANGED <<dirs, metadata, inode, files, memtable, old, locks, registered, clock, acked>>

\* Variant: the .tmp files dumped meanwhile are deleted too.
_borrarTmpc_TmpToo(x) ==
  /\ pc[x].at = "delete"
  /\ \E j \in TmpNames : /\ tmpc[pc[x].table][j] # NoFile
                         /\ tmpc' = [tmpc EXCEPT ![pc[x].table][j] = NoFile]
                         /\ tmp' = [tmp EXCEPT ![pc[x].table][j] = NoFile]
  /\ UNCHANGED <<dirs, metadata, inode, bin, memtable, old, locks, registered, pc, clock, acked>>

_borrarTmpc(x) ==
  /\ pc[x].at = "delete"
  /\ \E j \in TmpNames : /\ tmpc[pc[x].table][j] # NoFile
                         /\ tmpc' = [tmpc EXCEPT ![pc[x].table][j] = NoFile]
  /\ UNCHANGED <<dirs, metadata, inode, bin, tmp, memtable, old, locks, registered, pc, clock, acked>>

Compact_Deleted(x) ==
  /\ pc[x].at = "delete"
  /\ \A j \in TmpNames : tmpc[pc[x].table][j] = NoFile
  /\ Step(x, "write")
  /\ UNCHANGED <<dirs, metadata, inode, files, memtable, old, locks, registered, clock, acked>>

Compact_Write(x) ==
  /\ pc[x].at = "write" /\ pc[x].unwritten # {}
  /\ LET t == pc[x].table
         p == Min(pc[x].unwritten)
     IN /\ \/ /\ bin[t][p] # NoFile
              /\ bin' = [bin EXCEPT ![t][p] = {r \in pc[x].merged : Part(r.key) = p}]
           \/ /\ bin[t][p] = NoFile \/ SpaceRunsOut
              /\ UNCHANGED bin
        /\ pc' = [pc EXCEPT ![x].unwritten = @ \ {p}]
  /\ UNCHANGED <<dirs, metadata, inode, tmp, tmpc, memtable, old, locks, registered, clock, acked>>

Compact_End(x) ==
  /\ pc[x].at = "write" /\ pc[x].unwritten = {}
  /\ Unlock(x)
  /\ Goto(x, [at |-> "sleep", table |-> pc[x].table])
  /\ UNCHANGED <<dirs, metadata, inode, files, memtable, old, registered, clock, acked>>

-----------------------------------------------------------------------------
(***************************************************************************)
(* _dump and _dump_table.                                                  *)
(***************************************************************************)
Dump_Swap(d) ==
  /\ pc[d].at = "idle"
  /\ old' = [old EXCEPT ![d] = memtable]
  /\ memtable' = [t \in Tables |-> {}]
  /\ Goto(d, [at |-> "next"])
  /\ UNCHANGED <<dirs, metadata, inode, files, locks, registered, clock, acked>>

Dump_Open(d) ==
  /\ pc[d].at = "next"
  /\ \E t \in dirs : /\ old[d][t] # {}
                     /\ Goto(d, [at |-> "lock", table |-> t, inode |-> inode[t]])
  /\ UNCHANGED <<dirs, metadata, inode, files, memtable, old, locks, registered, clock, acked>>

\* "La tabla hallada en la memtable no se encuentra en el File System..."
Dump_NotFound(d) ==
  /\ pc[d].at = "next"
  /\ \E t \in Tables \ dirs : /\ old[d][t] # {}
                              /\ old' = [old EXCEPT ![d][t] = {}]
  /\ UNCHANGED <<dirs, metadata, inode, files, memtable, locks, registered, pc, clock, acked>>

Dump_Lock(d) ==
  /\ pc[d].at = "lock" /\ Lock(d, TRUE)
  /\ Step(d, "create")
  /\ UNCHANGED <<dirs, metadata, inode, files, memtable, old, registered, clock, acked>>

\* "No hay espacio en el File System. Se perderan datos..."
Dump_NoSpace(d) ==
  /\ SpaceRunsOut /\ pc[d].at = "create"
  /\ old' = [old EXCEPT ![d][pc[d].table] = {}]
  /\ Unlock(d)
  /\ Goto(d, [at |-> "next"])
  /\ UNCHANGED <<dirs, metadata, inode, files, memtable, registered, clock, acked>>

FreeNames(t) == {j \in TmpNames : tmp[t][j] = NoFile}

Dump_Create(d) ==
  /\ pc[d].at = "create"
  /\ LET t == pc[d].table IN
     /\ t \in dirs /\ FreeNames(t) # {}
     /\ tmp' = [tmp EXCEPT ![t][Min(FreeNames(t))] = {}]
     /\ Goto(d, [at |-> "write", table |-> t, name |-> Min(FreeNames(t))])
  /\ UNCHANGED <<dirs, metadata, inode, bin, tmpc, memtable, old, locks, registered, clock, acked>>

\* Variant: the dump does not close its descriptor.
Dump_Write_NoClose(d) ==
  /\ pc[d].at = "write"
  /\ tmp' = [tmp EXCEPT ![pc[d].table][pc[d].name] = old[d][pc[d].table]]
  /\ old' = [old EXCEPT ![d][pc[d].table] = {}]
  /\ Goto(d, [at |-> "next"])
  /\ UNCHANGED <<dirs, metadata, inode, bin, tmpc, memtable, locks, registered, clock, acked>>

Dump_Write(d) ==
  /\ pc[d].at = "write"
  /\ LET t == pc[d].table
         j == pc[d].name
     IN /\ \/ /\ tmp[t][j] # NoFile
              /\ tmp' = [tmp EXCEPT ![t][j] = old[d][t]]
           \/ /\ tmp[t][j] = NoFile \/ SpaceRunsOut
              /\ UNCHANGED tmp
        /\ old' = [old EXCEPT ![d][t] = {}]
  /\ Unlock(d)
  /\ Goto(d, [at |-> "next"])
  /\ UNCHANGED <<dirs, metadata, inode, bin, tmpc, memtable, registered, clock, acked>>

Dump_End(d) ==
  /\ pc[d].at = "next" /\ \A t \in Tables : old[d][t] = {}
  /\ Goto(d, [at |-> "idle"])
  /\ UNCHANGED <<dirs, metadata, inode, files, memtable, old, locks, registered, clock, acked>>

-----------------------------------------------------------------------------
(***************************************************************************)
(* The end of the process, and the next one: iniciarFileSystem starts a    *)
(* compactor for each directory, and exits if one has no Metadata.         *)
(***************************************************************************)
Down == \A th \in Threads : pc[th].at = "down"

Crash == Crashes /\ ~Down /\ Die

\* A file is created in a directory that is gone: crearArchivoLFS, or api_create for the
\* Metadata, writes to the NULL that fopen returned.
Segfault(th) == pc[th].at \in {"create", "metadata", "bins"} /\ pc[th].table \notin dirs /\ Die

iniciarFileSystem ==
  /\ Down /\ dirs = metadata
  /\ \E started \in [Tables -> Compactors \cup {Nobody}] :
       /\ \A t \in Tables : (started[t] # Nobody) <=> (t \in dirs)
       /\ \A t, u \in dirs : started[t] = started[u] => t = u
       /\ registered' = started
       /\ pc' = [th \in Threads |->
                   IF th \notin Compactors THEN [at |-> "idle"]
                   ELSE IF \E t \in dirs : started[t] = th
                        THEN [at |-> "sleep", table |-> CHOOSE t \in dirs : started[t] = th]
                        ELSE [at |-> "none"]]
  /\ UNCHANGED <<dirs, metadata, inode, files, memtable, old, locks, clock, acked>>

-----------------------------------------------------------------------------
Client(c) ==
  \/ \E t \in Tables, k \in Keys : Insert_Check(c, t, k) \/ Select_Open(c, t, k)
  \/ \E t \in Tables : Create_Check(c, t) \/ Drop_Check(c, t)
  \/ memtable_new_elem(c)
  \/ Select_Lock(c) \/ scanParticion(c) \/ Temporaries_Open(c) \/ temporales_get_biggest_timestamp(c)
  \/ Temporaries_Return(c) \/ memtable_get_biggest_timestamp(c) \/ Select_Return(c)
  \/ Create_Dir(c) \/ Create_Metadata(c) \/ Create_Bins(c) \/ Create_NoSpace(c)
  \/ agregarTablaCompactador(c)
  \/ memtable_delete_table(c) \/ quitarTablaCompactador(c)
  \/ Drop_Open(c) \/ traverse_to_drop(c) \/ Drop_Dir(c)
  \/ Describe_Tables(c) \/ Describe_Open(c) \/ traverse(c) \/ Describe_Segfault(c) \/ Describe_End(c)

Compactor(x) ==
  \/ Compact_Start(x) \/ Compact_Lock(x, "lock1", "rename") \/ _convertirATmpc(x) \/ Compact_Renamed(x)
  \/ Compact_Read(x) \/ Compact_Lock(x, "lock2", "delete")
  \/ _borrarTmpc(x) \/ Compact_Deleted(x) \/ Compact_Write(x) \/ Compact_End(x)

Dumper(d) ==
  \/ Dump_Swap(d) \/ Dump_Open(d) \/ Dump_NotFound(d) \/ Dump_Lock(d) \/ Dump_NoSpace(d)
  \/ Dump_Create(d) \/ Dump_Write(d) \/ Dump_End(d)

Next ==
  \/ \E c \in Clients : Client(c)
  \/ \E x \in Compactors : Compactor(x)
  \/ \E d \in Dumpers : Dumper(d)
  \/ \E th \in Threads : Segfault(th)
  \/ Crash \/ iniciarFileSystem

Spec == Init /\ [][Next]_vars

\* A thread that is not waiting goes on, one that waits for a lock gets it if it is
\* free again and again, and so does one that joins a cancelled thread.
Waits(c) == Select_Lock(c) \/ quitarTablaCompactador(c)
FairSpec ==
  /\ Spec /\ WF_vars(iniciarFileSystem)
  /\ \A c \in Clients : WF_vars(pc[c].at # "idle" /\ (Client(c) \/ Segfault(c))) /\ SF_vars(Waits(c))
  /\ \A d \in Dumpers : WF_vars(Dumper(d) \/ Segfault(d)) /\ SF_vars(Dump_Lock(d))
  /\ \A x \in Compactors : WF_vars(Compactor(x)) /\
       SF_vars(Compact_Lock(x, "lock1", "rename") \/ Compact_Lock(x, "lock2", "delete"))

-----------------------------------------------------------------------------
(***************************************************************************)
(* Properties.                                                             *)
(***************************************************************************)
\* What compactors have read and not written back yet.
InTransit(t) ==
  UNION {{r \in pc[x].merged : Part(r.key) \in pc[x].unwritten} :
           x \in {y \in Compactors : pc[y].at \in {"lock2", "delete", "write"} /\ pc[y].table = t}}

Dumping(t) == UNION {old[d][t] : d \in Dumpers}

\* Where a record of a table can be.
Held(t) == memtable[t] \cup Dumping(t) \cup Stored(t) \cup InTransit(t)

\* No INSERT that was accepted is lost on its way from the memtable to a .tmp, a
\* .tmpc and a .bin: it, or a later one of its key, is in one of them or in the
\* hands of the thread that moves it.
NoRecordLost ==
  \A t \in Tables : \A r \in acked[t] :
    \E s \in Held(t) : s.key = r.key /\ s.timestamp >= r.timestamp

\* A SELECT returns nothing older than what was on file when it got its lock: no
\* rename, compaction or dump hides a record from it between the partition, the
\* temporary files and the memtable.
SelectIsNotStale ==
  \A c \in Clients : pc[c].at = "done" => pc[c].found >= pc[c].stored

\* A partition holds keys of its own only, each once, and one that holds a key is
\* found where SELECT looks for it.
PartitionsAreMerged ==
  \A t \in Tables, p \in Partitions : \A r \in Content(bin[t][p]) :
    Part(r.key) = p /\ r.timestamp = Newest(bin[t][p], r.key)

\* The newest record of a key gets older in nine ways only, wherever it is, in the memtable,
\* in a dump, on file or in a compaction: the process ends; DROP of its table empties the
\* memtable, cancels the compactor or deletes a file; a dump finds no directory, no block, or
\* its .tmp gone; a compaction renames a .tmp over a .tmpc an earlier one left, or finds no
\* block or no .bin for the partition of the key.
RecordsAreLostInNineWays ==
  [][\A t \in Tables, k \in Keys :
       Newest(Held(t)', k) < Newest(Held(t), k)
         => \/ Die
            \/ \E c \in Clients : /\ memtable_delete_table(c) \/ quitarTablaCompactador(c) \/ traverse_to_drop(c)
                                  /\ pc[c].table = t
            \/ \E d \in Dumpers : \/ Dump_NotFound(d) /\ t \notin dirs
                                  \/ Dump_NoSpace(d) /\ pc[d].table = t
                                  \/ Dump_Write(d) /\ pc[d].table = t /\ UNCHANGED tmp
            \/ \E x \in Compactors :
                 \/ _convertirATmpc(x) /\ \E j \in TmpNames : tmpc[t][j] \notin {NoFile, tmpc'[t][j]}
                 \/ Compact_Write(x) /\ pc[x].table = t /\ Part(k) = Min(pc[x].unwritten) /\ UNCHANGED bin]_vars

\* A table has one compactor, and a table that is no longer there has neither a
\* compactor at work nor files.
CompactorsFollowTables ==
  /\ \A x \in Compactors : pc[x].at \notin {"none", "down"} =>
       registered[pc[x].table] = x /\ pc[x].table \in dirs
  /\ \A t \in Tables \ dirs : NoFiles(t)

\* A lock of a compactor that DROP cancelled: it is held until the process ends.
Abandoned == \E l \in locks : l.thread = Nobody

\* A directory without Metadata, with which the process does not start again.
Unstartable == Down /\ dirs # metadata

\* A dump, a SELECT and a compaction that wait for a table's lock get it and end,
\* whatever they find in the table, for each closes the descriptor that holds the flock:
\* unless a compactor was cancelled with a lock, or the process cannot start again.
EveryLockIsReleased ==
  /\ \A d \in Dumpers : pc[d].at # "idle" ~> (pc[d].at = "idle" \/ Abandoned \/ Unstartable)
  /\ \A c \in Clients : pc[c].at = "lock" ~> (pc[c].at = "idle" \/ Abandoned \/ Unstartable)
  /\ \A x \in Compactors :
       pc[x].at = "lock1" ~> (pc[x].at \in {"sleep", "none"} \/ Abandoned \/ Unstartable)

\* What the comments and messages of the source say, and the code does not do.
\* Memtable.c:110: a table found in the memtable is in the file system.
DumpFindsItsTable ==
  [][\A d \in Dumpers, t \in Tables : (old[d][t] # {} /\ old[d]'[t] = {}) => t \in dirs]_vars

\* API.c:79: SELECT returns, of what is stored of the key, the newest: so at least
\* what had been acknowledged before it began.
SelectSeesAcceptedInserts ==
  \A c \in Clients : pc[c].at = "done" => pc[c].found >= pc[c].floor

\* API.c:171: CREATE makes one compactor thread for the table.
OneCompactorPerTable ==
  \A x, y \in Compactors :
    (pc[x].at \notin {"none", "down"} /\ pc[y].at \notin {"none", "down"} /\ pc[x].table = pc[y].table)
      => x = y

\* API.c:183-184: DROP deletes the directory and all the files of the table.
NothingSurvivesADrop == \A t \in Tables : Stored(t) \subseteq acked[t]

\* FileSystem.c:145-149: a directory has its Metadata, but for a CREATE or a DROP that
\* has not ended; when one has not, the process does not start.
DirectoriesHaveMetadata ==
  \A t \in dirs \ metadata :
    \E c \in Clients : pc[c].at \in {"metadata", "delete"} /\ pc[c].table = t

\* HandleDescribeOpcode and the console answer with the tables that api_describe returns
\* (API.c:217): it returns a list, whatever the other threads do meanwhile.
DescribeFindsWhatItLists == \A c \in Clients : Missing(c) = {}
=============================================================================
