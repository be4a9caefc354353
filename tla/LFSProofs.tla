------------------------------- MODULE LFSProofs -------------------------------
(***************************************************************************)
(* Proofs about LFS: for any tables, keys, partitions, threads and bounds. *)
(*                                                                         *)
(*   LFSTypeOK                  from TInv, whatever is asked for           *)
(*   LFSPartitionsAreMerged     from PInv, whatever is asked for           *)
(*   LFSCompactorsFollowTables  from FInv, without CREATE or with one      *)
(*                              client (OneWriter)                         *)
(*   LFSSelectIsNotStale        from LInv and ReadsSoFar, without DROP     *)
(*                              (NoDrops), which takes no lock             *)
(*   LFSNoRecordLost            from all of them and NInv, when nothing    *)
(*                              happens that loses records (Lossless)      *)
(*   LFSRecordsAreLostInNineWays                                           *)
(*                              from PInv, FInv and RInv, under OneWriter  *)
(*                              and with one dump at a time (OneDumper)    *)
(*                                                                         *)
(* Each invariant is a conjunction of named parts, and a section of lemmas *)
(* shows what each thread's steps keep of it.                              *)
(***************************************************************************)
EXTENDS LFS, WellFoundedInduction, TLAPS

\* What each thread knows at each of its steps.
Times == 0 .. MaxTime
Entries == ({"Metadata", "bin"} \X Nat) \cup ({"tmp", "tmpc"} \X TmpNames)
ClientState ==
  [at : {"idle", "down"}]
    \cup [at : {"insert"}, table : Tables, record : Record]
    \cup [at : {"lock"}, table : Tables, inode : Nat, key : Keys, floor : Times]
    \cup [at : {"bin"}, table : Tables, inode : Nat, key : Keys, floor : Times, stored : Times]
    \cup [at : {"tmp", "mem", "done"}, table : Tables, inode : Nat, key : Keys, floor : Times,
          stored : Times, found : Times]
    \cup [at : {"temps"}, table : Tables, inode : Nat, key : Keys, floor : Times,
          stored : Times, found : Times, names : SUBSET Entries, best : Times]
    \cup [at : {"mkdir", "metadata", "compactor", "memtable", "cancel", "list"}, table : Tables]
    \cup [at : {"bins"}, table : Tables, part : Partitions]
    \cup [at : {"delete"}, table : Tables, names : SUBSET Entries]
    \cup [at : {"tables"}, left : SUBSET Tables]
    \cup [at : {"entries"}, left : SUBSET Tables, table : Tables, names : SUBSET Entries]
DumperState ==
  [at : {"idle", "next", "down"}]
    \cup [at : {"lock", "create"}, table : Tables, inode : Nat]
    \cup [at : {"write"}, table : Tables, name : TmpNames]
CompactorState ==
  [at : {"none", "down"}] \cup [at : {"sleep"}, table : Tables]
    \cup [at : {"lock1", "rename", "read"}, table : Tables, inode : Nat]
    \cup [at : {"lock2", "delete", "write"}, table : Tables, inode : Nat, unwritten : SUBSET Partitions,
          merged : SUBSET Record]

StatesOK ==
  /\ \A c \in Clients : pc[c] \in ClientState
  /\ \A d \in Dumpers : pc[d] \in DumperState
  /\ \A x \in Compactors : pc[x] \in CompactorState

TInv == TypeOK /\ StatesOK

\* What a compactor has merged, and what a partition holds, is the newest of each key.
NewestOnly(records) == \A r \in records : r.timestamp = Newest(records, r.key)
MergedIsMerged ==
  \A x \in Compactors : pc[x].at \in {"lock2", "delete", "write"} => NewestOnly(pc[x].merged)

PInv == MergedIsMerged /\ PartitionsAreMerged

\* api_create looks for the directory first and makes the compactor last: two clients that create
\* the same table both do (OneCompactorPerTable).
OneWriter == "create" \notin Ops \/ \E c : Clients = {c}

Creating == {"mkdir", "metadata", "bins", "compactor"}
Active(x) == pc[x].at \notin {"none", "down"}
RegisteredTablesExist == \A t \in Tables : registered[t] # Nobody => t \in dirs

\* A client that creates or deletes at step p is the only one to do it for its table.
AloneAt(p, directories, compactors) ==
  /\ p.at \in Creating => "create" \in Ops
  /\ p.at = "mkdir" => p.table \notin directories
  /\ p.at \in {"metadata", "bins", "compactor"} => p.table \in directories /\ compactors[p.table] = Nobody
  /\ p.at \in {"list", "delete"} => compactors[p.table] = Nobody
WritersAreAlone == \A c \in Clients : AloneAt(pc[c], dirs, registered)

FInv == CompactorsFollowTables /\ RegisteredTablesExist /\ WritersAreAlone

\* api_drop, which api_create calls when there is no room, takes no lock.
NoDrops == "drop" \notin Ops /\ (SpaceRunsOut => "create" \notin Ops)
Dropping == {"memtable", "cancel", "list", "delete"}
NobodyDrops == \A c \in Clients : pc[c].at \notin Dropping /\ (pc[c].at \in Creating => "create" \in Ops)

\* Without DROP there is one directory for each name.
OneDirectory == inode = [t \in Tables |-> 0] /\ \A l \in locks : l.inode = 0

\* The steps at which a thread has a descriptor of the directory, and those at which it has its lock.
Opened(th) == IF th \in Clients THEN {"lock", "bin", "tmp", "temps", "mem"}
              ELSE IF th \in Dumpers THEN {"lock", "create"}
              ELSE {"lock1", "rename", "read", "lock2", "delete", "write"}
Holding(th) == IF th \in Clients THEN {"bin", "tmp", "temps", "mem"}
               ELSE IF th \in Dumpers THEN {"create", "write"}
               ELSE {"rename", "delete", "write"}
LockOf(th, t) == [thread |-> th, table |-> t, inode |-> 0, exclusive |-> th \notin Clients]
LocksAt(th, p, held) ==
  /\ p.at \in Opened(th) => p.inode = 0
  /\ p.at \in Holding(th) => LockOf(th, p.table) \in held
Holders == \A th \in Threads : LocksAt(th, pc[th], locks)
Exclusion == \A l, m \in locks : l.table = m.table => l = m \/ (~l.exclusive /\ ~m.exclusive)

LInv == NobodyDrops /\ OneDirectory /\ Holders /\ Exclusion

\* What a SELECT has found so far, and what is in the temporary files it has yet to read.
Temps == {"tmp", "tmpc"} \X TmpNames
ReadAt(p, t, k) ==
  /\ p.at \in {"lock", "bin", "tmp", "temps"} => t \in dirs
  /\ p.at \in {"bin", "tmp", "temps"} => p.stored = Newest(Stored(t), k)
  /\ p.at \in {"tmp", "temps"} => p.found = Newest(Content(bin[t][Part(k)]), k)
  /\ p.at = "temps" => /\ p.names \subseteq Names(t)
                       /\ \A n \in Temps : n \in p.names \/ Newest(Content(Named(t, n)), k) <= p.best
  /\ p.at \in {"mem", "done"} => p.found >= p.stored
ReadsSoFar == \A c \in Clients : ReadAt(pc[c], pc[c].table, pc[c].key)

\* Nothing asks for what loses records: RecordsAreLostInNineWays.
Lossless == Ops \subseteq {"insert", "select", "create"} /\ ~SpaceRunsOut /\ ~Crashes /\ OneWriter

NobodyDescribes == \A c \in Clients : pc[c].at \notin {"tables", "entries"}
\* A table has its partitions but for a CREATE that has not ended, and records are of tables that are there.
Makes(p, t, q) == p.table = t /\ (p.at = "metadata" \/ (p.at = "bins" /\ p.part <= q))
BinsExist == \A t \in dirs, q \in Partitions : bin[t][q] # NoFile \/ \E c \in Clients : Makes(pc[c], t, q)
RecordsHaveTables ==
  /\ \A c \in Clients : pc[c].at = "insert" => pc[c].table \in dirs
  /\ \A t \in Tables : memtable[t] # {} => t \in dirs
  /\ \A d \in Dumpers, t \in Tables : old[d][t] # {} => t \in dirs
\* A dump has written all it took when it ends, and what it creates is a file of its own.
DumpAt(p, taken) ==
  /\ p.at \in {"idle", "down"} => \A t \in Tables : taken[t] = {}
  /\ p.at \in {"lock", "create", "write"} => p.table \in dirs
  /\ p.at = "write" => tmp[p.table][p.name] = {}
DumpsAreWhole == \A d \in Dumpers : DumpAt(pc[d], old[d])

\* A compactor renames over no .tmpc, and has merged all of the .tmpc files that it deletes and of the
\* partitions it has yet to write.
Covered(records, by) == \A r \in records : \E s \in by : s.key = r.key /\ s.timestamp >= r.timestamp
RenamesAt(p) == p.at = "rename" => \A j \in TmpNames : tmp[p.table][j] = NoFile \/ tmpc[p.table][j] = NoFile
CompactionAt(p) ==
  /\ p.at \in {"lock2", "delete"} => p.unwritten = Partitions /\ Covered(Contents(tmpc[p.table]), p.merged)
  /\ p.at \in {"lock2", "delete", "write"} => \A q \in p.unwritten : Covered(Content(bin[p.table][q]), p.merged)
TmpcAreRead ==
  \A t \in Tables, j \in TmpNames : tmpc[t][j] # NoFile =>
    \E x \in Compactors : pc[x].at \in {"rename", "read", "lock2", "delete"} /\ pc[x].table = t
CompactionsAreWhole == TmpcAreRead /\ \A x \in Compactors : RenamesAt(pc[x]) /\ CompactionAt(pc[x])

NInv == NobodyDescribes /\ BinsExist /\ RecordsHaveTables /\ DumpsAreWhole /\ CompactionsAreWhole /\ NoRecordLost


USE PartitionsAssumption, FlagsAssumption, BoundsAssumption, ThreadsAssumption

-----------------------------------------------------------------------------
(***************************************************************************)
(* Least and greatest numbers, and the newest record of a key.             *)
(***************************************************************************)
\* A set of numbers has a least one,
LEMMA Least == ASSUME NEW S \in SUBSET Nat, S # {} PROVE Min(S) \in S /\ \A y \in S : Min(S) <= y
<1>1. IsWellFoundedOn(OpToRel(<, Nat), Nat)
  BY NatLessThanWellFounded
<1>2. PICK x \in S : \A y \in S : ~(<<y, x>> \in OpToRel(<, Nat))
  BY <1>1, WFMin
<1>3. \A y \in S : ~(y < x)
  BY <1>2 DEF OpToRel
<1>4. \A y \in S : x <= y
  BY <1>3
<1> DEFINE m == CHOOSE z \in S : \A y \in S : z <= y
<1>5. m \in S /\ \A y \in S : m <= y
  BY <1>4
<1>6. Min(S) = m
  BY DEF Min
<1> HIDE DEF m
<1> QED
  BY <1>5, <1>6

\* and one that is bounded a greatest.
LEMMA Greatest ==
  ASSUME NEW N \in Nat, NEW S \in SUBSET (0 .. N), S # {}
  PROVE  Max(S) \in S /\ \A y \in S : y <= Max(S)
<1> DEFINE T == {n \in Nat : \A y \in S : y <= n}
<1>1. N \in T
  OBVIOUS
<1>2. PICK m \in T : \A n \in T : m <= n
  BY <1>1, Least
<1>3. m \in S
  <2>1. SUFFICES ASSUME m \notin S PROVE FALSE
    OBVIOUS
  <2>2. \A y \in S : y \in Nat /\ y <= m - 1
    <3> TAKE y \in S
    <3>1. y <= m /\ y # m /\ y \in Nat /\ m \in Nat
      BY <1>2, <2>1
    <3> QED BY <3>1
  <2>3. m - 1 \in Nat /\ m \in Nat
    <3>1. PICK y \in S : TRUE
      OBVIOUS
    <3>2. y \in Nat /\ y <= m - 1 /\ m \in Nat
      BY <3>1, <2>2, <1>2
    <3> QED
      BY <3>2
  <2>4. m - 1 \in T
    BY <2>2, <2>3
  <2> QED BY <2>3, <2>4, <1>2
<1>4. \E x \in S : \A y \in S : x >= y
  <2>1. \A y \in S : m >= y
    BY <1>2
  <2> QED BY <2>1, <1>3
<1> DEFINE x == CHOOSE x \in S : \A y \in S : x >= y
<1>5. x \in S /\ \A y \in S : x >= y
  BY <1>4
<1> HIDE DEF x
<1>6. \A y \in S : y <= x
  BY <1>5
<1> QED BY <1>5, <1>6 DEF Max, x

\* A record's timestamp is a time.
LEMMA RecordFacts ==
  /\ \A r \in Record : r.key \in Keys /\ r.timestamp \in Times
  /\ NoFile \notin SUBSET Record
<1>1. \A r \in Record : r.key \in Keys /\ r.timestamp \in Times
  BY DEF Record, Times
<1>2. NoFile \notin SUBSET Record
  <2>1. [key |-> -1] \notin Record
    <3>1. [key |-> -1].key = -1
      OBVIOUS
    <3>2. -1 \notin Keys
      OBVIOUS
    <3> QED
      BY <3>1, <3>2, <1>1
  <2> QED
    BY <2>1 DEF NoFile
<1> QED
  BY <1>1, <1>2

\* The newest timestamp is that of a record, unless there is none, and no record is newer.
LEMMA NewestFacts ==
  ASSUME NEW records \in SUBSET Record, NEW k
  PROVE  /\ Newest(records, k) \in Times
         /\ \A r \in records : r.key = k => r.timestamp <= Newest(records, k)
         /\ Newest(records, k) = 0 \/ \E r \in records : r.key = k /\ r.timestamp = Newest(records, k)
<1> DEFINE S == {0} \cup {r.timestamp : r \in {s \in records : s.key = k}}
<1>1. S \in SUBSET (0 .. MaxTime)
  BY RecordFacts DEF Times
<1>2. S # {}
  OBVIOUS
<1>3. Max(S) \in S /\ \A y \in S : y <= Max(S)
  BY <1>1, <1>2, Greatest
<1>4. Newest(records, k) = Max(S)
  BY DEF Newest
<1> QED
  BY <1>1, <1>3, <1>4 DEF Times

\* Records that others cover: of each key those have one as new.
LEMMA NewestCovered ==
  ASSUME NEW A \in SUBSET Record, NEW B \in SUBSET Record, NEW k,
         \A r \in A : r.key = k => \E s \in B : s.key = k /\ s.timestamp >= r.timestamp
  PROVE  Newest(A, k) <= Newest(B, k)
<1>1. Newest(A, k) \in Nat /\ Newest(B, k) \in Nat
  BY NewestFacts DEF Times
<1>2. CASE Newest(A, k) = 0
  BY <1>1, <1>2
<1>3. CASE Newest(A, k) # 0
  <2>1. PICK r \in A : r.key = k /\ r.timestamp = Newest(A, k)
    BY <1>3, NewestFacts
  <2>2. PICK s \in B : s.key = k /\ s.timestamp >= r.timestamp
    BY <2>1
  <2>3. s.timestamp <= Newest(B, k) /\ s.timestamp \in Nat
    BY <2>2, NewestFacts, RecordFacts DEF Times
  <2> QED
    BY <2>1, <2>2, <2>3, <1>1
<1> QED
  BY <1>2, <1>3

\* More records have no older newest one.
LEMMA NewestMonotone ==
  ASSUME NEW A \in SUBSET Record, NEW B \in SUBSET Record, NEW k, \A r \in A : r.key = k => r \in B
  PROVE  Newest(A, k) <= Newest(B, k)
<1>1. \A r \in A : r.key = k => r.timestamp >= r.timestamp
  BY RecordFacts DEF Times
<1> QED
  BY <1>1, NewestCovered

\* Of sets with the same records of a key it is the same.
LEMMA NewestSame ==
  ASSUME NEW A, NEW B, NEW k, \A r : r.key = k => (r \in A <=> r \in B)
  PROVE  Newest(A, k) = Newest(B, k)
<1>1. {s \in A : s.key = k} = {s \in B : s.key = k}
  OBVIOUS
<1> QED
  BY <1>1 DEF Newest

\* Merging keeps the newest record of each key.
LEMMA MergedFacts ==
  ASSUME NEW records \in SUBSET Record
  PROVE  /\ Merged(records) \subseteq records
         /\ Covered(records, Merged(records))
         /\ NewestOnly(Merged(records))
<1>1. Merged(records) \subseteq records
  BY DEF Merged
<1>2. ASSUME NEW r \in records PROVE \E s \in Merged(records) : s.key = r.key /\ s.timestamp >= r.timestamp
  <2>1. r.timestamp <= Newest(records, r.key) /\ Newest(records, r.key) \in Nat
    BY NewestFacts DEF Times
  <2>2. r.timestamp \in 1 .. MaxTime
    BY DEF Record
  <2>3. Newest(records, r.key) # 0
    BY <2>1, <2>2
  <2>4. PICK s \in records : s.key = r.key /\ s.timestamp = Newest(records, r.key)
    BY <2>3, NewestFacts
  <2>5. s \in Merged(records)
    BY <2>4 DEF Merged
  <2> QED
    BY <2>1, <2>2, <2>4, <2>5
<1>3. ASSUME NEW r \in Merged(records) PROVE r.timestamp = Newest(Merged(records), r.key)
  <2>1. r \in records /\ r.timestamp = Newest(records, r.key)
    BY DEF Merged
  <2>2. Newest(Merged(records), r.key) <= Newest(records, r.key)
    BY <1>1, NewestMonotone
  <2>3. r.timestamp <= Newest(Merged(records), r.key)
    BY <1>1, NewestFacts
  <2>4. r.timestamp \in Nat /\ Newest(Merged(records), r.key) \in Nat
    BY <1>1, NewestFacts, RecordFacts DEF Times
  <2> QED
    BY <2>1, <2>2, <2>3, <2>4
<1> QED
  BY <1>1, <1>2, <1>3 DEF Covered, NewestOnly

\* What a file holds.
LEMMA ContentFacts ==
  /\ Content(NoFile) = {}
  /\ \A file \in SUBSET Record : Content(file) = file
  /\ \A file \in File : Content(file) \in SUBSET Record
<1>1. Content(NoFile) = {}
  BY DEF Content
<1>2. \A file \in SUBSET Record : Content(file) = file
  BY RecordFacts DEF Content
<1>3. ASSUME NEW file \in File PROVE Content(file) \in SUBSET Record
  <2>1. CASE file \in SUBSET Record
    BY <2>1, <1>2
  <2>2. CASE file = NoFile
    BY <2>2, <1>1
  <2> QED
    BY <2>1, <2>2 DEF File
<1> QED
  BY <1>1, <1>2, <1>3

\* What the files of a table hold together.
LEMMA ContentsFacts ==
  /\ \A S : \A files_ \in [S -> File] : Contents(files_) \in SUBSET Record
  /\ \A f : \A r : r \in Contents(f) <=> \E n \in DOMAIN f : r \in Content(f[n])
<1>1. \A f : \A r : r \in Contents(f) <=> \E n \in DOMAIN f : r \in Content(f[n])
  BY DEF Contents
<1>2. ASSUME NEW S, NEW f \in [S -> File] PROVE Contents(f) \in SUBSET Record
  BY <1>1, ContentFacts
<1> QED
  BY <1>1, <1>2

\* A key's partition is one.
LEMMA PartFacts == \A k \in Keys : Part(k) \in Partitions
<1> TAKE k \in Keys
<1>1. k \in Nat /\ NumPartitions \in Nat \ {0}
  OBVIOUS
<1>2. (k % NumPartitions) \in 0 .. (NumPartitions - 1)
  BY <1>1
<1> QED
  BY <1>2 DEF Part, Partitions

-----------------------------------------------------------------------------
(***************************************************************************)
(* Types.                                                                  *)
(***************************************************************************)
\* The types of everything but the steps of the threads,
DataOK ==
  /\ dirs \subseteq Tables /\ metadata \subseteq dirs
  /\ inode \in [Tables -> Nat]
  /\ bin \in [Tables -> [Partitions -> File]]
  /\ tmp \in [Tables -> [TmpNames -> File]]
  /\ tmpc \in [Tables -> [TmpNames -> File]]
  /\ memtable \in [Tables -> SUBSET Record]
  /\ old \in [Dumpers -> [Tables -> SUBSET Record]]
  /\ locks \subseteq [thread : Threads \cup {Nobody}, table : Tables, inode : Nat, exclusive : BOOLEAN]
  /\ registered \in [Tables -> Compactors \cup {Nobody}]
  /\ clock \in 0 .. MaxTime
  /\ acked \in [Tables -> SUBSET Record]

\* and of these.
PcOK == DOMAIN pc = Threads /\ StatesOK

\* A thread that knows what it should is at one of its steps.
LEMMA StatesSteps ==
  ASSUME StatesOK
  PROVE  /\ \A c \in Clients : pc[c].at \in ClientSteps
         /\ \A d \in Dumpers : pc[d].at \in {"idle", "next", "lock", "create", "write", "down"}
         /\ \A x \in Compactors :
              pc[x].at \in {"none", "sleep", "lock1", "rename", "read", "lock2", "delete", "write", "down"}
<1>1. \A p \in ClientState : p.at \in ClientSteps
  BY DEF ClientState, ClientSteps
<1>2. \A p \in DumperState : p.at \in {"idle", "next", "lock", "create", "write", "down"}
  BY DEF DumperState
<1>3. \A p \in CompactorState :
        p.at \in {"none", "sleep", "lock1", "rename", "read", "lock2", "delete", "write", "down"}
  BY DEF CompactorState
<1> QED
  BY <1>1, <1>2, <1>3 DEF StatesOK

\* The types come apart into those of the data and those of the steps,
LEMMA Types == TInv <=> DataOK /\ PcOK
<1>1. StatesOK => \A c \in Clients : pc[c].at \in ClientSteps
  BY StatesSteps
<1>2. StatesOK => \A d \in Dumpers : pc[d].at \in {"idle", "next", "lock", "create", "write", "down"}
  BY StatesSteps
<1>3. StatesOK => \A x \in Compactors :
         pc[x].at \in {"none", "sleep", "lock1", "rename", "read", "lock2", "delete", "write", "down"}
  BY StatesSteps
<1> QED
  BY <1>1, <1>2, <1>3 DEF TInv, TypeOK, DataOK, PcOK

\* and so they do after a step.
LEMMA TypesNext == TInv' <=> DataOK' /\ PcOK'
BY Types, PTL

\* What a thread knows at a step.
LEMMA ClientKnows ==
  ASSUME NEW p \in ClientState
  PROVE  /\ p.at \in {"idle", "down"} => p \in [at : {"idle", "down"}]
         /\ p.at = "insert" => p \in [at : {"insert"}, table : Tables, record : Record]
         /\ p.at = "lock" => p \in [at : {"lock"}, table : Tables, inode : Nat, key : Keys, floor : Times]
         /\ p.at = "bin" =>
              p \in [at : {"bin"}, table : Tables, inode : Nat, key : Keys, floor : Times, stored : Times]
         /\ p.at \in {"tmp", "mem", "done"} =>
              p \in [at : {"tmp", "mem", "done"}, table : Tables, inode : Nat, key : Keys, floor : Times,
                     stored : Times, found : Times]
         /\ p.at = "temps" =>
              p \in [at : {"temps"}, table : Tables, inode : Nat, key : Keys, floor : Times,
                     stored : Times, found : Times, names : SUBSET Entries, best : Times]
         /\ p.at \in {"mkdir", "metadata", "compactor", "memtable", "cancel", "list"} =>
              p \in [at : {"mkdir", "metadata", "compactor", "memtable", "cancel", "list"}, table : Tables]
         /\ p.at = "bins" => p \in [at : {"bins"}, table : Tables, part : Partitions]
         /\ p.at = "delete" => p \in [at : {"delete"}, table : Tables, names : SUBSET Entries]
         /\ p.at = "tables" => p \in [at : {"tables"}, left : SUBSET Tables]
         /\ p.at = "entries" =>
              p \in [at : {"entries"}, left : SUBSET Tables, table : Tables, names : SUBSET Entries]
BY DEF ClientState

\* What a dump thread knows,
LEMMA DumperKnows ==
  ASSUME NEW p \in DumperState
  PROVE  /\ p.at \in {"idle", "next", "down"} => p \in [at : {"idle", "next", "down"}]
         /\ p.at \in {"lock", "create"} => p \in [at : {"lock", "create"}, table : Tables, inode : Nat]
         /\ p.at = "write" => p \in [at : {"write"}, table : Tables, name : TmpNames]
BY DEF DumperState

\* and what a compactor knows.
LEMMA CompactorKnows ==
  ASSUME NEW p \in CompactorState
  PROVE  /\ p.at \in {"none", "down"} => p \in [at : {"none", "down"}]
         /\ p.at = "sleep" => p \in [at : {"sleep"}, table : Tables]
         /\ p.at \in {"lock1", "rename", "read"} => p \in [at : {"lock1", "rename", "read"}, table : Tables, inode : Nat]
         /\ p.at \in {"lock2", "delete", "write"} =>
              p \in [at : {"lock2", "delete", "write"}, table : Tables, inode : Nat,
                     unwritten : SUBSET Partitions, merged : SUBSET Record]
BY DEF CompactorState

\* A step changes what one thread knows.
LEMMA GoesOn ==
  ASSUME PcOK, NEW th \in Threads, NEW p, Goto(th, p)
  PROVE  /\ DOMAIN pc' = Threads /\ pc'[th] = p
         /\ \A u \in Threads : u # th => pc'[u] = pc[u]
BY DEF Goto, PcOK

\* One that only changes its step goes to what it knew.
LEMMA GoesAt ==
  ASSUME PcOK, NEW th \in Threads, NEW step, Step(th, step)
  PROVE  Goto(th, [pc[th] EXCEPT !.at = step])
BY DEF Goto, Step, PcOK

\* A client's step has the type,
LEMMA ClientGoes ==
  ASSUME PcOK, NEW c \in Clients, NEW p \in ClientState, Goto(c, p)
  PROVE  PcOK'
<1>1. /\ DOMAIN pc' = Threads /\ pc'[c] = p
      /\ \A u \in Threads : u # c => pc'[u] = pc[u]
  BY GoesOn DEF Threads
<1> QED
  BY <1>1 DEF PcOK, StatesOK, Threads

\* a dump's,
LEMMA DumperGoes ==
  ASSUME PcOK, NEW d \in Dumpers, NEW p \in DumperState, Goto(d, p)
  PROVE  PcOK'
<1>1. /\ DOMAIN pc' = Threads /\ pc'[d] = p
      /\ \A u \in Threads : u # d => pc'[u] = pc[u]
  BY GoesOn DEF Threads
<1> QED
  BY <1>1 DEF PcOK, StatesOK, Threads

\* and a compactor's.
LEMMA CompactorGoes ==
  ASSUME PcOK, NEW x \in Compactors, NEW p \in CompactorState, Goto(x, p)
  PROVE  PcOK'
<1>1. /\ DOMAIN pc' = Threads /\ pc'[x] = p
      /\ \A u \in Threads : u # x => pc'[u] = pc[u]
  BY GoesOn DEF Threads
<1> QED
  BY <1>1 DEF PcOK, StatesOK, Threads

\* The files of a table hold records.
LEMMA StoredIsRecords == ASSUME DataOK, NEW t \in Tables PROVE Stored(t) \in SUBSET Record
<1>1. bin[t] \in [Partitions -> File] /\ tmp[t] \in [TmpNames -> File] /\ tmpc[t] \in [TmpNames -> File]
  BY DEF DataOK
<1> QED
  BY <1>1, ContentsFacts DEF Stored

\* A lock taken is a lock,
LEMMA LockTypes ==
  ASSUME DataOK, NEW th \in Threads, NEW exclusive \in BOOLEAN, Lock(th, exclusive),
         pc[th].table \in Tables, pc[th].inode \in Nat
  PROVE  locks' \subseteq [thread : Threads \cup {Nobody}, table : Tables, inode : Nat, exclusive : BOOLEAN]
BY DEF DataOK, Lock

\* and those that are left are.
LEMMA UnlockTypes ==
  ASSUME DataOK, NEW th, Unlock(th)
  PROVE  locks' \subseteq [thread : Threads \cup {Nobody}, table : Tables, inode : Nat, exclusive : BOOLEAN]
BY DEF DataOK, Unlock

\* The end of the process keeps the types,
LEMMA DieTypes == ASSUME TInv, Die PROVE TInv'
<1>1. DataOK /\ PcOK
  BY Types
<1>2. acked' \in [Tables -> SUBSET Record]
  BY <1>1, StoredIsRecords DEF Die
<1>3. DataOK'
  BY <1>1, <1>2 DEF DataOK, Die, files
<1>4. PcOK'
  <2>1. /\ [at |-> "down"] \in ClientState /\ [at |-> "down"] \in DumperState
        /\ [at |-> "down"] \in CompactorState
    BY DEF ClientState, DumperState, CompactorState
  <2>2. DOMAIN pc' = Threads /\ \A th \in Threads : pc'[th] = [at |-> "down"]
    BY DEF Die
  <2> QED
    BY <2>1, <2>2 DEF PcOK, StatesOK, Threads
<1> QED
  BY <1>3, <1>4, TypesNext

\* and the first state has them.
LEMMA InitTypes == Init => TInv
<1> SUFFICES ASSUME Init PROVE TInv
  OBVIOUS
<1>1. /\ [at |-> "down"] \in ClientState /\ [at |-> "down"] \in DumperState
      /\ [at |-> "down"] \in CompactorState
  BY DEF ClientState, DumperState, CompactorState
<1>2. PcOK
  BY <1>1 DEF PcOK, StatesOK, Threads, Init
<1>3. {} \in File /\ NoFile \in File
  BY DEF File
<1>4. bin \in [Tables -> [Partitions -> File]]
  BY <1>3 DEF Init
<1>5. tmp \in [Tables -> [TmpNames -> File]] /\ tmpc = tmp
  BY <1>3 DEF Init
<1>6. DataOK
  BY <1>4, <1>5 DEF DataOK, Init
<1> QED
  BY <1>2, <1>6, Types

\* What is listed in a directory are entries,
LEMMA NamesFacts == ASSUME NEW t PROVE Names(t) \in SUBSET Entries
<1>1. Partitions \subseteq Nat
  BY DEF Partitions
<1>2. {<<"Metadata", 0>> : u \in metadata \cap {t}} \subseteq Entries
  BY DEF Entries
<1>3. {<<"bin", p>> : p \in {q \in Partitions : bin[t][q] # NoFile}} \subseteq Entries
  BY <1>1 DEF Entries
<1>4. {<<"tmp", j>> : j \in {i \in TmpNames : tmp[t][i] # NoFile}} \subseteq Entries
  BY DEF Entries
<1>5. {<<"tmpc", j>> : j \in {i \in TmpNames : tmpc[t][i] # NoFile}} \subseteq Entries
  BY DEF Entries
<1> QED
  BY <1>2, <1>3, <1>4, <1>5 DEF Names

\* and the temporary ones are files of the table, with records.
LEMMA NamedFacts ==
  ASSUME DataOK, NEW t \in Tables, NEW names \in SUBSET Entries, NEW n \in Temporaries(names)
  PROVE  /\ n \in names /\ n[2] \in TmpNames
         /\ n = <<"tmp", n[2]>> \/ n = <<"tmpc", n[2]>>
         /\ n = <<"tmp", n[2]>> => Named(t, n) = tmp[t][n[2]]
         /\ n = <<"tmpc", n[2]>> => Named(t, n) = tmpc[t][n[2]]
         /\ Content(Named(t, n)) \in SUBSET Record
<1>1. n \in names /\ n[1] \in {"tmp", "tmpc"} /\ n \in Entries
  BY DEF Temporaries
<1>2. n \in {"tmp", "tmpc"} \X TmpNames
  BY <1>1 DEF Entries
<1>3. PICK a \in {"tmp", "tmpc"}, j \in TmpNames : n = <<a, j>>
  BY <1>2
<1>4. n[1] = a /\ n[2] = j
  BY <1>3
<1>5. Named(t, n) = IF a = "tmp" THEN tmp[t][j] ELSE tmpc[t][j]
  BY <1>4 DEF Named
<1>6. Named(t, n) \in File
  BY <1>5 DEF DataOK
<1>7. Content(Named(t, n)) \in SUBSET Record
  BY <1>6, ContentFacts
<1>8. n = <<"tmp", n[2]>> => a = "tmp"
  BY <1>4
<1>9. n = <<"tmpc", n[2]>> => a = "tmpc"
  BY <1>4
<1> QED
  BY <1>1, <1>3, <1>4, <1>5, <1>7, <1>8, <1>9

\* Each step of a client keeps the types:
LEMMA InsertType ==
  ASSUME TInv, NEW c \in Clients,
         (\E t \in Tables, k \in Keys : Insert_Check(c, t, k)) \/ memtable_new_elem(c)
  PROVE  TInv'
<1>1. DataOK /\ PcOK
  BY Types
<1>2. ASSUME NEW t \in Tables, NEW k \in Keys, Insert_Check(c, t, k) PROVE TInv'
  <2>1. clock + 1 \in 1 .. MaxTime /\ clock' = clock + 1
    BY <1>1, <1>2 DEF Insert_Check, DataOK
  <2>2. [at |-> "insert", table |-> t, record |-> [key |-> k, timestamp |-> clock + 1]] \in ClientState
    BY <2>1 DEF ClientState, Record
  <2>3. PcOK'
    BY <1>1, <1>2, <2>2, ClientGoes DEF Insert_Check
  <2>4. DataOK'
    BY <1>1, <1>2, <2>1 DEF Insert_Check, DataOK, files
  <2> QED
    BY <2>3, <2>4, TypesNext
<1>3. ASSUME memtable_new_elem(c) PROVE TInv'
  <2>1. pc[c].table \in Tables /\ pc[c].record \in Record
    BY <1>1, <1>3, ClientKnows DEF memtable_new_elem, PcOK, StatesOK
  <2>2. [at |-> "idle"] \in ClientState
    BY DEF ClientState
  <2>3. PcOK'
    BY <1>1, <1>3, <2>2, ClientGoes DEF memtable_new_elem
  <2>4. memtable' \in [Tables -> SUBSET Record] /\ acked' \in [Tables -> SUBSET Record]
    BY <1>1, <1>3, <2>1 DEF memtable_new_elem, DataOK
  <2>5. DataOK'
    BY <1>1, <1>3, <2>4 DEF memtable_new_elem, DataOK, files
  <2> QED
    BY <2>3, <2>5, TypesNext
<1> QED
  BY <1>2, <1>3

\* a step of its own that changes nothing else,
LEMMA OnlyGoes ==
  ASSUME TInv, NEW c \in Clients, NEW p \in ClientState, Goto(c, p),
         UNCHANGED <<dirs, metadata, inode, files, memtable, old, locks, registered, clock, acked>>
  PROVE  TInv'
<1>1. DataOK /\ PcOK
  BY Types
<1>2. PcOK'
  BY <1>1, ClientGoes
<1>3. DataOK'
  BY <1>1 DEF DataOK, files
<1> QED
  BY <1>2, <1>3, TypesNext

\* The greatest of two times is one of them.
LEMMA MaxOfTwo ==
  \A m, n \in Times : /\ Max({m, n}) \in Times /\ Max({m, n}) \in {m, n}
                      /\ Max({m, n}) >= m /\ Max({m, n}) >= n
<1> TAKE m, n \in Times
<1>1. {m, n} \in SUBSET (0 .. MaxTime) /\ {m, n} # {}
  BY DEF Times
<1>2. Max({m, n}) \in {m, n}
  BY <1>1, Greatest
<1>3. \A y \in {m, n} : y <= Max({m, n})
  BY <1>1, Greatest
<1>4. m <= Max({m, n}) /\ n <= Max({m, n})
  BY <1>3
<1>5. m \in Int /\ n \in Int /\ Max({m, n}) \in Int
  BY <1>2 DEF Times
<1> QED
  BY <1>2, <1>4, <1>5

\* What a SELECT that has read the partition goes on with: the same table, key and lock.
ReadOn(c, p) ==
  /\ p.table = pc[c].table /\ p.inode = pc[c].inode /\ p.key = pc[c].key
  /\ p.floor = pc[c].floor /\ p.stored = pc[c].stored
LEMMA ReadSteps ==
  ASSUME TInv, NEW c \in Clients,
         \/ Temporaries_Open(c) \/ temporales_get_biggest_timestamp(c) \/ Temporaries_Return(c)
         \/ memtable_get_biggest_timestamp(c)
  PROVE  \E p \in ClientState :
           /\ Goto(c, p) /\ ReadOn(c, p)
           /\ p.at \in IF memtable_get_biggest_timestamp(c) THEN {"done"} ELSE {"temps", "mem"}
           /\ pc[c].at \in IF memtable_get_biggest_timestamp(c) THEN {"mem"} ELSE {"tmp", "temps"}
<1>1. DataOK /\ PcOK /\ pc[c] \in ClientState /\ c \in Threads
  BY Types DEF PcOK, StatesOK, Threads
<1>2. /\ Temporaries_Open(c) => pc[c].at = "tmp"
      /\ temporales_get_biggest_timestamp(c) \/ Temporaries_Return(c) => pc[c].at = "temps"
      /\ memtable_get_biggest_timestamp(c) => pc[c].at = "mem"
  BY DEF Temporaries_Open, temporales_get_biggest_timestamp, Temporaries_Return, memtable_get_biggest_timestamp
<1> DEFINE Goal(to) == \E p \in ClientState : Goto(c, p) /\ ReadOn(c, p) /\ p.at \in to
<1>3. ASSUME Temporaries_Open(c) PROVE Goal({"temps", "mem"})
  <2>1. pc[c] \in [at : {"tmp", "mem", "done"}, table : Tables, inode : Nat, key : Keys, floor : Times,
                   stored : Times, found : Times]
    BY <1>1, <1>2, <1>3, ClientKnows
  <2> DEFINE p == [at |-> "temps", table |-> pc[c].table, inode |-> pc[c].inode, key |-> pc[c].key,
                   floor |-> pc[c].floor, stored |-> pc[c].stored, found |-> pc[c].found,
                   names |-> Names(pc[c].table), best |-> 0]
             q == [pc[c] EXCEPT !.at = "mem"]
  <2>2. p \in ClientState
    BY <2>1, NamesFacts DEF ClientState, Times
  <2>3. ReadOn(c, p) /\ p.at = "temps"
    BY DEF ReadOn
  <2>4. q \in ClientState /\ ReadOn(c, q) /\ q.at = "mem"
    BY <2>1 DEF ClientState, ReadOn
  <2>5. Goto(c, p) \/ Goto(c, q)
    BY <1>3 DEF Temporaries_Open
  <2> HIDE DEF p, q
  <2> QED
    BY <2>2, <2>3, <2>4, <2>5
<1>4. ASSUME temporales_get_biggest_timestamp(c) PROVE Goal({"temps", "mem"})
  <2>1. pc[c] \in [at : {"temps"}, table : Tables, inode : Nat, key : Keys, floor : Times,
                   stored : Times, found : Times, names : SUBSET Entries, best : Times]
    BY <1>1, <1>2, <1>4, ClientKnows
  <2>2. PICK n \in Temporaries(pc[c].names) :
          pc' = [pc EXCEPT ![c].names = @ \ {n},
                           ![c].best = Max({@, Newest(Content(Named(pc[c].table, n)), pc[c].key)})]
    BY <1>4 DEF temporales_get_biggest_timestamp
  <2> DEFINE best == Max({pc[c].best, Newest(Content(Named(pc[c].table, n)), pc[c].key)})
             names == pc[c].names \ {n}
             p == [pc[c] EXCEPT !.names = names, !.best = best]
  <2>3. Content(Named(pc[c].table, n)) \in SUBSET Record
    BY <1>1, <2>1, NamedFacts
  <2>4. Newest(Content(Named(pc[c].table, n)), pc[c].key) \in Times
    BY <2>3, NewestFacts
  <2>5. best \in Times /\ names \in SUBSET Entries
    BY <2>1, <2>4, MaxOfTwo
  <2>6. Goto(c, p)
    BY <2>2 DEF Goto
  <2> HIDE DEF best, names
  <2>7. p \in ClientState /\ ReadOn(c, p) /\ p.at = "temps"
    BY <2>1, <2>5 DEF ClientState, ReadOn
  <2> HIDE DEF p
  <2> QED
    BY <2>6, <2>7
<1>5. ASSUME Temporaries_Return(c) PROVE Goal({"temps", "mem"})
  <2>1. pc[c] \in [at : {"temps"}, table : Tables, inode : Nat, key : Keys, floor : Times,
                   stored : Times, found : Times, names : SUBSET Entries, best : Times]
    BY <1>1, <1>2, <1>5, ClientKnows
  <2>2. PICK failed \in BOOLEAN :
          Goto(c, [at |-> "mem", table |-> pc[c].table, inode |-> pc[c].inode, key |-> pc[c].key,
                   floor |-> pc[c].floor, stored |-> pc[c].stored,
                   found |-> IF failed THEN pc[c].found ELSE Max({pc[c].found, pc[c].best})])
    BY <1>5 DEF Temporaries_Return
  <2> DEFINE found == IF failed THEN pc[c].found ELSE Max({pc[c].found, pc[c].best})
             p == [at |-> "mem", table |-> pc[c].table, inode |-> pc[c].inode, key |-> pc[c].key,
                   floor |-> pc[c].floor, stored |-> pc[c].stored, found |-> found]
  <2>3. found \in Times
    BY <2>1, MaxOfTwo
  <2>4. Goto(c, p)
    BY <2>2
  <2> HIDE DEF found
  <2>5. p \in ClientState
    BY <2>1, <2>3 DEF ClientState
  <2>6. ReadOn(c, p) /\ p.at = "mem"
    BY DEF ReadOn
  <2> HIDE DEF p
  <2> QED
    BY <2>4, <2>5, <2>6
<1>6. ASSUME memtable_get_biggest_timestamp(c) PROVE Goal({"done"})
  <2>1. pc[c] \in [at : {"tmp", "mem", "done"}, table : Tables, inode : Nat, key : Keys, floor : Times,
                   stored : Times, found : Times]
    BY <1>1, <1>2, <1>6, ClientKnows
  <2> DEFINE found == Max({pc[c].found, Newest(memtable[pc[c].table], pc[c].key)})
             p == [pc[c] EXCEPT !.at = "done", !.found = found]
  <2>2. memtable[pc[c].table] \in SUBSET Record
    BY <1>1, <2>1 DEF DataOK
  <2>3. found \in Times
    <3>1. Newest(memtable[pc[c].table], pc[c].key) \in Times
      BY <2>2, NewestFacts
    <3>2. pc[c].found \in Times
      BY <2>1
    <3> QED
      BY <3>1, <3>2, MaxOfTwo
  <2>4. Goto(c, p)
    BY <1>6 DEF memtable_get_biggest_timestamp, Goto
  <2> HIDE DEF found
  <2>5. p \in ClientState /\ ReadOn(c, p) /\ p.at = "done"
    BY <2>1, <2>3 DEF ClientState, ReadOn
  <2> HIDE DEF p
  <2> QED
    BY <2>4, <2>5
<1>7. memtable_get_biggest_timestamp(c) => Goal({"done"})
  BY <1>6
<1>8. ~memtable_get_biggest_timestamp(c) => Goal({"temps", "mem"})
  BY <1>3, <1>4, <1>5
<1> QED
  BY <1>2, <1>7, <1>8

\* api_select,
LEMMA SelectType ==
  ASSUME TInv, NEW c \in Clients,
         \/ \E t \in Tables, k \in Keys : Select_Open(c, t, k)
         \/ Select_Lock(c) \/ scanParticion(c) \/ Temporaries_Open(c)
         \/ temporales_get_biggest_timestamp(c) \/ Temporaries_Return(c)
         \/ memtable_get_biggest_timestamp(c) \/ Select_Return(c)
  PROVE  TInv'
<1>1. DataOK /\ PcOK /\ pc[c] \in ClientState /\ c \in Threads
  BY Types DEF PcOK, StatesOK, Threads
<1>2. ASSUME NEW t \in Tables, NEW k \in Keys, Select_Open(c, t, k) PROVE TInv'
  <2>1. Newest(acked[t], k) \in Times /\ inode[t] \in Nat
    <3>1. acked[t] \in SUBSET Record /\ inode[t] \in Nat
      BY <1>1 DEF DataOK
    <3> QED
      BY <3>1, NewestFacts
  <2>2. [at |-> "lock", table |-> t, inode |-> inode[t], key |-> k, floor |-> Newest(acked[t], k)] \in ClientState
    BY <2>1 DEF ClientState
  <2> QED
    BY <1>2, <2>2, OnlyGoes DEF Select_Open
<1>3. ASSUME Select_Lock(c) PROVE TInv'
  <2>1. pc[c] \in [at : {"lock"}, table : Tables, inode : Nat, key : Keys, floor : Times]
    BY <1>1, <1>3, ClientKnows DEF Select_Lock
  <2>2. Newest(Stored(pc[c].table), pc[c].key) \in Times
    BY <1>1, <2>1, StoredIsRecords, NewestFacts
  <2>3. [at |-> "bin", table |-> pc[c].table, inode |-> pc[c].inode, key |-> pc[c].key,
         floor |-> pc[c].floor, stored |-> Newest(Stored(pc[c].table), pc[c].key)] \in ClientState
    BY <2>1, <2>2 DEF ClientState
  <2>4. PcOK'
    BY <1>1, <1>3, <2>3, ClientGoes DEF Select_Lock
  <2>5. locks' \subseteq [thread : Threads \cup {Nobody}, table : Tables, inode : Nat, exclusive : BOOLEAN]
    BY <1>1, <1>3, <2>1, LockTypes DEF Select_Lock
  <2>6. DataOK'
    BY <1>1, <1>3, <2>5 DEF DataOK, files, Select_Lock
  <2> QED
    BY <2>4, <2>6, TypesNext
<1>4. ASSUME scanParticion(c) PROVE TInv'
  <2>1. pc[c] \in [at : {"bin"}, table : Tables, inode : Nat, key : Keys, floor : Times, stored : Times]
    BY <1>1, <1>4, ClientKnows DEF scanParticion
  <2>2. Part(pc[c].key) \in Partitions
    BY <2>1, PartFacts
  <2>3. Content(bin[pc[c].table][Part(pc[c].key)]) \in SUBSET Record
    BY <1>1, <2>1, <2>2, ContentFacts DEF DataOK
  <2>4. Newest(Content(bin[pc[c].table][Part(pc[c].key)]), pc[c].key) \in Times
    BY <2>3, NewestFacts
  <2>5. [at |-> "tmp", table |-> pc[c].table, inode |-> pc[c].inode, key |-> pc[c].key,
         floor |-> pc[c].floor, stored |-> pc[c].stored,
         found |-> Newest(Content(bin[pc[c].table][Part(pc[c].key)]), pc[c].key)] \in ClientState
    BY <2>1, <2>4 DEF ClientState
  <2> QED
    BY <1>4, <2>5, OnlyGoes DEF scanParticion
<1>5. ASSUME Temporaries_Open(c) \/ temporales_get_biggest_timestamp(c) \/ Temporaries_Return(c) PROVE TInv'
  <2>1. UNCHANGED <<dirs, metadata, inode, files, memtable, old, locks, registered, clock, acked>>
    BY <1>5 DEF Temporaries_Open, temporales_get_biggest_timestamp, Temporaries_Return
  <2> QED
    BY <1>5, <2>1, ReadSteps, OnlyGoes
<1>7. ASSUME memtable_get_biggest_timestamp(c) PROVE TInv'
  <2>1. PcOK'
    BY <1>1, <1>7, ReadSteps, ClientGoes
  <2>2. locks' \subseteq [thread : Threads \cup {Nobody}, table : Tables, inode : Nat, exclusive : BOOLEAN]
    BY <1>1, <1>7, UnlockTypes DEF memtable_get_biggest_timestamp
  <2>3. DataOK'
    BY <1>1, <1>7, <2>2 DEF DataOK, files, memtable_get_biggest_timestamp
  <2> QED
    BY <2>1, <2>3, TypesNext
<1>8. ASSUME Select_Return(c) PROVE TInv'
  <2>1. [at |-> "idle"] \in ClientState
    BY DEF ClientState
  <2> QED
    BY <1>8, <2>1, OnlyGoes DEF Select_Return
<1> QED
  BY <1>2, <1>3, <1>4, <1>5, <1>7, <1>8

\* api_describe,
LEMMA DescribeType ==
  ASSUME TInv, NEW c \in Clients,
         Describe_Tables(c) \/ Describe_Open(c) \/ traverse(c) \/ Describe_Segfault(c) \/ Describe_End(c)
  PROVE  TInv'
<1>1. DataOK /\ PcOK /\ pc[c] \in ClientState
  BY Types DEF PcOK, StatesOK
<1>2. ASSUME Describe_Tables(c) PROVE TInv'
  <2>1. [at |-> "tables", left |-> dirs] \in ClientState
    BY <1>1 DEF ClientState, DataOK
  <2> QED
    BY <1>2, <2>1, OnlyGoes DEF Describe_Tables
<1>3. ASSUME Describe_Open(c) PROVE TInv'
  <2>1. pc[c].left \subseteq Tables
    BY <1>1, <1>3, ClientKnows DEF Describe_Open
  <2>2. PICK t \in pc[c].left \cap dirs :
          Goto(c, [at |-> "entries", left |-> pc[c].left \ {t}, table |-> t, names |-> Names(t)])
    BY <1>3 DEF Describe_Open
  <2>3. Names(t) \in SUBSET Entries
    BY NamesFacts
  <2>4. [at |-> "entries", left |-> pc[c].left \ {t}, table |-> t, names |-> Names(t)] \in ClientState
    BY <2>1, <2>3 DEF ClientState
  <2> QED
    BY <1>3, <2>2, <2>4, OnlyGoes DEF Describe_Open
<1>4. ASSUME traverse(c) PROVE TInv'
  <2>1. pc[c].left \subseteq Tables
    BY <1>1, <1>4, ClientKnows DEF traverse
  <2>2. [at |-> "tables", left |-> pc[c].left] \in ClientState
    BY <2>1 DEF ClientState
  <2> QED
    BY <1>4, <2>2, OnlyGoes DEF traverse
<1>5. ASSUME Describe_Segfault(c) PROVE TInv'
  BY <1>5, DieTypes DEF Describe_Segfault
<1>6. ASSUME Describe_End(c) PROVE TInv'
  <2>1. [at |-> "idle"] \in ClientState
    BY DEF ClientState
  <2> QED
    BY <1>6, <2>1, OnlyGoes DEF Describe_End
<1> QED
  BY <1>2, <1>3, <1>4, <1>5, <1>6

\* A client that goes on with its table.
LEMMA TableStepType ==
  ASSUME PcOK, NEW c \in Clients, NEW step \in {"mkdir", "metadata", "compactor", "memtable", "cancel", "list"},
         pc[c].at \in {"mkdir", "metadata", "compactor", "memtable", "cancel", "list"},
         Step(c, step)
  PROVE  PcOK' /\ pc[c].table \in Tables
<1>1. pc[c] \in [at : {"mkdir", "metadata", "compactor", "memtable", "cancel", "list"}, table : Tables]
  BY ClientKnows DEF PcOK, StatesOK
<1>2. [pc[c] EXCEPT !.at = step] \in ClientState
  BY <1>1 DEF ClientState
<1>3. Goto(c, [pc[c] EXCEPT !.at = step])
  BY GoesAt DEF Threads
<1> QED
  BY <1>1, <1>2, <1>3, ClientGoes

\* A file that changes.
LEMMA FileChanged ==
  ASSUME NEW S, NEW N, NEW f \in [S -> [N -> File]], NEW s \in S, NEW n \in N, NEW file \in File
  PROVE  [f EXCEPT ![s][n] = file] \in [S -> [N -> File]]
OBVIOUS

\* What the files of a table are after one changed.
LEMMA FileAfter ==
  ASSUME NEW S, NEW N, NEW f \in [S -> [N -> File]], NEW g, NEW s, NEW n, NEW file,
         g = [f EXCEPT ![s][n] = file] 
  PROVE  \A a \in S, b \in N : g[a][b] = IF a = s /\ b = n THEN file ELSE f[a][b]
OBVIOUS

\* api_create,
LEMMA CreateType ==
  ASSUME TInv, NEW c \in Clients,
         \/ \E t \in Tables : Create_Check(c, t)
         \/ Create_Dir(c) \/ Create_Metadata(c) \/ Create_Bins(c) \/ Create_NoSpace(c)
         \/ agregarTablaCompactador(c)
  PROVE  TInv'
<1>1. DataOK /\ PcOK /\ pc[c] \in ClientState
  BY Types DEF PcOK, StatesOK
<1>2. ASSUME NEW t \in Tables, Create_Check(c, t) PROVE TInv'
  <2>1. [at |-> "mkdir", table |-> t] \in ClientState
    BY DEF ClientState
  <2> QED
    BY <1>2, <2>1, OnlyGoes DEF Create_Check
<1>3. ASSUME Create_Dir(c) PROVE TInv'
  <2>1. PcOK' /\ pc[c].table \in Tables
    BY <1>1, <1>3, TableStepType DEF Create_Dir
  <2>2. DataOK'
    BY <1>1, <1>3, <2>1 DEF Create_Dir, DataOK, files
  <2> QED
    BY <2>1, <2>2, TypesNext
<1>4. ASSUME Create_Metadata(c) PROVE TInv'
  <2>1. pc[c].table \in Tables
    BY <1>1, <1>4, ClientKnows DEF Create_Metadata
  <2>2. [at |-> "bins", table |-> pc[c].table, part |-> 0] \in ClientState
    BY <2>1 DEF ClientState, Partitions
  <2>3. PcOK'
    BY <1>1, <1>4, <2>2, ClientGoes DEF Create_Metadata
  <2>4. DataOK'
    BY <1>1, <1>4 DEF Create_Metadata, DataOK, files
  <2> QED
    BY <2>3, <2>4, TypesNext
<1>5. ASSUME Create_Bins(c) PROVE TInv'
  <2>1. pc[c].table \in Tables /\ pc[c].part \in Partitions
    BY <1>1, <1>5, ClientKnows DEF Create_Bins
  <2>2. [at |-> "compactor", table |-> pc[c].table] \in ClientState
    BY <2>1 DEF ClientState
  <2>3. pc[c].part + 1 # NumPartitions => [at |-> "bins", table |-> pc[c].table, part |-> pc[c].part + 1] \in ClientState
    <3>1. pc[c].part + 1 # NumPartitions => pc[c].part + 1 \in Partitions
      BY <2>1 DEF Partitions
    <3> QED
      BY <2>1, <3>1 DEF ClientState
  <2>4. PcOK'
    BY <1>1, <1>5, <2>2, <2>3, ClientGoes DEF Create_Bins
  <2>5. bin[pc[c].table][pc[c].part] \in File /\ {} \in File
    BY <1>1, <2>1 DEF DataOK, File
  <2>6. PICK file \in File : bin' = [bin EXCEPT ![pc[c].table][pc[c].part] = file]
    BY <1>5, <2>5 DEF Create_Bins
  <2>7. bin' \in [Tables -> [Partitions -> File]]
    BY <1>1, <2>1, <2>6, FileChanged DEF DataOK
  <2>8. DataOK'
    BY <1>1, <1>5, <2>7 DEF Create_Bins, DataOK
  <2> QED
    BY <2>4, <2>8, TypesNext
<1>7. ASSUME Create_NoSpace(c) PROVE TInv'
  <2>1. pc[c].table \in Tables
    BY <1>1, <1>7, ClientKnows DEF Create_NoSpace
  <2>2. [at |-> "idle"] \in ClientState /\ [at |-> "memtable", table |-> pc[c].table] \in ClientState
    BY <2>1 DEF ClientState
  <2> QED
    BY <1>7, <2>2, OnlyGoes DEF Create_NoSpace
<1>8. ASSUME agregarTablaCompactador(c) PROVE TInv'
  <2>1. pc[c].table \in Tables
    BY <1>1, <1>8, ClientKnows DEF agregarTablaCompactador
  <2>2. PICK x \in Compactors :
          /\ registered' = [registered EXCEPT ![pc[c].table] = x]
          /\ pc' = [pc EXCEPT ![c] = [at |-> "idle"], ![x] = [at |-> "sleep", table |-> pc[c].table]]
    BY <1>8 DEF agregarTablaCompactador
  <2>3. [at |-> "idle"] \in ClientState /\ [at |-> "sleep", table |-> pc[c].table] \in CompactorState
    BY <2>1 DEF ClientState, CompactorState
  <2>4. DOMAIN pc' = Threads
    BY <1>1, <2>2 DEF PcOK
  <2>5. \A u \in Threads : pc'[u] = IF u = x THEN [at |-> "sleep", table |-> pc[c].table]
                                    ELSE IF u = c THEN [at |-> "idle"] ELSE pc[u]
    BY <1>1, <2>2 DEF PcOK
  <2>6. PcOK'
    BY <1>1, <2>3, <2>4, <2>5 DEF PcOK, StatesOK, Threads
  <2>7. DataOK'
    BY <1>1, <1>8, <2>1, <2>2 DEF agregarTablaCompactador, DataOK, files
  <2> QED
    BY <2>6, <2>7, TypesNext
<1> QED
  BY <1>2, <1>3, <1>4, <1>5, <1>7, <1>8

\* api_drop,
LEMMA DropType ==
  ASSUME TInv, NEW c \in Clients,
         \/ \E t \in Tables : Drop_Check(c, t)
         \/ memtable_delete_table(c) \/ quitarTablaCompactador(c)
         \/ Drop_Open(c) \/ traverse_to_drop(c) \/ Drop_Dir(c)
  PROVE  TInv'
<1>1. DataOK /\ PcOK /\ pc[c] \in ClientState
  BY Types DEF PcOK, StatesOK
<1>2. ASSUME NEW t \in Tables, Drop_Check(c, t) PROVE TInv'
  <2>1. [at |-> "memtable", table |-> t] \in ClientState
    BY DEF ClientState
  <2> QED
    BY <1>2, <2>1, OnlyGoes DEF Drop_Check
<1>3. ASSUME memtable_delete_table(c) PROVE TInv'
  <2>1. PcOK' /\ pc[c].table \in Tables
    BY <1>1, <1>3, TableStepType DEF memtable_delete_table
  <2>2. DataOK'
    BY <1>1, <1>3, <2>1 DEF memtable_delete_table, DataOK, files
  <2> QED
    BY <2>1, <2>2, TypesNext
<1>4. ASSUME quitarTablaCompactador(c) PROVE TInv'
  <2>1. pc[c] \in [at : {"mkdir", "metadata", "compactor", "memtable", "cancel", "list"},
                   table : Tables]
    BY <1>1, <1>4, ClientKnows DEF quitarTablaCompactador
  <2>2. [pc[c] EXCEPT !.at = "list"] \in ClientState
    BY <2>1 DEF ClientState
  <2>3. [at |-> "none"] \in CompactorState
    BY DEF CompactorState
  <2>4. registered[pc[c].table] \in Compactors \cup {Nobody}
    BY <1>1, <2>1 DEF DataOK
  <2>5. DOMAIN pc' = Threads
        /\ \A th \in Threads : pc'[th] = IF th = c THEN [pc[c] EXCEPT !.at = "list"]
                                         ELSE IF th = registered[pc[c].table] THEN [at |-> "none"] ELSE pc[th]
    BY <1>4 DEF quitarTablaCompactador
  <2>6. PcOK'
    BY <1>1, <2>2, <2>3, <2>4, <2>5 DEF PcOK, StatesOK, Threads
  <2>7. locks' \subseteq [thread : Threads \cup {Nobody}, table : Tables, inode : Nat, exclusive : BOOLEAN]
    <3>1. \A l \in locks : l \in [thread : Threads \cup {Nobody}, table : Tables, inode : Nat, exclusive : BOOLEAN]
      BY <1>1 DEF DataOK
    <3>2. \A l \in locks : [l EXCEPT !.thread = Nobody]
            \in [thread : Threads \cup {Nobody}, table : Tables, inode : Nat, exclusive : BOOLEAN]
      BY <3>1
    <3> QED
      BY <1>4, <3>1, <3>2 DEF quitarTablaCompactador
  <2>8. DataOK'
    BY <1>1, <1>4, <2>1, <2>7 DEF quitarTablaCompactador, DataOK, files
  <2> QED
    BY <2>6, <2>8, TypesNext
<1>7. ASSUME Drop_Open(c) PROVE TInv'
  <2>1. pc[c].table \in Tables
    BY <1>1, <1>7, ClientKnows DEF Drop_Open
  <2>2. [at |-> "idle"] \in ClientState
    BY DEF ClientState
  <2>3. [at |-> "delete", table |-> pc[c].table, names |-> Names(pc[c].table)] \in ClientState
    BY <2>1, NamesFacts DEF ClientState
  <2> QED
    BY <1>7, <2>2, <2>3, OnlyGoes DEF Drop_Open
<1>5. ASSUME traverse_to_drop(c) PROVE TInv'
  <2>1. pc[c] \in [at : {"delete"}, table : Tables, names : SUBSET Entries]
    BY <1>1, <1>5, ClientKnows DEF traverse_to_drop
  <2>2. PICK n \in pc[c].names :
          /\ pc' = [pc EXCEPT ![c].names = @ \ {n}]
          /\ metadata' = metadata \ {u \in {pc[c].table} : n[1] = "Metadata"}
          /\ bin' = [bin EXCEPT ![pc[c].table] = [p \in Partitions |-> IF n = <<"bin", p>> THEN NoFile ELSE @[p]]]
          /\ tmp' = [tmp EXCEPT ![pc[c].table] = [j \in TmpNames |-> IF n = <<"tmp", j>> THEN NoFile ELSE @[j]]]
          /\ tmpc' = [tmpc EXCEPT ![pc[c].table] = [j \in TmpNames |-> IF n = <<"tmpc", j>> THEN NoFile ELSE @[j]]]
    BY <1>5 DEF traverse_to_drop
  <2>3. NoFile \in File
    BY DEF File
  <2>4. bin' \in [Tables -> [Partitions -> File]]
    BY <1>1, <2>1, <2>2, <2>3 DEF DataOK
  <2>5. tmp' \in [Tables -> [TmpNames -> File]]
    BY <1>1, <2>1, <2>2, <2>3 DEF DataOK
  <2>6. tmpc' \in [Tables -> [TmpNames -> File]]
    BY <1>1, <2>1, <2>2, <2>3 DEF DataOK
  <2>7. DataOK'
    BY <1>1, <1>5, <2>2, <2>4, <2>5, <2>6 DEF traverse_to_drop, DataOK
  <2>8. pc' = [pc EXCEPT ![c] = [pc[c] EXCEPT !.names = @ \ {n}]]
    BY <2>2
  <2>9. [pc[c] EXCEPT !.names = @ \ {n}] \in ClientState
    BY <2>1 DEF ClientState
  <2>10. PcOK'
    BY <1>1, <2>8, <2>9, ClientGoes DEF Goto
  <2> QED
    BY <2>7, <2>10, TypesNext
<1>6. ASSUME Drop_Dir(c) PROVE TInv'
  <2>1. pc[c].table \in Tables
    BY <1>1, <1>6, ClientKnows DEF Drop_Dir
  <2>2. [at |-> "idle"] \in ClientState
    BY DEF ClientState
  <2>3. PcOK'
    BY <1>1, <1>6, <2>2, ClientGoes DEF Drop_Dir
  <2>4. DataOK'
    <3>1. CASE pc[c].table \in dirs /\ pc[c].table \notin metadata /\ NoFiles(pc[c].table)
      <4>1. /\ dirs' = dirs \ {pc[c].table}
            /\ inode' = [inode EXCEPT ![pc[c].table] = @ + 1]
            /\ acked' = [acked EXCEPT ![pc[c].table] = {}]
        BY <1>6, <3>1 DEF Drop_Dir
      <4>2. dirs' \subseteq Tables /\ metadata \subseteq dirs'
        BY <1>1, <3>1, <4>1 DEF DataOK
      <4>3. inode' \in [Tables -> Nat] /\ acked' \in [Tables -> SUBSET Record]
        BY <1>1, <2>1, <4>1 DEF DataOK
      <4> QED
        BY <1>1, <1>6, <4>2, <4>3 DEF Drop_Dir, DataOK, files
    <3>2. CASE ~(pc[c].table \in dirs /\ pc[c].table \notin metadata /\ NoFiles(pc[c].table))
      BY <1>1, <1>6, <2>1, <3>2 DEF Drop_Dir, DataOK, files
    <3> QED
      BY <3>1, <3>2
  <2> QED
    BY <2>3, <2>4, TypesNext
<1> QED
  BY <1>2, <1>3, <1>4, <1>5, <1>6, <1>7

\* A compactor,
LEMMA CompactorType == ASSUME TInv, NEW x \in Compactors, Compactor(x) PROVE TInv'
<1>1. DataOK /\ PcOK /\ pc[x] \in CompactorState /\ x \in Threads
  BY Types DEF PcOK, StatesOK, Threads
<1>2. ASSUME Compact_Start(x) PROVE TInv'
  <2>1. pc[x].table \in Tables
    BY <1>1, <1>2, CompactorKnows DEF Compact_Start
  <2>2. [at |-> "lock1", table |-> pc[x].table, inode |-> inode[pc[x].table]] \in CompactorState
    BY <1>1, <2>1 DEF CompactorState, DataOK
  <2>3. PcOK'
    BY <1>1, <1>2, <2>2, CompactorGoes DEF Compact_Start
  <2>4. DataOK'
    BY <1>1, <1>2 DEF Compact_Start, DataOK, files
  <2> QED
    BY <2>3, <2>4, TypesNext
<1>3. ASSUME Compact_Lock(x, "lock1", "rename") PROVE TInv'
  <2>1. pc[x] \in [at : {"lock1", "rename", "read"}, table : Tables, inode : Nat]
    BY <1>1, <1>3, CompactorKnows DEF Compact_Lock
  <2>2. [pc[x] EXCEPT !.at = "rename"] \in CompactorState
    BY <2>1 DEF CompactorState
  <2>3. PcOK'
    BY <1>1, <1>3, <2>2, GoesAt, CompactorGoes DEF Compact_Lock
  <2>4. locks' \subseteq [thread : Threads \cup {Nobody}, table : Tables, inode : Nat, exclusive : BOOLEAN]
    BY <1>1, <1>3, <2>1, LockTypes DEF Compact_Lock
  <2>5. DataOK'
    BY <1>1, <1>3, <2>4 DEF Compact_Lock, DataOK, files
  <2> QED
    BY <2>3, <2>5, TypesNext
<1>4. ASSUME Compact_Lock(x, "lock2", "delete") PROVE TInv'
  <2>1. pc[x] \in [at : {"lock2", "delete", "write"}, table : Tables, inode : Nat,
                   unwritten : SUBSET Partitions, merged : SUBSET Record]
    BY <1>1, <1>4, CompactorKnows DEF Compact_Lock
  <2>2. [pc[x] EXCEPT !.at = "delete"] \in CompactorState
    BY <2>1 DEF CompactorState
  <2>3. PcOK'
    BY <1>1, <1>4, <2>2, GoesAt, CompactorGoes DEF Compact_Lock
  <2>4. locks' \subseteq [thread : Threads \cup {Nobody}, table : Tables, inode : Nat, exclusive : BOOLEAN]
    BY <1>1, <1>4, <2>1, LockTypes DEF Compact_Lock
  <2>5. DataOK'
    BY <1>1, <1>4, <2>4 DEF Compact_Lock, DataOK, files
  <2> QED
    BY <2>3, <2>5, TypesNext
<1>5. ASSUME _convertirATmpc(x) PROVE TInv'
  <2>1. pc[x].table \in Tables
    BY <1>1, <1>5, CompactorKnows DEF _convertirATmpc
  <2>2. PICK j \in TmpNames : /\ tmpc' = [tmpc EXCEPT ![pc[x].table][j] = tmp[pc[x].table][j]]
                              /\ tmp' = [tmp EXCEPT ![pc[x].table][j] = NoFile]
    BY <1>5 DEF _convertirATmpc
  <2>3. tmp[pc[x].table][j] \in File /\ NoFile \in File
    BY <1>1, <2>1 DEF DataOK, File
  <2>4. tmpc' \in [Tables -> [TmpNames -> File]]
    BY <1>1, <2>1, <2>2, <2>3, FileChanged DEF DataOK
  <2>5. tmp' \in [Tables -> [TmpNames -> File]]
    BY <1>1, <2>1, <2>2, <2>3, FileChanged DEF DataOK
  <2>6. PcOK'
    BY <1>1, <1>5 DEF _convertirATmpc, PcOK, StatesOK
  <2>7. DataOK'
    BY <1>1, <1>5, <2>4, <2>5 DEF _convertirATmpc, DataOK
  <2> QED
    BY <2>6, <2>7, TypesNext
<1>11. ASSUME Compact_Renamed(x) PROVE TInv'
  <2>1. pc[x] \in [at : {"lock1", "rename", "read"}, table : Tables, inode : Nat]
    BY <1>1, <1>11, CompactorKnows DEF Compact_Renamed
  <2>2. [pc[x] EXCEPT !.at = "read"] \in CompactorState
    BY <2>1 DEF CompactorState
  <2>3. PcOK'
    BY <1>1, <1>11, <2>2, GoesAt, CompactorGoes DEF Compact_Renamed
  <2>4. locks' \subseteq [thread : Threads \cup {Nobody}, table : Tables, inode : Nat, exclusive : BOOLEAN]
    BY <1>1, <1>11, UnlockTypes DEF Compact_Renamed
  <2>5. DataOK'
    BY <1>1, <1>11, <2>4 DEF Compact_Renamed, DataOK, files
  <2> QED
    BY <2>3, <2>5, TypesNext
<1>6. ASSUME Compact_Read(x) PROVE TInv'
  <2>1. pc[x] \in [at : {"lock1", "rename", "read"}, table : Tables, inode : Nat]
    BY <1>1, <1>6, CompactorKnows DEF Compact_Read
  <2> DEFINE merged == Merged(Contents(bin[pc[x].table]) \cup Contents(tmpc[pc[x].table]))
  <2>2. merged \in SUBSET Record
    BY <1>1, <2>1, ContentsFacts, MergedFacts DEF DataOK
  <2> HIDE DEF merged
  <2>3. [at |-> "lock2", table |-> pc[x].table, inode |-> pc[x].inode, unwritten |-> Partitions,
         merged |-> merged] \in CompactorState
    BY <2>1, <2>2 DEF CompactorState
  <2>4. PcOK'
    BY <1>1, <1>6, <2>3, CompactorGoes DEF Compact_Read, merged
  <2>5. DataOK'
    BY <1>1, <1>6 DEF Compact_Read, DataOK, files
  <2> QED
    BY <2>4, <2>5, TypesNext
<1>7. ASSUME _borrarTmpc(x) PROVE TInv'
  <2>1. pc[x].table \in Tables
    BY <1>1, <1>7, CompactorKnows DEF _borrarTmpc
  <2>2. PICK j \in TmpNames : tmpc' = [tmpc EXCEPT ![pc[x].table][j] = NoFile]
    BY <1>7 DEF _borrarTmpc
  <2>3. tmpc' \in [Tables -> [TmpNames -> File]]
    BY <1>1, <2>1, <2>2 DEF DataOK, File
  <2>4. PcOK'
    BY <1>1, <1>7 DEF _borrarTmpc, PcOK, StatesOK
  <2>5. DataOK'
    BY <1>1, <1>7, <2>3 DEF _borrarTmpc, DataOK
  <2> QED
    BY <2>4, <2>5, TypesNext
<1>8. ASSUME Compact_Deleted(x) PROVE TInv'
  <2>1. pc[x] \in [at : {"lock2", "delete", "write"}, table : Tables, inode : Nat,
                   unwritten : SUBSET Partitions, merged : SUBSET Record]
    BY <1>1, <1>8, CompactorKnows DEF Compact_Deleted
  <2>2. [pc[x] EXCEPT !.at = "write"] \in CompactorState
    BY <2>1 DEF CompactorState
  <2>3. PcOK'
    BY <1>1, <1>8, <2>2, GoesAt, CompactorGoes DEF Compact_Deleted
  <2>4. DataOK'
    BY <1>1, <1>8 DEF Compact_Deleted, DataOK, files
  <2> QED
    BY <2>3, <2>4, TypesNext
<1>9. ASSUME Compact_Write(x) PROVE TInv'
  <2>1. pc[x] \in [at : {"lock2", "delete", "write"}, table : Tables, inode : Nat,
                   unwritten : SUBSET Partitions, merged : SUBSET Record]
    BY <1>1, <1>9, CompactorKnows DEF Compact_Write
  <2>2. Min(pc[x].unwritten) \in pc[x].unwritten
    <3>1. pc[x].unwritten \in SUBSET Nat /\ pc[x].unwritten # {}
      BY <1>9, <2>1 DEF Compact_Write, Partitions
    <3> QED
      BY <3>1, Least
  <2> DEFINE p == Min(pc[x].unwritten)
             left == pc[x].unwritten \ {p}
  <2>3. p \in Partitions /\ left \in SUBSET Partitions
    BY <2>1, <2>2
  <2> HIDE DEF p, left
  <2>4. \/ bin' = [bin EXCEPT ![pc[x].table][p] = {r \in pc[x].merged : Part(r.key) = p}]
        \/ bin' = bin
    BY <1>9 DEF Compact_Write, p
  <2>5. {r \in pc[x].merged : Part(r.key) = p} \in File
    BY <2>1 DEF File
  <2>6. bin' \in [Tables -> [Partitions -> File]]
    <3> DEFINE part == {r \in pc[x].merged : Part(r.key) = p}
    <3> HIDE DEF part
    <3>1. bin \in [Tables -> [Partitions -> File]] /\ part \in File /\ pc[x].table \in Tables
      BY <1>1, <2>1, <2>5 DEF DataOK, part
    <3>2. [bin EXCEPT ![pc[x].table][p] = part] \in [Tables -> [Partitions -> File]]
      BY <3>1, <2>3, FileChanged
    <3>3. bin' = [bin EXCEPT ![pc[x].table][p] = part] \/ bin' = bin
      BY <2>4 DEF part
    <3> QED
      BY <3>1, <3>2, <3>3
  <2>7. Goto(x, [pc[x] EXCEPT !.unwritten = left])
    BY <1>9 DEF Compact_Write, Goto, p, left
  <2>8. [pc[x] EXCEPT !.unwritten = left] \in CompactorState
    BY <2>1, <2>3 DEF CompactorState
  <2>9. PcOK'
    BY <1>1, <2>7, <2>8, CompactorGoes
  <2>10. DataOK'
    BY <1>1, <1>9, <2>6 DEF Compact_Write, DataOK
  <2> QED
    BY <2>9, <2>10, TypesNext
<1>10. ASSUME Compact_End(x) PROVE TInv'
  <2>1. pc[x].table \in Tables
    BY <1>1, <1>10, CompactorKnows DEF Compact_End
  <2>2. [at |-> "sleep", table |-> pc[x].table] \in CompactorState
    BY <2>1 DEF CompactorState
  <2>3. PcOK'
    BY <1>1, <1>10, <2>2, CompactorGoes DEF Compact_End
  <2>4. locks' \subseteq [thread : Threads \cup {Nobody}, table : Tables, inode : Nat, exclusive : BOOLEAN]
    BY <1>1, <1>10, UnlockTypes DEF Compact_End
  <2>5. DataOK'
    BY <1>1, <1>10, <2>4 DEF Compact_End, DataOK, files
  <2> QED
    BY <2>3, <2>5, TypesNext
<1> QED
  BY <1>2, <1>3, <1>4, <1>5, <1>6, <1>7, <1>8, <1>9, <1>10, <1>11 DEF Compactor

\* a dump,
LEMMA DumperType == ASSUME TInv, NEW d \in Dumpers, Dumper(d) PROVE TInv'
<1>1. DataOK /\ PcOK /\ pc[d] \in DumperState /\ d \in Threads
  BY Types DEF PcOK, StatesOK, Threads
<1>2. ASSUME Dump_Swap(d) PROVE TInv'
  <2>1. [at |-> "next"] \in DumperState
    BY DEF DumperState
  <2>2. PcOK'
    BY <1>1, <1>2, <2>1, DumperGoes DEF Dump_Swap
  <2>3. DataOK'
    BY <1>1, <1>2 DEF Dump_Swap, DataOK, files
  <2> QED
    BY <2>2, <2>3, TypesNext
<1>3. ASSUME Dump_Open(d) PROVE TInv'
  <2>1. PICK t \in dirs : Goto(d, [at |-> "lock", table |-> t, inode |-> inode[t]])
    BY <1>3 DEF Dump_Open
  <2>2. [at |-> "lock", table |-> t, inode |-> inode[t]] \in DumperState
    BY <1>1 DEF DumperState, DataOK
  <2>3. PcOK'
    BY <1>1, <2>1, <2>2, DumperGoes
  <2>4. DataOK'
    BY <1>1, <1>3 DEF Dump_Open, DataOK, files
  <2> QED
    BY <2>3, <2>4, TypesNext
<1>4. ASSUME Dump_NotFound(d) PROVE TInv'
  <2>1. PcOK'
    BY <1>1, <1>4 DEF Dump_NotFound, PcOK, StatesOK
  <2>2. PICK t \in Tables : old' = [old EXCEPT ![d][t] = {}]
    BY <1>4 DEF Dump_NotFound
  <2>3. old' \in [Dumpers -> [Tables -> SUBSET Record]]
    BY <1>1, <2>2 DEF DataOK
  <2>4. DataOK'
    BY <1>1, <1>4, <2>3 DEF Dump_NotFound, DataOK, files
  <2> QED
    BY <2>1, <2>4, TypesNext
<1>5. ASSUME Dump_Lock(d) PROVE TInv'
  <2>1. pc[d] \in [at : {"lock", "create"}, table : Tables, inode : Nat]
    BY <1>1, <1>5, DumperKnows DEF Dump_Lock
  <2>2. [pc[d] EXCEPT !.at = "create"] \in DumperState
    BY <2>1 DEF DumperState
  <2>3. PcOK'
    BY <1>1, <1>5, <2>2, GoesAt, DumperGoes DEF Dump_Lock
  <2>4. locks' \subseteq [thread : Threads \cup {Nobody}, table : Tables, inode : Nat, exclusive : BOOLEAN]
    BY <1>1, <1>5, <2>1, LockTypes DEF Dump_Lock
  <2>5. DataOK'
    BY <1>1, <1>5, <2>4 DEF Dump_Lock, DataOK, files
  <2> QED
    BY <2>3, <2>5, TypesNext
<1>6. ASSUME Dump_NoSpace(d) PROVE TInv'
  <2>1. pc[d].table \in Tables
    BY <1>1, <1>6, DumperKnows DEF Dump_NoSpace
  <2>2. [at |-> "next"] \in DumperState
    BY DEF DumperState
  <2>3. PcOK'
    BY <1>1, <1>6, <2>2, DumperGoes DEF Dump_NoSpace
  <2>4. locks' \subseteq [thread : Threads \cup {Nobody}, table : Tables, inode : Nat, exclusive : BOOLEAN]
    BY <1>1, <1>6, UnlockTypes DEF Dump_NoSpace
  <2>5. old' \in [Dumpers -> [Tables -> SUBSET Record]]
    BY <1>1, <1>6, <2>1 DEF DataOK, Dump_NoSpace
  <2>6. DataOK'
    BY <1>1, <1>6, <2>4, <2>5 DEF Dump_NoSpace, DataOK, files
  <2> QED
    BY <2>3, <2>6, TypesNext
<1>7. ASSUME Dump_Create(d) PROVE TInv'
  <2>1. pc[d].table \in Tables
    BY <1>1, <1>7, DumperKnows DEF Dump_Create
  <2>2. Min(FreeNames(pc[d].table)) \in TmpNames
    <3>1. FreeNames(pc[d].table) \in SUBSET Nat /\ FreeNames(pc[d].table) # {}
      BY <1>7 DEF Dump_Create, FreeNames, TmpNames
    <3>2. Min(FreeNames(pc[d].table)) \in FreeNames(pc[d].table)
      BY <3>1, Least
    <3> QED
      BY <3>2 DEF FreeNames
  <2> DEFINE j == Min(FreeNames(pc[d].table))
  <2>3. [at |-> "write", table |-> pc[d].table, name |-> j] \in DumperState
    BY <2>1, <2>2 DEF DumperState
  <2>4. PcOK'
    BY <1>1, <1>7, <2>3, DumperGoes DEF Dump_Create
  <2>5. tmp' \in [Tables -> [TmpNames -> File]]
    <3>1. {} \in File /\ tmp' = [tmp EXCEPT ![pc[d].table][j] = {}]
      BY <1>7 DEF Dump_Create, File
    <3> HIDE DEF j
    <3> QED
      BY <1>1, <2>1, <3>1 DEF DataOK
  <2>6. DataOK'
    BY <1>1, <1>7, <2>5 DEF Dump_Create, DataOK
  <2> QED
    BY <2>4, <2>6, TypesNext
<1>8. ASSUME Dump_Write(d) PROVE TInv'
  <2>1. pc[d].table \in Tables /\ pc[d].name \in TmpNames
    BY <1>1, <1>8, DumperKnows DEF Dump_Write
  <2>2. [at |-> "next"] \in DumperState
    BY DEF DumperState
  <2>3. PcOK'
    BY <1>1, <1>8, <2>2, DumperGoes DEF Dump_Write
  <2>4. locks' \subseteq [thread : Threads \cup {Nobody}, table : Tables, inode : Nat, exclusive : BOOLEAN]
    BY <1>1, <1>8, UnlockTypes DEF Dump_Write
  <2>5. old' \in [Dumpers -> [Tables -> SUBSET Record]]
    BY <1>1, <1>8, <2>1 DEF DataOK, Dump_Write
  <2>6. tmp' \in [Tables -> [TmpNames -> File]]
    <3>1. old[d][pc[d].table] \in File
      BY <1>1, <2>1 DEF DataOK, File
    <3>2. tmp' = [tmp EXCEPT ![pc[d].table][pc[d].name] = old[d][pc[d].table]] \/ tmp' = tmp
      BY <1>8 DEF Dump_Write
    <3>3. tmp \in [Tables -> [TmpNames -> File]]
      BY <1>1 DEF DataOK
    <3>4. [tmp EXCEPT ![pc[d].table][pc[d].name] = old[d][pc[d].table]] \in [Tables -> [TmpNames -> File]]
      BY <2>1, <3>1, <3>3, FileChanged
    <3> QED
      BY <3>2, <3>3, <3>4
  <2>7. DataOK'
    BY <1>1, <1>8, <2>4, <2>5, <2>6 DEF Dump_Write, DataOK
  <2> QED
    BY <2>3, <2>7, TypesNext
<1>9. ASSUME Dump_End(d) PROVE TInv'
  <2>1. [at |-> "idle"] \in DumperState
    BY DEF DumperState
  <2>2. PcOK'
    BY <1>1, <1>9, <2>1, DumperGoes DEF Dump_End
  <2>3. DataOK'
    BY <1>1, <1>9 DEF Dump_End, DataOK, files
  <2> QED
    BY <2>2, <2>3, TypesNext
<1> QED
  BY <1>2, <1>3, <1>4, <1>5, <1>6, <1>7, <1>8, <1>9 DEF Dumper

\* and the start of the process.
LEMMA StartType == ASSUME TInv, iniciarFileSystem PROVE TInv'
<1>1. DataOK /\ PcOK
  BY Types
<1>2. PICK started \in [Tables -> Compactors \cup {Nobody}] :
        /\ registered' = started
        /\ pc' = [th \in Threads |->
                    IF th \notin Compactors THEN [at |-> "idle"]
                    ELSE IF \E t \in dirs : started[t] = th
                         THEN [at |-> "sleep", table |-> CHOOSE t \in dirs : started[t] = th]
                         ELSE [at |-> "none"]]
  BY DEF iniciarFileSystem
<1>3. [at |-> "idle"] \in ClientState /\ [at |-> "idle"] \in DumperState /\ [at |-> "none"] \in CompactorState
  BY DEF ClientState, DumperState, CompactorState
<1>4. DOMAIN pc' = Threads /\ \A th \in Threads : th \notin Compactors => pc'[th] = [at |-> "idle"]
  BY <1>2
<1>5. ASSUME NEW x \in Compactors PROVE pc'[x] \in CompactorState
  <2>1. CASE \E t \in dirs : started[t] = x
    <3> DEFINE u == CHOOSE t \in dirs : started[t] = x
    <3>1. u \in Tables
      BY <1>1, <2>1 DEF DataOK
    <3>2. pc'[x] = [at |-> "sleep", table |-> u]
      BY <1>2, <2>1 DEF Threads
    <3> HIDE DEF u
    <3> QED
      BY <3>1, <3>2 DEF CompactorState
  <2>2. CASE ~\E t \in dirs : started[t] = x
    <3>1. pc'[x] = [at |-> "none"]
      BY <1>2, <2>2 DEF Threads
    <3> QED
      BY <3>1, <1>3
  <2> QED
    BY <2>1, <2>2
<1>6. PcOK'
  BY <1>3, <1>4, <1>5 DEF PcOK, StatesOK, Threads
<1>7. DataOK'
  BY <1>1, <1>2 DEF iniciarFileSystem, DataOK, files
<1> QED
  BY <1>6, <1>7, TypesNext

\* A client's steps together,
LEMMA ClientType == ASSUME TInv, NEW c \in Clients, Client(c) PROVE TInv'
<1>1. CASE (\E t \in Tables, k \in Keys : Insert_Check(c, t, k)) \/ memtable_new_elem(c)
  BY <1>1, InsertType
<1>2. CASE \/ \E t \in Tables, k \in Keys : Select_Open(c, t, k)
           \/ Select_Lock(c) \/ scanParticion(c) \/ Temporaries_Open(c)
           \/ temporales_get_biggest_timestamp(c) \/ Temporaries_Return(c)
           \/ memtable_get_biggest_timestamp(c) \/ Select_Return(c)
  BY <1>2, SelectType
<1>3. CASE \/ \E t \in Tables : Create_Check(c, t)
           \/ Create_Dir(c) \/ Create_Metadata(c) \/ Create_Bins(c) \/ Create_NoSpace(c)
           \/ agregarTablaCompactador(c)
  BY <1>3, CreateType
<1>4. CASE \/ \E t \in Tables : Drop_Check(c, t)
           \/ memtable_delete_table(c) \/ quitarTablaCompactador(c)
           \/ Drop_Open(c) \/ traverse_to_drop(c) \/ Drop_Dir(c)
  BY <1>4, DropType
<1>5. CASE Describe_Tables(c) \/ Describe_Open(c) \/ traverse(c) \/ Describe_Segfault(c) \/ Describe_End(c)
  BY <1>5, DescribeType
<1> QED
  BY <1>1, <1>2, <1>3, <1>4, <1>5 DEF Client

\* and those of all threads.
LEMMA NextTInv == TInv /\ [Next]_vars => TInv'
<1> SUFFICES ASSUME TInv, [Next]_vars PROVE TInv'
  OBVIOUS
<1>1. CASE UNCHANGED vars
  <2>1. DataOK' <=> DataOK
    BY <1>1 DEF DataOK, vars, files
  <2>2. PcOK' <=> PcOK
    BY <1>1 DEF PcOK, StatesOK, vars
  <2> QED
    BY <2>1, <2>2, Types, TypesNext
<1>2. CASE Crash \/ \E th \in Threads : Segfault(th)
  BY <1>2, DieTypes DEF Crash, Segfault
<1> QED
  BY <1>1, <1>2, ClientType, CompactorType, DumperType, StartType DEF Next

\* The types hold whatever is asked of the file system, wherever it runs out of blocks or ends.
THEOREM LFSTypeOK == Spec => []TypeOK
<1>1. TInv => TypeOK
  BY DEF TInv
<1> QED
  BY <1>1, InitTypes, NextTInv, PTL DEF Spec

-----------------------------------------------------------------------------
(***************************************************************************)
(* The steps that go file by file: CREATE, DROP and the renames.           *)
(***************************************************************************)
LEMMA CreateOne ==
  ASSUME TInv, NEW c \in Clients, Create_Bins(c)
  PROVE  /\ pc[c].at = "bins" /\ pc[c].table \in Tables /\ pc[c].part \in Partitions
         /\ \E p \in ClientState :
              /\ Goto(c, p) /\ p.at \in {"bins", "compactor"} /\ p.table = pc[c].table
              /\ p.at = "bins" => p.part = pc[c].part + 1
              /\ p.at = "compactor" => pc[c].part + 1 = NumPartitions
         /\ \A t \in Tables, q \in Partitions :
              bin'[t][q] = IF t = pc[c].table /\ q = pc[c].part /\ bin[t][q] = NoFile THEN {} ELSE bin[t][q]
<1>1. DataOK /\ PcOK /\ pc[c] \in ClientState /\ pc[c].at = "bins"
  BY Types DEF PcOK, StatesOK, Create_Bins
<1>2. pc[c].table \in Tables /\ pc[c].part \in Partitions
  BY <1>1, ClientKnows
<1> DEFINE file == IF bin[pc[c].table][pc[c].part] = NoFile THEN {} ELSE bin[pc[c].table][pc[c].part]
           next == [at |-> "bins", table |-> pc[c].table, part |-> pc[c].part + 1]
           last == [at |-> "compactor", table |-> pc[c].table]
<1>3. pc[c].part + 1 # NumPartitions => next \in ClientState
  <2>1. pc[c].part + 1 # NumPartitions => pc[c].part + 1 \in Partitions
    BY <1>2 DEF Partitions
  <2> QED
    BY <1>2, <2>1 DEF ClientState
<1>4. last \in ClientState
  BY <1>2 DEF ClientState
<1>5. Goto(c, IF pc[c].part + 1 = NumPartitions THEN last ELSE next)
  BY DEF Create_Bins
<1>6. /\ next.at = "bins" /\ next.table = pc[c].table /\ next.part = pc[c].part + 1
      /\ last.at = "compactor" /\ last.table = pc[c].table
  OBVIOUS
<1>7. bin' = [bin EXCEPT ![pc[c].table][pc[c].part] = file] /\ bin \in [Tables -> [Partitions -> File]]
  BY <1>1 DEF Create_Bins, DataOK
<1> HIDE DEF next, last
<1>8. \E p \in ClientState :
        /\ Goto(c, p) /\ p.at \in {"bins", "compactor"} /\ p.table = pc[c].table
        /\ p.at = "bins" => p.part = pc[c].part + 1
        /\ p.at = "compactor" => pc[c].part + 1 = NumPartitions
  <2>1. CASE pc[c].part + 1 = NumPartitions
    BY <1>4, <1>5, <1>6, <2>1
  <2>2. CASE pc[c].part + 1 # NumPartitions
    BY <1>3, <1>5, <1>6, <2>2
  <2> QED
    BY <2>1, <2>2
<1>9. \A t \in Tables, q \in Partitions :
        bin'[t][q] = IF t = pc[c].table /\ q = pc[c].part THEN file ELSE bin[t][q]
  <2> HIDE DEF file
  <2> QED
    BY <1>7, FileAfter
<1> QED
  BY <1>1, <1>2, <1>8, <1>9

\* DROP deletes a file it listed, or the Metadata, and goes on,
LEMMA DropOne ==
  ASSUME TInv, NEW c \in Clients, traverse_to_drop(c)
  PROVE  /\ pc[c].at = "delete" /\ pc[c].table \in Tables
         /\ \E p \in ClientState : Goto(c, p) /\ p.at = "delete" /\ p.table = pc[c].table
         /\ metadata' \subseteq metadata
         /\ \A t \in Tables, q \in Partitions :
              bin'[t][q] = bin[t][q] \/ (t = pc[c].table /\ bin'[t][q] = NoFile)
         /\ \A t \in Tables, j \in TmpNames :
              tmp'[t][j] = tmp[t][j] \/ (t = pc[c].table /\ tmp'[t][j] = NoFile)
         /\ \A t \in Tables, j \in TmpNames :
              tmpc'[t][j] = tmpc[t][j] \/ (t = pc[c].table /\ tmpc'[t][j] = NoFile)
<1>1. DataOK /\ PcOK /\ pc[c] \in ClientState /\ pc[c].at = "delete"
  BY Types DEF PcOK, StatesOK, traverse_to_drop
<1>2. pc[c] \in [at : {"delete"}, table : Tables, names : SUBSET Entries]
  BY <1>1, ClientKnows
<1>3. PICK n \in pc[c].names :
        /\ pc' = [pc EXCEPT ![c].names = @ \ {n}]
        /\ metadata' = metadata \ {u \in {pc[c].table} : n[1] = "Metadata"}
        /\ bin' = [bin EXCEPT ![pc[c].table] = [p \in Partitions |-> IF n = <<"bin", p>> THEN NoFile ELSE @[p]]]
        /\ tmp' = [tmp EXCEPT ![pc[c].table] = [j \in TmpNames |-> IF n = <<"tmp", j>> THEN NoFile ELSE @[j]]]
        /\ tmpc' = [tmpc EXCEPT ![pc[c].table] = [j \in TmpNames |-> IF n = <<"tmpc", j>> THEN NoFile ELSE @[j]]]
  BY DEF traverse_to_drop
<1> DEFINE p == [pc[c] EXCEPT !.names = @ \ {n}]
<1>4. Goto(c, p)
  BY <1>3 DEF Goto
<1>5. p \in ClientState /\ p.at = "delete" /\ p.table = pc[c].table
  BY <1>2 DEF ClientState
<1> HIDE DEF p
<1>6. \A t \in Tables, q \in Partitions :
        bin'[t][q] = bin[t][q] \/ (t = pc[c].table /\ bin'[t][q] = NoFile)
  BY <1>1, <1>3 DEF DataOK
<1>7. \A t \in Tables, j \in TmpNames :
        tmp'[t][j] = tmp[t][j] \/ (t = pc[c].table /\ tmp'[t][j] = NoFile)
  BY <1>1, <1>3 DEF DataOK
<1>8. \A t \in Tables, j \in TmpNames :
        tmpc'[t][j] = tmpc[t][j] \/ (t = pc[c].table /\ tmpc'[t][j] = NoFile)
  BY <1>1, <1>3 DEF DataOK
<1>9. metadata' \subseteq metadata
  BY <1>3
<1> QED
  BY <1>1, <1>2, <1>4, <1>5, <1>6, <1>7, <1>8, <1>9

\* and a compaction gives a .tmp the name of a .tmpc.
LEMMA RenameOne ==
  ASSUME TInv, NEW x \in Compactors, _convertirATmpc(x)
  PROVE  /\ pc[x].at = "rename" /\ pc[x].table \in Tables
         /\ \E i \in TmpNames :
              /\ tmp[pc[x].table][i] # NoFile
              /\ \A t \in Tables, j \in TmpNames :
                   tmp'[t][j] = IF t = pc[x].table /\ j = i THEN NoFile ELSE tmp[t][j]
              /\ \A t \in Tables, j \in TmpNames :
                   tmpc'[t][j] = IF t = pc[x].table /\ j = i THEN tmp[t][i] ELSE tmpc[t][j]
<1>1. DataOK /\ pc[x] \in CompactorState /\ pc[x].at = "rename"
  BY Types DEF PcOK, StatesOK, _convertirATmpc
<1>2. pc[x].table \in Tables
  BY <1>1, CompactorKnows
<1>3. PICK i \in TmpNames : /\ tmp[pc[x].table][i] # NoFile
                            /\ tmpc' = [tmpc EXCEPT ![pc[x].table][i] = tmp[pc[x].table][i]]
                            /\ tmp' = [tmp EXCEPT ![pc[x].table][i] = NoFile]
  BY DEF _convertirATmpc
<1>4. tmp \in [Tables -> [TmpNames -> File]] /\ tmpc \in [Tables -> [TmpNames -> File]]
  BY <1>1 DEF DataOK
<1>5. \A t \in Tables, j \in TmpNames :
        tmp'[t][j] = IF t = pc[x].table /\ j = i THEN NoFile ELSE tmp[t][j]
  BY <1>3, <1>4, FileAfter
<1>6. \A t \in Tables, j \in TmpNames :
        tmpc'[t][j] = IF t = pc[x].table /\ j = i THEN tmp[pc[x].table][i] ELSE tmpc[t][j]
  BY <1>3, <1>4, FileAfter
<1> QED
  BY <1>1, <1>2, <1>3, <1>5, <1>6

-----------------------------------------------------------------------------
(***************************************************************************)
(* Partitions.                                                             *)
(***************************************************************************)
\* The records of one partition.
InPart(records, p) == {r \in records : Part(r.key) = p}

\* When each is the newest of its key, those of one partition are so too.
LEMMA PartOfMerged ==
  ASSUME NEW merged \in SUBSET Record, NewestOnly(merged), NEW p
  PROVE  \A r \in Content(InPart(merged, p)) :
           Part(r.key) = p /\ r.timestamp = Newest(InPart(merged, p), r.key)
<1>1. InPart(merged, p) \in SUBSET Record /\ Content(InPart(merged, p)) = InPart(merged, p)
  BY ContentFacts DEF InPart
<1> TAKE r \in Content(InPart(merged, p))
<1>2. r \in merged /\ Part(r.key) = p
  BY <1>1 DEF InPart
<1>3. Newest(InPart(merged, p), r.key) = Newest(merged, r.key)
  <2>1. \A s : s.key = r.key => (s \in InPart(merged, p) <=> s \in merged)
    BY <1>2 DEF InPart
  <2> QED
    BY <2>1, NewestSame
<1> QED
  BY <1>2, <1>3 DEF NewestOnly

\* A step leaves a partition, empties or removes it, or writes what was merged.
LEMMA PartitionsKept ==
  ASSUME PartitionsAreMerged,
         \A t \in Tables, p \in Partitions :
           \/ bin'[t][p] = bin[t][p]
           \/ Content(bin'[t][p]) = {}
           \/ \E merged \in SUBSET Record : NewestOnly(merged) /\ bin'[t][p] = InPart(merged, p)
  PROVE  PartitionsAreMerged'
<1> SUFFICES ASSUME NEW t \in Tables, NEW p \in Partitions
             PROVE  \A r \in Content(bin'[t][p]) : Part(r.key) = p /\ r.timestamp = Newest(bin'[t][p], r.key)
  BY DEF PartitionsAreMerged
<1>1. CASE bin'[t][p] = bin[t][p]
  BY <1>1 DEF PartitionsAreMerged
<1>2. CASE Content(bin'[t][p]) = {}
  BY <1>2
<1>3. ASSUME NEW merged \in SUBSET Record, NewestOnly(merged), bin'[t][p] = InPart(merged, p)
      PROVE  \A r \in Content(bin'[t][p]) : Part(r.key) = p /\ r.timestamp = Newest(bin'[t][p], r.key)
  BY <1>3, PartOfMerged
<1> QED
  BY <1>1, <1>2, <1>3

Compacting == {"lock2", "delete", "write"}

\* What a compactor has merged it keeps.
LEMMA MergedKept ==
  ASSUME MergedIsMerged,
         \A x \in Compactors : pc'[x].at \in Compacting =>
           NewestOnly(pc'[x].merged) \/ (pc[x].at \in Compacting /\ pc'[x].merged = pc[x].merged)
  PROVE  MergedIsMerged'
BY DEF MergedIsMerged, Compacting, NewestOnly

\* A step that leaves the partitions and what was merged.
LEMMA SameFilesKeep == ASSUME PInv, bin' = bin, MergedIsMerged' PROVE PInv'
BY DEF PInv, PartitionsAreMerged

\* Clients and dumps do not merge.
LEMMA OthersDoNotMerge ==
  ASSUME TInv, PInv, NEW th \in Clients \cup Dumpers, NEW p, Goto(th, p)
  PROVE  MergedIsMerged'
<1>1. PcOK /\ th \in Threads /\ th \notin Compactors
  BY Types DEF Threads
<1>2. \A x \in Compactors : pc'[x] = pc[x]
  BY <1>1, GoesOn DEF Threads
<1> QED
  BY <1>2, MergedKept DEF PInv

\* A client takes one step, makes a compactor, ends one or ends the process.
LEMMA ClientGoesOn ==
  ASSUME TInv, NEW c \in Clients, Client(c)
  PROVE  \/ \E p : Goto(c, p)
         \/ agregarTablaCompactador(c) \/ quitarTablaCompactador(c) \/ Describe_Segfault(c)
<1>1. PcOK /\ c \in Threads
  BY Types DEF Threads
<1>2. \A step : Step(c, step) => \E p : Goto(c, p)
  BY <1>1, GoesAt
<1>4. (\E t \in Tables, k \in Keys : Insert_Check(c, t, k) \/ Select_Open(c, t, k)) => \E p : Goto(c, p)
  BY DEF Insert_Check, Select_Open
<1>5. (\E t \in Tables : Create_Check(c, t) \/ Drop_Check(c, t)) => \E p : Goto(c, p)
  BY DEF Create_Check, Drop_Check
<1>6. memtable_new_elem(c) \/ Select_Lock(c) \/ scanParticion(c) \/ Select_Return(c) \/ Drop_Dir(c)
        => \E p : Goto(c, p)
  BY DEF memtable_new_elem, Select_Lock, scanParticion, Select_Return, Drop_Dir
<1>7. Temporaries_Open(c) \/ temporales_get_biggest_timestamp(c) \/ Temporaries_Return(c)
        \/ memtable_get_biggest_timestamp(c) => \E p : Goto(c, p)
  BY ReadSteps
<1>8. Create_Dir(c) \/ Create_Metadata(c) \/ Create_NoSpace(c) \/ memtable_delete_table(c) \/ Drop_Open(c)
        => \E p : Goto(c, p)
  BY <1>2 DEF Create_Dir, Create_Metadata, Create_NoSpace, memtable_delete_table, Drop_Open
<1>10. Create_Bins(c) \/ traverse_to_drop(c) => \E p : Goto(c, p)
  BY CreateOne, DropOne
<1>9. Describe_Tables(c) \/ Describe_Open(c) \/ traverse(c) \/ Describe_End(c) => \E p : Goto(c, p)
  BY DEF Describe_Tables, Describe_Open, traverse, Describe_End
<1> QED
  BY <1>4, <1>5, <1>6, <1>7, <1>8, <1>9, <1>10 DEF Client

\* and only CREATE and DROP change files.
LEMMA ClientFiles ==
  ASSUME NEW c \in Clients, Client(c)
  PROVE  UNCHANGED files \/ Create_Bins(c) \/ traverse_to_drop(c)
<1>1. (\E t \in Tables, k \in Keys : Insert_Check(c, t, k) \/ Select_Open(c, t, k)) => UNCHANGED files
  BY DEF Insert_Check, Select_Open
<1>2. (\E t \in Tables : Create_Check(c, t) \/ Drop_Check(c, t)) => UNCHANGED files
  BY DEF Create_Check, Drop_Check
<1>3. memtable_new_elem(c) \/ Select_Lock(c) \/ scanParticion(c) \/ Select_Return(c) \/ Drop_Dir(c) => UNCHANGED files
  BY DEF memtable_new_elem, Select_Lock, scanParticion, Select_Return, Drop_Dir
<1>4. Temporaries_Open(c) \/ temporales_get_biggest_timestamp(c) \/ Temporaries_Return(c)
        \/ memtable_get_biggest_timestamp(c) => UNCHANGED files
  BY DEF Temporaries_Open, temporales_get_biggest_timestamp, Temporaries_Return, memtable_get_biggest_timestamp
<1>5. Create_Dir(c) \/ Create_Metadata(c) \/ Create_NoSpace(c) \/ memtable_delete_table(c) \/ Drop_Open(c)
        => UNCHANGED files
  BY DEF Create_Dir, Create_Metadata, Create_NoSpace, memtable_delete_table, Drop_Open
<1>6. agregarTablaCompactador(c) \/ quitarTablaCompactador(c) => UNCHANGED files
  BY DEF agregarTablaCompactador, quitarTablaCompactador
<1>7. Describe_Tables(c) \/ Describe_Open(c) \/ traverse(c) \/ Describe_Segfault(c) \/ Describe_End(c) => UNCHANGED files
  BY DEF Describe_Tables, Describe_Open, traverse, Describe_Segfault, Describe_End, Die
<1> QED
  BY <1>1, <1>2, <1>3, <1>4, <1>5, <1>6, <1>7 DEF Client

\* Clients create empty partitions and delete them,
LEMMA ClientPartitions == ASSUME TInv, PInv, NEW c \in Clients, Client(c) PROVE PInv'
<1>1. DataOK /\ PcOK /\ pc[c] \in ClientState /\ c \notin Compactors
  BY Types DEF PcOK, StatesOK
<1>2. MergedIsMerged'
  <2>1. CASE \E p : Goto(c, p)
    BY <2>1, OthersDoNotMerge
  <2>2. CASE agregarTablaCompactador(c)
    <3>1. PICK x \in Compactors :
            pc' = [pc EXCEPT ![c] = [at |-> "idle"], ![x] = [at |-> "sleep", table |-> pc[c].table]]
      BY <2>2 DEF agregarTablaCompactador
    <3>2. \A y \in Compactors : pc'[y] = IF y = x THEN [at |-> "sleep", table |-> pc[c].table] ELSE pc[y]
      BY <1>1, <3>1 DEF PcOK, Threads
    <3>3. [at |-> "sleep", table |-> pc[c].table].at \notin Compacting
      BY DEF Compacting
    <3> QED
      BY <3>2, <3>3, MergedKept DEF PInv
  <2>3. CASE quitarTablaCompactador(c)
    <3>1. \A y \in Compactors : pc'[y] = pc[y] \/ pc'[y] = [at |-> "none"]
      BY <1>1, <2>3 DEF quitarTablaCompactador, Threads
    <3>2. [at |-> "none"].at \notin Compacting
      BY DEF Compacting
    <3> QED
      BY <3>1, <3>2, MergedKept DEF PInv
  <2>4. CASE Describe_Segfault(c)
    BY <2>4, MergedKept DEF PInv, Describe_Segfault, Die, Compacting, Threads
  <2> QED
    BY <2>1, <2>2, <2>3, <2>4, ClientGoesOn
<1>4. ASSUME Create_Bins(c) PROVE PartitionsAreMerged'
  <2>1. \A t \in Tables, p \in Partitions : bin'[t][p] = bin[t][p] \/ bin'[t][p] = {}
    BY <1>4, CreateOne
  <2> QED
    BY <2>1, ContentFacts, PartitionsKept DEF PInv
<1>5. ASSUME traverse_to_drop(c) PROVE PartitionsAreMerged'
  <2>1. \A t \in Tables, p \in Partitions : bin'[t][p] = bin[t][p] \/ bin'[t][p] = NoFile
    BY <1>5, DropOne
  <2> QED
    BY <2>1, ContentFacts, PartitionsKept DEF PInv
<1> QED
  BY <1>2, <1>4, <1>5, ClientFiles, SameFilesKeep DEF PInv, files

\* compactors write what they merged,
LEMMA CompactorPartitions == ASSUME TInv, PInv, NEW x \in Compactors, Compactor(x) PROVE PInv'
<1>1. DataOK /\ PcOK /\ pc[x] \in CompactorState /\ x \in Threads
  BY Types DEF PcOK, StatesOK, Threads
<1>2. ASSUME NEW p, Goto(x, p),
             p.at \in Compacting => NewestOnly(p.merged) \/ (pc[x].at \in Compacting /\ p.merged = pc[x].merged)
      PROVE  MergedIsMerged'
  BY <1>1, <1>2, GoesOn, MergedKept DEF PInv, Threads
<1>3. ASSUME Compact_Start(x) PROVE PInv'
  <2>1. [at |-> "lock1", table |-> pc[x].table, inode |-> inode[pc[x].table]].at \notin Compacting
    BY DEF Compacting
  <2> QED
    BY <1>2, <1>3, <2>1, SameFilesKeep DEF Compact_Start, files
<1>4. ASSUME Compact_Lock(x, "lock1", "rename") \/ Compact_Renamed(x) PROVE PInv'
  <2>1. pc[x] \in [at : {"lock1", "rename", "read"}, table : Tables, inode : Nat]
    BY <1>1, <1>4, CompactorKnows DEF Compact_Lock, Compact_Renamed
  <2>2. \A step \in {"rename", "read"} : [pc[x] EXCEPT !.at = step].at \notin Compacting
    BY <2>1 DEF Compacting
  <2>3. MergedIsMerged'
    BY <1>1, <1>2, <1>4, <2>2, GoesAt DEF Compact_Lock, Compact_Renamed
  <2> QED
    BY <1>4, <2>3, SameFilesKeep DEF Compact_Lock, Compact_Renamed, files
<1>5. ASSUME Compact_Read(x) PROVE PInv'
  <2>1. pc[x].table \in Tables
    BY <1>1, <1>5, CompactorKnows DEF Compact_Read
  <2> DEFINE merged == Merged(Contents(bin[pc[x].table]) \cup Contents(tmpc[pc[x].table]))
             p      == [at |-> "lock2", table |-> pc[x].table, inode |-> pc[x].inode,
                        unwritten |-> Partitions, merged |-> merged]
  <2>2. NewestOnly(merged)
    BY <1>1, <2>1, ContentsFacts, MergedFacts DEF DataOK
  <2>3. Goto(x, p)
    BY <1>5 DEF Compact_Read
  <2> HIDE DEF merged
  <2>4. p.merged = merged
    OBVIOUS
  <2> HIDE DEF p
  <2>5. MergedIsMerged'
    BY <1>2, <2>2, <2>3, <2>4
  <2> QED
    BY <1>5, <2>5, SameFilesKeep DEF Compact_Read, files
<1>6. ASSUME Compact_Lock(x, "lock2", "delete") \/ Compact_Deleted(x) PROVE PInv'
  <2>1. pc[x] \in [at : {"lock2", "delete", "write"}, table : Tables, inode : Nat,
                   unwritten : SUBSET Partitions, merged : SUBSET Record]
    BY <1>1, <1>6, CompactorKnows DEF Compact_Lock, Compact_Deleted
  <2>2. \A step \in {"delete", "write"} : [pc[x] EXCEPT !.at = step].merged = pc[x].merged
    BY <2>1
  <2>3. pc[x].at \in Compacting
    BY <2>1 DEF Compacting
  <2>4. MergedIsMerged'
    BY <1>1, <1>2, <1>6, <2>2, <2>3, GoesAt DEF Compact_Lock, Compact_Deleted
  <2> QED
    BY <1>6, <2>4, SameFilesKeep DEF Compact_Lock, Compact_Deleted, files
<1>7. ASSUME _convertirATmpc(x) \/ _borrarTmpc(x) PROVE PInv'
  BY <1>7, SameFilesKeep DEF _convertirATmpc, _borrarTmpc, MergedIsMerged, PInv
<1>8. ASSUME Compact_Write(x) PROVE PInv'
  <2>1. pc[x] \in [at : {"lock2", "delete", "write"}, table : Tables, inode : Nat,
                   unwritten : SUBSET Partitions, merged : SUBSET Record]
    BY <1>1, <1>8, CompactorKnows DEF Compact_Write
  <2> DEFINE p == Min(pc[x].unwritten)
             left == pc[x].unwritten \ {p}
  <2>2. Goto(x, [pc[x] EXCEPT !.unwritten = left])
    BY <1>8 DEF Compact_Write, Goto
  <2>3. \/ bin' = [bin EXCEPT ![pc[x].table][p] = {r \in pc[x].merged : Part(r.key) = p}]
        \/ bin' = bin
    BY <1>8 DEF Compact_Write
  <2> HIDE DEF p, left
  <2>4. [pc[x] EXCEPT !.unwritten = left].merged = pc[x].merged
    BY <2>1
  <2>5. pc[x].at \in Compacting
    BY <2>1 DEF Compacting
  <2>6. MergedIsMerged'
    BY <1>2, <2>2, <2>4, <2>5
  <2>7. NewestOnly(pc[x].merged) /\ pc[x].merged \in SUBSET Record
    BY <2>1, <2>5 DEF PInv, MergedIsMerged, Compacting
  <2>8. ASSUME NEW t \in Tables, NEW q \in Partitions
        PROVE  bin'[t][q] = bin[t][q] \/ bin'[t][q] = InPart(pc[x].merged, q)
    <3>1. bin' = [bin EXCEPT ![pc[x].table][p] = InPart(pc[x].merged, p)] \/ bin' = bin
      BY <2>3 DEF InPart
    <3>2. bin \in [Tables -> [Partitions -> File]]
      BY <1>1 DEF DataOK
    <3> QED
      BY <3>1, <3>2, FileAfter
  <2>9. PartitionsAreMerged'
    BY <2>7, <2>8, PartitionsKept DEF PInv
  <2> QED
    BY <2>6, <2>9 DEF PInv
<1>9. ASSUME Compact_End(x) PROVE PInv'
  <2>1. [at |-> "sleep", table |-> pc[x].table].at \notin Compacting
    BY DEF Compacting
  <2> QED
    BY <1>2, <1>9, <2>1, SameFilesKeep DEF Compact_End, files
<1> QED
  BY <1>3, <1>4, <1>5, <1>6, <1>7, <1>8, <1>9 DEF Compactor

\* and dumps write no partition.
LEMMA DumperPartitions == ASSUME TInv, PInv, NEW d \in Dumpers, Dumper(d) PROVE PInv'
<1>1. PcOK /\ d \in Threads /\ d \notin Compactors
  BY Types DEF Threads
<1>2. pc' = pc \/ \E p : Goto(d, p)
  BY <1>1, GoesAt DEF Dumper, Dump_Swap, Dump_Open, Dump_NotFound, Dump_Lock, Dump_NoSpace, Dump_Create,
     Dump_Write, Dump_End
<1>3. bin' = bin
  BY DEF Dumper, Dump_Swap, Dump_Open, Dump_NotFound, Dump_Lock, Dump_NoSpace, Dump_Create,
     Dump_Write, Dump_End, files
<1>4. MergedIsMerged'
  BY <1>2, OthersDoNotMerge, MergedKept DEF PInv
<1> QED
  BY <1>3, <1>4, SameFilesKeep

\* So every step keeps the partitions merged,
LEMMA NextPInv == TInv /\ PInv /\ [Next]_vars => PInv'
<1> SUFFICES ASSUME TInv, PInv, [Next]_vars PROVE PInv'
  OBVIOUS
<1>1. CASE UNCHANGED vars
  BY <1>1, SameFilesKeep, MergedKept DEF PInv, vars, files
<1>2. CASE Crash \/ \E th \in Threads : Segfault(th)
  <2>1. Die
    BY <1>2 DEF Crash, Segfault
  <2>2. MergedIsMerged'
    BY <2>1, MergedKept DEF PInv, Die, Compacting, Threads
  <2> QED
    BY <2>1, <2>2, SameFilesKeep DEF Die, files
<1>3. CASE iniciarFileSystem
  <2>1. ASSUME NEW x \in Compactors PROVE pc'[x].at \notin Compacting
    BY <1>3 DEF iniciarFileSystem, Compacting, Threads
  <2>2. MergedIsMerged'
    BY <2>1, MergedKept DEF PInv
  <2> QED
    BY <1>3, <2>2, SameFilesKeep DEF iniciarFileSystem, files
<1> QED
  BY <1>1, <1>2, <1>3, ClientPartitions, CompactorPartitions, DumperPartitions DEF Next

\* and they are so at first.
LEMMA InitPInv == Init => PInv
<1> SUFFICES ASSUME Init PROVE PInv
  OBVIOUS
<1>1. MergedIsMerged
  BY DEF Init, MergedIsMerged, Threads
<1>2. \A t \in Tables, p \in Partitions : Content(bin[t][p]) = {}
  BY ContentFacts DEF Init
<1> QED
  BY <1>1, <1>2 DEF PInv, PartitionsAreMerged

\* A partition holds keys of its own, each once, through all creations, compactions that end or
\* do not, drops and ends of the process.
THEOREM LFSPartitionsAreMerged == Spec => []PartitionsAreMerged
<1>1. PInv => PartitionsAreMerged
  BY DEF PInv
<1>2. Init => TInv /\ PInv
  BY InitTypes, InitPInv
<1>3. (TInv /\ PInv) /\ [Next]_vars => (TInv /\ PInv)'
  BY NextTInv, NextPInv
<1> QED
  BY <1>1, <1>2, <1>3, PTL DEF Spec

-----------------------------------------------------------------------------
(***************************************************************************)
(* Compactors and their tables.                                            *)
(***************************************************************************)
LEMMA SameFiles ==
  ASSUME FInv, UNCHANGED files, dirs \subseteq dirs'
  PROVE  \A t \in Tables \ dirs' : NoFiles(t)'
BY DEF FInv, CompactorsFollowTables, NoFiles, files

\* Files of tables that exist change only.
LEMMA OtherFiles ==
  ASSUME FInv, dirs' = dirs,
         \A t \in Tables \ dirs : /\ \A p \in Partitions : bin'[t][p] = bin[t][p]
                                  /\ \A j \in TmpNames : tmp'[t][j] = tmp[t][j] /\ tmpc'[t][j] = tmpc[t][j]
  PROVE  \A t \in Tables \ dirs' : NoFiles(t)'
BY DEF FInv, CompactorsFollowTables, NoFiles

\* A client goes on, with compactors as they were.
LEMMA ClientFollows ==
  ASSUME TInv, FInv, NEW c \in Clients, NEW p, Goto(c, p),
         registered' = registered, dirs \subseteq dirs', dirs' = dirs \/ Clients = {c},
         AloneAt(p, dirs', registered'),
         \A t \in Tables \ dirs' : NoFiles(t)'
  PROVE  FInv'
<1>1. PcOK /\ c \in Threads /\ c \notin Compactors
  BY Types DEF Threads
<1>2. pc'[c] = p /\ \A u \in Threads : u # c => pc'[u] = pc[u]
  BY <1>1, GoesOn
<1>3. ASSUME NEW x \in Compactors, Active(x)' PROVE registered'[pc'[x].table] = x /\ pc'[x].table \in dirs'
  <2>1. pc'[x] = pc[x]
    BY <1>1, <1>2 DEF Threads
  <2> QED
    BY <1>3, <2>1 DEF FInv, CompactorsFollowTables, Active
<1>4. CompactorsFollowTables'
  BY <1>3 DEF CompactorsFollowTables, Active
<1>5. RegisteredTablesExist'
  BY DEF FInv, RegisteredTablesExist
<1>6. ASSUME NEW e \in Clients PROVE AloneAt(pc'[e], dirs', registered')
  <2>1. CASE e = c
    BY <1>2, <2>1
  <2>2. CASE e # c
    <3>1. pc'[e] = pc[e] /\ dirs' = dirs
      BY <1>2, <2>2 DEF Threads
    <3> QED
      BY <3>1 DEF FInv, WritersAreAlone, AloneAt
  <2> QED
    BY <2>1, <2>2
<1> QED
  BY <1>4, <1>5, <1>6 DEF FInv, WritersAreAlone

\* One that neither creates nor deletes,
LEMMA OtherStepsFollow ==
  ASSUME TInv, FInv, NEW c \in Clients, NEW p, Goto(c, p), UNCHANGED <<dirs, files, registered>>,
         p.at \notin Creating \cup {"list", "delete"}
  PROVE  FInv'
<1>1. AloneAt(p, dirs', registered')
  BY DEF AloneAt, Creating
<1> QED
  BY <1>1, SameFiles, ClientFollows

\* and one that does.
LEMMA StepFollows ==
  ASSUME TInv, FInv, NEW c \in Clients, NEW step \in {"metadata", "cancel"}, pc[c].at \in {"mkdir", "memtable"},
         Step(c, step), registered' = registered, dirs \subseteq dirs', dirs' = dirs \/ Clients = {c},
         step \in Creating => "create" \in Ops /\ pc[c].table \in dirs' /\ registered[pc[c].table] = Nobody,
         \A t \in Tables \ dirs' : NoFiles(t)'
  PROVE  FInv'
<1>1. PcOK /\ c \in Threads /\ pc[c] \in ClientState
  BY Types DEF Threads, PcOK, StatesOK
<1>2. pc[c] \in [at : {"mkdir", "metadata", "compactor", "memtable", "cancel", "list"}, table : Tables]
  BY <1>1, ClientKnows
<1>3. PICK p : p = [pc[c] EXCEPT !.at = step]
  OBVIOUS
<1>4. p.at = step /\ p.table = pc[c].table
  BY <1>2, <1>3
<1>5. Goto(c, p)
  BY <1>1, <1>3, GoesAt
<1>6. AloneAt(p, dirs', registered')
  BY <1>4 DEF AloneAt, Creating
<1> QED
  BY <1>5, <1>6, ClientFollows

\* A client that creates is the only client.
LEMMA AlwaysAlone ==
  ASSUME TInv, FInv, OneWriter, NEW c \in Clients, pc[c].at \in Creating
  PROVE  Clients = {c} /\ "create" \in Ops
BY DEF FInv, WritersAreAlone, AloneAt, OneWriter

\* api_create brings the directory first and the compactor last,
LEMMA CreateFollows ==
  ASSUME TInv, FInv, OneWriter, NEW c \in Clients,
         \/ \E t \in Tables : Create_Check(c, t)
         \/ Create_Dir(c) \/ Create_Metadata(c) \/ Create_Bins(c) \/ Create_NoSpace(c)
         \/ agregarTablaCompactador(c)
  PROVE  FInv'
<1>1. DataOK /\ PcOK /\ pc[c] \in ClientState /\ c \in Threads
  BY Types DEF PcOK, StatesOK, Threads
<1>2. ASSUME NEW t \in Tables, Create_Check(c, t) PROVE FInv'
  <2>1. PICK p : p = [at |-> "mkdir", table |-> t] /\ Goto(c, p)
    BY <1>2 DEF Create_Check
  <2>2. p.at = "mkdir" /\ p.table = t /\ t \notin dirs /\ "create" \in Ops
    BY <1>2, <2>1 DEF Create_Check
  <2>3. AloneAt(p, dirs', registered')
    BY <1>2, <2>2 DEF Create_Check, AloneAt
  <2> QED
    BY <1>2, <2>1, <2>3, SameFiles, ClientFollows DEF Create_Check
<1>3. ASSUME pc[c].at \in Creating PROVE pc[c].table \in Tables /\ AloneAt(pc[c], dirs, registered)
  BY <1>1, <1>3, ClientKnows DEF Creating, FInv, WritersAreAlone
<1>4. ASSUME Create_Dir(c) PROVE FInv'
  <2>1. Clients = {c} /\ "create" \in Ops
    BY <1>4, AlwaysAlone DEF Create_Dir, Creating
  <2>2. registered[pc[c].table] = Nobody
    BY <1>3, <1>4 DEF Create_Dir, AloneAt, Creating, FInv, RegisteredTablesExist
  <2> QED
    BY <1>4, <2>1, <2>2, SameFiles, StepFollows DEF Create_Dir
<1>5. ASSUME Create_Metadata(c) PROVE FInv'
  <2>1. Clients = {c} /\ "create" \in Ops
    BY <1>5, AlwaysAlone DEF Create_Metadata, Creating
  <2>2. registered[pc[c].table] = Nobody /\ pc[c].table \in dirs
    BY <1>3, <1>5 DEF Create_Metadata, AloneAt, Creating
  <2>3. UNCHANGED <<dirs, files, registered>>
    BY <1>5 DEF Create_Metadata
  <2>4. PICK p : Goto(c, p) /\ p.at = "bins" /\ p.table = pc[c].table
    BY <1>5 DEF Create_Metadata
  <2>5. AloneAt(p, dirs', registered')
    BY <2>1, <2>2, <2>3, <2>4 DEF AloneAt
  <2> QED
    BY <2>3, <2>4, <2>5, SameFiles, ClientFollows
<1>7. ASSUME Create_Bins(c) PROVE FInv'
  <2>1. "create" \in Ops /\ pc[c].at = "bins"
    BY <1>7, AlwaysAlone DEF Create_Bins, Creating
  <2>2. registered[pc[c].table] = Nobody /\ pc[c].table \in dirs
    BY <1>3, <2>1 DEF AloneAt, Creating
  <2>3. UNCHANGED <<dirs, tmp, tmpc, registered>>
    BY <1>7 DEF Create_Bins
  <2>4. PICK p \in ClientState : Goto(c, p) /\ p.at \in {"bins", "compactor"} /\ p.table = pc[c].table
    BY <1>7, CreateOne
  <2>5. AloneAt(p, dirs', registered')
    BY <2>1, <2>2, <2>3, <2>4 DEF AloneAt
  <2>6. \A t \in Tables \ dirs : \A q \in Partitions : bin'[t][q] = bin[t][q]
    BY <1>7, <2>2, CreateOne
  <2>7. \A t \in Tables \ dirs' : NoFiles(t)'
    BY <2>3, <2>6, OtherFiles
  <2> QED
    BY <2>3, <2>4, <2>5, <2>7, ClientFollows
<1>8. ASSUME Create_NoSpace(c) PROVE FInv'
  <2>1. PICK p : Goto(c, p) /\ p.at \in {"idle", "memtable"}
    BY <1>8 DEF Create_NoSpace
  <2>2. p.at \notin Creating \cup {"list", "delete"}
    BY <2>1 DEF Creating
  <2> QED
    BY <1>8, <2>1, <2>2, OtherStepsFollow DEF Create_NoSpace
<1>9. ASSUME agregarTablaCompactador(c) PROVE FInv'
  <2>1. Clients = {c}
    BY <1>9, AlwaysAlone DEF agregarTablaCompactador, Creating
  <2>2. PICK t : t = pc[c].table
    OBVIOUS
  <2>3. t \in Tables /\ t \in dirs /\ registered[t] = Nobody
    BY <1>3, <1>9, <2>2 DEF agregarTablaCompactador, AloneAt, Creating
  <2>4. PICK x \in Compactors :
          /\ pc[x].at = "none"
          /\ registered' = [registered EXCEPT ![t] = x]
          /\ pc' = [pc EXCEPT ![c] = [at |-> "idle"], ![x] = [at |-> "sleep", table |-> t]]
    BY <1>9, <2>2 DEF agregarTablaCompactador
  <2>5. \A u \in Threads : pc'[u] = IF u = x THEN [at |-> "sleep", table |-> t]
                                    ELSE IF u = c THEN [at |-> "idle"] ELSE pc[u]
    BY <1>1, <2>4 DEF PcOK
  <2>6. \A u \in Tables : registered'[u] = IF u = t THEN x ELSE registered[u]
    BY <1>1, <2>4 DEF DataOK
  <2>7. UNCHANGED <<dirs, files>>
    BY <1>9 DEF agregarTablaCompactador
  <2>8. ASSUME NEW y \in Compactors, pc'[y].at \notin {"none", "down"}
        PROVE  registered'[pc'[y].table] = y /\ pc'[y].table \in dirs'
    <3>1. CASE y = x
      <4>1. pc'[y] = [at |-> "sleep", table |-> t]
        BY <2>5, <3>1 DEF Threads
      <4>2. pc'[y].table = t
        BY <4>1
      <4> QED
        BY <2>3, <2>6, <2>7, <3>1, <4>2
    <3>2. CASE y # x
      <4>1. pc'[y] = pc[y]
        BY <2>5, <3>2 DEF Threads
      <4>2. registered[pc[y].table] = y /\ pc[y].table \in dirs
        BY <2>8, <4>1 DEF FInv, CompactorsFollowTables
      <4>3. pc[y].table # t /\ pc[y].table \in Tables
        BY <1>1, <2>3, <4>2 DEF DataOK
      <4> QED
        BY <2>6, <2>7, <4>1, <4>2, <4>3
    <3> QED
      BY <3>1, <3>2
  <2>9. \A u \in Tables \ dirs' : NoFiles(u)'
    BY <2>7, SameFiles
  <2>10. RegisteredTablesExist'
    BY <2>3, <2>6, <2>7 DEF FInv, RegisteredTablesExist
  <2>11. pc'[c] = [at |-> "idle"]
    BY <1>1, <2>4, <2>5 DEF Threads
  <2>12. WritersAreAlone'
    BY <2>1, <2>11 DEF WritersAreAlone, AloneAt, Creating
  <2> QED
    BY <2>8, <2>9, <2>10, <2>12 DEF FInv, CompactorsFollowTables
<1> QED
  BY <1>2, <1>4, <1>5, <1>7, <1>8, <1>9

\* api_drop ends the compactor first and removes the directory last,
LEMMA DropFollows ==
  ASSUME TInv, FInv, OneWriter, NEW c \in Clients,
         \/ \E t \in Tables : Drop_Check(c, t)
         \/ memtable_delete_table(c) \/ quitarTablaCompactador(c)
         \/ Drop_Open(c) \/ traverse_to_drop(c) \/ Drop_Dir(c)
  PROVE  FInv'
<1>1. DataOK /\ PcOK /\ pc[c] \in ClientState /\ c \in Threads /\ c \notin Compactors
  BY Types DEF PcOK, StatesOK, Threads
<1>2. ASSUME NEW t \in Tables, Drop_Check(c, t) PROVE FInv'
  <2>1. PICK p : p = [at |-> "memtable", table |-> t] /\ Goto(c, p)
    BY <1>2 DEF Drop_Check
  <2>2. p.at \notin Creating \cup {"list", "delete"}
    BY <2>1 DEF Creating
  <2> QED
    BY <1>2, <2>1, <2>2, OtherStepsFollow DEF Drop_Check
<1>3. ASSUME memtable_delete_table(c) PROVE FInv'
  BY <1>3, SameFiles, StepFollows DEF memtable_delete_table, Creating
<1>4. ASSUME pc[c].at \in {"cancel", "list", "delete"}
      PROVE  pc[c].table \in Tables /\ (pc[c].at \in {"list", "delete"} => registered[pc[c].table] = Nobody)
  BY <1>1, <1>4, ClientKnows DEF FInv, WritersAreAlone, AloneAt
<1>5. ASSUME quitarTablaCompactador(c) PROVE FInv'
  <2>1. PICK t : t = pc[c].table
    OBVIOUS
  <2>2. PICK x : x = registered[t]
    OBVIOUS
  <2>3. t \in Tables /\ x \in Compactors \cup {Nobody}
    BY <1>1, <1>4, <1>5, <2>1, <2>2 DEF DataOK, quitarTablaCompactador
  <2>4. PICK p : p = [pc[c] EXCEPT !.at = "list"]
    OBVIOUS
  <2>5. p.at = "list" /\ p.table = t
    <3>1. pc[c] \in [at : {"mkdir", "metadata", "compactor", "memtable", "cancel", "list"}, table : Tables]
      BY <1>1, <1>5, ClientKnows DEF quitarTablaCompactador
    <3> QED
      BY <2>1, <2>4, <3>1
  <2>6. \A u \in Threads : pc'[u] = IF u = c THEN p ELSE IF u = x THEN [at |-> "none"] ELSE pc[u]
    BY <1>5, <2>1, <2>2, <2>4 DEF quitarTablaCompactador
  <2>7. \A u \in Tables : registered'[u] = IF u = t THEN Nobody ELSE registered[u]
    BY <1>1, <1>5, <2>1 DEF DataOK, quitarTablaCompactador
  <2>8. UNCHANGED <<dirs, files>>
    BY <1>5 DEF quitarTablaCompactador
  <2>9. ASSUME NEW y \in Compactors, pc'[y].at \notin {"none", "down"}
        PROVE  registered'[pc'[y].table] = y /\ pc'[y].table \in dirs'
    <3>1. y # x /\ y # c /\ y \in Threads
      BY <1>1, <2>6, <2>9 DEF Threads
    <3>2. pc'[y] = pc[y]
      BY <2>6, <3>1
    <3>3. registered[pc[y].table] = y /\ pc[y].table \in dirs
      BY <2>9, <3>2 DEF FInv, CompactorsFollowTables
    <3>4. pc[y].table # t /\ pc[y].table \in Tables
      BY <1>1, <2>2, <3>1, <3>3 DEF DataOK
    <3> QED
      BY <2>7, <2>8, <3>2, <3>3, <3>4
  <2>10. \A u \in Tables \ dirs' : NoFiles(u)'
    BY <2>8, SameFiles
  <2>11. RegisteredTablesExist'
    BY <2>7, <2>8 DEF FInv, RegisteredTablesExist
  <2>12. ASSUME NEW e \in Clients PROVE AloneAt(pc'[e], dirs', registered')
    <3>1. CASE e = c
      <4>1. pc'[e] = p
        BY <1>1, <2>6, <3>1
      <4> QED
        BY <2>3, <2>5, <2>7, <4>1 DEF AloneAt, Creating
    <3>2. CASE e # c
      <4>1. pc'[e] = pc[e] /\ pc[e] \in ClientState
        BY <1>1, <2>3, <2>6, <3>2 DEF Threads, PcOK, StatesOK
      <4>2. AloneAt(pc[e], dirs, registered)
        BY DEF FInv, WritersAreAlone
      <4>3. pc[e].at \in Creating \cup {"list", "delete"} => pc[e].table \in Tables
        BY <4>1, ClientKnows DEF Creating
      <4> QED
        BY <2>7, <2>8, <4>1, <4>2, <4>3 DEF AloneAt, Creating
    <3> QED
      BY <3>1, <3>2
  <2> QED
    BY <2>9, <2>10, <2>11, <2>12 DEF FInv, CompactorsFollowTables, WritersAreAlone
<1>8. ASSUME Drop_Open(c) PROVE FInv'
  <2>1. registered[pc[c].table] = Nobody
    BY <1>4, <1>8 DEF Drop_Open
  <2>2. PICK p : Goto(c, p) /\ (p.at = "idle" \/ (p.at = "delete" /\ p.table = pc[c].table))
    BY <1>8 DEF Drop_Open
  <2>3. UNCHANGED <<dirs, files, registered>>
    BY <1>8 DEF Drop_Open
  <2>4. AloneAt(p, dirs', registered')
    BY <2>1, <2>2, <2>3 DEF AloneAt, Creating
  <2> QED
    BY <2>2, <2>3, <2>4, SameFiles, ClientFollows
<1>6. ASSUME traverse_to_drop(c) PROVE FInv'
  <2>1. dirs' = dirs /\ registered' = registered
    BY <1>6 DEF traverse_to_drop
  <2>2. PICK p \in ClientState : Goto(c, p) /\ p.at = "delete" /\ p.table = pc[c].table
    BY <1>6, DropOne
  <2>3. \A t \in Tables, q \in Partitions : bin'[t][q] = bin[t][q] \/ bin'[t][q] = NoFile
    BY <1>6, DropOne
  <2>5. \A t \in Tables, j \in TmpNames : tmp'[t][j] = tmp[t][j] \/ tmp'[t][j] = NoFile
    BY <1>6, DropOne
  <2>6. \A t \in Tables, j \in TmpNames : tmpc'[t][j] = tmpc[t][j] \/ tmpc'[t][j] = NoFile
    BY <1>6, DropOne
  <2>7. \A t \in Tables \ dirs' : NoFiles(t)'
    BY <2>1, <2>3, <2>5, <2>6 DEF FInv, CompactorsFollowTables, NoFiles
  <2>4. registered[pc[c].table] = Nobody
    BY <1>4, <1>6 DEF traverse_to_drop
  <2>8. AloneAt(p, dirs', registered')
    BY <2>1, <2>2, <2>4 DEF AloneAt, Creating
  <2> QED
    BY <2>1, <2>2, <2>7, <2>8, ClientFollows
<1>7. ASSUME Drop_Dir(c) PROVE FInv'
  <2>1. PICK t : t = pc[c].table
    OBVIOUS
  <2>2. t \in Tables /\ registered[t] = Nobody
    BY <1>4, <1>7, <2>1 DEF Drop_Dir
  <2>3. PICK p : p = [at |-> "idle"] /\ Goto(c, p)
    BY <1>7 DEF Drop_Dir
  <2>4. p.at \notin Creating \cup {"list", "delete"}
    BY <2>3 DEF Creating
  <2>5. UNCHANGED <<files, registered>>
    BY <1>7 DEF Drop_Dir
  <2>6. CASE ~(t \in dirs /\ t \notin metadata /\ NoFiles(t))
    <3>1. dirs' = dirs
      BY <1>7, <2>1, <2>6 DEF Drop_Dir
    <3> QED
      BY <2>3, <2>4, <2>5, <3>1, OtherStepsFollow
  <2>7. CASE t \in dirs /\ t \notin metadata /\ NoFiles(t)
    <3>1. dirs' = dirs \ {t}
      BY <1>7, <2>1, <2>7 DEF Drop_Dir
    <3>2. pc'[c] = p /\ \A u \in Threads : u # c => pc'[u] = pc[u]
      BY <1>1, <2>3, GoesOn
    <3>3. ASSUME NEW y \in Compactors, pc'[y].at \notin {"none", "down"}
          PROVE  registered'[pc'[y].table] = y /\ pc'[y].table \in dirs'
      <4>1. pc'[y] = pc[y]
        BY <1>1, <3>2 DEF Threads
      <4>2. registered[pc[y].table] = y /\ pc[y].table \in dirs
        BY <3>3, <4>1 DEF FInv, CompactorsFollowTables
      <4>3. pc[y].table # t
        BY <2>2, <4>2
      <4> QED
        BY <2>5, <3>1, <4>1, <4>2, <4>3
    <3>4. \A u \in Tables \ dirs' : NoFiles(u)
      BY <2>7, <3>1 DEF FInv, CompactorsFollowTables
    <3>5. \A u \in Tables \ dirs' : NoFiles(u)'
      BY <2>5, <3>4 DEF NoFiles, files
    <3>6. RegisteredTablesExist'
      BY <2>2, <2>5, <3>1 DEF FInv, RegisteredTablesExist
    <3>7. ASSUME NEW e \in Clients PROVE AloneAt(pc'[e], dirs', registered')
      <4>1. CASE e = c
        BY <2>4, <3>2, <4>1 DEF AloneAt, Creating
      <4>2. CASE e # c
        <5>1. pc'[e] = pc[e]
          BY <3>2, <4>2 DEF Threads
        <5>2. AloneAt(pc[e], dirs, registered)
          BY DEF FInv, WritersAreAlone
        <5>3. pc[e].at \notin Creating
          BY <4>2, AlwaysAlone
        <5> QED
          BY <2>5, <3>1, <5>1, <5>2, <5>3 DEF AloneAt, Creating
      <4> QED
        BY <4>1, <4>2
    <3> QED
      BY <3>3, <3>5, <3>6, <3>7 DEF FInv, CompactorsFollowTables, WritersAreAlone
  <2> QED
    BY <2>6, <2>7
<1> QED
  BY <1>2, <1>3, <1>5, <1>6, <1>7, <1>8

\* A client that inserts, selects or describes.
LEMMA ReadersFollow ==
  ASSUME TInv, FInv, NEW c \in Clients,
         \/ \E t \in Tables, k \in Keys : Insert_Check(c, t, k) \/ Select_Open(c, t, k)
         \/ memtable_new_elem(c) \/ Select_Lock(c) \/ scanParticion(c) \/ Temporaries_Open(c)
         \/ temporales_get_biggest_timestamp(c) \/ Temporaries_Return(c)
         \/ memtable_get_biggest_timestamp(c) \/ Select_Return(c)
         \/ Describe_Tables(c) \/ Describe_Open(c) \/ traverse(c) \/ Describe_End(c)
  PROVE  FInv'
<1>1. DataOK /\ PcOK /\ pc[c] \in ClientState /\ c \in Threads
  BY Types DEF PcOK, StatesOK, Threads
<1>2. UNCHANGED <<dirs, files, registered>>
  <2>1. (\E t \in Tables, k \in Keys : Insert_Check(c, t, k) \/ Select_Open(c, t, k))
          => UNCHANGED <<dirs, files, registered>>
    BY DEF Insert_Check, Select_Open
  <2> QED
    BY <2>1 DEF memtable_new_elem, Select_Lock, scanParticion, Temporaries_Open,
       temporales_get_biggest_timestamp, Temporaries_Return, memtable_get_biggest_timestamp, Select_Return,
       Describe_Tables, Describe_Open, traverse, Describe_End
<1>3. \E p : Goto(c, p) /\ p.at \in {"idle", "insert", "lock", "bin", "tmp", "temps", "mem", "done", "tables", "entries"}
  <2>1. (\E t \in Tables, k \in Keys : Insert_Check(c, t, k) \/ Select_Open(c, t, k))
          => \E p : Goto(c, p) /\ p.at \in {"insert", "lock"}
    BY DEF Insert_Check, Select_Open
  <2>2. ASSUME memtable_new_elem(c) \/ Select_Return(c) \/ Describe_End(c)
        PROVE  \E p : Goto(c, p) /\ p.at \in {"idle", "bin", "tmp"}
    <3>1. Goto(c, [at |-> "idle"])
      BY <2>2 DEF memtable_new_elem, Select_Return, Describe_End
    <3> QED
      BY <3>1
  <2>6. ASSUME Select_Lock(c) PROVE \E p : Goto(c, p) /\ p.at \in {"idle", "bin", "tmp"}
    BY <2>6 DEF Select_Lock
  <2>7. ASSUME scanParticion(c) PROVE \E p : Goto(c, p) /\ p.at \in {"idle", "bin", "tmp"}
    BY <2>7 DEF scanParticion
  <2>4. Temporaries_Open(c) \/ temporales_get_biggest_timestamp(c) \/ Temporaries_Return(c)
          \/ memtable_get_biggest_timestamp(c) => \E p : Goto(c, p) /\ p.at \in {"temps", "mem", "done"}
    BY ReadSteps
  <2>5. ASSUME Describe_Tables(c) PROVE \E p : Goto(c, p) /\ p.at \in {"idle", "tables", "entries"}
    BY <2>5 DEF Describe_Tables
  <2>8. ASSUME Describe_Open(c) PROVE \E p : Goto(c, p) /\ p.at \in {"idle", "tables", "entries"}
    BY <2>8 DEF Describe_Open
  <2>9. ASSUME traverse(c) PROVE \E p : Goto(c, p) /\ p.at \in {"idle", "tables", "entries"}
    BY <2>9 DEF traverse
  <2> QED
    BY <2>1, <2>2, <2>4, <2>5, <2>6, <2>7, <2>8, <2>9
<1> QED
  BY <1>2, <1>3, OtherStepsFollow DEF Creating

\* The process ends.
LEMMA DieFollows == ASSUME TInv, FInv, Die PROVE FInv'
<1>1. DataOK /\ PcOK
  BY Types
<1>2. \A th \in Threads : pc'[th].at = "down"
  BY DEF Die
<1>3. \A t \in Tables : registered'[t] = Nobody
  BY DEF Die
<1>4. CompactorsFollowTables'
  BY <1>2, SameFiles DEF Die, CompactorsFollowTables, Threads
<1>5. WritersAreAlone'
  BY <1>2 DEF WritersAreAlone, AloneAt, Creating, Threads
<1> QED
  BY <1>3, <1>4, <1>5 DEF FInv, RegisteredTablesExist

\* and the other operations bring and remove none.
LEMMA ClientFollowsTables == ASSUME TInv, FInv, OneWriter, NEW c \in Clients, Client(c) PROVE FInv'
BY ReadersFollow, CreateFollows, DropFollows, DieFollows DEF Client, Describe_Segfault

\* A thread that is no client goes on, if a compactor with its table.
LEMMA OthersFollow ==
  ASSUME TInv, FInv, NEW th \in Compactors \cup Dumpers, NEW p, Goto(th, p), UNCHANGED <<dirs, registered>>,
         th \in Compactors => pc[th].at \notin {"none", "down"} /\ p.table = pc[th].table,
         \A t \in Tables \ dirs' : NoFiles(t)'
  PROVE  FInv'
<1>1. PcOK /\ th \in Threads /\ th \notin Clients
  BY Types DEF Threads
<1>2. pc'[th] = p /\ \A u \in Threads : u # th => pc'[u] = pc[u]
  BY <1>1, GoesOn
<1>3. ASSUME NEW x \in Compactors, pc'[x].at \notin {"none", "down"}
      PROVE  registered'[pc'[x].table] = x /\ pc'[x].table \in dirs'
  <2>1. pc[x].at \notin {"none", "down"} /\ pc'[x].table = pc[x].table
    BY <1>2, <1>3 DEF Threads
  <2> QED
    BY <2>1 DEF FInv, CompactorsFollowTables
<1>4. WritersAreAlone'
  BY <1>1, <1>2 DEF FInv, WritersAreAlone, AloneAt, Threads
<1> QED
  BY <1>3, <1>4 DEF FInv, CompactorsFollowTables, RegisteredTablesExist

\* A compactor writes to the files of its own table,
LEMMA CompactorFollows == ASSUME TInv, FInv, NEW x \in Compactors, Compactor(x) PROVE FInv'
<1>1. DataOK /\ PcOK /\ pc[x] \in CompactorState /\ x \in Threads
  BY Types DEF PcOK, StatesOK, Threads
<1>2. UNCHANGED <<dirs, registered>>
  BY DEF Compactor, Compact_Start, Compact_Lock, _convertirATmpc, Compact_Renamed, Compact_Read, _borrarTmpc,
     Compact_Deleted, Compact_Write, Compact_End
<1>3. pc[x].at \notin {"none", "down"}
  BY DEF Compactor, Compact_Start, Compact_Lock, _convertirATmpc, Compact_Renamed, Compact_Read, _borrarTmpc,
     Compact_Deleted, Compact_Write, Compact_End
<1>4. pc[x].table \in dirs
  BY <1>3 DEF FInv, CompactorsFollowTables
<1>5. \A t \in Tables \ dirs' : NoFiles(t)'
  <2>1. CASE UNCHANGED files
    BY <1>2, <2>1, SameFiles
  <2>2. CASE _convertirATmpc(x)
    <3>1. \A t \in Tables \ dirs : /\ \A p \in Partitions : bin'[t][p] = bin[t][p]
                                   /\ \A j \in TmpNames : tmp'[t][j] = tmp[t][j] /\ tmpc'[t][j] = tmpc[t][j]
      <4>1. UNCHANGED bin
        BY <2>2 DEF _convertirATmpc
      <4> QED
        BY <1>4, <2>2, <4>1, RenameOne
    <3> QED
      BY <1>2, <3>1, OtherFiles
  <2>3. CASE _borrarTmpc(x)
    <3>1. \A t \in Tables \ dirs : /\ \A p \in Partitions : bin'[t][p] = bin[t][p]
                                   /\ \A j \in TmpNames : tmp'[t][j] = tmp[t][j] /\ tmpc'[t][j] = tmpc[t][j]
      BY <1>1, <1>4, <2>3 DEF _borrarTmpc, DataOK
    <3> QED
      BY <1>2, <3>1, OtherFiles
  <2>4. CASE Compact_Write(x)
    <3>1. \A t \in Tables \ dirs : /\ \A p \in Partitions : bin'[t][p] = bin[t][p]
                                   /\ \A j \in TmpNames : tmp'[t][j] = tmp[t][j] /\ tmpc'[t][j] = tmpc[t][j]
      BY <1>1, <1>4, <2>4 DEF Compact_Write, DataOK
    <3> QED
      BY <1>2, <3>1, OtherFiles
  <2> QED
    BY <2>1, <2>2, <2>3, <2>4 DEF Compactor, Compact_Start, Compact_Lock, Compact_Renamed, Compact_Read,
         Compact_Deleted, Compact_End
<1>6. pc' = pc \/ \E p : Goto(x, p) /\ p.table = pc[x].table
  <2>1. ASSUME NEW step, Step(x, step), pc[x] \in [at : {"lock1", "rename", "read"}, table : Tables, inode : Nat]
               \cup [at : {"lock2", "delete", "write"}, table : Tables, inode : Nat,
                     unwritten : SUBSET Partitions, merged : SUBSET Record]
        PROVE  \E p : Goto(x, p) /\ p.table = pc[x].table
    <3>1. Goto(x, [pc[x] EXCEPT !.at = step])
      BY <1>1, <2>1, GoesAt
    <3>2. [pc[x] EXCEPT !.at = step].table = pc[x].table
      BY <2>1
    <3> QED
      BY <3>1, <3>2
  <2>2. CASE Compact_Start(x)
    BY <2>2 DEF Compact_Start
  <2>3. CASE Compact_Lock(x, "lock1", "rename") \/ Compact_Renamed(x)
    <3>1. pc[x] \in [at : {"lock1", "rename", "read"}, table : Tables, inode : Nat]
      BY <1>1, <2>3, CompactorKnows DEF Compact_Lock, Compact_Renamed
    <3> QED
      BY <2>1, <2>3, <3>1 DEF Compact_Lock, Compact_Renamed
  <2>4. CASE Compact_Read(x)
    BY <2>4 DEF Compact_Read
  <2>5. CASE Compact_Lock(x, "lock2", "delete") \/ Compact_Deleted(x)
    <3>1. pc[x] \in [at : {"lock2", "delete", "write"}, table : Tables, inode : Nat,
                     unwritten : SUBSET Partitions, merged : SUBSET Record]
      BY <1>1, <2>5, CompactorKnows DEF Compact_Lock, Compact_Deleted
    <3> QED
      BY <2>1, <2>5, <3>1 DEF Compact_Lock, Compact_Deleted
  <2>6. CASE _borrarTmpc(x) \/ _convertirATmpc(x)
    BY <2>6 DEF _borrarTmpc, _convertirATmpc
  <2>7. CASE Compact_Write(x)
    <3>1. pc[x] \in [at : {"lock2", "delete", "write"}, table : Tables, inode : Nat,
                     unwritten : SUBSET Partitions, merged : SUBSET Record]
      BY <1>1, <2>7, CompactorKnows DEF Compact_Write
    <3>2. PICK left : left = pc[x].unwritten \ {Min(pc[x].unwritten)}
      OBVIOUS
    <3>3. Goto(x, [pc[x] EXCEPT !.unwritten = left])
      BY <2>7, <3>2 DEF Compact_Write, Goto
    <3>4. [pc[x] EXCEPT !.unwritten = left].table = pc[x].table
      BY <3>1
    <3> QED
      BY <3>3, <3>4
  <2>8. CASE Compact_End(x)
    BY <2>8 DEF Compact_End
  <2> QED
    BY <2>2, <2>3, <2>4, <2>5, <2>6, <2>7, <2>8 DEF Compactor
<1>7. CASE pc' = pc
  BY <1>2, <1>5, <1>7 DEF FInv, CompactorsFollowTables, RegisteredTablesExist, WritersAreAlone, AloneAt
<1> QED
  BY <1>2, <1>3, <1>5, <1>6, <1>7, OthersFollow

\* a dump to those of a table that is there,
LEMMA DumperFollows == ASSUME TInv, FInv, NEW d \in Dumpers, Dumper(d) PROVE FInv'
<1>1. DataOK /\ PcOK /\ pc[d] \in DumperState /\ d \in Threads /\ d \notin Compactors
  BY Types DEF PcOK, StatesOK, Threads
<1>2. UNCHANGED <<dirs, registered>>
  BY DEF Dumper, Dump_Swap, Dump_Open, Dump_NotFound, Dump_Lock, Dump_NoSpace, Dump_Create, Dump_Write, Dump_End
<1>3. \A t \in Tables \ dirs' : NoFiles(t)'
  <2>1. CASE UNCHANGED files
    BY <1>2, <2>1, SameFiles
  <2>2. CASE Dump_Create(d)
    <3>1. \A t \in Tables \ dirs : /\ \A p \in Partitions : bin'[t][p] = bin[t][p]
                                   /\ \A j \in TmpNames : tmp'[t][j] = tmp[t][j] /\ tmpc'[t][j] = tmpc[t][j]
      BY <1>1, <2>2 DEF Dump_Create, DataOK
    <3> QED
      BY <1>2, <3>1, OtherFiles
  <2>3. CASE Dump_Write(d)
    <3>1. pc[d] \in [at : {"write"}, table : Tables, name : TmpNames]
      BY <1>1, <2>3, DumperKnows DEF Dump_Write
    <3>2. tmp[pc[d].table][pc[d].name] # NoFile => pc[d].table \in dirs
      BY <3>1 DEF FInv, CompactorsFollowTables, NoFiles
    <3>3. \A t \in Tables \ dirs : /\ \A p \in Partitions : bin'[t][p] = bin[t][p]
                                   /\ \A j \in TmpNames : tmp'[t][j] = tmp[t][j] /\ tmpc'[t][j] = tmpc[t][j]
      BY <1>1, <2>3, <3>2 DEF Dump_Write, DataOK
    <3> QED
      BY <1>2, <3>3, OtherFiles
  <2> QED
    BY <2>1, <2>2, <2>3 DEF Dumper, Dump_Swap, Dump_Open, Dump_NotFound, Dump_Lock, Dump_NoSpace, Dump_End
<1>4. pc' = pc \/ \E p : Goto(d, p)
  BY <1>1, GoesAt DEF Dumper, Dump_Swap, Dump_Open, Dump_NotFound, Dump_Lock, Dump_NoSpace, Dump_Create,
     Dump_Write, Dump_End
<1>5. CASE pc' = pc
  BY <1>2, <1>3, <1>5 DEF FInv, CompactorsFollowTables, RegisteredTablesExist, WritersAreAlone, AloneAt
<1> QED
  BY <1>1, <1>2, <1>3, <1>4, <1>5, OthersFollow

\* and at the start each table gets a compactor of its own.
LEMMA StartFollows == ASSUME TInv, FInv, iniciarFileSystem PROVE FInv'
<1>1. PICK started \in [Tables -> Compactors \cup {Nobody}] :
        /\ \A t \in Tables : (started[t] # Nobody) <=> (t \in dirs)
        /\ registered' = started
        /\ pc' = [th \in Threads |->
                    IF th \notin Compactors THEN [at |-> "idle"]
                    ELSE IF \E t \in dirs : started[t] = th
                         THEN [at |-> "sleep", table |-> CHOOSE t \in dirs : started[t] = th]
                         ELSE [at |-> "none"]]
  BY DEF iniciarFileSystem
<1>2. UNCHANGED <<dirs, files>>
  BY DEF iniciarFileSystem
<1>3. \A t \in Tables \ dirs' : NoFiles(t)'
  BY <1>2, SameFiles
<1>4. ASSUME NEW x \in Compactors, pc'[x].at \notin {"none", "down"}
      PROVE  registered'[pc'[x].table] = x /\ pc'[x].table \in dirs'
  <2>1. CASE \E t \in dirs : started[t] = x
    <3> DEFINE u == CHOOSE t \in dirs : started[t] = x
    <3>1. u \in dirs /\ started[u] = x
      BY <2>1
    <3>2. pc'[x] = [at |-> "sleep", table |-> u]
      BY <1>1, <2>1 DEF Threads
    <3> HIDE DEF u
    <3>3. pc'[x].table = u
      BY <3>2
    <3> QED
      BY <1>1, <1>2, <3>1, <3>3
  <2>2. CASE ~\E t \in dirs : started[t] = x
    <3>1. pc'[x] = [at |-> "none"]
      BY <1>1, <2>2 DEF Threads
    <3> QED
      BY <1>4, <3>1
  <2> QED
    BY <2>1, <2>2
<1>5. RegisteredTablesExist'
  BY <1>1, <1>2 DEF RegisteredTablesExist
<1>6. \A c \in Clients : pc'[c] = [at |-> "idle"]
  BY <1>1 DEF Threads
<1>7. WritersAreAlone'
  BY <1>6 DEF WritersAreAlone, AloneAt, Creating
<1> QED
  BY <1>3, <1>4, <1>5, <1>7 DEF FInv, CompactorsFollowTables

\* So every step keeps compactors and tables together,
LEMMA NextFInv == ASSUME OneWriter PROVE TInv /\ FInv /\ [Next]_vars => FInv'
<1> SUFFICES ASSUME TInv, FInv, [Next]_vars PROVE FInv'
  OBVIOUS
<1>1. CASE UNCHANGED vars
  BY <1>1 DEF FInv, CompactorsFollowTables, RegisteredTablesExist, WritersAreAlone, AloneAt, NoFiles, vars, files
<1>2. CASE Crash \/ \E th \in Threads : Segfault(th)
  BY <1>2, DieFollows DEF Crash, Segfault
<1> QED
  BY <1>1, <1>2, ClientFollowsTables, CompactorFollows, DumperFollows, StartFollows DEF Next

\* and they are so at first.
LEMMA InitFInv == Init => FInv
<1> SUFFICES ASSUME Init PROVE FInv
  OBVIOUS
<1>1. \A th \in Threads : pc[th].at = "down"
  BY DEF Init
<1>2. CompactorsFollowTables
  <2>1. \A t \in Tables \ dirs : NoFiles(t)
    BY DEF Init, NoFiles
  <2> QED
    BY <1>1, <2>1 DEF CompactorsFollowTables, Threads
<1>3. RegisteredTablesExist
  BY DEF Init, RegisteredTablesExist
<1>4. WritersAreAlone
  BY <1>1 DEF WritersAreAlone, AloneAt, Creating, Threads
<1> QED
  BY <1>2, <1>3, <1>4 DEF FInv

\* When no two clients create or drop at a time, each table that is there has one compactor, and
\* one that is not has neither a compactor nor files, through all drops, compactions and ends of
\* the process.
THEOREM LFSCompactorsFollowTables == ASSUME OneWriter PROVE Spec => []CompactorsFollowTables
<1>1. FInv => CompactorsFollowTables
  BY DEF FInv
<1>2. Init => TInv /\ FInv
  BY InitTypes, InitFInv
<1>3. (TInv /\ FInv) /\ [Next]_vars => (TInv /\ FInv)'
  BY NextTInv, NextFInv
<1> QED
  BY <1>1, <1>2, <1>3, PTL DEF Spec

-----------------------------------------------------------------------------
(***************************************************************************)
(* Locks.                                                                  *)
(***************************************************************************)
\* A thread goes on, and leaves the locks alone, closes its descriptor or gets the lock it waits for.
LEMMA ThreadLocks ==
  ASSUME TInv, LInv, NEW th \in Threads, NEW p, Goto(th, p), inode' = inode,
         \/ locks' = locks
         \/ Unlock(th)
         \/ Lock(th, th \notin Clients) /\ pc[th].inode = 0,
         LocksAt(th, p, locks')
  PROVE  OneDirectory' /\ Holders' /\ Exclusion'
<1>1. PcOK
  BY Types
<1>2. pc'[th] = p /\ \A u \in Threads : u # th => pc'[u] = pc[u]
  BY <1>1, GoesOn
<1>3. \A l \in locks : l.thread # th => l \in locks'
  BY DEF Lock, Unlock
<1>4. \A l \in locks' : l \in locks \/ l = LockOf(th, pc[th].table)
  BY DEF Lock, Unlock, LockOf
<1>5. OneDirectory'
  BY <1>4 DEF LInv, OneDirectory, LockOf
<1>6. Holders'
  <2>1. ASSUME NEW u \in Threads PROVE LocksAt(u, pc'[u], locks')
    <3>1. CASE u = th
      BY <1>2, <3>1
    <3>2. CASE u # th
      <4>1. LocksAt(u, pc[u], locks) /\ pc'[u] = pc[u]
        BY <1>2, <3>2 DEF LInv, Holders
      <4>2. LockOf(u, pc[u].table).thread # th
        BY <3>2 DEF LockOf
      <4> QED
        BY <1>3, <4>1, <4>2 DEF LocksAt
    <3> QED
      BY <3>1, <3>2
  <2> QED
    BY <2>1 DEF Holders
<1>7. Exclusion'
  <2>1. CASE locks' = locks \/ Unlock(th)
    BY <2>1 DEF LInv, Exclusion, Unlock
  <2>2. CASE Lock(th, th \notin Clients) /\ pc[th].inode = 0
    <3> DEFINE new == LockOf(th, pc[th].table)
    <3>1. locks' = locks \cup {new}
      BY <2>2 DEF Lock, LockOf
    <3>2. new.table = pc[th].table /\ new.exclusive = (th \notin Clients)
      BY DEF LockOf
    <3>3. \A l \in locks : l.table = new.table => ~new.exclusive /\ ~l.exclusive
      BY <2>2, <3>2 DEF Lock, LInv, OneDirectory
    <3> HIDE DEF new
    <3> QED
      BY <3>1, <3>3 DEF LInv, Exclusion
  <2> QED
    BY <2>1, <2>2
<1> QED
  BY <1>5, <1>6, <1>7

\* A client goes on, with no lock to hold,
LEMMA ClientLocks ==
  ASSUME TInv, LInv, NEW c \in Clients, NEW p, Goto(c, p), inode' = inode,
         p.at \notin Dropping, p.at \in Creating => "create" \in Ops,
         \/ locks' = locks
         \/ Unlock(c)
         \/ Lock(c, FALSE) /\ pc[c].inode = 0,
         LocksAt(c, p, locks')
  PROVE  LInv'
<1>1. PcOK /\ c \in Threads
  BY Types DEF Threads
<1>2. pc'[c] = p /\ \A u \in Threads : u # c => pc'[u] = pc[u]
  BY <1>1, GoesOn
<1>3. NobodyDrops'
  BY <1>2 DEF LInv, NobodyDrops, Threads
<1> QED
  BY <1>1, <1>3, ThreadLocks DEF LInv

\* A client at a step that needs no lock.
LEMMA IdleLocks ==
  ASSUME NEW c \in Clients, NEW p, p.at \notin {"lock", "bin", "tmp", "temps", "mem"}, NEW held
  PROVE  LocksAt(c, p, held)
BY DEF LocksAt, Opened, Holding

\* api_insert takes no lock,
LEMMA InsertLocks ==
  ASSUME TInv, LInv, NEW c \in Clients,
         \/ \E t \in Tables, k \in Keys : Insert_Check(c, t, k)
         \/ memtable_new_elem(c) \/ Select_Return(c)
         \/ Describe_Tables(c) \/ Describe_Open(c) \/ traverse(c) \/ Describe_End(c)
  PROVE  LInv'
<1>1. inode' = inode /\ locks' = locks
  BY DEF Insert_Check, memtable_new_elem, Select_Return, Describe_Tables, Describe_Open, traverse, Describe_End
<1>2. PICK p : Goto(c, p) /\ p.at \in {"idle", "insert", "tables", "entries"}
  <2>1. CASE \E t \in Tables, k \in Keys : Insert_Check(c, t, k)
    BY <2>1 DEF Insert_Check
  <2>2. CASE memtable_new_elem(c) \/ Select_Return(c) \/ Describe_End(c)
    <3>1. Goto(c, [at |-> "idle"])
      BY <2>2 DEF memtable_new_elem, Select_Return, Describe_End
    <3> QED
      BY <3>1
  <2>3. CASE Describe_Tables(c)
    BY <2>3 DEF Describe_Tables
  <2>4. CASE Describe_Open(c)
    BY <2>4 DEF Describe_Open
  <2>5. CASE traverse(c)
    BY <2>5 DEF traverse
  <2> QED
    BY <2>1, <2>2, <2>3, <2>4, <2>5
<1> QED
  BY <1>1, <1>2, IdleLocks, ClientLocks DEF Dropping, Creating

\* SELECT: it opens the directory, gets the lock, holds it while it reads, and closes the descriptor.
LEMMA SelectLocks ==
  ASSUME TInv, LInv, NEW c \in Clients,
         \/ \E t \in Tables, k \in Keys : Select_Open(c, t, k)
         \/ Select_Lock(c) \/ scanParticion(c) \/ Temporaries_Open(c)
         \/ temporales_get_biggest_timestamp(c) \/ Temporaries_Return(c)
         \/ memtable_get_biggest_timestamp(c)
  PROVE  LInv'
<1>1. PcOK /\ pc[c] \in ClientState /\ c \in Threads
  BY Types DEF PcOK, StatesOK, Threads
<1>2. inode' = inode
  BY DEF Select_Open, Select_Lock, scanParticion, Temporaries_Open, temporales_get_biggest_timestamp,
     Temporaries_Return, memtable_get_biggest_timestamp
<1>3. LocksAt(c, pc[c], locks)
  BY <1>1 DEF LInv, Holders
<1>4. ASSUME NEW t \in Tables, NEW k \in Keys, Select_Open(c, t, k) PROVE LInv'
  <2>1. PICK p : p = [at |-> "lock", table |-> t, inode |-> inode[t], key |-> k, floor |-> Newest(acked[t], k)]
                 /\ Goto(c, p)
    BY <1>4 DEF Select_Open
  <2>2. p.at = "lock" /\ p.inode = 0
    BY <2>1 DEF LInv, OneDirectory
  <2>3. LocksAt(c, p, locks')
    BY <2>2 DEF LocksAt, Holding
  <2>4. locks' = locks
    BY <1>4 DEF Select_Open
  <2> QED
    BY <1>2, <2>1, <2>2, <2>3, <2>4, ClientLocks DEF Dropping, Creating
<1>5. ASSUME Select_Lock(c) PROVE LInv'
  <2>1. PICK p : p = [at |-> "bin", table |-> pc[c].table, inode |-> pc[c].inode, key |-> pc[c].key,
                      floor |-> pc[c].floor, stored |-> Newest(Stored(pc[c].table), pc[c].key)]
                 /\ Goto(c, p)
    BY <1>5 DEF Select_Lock
  <2>2. pc[c].inode = 0
    BY <1>3, <1>5 DEF LocksAt, Opened, Select_Lock
  <2>3. p.at = "bin" /\ p.inode = 0 /\ p.table = pc[c].table
    BY <2>1, <2>2
  <2>4. Lock(c, FALSE)
    BY <1>5 DEF Select_Lock
  <2>5. LockOf(c, p.table) \in locks'
    BY <2>2, <2>3, <2>4 DEF Lock, LockOf
  <2>6. LocksAt(c, p, locks')
    BY <2>3, <2>5 DEF LocksAt
  <2> QED
    BY <1>2, <2>1, <2>2, <2>3, <2>4, <2>6, ClientLocks DEF Dropping, Creating
<1>6. ASSUME scanParticion(c) PROVE LInv'
  <2>1. PICK p : p = [at |-> "tmp", table |-> pc[c].table, inode |-> pc[c].inode, key |-> pc[c].key,
                      floor |-> pc[c].floor, stored |-> pc[c].stored,
                      found |-> Newest(Content(bin[pc[c].table][Part(pc[c].key)]), pc[c].key)]
                 /\ Goto(c, p)
    BY <1>6 DEF scanParticion
  <2>2. p.at = "tmp" /\ p.inode = pc[c].inode /\ p.table = pc[c].table
    BY <2>1
  <2>3. locks' = locks
    BY <1>6 DEF scanParticion
  <2>4. LocksAt(c, p, locks')
    BY <1>3, <1>6, <2>2, <2>3 DEF LocksAt, Opened, Holding, scanParticion
  <2> QED
    BY <1>2, <2>1, <2>2, <2>3, <2>4, ClientLocks DEF Dropping, Creating
<1>8. ASSUME Temporaries_Open(c) \/ temporales_get_biggest_timestamp(c) \/ Temporaries_Return(c) PROVE LInv'
  <2>1. locks' = locks /\ ~memtable_get_biggest_timestamp(c)
    BY <1>8 DEF Temporaries_Open, temporales_get_biggest_timestamp, Temporaries_Return, memtable_get_biggest_timestamp
  <2>2. PICK p \in ClientState : Goto(c, p) /\ ReadOn(c, p) /\ p.at \in {"temps", "mem"} /\ pc[c].at \in {"tmp", "temps"}
    BY <1>8, <2>1, ReadSteps
  <2>3. LocksAt(c, p, locks')
    BY <1>3, <2>1, <2>2 DEF LocksAt, Opened, Holding, ReadOn
  <2> QED
    BY <1>2, <2>1, <2>2, <2>3, ClientLocks DEF Dropping, Creating
<1>9. ASSUME memtable_get_biggest_timestamp(c) PROVE LInv'
  <2>1. PICK p \in ClientState : Goto(c, p) /\ p.at = "done"
    BY <1>9, ReadSteps
  <2>2. Unlock(c)
    BY <1>9 DEF memtable_get_biggest_timestamp
  <2> QED
    BY <1>2, <2>1, <2>2, IdleLocks, ClientLocks DEF Dropping, Creating
<1> QED
  BY <1>4, <1>5, <1>6, <1>8, <1>9

\* CREATE takes no lock.
LEMMA CreateLocks ==
  ASSUME TInv, LInv, NoDrops, NEW c \in Clients,
         \/ \E t \in Tables : Create_Check(c, t)
         \/ Create_Dir(c) \/ Create_Metadata(c) \/ Create_Bins(c) \/ Create_NoSpace(c)
         \/ agregarTablaCompactador(c)
  PROVE  LInv'
<1>1. PcOK /\ pc[c] \in ClientState /\ c \in Threads
  BY Types DEF PcOK, StatesOK, Threads
<1>2. inode' = inode /\ locks' = locks
  BY DEF Create_Check, Create_Dir, Create_Metadata, Create_Bins, Create_NoSpace, agregarTablaCompactador
<1>3. pc[c].at \in Creating => "create" \in Ops
  BY DEF LInv, NobodyDrops
<1>4. ASSUME NEW t \in Tables, Create_Check(c, t) PROVE LInv'
  <2>1. PICK p : p = [at |-> "mkdir", table |-> t] /\ Goto(c, p)
    BY <1>4 DEF Create_Check
  <2>2. p.at = "mkdir" /\ "create" \in Ops
    BY <1>4, <2>1 DEF Create_Check
  <2> QED
    BY <1>2, <2>1, <2>2, IdleLocks, ClientLocks DEF Dropping
<1>5. ASSUME NEW p, Goto(c, p), pc[c].at \in Creating, p.at \in {"metadata", "bins", "compactor"} PROVE LInv'
  BY <1>2, <1>3, <1>5, IdleLocks, ClientLocks DEF Dropping
<1>6. ASSUME Create_Dir(c) \/ Create_Metadata(c) \/ Create_Bins(c) PROVE LInv'
  <2>1. CASE Create_Dir(c)
    <3>1. pc[c] \in [at : {"mkdir", "metadata", "compactor", "memtable", "cancel", "list"}, table : Tables]
      BY <1>1, <2>1, ClientKnows DEF Create_Dir
    <3>2. PICK p : p = [pc[c] EXCEPT !.at = "metadata"]
      OBVIOUS
    <3>3. p.at = "metadata" /\ Goto(c, p)
      BY <1>1, <2>1, <3>1, <3>2, GoesAt DEF Create_Dir
    <3> QED
      BY <1>5, <2>1, <3>3 DEF Create_Dir, Creating
  <2>2. CASE Create_Metadata(c)
    <3>1. PICK p : Goto(c, p) /\ p.at = "bins"
      BY <2>2 DEF Create_Metadata
    <3> QED
      BY <1>5, <2>2, <3>1 DEF Create_Metadata, Creating
  <2>3. CASE Create_Bins(c)
    <3>1. PICK p \in ClientState : Goto(c, p) /\ p.at \in {"bins", "compactor"}
      BY <2>3, CreateOne
    <3> QED
      BY <1>5, <2>3, <3>1 DEF Create_Bins, Creating
  <2> QED
    BY <1>6, <2>1, <2>2, <2>3
<1>7. ~Create_NoSpace(c)
  BY <1>3 DEF NoDrops, Create_NoSpace, Creating
<1>8. ASSUME agregarTablaCompactador(c) PROVE LInv'
  <2>1. PICK x \in Compactors :
          pc' = [pc EXCEPT ![c] = [at |-> "idle"], ![x] = [at |-> "sleep", table |-> pc[c].table]]
    BY <1>8 DEF agregarTablaCompactador
  <2>2. \A u \in Threads : pc'[u] = IF u = x THEN [at |-> "sleep", table |-> pc[c].table]
                                    ELSE IF u = c THEN [at |-> "idle"] ELSE pc[u]
    BY <1>1, <2>1 DEF PcOK
  <2>3. ASSUME NEW u \in Threads PROVE LocksAt(u, pc'[u], locks')
    <3>1. CASE u = x
      <4>1. pc'[u].at = "sleep"
        BY <2>2, <3>1
      <4> QED
        BY <3>1, <4>1 DEF LocksAt, Opened, Holding
    <3>2. CASE u # x /\ u = c
      <4>1. pc'[u].at = "idle"
        BY <2>2, <3>2
      <4> QED
        BY <3>2, <4>1, IdleLocks
    <3>3. CASE u # x /\ u # c
      BY <1>2, <2>2, <3>3 DEF LInv, Holders
    <3> QED
      BY <3>1, <3>2, <3>3
  <2>4. ASSUME NEW e \in Clients
        PROVE  pc'[e].at \notin Dropping /\ (pc'[e].at \in Creating => "create" \in Ops)
    <3>1. pc'[e] = pc[e] \/ pc'[e] = [at |-> "idle"]
      BY <2>2 DEF Threads
    <3>2. [at |-> "idle"].at \notin Dropping \cup Creating
      BY DEF Dropping, Creating
    <3> QED
      BY <3>1, <3>2 DEF LInv, NobodyDrops
  <2> QED
    BY <1>2, <2>3, <2>4 DEF LInv, NobodyDrops, OneDirectory, Holders, Exclusion
<1> QED
  BY <1>4, <1>6, <1>7, <1>8

\* api_drop is not asked for,
LEMMA DropLocks ==
  ASSUME LInv, NoDrops, NEW c \in Clients
  PROVE  /\ ~(\E t \in Tables : Drop_Check(c, t))
         /\ ~(memtable_delete_table(c) \/ quitarTablaCompactador(c)
                 \/ Drop_Open(c) \/ traverse_to_drop(c) \/ Drop_Dir(c))
BY DEF LInv, NoDrops, NobodyDrops, Dropping, Drop_Check, memtable_delete_table, quitarTablaCompactador,
   Drop_Open, traverse_to_drop, Drop_Dir

\* and the end of the process releases them all.
LEMMA DieLocks == ASSUME LInv, Die PROVE LInv'
<1>1. \A th \in Threads : pc'[th] = [at |-> "down"]
  BY DEF Die
<1>2. \A th \in Threads : pc'[th].at = "down"
  BY <1>1
<1>3. NobodyDrops' /\ Holders'
  BY <1>2 DEF NobodyDrops, Dropping, Creating, Holders, LocksAt, Opened, Holding, Threads
<1> QED
  BY <1>3 DEF LInv, OneDirectory, Exclusion, Die

\* All the steps of a client,
LEMMA ClientStepLocks == ASSUME TInv, LInv, NoDrops, NEW c \in Clients, Client(c) PROVE LInv'
BY InsertLocks, SelectLocks, CreateLocks, DropLocks, DieLocks DEF Client, Describe_Segfault

\* A compactor or a dump goes on.
LEMMA OtherLocks ==
  ASSUME TInv, LInv, NEW th \in Compactors \cup Dumpers, NEW p, Goto(th, p), inode' = inode,
         \/ locks' = locks
         \/ Unlock(th)
         \/ Lock(th, TRUE) /\ pc[th].inode = 0,
         LocksAt(th, p, locks')
  PROVE  LInv'
<1>1. PcOK /\ th \in Threads /\ th \notin Clients
  BY Types DEF Threads
<1>2. pc'[th] = p /\ \A u \in Threads : u # th => pc'[u] = pc[u]
  BY <1>1, GoesOn
<1>3. NobodyDrops'
  BY <1>1, <1>2 DEF LInv, NobodyDrops, Threads
<1>4. (th \notin Clients) = TRUE
  BY <1>1
<1> QED
  BY <1>1, <1>3, <1>4, ThreadLocks DEF LInv

\* those of a compactor,
LEMMA CompactorLocks == ASSUME TInv, LInv, NEW x \in Compactors, Compactor(x) PROVE LInv'
<1>1. PcOK /\ pc[x] \in CompactorState /\ x \in Threads /\ x \notin Clients /\ x \notin Dumpers
  BY Types DEF PcOK, StatesOK, Threads
<1>2. Opened(x) = {"lock1", "rename", "read", "lock2", "delete", "write"} /\ Holding(x) = {"rename", "delete", "write"}
  BY <1>1 DEF Opened, Holding
<1>3. LocksAt(x, pc[x], locks)
  BY <1>1 DEF LInv, Holders
<1>4. inode' = inode
  BY DEF Compactor, Compact_Start, Compact_Lock, _convertirATmpc, Compact_Renamed, Compact_Read, _borrarTmpc,
     Compact_Deleted, Compact_Write, Compact_End
<1>5. ASSUME NEW step, Step(x, step), pc[x] \in [at : {"lock1", "rename", "read"}, table : Tables, inode : Nat]
             \cup [at : {"lock2", "delete", "write"}, table : Tables, inode : Nat,
                   unwritten : SUBSET Partitions, merged : SUBSET Record]
      PROVE  \E p : Goto(x, p) /\ p.at = step /\ p.table = pc[x].table /\ p.inode = pc[x].inode
  <2>1. Goto(x, [pc[x] EXCEPT !.at = step])
    BY <1>1, <1>5, GoesAt
  <2>2. [pc[x] EXCEPT !.at = step].at = step /\ [pc[x] EXCEPT !.at = step].table = pc[x].table
        /\ [pc[x] EXCEPT !.at = step].inode = pc[x].inode
    BY <1>5
  <2> QED
    BY <2>1, <2>2
<1>6. ASSUME Compact_Start(x) PROVE LInv'
  <2>1. pc[x].table \in Tables
    BY <1>1, <1>6, CompactorKnows DEF Compact_Start
  <2>2. PICK p : p = [at |-> "lock1", table |-> pc[x].table, inode |-> inode[pc[x].table]] /\ Goto(x, p)
    BY <1>6 DEF Compact_Start
  <2>3. p.at = "lock1" /\ p.inode = 0
    BY <2>1, <2>2 DEF LInv, OneDirectory
  <2>4. LocksAt(x, p, locks')
    BY <1>2, <2>3 DEF LocksAt
  <2>5. locks' = locks
    BY <1>6 DEF Compact_Start
  <2> QED
    BY <1>4, <2>2, <2>4, <2>5, OtherLocks
<1>7. ASSUME NEW step, NEW next \in {"rename", "delete"}, <<step, next>> \in {<<"lock1", "rename">>, <<"lock2", "delete">>},
             Compact_Lock(x, step, next)
      PROVE  LInv'
  <2>1. pc[x] \in [at : {"lock1", "rename", "read"}, table : Tables, inode : Nat]
                    \cup [at : {"lock2", "delete", "write"}, table : Tables, inode : Nat,
                          unwritten : SUBSET Partitions, merged : SUBSET Record]
    BY <1>1, <1>7, CompactorKnows DEF Compact_Lock
  <2>2. PICK p : Goto(x, p) /\ p.at = next /\ p.table = pc[x].table /\ p.inode = pc[x].inode
    BY <1>5, <1>7, <2>1 DEF Compact_Lock
  <2>3. pc[x].inode = 0
    BY <1>2, <1>3, <1>7 DEF LocksAt, Compact_Lock
  <2>4. Lock(x, TRUE)
    BY <1>7 DEF Compact_Lock
  <2>5. LockOf(x, p.table) \in locks'
    <3>1. LockOf(x, p.table) = [thread |-> x, table |-> pc[x].table, inode |-> pc[x].inode, exclusive |-> TRUE]
      BY <1>1, <2>2, <2>3 DEF LockOf
    <3> QED
      BY <2>4, <3>1 DEF Lock
  <2>6. LocksAt(x, p, locks')
    BY <2>2, <2>3, <2>5 DEF LocksAt
  <2> QED
    BY <1>4, <2>2, <2>3, <2>4, <2>6, OtherLocks
<1>8. ASSUME Compact_Renamed(x) PROVE LInv'
  <2>1. pc[x] \in [at : {"lock1", "rename", "read"}, table : Tables, inode : Nat]
    BY <1>1, <1>8, CompactorKnows DEF Compact_Renamed
  <2>2. PICK p : Goto(x, p) /\ p.at = "read" /\ p.table = pc[x].table /\ p.inode = pc[x].inode
    BY <1>5, <1>8, <2>1 DEF Compact_Renamed
  <2>3. LocksAt(x, p, locks')
    BY <1>2, <1>3, <1>8, <2>2 DEF LocksAt, Compact_Renamed
  <2>4. Unlock(x)
    BY <1>8 DEF Compact_Renamed
  <2> QED
    BY <1>4, <2>2, <2>3, <2>4, OtherLocks
<1>9. ASSUME Compact_Read(x) PROVE LInv'
  <2>1. PICK p : p = [at |-> "lock2", table |-> pc[x].table, inode |-> pc[x].inode, unwritten |-> Partitions,
                      merged |-> Merged(Contents(bin[pc[x].table]) \cup Contents(tmpc[pc[x].table]))]
                 /\ Goto(x, p)
    BY <1>9 DEF Compact_Read
  <2>2. p.at = "lock2" /\ p.inode = pc[x].inode
    BY <2>1
  <2>3. LocksAt(x, p, locks')
    BY <1>2, <1>3, <1>9, <2>2 DEF LocksAt, Compact_Read
  <2>4. locks' = locks
    BY <1>9 DEF Compact_Read
  <2> QED
    BY <1>4, <2>1, <2>3, <2>4, OtherLocks
<1>10. ASSUME _borrarTmpc(x) \/ _convertirATmpc(x) PROVE LInv'
  BY <1>10 DEF _borrarTmpc, _convertirATmpc, LInv, NobodyDrops, OneDirectory, Holders, LocksAt, Exclusion
<1>11. ASSUME Compact_Deleted(x) PROVE LInv'
  <2>1. pc[x] \in [at : {"lock2", "delete", "write"}, table : Tables, inode : Nat,
                   unwritten : SUBSET Partitions, merged : SUBSET Record]
    BY <1>1, <1>11, CompactorKnows DEF Compact_Deleted
  <2>2. PICK p : Goto(x, p) /\ p.at = "write" /\ p.table = pc[x].table /\ p.inode = pc[x].inode
    BY <1>5, <1>11, <2>1 DEF Compact_Deleted
  <2>3. locks' = locks
    BY <1>11 DEF Compact_Deleted
  <2>4. LocksAt(x, p, locks')
    BY <1>2, <1>3, <1>11, <2>2, <2>3 DEF LocksAt, Compact_Deleted
  <2> QED
    BY <1>4, <2>2, <2>3, <2>4, OtherLocks
<1>12. ASSUME Compact_Write(x) PROVE LInv'
  <2>1. pc[x] \in [at : {"lock2", "delete", "write"}, table : Tables, inode : Nat,
                   unwritten : SUBSET Partitions, merged : SUBSET Record]
    BY <1>1, <1>12, CompactorKnows DEF Compact_Write
  <2>2. PICK left : left = pc[x].unwritten \ {Min(pc[x].unwritten)}
    OBVIOUS
  <2>3. PICK p : p = [pc[x] EXCEPT !.unwritten = left]
    OBVIOUS
  <2>4. Goto(x, p)
    BY <1>12, <2>2, <2>3 DEF Compact_Write, Goto
  <2>5. p.at = pc[x].at /\ p.table = pc[x].table /\ p.inode = pc[x].inode
    BY <2>1, <2>3
  <2>6. locks' = locks
    BY <1>12 DEF Compact_Write
  <2>7. LocksAt(x, p, locks')
    BY <1>3, <2>5, <2>6 DEF LocksAt
  <2> QED
    BY <1>4, <2>4, <2>6, <2>7, OtherLocks
<1>13. ASSUME Compact_End(x) PROVE LInv'
  <2>1. PICK p : p = [at |-> "sleep", table |-> pc[x].table] /\ Goto(x, p)
    BY <1>13 DEF Compact_End
  <2>2. p.at = "sleep"
    BY <2>1
  <2>3. LocksAt(x, p, locks')
    BY <1>2, <2>2 DEF LocksAt
  <2>4. Unlock(x)
    BY <1>13 DEF Compact_End
  <2> QED
    BY <1>4, <2>1, <2>3, <2>4, OtherLocks
<1>14. Compact_Lock(x, "lock1", "rename") \/ Compact_Lock(x, "lock2", "delete") => LInv'
  BY <1>7
<1> QED
  BY <1>6, <1>8, <1>9, <1>10, <1>11, <1>12, <1>13, <1>14 DEF Compactor

\* those of a dump,
LEMMA DumperLocks == ASSUME TInv, LInv, NEW d \in Dumpers, Dumper(d) PROVE LInv'
<1>1. DataOK /\ PcOK /\ pc[d] \in DumperState /\ d \in Threads /\ d \notin Clients
  BY Types DEF PcOK, StatesOK, Threads
<1>2. Opened(d) = {"lock", "create"} /\ Holding(d) = {"create", "write"}
  BY <1>1 DEF Opened, Holding
<1>3. LocksAt(d, pc[d], locks)
  BY <1>1 DEF LInv, Holders
<1>4. inode' = inode
  BY DEF Dumper, Dump_Swap, Dump_Open, Dump_NotFound, Dump_Lock, Dump_NoSpace, Dump_Create, Dump_Write, Dump_End
<1>5. ASSUME Dump_Swap(d) \/ Dump_NoSpace(d) \/ Dump_Write(d) \/ Dump_End(d) PROVE LInv'
  <2>1. Goto(d, [at |-> "next"]) \/ Goto(d, [at |-> "idle"])
    BY <1>5 DEF Dump_Swap, Dump_NoSpace, Dump_Write, Dump_End
  <2>2. PICK p : Goto(d, p) /\ p.at \in {"next", "idle"}
    BY <2>1
  <2>3. locks' = locks \/ Unlock(d)
    BY <1>5 DEF Dump_Swap, Dump_NoSpace, Dump_Write, Dump_End
  <2>4. LocksAt(d, p, locks')
    BY <1>2, <2>2 DEF LocksAt
  <2> QED
    BY <1>4, <2>2, <2>3, <2>4, OtherLocks
<1>6. ASSUME Dump_Open(d) PROVE LInv'
  <2>1. PICK t \in dirs : Goto(d, [at |-> "lock", table |-> t, inode |-> inode[t]])
    BY <1>6 DEF Dump_Open
  <2>2. PICK p : p = [at |-> "lock", table |-> t, inode |-> inode[t]] /\ Goto(d, p)
    BY <2>1
  <2>3. p.at = "lock" /\ p.inode = 0
    BY <1>1, <2>2 DEF LInv, OneDirectory, DataOK
  <2>4. LocksAt(d, p, locks')
    BY <1>2, <2>3 DEF LocksAt
  <2>5. locks' = locks
    BY <1>6 DEF Dump_Open
  <2> QED
    BY <1>4, <2>2, <2>4, <2>5, OtherLocks
<1>7. ASSUME Dump_NotFound(d) PROVE LInv'
  BY <1>7 DEF Dump_NotFound, LInv, NobodyDrops, OneDirectory, Holders, LocksAt, Exclusion
<1>8. ASSUME Dump_Lock(d) PROVE LInv'
  <2>1. pc[d] \in [at : {"lock", "create"}, table : Tables, inode : Nat]
    BY <1>1, <1>8, DumperKnows DEF Dump_Lock
  <2>2. PICK p : p = [pc[d] EXCEPT !.at = "create"]
    OBVIOUS
  <2>3. p.at = "create" /\ p.table = pc[d].table /\ p.inode = pc[d].inode
    BY <2>1, <2>2
  <2>4. Goto(d, p)
    BY <1>1, <1>8, <2>2, GoesAt DEF Dump_Lock
  <2>5. pc[d].inode = 0
    BY <1>2, <1>3, <1>8 DEF LocksAt, Dump_Lock
  <2>6. Lock(d, TRUE)
    BY <1>8 DEF Dump_Lock
  <2>7. LockOf(d, p.table) \in locks'
    <3>1. LockOf(d, p.table) = [thread |-> d, table |-> pc[d].table, inode |-> pc[d].inode, exclusive |-> TRUE]
      BY <1>1, <2>3, <2>5 DEF LockOf
    <3> QED
      BY <2>6, <3>1 DEF Lock
  <2>8. LocksAt(d, p, locks')
    BY <2>3, <2>5, <2>7 DEF LocksAt
  <2> QED
    BY <1>4, <2>4, <2>5, <2>6, <2>8, OtherLocks
<1>9. ASSUME Dump_Create(d) PROVE LInv'
  <2>1. PICK p : p = [at |-> "write", table |-> pc[d].table, name |-> Min(FreeNames(pc[d].table))] /\ Goto(d, p)
    BY <1>9 DEF Dump_Create
  <2>2. p.at = "write" /\ p.table = pc[d].table
    BY <2>1
  <2>3. locks' = locks
    BY <1>9 DEF Dump_Create
  <2>4. LocksAt(d, p, locks')
    BY <1>2, <1>3, <1>9, <2>2, <2>3 DEF LocksAt, Dump_Create
  <2> QED
    BY <1>4, <2>1, <2>3, <2>4, OtherLocks
<1> QED
  BY <1>5, <1>6, <1>7, <1>8, <1>9 DEF Dumper

\* and the start of the process.
LEMMA StartLocks == ASSUME TInv, LInv, iniciarFileSystem PROVE LInv'
<1>1. PICK started \in [Tables -> Compactors \cup {Nobody}] :
        pc' = [th \in Threads |->
                 IF th \notin Compactors THEN [at |-> "idle"]
                 ELSE IF \E t \in dirs : started[t] = th
                      THEN [at |-> "sleep", table |-> CHOOSE t \in dirs : started[t] = th]
                      ELSE [at |-> "none"]]
  BY DEF iniciarFileSystem
<1>2. \A th \in Threads : pc'[th].at \in (IF th \in Compactors THEN {"sleep", "none"} ELSE {"idle"})
  BY <1>1
<1>3. NobodyDrops' /\ Holders'
  BY <1>2 DEF NobodyDrops, Dropping, Creating, Holders, LocksAt, Opened, Holding, Threads
<1> QED
  BY <1>3 DEF LInv, OneDirectory, Exclusion, iniciarFileSystem

\* So every step keeps the locks,
LEMMA NextLInv == ASSUME NoDrops PROVE TInv /\ LInv /\ [Next]_vars => LInv'
<1> SUFFICES ASSUME TInv, LInv, [Next]_vars PROVE LInv'
  OBVIOUS
<1>1. CASE UNCHANGED vars
  BY <1>1 DEF LInv, NobodyDrops, OneDirectory, Holders, LocksAt, Exclusion, vars
<1>2. CASE Crash \/ \E th \in Threads : Segfault(th)
  BY <1>2, DieLocks DEF Crash, Segfault
<1> QED
  BY <1>1, <1>2, ClientStepLocks, CompactorLocks, DumperLocks, StartLocks DEF Next

\* and at first nobody has one.
LEMMA InitLInv == Init => LInv
<1> SUFFICES ASSUME Init PROVE LInv
  OBVIOUS
<1>1. \A th \in Threads : pc[th] = [at |-> "down"]
  BY DEF Init
<1>2. \A th \in Threads : pc[th].at = "down"
  BY <1>1
<1>3. NobodyDrops /\ Holders
  BY <1>2 DEF NobodyDrops, Dropping, Creating, Holders, LocksAt, Opened, Holding, Threads
<1> QED
  BY <1>3 DEF LInv, OneDirectory, Exclusion, Init

-----------------------------------------------------------------------------
(***************************************************************************)
(* What a SELECT reads.                                                    *)
(***************************************************************************)
SameContents(t) ==
  /\ \A p \in Partitions : Content(bin'[t][p]) = Content(bin[t][p])
  /\ \A j \in TmpNames : Content(tmp'[t][j]) = Content(tmp[t][j]) /\ Content(tmpc'[t][j]) = Content(tmpc[t][j])

\* Files with the same contents store the same records.
LEMMA SameStored ==
  ASSUME DataOK, DataOK', NEW t \in Tables, SameContents(t)
  PROVE  Stored(t)' = Stored(t)
<1>1. /\ DOMAIN bin[t] = Partitions /\ DOMAIN tmp[t] = TmpNames /\ DOMAIN tmpc[t] = TmpNames
      /\ DOMAIN bin'[t] = Partitions /\ DOMAIN tmp'[t] = TmpNames /\ DOMAIN tmpc'[t] = TmpNames
  BY DEF DataOK
<1>2. \A r : r \in Contents(bin'[t]) <=> r \in Contents(bin[t])
  BY <1>1, ContentsFacts DEF SameContents
<1>3. \A r : r \in Contents(tmp'[t]) <=> r \in Contents(tmp[t])
  BY <1>1, ContentsFacts DEF SameContents
<1>4. \A r : r \in Contents(tmpc'[t]) <=> r \in Contents(tmpc[t])
  BY <1>1, ContentsFacts DEF SameContents
<1> QED
  BY <1>2, <1>3, <1>4 DEF Stored

\* Files that do not change have the same contents.
LEMMA SameFilesSame == UNCHANGED files => \A t : SameContents(t)
BY DEF SameContents, files

\* The files of a table stay,
StillThere(t) == Names(t) \subseteq Names(t)'
LEMMA FilesStay ==
  ASSUME NEW t \in Tables, metadata \subseteq metadata',
         \A p \in Partitions : bin[t][p] # NoFile => bin'[t][p] # NoFile,
         \A j \in TmpNames : (tmp[t][j] # NoFile => tmp'[t][j] # NoFile) /\ (tmpc[t][j] # NoFile => tmpc'[t][j] # NoFile)
  PROVE  StillThere(t)
BY DEF StillThere, Names

\* when none is touched.
LEMMA SameFilesStay == UNCHANGED <<metadata, files>> => \A t \in Tables : StillThere(t)
BY FilesStay DEF files

\* Without DROP directories and their Metadata stay.
LEMMA DirsStay ==
  ASSUME LInv, NoDrops, NEW c \in Clients, Client(c)
  PROVE  dirs \subseteq dirs' /\ metadata \subseteq metadata'
<1>1. (\E t \in Tables, k \in Keys : Insert_Check(c, t, k) \/ Select_Open(c, t, k)) => UNCHANGED <<dirs, metadata>>
  BY DEF Insert_Check, Select_Open
<1>2. (\E t \in Tables : Create_Check(c, t)) => UNCHANGED <<dirs, metadata>>
  BY DEF Create_Check
<1>3. memtable_new_elem(c) \/ Select_Lock(c) \/ scanParticion(c) \/ Select_Return(c) => UNCHANGED <<dirs, metadata>>
  BY DEF memtable_new_elem, Select_Lock, scanParticion, Select_Return
<1>4. Temporaries_Open(c) \/ temporales_get_biggest_timestamp(c) \/ Temporaries_Return(c)
        \/ memtable_get_biggest_timestamp(c) => UNCHANGED <<dirs, metadata>>
  BY DEF Temporaries_Open, temporales_get_biggest_timestamp, Temporaries_Return, memtable_get_biggest_timestamp
<1>5. Create_Dir(c) \/ Create_Metadata(c) \/ Create_Bins(c) \/ Create_NoSpace(c) \/ agregarTablaCompactador(c)
        => dirs \subseteq dirs' /\ metadata \subseteq metadata'
  BY DEF Create_Dir, Create_Metadata, Create_Bins, Create_NoSpace, agregarTablaCompactador
<1>6. Describe_Tables(c) \/ Describe_Open(c) \/ traverse(c) \/ Describe_Segfault(c) \/ Describe_End(c)
        => UNCHANGED <<dirs, metadata>>
  BY DEF Describe_Tables, Describe_Open, traverse, Describe_Segfault, Describe_End, Die
<1> QED
  BY <1>1, <1>2, <1>3, <1>4, <1>5, <1>6, DropLocks DEF Client

\* Compactors and dumps leave them too.
LEMMA OthersLeaveDirs ==
  /\ \A x \in Compactors : Compactor(x) => UNCHANGED <<dirs, metadata>>
  /\ \A d \in Dumpers : Dumper(d) => UNCHANGED <<dirs, metadata>>
<1>1. \A x \in Compactors : Compactor(x) => UNCHANGED <<dirs, metadata>>
  BY DEF Compactor, Compact_Start, Compact_Lock, _convertirATmpc, Compact_Renamed, Compact_Read, _borrarTmpc,
     Compact_Deleted, Compact_Write, Compact_End
<1>2. \A d \in Dumpers : Dumper(d) => UNCHANGED <<dirs, metadata>>
  BY DEF Dumper, Dump_Swap, Dump_Open, Dump_NotFound, Dump_Lock, Dump_NoSpace, Dump_Create, Dump_Write, Dump_End
<1> QED
  BY <1>1, <1>2

\* Compactors and dumps work on a table.
Works(th, t) == pc[th].at \in Holding(th) /\ pc[th].table = t

\* Without DROP only a thread that holds the exclusive lock of a table changes what its files hold.
LEMMA ClientContents ==
  ASSUME TInv, LInv, NoDrops, NEW c \in Clients, Client(c)
  PROVE  \A t \in Tables : SameContents(t) /\ StillThere(t)
<1>1. DataOK
  BY Types
<1>2. metadata \subseteq metadata'
  BY DirsStay
<1>3. CASE UNCHANGED files
  BY <1>2, <1>3, SameFilesSame, FilesStay DEF files
<1>4. CASE Create_Bins(c)
  <2>1. \A t \in Tables, p \in Partitions : bin'[t][p] = bin[t][p] \/ (bin'[t][p] = {} /\ bin[t][p] = NoFile)
    BY <1>4, CreateOne
  <2>2. Content({}) = {} /\ Content(NoFile) = {} /\ {} # NoFile
    BY ContentFacts DEF NoFile
  <2>3. UNCHANGED <<tmp, tmpc>>
    BY <1>4 DEF Create_Bins
  <2>4. \A t \in Tables : SameContents(t)
    BY <2>1, <2>2, <2>3 DEF SameContents
  <2>5. \A t \in Tables : StillThere(t)
    BY <1>2, <2>1, <2>2, <2>3, FilesStay
  <2> QED
    BY <2>4, <2>5
<1> QED
  BY <1>3, <1>4, ClientFiles, DropLocks

\* A compactor changes the contents of files under the lock of their table,
LEMMA CompactorContents ==
  ASSUME TInv, NEW x \in Compactors, Compactor(x)
  PROVE  \A t \in Tables : (SameContents(t) /\ StillThere(t)) \/ Works(x, t)
<1>1. DataOK /\ x \notin Clients /\ x \notin Dumpers
  BY Types
<1>7.UNCHANGED metadata
  BY OthersLeaveDirs
<1>2. Holding(x) = {"rename", "delete", "write"}
  BY <1>1 DEF Holding
<1>3. CASE UNCHANGED files
  BY <1>3, <1>7, SameFilesSame, SameFilesStay
<1>4. CASE _convertirATmpc(x)
  <2>2. UNCHANGED bin
    BY <1>4 DEF _convertirATmpc
  <2>3. \A t \in Tables : t # pc[x].table => SameContents(t)
    BY <1>4, <2>2, RenameOne DEF SameContents
  <2>4. \A t \in Tables : t # pc[x].table => StillThere(t)
    BY <1>4, <1>7, <2>2, RenameOne, FilesStay
  <2>1. \A t \in Tables : t # pc[x].table => SameContents(t) /\ StillThere(t)
    BY <2>3, <2>4
  <2> QED
    BY <1>2, <1>4, <2>1 DEF _convertirATmpc, Works
<1>5. CASE _borrarTmpc(x)
  <2>2. \A t \in Tables : t # pc[x].table => bin'[t] = bin[t] /\ tmp'[t] = tmp[t] /\ tmpc'[t] = tmpc[t]
    BY <1>1, <1>5 DEF _borrarTmpc, DataOK
  <2>1. \A t \in Tables : t # pc[x].table => SameContents(t) /\ StillThere(t)
    BY <1>7, <2>2, FilesStay DEF SameContents
  <2> QED
    BY <1>2, <1>5, <2>1 DEF _borrarTmpc, Works
<1>6. CASE Compact_Write(x)
  <2>2. \A t \in Tables : t # pc[x].table => bin'[t] = bin[t] /\ tmp'[t] = tmp[t] /\ tmpc'[t] = tmpc[t]
    BY <1>1, <1>6 DEF Compact_Write, DataOK
  <2>1. \A t \in Tables : t # pc[x].table => SameContents(t) /\ StillThere(t)
    BY <1>7, <2>2, FilesStay DEF SameContents
  <2> QED
    BY <1>2, <1>6, <2>1 DEF Compact_Write, Works
<1> QED
  BY <1>3, <1>4, <1>5, <1>6 DEF Compactor, Compact_Start, Compact_Lock, Compact_Renamed, Compact_Read,
     Compact_Deleted, Compact_End

\* and so does a dump.
LEMMA DumperContents ==
  ASSUME TInv, NEW d \in Dumpers, Dumper(d)
  PROVE  \A t \in Tables : (SameContents(t) /\ StillThere(t)) \/ Works(d, t)
<1>1. DataOK /\ d \notin Clients
  BY Types
<1>6.UNCHANGED metadata
  BY OthersLeaveDirs
<1>2. Holding(d) = {"create", "write"}
  BY <1>1 DEF Holding
<1>3. CASE UNCHANGED files
  BY <1>3, <1>6, SameFilesSame, SameFilesStay
<1>4. CASE Dump_Create(d)
  <2>2. \A t \in Tables : t # pc[d].table => bin'[t] = bin[t] /\ tmp'[t] = tmp[t] /\ tmpc'[t] = tmpc[t]
    BY <1>1, <1>4 DEF Dump_Create, DataOK
  <2>1. \A t \in Tables : t # pc[d].table => SameContents(t) /\ StillThere(t)
    BY <1>6, <2>2, FilesStay DEF SameContents
  <2> QED
    BY <1>2, <1>4, <2>1 DEF Dump_Create, Works
<1>5. CASE Dump_Write(d)
  <2>2. \A t \in Tables : t # pc[d].table => bin'[t] = bin[t] /\ tmp'[t] = tmp[t] /\ tmpc'[t] = tmpc[t]
    BY <1>1, <1>5 DEF Dump_Write, DataOK
  <2>1. \A t \in Tables : t # pc[d].table => SameContents(t) /\ StillThere(t)
    BY <1>6, <2>2, FilesStay DEF SameContents
  <2> QED
    BY <1>2, <1>5, <2>1 DEF Dump_Write, Works
<1> QED
  BY <1>3, <1>4, <1>5 DEF Dumper, Dump_Swap, Dump_Open, Dump_NotFound, Dump_Lock, Dump_NoSpace, Dump_End

\* While a SELECT reads no one works on its table.
LEMMA ReadersExclude ==
  ASSUME LInv, NEW c \in Clients, pc[c].at \in {"bin", "tmp", "temps", "mem"}, NEW th \in Compactors \cup Dumpers
  PROVE  ~Works(th, pc[c].table)
<1> SUFFICES ASSUME Works(th, pc[c].table) PROVE FALSE
  OBVIOUS
<1> DEFINE l == LockOf(c, pc[c].table)
           m == LockOf(th, pc[c].table)
<1>1. l \in locks /\ m \in locks
  BY DEF LInv, Holders, LocksAt, Holding, Works, Threads
<1>2. l.table = m.table /\ m.exclusive /\ l # m
  BY DEF LockOf
<1> HIDE DEF l, m
<1> QED
  BY <1>1, <1>2 DEF LInv, Exclusion

\* So a SELECT that does not go on has still read what is there.
LEMMA ReadKept ==
  ASSUME TInv, TInv', LInv, NEW c \in Clients, ReadAt(pc[c], pc[c].table, pc[c].key), pc'[c] = pc[c],
         \A t \in dirs : t \in dirs',
         \A t \in Tables : (SameContents(t) /\ StillThere(t)) \/ \E th \in Compactors \cup Dumpers : Works(th, t)
  PROVE  ReadAt(pc[c], pc[c].table, pc[c].key)'
<1>1. DataOK /\ PcOK /\ pc[c] \in ClientState /\ DataOK'
  BY Types, TypesNext DEF PcOK, StatesOK
<1>2. CASE pc[c].at \notin {"bin", "tmp", "temps"}
  BY <1>2 DEF ReadAt
<1>3. CASE pc[c].at \in {"bin", "tmp", "temps"}
  <2>1. PICK t : t = pc[c].table
    OBVIOUS
  <2>2. PICK k : k = pc[c].key
    OBVIOUS
  <2>3. t \in Tables /\ k \in Keys
    BY <1>1, <1>3, <2>1, <2>2, ClientKnows
  <2>4. SameContents(t) /\ StillThere(t)
    BY <1>3, <2>1, <2>3, ReadersExclude
  <2>5. Stored(t)' = Stored(t)
    BY <1>1, <2>3, <2>4, SameStored
  <2>6. Content(bin'[t][Part(k)]) = Content(bin[t][Part(k)])
    BY <2>3, <2>4, PartFacts DEF SameContents
  <2>7. ASSUME NEW n \in Temps PROVE Content(Named(t, n)') = Content(Named(t, n))
    <3>1. n[2] \in TmpNames
      BY DEF Temps
    <3> QED
      BY <2>4, <3>1 DEF Named, SameContents
  <2>8. \A names : names \subseteq Names(t) => names \subseteq Names(t)'
    BY <2>4 DEF StillThere
  <2>9. pc'[c].table = t /\ pc'[c].key = k /\ ReadAt(pc[c], t, k)
    BY <2>1, <2>2
  <2>10. Newest(Stored(t)', k) = Newest(Stored(t), k)
    BY <2>5
  <2>11. t \in dirs'
    BY <1>3, <2>9 DEF ReadAt
  <2>12. ReadAt(pc[c], t, k)'
    BY <1>3, <2>6, <2>7, <2>8, <2>9, <2>10, <2>11 DEF ReadAt
  <2> QED
    BY <2>1, <2>2, <2>9, <2>12
<1> QED
  BY <1>2, <1>3

\* The newest record of a key on file is in its partition, a .tmp or a .tmpc.
LEMMA StoredIsRead ==
  ASSUME DataOK, PartitionsAreMerged, NEW t \in Tables, NEW k \in Keys
  PROVE  \/ Newest(Stored(t), k) <= Newest(Content(bin[t][Part(k)]), k)
         \/ Newest(Stored(t), k) <= Newest(Contents(tmp[t]) \cup Contents(tmpc[t]), k)
<1> DEFINE inBin == Content(bin[t][Part(k)])
           inTmp == Contents(tmp[t]) \cup Contents(tmpc[t])
<1>1. bin[t] \in [Partitions -> File] /\ tmp[t] \in [TmpNames -> File] /\ tmpc[t] \in [TmpNames -> File]
  BY DEF DataOK
<1>2. inBin \in SUBSET Record
  BY <1>1, PartFacts, ContentFacts
<1>3. inTmp \in SUBSET Record
  BY <1>1, ContentsFacts
<1>4. Stored(t) \in SUBSET Record
  BY StoredIsRecords
<1>5. ASSUME NEW r \in Stored(t), r.key = k PROVE r \in inBin \/ r \in inTmp
  <2>1. CASE r \in Contents(bin[t])
    <3>1. PICK p \in Partitions : r \in Content(bin[t][p])
      BY <1>1, <2>1, ContentsFacts
    <3>2. Part(r.key) = p
      BY <3>1 DEF PartitionsAreMerged
    <3> QED
      BY <1>5, <3>1, <3>2
  <2>2. CASE r \in inTmp
    BY <2>2
  <2> QED
    BY <2>1, <2>2 DEF Stored
<1> HIDE DEF inBin, inTmp
<1>6. Newest(Stored(t), k) \in Nat /\ Newest(inBin, k) \in Nat /\ Newest(inTmp, k) \in Nat
  BY <1>2, <1>3, <1>4, NewestFacts DEF Times
<1>7. CASE Newest(Stored(t), k) = 0
  BY <1>6, <1>7 DEF inBin
<1>8. CASE Newest(Stored(t), k) # 0
  <2>1. PICK r \in Stored(t) : r.key = k /\ r.timestamp = Newest(Stored(t), k)
    BY <1>4, <1>8, NewestFacts
  <2>2. (r \in inBin => r.timestamp <= Newest(inBin, k)) /\ (r \in inTmp => r.timestamp <= Newest(inTmp, k))
    BY <1>2, <1>3, <2>1, NewestFacts
  <2> QED
    BY <1>5, <2>1, <2>2 DEF inBin, inTmp
<1> QED
  BY <1>7, <1>8

\* What a SELECT has read of all temporary files.
LEMMA TempsRead ==
  ASSUME DataOK, NEW t \in Tables, NEW k, NEW best \in Times,
         \A n \in Temps : Newest(Content(Named(t, n)), k) <= best
  PROVE  Newest(Contents(tmp[t]) \cup Contents(tmpc[t]), k) <= best
<1>1. tmp[t] \in [TmpNames -> File] /\ tmpc[t] \in [TmpNames -> File]
  BY DEF DataOK
<1> DEFINE all == Contents(tmp[t]) \cup Contents(tmpc[t])
<1>2. all \in SUBSET Record
  BY <1>1, ContentsFacts
<1>3. ASSUME NEW r \in all, r.key = k PROVE r.timestamp <= best
  <2>1. PICK n \in Temps : r \in Content(Named(t, n)) /\ Named(t, n) \in File
    <3>1. \A j \in TmpNames : <<"tmp", j>> \in Temps /\ <<"tmpc", j>> \in Temps
      BY DEF Temps
    <3>2. \A j \in TmpNames : Named(t, <<"tmp", j>>) = tmp[t][j] /\ Named(t, <<"tmpc", j>>) = tmpc[t][j]
      BY DEF Named
    <3>3. (\E j \in TmpNames : r \in Content(tmp[t][j])) \/ (\E j \in TmpNames : r \in Content(tmpc[t][j]))
      BY <1>1, ContentsFacts
    <3>4. ASSUME NEW j \in TmpNames, r \in Content(tmp[t][j])
          PROVE  \E n \in Temps : r \in Content(Named(t, n)) /\ Named(t, n) \in File
      <4>1. PICK n \in Temps : n = <<"tmp", j>>
        BY <3>1
      <4>2. Named(t, n) = tmp[t][j] /\ tmp[t][j] \in File
        BY <1>1, <3>2, <4>1
      <4> QED
        BY <3>4, <4>2
    <3>5. ASSUME NEW j \in TmpNames, r \in Content(tmpc[t][j])
          PROVE  \E n \in Temps : r \in Content(Named(t, n)) /\ Named(t, n) \in File
      <4>1. PICK n \in Temps : n = <<"tmpc", j>>
        BY <3>1
      <4>2. Named(t, n) = tmpc[t][j] /\ tmpc[t][j] \in File
        BY <1>1, <3>2, <4>1
      <4> QED
        BY <3>5, <4>2
    <3> QED
      BY <3>3, <3>4, <3>5
  <2>2. PICK these \in SUBSET Record : these = Content(Named(t, n))
    BY <2>1, ContentFacts
  <2>3. r \in these /\ Newest(these, k) <= best
    BY <2>1, <2>2
  <2>4. r.timestamp <= Newest(these, k)
    BY <1>3, <2>3, NewestFacts
  <2>5. Newest(these, k) \in Nat
    BY NewestFacts DEF Times
  <2>6. r.timestamp \in Nat
    BY <2>3, RecordFacts DEF Times
  <2> QED
    BY <2>3, <2>4, <2>5, <2>6 DEF Times
<1> HIDE DEF all
<1>4. Newest(all, k) = 0 \/ \E r \in all : r.key = k /\ r.timestamp = Newest(all, k)
  BY <1>2, NewestFacts
<1>5. Newest(all, k) <= best
  BY <1>3, <1>4 DEF Times
<1> QED
  BY <1>5 DEF all

\* The steps of a SELECT: it opens the directory,
Reading == {"lock", "bin", "tmp", "temps", "mem", "done"}
Opens(c) == \E t \in Tables, k \in Keys : Select_Open(c, t, k)
Reads(c) == \/ Select_Lock(c) \/ scanParticion(c) \/ Temporaries_Open(c) \/ temporales_get_biggest_timestamp(c)
            \/ Temporaries_Return(c) \/ memtable_get_biggest_timestamp(c)
LEMMA OpenStep == ASSUME TInv, NEW c \in Clients, Opens(c) PROVE ReadAt(pc[c], pc[c].table, pc[c].key)'
<1>1. DataOK /\ PcOK /\ c \in Threads
  BY Types DEF Threads
<1>2. PICK t \in Tables, k \in Keys : Select_Open(c, t, k)
  BY DEF Opens
<1>3. PICK p : p = [at |-> "lock", table |-> t, inode |-> inode[t], key |-> k, floor |-> Newest(acked[t], k)]
               /\ Goto(c, p)
  BY <1>2 DEF Select_Open
<1>4. pc'[c] = p /\ p.at = "lock" /\ p.table = t
  BY <1>1, <1>3, GoesOn
<1>5. t \in dirs'
  BY <1>1, <1>2 DEF Select_Open, DataOK
<1> QED
  BY <1>4, <1>5 DEF ReadAt

\* looks at the files that are there,
LEMMA TempsStep ==
  ASSUME TInv, PInv, NEW c \in Clients, ReadAt(pc[c], pc[c].table, pc[c].key),
         Temporaries_Open(c) \/ temporales_get_biggest_timestamp(c) \/ Temporaries_Return(c)
  PROVE  ReadAt(pc[c], pc[c].table, pc[c].key)'
<1>1. DataOK /\ PcOK /\ pc[c] \in ClientState /\ c \in Threads
  BY Types DEF PcOK, StatesOK, Threads
<1>2. PICK t : t = pc[c].table
  OBVIOUS
<1>3. PICK k : k = pc[c].key
  OBVIOUS
<1>4. pc[c].at \in {"tmp", "temps"} /\ UNCHANGED <<dirs, metadata, files>>
  BY DEF Temporaries_Open, temporales_get_biggest_timestamp, Temporaries_Return
<1>5. t \in Tables /\ k \in Keys /\ pc[c].stored \in Times /\ pc[c].found \in Times
  BY <1>1, <1>2, <1>3, <1>4, ClientKnows
<1>6. t \in dirs /\ pc[c].stored = Newest(Stored(t), k) /\ pc[c].found = Newest(Content(bin[t][Part(k)]), k)
  BY <1>2, <1>3, <1>4 DEF ReadAt
<1>7. Stored(t)' = Stored(t) /\ Names(t)' = Names(t) /\ Content(bin[t][Part(k)])' = Content(bin[t][Part(k)])
  BY <1>4 DEF Stored, Names, files
<1>8. \A n : Named(t, n)' = Named(t, n)
  BY <1>4 DEF Named, files
<1>9. ASSUME NEW p, Goto(c, p), p.at = "temps", p.table = t, p.key = k,
             p.stored = pc[c].stored, p.found = pc[c].found, p.names \subseteq Names(t),
             \A n \in Temps : n \in p.names \/ Newest(Content(Named(t, n)), k) <= p.best
      PROVE  ReadAt(pc[c], pc[c].table, pc[c].key)'
  <2>1. pc'[c] = p
    BY <1>1, <1>9, GoesOn
  <2>2. Newest(Stored(t)', k) = Newest(Stored(t), k)
    BY <1>7
  <2>3. ReadAt(p, t, k)'
    BY <1>4, <1>6, <1>7, <1>8, <1>9, <2>2 DEF ReadAt
  <2> QED
    BY <1>9, <2>1, <2>3
<1>10. ASSUME Temporaries_Open(c) PROVE ReadAt(pc[c], pc[c].table, pc[c].key)'
  <2>1. PICK p : p = [at |-> "temps", table |-> t, inode |-> pc[c].inode, key |-> k,
                      floor |-> pc[c].floor, stored |-> pc[c].stored, found |-> pc[c].found,
                      names |-> Names(t), best |-> 0]
    OBVIOUS
  <2>2. Goto(c, p)
    BY <1>2, <1>3, <1>6, <1>10, <2>1 DEF Temporaries_Open
  <2>3. ASSUME NEW n \in Temps, n \notin Names(t) PROVE Newest(Content(Named(t, n)), k) <= 0
    <3>1. PICK a \in {"tmp", "tmpc"}, j \in TmpNames : n = <<a, j>>
      BY DEF Temps
    <3>2. Named(t, n) = NoFile
      BY <2>3, <3>1 DEF Named, Names
    <3>3. Content(Named(t, n)) = {} /\ {} \in SUBSET Record
      BY <3>2, ContentFacts
    <3>4. Newest({}, k) = 0
      BY NewestFacts
    <3> QED
      BY <3>3, <3>4
  <2>4. /\ p.at = "temps" /\ p.table = t /\ p.key = k /\ p.stored = pc[c].stored /\ p.found = pc[c].found
        /\ p.names = Names(t) /\ p.best = 0
    BY <2>1
  <2> QED
    BY <1>9, <2>2, <2>3, <2>4
<1>11. ASSUME temporales_get_biggest_timestamp(c) PROVE ReadAt(pc[c], pc[c].table, pc[c].key)'
  <2>1. pc[c] \in [at : {"temps"}, table : Tables, inode : Nat, key : Keys, floor : Times,
                   stored : Times, found : Times, names : SUBSET Entries, best : Times]
    BY <1>1, <1>11, ClientKnows DEF temporales_get_biggest_timestamp
  <2>2. PICK m \in Temporaries(pc[c].names) :
          pc' = [pc EXCEPT ![c].names = @ \ {m},
                           ![c].best = Max({@, Newest(Content(Named(pc[c].table, m)), pc[c].key)})]
    BY <1>11 DEF temporales_get_biggest_timestamp
  <2>3. PICK best : best = Max({pc[c].best, Newest(Content(Named(t, m)), k)})
    OBVIOUS
  <2>4. PICK names : names = pc[c].names \ {m}
    OBVIOUS
  <2>5. PICK p : p = [pc[c] EXCEPT !.names = names, !.best = best]
    OBVIOUS
  <2>6. Goto(c, p)
    BY <1>2, <1>3, <2>2, <2>3, <2>4, <2>5 DEF Goto
  <2>7. /\ p.at = "temps" /\ p.table = t /\ p.key = k /\ p.stored = pc[c].stored /\ p.found = pc[c].found
        /\ p.names = names /\ p.best = best
    BY <1>2, <1>3, <2>1, <2>5
  <2>8. pc[c].names \in SUBSET Entries /\ pc[c].best \in Times /\ pc[c].at = "temps"
    BY <2>1
  <2>9. Content(Named(t, m)) \in SUBSET Record
    BY <1>1, <1>5, <2>2, <2>8, NamedFacts
  <2>10. Newest(Content(Named(t, m)), k) \in Times
    BY <2>9, NewestFacts
  <2>11. best \in Times /\ best >= pc[c].best /\ best >= Newest(Content(Named(t, m)), k)
    BY <2>3, <2>8, <2>10, MaxOfTwo
  <2>12. names \subseteq Names(t)
    BY <1>2, <2>4, <2>8 DEF ReadAt
  <2>13. ASSUME NEW n \in Temps PROVE n \in names \/ Newest(Content(Named(t, n)), k) <= best
    <3>1. CASE n = m
      BY <2>10, <2>11, <3>1 DEF Times
    <3>2. CASE n # m
      <4>1. n \in pc[c].names \/ Newest(Content(Named(t, n)), k) <= pc[c].best
        BY <1>2, <1>3, <2>8 DEF ReadAt
      <4>2. Content(Named(t, n)) \in SUBSET Record
        <5>1. n[2] \in TmpNames
          BY DEF Temps
        <5>2. Named(t, n) \in File
          BY <1>1, <1>5, <5>1 DEF Named, DataOK
        <5> QED
          BY <5>2, ContentFacts
      <4>3. Newest(Content(Named(t, n)), k) \in Times
        BY <4>2, NewestFacts
      <4> QED
        BY <2>4, <2>8, <2>11, <3>2, <4>1, <4>3 DEF Times
    <3> QED
      BY <3>1, <3>2
  <2> QED
    BY <1>9, <2>6, <2>7, <2>12, <2>13
<1>12. ASSUME Temporaries_Return(c) PROVE ReadAt(pc[c], pc[c].table, pc[c].key)'
  <2>1. pc[c] \in [at : {"temps"}, table : Tables, inode : Nat, key : Keys, floor : Times,
                   stored : Times, found : Times, names : SUBSET Entries, best : Times]
    BY <1>1, <1>12, ClientKnows DEF Temporaries_Return
  <2>2. pc[c].names \in SUBSET Entries /\ pc[c].best \in Times /\ pc[c].at = "temps"
    BY <2>1
  <2>3. pc[c].names \ Names(pc[c].table) = {}
    BY <1>2, <2>2 DEF ReadAt
  <2>4. PICK found : found = Max({pc[c].found, pc[c].best})
    OBVIOUS
  <2>5. PICK p : p = [at |-> "mem", table |-> pc[c].table, inode |-> pc[c].inode, key |-> pc[c].key,
                      floor |-> pc[c].floor, stored |-> pc[c].stored, found |-> found]
    OBVIOUS
  <2>6. Goto(c, p) /\ Temporaries(pc[c].names) = {}
    BY <1>12, <2>3, <2>4, <2>5 DEF Temporaries_Return
  <2>7. p.at = "mem" /\ p.stored = pc[c].stored /\ p.found = found
    BY <2>5
  <2>8. ASSUME NEW n \in Temps PROVE Newest(Content(Named(t, n)), k) <= pc[c].best
    <3>1. n \notin pc[c].names
      BY <2>6 DEF Temporaries, Temps
    <3> QED
      BY <1>2, <1>3, <2>2, <3>1 DEF ReadAt
  <2>9. Newest(Contents(tmp[t]) \cup Contents(tmpc[t]), k) <= pc[c].best
    BY <1>1, <1>5, <2>2, <2>8, TempsRead
  <2>10. pc[c].stored <= pc[c].found \/ pc[c].stored <= Newest(Contents(tmp[t]) \cup Contents(tmpc[t]), k)
    BY <1>1, <1>5, <1>6, StoredIsRead DEF PInv
  <2>11. found \in Times /\ found >= pc[c].found /\ found >= pc[c].best
    BY <1>5, <2>2, <2>4, MaxOfTwo
  <2>12. Newest(Contents(tmp[t]) \cup Contents(tmpc[t]), k) \in Times
    <3>1. tmp[t] \in [TmpNames -> File] /\ tmpc[t] \in [TmpNames -> File]
      BY <1>1, <1>5 DEF DataOK
    <3>2. Contents(tmp[t]) \cup Contents(tmpc[t]) \in SUBSET Record
      BY <3>1, ContentsFacts
    <3> QED
      BY <3>2, NewestFacts
  <2>13. p.found >= p.stored
    BY <1>5, <2>2, <2>7, <2>9, <2>10, <2>11, <2>12 DEF Times
  <2>14. pc'[c] = p
    BY <1>1, <2>6, GoesOn
  <2> QED
    BY <2>7, <2>13, <2>14 DEF ReadAt
<1> QED
  BY <1>10, <1>11, <1>12

\* and at the memtable.
LEMMA ReadStep ==
  ASSUME TInv, PInv, NEW c \in Clients, ReadAt(pc[c], pc[c].table, pc[c].key), Reads(c)
  PROVE  ReadAt(pc[c], pc[c].table, pc[c].key)'
<1>1. DataOK /\ PcOK /\ pc[c] \in ClientState /\ c \in Threads
  BY Types DEF PcOK, StatesOK, Threads
<1>2. ASSUME Select_Lock(c) PROVE ReadAt(pc[c], pc[c].table, pc[c].key)'
  <2>1. PICK p : p = [at |-> "bin", table |-> pc[c].table, inode |-> pc[c].inode, key |-> pc[c].key,
                      floor |-> pc[c].floor, stored |-> Newest(Stored(pc[c].table), pc[c].key)]
                 /\ Goto(c, p)
    BY <1>2 DEF Select_Lock
  <2>2. pc'[c] = p
    BY <1>1, <2>1, GoesOn
  <2>3. p.at = "bin" /\ p.table = pc[c].table /\ p.key = pc[c].key /\ p.stored = Newest(Stored(pc[c].table), pc[c].key)
    BY <2>1
  <2>4. UNCHANGED <<dirs, files>> /\ pc[c].at = "lock"
    BY <1>2 DEF Select_Lock
  <2> QED
    BY <2>2, <2>3, <2>4 DEF ReadAt, Stored, files
<1>3. ASSUME scanParticion(c) PROVE ReadAt(pc[c], pc[c].table, pc[c].key)'
  <2>1. PICK p : p = [at |-> "tmp", table |-> pc[c].table, inode |-> pc[c].inode, key |-> pc[c].key,
                      floor |-> pc[c].floor, stored |-> pc[c].stored,
                      found |-> Newest(Content(bin[pc[c].table][Part(pc[c].key)]), pc[c].key)]
                 /\ Goto(c, p)
    BY <1>3 DEF scanParticion
  <2>2. pc'[c] = p
    BY <1>1, <2>1, GoesOn
  <2>3. p.at = "tmp" /\ p.table = pc[c].table /\ p.key = pc[c].key /\ p.stored = pc[c].stored
        /\ p.found = Newest(Content(bin[pc[c].table][Part(pc[c].key)]), pc[c].key)
    BY <2>1
  <2>4. UNCHANGED <<dirs, files>> /\ pc[c].at = "bin"
    BY <1>3 DEF scanParticion
  <2>5. p.stored = Newest(Stored(pc[c].table), pc[c].key) /\ pc[c].table \in dirs
    BY <2>3, <2>4 DEF ReadAt
  <2> QED
    BY <2>2, <2>3, <2>4, <2>5 DEF ReadAt, Stored, files
<1>4. ASSUME memtable_get_biggest_timestamp(c) PROVE ReadAt(pc[c], pc[c].table, pc[c].key)'
  <2>1. pc[c].at = "mem"
    BY <1>4 DEF memtable_get_biggest_timestamp
  <2>2. pc[c] \in [at : {"tmp", "mem", "done"}, table : Tables, inode : Nat, key : Keys, floor : Times,
                   stored : Times, found : Times]
    BY <1>1, <2>1, ClientKnows
  <2>3. PICK newest : newest = Newest(memtable[pc[c].table], pc[c].key)
    OBVIOUS
  <2>4. PICK p : p = [pc[c] EXCEPT !.at = "done", !.found = Max({pc[c].found, newest})]
    OBVIOUS
  <2>5. Goto(c, p)
    BY <1>4, <2>3, <2>4 DEF memtable_get_biggest_timestamp, Goto
  <2>6. p.at = "done" /\ p.stored = pc[c].stored /\ p.found = Max({pc[c].found, newest})
    BY <2>2, <2>4
  <2>7. memtable[pc[c].table] \in SUBSET Record
    BY <1>1, <2>2 DEF DataOK
  <2>8. newest \in Times /\ pc[c].found \in Times /\ pc[c].stored \in Times
    BY <2>2, <2>3, <2>7, NewestFacts
  <2>9. p.found \in Times /\ p.found >= pc[c].found
    BY <2>6, <2>8, MaxOfTwo
  <2>10. pc[c].found >= pc[c].stored
    BY <2>1 DEF ReadAt
  <2>11. p.found >= p.stored
    BY <2>6, <2>8, <2>9, <2>10 DEF Times
  <2>12. pc'[c] = p
    BY <1>1, <2>5, GoesOn
  <2> QED
    BY <2>6, <2>11, <2>12 DEF ReadAt
<1> QED
  BY <1>2, <1>3, <1>4, TempsStep DEF Reads

\* any other step leaves a client that reads nothing,
LEMMA OtherStep ==
  ASSUME TInv, NEW c \in Clients, Client(c),
         ~(Opens(c) \/ Reads(c))
  PROVE  pc'[c].at \notin Reading
<1>1. PcOK /\ pc[c] \in ClientState /\ c \in Threads
  BY Types DEF PcOK, StatesOK, Threads
<1>2. ASSUME NEW p, Goto(c, p), p.at \notin Reading
      PROVE  pc'[c].at \notin Reading
  BY <1>1, <1>2, GoesOn
<1>3. ASSUME NEW t \in Tables, NEW k \in Keys, Insert_Check(c, t, k)
      PROVE  pc'[c].at \notin Reading
  BY <1>2, <1>3 DEF Insert_Check, Reading
<1>4. ASSUME NEW t \in Tables, Create_Check(c, t) \/ Drop_Check(c, t)
      PROVE  pc'[c].at \notin Reading
  BY <1>2, <1>4 DEF Create_Check, Drop_Check, Reading
<1>5. ASSUME memtable_new_elem(c) \/ Select_Return(c) \/ Describe_End(c) \/ Drop_Dir(c)
      PROVE  pc'[c].at \notin Reading
  <2>1. Goto(c, [at |-> "idle"])
    BY <1>5 DEF memtable_new_elem, Select_Return, Describe_End, Drop_Dir
  <2> QED
    BY <1>2, <2>1 DEF Reading
<1>6. ASSUME Describe_Tables(c) \/ Describe_Open(c) \/ traverse(c)
      PROVE  pc'[c].at \notin Reading
  BY <1>2, <1>6 DEF Describe_Tables, Describe_Open, traverse, Reading
<1>7. ASSUME NEW step \in {"metadata", "cancel"}, pc[c].at \in {"mkdir", "memtable"}, Step(c, step)
      PROVE  pc'[c].at \notin Reading
  <2>1. pc[c] \in [at : {"mkdir", "metadata", "compactor", "memtable", "cancel", "list"}, table : Tables]
    BY <1>1, <1>7, ClientKnows
  <2>2. [pc[c] EXCEPT !.at = step].at = step
    BY <2>1
  <2>3. Goto(c, [pc[c] EXCEPT !.at = step])
    BY <1>1, <1>7, GoesAt
  <2> QED
    BY <1>2, <2>2, <2>3 DEF Reading
<1>8. ASSUME Create_Dir(c) \/ memtable_delete_table(c) PROVE pc'[c].at \notin Reading
  BY <1>7, <1>8 DEF Create_Dir, memtable_delete_table
<1>12. ASSUME Create_Metadata(c) \/ Create_NoSpace(c) \/ Drop_Open(c) PROVE pc'[c].at \notin Reading
  <2>1. PICK p : Goto(c, p) /\ p.at \in {"idle", "bins", "memtable", "delete"}
    BY <1>12 DEF Create_Metadata, Create_NoSpace, Drop_Open
  <2> QED
    BY <1>2, <2>1 DEF Reading
<1>13. ASSUME Create_Bins(c) \/ traverse_to_drop(c) PROVE pc'[c].at \notin Reading
  <2>1. PICK p : Goto(c, p) /\ p.at \in {"bins", "compactor", "delete"}
    BY <1>13, CreateOne, DropOne
  <2> QED
    BY <1>2, <2>1 DEF Reading
<1>9. ASSUME agregarTablaCompactador(c) PROVE pc'[c].at \notin Reading
  <2>1. PICK x \in Compactors :
          pc' = [pc EXCEPT ![c] = [at |-> "idle"], ![x] = [at |-> "sleep", table |-> pc[c].table]]
    BY <1>9 DEF agregarTablaCompactador
  <2>2. pc'[c] = [at |-> "idle"]
    BY <1>1, <2>1 DEF PcOK, Threads
  <2> QED
    BY <2>2 DEF Reading
<1>10. ASSUME quitarTablaCompactador(c) PROVE pc'[c].at \notin Reading
  <2>1. pc[c] \in [at : {"mkdir", "metadata", "compactor", "memtable", "cancel", "list"}, table : Tables]
    BY <1>1, <1>10, ClientKnows DEF quitarTablaCompactador
  <2>2. pc'[c] = [pc[c] EXCEPT !.at = "list"]
    BY <1>1, <1>10 DEF quitarTablaCompactador
  <2>3. pc'[c].at = "list"
    BY <2>1, <2>2
  <2> QED
    BY <2>3 DEF Reading
<1>11. ASSUME Describe_Segfault(c) PROVE pc'[c].at \notin Reading
  <2>1. pc'[c] = [at |-> "down"]
    BY <1>1, <1>11 DEF Describe_Segfault, Die
  <2> QED
    BY <2>1 DEF Reading
<1> QED
  BY <1>3, <1>4, <1>5, <1>6, <1>8, <1>9, <1>10, <1>11, <1>12, <1>13 DEF Client, Opens, Reads

\* A step of a thread leaves the other clients where they are, unless the process ends.
LEMMA OthersStay ==
  ASSUME TInv, NEW th \in Threads, NEW e \in Clients, e # th,
         \/ th \in Clients /\ Client(th)
         \/ th \in Compactors /\ Compactor(th)
         \/ th \in Dumpers /\ Dumper(th)
  PROVE  pc'[e] = pc[e] \/ Die
<1>1. DataOK /\ PcOK /\ e \in Threads
  BY Types DEF Threads
<1>2. CASE \E p : Goto(th, p)
  BY <1>1, <1>2, GoesOn
<1>3. CASE th \in Clients /\ Client(th)
  <2>1. CASE agregarTablaCompactador(th)
    <3>1. PICK x \in Compactors :
            pc' = [pc EXCEPT ![th] = [at |-> "idle"], ![x] = [at |-> "sleep", table |-> pc[th].table]]
      BY <2>1 DEF agregarTablaCompactador
    <3> QED
      BY <1>1, <3>1 DEF PcOK
  <2>2. CASE quitarTablaCompactador(th)
    <3>1. pc[th].table \in Tables
      BY <1>1, <1>3, <2>2, ClientKnows DEF quitarTablaCompactador, PcOK, StatesOK
    <3>2. registered[pc[th].table] # e
      BY <1>1, <3>1 DEF DataOK
    <3> QED
      BY <1>1, <2>2, <3>2 DEF quitarTablaCompactador
  <2>3. CASE Describe_Segfault(th)
    BY <2>3 DEF Describe_Segfault
  <2> QED
    BY <1>2, <1>3, <2>1, <2>2, <2>3, ClientGoesOn
<1>4. CASE th \in Compactors /\ Compactor(th)
  <2>1. pc' = pc \/ \E p : Goto(th, p)
    BY <1>1, <1>4, GoesAt DEF Compactor, Compact_Start, Compact_Lock, _convertirATmpc, Compact_Renamed, Compact_Read,
       _borrarTmpc, Compact_Deleted, Compact_Write, Compact_End, Goto
  <2> QED
    BY <1>2, <2>1
<1>5. CASE th \in Dumpers /\ Dumper(th)
  <2>1. pc' = pc \/ \E p : Goto(th, p)
    BY <1>1, <1>5, GoesAt DEF Dumper, Dump_Swap, Dump_Open, Dump_NotFound, Dump_Lock, Dump_NoSpace, Dump_Create,
       Dump_Write, Dump_End
  <2> QED
    BY <1>2, <2>1
<1> QED
  BY <1>3, <1>4, <1>5

\* A client of a process that ended has read nothing.
LEMMA DownReads == ASSUME NEW c \in Clients, Die PROVE ReadAt(pc[c], pc[c].table, pc[c].key)'
<1>1. pc'[c] = [at |-> "down"]
  BY DEF Die, Threads
<1>2. pc'[c].at = "down"
  BY <1>1
<1> QED
  BY <1>2 DEF ReadAt

\* Every step keeps what the SELECTs have read,
LEMMA NextReads ==
  ASSUME NoDrops
  PROVE  TInv /\ TInv' /\ PInv /\ LInv /\ ReadsSoFar /\ [Next]_vars => ReadsSoFar'
<1> SUFFICES ASSUME TInv, TInv', PInv, LInv, ReadsSoFar, [Next]_vars, NEW c \in Clients
             PROVE  ReadAt(pc[c], pc[c].table, pc[c].key)'
  BY DEF ReadsSoFar
<1>1. ReadAt(pc[c], pc[c].table, pc[c].key)
  BY DEF ReadsSoFar
<1>2. CASE UNCHANGED vars
  <2>1. UNCHANGED <<dirs, metadata, files>> /\ pc'[c] = pc[c]
    BY <1>2 DEF vars
  <2> QED
    BY <1>1, <2>1, SameFilesSame, SameFilesStay, ReadKept
<1>3. CASE Die
  BY <1>3, DownReads
<1>4. ASSUME NEW th \in Threads, c # th,
             \/ th \in Clients /\ Client(th)
             \/ th \in Compactors /\ Compactor(th)
             \/ th \in Dumpers /\ Dumper(th)
      PROVE  ReadAt(pc[c], pc[c].table, pc[c].key)'
  <2>1. pc'[c] = pc[c] \/ Die
    BY <1>4, OthersStay
  <2>2. \A t \in Tables : (SameContents(t) /\ StillThere(t)) \/ \E u \in Compactors \cup Dumpers : Works(u, t)
    BY <1>4, ClientContents, CompactorContents, DumperContents
  <2>4. \A t \in dirs : t \in dirs'
    BY <1>4, DirsStay, OthersLeaveDirs
  <2>3. CASE pc'[c] = pc[c]
    BY <1>1, <2>2, <2>3, <2>4, ReadKept
  <2> QED
    BY <1>3, <2>1, <2>3
<1>5. CASE Client(c)
  <2>1. CASE Opens(c)
    BY <2>1, OpenStep
  <2>2. CASE Reads(c)
    BY <1>1, <2>2, ReadStep
  <2>3. CASE ~(Opens(c) \/ Reads(c))
    <3>1. pc'[c].at \notin Reading
      BY <1>5, <2>3, OtherStep
    <3> QED
      BY <3>1 DEF ReadAt, Reading
  <2> QED
    BY <2>1, <2>2, <2>3
<1>6. CASE iniciarFileSystem
  <2>1. c \in Threads /\ c \notin Compactors
    BY DEF Threads
  <2>2. pc'[c] = [at |-> "idle"]
    BY <1>6, <2>1 DEF iniciarFileSystem
  <2>3. pc'[c].at = "idle"
    BY <2>2
  <2> QED
    BY <2>3 DEF ReadAt
<1>7. Crash \/ (\E th \in Threads : Segfault(th)) => Die
  BY DEF Crash, Segfault
<1>8. ASSUME NEW d \in Clients, Client(d) PROVE ReadAt(pc[c], pc[c].table, pc[c].key)'
  BY <1>4, <1>5, <1>8 DEF Threads
<1>9. ASSUME NEW x \in Compactors, Compactor(x) PROVE ReadAt(pc[c], pc[c].table, pc[c].key)'
  BY <1>4, <1>9 DEF Threads
<1>10. ASSUME NEW d \in Dumpers, Dumper(d) PROVE ReadAt(pc[c], pc[c].table, pc[c].key)'
  BY <1>4, <1>10 DEF Threads
<1> QED
  BY <1>2, <1>3, <1>6, <1>7, <1>8, <1>9, <1>10 DEF Next

\* and at first nobody reads.
LEMMA InitReads == Init => ReadsSoFar
<1> SUFFICES ASSUME Init, NEW c \in Clients PROVE ReadAt(pc[c], pc[c].table, pc[c].key)
  BY DEF ReadsSoFar
<1>1. pc[c] = [at |-> "down"]
  BY DEF Init, Threads
<1>2. pc[c].at = "down"
  BY <1>1
<1> QED
  BY <1>2 DEF ReadAt

\* When no table is dropped, a SELECT finds a record at least as new as any on file when it got
\* its lock, whatever dumps and compactions do meanwhile.
THEOREM LFSSelectIsNotStale == ASSUME NoDrops PROVE Spec => []SelectIsNotStale
<1>1. ReadsSoFar => SelectIsNotStale
  BY DEF ReadsSoFar, ReadAt, SelectIsNotStale
<1>2. Init => TInv /\ PInv /\ LInv /\ ReadsSoFar
  BY InitTypes, InitPInv, InitLInv, InitReads
<1>3. (TInv /\ PInv /\ LInv /\ ReadsSoFar) /\ [Next]_vars => (TInv /\ PInv /\ LInv /\ ReadsSoFar)'
  BY NextTInv, NextPInv, NextLInv, NextReads
<1> QED
  BY <1>1, <1>2, <1>3, PTL DEF Spec

-----------------------------------------------------------------------------
(***************************************************************************)
(* Where the records are.                                                  *)
(***************************************************************************)
\* The records in the hands of the compactors of a table,
LEMMA InTransitFacts ==
  \A t : \A r : r \in InTransit(t) <=>
    \E x \in Compactors : /\ pc[x].at \in Compacting /\ pc[x].table = t
                          /\ r \in pc[x].merged /\ Part(r.key) \in pc[x].unwritten
BY DEF InTransit, Compacting

\* after a step too,
LEMMA InTransitNext ==
  \A t : \A r : r \in InTransit(t)' <=>
    \E x \in Compactors : /\ pc'[x].at \in Compacting /\ pc'[x].table = t
                          /\ r \in pc'[x].merged /\ Part(r.key) \in pc'[x].unwritten
BY DEF InTransit, Compacting

\* and those in the hands of the dumps.
LEMMA DumpingFacts ==
  /\ \A t : \A r : r \in Dumping(t) <=> \E d \in Dumpers : r \in old[d][t]
  /\ \A t : \A r : r \in Dumping(t)' <=> \E d \in Dumpers : r \in old'[d][t]
BY DEF Dumping

HeldAreRecords == \A t \in Tables : Held(t) \subseteq Record

\* What is held are records,
LEMMA HeldTypes == TInv => HeldAreRecords
<1> SUFFICES ASSUME TInv, NEW t \in Tables PROVE Held(t) \subseteq Record
  BY DEF HeldAreRecords
<1>1. DataOK /\ PcOK
  BY Types
<1>2. memtable[t] \subseteq Record /\ Stored(t) \subseteq Record
  BY <1>1, StoredIsRecords DEF DataOK
<1>3. Dumping(t) \subseteq Record
  BY <1>1, DumpingFacts DEF DataOK
<1>4. InTransit(t) \subseteq Record
  <2>1. \A x \in Compactors : pc[x].at \in Compacting => pc[x].merged \subseteq Record
    BY <1>1, CompactorKnows DEF PcOK, StatesOK, Compacting
  <2> QED
    BY <2>1, InTransitFacts
<1> QED
  BY <1>2, <1>3, <1>4 DEF Held

\* after a step too.
LEMMA HeldTypesNext == TInv' => HeldAreRecords'
BY HeldTypes, PTL

\* What is held is held after a step, or something as new.
LEMMA NothingLost ==
  ASSUME TInv, TInv', NoRecordLost,
         \A t \in Tables : \A r \in Held(t) : \E s \in Held(t)' : s.key = r.key /\ s.timestamp >= r.timestamp,
         \A t \in Tables : \A r \in acked'[t] : r \in acked[t] \/ r \in Held(t)'
  PROVE  NoRecordLost'
<1> SUFFICES ASSUME NEW t \in Tables, NEW r \in acked'[t]
             PROVE  \E s \in Held(t)' : s.key = r.key /\ s.timestamp >= r.timestamp
  BY DEF NoRecordLost, Held
<1>1. Held(t) \subseteq Record /\ Held(t)' \subseteq Record
  BY HeldTypes, HeldTypesNext DEF HeldAreRecords
<1>2. r \in Record
  BY TypesNext DEF DataOK
<1>3. CASE r \in acked[t]
  <2>1. PICK s \in Held(t) : s.key = r.key /\ s.timestamp >= r.timestamp
    BY <1>3 DEF NoRecordLost, Held
  <2>2. PICK u \in Held(t)' : u.key = s.key /\ u.timestamp >= s.timestamp
    BY <2>1
  <2>3. u.timestamp \in Nat /\ s.timestamp \in Nat /\ r.timestamp \in Nat
    BY <1>1, <1>2, <2>1, <2>2, RecordFacts DEF Times
  <2>4. u.timestamp >= r.timestamp
    BY <2>1, <2>2, <2>3
  <2> QED
    BY <2>1, <2>2, <2>4
<1>4. CASE r \in Held(t)'
  <2>1. r.timestamp \in Nat
    BY <1>2, RecordFacts DEF Times
  <2>2. r.timestamp >= r.timestamp
    BY <2>1
  <2> QED
    BY <1>4, <2>2
<1> QED
  BY <1>3, <1>4

\* A step that keeps all that is held loses nothing.
LEMMA AllHeld ==
  ASSUME TInv, TInv', NoRecordLost, \A t \in Tables : Held(t) \subseteq Held(t)',
         \A t \in Tables : \A r \in acked'[t] : r \in acked[t] \/ r \in Held(t)'
  PROVE  NoRecordLost'
<1>1. \A t \in Tables : \A r \in Held(t) : r.timestamp \in Nat
  BY HeldTypes, RecordFacts DEF HeldAreRecords, Times
<1>2. \A t \in Tables : \A r \in Held(t) : r.timestamp >= r.timestamp
  BY <1>1
<1>3. \A t \in Tables : \A r \in Held(t) : \E s \in Held(t)' : s.key = r.key /\ s.timestamp >= r.timestamp
  BY <1>2
<1> QED
  BY <1>3, NothingLost

-----------------------------------------------------------------------------
(***************************************************************************)
(* What steps keep.                                                        *)
(***************************************************************************)
SameTransit == \A x \in Compactors : pc'[x] = pc[x] \/ (pc[x].at \notin Compacting /\ pc'[x].at \notin Compacting)

\* Nothing that is in transit changes when no compaction does.
LEMMA TransitKept == SameTransit => \A t : InTransit(t)' = InTransit(t)
<1> SUFFICES ASSUME SameTransit, NEW t PROVE InTransit(t)' = InTransit(t)
  OBVIOUS
<1>1. \A r : r \in InTransit(t)' <=> r \in InTransit(t)
  BY InTransitFacts, InTransitNext DEF SameTransit
<1> QED
  BY <1>1

\* A compaction stays whole when neither it nor its table's files change,
LEMMA CompactionsKept ==
  ASSUME TInv, CompactionsAreWhole, tmpc' = tmpc,
         \A x \in Compactors : pc[x].at = "rename" => tmp'[pc[x].table] = tmp[pc[x].table],
         \A t \in Tables, p \in Partitions : Content(bin'[t][p]) = Content(bin[t][p]),
         \A x \in Compactors : pc'[x] = pc[x] \/ (/\ pc[x].at \notin {"rename", "read", "lock2", "delete"}
                                                  /\ pc'[x].at \notin Compacting \cup {"rename"})
  PROVE  CompactionsAreWhole'
<1>1. DataOK /\ PcOK
  BY Types
<1>2. TmpcAreRead'
  BY DEF CompactionsAreWhole, TmpcAreRead
<1>3. ASSUME NEW x \in Compactors PROVE (RenamesAt(pc[x]) /\ CompactionAt(pc[x]))'
  <2>1. CASE pc'[x] = pc[x]
    <3>1. CASE pc[x].at \in Compacting
      <4>1. pc[x].table \in Tables /\ pc[x].unwritten \subseteq Partitions
        BY <1>1, <3>1, CompactorKnows DEF PcOK, StatesOK, Compacting
      <4> QED
        BY <2>1, <4>1 DEF CompactionsAreWhole, RenamesAt, Compacting, CompactionAt
    <3>2. CASE pc[x].at \notin Compacting
      BY <2>1, <3>2 DEF CompactionsAreWhole, RenamesAt, CompactionAt, Compacting
    <3> QED
      BY <3>1, <3>2
  <2>2. CASE pc'[x].at \notin Compacting \cup {"rename"}
    BY <2>2 DEF RenamesAt, CompactionAt, Compacting
  <2> QED
    BY <2>1, <2>2
<1> QED
  BY <1>2, <1>3 DEF CompactionsAreWhole

\* and so does a dump.
LEMMA DumpsKept ==
  ASSUME DumpsAreWhole, dirs \subseteq dirs', old' = old,
         \A d \in Dumpers : /\ pc'[d] = pc[d]
                            /\ pc[d].at = "write" => tmp'[pc[d].table][pc[d].name] = tmp[pc[d].table][pc[d].name]
  PROVE  DumpsAreWhole'
<1> SUFFICES ASSUME NEW d \in Dumpers PROVE DumpAt(pc[d], old[d])'
  BY DEF DumpsAreWhole
<1> QED
  BY DEF DumpsAreWhole, DumpAt

\* A step that brings a table makes its partitions, and goes on until they are there.
LEMMA BinsKept ==
  ASSUME BinsExist,
         \A t \in dirs' : t \in dirs \/ \E c \in Clients : pc'[c].at = "metadata" /\ pc'[c].table = t,
         \A t \in dirs, q \in Partitions : bin[t][q] # NoFile => bin'[t][q] # NoFile,
         \A c \in Clients, t \in dirs, q \in Partitions :
           Makes(pc[c], t, q) => Makes(pc'[c], t, q) \/ bin'[t][q] # NoFile
  PROVE  BinsExist'
<1> SUFFICES ASSUME NEW t \in dirs', NEW q \in Partitions
             PROVE  bin'[t][q] # NoFile \/ \E c \in Clients : Makes(pc'[c], t, q)
  BY DEF BinsExist, Makes
<1>1. CASE t \in dirs
  <2>1. CASE bin[t][q] # NoFile
    BY <1>1, <2>1
  <2>2. CASE \E c \in Clients : Makes(pc[c], t, q)
    BY <1>1, <2>2
  <2> QED
    BY <1>1, <2>1, <2>2 DEF BinsExist
<1>2. CASE t \notin dirs
  BY <1>2 DEF Makes
<1> QED
  BY <1>1, <1>2

\* A client takes nothing from where it is.
LEMMA ClientKeeps ==
  ASSUME TInv, TInv', NInv,
         \A d \in Dumpers : pc'[d] = pc[d],
         \A x \in Compactors : pc'[x] = pc[x] \/ (pc[x].at = "none" /\ pc'[x].at = "sleep"),
         \A c \in Clients : pc'[c].at \notin {"tables", "entries"} /\ (pc'[c].at = "insert" => pc'[c].table \in dirs'),
         dirs \subseteq dirs', UNCHANGED <<old, tmp, tmpc>>, BinsExist',
         \A t \in Tables, p \in Partitions : Content(bin'[t][p]) = Content(bin[t][p]),
         \A t \in Tables : memtable[t] \subseteq memtable'[t] /\ (memtable'[t] # {} => t \in dirs'),
         \A t \in Tables : \A r \in acked'[t] : r \in acked[t] \/ r \in memtable'[t]
  PROVE  NInv'
<1>1. DataOK /\ DataOK'
  BY Types, TypesNext
<1>2. NobodyDescribes'
  BY DEF NobodyDescribes
<1>3. RecordsHaveTables'
  BY DEF NInv, RecordsHaveTables
<1>4. DumpsAreWhole'
  BY DumpsKept DEF NInv
<1>5. CompactionsAreWhole'
  BY CompactionsKept DEF NInv, Compacting
<1>6. \A t : InTransit(t)' = InTransit(t)
  <2>1. SameTransit
    BY DEF SameTransit, Compacting
  <2> QED
    BY <2>1, TransitKept
<1>7. \A t \in Tables : Stored(t)' = Stored(t)
  BY <1>1, SameStored DEF SameContents
<1>8. \A t : Dumping(t)' = Dumping(t)
  BY DEF Dumping
<1>9. \A t \in Tables : Held(t) \subseteq Held(t)' /\ memtable'[t] \subseteq Held(t)'
  BY <1>6, <1>7, <1>8 DEF Held
<1>10. NoRecordLost'
  BY <1>9, AllHeld DEF NInv
<1> QED
  BY <1>2, <1>3, <1>4, <1>5, <1>10 DEF NInv

\* A client that goes on and changes no file.
LEMMA ClientGoesKeeps ==
  ASSUME TInv, TInv', NInv, NEW c \in Clients, NEW p, Goto(c, p), UNCHANGED <<dirs, files, old>>,
         p.at \in {"idle", "insert", "lock", "bin", "tmp", "temps", "mem", "done", "mkdir"},
         pc[c].at \notin {"metadata", "bins"},
         p.at = "insert" => p.table \in dirs,
         \A t \in Tables : memtable[t] \subseteq memtable'[t] /\ (memtable'[t] # {} => t \in dirs),
         \A t \in Tables : \A r \in acked'[t] : r \in acked[t] \/ r \in memtable'[t]
  PROVE  NInv'
<1>1. PcOK /\ c \in Threads /\ c \notin Dumpers /\ c \notin Compactors
  BY Types DEF Threads
<1>2. pc'[c] = p /\ \A u \in Threads : u # c => pc'[u] = pc[u]
  BY <1>1, GoesOn
<1>3. BinsExist'
  BY <1>2, BinsKept DEF NInv, files, Threads, Makes
<1>4. \A e \in Clients : pc'[e].at \notin {"tables", "entries"} /\ (pc'[e].at = "insert" => pc'[e].table \in dirs')
  BY <1>2 DEF NInv, NobodyDescribes, RecordsHaveTables, Threads
<1>5. /\ \A d \in Dumpers : pc'[d] = pc[d]
      /\ \A x \in Compactors : pc'[x] = pc[x]
  BY <1>1, <1>2 DEF Threads
<1> QED
  BY <1>3, <1>4, <1>5, ClientKeeps DEF files

\* An INSERT brings its record into the memtable of a table that is there,
LEMMA InsertKeeps ==
  ASSUME TInv, TInv', NInv, NEW c \in Clients,
         (\E t \in Tables, k \in Keys : Insert_Check(c, t, k)) \/ memtable_new_elem(c)
  PROVE  NInv'
<1>1. DataOK /\ PcOK /\ pc[c] \in ClientState
  BY Types DEF PcOK, StatesOK
<1>2. \A t \in Tables : memtable[t] # {} => t \in dirs
  BY DEF NInv, RecordsHaveTables
<1>3. ASSUME NEW t \in Tables, NEW k \in Keys, Insert_Check(c, t, k) PROVE NInv'
  <2>1. PICK p : p = [at |-> "insert", table |-> t, record |-> [key |-> k, timestamp |-> clock + 1]] /\ Goto(c, p)
    BY <1>3 DEF Insert_Check
  <2>2. p.at = "insert" /\ p.table \in dirs
    BY <1>3, <2>1 DEF Insert_Check
  <2>3. UNCHANGED <<dirs, files, old, memtable, acked>> /\ pc[c].at \notin {"metadata", "bins"}
    BY <1>3 DEF Insert_Check
  <2> QED
    BY <1>2, <2>1, <2>2, <2>3, ClientGoesKeeps
<1>4. ASSUME memtable_new_elem(c) PROVE NInv'
  <2>1. PICK p : p = [at |-> "idle"] /\ Goto(c, p)
    BY <1>4 DEF memtable_new_elem
  <2>2. p.at = "idle"
    BY <2>1
  <2>3. UNCHANGED <<dirs, files, old>> /\ pc[c].at = "insert"
    BY <1>4 DEF memtable_new_elem
  <2>4. pc[c].table \in dirs
    BY <2>3 DEF NInv, RecordsHaveTables
  <2>5. \A t \in Tables : memtable'[t] = IF t = pc[c].table THEN memtable[t] \cup {pc[c].record} ELSE memtable[t]
    BY <1>1, <1>4 DEF memtable_new_elem, DataOK
  <2>6. \A t \in Tables : acked'[t] = IF t = pc[c].table THEN acked[t] \cup {pc[c].record} ELSE acked[t]
    BY <1>1, <1>4 DEF memtable_new_elem, DataOK
  <2> QED
    BY <1>2, <2>1, <2>2, <2>3, <2>4, <2>5, <2>6, ClientGoesKeeps
<1> QED
  BY <1>3, <1>4

\* a SELECT changes nothing,
LEMMA SelectKeeps ==
  ASSUME TInv, TInv', NInv, NEW c \in Clients,
         \/ \E t \in Tables, k \in Keys : Select_Open(c, t, k)
         \/ Select_Lock(c) \/ scanParticion(c) \/ Temporaries_Open(c) \/ temporales_get_biggest_timestamp(c)
         \/ Temporaries_Return(c) \/ memtable_get_biggest_timestamp(c) \/ Select_Return(c)
  PROVE  NInv'
<1>1. DataOK /\ PcOK /\ pc[c] \in ClientState /\ c \in Threads
  BY Types DEF PcOK, StatesOK, Threads
<1>2. \A t \in Tables : memtable[t] # {} => t \in dirs
  BY DEF NInv, RecordsHaveTables
<1>3. UNCHANGED <<dirs, files, old, memtable, acked>> /\ pc[c].at \notin {"metadata", "bins"}
  <2>1. CASE \E t \in Tables, k \in Keys : Select_Open(c, t, k)
    BY <2>1 DEF Select_Open
  <2> QED
    BY <2>1 DEF Select_Lock, scanParticion, Temporaries_Open, temporales_get_biggest_timestamp, Temporaries_Return,
       memtable_get_biggest_timestamp, Select_Return
<1>4. \E p : Goto(c, p) /\ p.at \in {"idle", "lock", "bin", "tmp", "temps", "mem", "done"}
  <2>1. CASE \E t \in Tables, k \in Keys : Select_Open(c, t, k)
    BY <2>1 DEF Select_Open
  <2>2. CASE Select_Lock(c)
    BY <2>2 DEF Select_Lock
  <2>3. CASE scanParticion(c)
    BY <2>3 DEF scanParticion
  <2>4. CASE \/ Temporaries_Open(c) \/ temporales_get_biggest_timestamp(c) \/ Temporaries_Return(c)
             \/ memtable_get_biggest_timestamp(c)
    <3>1. PICK p \in ClientState : /\ Goto(c, p)
                                   /\ p.at \in IF memtable_get_biggest_timestamp(c) THEN {"done"} ELSE {"temps", "mem"}
      BY <2>4, ReadSteps
    <3> QED
      BY <3>1
  <2>5. CASE Select_Return(c)
    <3>1. Goto(c, [at |-> "idle"])
      BY <2>5 DEF Select_Return
    <3> QED
      BY <3>1
  <2> QED
    BY <2>1, <2>2, <2>3, <2>4, <2>5
<1>5. PICK p : Goto(c, p) /\ p.at \in {"idle", "lock", "bin", "tmp", "temps", "mem", "done"}
  BY <1>4
<1> QED
  BY <1>2, <1>3, <1>5, ClientGoesKeeps

\* and a CREATE brings an empty table.
LEMMA CreateKeeps ==
  ASSUME TInv, TInv', FInv, NInv, Lossless, NEW c \in Clients,
         \/ \E t \in Tables : Create_Check(c, t)
         \/ Create_Dir(c) \/ Create_Metadata(c) \/ Create_Bins(c) \/ agregarTablaCompactador(c)
  PROVE  NInv'
<1>1. DataOK /\ DataOK' /\ PcOK /\ pc[c] \in ClientState /\ c \in Threads /\ c \notin Dumpers /\ c \notin Compactors
  BY Types, TypesNext DEF PcOK, StatesOK, Threads
<1>2. \A t \in Tables : memtable[t] # {} => t \in dirs
  BY DEF NInv, RecordsHaveTables
<1>3. ASSUME NEW t \in Tables, Create_Check(c, t) PROVE NInv'
  <2>1. PICK p : p = [at |-> "mkdir", table |-> t] /\ Goto(c, p)
    BY <1>3 DEF Create_Check
  <2>2. p.at = "mkdir"
    BY <2>1
  <2>3. UNCHANGED <<dirs, files, old, memtable, acked>> /\ pc[c].at \notin {"metadata", "bins"}
    BY <1>3 DEF Create_Check
  <2> QED
    BY <1>2, <2>1, <2>2, <2>3, ClientGoesKeeps
<1>4. ASSUME NEW p, Goto(c, p), p.at \in {"metadata", "bins", "compactor"}, UNCHANGED <<old, tmp, tmpc, memtable, acked>>,
             dirs' = dirs \/ (dirs' = dirs \cup {p.table} /\ p.at = "metadata"),
             \A t \in dirs, q \in Partitions : bin[t][q] # NoFile => bin'[t][q] # NoFile,
             \A t \in Tables, q \in Partitions : Content(bin'[t][q]) = Content(bin[t][q]),
             \A t \in dirs, q \in Partitions : Makes(pc[c], t, q) => Makes(p, t, q) \/ bin'[t][q] # NoFile
      PROVE  NInv'
  <2>1. pc'[c] = p /\ \A u \in Threads : u # c => pc'[u] = pc[u]
    BY <1>1, <1>4, GoesOn
  <2>2. /\ \A d \in Dumpers : pc'[d] = pc[d]
        /\ \A x \in Compactors : pc'[x] = pc[x]
        /\ \A e \in Clients : e # c => pc'[e] = pc[e]
    BY <1>1, <2>1 DEF Threads
  <2>3. \A e \in Clients : pc'[e].at \notin {"tables", "entries"} /\ (pc'[e].at = "insert" => pc'[e].table \in dirs')
    BY <1>4, <2>1, <2>2 DEF NInv, NobodyDescribes, RecordsHaveTables
  <2>4. BinsExist'
    <3>1. \A t \in dirs' : t \in dirs \/ \E e \in Clients : pc'[e].at = "metadata" /\ pc'[e].table = t
      BY <1>4, <2>1
    <3>2. \A e \in Clients, t \in dirs, q \in Partitions :
            Makes(pc[e], t, q) => Makes(pc'[e], t, q) \/ bin'[t][q] # NoFile
      BY <1>4, <2>1, <2>2
    <3> QED
      BY <1>4, <3>1, <3>2, BinsKept DEF NInv
  <2>5. dirs \subseteq dirs'
    BY <1>4
  <2> QED
    BY <1>2, <1>4, <2>2, <2>3, <2>4, <2>5, ClientKeeps
<1>5. ASSUME pc[c].at \in {"mkdir", "metadata"}
      PROVE  pc[c] \in [at : {"mkdir", "metadata", "compactor", "memtable", "cancel", "list"}, table : Tables]
  BY <1>1, <1>5, ClientKnows
<1>6. ASSUME Create_Dir(c) PROVE NInv'
  <2>1. pc[c].at = "mkdir" /\ dirs' = dirs \cup {pc[c].table} /\ UNCHANGED <<bin, old, tmp, tmpc, memtable, acked>>
    BY <1>6 DEF Create_Dir, files
  <2>2. PICK p : p = [pc[c] EXCEPT !.at = "metadata"]
    OBVIOUS
  <2>3. p.at = "metadata" /\ p.table = pc[c].table
    BY <1>5, <2>1, <2>2
  <2>4. Goto(c, p)
    BY <1>1, <1>6, <2>2, GoesAt DEF Create_Dir
  <2>5. \A t \in dirs, q \in Partitions : ~Makes(pc[c], t, q)
    BY <2>1 DEF Makes
  <2> QED
    BY <1>4, <2>1, <2>3, <2>4, <2>5
<1>7. ASSUME Create_Metadata(c) PROVE NInv'
  <2>1. UNCHANGED <<dirs, bin, old, tmp, tmpc, memtable, acked>>
    BY <1>7 DEF Create_Metadata, files
  <2>2. PICK p : p = [at |-> "bins", table |-> pc[c].table, part |-> 0] /\ Goto(c, p)
    BY <1>7 DEF Create_Metadata
  <2>3. p.at = "bins" /\ p.table = pc[c].table /\ p.part = 0
    BY <2>2
  <2>4. \A t \in dirs, q \in Partitions : Makes(pc[c], t, q) => Makes(p, t, q)
    BY <2>3 DEF Makes, Partitions
  <2> QED
    BY <1>4, <2>1, <2>2, <2>3, <2>4
<1>8. ASSUME Create_Bins(c) PROVE NInv'
  <2>1. UNCHANGED <<dirs, old, tmp, tmpc, memtable, acked>>
    BY <1>8 DEF Create_Bins
  <2>2. pc[c].at = "bins" /\ pc[c].part \in Partitions
    BY <1>8, CreateOne
  <2>3. PICK p \in ClientState : /\ Goto(c, p) /\ p.at \in {"bins", "compactor"} /\ p.table = pc[c].table
                                 /\ p.at = "bins" => p.part = pc[c].part + 1
                                 /\ p.at = "compactor" => pc[c].part + 1 = NumPartitions
    BY <1>8, CreateOne
  <2>4. \A t \in Tables, q \in Partitions :
          bin'[t][q] = IF t = pc[c].table /\ q = pc[c].part /\ bin[t][q] = NoFile THEN {} ELSE bin[t][q]
    BY <1>8, CreateOne
  <2>5. {} # NoFile /\ Content({}) = {} /\ Content(NoFile) = {}
    BY ContentFacts DEF NoFile
  <2>6. \A t \in Tables, q \in Partitions : Content(bin'[t][q]) = Content(bin[t][q])
    BY <2>4, <2>5
  <2>7. dirs \subseteq Tables
    BY <1>1 DEF DataOK
  <2>8. \A t \in dirs, q \in Partitions : bin[t][q] # NoFile => bin'[t][q] # NoFile
    BY <2>4, <2>7
  <2>9. ASSUME NEW t \in dirs, NEW q \in Partitions, Makes(pc[c], t, q), bin'[t][q] = NoFile PROVE Makes(p, t, q)
    <3>1. pc[c].table = t /\ pc[c].part <= q
      BY <2>2, <2>9 DEF Makes
    <3>2. q # pc[c].part
      BY <2>4, <2>5, <2>7, <2>9, <3>1
    <3>3. pc[c].part + 1 <= q /\ pc[c].part + 1 # NumPartitions
      BY <2>2, <3>1, <3>2 DEF Partitions
    <3> QED
      BY <2>3, <3>1, <3>3 DEF Makes
  <2> QED
    BY <1>4, <2>1, <2>3, <2>6, <2>8, <2>9
<1>10. ASSUME agregarTablaCompactador(c) PROVE NInv'
  <2>1. PICK x \in Compactors :
          /\ pc[x].at = "none"
          /\ pc' = [pc EXCEPT ![c] = [at |-> "idle"], ![x] = [at |-> "sleep", table |-> pc[c].table]]
    BY <1>10 DEF agregarTablaCompactador
  <2>2. \A u \in Threads : pc'[u] = IF u = x THEN [at |-> "sleep", table |-> pc[c].table]
                                    ELSE IF u = c THEN [at |-> "idle"] ELSE pc[u]
    BY <1>1, <2>1 DEF PcOK
  <2>3. UNCHANGED <<dirs, files, old, memtable, acked>> /\ pc[c].at = "compactor"
    BY <1>10 DEF agregarTablaCompactador
  <2>4. pc'[c].at = "idle" /\ \A e \in Clients : e # c => pc'[e] = pc[e]
    BY <1>1, <2>2 DEF Threads
  <2>5. \A d \in Dumpers : pc'[d] = pc[d]
    BY <1>1, <2>2 DEF Threads
  <2>6. ASSUME NEW y \in Compactors PROVE pc'[y] = pc[y] \/ (pc[y].at = "none" /\ pc'[y].at = "sleep")
    <3>1. y \in Threads /\ y # c
      BY <1>1 DEF Threads
    <3>2. CASE y = x
      <4>1. pc'[y] = [at |-> "sleep", table |-> pc[c].table]
        BY <2>2, <3>1, <3>2
      <4> QED
        BY <2>1, <3>2, <4>1
    <3>3. CASE y # x
      BY <2>2, <3>1, <3>3
    <3> QED
      BY <3>2, <3>3
  <2>7. BinsExist'
    BY <2>3, <2>4, BinsKept DEF NInv, files, Makes
  <2>8. \A e \in Clients : pc'[e].at \notin {"tables", "entries"} /\ (pc'[e].at = "insert" => pc'[e].table \in dirs')
    BY <2>3, <2>4 DEF NInv, NobodyDescribes, RecordsHaveTables
  <2> QED
    BY <1>2, <2>3, <2>5, <2>6, <2>7, <2>8, ClientKeeps DEF files
<1> QED
  BY <1>3, <1>6, <1>7, <1>8, <1>10

\* The exclusive lock of a table is one thread's.
LEMMA WorkersExclude ==
  ASSUME LInv, NEW th \in Compactors \cup Dumpers, NEW u \in Compactors \cup Dumpers, th # u, NEW t, Works(th, t)
  PROVE  ~Works(u, t)
<1> SUFFICES ASSUME Works(u, t) PROVE FALSE
  OBVIOUS
<1> DEFINE l == LockOf(th, t)
           m == LockOf(u, t)
<1>1. l \in locks /\ m \in locks
  BY DEF LInv, Holders, LocksAt, Works, Threads
<1>2. l.table = m.table /\ m.exclusive /\ l # m
  BY DEF LockOf
<1> HIDE DEF l, m
<1> QED
  BY <1>1, <1>2 DEF LInv, Exclusion

\* A dump brings no .tmp while they are renamed.
LEMMA RenamedAlone ==
  ASSUME TInv, LInv, NEW d \in Dumpers, Dumper(d), NEW x \in Compactors, pc[x].at = "rename"
  PROVE  tmp'[pc[x].table] = tmp[pc[x].table]
<1>1. DataOK /\ pc[x] \in CompactorState /\ x # d /\ x \notin Clients /\ x \notin Dumpers /\ d \notin Clients
  BY Types DEF PcOK, StatesOK
<1>2. Works(x, pc[x].table)
  BY <1>1 DEF Works, Holding
<1>3. pc[x].table \in Tables /\ tmp \in [Tables -> [TmpNames -> File]]
  BY <1>1, CompactorKnows DEF DataOK
<1>4. CASE Dump_Create(d) \/ Dump_Write(d)
  <2>1. Works(d, pc[d].table)
    BY <1>1, <1>4 DEF Works, Holding, Dump_Create, Dump_Write
  <2>2. pc[d].table # pc[x].table
    BY <1>1, <1>2, <2>1, WorkersExclude
  <2> QED
    BY <1>3, <1>4, <2>2 DEF Dump_Create, Dump_Write
<1>5. CASE ~(Dump_Create(d) \/ Dump_Write(d))
  BY <1>5 DEF Dumper, Dump_Swap, Dump_Open, Dump_NotFound, Dump_Lock, Dump_NoSpace, Dump_End, files
<1> QED
  BY <1>4, <1>5

\* A dump leaves clients and compactions alone.
LEMMA DumperLeaves ==
  ASSUME TInv, LInv, NInv, NEW d \in Dumpers, Dumper(d), NEW p, Goto(d, p) \/ pc' = pc, UNCHANGED <<dirs, bin, tmpc>>
  PROVE  /\ NobodyDescribes' /\ BinsExist' /\ CompactionsAreWhole'
         /\ \A t : InTransit(t)' = InTransit(t)
         /\ \A c \in Clients : pc'[c] = pc[c]
         /\ \A e \in Dumpers : e # d => pc'[e] = pc[e]
<1>1. PcOK /\ d \in Threads /\ d \notin Clients /\ d \notin Compactors
  BY Types DEF Threads
<1>2. \A u \in Threads : u # d => pc'[u] = pc[u]
  BY <1>1, GoesOn
<1>3. /\ \A c \in Clients : pc'[c] = pc[c]
      /\ \A x \in Compactors : pc'[x] = pc[x]
      /\ \A e \in Dumpers : e # d => pc'[e] = pc[e]
  BY <1>1, <1>2 DEF Threads
<1>4. NobodyDescribes'
  BY <1>3 DEF NInv, NobodyDescribes
<1>5. BinsExist'
  BY <1>3, BinsKept DEF NInv
<1>6. CompactionsAreWhole'
  BY <1>3, RenamedAlone, CompactionsKept DEF NInv
<1>7. \A t : InTransit(t)' = InTransit(t)
  BY <1>3, TransitKept DEF SameTransit
<1> QED
  BY <1>3, <1>4, <1>5, <1>6, <1>7

\* A step of one of the threads that dump.
LEMMA OneDumps ==
  ASSUME DumpsAreWhole, NEW d \in Dumpers, \A e \in Dumpers : e # d => pc'[e] = pc[e], dirs' = dirs,
         \A e \in Dumpers : e # d => old'[e] = old[e],
         \A e \in Dumpers : e # d /\ pc[e].at = "write" =>
           tmp'[pc[e].table][pc[e].name] = tmp[pc[e].table][pc[e].name],
         DumpAt(pc[d], old[d])'
  PROVE  DumpsAreWhole'
<1> SUFFICES ASSUME NEW e \in Dumpers PROVE DumpAt(pc[e], old[e])'
  BY DEF DumpsAreWhole
<1>1. CASE e = d
  BY <1>1
<1>2. CASE e # d
  BY <1>2 DEF DumpsAreWhole, DumpAt
<1> QED
  BY <1>1, <1>2

\* A dump takes the memtable to .tmp files, one at a time.
LEMMA DumperKeeps ==
  ASSUME TInv, TInv', LInv, NInv, Lossless, NEW d \in Dumpers, Dumper(d)
  PROVE  NInv'
<1>1. DataOK /\ DataOK' /\ PcOK /\ pc[d] \in DumperState /\ d \in Threads /\ d \notin Clients /\ d \notin Compactors
  BY Types, TypesNext DEF PcOK, StatesOK, Threads
<1>2. DumpAt(pc[d], old[d]) /\ DumpsAreWhole
  BY DEF NInv, DumpsAreWhole
<1>3. UNCHANGED <<dirs, bin, tmpc, acked>>
  BY DEF Dumper, Dump_Swap, Dump_Open, Dump_NotFound, Dump_Lock, Dump_NoSpace, Dump_Create, Dump_Write, Dump_End,
     files
<1>4. ASSUME NEW p, Goto(d, p), RecordsHaveTables', DumpsAreWhole',
             \A t \in Tables : memtable[t] \cup Dumping(t) \cup Stored(t) \subseteq Held(t)'
      PROVE  NInv'
  <2>1. /\ NobodyDescribes' /\ BinsExist' /\ CompactionsAreWhole'
        /\ \A t : InTransit(t)' = InTransit(t)
    BY <1>3, <1>4, DumperLeaves
  <2>2. \A t \in Tables : Held(t) \subseteq Held(t)'
    BY <1>4, <2>1 DEF Held
  <2>3. NoRecordLost'
    BY <1>3, <2>2, AllHeld DEF NInv
  <2> QED
    BY <1>4, <2>1, <2>3 DEF NInv
<1>5. ASSUME NEW p, Goto(d, p)
      PROVE  /\ \A c \in Clients : pc'[c] = pc[c]
             /\ \A e \in Dumpers : e # d => pc'[e] = pc[e]
             /\ pc'[d] = p
  BY <1>1, <1>3, <1>5, DumperLeaves, GoesOn
<1>6. ASSUME Dump_Open(d) \/ Dump_Lock(d) \/ Dump_End(d) PROVE NInv'
  <2>1. UNCHANGED <<memtable, old, files>>
    BY <1>6 DEF Dump_Open, Dump_Lock, Dump_End
  <2>2. PICK p : Goto(d, p) /\ DumpAt(p, old[d])
    <3>1. CASE Dump_Open(d)
      <4>1. PICK t \in dirs : Goto(d, [at |-> "lock", table |-> t, inode |-> inode[t]])
        BY <3>1 DEF Dump_Open
      <4>2. PICK p : p = [at |-> "lock", table |-> t, inode |-> inode[t]]
        OBVIOUS
      <4>3. p.at = "lock" /\ p.table = t
        BY <4>2
      <4> QED
        BY <4>1, <4>2, <4>3 DEF DumpAt
    <3>2. CASE Dump_Lock(d)
      <4>1. pc[d] \in [at : {"lock", "create"}, table : Tables, inode : Nat] /\ pc[d].at = "lock"
        BY <1>1, <3>2, DumperKnows DEF Dump_Lock
      <4>2. PICK p : p = [pc[d] EXCEPT !.at = "create"]
        OBVIOUS
      <4>3. p.at = "create" /\ p.table = pc[d].table
        BY <4>1, <4>2
      <4>4. Goto(d, p)
        BY <1>1, <3>2, <4>2, GoesAt DEF Dump_Lock
      <4> QED
        BY <1>2, <4>1, <4>3, <4>4 DEF DumpAt
    <3>3. CASE Dump_End(d)
      <4>1. PICK p : p = [at |-> "idle"]
        OBVIOUS
      <4>2. p.at = "idle"
        BY <4>1
      <4> QED
        BY <3>3, <4>1, <4>2 DEF Dump_End, DumpAt
    <3> QED
      BY <1>6, <3>1, <3>2, <3>3
  <2>3. DumpAt(pc[d], old[d])'
    BY <1>3, <1>5, <2>1, <2>2 DEF DumpAt, files
  <2>4. DumpsAreWhole'
    BY <1>2, <1>3, <1>5, <2>1, <2>2, <2>3, OneDumps DEF files
  <2>5. RecordsHaveTables'
    BY <1>3, <1>5, <2>1, <2>2 DEF NInv, RecordsHaveTables
  <2>6. \A t \in Tables : Stored(t)' = Stored(t) /\ Dumping(t)' = Dumping(t) /\ memtable'[t] = memtable[t]
    BY <2>1 DEF Stored, Dumping, files
  <2> QED
    BY <1>4, <2>2, <2>4, <2>5, <2>6 DEF Held
<1>7. ASSUME Dump_Swap(d) PROVE NInv'
  <2>1. pc[d].at = "idle" /\ UNCHANGED files
    BY <1>7 DEF Dump_Swap
  <2>2. PICK p : p = [at |-> "next"] /\ Goto(d, p)
    BY <1>7 DEF Dump_Swap
  <2>3. p.at = "next"
    BY <2>2
  <2>4. \A t \in Tables : old[d][t] = {} /\ memtable'[t] = {}
    BY <1>2, <1>7, <2>1 DEF DumpAt, Dump_Swap
  <2>5. \A e \in Dumpers : old'[e] = IF e = d THEN memtable ELSE old[e]
    BY <1>1, <1>7 DEF Dump_Swap, DataOK
  <2>6. DumpAt(pc[d], old[d])'
    BY <1>5, <2>2, <2>3 DEF DumpAt
  <2>7. DumpsAreWhole'
    BY <1>2, <1>3, <1>5, <2>1, <2>2, <2>5, <2>6, OneDumps DEF files
  <2>8. RecordsHaveTables'
    BY <1>3, <1>5, <2>2, <2>4, <2>5 DEF NInv, RecordsHaveTables
  <2>9. ASSUME NEW t \in Tables PROVE memtable[t] \cup Dumping(t) \cup Stored(t) \subseteq Held(t)'
    <3>1. memtable[t] \subseteq Dumping(t)' /\ Dumping(t) \subseteq Dumping(t)'
      BY <2>4, <2>5, DumpingFacts
    <3>2. Stored(t)' = Stored(t)
      BY <2>1 DEF Stored, files
    <3> QED
      BY <3>1, <3>2 DEF Held
  <2> QED
    BY <1>4, <2>2, <2>7, <2>8, <2>9
<1>8. ~Dump_NotFound(d) /\ ~Dump_NoSpace(d)
  BY DEF NInv, RecordsHaveTables, Dump_NotFound, Lossless, Dump_NoSpace
<1>9. ASSUME Dump_Create(d) PROVE NInv'
  <2>1. PICK t : t = pc[d].table
    OBVIOUS
  <2>2. PICK j : j = Min(FreeNames(t))
    OBVIOUS
  <2>3. t \in dirs /\ t \in Tables
    BY <1>1, <1>9, <2>1 DEF Dump_Create, DataOK
  <2>4. j \in TmpNames /\ tmp[t][j] = NoFile
    <3>1. FreeNames(t) \in SUBSET Nat /\ FreeNames(t) # {}
      BY <1>9, <2>1 DEF Dump_Create, FreeNames, TmpNames
    <3> QED
      BY <2>2, <3>1, Least DEF FreeNames
  <2>5. PICK p : p = [at |-> "write", table |-> t, name |-> j] /\ Goto(d, p)
    BY <1>9, <2>1, <2>2 DEF Dump_Create
  <2>6. p.at = "write" /\ p.table = t /\ p.name = j
    BY <2>5
  <2>7. tmp' = [tmp EXCEPT ![t][j] = {}]
    BY <1>9, <2>1, <2>2 DEF Dump_Create
  <2>8. tmp \in [Tables -> [TmpNames -> File]]
    BY <1>1 DEF DataOK
  <2>9. \A u \in Tables, i \in TmpNames : tmp'[u][i] = IF u = t /\ i = j THEN {} ELSE tmp[u][i]
    BY <2>7, <2>8, FileAfter
  <2>10. DumpAt(pc[d], old[d])'
    BY <1>3, <1>5, <2>3, <2>4, <2>5, <2>6, <2>9 DEF DumpAt
  <2>11. ASSUME NEW e \in Dumpers, e # d, pc[e].at = "write"
         PROVE  tmp'[pc[e].table][pc[e].name] = tmp[pc[e].table][pc[e].name]
    <3>1. pc[e].table \in Tables /\ pc[e].name \in TmpNames
      BY <1>1, <2>11, DumperKnows DEF PcOK, StatesOK
    <3>2. tmp[pc[e].table][pc[e].name] = {}
      BY <1>2, <2>11 DEF DumpsAreWhole, DumpAt
    <3>3. {} # NoFile
      BY DEF NoFile
    <3> QED
      BY <2>4, <2>9, <3>1, <3>2, <3>3
  <2>12. UNCHANGED <<old, memtable>>
    BY <1>9 DEF Dump_Create
  <2>13. DumpsAreWhole'
    BY <1>2, <1>3, <1>5, <2>5, <2>10, <2>11, <2>12, OneDumps
  <2>14. RecordsHaveTables'
    BY <1>3, <1>5, <2>5, <2>12 DEF NInv, RecordsHaveTables
  <2>15. Content({}) = {} /\ Content(NoFile) = {}
    BY ContentFacts
  <2>16. \A u \in Tables : SameContents(u)
    BY <1>3, <2>4, <2>9, <2>15 DEF SameContents
  <2>17. \A u \in Tables : Stored(u)' = Stored(u)
    BY <1>1, <2>16, SameStored
  <2>18. \A u \in Tables : Dumping(u)' = Dumping(u) /\ memtable'[u] = memtable[u]
    BY <2>12 DEF Dumping
  <2> QED
    BY <1>4, <2>5, <2>13, <2>14, <2>17, <2>18 DEF Held
<1>10. ASSUME Dump_Write(d) PROVE NInv'
  <2>1. PICK t : t = pc[d].table
    OBVIOUS
  <2>2. PICK j : j = pc[d].name
    OBVIOUS
  <2>3. pc[d].at = "write" /\ t \in Tables /\ j \in TmpNames /\ memtable' = memtable
    BY <1>1, <1>10, <2>1, <2>2, DumperKnows DEF Dump_Write
  <2>4. tmp[t][j] = {} /\ {} # NoFile
    BY <1>2, <2>1, <2>2, <2>3 DEF DumpAt, NoFile
  <2>5. tmp' = [tmp EXCEPT ![t][j] = old[d][t]]
    BY <1>10, <2>1, <2>2, <2>4 DEF Dump_Write, Lossless
  <2>6. tmp \in [Tables -> [TmpNames -> File]]
    BY <1>1 DEF DataOK
  <2>7. \A u \in Tables, i \in TmpNames : tmp'[u][i] = IF u = t /\ i = j THEN old[d][t] ELSE tmp[u][i]
    BY <2>5, <2>6, FileAfter
  <2>8. old' = [old EXCEPT ![d][t] = {}]
    BY <1>10, <2>1 DEF Dump_Write
  <2>9. \A e \in Dumpers, u \in Tables : old'[e][u] = IF e = d /\ u = t THEN {} ELSE old[e][u]
    BY <1>1, <2>8 DEF DataOK
  <2>10. \A e \in Dumpers : e # d => old'[e] = old[e]
    BY <1>1, <2>8 DEF DataOK
  <2>11. PICK p : p = [at |-> "next"] /\ Goto(d, p)
    BY <1>10 DEF Dump_Write
  <2>12. p.at = "next"
    BY <2>11
  <2>13. DumpAt(pc[d], old[d])'
    BY <1>5, <2>11, <2>12 DEF DumpAt
  <2>14. ASSUME NEW e \in Dumpers, e # d, pc[e].at = "write"
         PROVE  tmp'[pc[e].table][pc[e].name] = tmp[pc[e].table][pc[e].name]
    <3>1. pc[e].table \in Tables /\ pc[e].name \in TmpNames
      BY <1>1, <2>14, DumperKnows DEF PcOK, StatesOK
    <3>2. Works(d, t) /\ Works(e, pc[e].table)
      BY <1>1, <2>1, <2>3, <2>14, Types DEF Works, Holding
    <3>3. pc[e].table # t
      BY <2>14, <3>2, WorkersExclude
    <3> QED
      BY <2>7, <3>1, <3>3
  <2>15. DumpsAreWhole'
    BY <1>2, <1>3, <1>5, <2>10, <2>11, <2>13, <2>14, OneDumps
  <2>16. RecordsHaveTables'
    BY <1>3, <1>5, <2>3, <2>9, <2>11 DEF NInv, RecordsHaveTables
  <2>17. Content({}) = {} /\ Content(old[d][t]) = old[d][t]
    <3>1. old[d][t] \in SUBSET Record /\ {} \in SUBSET Record
      BY <1>1, <2>3 DEF DataOK
    <3> QED
      BY <3>1, ContentFacts
  <2>18. ASSUME NEW u \in Tables PROVE Stored(u) \subseteq Stored(u)' /\ (u = t => old[d][t] \subseteq Stored(u)')
    <3>1. /\ DOMAIN tmp[u] = TmpNames /\ DOMAIN tmp'[u] = TmpNames
          /\ bin'[u] = bin[u] /\ tmpc'[u] = tmpc[u]
      BY <1>1, <1>3 DEF DataOK
    <3>2. ASSUME NEW r \in Contents(tmp[u]) PROVE r \in Contents(tmp'[u])
      <4>1. PICK i \in TmpNames : r \in Content(tmp[u][i])
        BY <3>1, ContentsFacts
      <4>2. ~(u = t /\ i = j)
        BY <2>4, <2>17, <4>1
      <4>3. tmp'[u][i] = tmp[u][i]
        BY <2>7, <4>2
      <4> QED
        BY <3>1, <4>1, <4>3, ContentsFacts
    <3>3. u = t => \A r \in old[d][t] : r \in Contents(tmp'[u])
      BY <2>3, <2>7, <2>17, <3>1, ContentsFacts
    <3> QED
      BY <3>1, <3>2, <3>3 DEF Stored
  <2>19. ASSUME NEW u \in Tables PROVE memtable[u] \cup Dumping(u) \cup Stored(u) \subseteq Held(u)'
    <3>1. ASSUME NEW r \in Dumping(u) PROVE r \in Dumping(u)' \cup Stored(u)'
      <4>1. PICK e \in Dumpers : r \in old[e][u]
        BY <3>1, DumpingFacts
      <4> QED
        BY <2>9, <2>18, <4>1, DumpingFacts
    <3> QED
      BY <2>3, <2>18, <3>1 DEF Held
  <2> QED
    BY <1>4, <2>11, <2>15, <2>16, <2>19
<1> QED
  BY <1>6, <1>7, <1>8, <1>9, <1>10 DEF Dumper

\* The records a compactor has merged and not written.
Carried(p) == IF p.at \in Compacting THEN {r \in p.merged : Part(r.key) \in p.unwritten} ELSE {}

\* A table has one compactor.
LEMMA OneCompactor ==
  ASSUME FInv, NEW x \in Compactors, NEW y \in Compactors, Active(x), Active(y), pc[x].table = pc[y].table
  PROVE  x = y
BY DEF FInv, CompactorsFollowTables, Active

\* There are .tmpc files between the renaming and the deletion only.
LEMMA NoTmpc ==
  ASSUME FInv, NInv, NEW x \in Compactors, Active(x), pc[x].at \notin {"rename", "read", "lock2", "delete"},
         NEW t \in Tables, t = pc[x].table
  PROVE  \A j \in TmpNames : tmpc[t][j] = NoFile
<1> SUFFICES ASSUME NEW j \in TmpNames, tmpc[t][j] # NoFile PROVE FALSE
  OBVIOUS
<1>1. PICK y \in Compactors : pc[y].at \in {"rename", "read", "lock2", "delete"} /\ pc[y].table = t
  BY DEF NInv, CompactionsAreWhole, TmpcAreRead
<1>2. x = y
  BY <1>1, OneCompactor DEF Active
<1> QED
  BY <1>1, <1>2

\* A compactor goes on, and what is on file or it had merged it has, on file or merged.
LEMMA CompactorGoesKeeps ==
  ASSUME TInv, TInv', FInv, LInv, NInv, NEW x \in Compactors, Active(x), NEW p,
         pc'[x] = p, \A u \in Threads : u # x => pc'[u] = pc[u],
         NEW t \in Tables, t = pc[x].table, p.table = t,
         UNCHANGED <<dirs, memtable, old, acked>>,
         \A u \in Tables : u # t => bin'[u] = bin[u] /\ tmp'[u] = tmp[u] /\ tmpc'[u] = tmpc[u],
         \A q \in Partitions : bin[t][q] # NoFile => bin'[t][q] # NoFile,
         tmp'[t] = tmp[t] \/ Works(x, t),
         \A j \in TmpNames : tmpc'[t][j] # NoFile => p.at \in {"rename", "read", "lock2", "delete"},
         RenamesAt(p)', CompactionAt(p)',
         \A r \in Stored(t) : \E s \in Stored(t)' \cup Carried(p) : s.key = r.key /\ s.timestamp >= r.timestamp,
         Carried(pc[x]) \subseteq Stored(t)' \cup Carried(p)
  PROVE  NInv'
<1>1. DataOK /\ DataOK' /\ PcOK /\ x \in Threads /\ x \notin Clients /\ x \notin Dumpers
  BY Types, TypesNext DEF Threads
<1>2. /\ \A c \in Clients : pc'[c] = pc[c]
      /\ \A d \in Dumpers : pc'[d] = pc[d]
      /\ \A y \in Compactors : y # x => pc'[y] = pc[y]
  BY <1>1 DEF Threads
<1>3. NobodyDescribes' /\ RecordsHaveTables'
  BY <1>2 DEF NInv, NobodyDescribes, RecordsHaveTables
<1>4. BinsExist'
  <2>1. \A u \in dirs, q \in Partitions : bin[u][q] # NoFile => bin'[u][q] # NoFile
    BY <1>1 DEF DataOK
  <2> QED
    BY <1>2, <2>1, BinsKept DEF NInv
<1>5. DumpsAreWhole'
  <2>1. ASSUME NEW d \in Dumpers, pc[d].at = "write"
        PROVE  tmp'[pc[d].table][pc[d].name] = tmp[pc[d].table][pc[d].name]
    <3>1. pc[d].table \in Tables
      BY <1>1, <2>1, DumperKnows DEF PcOK, StatesOK
    <3>2. CASE pc[d].table = t /\ Works(x, t)
      <4>1. Works(d, t) /\ d # x
        BY <1>1, <2>1, <3>2, Types DEF Works, Holding
      <4> QED
        BY <3>2, <4>1, WorkersExclude
    <3> QED
      BY <3>1, <3>2
  <2> QED
    BY <1>2, <2>1, DumpsKept DEF NInv
<1>6. CompactionsAreWhole'
  <2>1. ASSUME NEW y \in Compactors, y # x, Active(y) PROVE pc[y].table \in Tables /\ pc[y].table # t
    <3>1. pc[y].table # t
      BY <2>1, OneCompactor
    <3>2. pc[y] \in CompactorState
      BY <1>1 DEF PcOK, StatesOK
    <3>3. pc[y].table \in dirs
      BY <2>1 DEF FInv, CompactorsFollowTables, Active
    <3> QED
      BY <1>1, <3>1, <3>3 DEF DataOK
  <2>2. ASSUME NEW y \in Compactors PROVE (RenamesAt(pc[y]) /\ CompactionAt(pc[y]))'
    <3>1. CASE y = x
      BY <3>1 DEF RenamesAt, CompactionAt
    <3>2. CASE y # x /\ ~Active(y)
      BY <1>2, <3>2 DEF RenamesAt, CompactionAt, Active
    <3>3. CASE y # x /\ Active(y)
      <4>1. /\ pc'[y] = pc[y] /\ bin'[pc[y].table] = bin[pc[y].table]
            /\ tmp'[pc[y].table] = tmp[pc[y].table] /\ tmpc'[pc[y].table] = tmpc[pc[y].table]
        BY <1>2, <2>1, <3>3
      <4> QED
        BY <4>1 DEF NInv, CompactionsAreWhole, RenamesAt, CompactionAt
    <3> QED
      BY <3>1, <3>2, <3>3
  <2>3. ASSUME NEW u \in Tables, NEW j \in TmpNames, tmpc'[u][j] # NoFile
        PROVE  \E y \in Compactors : pc'[y].at \in {"rename", "read", "lock2", "delete"} /\ pc'[y].table = u
    <3>1. CASE u = t
      BY <2>3, <3>1
    <3>2. CASE u # t
      <4>1. PICK y \in Compactors : pc[y].at \in {"rename", "read", "lock2", "delete"} /\ pc[y].table = u
        BY <2>3, <3>2 DEF NInv, CompactionsAreWhole, TmpcAreRead
      <4> QED
        BY <1>2, <3>2, <4>1
    <3> QED
      BY <3>1, <3>2
  <2> QED
    BY <2>2, <2>3 DEF CompactionsAreWhole, TmpcAreRead
<1>7. ASSUME NEW u \in Tables, NEW r \in InTransit(u) PROVE r \in InTransit(u)' \/ (u = t /\ r \in Carried(pc[x]))
  <2>1. PICK y \in Compactors : /\ pc[y].at \in Compacting /\ pc[y].table = u
                                /\ r \in pc[y].merged /\ Part(r.key) \in pc[y].unwritten
    BY <1>7, InTransitFacts
  <2> QED
    BY <1>2, <2>1, InTransitNext DEF Carried
<1>8. Carried(p) \subseteq InTransit(t)'
  BY InTransitNext DEF Carried
<1>9. \A u \in Tables : u # t => Stored(u)' = Stored(u)
  BY DEF Stored
<1>10. \A u \in Tables : Dumping(u)' = Dumping(u) /\ memtable'[u] = memtable[u]
  BY DEF Dumping
<1>11. ASSUME NEW u \in Tables, NEW r \in Held(u)
       PROVE  \E s \in Held(u)' : s.key = r.key /\ s.timestamp >= r.timestamp
  <2>1. r.timestamp >= r.timestamp
    <3>1. r.timestamp \in Nat
      BY <1>11, HeldTypes, RecordFacts DEF HeldAreRecords, Times
    <3> QED
      BY <3>1
  <2>2. CASE r \in memtable[u] \cup Dumping(u)
    BY <1>10, <2>1, <2>2 DEF Held
  <2>3. CASE r \in Stored(u)
    BY <1>8, <1>9, <2>1, <2>3 DEF Held
  <2>4. CASE r \in InTransit(u)
    BY <1>7, <1>8, <2>1, <2>4 DEF Held
  <2> QED
    BY <1>11, <2>2, <2>3, <2>4 DEF Held
<1>12. NoRecordLost'
  BY <1>11, NothingLost DEF NInv
<1> QED
  BY <1>3, <1>4, <1>5, <1>6, <1>12 DEF NInv

\* One that changes no file.
LEMMA CompactorWaitsKeeps ==
  ASSUME TInv, TInv', FInv, LInv, NInv, NEW x \in Compactors, Active(x), NEW p, Goto(x, p),
         p.table = pc[x].table, UNCHANGED <<dirs, files, memtable, old, acked>>,
         \A j \in TmpNames : tmpc[pc[x].table][j] # NoFile => p.at \in {"rename", "read", "lock2", "delete"},
         RenamesAt(p), CompactionAt(p), Carried(pc[x]) \subseteq Carried(p)
  PROVE  NInv'
<1>1. DataOK /\ PcOK /\ x \in Threads
  BY Types DEF Threads
<1>2. PICK t \in Tables : t = pc[x].table
  BY <1>1 DEF FInv, CompactorsFollowTables, Active, DataOK
<1>3. pc'[x] = p /\ \A u \in Threads : u # x => pc'[u] = pc[u]
  BY <1>1, GoesOn
<1>4. RenamesAt(p)' /\ CompactionAt(p)'
  BY DEF RenamesAt, CompactionAt, files
<1>5. Stored(t)' = Stored(t) /\ Stored(t) \subseteq Record
  BY <1>1, StoredIsRecords DEF Stored, files
<1>6. \A r \in Stored(t) : \E s \in Stored(t)' \cup Carried(p) : s.key = r.key /\ s.timestamp >= r.timestamp
  <2>1. \A r \in Stored(t) : r.timestamp \in Nat
    BY <1>5, RecordFacts DEF Times
  <2>2. \A r \in Stored(t) : r.timestamp >= r.timestamp
    BY <2>1
  <2> QED
    BY <1>5, <2>2
<1>7. UNCHANGED <<bin, tmp, tmpc>>
  BY DEF files
<1> QED
  BY <1>2, <1>3, <1>4, <1>6, <1>7, CompactorGoesKeeps

\* The table of a compactor has all its partitions.
LEMMA BinsOfCompactor ==
  ASSUME TInv, FInv, NInv, NEW x \in Compactors, Active(x)
  PROVE  \A p \in Partitions : bin[pc[x].table][p] # NoFile
<1>1. registered[pc[x].table] = x /\ pc[x].table \in dirs /\ x # Nobody
  BY DEF FInv, CompactorsFollowTables, Active
<1>2. \A c \in Clients, q \in Partitions : ~Makes(pc[c], pc[x].table, q)
  BY <1>1 DEF FInv, WritersAreAlone, AloneAt, Makes
<1> QED
  BY <1>1, <1>2 DEF NInv, BinsExist

\* A .tmp is renamed, and over no .tmpc.
LEMMA RenameKeeps ==
  ASSUME TInv, TInv', FInv, LInv, NInv, NEW x \in Compactors, _convertirATmpc(x)
  PROVE  NInv'
<1>1. DataOK /\ DataOK' /\ PcOK /\ x \in Threads /\ x \notin Clients /\ x \notin Dumpers
  BY Types, TypesNext DEF Threads
<1>2. pc[x].at = "rename" /\ Active(x)
  BY DEF _convertirATmpc, Active
<1>3. PICK t \in Tables : t = pc[x].table
  BY RenameOne
<1>4. PICK i \in TmpNames :
        /\ tmp[t][i] # NoFile
        /\ \A u \in Tables, j \in TmpNames : tmp'[u][j] = IF u = t /\ j = i THEN NoFile ELSE tmp[u][j]
        /\ \A u \in Tables, j \in TmpNames : tmpc'[u][j] = IF u = t /\ j = i THEN tmp[t][i] ELSE tmpc[u][j]
  BY <1>3, RenameOne
<1>5. UNCHANGED <<dirs, bin, memtable, old, acked>> /\ pc' = pc
  BY DEF _convertirATmpc
<1>6. RenamesAt(pc[x])
  BY DEF NInv, CompactionsAreWhole
<1>7. tmpc[t][i] = NoFile
  BY <1>2, <1>3, <1>4, <1>6 DEF RenamesAt
<1>8. \A u \in Tables : u # t => tmp'[u] = tmp[u] /\ tmpc'[u] = tmpc[u]
  BY <1>1, <1>3 DEF _convertirATmpc, DataOK
<1>9. Works(x, t)
  BY <1>1, <1>2, <1>3 DEF Works, Holding
<1>10. RenamesAt(pc[x])' /\ CompactionAt(pc[x])'
  BY <1>2, <1>3, <1>4, <1>5, <1>6 DEF RenamesAt, CompactionAt
<1>11. Stored(t) \subseteq Stored(t)' /\ Stored(t) \subseteq Record
  <2>1. /\ DOMAIN tmp[t] = TmpNames /\ DOMAIN tmpc[t] = TmpNames /\ DOMAIN tmpc'[t] = TmpNames
        /\ DOMAIN tmp'[t] = TmpNames /\ bin'[t] = bin[t]
    BY <1>1, <1>5 DEF DataOK
  <2>2. Content(NoFile) = {}
    BY ContentFacts
  <2>3. ASSUME NEW r \in Contents(tmp[t]) PROVE r \in Contents(tmpc'[t]) \cup Contents(tmp'[t])
    <3>1. PICK j \in TmpNames : r \in Content(tmp[t][j])
      BY <2>1, ContentsFacts
    <3>2. tmpc'[t][j] = tmp[t][j] \/ tmp'[t][j] = tmp[t][j]
      BY <1>4
    <3>3. r \in Content(tmpc'[t][j]) \/ r \in Content(tmp'[t][j])
      BY <3>1, <3>2
    <3> QED
      BY <2>1, <3>3, ContentsFacts
  <2>4. ASSUME NEW r \in Contents(tmpc[t]) PROVE r \in Contents(tmpc'[t])
    <3>1. PICK j \in TmpNames : r \in Content(tmpc[t][j])
      BY <2>1, ContentsFacts
    <3>2. j # i
      BY <1>7, <2>2, <3>1
    <3>3. tmpc'[t][j] = tmpc[t][j]
      BY <1>4, <3>2
    <3> QED
      BY <2>1, <3>1, <3>3, ContentsFacts
  <2>5. Stored(t) \subseteq Stored(t)'
    BY <2>1, <2>3, <2>4 DEF Stored
  <2> QED
    BY <1>1, <2>5, StoredIsRecords
<1>12. \A r \in Stored(t) : \E s \in Stored(t)' \cup Carried(pc[x]) : s.key = r.key /\ s.timestamp >= r.timestamp
  <2>1. \A r \in Stored(t) : r.timestamp \in Nat
    BY <1>11, RecordFacts DEF Times
  <2>2. \A r \in Stored(t) : r.timestamp >= r.timestamp
    BY <2>1
  <2> QED
    BY <1>11, <2>2
<1>13. Carried(pc[x]) = {}
  BY <1>2 DEF Carried, Compacting
<1>14. pc'[x] = pc[x] /\ \A u \in Threads : u # x => pc'[u] = pc[u]
  BY <1>5
<1> QED
  BY <1>2, <1>3, <1>5, <1>8, <1>9, <1>10, <1>12, <1>13, <1>14, CompactorGoesKeeps

\* What is read and merged covers all the files read.
LEMMA ReadIsWhole ==
  ASSUME DataOK, NEW t \in Tables, NEW records, records = Contents(bin[t]) \cup Contents(tmpc[t]),
         NEW p, p.at = "lock2", p.table = t, p.unwritten = Partitions, p.merged = Merged(records)
  PROVE  CompactionAt(p) /\ p.merged \subseteq records
<1>1. bin[t] \in [Partitions -> File] /\ tmpc[t] \in [TmpNames -> File]
  BY DEF DataOK
<1>2. records \in SUBSET Record
  BY <1>1, ContentsFacts
<1>3. PICK merged : merged = p.merged /\ merged \subseteq records /\ Covered(records, merged)
  BY <1>2, MergedFacts
<1>4. Covered(Contents(tmpc[t]), merged)
  <2>1. Contents(tmpc[t]) \subseteq records
    OBVIOUS
  <2> QED
    BY <1>3, <2>1 DEF Covered
<1>5. ASSUME NEW q \in Partitions PROVE Covered(Content(bin[t][q]), merged)
  <2>1. Content(bin[t][q]) \subseteq records
    BY <1>1, ContentsFacts
  <2> QED
    BY <1>3, <2>1 DEF Covered
<1> QED
  BY <1>3, <1>4, <1>5 DEF CompactionAt

\* What is read is merged,
LEMMA ReadKeeps ==
  ASSUME TInv, TInv', FInv, LInv, NInv, NEW x \in Compactors, Compact_Read(x)
  PROVE  NInv'
<1>1. DataOK /\ PcOK /\ pc[x] \in CompactorState
  BY Types DEF PcOK, StatesOK
<1>2. pc[x].at = "read" /\ Active(x)
  BY DEF Compact_Read, Active
<1>3. PICK t \in Tables : t = pc[x].table
  BY <1>1, <1>2, CompactorKnows
<1>4. PICK records : records = Contents(bin[t]) \cup Contents(tmpc[t])
  OBVIOUS
<1>5. PICK p : p = [at |-> "lock2", table |-> t, inode |-> pc[x].inode, unwritten |-> Partitions,
                    merged |-> Merged(records)] /\ Goto(x, p)
  BY <1>3, <1>4 DEF Compact_Read
<1>6. p.at = "lock2" /\ p.table = t /\ p.unwritten = Partitions /\ p.merged = Merged(records)
  BY <1>5
<1>7. CompactionAt(p)
  BY <1>1, <1>3, <1>4, <1>6, ReadIsWhole
<1>8. Carried(pc[x]) = {} /\ RenamesAt(p)
  BY <1>2, <1>6 DEF Carried, Compacting, RenamesAt
<1>9. UNCHANGED <<dirs, files, memtable, old, acked>>
  BY DEF Compact_Read
<1> QED
  BY <1>2, <1>3, <1>5, <1>6, <1>7, <1>8, <1>9, CompactorWaitsKeeps

\* and a compactor that sleeps, waits or closes its descriptor keeps it.
LEMMA WaitKeeps ==
  ASSUME TInv, TInv', FInv, LInv, NInv, NEW x \in Compactors,
         \/ Compact_Start(x) \/ Compact_Lock(x, "lock1", "rename") \/ Compact_Lock(x, "lock2", "delete")
         \/ Compact_Renamed(x) \/ Compact_Deleted(x) \/ Compact_End(x)
  PROVE  NInv'
<1>1. DataOK /\ PcOK /\ pc[x] \in CompactorState /\ x \in Threads
  BY Types DEF PcOK, StatesOK, Threads
<1>2. UNCHANGED <<dirs, files, memtable, old, acked>>
  BY DEF Compact_Start, Compact_Lock, Compact_Renamed, Compact_Deleted, Compact_End
<1>3. Active(x)
  BY DEF Compact_Start, Compact_Lock, Compact_Renamed, Compact_Deleted, Compact_End, Active
<1>4. CompactionAt(pc[x])
  BY DEF NInv, CompactionsAreWhole
<1>5. ASSUME NEW p, Goto(x, p), p.table = pc[x].table, p.at \in {"lock1", "rename", "sleep"},
             pc[x].at \in {"sleep", "lock1"} \/ (pc[x].at = "write" /\ pc[x].unwritten = {})
      PROVE  NInv'
  <2>1. pc[x].table \in Tables
    BY <1>1, <1>3 DEF FInv, CompactorsFollowTables, Active, DataOK
  <2>2. \A j \in TmpNames : tmpc[pc[x].table][j] = NoFile
    BY <1>3, <1>5, <2>1, NoTmpc
  <2>3. RenamesAt(p) /\ CompactionAt(p)
    BY <1>5, <2>2 DEF RenamesAt, CompactionAt
  <2>4. Carried(pc[x]) = {}
    BY <1>5 DEF Carried, Compacting
  <2> QED
    BY <1>2, <1>3, <1>5, <2>2, <2>3, <2>4, CompactorWaitsKeeps
<1>6. ASSUME Compact_Start(x) PROVE NInv'
  BY <1>5, <1>6 DEF Compact_Start
<1>7. ASSUME Compact_End(x) PROVE NInv'
  BY <1>5, <1>7 DEF Compact_End
<1>8. ASSUME Compact_Lock(x, "lock1", "rename") PROVE NInv'
  <2>1. pc[x] \in [at : {"lock1", "rename", "read"}, table : Tables, inode : Nat]
    BY <1>1, <1>8, CompactorKnows DEF Compact_Lock
  <2>2. PICK p : p = [pc[x] EXCEPT !.at = "rename"]
    OBVIOUS
  <2>3. p.at = "rename" /\ p.table = pc[x].table
    BY <2>1, <2>2
  <2>4. Goto(x, p)
    BY <1>1, <1>8, <2>2, GoesAt DEF Compact_Lock
  <2> QED
    BY <1>5, <1>8, <2>3, <2>4 DEF Compact_Lock
<1>9. ASSUME NEW step \in {"delete", "write"}, pc[x].at \in {"lock2", "delete"}, Step(x, step),
             step = "write" => \A j \in TmpNames : tmpc[pc[x].table][j] = NoFile
      PROVE  NInv'
  <2>1. pc[x] \in [at : {"lock2", "delete", "write"}, table : Tables, inode : Nat,
                   unwritten : SUBSET Partitions, merged : SUBSET Record]
    BY <1>1, <1>9, CompactorKnows
  <2>2. PICK p : p = [pc[x] EXCEPT !.at = step]
    OBVIOUS
  <2>3. p.at = step /\ p.table = pc[x].table /\ p.unwritten = pc[x].unwritten /\ p.merged = pc[x].merged
    BY <2>1, <2>2
  <2>4. Goto(x, p)
    BY <1>1, <1>9, <2>2, GoesAt
  <2>5. RenamesAt(p) /\ CompactionAt(p)
    BY <1>4, <1>9, <2>3 DEF RenamesAt, CompactionAt
  <2>6. Carried(pc[x]) = Carried(p)
    BY <1>9, <2>3 DEF Carried, Compacting
  <2>7. \A j \in TmpNames : tmpc[pc[x].table][j] # NoFile => p.at \in {"rename", "read", "lock2", "delete"}
    BY <1>9, <2>3
  <2> QED
    BY <1>2, <1>3, <2>3, <2>4, <2>5, <2>6, <2>7, CompactorWaitsKeeps
<1>10. ASSUME Compact_Lock(x, "lock2", "delete") PROVE NInv'
  BY <1>9, <1>10 DEF Compact_Lock
<1>11. ASSUME Compact_Deleted(x) PROVE NInv'
  BY <1>9, <1>11 DEF Compact_Deleted
<1>12. ASSUME Compact_Renamed(x) PROVE NInv'
  <2>1. pc[x].at = "rename" /\ pc[x] \in [at : {"lock1", "rename", "read"}, table : Tables, inode : Nat]
    BY <1>1, <1>12, CompactorKnows DEF Compact_Renamed
  <2>2. PICK p : p = [pc[x] EXCEPT !.at = "read"]
    OBVIOUS
  <2>3. p.at = "read" /\ p.table = pc[x].table
    BY <2>1, <2>2
  <2>4. Goto(x, p)
    BY <1>1, <1>12, <2>2, GoesAt DEF Compact_Renamed
  <2>5. RenamesAt(p) /\ CompactionAt(p) /\ Carried(pc[x]) = {}
    BY <2>1, <2>3 DEF RenamesAt, CompactionAt, Carried, Compacting
  <2> QED
    BY <1>2, <1>3, <2>3, <2>4, <2>5, CompactorWaitsKeeps
<1> QED
  BY <1>6, <1>7, <1>8, <1>10, <1>11, <1>12

\* A .tmpc file is deleted when its records are merged and none is written.
LEMMA DeleteKeeps ==
  ASSUME TInv, TInv', FInv, LInv, NInv, NEW x \in Compactors, _borrarTmpc(x)
  PROVE  NInv'
<1>1. DataOK /\ DataOK' /\ PcOK /\ pc[x] \in CompactorState /\ x \in Threads
  BY Types, TypesNext DEF PcOK, StatesOK, Threads
<1>2. pc[x].at = "delete" /\ Active(x)
  BY DEF _borrarTmpc, Active
<1>3. pc[x] \in [at : {"lock2", "delete", "write"}, table : Tables, inode : Nat,
                 unwritten : SUBSET Partitions, merged : SUBSET Record]
  BY <1>1, <1>2, CompactorKnows
<1>4. PICK t \in Tables : t = pc[x].table
  BY <1>3
<1>5. PICK j \in TmpNames : tmpc' = [tmpc EXCEPT ![t][j] = NoFile]
  BY <1>4 DEF _borrarTmpc
<1>6. \A a \in Tables, b \in TmpNames : tmpc'[a][b] = IF a = t /\ b = j THEN NoFile ELSE tmpc[a][b]
  <2>1. tmpc \in [Tables -> [TmpNames -> File]]
    BY <1>1 DEF DataOK
  <2> QED
    BY <1>5, <2>1, FileAfter
<1>7. UNCHANGED <<dirs, memtable, old, acked, bin, tmp>> /\ pc' = pc
  BY DEF _borrarTmpc
<1>8. /\ tmpc[t] \in [TmpNames -> File] /\ tmpc'[t] \in [TmpNames -> File]
      /\ bin[t] \in [Partitions -> File] /\ tmp[t] \in [TmpNames -> File]
  BY <1>1 DEF DataOK
<1>9. Contents(tmpc'[t]) \subseteq Contents(tmpc[t])
  <2>1. \A i \in TmpNames : \A r : r \in Content(tmpc'[t][i]) => r \in Content(tmpc[t][i])
    BY <1>6, ContentFacts
  <2> QED
    BY <1>8, <2>1, ContentsFacts
<1>10. CompactionAt(pc[x])
  BY DEF NInv, CompactionsAreWhole
<1>11. pc[x].unwritten = Partitions /\ Covered(Contents(tmpc[t]), pc[x].merged)
  BY <1>2, <1>4, <1>10 DEF CompactionAt
<1>12. CompactionAt(pc[x])'
  <2>1. Covered(Contents(tmpc'[t]), pc[x].merged)
    BY <1>9, <1>11 DEF Covered
  <2> QED
    BY <1>2, <1>4, <1>7, <1>10, <1>11, <2>1 DEF CompactionAt
<1>17. RenamesAt(pc[x])'
  BY <1>2, <1>7 DEF RenamesAt
<1>13. ASSUME NEW r \in Stored(t)
       PROVE  \E s \in Stored(t)' \cup Carried(pc[x]) : s.key = r.key /\ s.timestamp >= r.timestamp
  <2>1. CASE r \in Contents(tmpc[t])
    <3>1. PICK s \in pc[x].merged : s.key = r.key /\ s.timestamp >= r.timestamp
      BY <1>11, <2>1 DEF Covered
    <3>2. s \in Record
      BY <1>3
    <3>3. Part(s.key) \in pc[x].unwritten
      BY <1>11, <3>2, RecordFacts, PartFacts
    <3>4. s \in Carried(pc[x])
      BY <1>2, <3>3 DEF Carried, Compacting
    <3> QED
      BY <3>1, <3>4
  <2>2. CASE r \in Contents(bin[t]) \cup Contents(tmp[t])
    <3>1. r \in Stored(t)'
      BY <1>7, <2>2 DEF Stored
    <3>2. Stored(t) \in SUBSET Record
      BY <1>1, StoredIsRecords
    <3>3. r.timestamp \in Nat
      BY <1>13, <3>2, RecordFacts DEF Times
    <3>4. r.timestamp >= r.timestamp
      BY <3>3
    <3> QED
      BY <3>1, <3>4
  <2> QED
    BY <1>13, <2>1, <2>2 DEF Stored
<1>14. /\ \A u \in Tables : u # t => bin'[u] = bin[u] /\ tmp'[u] = tmp[u] /\ tmpc'[u] = tmpc[u]
       /\ \A q \in Partitions : bin[t][q] # NoFile => bin'[t][q] # NoFile
       /\ tmp'[t] = tmp[t]
  <2>1. \A u \in Tables : u # t => tmpc'[u] = tmpc[u]
    BY <1>1, <1>5 DEF DataOK
  <2> QED
    BY <1>7, <2>1
<1>15. pc'[x] = pc[x] /\ \A u \in Threads : u # x => pc'[u] = pc[u]
  BY <1>7
<1>16. Carried(pc[x]) \subseteq Stored(t)' \cup Carried(pc[x])
  OBVIOUS
<1> QED
  BY <1>2, <1>4, <1>7, <1>12, <1>13, <1>14, <1>15, <1>16, <1>17, CompactorGoesKeeps

\* A partition is written with all that was merged of its keys.
LEMMA WriteKeeps ==
  ASSUME TInv, TInv', PInv, FInv, LInv, NInv, Lossless, NEW x \in Compactors, Compact_Write(x)
  PROVE  NInv'
<1>1. DataOK /\ DataOK' /\ PcOK /\ pc[x] \in CompactorState /\ x \in Threads
  BY Types, TypesNext DEF PcOK, StatesOK, Threads
<1>2. pc[x].at = "write" /\ Active(x) /\ pc[x].unwritten # {}
  BY DEF Compact_Write, Active
<1>3. pc[x] \in [at : {"lock2", "delete", "write"}, table : Tables, inode : Nat,
                 unwritten : SUBSET Partitions, merged : SUBSET Record]
  BY <1>1, <1>2, CompactorKnows
<1>4. PICK t \in Tables : t = pc[x].table
  BY <1>3
<1>5. PICK merged \in SUBSET Record : merged = pc[x].merged
  BY <1>3
<1>6. PICK q : q = Min(pc[x].unwritten)
  OBVIOUS
<1>7. q \in pc[x].unwritten /\ q \in Partitions
  <2>1. pc[x].unwritten \in SUBSET Nat /\ pc[x].unwritten \subseteq Partitions
    BY <1>3 DEF Partitions
  <2> QED
    BY <1>2, <1>6, <2>1, Least
<1>8. PICK left : left = pc[x].unwritten \ {q}
  OBVIOUS
<1>9. PICK p : p = [pc[x] EXCEPT !.unwritten = left]
  OBVIOUS
<1>10. p.at = "write" /\ p.table = t /\ p.merged = merged /\ p.unwritten = left
  BY <1>2, <1>3, <1>4, <1>5, <1>9
<1>11. pc'[x] = p /\ \A u \in Threads : u # x => pc'[u] = pc[u]
  <2>1. pc' = [pc EXCEPT ![x] = p]
    BY <1>1, <1>6, <1>8, <1>9 DEF Compact_Write, PcOK
  <2> QED
    BY <1>1, <2>1 DEF PcOK
<1>12. UNCHANGED <<dirs, memtable, old, acked, tmp, tmpc>>
  BY DEF Compact_Write
<1>13. bin[t][q] # NoFile
  BY <1>2, <1>4, <1>7, BinsOfCompactor
<1>14. bin' = [bin EXCEPT ![t][q] = InPart(merged, q)]
  BY <1>4, <1>5, <1>6, <1>13 DEF Compact_Write, Lossless, InPart
<1>15. /\ \A a \in Tables, b \in Partitions : bin'[a][b] = IF a = t /\ b = q THEN InPart(merged, q) ELSE bin[a][b]
       /\ \A u \in Tables : u # t => bin'[u] = bin[u]
  <2>1. bin \in [Tables -> [Partitions -> File]]
    BY <1>1 DEF DataOK
  <2>2. \A a \in Tables, b \in Partitions : bin'[a][b] = IF a = t /\ b = q THEN InPart(merged, q) ELSE bin[a][b]
    BY <1>14, <2>1, FileAfter
  <2>3. \A u \in Tables : u # t => bin'[u] = bin[u]
    BY <1>14, <2>1
  <2> QED
    BY <2>2, <2>3
<1>16. InPart(merged, q) \in SUBSET Record /\ Content(InPart(merged, q)) = InPart(merged, q)
  BY ContentFacts DEF InPart
<1>17. \A b \in Partitions : bin[t][b] # NoFile => bin'[t][b] # NoFile
  BY <1>15, <1>16, RecordFacts
<1>18. /\ bin[t] \in [Partitions -> File] /\ bin'[t] \in [Partitions -> File]
       /\ tmp'[t] = tmp[t] /\ tmpc'[t] = tmpc[t]
  BY <1>1, <1>12 DEF DataOK
<1>19. InPart(merged, q) \subseteq Stored(t)'
  <2>1. bin'[t][q] = InPart(merged, q)
    BY <1>7, <1>15
  <2>2. \A r \in InPart(merged, q) : r \in Contents(bin'[t])
    BY <1>7, <1>16, <1>18, <2>1, ContentsFacts
  <2> QED
    BY <2>2 DEF Stored
<1>20. CompactionAt(pc[x])
  BY DEF NInv, CompactionsAreWhole
<1>21. \A b \in pc[x].unwritten : Covered(Content(bin[t][b]), merged)
  BY <1>2, <1>4, <1>5, <1>20 DEF CompactionAt
<1>22. CompactionAt(p)'
  <2>1. ASSUME NEW b \in left PROVE Covered(Content(bin'[t][b]), merged)
    <3>1. b \in pc[x].unwritten /\ b \in Partitions /\ b # q
      BY <1>3, <1>8, <2>1
    <3>2. bin'[t][b] = bin[t][b]
      BY <1>15, <3>1
    <3> QED
      BY <1>21, <3>1, <3>2
  <2> QED
    BY <1>10, <2>1 DEF CompactionAt
<1>26. RenamesAt(p)'
  BY <1>10 DEF RenamesAt
<1>23. \A j \in TmpNames : tmpc'[t][j] = NoFile
  <2>1. \A j \in TmpNames : tmpc[t][j] = NoFile
    BY <1>2, <1>4, NoTmpc
  <2> QED
    BY <1>18, <2>1
<1>24. ASSUME NEW r \in Stored(t)
       PROVE  \E s \in Stored(t)' \cup Carried(p) : s.key = r.key /\ s.timestamp >= r.timestamp
  <2>1. r \in Record
    BY <1>1, <1>24, StoredIsRecords
  <2>2. CASE r \in Content(bin[t][q])
    <3>1. PICK s \in merged : s.key = r.key /\ s.timestamp >= r.timestamp
      BY <1>7, <1>21, <2>2 DEF Covered
    <3>2. Part(r.key) = q
      BY <1>7, <2>2 DEF PInv, PartitionsAreMerged
    <3>3. s \in InPart(merged, q)
      BY <3>1, <3>2 DEF InPart
    <3> QED
      BY <1>19, <3>1, <3>3
  <2>3. CASE r \in Stored(t)'
    <3>1. r.timestamp \in Nat
      BY <2>1, RecordFacts DEF Times
    <3>2. r.timestamp >= r.timestamp
      BY <3>1
    <3> QED
      BY <2>3, <3>2
  <2>4. r \in Content(bin[t][q]) \/ r \in Stored(t)'
    <3>1. CASE r \in Contents(bin[t])
      <4>1. PICK b \in Partitions : r \in Content(bin[t][b])
        BY <1>18, <3>1, ContentsFacts
      <4>2. CASE b # q
        <5>1. bin'[t][b] = bin[t][b]
          BY <1>15, <4>2
        <5>2. r \in Contents(bin'[t])
          BY <1>18, <4>1, <5>1, ContentsFacts
        <5> QED
          BY <5>2 DEF Stored
      <4> QED
        BY <4>1, <4>2
    <3>2. CASE r \in Contents(tmp[t]) \cup Contents(tmpc[t])
      BY <1>18, <3>2 DEF Stored
    <3> QED
      BY <1>24, <3>1, <3>2 DEF Stored
  <2> QED
    BY <2>2, <2>3, <2>4
<1>25. Carried(pc[x]) \subseteq Stored(t)' \cup Carried(p)
  <2>1. ASSUME NEW r \in Carried(pc[x]) PROVE r \in Stored(t)' \cup Carried(p)
    <3>1. r \in merged /\ Part(r.key) \in pc[x].unwritten
      BY <1>2, <1>5, <2>1 DEF Carried, Compacting
    <3>2. CASE Part(r.key) = q
      BY <1>19, <3>1, <3>2 DEF InPart
    <3>3. CASE Part(r.key) # q
      BY <1>8, <1>10, <3>1, <3>3 DEF Carried, Compacting
    <3> QED
      BY <3>2, <3>3
  <2> QED
    BY <2>1
<1> QED
  BY <1>2, <1>4, <1>10, <1>11, <1>12, <1>15, <1>17, <1>18, <1>22, <1>23, <1>24, <1>25, <1>26, CompactorGoesKeeps

\* All the steps of a compactor,
LEMMA CompactorKeeps ==
  ASSUME TInv, TInv', PInv, FInv, LInv, NInv, Lossless, NEW x \in Compactors, Compactor(x)
  PROVE  NInv'
BY RenameKeeps, ReadKeeps, WaitKeeps, DeleteKeeps, WriteKeeps DEF Compactor

\* The process goes on: no thread writes to a file it could not create.
LEMMA NothingDies ==
  ASSUME TInv, FInv, NInv, Lossless
  PROVE  ~Crash /\ (\A th \in Threads : ~Segfault(th)) /\ \A c \in Clients : ~Describe_Segfault(c)
<1>1. ~Crash
  BY DEF Crash, Lossless
<1>2. \A c \in Clients : ~Describe_Segfault(c)
  BY DEF NInv, NobodyDescribes, Describe_Segfault, Missing
<1>3. ASSUME NEW th \in Threads, Segfault(th) PROVE FALSE
  <2>1. pc[th].at \in {"create", "metadata", "bins"} /\ pc[th].table \notin dirs
    BY <1>3 DEF Segfault
  <2>2. CASE th \in Clients
    <3>1. pc[th].at \in {"metadata", "bins"}
      BY <2>1, <2>2 DEF TInv, TypeOK, ClientSteps
    <3> QED
      BY <2>1, <2>2, <3>1 DEF FInv, WritersAreAlone, AloneAt
  <2>3. CASE th \in Dumpers
    <3>1. pc[th].at = "create"
      BY <2>1, <2>3 DEF TInv, TypeOK
    <3> QED
      BY <2>1, <2>3, <3>1 DEF NInv, DumpsAreWhole, DumpAt
  <2>4. CASE th \in Compactors
    BY <2>1, <2>4 DEF TInv, TypeOK
  <2> QED
    BY <2>2, <2>3, <2>4 DEF Threads
<1> QED
  BY <1>1, <1>2, <1>3

\* The steps at which the process starts.
LEMMA StartSteps ==
  ASSUME iniciarFileSystem
  PROVE  /\ \A c \in Clients : pc'[c].at = "idle"
         /\ \A d \in Dumpers : pc'[d].at = "idle"
         /\ \A x \in Compactors : pc'[x].at \in {"none", "sleep"}
<1>1. PICK started \in [Tables -> Compactors \cup {Nobody}] :
        pc' = [th \in Threads |->
                 IF th \notin Compactors THEN [at |-> "idle"]
                 ELSE IF \E t \in dirs : started[t] = th
                      THEN [at |-> "sleep", table |-> CHOOSE t \in dirs : started[t] = th]
                      ELSE [at |-> "none"]]
  BY Zenon DEF iniciarFileSystem
<1>2. ASSUME NEW th \in Threads, th \notin Compactors PROVE pc'[th].at = "idle"
  <2>1. pc'[th] = [at |-> "idle"]
    BY <1>1, <1>2
  <2> QED
    BY <2>1
<1>3. ASSUME NEW x \in Compactors PROVE pc'[x].at \in {"none", "sleep"}
  <2>1. x \in Threads
    BY DEF Threads
  <2>2. CASE \E t \in dirs : started[t] = x
    <3>1. pc'[x] = [at |-> "sleep", table |-> CHOOSE t \in dirs : started[t] = x]
      BY <1>1, <2>1, <2>2
    <3> QED
      BY <3>1
  <2>3. CASE ~\E t \in dirs : started[t] = x
    <3>1. pc'[x] = [at |-> "none"]
      BY <1>1, <2>1, <2>3
    <3> QED
      BY <3>1
  <2> QED
    BY <2>2, <2>3
<1> QED
  BY <1>2, <1>3 DEF Threads

\* The process starts, with nothing under way.
LEMMA StartKeeps ==
  ASSUME TInv, TInv', NInv, iniciarFileSystem
  PROVE  NInv'
<1>1. UNCHANGED <<dirs, bin, tmp, tmpc, memtable, old, acked>>
  BY DEF iniciarFileSystem, files
<1>2. \A th \in Threads : pc[th].at = "down"
  BY DEF iniciarFileSystem, Down
<1>3. /\ \A c \in Clients : pc'[c].at = "idle"
      /\ \A d \in Dumpers : pc'[d].at = "idle"
      /\ \A x \in Compactors : pc'[x].at \in {"none", "sleep"}
  BY StartSteps
<1>4. NobodyDescribes'
  BY <1>3 DEF NobodyDescribes
<1>5. BinsExist'
  <2>1. \A c \in Clients : pc[c].at \notin {"metadata", "bins"}
    BY <1>2 DEF Threads
  <2> QED
    BY <1>1, <2>1 DEF NInv, BinsExist, Makes
<1>6. RecordsHaveTables'
  BY <1>1, <1>3 DEF NInv, RecordsHaveTables
<1>7. DumpsAreWhole'
  <2>1. \A d \in Dumpers : pc[d].at = "down" /\ \A t \in Tables : old[d][t] = {}
    BY <1>2 DEF NInv, DumpsAreWhole, DumpAt, Threads
  <2> QED
    BY <1>1, <1>3, <2>1 DEF DumpsAreWhole, DumpAt
<1>8. CompactionsAreWhole'
  <2>1. \A t \in Tables, j \in TmpNames : tmpc[t][j] = NoFile
    BY <1>2 DEF NInv, CompactionsAreWhole, TmpcAreRead, Threads
  <2> QED
    BY <1>1, <1>3, <2>1 DEF CompactionsAreWhole, TmpcAreRead, RenamesAt, CompactionAt
<1>9. \A t : InTransit(t)' = InTransit(t)
  BY <1>2, <1>3, TransitKept DEF SameTransit, Compacting, Threads
<1>10. \A t \in Tables : Held(t) \subseteq Held(t)'
  <2>1. \A t : Dumping(t)' = Dumping(t) /\ Stored(t)' = Stored(t)
    BY <1>1 DEF Dumping, Stored
  <2> QED
    BY <1>1, <1>9, <2>1 DEF Held
<1>11. NoRecordLost'
  BY <1>1, <1>10, AllHeld DEF NInv
<1> QED
  BY <1>4, <1>5, <1>6, <1>7, <1>8, <1>11 DEF NInv

\* and those of a client.
LEMMA ClientStepKeeps ==
  ASSUME TInv, TInv', FInv, LInv, NInv, Lossless, NEW c \in Clients, Client(c)
  PROVE  NInv'
<1>1. NoDrops
  BY DEF NoDrops, Lossless
<1>2. ~Create_NoSpace(c)
  BY DEF Create_NoSpace, Lossless
<1>3. ~(Describe_Tables(c) \/ Describe_Open(c) \/ traverse(c) \/ Describe_Segfault(c) \/ Describe_End(c))
  <2>1. "describe" \notin Ops
    BY DEF Lossless
  <2>2. pc[c].at \notin {"tables", "entries"}
    BY DEF NInv, NobodyDescribes
  <2> QED
    BY <2>1, <2>2, NothingDies DEF Describe_Tables, Describe_Open, traverse, Describe_End
<1> QED
  BY <1>1, <1>2, <1>3, DropLocks, InsertKeeps, SelectKeeps, CreateKeeps DEF Client

\* So no step loses a record,
LEMMA NextNInv ==
  ASSUME Lossless
  PROVE  TInv /\ TInv' /\ PInv /\ FInv /\ LInv /\ NInv /\ [Next]_vars => NInv'
<1> SUFFICES ASSUME TInv, TInv', PInv, FInv, LInv, NInv, [Next]_vars PROVE NInv'
  OBVIOUS
<1>1. CASE UNCHANGED vars
  <2>1. UNCHANGED <<dirs, bin, tmp, tmpc, memtable, old, pc, acked>>
    BY <1>1 DEF vars, files
  <2>2. \A t : InTransit(t)' = InTransit(t) /\ Dumping(t)' = Dumping(t) /\ Stored(t)' = Stored(t)
    BY <2>1 DEF InTransit, Dumping, Stored
  <2> QED
    BY <2>1, <2>2 DEF NInv, NobodyDescribes, BinsExist, Makes, RecordsHaveTables, DumpsAreWhole, DumpAt,
      CompactionsAreWhole, TmpcAreRead, RenamesAt, CompactionAt, NoRecordLost, Held
<1> QED
  BY <1>1, NothingDies, ClientStepKeeps, CompactorKeeps, DumperKeeps, StartKeeps DEF Next

\* and at first there is none to lose.
LEMMA InitNInv == Init => NInv
<1> SUFFICES ASSUME Init PROVE NInv
  OBVIOUS
<1>1. \A th \in Threads : pc[th].at = "down"
  BY DEF Init
<1>2. NobodyDescribes
  BY <1>1 DEF NobodyDescribes, Threads
<1>3. BinsExist
  <2>1. NoFile # {}
    BY RecordFacts
  <2>2. \A t \in dirs, p \in Partitions : bin[t][p] = {}
    BY DEF Init
  <2> QED
    BY <2>1, <2>2 DEF BinsExist
<1>4. RecordsHaveTables
  BY <1>1 DEF RecordsHaveTables, Init, Threads
<1>5. DumpsAreWhole
  BY <1>1 DEF DumpsAreWhole, DumpAt, Init, Threads
<1>6. CompactionsAreWhole
  <2>1. \A t \in Tables, j \in TmpNames : tmpc[t][j] = NoFile
    BY DEF Init
  <2> QED
    BY <1>1, <2>1 DEF CompactionsAreWhole, TmpcAreRead, RenamesAt, CompactionAt, Threads
<1>7. NoRecordLost
  BY DEF NoRecordLost, Init
<1> QED
  BY <1>2, <1>3, <1>4, <1>5, <1>6, <1>7 DEF NInv

\* While the process runs on, with room on its disk, and tables are created by one client and not
\* dropped, no accepted INSERT is lost between api_insert, the dump and the compaction.
THEOREM LFSNoRecordLost == ASSUME Lossless PROVE Spec => []NoRecordLost
<1> DEFINE IInv == TInv /\ PInv /\ FInv /\ LInv /\ NInv
<1>1. OneWriter /\ NoDrops
  BY DEF Lossless, NoDrops
<1>2. IInv => NoRecordLost
  BY DEF NInv
<1>3. Init => IInv
  BY InitTypes, InitPInv, InitFInv, InitLInv, InitNInv
<1>4. IInv /\ [Next]_vars => IInv'
  BY <1>1, NextTInv, NextPInv, NextFInv, NextLInv, NextNInv
<1> HIDE DEF IInv
<1> QED
  BY <1>2, <1>3, <1>4, PTL DEF Spec

-----------------------------------------------------------------------------
(***************************************************************************)
(* How records are lost.                                                   *)
(***************************************************************************)
\* Between the deletion of a table and its creation two dumps of it could write to one file.
OneDumper == \A d, e \in Dumpers : d = e

\* A dump has written all it took when it ends, and writes to a file with nothing in it,
DumpsStartEmpty == \A d \in Dumpers : pc[d].at \in {"idle", "down"} => \A t \in Tables : old[d][t] = {}
DumpsToEmptyFiles ==
  \A d \in Dumpers : pc[d].at = "write" => Content(tmp[pc[d].table][pc[d].name]) = {}
\* a compactor has merged what it deletes and overwrites, and it is of its table that one is cancelled.
CompactionsHaveRead == \A x \in Compactors : CompactionAt(pc[x])
CompactorsOfTables ==
  \A t \in Tables : registered[t] # Nobody => Active(registered[t]) /\ pc[registered[t]].table = t

RInv == DumpsStartEmpty /\ DumpsToEmptyFiles /\ CompactionsHaveRead /\ CompactorsOfTables

\* What is held of a key is held after a step, or something as new,
Kept(t, k) ==
  \A r \in Held(t) : r.key = k => \E s \in Held(t)' : s.key = k /\ s.timestamp >= r.timestamp

\* or the step is one of nine.
Excused(t, k) ==
  \/ Die
  \/ \E c \in Clients : /\ memtable_delete_table(c) \/ quitarTablaCompactador(c) \/ traverse_to_drop(c)
                        /\ pc[c].table = t
  \/ \E d \in Dumpers : \/ Dump_NotFound(d) /\ t \notin dirs
                        \/ Dump_NoSpace(d) /\ pc[d].table = t
                        \/ Dump_Write(d) /\ pc[d].table = t /\ UNCHANGED tmp
  \/ \E x \in Compactors :
       \/ _convertirATmpc(x) /\ \E j \in TmpNames : tmpc[t][j] \notin {NoFile, tmpc'[t][j]}
       \/ Compact_Write(x) /\ pc[x].table = t /\ Part(k) = Min(pc[x].unwritten) /\ UNCHANGED bin

\* A record that stays is as new as it was.
LEMMA StaysKept ==
  ASSUME TInv, NEW t \in Tables, NEW k, \A r \in Held(t) : r.key = k => r \in Held(t)'
  PROVE  Kept(t, k)
<1>1. \A r \in Held(t) : r.timestamp \in Nat
  BY HeldTypes, RecordFacts DEF HeldAreRecords, Times
<1>2. \A r \in Held(t) : r.timestamp >= r.timestamp
  BY <1>1
<1> QED
  BY <1>2 DEF Kept

\* Nothing that is kept gets older.
LEMMA KeptIsNotOlder ==
  ASSUME TInv, TInv', NEW t \in Tables, NEW k, Kept(t, k)
  PROVE  ~(Newest(Held(t)', k) < Newest(Held(t), k))
<1>1. PICK before \in SUBSET Record : before = Held(t)
  BY HeldTypes DEF HeldAreRecords
<1>2. PICK after \in SUBSET Record : after = Held(t)'
  BY HeldTypesNext DEF HeldAreRecords
<1>3. PICK these \in SUBSET Record : these = {r \in before : r.key = k}
  OBVIOUS
<1>4. Newest(before, k) = Newest(these, k)
  BY <1>3 DEF Newest
<1>5. \A r \in these : \E s \in after : s.key = r.key /\ s.timestamp >= r.timestamp
  BY <1>1, <1>2, <1>3 DEF Kept
<1>6. Newest(these, k) <= Newest(after, k)
  BY <1>5, NewestCovered
<1>7. Newest(before, k) \in Nat /\ Newest(after, k) \in Nat
  BY NewestFacts DEF Times
<1>8. ~(Newest(after, k) < Newest(before, k))
  BY <1>4, <1>6, <1>7
<1> QED
  BY <1>1, <1>2, <1>8

\* A table whose files hold the same keeps all when no compaction changes and neither its memtable nor a dump loses.
LEMMA SameKept ==
  ASSUME TInv, TInv', SameTransit, NEW t \in Tables, SameContents(t),
         memtable[t] \cup Dumping(t) \subseteq memtable'[t] \cup Dumping(t)'
  PROVE  \A k : Kept(t, k)
<1>1. Stored(t)' = Stored(t)
  BY Types, TypesNext, SameStored
<1>2. InTransit(t)' = InTransit(t)
  BY TransitKept
<1>3. Held(t) \subseteq Held(t)'
  BY <1>1, <1>2 DEF Held
<1> QED
  BY <1>3, StaysKept

\* A compaction stays as it is while its table's files do,
LEMMA CompactionStays ==
  ASSUME RInv, NEW x \in Compactors,
         \/ /\ pc'[x] = pc[x]
            /\ Active(x) => bin'[pc[x].table] = bin[pc[x].table] /\ tmpc'[pc[x].table] = tmpc[pc[x].table]
         \/ pc'[x].at \notin Compacting
  PROVE  CompactionAt(pc[x])'
<1>1. CASE pc'[x].at \notin Compacting
  BY <1>1 DEF CompactionAt, Compacting
<1>2. CASE pc'[x] = pc[x] /\ pc[x].at \in Compacting
  <2>1. Active(x)
    BY <1>2 DEF Active, Compacting
  <2> QED
    BY <1>2, <2>1 DEF RInv, CompactionsHaveRead, CompactionAt
<1> QED
  BY <1>1, <1>2

\* a table's compactor while it works for it,
LEMMA CompactorsStay ==
  ASSUME TInv, RInv, registered' = registered,
         \A x \in Compactors : pc'[x] = pc[x] \/ (Active(x) => Active(x)' /\ pc'[x].table = pc[x].table)
  PROVE  CompactorsOfTables'
<1> SUFFICES ASSUME NEW t \in Tables, registered[t] # Nobody
             PROVE  (Active(registered[t]) /\ pc[registered[t]].table = t)'
  BY DEF CompactorsOfTables
<1>1. PICK x \in Compactors : x = registered[t]
  BY Types DEF DataOK
<1>2. Active(x) /\ pc[x].table = t
  BY <1>1 DEF RInv, CompactorsOfTables
<1> QED
  BY <1>1, <1>2 DEF Active

\* and a dump what it is if it does not move and no other writes to its file.
LEMMA DumpsStay ==
  ASSUME TInv, RInv, old' = old, \A d \in Dumpers : pc'[d] = pc[d],
         \A t \in Tables, j \in TmpNames : tmp'[t][j] = tmp[t][j] \/ tmp'[t][j] = NoFile
  PROVE  DumpsStartEmpty' /\ DumpsToEmptyFiles'
<1>1. DumpsStartEmpty'
  BY DEF RInv, DumpsStartEmpty
<1>2. DumpsToEmptyFiles'
  <2> SUFFICES ASSUME NEW d \in Dumpers, pc'[d].at = "write"
               PROVE  Content(tmp'[pc'[d].table][pc'[d].name]) = {}
    BY DEF DumpsToEmptyFiles
  <2>1. pc'[d] = pc[d] /\ pc[d].at = "write"
    OBVIOUS
  <2>2. pc[d].table \in Tables /\ pc[d].name \in TmpNames
    BY <2>1, Types, DumperKnows DEF PcOK, StatesOK
  <2>3. Content(tmp[pc[d].table][pc[d].name]) = {} /\ Content(NoFile) = {}
    BY <2>1, ContentFacts DEF RInv, DumpsToEmptyFiles
  <2> QED
    BY <2>1, <2>2, <2>3
<1> QED
  BY <1>1, <1>2

\* Nothing is under way when the process ends.
LEMMA DieLoses ==
  ASSUME TInv, Die
  PROVE  RInv'
<1>1. \A th \in Threads : pc'[th].at = "down"
  BY DEF Die
<1>2. CompactionsHaveRead' /\ DumpsToEmptyFiles'
  BY <1>1 DEF DumpsToEmptyFiles, CompactionsHaveRead, CompactionAt, Threads
<1>3. DumpsStartEmpty'
  BY DEF Die, DumpsStartEmpty
<1>4. CompactorsOfTables'
  BY DEF Die, CompactorsOfTables
<1> QED
  BY <1>2, <1>3, <1>4 DEF RInv

\* The process starts with nothing in transit and a compactor for each table.
LEMMA StartLoses ==
  ASSUME TInv, TInv', RInv, iniciarFileSystem
  PROVE  RInv' /\ \A t \in Tables, k \in Keys : Kept(t, k)
<1>1. (\A d \in Dumpers : pc'[d].at = "idle") /\ \A x \in Compactors : pc'[x].at \notin Compacting
  BY StartSteps DEF Compacting
<1>2. \A th \in Threads : pc[th].at = "down"
  BY DEF iniciarFileSystem, Down
<1>3. UNCHANGED <<files, memtable, old>>
  BY DEF iniciarFileSystem
<1>4. DumpsStartEmpty' /\ DumpsToEmptyFiles'
  <2>1. \A d \in Dumpers, t \in Tables : old[d][t] = {}
    BY <1>2 DEF RInv, DumpsStartEmpty, Threads
  <2> QED
    BY <1>1, <1>3, <2>1 DEF DumpsStartEmpty, DumpsToEmptyFiles
<1>5. CompactionsHaveRead'
  BY <1>1, CompactionStays DEF CompactionsHaveRead
<1>6. CompactorsOfTables'
  <2>1. PICK started \in [Tables -> Compactors \cup {Nobody}] :
          /\ \A t \in Tables : (started[t] # Nobody) <=> (t \in dirs)
          /\ \A t, u \in dirs : started[t] = started[u] => t = u
          /\ registered' = started
          /\ pc' = [th \in Threads |->
                      IF th \notin Compactors THEN [at |-> "idle"]
                      ELSE IF \E t \in dirs : started[t] = th
                           THEN [at |-> "sleep", table |-> CHOOSE t \in dirs : started[t] = th]
                           ELSE [at |-> "none"]]
    BY Zenon DEF iniciarFileSystem
  <2>2. ASSUME NEW t \in Tables, started[t] # Nobody
        PROVE  pc'[started[t]].at = "sleep" /\ pc'[started[t]].table = t
    <3>1. PICK x \in Compactors : x = started[t]
      BY <2>2
    <3>2. t \in dirs
      BY <2>1, <2>2
    <3>3. PICK u : u = CHOOSE a \in dirs : started[a] = x
      OBVIOUS
    <3>4. u \in dirs /\ started[u] = x
      BY <3>1, <3>2, <3>3
    <3>5. u = t
      BY <2>1, <3>1, <3>2, <3>4
    <3>6. x \in Threads
      BY DEF Threads
    <3>7. pc'[x] = [at |-> "sleep", table |-> u]
      BY <2>1, <3>1, <3>2, <3>3, <3>6
    <3> QED
      BY <3>1, <3>5, <3>7
  <2> QED
    BY <2>1, <2>2 DEF CompactorsOfTables, Active
<1>7. SameTransit
  BY <1>1, <1>2 DEF SameTransit, Compacting, Threads
<1>8. \A t \in Tables : SameContents(t) /\ memtable'[t] = memtable[t] /\ Dumping(t)' = Dumping(t)
  BY <1>3, SameFilesSame DEF Dumping
<1>9. \A t \in Tables, k \in Keys : Kept(t, k)
  BY <1>7, <1>8, SameKept
<1> QED
  BY <1>4, <1>5, <1>6, <1>9 DEF RInv

\* Clients change files of tables that have no compactor only.
LEMMA ClientFilesAlone ==
  ASSUME TInv, FInv, NEW c \in Clients, Client(c), NEW x \in Compactors, Active(x)
  PROVE  bin'[pc[x].table] = bin[pc[x].table] /\ tmpc'[pc[x].table] = tmpc[pc[x].table]
<1>1. DataOK /\ registered[pc[x].table] # Nobody /\ pc[x].table \in Tables
  BY Types DEF FInv, CompactorsFollowTables, Active, DataOK
<1>2. CASE UNCHANGED files
  BY <1>2 DEF files
<1>3. pc[c].at \in {"bins", "delete"} => pc[x].table # pc[c].table
  BY <1>1 DEF FInv, WritersAreAlone, AloneAt
<1>4. CASE Create_Bins(c)
  <2>1. pc[x].table # pc[c].table /\ tmpc' = tmpc
    BY <1>3, <1>4 DEF Create_Bins
  <2> QED
    BY <1>1, <1>4, <2>1 DEF Create_Bins, DataOK
<1>5. CASE traverse_to_drop(c)
  <2>1. pc[x].table # pc[c].table
    BY <1>3, <1>5 DEF traverse_to_drop
  <2> QED
    BY <1>1, <1>5, <2>1 DEF traverse_to_drop, DataOK
<1> QED
  BY <1>2, <1>4, <1>5, ClientFiles

\* They remove a .tmp or none.
LEMMA ClientTmp ==
  ASSUME TInv, NEW c \in Clients, Client(c)
  PROVE  \A t \in Tables, j \in TmpNames : tmp'[t][j] = tmp[t][j] \/ tmp'[t][j] = NoFile
<1>1. UNCHANGED files \/ Create_Bins(c) => tmp' = tmp
  BY DEF files, Create_Bins
<1>2. traverse_to_drop(c) => \A t \in Tables, j \in TmpNames : tmp'[t][j] = tmp[t][j] \/ tmp'[t][j] = NoFile
  BY DropOne
<1> QED
  BY <1>1, <1>2, ClientFiles

\* Files a client creates are empty, and those it deletes are of one table.
LEMMA ClientContentsOf ==
  ASSUME TInv, NEW c \in Clients, Client(c), NEW t \in Tables, ~(traverse_to_drop(c) /\ pc[c].table = t)
  PROVE  SameContents(t)
<1>1. CASE UNCHANGED files
  BY <1>1, SameFilesSame
<1>2. Content({}) = {} /\ Content(NoFile) = {}
  BY ContentFacts
<1>3. CASE Create_Bins(c)
  <2>1. \A p \in Partitions : bin'[t][p] = bin[t][p] \/ (bin'[t][p] = {} /\ bin[t][p] = NoFile)
    BY <1>3, CreateOne
  <2> QED
    BY <1>2, <1>3, <2>1 DEF Create_Bins, SameContents
<1>4. CASE traverse_to_drop(c)
  <2>1. \A q \in Partitions : bin'[t][q] = bin[t][q]
    BY <1>4, DropOne
  <2>2. \A j \in TmpNames : tmp'[t][j] = tmp[t][j]
    BY <1>4, DropOne
  <2>3. \A j \in TmpNames : tmpc'[t][j] = tmpc[t][j]
    BY <1>4, DropOne
  <2> QED
    BY <2>1, <2>2, <2>3 DEF SameContents
<1> QED
  BY <1>1, <1>3, <1>4, ClientFiles

\* The memtable of a table is emptied by its DROP only, and what dumps took by none.
LEMMA ClientMemory ==
  ASSUME TInv, NEW c \in Clients, Client(c), ~Describe_Segfault(c),
         NEW t \in Tables, ~(memtable_delete_table(c) /\ pc[c].table = t)
  PROVE  old' = old /\ memtable[t] \subseteq memtable'[t]
<1>1. DataOK
  BY Types
<1>2. CASE memtable_new_elem(c)
  BY <1>1, <1>2 DEF memtable_new_elem, DataOK
<1>3. CASE memtable_delete_table(c)
  BY <1>1, <1>3 DEF memtable_delete_table, DataOK
<1>4. CASE UNCHANGED <<memtable, old>>
  BY <1>4
<1>5. (\E u \in Tables, k \in Keys : Insert_Check(c, u, k) \/ Select_Open(c, u, k)) => UNCHANGED <<memtable, old>>
  BY DEF Insert_Check, Select_Open
<1>6. (\E u \in Tables : Create_Check(c, u) \/ Drop_Check(c, u)) => UNCHANGED <<memtable, old>>
  BY DEF Create_Check, Drop_Check
<1>7. Select_Lock(c) \/ scanParticion(c) \/ Temporaries_Open(c) \/ temporales_get_biggest_timestamp(c)
        => UNCHANGED <<memtable, old>>
  BY DEF Select_Lock, scanParticion, Temporaries_Open, temporales_get_biggest_timestamp
<1>8. Temporaries_Return(c) \/ memtable_get_biggest_timestamp(c) \/ Select_Return(c) => UNCHANGED <<memtable, old>>
  BY DEF Temporaries_Return, memtable_get_biggest_timestamp, Select_Return
<1>9. Create_Dir(c) \/ Create_Metadata(c) \/ Create_Bins(c) \/ Create_NoSpace(c) => UNCHANGED <<memtable, old>>
  BY DEF Create_Dir, Create_Metadata, Create_Bins, Create_NoSpace
<1>10. Drop_Open(c) \/ traverse_to_drop(c) \/ Drop_Dir(c) => UNCHANGED <<memtable, old>>
  BY DEF Drop_Open, traverse_to_drop, Drop_Dir
<1>11. Describe_Tables(c) \/ Describe_Open(c) \/ traverse(c) \/ Describe_End(c) => UNCHANGED <<memtable, old>>
  BY DEF Describe_Tables, Describe_Open, traverse, Describe_End
<1>12. agregarTablaCompactador(c) \/ quitarTablaCompactador(c) => UNCHANGED <<memtable, old>>
  BY DEF agregarTablaCompactador, quitarTablaCompactador
<1> QED
  BY <1>2, <1>3, <1>4, <1>5, <1>6, <1>7, <1>8, <1>9, <1>10, <1>11, <1>12 DEF Client

\* It registers a compactor or forgets one in the two steps for it.
LEMMA ClientRegisters ==
  ASSUME NEW c \in Clients, Client(c), ~Describe_Segfault(c), ~agregarTablaCompactador(c), ~quitarTablaCompactador(c)
  PROVE  registered' = registered
<1>1. (\E u \in Tables, k \in Keys : Insert_Check(c, u, k) \/ Select_Open(c, u, k)) => registered' = registered
  BY DEF Insert_Check, Select_Open
<1>2. (\E u \in Tables : Create_Check(c, u) \/ Drop_Check(c, u)) => registered' = registered
  BY DEF Create_Check, Drop_Check
<1>3. Select_Lock(c) \/ scanParticion(c) \/ Temporaries_Open(c) \/ temporales_get_biggest_timestamp(c)
        => registered' = registered
  BY DEF Select_Lock, scanParticion, Temporaries_Open, temporales_get_biggest_timestamp
<1>4. Temporaries_Return(c) \/ memtable_get_biggest_timestamp(c) \/ Select_Return(c) => registered' = registered
  BY DEF Temporaries_Return, memtable_get_biggest_timestamp, Select_Return
<1>5. Create_Dir(c) \/ Create_Metadata(c) \/ Create_Bins(c) \/ Create_NoSpace(c) => registered' = registered
  BY DEF Create_Dir, Create_Metadata, Create_Bins, Create_NoSpace
<1>6. Drop_Open(c) \/ traverse_to_drop(c) \/ Drop_Dir(c) => registered' = registered
  BY DEF Drop_Open, traverse_to_drop, Drop_Dir
<1>7. Describe_Tables(c) \/ Describe_Open(c) \/ traverse(c) \/ Describe_End(c) => registered' = registered
  BY DEF Describe_Tables, Describe_Open, traverse, Describe_End
<1>8. memtable_new_elem(c) \/ memtable_delete_table(c) => registered' = registered
  BY DEF memtable_new_elem, memtable_delete_table
<1> QED
  BY <1>1, <1>2, <1>3, <1>4, <1>5, <1>6, <1>7, <1>8 DEF Client

\* A client loses what it deletes and what the compactor that it ends had to write.
LEMMA ClientLoses ==
  ASSUME TInv, TInv', FInv, RInv, NEW c \in Clients, Client(c)
  PROVE  RInv' /\ \A t \in Tables, k \in Keys : Kept(t, k) \/ Excused(t, k)
<1>1. DataOK /\ PcOK /\ c \in Threads /\ c \notin Compactors /\ c \notin Dumpers
  BY Types DEF Threads
<1>2. CASE Describe_Segfault(c)
  BY <1>2, DieLoses DEF Describe_Segfault, Excused
<1>3. ASSUME ~Describe_Segfault(c), \A d \in Dumpers : pc'[d] = pc[d],
             \A x \in Compactors : pc'[x] = pc[x] \/ pc'[x].at \notin Compacting, CompactorsOfTables'
      PROVE  RInv'
  <2>1. old' = old
    <3>1. CASE memtable_delete_table(c)
      BY <3>1 DEF memtable_delete_table
    <3>2. CASE ~memtable_delete_table(c) /\ Tables # {}
      BY <1>3, <3>2, ClientMemory
    <3>3. CASE Tables = {}
      BY <1>1, <3>3, TypesNext DEF DataOK
    <3> QED
      BY <3>1, <3>2, <3>3
  <2>2. DumpsStartEmpty' /\ DumpsToEmptyFiles'
    BY <1>3, <2>1, ClientTmp, DumpsStay
  <2>3. \A x \in Compactors : CompactionAt(pc[x])'
    BY <1>3, ClientFilesAlone, CompactionStays
  <2> QED
    BY <1>3, <2>2, <2>3 DEF RInv, CompactionsHaveRead
<1>4. ASSUME ~Describe_Segfault(c), NEW t \in Tables, NEW k \in Keys, ~Excused(t, k)
      PROVE  SameContents(t) /\ memtable[t] \subseteq memtable'[t] /\ Dumping(t)' = Dumping(t)
  <2>1. ~(traverse_to_drop(c) /\ pc[c].table = t) /\ ~(memtable_delete_table(c) /\ pc[c].table = t)
    BY <1>4 DEF Excused
  <2>2. SameContents(t)
    BY <2>1, ClientContentsOf
  <2>3. old' = old /\ memtable[t] \subseteq memtable'[t]
    BY <1>4, <2>1, ClientMemory
  <2> QED
    BY <2>2, <2>3 DEF Dumping
<1>5. ASSUME ~Describe_Segfault(c), SameTransit PROVE \A t \in Tables, k \in Keys : Kept(t, k) \/ Excused(t, k)
  <2>1. ASSUME NEW t \in Tables, NEW k \in Keys, ~Excused(t, k) PROVE Kept(t, k)
    <3>1. SameContents(t) /\ memtable[t] \cup Dumping(t) \subseteq memtable'[t] \cup Dumping(t)'
      BY <1>4, <1>5, <2>1
    <3> QED
      BY <1>5, <3>1, SameKept
  <2> QED
    BY <2>1
<1>6. ASSUME ~Describe_Segfault(c), ~agregarTablaCompactador(c), ~quitarTablaCompactador(c), NEW p, Goto(c, p)
      PROVE  RInv' /\ \A t \in Tables, k \in Keys : Kept(t, k) \/ Excused(t, k)
  <2>1. \A u \in Threads : u # c => pc'[u] = pc[u]
    BY <1>1, <1>6, GoesOn
  <2>2. (\A d \in Dumpers : pc'[d] = pc[d]) /\ (\A x \in Compactors : pc'[x] = pc[x])
    BY <1>1, <2>1 DEF Threads
  <2>3. CompactorsOfTables'
    BY <1>6, <2>2, ClientRegisters, CompactorsStay
  <2> QED
    BY <1>3, <1>5, <1>6, <2>2, <2>3 DEF SameTransit
<1>7. ASSUME agregarTablaCompactador(c), ~Describe_Segfault(c)
      PROVE  RInv' /\ \A t \in Tables, k \in Keys : Kept(t, k) \/ Excused(t, k)
  <2>1. PICK y \in Compactors : /\ pc[y].at = "none"
                                /\ registered' = [registered EXCEPT ![pc[c].table] = y]
                                /\ pc' = [pc EXCEPT ![c] = [at |-> "idle"], ![y] = [at |-> "sleep", table |-> pc[c].table]]
    BY <1>7 DEF agregarTablaCompactador
  <2>2. /\ \A u \in Threads : u # c /\ u # y => pc'[u] = pc[u]
        /\ pc'[y].at = "sleep" /\ pc'[y].table = pc[c].table
    BY <1>1, <2>1 DEF PcOK, Threads
  <2>3. /\ \A d \in Dumpers : pc'[d] = pc[d]
        /\ \A x \in Compactors : pc'[x] = pc[x] \/ (x = y /\ pc'[x].at \notin Compacting /\ pc[x].at \notin Compacting)
    BY <1>1, <2>1, <2>2 DEF Threads, Compacting
  <2>4. CompactorsOfTables'
    <3>1. ASSUME NEW t \in Tables, registered'[t] # Nobody
          PROVE  pc'[registered'[t]].at \notin {"none", "down"} /\ pc'[registered'[t]].table = t
      <4>1. CASE t = pc[c].table
        <5>1. registered'[t] = y
          BY <1>1, <2>1, <4>1 DEF DataOK
        <5> QED
          BY <2>2, <4>1, <5>1
      <4>2. CASE t # pc[c].table
        <5>1. PICK x : x = registered[t]
          OBVIOUS
        <5>2. registered'[t] = x /\ x \in Compactors
          BY <1>1, <2>1, <3>1, <4>2, <5>1 DEF DataOK
        <5>3. Active(x) /\ pc[x].table = t
          BY <3>1, <5>1, <5>2 DEF RInv, CompactorsOfTables
        <5>4. pc'[x] = pc[x]
          BY <2>1, <2>3, <5>2, <5>3 DEF Active
        <5> QED
          BY <5>2, <5>3, <5>4 DEF Active
      <4> QED
        BY <4>1, <4>2
    <3> QED
      BY <3>1 DEF CompactorsOfTables, Active
  <2> QED
    BY <1>3, <1>5, <1>7, <2>3, <2>4 DEF SameTransit
<1>8. ASSUME quitarTablaCompactador(c), ~Describe_Segfault(c)
      PROVE  RInv' /\ \A t \in Tables, k \in Keys : Kept(t, k) \/ Excused(t, k)
  <2>1. PICK u \in Tables : u = pc[c].table
    BY <1>1, <1>8, ClientKnows DEF quitarTablaCompactador, PcOK, StatesOK
  <2>2. PICK y \in Compactors \cup {Nobody} : y = registered[u]
    BY <1>1, <2>1 DEF DataOK
  <2>3. /\ registered' = [registered EXCEPT ![u] = Nobody]
        /\ \A th \in Threads : th # c => pc'[th] = IF th = y THEN [at |-> "none"] ELSE pc[th]
    BY <1>1, <1>8, <2>1, <2>2 DEF quitarTablaCompactador
  <2>4. \A d \in Dumpers : pc'[d] = pc[d]
    BY <1>1, <2>2, <2>3 DEF Threads
  <2>5. \A x \in Compactors : pc'[x] = IF x = y THEN [at |-> "none"] ELSE pc[x]
    BY <1>1, <2>3 DEF Threads
  <2>6. y # Nobody => pc[y].table = u
    BY <2>2 DEF RInv, CompactorsOfTables
  <2>7. CompactorsOfTables'
    <3>1. ASSUME NEW t \in Tables, registered'[t] # Nobody
          PROVE  pc'[registered'[t]].at \notin {"none", "down"} /\ pc'[registered'[t]].table = t
      <4>1. PICK x : x = registered[t]
        OBVIOUS
      <4>2. registered'[t] = x /\ x \in Compactors /\ t # u
        BY <1>1, <2>3, <3>1, <4>1 DEF DataOK
      <4>3. Active(x) /\ pc[x].table = t
        BY <3>1, <4>1, <4>2 DEF RInv, CompactorsOfTables
      <4>4. pc'[x] = pc[x]
        BY <2>5, <2>6, <4>2, <4>3
      <4> QED
        BY <4>2, <4>3, <4>4 DEF Active
    <3> QED
      BY <3>1 DEF CompactorsOfTables, Active
  <2>8. RInv'
    BY <1>3, <1>8, <2>4, <2>5, <2>7 DEF Compacting
  <2>9. ASSUME NEW t \in Tables, NEW k \in Keys, ~Excused(t, k) PROVE Kept(t, k)
    <3>1. t # u
      BY <1>8, <2>1, <2>9 DEF Excused
    <3>2. SameContents(t) /\ memtable[t] \subseteq memtable'[t] /\ Dumping(t)' = Dumping(t)
      BY <1>4, <1>8, <2>9
    <3>3. Stored(t)' = Stored(t)
      BY <3>2, Types, TypesNext, SameStored
    <3>4. ASSUME NEW r \in InTransit(t) PROVE r \in InTransit(t)'
      <4>1. PICK x \in Compactors : /\ pc[x].at \in Compacting /\ pc[x].table = t
                                    /\ r \in pc[x].merged /\ Part(r.key) \in pc[x].unwritten
        BY <3>4, InTransitFacts
      <4>2. x # y
        BY <2>6, <3>1, <4>1
      <4>3. pc'[x] = pc[x]
        BY <2>5, <4>2
      <4> QED
        BY <4>1, <4>3, InTransitNext
    <3>5. Held(t) \subseteq Held(t)'
      BY <3>2, <3>3, <3>4 DEF Held
    <3> QED
      BY <3>5, StaysKept
  <2> QED
    BY <2>8, <2>9
<1> QED
  BY <1>2, <1>6, <1>7, <1>8, ClientGoesOn

\* A dump that is alone loses what finds no directory, no block or no file: it creates an empty file and replaces
\* what is empty.
LEMMA DumperLoses ==
  ASSUME TInv, TInv', RInv, OneDumper, NEW d \in Dumpers, Dumper(d)
  PROVE  RInv' /\ \A t \in Tables, k \in Keys : Kept(t, k) \/ Excused(t, k)
<1>1. DataOK /\ DataOK' /\ PcOK /\ d \in Threads /\ pc[d] \in DumperState /\ Dumpers = {d}
  BY Types, TypesNext DEF PcOK, StatesOK, Threads, OneDumper
<1>2. Content({}) = {} /\ Content(NoFile) = {}
  BY ContentFacts
<1>3. UNCHANGED <<bin, tmpc, registered>>
  BY DEF Dumper, Dump_Swap, Dump_Open, Dump_NotFound, Dump_Lock, Dump_NoSpace, Dump_Create, Dump_Write, Dump_End,
         files
<1>4. \A u \in Threads : u # d => pc'[u] = pc[u]
  <2>1. (\E p : Goto(d, p)) \/ pc' = pc
    <3>1. Dump_Lock(d) => \E p : Goto(d, p)
      BY <1>1, GoesAt DEF Dump_Lock
    <3> QED
      BY <3>1 DEF Dumper, Dump_Swap, Dump_Open, Dump_NotFound, Dump_NoSpace, Dump_Create, Dump_Write, Dump_End
  <2> QED
    BY <1>1, <2>1, GoesOn
<1>5. \A x \in Compactors : pc'[x] = pc[x]
  BY <1>1, <1>4, ThreadsAssumption DEF Threads
<1>6. CompactionsHaveRead' /\ CompactorsOfTables'
  <2>1. CompactorsOfTables'
    BY <1>3, <1>5, CompactorsStay
  <2>2. \A x \in Compactors : CompactionAt(pc[x])'
    BY <1>3, <1>5, CompactionStays
  <2> QED
    BY <2>1, <2>2 DEF CompactionsHaveRead
<1>7. ASSUME NEW t \in Tables,
             memtable[t] \cup old[d][t] \cup Stored(t) \subseteq memtable'[t] \cup old'[d][t] \cup Stored(t)'
      PROVE  \A k : Kept(t, k)
  <2>1. InTransit(t)' = InTransit(t)
    BY <1>5, TransitKept DEF SameTransit
  <2>2. (\A r : r \in Dumping(t) <=> r \in old[d][t]) /\ \A r : r \in Dumping(t)' <=> r \in old'[d][t]
    BY <1>1, DumpingFacts
  <2>3. Held(t) \subseteq Held(t)'
    BY <1>7, <2>1, <2>2 DEF Held
  <2> QED
    BY <2>3, StaysKept
<1>8. UNCHANGED files => \A t \in Tables : Stored(t)' = Stored(t)
  BY DEF Stored, files
<1>9. ASSUME UNCHANGED files, pc'[d].at # "write", pc'[d].at \in {"idle", "down"} => \A t \in Tables : old'[d][t] = {}
      PROVE  RInv'
  BY <1>1, <1>6, <1>9 DEF RInv, DumpsStartEmpty, DumpsToEmptyFiles
<1>10. \A p : Goto(d, p) => pc'[d] = p
  BY <1>1, GoesOn
<1>11. CASE Dump_Swap(d)
  <2>1. pc[d].at = "idle" /\ UNCHANGED files /\ pc'[d] = [at |-> "next"]
    BY <1>10, <1>11 DEF Dump_Swap
  <2>2. \A t \in Tables : old[d][t] = {} /\ old'[d][t] = memtable[t]
    BY <1>1, <1>11, <2>1 DEF Dump_Swap, RInv, DumpsStartEmpty, DataOK
  <2> QED
    BY <1>7, <1>8, <1>9, <2>1, <2>2
<1>12. CASE Dump_Open(d) \/ Dump_Lock(d)
  <2>1. UNCHANGED <<files, memtable, old>>
    BY <1>12 DEF Dump_Open, Dump_Lock
  <2>2. Dump_Open(d) => pc'[d].at = "lock"
    BY <1>10 DEF Dump_Open
  <2>3. Dump_Lock(d) => pc'[d].at = "create"
    <3>1. SUFFICES ASSUME Dump_Lock(d) PROVE pc'[d].at = "create"
      OBVIOUS
    <3>2. pc[d] \in [at : {"lock", "create"}, table : Tables, inode : Nat]
      BY <1>1, <3>1, DumperKnows DEF Dump_Lock
    <3>3. pc'[d] = [pc[d] EXCEPT !.at = "create"]
      BY <1>1, <3>1 DEF Dump_Lock, Step, PcOK
    <3> QED
      BY <3>2, <3>3
  <2> QED
    BY <1>7, <1>8, <1>9, <1>12, <2>1, <2>2, <2>3
<1>13. CASE Dump_NotFound(d)
  <2>1. PICK u \in Tables \ dirs : old' = [old EXCEPT ![d][u] = {}]
    BY <1>13 DEF Dump_NotFound
  <2>2. \A t \in Tables : t # u => old'[d][t] = old[d][t]
    BY <1>1, <2>1 DEF DataOK
  <2>3. UNCHANGED <<files, memtable>> /\ pc' = pc /\ pc[d].at = "next"
    BY <1>13 DEF Dump_NotFound
  <2>4. \A t \in Tables, k \in Keys : t = u => Excused(t, k)
    BY <1>13, <2>1 DEF Excused
  <2> QED
    BY <1>7, <1>8, <1>9, <2>2, <2>3, <2>4
<1>14. CASE Dump_NoSpace(d)
  <2>1. old' = [old EXCEPT ![d][pc[d].table] = {}] /\ UNCHANGED <<files, memtable>> /\ pc'[d] = [at |-> "next"]
    BY <1>10, <1>14 DEF Dump_NoSpace
  <2>2. \A t \in Tables : t # pc[d].table => old'[d][t] = old[d][t]
    BY <1>1, <2>1 DEF DataOK
  <2>3. \A t \in Tables, k \in Keys : t = pc[d].table => Excused(t, k)
    BY <1>14 DEF Excused
  <2> QED
    BY <1>7, <1>8, <1>9, <2>1, <2>2, <2>3
<1>15. CASE Dump_End(d)
  <2>1. UNCHANGED <<files, memtable, old>> /\ pc'[d] = [at |-> "idle"] /\ \A t \in Tables : old[d][t] = {}
    BY <1>10, <1>15 DEF Dump_End
  <2> QED
    BY <1>7, <1>8, <1>9, <2>1
<1>16. CASE Dump_Create(d)
  <2>1. PICK t \in Tables : t = pc[d].table
    BY <1>1, <1>16, DumperKnows DEF Dump_Create
  <2>2. FreeNames(t) \in SUBSET Nat /\ FreeNames(t) # {}
    BY <1>16, <2>1 DEF Dump_Create, FreeNames, TmpNames
  <2>3. PICK j : j = Min(FreeNames(t))
    OBVIOUS
  <2>4. j \in TmpNames /\ tmp[t][j] = NoFile
    BY <2>2, <2>3, Least DEF FreeNames
  <2>5. /\ tmp' = [tmp EXCEPT ![t][j] = {}] /\ UNCHANGED <<memtable, old>>
        /\ pc'[d] = [at |-> "write", table |-> t, name |-> j]
    BY <1>10, <1>16, <2>1, <2>3 DEF Dump_Create
  <2>6. \A a \in Tables, b \in TmpNames : tmp'[a][b] = IF a = t /\ b = j THEN {} ELSE tmp[a][b]
    <3>1. tmp \in [Tables -> [TmpNames -> File]]
      BY <1>1 DEF DataOK
    <3> QED
      BY <2>5, <3>1, FileAfter
  <2>7. DumpsToEmptyFiles' /\ DumpsStartEmpty'
    BY <1>1, <1>2, <2>4, <2>5, <2>6 DEF DumpsToEmptyFiles, DumpsStartEmpty
  <2>8. \A a \in Tables : SameContents(a)
    BY <1>2, <1>3, <2>4, <2>6 DEF SameContents
  <2>9. \A a \in Tables : Stored(a)' = Stored(a)
    BY <1>1, <2>8, SameStored
  <2> QED
    BY <1>6, <1>7, <2>5, <2>7, <2>9 DEF RInv
<1>17. CASE Dump_Write(d)
  <2>1. PICK t \in Tables, j \in TmpNames : t = pc[d].table /\ j = pc[d].name
    BY <1>1, <1>17, DumperKnows DEF Dump_Write
  <2>2. Content(tmp[t][j]) = {}
    BY <1>17, <2>1 DEF RInv, DumpsToEmptyFiles, Dump_Write
  <2>3. old' = [old EXCEPT ![d][t] = {}] /\ UNCHANGED memtable /\ pc'[d] = [at |-> "next"]
    BY <1>10, <1>17, <2>1 DEF Dump_Write
  <2>4. tmp' = tmp \/ tmp' = [tmp EXCEPT ![t][j] = old[d][t]]
    BY <1>17, <2>1 DEF Dump_Write
  <2>5. RInv'
    BY <1>1, <1>6, <2>3 DEF RInv, DumpsStartEmpty, DumpsToEmptyFiles
  <2>6. \A a \in Tables : a # t => old'[d][a] = old[d][a]
    BY <1>1, <2>3 DEF DataOK
  <2>7. \A a \in Tables, b \in TmpNames : a # t \/ b # j => tmp'[a][b] = tmp[a][b]
    <3>1. tmp \in [Tables -> [TmpNames -> File]]
      BY <1>1 DEF DataOK
    <3>2. CASE tmp' = [tmp EXCEPT ![t][j] = old[d][t]]
      BY <3>1, <3>2, FileAfter
    <3> QED
      BY <2>4, <3>2
  <2>8. ASSUME NEW a \in Tables PROVE Stored(a) \subseteq Stored(a)'
    <3>1. DOMAIN tmp[a] = TmpNames /\ DOMAIN tmp'[a] = TmpNames
      BY <1>1 DEF DataOK
    <3>2. ASSUME NEW r \in Contents(tmp[a]) PROVE r \in Contents(tmp'[a])
      <4>1. PICK b \in TmpNames : r \in Content(tmp[a][b])
        BY <3>1, <3>2, ContentsFacts
      <4>2. tmp'[a][b] = tmp[a][b]
        BY <2>2, <2>7, <4>1
      <4> QED
        BY <3>1, <4>1, <4>2, ContentsFacts
    <3> QED
      BY <1>3, <3>2 DEF Stored
  <2>9. ASSUME tmp' # tmp PROVE old[d][t] \subseteq Stored(t)'
    <3>1. tmp \in [Tables -> [TmpNames -> File]] /\ DOMAIN tmp'[t] = TmpNames
      BY <1>1 DEF DataOK
    <3>2. tmp'[t][j] = old[d][t]
      <4>1. PICK taken : taken = old[d][t]
        OBVIOUS
      <4>2. tmp' = [tmp EXCEPT ![t][j] = taken]
        BY <2>4, <2>9, <4>1
      <4>3. \A a \in Tables, b \in TmpNames : tmp'[a][b] = IF a = t /\ b = j THEN taken ELSE tmp[a][b]
        BY <3>1, <4>2, FileAfter
      <4> QED
        BY <4>1, <4>3
    <3>3. Content(old[d][t]) = old[d][t]
      <4>1. old \in [Dumpers -> [Tables -> SUBSET Record]]
        BY Types DEF DataOK
      <4>2. PICK taken \in SUBSET Record : taken = old[d][t]
        BY <4>1
      <4>3. Content(taken) = taken
        BY ContentFacts
      <4> QED
        BY <4>2, <4>3
    <3>4. \A r \in old[d][t] : r \in Contents(tmp'[t])
      BY <3>1, <3>2, <3>3, ContentsFacts
    <3> QED
      BY <3>4 DEF Stored
  <2>10. ASSUME NEW a \in Tables, NEW k \in Keys, ~Excused(a, k) PROVE Kept(a, k)
    <3>1. a = t => tmp' # tmp
      BY <1>17, <2>1, <2>10 DEF Excused
    <3>2. memtable'[a] = memtable[a] /\ Stored(a) \subseteq Stored(a)'
      BY <2>3, <2>8
    <3>3. old[d][a] \subseteq old'[d][a] \cup Stored(a)'
      BY <2>6, <2>9, <3>1
    <3>4. \A i : Kept(a, i)
      BY <1>7, <3>2, <3>3
    <3> QED
      BY <3>4
  <2> QED
    BY <2>5, <2>10
<1> QED
  BY <1>11, <1>12, <1>13, <1>14, <1>15, <1>16, <1>17 DEF Dumper

\* A compactor goes on, and removes .tmp files only.
LEMMA CompactorOnFile ==
  ASSUME TInv, FInv, RInv, NEW x \in Compactors, Active(x), NEW p, p.at \notin {"none", "down"}, p.table = pc[x].table,
         pc'[x] = p, \A u \in Threads : u # x => pc'[u] = pc[u], NEW t \in Tables, t = pc[x].table,
         \A u \in Tables : u # t => bin'[u] = bin[u] /\ tmpc'[u] = tmpc[u],
         \A u \in Tables, j \in TmpNames : tmp'[u][j] = tmp[u][j] \/ tmp'[u][j] = NoFile,
         CompactionAt(p)', UNCHANGED <<old, registered>>
  PROVE  RInv'
<1>1. \A d \in Dumpers : pc'[d] = pc[d]
  BY ThreadsAssumption DEF Threads
<1>2. \A y \in Compactors : y # x => pc'[y] = pc[y]
  BY DEF Threads
<1>3. DumpsStartEmpty' /\ DumpsToEmptyFiles'
  BY <1>1, DumpsStay
<1>4. CompactorsOfTables'
  <2>1. \A y \in Compactors : pc'[y] = pc[y] \/ (Active(y) => Active(y)' /\ pc'[y].table = pc[y].table)
    BY <1>2 DEF Active
  <2> QED
    BY <2>1, CompactorsStay
<1>5. ASSUME NEW y \in Compactors PROVE CompactionAt(pc[y])'
  <2>1. CASE y = x
    BY <2>1 DEF CompactionAt
  <2>2. CASE y # x
    <3>1. Active(y) => pc[y].table \in Tables /\ pc[y].table # t
      BY <2>2, OneCompactor, Types DEF FInv, CompactorsFollowTables, Active, DataOK
    <3> QED
      BY <1>2, <2>2, <3>1, CompactionStays
  <2> QED
    BY <2>1, <2>2
<1> QED
  BY <1>3, <1>4, <1>5 DEF RInv, CompactionsHaveRead

\* What it had merged or was on file of its table stays, with something as new.
LEMMA CompactorKeepsFiles ==
  ASSUME TInv, NEW x \in Compactors, NEW p, NEW k,
         pc'[x] = p, \A u \in Threads : u # x => pc'[u] = pc[u], NEW t \in Tables, t = pc[x].table, p.table = t,
         UNCHANGED <<memtable, old>>,
         \A u \in Tables : u # t => bin'[u] = bin[u] /\ tmp'[u] = tmp[u] /\ tmpc'[u] = tmpc[u],
         \A r \in Stored(t) : r.key = k =>
           \E s \in Stored(t)' \cup Carried(p) : s.key = k /\ s.timestamp >= r.timestamp,
         \A r \in Carried(pc[x]) : r.key = k => r \in Stored(t)' \cup Carried(p)
  PROVE  \A u \in Tables : Kept(u, k)
<1> SUFFICES ASSUME NEW u \in Tables, NEW r \in Held(u), r.key = k
             PROVE  \E s \in Held(u)' : s.key = k /\ s.timestamp >= r.timestamp
  BY DEF Kept
<1>1. r.timestamp >= r.timestamp
  <2>1. r.timestamp \in Nat
    BY HeldTypes, RecordFacts DEF HeldAreRecords, Times
  <2> QED
    BY <2>1
<1>2. Carried(p) \subseteq InTransit(t)'
  BY InTransitNext DEF Carried
<1>3. u # t => Stored(u)' = Stored(u)
  BY DEF Stored
<1>4. Dumping(u)' = Dumping(u) /\ memtable'[u] = memtable[u]
  BY DEF Dumping
<1>5. CASE r \in memtable[u] \cup Dumping(u)
  BY <1>1, <1>4, <1>5 DEF Held
<1>6. CASE r \in Stored(u)
  <2>1. CASE u = t
    BY <1>2, <1>6, <2>1 DEF Held
  <2>2. CASE u # t
    BY <1>1, <1>3, <1>6, <2>2 DEF Held
  <2> QED
    BY <2>1, <2>2
<1>7. CASE r \in InTransit(u)
  <2>1. PICK y \in Compactors : /\ pc[y].at \in Compacting /\ pc[y].table = u
                                /\ r \in pc[y].merged /\ Part(r.key) \in pc[y].unwritten
    BY <1>7, InTransitFacts
  <2>2. CASE y = x
    <3>1. r \in Carried(pc[x]) /\ u = t
      BY <2>1, <2>2 DEF Carried
    <3>2. r \in Stored(t)' \cup Carried(p)
      BY <3>1
    <3> QED
      BY <1>1, <1>2, <3>1, <3>2 DEF Held
  <2>3. CASE y # x
    <3>1. pc'[y] = pc[y]
      BY <2>3 DEF Threads
    <3>2. r \in InTransit(u)'
      BY <2>1, <3>1, InTransitNext
    <3> QED
      BY <1>1, <3>2 DEF Held
  <2> QED
    BY <2>2, <2>3
<1> QED
  BY <1>5, <1>6, <1>7 DEF Held

\* One that changes no file loses nothing.
LEMMA CompactorWaitsLosesNothing ==
  ASSUME TInv, FInv, RInv, NEW x \in Compactors, Active(x), NEW p, Goto(x, p), p.table = pc[x].table,
         p.at \notin {"none", "down"}, UNCHANGED <<files, memtable, old, registered>>,
         CompactionAt(p), Carried(pc[x]) \subseteq Carried(p)
  PROVE  RInv' /\ \A t \in Tables, k \in Keys : Kept(t, k)
<1>1. DataOK /\ PcOK /\ x \in Threads
  BY Types DEF Threads
<1>2. PICK t \in Tables : t = pc[x].table
  BY <1>1 DEF FInv, CompactorsFollowTables, Active, DataOK
<1>3. pc'[x] = p /\ \A u \in Threads : u # x => pc'[u] = pc[u]
  BY <1>1, GoesOn
<1>4. CompactionAt(p)'
  BY DEF CompactionAt, files
<1>5. UNCHANGED <<bin, tmp, tmpc>>
  BY DEF files
<1>6. Stored(t)' = Stored(t) /\ Stored(t) \subseteq Record
  BY <1>1, <1>5, StoredIsRecords DEF Stored
<1>7. \A r \in Stored(t) : r.timestamp >= r.timestamp
  <2>1. \A r \in Stored(t) : r.timestamp \in Nat
    BY <1>6, RecordFacts DEF Times
  <2> QED
    BY <2>1
<1>8. RInv'
  BY <1>2, <1>3, <1>4, <1>5, CompactorOnFile
<1>9. ASSUME NEW k \in Keys PROVE \A u \in Tables : Kept(u, k)
  <2>1. \A r \in Stored(t) : r.key = k =>
          \E s \in Stored(t)' \cup Carried(p) : s.key = k /\ s.timestamp >= r.timestamp
    BY <1>6, <1>7
  <2>2. \A r \in Carried(pc[x]) : r.key = k => r \in Stored(t)' \cup Carried(p)
    OBVIOUS
  <2> QED
    BY <1>2, <1>3, <1>5, <2>1, <2>2, CompactorKeepsFiles
<1> QED
  BY <1>8, <1>9

\* A renaming loses what it replaces only.
LEMMA RenameLoses ==
  ASSUME TInv, TInv', FInv, RInv, NEW x \in Compactors, _convertirATmpc(x)
  PROVE  RInv' /\ \A t \in Tables, k \in Keys : Kept(t, k) \/ Excused(t, k)
<1>1. DataOK /\ DataOK' /\ PcOK /\ x \in Threads
  BY Types, TypesNext DEF Threads
<1>2. pc[x].at = "rename" /\ Active(x)
  BY DEF _convertirATmpc, Active
<1>3. PICK t \in Tables : t = pc[x].table
  BY RenameOne
<1>4. PICK i \in TmpNames :
        /\ tmp[t][i] # NoFile
        /\ \A u \in Tables, j \in TmpNames : tmp'[u][j] = IF u = t /\ j = i THEN NoFile ELSE tmp[u][j]
        /\ \A u \in Tables, j \in TmpNames : tmpc'[u][j] = IF u = t /\ j = i THEN tmp[t][i] ELSE tmpc[u][j]
  BY <1>3, RenameOne
<1>5. UNCHANGED <<bin, memtable, old, registered>> /\ pc' = pc
  BY DEF _convertirATmpc
<1>6. \A u \in Tables : u # t => tmp'[u] = tmp[u] /\ tmpc'[u] = tmpc[u]
  BY <1>1, <1>3 DEF _convertirATmpc, DataOK
<1>7. PICK p : p = pc[x]
  OBVIOUS
<1>8. pc'[x] = p /\ p.table = t /\ p.at = "rename" /\ \A u \in Threads : u # x => pc'[u] = pc[u]
  BY <1>2, <1>3, <1>5, <1>7
<1>9. RInv'
  <2>1. CompactionAt(p)'
    BY <1>8 DEF CompactionAt
  <2>2. \A u \in Tables, j \in TmpNames : tmp'[u][j] = tmp[u][j] \/ tmp'[u][j] = NoFile
    BY <1>4
  <2> QED
    BY <1>2, <1>3, <1>5, <1>6, <1>7, <1>8, <2>1, <2>2, CompactorOnFile
<1>10. Carried(pc[x]) = {}
  BY <1>2 DEF Carried, Compacting
<1>11. ASSUME tmpc[t][i] \in {NoFile, tmp[t][i]} PROVE Stored(t) \subseteq Stored(t)'
  <2>1. /\ DOMAIN tmp[t] = TmpNames /\ DOMAIN tmpc[t] = TmpNames /\ DOMAIN tmpc'[t] = TmpNames
        /\ DOMAIN tmp'[t] = TmpNames /\ bin'[t] = bin[t]
    BY <1>1, <1>5 DEF DataOK
  <2>2. Content(NoFile) = {}
    BY ContentFacts
  <2>3. ASSUME NEW r \in Contents(tmp[t]) PROVE r \in Contents(tmpc'[t]) \cup Contents(tmp'[t])
    <3>1. PICK j \in TmpNames : r \in Content(tmp[t][j])
      BY <2>1, <2>3, ContentsFacts
    <3>2. tmpc'[t][j] = tmp[t][j] \/ tmp'[t][j] = tmp[t][j]
      BY <1>4
    <3>3. r \in Content(tmpc'[t][j]) \/ r \in Content(tmp'[t][j])
      BY <3>1, <3>2
    <3> QED
      BY <2>1, <3>3, ContentsFacts
  <2>4. ASSUME NEW r \in Contents(tmpc[t]) PROVE r \in Contents(tmpc'[t])
    <3>1. PICK j \in TmpNames : r \in Content(tmpc[t][j])
      BY <2>1, <2>4, ContentsFacts
    <3>2. tmpc[t][j] # NoFile
      BY <2>2, <3>1
    <3>3. tmpc'[t][j] = tmpc[t][j]
      BY <1>4, <1>11, <3>2
    <3> QED
      BY <2>1, <3>1, <3>3, ContentsFacts
  <2> QED
    BY <2>1, <2>3, <2>4 DEF Stored
<1>12. ASSUME NEW k \in Keys, tmpc[t][i] \in {NoFile, tmp[t][i]} PROVE \A u \in Tables : Kept(u, k)
  <2>1. \A r \in Stored(t) : r.timestamp \in Nat
    BY <1>1, StoredIsRecords, RecordFacts DEF Times
  <2>2. \A r \in Stored(t) : r.timestamp >= r.timestamp
    BY <2>1
  <2>3. \A r \in Stored(t) : r.key = k =>
          \E s \in Stored(t)' \cup Carried(p) : s.key = k /\ s.timestamp >= r.timestamp
    BY <1>11, <1>12, <2>2
  <2>4. \A r \in Carried(pc[x]) : r.key = k => r \in Stored(t)' \cup Carried(p)
    BY <1>10
  <2>5. \A u \in Tables : u # t => bin'[u] = bin[u] /\ tmp'[u] = tmp[u] /\ tmpc'[u] = tmpc[u]
    BY <1>5, <1>6
  <2> QED
    BY <1>3, <1>5, <1>8, <2>3, <2>4, <2>5, CompactorKeepsFiles
<1>13. ASSUME NEW k \in Keys, tmpc[t][i] \notin {NoFile, tmp[t][i]} PROVE Excused(t, k)
  <2>1. tmpc'[t][i] = tmp[t][i]
    BY <1>4
  <2> QED
    BY <1>13, <2>1 DEF Excused
<1>14. ASSUME NEW k \in Keys, NEW u \in Tables, u # t PROVE Kept(u, k)
  <2>1. SameTransit
    BY <1>5 DEF SameTransit
  <2>2. InTransit(u)' = InTransit(u)
    BY <2>1, TransitKept
  <2>3. Stored(u)' = Stored(u)
    BY <1>5, <1>6, <1>14 DEF Stored
  <2>4. Held(u) \subseteq Held(u)'
    BY <1>5, <2>2, <2>3 DEF Held, Dumping
  <2> QED
    BY <2>4, StaysKept
<1> QED
  BY <1>9, <1>12, <1>13, <1>14

\* What is read stays on file.
LEMMA ReadLoses ==
  ASSUME TInv, FInv, RInv, NEW x \in Compactors, Compact_Read(x)
  PROVE  RInv' /\ \A t \in Tables, k \in Keys : Kept(t, k)
<1>1. DataOK /\ PcOK /\ pc[x] \in CompactorState
  BY Types DEF PcOK, StatesOK
<1>2. pc[x].at = "read" /\ Active(x)
  BY DEF Compact_Read, Active
<1>3. PICK t \in Tables : t = pc[x].table
  BY <1>1, <1>2, CompactorKnows
<1>4. PICK records : records = Contents(bin[t]) \cup Contents(tmpc[t])
  OBVIOUS
<1>5. PICK p : p = [at |-> "lock2", table |-> t, inode |-> pc[x].inode, unwritten |-> Partitions,
                    merged |-> Merged(records)] /\ Goto(x, p)
  BY <1>3, <1>4 DEF Compact_Read
<1>6. p.at = "lock2" /\ p.table = t /\ p.unwritten = Partitions /\ p.merged = Merged(records)
  BY <1>5
<1>7. CompactionAt(p)
  BY <1>1, <1>3, <1>4, <1>6, ReadIsWhole
<1>8. Carried(pc[x]) = {}
  BY <1>2 DEF Carried, Compacting
<1>9. UNCHANGED <<files, memtable, old, registered>>
  BY DEF Compact_Read
<1> QED
  BY <1>2, <1>3, <1>5, <1>6, <1>7, <1>8, <1>9, CompactorWaitsLosesNothing

\* A compactor that sleeps, waits or closes its descriptor loses nothing.
LEMMA WaitLoses ==
  ASSUME TInv, FInv, RInv, NEW x \in Compactors,
         \/ Compact_Start(x) \/ Compact_Lock(x, "lock1", "rename") \/ Compact_Lock(x, "lock2", "delete")
         \/ Compact_Renamed(x) \/ Compact_Deleted(x) \/ Compact_End(x)
  PROVE  RInv' /\ \A t \in Tables, k \in Keys : Kept(t, k)
<1>1. DataOK /\ PcOK /\ pc[x] \in CompactorState /\ x \in Threads
  BY Types DEF PcOK, StatesOK, Threads
<1>2. UNCHANGED <<files, memtable, old, registered>>
  BY DEF Compact_Start, Compact_Lock, Compact_Renamed, Compact_Deleted, Compact_End
<1>3. Active(x)
  BY DEF Compact_Start, Compact_Lock, Compact_Renamed, Compact_Deleted, Compact_End, Active
<1>4. CompactionAt(pc[x])
  BY DEF RInv, CompactionsHaveRead
<1>5. ASSUME NEW p, Goto(x, p), p.table = pc[x].table, p.at \in {"lock1", "rename", "sleep"},
             pc[x].at \in {"sleep", "lock1"} \/ (pc[x].at = "write" /\ pc[x].unwritten = {})
      PROVE  RInv' /\ \A t \in Tables, k \in Keys : Kept(t, k)
  <2>1. CompactionAt(p)
    BY <1>5 DEF CompactionAt
  <2>2. Carried(pc[x]) = {}
    BY <1>5 DEF Carried, Compacting
  <2> QED
    BY <1>2, <1>3, <1>5, <2>1, <2>2, CompactorWaitsLosesNothing
<1>6. ASSUME Compact_Start(x) PROVE RInv' /\ \A t \in Tables, k \in Keys : Kept(t, k)
  BY <1>5, <1>6 DEF Compact_Start
<1>7. ASSUME Compact_End(x) PROVE RInv' /\ \A t \in Tables, k \in Keys : Kept(t, k)
  BY <1>5, <1>7 DEF Compact_End
<1>8. ASSUME Compact_Lock(x, "lock1", "rename") PROVE RInv' /\ \A t \in Tables, k \in Keys : Kept(t, k)
  <2>1. pc[x] \in [at : {"lock1", "rename", "read"}, table : Tables, inode : Nat]
    BY <1>1, <1>8, CompactorKnows DEF Compact_Lock
  <2>2. PICK p : p = [pc[x] EXCEPT !.at = "rename"]
    OBVIOUS
  <2>3. p.at = "rename" /\ p.table = pc[x].table
    BY <2>1, <2>2
  <2>4. Goto(x, p)
    BY <1>1, <1>8, <2>2, GoesAt DEF Compact_Lock
  <2> QED
    BY <1>5, <1>8, <2>3, <2>4 DEF Compact_Lock
<1>9. ASSUME NEW step \in {"delete", "write"}, pc[x].at \in {"lock2", "delete"}, Step(x, step)
      PROVE  RInv' /\ \A t \in Tables, k \in Keys : Kept(t, k)
  <2>1. pc[x] \in [at : {"lock2", "delete", "write"}, table : Tables, inode : Nat,
                   unwritten : SUBSET Partitions, merged : SUBSET Record]
    BY <1>1, <1>9, CompactorKnows
  <2>2. PICK p : p = [pc[x] EXCEPT !.at = step]
    OBVIOUS
  <2>3. p.at = step /\ p.table = pc[x].table /\ p.unwritten = pc[x].unwritten /\ p.merged = pc[x].merged
    BY <2>1, <2>2
  <2>4. Goto(x, p)
    BY <1>1, <1>9, <2>2, GoesAt
  <2>5. CompactionAt(p)
    BY <1>4, <1>9, <2>3 DEF CompactionAt
  <2>6. Carried(pc[x]) = Carried(p)
    BY <1>9, <2>3 DEF Carried, Compacting
  <2> QED
    BY <1>2, <1>3, <2>3, <2>4, <2>5, <2>6, CompactorWaitsLosesNothing
<1>10. ASSUME Compact_Lock(x, "lock2", "delete") PROVE RInv' /\ \A t \in Tables, k \in Keys : Kept(t, k)
  BY <1>9, <1>10 DEF Compact_Lock
<1>11. ASSUME Compact_Deleted(x) PROVE RInv' /\ \A t \in Tables, k \in Keys : Kept(t, k)
  BY <1>9, <1>11 DEF Compact_Deleted
<1>12. ASSUME Compact_Renamed(x) PROVE RInv' /\ \A t \in Tables, k \in Keys : Kept(t, k)
  <2>1. pc[x].at = "rename" /\ pc[x] \in [at : {"lock1", "rename", "read"}, table : Tables, inode : Nat]
    BY <1>1, <1>12, CompactorKnows DEF Compact_Renamed
  <2>2. PICK p : p = [pc[x] EXCEPT !.at = "read"]
    OBVIOUS
  <2>3. p.at = "read" /\ p.table = pc[x].table
    BY <2>1, <2>2
  <2>4. Goto(x, p)
    BY <1>1, <1>12, <2>2, GoesAt DEF Compact_Renamed
  <2>5. CompactionAt(p) /\ Carried(pc[x]) = {}
    BY <2>1, <2>3 DEF CompactionAt, Carried, Compacting
  <2> QED
    BY <1>2, <1>3, <2>3, <2>4, <2>5, CompactorWaitsLosesNothing
<1> QED
  BY <1>6, <1>7, <1>8, <1>10, <1>11, <1>12

\* A .tmpc that is deleted was merged.
LEMMA DeleteLoses ==
  ASSUME TInv, TInv', FInv, RInv, NEW x \in Compactors, _borrarTmpc(x)
  PROVE  RInv' /\ \A t \in Tables, k \in Keys : Kept(t, k)
<1>1. DataOK /\ DataOK' /\ PcOK /\ pc[x] \in CompactorState /\ x \in Threads
  BY Types, TypesNext DEF PcOK, StatesOK, Threads
<1>2. pc[x].at = "delete" /\ Active(x)
  BY DEF _borrarTmpc, Active
<1>3. pc[x] \in [at : {"lock2", "delete", "write"}, table : Tables, inode : Nat,
                 unwritten : SUBSET Partitions, merged : SUBSET Record]
  BY <1>1, <1>2, CompactorKnows
<1>4. PICK t \in Tables : t = pc[x].table
  BY <1>3
<1>5. PICK j \in TmpNames : tmpc' = [tmpc EXCEPT ![t][j] = NoFile]
  BY <1>4 DEF _borrarTmpc
<1>6. /\ \A a \in Tables, b \in TmpNames : tmpc'[a][b] = IF a = t /\ b = j THEN NoFile ELSE tmpc[a][b]
      /\ \A u \in Tables : u # t => tmpc'[u] = tmpc[u]
  <2>1. tmpc \in [Tables -> [TmpNames -> File]]
    BY <1>1 DEF DataOK
  <2> QED
    BY <1>5, <2>1, FileAfter
<1>7. UNCHANGED <<bin, tmp, memtable, old, registered>> /\ pc' = pc
  BY DEF _borrarTmpc
<1>8. tmpc[t] \in [TmpNames -> File] /\ tmpc'[t] \in [TmpNames -> File]
  BY <1>1 DEF DataOK
<1>9. Contents(tmpc'[t]) \subseteq Contents(tmpc[t])
  <2>1. \A i \in TmpNames : \A r : r \in Content(tmpc'[t][i]) => r \in Content(tmpc[t][i])
    BY <1>6, ContentFacts
  <2> QED
    BY <1>8, <2>1, ContentsFacts
<1>10. CompactionAt(pc[x])
  BY DEF RInv, CompactionsHaveRead
<1>11. pc[x].unwritten = Partitions /\ Covered(Contents(tmpc[t]), pc[x].merged)
  BY <1>2, <1>4, <1>10 DEF CompactionAt
<1>12. CompactionAt(pc[x])'
  <2>1. Covered(Contents(tmpc'[t]), pc[x].merged)
    BY <1>9, <1>11 DEF Covered
  <2> QED
    BY <1>2, <1>4, <1>7, <1>10, <1>11, <2>1 DEF CompactionAt
<1>13. ASSUME NEW r \in Stored(t)
       PROVE  \E s \in Stored(t)' \cup Carried(pc[x]) : s.key = r.key /\ s.timestamp >= r.timestamp
  <2>1. CASE r \in Contents(tmpc[t])
    <3>1. PICK s \in pc[x].merged : s.key = r.key /\ s.timestamp >= r.timestamp
      BY <1>11, <2>1 DEF Covered
    <3>2. s \in Record
      BY <1>3
    <3>3. Part(s.key) \in pc[x].unwritten
      BY <1>11, <3>2, RecordFacts, PartFacts
    <3>4. s \in Carried(pc[x])
      BY <1>2, <3>3 DEF Carried, Compacting
    <3> QED
      BY <3>1, <3>4
  <2>2. CASE r \in Contents(bin[t]) \cup Contents(tmp[t])
    <3>1. r \in Stored(t)'
      BY <1>7, <2>2 DEF Stored
    <3>2. Stored(t) \in SUBSET Record
      BY <1>1, StoredIsRecords
    <3>3. r.timestamp \in Nat
      BY <1>13, <3>2, RecordFacts DEF Times
    <3>4. r.timestamp >= r.timestamp
      BY <3>3
    <3> QED
      BY <3>1, <3>4
  <2> QED
    BY <1>13, <2>1, <2>2 DEF Stored
<1>14. PICK p : p = pc[x]
  OBVIOUS
<1>15. pc'[x] = p /\ p.table = t /\ p.at = "delete" /\ \A u \in Threads : u # x => pc'[u] = pc[u]
  BY <1>2, <1>4, <1>7, <1>14
<1>16. RInv'
  <2>1. CompactionAt(p)'
    BY <1>7, <1>12, <1>14 DEF CompactionAt
  <2> QED
    BY <1>2, <1>4, <1>6, <1>7, <1>15, <2>1, CompactorOnFile
<1>17. ASSUME NEW k \in Keys PROVE \A u \in Tables : Kept(u, k)
  <2>1. \A r \in Stored(t) : r.key = k =>
          \E s \in Stored(t)' \cup Carried(p) : s.key = k /\ s.timestamp >= r.timestamp
    BY <1>13, <1>14
  <2>2. \A r \in Carried(pc[x]) : r.key = k => r \in Stored(t)' \cup Carried(p)
    BY <1>14
  <2>3. \A u \in Tables : u # t => bin'[u] = bin[u] /\ tmp'[u] = tmp[u] /\ tmpc'[u] = tmpc[u]
    BY <1>6, <1>7
  <2> QED
    BY <1>4, <1>7, <1>15, <2>1, <2>2, <2>3, CompactorKeepsFiles
<1> QED
  BY <1>16, <1>17

\* A partition that is written has what was merged of it.
LEMMA WriteLoses ==
  ASSUME TInv, TInv', PInv, FInv, RInv, NEW x \in Compactors, Compact_Write(x)
  PROVE  RInv' /\ \A t \in Tables, k \in Keys : Kept(t, k) \/ Excused(t, k)
<1>1. DataOK /\ DataOK' /\ PcOK /\ pc[x] \in CompactorState /\ x \in Threads
  BY Types, TypesNext DEF PcOK, StatesOK, Threads
<1>2. pc[x].at = "write" /\ Active(x) /\ pc[x].unwritten # {}
  BY DEF Compact_Write, Active
<1>3. pc[x] \in [at : {"lock2", "delete", "write"}, table : Tables, inode : Nat,
                 unwritten : SUBSET Partitions, merged : SUBSET Record]
  BY <1>1, <1>2, CompactorKnows
<1>4. PICK t \in Tables : t = pc[x].table
  BY <1>3
<1>5. PICK merged \in SUBSET Record : merged = pc[x].merged
  BY <1>3
<1>6. PICK q : q = Min(pc[x].unwritten)
  OBVIOUS
<1>7. q \in pc[x].unwritten /\ q \in Partitions
  <2>1. pc[x].unwritten \in SUBSET Nat /\ pc[x].unwritten \subseteq Partitions
    BY <1>3 DEF Partitions
  <2> QED
    BY <1>2, <1>6, <2>1, Least
<1>8. PICK left : left = pc[x].unwritten \ {q}
  OBVIOUS
<1>9. PICK p : p = [pc[x] EXCEPT !.unwritten = left]
  OBVIOUS
<1>10. p.at = "write" /\ p.table = t /\ p.merged = merged /\ p.unwritten = left
  BY <1>2, <1>3, <1>4, <1>5, <1>9
<1>11. pc'[x] = p /\ \A u \in Threads : u # x => pc'[u] = pc[u]
  <2>1. pc' = [pc EXCEPT ![x] = p]
    BY <1>1, <1>6, <1>8, <1>9 DEF Compact_Write, PcOK
  <2> QED
    BY <1>1, <2>1 DEF PcOK
<1>12. UNCHANGED <<tmp, tmpc, memtable, old, registered>>
  BY DEF Compact_Write
<1>13. CompactionAt(pc[x])
  BY DEF RInv, CompactionsHaveRead
<1>14. \A b \in pc[x].unwritten : Covered(Content(bin[t][b]), merged)
  BY <1>2, <1>4, <1>5, <1>13 DEF CompactionAt
<1>15. CASE UNCHANGED bin
  <2>1. CompactionAt(p)'
    BY <1>8, <1>10, <1>14, <1>15 DEF CompactionAt
  <2>2. RInv'
    BY <1>2, <1>4, <1>10, <1>11, <1>12, <1>15, <2>1, CompactorOnFile
  <2>3. Stored(t)' = Stored(t) /\ \A r \in Stored(t) : r.timestamp >= r.timestamp
    <3>1. \A r \in Stored(t) : r.timestamp \in Nat
      BY <1>1, StoredIsRecords, RecordFacts DEF Times
    <3> QED
      BY <1>12, <1>15, <3>1 DEF Stored
  <2>4. ASSUME NEW k \in Keys, Part(k) # q PROVE \A u \in Tables : Kept(u, k)
    <3>1. \A r \in Carried(pc[x]) : r.key = k => r \in Stored(t)' \cup Carried(p)
      BY <1>2, <1>5, <1>8, <1>10, <2>4 DEF Carried, Compacting
    <3>2. \A r \in Stored(t) : r.key = k =>
            \E s \in Stored(t)' \cup Carried(p) : s.key = k /\ s.timestamp >= r.timestamp
      BY <2>3
    <3>3. \A u \in Tables : u # t => bin'[u] = bin[u] /\ tmp'[u] = tmp[u] /\ tmpc'[u] = tmpc[u]
      BY <1>12, <1>15
    <3> QED
      BY <1>4, <1>10, <1>11, <1>12, <3>1, <3>2, <3>3, CompactorKeepsFiles
  <2>5. ASSUME NEW k \in Keys, Part(k) = q PROVE Excused(t, k)
    BY <1>4, <1>6, <1>15, <2>5 DEF Excused
  <2>6. ASSUME NEW k \in Keys, NEW u \in Tables, u # t PROVE Kept(u, k)
    <3>1. Stored(u)' = Stored(u)
      BY <1>12, <1>15 DEF Stored
    <3>2. ASSUME NEW r \in InTransit(u) PROVE r \in InTransit(u)'
      <4>1. PICK y \in Compactors : /\ pc[y].at \in Compacting /\ pc[y].table = u
                                    /\ r \in pc[y].merged /\ Part(r.key) \in pc[y].unwritten
        BY <3>2, InTransitFacts
      <4>2. pc'[y] = pc[y]
        BY <1>4, <1>11, <2>6, <4>1 DEF Threads
      <4> QED
        BY <4>1, <4>2, InTransitNext
    <3>3. Held(u) \subseteq Held(u)'
      BY <1>12, <3>1, <3>2 DEF Held, Dumping
    <3> QED
      BY <3>3, StaysKept
  <2> QED
    BY <2>2, <2>4, <2>5, <2>6
<1>16. CASE bin' = [bin EXCEPT ![t][q] = InPart(merged, q)]
  <2>1. /\ \A a \in Tables, b \in Partitions : bin'[a][b] = IF a = t /\ b = q THEN InPart(merged, q) ELSE bin[a][b]
        /\ \A u \in Tables : u # t => bin'[u] = bin[u]
    <3>1. bin \in [Tables -> [Partitions -> File]]
      BY <1>1 DEF DataOK
    <3>2. \A a \in Tables, b \in Partitions : bin'[a][b] = IF a = t /\ b = q THEN InPart(merged, q) ELSE bin[a][b]
      BY <1>16, <3>1, FileAfter
    <3>3. \A u \in Tables : u # t => bin'[u] = bin[u]
      BY <1>16, <3>1
    <3> QED
      BY <3>2, <3>3
  <2>2. Content(InPart(merged, q)) = InPart(merged, q)
    BY ContentFacts DEF InPart
  <2>3. /\ bin[t] \in [Partitions -> File] /\ bin'[t] \in [Partitions -> File]
        /\ tmp'[t] = tmp[t] /\ tmpc'[t] = tmpc[t]
    BY <1>1, <1>12 DEF DataOK
  <2>4. InPart(merged, q) \subseteq Stored(t)'
    <3>1. bin'[t][q] = InPart(merged, q)
      BY <1>7, <2>1
    <3>2. \A r \in InPart(merged, q) : r \in Contents(bin'[t])
      BY <1>7, <2>2, <2>3, <3>1, ContentsFacts
    <3> QED
      BY <3>2 DEF Stored
  <2>5. CompactionAt(p)'
    <3>1. ASSUME NEW b \in left PROVE Covered(Content(bin'[t][b]), merged)
      <4>1. b \in pc[x].unwritten /\ b \in Partitions /\ b # q
        BY <1>3, <1>8, <3>1
      <4>2. bin'[t][b] = bin[t][b]
        BY <2>1, <4>1
      <4> QED
        BY <1>14, <4>1, <4>2
    <3> QED
      BY <1>10, <3>1 DEF CompactionAt
  <2>6. RInv'
    BY <1>2, <1>4, <1>10, <1>11, <1>12, <2>1, <2>5, CompactorOnFile
  <2>7. ASSUME NEW r \in Stored(t)
        PROVE  \E s \in Stored(t)' \cup Carried(p) : s.key = r.key /\ s.timestamp >= r.timestamp
    <3>1. r \in Record
      BY <1>1, <2>7, StoredIsRecords
    <3>2. CASE r \in Content(bin[t][q])
      <4>1. PICK s \in merged : s.key = r.key /\ s.timestamp >= r.timestamp
        BY <1>7, <1>14, <3>2 DEF Covered
      <4>2. Part(r.key) = q
        BY <1>7, <3>2 DEF PInv, PartitionsAreMerged
      <4>3. s \in InPart(merged, q)
        BY <4>1, <4>2 DEF InPart
      <4> QED
        BY <2>4, <4>1, <4>3
    <3>3. CASE r \in Stored(t)'
      <4>1. r.timestamp \in Nat
        BY <3>1, RecordFacts DEF Times
      <4>2. r.timestamp >= r.timestamp
        BY <4>1
      <4> QED
        BY <3>3, <4>2
    <3>4. CASE r \in Contents(bin[t])
      <4>1. PICK b \in Partitions : r \in Content(bin[t][b])
        BY <2>3, <3>4, ContentsFacts
      <4>2. CASE b # q
        <5>1. bin'[t][b] = bin[t][b]
          BY <2>1, <4>2
        <5>2. r \in Contents(bin'[t])
          BY <2>3, <4>1, <5>1, ContentsFacts
        <5> QED
          BY <3>3, <5>2 DEF Stored
      <4> QED
        BY <3>2, <4>1, <4>2
    <3>5. CASE r \in Contents(tmp[t]) \cup Contents(tmpc[t])
      BY <2>3, <3>3, <3>5 DEF Stored
    <3> QED
      BY <2>7, <3>4, <3>5 DEF Stored
  <2>8. Carried(pc[x]) \subseteq Stored(t)' \cup Carried(p)
    <3>1. ASSUME NEW r \in Carried(pc[x]) PROVE r \in Stored(t)' \cup Carried(p)
      <4>1. r \in merged /\ Part(r.key) \in pc[x].unwritten
        BY <1>2, <1>5, <3>1 DEF Carried, Compacting
      <4>2. CASE Part(r.key) = q
        BY <2>4, <4>1, <4>2 DEF InPart
      <4>3. CASE Part(r.key) # q
        BY <1>8, <1>10, <4>1, <4>3 DEF Carried, Compacting
      <4> QED
        BY <4>2, <4>3
    <3> QED
      BY <3>1
  <2>9. ASSUME NEW k \in Keys PROVE \A u \in Tables : Kept(u, k)
    <3>1. \A r \in Stored(t) : r.key = k =>
            \E s \in Stored(t)' \cup Carried(p) : s.key = k /\ s.timestamp >= r.timestamp
      BY <2>7
    <3>2. \A r \in Carried(pc[x]) : r.key = k => r \in Stored(t)' \cup Carried(p)
      BY <2>8
    <3>3. \A u \in Tables : u # t => bin'[u] = bin[u] /\ tmp'[u] = tmp[u] /\ tmpc'[u] = tmpc[u]
      BY <1>12, <2>1
    <3> QED
      BY <1>4, <1>10, <1>11, <1>12, <3>1, <3>2, <3>3, CompactorKeepsFiles
  <2> QED
    BY <2>6, <2>9
<1> QED
  BY <1>4, <1>5, <1>6, <1>15, <1>16 DEF Compact_Write, InPart

\* The end of the process, whoever brings it.
LEMMA ProcessLoses ==
  ASSUME TInv, Crash \/ \E th \in Threads : Segfault(th)
  PROVE  RInv' /\ \A t \in Tables, k \in Keys : Excused(t, k)
<1>1. Die
  BY DEF Crash, Segfault
<1> QED
  BY <1>1, DieLoses DEF Excused

\* Every step keeps the newest of what there is, or is one of the nine,
LEMMA NextLoses ==
  ASSUME OneWriter, OneDumper, TInv, TInv', PInv, FInv, RInv, Next
  PROVE  RInv' /\ \A t \in Tables, k \in Keys : Kept(t, k) \/ Excused(t, k)
<1>1. ASSUME NEW x \in Compactors, Compactor(x)
      PROVE  RInv' /\ \A t \in Tables, k \in Keys : Kept(t, k) \/ Excused(t, k)
  BY <1>1, RenameLoses, ReadLoses, WaitLoses, DeleteLoses, WriteLoses DEF Compactor
<1>2. ASSUME NEW c \in Clients, Client(c)
      PROVE  RInv' /\ \A t \in Tables, k \in Keys : Kept(t, k) \/ Excused(t, k)
  BY <1>2, ClientLoses
<1>3. ASSUME NEW d \in Dumpers, Dumper(d)
      PROVE  RInv' /\ \A t \in Tables, k \in Keys : Kept(t, k) \/ Excused(t, k)
  BY <1>3, DumperLoses
<1>4. ASSUME iniciarFileSystem PROVE RInv' /\ \A t \in Tables, k \in Keys : Kept(t, k) \/ Excused(t, k)
  BY <1>4, StartLoses
<1> QED
  BY <1>1, <1>2, <1>3, <1>4, ProcessLoses DEF Next

\* so that the newest record of a key gets no older but by one of them.
LEMMA StepLoses ==
  ASSUME OneWriter, OneDumper
  PROVE  TInv /\ TInv' /\ PInv /\ FInv /\ RInv /\ [Next]_vars =>
           /\ RInv'
           /\ [\A t \in Tables, k \in Keys : Newest(Held(t)', k) < Newest(Held(t), k) => Excused(t, k)]_vars
<1>1. ASSUME TInv, TInv', PInv, FInv, RInv, Next, NEW t \in Tables, NEW k \in Keys
      PROVE  Newest(Held(t)', k) < Newest(Held(t), k) => Excused(t, k)
  BY <1>1, NextLoses, KeptIsNotOlder
<1>2. ASSUME TInv, TInv', PInv, FInv, RInv, Next PROVE RInv'
  BY <1>2, NextLoses
<1>3. ASSUME RInv, UNCHANGED vars PROVE RInv'
  BY <1>3 DEF RInv, DumpsStartEmpty, DumpsToEmptyFiles, CompactionsHaveRead, CompactionAt, CompactorsOfTables, Active,
              vars, files
<1> QED
  BY <1>1, <1>2, <1>3

\* No process runs at first.
LEMMA InitRInv == Init => RInv
<1> SUFFICES ASSUME Init PROVE RInv
  OBVIOUS
<1>1. \A th \in Threads : pc[th].at = "down"
  BY DEF Init
<1>2. DumpsToEmptyFiles /\ CompactionsHaveRead
  BY <1>1 DEF DumpsToEmptyFiles, CompactionsHaveRead, CompactionAt, Threads
<1>3. DumpsStartEmpty /\ CompactorsOfTables
  BY DEF Init, DumpsStartEmpty, CompactorsOfTables
<1> QED
  BY <1>2, <1>3 DEF RInv

\* The newest record of a key, in the memtable, a dump, the files or a compaction, gets older in nine ways only
\* (Memtable.c, Compactador.c, API.c): the process ends; DROP empties the memtable of the table, cancels its compactor
\* or deletes one of its files; a dump finds no directory, no block or not its .tmp; a compaction replaces a .tmpc, or
\* cannot write the partition of the key.
THEOREM LFSRecordsAreLostInNineWays == ASSUME OneWriter, OneDumper PROVE Spec => RecordsAreLostInNineWays
<1>1. Init => TInv /\ PInv /\ FInv /\ RInv
  BY InitTypes, InitPInv, InitFInv, InitRInv
<1>2. TInv /\ [Next]_vars => TInv'
  BY NextTInv
<1>3. TInv /\ PInv /\ [Next]_vars => PInv'
  BY NextPInv
<1>4. TInv /\ FInv /\ [Next]_vars => FInv'
  BY NextFInv
<1>5. TInv /\ TInv' /\ PInv /\ FInv /\ RInv /\ [Next]_vars => RInv'
  BY StepLoses
<1>6. TInv /\ TInv' /\ PInv /\ FInv /\ RInv /\ [Next]_vars =>
        [\A t \in Tables, k \in Keys : Newest(Held(t)', k) < Newest(Held(t), k) => Excused(t, k)]_vars
  BY StepLoses
<1> QED
  BY <1>1, <1>2, <1>3, <1>4, <1>5, <1>6, PTL DEF Spec, RecordsAreLostInNineWays, Excused
================================================================================
