----------------------------- MODULE BlocksProofs -----------------------------
(***************************************************************************)
(* Proofs about Blocks, for any number and size of blocks, any files,      *)
(* threads and contents, and wherever the process ends.                    *)
(*                                                                         *)
(* The invariant has three layers.  The types hold always.  As long as no  *)
(* deletion is torn, a file is worked on by one thread, which knows its    *)
(* blocks, and each block has one owner: a file, a thread, or nobody any   *)
(* more (lost), and the marked blocks are those that have one.  Upon this  *)
(* rest the contents: a thread writes to blocks that no other file has, so *)
(* what was stored in the others can still be read.                        *)
(***************************************************************************)
EXTENDS Blocks, SequenceTheorems, TLAPS

Elements(s) == {s[i] : i \in DOMAIN s}
Distinct(s) == \A i, j \in DOMAIN s : s[i] = s[j] => i = j

\* All threads but those that delete have a content to write.
ContentGiven == \A th \in Threads : pc[th] # Idle /\ pc[th].at # "free" => pc[th].content \in Contents

OneThreadPerFile ==
  \A th, u \in Threads : pc[th] # Idle /\ pc[u] # Idle /\ pc[th].file = pc[u].file => th = u

\* What the step of a thread's work w says of its file and of the blocks it has.
FollowsFile(w, files, contents) ==
  LET f == w.file IN
  /\ w.at \in {"first", "create"} => files[f] = NoFile
  /\ w.at \notin {"first", "create"} => files[f] # NoFile
  /\ w.at \in {"ask", "undo", "write"} => w.blocks = files[f].blocks
  /\ w.at \in {"first", "load"} => w.own = <<>>
  /\ w.at \in {"write", "free"} => contents[f] = Nothing

WorkFollowsFile == \A th \in Threads : pc[th] # Idle => FollowsFile(pc[th], file, stored)

ListsAreDistinct ==
  /\ \A f \in Files : file[f] # NoFile => Distinct(file[f].blocks)
  /\ \A th \in Threads : pc[th] # Idle => Distinct(pc[th].own)

\* No block has two owners, and those that have one are marked.
Owners ==
  /\ \A f, g \in Files : f # g => Held(f) \cap Held(g) = {}
  /\ \A f \in Files, th \in Threads : Held(f) \cap Own(th) = {}
  /\ \A th, u \in Threads : th # u => Own(th) \cap Own(u) = {}
  /\ \A f \in Files : Held(f) \cap lost = {}
  /\ \A th \in Threads : Own(th) \cap lost = {}
  /\ \A b \in BlockIds : b \in bitmap <=>
       (\E f \in Files : b \in Held(f)) \/ (\E th \in Threads : b \in Own(th)) \/ b \in lost

TInv == TypeOK /\ ContentGiven
OInv == torn = {} => OneThreadPerFile /\ WorkFollowsFile /\ ListsAreDistinct /\ Owners

\* Where the byte i of a file is.
Block(i)  == ((i - 1) \div BlockSize) + 1
Offset(i) == ((i - 1) % BlockSize) + 1

\* Before it writes, no block is written.
NothingWrittenYet ==
  \A th \in Threads : pc[th] # Idle /\ pc[th].at \notin {"write", "free"} => pc[th].written = 0

\* A thread that writes has blocks for its content, and the first of them hold its first bytes.
WritesAreInPlace ==
  \A th \in Threads : pc[th] # Idle /\ pc[th].at = "write" =>
    LET w      == pc[th]
        blocks == pc[th].blocks \o pc[th].own
    IN /\ BlocksFor(w.content) <= Len(blocks)
       /\ \A i \in 1 .. Len(w.content) :
            Block(i) <= w.written => disk[blocks[Block(i)]][Offset(i)] = w.content[i]

\* The bytes of a file are in its blocks.
FilesHoldStored ==
  \A f \in Files : stored[f] # Nothing =>
    /\ file[f] # NoFile /\ file[f].size = Len(stored[f])
    /\ \A i \in 1 .. Len(stored[f]) :
         /\ Block(i) \in DOMAIN file[f].blocks
         /\ disk[file[f].blocks[Block(i)]][Offset(i)] = stored[f][i]

RInv == torn = {} => NothingWrittenYet /\ WritesAreInPlace /\ FilesHoldStored

IInv == TInv /\ OInv /\ RInv

-----------------------------------------------------------------------------
(***************************************************************************)
(* Types.                                                                  *)
(***************************************************************************)
USE BlocksAssumption, NoFileAssumption

\* The thread th is now as w says, the others are as they were.
Moves(th, w) ==
  /\ pc' \in [Threads -> Work \cup {Idle}]
  /\ pc'[th] = w
  /\ \A u \in Threads : u # th => pc'[u] = pc[u]

\* The same work with another step, blocks, or number of blocks written.
Continues(th, at, blocks, own, written) ==
  /\ pc[th] \in Work /\ pc[th] # Idle /\ pc'[th] \in Work /\ pc'[th] # Idle
  /\ Moves(th, pc'[th])
  /\ pc'[th].at = at /\ pc'[th].blocks = blocks /\ pc'[th].own = own /\ pc'[th].written = written
  /\ pc'[th].file = pc[th].file /\ pc'[th].content = pc[th].content

\* Only an idle thread is idle.
LEMMA WorkIsNotIdle == Idle \notin Work /\ \A w \in Work : w # Idle
BY DEF Work, Idle, Steps

\* What a busy thread holds.
LEMMA BusyIsWork == ASSUME TypeOK, NEW th \in Threads, pc[th] # Idle PROVE pc[th] \in Work
BY DEF TypeOK

\* A step that changes some fields of the work of a thread.
LEMMA ContinuesHasEffect ==
  ASSUME TypeOK, NEW th \in Threads, pc[th] # Idle,
         NEW at \in Steps, NEW blocks \in Seq(BlockIds), NEW own \in Seq(BlockIds), NEW written \in Nat,
         pc' = [pc EXCEPT ![th] = [pc[th] EXCEPT !.at = at, !.blocks = blocks, !.own = own,
                                                 !.written = written]]
  PROVE  Continues(th, at, blocks, own, written)
<1> DEFINE w == [pc[th] EXCEPT !.at = at, !.blocks = blocks, !.own = own, !.written = written]
<1>1. pc[th] \in Work
  BY BusyIsWork
<1>2. w \in Work /\ w.at = at /\ w.blocks = blocks /\ w.own = own /\ w.written = written
      /\ w.file = pc[th].file /\ w.content = pc[th].content
  BY <1>1 DEF Work
<1> HIDE DEF w
<1>3. pc' = [pc EXCEPT ![th] = w] /\ pc \in [Threads -> Work \cup {Idle}]
  BY DEF w, TypeOK
<1>4. Moves(th, w)
  BY <1>2, <1>3 DEF Moves
<1> QED
  BY <1>1, <1>2, <1>3, <1>4, WorkIsNotIdle DEF Continues

\* The thread of a dump has its first block, marked from now on.
LEMMA FirstBlockEffect ==
  ASSUME TypeOK, NEW th \in Threads, FirstBlock(th)
  PROVE  \E b \in BlockIds \ bitmap :
           /\ bitmap' = bitmap \cup {b}
           /\ Continues(th, "create", pc[th].blocks, <<b>>, pc[th].written)
<1>1. PICK b \in BlockIds : buscarBloqueLibre(b)
                            /\ pc' = [pc EXCEPT ![th].at = "create", ![th].own = <<b>>]
  BY DEF FirstBlock
<1>2. pc[th] \in Work /\ pc[th] # Idle
  BY BusyIsWork DEF FirstBlock, At
<1>3. pc' = [pc EXCEPT ![th] = [pc[th] EXCEPT !.at = "create", !.blocks = pc[th].blocks,
                                              !.own = <<b>>, !.written = pc[th].written]]
  BY <1>1, <1>2 DEF TypeOK, Work
<1>4. pc[th].blocks \in Seq(BlockIds) /\ <<b>> \in Seq(BlockIds) /\ pc[th].written \in Nat
  BY <1>2 DEF Work
<1>5. Continues(th, "create", pc[th].blocks, <<b>>, pc[th].written)
  BY <1>2, <1>3, <1>4, ContinuesHasEffect DEF Steps
<1> QED
  BY <1>1, <1>5 DEF buscarBloqueLibre, FirstFree

\* The block goes from the thread to the file.
LEMMA CreateEffect ==
  ASSUME TypeOK, NEW th \in Threads, crearArchivoLFS(th)
  PROVE  Continues(th, "load", pc[th].blocks, <<>>, pc[th].written)
<1>1. pc[th] \in Work /\ pc[th] # Idle
  BY BusyIsWork DEF crearArchivoLFS, At
<1>2. pc' = [pc EXCEPT ![th] = [pc[th] EXCEPT !.at = "load", !.blocks = pc[th].blocks,
                                              !.own = <<>>, !.written = pc[th].written]]
  BY <1>1 DEF crearArchivoLFS, TypeOK, Work, At
<1>3. "load" \in Steps /\ pc[th].blocks \in Seq(BlockIds)
      /\ <<>> \in Seq(BlockIds) /\ pc[th].written \in Nat
  BY <1>1 DEF Work, Steps
<1> QED
  BY <1>1, <1>2, <1>3, ContinuesHasEffect

\* The thread keeps what it got, to give it back.
LEMMA GiveUpEffect ==
  ASSUME TypeOK, NEW th \in Threads, GiveUp(th)
  PROVE  Continues(th, "undo", pc[th].blocks, pc[th].own, pc[th].written)
<1>1. pc[th] \in Work /\ pc[th] # Idle
  BY BusyIsWork DEF GiveUp, At
<1>2. pc' = [pc EXCEPT ![th] = [pc[th] EXCEPT !.at = "undo", !.blocks = pc[th].blocks,
                                              !.own = pc[th].own, !.written = pc[th].written]]
  BY <1>1 DEF GiveUp, TypeOK, Work, At
<1>3. "undo" \in Steps /\ pc[th].blocks \in Seq(BlockIds)
      /\ pc[th].own \in Seq(BlockIds) /\ pc[th].written \in Nat
  BY <1>1 DEF Work, Steps
<1> QED
  BY <1>1, <1>2, <1>3, ContinuesHasEffect

\* The thread has its blocks.
LEMMA BeginWriteEffect ==
  ASSUME TypeOK, NEW th \in Threads, BeginWrite(th)
  PROVE  Continues(th, "write", pc[th].blocks, pc[th].own, pc[th].written)
<1>1. pc[th] \in Work /\ pc[th] # Idle
  BY BusyIsWork DEF BeginWrite, At
<1>2. pc' = [pc EXCEPT ![th] = [pc[th] EXCEPT !.at = "write", !.blocks = pc[th].blocks,
                                              !.own = pc[th].own, !.written = pc[th].written]]
  BY <1>1 DEF BeginWrite, TypeOK, Work, At
<1>3. "write" \in Steps /\ pc[th].blocks \in Seq(BlockIds)
      /\ pc[th].own \in Seq(BlockIds) /\ pc[th].written \in Nat
  BY <1>1 DEF Work, Steps
<1> QED
  BY <1>1, <1>2, <1>3, ContinuesHasEffect

\* One block more is written.
LEMMA WriteEffect ==
  ASSUME TypeOK, NEW th \in Threads, _escribirBloque(th)
  PROVE  Continues(th, pc[th].at, pc[th].blocks, pc[th].own, pc[th].written + 1)
<1>1. pc[th] \in Work /\ pc[th] # Idle
  BY BusyIsWork DEF _escribirBloque, At
<1>2. pc' = [pc EXCEPT ![th] = [pc[th] EXCEPT !.at = pc[th].at, !.blocks = pc[th].blocks,
                                              !.own = pc[th].own, !.written = pc[th].written + 1]]
  BY <1>1 DEF _escribirBloque, TypeOK, Work, At
<1>3. pc[th].at \in Steps /\ pc[th].blocks \in Seq(BlockIds)
      /\ pc[th].own \in Seq(BlockIds) /\ pc[th].written + 1 \in Nat
  BY <1>1 DEF Work, Steps
<1> QED
  BY <1>1, <1>2, <1>3, ContinuesHasEffect

\* The first of the blocks is not the thread's any more.
LEMMA FreeEffect ==
  ASSUME TypeOK, NEW th \in Threads, borrarArchivoLFS(th)
  PROVE  Continues(th, pc[th].at, pc[th].blocks, Tail(pc[th].own), pc[th].written)
<1>1. pc[th] \in Work /\ pc[th] # Idle
  BY BusyIsWork DEF borrarArchivoLFS, At
<1>2. pc' = [pc EXCEPT ![th] = [pc[th] EXCEPT !.at = pc[th].at, !.blocks = pc[th].blocks,
                                              !.own = Tail(pc[th].own), !.written = pc[th].written]]
  BY <1>1 DEF borrarArchivoLFS, TypeOK, Work, At
<1>3. pc[th].at \in Steps /\ pc[th].blocks \in Seq(BlockIds)
      /\ Tail(pc[th].own) \in Seq(BlockIds) /\ pc[th].written \in Nat
  <2>1. pc[th].own \in Seq(BlockIds) /\ pc[th].own # <<>>
    BY <1>1 DEF Work, borrarArchivoLFS
  <2> QED
    BY <1>1, <2>1, HeadTailProperties DEF Work
<1> QED
  BY <1>1, <1>2, <1>3, ContinuesHasEffect

\* The thread takes the file's blocks from the directory, or has no file to write to.
LEMMA LoadEffect ==
  ASSUME TypeOK, NEW th \in Threads, Load(th), file[pc[th].file] # NoFile
  PROVE  Continues(th, "ask", file[pc[th].file].blocks, pc[th].own, pc[th].written)
<1>1. pc[th] \in Work /\ pc[th] # Idle
  BY BusyIsWork DEF Load, At
<1>2. pc' = [pc EXCEPT ![th] = [pc[th] EXCEPT !.at = "ask", !.blocks = file[pc[th].file].blocks,
                                              !.own = pc[th].own, !.written = pc[th].written]]
  <2> PICK s : s = file[pc[th].file].blocks
    OBVIOUS
  <2>1. pc' = [pc EXCEPT ![th] = [pc[th] EXCEPT !.at = "ask", !.blocks = s]]
    BY DEF Load, TypeOK
  <2>2. [pc[th] EXCEPT !.at = "ask", !.blocks = s]
          = [pc[th] EXCEPT !.at = "ask", !.blocks = s, !.own = pc[th].own, !.written = pc[th].written]
    BY <1>1 DEF Work
  <2> QED
    BY <2>1, <2>2
<1>3. file[pc[th].file] \in Entry
  BY <1>1 DEF TypeOK, Work
<1>4. "ask" \in Steps /\ file[pc[th].file].blocks \in Seq(BlockIds) /\ pc[th].own \in Seq(BlockIds)
      /\ pc[th].written \in Nat
  BY <1>1, <1>3 DEF Work, Steps, Entry
<1> QED
  BY <1>1, <1>2, <1>4, ContinuesHasEffect

\* One block more, marked from now on.
LEMMA AskEffect ==
  ASSUME TypeOK, NEW th \in Threads, _pedirBloquesNuevos(th)
  PROVE  \E b \in BlockIds \ bitmap :
           /\ bitmap' = bitmap \cup {b}
           /\ Continues(th, pc[th].at, pc[th].blocks, Append(pc[th].own, b), pc[th].written)
<1>1. PICK b \in BlockIds : buscarBloqueLibre(b) /\ pc' = [pc EXCEPT ![th].own = Append(@, b)]
  BY DEF _pedirBloquesNuevos
<1>2. pc[th] \in Work /\ pc[th] # Idle
  BY BusyIsWork DEF _pedirBloquesNuevos, At
<1>3. pc' = [pc EXCEPT ![th] = [pc[th] EXCEPT !.at = pc[th].at, !.blocks = pc[th].blocks,
                                      !.own = Append(pc[th].own, b), !.written = pc[th].written]]
  BY <1>1, <1>2 DEF TypeOK, Work
<1>4. pc[th].at \in Steps /\ pc[th].blocks \in Seq(BlockIds) /\ Append(pc[th].own, b) \in Seq(BlockIds)
      /\ pc[th].written \in Nat
  BY <1>2, AppendProperties DEF Work
<1>5. Continues(th, pc[th].at, pc[th].blocks, Append(pc[th].own, b), pc[th].written)
  BY <1>2, <1>3, <1>4, ContinuesHasEffect
<1> QED
  BY <1>1, <1>5 DEF buscarBloqueLibre, FirstFree

\* The same as a deletion does, with blocks no file got.
LEMMA GiveBackEffect ==
  ASSUME TypeOK, NEW th \in Threads, GiveBack(th), pc[th].own # <<>>
  PROVE  Continues(th, pc[th].at, pc[th].blocks, Tail(pc[th].own), pc[th].written)
<1>1. pc[th] \in Work /\ pc[th] # Idle
  BY BusyIsWork DEF GiveBack, At
<1>2. pc' = [pc EXCEPT ![th] = [pc[th] EXCEPT !.at = pc[th].at, !.blocks = pc[th].blocks,
                                      !.own = Tail(pc[th].own), !.written = pc[th].written]]
  BY <1>1 DEF GiveBack, TypeOK, Work
<1>3. pc[th].at \in Steps /\ pc[th].blocks \in Seq(BlockIds) /\ Tail(pc[th].own) \in Seq(BlockIds)
      /\ pc[th].written \in Nat
  <2>1. pc[th].own \in Seq(BlockIds)
    BY <1>1 DEF Work
  <2> QED
    BY <1>1, <2>1, HeadTailProperties DEF Work
<1> QED
  BY <1>1, <1>2, <1>3, ContinuesHasEffect

\* A thread that was idle has work.
LEMMA BeginEffect ==
  ASSUME TypeOK, NEW th \in Threads, NEW w \in Work, pc' = [pc EXCEPT ![th] = w]
  PROVE  Moves(th, w) /\ w # Idle
BY WorkIsNotIdle DEF Moves, TypeOK

\* A thread that is done.
LEMMA StopEffect ==
  ASSUME TypeOK, NEW th \in Threads, Stop(th)
  PROVE  Moves(th, Idle)
BY DEF Moves, TypeOK, Stop

\* Dump and Overwrite.
LEMMA StartEffect ==
  ASSUME TypeOK, NEW th \in Threads, NEW step \in Steps, NEW f \in Files, NEW content \in Contents,
         Start(th, step, f, content)
  PROVE  /\ pc[th] = Idle
         /\ \E w \in Work :
              /\ Moves(th, w) /\ w # Idle
              /\ w.at = step /\ w.file = f /\ w.content = content
              /\ w.blocks = <<>> /\ w.own = <<>> /\ w.written = 0
<1> DEFINE w == [at |-> step, file |-> f, content |-> content, blocks |-> <<>>, own |-> <<>>, written |-> 0]
<1>1. w \in Work
  BY DEF Work
<1>2. pc[th] = Idle /\ pc' = [pc EXCEPT ![th] = w]
  BY DEF Start
<1>3. w.at = step /\ w.file = f /\ w.content = content /\ w.blocks = <<>> /\ w.own = <<>> /\ w.written = 0
  OBVIOUS
<1> HIDE DEF w
<1> QED
  BY <1>1, <1>2, <1>3, BeginEffect

\* The blocks of the file are the thread's, to be freed.
LEMMA DeleteEffect ==
  ASSUME TypeOK, NEW th \in Threads, NEW f \in Files, Delete(th, f)
  PROVE  /\ pc[th] = Idle /\ file[f] \in Entry
         /\ \E w \in Work :
              /\ Moves(th, w) /\ w # Idle
              /\ w.at = "free" /\ w.file = f /\ w.own = file[f].blocks
<1> DEFINE w == [at |-> "free", file |-> f, content |-> Nothing,
                 blocks |-> <<>>, own |-> file[f].blocks, written |-> 0]
<1>1. file[f] \in Entry
  BY DEF TypeOK, Delete
<1>2. file[f].blocks \in Seq(BlockIds)
  BY <1>1 DEF Entry
<1>3. w \in Work
  BY <1>2 DEF Work, Steps
<1>4. pc[th] = Idle /\ pc' = [pc EXCEPT ![th] = w]
  BY DEF Delete
<1>5. w.at = "free" /\ w.file = f /\ w.own = file[f].blocks
  OBVIOUS
<1> HIDE DEF w
<1> QED
  BY <1>1, <1>3, <1>4, <1>5, BeginEffect

\* What a step of one thread must show of its own work for the types to hold.
LEMMA TypesOfStep ==
  ASSUME TInv, NEW th \in Threads, NEW w \in Work \cup {Idle}, Moves(th, w),
         w # Idle /\ w.at # "free" => w.content \in Contents,
         bitmap' \subseteq BlockIds,
         file' \in [Files -> Entry \cup {NoFile}],
         disk' \in [BlockIds -> [1 .. BlockSize -> Bytes \cup {Zero}]],
         stored' \in [Files -> Seq(Bytes) \cup {Nothing}],
         torn' \subseteq Files, lost' \subseteq BlockIds
  PROVE  TInv'
<1>1. TypeOK'
  BY DEF TypeOK, Moves
<1>2. ContentGiven'
  BY DEF ContentGiven, Moves, TInv
<1> QED
  BY <1>1, <1>2 DEF TInv

\* The same for a thread that goes on with its work.
LEMMA TypesOfContinues ==
  ASSUME TInv, NEW th \in Threads, NEW at, NEW blocks, NEW own, NEW written,
         Continues(th, at, blocks, own, written),
         at = "free" => pc[th].at = "free",
         pc[th].at = "free" => at = "free",
         bitmap' \subseteq BlockIds,
         file' \in [Files -> Entry \cup {NoFile}],
         disk' \in [BlockIds -> [1 .. BlockSize -> Bytes \cup {Zero}]],
         stored' \in [Files -> Seq(Bytes) \cup {Nothing}],
         torn' \subseteq Files, lost' \subseteq BlockIds
  PROVE  TInv'
<1>1. pc'[th] \in Work \cup {Idle} /\ Moves(th, pc'[th])
  BY DEF Continues
<1>2. pc'[th] # Idle /\ pc'[th].at # "free" => pc'[th].content \in Contents
  BY DEF Continues, TInv, ContentGiven
<1> QED
  BY <1>1, <1>2, TypesOfStep

\* What is written are bytes, and the rest of the block stays as it was.
LEMMA WriteBlockType ==
  ASSUME TInv, NEW th \in Threads, _escribirBloque(th)
  PROVE  disk' \in [BlockIds -> [1 .. BlockSize -> Bytes \cup {Zero}]]
<1> DEFINE content == pc[th].content
           done    == pc[th].written
           block   == (pc[th].blocks \o pc[th].own)[done + 1]
           data    == [i \in 1 .. BlockSize |->
                         IF done * BlockSize + i <= Len(content) THEN content[done * BlockSize + i]
                         ELSE disk[block][i]]
<1>1. content \in Seq(Bytes) /\ done \in Nat
  <2>1. pc[th] \in Work /\ content \in Contents
    BY BusyIsWork DEF TInv, ContentGiven, _escribirBloque, At
  <2> QED
    BY <2>1 DEF Work
<1>2. disk' = [disk EXCEPT ![block] = data] /\ disk \in [BlockIds -> [1 .. BlockSize -> Bytes \cup {Zero}]]
  BY DEF _escribirBloque, TInv, TypeOK
<1>3. ASSUME block \in BlockIds PROVE data \in [1 .. BlockSize -> Bytes \cup {Zero}]
  <2>1. disk[block] \in [1 .. BlockSize -> Bytes \cup {Zero}]
    BY <1>2, <1>3
  <2>2. done * BlockSize \in Nat
    BY <1>1
  <2>3. ASSUME NEW i \in 1 .. BlockSize, done * BlockSize + i <= Len(content)
        PROVE  content[done * BlockSize + i] \in Bytes
    <3> DEFINE n == done * BlockSize
    <3>1. n \in Nat /\ n + i <= Len(content) /\ i \in Nat /\ i >= 1
      BY <2>2, <2>3
    <3> HIDE DEF n
    <3>2. n + i \in 1 .. Len(content)
      BY <1>1, <3>1
    <3>3. content[n + i] \in Bytes
      BY <1>1, <3>2, ElementOfSeq
    <3> QED
      BY <3>3 DEF n
  <2> HIDE DEF content, done, block
  <2> QED
    BY <2>1, <2>3
<1> HIDE DEF data, block
<1> QED
  BY <1>2, <1>3

\* At the start.
LEMMA InitTInv == Init => TInv
<1> SUFFICES ASSUME Init PROVE TInv
  OBVIOUS
<1>1. TypeOK
  BY DEF Init, TypeOK
<1> QED
  BY <1>1 DEF Init, TInv, ContentGiven

\* Each step keeps the types, and the contents of the threads that have one.
LEMMA NextTInv == TInv /\ [Next]_vars => TInv'
<1> SUFFICES ASSUME TInv, [Next]_vars PROVE TInv'
  OBVIOUS
<1> USE DEF TInv
<1>0. /\ bitmap \subseteq BlockIds
      /\ file \in [Files -> Entry \cup {NoFile}]
      /\ disk \in [BlockIds -> [1 .. BlockSize -> Bytes \cup {Zero}]]
      /\ stored \in [Files -> Seq(Bytes) \cup {Nothing}]
      /\ torn \subseteq Files /\ lost \subseteq BlockIds
  BY DEF TypeOK
<1>1. ASSUME NEW th \in Threads, NEW f \in Files, NEW content \in Contents,
             Dump(th, f, content) \/ Overwrite(th, f, content)
      PROVE  TInv'
  <2>1. PICK step \in Steps : Start(th, step, f, content)
    BY <1>1 DEF Dump, Overwrite, Steps
  <2>2. PICK w \in Work : Moves(th, w) /\ w.content = content
    BY <2>1, StartEffect
  <2>3. UNCHANGED <<bitmap, file, disk, stored, torn, lost>>
    BY <1>1 DEF Dump, Overwrite
  <2> QED
    BY <1>0, <2>2, <2>3, TypesOfStep
<1>2. ASSUME NEW th \in Threads, NEW f \in Files, Delete(th, f) PROVE TInv'
  <2>1. PICK w \in Work : Moves(th, w) /\ w.at = "free"
    BY <1>2, DeleteEffect
  <2>2. UNCHANGED <<bitmap, file, disk, lost>> /\ stored' = [stored EXCEPT ![f] = Nothing]
        /\ torn' \subseteq Files
    BY <1>0, <1>2 DEF Delete
  <2> QED
    BY <1>0, <2>1, <2>2, TypesOfStep
<1>3. ASSUME NEW th \in Threads, FirstBlock(th) PROVE TInv'
  <2>1. PICK b \in BlockIds : bitmap' = bitmap \cup {b}
                              /\ Continues(th, "create", pc[th].blocks, <<b>>, pc[th].written)
    BY <1>3, FirstBlockEffect
  <2>2. UNCHANGED <<file, disk, stored, torn, lost>> /\ pc[th].at = "first"
    BY <1>3 DEF FirstBlock, At
  <2> QED
    BY <1>0, <2>1, <2>2, TypesOfContinues
<1>4. ASSUME NEW th \in Threads, Stop(th), bitmap' \subseteq bitmap, disk' = disk, torn' = torn,
             lost' = lost, file' \in [Files -> Entry \cup {NoFile}],
             stored' \in [Files -> Seq(Bytes) \cup {Nothing}]
      PROVE  TInv'
  <2>1. Moves(th, Idle)
    BY <1>4, StopEffect
  <2> QED
    BY <1>0, <1>4, <2>1, TypesOfStep
<1>5. ASSUME NEW th \in Threads, NoFirstBlock(th) PROVE TInv'
  BY <1>0, <1>4, <1>5 DEF NoFirstBlock, NoneFree
<1>6. ASSUME NEW th \in Threads, crearArchivoLFS(th) PROVE TInv'
  <2>1. Continues(th, "load", pc[th].blocks, <<>>, pc[th].written) /\ pc[th].at = "create"
    BY <1>6, CreateEffect DEF crearArchivoLFS, At
  <2>2. [size |-> 0, blocks |-> pc[th].own] \in Entry
    BY <2>1 DEF Continues, Work, Entry
  <2>3. UNCHANGED <<bitmap, disk, torn, lost>> /\ file' \in [Files -> Entry \cup {NoFile}]
    BY <1>0, <1>6, <2>2 DEF crearArchivoLFS
  <2>4. stored' \in [Files -> Seq(Bytes) \cup {Nothing}]
    <3>1. <<>> \in Seq(Bytes) /\ stored' = [stored EXCEPT ![pc[th].file] = <<>>]
      BY <1>6 DEF crearArchivoLFS
    <3> QED
      BY <1>0, <3>1
  <2> QED
    BY <1>0, <2>1, <2>3, <2>4, TypesOfContinues
<1>7. ASSUME NEW th \in Threads, Load(th) PROVE TInv'
  <2>1. UNCHANGED <<bitmap, file, disk, stored, torn, lost>> /\ pc[th].at = "load"
    BY <1>7 DEF Load, At
  <2>2. CASE file[pc[th].file] = NoFile
    BY <1>0, <1>4, <1>7, <2>1, <2>2 DEF Load
  <2>3. CASE file[pc[th].file] # NoFile
    BY <1>0, <1>7, <2>1, <2>3, LoadEffect, TypesOfContinues
  <2> QED
    BY <2>2, <2>3
<1>8. ASSUME NEW th \in Threads, _pedirBloquesNuevos(th) PROVE TInv'
  <2>1. PICK b \in BlockIds : bitmap' = bitmap \cup {b}
                 /\ Continues(th, pc[th].at, pc[th].blocks, Append(pc[th].own, b), pc[th].written)
    BY <1>8, AskEffect
  <2>2. UNCHANGED <<file, disk, stored, torn, lost>>
    BY <1>8 DEF _pedirBloquesNuevos
  <2> QED
    BY <1>0, <2>1, <2>2, TypesOfContinues
<1>9. ASSUME NEW th \in Threads, GiveUp(th) PROVE TInv'
  <2>1. UNCHANGED <<bitmap, file, disk, stored, torn, lost>> /\ pc[th].at = "ask"
    BY <1>9 DEF GiveUp, NoneFree, At
  <2> QED
    BY <1>0, <1>9, <2>1, GiveUpEffect, TypesOfContinues
<1>10. ASSUME NEW th \in Threads, GiveBack(th) PROVE TInv'
  <2>1. UNCHANGED <<file, disk, stored, torn, lost>>
    BY <1>10 DEF GiveBack
  <2>2. CASE pc[th].own = <<>>
    BY <1>0, <1>4, <1>10, <2>1, <2>2 DEF GiveBack
  <2>3. CASE pc[th].own # <<>>
    <3>1. bitmap' \subseteq BlockIds
      BY <1>0, <1>10, <2>3 DEF GiveBack
    <3> QED
      BY <1>0, <1>10, <2>1, <2>3, <3>1, GiveBackEffect, TypesOfContinues
  <2> QED
    BY <2>2, <2>3
<1>11. ASSUME NEW th \in Threads, BeginWrite(th) PROVE TInv'
  <2>1. UNCHANGED <<bitmap, file, disk, torn, lost>> /\ pc[th].at = "ask"
        /\ stored' = [stored EXCEPT ![pc[th].file] = Nothing]
    BY <1>11 DEF BeginWrite, At
  <2>2. stored' \in [Files -> Seq(Bytes) \cup {Nothing}]
    BY <1>0, <2>1
  <2> QED
    BY <1>0, <1>11, <2>1, <2>2, BeginWriteEffect, TypesOfContinues
<1>12. ASSUME NEW th \in Threads, _escribirBloque(th) PROVE TInv'
  <2>1. UNCHANGED <<bitmap, file, stored, torn, lost>>
    BY <1>12 DEF _escribirBloque
  <2> QED
    BY <1>0, <1>12, <2>1, WriteEffect, WriteBlockType, TypesOfContinues
<1>13. ASSUME NEW th \in Threads, Save(th) PROVE TInv'
  <2>1. pc[th] \in Work /\ pc[th].content \in Contents
    BY <1>13, BusyIsWork DEF ContentGiven, Save, At
  <2>2. pc[th].content \in Seq(Bytes) /\ pc[th].blocks \o pc[th].own \in Seq(BlockIds)
    BY <2>1, ConcatProperties DEF Work
  <2>3. [size |-> Len(pc[th].content), blocks |-> pc[th].blocks \o pc[th].own] \in Entry
    BY <2>2 DEF Entry
  <2>4. UNCHANGED <<bitmap, disk, torn, lost>> /\ file' \in [Files -> Entry \cup {NoFile}]
        /\ stored' \in [Files -> Seq(Bytes) \cup {Nothing}]
    BY <1>0, <1>13, <2>2, <2>3 DEF Save
  <2> QED
    BY <1>4, <1>13, <2>4 DEF Save
<1>14. ASSUME NEW th \in Threads, borrarArchivoLFS(th) PROVE TInv'
  <2>1. UNCHANGED <<file, disk, stored, torn, lost>> /\ bitmap' \subseteq BlockIds
    BY <1>0, <1>14 DEF borrarArchivoLFS
  <2> QED
    BY <1>0, <1>14, <2>1, FreeEffect, TypesOfContinues
<1>15. ASSUME NEW th \in Threads, Unlink(th) PROVE TInv'
  <2>1. file' \in [Files -> Entry \cup {NoFile}]
    BY <1>0, <1>15 DEF Unlink
  <2> QED
    BY <1>0, <1>4, <1>15, <2>1 DEF Unlink
<1>16. CASE Crash
  <2>1. \A th \in Threads : Own(th) \subseteq BlockIds
    BY DEF Own, TypeOK, Work
  <2>2. torn' \subseteq Files
    <3>1. \A th \in Threads : At(th, "free") => pc[th].file \in Files
      BY BusyIsWork DEF At, Work
    <3> QED
      BY <1>0, <1>16, <3>1 DEF Crash
  <2>3. TypeOK'
    BY <1>0, <1>16, <2>1, <2>2 DEF Crash, TypeOK
  <2>4. ContentGiven'
    BY <1>16 DEF Crash, ContentGiven
  <2> QED
    BY <2>3, <2>4
<1>17. CASE UNCHANGED vars
  BY <1>17 DEF vars, TypeOK, ContentGiven
<1>18. ASSUME NEW th \in Threads, NEW f \in Files, NEW g \in Files, _renombrarArchivoATmpc(th, f, g)
       PROVE  TInv'
  <2>1. UNCHANGED <<bitmap, disk, pc>> /\ lost' = lost \cup Listed(g)
    BY <1>18 DEF _renombrarArchivoATmpc
  <2>2. Listed(g) \subseteq BlockIds
    <3> SUFFICES ASSUME file[g] # NoFile PROVE Listed(g) \subseteq BlockIds
      BY DEF Listed
    <3>1. file[g].blocks \in Seq(BlockIds)
      BY <1>0 DEF Entry
    <3> QED
      BY <3>1 DEF Listed
  <2>3. file' \in [Files -> Entry \cup {NoFile}] /\ stored' \in [Files -> Seq(Bytes) \cup {Nothing}]
    BY <1>0, <1>18 DEF _renombrarArchivoATmpc
  <2>4. torn' \subseteq Files
    BY <1>0, <1>18 DEF _renombrarArchivoATmpc
  <2>5. TypeOK'
    BY <1>0, <2>1, <2>2, <2>3, <2>4 DEF TypeOK
  <2>6. ContentGiven'
    BY <2>1 DEF ContentGiven
  <2> QED
    BY <2>5, <2>6
<1> QED
  BY <1>1, <1>2, <1>3, <1>5, <1>6, <1>7, <1>8, <1>9, <1>10, <1>11, <1>12, <1>13, <1>14, <1>15,
     <1>16, <1>17, <1>18 DEF Next

-----------------------------------------------------------------------------
(***************************************************************************)
(* Owners.                                                                 *)
(***************************************************************************)
\* Sequences of blocks as sets.
LEMMA ElementsOfAppend ==
  ASSUME NEW S, NEW s \in Seq(S), NEW e \in S
  PROVE  /\ Elements(Append(s, e)) = Elements(s) \cup {e}
         /\ Distinct(s) /\ e \notin Elements(s) => Distinct(Append(s, e))
<1>1. Append(s, e) \in Seq(S) /\ Len(Append(s, e)) = Len(s) + 1 /\ Len(s) \in Nat
      /\ DOMAIN s = 1 .. Len(s) /\ DOMAIN Append(s, e) = 1 .. Len(s) + 1
      /\ \A i \in 1 .. Len(s) : Append(s, e)[i] = s[i]
      /\ Append(s, e)[Len(s) + 1] = e
  BY AppendProperties, LenProperties
<1>2. \A i \in 1 .. Len(s) + 1 : i \in 1 .. Len(s) \/ i = Len(s) + 1
  BY <1>1
<1>3. Elements(Append(s, e)) = Elements(s) \cup {e}
  <2>1. Len(s) + 1 \in 1 .. Len(s) + 1 /\ \A i \in 1 .. Len(s) : i \in 1 .. Len(s) + 1
    BY <1>1
  <2> QED
    BY <1>1, <1>2, <2>1 DEF Elements
<1>4. ASSUME Distinct(s), e \notin Elements(s) PROVE Distinct(Append(s, e))
  <2>1. \A i \in 1 .. Len(s) : s[i] # e
    BY <1>1, <1>4 DEF Elements
  <2> QED
    BY <1>1, <1>2, <1>4, <2>1 DEF Distinct
<1> QED
  BY <1>3, <1>4

\* The first one less.
LEMMA ElementsOfTail ==
  ASSUME NEW S, NEW s \in Seq(S), s # <<>>, Distinct(s)
  PROVE  /\ Head(s) \in Elements(s)
         /\ Elements(Tail(s)) = Elements(s) \ {Head(s)}
         /\ Distinct(Tail(s))
<1>1. Tail(s) \in Seq(S) /\ Len(s) \in Nat /\ Len(s) >= 1 /\ Len(Tail(s)) = Len(s) - 1
      /\ DOMAIN s = 1 .. Len(s) /\ DOMAIN Tail(s) = 1 .. Len(s) - 1
      /\ \A i \in 1 .. Len(s) - 1 : Tail(s)[i] = s[i + 1]
      /\ Head(s) = s[1]
  BY HeadTailProperties, LenProperties, EmptySeq
<1>2. \A i \in 1 .. Len(s) - 1 : i + 1 \in 1 .. Len(s) /\ i + 1 # 1
  BY <1>1
<1>3. \A i \in 1 .. Len(s) : i # 1 => i - 1 \in 1 .. Len(s) - 1 /\ (i - 1) + 1 = i
  BY <1>1
<1>4. \A i \in 1 .. Len(s) : i # 1 => s[i] = Tail(s)[i - 1]
  BY <1>1, <1>3
<1>5. 1 \in DOMAIN s /\ Head(s) \in Elements(s)
  <2>1. 1 \in DOMAIN s
    BY <1>1
  <2>2. s[1] \in Elements(s)
    BY <2>1 DEF Elements
  <2> QED
    BY <1>1, <2>1, <2>2
<1>6. Elements(Tail(s)) = Elements(s) \ {Head(s)}
  <2>1. ASSUME NEW i \in DOMAIN Tail(s) PROVE Tail(s)[i] \in Elements(s) \ {Head(s)}
    <3>1. i + 1 \in DOMAIN s /\ i + 1 # 1 /\ Tail(s)[i] = s[i + 1]
      BY <1>1, <1>2
    <3>2. s[i + 1] # s[1]
      BY <1>5, <3>1 DEF Distinct
    <3> QED
      BY <1>1, <3>1, <3>2 DEF Elements
  <2>2. ASSUME NEW i \in DOMAIN s, s[i] # Head(s) PROVE s[i] \in Elements(Tail(s))
    <3>1. i # 1
      BY <1>1, <2>2
    <3>2. i - 1 \in DOMAIN Tail(s) /\ s[i] = Tail(s)[i - 1]
      BY <1>1, <1>3, <1>4, <3>1
    <3> QED
      BY <3>2 DEF Elements
  <2> QED
    BY <2>1, <2>2 DEF Elements
<1>7. ASSUME NEW i \in 1 .. Len(s) - 1, NEW j \in 1 .. Len(s) - 1, Tail(s)[i] = Tail(s)[j] PROVE i = j
  <2>1. s[i + 1] = s[j + 1] /\ i + 1 \in DOMAIN s /\ j + 1 \in DOMAIN s
    BY <1>1, <1>2, <1>7
  <2>2. i + 1 = j + 1
    BY <2>1 DEF Distinct
  <2> QED
    BY <2>2
<1>8. Distinct(Tail(s))
  BY <1>1, <1>7 DEF Distinct
<1> QED
  BY <1>5, <1>6, <1>8

\* Two lists.
LEMMA ElementsOfConcat ==
  ASSUME NEW S, NEW s \in Seq(S), NEW t \in Seq(S)
  PROVE  /\ Elements(s \o t) = Elements(s) \cup Elements(t)
         /\ Distinct(s) /\ Distinct(t) /\ Elements(s) \cap Elements(t) = {} => Distinct(s \o t)
<1>1. s \o t \in Seq(S) /\ Len(s) \in Nat /\ Len(t) \in Nat /\ Len(s \o t) = Len(s) + Len(t)
      /\ DOMAIN s = 1 .. Len(s) /\ DOMAIN t = 1 .. Len(t) /\ DOMAIN (s \o t) = 1 .. Len(s) + Len(t)
      /\ \A i \in 1 .. Len(s) + Len(t) : (s \o t)[i] = IF i <= Len(s) THEN s[i] ELSE t[i - Len(s)]
  BY ConcatProperties, LenProperties
<1> DEFINE c == s \o t
           m == Len(s)
           n == Len(t)
<1>2. \A i \in 1 .. m + n : \/ i \in 1 .. m /\ c[i] = s[i]
                            \/ i \notin 1 .. m /\ i - m \in 1 .. n /\ c[i] = t[i - m]
  BY <1>1
<1>3. \A i \in 1 .. m : i \in 1 .. m + n /\ c[i] = s[i]
  BY <1>1
<1>4. \A i \in 1 .. n : m + i \in 1 .. m + n /\ c[m + i] = t[i]
  <2>1. \A i \in 1 .. n : m + i \in 1 .. m + n /\ ~(m + i <= m) /\ (m + i) - m = i
    BY <1>1
  <2> QED
    BY <1>1, <2>1
<1>5. m \in Nat /\ n \in Nat /\ DOMAIN s = 1 .. m /\ DOMAIN t = 1 .. n /\ DOMAIN c = 1 .. m + n
  BY <1>1
<1> HIDE DEF c, m, n
<1>6. Elements(c) = Elements(s) \cup Elements(t)
  BY <1>2, <1>3, <1>4, <1>5 DEF Elements
<1>7. ASSUME Distinct(s), Distinct(t), Elements(s) \cap Elements(t) = {},
             NEW i \in 1 .. m + n, NEW j \in 1 .. m + n, c[i] = c[j]
      PROVE  i = j
  <2>1. CASE i \in 1 .. m /\ j \in 1 .. m
    BY <1>2, <1>5, <1>7, <2>1 DEF Distinct
  <2>2. CASE i \notin 1 .. m /\ j \notin 1 .. m
    <3>1. i - m \in DOMAIN t /\ j - m \in DOMAIN t /\ t[i - m] = t[j - m]
      BY <1>2, <1>5, <1>7, <2>2
    <3>2. i - m = j - m
      BY <1>7, <3>1 DEF Distinct
    <3> QED
      BY <1>5, <3>2
  <2>3. \A x \in DOMAIN s, y \in DOMAIN t : s[x] # t[y]
    BY <1>7 DEF Elements
  <2> QED
    BY <1>2, <1>5, <1>7, <2>1, <2>2, <2>3
<1> QED
  BY <1>5, <1>6, <1>7 DEF Distinct, c

\* None or one.
LEMMA ElementsOfShort ==
  /\ Elements(<<>>) = {} /\ Distinct(<<>>)
  /\ \A b : Elements(<<b>>) = {b} /\ Distinct(<<b>>)
<1>1. DOMAIN <<>> = {}
  OBVIOUS
<1>2. ASSUME NEW b PROVE DOMAIN <<b>> = {1} /\ <<b>>[1] = b
  OBVIOUS
<1> QED
  BY <1>1, <1>2 DEF Elements, Distinct

-----------------------------------------------------------------------------
\* How blocks change hands.  Nothing changes:
LEMMA OwnersKept ==
  ASSUME Owners, bitmap' = bitmap, lost' = lost,
         \A f \in Files : Held(f)' = Held(f),
         \A th \in Threads : Own(th)' = Own(th)
  PROVE  Owners'
BY DEF Owners

\* A free block is marked and taken by a thread,
LEMMA OwnersTake ==
  ASSUME Owners, NEW th \in Threads, NEW b \in BlockIds \ bitmap,
         bitmap' = bitmap \cup {b}, lost' = lost,
         \A f \in Files : Held(f)' = Held(f),
         Own(th)' = Own(th) \cup {b},
         \A u \in Threads : u # th => Own(u)' = Own(u)
  PROVE  Owners'
<1>1. /\ \A f \in Files : b \notin Held(f)
      /\ \A u \in Threads : b \notin Own(u)
      /\ b \notin lost
  BY DEF Owners
<1>2. /\ \A f, g \in Files : f # g => Held(f)' \cap Held(g)' = {}
      /\ \A f \in Files : Held(f)' \cap lost' = {}
  BY DEF Owners
<1>3. /\ \A f \in Files, u \in Threads : Held(f)' \cap Own(u)' = {}
      /\ \A u \in Threads : Own(u)' \cap lost' = {}
  BY <1>1 DEF Owners
<1>4. ASSUME NEW u \in Threads, NEW v \in Threads, u # v PROVE Own(u)' \cap Own(v)' = {}
  BY <1>1, <1>4 DEF Owners
<1>5. ASSUME NEW c \in BlockIds
      PROVE  c \in bitmap' <=>
               (\E f \in Files : c \in Held(f)') \/ (\E u \in Threads : c \in Own(u)') \/ c \in lost'
  BY <1>1 DEF Owners
<1> QED
  BY <1>2, <1>3, <1>4, <1>5 DEF Owners

\* given back by it,
LEMMA OwnersGive ==
  ASSUME Owners, NEW th \in Threads, NEW b \in Own(th),
         bitmap' = bitmap \ {b}, lost' = lost,
         \A f \in Files : Held(f)' = Held(f),
         Own(th)' = Own(th) \ {b},
         \A u \in Threads : u # th => Own(u)' = Own(u)
  PROVE  Owners'
<1>1. /\ \A f \in Files : b \notin Held(f)
      /\ \A u \in Threads : u # th => b \notin Own(u)
      /\ b \notin lost
  BY DEF Owners
<1>2. /\ \A f, g \in Files : f # g => Held(f)' \cap Held(g)' = {}
      /\ \A f \in Files : Held(f)' \cap lost' = {}
  BY DEF Owners
<1>3. /\ \A f \in Files, u \in Threads : Held(f)' \cap Own(u)' = {}
      /\ \A u \in Threads : Own(u)' \cap lost' = {}
  BY <1>1 DEF Owners
<1>4. ASSUME NEW u \in Threads, NEW v \in Threads, u # v PROVE Own(u)' \cap Own(v)' = {}
  BY <1>1, <1>4 DEF Owners
<1>5. ASSUME NEW c \in BlockIds
      PROVE  c \in bitmap' <=>
               (\E f \in Files : c \in Held(f)') \/ (\E u \in Threads : c \in Own(u)') \/ c \in lost'
  BY <1>1 DEF Owners
<1> QED
  BY <1>2, <1>3, <1>4, <1>5 DEF Owners

\* saved with its file,
LEMMA OwnersToFile ==
  ASSUME Owners, NEW th \in Threads, NEW f \in Files,
         bitmap' = bitmap, lost' = lost,
         Held(f)' = Held(f) \cup Own(th),
         \A g \in Files : g # f => Held(g)' = Held(g),
         Own(th)' = {},
         \A u \in Threads : u # th => Own(u)' = Own(u)
  PROVE  Owners'
<1>1. ASSUME NEW g \in Files, NEW h \in Files, g # h PROVE Held(g)' \cap Held(h)' = {}
  BY <1>1 DEF Owners
<1>2. ASSUME NEW g \in Files, NEW u \in Threads PROVE Held(g)' \cap Own(u)' = {}
  BY DEF Owners
<1>3. ASSUME NEW u \in Threads, NEW v \in Threads, u # v PROVE Own(u)' \cap Own(v)' = {}
  BY <1>3 DEF Owners
<1>4. \A g \in Files : Held(g)' \cap lost' = {}
  BY DEF Owners
<1>5. \A u \in Threads : Own(u)' \cap lost' = {}
  BY DEF Owners
<1>6. ASSUME NEW c \in BlockIds
      PROVE  c \in bitmap' <=>
               (\E g \in Files : c \in Held(g)') \/ (\E u \in Threads : c \in Own(u)') \/ c \in lost'
  BY DEF Owners
<1> QED
  BY <1>1, <1>2, <1>3, <1>4, <1>5, <1>6 DEF Owners

\* taken by a thread that will delete the file,
LEMMA OwnersToThread ==
  ASSUME Owners, NEW th \in Threads, NEW f \in Files,
         bitmap' = bitmap, lost' = lost,
         Held(f)' = {}, Own(th)' = Held(f), Own(th) = {},
         \A g \in Files : g # f => Held(g)' = Held(g),
         \A u \in Threads : u # th => Own(u)' = Own(u)
  PROVE  Owners'
<1>1. ASSUME NEW g \in Files, NEW h \in Files, g # h PROVE Held(g)' \cap Held(h)' = {}
  BY <1>1 DEF Owners
<1>2. ASSUME NEW g \in Files, NEW u \in Threads PROVE Held(g)' \cap Own(u)' = {}
  BY DEF Owners
<1>3. ASSUME NEW u \in Threads, NEW v \in Threads, u # v PROVE Own(u)' \cap Own(v)' = {}
  BY <1>3 DEF Owners
<1>4. \A g \in Files : Held(g)' \cap lost' = {}
  BY DEF Owners
<1>5. \A u \in Threads : Own(u)' \cap lost' = {}
  BY DEF Owners
<1>6. ASSUME NEW c \in BlockIds
      PROVE  c \in bitmap' <=>
               (\E g \in Files : c \in Held(g)') \/ (\E u \in Threads : c \in Own(u)') \/ c \in lost'
  BY DEF Owners
<1> QED
  BY <1>1, <1>2, <1>3, <1>4, <1>5, <1>6 DEF Owners

\* moved to another file, whose own blocks have no owner any more,
LEMMA OwnersMoved ==
  ASSUME Owners, NEW f \in Files, NEW g \in Files, f # g,
         bitmap' = bitmap, lost' = lost \cup Held(g),
         Held(f)' = {}, Held(g)' = Held(f),
         \A h \in Files : h # f /\ h # g => Held(h)' = Held(h),
         \A u \in Threads : Own(u)' = Own(u)
  PROVE  Owners'
<1>1. ASSUME NEW h \in Files, NEW k \in Files, h # k PROVE Held(h)' \cap Held(k)' = {}
  <2>1. CASE h = g
    BY <1>1, <2>1 DEF Owners
  <2>2. CASE k = g
    BY <1>1, <2>2 DEF Owners
  <2>3. CASE h # g /\ k # g
    BY <1>1, <2>3 DEF Owners
  <2> QED
    BY <2>1, <2>2, <2>3
<1>2. ASSUME NEW h \in Files, NEW u \in Threads PROVE Held(h)' \cap Own(u)' = {}
  BY DEF Owners
<1>3. \A u, v \in Threads : u # v => Own(u)' \cap Own(v)' = {}
  BY DEF Owners
<1>4. ASSUME NEW h \in Files PROVE Held(h)' \cap lost' = {}
  <2>1. CASE h = g
    BY <2>1 DEF Owners
  <2>2. CASE h # g
    BY <2>2 DEF Owners
  <2> QED
    BY <2>1, <2>2
<1>5. \A u \in Threads : Own(u)' \cap lost' = {}
  BY DEF Owners
<1>6. ASSUME NEW c \in BlockIds
      PROVE  c \in bitmap' <=>
               (\E h \in Files : c \in Held(h)') \/ (\E u \in Threads : c \in Own(u)') \/ c \in lost'
  <2>1. (\E h \in Files : c \in Held(h)') \/ c \in Held(g) <=> \E h \in Files : c \in Held(h)
    OBVIOUS
  <2> QED
    BY <2>1 DEF Owners
<1> QED
  BY <1>1, <1>2, <1>3, <1>4, <1>5, <1>6 DEF Owners

\* or left behind by threads that end with the process.
LEMMA OwnersLost ==
  ASSUME Owners, bitmap' = bitmap, lost' = lost \cup UNION {Own(th) : th \in Threads},
         \A f \in Files : Held(f)' = Held(f),
         \A th \in Threads : Own(th)' = {}
  PROVE  Owners'
<1>1. \A c : c \in lost' <=> c \in lost \/ \E th \in Threads : c \in Own(th)
  OBVIOUS
<1>2. /\ \A f, g \in Files : f # g => Held(f)' \cap Held(g)' = {}
      /\ \A f \in Files, u \in Threads : Held(f)' \cap Own(u)' = {}
      /\ \A u, v \in Threads : u # v => Own(u)' \cap Own(v)' = {}
      /\ \A u \in Threads : Own(u)' \cap lost' = {}
  BY DEF Owners
<1>3. \A f \in Files : Held(f)' \cap lost' = {}
  BY <1>1 DEF Owners
<1>4. ASSUME NEW c \in BlockIds
      PROVE  c \in bitmap' <=>
               (\E f \in Files : c \in Held(f)') \/ (\E u \in Threads : c \in Own(u)') \/ c \in lost'
  BY <1>1 DEF Owners
<1> QED
  BY <1>2, <1>3, <1>4 DEF Owners

-----------------------------------------------------------------------------
Shape == OneThreadPerFile /\ WorkFollowsFile /\ ListsAreDistinct

\* The others' blocks stay theirs, and a file keeps its blocks as long as its entry and
\* its deletion, or not, stay as they are.
LEMMA OwnOfOthers ==
  ASSUME NEW th \in Threads, NEW w, Moves(th, w)
  PROVE  /\ \A u \in Threads : u # th => Own(u)' = Own(u)
         /\ w = Idle => Own(th)' = {}
         /\ w # Idle => Own(th)' = Elements(w.own)
BY DEF Moves, Own, Elements

\* The blocks of a file.
LEMMA HeldIsKept ==
  ASSUME NEW th \in Threads, NEW w, Moves(th, w), NEW f \in Files, file'[f] = file[f],
         (w # Idle /\ w.at = "free" /\ w.file = f) <=>
           (pc[th] # Idle /\ pc[th].at = "free" /\ pc[th].file = f)
  PROVE  Held(f)' = Held(f)
<1>1. Listed(f)' = Listed(f)
  BY DEF Listed
<1>2. Deleting(f)' <=> Deleting(f)
  BY DEF Deleting, At, Moves
<1> QED
  BY <1>1, <1>2 DEF Held

\* What a step of one thread must show of its own work and file.
LEMMA ShapeOfStep ==
  ASSUME TInv, Shape, NEW th \in Threads, NEW w \in Work \cup {Idle}, Moves(th, w), NEW f \in Files,
         \A u \in Threads : u # th /\ pc[u] # Idle => pc[u].file # f,
         \A g \in Files : g # f => file'[g] = file[g] /\ stored'[g] = stored[g],
         w # Idle => w.file = f /\ FollowsFile(w, file', stored') /\ Distinct(w.own),
         file'[f] # NoFile => Distinct(file'[f].blocks)
  PROVE  Shape'
<1>1. \A u \in Threads : u # th => pc'[u] = pc[u]
  BY DEF Moves
<1>2. pc'[th] = w
  BY DEF Moves
<1>3. OneThreadPerFile'
  BY <1>1, <1>2 DEF Shape, OneThreadPerFile
<1>4. WorkFollowsFile'
  <2>1. ASSUME NEW u \in Threads, u # th, pc[u] # Idle PROVE FollowsFile(pc[u], file', stored')
    <3>1. pc[u].file \in Files /\ pc[u].file # f
      BY <2>1, BusyIsWork DEF TInv, Work
    <3>2. FollowsFile(pc[u], file, stored)
      BY <2>1 DEF Shape, WorkFollowsFile
    <3> QED
      BY <3>1, <3>2 DEF FollowsFile
  <2>2. ASSUME NEW u \in Threads, pc'[u] # Idle PROVE FollowsFile(pc'[u], file', stored')
    BY <1>1, <1>2, <2>1, <2>2
  <2> QED
    BY <2>2 DEF WorkFollowsFile
<1>5. ListsAreDistinct'
  <2>1. \A g \in Files : file'[g] # NoFile => Distinct(file'[g].blocks)
    BY DEF Shape, ListsAreDistinct
  <2>2. \A u \in Threads : pc'[u] # Idle => Distinct(pc'[u].own)
    BY <1>1, <1>2 DEF Shape, ListsAreDistinct
  <2> QED
    BY <2>1, <2>2 DEF ListsAreDistinct
<1> QED
  BY <1>3, <1>4, <1>5 DEF Shape

\* The work of a thread that goes on, its file among the files and nobody else's.
LEMMA ContinuesFacts ==
  ASSUME TInv, Shape, NEW th \in Threads, pc[th] # Idle
  PROVE  /\ pc[th] \in Work /\ pc[th].file \in Files
         /\ \A u \in Threads : u # th /\ pc[u] # Idle => pc[u].file # pc[th].file
         /\ FollowsFile(pc[th], file, stored)
         /\ Distinct(pc[th].own)
         /\ file[pc[th].file] # NoFile => Distinct(file[pc[th].file].blocks)
<1>1. pc[th] \in Work
  BY BusyIsWork DEF TInv
<1>2. pc[th].file \in Files
  BY <1>1 DEF Work
<1> QED
  BY <1>1, <1>2 DEF Shape, OneThreadPerFile, WorkFollowsFile, ListsAreDistinct

\* A step of a thread that goes on and leaves the files as they are.
LEMMA ShapeOfContinues ==
  ASSUME TInv, Shape, NEW th \in Threads, NEW at, NEW blocks, NEW own, NEW written,
         Continues(th, at, blocks, own, written),
         file' = file,
         \A g \in Files : g # pc[th].file => stored'[g] = stored[g],
         FollowsFile(pc'[th], file, stored'), Distinct(own)
  PROVE  Shape'
<1>1. pc'[th] \in Work /\ pc'[th] # Idle /\ pc'[th].own = own /\ Moves(th, pc'[th])
      /\ pc'[th].file = pc[th].file /\ pc[th] # Idle
  BY DEF Continues
<1>2. /\ pc[th].file \in Files
      /\ \A u \in Threads : u # th /\ pc[u] # Idle => pc[u].file # pc[th].file
      /\ file[pc[th].file] # NoFile => Distinct(file[pc[th].file].blocks)
  BY <1>1, ContinuesFacts
<1>3. \A g \in Files : g # pc[th].file => file'[g] = file[g] /\ stored'[g] = stored[g]
  OBVIOUS
<1>4. pc'[th] \in Work \cup {Idle}
  BY <1>1
<1>5. FollowsFile(pc'[th], file', stored')
  OBVIOUS
<1> QED
  BY <1>1, <1>2, <1>3, <1>4, <1>5, ShapeOfStep

\* The step of a thread that goes on leaves the files their blocks.
LEMMA HeldOfContinues ==
  ASSUME TInv, NEW th \in Threads, NEW at, NEW blocks, NEW own, NEW written,
         Continues(th, at, blocks, own, written), file' = file,
         at = "free" <=> pc[th].at = "free"
  PROVE  /\ \A f \in Files : Held(f)' = Held(f)
         /\ Own(th) = Elements(pc[th].own) /\ Own(th)' = Elements(own)
         /\ \A u \in Threads : u # th => Own(u)' = Own(u)
<1>1. Moves(th, pc'[th]) /\ pc'[th] # Idle /\ pc[th] # Idle /\ pc'[th].own = own
      /\ pc'[th].at = at /\ pc'[th].file = pc[th].file
  BY DEF Continues
<1>2. \A f \in Files : Held(f)' = Held(f)
  BY <1>1, HeldIsKept
<1>3. Own(th) = Elements(pc[th].own)
  BY <1>1 DEF Own, Elements
<1> QED
  BY <1>1, <1>2, <1>3, OwnOfOthers

\* A thread that ends, with no block and not having deleted a file that is still listed.
LEMMA ShapeOfStop ==
  ASSUME TInv, Shape, NEW th \in Threads, pc[th] # Idle, Stop(th),
         \A g \in Files : g # pc[th].file => file'[g] = file[g] /\ stored'[g] = stored[g],
         file'[pc[th].file] # NoFile => Distinct(file'[pc[th].file].blocks)
  PROVE  Shape'
<1>1. Moves(th, Idle)
  BY StopEffect DEF TInv
<1>2. Idle \in Work \cup {Idle} /\ ~(Idle # Idle)
  OBVIOUS
<1>3. /\ pc[th].file \in Files
      /\ \A u \in Threads : u # th /\ pc[u] # Idle => pc[u].file # pc[th].file
  BY ContinuesFacts
<1> QED
  BY <1>1, <1>2, <1>3, ShapeOfStep

-----------------------------------------------------------------------------
\* A dump or an overwrite begins: its thread has no block yet.
LEMMA StartOwners ==
  ASSUME TInv, Shape, Owners, NEW th \in Threads, NEW f \in Files, NEW content \in Contents,
         Dump(th, f, content) \/ Overwrite(th, f, content)
  PROVE  Shape' /\ Owners'
<1>1. UNCHANGED <<bitmap, file, disk, stored, torn, lost>> /\ ~Busy(f)
  BY DEF Dump, Overwrite
<1>2. PICK step \in {"first", "load"} :
        Start(th, step, f, content) /\ (step = "first" <=> file[f] = NoFile)
  BY DEF Dump, Overwrite
<1>3. PICK w \in Work :
        /\ pc[th] = Idle /\ Moves(th, w) /\ w # Idle
        /\ w.at = step /\ w.file = f /\ w.own = <<>>
  BY <1>2, StartEffect DEF TInv, Steps
<1>4. FollowsFile(w, file', stored') /\ Distinct(w.own)
  BY <1>1, <1>2, <1>3, ElementsOfShort DEF FollowsFile
<1>5. \A u \in Threads : u # th /\ pc[u] # Idle => pc[u].file # f
  BY <1>1 DEF Busy
<1>6. Shape'
  <2>1. file'[f] # NoFile => Distinct(file'[f].blocks)
    BY <1>1 DEF Shape, ListsAreDistinct
  <2>2. w \in Work \cup {Idle}
    OBVIOUS
  <2>3. \A g \in Files : g # f => file'[g] = file[g] /\ stored'[g] = stored[g]
    BY <1>1
  <2> QED
    BY <1>3, <1>4, <1>5, <2>1, <2>2, <2>3, ShapeOfStep
<1>7. \A g \in Files : Held(g)' = Held(g)
  BY <1>1, <1>2, <1>3, HeldIsKept
<1>8. \A u \in Threads : Own(u)' = Own(u)
  <2>1. Own(th)' = {} /\ \A u \in Threads : u # th => Own(u)' = Own(u)
    BY <1>3, OwnOfOthers, ElementsOfShort
  <2>2. Own(th) = {}
    BY <1>3 DEF Own
  <2> QED
    BY <2>1, <2>2
<1> QED
  BY <1>1, <1>6, <1>7, <1>8, OwnersKept

\* The block of buscarBloqueLibre is the thread's.
LEMMA FirstBlockOwners ==
  ASSUME TInv, Shape, Owners, NEW th \in Threads, FirstBlock(th)
  PROVE  Shape' /\ Owners'
<1>1. PICK b \in BlockIds \ bitmap :
        bitmap' = bitmap \cup {b} /\ Continues(th, "create", pc[th].blocks, <<b>>, pc[th].written)
  BY FirstBlockEffect DEF TInv
<1>2. UNCHANGED <<file, disk, stored, torn, lost>> /\ pc[th] # Idle /\ pc[th].at = "first"
  BY DEF FirstBlock, At
<1>3. FollowsFile(pc[th], file, stored) /\ pc[th].own = <<>>
  BY <1>2, ContinuesFacts DEF FollowsFile
<1>4. FollowsFile(pc'[th], file, stored')
  BY <1>1, <1>2, <1>3 DEF FollowsFile, Continues
<1>5. Shape'
  BY <1>1, <1>2, <1>4, ElementsOfShort, ShapeOfContinues
<1>6. Own(th) = {} /\ Own(th)' = {b}
      /\ (\A f \in Files : Held(f)' = Held(f))
      /\ \A u \in Threads : u # th => Own(u)' = Own(u)
  BY <1>1, <1>2, <1>3, ElementsOfShort, HeldOfContinues
<1>7. Own(th)' = Own(th) \cup {b}
  BY <1>6
<1> QED
  BY <1>1, <1>2, <1>5, <1>6, <1>7, OwnersTake

\* A thread that ends as it has no block: no first one, or nothing more to give back.
LEMMA StopOwners ==
  ASSUME TInv, Shape, Owners, NEW th \in Threads, pc[th] # Idle, pc[th].at # "free",
         Stop(th), pc[th].own = <<>>, UNCHANGED <<bitmap, file, stored, lost>>
  PROVE  Shape' /\ Owners'
<1>1. Moves(th, Idle)
  BY StopEffect DEF TInv
<1>2. file[pc[th].file] # NoFile => Distinct(file[pc[th].file].blocks)
  BY ContinuesFacts
<1>3. Shape'
  BY <1>2, ShapeOfStop
<1>4. \A f \in Files : Held(f)' = Held(f)
  BY <1>1, HeldIsKept
<1>5. Own(th)' = {} /\ \A u \in Threads : u # th => Own(u)' = Own(u)
  BY <1>1, OwnOfOthers
<1>6. Own(th) = {}
  BY ElementsOfShort DEF Own, Elements
<1>7. \A u \in Threads : Own(u)' = Own(u)
  BY <1>5, <1>6
<1> QED
  BY <1>3, <1>4, <1>7, OwnersKept

\* The first block goes from the thread to its file.
LEMMA CreateOwners ==
  ASSUME TInv, Shape, Owners, NEW th \in Threads, crearArchivoLFS(th)
  PROVE  Shape' /\ Owners'
<1> PICK f \in Files : f = pc[th].file
  BY ContinuesFacts DEF crearArchivoLFS, At
<1> DEFINE entry == [size |-> 0, blocks |-> pc[th].own]
<1>1. Continues(th, "load", pc[th].blocks, <<>>, pc[th].written)
  BY CreateEffect DEF TInv
<1>2. UNCHANGED <<bitmap, disk, torn, lost>> /\ pc[th] # Idle /\ pc[th].at = "create"
      /\ file' = [file EXCEPT ![f] = entry] /\ stored' = [stored EXCEPT ![f] = <<>>]
  BY DEF crearArchivoLFS, At
<1>3. /\ f \in Files /\ pc[th] \in Work
      /\ \A u \in Threads : u # th /\ pc[u] # Idle => pc[u].file # f
      /\ file[f] = NoFile /\ Distinct(pc[th].own)
  BY <1>2, ContinuesFacts DEF FollowsFile
<1>4. entry # NoFile /\ entry.blocks = pc[th].own
  <2>1. entry \in Entry
    BY <1>3 DEF Work, Entry
  <2> QED
    BY <2>1
<1>5. file'[f] = entry /\ \A g \in Files : g # f => file'[g] = file[g] /\ stored'[g] = stored[g]
  BY <1>2, <1>3 DEF TInv, TypeOK
<1> HIDE DEF entry
<1>6. pc'[th] \in Work \cup {Idle} /\ pc'[th] # Idle /\ Moves(th, pc'[th]) /\ pc'[th].file = f
      /\ pc'[th].at = "load" /\ pc'[th].own = <<>>
  BY <1>1 DEF Continues
<1>7. FollowsFile(pc'[th], file', stored') /\ Distinct(pc'[th].own)
  BY <1>4, <1>5, <1>6, ElementsOfShort DEF FollowsFile
<1>8. Shape'
  BY <1>3, <1>4, <1>5, <1>6, <1>7, ShapeOfStep
<1>9. \A g \in Files : g # f => Held(g)' = Held(g)
  BY <1>2, <1>5, <1>6, HeldIsKept
<1>10. Held(f) = {} /\ Held(f)' = Own(th)
  <2>1. Listed(f) = {} /\ Listed(f)' = Elements(pc[th].own)
    BY <1>3, <1>4, <1>5 DEF Listed, Elements
  <2>2. ~Deleting(f)'
    <3>1. \A u \in Threads : u # th => pc'[u] = pc[u]
      BY <1>6 DEF Moves
    <3> QED
      BY <1>3, <1>6, <3>1 DEF Deleting, At
  <2>3. Own(th) = Elements(pc[th].own)
    BY <1>2 DEF Own, Elements
  <2> QED
    BY <2>1, <2>2, <2>3 DEF Held
<1>11. Own(th)' = {} /\ \A u \in Threads : u # th => Own(u)' = Own(u)
  BY <1>6, OwnOfOthers, ElementsOfShort
<1>12. Held(f)' = Held(f) \cup Own(th)
  BY <1>10
<1> QED
  BY <1>2, <1>3, <1>8, <1>9, <1>11, <1>12, OwnersToFile

\* The list of blocks that a thread read is its file's.
LEMMA LoadOwners ==
  ASSUME TInv, Shape, Owners, NEW th \in Threads, Load(th)
  PROVE  Shape' /\ Owners'
<1>1. UNCHANGED <<bitmap, file, disk, stored, torn, lost>> /\ pc[th] # Idle /\ pc[th].at = "load"
  BY DEF Load, At
<1>2. FollowsFile(pc[th], file, stored) /\ file[pc[th].file] # NoFile /\ pc[th].own = <<>>
  BY <1>1, ContinuesFacts DEF FollowsFile
<1>3. Continues(th, "ask", file[pc[th].file].blocks, pc[th].own, pc[th].written)
  BY <1>2, LoadEffect DEF TInv
<1>4. FollowsFile(pc'[th], file, stored')
  BY <1>1, <1>2, <1>3 DEF FollowsFile, Continues
<1>5. Shape'
  BY <1>1, <1>2, <1>3, <1>4, ElementsOfShort, ShapeOfContinues
<1>6. (\A f \in Files : Held(f)' = Held(f)) /\ \A u \in Threads : Own(u)' = Own(u)
  BY <1>1, <1>3, HeldOfContinues
<1> QED
  BY <1>1, <1>5, <1>6, OwnersKept

\* Each block that _pedirBloquesNuevos gets is the thread's.
LEMMA AskOwners ==
  ASSUME TInv, Shape, Owners, NEW th \in Threads, _pedirBloquesNuevos(th)
  PROVE  Shape' /\ Owners'
<1>1. PICK b \in BlockIds \ bitmap :
        /\ bitmap' = bitmap \cup {b}
        /\ Continues(th, pc[th].at, pc[th].blocks, Append(pc[th].own, b), pc[th].written)
  BY AskEffect DEF TInv
<1>2. UNCHANGED <<file, disk, stored, torn, lost>> /\ pc[th] # Idle /\ pc[th].at = "ask"
  BY DEF _pedirBloquesNuevos, At
<1>3. FollowsFile(pc[th], file, stored) /\ Distinct(pc[th].own) /\ pc[th].own \in Seq(BlockIds)
  BY <1>2, ContinuesFacts DEF Work
<1>4. Own(th) = Elements(pc[th].own) /\ Own(th)' = Elements(Append(pc[th].own, b))
      /\ (\A f \in Files : Held(f)' = Held(f))
      /\ \A u \in Threads : u # th => Own(u)' = Own(u)
  BY <1>1, <1>2, HeldOfContinues
<1>5. b \notin Own(th)
  BY DEF Owners
<1>6. Own(th)' = Own(th) \cup {b} /\ Distinct(Append(pc[th].own, b))
  BY <1>3, <1>4, <1>5, ElementsOfAppend
<1>7. FollowsFile(pc'[th], file, stored')
  BY <1>1, <1>2, <1>3 DEF FollowsFile, Continues
<1>8. Shape'
  BY <1>1, <1>2, <1>6, <1>7, ShapeOfContinues
<1> QED
  BY <1>1, <1>2, <1>4, <1>6, <1>8, OwnersTake

\* The thread keeps the blocks that it will give back.
LEMMA GiveUpOwners ==
  ASSUME TInv, Shape, Owners, NEW th \in Threads, GiveUp(th)
  PROVE  Shape' /\ Owners'
<1>1. UNCHANGED <<bitmap, file, disk, stored, torn, lost>> /\ pc[th] # Idle /\ pc[th].at = "ask"
  BY DEF GiveUp, At, NoneFree
<1>2. Continues(th, "undo", pc[th].blocks, pc[th].own, pc[th].written)
  BY GiveUpEffect DEF TInv
<1>3. FollowsFile(pc[th], file, stored) /\ Distinct(pc[th].own)
  BY <1>1, ContinuesFacts
<1>4. FollowsFile(pc'[th], file, stored')
  BY <1>1, <1>2, <1>3 DEF FollowsFile, Continues
<1>5. Shape'
  BY <1>1, <1>2, <1>3, <1>4, ShapeOfContinues
<1>6. (\A f \in Files : Held(f)' = Held(f)) /\ \A u \in Threads : Own(u)' = Own(u)
  BY <1>1, <1>2, HeldOfContinues
<1> QED
  BY <1>1, <1>5, <1>6, OwnersKept

\* What the file holds is not known from here on.
LEMMA BeginWriteOwners ==
  ASSUME TInv, Shape, Owners, NEW th \in Threads, BeginWrite(th)
  PROVE  Shape' /\ Owners'
<1>1. UNCHANGED <<bitmap, file, disk, torn, lost>> /\ pc[th] # Idle /\ pc[th].at = "ask"
      /\ stored' = [stored EXCEPT ![pc[th].file] = Nothing]
  BY DEF BeginWrite, At
<1>2. Continues(th, "write", pc[th].blocks, pc[th].own, pc[th].written)
  BY BeginWriteEffect DEF TInv
<1>3. FollowsFile(pc[th], file, stored) /\ Distinct(pc[th].own) /\ pc[th].file \in Files
  BY <1>1, ContinuesFacts
<1>4. stored'[pc[th].file] = Nothing /\ \A g \in Files : g # pc[th].file => stored'[g] = stored[g]
  BY <1>1, <1>3 DEF TInv, TypeOK
<1>5. FollowsFile(pc'[th], file, stored')
  BY <1>1, <1>2, <1>3, <1>4 DEF FollowsFile, Continues
<1>6. Shape'
  BY <1>1, <1>2, <1>3, <1>4, <1>5, ShapeOfContinues
<1>7. (\A f \in Files : Held(f)' = Held(f)) /\ \A u \in Threads : Own(u)' = Own(u)
  BY <1>1, <1>2, HeldOfContinues
<1> QED
  BY <1>1, <1>6, <1>7, OwnersKept

\* Bytes are written, no block changes hands.
LEMMA WriteOwners ==
  ASSUME TInv, Shape, Owners, NEW th \in Threads, _escribirBloque(th)
  PROVE  Shape' /\ Owners'
<1>1. UNCHANGED <<bitmap, file, stored, torn, lost>> /\ pc[th] # Idle /\ pc[th].at = "write"
  BY DEF _escribirBloque, At
<1>2. Continues(th, pc[th].at, pc[th].blocks, pc[th].own, pc[th].written + 1)
  BY WriteEffect DEF TInv
<1>3. FollowsFile(pc[th], file, stored) /\ Distinct(pc[th].own)
  BY <1>1, ContinuesFacts
<1>4. FollowsFile(pc'[th], file, stored')
  BY <1>1, <1>2, <1>3 DEF FollowsFile, Continues
<1>5. Shape'
  BY <1>1, <1>2, <1>3, <1>4, ShapeOfContinues
<1>6. (\A f \in Files : Held(f)' = Held(f)) /\ \A u \in Threads : Own(u)' = Own(u)
  BY <1>1, <1>2, HeldOfContinues
<1> QED
  BY <1>1, <1>5, <1>6, OwnersKept

\* The head of the blocks of a thread, unmarked and given away.
LEMMA HeadOwners ==
  ASSUME TInv, Shape, Owners, NEW th \in Threads, pc[th] # Idle, pc[th].own # <<>>,
         pc[th].at \in {"undo", "free"},
         bitmap' = bitmap \ {Head(pc[th].own)}, UNCHANGED <<file, stored, lost>>,
         Continues(th, pc[th].at, pc[th].blocks, Tail(pc[th].own), pc[th].written)
  PROVE  Shape' /\ Owners'
<1>1. FollowsFile(pc[th], file, stored) /\ Distinct(pc[th].own) /\ pc[th].own \in Seq(BlockIds)
  BY ContinuesFacts DEF Work
<1>2. /\ Head(pc[th].own) \in Elements(pc[th].own)
      /\ Elements(Tail(pc[th].own)) = Elements(pc[th].own) \ {Head(pc[th].own)}
      /\ Distinct(Tail(pc[th].own))
  BY <1>1, ElementsOfTail
<1>3. Own(th) = Elements(pc[th].own) /\ Own(th)' = Elements(Tail(pc[th].own))
      /\ (\A f \in Files : Held(f)' = Held(f))
      /\ \A u \in Threads : u # th => Own(u)' = Own(u)
  BY HeldOfContinues
<1>4. FollowsFile(pc'[th], file, stored')
  BY <1>1 DEF FollowsFile, Continues
<1>5. Shape'
  BY <1>2, <1>4, ShapeOfContinues
<1> QED
  BY <1>2, <1>3, <1>5, OwnersGive

\* A write that did not get its blocks gives them back one by one.
LEMMA GiveBackOwners ==
  ASSUME TInv, Shape, Owners, NEW th \in Threads, GiveBack(th)
  PROVE  Shape' /\ Owners'
<1>1. UNCHANGED <<file, disk, stored, torn, lost>> /\ pc[th] # Idle /\ pc[th].at = "undo"
  BY DEF GiveBack, At
<1>2. CASE pc[th].own = <<>>
  BY <1>1, <1>2, StopOwners DEF GiveBack
<1>3. CASE pc[th].own # <<>>
  <2>1. Continues(th, pc[th].at, pc[th].blocks, Tail(pc[th].own), pc[th].written)
    BY <1>3, GiveBackEffect DEF TInv
  <2>2. bitmap' = bitmap \ {Head(pc[th].own)}
    BY <1>3 DEF GiveBack
  <2> QED
    BY <1>1, <1>3, <2>1, <2>2, HeadOwners
<1> QED
  BY <1>2, <1>3

\* borrarArchivoLFS frees the blocks one by one.
LEMMA FreeOwners ==
  ASSUME TInv, Shape, Owners, NEW th \in Threads, borrarArchivoLFS(th)
  PROVE  Shape' /\ Owners'
<1>1. UNCHANGED <<file, disk, stored, torn, lost>> /\ pc[th] # Idle /\ pc[th].at = "free"
      /\ pc[th].own # <<>> /\ bitmap' = bitmap \ {Head(pc[th].own)}
  BY DEF borrarArchivoLFS, At
<1>2. Continues(th, pc[th].at, pc[th].blocks, Tail(pc[th].own), pc[th].written)
  BY FreeEffect DEF TInv
<1> QED
  BY <1>1, <1>2, HeadOwners

\* The thread's blocks are the file's: those it had before and the new ones.
LEMMA SaveOwners ==
  ASSUME TInv, Shape, Owners, NEW th \in Threads, Save(th)
  PROVE  Shape' /\ Owners'
<1> PICK f \in Files : f = pc[th].file
  BY ContinuesFacts DEF Save, At
<1> DEFINE blocks == pc[th].blocks \o pc[th].own
           entry  == [size |-> Len(pc[th].content), blocks |-> blocks]
<1>1. UNCHANGED <<bitmap, disk, torn, lost>> /\ pc[th] # Idle /\ pc[th].at = "write" /\ Stop(th)
      /\ file' = [file EXCEPT ![f] = entry] /\ stored' = [stored EXCEPT ![f] = pc[th].content]
  BY DEF Save, At
<1>2. /\ pc[th] \in Work
      /\ \A u \in Threads : u # th /\ pc[u] # Idle => pc[u].file # f
      /\ file[f] # NoFile /\ pc[th].blocks = file[f].blocks /\ Distinct(pc[th].own)
      /\ Distinct(pc[th].blocks)
  BY <1>1, ContinuesFacts DEF FollowsFile
<1>3. pc[th].content \in Seq(Bytes) /\ pc[th].blocks \in Seq(BlockIds) /\ pc[th].own \in Seq(BlockIds)
      /\ blocks \in Seq(BlockIds)
  BY <1>1, <1>2, ConcatProperties DEF Work, TInv, ContentGiven
<1>4. ~Deleting(f)
  BY <1>1, <1>2 DEF Deleting, At
<1>5. Held(f) = Elements(pc[th].blocks) /\ Own(th) = Elements(pc[th].own)
  BY <1>1, <1>2, <1>4 DEF Held, Listed, Own, Elements
<1>6. Distinct(blocks) /\ Elements(blocks) = Held(f) \cup Own(th)
  <2>1. Held(f) \cap Own(th) = {}
    BY DEF Owners
  <2> QED
    BY <1>2, <1>3, <1>5, <2>1, ElementsOfConcat
<1>7. entry # NoFile /\ entry.blocks = blocks
  <2>1. entry \in Entry
    BY <1>3 DEF Entry
  <2> QED
    BY <2>1
<1>8. file'[f] = entry /\ \A g \in Files : g # f => file'[g] = file[g] /\ stored'[g] = stored[g]
  BY <1>1 DEF TInv, TypeOK
<1> HIDE DEF entry, blocks
<1>9. Shape'
  BY <1>1, <1>6, <1>7, <1>8, ShapeOfStop
<1>10. Moves(th, Idle)
  BY <1>1, StopEffect DEF TInv
<1>11. Own(th)' = {} /\ \A u \in Threads : u # th => Own(u)' = Own(u)
  BY <1>10, OwnOfOthers
<1>12. \A g \in Files : g # f => Held(g)' = Held(g)
  BY <1>1, <1>8, <1>10, HeldIsKept
<1>13. Held(f)' = Held(f) \cup Own(th)
  <2>1. Listed(f)' = Elements(blocks)
    BY <1>7, <1>8 DEF Listed, Elements
  <2>2. ~Deleting(f)'
    BY <1>4, <1>10 DEF Deleting, At, Moves
  <2> QED
    BY <1>6, <2>1, <2>2 DEF Held
<1> QED
  BY <1>1, <1>9, <1>11, <1>12, <1>13, OwnersToFile

\* A file that no thread works on is deleted: its blocks are the thread's until they are free.
LEMMA DeleteOwners ==
  ASSUME TInv, Shape, Owners, NEW th \in Threads, NEW f \in Files, Delete(th, f), torn' = {}
  PROVE  Shape' /\ Owners'
<1>1. PICK w \in Work :
        /\ pc[th] = Idle /\ Moves(th, w) /\ w # Idle
        /\ w.at = "free" /\ w.file = f /\ w.own = file[f].blocks
  BY DeleteEffect DEF TInv
<1>2. UNCHANGED <<bitmap, file, disk, lost>> /\ stored' = [stored EXCEPT ![f] = Nothing]
      /\ file[f] # NoFile
  BY DEF Delete
<1>3. ~Busy(f)
  BY DEF Delete
<1>4. \A u \in Threads : pc[u] # Idle => pc[u].file # f
  BY <1>3 DEF Busy
<1>5. stored'[f] = Nothing /\ \A g \in Files : g # f => stored'[g] = stored[g]
  BY <1>2 DEF TInv, TypeOK
<1>6. Distinct(file[f].blocks)
  BY <1>2 DEF Shape, ListsAreDistinct
<1>7. FollowsFile(w, file', stored')
  BY <1>1, <1>2, <1>5 DEF FollowsFile
<1>8. Shape'
  <2>1. w \in Work \cup {Idle} /\ Moves(th, w)
    BY <1>1
  <2>2. \A u \in Threads : u # th /\ pc[u] # Idle => pc[u].file # f
    BY <1>4
  <2>3. \A g \in Files : g # f => file'[g] = file[g] /\ stored'[g] = stored[g]
    BY <1>2, <1>5
  <2>4. w # Idle => w.file = f /\ FollowsFile(w, file', stored') /\ Distinct(w.own)
    BY <1>1, <1>6, <1>7
  <2>5. file'[f] # NoFile => Distinct(file'[f].blocks)
    BY <1>2, <1>6
  <2> QED
    BY <2>1, <2>2, <2>3, <2>4, <2>5, ShapeOfStep
<1>9. Held(f) = Elements(file[f].blocks)
  <2>1. ~Deleting(f)
    BY <1>4 DEF Deleting, At
  <2> QED
    BY <1>2, <2>1 DEF Held, Listed, Elements
<1>10. Held(f)' = {}
  BY <1>1 DEF Held, Deleting, At, Moves
<1>11. \A g \in Files : g # f => Held(g)' = Held(g)
  BY <1>1, <1>2, HeldIsKept
<1>12. Own(th) = {}
  BY <1>1 DEF Own
<1>13. Own(th)' = Held(f) /\ \A u \in Threads : u # th => Own(u)' = Own(u)
  BY <1>1, <1>9, OwnOfOthers
<1> QED
  BY <1>2, <1>8, <1>10, <1>11, <1>12, <1>13, OwnersToThread

\* The file of a deletion has no block left when it is unlinked.
LEMMA UnlinkOwners ==
  ASSUME TInv, Shape, Owners, NEW th \in Threads, Unlink(th)
  PROVE  Shape' /\ Owners'
<1> PICK f \in Files : f = pc[th].file
  BY ContinuesFacts DEF Unlink, At
<1>1. UNCHANGED <<bitmap, disk, stored, torn, lost>> /\ pc[th] # Idle /\ pc[th].at = "free"
      /\ Stop(th) /\ pc[th].own = <<>> /\ file' = [file EXCEPT ![f] = NoFile]
  BY DEF Unlink, At
<1>2. file'[f] = NoFile /\ \A g \in Files : g # f => file'[g] = file[g]
  BY <1>1 DEF TInv, TypeOK
<1>3. Shape'
  BY <1>1, <1>2, ShapeOfStop
<1>4. Moves(th, Idle)
  BY <1>1, StopEffect DEF TInv
<1>5. \A g \in Files : g # f => Held(g)' = Held(g)
  BY <1>1, <1>2, <1>4, HeldIsKept
<1>6. Held(f) = {} /\ Held(f)' = {}
  BY <1>1, <1>2 DEF Held, Deleting, At, Listed
<1>7. Own(th)' = {} /\ \A u \in Threads : u # th => Own(u)' = Own(u)
  BY <1>4, OwnOfOthers
<1>8. Own(th) = {}
  BY <1>1, ElementsOfShort DEF Own, Elements
<1>9. (\A u \in Threads : Own(u)' = Own(u)) /\ \A g \in Files : Held(g)' = Held(g)
  BY <1>5, <1>6, <1>7, <1>8
<1> QED
  BY <1>1, <1>3, <1>9, OwnersKept

\* What a rename does to the two files, that no thread is working on.
LEMMA RenameEffect ==
  ASSUME TInv, NEW th \in Threads, NEW f \in Files, NEW g \in Files, f # g,
         _renombrarArchivoATmpc(th, f, g), torn' = {}
  PROVE  /\ UNCHANGED <<bitmap, disk, pc>> /\ lost' = lost \cup Listed(g)
         /\ file[f] # NoFile /\ file'[g] = file[f] /\ file'[f] = NoFile
         /\ stored'[g] = stored[f] /\ stored'[f] = Nothing
         /\ \A h \in Files : h # f /\ h # g => file'[h] = file[h] /\ stored'[h] = stored[h]
         /\ \A u \in Threads : pc[u] # Idle => pc[u].file # f /\ pc[u].file # g
<1>1. ~Busy(f) /\ ~Busy(g)
  BY DEF _renombrarArchivoATmpc
<1>2. \A u \in Threads : pc[u] # Idle => pc[u].file # f /\ pc[u].file # g
  BY <1>1 DEF Busy
<1> QED
  BY <1>2 DEF _renombrarArchivoATmpc, TInv, TypeOK

\* The blocks of the file go with it, those of the one whose place it takes are lost.
LEMMA RenameOwners ==
  ASSUME TInv, Shape, Owners, NEW th \in Threads, NEW f \in Files, NEW g \in Files, f # g,
         _renombrarArchivoATmpc(th, f, g), torn' = {}
  PROVE  Shape' /\ Owners'
<1>1. /\ UNCHANGED <<bitmap, disk, pc>> /\ lost' = lost \cup Listed(g)
      /\ file[f] # NoFile /\ file'[g] = file[f] /\ file'[f] = NoFile
      /\ \A h \in Files : h # f /\ h # g => file'[h] = file[h] /\ stored'[h] = stored[h]
      /\ \A u \in Threads : pc[u] # Idle => pc[u].file # f /\ pc[u].file # g
  BY RenameEffect
<1>2. OneThreadPerFile'
  BY <1>1 DEF Shape, OneThreadPerFile
<1>3. WorkFollowsFile'
  <2> SUFFICES ASSUME NEW u \in Threads, pc[u] # Idle PROVE FollowsFile(pc[u], file', stored')
    BY <1>1 DEF WorkFollowsFile
  <2>1. pc[u].file \in Files /\ FollowsFile(pc[u], file, stored)
    BY ContinuesFacts
  <2>2. file'[pc[u].file] = file[pc[u].file] /\ stored'[pc[u].file] = stored[pc[u].file]
    BY <1>1, <2>1
  <2> QED
    BY <2>1, <2>2 DEF FollowsFile
<1>4. ListsAreDistinct'
  <2>1. \A h \in Files : file'[h] # NoFile => Distinct(file'[h].blocks)
    BY <1>1 DEF Shape, ListsAreDistinct
  <2>2. \A u \in Threads : pc'[u] # Idle => Distinct(pc'[u].own)
    BY <1>1 DEF Shape, ListsAreDistinct
  <2> QED
    BY <2>1, <2>2 DEF ListsAreDistinct
<1>5. \A u \in Threads : Own(u)' = Own(u)
  BY <1>1 DEF Own
<1>6. /\ ~Deleting(f) /\ ~Deleting(g)
      /\ \A h \in Files : Deleting(h)' <=> Deleting(h)
  BY <1>1 DEF Deleting, At
<1>7. Held(f)' = {} /\ Held(g)' = Held(f) /\ Held(g) = Listed(g)
  BY <1>1, <1>6 DEF Held, Listed
<1>8. \A h \in Files : h # f /\ h # g => Held(h)' = Held(h)
  BY <1>1, <1>6 DEF Held, Listed
<1>9. Owners'
  BY <1>1, <1>5, <1>7, <1>8, OwnersMoved
<1> QED
  BY <1>2, <1>3, <1>4, <1>9 DEF Shape

\* No deletion is interrupted: what files have they keep, what threads had is lost.
LEMMA CrashOwners ==
  ASSUME TInv, Shape, Owners, Crash, torn' = {}
  PROVE  Shape' /\ Owners'
<1>1. UNCHANGED <<bitmap, file, disk, stored>> /\ pc' = [th \in Threads |-> Idle]
      /\ lost' = lost \cup UNION {Own(th) : th \in Threads}
  BY DEF Crash
<1>2. \A th \in Threads : ~At(th, "free")
  BY DEF Crash
<1>3. Shape'
  BY <1>1 DEF Shape, OneThreadPerFile, WorkFollowsFile, ListsAreDistinct
<1>4. ASSUME NEW f \in Files PROVE Held(f)' = Held(f)
  <2>1. ~Deleting(f) /\ ~Deleting(f)'
    BY <1>1, <1>2 DEF Deleting, At
  <2> QED
    BY <1>1, <2>1 DEF Held, Listed
<1>5. \A th \in Threads : Own(th)' = {}
  BY <1>1 DEF Own
<1> QED
  BY <1>1, <1>3, <1>4, <1>5, OwnersLost

\* At the start no block has an owner.
LEMMA InitOInv == Init => OInv
<1> SUFFICES ASSUME Init PROVE OInv
  OBVIOUS
<1>1. OneThreadPerFile /\ WorkFollowsFile /\ ListsAreDistinct
  BY DEF Init, OneThreadPerFile, WorkFollowsFile, ListsAreDistinct
<1>2. (\A f \in Files : Held(f) = {}) /\ (\A th \in Threads : Own(th) = {}) /\ lost = {} /\ bitmap = {}
  BY DEF Init, Held, Listed, Own
<1>3. Owners
  BY <1>2 DEF Owners
<1> QED
  BY <1>1, <1>3 DEF OInv

\* A torn file stays so.
LEMMA TornStays == [Next]_vars => torn \subseteq torn'
<1> SUFFICES ASSUME [Next]_vars PROVE torn \subseteq torn'
  OBVIOUS
<1>1. ASSUME NEW th \in Threads, NEW f \in Files,
             \/ \E content \in Contents : Dump(th, f, content) \/ Overwrite(th, f, content)
             \/ Delete(th, f)
             \/ \E g \in Files : _renombrarArchivoATmpc(th, f, g)
      PROVE  torn \subseteq torn'
  BY <1>1 DEF Dump, Overwrite, Delete, _renombrarArchivoATmpc
<1>2. ASSUME NEW th \in Threads,
             \/ FirstBlock(th) \/ NoFirstBlock(th) \/ crearArchivoLFS(th) \/ Load(th)
             \/ _pedirBloquesNuevos(th) \/ GiveUp(th) \/ GiveBack(th)
      PROVE  torn' = torn
  BY <1>2 DEF FirstBlock, NoFirstBlock, crearArchivoLFS, Load, _pedirBloquesNuevos, GiveUp, GiveBack
<1>3. ASSUME NEW th \in Threads,
             BeginWrite(th) \/ _escribirBloque(th) \/ Save(th) \/ borrarArchivoLFS(th) \/ Unlink(th)
      PROVE  torn' = torn
  BY <1>3 DEF BeginWrite, _escribirBloque, Save, borrarArchivoLFS, Unlink
<1>4. CASE Crash \/ UNCHANGED vars
  BY <1>4 DEF Crash, vars
<1> QED
  BY <1>1, <1>2, <1>3, <1>4 DEF Next

\* Each step keeps the owners, as long as no deletion is torn.
LEMMA NextOInv == TInv /\ OInv /\ [Next]_vars => OInv'
<1> SUFFICES ASSUME TInv, OInv, [Next]_vars, torn' = {} PROVE Shape' /\ Owners'
  BY DEF OInv, Shape
<1>1. torn = {}
  BY TornStays
<1> Shape /\ Owners
  BY <1>1 DEF OInv, Shape
<1>2. ASSUME NEW th \in Threads, NoFirstBlock(th) PROVE Shape' /\ Owners'
  <2>1. UNCHANGED <<bitmap, file, disk, stored, torn, lost>> /\ pc[th] # Idle /\ pc[th].at = "first"
        /\ Stop(th)
    BY <1>2 DEF NoFirstBlock, NoneFree, At
  <2>2. pc[th].own = <<>>
    BY <2>1, ContinuesFacts DEF FollowsFile
  <2> QED
    BY <2>1, <2>2, StopOwners
<1>3. CASE UNCHANGED vars
  <2>1. Shape'
    BY <1>3 DEF vars, Shape, OneThreadPerFile, WorkFollowsFile, ListsAreDistinct
  <2>2. (\A f \in Files : Held(f)' = Held(f)) /\ \A th \in Threads : Own(th)' = Own(th)
    BY <1>3 DEF vars, Held, Deleting, At, Listed, Own
  <2> QED
    BY <1>3, <2>1, <2>2, OwnersKept DEF vars
<1>4. ASSUME NEW th \in Threads, NEW f \in Files, NEW g \in Files,
             <<f, g>> \in Renames, _renombrarArchivoATmpc(th, f, g)
      PROVE  Shape' /\ Owners'
  <2>1. f # g
    BY <1>4, RenamesAssumption
  <2> QED
    BY <1>4, <2>1, RenameOwners
<1> QED
  BY <1>2, <1>3, <1>4, StartOwners, DeleteOwners, FirstBlockOwners, CreateOwners, LoadOwners, AskOwners,
     GiveUpOwners, GiveBackOwners, BeginWriteOwners, WriteOwners, SaveOwners, FreeOwners,
     UnlinkOwners, CrashOwners DEF Next

-----------------------------------------------------------------------------
(***************************************************************************)
(* Contents.                                                               *)
(***************************************************************************)
\* The byte i lies at Offset(i) of the block Block(i).
LEMMA WhereBytesAre ==
  ASSUME NEW i \in Nat \ {0}
  PROVE  /\ Block(i) \in Nat \ {0} /\ Offset(i) \in 1 .. BlockSize
         /\ i = (Block(i) - 1) * BlockSize + Offset(i)
<1>1. i - 1 \in Nat
  OBVIOUS
<1>2. (i - 1) \div BlockSize \in Nat /\ (i - 1) % BlockSize \in 0 .. BlockSize - 1
  BY <1>1
<1>3. i - 1 = BlockSize * ((i - 1) \div BlockSize) + ((i - 1) % BlockSize)
  BY <1>1
<1> QED
  BY <1>2, <1>3 DEF Block, Offset

\* The number of blocks that escribirArchivoLFS needs.
LEMMA BlocksForIsNat == ASSUME NEW content \in Seq(Bytes) PROVE BlocksFor(content) \in Nat
<1>1. Len(content) + BlockSize - 1 \in Nat
  OBVIOUS
<1> QED
  BY <1>1 DEF BlocksFor

\* They reach to the last byte.
LEMMA BlocksReachTheEnd ==
  ASSUME NEW content \in Seq(Bytes), NEW i \in 1 .. Len(content)
  PROVE  BlocksFor(content) \in Nat /\ Block(i) <= BlocksFor(content)
<1> DEFINE L == Len(content)
           p == BlocksFor(content)
           q == (i - 1) \div BlockSize
<1>1. L \in Nat /\ i - 1 \in Nat /\ L + BlockSize - 1 \in Nat
  OBVIOUS
<1>2. p \in Nat /\ L + BlockSize - 1 < BlockSize * p + BlockSize
  BY <1>1 DEF BlocksFor
<1>3. q \in Nat /\ BlockSize * q <= i - 1
  BY <1>1
<1>4. BlockSize * q < BlockSize * p
  <2>1. i - 1 < L /\ BlockSize * p \in Nat /\ BlockSize * q \in Nat
    BY <1>1, <1>2, <1>3
  <2> HIDE DEF p, q, L
  <2> QED
    BY <1>1, <1>2, <1>3, <2>1
<1>5. q < p
  <2> HIDE DEF p, q, L
  <2> QED
    BY <1>2, <1>3, <1>4
<1> QED
  BY <1>2, <1>3, <1>5 DEF Block

\* A place in a list of blocks.
LEMMA InSequence ==
  ASSUME NEW S, NEW s \in Seq(S), NEW k \in Nat \ {0}, k <= Len(s)
  PROVE  k \in DOMAIN s /\ s[k] \in S /\ s[k] \in Elements(s)
<1>1. k \in DOMAIN s /\ s[k] \in S
  OBVIOUS
<1> QED
  BY <1>1 DEF Elements

\* Orders of numbers of blocks.
LEMMA Between ==
  ASSUME NEW a \in Nat, NEW b \in Nat, NEW c \in Nat, b <= c
  PROVE  (a <= b => a <= c) /\ (a < b => a + 1 <= c)
OBVIOUS

\* No block is missing: there are enough.
LEMMA Enough == ASSUME NEW a \in Nat, NEW b \in Nat, NEW c \in Nat, a - b - c <= 0 PROVE a <= b + c
OBVIOUS

\* What config_save writes.
LEMMA SavedEntry ==
  ASSUME NEW n \in Nat, NEW s \in Seq(BlockIds), NEW e, e = [size |-> n, blocks |-> s]
  PROVE  e \in Entry /\ e.size = n /\ e.blocks = s /\ e # NoFile
<1>1. e \in Entry
  BY DEF Entry
<1>2. e.size = n /\ e.blocks = s
  OBVIOUS
<1> QED
  BY <1>1, <1>2

\* A thread writes only to blocks of its file and its own, each of them once: they are
\* no other file's and no other thread's.
LEMMA BlocksOfWriter ==
  ASSUME TInv, Shape, Owners, NEW th \in Threads, pc[th] # Idle, pc[th].at = "write"
  PROVE  LET f == pc[th].file
             s == pc[th].blocks \o pc[th].own IN
         /\ s \in Seq(BlockIds) /\ Distinct(s)
         /\ Elements(s) = Listed(f) \cup Own(th)
         /\ Len(s) = Len(pc[th].blocks) + Len(pc[th].own)
         /\ \A u \in Threads : u # th => pc[u] = Idle \/ pc[u].file # f
         /\ ~Deleting(f) /\ file[f] \in Entry
<1> PICK f \in Files : f = pc[th].file
  BY ContinuesFacts
<1> DEFINE s == pc[th].blocks \o pc[th].own
<1>1. /\ pc[th] \in Work /\ \A u \in Threads : u # th /\ pc[u] # Idle => pc[u].file # f
      /\ FollowsFile(pc[th], file, stored) /\ Distinct(pc[th].own)
      /\ file[f] # NoFile => Distinct(file[f].blocks)
  BY ContinuesFacts
<1>2. file[f] # NoFile /\ pc[th].blocks = file[f].blocks
  BY <1>1 DEF FollowsFile
<1>3. file[f] \in Entry
  BY <1>2 DEF TInv, TypeOK
<1>4. pc[th].blocks \in Seq(BlockIds) /\ pc[th].own \in Seq(BlockIds)
  BY <1>1 DEF Work
<1>5. ~Deleting(f)
  <2>1. \A u \in Threads : ~(At(u, "free") /\ pc[u].file = f)
    BY <1>1 DEF At
  <2> QED
    BY <2>1 DEF Deleting
<1>6. Held(f) = Listed(f) /\ Listed(f) = Elements(pc[th].blocks)
  BY <1>2, <1>5 DEF Held, Listed, Elements
<1>7. Own(th) = Elements(pc[th].own)
  BY DEF Own, Elements
<1>8. Elements(pc[th].blocks) \cap Elements(pc[th].own) = {}
  BY <1>6, <1>7 DEF Owners
<1>9. Distinct(s) /\ Elements(s) = Listed(f) \cup Own(th)
  BY <1>1, <1>2, <1>4, <1>6, <1>7, <1>8, ElementsOfConcat
<1>10. s \in Seq(BlockIds) /\ Len(s) = Len(pc[th].blocks) + Len(pc[th].own)
  BY <1>4, ConcatProperties
<1> HIDE DEF s
<1>11. \A u \in Threads : u # th => pc[u] = Idle \/ pc[u].file # f
  BY <1>1
<1> QED
  BY <1>3, <1>5, <1>9, <1>10, <1>11 DEF s

\* A step that writes to no block and begins, carries on or stores no content.
LEMMA ContentsKept ==
  ASSUME NothingWrittenYet, WritesAreInPlace, FilesHoldStored, disk' = disk,
         \A th \in Threads : pc'[th] # Idle /\ pc'[th].at # "free" => 
            \/ pc'[th].at # "write" /\ pc'[th].written = 0
            \/ pc'[th] = pc[th],
         \A f \in Files : stored'[f] # Nothing => stored'[f] = stored[f] /\ file'[f] = file[f]
  PROVE  NothingWrittenYet' /\ WritesAreInPlace' /\ FilesHoldStored'
<1>1. NothingWrittenYet'
  BY DEF NothingWrittenYet
<1>2. WritesAreInPlace'
  <2> SUFFICES ASSUME NEW th \in Threads, pc'[th] # Idle, pc'[th].at = "write"
               PROVE  LET w == pc'[th]
                          blocks == w.blocks \o w.own
                      IN /\ BlocksFor(w.content) <= Len(blocks)
                         /\ \A i \in 1 .. Len(w.content) : Block(i) <= w.written =>
                              disk'[blocks[Block(i)]][Offset(i)] = w.content[i]
    BY DEF WritesAreInPlace, BlocksFor, Block, Offset
  <2>1. pc'[th] = pc[th]
    OBVIOUS
  <2> PICK w : w = pc[th]
    OBVIOUS
  <2>2. /\ BlocksFor(w.content) <= Len(w.blocks \o w.own)
        /\ \A i \in 1 .. Len(w.content) : Block(i) <= w.written =>
             disk[(w.blocks \o w.own)[Block(i)]][Offset(i)] = w.content[i]
    BY <2>1 DEF WritesAreInPlace
  <2> QED
    BY <2>1, <2>2
<1>3. FilesHoldStored'
  <2> SUFFICES ASSUME NEW f \in Files, stored'[f] # Nothing
               PROVE  /\ file'[f] # NoFile /\ file'[f].size = Len(stored'[f])
                      /\ \A i \in 1 .. Len(stored'[f]) :
                           /\ Block(i) \in DOMAIN file'[f].blocks
                           /\ disk'[file'[f].blocks[Block(i)]][Offset(i)] = stored'[f][i]
    BY DEF FilesHoldStored, Block, Offset
  <2>1. stored'[f] = stored[f] /\ file'[f] = file[f]
    OBVIOUS
  <2> QED
    BY <2>1 DEF FilesHoldStored
<1> QED
  BY <1>1, <1>2, <1>3

\* The same of one thread.
LEMMA ContentsKeptBy ==
  ASSUME NothingWrittenYet, WritesAreInPlace, FilesHoldStored, disk' = disk,
         NEW th \in Threads, NEW w, Moves(th, w),
         w # Idle /\ w.at # "free" => w.at # "write" /\ w.written = 0,
         \A f \in Files : stored'[f] # Nothing => stored'[f] = stored[f] /\ file'[f] = file[f]
  PROVE  NothingWrittenYet' /\ WritesAreInPlace' /\ FilesHoldStored'
<1>1. ASSUME NEW u \in Threads, pc'[u] # Idle, pc'[u].at # "free"
      PROVE  (pc'[u].at # "write" /\ pc'[u].written = 0) \/ pc'[u] = pc[u]
  BY <1>1 DEF Moves
<1> QED
  BY <1>1, ContentsKept

\* The block that a thread writes is its own or its file's: the bytes written before it
\* and those of the other files and threads stay as they are, and its bytes are the next.
LEMMA WriteKeepsContents ==
  ASSUME TInv, Shape, Owners, NothingWrittenYet, WritesAreInPlace, FilesHoldStored,
         NEW th \in Threads, _escribirBloque(th)
  PROVE  NothingWrittenYet' /\ WritesAreInPlace' /\ FilesHoldStored'
<1> PICK w : w = pc[th]
  OBVIOUS
<1> PICK f \in Files : f = w.file
  BY ContinuesFacts DEF _escribirBloque, At
<1> PICK s : s = w.blocks \o w.own
  OBVIOUS
<1> PICK b : b = s[w.written + 1]
  OBVIOUS
<1>1. /\ UNCHANGED <<bitmap, file, stored, torn, lost>> /\ w # Idle /\ w.at = "write" /\ w \in Work
      /\ w.written < BlocksFor(w.content)
  BY BusyIsWork DEF _escribirBloque, At, TInv
<1>2. disk' = [disk EXCEPT ![b] =
          [i \in 1 .. BlockSize |-> IF w.written * BlockSize + i <= Len(w.content)
                                    THEN w.content[w.written * BlockSize + i] ELSE disk[b][i]]]
  BY DEF _escribirBloque
<1>3. Continues(th, w.at, w.blocks, w.own, w.written + 1)
  BY WriteEffect DEF TInv
<1>4. w.content \in Seq(Bytes) /\ w.written \in Nat /\ BlocksFor(w.content) \in Nat
  <2>1. w.content \in Contents
    BY <1>1 DEF TInv, ContentGiven
  <2>2. w.content \in Seq(Bytes) /\ w.written \in Nat
    BY <1>1, <2>1 DEF Work
  <2>3. BlocksFor(w.content) \in Nat
    BY <2>2, BlocksForIsNat
  <2> QED
    BY <2>2, <2>3
<1>5. /\ s \in Seq(BlockIds) /\ Distinct(s) /\ Elements(s) = Listed(f) \cup Own(th)
      /\ \A u \in Threads : u # th => pc[u] = Idle \/ pc[u].file # f
      /\ ~Deleting(f) /\ file[f] \in Entry
  BY <1>1, BlocksOfWriter
<1>6. /\ BlocksFor(w.content) <= Len(s)
      /\ \A i \in 1 .. Len(w.content) :
           Block(i) <= w.written => disk[s[Block(i)]][Offset(i)] = w.content[i]
  BY <1>1 DEF WritesAreInPlace
<1>7. w.written + 1 \in DOMAIN s /\ b \in Elements(s) /\ b \in BlockIds
  <2>1. Len(s) \in Nat
    BY <1>5, LenProperties
  <2>2. w.written < BlocksFor(w.content) /\ BlocksFor(w.content) <= Len(s)
    BY <1>1, <1>6
  <2>3. w.written + 1 <= Len(s)
    BY <1>4, <2>1, <2>2, Between
  <2>4. w.written + 1 \in Nat \ {0}
    BY <1>4
  <2> QED
    BY <1>5, <2>3, <2>4, InSequence
<1>8. /\ \A c \in BlockIds : c # b => disk'[c] = disk[c]
      /\ \A j \in 1 .. BlockSize : w.written * BlockSize + j <= Len(w.content) =>
           disk'[b][j] = w.content[w.written * BlockSize + j]
  BY <1>2, <1>7 DEF TInv, TypeOK
<1>9. NothingWrittenYet'
  BY <1>1, <1>3 DEF NothingWrittenYet, Continues, Moves
<1>10. ASSUME NEW i \in 1 .. Len(w.content), Block(i) <= w.written + 1
       PROVE  disk'[s[Block(i)]][Offset(i)] = w.content[i]
  <2>1. /\ Block(i) \in Nat \ {0} /\ Offset(i) \in 1 .. BlockSize
        /\ i = (Block(i) - 1) * BlockSize + Offset(i)
    BY <1>4, WhereBytesAre
  <2>2. Block(i) <= BlocksFor(w.content)
    BY <1>4, BlocksReachTheEnd
  <2>3. Block(i) \in DOMAIN s /\ s[Block(i)] \in BlockIds
    <3>1. Len(s) \in Nat
      BY <1>5, LenProperties
    <3>2. BlocksFor(w.content) <= Len(s)
      BY <1>6
    <3>3. Block(i) <= Len(s)
      BY <1>4, <2>1, <2>2, <3>1, <3>2, Between
    <3> QED
      BY <1>5, <2>1, <3>3, InSequence
  <2>4. CASE Block(i) = w.written + 1
    <3>1. s[Block(i)] = b /\ i = w.written * BlockSize + Offset(i) /\ i <= Len(w.content)
      BY <1>4, <2>1, <2>4
    <3>2. disk'[b][Offset(i)] = w.content[w.written * BlockSize + Offset(i)]
      BY <1>8, <2>1, <3>1
    <3> QED
      BY <3>1, <3>2
  <2>5. CASE Block(i) # w.written + 1
    <3>1. Block(i) <= w.written
      BY <1>4, <1>10, <2>1, <2>5
    <3>2. s[Block(i)] # b
      BY <1>5, <1>7, <2>3, <2>5 DEF Distinct
    <3> QED
      BY <1>6, <1>8, <2>3, <3>1, <3>2
  <2> QED
    BY <2>4, <2>5
<1>11. WritesAreInPlace'
  <2> SUFFICES ASSUME NEW u \in Threads, pc'[u] # Idle, pc'[u].at = "write"
               PROVE  LET v == pc'[u]
                          blocks == v.blocks \o v.own
                      IN /\ BlocksFor(v.content) <= Len(blocks)
                         /\ \A i \in 1 .. Len(v.content) : Block(i) <= v.written =>
                              disk'[blocks[Block(i)]][Offset(i)] = v.content[i]
    BY DEF WritesAreInPlace, BlocksFor, Block, Offset
  <2>1. CASE u = th
    <3>1. pc'[u].blocks \o pc'[u].own = s /\ pc'[u].content = w.content /\ pc'[u].written = w.written + 1
      BY <1>3, <2>1 DEF Continues
    <3> QED
      BY <1>6, <1>10, <3>1
  <2>2. CASE u # th
    <3>1. pc'[u] = pc[u] /\ pc[u] # Idle /\ pc[u].at = "write"
      BY <1>3, <2>2 DEF Continues, Moves
    <3> PICK g \in Files : g = pc[u].file
      BY <3>1, ContinuesFacts
    <3> PICK t : t = pc[u].blocks \o pc[u].own
      OBVIOUS
    <3>2. /\ t \in Seq(BlockIds) /\ Elements(t) = Listed(g) \cup Own(u) /\ ~Deleting(g)
      BY <3>1, BlocksOfWriter
    <3>3. g # f
      BY <1>5, <2>2, <3>1
    <3>4. b \notin Elements(t)
      <4>1. Held(g) = Listed(g) /\ Held(f) = Listed(f)
        BY <1>5, <3>2 DEF Held
      <4>2. Held(f) \cap Held(g) = {} /\ Held(f) \cap Own(u) = {} /\ Held(g) \cap Own(th) = {}
            /\ Own(th) \cap Own(u) = {}
        BY <2>2, <3>3 DEF Owners
      <4>3. b \in Held(f) \cup Own(th) /\ Elements(t) = Held(g) \cup Own(u)
        BY <1>5, <1>7, <3>2, <4>1
      <4> QED
        BY <4>2, <4>3
    <3>5. pc[u].content \in Seq(Bytes)
      BY <3>1 DEF TInv, ContentGiven
    <3>6. BlocksFor(pc[u].content) <= Len(t)
      BY <3>1 DEF WritesAreInPlace
    <3>7. ASSUME NEW i \in 1 .. Len(pc[u].content), Block(i) <= pc[u].written
          PROVE  disk'[t[Block(i)]][Offset(i)] = pc[u].content[i]
      <4>1. Block(i) \in Nat \ {0}
        <5>1. i \in Nat \ {0}
          BY <3>5
        <5> QED
          BY <5>1, WhereBytesAre
      <4>2. Block(i) <= BlocksFor(pc[u].content) /\ BlocksFor(pc[u].content) \in Nat
        BY <3>5, BlocksReachTheEnd
      <4>3. Block(i) <= Len(t)
        <5>1. Len(t) \in Nat
          BY <3>2, LenProperties
        <5> QED
          BY <3>6, <4>1, <4>2, <5>1, Between
      <4>4. t[Block(i)] \in BlockIds /\ t[Block(i)] # b
        BY <3>2, <3>4, <4>1, <4>3, InSequence
      <4>5. disk[t[Block(i)]][Offset(i)] = pc[u].content[i]
        BY <3>1, <3>7 DEF WritesAreInPlace
      <4> QED
        BY <1>8, <4>4, <4>5
    <3> QED
      BY <3>1, <3>6, <3>7
  <2> QED
    BY <2>1, <2>2
<1>12. FilesHoldStored'
  <2> SUFFICES ASSUME NEW g \in Files, stored[g] # Nothing
               PROVE  /\ file[g] # NoFile /\ file[g].size = Len(stored[g])
                      /\ \A i \in 1 .. Len(stored[g]) :
                           /\ Block(i) \in DOMAIN file[g].blocks
                           /\ disk'[file[g].blocks[Block(i)]][Offset(i)] = stored[g][i]
    BY <1>1 DEF FilesHoldStored, Block, Offset
  <2>1. /\ file[g] # NoFile /\ file[g].size = Len(stored[g])
        /\ \A i \in 1 .. Len(stored[g]) :
             /\ Block(i) \in DOMAIN file[g].blocks
             /\ disk[file[g].blocks[Block(i)]][Offset(i)] = stored[g][i]
    BY DEF FilesHoldStored
  <2>2. g # f
    BY <1>1, ContinuesFacts DEF FollowsFile
  <2>3. ~Deleting(g)
    <3>1. ASSUME NEW u \in Threads, pc[u] # Idle, pc[u].at = "free", pc[u].file = g PROVE FALSE
      BY <3>1, ContinuesFacts DEF FollowsFile
    <3> QED
      BY <3>1 DEF Deleting, At
  <2>4. b \notin Listed(g)
    <3>1. Held(g) = Listed(g) /\ Held(f) = Listed(f)
      BY <1>5, <2>3 DEF Held
    <3>2. Held(f) \cap Held(g) = {} /\ Held(g) \cap Own(th) = {}
      BY <2>2 DEF Owners
    <3>3. b \in Held(f) \/ b \in Own(th)
      BY <1>5, <1>7, <3>1
    <3> QED
      BY <3>1, <3>2, <3>3
  <2>5. file[g] \in Entry /\ file[g].blocks \in Seq(BlockIds)
    BY <2>1 DEF TInv, TypeOK, Entry
  <2>6. ASSUME NEW i \in 1 .. Len(stored[g])
        PROVE  disk'[file[g].blocks[Block(i)]] = disk[file[g].blocks[Block(i)]]
    <3>1. Block(i) \in DOMAIN file[g].blocks
      BY <2>1
    <3>2. file[g].blocks[Block(i)] \in Listed(g) /\ file[g].blocks[Block(i)] \in BlockIds
      BY <2>1, <2>5, <3>1 DEF Listed
    <3> QED
      BY <1>8, <2>4, <3>2
  <2> QED
    BY <2>1, <2>6
<1> QED
  BY <1>9, <1>11, <1>12

\* No block is written yet and the thread's blocks are as many as the content needs.
LEMMA BeginWriteKeepsContents ==
  ASSUME TInv, NothingWrittenYet, WritesAreInPlace, FilesHoldStored,
         NEW th \in Threads, BeginWrite(th)
  PROVE  NothingWrittenYet' /\ WritesAreInPlace' /\ FilesHoldStored'
<1> PICK w : w = pc[th]
  OBVIOUS
<1>1. /\ disk' = disk /\ file' = file /\ w # Idle /\ w.at = "ask" /\ w \in Work /\ Missing(w) <= 0
      /\ stored' = [stored EXCEPT ![w.file] = Nothing]
  BY BusyIsWork DEF BeginWrite, At, TInv
<1>2. Continues(th, "write", w.blocks, w.own, w.written)
  BY BeginWriteEffect DEF TInv
<1>3. w.content \in Seq(Bytes)
  BY <1>1 DEF TInv, ContentGiven
<1>4. w.written = 0
  BY <1>1 DEF NothingWrittenYet
<1>5. BlocksFor(w.content) <= Len(w.blocks \o w.own)
  <2>1. w.blocks \in Seq(BlockIds) /\ w.own \in Seq(BlockIds)
    BY <1>1 DEF Work
  <2>2. Len(w.blocks \o w.own) = Len(w.blocks) + Len(w.own)
    BY <2>1, ConcatProperties
  <2>3. Len(w.blocks) \in Nat /\ Len(w.own) \in Nat
    BY <2>1, LenProperties
  <2> PICK n \in Nat : n = BlocksFor(w.content)
    BY <1>3, BlocksForIsNat
  <2>4. n - Len(w.blocks) - Len(w.own) <= 0
    BY <1>1 DEF Missing
  <2>5. n <= Len(w.blocks) + Len(w.own)
    BY <2>3, <2>4, Enough
  <2> QED
    BY <2>2, <2>5
<1>6. \A i \in 1 .. Len(w.content) : ~(Block(i) <= 0)
  <2> SUFFICES ASSUME NEW i \in 1 .. Len(w.content) PROVE ~(Block(i) <= 0)
    OBVIOUS
  <2>1. i \in Nat \ {0}
    BY <1>3
  <2>2. Block(i) \in Nat \ {0}
    BY <2>1, WhereBytesAre
  <2> QED
    BY <2>2
<1>7. NothingWrittenYet'
  BY <1>2 DEF NothingWrittenYet, Continues, Moves
<1>8. WritesAreInPlace'
  <2> SUFFICES ASSUME NEW u \in Threads, pc'[u] # Idle, pc'[u].at = "write"
               PROVE  LET v == pc'[u]
                          blocks == v.blocks \o v.own
                      IN /\ BlocksFor(v.content) <= Len(blocks)
                         /\ \A i \in 1 .. Len(v.content) : Block(i) <= v.written =>
                              disk'[blocks[Block(i)]][Offset(i)] = v.content[i]
    BY DEF WritesAreInPlace, BlocksFor, Block, Offset
  <2>1. CASE u = th
    <3>1. /\ pc'[u].blocks = w.blocks /\ pc'[u].own = w.own /\ pc'[u].content = w.content
          /\ pc'[u].written = 0
      BY <1>2, <1>4, <2>1 DEF Continues
    <3> QED
      BY <1>5, <1>6, <3>1
  <2>2. CASE u # th
    <3>1. pc'[u] = pc[u]
      BY <1>2, <2>2 DEF Continues, Moves
    <3> QED
      BY <1>1, <3>1 DEF WritesAreInPlace
  <2> QED
    BY <2>1, <2>2
<1>9. FilesHoldStored'
  <2>1. \A f \in Files : stored'[f] # Nothing => stored'[f] = stored[f]
    BY <1>1 DEF TInv, TypeOK
  <2> QED
    BY <1>1, <2>1 DEF FilesHoldStored, Block, Offset
<1> QED
  BY <1>7, <1>8, <1>9

\* A file gets its entry when all its bytes are in place; the other files keep theirs.
LEMMA FilesHoldSaved ==
  ASSUME FilesHoldStored, disk' = disk, NEW f \in Files, NEW s \in Seq(BlockIds), NEW c \in Seq(Bytes),
         file'[f] = [size |-> Len(c), blocks |-> s], stored'[f] = c,
         \A g \in Files : g # f => file'[g] = file[g] /\ stored'[g] = stored[g],
         \A i \in 1 .. Len(c) : Block(i) \in DOMAIN s /\ disk[s[Block(i)]][Offset(i)] = c[i]
  PROVE  FilesHoldStored'
<1> PICK e : e = file'[f]
  OBVIOUS
<1>1. e # NoFile /\ e.size = Len(c) /\ e.blocks = s
  BY LenProperties, SavedEntry
<1>2. ASSUME NEW g \in Files, stored'[g] # Nothing
      PROVE  /\ file'[g] # NoFile /\ file'[g].size = Len(stored'[g])
             /\ \A i \in 1 .. Len(stored'[g]) :
                  /\ Block(i) \in DOMAIN file'[g].blocks
                  /\ disk'[file'[g].blocks[Block(i)]][Offset(i)] = stored'[g][i]
  <2>1. CASE g = f
    BY <1>1, <2>1
  <2>2. CASE g # f
    <3>1. file'[g] = file[g] /\ stored'[g] = stored[g]
      BY <2>2
    <3>2. /\ file[g] # NoFile /\ file[g].size = Len(stored[g])
          /\ \A i \in 1 .. Len(stored[g]) :
               /\ Block(i) \in DOMAIN file[g].blocks
               /\ disk[file[g].blocks[Block(i)]][Offset(i)] = stored[g][i]
      BY <1>2, <3>1 DEF FilesHoldStored
    <3> QED
      BY <3>1, <3>2
  <2> QED
    BY <2>1, <2>2
<1> QED
  BY <1>2 DEF FilesHoldStored, Block, Offset

\* All the blocks are written when the file gets its new size and blocks.
LEMMA SaveKeepsContents ==
  ASSUME TInv, Shape, Owners, NothingWrittenYet, WritesAreInPlace, FilesHoldStored,
         NEW th \in Threads, Save(th)
  PROVE  NothingWrittenYet' /\ WritesAreInPlace' /\ FilesHoldStored'
<1> PICK w : w = pc[th]
  OBVIOUS
<1> PICK f \in Files : f = w.file
  BY ContinuesFacts DEF Save, At
<1> PICK s : s = w.blocks \o w.own
  OBVIOUS
<1>1. /\ disk' = disk /\ w # Idle /\ w.at = "write" /\ w \in Work
      /\ w.written = BlocksFor(w.content) /\ Stop(th)
  BY BusyIsWork DEF Save, At, TInv
<1>2. file' = [file EXCEPT ![f] = [size |-> Len(w.content), blocks |-> s]]
      /\ stored' = [stored EXCEPT ![f] = w.content]
  BY DEF Save
<1>3. Moves(th, Idle)
  BY <1>1, StopEffect DEF TInv
<1>4. w.content \in Seq(Bytes)
  BY <1>1 DEF TInv, ContentGiven
<1>5. /\ file'[f] = [size |-> Len(w.content), blocks |-> s] /\ stored'[f] = w.content
      /\ \A g \in Files : g # f => file'[g] = file[g] /\ stored'[g] = stored[g]
  BY <1>2 DEF TInv, TypeOK
<1>6. s \in Seq(BlockIds)
  BY <1>1, BlocksOfWriter
<1>7. /\ BlocksFor(w.content) <= Len(s)
      /\ \A i \in 1 .. Len(w.content) :
           Block(i) <= w.written => disk[s[Block(i)]][Offset(i)] = w.content[i]
  BY <1>1 DEF WritesAreInPlace
<1>8. ASSUME NEW i \in 1 .. Len(w.content)
      PROVE  Block(i) \in DOMAIN s /\ disk[s[Block(i)]][Offset(i)] = w.content[i]
  <2>1. i \in Nat \ {0}
    BY <1>4
  <2>2. Block(i) \in Nat \ {0}
    BY <2>1, WhereBytesAre
  <2>3. BlocksFor(w.content) \in Nat /\ Block(i) <= BlocksFor(w.content)
    BY <1>4, BlocksReachTheEnd
  <2>4. Len(s) \in Nat
    BY <1>6, LenProperties
  <2>5. BlocksFor(w.content) <= Len(s)
    BY <1>7
  <2>6. Block(i) <= Len(s)
    BY <2>2, <2>3, <2>4, <2>5, Between
  <2>7. Block(i) \in DOMAIN s
    BY <1>6, <2>2, <2>6, InSequence
  <2>8. disk[s[Block(i)]][Offset(i)] = w.content[i]
    BY <1>1, <1>7, <2>3
  <2> QED
    BY <2>7, <2>8
<1>9. NothingWrittenYet'
  BY <1>3 DEF NothingWrittenYet, Moves
<1>10. WritesAreInPlace'
  <2> SUFFICES ASSUME NEW u \in Threads, pc'[u] # Idle, pc'[u].at = "write"
               PROVE  LET v == pc'[u]
                          blocks == v.blocks \o v.own
                      IN /\ BlocksFor(v.content) <= Len(blocks)
                         /\ \A i \in 1 .. Len(v.content) : Block(i) <= v.written =>
                              disk'[blocks[Block(i)]][Offset(i)] = v.content[i]
    BY DEF WritesAreInPlace, BlocksFor, Block, Offset
  <2>1. pc'[u] = pc[u]
    BY <1>3 DEF Moves
  <2> QED
    BY <1>1, <2>1 DEF WritesAreInPlace
<1>11. FilesHoldStored'
  BY <1>1, <1>4, <1>5, <1>6, <1>8, FilesHoldSaved
<1> QED
  BY <1>9, <1>10, <1>11

\* An empty file has all the bytes it was given.
LEMMA CreateKeepsContents ==
  ASSUME TInv, NothingWrittenYet, WritesAreInPlace, FilesHoldStored,
         NEW th \in Threads, crearArchivoLFS(th)
  PROVE  NothingWrittenYet' /\ WritesAreInPlace' /\ FilesHoldStored'
<1> PICK w : w = pc[th]
  OBVIOUS
<1>1. /\ disk' = disk /\ w # Idle /\ w.at = "create" /\ w \in Work
      /\ file' = [file EXCEPT ![w.file] = [size |-> 0, blocks |-> w.own]]
      /\ stored' = [stored EXCEPT ![w.file] = <<>>]
  BY BusyIsWork DEF crearArchivoLFS, At, TInv
<1> PICK f \in Files : f = w.file
  BY <1>1 DEF Work
<1>2. Continues(th, "load", w.blocks, <<>>, w.written)
  BY CreateEffect DEF TInv
<1>3. w.written = 0 /\ w.own \in Seq(BlockIds)
  BY <1>1 DEF NothingWrittenYet, Work
<1>4. /\ file'[f] = [size |-> 0, blocks |-> w.own] /\ stored'[f] = <<>>
      /\ \A g \in Files : g # f => file'[g] = file[g] /\ stored'[g] = stored[g]
  BY <1>1 DEF TInv, TypeOK
<1>5. file'[f] # NoFile
  <2>1. [size |-> 0, blocks |-> w.own] \in Entry
    BY <1>3 DEF Entry
  <2> QED
    BY <1>4, <2>1
<1>6. NothingWrittenYet'
  BY <1>2, <1>3 DEF NothingWrittenYet, Continues, Moves
<1>7. WritesAreInPlace'
  <2> SUFFICES ASSUME NEW u \in Threads, pc'[u] # Idle, pc'[u].at = "write"
               PROVE  LET v == pc'[u]
                          blocks == v.blocks \o v.own
                      IN /\ BlocksFor(v.content) <= Len(blocks)
                         /\ \A i \in 1 .. Len(v.content) : Block(i) <= v.written =>
                              disk'[blocks[Block(i)]][Offset(i)] = v.content[i]
    BY DEF WritesAreInPlace, BlocksFor, Block, Offset
  <2>1. pc'[u] = pc[u]
    BY <1>2 DEF Continues, Moves
  <2> QED
    BY <1>1, <2>1 DEF WritesAreInPlace
<1>8. FilesHoldStored'
  <2> SUFFICES ASSUME NEW g \in Files, stored'[g] # Nothing
               PROVE  /\ file'[g] # NoFile /\ file'[g].size = Len(stored'[g])
                      /\ \A i \in 1 .. Len(stored'[g]) :
                           /\ Block(i) \in DOMAIN file'[g].blocks
                           /\ disk'[file'[g].blocks[Block(i)]][Offset(i)] = stored'[g][i]
    BY DEF FilesHoldStored, Block, Offset
  <2>1. CASE g = f
    <3>1. Len(stored'[g]) = 0 /\ file'[g].size = 0
      BY <1>4, <2>1
    <3> QED
      BY <1>5, <2>1, <3>1
  <2>2. CASE g # f
    BY <1>1, <1>4, <2>2 DEF FilesHoldStored
  <2> QED
    BY <2>1, <2>2
<1> QED
  BY <1>6, <1>7, <1>8

\* The bytes of the .tmp are those of the .tmpc from now on.
LEMMA RenameKeepsContents ==
  ASSUME TInv, NothingWrittenYet, WritesAreInPlace, FilesHoldStored,
         NEW th \in Threads, NEW f \in Files, NEW g \in Files, f # g,
         _renombrarArchivoATmpc(th, f, g), torn' = {}
  PROVE  NothingWrittenYet' /\ WritesAreInPlace' /\ FilesHoldStored'
<1>1. /\ UNCHANGED <<disk, pc>> /\ file'[g] = file[f]
      /\ stored'[g] = stored[f] /\ stored'[f] = Nothing
      /\ \A h \in Files : h # f /\ h # g => file'[h] = file[h] /\ stored'[h] = stored[h]
  BY RenameEffect
<1>2. NothingWrittenYet'
  BY <1>1 DEF NothingWrittenYet
<1>3. WritesAreInPlace'
  BY <1>1 DEF WritesAreInPlace, BlocksFor, Block, Offset
<1>4. FilesHoldStored'
  <2> SUFFICES ASSUME NEW h \in Files, stored'[h] # Nothing
               PROVE  /\ file'[h] # NoFile /\ file'[h].size = Len(stored'[h])
                      /\ \A i \in 1 .. Len(stored'[h]) :
                           /\ Block(i) \in DOMAIN file'[h].blocks
                           /\ disk'[file'[h].blocks[Block(i)]][Offset(i)] = stored'[h][i]
    BY DEF FilesHoldStored, Block, Offset
  <2>1. PICK k \in Files : file'[h] = file[k] /\ stored'[h] = stored[k]
    BY <1>1
  <2> QED
    BY <1>1, <2>1 DEF FilesHoldStored
<1> QED
  BY <1>2, <1>3, <1>4

\* At the start nothing is stored.
LEMMA InitRInv == Init => RInv
<1> SUFFICES ASSUME Init PROVE RInv
  OBVIOUS
<1>1. (\A th \in Threads : pc[th] = Idle) /\ \A f \in Files : stored[f] = Nothing
  BY DEF Init
<1> QED
  BY <1>1 DEF RInv, NothingWrittenYet, WritesAreInPlace, FilesHoldStored

\* Each step keeps the bytes of the files and of the writes under way.
LEMMA NextRInv == TInv /\ OInv /\ RInv /\ [Next]_vars => RInv'
<1> DEFINE Goal == NothingWrittenYet' /\ WritesAreInPlace' /\ FilesHoldStored'
<1> SUFFICES ASSUME TInv, OInv, RInv, [Next]_vars, torn' = {} PROVE Goal
  BY DEF RInv
<1>0. torn = {}
  BY TornStays
<1> Shape /\ Owners
  BY <1>0 DEF OInv, Shape
<1> NothingWrittenYet /\ WritesAreInPlace /\ FilesHoldStored
  BY <1>0 DEF RInv
<1> TypeOK
  BY DEF TInv
<1> HIDE DEF Goal
<1>1. ASSUME NEW th \in Threads, NEW f \in Files, NEW content \in Contents,
             Dump(th, f, content) \/ Overwrite(th, f, content)
      PROVE  Goal
  <2>1. PICK step \in {"first", "load"} : Start(th, step, f, content)
    BY <1>1 DEF Dump, Overwrite
  <2>2. PICK w \in Work : Moves(th, w) /\ w.at = step /\ w.written = 0
    BY <2>1, StartEffect DEF Steps
  <2>3. disk' = disk /\ file' = file /\ stored' = stored
    BY <1>1 DEF Dump, Overwrite
  <2> QED
    BY <2>1, <2>2, <2>3, ContentsKeptBy DEF Goal
<1>2. ASSUME NEW th \in Threads, NEW f \in Files, Delete(th, f) PROVE Goal
  <2>1. PICK w \in Work : Moves(th, w) /\ w.at = "free"
    BY <1>2, DeleteEffect
  <2>2. disk' = disk /\ file' = file /\ \A g \in Files : stored'[g] # Nothing => stored'[g] = stored[g]
    BY <1>2 DEF Delete, TypeOK
  <2> QED
    BY <2>1, <2>2, ContentsKeptBy DEF Goal
<1>3. ASSUME NEW th \in Threads, NEW at, NEW blocks, NEW own,
             pc[th] # Idle, pc[th].at # "write", at # "write", at = "free" <=> pc[th].at = "free",
             Continues(th, at, blocks, own, pc[th].written),
             disk' = disk, file' = file, stored' = stored
      PROVE  Goal
  <2>1. pc[th].at # "free" => pc[th].written = 0
    BY <1>3 DEF NothingWrittenYet
  <2> QED
    BY <1>3, <2>1, ContentsKeptBy DEF Goal, Continues
<1>4. ASSUME NEW th \in Threads, FirstBlock(th) PROVE Goal
  <2>1. disk' = disk /\ file' = file /\ stored' = stored /\ pc[th] # Idle /\ pc[th].at = "first"
    BY <1>4 DEF FirstBlock, At
  <2> QED
    BY <1>3, <1>4, <2>1, FirstBlockEffect
<1>5. ASSUME NEW th \in Threads, _pedirBloquesNuevos(th) PROVE Goal
  <2>1. disk' = disk /\ file' = file /\ stored' = stored /\ pc[th] # Idle /\ pc[th].at = "ask"
    BY <1>5 DEF _pedirBloquesNuevos, At
  <2> QED
    BY <1>3, <1>5, <2>1, AskEffect
<1>6. ASSUME NEW th \in Threads, GiveUp(th) PROVE Goal
  <2>1. disk' = disk /\ file' = file /\ stored' = stored /\ pc[th] # Idle /\ pc[th].at = "ask"
    BY <1>6 DEF GiveUp, At
  <2> QED
    BY <1>3, <1>6, <2>1, GiveUpEffect
<1>7. ASSUME NEW th \in Threads, borrarArchivoLFS(th) PROVE Goal
  <2>1. disk' = disk /\ file' = file /\ stored' = stored /\ pc[th] # Idle /\ pc[th].at = "free"
    BY <1>7 DEF borrarArchivoLFS, At
  <2> QED
    BY <1>3, <1>7, <2>1, FreeEffect
<1>8. ASSUME NEW th \in Threads, Stop(th), disk' = disk,
             \A f \in Files : stored'[f] # Nothing => stored'[f] = stored[f] /\ file'[f] = file[f]
      PROVE  Goal
  <2>1. Moves(th, Idle)
    BY <1>8, StopEffect
  <2> QED
    BY <1>8, <2>1, ContentsKeptBy DEF Goal
<1>9. ASSUME NEW th \in Threads, NoFirstBlock(th) PROVE Goal
  BY <1>8, <1>9 DEF NoFirstBlock
<1>10. ASSUME NEW th \in Threads, Load(th) PROVE Goal
  <2>1. disk' = disk /\ file' = file /\ stored' = stored /\ pc[th] # Idle /\ pc[th].at = "load"
    BY <1>10 DEF Load, At
  <2>2. CASE file[pc[th].file] = NoFile
    BY <1>8, <1>10, <2>1, <2>2 DEF Load
  <2>3. CASE file[pc[th].file] # NoFile
    BY <1>3, <1>10, <2>1, <2>3, LoadEffect
  <2> QED
    BY <2>2, <2>3
<1>11. ASSUME NEW th \in Threads, GiveBack(th) PROVE Goal
  <2>1. disk' = disk /\ file' = file /\ stored' = stored /\ pc[th] # Idle /\ pc[th].at = "undo"
    BY <1>11 DEF GiveBack, At
  <2>2. CASE pc[th].own = <<>>
    BY <1>8, <1>11, <2>1, <2>2 DEF GiveBack
  <2>3. CASE pc[th].own # <<>>
    BY <1>3, <1>11, <2>1, <2>3, GiveBackEffect
  <2> QED
    BY <2>2, <2>3
<1>12. ASSUME NEW th \in Threads, Unlink(th) PROVE Goal
  <2> PICK f \in Files : f = pc[th].file
    BY <1>12, ContinuesFacts DEF Unlink, At
  <2>1. stored[f] = Nothing
    BY <1>12, ContinuesFacts DEF Unlink, At, FollowsFile
  <2>2. disk' = disk /\ stored' = stored /\ file' = [file EXCEPT ![f] = NoFile] /\ Stop(th)
    BY <1>12 DEF Unlink
  <2>3. \A g \in Files : stored'[g] # Nothing => stored'[g] = stored[g] /\ file'[g] = file[g]
    BY <2>1, <2>2 DEF TypeOK
  <2> QED
    BY <1>8, <2>2, <2>3
<1>13. CASE Crash \/ UNCHANGED vars
  <2>1. disk' = disk /\ file' = file /\ stored' = stored
    BY <1>13 DEF Crash, vars
  <2>2. \A th \in Threads : pc'[th] = Idle \/ pc'[th] = pc[th]
    BY <1>13 DEF Crash, vars
  <2> QED
    BY <2>1, <2>2, ContentsKept DEF Goal
<1>14. ASSUME NEW th \in Threads, NEW f \in Files, NEW g \in Files,
              <<f, g>> \in Renames, _renombrarArchivoATmpc(th, f, g)
       PROVE  Goal
  <2>1. f # g
    BY <1>14, RenamesAssumption
  <2> QED
    BY <1>14, <2>1, RenameKeepsContents DEF Goal, TInv
<1> QED
  BY <1>1, <1>2, <1>4, <1>5, <1>6, <1>7, <1>9, <1>10, <1>11, <1>12, <1>13, <1>14, CreateKeepsContents,
     BeginWriteKeepsContents, WriteKeepsContents, SaveKeepsContents DEF Next, Goal

-----------------------------------------------------------------------------
(***************************************************************************)
(* Theorems.                                                               *)
(***************************************************************************)
\* The types, the owners of the blocks and the contents at every step of any number of
\* dumps, compactions, DROPs and restarts.
THEOREM BlocksInvariant == Spec => []IInv
<1>1. Init => IInv
  BY InitTInv, InitOInv, InitRInv DEF IInv
<1>2. IInv /\ [Next]_vars => IInv'
  BY NextTInv, NextOInv, NextRInv DEF IInv
<1> QED
  BY <1>1, <1>2, PTL DEF Spec

\* Bitmap, files, blocks and threads are always of the types that FileSystem.c means.
THEOREM BlocksTypeOK == Spec => []TypeOK
<1>1. IInv => TypeOK
  BY DEF IInv, TInv
<1> QED
  BY <1>1, BlocksInvariant, PTL

\* No block is in two files, twice in one, or in a file and with a thread, until a deletion
\* overlaps with another use of its file or is cut short.
THEOREM BlocksOneOwnerPerBlock == Spec => []OneOwnerPerBlock
<1>1. IInv => OneOwnerPerBlock
  BY DEF IInv, OInv, OneOwnerPerBlock, Owners, ListsAreDistinct, Distinct
<1> QED
  BY <1>1, BlocksInvariant, PTL

\* Exactly the blocks that a file or a thread has are marked, and those that a process left or
\* a rename over a .tmpc left: a write that fails leaks none.
THEOREM BlocksBitmapIsExact == Spec => []BitmapIsExact
<1>1. IInv => BitmapIsExact
  <2> SUFFICES ASSUME IInv, torn = {}
               PROVE  bitmap = (UNION {Held(f) : f \in Files}) \cup (UNION {Own(th) : th \in Threads}) \cup lost
    BY DEF BitmapIsExact
  <2>1. TypeOK /\ Owners
    BY DEF IInv, TInv, OInv
  <2>2. \A f \in Files : Held(f) \subseteq BlockIds
    <3> SUFFICES ASSUME NEW f \in Files, file[f] # NoFile PROVE Listed(f) \subseteq BlockIds
      BY DEF Held, Listed
    <3>1. file[f].blocks \in Seq(BlockIds)
      BY <2>1 DEF TypeOK, Entry
    <3> QED
      BY <3>1 DEF Listed
  <2>3. \A th \in Threads : Own(th) \subseteq BlockIds
    <3> SUFFICES ASSUME NEW th \in Threads, pc[th] # Idle PROVE Own(th) \subseteq BlockIds
      BY DEF Own
    <3>1. pc[th].own \in Seq(BlockIds)
      BY <2>1, BusyIsWork DEF Work
    <3> QED
      BY <3>1 DEF Own
  <2>4. bitmap \subseteq BlockIds /\ lost \subseteq BlockIds
    BY <2>1 DEF TypeOK
  <2> DEFINE held == UNION {Held(f) : f \in Files}
             own  == UNION {Own(th) : th \in Threads}
  <2>5. (\A b : b \in held <=> \E f \in Files : b \in Held(f)) /\ held \subseteq BlockIds
    BY <2>2
  <2>6. (\A b : b \in own <=> \E th \in Threads : b \in Own(th)) /\ own \subseteq BlockIds
    BY <2>3
  <2> HIDE DEF held, own
  <2>7. \A b \in BlockIds : b \in bitmap <=> b \in held \/ b \in own \/ b \in lost
    BY <2>1, <2>5, <2>6 DEF Owners
  <2>8. bitmap = held \cup own \cup lost
    BY <2>4, <2>5, <2>6, <2>7
  <2> QED
    BY <2>8 DEF held, own
<1> QED
  BY <1>1, BlocksInvariant, PTL

\* What leerArchivoLFS returns of a file is what escribirArchivoLFS was last given for it,
\* whatever other threads allocate, write and free meanwhile.
THEOREM BlocksReadsBack == Spec => []ReadsBack
<1>1. IInv => ReadsBack
  <2> SUFFICES ASSUME IInv, torn = {}, NEW f \in Files, stored[f] # Nothing
               PROVE  leerArchivoLFS(f) = stored[f]
    BY DEF ReadsBack
  <2>1. stored[f] \in Seq(Bytes)
    BY DEF IInv, TInv, TypeOK
  <2>2. /\ file[f].size = Len(stored[f])
        /\ \A i \in 1 .. Len(stored[f]) : disk[file[f].blocks[Block(i)]][Offset(i)] = stored[f][i]
    BY DEF IInv, RInv, FilesHoldStored
  <2>3. leerArchivoLFS(f) = [i \in 1 .. Len(stored[f]) |-> stored[f][i]]
    BY <2>2 DEF leerArchivoLFS, Block, Offset
  <2> QED
    BY <2>1, <2>3
<1> QED
  BY <1>1, BlocksInvariant, PTL
===============================================================================
