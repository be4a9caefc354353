-------------------------------- MODULE Blocks --------------------------------
(***************************************************************************)
(* The blocks of the file system (LissandraLibrary.c): a bitmap under a    *)
(* mutex says which blocks are taken; a file is a SIZE and a list of       *)
(* BLOCKS, kept in a file of the host; the bytes are in the blocks.        *)
(*                                                                         *)
(* The dump creates a file and writes it, the compaction renames,          *)
(* overwrites and deletes files; both hold the lock of the table.  DROP    *)
(* deletes without it.  Threads can be overtaken between any two blocks.   *)
(* A file here stands for one path of one table.                           *)
(***************************************************************************)
EXTENDS Integers, Sequences, FiniteSets

CONSTANTS NumBlocks,    \* CANTIDAD_BLOQUES
          BlockSize,    \* TAMANIO_BLOQUES
          Files, Threads, Bytes, Zero,
          Contents,     \* what files are given: sequences of bytes
          Renames,      \* the paths of a .tmp and of its .tmpc, in pairs
          NoFile, Nothing,
          Crashes       \* whether the process may end and start again

ASSUME BlocksAssumption ==
  /\ NumBlocks \in Nat /\ BlockSize \in Nat \ {0}
  /\ Contents \subseteq Seq(Bytes) /\ Crashes \in BOOLEAN

ASSUME RenamesAssumption == \A f, g \in Files : <<f, g>> \in Renames => f # g

BlockIds == 0 .. NumBlocks - 1
Entry    == [size : Nat, blocks : Seq(BlockIds)]
ASSUME NoFileAssumption == NoFile \notin Entry /\ Nothing \notin Seq(Bytes)

VARIABLES bitmap,   \* the blocks marked as taken, in a mapping that outlives the process
          file,     \* the SIZE and BLOCKS of each path
          disk,     \* the bytes of each block
          pc,       \* the step of each thread
          stored,   \* what each file was given last, Nothing while that is not certain
          torn,     \* files whose deletion was interrupted, or overlapped with another use
          lost      \* blocks that threads had when the process ended, and those of the files
                    \* that a rename put another in the place of
vars == <<bitmap, file, disk, pc, stored, torn, lost>>

\* A thread's file, what it writes, the blocks of the file and those it has besides.
Steps == {"first", "create", "load", "ask", "undo", "write", "free"}
Work  == [at : Steps, file : Files, content : Contents \cup {Nothing},
          blocks : Seq(BlockIds), own : Seq(BlockIds), written : Nat]
Idle  == [at |-> "idle"]

\* What the bitmap of blocks, the files of LissandraFS and the threads that rewrite them hold while
\* FileSystem.c allocates, writes and frees blocks.
TypeOK ==
  /\ bitmap \subseteq BlockIds
  /\ file \in [Files -> Entry \cup {NoFile}]
  /\ disk \in [BlockIds -> [1 .. BlockSize -> Bytes \cup {Zero}]]
  /\ pc \in [Threads -> Work \cup {Idle}]
  /\ stored \in [Files -> Seq(Bytes) \cup {Nothing}]
  /\ torn \subseteq Files
  /\ lost \subseteq BlockIds

-----------------------------------------------------------------------------
Listed(f) == IF file[f] = NoFile THEN {} ELSE {file[f].blocks[i] : i \in DOMAIN file[f].blocks}
Own(th)   == IF pc[th] = Idle THEN {} ELSE {pc[th].own[i] : i \in DOMAIN pc[th].own}

\* leerArchivoLFS
leerArchivoLFS(f) ==
  [i \in 1 .. file[f].size |->
     disk[file[f].blocks[((i - 1) \div BlockSize) + 1]][((i - 1) % BlockSize) + 1]]

BlocksFor(content) == (Len(content) + BlockSize - 1) \div BlockSize

FirstFree(b)      == b \in BlockIds \ bitmap /\ \A c \in BlockIds \ bitmap : b <= c

\* Variant: the block is searched for and not marked.
buscarBloqueLibre_NoMark(b) == FirstFree(b) /\ UNCHANGED bitmap

buscarBloqueLibre(b) == FirstFree(b) /\ bitmap' = bitmap \cup {b}
NoneFree          == bitmap = BlockIds /\ UNCHANGED bitmap

At(th, step) == pc[th] # Idle /\ pc[th].at = step
Busy(f)      == \E th \in Threads : pc[th] # Idle /\ pc[th].file = f
Start(th, step, f, content) ==
  /\ pc[th] = Idle
  /\ pc' = [pc EXCEPT ![th] = [at |-> step, file |-> f, content |-> content,
                               blocks |-> <<>>, own |-> <<>>, written |-> 0]]
Stop(th) == pc' = [pc EXCEPT ![th] = Idle]

Init ==
  /\ bitmap = {}
  /\ file = [f \in Files |-> NoFile]
  /\ disk = [b \in BlockIds |-> [i \in 1 .. BlockSize |-> Zero]]
  /\ pc = [th \in Threads |-> Idle]
  /\ stored = [f \in Files |-> Nothing]
  /\ torn = {} /\ lost = {}

-----------------------------------------------------------------------------
(***************************************************************************)
(* The dump of a table: a block, a file with it, and its content.  Without *)
(* a block the file is not created.                                        *)
(***************************************************************************)
Dump(th, f, content) ==
  /\ file[f] = NoFile /\ ~Busy(f)
  /\ Start(th, "first", f, content)
  /\ UNCHANGED <<bitmap, file, disk, stored, torn, lost>>

FirstBlock(th) ==
  /\ At(th, "first")
  /\ \E b \in BlockIds :
       /\ buscarBloqueLibre(b)
       /\ pc' = [pc EXCEPT ![th].at = "create", ![th].own = <<b>>]
  /\ UNCHANGED <<file, disk, stored, torn, lost>>

NoFirstBlock(th) ==
  /\ At(th, "first") /\ NoneFree
  /\ Stop(th)
  /\ UNCHANGED <<file, disk, stored, torn, lost>>

\* Variant: SIZE is not written.
crearArchivoLFS_NoSize(th) ==
  /\ At(th, "create")
  /\ file' = [file EXCEPT ![pc[th].file] = [blocks |-> pc[th].own]]
  /\ stored' = [stored EXCEPT ![pc[th].file] = <<>>]
  /\ pc' = [pc EXCEPT ![th].at = "load", ![th].own = <<>>]
  /\ UNCHANGED <<bitmap, disk, torn, lost>>

crearArchivoLFS(th) ==
  /\ At(th, "create")
  /\ file' = [file EXCEPT ![pc[th].file] = [size |-> 0, blocks |-> pc[th].own]]
  /\ stored' = [stored EXCEPT ![pc[th].file] = <<>>]
  /\ pc' = [pc EXCEPT ![th].at = "load", ![th].own = <<>>]
  /\ UNCHANGED <<bitmap, disk, torn, lost>>

(***************************************************************************)
(* escribirArchivoLFS, after the dump's creation or by a compaction: the   *)
(* file keeps its blocks and gets those it needs besides, or stays as it   *)
(* is if they cannot all be had.                                           *)
(***************************************************************************)
Overwrite(th, f, content) ==
  /\ file[f] # NoFile /\ ~Busy(f)
  /\ Start(th, "load", f, content)
  /\ UNCHANGED <<bitmap, file, disk, stored, torn, lost>>

Load(th) ==
  LET f == pc[th].file IN
  /\ At(th, "load")
  /\ IF file[f] = NoFile THEN Stop(th)
     ELSE pc' = [pc EXCEPT ![th].at = "ask", ![th].blocks = file[f].blocks]
  /\ UNCHANGED <<bitmap, file, disk, stored, torn, lost>>

Missing(w) == BlocksFor(w.content) - Len(w.blocks) - Len(w.own)

_pedirBloquesNuevos(th) ==
  /\ At(th, "ask") /\ Missing(pc[th]) > 0
  /\ \E b \in BlockIds :
       /\ buscarBloqueLibre(b)
       /\ pc' = [pc EXCEPT ![th].own = Append(@, b)]
  /\ UNCHANGED <<file, disk, stored, torn, lost>>

GiveUp(th) ==
  /\ At(th, "ask") /\ Missing(pc[th]) > 0 /\ NoneFree
  /\ pc' = [pc EXCEPT ![th].at = "undo"]
  /\ UNCHANGED <<file, disk, stored, torn, lost>>

\* Variant: the blocks that were got stay marked.
GiveBack_Keeps(th) ==
  /\ At(th, "undo")
  /\ Stop(th)
  /\ UNCHANGED <<bitmap, file, disk, stored, torn, lost>>

GiveBack(th) ==
  /\ At(th, "undo")
  /\ IF pc[th].own = <<>>
     THEN Stop(th) /\ UNCHANGED bitmap
     ELSE /\ bitmap' = bitmap \ {Head(pc[th].own)}
          /\ pc' = [pc EXCEPT ![th].own = Tail(@)]
  /\ UNCHANGED <<file, disk, stored, torn, lost>>

\* From here to the save the file is neither what it was nor what it will be.
BeginWrite(th) ==
  /\ At(th, "ask") /\ Missing(pc[th]) <= 0
  /\ pc' = [pc EXCEPT ![th].at = "write"]
  /\ stored' = [stored EXCEPT ![pc[th].file] = Nothing]
  /\ UNCHANGED <<bitmap, file, disk, torn, lost>>

\* Variant: each block gets the first bytes of the buffer.
_escribirBloque_SameBytes(th) ==
  LET content == pc[th].content
      done    == pc[th].written
      block   == (pc[th].blocks \o pc[th].own)[done + 1]
  IN /\ At(th, "write") /\ done < BlocksFor(content)
     /\ disk' = [disk EXCEPT ![block] =
          [i \in 1 .. BlockSize |-> IF done * BlockSize + i <= Len(content) THEN content[i] ELSE @[i]]]
     /\ pc' = [pc EXCEPT ![th].written = @ + 1]
     /\ UNCHANGED <<bitmap, file, stored, torn, lost>>

_escribirBloque(th) ==
  LET content == pc[th].content
      done    == pc[th].written
      block   == (pc[th].blocks \o pc[th].own)[done + 1]
  IN /\ At(th, "write") /\ done < BlocksFor(content)
     /\ disk' = [disk EXCEPT ![block] =
          [i \in 1 .. BlockSize |->
             IF done * BlockSize + i <= Len(content) THEN content[done * BlockSize + i] ELSE @[i]]]
     /\ pc' = [pc EXCEPT ![th].written = @ + 1]
     /\ UNCHANGED <<bitmap, file, stored, torn, lost>>

\* config_save makes the file anew if it was deleted meanwhile.
Save(th) ==
  LET f == pc[th].file IN
  /\ At(th, "write") /\ pc[th].written = BlocksFor(pc[th].content)
  /\ file' = [file EXCEPT ![f] = [size |-> Len(pc[th].content), blocks |-> pc[th].blocks \o pc[th].own]]
  /\ stored' = [stored EXCEPT ![f] = pc[th].content]
  /\ Stop(th)
  /\ UNCHANGED <<bitmap, disk, torn, lost>>

(***************************************************************************)
(* borrarArchivoLFS, by the compaction and by DROP: the blocks are marked  *)
(* as free one by one, and the file is unlinked after them.                *)
(***************************************************************************)
Delete(th, f) ==
  /\ file[f] # NoFile
  /\ pc[th] = Idle
  /\ pc' = [pc EXCEPT ![th] = [at |-> "free", file |-> f, content |-> Nothing,
                               blocks |-> <<>>, own |-> file[f].blocks, written |-> 0]]
  /\ stored' = [stored EXCEPT ![f] = Nothing]
  /\ torn' = IF Busy(f) THEN torn \cup {f} ELSE torn
  /\ UNCHANGED <<bitmap, file, disk, lost>>

borrarArchivoLFS(th) ==
  /\ At(th, "free") /\ pc[th].own # <<>>
  /\ bitmap' = bitmap \ {Head(pc[th].own)}
  /\ pc' = [pc EXCEPT ![th].own = Tail(@)]
  /\ UNCHANGED <<file, disk, stored, torn, lost>>

Unlink(th) ==
  /\ At(th, "free") /\ pc[th].own = <<>>
  /\ file' = [file EXCEPT ![pc[th].file] = NoFile]
  /\ Stop(th)
  /\ UNCHANGED <<bitmap, disk, stored, torn, lost>>

(***************************************************************************)
(* The compaction renames a .tmp to its .tmpc.  rename(2) takes the place  *)
(* of a .tmpc that a process which ended left there, and no block of it is *)
(* marked as free: borrarArchivoLFS never comes to know of it.             *)
(***************************************************************************)
Writing(f) == \E th \in Threads : pc[th] # Idle /\ pc[th].file = f /\ pc[th].at # "free"

_renombrarArchivoATmpc(th, f, g) ==
  /\ pc[th] = Idle /\ file[f] # NoFile /\ ~Writing(f) /\ ~Writing(g)
  /\ file' = [file EXCEPT ![g] = file[f], ![f] = NoFile]
  /\ stored' = [stored EXCEPT ![g] = stored[f], ![f] = Nothing]
  /\ torn' = IF Busy(f) \/ Busy(g) THEN torn \cup {f, g} ELSE torn
  /\ lost' = lost \cup Listed(g)
  /\ UNCHANGED <<bitmap, disk, pc>>

\* The process ends and starts again: bitmap, files and blocks are as they were left.
Crash ==
  /\ Crashes /\ \E th \in Threads : pc[th] # Idle
  /\ pc' = [th \in Threads |-> Idle]
  /\ torn' = torn \cup {pc[th].file : th \in {x \in Threads : At(x, "free")}}
  /\ lost' = lost \cup UNION {Own(th) : th \in Threads}
  /\ UNCHANGED <<bitmap, file, disk, stored>>

Next ==
  \/ \E th \in Threads :
       \/ \E f \in Files :
            \/ \E content \in Contents : Dump(th, f, content) \/ Overwrite(th, f, content)
            \/ Delete(th, f)
            \/ \E g \in Files : <<f, g>> \in Renames /\ _renombrarArchivoATmpc(th, f, g)
       \/ FirstBlock(th) \/ NoFirstBlock(th) \/ crearArchivoLFS(th)
       \/ Load(th) \/ _pedirBloquesNuevos(th) \/ GiveUp(th) \/ GiveBack(th)
       \/ BeginWrite(th) \/ _escribirBloque(th) \/ Save(th)
       \/ borrarArchivoLFS(th) \/ Unlink(th)
  \/ Crash

Spec == Init /\ [][Next]_vars
-----------------------------------------------------------------------------
(***************************************************************************)
(* Properties.  They hold until a deletion is interrupted by the end of    *)
(* the process, or a DROP overlaps with a write of the same file: the file *)
(* then keeps blocks that are marked as free.                              *)
(***************************************************************************)
Deleting(f) == \E th \in Threads : At(th, "free") /\ pc[th].file = f
Held(f)     == IF Deleting(f) THEN {} ELSE Listed(f)

\* No block is in two files, twice in one, or in a file and in the hands of a thread
\* that will give it to another file or back: bytes are not written over another
\* table's, whatever dumps, compactions and DROPs run at once and wherever one ended.
OneOwnerPerBlock ==
  torn = {} =>
    /\ \A f, g \in Files : f # g => Held(f) \cap Held(g) = {}
    /\ \A f \in Files, th \in Threads : Held(f) \cap Own(th) = {}
    /\ \A th, u \in Threads : th # u => Own(th) \cap Own(u) = {}
    /\ \A f \in Files : file[f] # NoFile =>
         \A i, j \in DOMAIN file[f].blocks : file[f].blocks[i] = file[f].blocks[j] => i = j

\* A block is marked exactly while a file or a thread has it: a write that does not get
\* all its blocks gives back those it got.  Blocks leak in two ways only, when the process
\* ends while a thread has some, and when a .tmp is renamed over a .tmpc that was left.
BitmapIsExact ==
  torn = {} =>
    bitmap = (UNION {Held(f) : f \in Files}) \cup (UNION {Own(th) : th \in Threads}) \cup lost

\* What is read from a file is what was last written to it, over several blocks, after
\* longer and shorter contents, and after a write that failed for lack of blocks.
ReadsBack ==
  torn = {} => \A f \in Files : stored[f] # Nothing => leerArchivoLFS(f) = stored[f]
===============================================================================
