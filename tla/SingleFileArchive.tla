-------------------------- MODULE SingleFileArchive --------------------------
(***************************************************************************)
(* One refactored file per rank (SingleFileArchive.hpp): a header, a       *)
(* directory reserved up front, and the blocks in the order they were      *)
(* committed.  The writer streams through stdio and patches the directory  *)
(* in close(); the reader trusts the directory, then the header of each    *)
(* block.                                                                  *)
(*                                                                         *)
(* A file is a sequence of cells, and a number takes Width cells, low      *)
(* digit first, so that a write cut off in the middle leaves a torn        *)
(* number behind as it would in a file of bytes.  The writer's process may *)
(* die, or a write come back short, anywhere: what the file then holds is  *)
(* some prefix of what was written through stdio, in the order it was      *)
(* written.  The drivers return at the first failed call, which ends the   *)
(* writer; after a rejected index, which leaves it untouched, the model    *)
(* also lets a caller go on.  Readers run when no writer does.             *)
(***************************************************************************)
EXTENDS Integers, SequencesExt, Powers

CONSTANTS
  Base,           \* values of a cell
  Width,          \* cells of a number
  HeaderCells,    \* cells of the archive header
  NumBlocks,      \* num_timesteps * num_fields
  Metadata,       \* the metadata a block may carry
  Payloads,       \* the components a block may carry
  MaxCommits      \* bound on the commits of one run

ASSUME GeometryAssumption ==
  /\ Base \in Nat \ {0, 1} /\ Width \in Nat \ {0}
  /\ HeaderCells \in Nat \ {0} /\ NumBlocks \in Nat \ {0} /\ MaxCommits \in Nat
ASSUME PayloadAssumption == Metadata \cup Payloads \subseteq Seq(0 .. Base - 1)

Blocks     == 0 .. NumBlocks - 1
Components == {<<p>> : p \in Payloads} \cup (Payloads \X Payloads)
NoBlock    == [metadata |-> <<>>, components |-> <<>>]

VARIABLES
  pc,           \* "idle", or "open" while a writer is
  dry,          \* the writer has no path and touches no file
  stream,       \* what the writer passed to fwrite since open()
  file,         \* the file as a reader finds it
  cursor,       \* cursor_: where the next block goes
  directory,    \* directory_: offset and size of each block
  components,   \* components_: the block being assembled
  commits,      \* commits of this run, for the bound
  reported,     \* sum of the block sizes commit_block() gave back
  committed,    \* history: the block last committed to the file, per index
  outcome       \* history: how the last run that touched the file ended

writer == <<pc, dry, stream, cursor, directory, components, commits, reported>>
vars   == <<writer, file, committed, outcome>>

-----------------------------------------------------------------------------
(* The format *)

\* sfa_put(), sfa_get().
Number(n)    == [k \in 1 .. Width |-> (n \div Power(Base, k - 1)) % Base]
Value(cells) == SumFunction([k \in 1 .. Width |-> cells[k] * Power(Base, k - 1)])
Numbers(ns)  == FlattenSeq([k \in DOMAIN ns |-> Number(ns[k])])

\* f with s written at offset o.
Overlay(f, s, o) ==
  [k \in 1 .. IF o + Len(s) > Len(f) THEN o + Len(s) ELSE Len(f) |->
     IF k \in o + 1 .. o + Len(s) THEN s[k - o] ELSE f[k]]

DirectoryCells == 2 * NumBlocks * Width
PayloadOffset  == HeaderCells + DirectoryCells

\* serialize(): what matters of the header is that all of it is there.
Header == [k \in 1 .. HeaderCells |-> 1]

\* Mutant: the components are placed as if there were no metadata.
Layout_WithoutMetadata(offset, metadata_size, sizes) ==
  LET meta == offset + Width * (2 + Len(sizes))
  IN  [metadata   |-> meta,
       components |-> [k \in DOMAIN sizes |->
                         meta + SumFunction(SubSeq(sizes, 1, k - 1))],
       block_size |-> meta - offset + SumFunction(sizes)]

\* SingleFileBlockLayout::finish(): where the parts of a block are.
Layout(offset, metadata_size, sizes) ==
  LET meta == offset + Width * (2 + Len(sizes))
  IN  [metadata   |-> meta,
       components |-> [k \in DOMAIN sizes |->
                         meta + metadata_size + SumFunction(SubSeq(sizes, 1, k - 1))],
       block_size |-> meta - offset + metadata_size + SumFunction(sizes)]

\* The bytes commit_block() assembles.
Block(metadata, parts) ==
  Numbers(<<Len(metadata), Len(parts)>> \o [k \in DOMAIN parts |-> Len(parts[k])])
    \o metadata \o FlattenSeq(parts)

\* The code's numbers have 64 bits: no file outgrows them.
ASSUME NumbersFit ==
  \A metadata \in Metadata, parts \in Components :
    PayloadOffset + MaxCommits * Len(Block(metadata, parts)) < Power(Base, Width)

-----------------------------------------------------------------------------
(* The reader, on a file f *)

CanRead(f, offset, size) == size = 0 \/ offset + size <= Len(f)
ReadAt(f, offset, size)  == SubSeq(f, offset + 1, offset + size)
NumberAt(f, offset)      == Value(ReadAt(f, offset, Width))

\* SingleFileArchive::open().
CanOpen(f) == CanRead(f, 0, HeaderCells) /\ ReadAt(f, 0, HeaderCells) = Header
              /\ CanRead(f, HeaderCells, DirectoryCells)
Offset(f, i) == NumberAt(f, HeaderCells + 2 * i * Width)
Size(f, i)   == NumberAt(f, HeaderCells + (2 * i + 1) * Width)

\* The sizes the header of the block at offset announces.
ComponentCount(f, offset) == NumberAt(f, offset + Width)
ComponentSizes(f, offset) ==
  [k \in 1 .. ComponentCount(f, offset) |-> NumberAt(f, offset + (1 + k) * Width)]

LayoutAt(f, i) == Layout(Offset(f, i), NumberAt(f, Offset(f, i)), ComponentSizes(f, Offset(f, i)))

\* block_layout(): does block i of f stand up to the checks?
block_layout(f, i) ==
  /\ Size(f, i) # 0
  /\ CanRead(f, Offset(f, i), 2 * Width)
  /\ CanRead(f, Offset(f, i) + 2 * Width, ComponentCount(f, Offset(f, i)) * Width)
  /\ LayoutAt(f, i).block_size = Size(f, i)

\* read_block_components() succeeds, and what it then returns.
Readable(f, i) ==
  /\ CanOpen(f)
  /\ block_layout(f, i)
  /\ LET at == Offset(f, i)
         sizes == ComponentSizes(f, at)
     IN  /\ CanRead(f, LayoutAt(f, i).metadata, NumberAt(f, at))
         /\ \A k \in DOMAIN sizes : CanRead(f, LayoutAt(f, i).components[k], sizes[k])

read_block_components(f, i) ==
  LET at == Offset(f, i)
      sizes == ComponentSizes(f, at)
  IN  [metadata   |-> ReadAt(f, LayoutAt(f, i).metadata, NumberAt(f, at)),
       components |-> [k \in DOMAIN sizes |->
                         ReadAt(f, LayoutAt(f, i).components[k], sizes[k])]]

-----------------------------------------------------------------------------
(* The writer *)

Init ==
  /\ pc = "idle" /\ dry = FALSE /\ stream = <<>> /\ cursor = 0
  /\ directory = [i \in Blocks |-> <<0, 0>>] /\ components = <<>>
  /\ commits = 0 /\ reported = 0
  /\ file = <<>> /\ committed = [i \in Blocks |-> NoBlock] /\ outcome = "none"

\* Mutant: the file is opened for update and keeps what it held.
Truncated_Not(f) == f

\* fopen(path, "wb").
Truncated(f) == <<>>

\* The writer object is gone.
Destroyed ==
  /\ pc' = "idle" /\ dry' = FALSE /\ stream' = <<>> /\ cursor' = 0
  /\ directory' = [i \in Blocks |-> <<0, 0>>] /\ components' = <<>>
  /\ commits' = 0 /\ reported' = 0

\* The writer's process ends with s accepted by stdio, of which some prefix
\* reaches the file.
Dies(s, how) ==
  /\ \E n \in 0 .. Len(s) : file' = Overlay(file, SubSeq(s, 1, n), 0)
  /\ outcome' = how
  /\ Destroyed
  /\ UNCHANGED committed

\* The constructor and open(); a short write of the prologue is a death.
Open ==
  /\ pc = "idle"
  /\ dry' \in BOOLEAN
  /\ pc' = "open"
  /\ cursor' = PayloadOffset
  /\ IF dry' THEN UNCHANGED <<stream, file, committed, outcome>>
     ELSE /\ stream' = Header \o [k \in 1 .. DirectoryCells |-> 0]
          /\ file' = Truncated(file)
          /\ committed' = [i \in Blocks |-> NoBlock]
          /\ outcome' = "none"
  /\ UNCHANGED <<directory, components, commits, reported>>

\* Mutant: the components of a rejected block stay for the next one.
begin_block_Keeps(parts) == parts

begin_block(parts) == <<>>

\* commit_block(): rejects the index, writes the block, or dies in the write.
commit_block(i, metadata, parts) ==
  LET layout == Layout(cursor, Len(metadata), [k \in DOMAIN parts |-> Len(parts[k])])
      block  == Block(metadata, parts)
  IN  \/ /\ i \notin Blocks
         /\ components' = parts
         /\ UNCHANGED <<pc, stream, cursor, directory, reported, file, outcome>>
      \/ /\ i \in Blocks
         /\ stream' = IF dry THEN stream ELSE stream \o block
         /\ directory' = [directory EXCEPT ![i] = <<cursor, layout.block_size>>]
         /\ cursor' = cursor + layout.block_size
         /\ reported' = reported + layout.block_size
         /\ components' = <<>>
         /\ UNCHANGED <<pc, file, outcome>>

\* One frame of a driver: begin_block(), add_component() for each part, and
\* commit_block().  The index past the end stands for every bad one.
Frame(i, metadata, parts) ==
  /\ pc = "open" /\ commits < MaxCommits
  /\ commit_block(i, metadata, begin_block(components) \o parts)
  /\ commits' = commits + 1
  /\ committed' = IF i \in Blocks /\ ~dry
                    THEN [committed EXCEPT ![i] = [metadata |-> metadata, components |-> parts]]
                    ELSE committed
  /\ UNCHANGED dry

\* The process dies, or commit_block() comes back short and the driver returns.
Crash ==
  /\ pc = "open" /\ ~dry
  /\ \/ Dies(stream, "died")
     \/ \E metadata \in Metadata, parts \in Components :
          /\ commits < MaxCommits
          /\ Dies(stream \o Front(Block(metadata, parts)), "died")

\* Mutant: the directory is written where the blocks start.
PatchOffset_Payload == PayloadOffset

PatchOffset == HeaderCells

DirectoryTable == Numbers(FlattenSeq([k \in 1 .. NumBlocks |-> directory[k - 1]]))

\* close(): fseeko() flushes the blocks, then the directory is written over the
\* reserved one and fclose() flushes it.
Close ==
  /\ pc = "open"
  /\ Destroyed
  /\ IF dry THEN UNCHANGED <<file, outcome>>
     ELSE \/ /\ file' = Overlay(Overlay(file, stream, 0), DirectoryTable, PatchOffset)
             /\ outcome' = "closed"
          \/ /\ \E n \in 0 .. Len(DirectoryTable) :
                  file' = Overlay(Overlay(file, stream, 0),
                                  SubSeq(DirectoryTable, 1, n), PatchOffset)
             /\ outcome' = "torn"
  /\ UNCHANGED committed

Next ==
  \/ Open
  \/ \E i \in 0 .. NumBlocks, metadata \in Metadata, parts \in Components :
       Frame(i, metadata, parts)
  \/ Crash
  \/ Close

Spec == Init /\ [][Next]_vars

-----------------------------------------------------------------------------
(* Properties *)

\* A block that can be read, out of a file that was closed, torn or left by a
\* dead writer, is the block the driver committed at that index, whole: never
\* a mixture, a stale block of an earlier run or the parts of another frame.
ReaderNeverLies ==
  \A i \in Blocks : Readable(file, i) => read_block_components(file, i) = committed[i]

\* When close() has returned true every committed block can be read.
CloseCompletes ==
  outcome = "closed" =>
    \A i \in Blocks : committed[i] # NoBlock => Readable(file, i)

\* A run that died before close() left no block to find: its directory holds the
\* zeros open() reserved.
UnclosedIsEmpty == outcome = "died" => \A i \in Blocks : ~Readable(file, i)

\* The sizes commit_block() reports are exact, dry run or not: with the prologue
\* they add up to file_size() and, on a real run, to the bytes written.
SizesExact ==
  pc = "open" => /\ cursor = PayloadOffset + reported
                 /\ ~dry => Len(stream) = cursor
=============================================================================
