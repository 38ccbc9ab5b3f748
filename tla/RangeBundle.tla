----------------------------- MODULE RangeBundle -----------------------------
(***************************************************************************)
(* Shipping the part of a stream one tolerance needs (FUN3DIPComp.hpp).    *)
(* The retrieve stage decodes once with the access log on, merges what was *)
(* logged, and ships a table of ranges with their bytes; the reconstruct   *)
(* stage puts them back into a zeroed stream of the full size, decodes     *)
(* with the log on again, and refuses the result when the codec read a     *)
(* range that was not shipped.                                             *)
(*                                                                         *)
(* The codec is represented by what it logs.  The second log need not      *)
(* equal the first, since the codec chooses what to read from bytes it has *)
(* read.  BundledStream says which logs there are.                         *)
(* A byte of the original stream is its position, counted from 1, and 0 is *)
(* a byte that was not shipped.                                            *)
(***************************************************************************)
EXTENDS Integers, SequencesExt

CONSTANTS
  StreamSize,   \* bytes of the original stream, when any codec may read it
  MaxLog        \* bound on the ranges one decode logs

ASSUME StreamSizeAssumption == StreamSize \in Nat
ASSUME MaxLogAssumption == MaxLog \in Nat

\* ByteRange: <<offset, length>>.  note_access() can log past the end of a
\* stream that was cut short, by one byte here.
Ranges == {r \in (0 .. StreamSize) \X (0 .. StreamSize + 1) : r[1] + r[2] <= StreamSize + 1}
End(r) == r[1] + r[2]

VARIABLES
  full_size, \* bytes of the original stream
  pc,        \* "logged", "shipped", "rebuilt", "accepted", "rejected" or "refused"
  log,       \* the access log of the latest decode
  table,     \* the range table of the bundle
  bytes,     \* component 1 of the bundle
  rebuilt    \* the sparse stream the reconstruct stage decodes

bundleVars == <<full_size, pc, log, table, bytes, rebuilt>>

Stream == [k \in 1 .. full_size |-> k]

-----------------------------------------------------------------------------
(* The range algebra *)

BytesOf(rs) == UNION {r[1] + 1 .. End(r) : r \in ToSet(rs)}

\* Mutant: only overlapping ranges are coalesced, not adjacent ones.
Joins_Overlap(last, r) == r[1] < End(last)

\* The next range in order starts inside the last one, or right after it.
Joins(last, r) == r[1] <= End(last)

\* Mutant: the joined range ends where the later one does.
Joined_EndOfLater(last, r) == <<last[1], End(r) - last[1]>>

Joined(last, r) == <<last[1], (IF End(r) > End(last) THEN End(r) ELSE End(last)) - last[1]>>

\* One more range, in order: empty ones are dropped, joining ones coalesced.
Added(merged, r) ==
  IF r[2] = 0 THEN merged
  ELSE IF merged # <<>> /\ Joins(Last(merged), r)
    THEN [merged EXCEPT ![Len(merged)] = Joined(@, r)]
    ELSE Append(merged, r)

\* The order std::sort() brings ranges into.
Before(a, b) == a[1] < b[1] \/ (a[1] = b[1] /\ a[2] < b[2])

\* merge_ranges(): the ranges are added in order, the last one in order last.
merge_ranges(rs) ==
  MapThenFoldSet(LAMBDA r, merged : Added(merged, r), <<>>, LAMBDA i : rs[i],
                 LAMBDA I : CHOOSE i \in I : \A j \in I : ~Before(rs[i], rs[j]),
                 DOMAIN rs)

\* Mutant: only the start of the range is looked up.
ranges_cover_Start(shipped, r) ==
  r[2] = 0 \/ \E s \in ToSet(shipped) : s[1] <= r[1] /\ r[1] <= End(s)

\* ranges_cover(): one shipped range holds all of r.
ranges_cover(shipped, r) ==
  r[2] = 0 \/ \E s \in ToSet(shipped) : s[1] <= r[1] /\ End(r) <= End(s)

-----------------------------------------------------------------------------
(* Retrieve, and reconstruct *)

\* A first decode left the given log.
LoggedInit(first) ==
  /\ pc = "logged"
  /\ log = first
  /\ table = <<>> /\ bytes = <<>> /\ rebuilt = <<>>

\* Mutant: every range is packed without its last byte.
Packed_ShortByOne(rs) ==
  FlattenSeq([k \in DOMAIN rs |-> SubSeq(Stream, rs[k][1] + 1, End(rs[k]) - 1)])

\* The bytes of every range in order.
Packed(rs) == FlattenSeq([k \in DOMAIN rs |-> SubSeq(Stream, rs[k][1] + 1, End(rs[k]))])

\* touched_ranges() and the packing of the bundle.
Retrieve ==
  LET merged == merge_ranges(log)
  IN  /\ pc = "logged"
      /\ IF merged = <<>> \/ \E r \in ToSet(merged) : End(r) > full_size
           THEN pc' = "refused" /\ UNCHANGED <<table, bytes>>
           ELSE pc' = "shipped" /\ table' = merged /\ bytes' = Packed(merged)
      /\ log' = <<>>
      /\ UNCHANGED <<full_size, rebuilt>>

\* Where range k of the table starts in the bytes shipped.
StartOf(k) == SumFunctionOnSet([j \in DOMAIN table |-> table[j][2]], 1 .. k - 1)

\* reconstruct_frame(), up to the decode: the ranges are put back in order, and
\* the table must fit the bytes exactly.
Rebuild ==
  LET total == StartOf(Len(table) + 1)
      range(b) == {k \in DOMAIN table : b \in table[k][1] + 1 .. End(table[k])}
  IN  /\ pc = "shipped"
      /\ IF total # Len(bytes) \/ \E r \in ToSet(table) : End(r) > full_size
           THEN pc' = "refused" /\ UNCHANGED rebuilt
           ELSE /\ pc' = "rebuilt"
                /\ rebuilt' = [b \in 1 .. full_size |->
                     IF range(b) = {} THEN 0
                     ELSE LET k == CHOOSE k \in range(b) : \A j \in range(b) : j <= k
                          IN  bytes[StartOf(k) + b - table[k][1]]]
      /\ UNCHANGED <<full_size, log, table, bytes>>

\* reconstruct_frame(): the decode of the rebuilt stream, which logs one of the
\* given logs, and the test of that log.  The buffer has full_size bytes, and the
\* codec's log stays inside it.
Reconstruct(second) ==
  /\ pc = "rebuilt"
  /\ log' \in {l \in second : BytesOf(l) \subseteq 1 .. full_size}
  /\ pc' = IF \A r \in ToSet(merge_ranges(log')) : ranges_cover(table, r)
             THEN "accepted" ELSE "rejected"
  /\ UNCHANGED <<full_size, table, bytes, rebuilt>>

-----------------------------------------------------------------------------
(* Properties *)

\* The bundle ships each byte the codec touched exactly once and no other byte,
\* and its ranges are in order with a gap between each and the next.
ShipsWhatWasRead ==
  [][pc = "logged" /\ pc' = "shipped" =>
       /\ BytesOf(table') = BytesOf(log)
       /\ Len(bytes') = Cardinality(BytesOf(log))
       /\ \A k \in 1 .. Len(table') - 1 : End(table'[k]) < table'[k + 1][1]]_bundleVars

\* A bundle the retrieve stage packed passes the checks of the reconstruct stage.
BundleRebuilds == [][pc = "shipped" => pc' = "rebuilt"]_bundleVars

\* An accepted frame was decoded from bytes of the original stream only: no byte
\* the codec read was one of the zeros between the ranges.
NoSilentZeros == pc = "accepted" => \A b \in BytesOf(log) : rebuilt[b] = Stream[b]

\* A frame is rejected only for a byte that was not shipped: in particular not when
\* the second decode reads what the first one read, cut up in another way.
NoFalseAlarm == pc = "rejected" => \E b \in BytesOf(log) : b \notin BytesOf(table)
=============================================================================
