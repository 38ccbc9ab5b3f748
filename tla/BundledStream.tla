---------------------------- MODULE BundledStream ----------------------------
(***************************************************************************)
(* Streams on their way through a bundle.  Two kinds of codec read them:   *)
(* "any" stands for a codec that may log any sequence of ranges, in any    *)
(* order, repeated, nested or adjacent, another one each time; "IPComp"    *)
(* reads a stream laid out by compress(), of which it chooses what to read *)
(* from the size table in the header.                                      *)
(***************************************************************************)
EXTENDS RangeBundle, StreamLayout

CONSTANT Sizes   \* the sizes a plane of a stage with elements may compress to

ASSUME SizesAssumption == Sizes \subseteq Nat \ {0}

VARIABLES
  codec,   \* "any" or "IPComp"
  size,    \* what each plane compressed to
  kept     \* planes per stage that calcBitgroup() keeps for the tolerance

vars == <<bundleVars, codec, size, kept>>

Anything(n) == BoundedSeq(Ranges, n)
Empty == [p \in Plane |-> 0]

Init ==
  \/ /\ codec = "any"
     /\ full_size = StreamSize
     /\ size = [l \in Lids |-> Empty] /\ kept = [l \in Lids |-> 0]
     /\ \E first \in Anything(MaxLog) : LoggedInit(first)
  \/ /\ codec = "IPComp"
     /\ size \in [Lids -> [Plane -> Sizes] \cup {Empty}]
     /\ kept \in [Lids -> 0 .. Planes]
     /\ full_size = Sum(lossless_size(size))
     /\ LoggedInit(Accesses(lossless_size(size), kept))

\* What the second decode logs: the codec finds the table it found the first time
\* if the header came back, and then selects the same planes.
SecondLogs ==
  IF codec = "IPComp" /\ \A b \in 1 .. HeaderSize : rebuilt[b] = Stream[b]
    THEN {Accesses(lossless_size(size), kept)}
    ELSE Anything(MaxLog - 1)

Next ==
  /\ Retrieve \/ Rebuild \/ Reconstruct(SecondLogs)
  /\ UNCHANGED <<codec, size, kept>>

Spec == Init /\ [][Next]_vars

-----------------------------------------------------------------------------
(* Properties *)

\* What a reconstruction needs of a stream: nothing but the header when no plane is
\* kept.
Needed ==
  IF \A l \in Lids : kept[l] = 0 THEN {Header}
  ELSE {Header, Unpred} \cup {BitBlock(b[1], b[2]) : b \in {b \in Lids \X Plane : b[2] < kept[b[1]]}}

\* FUN3DIPComp.hpp, "its selection -- driven by the header blocks, which are always
\* among the ranges -- lands on the same blocks": the reconstruct stage accepts
\* every frame IPComp decodes, and what was decoded are the bytes compress() wrote
\* for the blocks the tolerance needs.
LandsOnTheSameBlocks ==
  [][codec = "IPComp" /\ pc = "rebuilt" =>
       /\ pc' = "accepted"
       /\ BytesOf(log') = Written(size, Needed)]_vars

\* para_IPComp_retrieve_fun3d.cpp calls retrieved_size "the codec's own accounting of
\* the same thing": a bundle holds as many bytes as the codec counted, although the
\* codec logs the header three times and counts it once.
AccountsAgree ==
  [][codec = "IPComp" /\ pc = "logged" =>
       pc' = "shipped" /\ Len(bytes') = Retrieved(lossless_size(size), kept)]_vars

Whole(l) == kept[l] \in {0, Planes} \/ size[l] = Empty

\* The buffer of retrieved_size bytes that the array and QoI drivers fill with what
\* was read is filled exactly; but it holds the bytes that were read only when every
\* stage was read as a whole or not at all.
FetchedFillsItsBuffer ==
  codec = "IPComp" /\ pc = "logged" =>
    LET fetched == fetched_data(lossless_size(size), kept)
    IN  /\ Len(fetched) = Retrieved(lossless_size(size), kept)
        /\ ToSet(fetched) = BytesOf(log) <=> \A l \in Lids : Whole(l)
=============================================================================
