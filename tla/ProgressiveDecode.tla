-------------------------- MODULE ProgressiveDecode --------------------------
(***************************************************************************)
(* The progressive decoder of SZProgressiveMQuant (IPComp.hpp): one codec  *)
(* object answers a series of progressive_reconstruct() calls over one     *)
(* single-layer stream.  Each call picks, per interpolation stage ("lid"), *)
(* how many of the most significant bitplanes the target error bound       *)
(* needs, subtracts what the PREVIOUS target selected, and fetches and     *)
(* adds only the difference.                                               *)
(*                                                                         *)
(* What a plane holds is abstracted to its identity <<lid, plane>>: the    *)
(* model tracks how often each plane's weight was added to dec_data, which *)
(* decoded plane the two XOR contexts of a stage hold, and what was paid   *)
(* for (retrieved_size) and logged (access_log).  Floating point and the   *)
(* zstd frames are left out.  A stage with no element has empty planes and *)
(* takes no part: Lids are the stages that own at least one element.       *)
(***************************************************************************)
EXTENDS Integers

CONSTANTS
  NumLids,    \* interpolation stages, N * level_progressive
  Planes,     \* bitgroup.size(): bitplanes of a quantization index
  Targets,    \* the nonzero target error bounds a caller may ask for
  Selected,   \* planes kept per stage for a target: what strategy() returns
  MaxCalls    \* bound on the calls of one codec object

Lids  == 0 .. NumLids - 1
Plane == 0 .. Planes - 1

ASSUME NumLidsAssumption  == NumLids \in Nat \ {0}
ASSUME PlanesAssumption   == Planes \in Nat \ {0}
ASSUME TargetsAssumption  == Targets \subseteq Nat \ {0}
ASSUME SelectedAssumption == Selected \in [Targets -> [Lids -> 0 .. Planes]]
ASSUME MaxCallsAssumption == MaxCalls \in Nat

\* calcBitgroup(): the zero error bound keeps no plane at all.
calcBitgroup(t) == IF t = 0 THEN [l \in Lids |-> 0] ELSE Selected[t]

\* What a context buffer holds: the decoded bits of a plane, the zeros it was
\* allocated with, or bits that are not those of any plane.
Zeros   == -1
Garbage == -2

Header == <<"header", 0, 0>>
Unpred == <<"unpred", 0, 0>>
BitBlock(l, p) == <<"bitplane", l, p>>
Blocks == {Header, Unpred} \cup {BitBlock(l, p) : l \in Lids, p \in Plane}

VARIABLES
  pc,               \* "idle", "planes" (inside the stage loop) or "merge"
  last_EB,          \* the target of the previous call, 0 before the first
  target,           \* the target of the call under way
  lid,              \* the stage being decoded
  bit,              \* the next plane of that stage to load
  loaded_bits,      \* planes of that stage loaded by this call
  last_bit,         \* per stage: the most recently decoded plane
  second_last_bit,  \* per stage: the one before it
  dec_delta,        \* per stage: planes this update adds, before the merge
  dec_data,         \* per stage: how often each plane is added in dec_data
  anchor,           \* planes of element 0, the anchor of stage 0
  wrong,            \* planes decoded against the wrong context
  paid,             \* per block: how often retrieved_size counted it
  access_log,       \* the blocks note_access() saw
  calls,            \* calls made so far
  shrunk,           \* history: stages asked to keep fewer planes since the
                    \*   last fresh decode
  regressed         \* history: whether any call shrank any stage

decodeVars  == <<lid, bit, loaded_bits, last_bit, second_last_bit,
                 dec_delta, dec_data, anchor, wrong>>
accountVars == <<paid, access_log>>
vars == <<pc, last_EB, target, decodeVars, accountVars, calls, shrunk, regressed>>

Old == calcBitgroup(last_EB)
New == calcBitgroup(target)

allzero(a) == \A l \in Lids : a[l] = 0

\* bsum is all zero: the call decodes from scratch into dec_data; otherwise it
\* is an update into dec_delta.
Fresh(old) == allzero(old)

-----------------------------------------------------------------------------

Init ==
  /\ pc = "idle"
  /\ last_EB = 0
  /\ target = 0
  /\ lid = 0
  /\ bit = 0
  /\ loaded_bits = {}
  /\ last_bit = [l \in Lids |-> Zeros]
  /\ second_last_bit = [l \in Lids |-> Zeros]
  /\ dec_delta = [l \in Lids |-> {}]
  /\ dec_data = [l \in Lids |-> [p \in Plane |-> 0]]
  /\ anchor = {}
  /\ wrong = {}
  /\ paid = [k \in Blocks |-> 0]
  /\ access_log = {}
  /\ calls = 0
  /\ shrunk = [l \in Lids |-> FALSE]
  /\ regressed = FALSE

\* Mutant: first_time_loadcfg is never set, every call counts the header.
Loadcfg_CountsHeaderAgain(load_unpred) ==
  /\ access_log' = access_log \cup {Header}
                     \cup (IF load_unpred THEN {Unpred} ELSE {})
  /\ paid' = [paid EXCEPT ![Header] = @ + 1,
                          ![Unpred] = IF load_unpred THEN @ + 1 ELSE @]

\* loadcfg(): the header is logged by every call and counted by the first one
\* (first_time_loadcfg); the unpredictable block is counted and logged whenever
\* it is loaded.
Loadcfg(load_unpred) ==
  /\ access_log' = access_log \cup {Header}
                     \cup (IF load_unpred THEN {Unpred} ELSE {})
  /\ paid' = [paid EXCEPT
                ![Header] = IF Header \in access_log THEN @ ELSE @ + 1,
                ![Unpred] = IF load_unpred THEN @ + 1 ELSE @]

\* progressive_reconstruct(t) up to the entry of the stage loop.  A call whose
\* selection equals the previous one only reads the header.
Call(t) ==
  LET new == calcBitgroup(t)
  IN  /\ pc = "idle"
      /\ calls < MaxCalls
      /\ calls' = calls + 1
      /\ target' = t
      /\ lid' = 0
      /\ bit' = Old[0]
      /\ loaded_bits' = {}
      /\ dec_delta' = [l \in Lids |-> {}]
      /\ regressed' = (regressed \/ \E l \in Lids : new[l] < Old[l])
      /\ \/ /\ new = Old
            /\ Loadcfg(FALSE)
            /\ last_EB' = t
            /\ UNCHANGED <<pc, shrunk, wrong>>
         \/ /\ new # Old
            /\ Loadcfg(Fresh(Old))
            /\ pc' = "planes"
            /\ shrunk' = [l \in Lids |-> ~Fresh(Old) /\ (shrunk[l] \/ new[l] < Old[l])]
            /\ wrong' = IF Fresh(Old) THEN {} ELSE wrong
            /\ UNCHANGED last_EB
      /\ UNCHANGED <<last_bit, second_last_bit, dec_data, anchor>>

\* invert_table() for one plane: planes 0 and 1 are stored as they are, plane b
\* is XORed with the two decoded planes before it, and the contexts shift.
RightContext ==
  bit <= 1 \/ (last_bit[lid] = bit - 1 /\ second_last_bit[lid] = bit - 2)

\* Mutant: the contexts shift in the wrong order, both end up with the new plane.
InvertTable_ShiftsTooLate ==
  /\ last_bit' = [last_bit EXCEPT ![lid] = IF RightContext THEN bit ELSE Garbage]
  /\ second_last_bit' = [second_last_bit EXCEPT ![lid] = last_bit'[lid]]

InvertTable ==
  /\ last_bit' = [last_bit EXCEPT ![lid] = IF RightContext THEN bit ELSE Garbage]
  /\ second_last_bit' = [second_last_bit EXCEPT ![lid] =
                           IF bit = 0 THEN @ ELSE last_bit[lid]]

\* Mutant: bg_end is one plane too far.
LoadPlane_OneMore ==
  /\ pc = "planes"
  /\ bit <= New[lid] /\ bit < Planes
  /\ paid' = [paid EXCEPT ![BitBlock(lid, bit)] = @ + 1]
  /\ access_log' = access_log \cup {BitBlock(lid, bit)}
  /\ InvertTable
  /\ wrong' = wrong
  /\ loaded_bits' = loaded_bits \cup {bit}
  /\ bit' = bit + 1
  /\ UNCHANGED <<pc, last_EB, target, lid, dec_delta, dec_data, anchor,
                 calls, shrunk, regressed>>

\* lossless_decode_bitgroup(): fetch, decompress and invert the next plane of
\* the current stage, while there is one between bsum and bg_end.
LoadPlane ==
  /\ pc = "planes"
  /\ bit < New[lid]
  /\ paid' = [paid EXCEPT ![BitBlock(lid, bit)] = @ + 1]
  /\ access_log' = access_log \cup {BitBlock(lid, bit)}
  /\ InvertTable
  /\ wrong' = IF RightContext THEN wrong ELSE wrong \cup {<<lid, bit>>}
  /\ loaded_bits' = loaded_bits \cup {bit}
  /\ bit' = bit + 1
  /\ UNCHANGED <<pc, last_EB, target, lid, dec_delta, dec_data, anchor,
                 calls, shrunk, regressed>>

\* Mutant: a fresh decode adds to what dec_data held instead of assigning it.
FinishStage_FreshAdds ==
  /\ pc = "planes"
  /\ bit >= New[lid]
  /\ dec_data' = IF ~Fresh(Old) THEN dec_data
                 ELSE [dec_data EXCEPT ![lid] = [p \in Plane |->
                         @[p] + (IF p \in loaded_bits THEN 1 ELSE 0)]]
  /\ anchor' = IF Fresh(Old) /\ lid = 0 THEN loaded_bits ELSE anchor
  /\ dec_delta' = IF Fresh(Old) THEN dec_delta ELSE [dec_delta EXCEPT ![lid] = loaded_bits]
  /\ IF lid + 1 < NumLids
     THEN lid' = lid + 1 /\ bit' = Old[lid + 1] /\ loaded_bits' = {} /\ UNCHANGED pc
     ELSE pc' = "merge" /\ UNCHANGED <<lid, bit, loaded_bits>>
  /\ UNCHANGED <<last_EB, target, last_bit, second_last_bit, wrong, accountVars,
                 calls, shrunk, regressed>>

\* Mutant: the planes of the previous stage are not cleared from quant_inds.
FinishStage_KeepsQuants ==
  /\ pc = "planes"
  /\ bit >= New[lid]
  /\ dec_data' = IF ~Fresh(Old) THEN dec_data
                 ELSE [dec_data EXCEPT ![lid] =
                         [p \in Plane |-> IF p \in loaded_bits THEN 1 ELSE 0]]
  /\ anchor' = IF Fresh(Old) /\ lid = 0 THEN loaded_bits ELSE anchor
  /\ dec_delta' = IF Fresh(Old) THEN dec_delta ELSE [dec_delta EXCEPT ![lid] = loaded_bits]
  /\ IF lid + 1 < NumLids
     THEN lid' = lid + 1 /\ bit' = Old[lid + 1] /\ UNCHANGED <<pc, loaded_bits>>
     ELSE pc' = "merge" /\ UNCHANGED <<lid, bit, loaded_bits>>
  /\ UNCHANGED <<last_EB, target, last_bit, second_last_bit, wrong, accountVars,
                 calls, shrunk, regressed>>

\* add_to_quant() and block_interpolation() of the current stage.  A fresh
\* decode assigns the stage's elements, and the anchor in stage 0; an update
\* collects the stage in dec_delta and steps over the anchor's index.
FinishStage ==
  /\ pc = "planes"
  /\ bit >= New[lid]
  /\ IF Fresh(Old)
     THEN /\ dec_data' = [dec_data EXCEPT ![lid] =
                            [p \in Plane |-> IF p \in loaded_bits THEN 1 ELSE 0]]
          /\ anchor' = IF lid = 0 THEN loaded_bits ELSE anchor
          /\ UNCHANGED dec_delta
     ELSE /\ dec_delta' = [dec_delta EXCEPT ![lid] = loaded_bits]
          /\ UNCHANGED <<dec_data, anchor>>
  /\ IF lid + 1 < NumLids
     THEN lid' = lid + 1 /\ bit' = Old[lid + 1] /\ loaded_bits' = {} /\ UNCHANGED pc
     ELSE pc' = "merge" /\ UNCHANGED <<lid, bit, loaded_bits>>
  /\ UNCHANGED <<last_EB, target, last_bit, second_last_bit, wrong, accountVars,
                 calls, shrunk, regressed>>

\* Mutant: the delta is subtracted.
Merge_WrongSign ==
  /\ pc = "merge"
  /\ dec_data' = IF Fresh(Old) THEN dec_data
                 ELSE [l \in Lids |-> [p \in Plane |->
                         dec_data[l][p] - (IF p \in dec_delta[l] THEN 1 ELSE 0)]]
  /\ last_EB' = target
  /\ pc' = "idle"
  /\ UNCHANGED <<target, lid, bit, loaded_bits, last_bit, second_last_bit,
                 dec_delta, anchor, wrong, accountVars, calls, shrunk, regressed>>

\* Mutant: the target is not remembered in last_EB.
Merge_ForgetsTarget ==
  /\ pc = "merge"
  /\ dec_data' = IF Fresh(Old) THEN dec_data
                 ELSE [l \in Lids |-> [p \in Plane |->
                         dec_data[l][p] + (IF p \in dec_delta[l] THEN 1 ELSE 0)]]
  /\ pc' = "idle"
  /\ UNCHANGED <<last_EB, target, lid, bit, loaded_bits, last_bit, second_last_bit,
                 dec_delta, anchor, wrong, accountVars, calls, shrunk, regressed>>

\* The end of decompress_progressive(): an update adds dec_delta to dec_data;
\* then progressive_reconstruct() remembers the target.
Merge ==
  /\ pc = "merge"
  /\ dec_data' = IF Fresh(Old) THEN dec_data
                 ELSE [l \in Lids |-> [p \in Plane |->
                         dec_data[l][p] + (IF p \in dec_delta[l] THEN 1 ELSE 0)]]
  /\ last_EB' = target
  /\ pc' = "idle"
  /\ UNCHANGED <<target, lid, bit, loaded_bits, last_bit, second_last_bit,
                 dec_delta, anchor, wrong, accountVars, calls, shrunk, regressed>>

Next ==
  \/ \E t \in Targets \cup {0} : Call(t)
  \/ LoadPlane
  \/ FinishStage
  \/ Merge

Spec == Init /\ [][Next]_vars

\* Callers that only ever tighten the error bound, as the error-mode command
\* line and the QoI loops do.
Tighter(t) == last_EB = 0 \/ t < last_EB

NextTighter ==
  \/ \E t \in Targets : Tighter(t) /\ Call(t)
  \/ LoadPlane
  \/ FinishStage
  \/ Merge

TighterSpec == Init /\ [][NextTighter]_vars

-----------------------------------------------------------------------------

\* The types of the decoder's state.
TypeOK ==
  /\ pc \in {"idle", "planes", "merge"}
  /\ last_EB \in Targets \cup {0}
  /\ target \in Targets \cup {0}
  /\ lid \in Lids
  /\ bit \in 0 .. Planes
  /\ loaded_bits \in SUBSET Plane
  /\ last_bit \in [Lids -> Plane \cup {Zeros, Garbage}]
  /\ second_last_bit \in [Lids -> Plane \cup {Zeros, Garbage}]
  /\ dec_delta \in [Lids -> SUBSET Plane]
  /\ dec_data \in [Lids -> [Plane -> Nat]]
  /\ anchor \in SUBSET Plane
  /\ wrong \in SUBSET (Lids \X Plane)
  /\ paid \in [Blocks -> Nat]
  /\ access_log \in SUBSET Blocks
  /\ calls \in 0 .. MaxCalls
  /\ shrunk \in [Lids -> BOOLEAN]
  /\ regressed \in BOOLEAN

\* Between calls, every stage that was never asked to shrink since the last
\* fresh decode holds exactly the planes its last target selected, each of
\* them once and none decoded against a stale context, whatever the other
\* stages went through (decompress_progressive's bsum/bdelta bookkeeping).
ExactSelection ==
  pc = "idle" =>
    \A l \in Lids : ~shrunk[l] =>
      \A p \in Plane : /\ dec_data[l][p] = IF p < Old[l] THEN 1 ELSE 0
                       /\ <<l, p>> \notin wrong

\* retrieved_size is what its callers take it for: as long as no call shrank a
\* stage, every block is counted at most once, and exactly the blocks in the
\* access log are counted (get_retrieved_size, note_access).
RetrievedIsAccessed ==
  ~regressed => \A k \in Blocks : paid[k] = IF k \in access_log THEN 1 ELSE 0

\* No caller pays for a plane its own call did not ask for: between calls the
\* logged planes of a never-shrunk history are those of the last selection.
NothingBeyondTarget ==
  (pc = "idle" /\ ~regressed) =>
    \A l \in Lids, p \in Plane :
      BitBlock(l, p) \in access_log <=> p < Old[l]

\* Whatever happened before, a reconstruction that starts from scratch (the
\* previous target selected nothing) ends in exactly its own selection, with
\* the anchor and every context right.
FreshIsClean ==
  [][(pc = "merge" /\ Fresh(Old))
       => /\ \A l \in Lids, p \in Plane :
               dec_data'[l][p] = IF p < New[l] THEN 1 ELSE 0
          /\ anchor' = {p \in Plane : p < New[0]}
          /\ wrong' = {}]_vars

\* README.md, "Incremental Loading: Higher-fidelity reconstructions require
\* only additional data": when every call of a codec asks for a tighter error
\* bound than the one before, no plane is fetched twice.
IncrementalLoading ==
  \A l \in Lids, p \in Plane : paid[BitBlock(l, p)] <= 1

\* README.md, "A single compressed file supports multiple precision levels":
\* between calls, element 0 has the precision of the stage it belongs to.
AnchorKeepsUp ==
  (pc = "idle" /\ ~regressed) => anchor = {p \in Plane : p < Old[0]}

\* How far each stage has got: its planes are decoded from plane 0 up to here.
Progress(l) ==
  IF pc = "idle" \/ (pc = "planes" /\ l > lid) THEN Old[l]
  ELSE IF pc = "planes" /\ l = lid THEN bit
  ELSE New[l]

Finished(l) == pc = "merge" \/ (pc = "planes" /\ l < lid)

\* A never-shrunk stage: the contexts hold the last two decoded planes, and
\* what is merged, pending and loading are adjacent intervals of planes.
StageInv(l) ==
  /\ pc # "idle" => Old[l] <= Progress(l) /\ Progress(l) <= New[l]
  /\ Progress(l) >= 1 => last_bit[l] = Progress(l) - 1
  /\ Progress(l) >= 2 => second_last_bit[l] = Progress(l) - 2
  /\ \A p \in Plane : <<l, p>> \notin wrong
  /\ pc = "idle" \/ ~Fresh(Old) =>
       \A p \in Plane : dec_data[l][p] = IF p < Old[l] THEN 1 ELSE 0
  /\ Finished(l) =>
       \A p \in Plane :
         IF Fresh(Old) THEN dec_data[l][p] = IF p < New[l] THEN 1 ELSE 0
         ELSE p \in dec_delta[l] <=> Old[l] <= p /\ p < New[l]
  /\ pc = "planes" /\ l = lid =>
       \A p \in Plane : p \in loaded_bits <=> Old[l] <= p /\ p < bit

\* What retrieved_size and the access log hold as long as nothing shrank.
AccountInv ==
  /\ \A l \in Lids : ~shrunk[l]
  /\ paid[Header] = IF Header \in access_log THEN 1 ELSE 0
  /\ Unpred \in access_log <=> (pc # "idle" \/ ~allzero(Old))
  /\ paid[Unpred] = IF Unpred \in access_log THEN 1 ELSE 0
  /\ \A l \in Lids, p \in Plane :
       /\ BitBlock(l, p) \in access_log <=> p < Progress(l)
       /\ paid[BitBlock(l, p)] = IF p < Progress(l) THEN 1 ELSE 0

\* The inductive invariant of the decoder: every stage that was never shrunk
\* is where the stage loop says it is, a fresh decode has no shrunk stage and
\* sets the anchor with stage 0, and the accounting follows the stages.
DecodeInv ==
  /\ pc # "idle" => New # Old
  /\ \A l \in Lids : ~shrunk[l] => StageInv(l)
  /\ pc # "idle" /\ Fresh(Old) =>
       /\ \A l \in Lids : ~shrunk[l]
       /\ Finished(0) => \A p \in Plane : p \in anchor <=> p < New[0]
  /\ ~regressed => AccountInv

\* Seen through its stages, the decoder is an incremental store: the planes a
\* reconstruction holds, the planes paid for, and the planes the call wants.
HeldPlanes == [l \in Lids |-> IF pc # "idle" /\ Fresh(Old) THEN {}
                              ELSE {p \in Plane : dec_data[l][p] = 1}]
FetchedPlanes == {lp \in Lids \X Plane : paid[BitBlock(lp[1], lp[2])] = 1}
Wanted == IF pc = "idle" THEN Old ELSE New

Store == INSTANCE IncrementalStore
           WITH planes <- HeldPlanes, fetched <- FetchedPlanes, goal <- Wanted,
                broken <- regressed

\* Up to the first call that shrinks a stage, the decoder implements the
\* incremental store: a plane is fetched when wanted and missing, never twice, and
\* a reconstruction appears complete or not at all (bsum, bdelta and dec_delta of
\* decompress_progressive()).
ImplementsStore == Store!Spec
=============================================================================
