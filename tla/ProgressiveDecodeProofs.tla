----------------------- MODULE ProgressiveDecodeProofs -----------------------
(***************************************************************************)
(* Proofs about the progressive decoder, for every number of stages and    *)
(* planes, every set of targets and every selection.                       *)
(***************************************************************************)
EXTENDS ProgressiveDecode, TLAPS

\* calcBitgroup() keeps between no plane and every plane of each stage.
LEMMA SelectionType ==
  ASSUME NEW t \in Targets \cup {0}
  PROVE  calcBitgroup(t) \in [Lids -> 0 .. Planes]
BY SelectedAssumption, PlanesAssumption DEF calcBitgroup, Lids

\* The planes selected before a call and by it are numbers of planes of each stage.
LEMMA OldNewType ==
  ASSUME TypeOK
  PROVE  Old \in [Lids -> 0 .. Planes] /\ New \in [Lids -> 0 .. Planes]
BY SelectionType DEF TypeOK, Old, New

\* There is a first stage.
LEMMA LidsNonEmpty == 0 \in Lids
BY NumLidsAssumption DEF Lids

\* Headers, unpredictable values and planes are blocks.
LEMMA BlocksType ==
  /\ Header \in Blocks /\ Unpred \in Blocks
  /\ \A l \in Lids, p \in Plane : BitBlock(l, p) \in Blocks
BY DEF Blocks

\* The blocks of a stream are distinct.
LEMMA BlocksDistinct ==
  /\ Header # Unpred
  /\ \A l \in Lids, p \in Plane : BitBlock(l, p) # Header /\ BitBlock(l, p) # Unpred
  /\ \A l \in Lids, p \in Plane, m \in Lids, q \in Plane :
       BitBlock(l, p) = BitBlock(m, q) => l = m /\ p = q
BY DEF Header, Unpred, BitBlock

-----------------------------------------------------------------------------

\* The state keeps its types.
THEOREM TypeCorrect == Spec => []TypeOK
<1>1. Init => TypeOK
  <2> SUFFICES ASSUME Init PROVE TypeOK
    OBVIOUS
  <2>1. /\ last_bit \in [Lids -> Plane \cup {Zeros, Garbage}]
        /\ second_last_bit \in [Lids -> Plane \cup {Zeros, Garbage}]
        /\ dec_delta \in [Lids -> SUBSET Plane]
    BY DEF Init
  <2>2. dec_data \in [Lids -> [Plane -> Nat]] /\ paid \in [Blocks -> Nat]
    BY DEF Init
  <2>3. lid \in Lids /\ bit \in 0 .. Planes /\ calls \in 0 .. MaxCalls
    BY LidsNonEmpty, PlanesAssumption, MaxCallsAssumption DEF Init
  <2> QED BY <2>1, <2>2, <2>3 DEF Init, TypeOK
<1>2. TypeOK /\ [Next]_vars => TypeOK'
  <2> SUFFICES ASSUME TypeOK, [Next]_vars PROVE TypeOK'
    OBVIOUS
  <2>o. Old \in [Lids -> 0 .. Planes] /\ New \in [Lids -> 0 .. Planes]
    BY OldNewType
  <2>1. ASSUME NEW t \in Targets \cup {0}, Call(t) PROVE TypeOK'
    <3>1. calcBitgroup(t) \in [Lids -> 0 .. Planes]
      BY SelectionType
    <3>2. /\ pc' \in {"idle", "planes", "merge"}
          /\ last_EB' \in Targets \cup {0}
          /\ target' \in Targets \cup {0}
          /\ wrong' \in SUBSET (Lids \X Plane)
          /\ UNCHANGED <<last_bit, second_last_bit, dec_data, anchor>>
          /\ dec_delta' = [l \in Lids |-> {}]
          /\ loaded_bits' = {}
      BY <2>1 DEF Call, TypeOK
    <3>3. lid' \in Lids /\ bit' \in 0 .. Planes
      BY <2>1, <2>o, LidsNonEmpty DEF Call
    <3>4. calls' \in 0 .. MaxCalls
      BY <2>1, MaxCallsAssumption DEF Call, TypeOK
    <3>5. shrunk' \in [Lids -> BOOLEAN] /\ regressed' \in BOOLEAN
      BY <2>1 DEF Call, TypeOK
    <3>6. paid' \in [Blocks -> Nat] /\ access_log' \in SUBSET Blocks
      <4>1. PICK load \in BOOLEAN : Loadcfg(load)
        BY <2>1 DEF Call, Fresh, allzero
      <4> QED BY <4>1, BlocksType DEF Loadcfg, TypeOK
    <3> QED BY <3>2, <3>3, <3>4, <3>5, <3>6 DEF TypeOK
  <2>2. ASSUME LoadPlane PROVE TypeOK'
    <3>1. bit \in Plane /\ bit' \in 0 .. Planes
      BY <2>2, <2>o, PlanesAssumption DEF LoadPlane, TypeOK, Plane
    <3>2. BitBlock(lid, bit) \in Blocks
      BY <3>1, BlocksType DEF TypeOK
    <3>3. paid' \in [Blocks -> Nat] /\ access_log' \in SUBSET Blocks
      BY <2>2, <3>2 DEF LoadPlane, TypeOK
    <3>4. /\ last_bit' \in [Lids -> Plane \cup {Zeros, Garbage}]
          /\ second_last_bit' \in [Lids -> Plane \cup {Zeros, Garbage}]
      BY <2>2, <3>1 DEF LoadPlane, InvertTable, TypeOK
    <3>5. loaded_bits' \in SUBSET Plane /\ wrong' \in SUBSET (Lids \X Plane)
      BY <2>2, <3>1 DEF LoadPlane, TypeOK
    <3> QED BY <2>2, <3>1, <3>3, <3>4, <3>5 DEF LoadPlane, TypeOK
  <2>3. ASSUME FinishStage PROVE TypeOK'
    <3>a. dec_data' \in [Lids -> [Plane -> Nat]]
      <4>1. CASE Fresh(Old)
        <5>1. [p \in Plane |-> IF p \in loaded_bits THEN 1 ELSE 0] \in [Plane -> Nat]
          OBVIOUS
        <5>2. dec_data \in [Lids -> [Plane -> Nat]]
          BY DEF TypeOK
        <5> QED BY <2>3, <4>1, <5>1, <5>2 DEF FinishStage
      <4>2. CASE ~Fresh(Old)
        BY <2>3, <4>2 DEF FinishStage, TypeOK
      <4> QED BY <4>1, <4>2
    <3>1. dec_delta' \in [Lids -> SUBSET Plane] /\ anchor' \in SUBSET Plane
      BY <2>3 DEF FinishStage, TypeOK
    <3>2. /\ lid' \in Lids /\ bit' \in 0 .. Planes
          /\ loaded_bits' \in SUBSET Plane
          /\ pc' \in {"idle", "planes", "merge"}
      <4>0. lid \in Lids /\ bit \in 0 .. Planes /\ loaded_bits \in SUBSET Plane
        BY DEF TypeOK
      <4>1. CASE lid + 1 < NumLids
        <5>1. lid + 1 \in Lids
          BY <4>0, <4>1, NumLidsAssumption DEF Lids
        <5>2. lid' = lid + 1 /\ bit' = Old[lid + 1] /\ loaded_bits' = {} /\ pc' = "planes"
          BY <2>3, <4>1 DEF FinishStage
        <5> QED BY <2>o, <5>1, <5>2
      <4>2. CASE ~(lid + 1 < NumLids)
        <5>1. lid' = lid /\ bit' = bit /\ loaded_bits' = loaded_bits /\ pc' = "merge"
          BY <2>3, <4>2 DEF FinishStage
        <5> QED BY <4>0, <5>1
      <4> QED BY <4>1, <4>2
    <3> QED BY <2>3, <3>a, <3>1, <3>2 DEF FinishStage, TypeOK, accountVars
  <2>4. ASSUME Merge PROVE TypeOK'
    <3>1. dec_data' \in [Lids -> [Plane -> Nat]]
      BY <2>4 DEF Merge, TypeOK
    <3> QED BY <2>4, <3>1 DEF Merge, TypeOK, accountVars
  <2>5. CASE UNCHANGED vars
    BY <2>5 DEF vars, decodeVars, accountVars, TypeOK
  <2> QED BY <2>1, <2>2, <2>3, <2>4, <2>5 DEF Next
<1> QED BY <1>1, <1>2, PTL DEF Spec

-----------------------------------------------------------------------------

\* Before the first call nothing is decoded.
LEMMA InitDecode == Init => DecodeInv
<1> SUFFICES ASSUME Init PROVE DecodeInv
  OBVIOUS
<1>1. \A l \in Lids : Old[l] = 0
  BY DEF Init, Old, calcBitgroup
<1>2. \A l \in Lids : StageInv(l)
  <2> SUFFICES ASSUME NEW l \in Lids PROVE StageInv(l)
    OBVIOUS
  <2>1. Progress(l) = 0 /\ ~Finished(l) /\ Old[l] = 0
    BY <1>1 DEF Init, Progress, Finished
  <2>2. \A p \in Plane : dec_data[l][p] = 0 /\ ~(p < 0) /\ <<l, p>> \notin wrong
    BY DEF Init, Plane
  <2> QED BY <2>1, <2>2 DEF Init, StageInv
<1>3. AccountInv
  <2>1. \A k \in Blocks : paid[k] = 0 /\ k \notin access_log
    BY DEF Init
  <2>2. \A l \in Lids : Progress(l) = 0 /\ ~shrunk[l]
    BY <1>1 DEF Init, Progress
  <2>3. \A p \in Plane : ~(p < 0)
    BY DEF Plane
  <2>4. pc = "idle" /\ allzero(Old)
    BY <1>1 DEF Init, allzero
  <2> QED BY <2>1, <2>2, <2>3, <2>4, BlocksType DEF AccountInv
<1> QED BY <1>2, <1>3 DEF Init, DecodeInv

\* A call that only reads the header leaves every stage where it was.
LEMMA CallDecode ==
  ASSUME TypeOK, TypeOK', DecodeInv, NEW t \in Targets \cup {0}, Call(t)
  PROVE  DecodeInv'
<1> DEFINE new == calcBitgroup(t)
<1>o. new \in [Lids -> 0 .. Planes] /\ Old \in [Lids -> 0 .. Planes]
  BY SelectionType, OldNewType
<1>p. \A l \in Lids : Progress(l) = Old[l]
  BY DEF Call, Progress
<1>1. CASE new = Old
  <2>1. pc = "idle" /\ pc' = "idle" /\ Old' = Old /\ shrunk' = shrunk /\ Loadcfg(FALSE)
    BY <1>1 DEF Call, Old
  <2>2. ASSUME NEW l \in Lids, ~shrunk'[l] PROVE StageInv(l)'
    <3>1. StageInv(l)
      BY <2>1, <2>2 DEF DecodeInv
    <3>2. UNCHANGED <<last_bit, second_last_bit, dec_data, wrong>>
      BY <1>1 DEF Call
    <3>3. Progress(l)' = Old[l]
      BY <2>1 DEF Progress
    <3> QED BY <3>1, <3>2, <3>3, <2>1, <1>p DEF StageInv, Finished
  <2>3. ASSUME ~regressed' PROVE AccountInv'
    <3>1. AccountInv
      BY <2>3 DEF Call, DecodeInv
    <3>2. \A l \in Lids : Progress(l)' = Progress(l)
      BY <2>1, <1>p DEF Progress
    <3> QED BY <3>1, <3>2, <2>1, BlocksType, BlocksDistinct
            DEF AccountInv, Loadcfg, allzero, TypeOK
  <2> QED BY <2>1, <2>2, <2>3 DEF DecodeInv
<1>2. CASE new # Old
  <2>1. /\ pc = "idle" /\ pc' = "planes" /\ lid' = 0 /\ bit' = Old[0]
        /\ Old' = Old /\ New' = new /\ loaded_bits' = {}
        /\ Fresh(Old)' = Fresh(Old)
        /\ Loadcfg(Fresh(Old))
        /\ shrunk' = [l \in Lids |-> ~Fresh(Old) /\ (shrunk[l] \/ new[l] < Old[l])]
    BY <1>2 DEF Call, Old, New, Fresh, allzero
  <2>p. \A l \in Lids : Progress(l)' = Old[l] /\ ~Finished(l)'
    BY <2>1 DEF Progress, Finished, Lids
  <2>2. ASSUME NEW l \in Lids, ~shrunk'[l] PROVE StageInv(l)'
    <3>1. Old[l] <= new[l]
      <4>1. Fresh(Old) \/ ~(new[l] < Old[l])
        BY <2>1, <2>2
      <4>2. Fresh(Old) => Old[l] = 0
        BY DEF Fresh, allzero
      <4> QED BY <4>1, <4>2, <1>o
    <3>2. UNCHANGED <<last_bit, second_last_bit, dec_data>>
      BY DEF Call
    <3>3. CASE Fresh(Old)
      <4>1. Old[l] = 0 /\ wrong' = {}
        BY <3>3, <1>2 DEF Fresh, allzero, Call
      <4>2. \A p \in Plane : ~(p < 0)
        BY DEF Plane
      <4>3. bit' = Old[0] /\ (l = lid' => bit' = 0)
        BY <2>1, <4>1
      <4> QED BY <4>1, <4>2, <4>3, <3>1, <3>3, <2>1, <2>p DEF StageInv
    <3>4. CASE ~Fresh(Old)
      <4>1. StageInv(l) /\ wrong' = wrong
        BY <3>4, <2>1, <2>2, <1>2 DEF DecodeInv, Call
      <4>2. \A p \in Plane : ~(Old[l] <= p /\ p < Old[l])
        BY <1>o DEF Plane
      <4>3. (l = lid' => bit' = Old[l]) /\ Old[l] <= Old[l] /\ New'[l] = new[l]
        BY <2>1, <1>o
      <4> QED BY <4>1, <4>2, <4>3, <3>1, <3>2, <3>4, <2>1, <2>p, <1>p DEF StageInv
    <3> QED BY <3>3, <3>4
  <2>3. ASSUME ~regressed' PROVE AccountInv'
    <3>1. AccountInv /\ \A l \in Lids : ~shrunk'[l]
      BY <2>1, <2>3 DEF Call, DecodeInv, AccountInv
    <3>2. Fresh(Old) <=> Unpred \notin access_log
      BY <3>1, <2>1 DEF AccountInv, Fresh
    <3>3. \A l \in Lids : Progress(l)' = Progress(l)
      BY <2>p, <1>p
    <3>4. /\ Unpred \in access_log'
          /\ paid'[Unpred] = 1
          /\ Header \in access_log' /\ paid'[Header] = 1
      BY <3>1, <3>2, <2>1, BlocksType, BlocksDistinct DEF AccountInv, Loadcfg, TypeOK
    <3>5. ASSUME NEW l \in Lids, NEW p \in Plane
          PROVE  /\ paid'[BitBlock(l, p)] = paid[BitBlock(l, p)]
                 /\ BitBlock(l, p) \in access_log' <=> BitBlock(l, p) \in access_log
      BY <2>1, BlocksType, BlocksDistinct DEF Loadcfg, TypeOK
    <3> QED BY <3>1, <3>3, <3>4, <3>5, <2>1 DEF AccountInv
  <2>4. Fresh(Old)' => \A l \in Lids : ~shrunk'[l]
    BY <2>1
  <2> QED BY <1>2, <2>1, <2>2, <2>3, <2>4, <2>p, LidsNonEmpty DEF DecodeInv
<1> QED BY <1>1, <1>2

\* Loading a plane keeps the decoder invariant.
LEMMA LoadPlaneDecode ==
  ASSUME TypeOK, TypeOK', DecodeInv, LoadPlane
  PROVE  DecodeInv'
<1>o. Old \in [Lids -> 0 .. Planes] /\ New \in [Lids -> 0 .. Planes]
  BY OldNewType
<1>1. /\ pc = "planes" /\ pc' = "planes" /\ lid' = lid /\ bit' = bit + 1
      /\ Old' = Old /\ New' = New /\ Fresh(Old)' = Fresh(Old)
      /\ shrunk' = shrunk /\ regressed' = regressed
      /\ lid \in Lids /\ bit \in Plane /\ bit < New[lid]
  BY <1>o, PlanesAssumption DEF LoadPlane, Old, New, Fresh, allzero, TypeOK, Plane
<1>p. \A l \in Lids : /\ Progress(l)' = IF l = lid THEN bit + 1 ELSE Progress(l)
                      /\ Finished(l)' = Finished(l)
  BY <1>1 DEF Progress, Finished, Lids
<1>b. Progress(lid) = bit
  BY <1>1 DEF Progress, Lids
<1>2. ASSUME NEW l \in Lids, ~shrunk[l] PROVE StageInv(l)'
  <2>1. StageInv(l)
    BY <1>2 DEF DecodeInv
  <2>2. CASE l = lid
    <3>1. RightContext
      BY <2>1, <2>2, <1>1, <1>b DEF StageInv, RightContext, Plane
    <3>2. /\ last_bit'[l] = bit
          /\ bit >= 1 => second_last_bit'[l] = last_bit[l]
          /\ wrong' = wrong
      BY <3>1, <2>2, <1>1 DEF LoadPlane, InvertTable, TypeOK
    <3>3. Old[l] <= bit /\ bit + 1 <= New[l] /\ (bit >= 1 => last_bit[l] = bit - 1)
      BY <2>1, <2>2, <1>1, <1>b, <1>o DEF StageInv, Plane
    <3>4. \A p \in Plane : p \in loaded_bits' <=> Old[l] <= p /\ p < bit + 1
      BY <2>1, <2>2, <3>3, <1>1, <1>o DEF StageInv, LoadPlane, Plane
    <3>5. /\ Progress(l)' = bit + 1
          /\ Progress(l)' >= 1 => last_bit'[l] = Progress(l)' - 1
          /\ Progress(l)' >= 2 => second_last_bit'[l] = Progress(l)' - 2
      BY <3>2, <3>3, <2>2, <1>1, <1>p DEF Plane
    <3>6. UNCHANGED <<dec_data, dec_delta>> /\ ~Finished(l)'
      BY <2>2, <1>1 DEF LoadPlane, Finished, Lids
    <3>7. Old[l] <= bit + 1
      BY <3>3, <1>1, <1>o DEF Plane
    <3>8. \A p \in Plane : <<l, p>> \notin wrong'
      BY <2>1, <3>2 DEF StageInv
    <3>9. ~Fresh(Old) => \A p \in Plane : dec_data[l][p] = IF p < Old[l] THEN 1 ELSE 0
      BY <2>1 DEF StageInv
    <3> QED BY <2>2, <3>3, <3>4, <3>5, <3>6, <3>7, <3>8, <3>9, <1>1 DEF StageInv
  <2>3. CASE l # lid
    <3>1. /\ last_bit'[l] = last_bit[l] /\ second_last_bit'[l] = second_last_bit[l]
          /\ \A p \in Plane : <<l, p>> \in wrong' => <<l, p>> \in wrong
          /\ UNCHANGED <<dec_data, dec_delta>>
      BY <2>3, <1>1 DEF LoadPlane, InvertTable, TypeOK
    <3> QED BY <2>1, <2>3, <3>1, <1>1, <1>p DEF StageInv
  <2> QED BY <2>2, <2>3
<1>3. ASSUME ~regressed PROVE AccountInv'
  <2>1. AccountInv
    BY <1>3 DEF DecodeInv
  <2>2. BitBlock(lid, bit) \in Blocks
    BY <1>1, BlocksType
  <2>3. /\ paid' = [paid EXCEPT ![BitBlock(lid, bit)] = @ + 1]
        /\ access_log' = access_log \cup {BitBlock(lid, bit)}
    BY DEF LoadPlane
  <2>4. /\ paid'[Header] = paid[Header] /\ paid'[Unpred] = paid[Unpred]
        /\ Header \in access_log' <=> Header \in access_log
        /\ Unpred \in access_log' <=> Unpred \in access_log
    BY <2>3, <1>1, BlocksDistinct, BlocksType DEF TypeOK
  <2>5. ASSUME NEW l \in Lids, NEW p \in Plane
        PROVE  /\ BitBlock(l, p) \in access_log' <=> p < Progress(l)'
               /\ paid'[BitBlock(l, p)] = IF p < Progress(l)' THEN 1 ELSE 0
    <3>1. CASE l = lid /\ p = bit
      <4>1. paid[BitBlock(l, p)] = 0 /\ Progress(l)' = bit + 1 /\ bit < bit + 1
        BY <3>1, <2>1, <1>1, <1>b, <1>p DEF AccountInv, Plane
      <4> QED BY <3>1, <2>2, <2>3, <4>1 DEF TypeOK
    <3>2. CASE ~(l = lid /\ p = bit)
      <4>1. BitBlock(l, p) # BitBlock(lid, bit)
        BY <3>2, <1>1, BlocksDistinct
      <4>2. p < Progress(l)' <=> p < Progress(l)
        BY <3>2, <1>1, <1>b, <1>p DEF Plane
      <4> QED BY <2>1, <2>3, <4>1, <4>2, BlocksType DEF AccountInv, TypeOK
    <3> QED BY <3>1, <3>2
  <2> QED BY <2>1, <2>4, <2>5, <1>1 DEF AccountInv
<1>4. Fresh(Old) => /\ \A l \in Lids : ~shrunk[l]
                    /\ Finished(0)' => \A p \in Plane : p \in anchor' <=> p < New'[0]
  BY <1>1, <1>p, LidsNonEmpty DEF DecodeInv, LoadPlane
<1> QED BY <1>1, <1>2, <1>3, <1>4 DEF DecodeInv

\* Finishing a stage keeps the decoder invariant.
LEMMA FinishStageDecode ==
  ASSUME TypeOK, TypeOK', DecodeInv, FinishStage
  PROVE  DecodeInv'
<1>o. Old \in [Lids -> 0 .. Planes] /\ New \in [Lids -> 0 .. Planes]
  BY OldNewType
<1>1. /\ pc = "planes" /\ lid \in Lids /\ bit \in 0 .. Planes /\ bit >= New[lid]
      /\ Old' = Old /\ New' = New /\ Fresh(Old)' = Fresh(Old)
      /\ UNCHANGED <<last_bit, second_last_bit, wrong, paid, access_log,
                     shrunk, regressed>>
  BY DEF FinishStage, Old, New, Fresh, allzero, TypeOK, accountVars
<1>2. \/ /\ lid + 1 \in Lids /\ pc' = "planes" /\ lid' = lid + 1
         /\ bit' = Old[lid + 1] /\ loaded_bits' = {}
      \/ pc' = "merge" /\ lid + 1 = NumLids
  BY <1>1, NumLidsAssumption DEF FinishStage, Lids
<1>f. \A l \in Lids : Finished(l)' <=> l <= lid
  BY <1>1, <1>2, NumLidsAssumption DEF Finished, Lids
<1>b. \A l \in Lids : l = lid /\ ~shrunk[l] => bit = New[l]
  <2> SUFFICES ASSUME ~shrunk[lid] PROVE bit = New[lid]
    OBVIOUS
  <2>1. StageInv(lid) /\ Progress(lid) = bit
    BY <1>1 DEF DecodeInv, Progress, Lids
  <2> QED BY <2>1, <1>1, <1>o DEF StageInv
<1>p. \A l \in Lids : ~shrunk[l] => Progress(l)' = Progress(l)
  <2> SUFFICES ASSUME NEW l \in Lids, ~shrunk[l] PROVE Progress(l)' = Progress(l)
    OBVIOUS
  <2>1. CASE l <= lid
    <3>1. Progress(l) = New[l]
      BY <2>1, <1>1, <1>b DEF Progress, Lids
    <3>2. Progress(l)' = New[l]
      BY <2>1, <1>1, <1>2 DEF Progress, Lids
    <3> QED BY <3>1, <3>2
  <2>2. CASE l > lid
    <3>1. Progress(l) = Old[l]
      BY <2>2, <1>1 DEF Progress, Lids
    <3>2. Progress(l)' = Old[l]
      BY <2>2, <1>1, <1>2, NumLidsAssumption DEF Progress, Lids
    <3> QED BY <3>1, <3>2
  <2> QED BY <2>1, <2>2, <1>1 DEF Lids
<1>3. ASSUME NEW l \in Lids, ~shrunk[l] PROVE StageInv(l)'
  <2>1. StageInv(l) /\ Progress(l)' = Progress(l)
    BY <1>3, <1>p DEF DecodeInv
  <2>2. ~Fresh(Old) => \A p \in Plane : dec_data'[l][p] = IF p < Old[l] THEN 1 ELSE 0
    BY <2>1 DEF StageInv, FinishStage
  <2>3. Finished(l)' =>
          \A p \in Plane :
            IF Fresh(Old) THEN dec_data'[l][p] = IF p < New[l] THEN 1 ELSE 0
            ELSE p \in dec_delta'[l] <=> Old[l] <= p /\ p < New[l]
    <3> SUFFICES ASSUME l <= lid, NEW p \in Plane
                 PROVE  IF Fresh(Old) THEN dec_data'[l][p] = IF p < New[l] THEN 1 ELSE 0
                        ELSE p \in dec_delta'[l] <=> Old[l] <= p /\ p < New[l]
      BY <1>f
    <3>1. CASE l = lid
      <4>1. bit = New[l]
        BY <3>1, <1>3, <1>b
      <4>2. p \in loaded_bits <=> Old[l] <= p /\ p < New[l]
        BY <2>1, <3>1, <4>1, <1>1 DEF StageInv
      <4>3. Fresh(Old) => Old[l] = 0 /\ 0 <= p
        BY DEF Fresh, allzero, Plane
      <4>4. Fresh(Old) => dec_data'[l][p] = IF p \in loaded_bits THEN 1 ELSE 0
        BY <3>1 DEF FinishStage, TypeOK
      <4>5. ~Fresh(Old) => dec_delta'[l] = loaded_bits
        BY <3>1 DEF FinishStage, TypeOK
      <4> QED BY <4>2, <4>3, <4>4, <4>5
    <3>2. CASE l # lid
      <4>1. Finished(l)
        BY <3>2, <1>1 DEF Finished, Lids
      <4>2. Fresh(Old) => dec_data'[l] = dec_data[l]
        BY <3>2 DEF FinishStage, TypeOK
      <4>3. ~Fresh(Old) => dec_delta'[l] = dec_delta[l]
        BY <3>2 DEF FinishStage, TypeOK
      <4> QED BY <2>1, <4>1, <4>2, <4>3 DEF StageInv
    <3> QED BY <3>1, <3>2
  <2>4. pc' = "planes" /\ l = lid' =>
          \A p \in Plane : p \in loaded_bits' <=> Old[l] <= p /\ p < bit'
    BY <1>2, <1>o DEF Plane
  <2> QED BY <2>1, <2>2, <2>3, <2>4, <1>1, <1>2 DEF StageInv
<1>4. ASSUME ~regressed PROVE AccountInv'
  <2>1. AccountInv /\ \A l \in Lids : Progress(l)' = Progress(l)
    BY <1>4, <1>p DEF DecodeInv, AccountInv
  <2> QED BY <2>1, <1>1, <1>2 DEF AccountInv
<1>5. ASSUME Fresh(Old)
      PROVE  /\ \A l \in Lids : ~shrunk[l]
             /\ \A p \in Plane : p \in anchor' <=> p < New[0]
  <2>1. \A l \in Lids : ~shrunk[l]
    BY <1>1, <1>5 DEF DecodeInv
  <2>2. CASE lid = 0
    <3>1. StageInv(0) /\ bit = New[0] /\ Old[0] = 0
      BY <2>1, <2>2, <1>1, <1>5, <1>b, LidsNonEmpty DEF DecodeInv, Fresh, allzero
    <3>2. anchor' = loaded_bits
      BY <2>2, <1>5 DEF FinishStage
    <3> QED BY <2>1, <2>2, <3>1, <3>2, <1>1 DEF StageInv, Plane
  <2>3. CASE lid # 0
    <3>1. Finished(0) /\ anchor' = anchor
      BY <2>3, <1>1, <1>5 DEF Finished, FinishStage, Lids
    <3> QED BY <2>1, <3>1, <1>1, <1>5 DEF DecodeInv
  <2> QED BY <2>2, <2>3
<1> QED BY <1>1, <1>2, <1>3, <1>4, <1>5 DEF DecodeInv

\* Merging what was decoded keeps the decoder invariant.
LEMMA MergeDecode ==
  ASSUME TypeOK, TypeOK', DecodeInv, Merge
  PROVE  DecodeInv'
<1>o. Old \in [Lids -> 0 .. Planes] /\ New \in [Lids -> 0 .. Planes]
  BY OldNewType
<1>1. /\ pc = "merge" /\ pc' = "idle" /\ Old' = New
      /\ UNCHANGED <<last_bit, second_last_bit, wrong, paid, access_log,
                     shrunk, regressed>>
  BY DEF Merge, Old, New, accountVars
<1>p. \A l \in Lids : /\ Progress(l) = New[l] /\ Progress(l)' = New[l]
                      /\ Finished(l) /\ ~Finished(l)'
  BY <1>1 DEF Progress, Finished
<1>2. ASSUME NEW l \in Lids, ~shrunk[l] PROVE StageInv(l)'
  <2>1. StageInv(l)
    BY <1>2 DEF DecodeInv
  <2>2. ASSUME NEW p \in Plane PROVE dec_data'[l][p] = IF p < New[l] THEN 1 ELSE 0
    <3>1. CASE Fresh(Old)
      BY <2>1, <3>1, <1>p DEF StageInv, Merge
    <3>2. CASE ~Fresh(Old)
      <4>1. dec_data'[l][p] = dec_data[l][p] + (IF p \in dec_delta[l] THEN 1 ELSE 0)
        BY <3>2 DEF Merge
      <4>2. dec_data[l][p] = IF p < Old[l] THEN 1 ELSE 0
        BY <2>1, <3>2 DEF StageInv
      <4>3. p \in dec_delta[l] <=> Old[l] <= p /\ p < New[l]
        BY <2>1, <3>2, <1>p DEF StageInv
      <4>4. Old[l] <= New[l]
        BY <2>1, <1>1, <1>p DEF StageInv
      <4> QED BY <4>1, <4>2, <4>3, <4>4, <1>o DEF Plane
    <3> QED BY <3>1, <3>2
  <2> QED BY <2>1, <2>2, <1>1, <1>p DEF StageInv
<1>3. ASSUME ~regressed PROVE AccountInv'
  <2>1. AccountInv
    BY <1>3 DEF DecodeInv
  <2>2. ~allzero(New)
    <3>1. \A l \in Lids : Old[l] <= New[l]
      BY <2>1, <1>1, <1>p DEF AccountInv, DecodeInv, StageInv
    <3>2. SUFFICES ASSUME \A l \in Lids : New[l] = 0 PROVE FALSE
      BY DEF allzero
    <3>3. \A l \in Lids : Old[l] = New[l]
      BY <3>1, <3>2, <1>o
    <3>4. Old = New
      BY <3>3, <1>o
    <3> QED BY <3>4, <1>1 DEF DecodeInv
  <2> QED BY <2>1, <2>2, <1>1, <1>p DEF AccountInv
<1> QED BY <1>1, <1>2, <1>3 DEF DecodeInv

\* The decoder's inductive invariant.
THEOREM DecodeInvariant == Spec => []DecodeInv
<1>1. TypeOK /\ TypeOK' /\ DecodeInv /\ [Next]_vars => DecodeInv'
  <2> SUFFICES ASSUME TypeOK, TypeOK', DecodeInv, [Next]_vars PROVE DecodeInv'
    OBVIOUS
  <2>1. CASE UNCHANGED vars
    BY <2>1 DEF vars, decodeVars, accountVars, DecodeInv, StageInv, AccountInv,
                Progress, Finished, Old, New, Fresh, allzero
  <2> QED BY <2>1, CallDecode, LoadPlaneDecode, FinishStageDecode, MergeDecode DEF Next
<1> QED BY <1>1, InitDecode, TypeCorrect, PTL DEF Spec

\* Between calls, a stage that was never shrunk since the last fresh decode
\* holds exactly the planes its target selected, once each and well decoded.
THEOREM SelectionCorrect == Spec => []ExactSelection
<1>1. DecodeInv => ExactSelection
  BY DEF DecodeInv, StageInv, ExactSelection
<1> QED BY <1>1, DecodeInvariant, PTL

\* As long as nothing shrank, exactly the accessed blocks are counted, once.
THEOREM AccountingCorrect == Spec => []RetrievedIsAccessed
<1>1. DecodeInv => RetrievedIsAccessed
  <2> SUFFICES ASSUME AccountInv, NEW k \in Blocks
               PROVE  paid[k] = IF k \in access_log THEN 1 ELSE 0
    BY DEF DecodeInv, RetrievedIsAccessed
  <2> QED BY DEF Blocks, AccountInv
<1> QED BY <1>1, DecodeInvariant, PTL

\* As long as nothing shrank, the accessed planes are those of the last target.
THEOREM AccessCorrect == Spec => []NothingBeyondTarget
<1>1. DecodeInv => NothingBeyondTarget
  BY DEF DecodeInv, AccountInv, NothingBeyondTarget, Progress
<1> QED BY <1>1, DecodeInvariant, PTL

\* A reconstruction from scratch ends in its own selection, whatever came before.
THEOREM FreshCorrect == Spec => FreshIsClean
<1>1. TypeOK /\ DecodeInv /\ [Next]_vars =>
        [(pc = "merge" /\ Fresh(Old))
           => /\ \A l \in Lids, p \in Plane :
                   dec_data'[l][p] = IF p < New[l] THEN 1 ELSE 0
              /\ anchor' = {p \in Plane : p < New[0]}
              /\ wrong' = {}]_vars
  <2> SUFFICES ASSUME TypeOK, DecodeInv, Next, pc = "merge", Fresh(Old)
               PROVE  /\ \A l \in Lids, p \in Plane :
                           dec_data'[l][p] = IF p < New[l] THEN 1 ELSE 0
                      /\ anchor' = {p \in Plane : p < New[0]}
                      /\ wrong' = {}
    OBVIOUS
  <2>1. UNCHANGED <<dec_data, anchor, wrong>>
    BY DEF Next, Call, LoadPlane, FinishStage, Merge
  <2>2. \A l \in Lids : StageInv(l) /\ Finished(l)
    BY DEF DecodeInv, Finished
  <2>3. \A l \in Lids, p \in Plane :
          dec_data[l][p] = (IF p < New[l] THEN 1 ELSE 0) /\ <<l, p>> \notin wrong
    BY <2>2 DEF StageInv
  <2>4. wrong = {}
    BY <2>3 DEF TypeOK
  <2>5. anchor = {p \in Plane : p < New[0]}
    <3>1. \A p \in Plane : p \in anchor <=> p < New[0]
      BY <2>2, LidsNonEmpty DEF DecodeInv
    <3> QED BY <3>1 DEF TypeOK
  <2> QED BY <2>1, <2>3, <2>4, <2>5
<1> QED BY <1>1, TypeCorrect, DecodeInvariant, PTL DEF Spec, FreshIsClean

-----------------------------------------------------------------------------

\* What the store sees between calls, and that a stage's planes are fetched as
\* far as the stage has got.
LEMMA SeenByStore ==
  ASSUME TypeOK, DecodeInv, ~regressed
  PROVE  /\ pc = "idle" \/ ~Fresh(Old) =>
              HeldPlanes = [l \in Lids |-> {p \in Plane : p < Old[l]}]
         /\ \A l \in Lids, p \in Plane : <<l, p>> \in FetchedPlanes <=> p < Progress(l)
<1>1. AccountInv /\ \A l \in Lids : StageInv(l)
  BY DEF DecodeInv, AccountInv
<1>2. pc = "idle" \/ ~Fresh(Old) =>
        HeldPlanes = [l \in Lids |-> {p \in Plane : p < Old[l]}]
  <2> SUFFICES ASSUME pc = "idle" \/ ~Fresh(Old), NEW l \in Lids
               PROVE  {p \in Plane : dec_data[l][p] = 1} = {p \in Plane : p < Old[l]}
    BY DEF HeldPlanes
  <2> QED BY <1>1 DEF StageInv
<1>3. ASSUME NEW l \in Lids, NEW p \in Plane
      PROVE  <<l, p>> \in FetchedPlanes <=> p < Progress(l)
  BY <1>1 DEF FetchedPlanes, AccountInv
<1> QED BY <1>2, <1>3

\* The decoder implements incremental reconstruction: up to the first call that
\* shrinks a stage, planes are fetched once each, when wanted, and the
\* reconstruction goes from one complete selection to the next.
THEOREM Refinement == Spec => ImplementsStore
<1>1. Init => Store!Init
  <2> SUFFICES ASSUME Init PROVE Store!Init
    OBVIOUS
  <2>1. Wanted = [l \in Lids |-> 0]
    BY DEF Init, Wanted, Old, calcBitgroup
  <2>2. HeldPlanes = [l \in Lids |-> {}]
    BY DEF Init, HeldPlanes
  <2>3. FetchedPlanes = {}
    BY BlocksType DEF Init, FetchedPlanes
  <2> QED BY <2>1, <2>2, <2>3 DEF Init, Store!Init, Store!Nothing, Store!Lids, Lids
<1>2. TypeOK /\ TypeOK' /\ DecodeInv /\ DecodeInv' /\ ~regressed /\ [Next]_vars
        => [Store!Next]_(Store!vars)
  <2> SUFFICES ASSUME TypeOK, TypeOK', DecodeInv, DecodeInv', ~regressed, [Next]_vars
               PROVE  [Store!Next]_(Store!vars)
    OBVIOUS
  <2>o. Old \in [Lids -> 0 .. Planes] /\ New \in [Lids -> 0 .. Planes]
    BY OldNewType
  <2>l. Store!Lids = Lids /\ Store!Plane = Plane
    BY DEF Store!Lids, Store!Plane, Lids, Plane
  <2>f. \A l \in Lids, p \in Plane : <<l, p>> \in FetchedPlanes <=> p < Progress(l)
    BY SeenByStore
  <2>1. ASSUME NEW t \in Targets \cup {0}, Call(t) PROVE [Store!Next]_(Store!vars)
    <3> DEFINE wanted == calcBitgroup(t)
    <3>1. pc = "idle" /\ Wanted = Old
      BY <2>1 DEF Call, Wanted
    <3>2. FetchedPlanes' = FetchedPlanes
      <4>1. PICK load \in BOOLEAN : Loadcfg(load)
        BY <2>1 DEF Call, Fresh, allzero
      <4>2. \A l \in Lids, p \in Plane : paid'[BitBlock(l, p)] = paid[BitBlock(l, p)]
        BY <4>1, BlocksType, BlocksDistinct DEF Loadcfg, TypeOK
      <4> QED BY <4>2 DEF FetchedPlanes
    <3>3. HeldPlanes = [l \in Lids |-> {p \in Plane : p < Old[l]}]
      BY <3>1, SeenByStore
    <3>4. regressed' = \E l \in Lids : wanted[l] < Old[l]
      BY <2>1 DEF Call
    <3>5. wanted \in {Selected[u] : u \in Targets} \cup {Store!Nothing}
      BY <2>l DEF calcBitgroup, Store!Nothing
    <3>6. Wanted' = wanted /\ HeldPlanes' = HeldPlanes
      <4>1. CASE wanted = Old
        <5>1. pc' = "idle" /\ last_EB' = t /\ dec_data' = dec_data
          BY <2>1, <3>1, <4>1 DEF Call
        <5>2. Wanted' = wanted
          BY <5>1 DEF Wanted, Old
        <5>3. HeldPlanes' = HeldPlanes
          BY <5>1, <3>1 DEF HeldPlanes
        <5> QED BY <5>2, <5>3
      <4>2. CASE wanted # Old
        <5>1. /\ pc' = "planes" /\ Old' = Old /\ New' = wanted
              /\ dec_data' = dec_data /\ Fresh(Old)' = Fresh(Old)
          BY <2>1, <3>1, <4>2 DEF Call, Old, New, Fresh, allzero
        <5>2. Wanted' = wanted
          BY <5>1 DEF Wanted
        <5>3. HeldPlanes' = HeldPlanes
          <6>1. CASE Fresh(Old)
            <7>1. \A l \in Lids : {p \in Plane : p < Old[l]} = {}
              BY <6>1 DEF Fresh, allzero, Plane
            <7>2. HeldPlanes' = [l \in Lids |-> {}]
              BY <5>1, <6>1 DEF HeldPlanes
            <7> QED BY <3>3, <7>1, <7>2
          <6>2. CASE ~Fresh(Old)
            BY <5>1, <3>1, <6>2 DEF HeldPlanes
          <6> QED BY <6>1, <6>2
        <5> QED BY <5>2, <5>3
      <4> QED BY <4>1, <4>2
    <3>7. Store!Ask(wanted)
      BY <2>l, <3>1, <3>2, <3>3, <3>4, <3>6 DEF Store!Ask, Store!Complete
    <3> QED BY <3>5, <3>7 DEF Store!Next
  <2>2. ASSUME LoadPlane PROVE [Store!Next]_(Store!vars)
    <3>1. /\ pc = "planes" /\ lid \in Lids /\ bit \in Plane /\ bit < New[lid]
          /\ pc' = pc /\ Old' = Old /\ New' = New /\ dec_data' = dec_data
          /\ Fresh(Old)' = Fresh(Old) /\ regressed' = regressed
      BY <2>2, <2>o, PlanesAssumption
         DEF LoadPlane, Old, New, Fresh, allzero, TypeOK, Plane
    <3>2. HeldPlanes' = HeldPlanes /\ Wanted' = Wanted /\ Wanted = New
      BY <3>1 DEF HeldPlanes, Wanted
    <3>3. <<lid, bit>> \notin FetchedPlanes
      BY <2>f, <3>1 DEF Progress, Lids, Plane
    <3>4. FetchedPlanes' = FetchedPlanes \cup {<<lid, bit>>}
      <4>1. \A l \in Lids, p \in Plane :
              paid'[BitBlock(l, p)] = IF l = lid /\ p = bit THEN paid[BitBlock(l, p)] + 1
                                      ELSE paid[BitBlock(l, p)]
        BY <2>2, <3>1, BlocksType, BlocksDistinct DEF LoadPlane, TypeOK
      <4>2. paid[BitBlock(lid, bit)] = 0
        <5>1. AccountInv /\ Progress(lid) = bit
          BY <3>1 DEF DecodeInv, Progress, Lids
        <5> QED BY <5>1, <3>1 DEF AccountInv, Plane
      <4>3. \A l \in Lids, p \in Plane :
              <<l, p>> \in FetchedPlanes'
                <=> <<l, p>> \in FetchedPlanes \/ (l = lid /\ p = bit)
        BY <4>1, <4>2 DEF FetchedPlanes
      <4>4. FetchedPlanes \subseteq Lids \X Plane /\ FetchedPlanes' \subseteq Lids \X Plane
        BY DEF FetchedPlanes
      <4> QED BY <4>3, <4>4, <3>1
    <3>5. Store!Fetch(lid, bit)
      BY <3>1, <3>2, <3>3, <3>4 DEF Store!Fetch
    <3> QED BY <2>l, <3>1, <3>5 DEF Store!Next
  <2>3. ASSUME FinishStage PROVE [Store!Next]_(Store!vars)
    <3>1. /\ pc # "idle" /\ pc' # "idle" /\ Old' = Old /\ New' = New /\ paid' = paid
          /\ Fresh(Old)' = Fresh(Old) /\ (~Fresh(Old) => dec_data' = dec_data)
          /\ regressed' = regressed
      BY <2>3 DEF FinishStage, Old, New, Fresh, allzero, accountVars
    <3>2. HeldPlanes' = HeldPlanes
      BY <3>1 DEF HeldPlanes
    <3>3. FetchedPlanes' = FetchedPlanes /\ Wanted' = Wanted
      BY <3>1 DEF FetchedPlanes, Wanted
    <3> QED BY <3>1, <3>2, <3>3 DEF Store!vars
  <2>4. ASSUME Merge PROVE [Store!Next]_(Store!vars)
    <3>1. /\ pc = "merge" /\ pc' = "idle" /\ Old' = New /\ paid' = paid
          /\ regressed' = regressed
      BY <2>4 DEF Merge, Old, New, accountVars
    <3>2. Wanted = New /\ Wanted' = New /\ FetchedPlanes' = FetchedPlanes
      BY <3>1 DEF Wanted, FetchedPlanes
    <3>3. HeldPlanes' = [l \in Lids |-> {p \in Plane : p < New[l]}]
      <4>1. /\ (pc = "idle" \/ ~Fresh(Old))' =>
                 HeldPlanes' = [l \in Lids |-> {p \in Plane : p < Old'[l]}]
        <5>1. AccountInv' /\ \A l \in Lids : StageInv(l)'
          BY <3>1 DEF DecodeInv, AccountInv
        <5>2. HeldPlanes' = [l \in Lids |-> {p \in Plane : dec_data'[l][p] = 1}]
          BY <3>1 DEF HeldPlanes
        <5>3. \A l \in Lids : {p \in Plane : dec_data'[l][p] = 1}
                               = {p \in Plane : p < Old'[l]}
          BY <5>1, <3>1 DEF StageInv
        <5> QED BY <5>2, <5>3
      <4> QED BY <4>1, <3>1
    <3>4. \A l \in Lids : \A p \in Plane : p < New[l] => <<l, p>> \in FetchedPlanes
      BY <2>f, <3>1 DEF Progress
    <3>5. Store!Deliver
      BY <2>l, <3>1, <3>2, <3>3, <3>4 DEF Store!Deliver, Store!Complete
    <3> QED BY <3>5 DEF Store!Next
  <2>5. CASE UNCHANGED vars
    <3>1. HeldPlanes' = HeldPlanes /\ FetchedPlanes' = FetchedPlanes /\ Wanted' = Wanted
      BY <2>5 DEF vars, decodeVars, accountVars, HeldPlanes, FetchedPlanes, Wanted,
                  Fresh, allzero, Old, New
    <3> QED BY <2>5, <3>1 DEF vars, Store!vars
  <2> QED BY <2>1, <2>2, <2>3, <2>4, <2>5 DEF Next
<1>3. regressed /\ [Next]_vars => regressed' /\ [Store!Next]_(Store!vars)
  <2> SUFFICES ASSUME regressed, [Next]_vars PROVE regressed' /\ [Store!Next]_(Store!vars)
    OBVIOUS
  <2>1. regressed'
    BY DEF Next, Call, LoadPlane, FinishStage, Merge, vars
  <2> QED BY <2>1 DEF Store!Next, Store!NoPromise
<1> QED BY <1>1, <1>2, <1>3, TypeCorrect, DecodeInvariant, PTL
        DEF Spec, ImplementsStore, Store!Spec
=============================================================================
