----------------------------- MODULE QoiRetrieval -----------------------------
(***************************************************************************)
(* Retrieval under a tolerance on a derived quantity (src/halfing_*.cpp):  *)
(* reconstruct every variable at its current error bound, estimate from    *)
(* the reconstructed values how far the quantity may be off, and as long   *)
(* as the largest estimate exceeds the tolerance divide all bounds by 1.5  *)
(* until the element with that estimate would be within it.                *)
(*                                                                         *)
(* Three of the quantities are rational and are modelled: T = P / D        *)
(* (without the factor 1 / R on both sides of each comparison), V_TOT2,    *)
(* the sum of the squares of three velocities, and the product XiXj.  Data *)
(* are integers, errors come in units small enough for every bound, and    *)
(* estimates are fractions, so that nothing is rounded.                    *)
(*                                                                         *)
(* Each variable has one codec object, and an iteration updates what that  *)
(* object holds.  The codec is what its memory allows: only a decode from  *)
(* scratch, or an update that leaves nothing behind, has the precision     *)
(* asked for (ProgressiveDecode tells when).                               *)
(***************************************************************************)
EXTENDS Integers, FiniteSetsExt

CONSTANTS
  Data,          \* per quantity: the values an element's variables may have
  NumElements,   \* n
  Units,         \* the bounds' units, relative to the first bound, after each division
  FirstBound,    \* per quantity and variable: targetEBs of the first iteration
  Tolerance,     \* per quantity: tau, as a fraction <<numerator, denominator>>
  Finest,        \* per quantity and variable: the codec's finest bound, in units
  Errors(_),     \* the errors of a decode from scratch at this precision
  Strays,        \* the errors of other updates, and of memory nothing was written to
  Shrinks,       \* bound on the divisions by 1.5
  max_iter       \* iterations of the loop

Quantities == {"T", "V_TOT2", "XiXj"}
Elements   == 1 .. NumElements
Vars(q)    == IF q = "V_TOT2" THEN 1 .. 3 ELSE 1 .. 2

ASSUME DataAssumption == \A q \in Quantities : Data[q] \subseteq [Vars(q) -> Int]

ASSUME BoundsAssumption ==
  /\ NumElements \in Nat \ {0} /\ Shrinks \in Nat /\ max_iter \in Nat
  /\ \A q \in Quantities :
       /\ FirstBound[q] \in [Vars(q) -> Nat] /\ Finest[q] \in [Vars(q) -> Nat]
       /\ Tolerance[q] \in (Nat \ {0}) \X (Nat \ {0})

\* Three units after a division are two before it.
ASSUME UnitsAssumption ==
  /\ Units \in [0 .. Shrinks -> Nat]
  /\ \A k \in 1 .. Shrinks : 3 * Units[k] = 2 * Units[k - 1]

VARIABLES
  quantity,        \* which of the programs runs
  data,            \* per element: the original variables
  mask,            \* psz_mask.bin: the elements that are not at rest
  shrunk,          \* how often the bounds were divided by 1.5
  iter,            \* iterations made
  asked,           \* what shrunk was when the variables were last reconstructed
  holds,           \* history: what each variable's codec has decoded
  dec,             \* per element: the reconstructed variables
  max_est_error,   \* the largest estimate at them, as the summary prints it
  tolerance_met

vars == <<quantity, data, mask, shrunk, iter, asked, holds, dec, max_est_error,
          tolerance_met>>

-----------------------------------------------------------------------------
(* Fractions with a positive denominator *)

Abs(n)        == IF n < 0 THEN -n ELSE n
Exceeds(a, b) == a[1] * b[2] > b[1] * a[2]

\* The distance between two fractions whose denominators may be negative.
Distance(a, b) == <<Abs(a[1] * b[2] - b[1] * a[2]), Abs(a[2] * b[2])>>

-----------------------------------------------------------------------------
(* The bounds (qoi_utils.hpp) *)

\* ebs[v - 1] after k divisions by 1.5.
Bound(v, k) == FirstBound[quantity][v] * Units[k]

\* Mutant: the second-order term of the square is dropped.
compute_bound_x_square_Linear(x, eb) == 2 * Abs(x) * eb

compute_bound_x_square(x, eb) == 2 * Abs(x) * eb + eb * eb

compute_bound_multiplication(x, y, eb_x, eb_y) ==
  Abs(x) * eb_y + Abs(y) * eb_x + eb_x * eb_y

compute_bound_division(x, y, eb_x, eb_y) ==
  IF eb_y < Abs(y)
    THEN <<Abs(x) * eb_y + Abs(y) * eb_x, Abs(y) * (Abs(y) - eb_y)>>
    ELSE <<0, 1>>

\* The quantities, and their estimated errors at decoded variables d.
compute_T(d)     == <<d[1], d[2]>>
compute_VTOT2(d) == d[1] * d[1] + d[2] * d[2] + d[3] * d[3]
XiXj(d)          == d[1] * d[2]

e_T(d, k)      == compute_bound_division(d[1], d[2], Bound(1, k), Bound(2, k))
e_V_TOT2(d, k) == compute_bound_x_square(d[1], Bound(1, k))
                    + compute_bound_x_square(d[2], Bound(2, k))
                    + compute_bound_x_square(d[3], Bound(3, k))
e_XiXj(d, k)   == compute_bound_multiplication(d[1], d[2], Bound(1, k), Bound(2, k))

QoI(d) ==
  CASE quantity = "T"      -> compute_T(d)
    [] quantity = "V_TOT2" -> <<compute_VTOT2(d), 1>>
    [] quantity = "XiXj"   -> <<XiXj(d), 1>>

Estimate(d, k) ==
  CASE quantity = "T"      -> e_T(d, k)
    [] quantity = "V_TOT2" -> <<e_V_TOT2(d, k), 1>>
    [] quantity = "XiXj"   -> <<e_XiXj(d, k), 1>>

-----------------------------------------------------------------------------
(* The codecs *)

\* Mutant: an element is at rest when it is in the plane of the first two velocities.
psz_mask_Plane(ds) ==
  [i \in Elements |-> quantity = "V_TOT2" => ds[i][1] * ds[i][1] + ds[i][2] * ds[i][2] # 0]

\* What the refactoring program writes: an element at rest is not estimated, and set to zero.
psz_mask(ds) == [i \in Elements |-> quantity = "V_TOT2" => compute_VTOT2(ds[i]) # 0]

\* The precision of a decode from scratch when variable v is asked for at Bound(v, k).
Precision(v, k) ==
  IF Bound(v, k) < Finest[quantity][v] THEN Finest[quantity][v] ELSE Bound(v, k)

\* No plane yet, all and only what a decode from scratch would have given, or something else.
Holdings == {"nothing", "exact", "other"}

\* What the codecs may hold after a call.  A target no plane is needed for decodes nothing,
\* and the first that needs one is decoded from scratch.  An update is as good as that if
\* what it builds on was, it takes no plane back and adds none to the anchor's stage:
\* element 1 then is as precise as it would have been.
MayHold(h) ==
  \A v \in Vars(quantity) :
    CASE h[v] = "nothing" -> TRUE
      [] h[v] = "other"   -> holds[v] # "nothing"
      [] h[v] = "exact"   ->
           \/ holds[v] = "nothing"
           \/ /\ holds[v] = "exact"
              /\ mask[1] => Abs(dec[1][v] - data[1][v]) <= Precision(v, shrunk)

\* The errors element i may come back with.  Nothing is written where nothing is decoded,
\* and an update never changes the anchor; the elements predicted from it miss what its
\* delta would have given them, and any may have a plane twice.
ErrorsAt(i, v, h) ==
  LET untouched == IF holds[v] = "nothing" THEN h[v] = "nothing" ELSE i = 1
  IN  IF untouched THEN {dec[i][v] - data[i][v]}
      ELSE IF h[v] = "exact" THEN Errors(Precision(v, shrunk))
      ELSE Strays

\* What element i can be when each variable v has one of the errors in errors[v].
Values(i, errors) ==
  LET vs == Vars(quantity)
  IN  {[v \in vs |-> data[i][v] + e[v]] :
         e \in {f \in [vs -> UNION {errors[v] : v \in vs}] : \A v \in vs : f[v] \in errors[v]}}

\* What element i may come back as.
Decoded(i, h) ==
  IF mask[i] THEN Values(i, [v \in Vars(quantity) |-> ErrorsAt(i, v, h)])
  ELSE {[v \in Vars(quantity) |-> 0]}

\* Nothing more is assumed of a codec's errors.
ASSUME ErrorsAssumption ==
  /\ Strays \subseteq Int
  /\ \A q \in Quantities : \A v \in Vars(q), k \in 0 .. Shrinks :
       \A b \in {FirstBound[q][v] * Units[k], Finest[q][v]} : Errors(b) \subseteq Int

-----------------------------------------------------------------------------
(* The loop *)

Init ==
  /\ quantity \in Quantities /\ data \in [Elements -> Data[quantity]]
  /\ mask = psz_mask(data)
  /\ shrunk = 0 /\ iter = 0 /\ asked = 0 /\ tolerance_met = FALSE
  /\ holds = [v \in Vars(quantity) |-> "nothing"]
  /\ max_est_error = <<0, 1>>
  /\ LET Memory(i) == Values(i, [v \in Vars(quantity) |-> Strays])
     IN  dec \in [Elements -> UNION {Memory(i) : i \in Elements}]
           /\ \A i \in Elements : dec[i] \in Memory(i)

error_est(ds, k) ==
  [i \in Elements |-> IF mask[i] THEN Estimate(ds[i], k) ELSE <<0, 1>>]

\* Mutant: the shrunken bounds are not written back to ebs.
Shrunk_NotWritten(d, k) == shrunk

\* while(estimate_error > tau): the first k after shrunk that is good for d.  One more
\* than Shrinks takes the loop out of the model.
Shrunk(d, k) ==
  Min({j \in k + 1 .. Shrinks : ~Exceeds(Estimate(d, j), Tolerance[quantity])}
        \cup {Shrinks + 1})

\* i is max_index: the first element with the largest estimate.
IsWorst(i, est) ==
  \A j \in Elements : ~Exceeds(est[j], est[i]) /\ (j < i => Exceeds(est[i], est[j]))

\* halfing_error_*_uniform() over the reconstruction ds.
Halve(ds) ==
  LET est == error_est(ds, shrunk)
  IN  \E i \in Elements :
        /\ IsWorst(i, est)
        /\ max_est_error' = est[i]
        /\ IF Exceeds(est[i], Tolerance[quantity])
             THEN shrunk' = Shrunk(ds[i], shrunk) /\ UNCHANGED tolerance_met
             ELSE tolerance_met' = TRUE /\ UNCHANGED shrunk

\* One iteration: every variable is reconstructed, then the estimate is made.
Iterate ==
  /\ ~tolerance_met /\ iter < max_iter /\ shrunk <= Shrinks
  /\ iter' = iter + 1
  /\ asked' = shrunk
  /\ \E h \in [Vars(quantity) -> Holdings] :
       /\ MayHold(h)
       /\ holds' = h
       /\ \E decoded \in {[i \in Elements |-> Decoded(i, h)]} :
            \E ds \in [Elements -> UNION {decoded[i] : i \in Elements}] :
              /\ \A i \in Elements : ds[i] \in decoded[i]
              /\ dec' = ds
              /\ Halve(ds)
  /\ UNCHANGED <<quantity, data, mask>>

Next == Iterate

Spec == Init /\ [][Next]_vars /\ WF_vars(Next)

-----------------------------------------------------------------------------
(* Properties *)

ActualError(i) == Distance(QoI(dec[i]), QoI(data[i]))

\* The estimate at an element is meant to hold: it is masked, or the codecs kept the
\* bounds they were asked for there, and the divisor's bound is below the divisor.
Trusted(i) ==
  mask[i] =>
    /\ \A v \in Vars(quantity) : Abs(data[i][v] - dec[i][v]) <= Bound(v, asked)
    /\ quantity = "T" => Bound(2, asked) < Abs(dec[i][2])

\* When the loop ends with the tolerance met, the quantity computed from the
\* reconstructed variables is within the tolerance of the one computed from the
\* originals, at every element whose estimate can be trusted, masked ones included:
\* the estimates, which never see the originals, are bounds of the true error.
ToleranceIsReal ==
  tolerance_met =>
    \A i \in Elements : Trusted(i) => ~Exceeds(ActualError(i), Tolerance[quantity])

\* The summary the programs print does not say how the loop ended, but it can be read
\* off max_est_error, also when the iterations ran out: that is within the tolerance
\* exactly if the tolerance was met, and covers the true error of all trusted elements,
\* although the bounds were divided again after the last reconstruction.
ReportIsHonest ==
  iter > 0 =>
    /\ tolerance_met <=> ~Exceeds(max_est_error, Tolerance[quantity])
    /\ \A i \in Elements : Trusted(i) => ~Exceeds(ActualError(i), max_est_error)

\* What the codecs hold after an iteration: the anchor what one of the calls gave it, and
\* the other elements, of a codec that left nothing behind, the precision last asked for.
MemoryInv ==
  \A v \in Vars(quantity) :
    /\ mask[1] /\ holds[v] # "nothing" =>
         \E k \in 0 .. asked : dec[1][v] - data[1][v] \in Errors(Precision(v, k))
    /\ holds[v] = "exact" =>
         \A i \in Elements \ {1} :
           mask[i] => dec[i][v] - data[i][v] \in Errors(Precision(v, asked))

\* The inductive invariant of the loop: the last reconstruction, its largest estimate at
\* the bounds it was asked for, and bounds that every failed iteration has divided.
LoopInv ==
  /\ quantity \in Quantities /\ data \in [Elements -> Data[quantity]]
  /\ mask = psz_mask(data)
  /\ shrunk \in 0 .. Shrinks + 1 /\ asked \in 0 .. Shrinks /\ asked <= shrunk
  /\ iter \in Nat /\ (IF tolerance_met THEN iter - 1 ELSE iter) <= shrunk
  /\ iter = 0 => shrunk = 0 /\ ~tolerance_met
  /\ holds \in [Vars(quantity) -> Holdings]
  /\ iter = 0 => \A v \in Vars(quantity) : holds[v] = "nothing"
  /\ \A i \in Elements : dec[i] \in [Vars(quantity) -> Int]
  /\ iter > 0 =>
       /\ MemoryInv
       /\ max_est_error \in Nat \X (Nat \ {0})
       /\ tolerance_met <=> ~Exceeds(max_est_error, Tolerance[quantity])
       /\ \A i \in Elements :
            /\ ~mask[i] => \A v \in Vars(quantity) : dec[i][v] = 0
            /\ ~Exceeds(error_est(dec, asked)[i], max_est_error)

\* No iteration is spent on bounds that were not improved: the loop ends with the
\* tolerance met, or needs more divisions than the model has, or has divided its bounds
\* in each of the iterations it ran out of.
EveryIterationCounts ==
  <>(\/ tolerance_met
     \/ shrunk > Shrinks
     \/ iter = max_iter /\ shrunk >= max_iter)
=============================================================================
