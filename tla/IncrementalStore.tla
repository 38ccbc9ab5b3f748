--------------------------- MODULE IncrementalStore ---------------------------
(***************************************************************************)
(* What incremental reconstruction promises, without the decoder's stage   *)
(* loop, contexts or deltas: a caller asks for ever larger selections of   *)
(* bitplanes, the missing planes are fetched one at a time and once each,  *)
(* and the reconstruction changes from one complete selection to the next. *)
(* The promise ends with the first request that wants fewer planes of some *)
(* stage than the request before it.                                       *)
(***************************************************************************)
EXTENDS Integers

CONSTANTS NumLids, Planes, Targets, Selected

VARIABLES
  planes,   \* per stage: the planes the reconstruction holds
  fetched,  \* the planes fetched so far
  goal,     \* planes per stage the current request wants
  broken    \* a request wanted fewer planes of some stage

vars == <<planes, fetched, goal, broken>>

Lids  == 0 .. NumLids - 1
Plane == 0 .. Planes - 1

Complete(g) == [l \in Lids |-> {p \in Plane : p < g[l]}]

Nothing == [l \in Lids |-> 0]

Init ==
  /\ planes = [l \in Lids |-> {}]
  /\ fetched = {}
  /\ goal = Nothing
  /\ broken = FALSE

\* A request is taken when the previous one is delivered.
Ask(wanted) ==
  /\ planes = Complete(goal)
  /\ goal' = wanted
  /\ broken' = \E l \in Lids : wanted[l] < goal[l]
  /\ UNCHANGED <<planes, fetched>>

Fetch(l, p) ==
  /\ p < goal[l]
  /\ <<l, p>> \notin fetched
  /\ fetched' = fetched \cup {<<l, p>>}
  /\ UNCHANGED <<planes, goal, broken>>

Deliver ==
  /\ \A l \in Lids : \A p \in Complete(goal)[l] : <<l, p>> \in fetched
  /\ planes' = Complete(goal)
  /\ UNCHANGED <<fetched, goal, broken>>

NoPromise == broken /\ broken'

Next ==
  \/ \E wanted \in {Selected[t] : t \in Targets} \cup {Nothing} : Ask(wanted)
  \/ \E l \in Lids, p \in Plane : Fetch(l, p)
  \/ Deliver
  \/ NoPromise

Spec == Init /\ [][Next]_vars
=============================================================================
