---------------------------- MODULE ParallelDrivers ---------------------------
(***************************************************************************)
(* The MPI side of the parallel programs: the ranks of one program under   *)
(* prl_src/ go through its steps together, meeting in MPI collectives.     *)
(*                                                                         *)
(* A program is the sequence of steps of run(), or of main() and the       *)
(* functions it calls: local steps, some of which may fail, collectives,   *)
(* and one message to the next rank.  The k-th collective a rank calls on  *)
(* the communicator meets the k-th of every other rank: all return when    *)
(* all have called, except that MPI_Reduce only binds its root.            *)
(*                                                                         *)
(* The four FUN3D programs return 1 from run() when a file operation fails *)
(* and go straight to MPI_Finalize, without the collectives their peers    *)
(* may be waiting in; the other programs call exit(0) in readfile() and    *)
(* notice no other failure.  These write one file together, each rank at   *)
(* the offset where the ranks before it end.                               *)
(*                                                                         *)
(* The data of a rank are the extremes of its part of a field, and how     *)
(* many bytes of it are retrieved.  All ranks have the same variables.     *)
(***************************************************************************)
EXTENDS Integers, SequencesExt

CONSTANTS
  NumRanks,     \* np
  Drivers,      \* which of the programs are run
  Frames,       \* FUN3D: num_timesteps * variables.size()
  Tolerances,   \* FUN3D: num_tolerances of the plain reconstructor
  Variables,    \* n_variable of the QoI programs
  Values,       \* the values a field may take
  PartSizes,    \* the bytes a rank may have to write to a shared file
  MayFail       \* whether a local step can fail

ASSUME RanksAssumption == NumRanks \in Nat \ {0}
ASSUME DriversAssumption ==
  Drivers \subseteq {"refactor", "retrieve", "reconstruct", "reconstruct_retrieved",
                     "array_refactor", "array_reconstruct", "qoi_refactor", "PT", "Vtot"}
ASSUME FramesAssumption ==
  Frames \in Nat \ {0} /\ Tolerances \in Nat \ {0} /\ Variables \in Nat \ {0}
ASSUME ValuesAssumption == Values \subseteq Int /\ Values # {}
ASSUME PartSizesAssumption == PartSizes \subseteq Nat
ASSUME MayFailAssumption == MayFail \in BOOLEAN

Ranks == 0 .. NumRanks - 1
Root  == 0
FUN3D == {"refactor", "retrieve", "reconstruct", "reconstruct_retrieved"}

VARIABLES
  driver,     \* the program all ranks run
  eager,      \* whether MPI_Send returns before its message is received
  at,         \* per rank: the next step of the program
  inside,     \* per rank: it has called the collective, or MPI_Send, at that step
  posted,     \* per rank: the collectives it has called
  extremes,   \* per rank: smallest and largest value of the current array
  global,     \* per rank: what the two MPI_Allreduce calls gave it for the array
  frames,     \* per rank: the value range used for each of its arrays
  status,     \* per rank: "running", "finalizing" (in MPI_Finalize) or "exited"
  code,       \* per rank: what run() returned, 1 also after the exit() of readfile()
  total,      \* the arrays of all ranks, as the root's last MPI_Reduce gave it
  size,       \* per rank: the bytes it has to write to the current shared file
  offset,     \* per rank: where it is going to write them
  inbox,      \* per rank: offsets sent to it and not yet received
  opened,     \* per rank: how many shared files it has opened
  written     \* the regions written: <<file, rank, offset, size>>

fileVars == <<size, offset, inbox, opened, written>>
vars == <<driver, eager, at, inside, posted, extremes, global, frames, status, code,
          total, fileVars>>

-----------------------------------------------------------------------------
(* The programs *)

Times(n, steps) == FlattenSeq([k \in 1 .. n |-> steps])

\* Mutant: only the root calls the reductions that lead to its report.
Reductions_RootOnly(r, n) == IF r = Root THEN Times(n, <<"reduce">>) ELSE <<>>

Reductions(r, n) == Times(n, <<"reduce">>)

\* para_IPComp_refactor_fun3d.cpp
refactor(r) ==
  <<"open">> \o Times(Frames, <<"read", "min", "max", "barrier", "commit">>)
             \o <<"close">> \o Reductions(r, 4)

\* para_IPComp_retrieve_fun3d.cpp
retrieve(r) ==
  <<"open">> \o Times(Frames, <<"barrier", "commit">>) \o <<"close">> \o Reductions(r, 7)

\* para_IPComp_reconstructor_fun3d.cpp: nothing fails after the barriers.
reconstruct(r) ==
  <<"open">> \o Times(Frames, <<"read">> \o Times(Tolerances, <<"barrier">>) \o <<"decode">>)
             \o Reductions(r, 3)

\* para_IPComp_reconstruct_retrieved_fun3d.cpp, with verify = 1
reconstruct_retrieved(r) ==
  <<"open">> \o Times(Frames, <<"read", "barrier", "commit">>) \o Reductions(r, 5)

\* para_IPComp_refactor.cpp
array_refactor(r) == <<"load", "scan", "min", "max", "store">> \o Reductions(r, 1)

\* para_refactor.cpp
qoi_refactor(r) ==
  Times(Variables, <<"load">>) \o Times(Variables, <<"scan", "min", "max", "store">>)
    \o Reductions(r, 1)

\* The chain of offsets through the ranks, and one shared file written by all.
Chain(r) ==
  <<"pack">> \o (IF r = 0 THEN <<>> ELSE <<"recv">>)
             \o (IF r = NumRanks - 1 THEN <<>> ELSE <<"send">>)
SharedFile == <<"fopen", "write", "fclose">>

\* para_IPComp_reconstructor.cpp
array_reconstruct(r) ==
  <<"load", "scan", "min", "max", "load", "setup">> \o Reductions(r, 4)
    \o Chain(r) \o SharedFile

\* para_PT.cpp and the three-dimensional para_Vtot.cpp: the ranges of the
\* variables and of the quantity for the tolerances, whose values are not followed,
\* those of the variables for their ladders, then the retrieval loop, which calls no
\* collective.
qoi_reconstruct(r) ==
  Times(Variables, <<"load", "min", "max", "load">>)
    \o <<"min", "max">> \o Times(Variables, <<"scan", "min", "max", "setup">>)
    \o Reductions(r, 6)

Vtot(r) == qoi_reconstruct(r) \o Times(Variables, Chain(r) \o SharedFile)

\* The mask is the second file, read again between its chain and its opening.
PT(r) ==
  qoi_reconstruct(r) \o Chain(r) \o SharedFile
    \o Chain(r) \o <<"load">> \o SharedFile
    \o Times(Variables - 1, Chain(r) \o SharedFile)

Program ==
  [d \in Drivers |-> [r \in Ranks |->
     CASE d = "refactor"              -> refactor(r)
       [] d = "retrieve"              -> retrieve(r)
       [] d = "reconstruct"           -> reconstruct(r)
       [] d = "reconstruct_retrieved" -> reconstruct_retrieved(r)
       [] d = "array_refactor"        -> array_refactor(r)
       [] d = "array_reconstruct"     -> array_reconstruct(r)
       [] d = "qoi_refactor"          -> qoi_refactor(r)
       [] d = "Vtot"                  -> Vtot(r)
       [] OTHER                       -> PT(r)]]

\* The arrays a rank goes through.
Arrays == IF driver \in FUN3D THEN Frames
          ELSE IF driver \in {"array_refactor", "array_reconstruct"} THEN 1 ELSE Variables

Collectives == {"min", "max", "barrier", "reduce", "fopen", "fclose"}

\* The local steps a failure of which is noticed: files in the FUN3D programs,
\* readfile() in the others.
CanFail == {"open", "read", "commit", "close", "load"}

-----------------------------------------------------------------------------
(* The steps of one rank *)

Init ==
  /\ driver \in Drivers
  /\ eager \in (IF driver \in FUN3D THEN {TRUE} ELSE BOOLEAN)
  /\ at = [r \in Ranks |-> 1] /\ inside = [r \in Ranks |-> FALSE]
  /\ posted = [r \in Ranks |-> <<>>]
  /\ extremes = [r \in Ranks |-> <<0, 0>>] /\ global = [r \in Ranks |-> <<0, 0>>]
  /\ frames = [r \in Ranks |-> <<>>]
  /\ status = [r \in Ranks |-> "running"] /\ code = [r \in Ranks |-> 0]
  /\ total = 0
  /\ size = [r \in Ranks |-> 0] /\ offset = [r \in Ranks |-> 0]
  /\ inbox = [r \in Ranks |-> <<>>]
  /\ opened = [r \in Ranks |-> 0] /\ written = {}

Running(r) == status[r] = "running" /\ at[r] <= Len(Program[driver][r])
Step(r)    == Program[driver][r][at[r]]
GoOn(r)    == at' = [at EXCEPT ![r] = @ + 1]

\* Mutant: a constant field needs no range, so the two reductions are skipped.
AfterScan_SkipsConstant(r, e) ==
  at' = [at EXCEPT ![r] = IF e[1] = e[2] THEN @ + 3 ELSE @ + 1]

\* Where reading a field leads: into the two reductions, whatever the data.
AfterScan(r, e) == GoOn(r)

\* The extremes of the rank's own part: read_local_field(), and the local half of
\* compute_global_value_range().
Scan(r) ==
  /\ Running(r)
  /\ Step(r) = "scan" \/ (driver = "refactor" /\ Step(r) = "read")
  /\ \E low \in Values, high \in Values :
       /\ low <= high
       /\ extremes' = [extremes EXCEPT ![r] = <<low, high>>]
  /\ AfterScan(r, extremes'[r])
  /\ UNCHANGED <<driver, eager, inside, posted, global, frames, status, code, total, fileVars>>

\* The steps that make an array's layer ladder or selection from its value range,
\* and end the life of that range.
Records == {"commit", "decode", "store", "setup"}

\* Opening, reading, compressing, committing, decoding, closing.
Work(r) ==
  /\ Running(r) /\ Step(r) \in CanFail \cup Records
  /\ ~(driver = "refactor" /\ Step(r) = "read")
  /\ IF Step(r) \in Records
     THEN /\ frames' = [frames EXCEPT ![r] = Append(@, global[r][2] - global[r][1])]
          /\ extremes' = [extremes EXCEPT ![r] = <<0, 0>>]
          /\ global' = [global EXCEPT ![r] = <<0, 0>>]
     ELSE UNCHANGED <<frames, extremes, global>>
  /\ GoOn(r)
  /\ UNCHANGED <<driver, eager, inside, posted, status, code, total, fileVars>>

\* Mutant: the failure is reported and the rank goes on with the next step.
Fail_GoesOn(r) ==
  /\ MayFail /\ Running(r) /\ Step(r) \in CanFail
  /\ GoOn(r)
  /\ UNCHANGED <<driver, eager, inside, posted, extremes, global, frames, status, code,
                 total, fileVars>>

\* The early "return 1" of run(), and MPI_Finalize; or the exit(0) of readfile(),
\* without it.
Fail(r) ==
  /\ MayFail /\ Running(r) /\ Step(r) \in CanFail
  /\ status' = [status EXCEPT ![r] = IF driver \in FUN3D THEN "finalizing" ELSE "exited"]
  /\ code' = [code EXCEPT ![r] = 1]
  /\ UNCHANGED <<driver, eager, at, inside, posted, extremes, global, frames, total, fileVars>>

\* Mutant: the minimum is not reduced, each rank keeps its own.
Reduced_OwnMin(op) ==
  CASE op = "min" -> [r \in Ranks |-> <<extremes[r][1], global[r][2]>>]
    [] op = "max" -> [r \in Ranks |-> <<global[r][1], Max({extremes[q][2] : q \in Ranks})>>]
    [] OTHER      -> global

\* MPI_Allreduce with MPI_MIN and MPI_MAX.
Reduced(op) ==
  CASE op = "min" -> [r \in Ranks |-> <<Min({extremes[q][1] : q \in Ranks}), global[r][2]>>]
    [] op = "max" -> [r \in Ranks |-> <<global[r][1], Max({extremes[q][2] : q \in Ranks})>>]
    [] OTHER      -> global

\* Everyone has called the collectives up to the k-th.
AllIn(k) == \A q \in Ranks : Len(posted[q]) >= k

\* The last rank to call a collective completes it: the values it reduces are then
\* there for all, and the root's sum (MPI_SUM over what each rank is done with).
Enter(r) ==
  /\ Running(r) /\ Step(r) \in Collectives /\ ~inside[r]
  /\ inside' = [inside EXCEPT ![r] = TRUE]
  /\ posted' = [posted EXCEPT ![r] = Append(@, Step(r))]
  /\ IF \A q \in Ranks : Len(posted'[q]) >= Len(posted'[r])
     THEN /\ global' = Reduced(Step(r))
          /\ total' = IF Step(r) = "reduce"
                       THEN SumFunction([q \in Ranks |-> Len(frames[q])]) ELSE total
     ELSE UNCHANGED <<global, total>>
  /\ UNCHANGED <<driver, eager, at, extremes, frames, status, code, fileVars>>

Leave(r) ==
  /\ inside[r] /\ Step(r) \in Collectives
  /\ (Step(r) # "reduce" \/ r = Root) => AllIn(Len(posted[r]))
  /\ inside' = [inside EXCEPT ![r] = FALSE]
  /\ GoOn(r)
  /\ opened' = IF Step(r) = "fopen" THEN [opened EXCEPT ![r] = @ + 1] ELSE opened
  /\ UNCHANGED <<driver, eager, posted, extremes, global, frames, status, code, total,
                 size, offset, inbox, written>>

\* The bytes to ship are put together; the first rank's offset stays 0.
Pack(r) ==
  /\ Running(r) /\ Step(r) = "pack"
  /\ \E n \in PartSizes : size' = [size EXCEPT ![r] = n]
  /\ offset' = [offset EXCEPT ![r] = 0]
  /\ GoOn(r)
  /\ UNCHANGED <<driver, eager, inside, posted, extremes, global, frames, status, code,
                 total, inbox, opened, written>>

\* MPI_Recv from the rank before.
Recv(r) ==
  /\ Running(r) /\ Step(r) = "recv" /\ inbox[r] # <<>>
  /\ offset' = [offset EXCEPT ![r] = Head(inbox[r])]
  /\ inbox' = [inbox EXCEPT ![r] = Tail(@)]
  /\ GoOn(r)
  /\ UNCHANGED <<driver, eager, inside, posted, extremes, global, frames, status, code,
                 total, size, opened, written>>

\* Mutant: the rank passes on its own size, not the end of its region.
Send_OwnSize(r) ==
  /\ Running(r) /\ Step(r) = "send" /\ ~inside[r]
  /\ inbox' = [inbox EXCEPT ![r + 1] = Append(@, size[r])]
  /\ inside' = [inside EXCEPT ![r] = TRUE]
  /\ UNCHANGED <<driver, eager, at, posted, extremes, global, frames, status, code,
                 total, size, offset, opened, written>>

\* MPI_Send to the next rank: the end of this rank's region.
Send(r) ==
  /\ Running(r) /\ Step(r) = "send" /\ ~inside[r]
  /\ inbox' = [inbox EXCEPT ![r + 1] = Append(@, offset[r] + size[r])]
  /\ inside' = [inside EXCEPT ![r] = TRUE]
  /\ UNCHANGED <<driver, eager, at, posted, extremes, global, frames, status, code,
                 total, size, offset, opened, written>>

\* MPI_Send returns: at once, or when the message has been received.
Sent(r) ==
  /\ inside[r] /\ Step(r) = "send"
  /\ eager \/ inbox[r + 1] = <<>>
  /\ inside' = [inside EXCEPT ![r] = FALSE]
  /\ GoOn(r)
  /\ UNCHANGED <<driver, eager, posted, extremes, global, frames, status, code, total, fileVars>>

\* MPI_File_write_at into the file opened last.
Write(r) ==
  /\ Running(r) /\ Step(r) = "write"
  /\ written' = written \cup {<<opened[r], r, offset[r], size[r]>>}
  /\ GoOn(r)
  /\ UNCHANGED <<driver, eager, inside, posted, extremes, global, frames, status, code,
                 total, size, offset, inbox, opened>>

\* The end of the program, after the root has printed its report.  The main() of
\* para_IPComp_reconstructor.cpp returns without MPI_Finalize.
Return(r) ==
  /\ status[r] = "running" /\ at[r] > Len(Program[driver][r])
  /\ status' = [status EXCEPT ![r] =
                  IF driver = "array_reconstruct" THEN "exited" ELSE "finalizing"]
  /\ UNCHANGED <<driver, eager, at, inside, posted, extremes, global, frames, code, total,
                 fileVars>>

\* MPI_Finalize is collective over all ranks.
Exit(r) ==
  /\ status[r] = "finalizing"
  /\ \A q \in Ranks : status[q] # "running"
  /\ status' = [status EXCEPT ![r] = "exited"]
  /\ UNCHANGED <<driver, eager, at, inside, posted, extremes, global, frames, code, total,
                 fileVars>>

RankStep(r) ==
  \/ Scan(r) \/ Work(r) \/ Fail(r)
  \/ Enter(r) \/ Leave(r)
  \/ Pack(r) \/ Recv(r) \/ Send(r) \/ Sent(r) \/ Write(r)
  \/ Return(r) \/ Exit(r)

Next == \E r \in Ranks : RankStep(r)

Spec == Init /\ [][Next]_vars

\* Every rank is a process of its own, which the operating system and the MPI
\* library keep running.
FairSpec == Spec /\ \A r \in Ranks : WF_vars(RankStep(r))

-----------------------------------------------------------------------------
(* Properties *)

\* Ranks that meet in a collective call the same one, whatever their data are
\* and whoever has failed: a different one would be undefined behaviour.
CollectivesMatch ==
  \A r, q \in Ranks : \A k \in DOMAIN posted[r] \cap DOMAIN posted[q] :
    posted[r][k] = posted[q][k]

\* The ranks take one and the same value range for their parts of an array, and it
\* covers the data of every rank: the layer ladder and the absolute tolerance of
\* every part follow from it.
RangesAgree ==
  /\ \A r, q \in Ranks : \A f \in DOMAIN frames[r] \cap DOMAIN frames[q] :
       frames[r][f] = frames[q][f]
  /\ \A r, q \in Ranks :
       Running(r) /\ Step(r) \in Records /\ Len(frames[q]) = Len(frames[r]) =>
         global[r][1] <= extremes[q][1] /\ extremes[q][2] <= global[r][2]

\* The root reports only when every rank has finished all its arrays, and its
\* totals then count every array of every rank.
ReportsAreComplete ==
  status[Root] # "running" /\ code[Root] = 0 =>
    /\ \A r \in Ranks : code[r] = 0 /\ Len(frames[r]) = Arrays
    /\ total = NumRanks * Arrays

\* A shared file is the parts of the ranks, in their order: nobody writes over a
\* part of another rank, and when a rank has closed the file it is complete, with
\* no gap between the parts.  The offsets come from different messages, files
\* follow one another on the same tag.
PartsTile ==
  /\ \A w \in written, v \in written :
       w[1] = v[1] /\ w[2] < v[2] => w[3] + w[4] <= v[3]
  /\ \A r \in Ranks : \A f \in 1 .. opened[r] :
       opened[r] > f \/ (code[r] = 0 /\ status[r] # "running") =>
         /\ \A q \in Ranks : \E w \in written : w[1] = f /\ w[2] = q
         /\ \A w \in written : w[1] = f =>
              w[3] = 0 \/ \E v \in written : v[1] = f /\ v[3] + v[4] = w[3]

\* When nothing fails no rank waits for ever: each gets through its program and exits.
AllRanksExit ==
  [](\A r \in Ranks : code[r] = 0) => <>(\A r \in Ranks : status[r] = "exited")
=============================================================================
