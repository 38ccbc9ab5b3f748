# A TLA+ model of IPComp

IPComp is a progressive, error-bounded lossy compressor for scientific arrays. An array is
predicted by multi-level interpolation, the prediction errors are quantised to 32-bit indices,
and the indices are stored plane by plane, so that a reader can fetch only as many bitplanes as
its error bound needs and later fetch the rest. This directory holds TLA+ models of the parts
where that can go wrong, TLC runs over small instances, and theorems checked by TLAPS.

Paths below are relative to the repository. `IPComp.hpp` is
`include/SZ3/compressor/IPComp.hpp`.

## 1. Inventory

### The codec (`IPComp.hpp`, class `SZProgressiveMQuant`)

| Part | State | Operations | What makes it correct |
|---|---|---|---|
| **Progressive decoder** | `last_EB`, `first_time_loadcfg`, `dec_data`, `dec_delta`, `last_bit`/`second_last_bit` per stage, `retrieved_size`, `access_log` | `progressive_reconstruct(eb)`, `decompress`, `decompress_progressive`, `loadcfg`, `lossless_decode_bitgroup`, `invert_table`, `add_to_quant` | After any series of calls the array holds exactly the planes the last bound selects; a plane is fetched once; what was counted is what was read. |
| **Plane selection** | none (pure), from the stream's size table | `calcBitgroup`, `calcUncerntaintyBitGroup`, `calcValueTable`, `strategy` | The error of the planes thrown away stays within the bound, and no other choice would save more bytes. |
| **Bitrate mode** | as the decoder | `decompress_bitrate`, `calcBitgroup_bitrate`, `strategy_bitrate` | The bytes read stay within the size limit, and no other choice within it leaves less uncertainty. |
| **Bitplane codec and quantizer** (`quantizer/IntegerQuantizer2.hpp`, `utils/ByteUtil.hpp`) | the index of one value | `quantize_and_overwrite`, `encode_lossless_bitplane`, `convert_table`, `invert_table`, `recover_pred` | Decoding undoes encoding, updates add up however the planes are split, and the error is what the selection counts on. |
| **Interpolation predictor** (`utils/Interpolators.hpp`) | the array | `block_interpolation`, `block_interpolation_1d` | Each element is visited once, from elements that are final; an error spreads no further than the cost table says. |
| **Compressor, stream layout** | the stream | `compress`, `setupLayers`, `loadcfg` | What is written is where the decoder looks for it. |
| **Lossless back end** (`lossless/`, vendored zstd) | none | `compress`, `decompress` | Inverse of each other. |
| **SZ3 utilities** | none | file input and output, configuration, statistics | |

### Around the codec

| Part | State | Operations | What makes it correct |
|---|---|---|---|
| **QoI loops** (`src/halfing_*.cpp`, `include/qoi_utils.hpp`) | an error bound per variable, the reconstructed variables | reconstruct, estimate the error of the quantity, divide the bounds | When the loop ends, the derived quantity is within its tolerance wherever the codecs kept the bounds they were asked for. |
| **Command-line drivers** (`src/IPComp.cpp`, `refactor.cpp`, `reconstructor.cpp`) | files | one codec call per bound | |
| **Single-file archive** (`prl_src/SingleFileArchive.hpp`) | file, `cursor_`, `directory_`, `components_` | `open`, `begin_block`, `add_component`, `commit_block`, `close`; `block_layout`, `read_block_components` | A block that can be read is the block that was committed, even after a crash. |
| **Range bundle** (`prl_src/FUN3DIPComp.hpp` and the two `*_retrieve*` programs) | access log, range table, bytes | `merge_ranges`, `pack_ranges`, `ranges_cover`, rebuild, decode | A frame decoded from a partial stream never used a byte that was not shipped. |
| **FUN3D frame drivers** (`prl_src/para_IPComp_*_fun3d.cpp`) | ranks, their frames, MPI collectives | the four `run()` functions | The ranks agree on collectives and on the value range; a report counts all of them. |
| **Other MPI drivers** (`prl_src/para_*.cpp`) | as above, and a chain of sends | one subdomain per rank | The parts of the ranks lie side by side in the shared file; what is written is what was read. |
| **Build files, scripts** | | | |

### How they interact

The drivers call one codec object per array: `compress()` once, or `progressive_reconstruct()`
repeatedly with tighter bounds. The object calls plane selection with the size table of the
stream's header, fetches planes through the lossless back end, decodes them with the bitplane
codec and spreads them over the array with the predictor, stage by stage. The QoI loops drive
one codec object per variable and choose the next bounds from the values it returned. The FUN3D
programs add a pipeline: *refactor* compresses every frame into one archive per rank; *retrieve*
decodes with the access log on and ships what was read as a bundle, in another archive;
*reconstruct_retrieved* rebuilds a sparse stream from the bundle and decodes it again. Ranks only
interact through MPI collectives.

### What is hard

* **Series of calls.** The decoder is a state machine whose bookkeeping (`last_EB`, two XOR
  contexts per stage, a delta array, the first-call flag, the byte counters) must agree after every
  series of bounds, including bounds that are relaxed, and bounds for which the knapsack takes
  planes away from a stage.
* **Numeric edges.** Two's complement and negabinary, casts, scaled costs rounded down, lines of
  four or five elements, bounds that reach a divisor.
* **Crashes.** The archive's directory is written last over a file that may have existed before.
* **Partial data.** A sparse stream decodes without complaint to wrong values. Four pieces of code
  know the stream's layout by heart: the writer, the decoder, the two accounts of what was read, and
  the copy of what was read.
* **Ranks.** Collectives must match although each rank has its own data and may fail alone.

`PROJECT.json` lists every hazard at its line with the properties that watch it, or the reason why none does.

## 2. Modules

| Module | Models | Used with |
|---|---|---|
| `ProgressiveDecode` | the progressive decoder | `MCProgressiveDecode`, `MCTighterDecode`, `ProgressiveDecodeProofs` |
| `IncrementalStore` | nothing in the code: what incremental reconstruction promises | refined by `ProgressiveDecode` |
| `PlaneSelection` | the knapsack and its tables, for a target error | `MCPlaneSelection`, `PlaneSelectionProofs`; instantiated by `MCTighterDecode` and `BitplaneCodec` |
| `BitrateSelection` | the knapsack turned round, for a budget of bytes; extends `PlaneSelection` | `MCPlaneSelection`, `PlaneSelectionProofs` |
| `BitplaneCodec` | one value through quantizer, planes and back | `MCBitplaneCodec`, `CompressorProofs` |
| `StageBytes` | a stage of such values as bytes: transposition, contexts, the last byte; extends `BitplaneCodec` | `MCBitplaneCodec`, `CompressorProofs` |
| `Interpolation` | the walk over the array and the spread of errors | `MCInterpolation`, `CompressorProofs` |
| `Powers` | powers as a recursive function, for strides, widths, charges and digits | `Interpolation`, `PlaneSelection`, `BitplaneCodec`, `SingleFileArchive`, `OperatorLemmas` |
| `QoiRetrieval` | the QoI loop, for T, V_TOT2 and XiXj | `MCQoiRetrieval`, `QoiProofs` |
| `SingleFileArchive` | writer and reader of the archive | `MCSingleFileArchive`, `ArchiveProofs` |
| `RangeBundle` | retrieve, ship, rebuild, decode again | `BundledStream` |
| `StreamLayout` | the layout of a stream, as its writer, its reader, the accounts and the copy see it | `BundledStream`, `RangeBundleProofs` |
| `BundledStream` | composes the two: a stream laid out by the codec on its way through a bundle | `MCRangeBundle`, `RangeBundleProofs` |
| `ParallelDrivers` | the ranks of the nine MPI programs | `MCParallelDrivers`, `ParallelDriversProofs` |
| `OperatorLemmas` | nothing in the code: facts about sums, powers and sequences put together from parts | the proof modules of the selection, the codec and the walk, the archive, the bundle and the ranks |

Each component has a module; the MC modules give constants their values; the proof modules only
hold lemmas and theorems. Mutant definitions, named after what they break (`LoadPlane_OneMore`),
stand before the definition they are variants of and are used by nothing: putting one in its place
makes a property fail.

### ProgressiveDecode

A plane is represented by its identity, and the array by how often each plane of each stage was
added to it (`dec_data`, `anchor` for element 0), so that "exactly the right planes" can be said
without floating point. The contexts hold the number of the plane decoded last; a plane decoded
against any other context is put in `wrong`.

* `Call(t)` is `progressive_reconstruct()` up to the stage loop: `calcBitgroup` of the previous and
  of the new target, the early return when they are equal, `loadcfg`, and the choice between a
  decode from scratch and an update.
* `LoadPlane` is one iteration of `lossless_decode_bitgroup()`: fetch, count, log, `invert_table`.
* `FinishStage` is `add_to_quant()` and the stage's `block_interpolation()`.
* `Merge` adds the delta of an update and remembers the target.
* `shrunk` and `regressed` are history variables: which stages were asked to keep fewer planes.

`Spec` lets the caller ask for anything. `TighterSpec` is a caller that only tightens, as the command
line and the QoI loops do. So the first two divergences of section 3 happen to the QoI loops too:
`QoiRetrieval` has them in its codecs.

`IncrementalStore` is the promise: a client asks for a selection, blocks are fetched at most once, and
then the store holds the selection. Its `broken` is a flag that voids the promise; the decoder maps
`regressed` to it, which is set by the first call that makes a stage shrink. So `ImplementsStore` is a
property of every behaviour of `Spec`, and says that nothing else than a shrinking selection breaks the
promise.

`HeldPlanes`, which the refinement maps to the store, and `ExactSelection` speak of the stages
without element 0, which belongs to stage 0 but is treated by code of its own. Element 0 has
`FreshIsClean` and `AnchorKeepsUp`.

### PlaneSelection and BitplaneCodec

`SelectPlanes(size_lb, units)` is `calcBitgroup()` for a target of `units` error bounds:
`DpTable` fills the knapsack's table and `strategy` walks it back in the order of the code. The code's
32 planes and its table of fewer than 2^14 columns are `Planes` and `DpBits`.

`SelectBitrate(size_lb, size_limit)` is `decompress_bitrate()`: sizes are costs and the uncertainty of
what is thrown away is minimised. The budget is an unsigned word of `WordBits` bits from which three
headers and five units are subtracted without a test; the answer tells how a call ends that wraps. Both
modes use the same walk back through the table, `WalkBack`.

`BitplaneCodec` follows one value: `Index` is the quantizer with its cast and its two's complement,
`Negabinary` and `convert_table` the encoder; `invert_table` and `add_to_quant` are actions, so that
every way to split the planes into updates is a behaviour.

The code never handles one value: `bitTranspose8()` packs the bits of eight indices into a byte and pads the
stage with zeros, `invert_table()` works on bytes, and `add_to_quant()` takes whole bytes and the last one
apart on different paths. `StageBytes` has these as operators on stages of any length, and `StageAgrees` says
that a value in a stage fares as `BitplaneCodec` says, whatever its neighbours are. In a run its neighbours have
the opposite bits, so that a bit taken from the wrong lane would show.

### Interpolation

A step is one `block_interpolation()` call. An element is its coordinates; `written` counts its
visits and `reach` is the largest error it can have when all indices of one stage, `lost`, are off by
one: errors follow the formulas' weights without their signs, because those of two planes may add up.
`quant_inds_size` is how many indices the walk hands to `bitTranspose8()`, which pads them in place. `Cost` is what
`calcUncerntaintyBitGroup` of the selection charges for the same loss. The specification is called `WalkSpec`,
as it shares a proof module with the codec's `Spec`.

### QoiRetrieval

Every iteration calls `progressive_reconstruct()` on the same objects, so that all but the first decoding are
updates, and updates do not keep every bound they are asked for. The codec is modelled by what it still holds
(`holds`, for each variable), which `MayHold` and `ErrorsAt` take from `decompress()` and
`decompress_progressive()`:

* `"nothing"`: the targets so far needed no plane, `decompress()` skipped the decoding, and `dec_data` is
  memory nobody has written to. The first target that needs a plane is decoded from scratch.
* `"exact"`: what a decode from scratch would have given, except for element 1, the anchor, which keeps
  the precision it was first decoded with. `ProgressiveDecode` justifies it: a decode from scratch leaves nothing
  behind (`FreshIsClean`), and an update that never shrank a stage ends in exactly its selection
  (`ExactSelection`). The errors are then those of `Errors(Precision(v, k))`.
* `"other"`: an update took a plane back, or the anchor's stage got planes that the anchor did not. A plane is then
  added twice, or the elements predicted from the anchor miss its delta (`dec_delta[0]` stays 0). Nothing is
  known of the errors (`Strays`).

Which of these a call leads to is a free choice, as the selection is not part of this module; only what
contradicts the code is excluded. In particular no property and no theorem assumes that a codec keeps the bounds it is
asked for: `ErrorsAssumption` says that errors are integers. `Trusted(i)` says that the values of element `i` are in
fact within the bounds last asked for, and the properties speak of these elements.

`mask` is the file the refactoring program writes (`psz_mask`): an element at rest is set to zero and not
estimated, which only V_TOT2 does. `asked` are the bounds of the last reconstruction, `max_est_error` is what the
program prints at the end; both are older than the bounds when an iteration has divided them. Bounds are counted in
units of which every bound is a whole number, and estimates are fractions, so that nothing is rounded. T = P / D,
V_TOT2 and XiXj are the quantities that are rational. Every variable has bounds of its own, as `targetEBs` is scaled
by its range. A loop that needs more than `Shrinks` divisions leaves the model.

### SingleFileArchive

The file is a sequence of cells of `Base` values and a number is `Width` cells. The writer's process
may end anywhere with any prefix of what it wrote on disk (`Dies`, `Crash`, the torn outcome of
`Close`); runs follow one another over the same path. The reader is the set of operators from
`CanOpen` to `read_block_components`, each check of the code a conjunct. The code's numbers have 64 bits;
`NumbersFit` says that `Width` cells are enough for the size of any file that `MaxCommits` commits can make.

### RangeBundle, StreamLayout and BundledStream

In `RangeBundle` the codec is what it logs. A byte is its position in the original stream, so that "the
byte that was there" can be told from a zero. `StreamLayout` has the order in which `compress()` writes,
`data_lb`, the positions the decoder computes, `Accesses`, the log of a decode from scratch, `Retrieved`,
its counter, and `fetched_data`, the copy the array and QoI drivers make of what was read.

`BundledStream` composes them. A frame is either read by an arbitrary codec, which logs any sequence
of ranges the first time and any other the second (it decides from bytes that may be zeros), or by
IPComp, which reads a stream of the layout and, as the header comes back, chooses the same planes again.
The first kind shows that the bundle is sound whatever a codec does, the second that it is complete for
this one.

### ParallelDrivers

A program is a sequence of steps; local steps may fail, and the k-th collective a rank calls meets
the k-th of the others. A barrier and an all-reduce wait for all; a reduce only makes its root wait.
A failed rank of a FUN3D program goes to `MPI_Finalize` at once, which is collective too; the other
programs only fail where `readfile()` calls `exit(0)`. `reconstruct_retrieved` is modelled with
verification switched on.

The five programs that write one file together pass the sum of the sizes so far along the ranks, by
`MPI_Send` and `MPI_Recv`. A send may return at once or wait for its receiver (`eager`), as the MPI
standard allows, and a rank writes at the offset it received. Of `para_Vtot.cpp` the 3D variant is modelled; the
GE variant has no chain and no collective other than all-reduces.

## 3. Runs

TLC explores all behaviours of each instance; the counts are distinct states.

| Run | Instance | Shows |
|---|---|---|
| `progressive_decode` | 2 stages of 3 planes, all 16 selections, 4 calls | `DecodeInv`, `ExactSelection`, `RetrievedIsAccessed`, `NothingBeyondTarget`, `FreshIsClean`, `ImplementsStore` |
| `incremental_loading` | 2 cubic stages of 4 planes, the selections of `PlaneSelection` | **violated**: `IncrementalLoading` |
| `anchor_keeps_up` | the same | **violated**: `AnchorKeepsUp` |
| `plane_selection` | 2 stages of 4 planes, sizes 1 or 9, targets 40 to 0, budgets of 0 to 76 bytes, 2^4 columns | `OptimalWithinLimit`, `WithinTarget`, `TighterReadsMore`; `LeastUncertainty`, `WithinBudget` |
| `bitrate_bounded` | the same with sizes 1 or 3 and a header of 5 bytes | **violated**: `BitrateBounded` |
| `bitplane_codec` | 8 planes, every difference whose index leaves the top plane clear | `PlanesRecovered`, `SplitsAddUp`, `ErrorBounded`; in stages of 2, 4 and 7 indices, 4 to a byte, `StageAgrees` |
| `error_bounded` | 8 planes, differences beyond that | **violated**: `ErrorBounded` |
| `single_file_archive` | 2 blocks, 2 components, 2 commits a run, any number of runs | `ReaderNeverLies`, `CloseCompletes`, `UnclosedIsEmpty`, `SizesExact` |
| `range_bundle` | 5 bytes, any 3 ranges logged, then 2; and all streams of 2 stages of 3 planes of 1 or 2 bytes, all selections | `ShipsWhatWasRead`, `BundleRebuilds`, `NoSilentZeros`, `NoFalseAlarm`; `LandsOnTheSameBlocks`, `AccountsAgree`, `FetchedFillsItsBuffer` |
| `parallel_drivers` | 3 ranks, 2 frames, 9 programs, parts of 1 or 2 bytes, failures anywhere | `CollectivesMatch`, `RangesAgree`, `ReportsAreComplete`, `PartsTile`, `AllRanksExit` |
| `qoi_retrieval` | 2 elements, 3 divisions, 3 iterations, T, V_TOT2 and XiXj | `ToleranceIsReal`, `ReportIsHonest`, `EveryIterationCounts` |
| `interpolation` | 11 shapes of 1 to 3 dimensions, all directions, linear and cubic | `EachElementOnce`, `PredictorsAreFinal`, `PaddingFits`, `CostCoversLoss` |

Why the bounds are enough:

* *Decoder.* Three planes are the fewest for which both contexts are used; with two stages one has
  finished or waits while the other loads, and stage 0 has the anchor; a
  fresh decode, an update, a shrinking call and a call after it take four. The theorems have no
  bounds.
* *Selection.* Two stages compete for the limit. `DpBits` = 4 makes the scaling bite from a limit of 16
  on; targets of up to 40 need two shifts and budgets of up to 76 bytes three. Sizes 1 and 9 make more
  than one choice optimal, and none is a whole number of scaled units. The words of `WordBits` = 8 bits
  wrap for the small budgets.
* *Bit planes.* Each value is separate, and eight planes repeat every case of the negabinary
  pattern four times; the recovery of planes is proved for every width. The stages have no whole
  byte, nothing else, and both, and the value is put in every place.
* *Archive.* Numbers of two cells can be torn, and directory entries can be half there. Two blocks can
  be committed in either order or twice. Runs repeat, so that the previous file is any the
  writer can leave.
* *Bundle.* Five bytes and three ranges have all relations between ranges: apart, adjacent, overlapping,
  nested, equal, empty, and one that bridges two others. Streams of two stages have a stage before and
  one after each other, three planes a first, a middle and a last one, and an empty stage's planes have
  no bytes.
* *Drivers.* Three ranks have a first, a middle and a last one in the chain of offsets; two are enough
  to disagree. Two frames put a failure before, between and after the collectives of a frame. Parts of 1 or 2
  bytes tell a rank's own size from a sum; a part of no bytes, which the theorem covers, is not in the run.
* *QoI.* With two elements the worst one can change from one iteration to the next; the data contain
  a divisor that the first bound exceeds, an element at rest, and finest bounds that the loop passes. Three
  iterations have a first decoding, an update, and an update of an update, or a call that decodes nothing before
  them; the loop can run out of them with divisions left. TLC reaches loops that meet the tolerance
  in a later iteration with all codecs exact and with one that is not, with the anchor's true error above the
  tolerance for each of the quantities, and loops that run out.
* *Interpolation.* Lines of nine and ten places use every formula; extents that are no powers of two
  cut lines short; a dimension of one element has no line at all.

### Divergences from what the documentation says

`README.md` promises incremental loading, precision levels, error bounds and bitrate bounds. Four runs
show where the code does otherwise:

1. `strategy()` may keep fewer planes of a stage for a *tighter* target, because spending the limit
   elsewhere saves more. The bookkeeping only knows the previous target: the plane stays merged, is
   forgotten, and is fetched and added again by a later call (`IncrementalLoading`).
2. An update steps over the anchor's refined index (`quant_cnt++`), so that element 0 stays at the
   precision of the first call (`AnchorKeepsUp`).
3. `convert_table()` XORs plane 1 with plane 0 and `invert_table()` does not undo it, and
   `quantize_and_overwrite()` casts any difference to int. An index that uses the top plane comes
   back outside the bound (`ErrorBounded`). Nearly all data stay below it.
4. `decompress_bitrate()` and `strategy_bitrate()` subtract from an unsigned budget without a test. A
   bitrate that has room for the header, but not for three headers and five units, ends in a loop
   without end or in a table of nearly 2^64 columns (`BitrateBounded`). Where nothing wraps, the budget is
   kept and used best (`WithinBudget`, `LeastUncertainty`).

A fifth was met where no document says what should happen, so that it is stated by a property that
holds. The array and QoI drivers copy what was read into a buffer (`fetched_data`,
`prl_src/para_IPComp_reconstructor.cpp:135`, and the same in `para_PT.cpp` and `para_Vtot.cpp`). The copy
takes its sizes from the most significant plane on, but its source pointer starts where the stage's *least*
significant plane lies. `FetchedFillsItsBuffer` shows that the buffer is filled exactly, which hides it,
and that the bytes are those that were read only when each stage was kept whole or not at all. The
files so written cannot be decoded again; nothing in the repository tries to.

The first two have a consequence nobody promises anything about, so that it too is part of a property that holds.
A QoI loop that needs more than one iteration estimates its error as if the codecs had kept the bounds it asked for.
The anchor, and what is predicted from it, may not have: the loop then reports the tolerance met
while the true error at such an element exceeds it. And with a first bound so loose that no plane is
needed, a loop estimates from memory that was never written. `ToleranceIsReal` and `ReportIsHonest` speak of the other
elements. The loops also print `max_act_error`, measured against the originals, which would show the difference.

Some properties hold only under a condition that says where the code stops keeping them:

* `ToleranceIsReal` and `ReportIsHonest` leave out elements that are not `Trusted`: those where a codec missed the
  bound it was asked for, by the anchor, by a plane added twice, by holding nothing, or by a bound below the finest it
  can keep; and those where the bound reaches the decoded divisor, for which `compute_bound_division()`
  answers 0, "no error", although the quotient is then unbounded. The instance has all of them, and without the
  condition the properties fail.
* `EveryIterationCounts` does not say that the tolerance is met: the loop may run out of its iterations.
* `CostCoversLoss` has a factor of two for stage 0: the anchor is an index of that stage and predicts its
  other elements, so that planes thrown in stage 0 count twice where the target is charged once. On
  an array of two elements an error of 1.49 times the target was measured with the real codec.
* `PaddingFits` starts at eight elements. The padding of a smaller field is written past the end of
  `quant_inds`, which has `num_elements` slots.
* `WithinBudget` and `LeastUncertainty` start where nothing wraps any more (`Room`). The five units set aside
  cover the rounding of five stages; a stream of more stages may overrun by less than a unit for each.
* `WithinTarget` allows what scaling the costs down loses, less than a scaled unit per stage. It is
  zero unless the target exceeds 2^14 error bounds.
* `AllRanksExit` speaks of behaviours in which nothing fails. A rank that fails does not tell the
  others, which wait for it until the job is killed.
* `PlanesRecovered` is about words with a clear top plane, which says nothing of divergence 3.
* `SizesExact` follows a writer that stops at a short write, as the drivers do. `commit_block()` itself could be
  called again, with `cursor_` behind the stream's position; nothing in the repository does.

## 4. Fairness

Only two runs need any. `ParallelDrivers` assumes weak fairness of each rank: a rank is a process and
the MPI library progresses once all have called; nothing is assumed about the order of ranks.
`QoiRetrieval` assumes weak fairness of its one loop, a sequential program that does not stop in the
middle. All other properties are safety properties and hold with no fairness.

Deadlock is checked for the archive, which can always be opened again. The other instances stop
on purpose: at their bound on calls, at the end of a walk or a program, or with a rank waiting for a
failed one.

## 5. Proofs

### ProgressiveDecodeProofs

For every number of stages, planes, targets and calls and for every selection function, from the
assumptions on constants in `ProgressiveDecode` alone:

| Theorem | States |
|---|---|
| `TypeCorrect` | `Spec => []TypeOK` |
| `DecodeInvariant` | `Spec => []DecodeInv` |
| `SelectionCorrect` | `Spec => []ExactSelection` |
| `AccountingCorrect` | `Spec => []RetrievedIsAccessed` |
| `AccessCorrect` | `Spec => []NothingBeyondTarget` |
| `FreshCorrect` | `Spec => FreshIsClean` |
| `Refinement` | `Spec => ImplementsStore` |

None of these properties is inductive: they speak of the state between calls and say nothing of a
stage loop half done. `DecodeInv` says where each stage is. `Progress(l)` is the plane stage `l` has got
to: its old count when the loop has not reached it, `bit` when it is there, its new count after.
`StageInv(l)` says that a stage's contexts are the two planes below its progress, that `dec_data`
holds the planes below the old count, and that what is loaded or pending lies between that and its
progress. A stage that was ever asked to keep fewer planes is exempt (`shrunk`), since nothing of the
kind holds for it any more, until a decode from scratch. `AccountInv` ties the counters to the same
progress. The proof that a step preserves the invariant has a lemma per action, with stages other than the
current one, the current one and the accounting as cases. The refinement maps a finished merge
to `Deliver`, a loaded plane to `Fetch`, a call to `Ask`, and the rest to stuttering; from the first call
that shrinks a stage on, every step is one of a store that has given up its promise. It needs `DecodeInv`
again: that a plane about to be loaded was never loaded before is not to be seen in the step itself.

### QoiProofs

| Theorem | States |
|---|---|
| `LoopInvariant` | `Spec => []LoopInv` |
| `ToleranceHolds` | `Spec => []ToleranceIsReal` |
| `ReportHolds` | `Spec => []ReportIsHonest` |

For every number of elements, all integer data, bounds, tolerances and finest bounds, and every codec: that it keeps
its bounds is assumed nowhere, and the theorems speak of the elements where it did. Two lines of argument meet.
Pointwise, `SquareSound`, `MultiplicationSound` and `DivisionSound` say that the formulas of `qoi_utils.hpp`, evaluated at the
*decoded* values, bound how far the quantity can be from that of any original within the bounds; the last
compares two fractions with different denominators and needs the divisor's bound below the divisor.
`TrustedError` puts them together for the three quantities and the mask. Over the array, the loop only compares the
largest estimate with the tolerance, and `NotExceedingTransitive`, cancelling a positive denominator, carries that to
every element. `LoopInv` is what connects the two: `max_est_error` is no smaller than any estimate of the last
reconstruction at the bounds *it* was asked for, not at those the loop has divided since, and what is masked was at
rest in the originals. Its `MemoryInv` adds what the codecs hold: the anchor the precision of *some* call, the
elements of an exact codec that of the last. The integer data stand for reals: rounding of floating-point numbers is
not covered.

### PlaneSelectionProofs

For any number of stages, every even number of planes, all sizes, targets and budgets, and every width of the
knapsack's table:

| Theorem | States |
|---|---|
| `KnapsackIsOptimal` | `Spec => []OptimalWithinLimit` |
| `TargetIsMet` | `Spec => []WithinTarget` |
| `TighterReads` | `Spec => TighterReadsMore` |
| `UncertaintyIsLeast` | `Spec => []LeastUncertainty` |
| `BudgetIsKept` | `Spec => []WithinBudget` |

That `answer` is the selection's for the last request (`SelectionInvariant`) is only a lemma; the work is in what the
selection computes. Two facts about a table meet in the optimality: every entry is `Explained` by some affordable choice for its stage, and
`Dominates` every other (`TableIsSolved`). From the first, `WalkFindsSelection`: the walk back, an induction
over the stages decided, never meets a stage it cannot explain, stays within what remains, and ends in a
selection worth exactly the table's last entry. From the second, `NothingBetter`: an induction over the stages
in the other direction bounds every selection within the limit by that entry. `RowIsLargest` needs a choice that
costs nothing, or a row could hold a 0 that no choice explains; keeping all planes is one. The table of the
bitrate mode is the same argument turned round (`Undercuts`, `LeastIsSolved`, `NothingLess`), where keeping
none costs nothing.

What scaling does is the other half. `UnscaledCost` bounds by how much a selection within the scaled limit can
exceed it: the rounding of each stage is less than a unit. `TighterReadsMore` compares two limits that may be
scaled by different shifts. A looser limit has a shift at least as large, so that its unit is a multiple `m` of
the tighter one's (`LooserUnit`); dividing by `m` once more after rounding is the same as dividing at once, and so a
selection that fits the tighter limit fits the looser (`FitsLooser`), where nothing saves more than what was
kept. For the budget, `RoomForRounding` shows that five units are always there to be set aside: where there
is a shift, the limit is at least eight of its units.

`RequestAssumption` says that sizes, targets and budgets are natural numbers and that a budget is below half
of the address space, which leaves `Unsigned` nothing to wrap where there is `Room`.

### CompressorProofs: the bitplane codec

For every width and every set of differences, and stages of any length in bytes of any number of lanes:

| Theorem | States |
|---|---|
| `DecodingInvertsPrediction` | `Spec => []PlanesRecovered` |
| `QuantInvariant` | `Spec => []QuantInv` |
| `CodecTypes` | `Spec => []TypeOK` |
| `SplitsAreCorrect` | `Spec => []SplitsAddUp` |
| `ErrorIsBounded` | `Spec => []ErrorBounded`, for differences in `Representable` |
| `StagesAgree` | `Spec => []StageAgrees` |

`CodecInv` says that the contexts are the two decoded planes before `bit`, which with the lemma `XorTwice` is
all that `PlanesRecovered` needs. `QuantInv` adds that `quant` is the value of the planes merged: a plane loaded
later does not count, and the values of two sets of planes that do not meet add up as signed words (`ValueOfUnion`),
because what `ValueOf` adds up for a plane that is not asked for is the odd bits' share.

`ErrorIsBounded` is the selection's premise, that planes not merged cost no more than
`calcUncerntaintyNegaBinary()`. Merged, the first `b` planes are worth the index with its last bits replaced by
those of 0xaaaaaaaa (`FirstPlanes`). The last `W - b` odd bits, and what is left to a full word of as many
bits, are both at most the odd bits shifted right by `b` (`ShiftedOddBits`, from the odd bits being two thirds of
a full word), which is half of what that function returns; the rounding of `Index` adds the one error bound left.
`Representable` is the hypothesis: differences whose index leaves the top plane clear and whose number of
bounds is a signed word, -169 to 253 at 8 planes. It cannot be dropped, as the run `error_bounded` shows: the
code does not test it.

`StagesAgree` compares two decoders, one of values and one of bytes. `LoadedInv` says of the first what its contexts
come to: each plane is what is stored of it XORed with the two before it. `LoadedByteIs` says the same of a
byte, and `XorLanes` that the lanes of a byte are XORed each on its own, because a byte has the bits it was made of
(`LaneOfByte`: the lanes before one are worth a multiple of twice its own worth, those after it less than that).
So if lane and value start from the same bits they stay together (`LaneLoads`, an induction over the
planes, for any words around the value). What is left is that writer and reader agree where an index is: in the
`i % Group`-th lane of byte `i \div Group`, where `bitTranspose8()` puts it (`Transposed`), and where `add_to_quant()`
looks for it on both its paths (`PlaceInStage`, `AddedIs`).

### CompressorProofs: the walk

For every shape of one to four dimensions, every order of the directions and both interpolators:

| Theorem | States |
|---|---|
| `WalkInvariant` | `WalkSpec => []WalkInv` |
| `VisitsCorrect` | `WalkSpec => []EachElementOnce` |
| `PredictionsCorrect` | `WalkSpec => PredictorsAreFinal` |
| `CostsCorrect` | `WalkSpec => []CostCoversLoss` |
| `PaddingCorrect` | `WalkSpec => []PaddingFits` |

`EachElementOnce` alone is not inductive: it does not say *which* elements are done. `Done(l)` is the
grid that stage `l` finds: the elements whose coordinates are multiples of the stride times
`StrideMultiplication`. `OnLine(l)` is the grid refined along the stage's direction; its even places
are `Done(l)`, its odd ones are what the stage visits, and it is `Done(l + 1)`, also where the
direction is the level's last and the stride is halved (`DoneSplits`). So `WalkInv` says that an element
was written once when it is in `Done(lid)` and never otherwise. A predictor stands at an even place
(`WeightsAreOf`), hence is final; that it is inside the line is the case analysis of `Weights`.

`CostCoversLoss` needs an induction over stages. `Gain(l)` is what a lost index has cost when stage `l`
begins; `ReachInv` bounds `reach` by it, twice over for stage 0, whose anchor is both lost and predicted from.
The weights of a linear formula add up to sixteen sixteenths and those of a cubic one to at most twenty, with
their signs dropped (`WeighedSum`), and so a stage multiplies the reach by no more than the table charges.

### ArchiveProofs

For any number of blocks, components, commits and runs, any bytes, every base and width of the numbers, and a
writer that may die after any cell:

| Theorem | States |
|---|---|
| `ArchiveInvariant` | `Spec => []ArchiveInv` |
| `ArchiveReaderNeverLies` | `Spec => []ReaderNeverLies` |
| `ArchiveCloseCompletes` | `Spec => []CloseCompletes` |
| `ArchiveUnclosedIsEmpty` | `Spec => []UnclosedIsEmpty` |
| `ArchiveSizesExact` | `Spec => []SizesExact` |

The properties speak of files, the program of what it gave to stdio, of which any prefix may be on disk.
`ArchiveInv` follows both by what a file *holds* at which offset (`Holds`). While the writer runs and every write
succeeded, its stream begins with the header and a directory of zeros, and holds every committed block, as `commit_block()` put
it together, where the directory in memory says (`StreamInv`); the cursor is the prologue and what was reported
(`CursorInv`, which is `SizesExact`). A run that died left a prefix of the stream, so less than a prologue or a directory of
zeros (`FileInv`), in which no block has a size: `NothingToRead`. A run that came to `close()` left the whole
stream with the first `n` cells of its directory written over the zeros (`FileIs`), all of them when `close()` returned
true.

`Truthful` is about such files. An entry's size lies behind its offset, so when some cell of the size is written,
the offset is whole; and when none is, the size reads as zero (`EntryRead`). Hence a reader that finds a size
looks in the right place, even if the size it found is cut off. That one would be wrong is not enough to trust:
the reader compares it with what the block's own header announces, and the header it finds is the one
that was written (`HeaderFound`), the parts behind it are of the announced sizes (`PartsFound`), and so what it
returns is the block that was committed or nothing (`ReadsBlock`). Numbers come back as they were written if they
fit (`ValueOfNumber`, from the digits of a number adding up to it), which `RunFits` gets from `NumbersFit` and the
number of commits.

### RangeBundleProofs

For logs and streams of any length, and for the streams of any number of stages and planes:

| Theorem | States |
|---|---|
| `BundleInvariant` | `Spec => []BundleInv` |
| `AcceptedIsFaithful` | `Spec => []NoSilentZeros` |
| `RejectedReadMore` | `Spec => []NoFalseAlarm` |
| `BundleIsExact` | `Spec => ShipsWhatWasRead` |
| `BundlesFit` | `Spec => BundleRebuilds` |
| `LayoutInvariant` | `Spec => []LayoutInv` |
| `AccountsAreExact` | `Spec => AccountsAgree` |
| `SameBlocksRead` | `Spec => LandsOnTheSameBlocks` |
| `BuffersFill` | `Spec => []FetchedFillsItsBuffer` |

The lemma everything rests on is that `merge_ranges()` of any log is `Tidy`, ranges in order, none empty,
with a gap between each and the next, and has exactly the log's bytes (`MergeCorrect`). It is an induction
over the sorted log: joining the next range only touches the last one (`AddedTidy`). Two consequences carry
the rest. The ranges of a tidy table are disjoint, so their lengths add up to the number of bytes and each
has a place of its own among the shipped ones (`PackedIs`). And since there is a gap
between two ranges, bytes that are all shipped and form one range lie in *one* range of the table: this is why
testing each range alone in `ranges_cover()` raises no false alarm, and why adjacent ranges have to be joined.
`BundleInv` says what table, bytes and rebuilt stream are at each `pc`.

The last four are about the streams that `compress()` lays out, for any sizes of the planes. Writer,
decoder, counters and drivers each compute positions of their own; the proofs bring all of them down to
the entries of the size table, whose extents (`Start(t, i) + 1 .. Start(t, i + 1)`) are disjoint and as
long as the entries say (`ExtentsApart`). `CompressEntries` and `EveryEntry` say which block each entry
is, `AccessedBytes` that a log has the bytes of the entries in `ReadEntries`, `NeededEntries` that these
are the blocks the tolerance needs, and `RetrievedIs` that the counter is their number, counting the
header once although it is logged two or three times. `LayoutInv` adds to `BundleInv` that a bundle of
such a stream has the bytes of its first log until the second decode. So the header comes back, the second
decode reads what the first one read, and every frame is accepted (`SameBlocksRead`); and since the log is
neither empty nor reaches past the end, `touched_ranges()` never refuses it (`AccountsAreExact`).
`BuffersFill` compares the first bytes of each stage, which the drivers copy, with the last ones, which were
read (`StageCopied`, `StageRead`, `HeadAndTail`): they are equally many, and the same only when they are
all of the stage or none. That needs planes of stages with elements to have sizes above zero
(`SizesAssumption`), and stages to lie apart (`StagesApart`), lest the error in one be made up by another.

### ParallelDriversProofs

For any number of ranks, arrays, tolerances and variables, any data, failures anywhere, and both ways of sending:

| Theorem | States |
|---|---|
| `RanksInvariant` | `Spec => []RanksInv` |
| `CollectivesAreMatched` | `Spec => []CollectivesMatch` |
| `ReportsCorrect` | `Spec => []ReportsAreComplete` |
| `RangesInvariant` | `Spec => []RangesInv` |
| `RangesCorrect` | `Spec => []RangesAgree` |
| `FilesInvariant` | `Spec => []FilesInv` |
| `PartsAreTiled` | `Spec => []PartsTile` |

The programs of two ranks differ in the steps of the chain of offsets only, so that all ranks share a *trace*,
the program without them (`Trace`, `RanksFollow`). `Pos(r)` counts the shared steps a rank has done and
`Begun(r)` those it has begun. `RanksInv` says, for each rank: `Placed`, where it is in its program and how it
can have left it; `Kept`, that the collectives it has called and the arrays it has recorded are those of the
trace up to there; `Awaited`, that all ranks have begun every collective it had to wait for; and `Totalled`,
that a reduction all have begun has counted all arrays. `CollectivesMatch` follows: two prefixes of one trace
agree. For `ReportsAreComplete`, every program's last step is a collective that makes its root wait, and
a reduce comes after the last array.

`RangesAgree` also needs the order of the trace: before an array is recorded, a minimum and a maximum have been
reduced, both after the part was measured (`Fenced`, `Orderly`), which is proved of each of the nine programs from
the way it is put together. `RangesInv` says that two ranks at the same array have the same range, one may be
an array ahead but no more (`Together`), and that after the last reduction of an array the range
covers everybody's part (`Covered`). A collective changes the ranges of all ranks at once, so the proof shows
that no rank has gone past it yet and none is an array behind.

`PartsTile` is about the steps that the trace leaves out. Offsets travel along the chain while ranks are at
different files, so the proof first counts, for each rank, the parts it packed, the offsets it got and handed
on, and the files it opened, wrote and closed: `Turned` says that they follow one another in this order, file after
file, which is proved of the programs (`Ordered`). No rank closes a file before all have written it
(`Behind`, as a close binds all ranks), and so no rank is more than a file ahead. `FilesInv` then says
what the numbers mean: a message on its way is the end of its sender's part, and there is at most one (`Passed`);
nobody gets an offset before those in front of it have passed theirs on, and ranks at the same file have parts in their
order, neighbours' next to each other (`InFront`); one part per rank and file is written, as the rank
had it (`Stored`); and the parts in a file follow one another (`Tiled`). What a step adds to the numbers is
the same for all programs (`TallyIs`), which leaves six kinds of steps instead of one for each program.

### OperatorLemmas

What most of these modules need of the operators of the community modules, whose definitions are recursive: induction
over numbers from the well-founded order, that a recursive function obeys its equations, sums over finite sets
and their bounds, largest and smallest elements, powers, digits and what they add up to, and sequences flattened
from parts.

### Only model-checked

Every invariant and action property of a passing run is stated by a theorem. What is left to TLC is *liveness*,
`AllRanksExit` and `EveryIterationCounts`: fairness and ENABLED are beyond the prover. And TLC alone shows that the
models can break their properties when the code is wrong, by the mutants, and the four divergences.

## 6. Not modelled

* *Streams of several layers.* The encoder copies a second layer from a vector that was never filled,
  and an update adds to a buffer that was never set, before there is a state to speak of. The
  models are of one-layer streams. The command line writes no others: its ladders 1 (float) and 9
  (double) both have the single bound that `setupLayersFromRange()` gives them.
* *Unpredictable values.* No encoder records one. `isunpred` is cleared after every call and read by the
  next (IPComp.hpp:588), which is harmless only for that reason.
* *Casts of large numbers.* A target of more than 2^31 error bounds is cast to int (IPComp.hpp:390); a part
  of more than 2 GiB becomes the int count of `MPI_File_write_at`.
* *Memory.* The knapsack's table is allocated with the unscaled limit (IPComp.hpp:1589), and the bitrate
  mode reads one column past its uncertainty table, a value it never uses (IPComp.hpp:1661).
* *The end of MPI programs.* `para_IPComp_reconstructor.cpp` returns without `MPI_Finalize`, and its shared
  file is not truncated when it exists. Argument and partition parsing comes before the first collective.
* *Dead code*: the overload `strategy(levelSize, ...)` and the bit packing of widths other than one.
* *Floating point.* Values, wording and layout of output, timers and statistics.
* *zstd* (`tools/zstd`, vendored, by far most of the repository's lines) and the utilities inherited from SZ3:
  a block comes back as it was written.
* *The other quantities of interest* (V_TOT, C, Mach, PT, mu): square roots and powers; their loop is the
  one modelled.
* *Argument parsing and file input* of the drivers, which come before the first interaction.

## 7. Plan

Done, in this order: the decoder and its abstract store; the selection, and the decoder driven by it; the
bitplane codec, with the bound the selection counts on; the archive; the bundle; the ranks of all
programs; the QoI loop; the predictor; the proofs of the decoder and of plane recovery; the bitrate mode;
the stream layout and its composition with the bundle; the stage as bytes; the refinement over every behaviour; the
proofs of the QoI loop, of the walk, of the bundle and the stream layout, of the ranks, of the codec's error bound, of
the selection, of the parts in a shared file, of the archive and of the stage as bytes.

To come:

1. *Quantities with roots.* V_TOT and C, with estimates compared through squares instead of computed.
