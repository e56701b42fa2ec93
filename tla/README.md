# TLA+ models of NUISANCE3

NUISANCE3 reads neutrino-interaction events from generator files, normalises
them to a cross section, projects them into frames of rows, and fills binned
histograms that are compared with published data. This directory holds TLA+
modules of the stateful parts of that chain, TLC configurations that check them
on small instances, and proofs of the main results for every instance. Sources
are under `src/src/nuis/` of the repository; paths below are relative to that.

Run a check with `tlc -config X.cfg M`, a proof with `tlapm M.tla`.
Definitions whose name begins with `Fault` are seeded faults: plausible bugs of
the definition they stand beside, kept so that every property can be shown to
notice one.

## Inventory

| Part | State | Operations | Interacts with |
|---|---|---|---|
| `eventinput/HepMC3EventSource` | the open reader | `first` reopens the file, `next` | the file, which may go away |
| generator plugins (`eventinput/plugins`) | a ROOT chain and an entry number | `first`, `next` | ROOT files |
| `eventinput/NormalizedEventSource` | `xs_acc`, the wrapped source | `first` makes a new accumulator, `next`, `process`, `norm_info` | shares the wrapped source with other wrappers (`force_fatx`) |
| `eventinput/CombinedNormalizedEventSource` | `src_it`, a status per component | `first`, `next`, `next_src`, `norm_info` | owns or shares its components |
| loopers (`IEventSourceIterator`) | the event held | begin, `++`, end test | call `first` once, `next` until nothing comes |
| `eventinput/EventSourceFactory` | search path, plugins | `make`, `make_unnormalized`, `resolve` | tries plugins by calling `first` |
| `eventframe/EventFrameGen` | `ev_it`, counters, error flag, columns, filters | `first`, `next`, `all`, `firstArrow`, `nextArrow` | a looper over a normalised source; copies share the source |
| `eventframe/EventFrame` | a table | lookup by name | fed to the analyses |
| `binning` | edges or extents | `find_bin` per factory, ordering, overlaps, products | used by histograms |
| `histframe` | contents, variances, counts | `fill`, `finalise`, `reset`, project, slice | filled from frames (`frame_fill.h`) |
| `record` | tables, caches | analyses process frames into comparisons | plugins read HEPData and NUISANCE2 |
| `weightcalc` | parameters, oscillation channel | `set_parameters`, `calc_weight` | external libraries |
| `response` | knots | spline evaluation | |
| `convert`, `python`, `app` | none of their own | | forward to the above |

Everything runs in one thread. What is hard is therefore not parallelism but
protocol: sources are shared through pointers and rewound by `first()`, cursors
survive an earlier pass, calls fail half-way by exceptions, files disappear, and
counters meet limits, chunk sizes and ends of files on the same event. The
hazards are listed in `PROJECT.json` with the properties that cover each.

What makes each part correct: a reader hands out a file front to back; an
accumulator counts the events its wrapper handed out, no more and no fewer; a
combination is an interleaving of its components in which none is starved; a
frame generator hands out the events that pass, in order, once, but for what an
exception takes with it, and estimates that cover the events looped over; a
search finds the bin that contains the value; a histogram's sums are those of the fills; an analysis does not depend on
how its input is cut into batches.

## How the modules fit together

| Layer | Modules | Proofs | Run on |
|---|---|---|---|
| files to events | `EventInput` with `GHepConversion`, `FlatTreeConversion` | `EventInputProofs` | `MCEventInput` |
| one reader, several wrappers | `NormalizedSource` | `NormalizedSourceProofs` | itself |
| several sources | `CombinedSource`, abstractly `Merge` | `CombinedSourceProofs` | itself |
| events to frames | `EventFrameGen` | `EventFrameGenProofs` | itself |
| frames to histograms | `FrameFill` | `FrameFillProofs` | `MCFrameFill` |
| binnings and histograms | `ContiguousSearch`, `HistOps`, both over `Binnings` | `BinningProofs` | itself, `MCHistOps` |
| records to comparisons | `Analysis` | `AnalysisProofs` | `MCAnalysis` |

`SequenceFilter` is the selection from a sequence and `Sums` has sums and
products of numbers, both as recursive functions of the prefixes, and
`DataLemmas` is what the proofs need to know of sequences, sums, division and
recursive functions.

Each layer takes the one below by what that one is shown to promise: wrappers
take a reader that goes through its file, `CombinedSource` takes components that
deliver their events in order, `EventFrameGen` a source that is any sequence of
events, nulls and exceptions, `FrameFill` frames of rows, and `Analysis` frames
whose last row carries the estimate of the events looped over (`EstimateIsWhatWasLooped`)
and a `fill` that puts each row into its bin (`CellsHoldTheirRows`,
`FindsTheBin`).

What a further module could add: two generators that share one source, columns
added to a generator after its first frame, and the weight calculators on top of
`EventInput`.

## Modules

**`CombinedSource`** models `CombinedNormalizedEventSource` (and the looper of
`IEventSourceIterator.cxx`). A component is a number of events `size[c]` and the
position `seen[c]` of its reader, which is also the count of its accumulator; it
survives the combination's `first()`, which restarts component 0 only
(`FirstDelivers`, `FirstFails`). `next()` is `CallNext` followed by one step per
iteration of its loop: `VisitDelivers`, `VisitDry`, `ReturnNothing`. `IsNextSrc`
is `next_src()`: the scan starts at `(i + 1) % N` and does not wrap. `NormInfo`
is `norm_info()` with the average replaced by the set of components that entered
it. `FairSpec` is the thread that is inside `next()`, for instance in the
range-for loop of `nuis-tohepmc3`. A component is an environment: its `first()`
may fail only by being empty.

**`Merge`** is what a consumer relies on: an interleaving in which every
component gives its events in order, once per pass. `CombinedSource` maps to it
by `taken[c] = 0` while `status[c] = "kFirst"` and `seen[c]` afterwards.

**`NormalizedSource`** models one `HepMC3EventSource` with the
`NormalizedEventSource`s around it: `Make` is the factory's construction and
test read, `Restart`/`Advance` are `first()`/`next()` of a wrapper,
`RawFirst`/`RawNext` those of the raw source, `FileComesAndGoes` is the
environment. `Process` is `process()` with its result: an event, nothing, an
exception (wrong units) or a null dereference; `alive` records the last. A
wrapper in `External` comes from `force_fatx()` and needs no event to make its
accumulator. A file with run_info that no accumulator understands is `~hasXS`.

**`EventFrameGen`** models `first`, `next`, `all`, `firstArrow`, `nextArrow`.
The source is reduced to what each of its calls does: it delivers an event,
nothing (`none`) or throws (`fails`), as `NormalizedEventSource::process()` and
the conversions of the plugins do; an event is reduced to what cuts and
projections make of it (`keep`, `cut`, `throws`). One step is one iteration of
the row loop; the steps between two returns are `Inside`. `next` and
`_nextArrow` contain the same loop twice in the source, once for each kind of
frame; the model has it once, with `arrow` for the difference: only the arrow
calls remember a failure of a filter or a projection, and only they return no
batch at the limit (`null`, in `ReturnAtLimit`) where `next` returns a frame
without rows (`empty`), as both do at the end of the source. An exception leaves
a call through `LeaveCall`: the rows of the frame are gone and `ev_it` stays
where it is. That is the event that threw in `Throw`, but in `AdvanceFails`,
where `++ev_it` throws, an event that was counted before, which the next call
loops over again. An estimate is the number of source calls it covers.
A chunk of no rows (`nchunk = 0`), for which the code writes beyond the frame, is
excluded.

**`ContiguousSearch`** models the function that `Binning::contiguous` returns:
the early returns, then `GoRight`, `GoLeft` and `Leave`, one iteration each, on
indices modulo `SizeMod`. Values are integers, since the search only compares.
An abnormal number (subnormal, infinite, NaN) is `~normal` and gets `npos`; a
Debug build throws there instead.

**`FrameFill`** models `fill(HistFrame, EventFrame)`: `Fill` is everything up to
the rows, with the histogram columns it adds (`PlannedColumns`) whether or not
it then fails; `FillRow`, `SkipRow`, `ThrowAtRow` are the iterations of
`fill_loop`, whose targets are filled one after the other (`FillBin`).
`SeenBefore` is the dictionary of unlabelled categories rebuilt
from column names. `MCFrameFill` chooses the calls. A column name is a tuple, so
the formatting and parsing of `"process.id:7"` is `Category(7)`; a row carries
what decides its fate. The prebinned fast paths fill the same cells as the loop
does for a plan without condition or categories.

**`Binnings`** has the binnings of `BinningFactories.cxx` with the search each
one makes, as operators: `lin_space`, `lin_spaceND`, `log_space`, `from_extents`
by columns of bins, `brute_force` and `binning_product`, and the checks for
uniqueness and overlap. A coordinate that is not normal is `NaN`, which stands
for itself and is no edge. `IsPart` and `IsProduct` say which binnings the
factories can make.

**`HistOps`** is a user with one histogram over such a binning: `Init` makes it
(or is refused), `Fill` and `FillEverywhere` fill it through `find_bin`,
`Project`, `Slice`, `Copy`/`AddCopy`, `Scale`, `Finalise`, `ToCount` and
`ToCountDensity` are the functions of `histframe/utility.cxx` and `HistFrame`.
`Add()` compares no binnings: `AddCopy` asks only for the shape that Eigen asks
for, and adds cells by their place, whatever bins these are in the two
histograms. The history `entries` follows each fill through the operations, and
those of a histogram that is added to the bins at the same places. Contents are
integers in units of `1 / Unit`, so dividing by a bin's size is exact; a history of that
kind stands for the real-valued contents, which are sums of the same terms.

**`GHepConversion`** and **`FlatTreeConversion`** are the conversions of a GENIE
record (`ghepconv`) and of an entry of a flat tree (`ToGenEvent`) to an event,
with particles sorted into vertices and the process codes. Momenta and units are
left out. **`EventInput`** is the way from a request to events: `AddEventPath`
and `Make` are the factory (`Resolve` is the path resolution, `Order` and `Tried`
the plugins, static or dynamic), `First`, `NextOfChain` and `NextOfReader` the
cursors of the plugins, `AskRecord` is `EventRecord()`, `neutvect()` and the
like, through which the reweighting libraries get the generator's own record of
an event the user holds.

**`Analysis`** is a record that is asked for an analysis (`Make`, `CannotMake`;
`AnalysisOf` is `HEPDataRecordPlugin`), which then processes sources, one source
per distribution, frames, further batches and tables (`Process`, `ProcessEach`,
`ProcessFrame`, `ProcessFurther`, `ProcessTable`) and is asked for what its
distributions share (`Ask`). A call works on `[ok, predictions, results]`; an
exception clears `ok` and leaves what was filled, as it does in the code. For a
source without events the constructor of `EventFrameGen` throws: `Process` before
anything is reset, `ProcessDistSource` before its own distribution is, when
earlier ones are filled already. `ProcessBreaks` and `ProcessEachBreaks` are the
same calls when an event throws on the way: the frames before the one that is
lost (`FramesBeforeThrow`) stay in the predictions.

`ProcessFrames` is the loop over frames, a recursive function of how many there
were. The loops over distributions inside it (`ProcessBatched`) and around it
(`InTurn`) are written as what each distribution gets: a distribution
touches nothing of another, so all that the order decides is which ones are
reached when one throws (`reached`: no earlier one could not be processed). A
chunk of a frame is the rows between two of its ends (`ChunkEnd`). The estimate
is the number of events it comes from, a scale the parts it is made of. A row has
the number of events looped over when it was made; in a frame that is not full
`FinalEstimate` gives its last row the number of all events, those cut after it
included, as `next()` does after its loop. When the rows fill their frames
exactly, there is no frame with a row left for the events cut after them.

## Runs

| Run | Instance | What it shows |
|---|---|---|
| `combined` | 3 components of 0..4 events, readers anywhere | order, completeness, round robin, the early end, `norm_info()`, refinement of `Merge`; the loop over the source ends |
| `combined_end` | 2 components | a disagreement with a comment, see Findings |
| `shared_reader` | 2 wrappers (one external), raw user, 3 events, any of them rejected | accumulators count what was given, shared readers split the file, no null dereference while the file stays |
| `frame` | 4 calls of the source of any outcome, limits 0..5, chunks of 1..2, a source that may throw, or deliver after it returned nothing | rows, drops, limits, estimates, failures; `all()` is complete over files and returns |
| `frame_estimate` | as `frame` | a disagreement with a comment, see Findings |
| `contiguous` | up to 5 bins, edges among 9 values, every value inside and outside, on and between edges | the search returns the right bin, in range |
| `fill` | 1 bin, 2 categories, 3 rows in batches of up to 2, 3 plans that fill, 3 that fail | columns once, cells and counts exact across batches, failures, resets |
| `histogram` | every list of up to 2 extents on an axis, 5 lists on two axes, 3 uniform binnings; 2 operations besides a copy and a run of fills | what is refused, the search of every factory, contents after any operations |
| `event_input` | every kind of file at two places with every request, in both builds; about 200 GENIE records and 50 flat-tree entries | the right file is read, a pass is the chain, records looked up, conversions whole |
| `event_record` | the same | a disagreement with a comment, see Findings |
| `analysis` | 19 measurements of up to 3 distributions, 5 sources, 2 sets of columns, 3 calls | predictions, scaling, failures half-way, sources without events, events that throw |
| `analysis_projections` | the same | a disagreement with a comment, see Findings |

Why the bounds are enough. Three components are the least for which the scan's
missing wrap-around matters both at the lower and the upper end (with two, every
live component is next to the end); four events let one component be ahead by
more than the two that `EndLosesOnlyLongTails` speaks of, and the results that
matter most are proved without bounds. Two wrappers and a raw user are one of
every kind of user and three events are a first, a middle and a last one;
`MaxGiven` exceeds the length of the file, so a reader is always run past its
end. Four events and chunks of two give two full chunks, a full and a partial
one, and limits inside, on and beyond each boundary; four calls of the source
have room for two that fail in a row between two events. Five bins give searches of
three iterations to both sides. `SizeMod = 16` is above twice the bins, which is
what the code has: a vector cannot hold half of the address space. Two
categories and one label give a labelled, an unlabelled and a category out of
the labels; three rows in batches of two make a batch after a batch in which the
columns of the first are found again. Histogram columns are bounded by the names
that can occur.

For `histogram`, the lists on two axes are the least that are no product of axes
(`Pinwheel`), have a column between two that hold a value (`Staircase`), overlap
or repeat. `FillEverywhere` into an empty histogram and `Copy` are not counted as
operations, so two operations are made on a filled histogram, the second on the
result of the first, or a histogram is projected or sliced and the copy that was
kept is added to it: also one of as many bins in another order.
For `event_input`, three entries with the one that cannot be converted in the
middle, and every GENIE status in every place the conversion tests; `MaxPast`
reads one past the end. For `analysis`, chunks of two rows and sources of up to
five events give full, partial and cut-empty chunks, with and without a row for
the events cut at the end, and one source has no events; three calls are a call that
fails half-way, one after it, and one more; measurements agree and differ in
selection, projections and units in all combinations the code distinguishes.

`CHECK_DEADLOCK FALSE` is used where the system really stops: `contiguous` (the
call has returned), `shared_reader` (its histories are bounded by `MaxGiven`, and
a crash ends the process), `histogram` and `analysis` (the bounds `MaxOps` and
`MaxCalls`, or nothing was made), `event_input` and `event_record` (no source
was made, or the factory crashed).

Fairness. Everything runs in one thread that does not block, so inside a call
the next step is always taken: `CombinedSource!FairSpec` is fair to the steps of
`next()`, `EventFrameGen!FairSpec` has `WF_vars(Inside)` for a thread inside a
call but nothing on the user's decision to make the next call, and
`FairSearch` of `ContiguousSearch` has weak fairness of `SearchNext` for one
call.

## What the properties say

The state of `CombinedSource` survives `first()`, so its properties relate the
stream of the current pass to cursors of earlier ones: `StreamInOrder` (nothing
repeated or invented), `NothingSkipped` (nothing dropped), `FinishedIsDrained`,
`RoundRobin` (live components at most one event apart), `EndLosesOnlyLongTails`
(the price of not wrapping around is bounded), `NormInfoCountsPass` (the
normalisation may include an earlier pass, but only until every component was
restarted).

In `NormalizedSource`, `AccumulatorCountsGiven` relates each accumulator to the
events its own wrapper delivered, `EachEventReadOnce` relates all users to the
one file, and `ReadsAreGiven` says that only rejected events are lost between
them. `GoodSourceSurvives` has a premise, that the file stays, because the
code dereferences a null event otherwise; the model has that crash.

In `EventFrameGen`, `RowsAreTheKept` and `NothingDropped` relate rows, events
looped over and calls made, also over exceptions: which rows may be missing, that
they are those of one frame for each failure, and that an event is looped over
again only when it was held through a call of the source that failed.
`EstimateIsWhatWasLooped` relates the estimate
column to the same events, and `WithinLimitAndChunk` the counters to the events
and rows when two limits are met at once. `AllIsComplete` is about files only:
over a source that resumes, `all()` stops at the first frame without rows.

In `FrameFill`, `CellsHoldTheirRows` compares every cell with the rows filled
since the last reset by the plan each was filled under, through column names,
while the actions work with column positions, and asks that every column a
filled row belongs to is there.

In `HistOps`, `FindsTheBin` compares every search with membership in the
extents, and refusals with the points themselves; `CellsHoldTheirEntries`
compares contents after any sequence of operations with the history of single
fills, so that a merge of bins may neither lose nor double one. Of a sum it says
that the cells at the same place are added; that the two histograms have the same
bins there is not promised by the code and not by the property.

In `EventInput`, `ReadsWhatWasNamed` compares the chain a source reads with a
search of the disk written anew; `PassIsChain` relates the events of a pass to
the entries behind the cursor, over exceptions and lookups in between;
`LookupRightAfterReading` is the part of `LookupReturnsTheEvent` that holds;
`ConvertedIsWhole` compares the final state of an event with the particles of
its record.

In `Analysis`, `PredictionsOfThisCall` and `ScaledByLastEstimate` compare what a
call returns with a count over the events it was given, by each distribution's
own selection and projections, and with the latest estimate there is in any row
(`LatestEstimate`), whatever call threw before. What a call that threw has left
is not spoken of until the next call that resets it. `SharedByAll` relates the
one selection, projection list or scale that stands for all to each of them; of
the projections it says what the code does, that they are those of the first
distribution and that the others may have another first one.
`PredictionsOfThisCall` leaves out the distributions that differ in their first
projection only, for which `EachDistributionIsItsOwn` is violated (Findings).

## What is proved

`CombinedSourceProofs`, for every `N >= 1` and every `MaxSize`
(`NAssumption`, `MaxSizeAssumption`):

- `TypeCorrect`: by itself inductive; `ScanStart` shows that `(i + 1) % N` stays
  in range for `i = N` too.
- `StreamStaysInOrder`, `NothingIsSkipped`, `GivenUpWhenDrained`: the invariant
  is `ReadInv`. None of the three is inductive alone: a repeated event is ruled
  out only because the reader's position bounds what was returned, and a
  component is drained only because its position never passes its size.
- `RobinIsRound` and `EarlyEndIsBounded`: the invariant is `TurnInv`. `Served(c)`
  says whether `c` has had its turn in the present round; `Balanced` says that
  live components agree once that turn is discounted; `BeyondLast` says that,
  after the last component was given up, the others that live have passed it. The
  end can be reached only when the last component is given up, which turns
  `BeyondLast` into the bound.
- `Refinement`: every initial state and step maps to one of `Merge` or to a
  stutter.

`BinningProofs` has, for `Binning::contiguous`, every number of bins below half of
the range of `size_t` and all strictly increasing edges (`SizesAssumption`):
`SearchTypeCorrect`, `SearchFinds`, `SearchStaysInRange`, `SearchShrinks`. The
invariant is `SearchInv`: the edges increase and, during the search,
`binEdges[L] <= value < binEdges[R + 1]` with `L <= R`. It shows that `m - 1` is
never computed at `m = 0` and that the `return npos` after the loop is not
reached.

For `HistOps` it has `HistTypes`, `EverySearchFindsTheBin` and `NoEntryIsLost`, for
any bins asked for, any number of axes, any axes of `lin_spaceND`, edges of
`log_space` and products of such binnings, any weights, any ends of slices and any
number of operations. None of the three properties is inductive.

- The search of the histogram one works with is right only because that of every
  binning an operation may have made before is. `HistInv` says it of the histogram
  and of the copy the user keeps: its bins are bins (`IsBins`) with none twice, and
  its binning `Finds` them, that is, its search is right for every point of
  numbers, not only for those that were looked for.
- The contents of a bin are the sum over the history of what each entry puts into
  it (`Holding`). This is kept by a projection only if no bin is there twice in
  the old histogram and every bin has one image in the new one (`ProjectedBins`,
  `CollectsMerged`), and by a slice that drops an axis only if the bins left are
  told apart by the other axes (`SlicedBins`, `CollectsSelected`).
- `Finds` is shown per factory. `ColumnsFind`: the first hit among all columns that
  contain the value is the bin because a point is in no two bins, which the
  factories check for (`RefusedUnlessOneHome`), and every bin is in a column
  (`ColumnsHold`). `LinSpaceFinds` and `ProductFinds`: the index is a number with
  digits of different sizes, and a bin contains the point exactly when each of
  its digits is right (`FoundByDigits`, from `MadeOfDigits` and `HasItsDigits`).
  `LogSpaceFinds`: the number of edges at or below a value is the place of its bin.
- The invariant holds initially because an empty histogram holds no entries, and
  each operation has a lemma that it keeps it.

`HistInv` speaks of all integers and all points, which TLC cannot enumerate; what
TLC checks of it are the properties it implies, at the points of `Coordinates`.
The assumptions: coordinates are numbers, finitely many, and weights are integers
(`PointsAssumption`). What a factory is given is nothing or bins with the same
number of axes, for which `unique()` throws otherwise, none of them empty: the
code does not check that an extent ends above its start and leaves it to the
caller, and nothing can fall into such a bin. The lower ends are among the
coordinates (`GivenAssumption`), without which an overlap of two bins would not
show in `FindsTheBin`, whose points are those of `Coordinates`. The other binnings
are what `lin_spaceND`, `log_space` and `product` return, for axes whose bins have
integer widths (`UniformAssumption`).

`NormalizedSourceProofs`, for every set of wrappers, any of them external, and
every length of file: `ReaderTypeCorrect`, `AccumulatorsCountGiven`,
`EventsAreReadOnce`, `GoodSourcesSurvive`. The invariant is `SourceInv`. Its
strengthening is that a wrapper that was handed out has an accumulator, without
which `process()` could dereference null, and that a file that is away was
removed; `FirstCases` and `GiveKeepsCount` are the two facts on which every
action rests.

`EventFrameGenProofs`, for every source, limit and chunk: `GenTypeCorrect`,
`NoEventDropped`, `LimitAndChunkHold`, `EstimatesAreOfTheLooped`. The invariant is
`GenInv`. `NothingDropped` alone is not inductive. Whether the event in the
iterator was looped over depends on whether the loop was left by `break`, on its
way out or by an exception: `StreamInv` says that after the loop it was
(`AllLooped`), and that the iterator holds what the last call of the source that
did not fail has delivered (`HoldsLast`). How often it was is bounded by the
calls that failed since (`UpToHeld`), of which one is left to spare unless it was
just looped over; that is what orders the repetitions, and what bounds their
number by the calls of the source. The bound of the chunk needs that the loop is
entered with room below both limits (`LimitInv`), and the estimates that only the
last row of a frame is changed (`EstimateInv`).

`AnalysisProofs`, for every record and any number of distributions, from
`MeasurementsAssumption` (a measurement that is made an analysis of has a list
of distributions, of one unless it is a composite): `AnswersHoldForAll`, that the
selection and the scaling that stand for all are those of each, and the
projections those of the first. The invariant `SharedInv` ties the analysis to
the measurement it was made of; the lemma `EachFindsItsOwn` is the argument that the one element that stands for all,
or the one of its own, is what each distribution has. The other theorems of
`Analysis` are below.

What a selection from a sequence, a sum, a product or a concatenation is, for every length,
needs an induction. The library states induction for an operator as a parameter;
`DataLemmas` has it for sets of numbers instead (`NatSetInduction`: a set of
numbers that has 0 and is closed under successors is all of them), proves from
it what `OnlyIn`, sums, products and `FlattenSeq` are one element further, how many
of the places of a sequence hold what is kept of it (`PlacesOfKept`) and that
steps of one chunk reach every length (`ChunksReach`), and the theorems below cite
only those facts.

- `NormInfoIsOfThePass` (`CombinedSource`): `CountInv` says that what the
  components restarted in this pass have seen adds up to the length of the stream;
  `norm_info()` adds all of them, so it has no more only once none is left over.
- `ReadsReachTheirUser` (`NormalizedSource`): `GivenInv` adds to it that a wrapper
  that was handed out can normalise what it reads, without which a read would be
  lost that is not of a rejected event.
- `RowsAreTheKeptEvents`, `AllReturnsEverything` (`EventFrameGen`): `RowsInv` says
  that the rows handed out and those of the frame being filled are, together, in
  the order of the source and of kept events looped over, and that each that is
  missing was lost at a failure after it (`RowsOk`). That no more than a chunk is
  lost at once needs that the frame being filled has every kept event since its
  first row (`Whole`, `FrameLost`); `PassInv` that what was looped over keeps what all calls before the event in the
  iterator delivered, and why `next()` returned a frame without rows.
- `FillTypeIsOK`, `FilledCellsHoldTheirRows` (`FrameFill`): `FillInv`. The cells
  alone are not inductive. A row is put into the right cells only because, during
  the rows, the histogram has the columns of the plan and the list of
  unlabelled categories agrees with the columns (`PlanHasColumns`, `CategsAre`),
  which survive the end of a call as names only; and a column that is added may
  be empty only because every column an earlier row belongs to was already there.
- `NumFillsCountsFills` (`FrameFill`): the fills in the cells are a set
  (`FillsIn`), of which `num_fills` has to be the cardinality. `CountInv` adds that
  it is finite; a row adds as many fills as it has columns because `FillInv` has
  no column among them twice (`TargetsAre`, `FillsAdd`), and a column that is
  added adds none (`ResizedFills`).
- `EventInputTypeIsOK`, `PassesAreChains`, `RecordsRightAfterReading`
  (`EventInput`): `InputInv`. `SessionInv` ties the files, the request and the search
  path to one session, so that a chain is a sequence; `SourceInv` says that the
  source that is made has a first entry that can be converted, because the
  factory took the run information from it; `PassUpTo` is the pass up to the
  cursor; `CursorInv` has, for chains, that the entry that is loaded is that of
  the cursor while no record was asked for, and, for flat trees, that `ient` is the
  length of the pass. `SessionsAssumption` is what a session is: a build, a search
  path and names that are lists, and files whose entries are lists.
- `NamedFilesAreRead` (`EventInput`): the property looks for a name on the disk
  from the working directory on, the code through the cases of `resolve()` and a
  fallback to the name as it was written; `FirstPlaceIsLocated` shows that these
  agree, for a name that is absolute, remote or in several directories. A chain
  holds the entries of the files of its plugin and no others (`ChainHolds`,
  `ReadsNamedFiles`), and every plugin was tried before the factory gives up
  (`GivesUpWhenNull`). `NamesAssumption`: every file has a name.
- `ConvertedEventsAreWhole` (`EventInput`): `WholeInv`, which adds to `InputInv`
  that every event held is the conversion of its entry, made under the run
  information of the source. The rest is about the conversions themselves, for
  stacks of any length: where `Place` puts each particle, that the beam, the
  target and every particle of the final state is put in one place and no other
  takes it over, and that a record that ends without one of them throws. It holds
  for records as their generators write them (`RecordsAssumption`): a GENIE stack
  has nothing in the initial state but the probe at 0, what it scatters off at 1
  and at most one electron, no nucleus among the particles inside the target, and
  no remnant of a free proton; a flat tree lists its neutrino once. A stack with
  two beams would lose one of them without a word, and this is what the
  assumption excludes.
- `AnalysisTypeIsOK`, `PredictionsCountThisCall`, `LastEstimateScales`
  (`Analysis`): `FillInv`, on top of `SharedInv`, for all sources, chunks, bins,
  columns and numbers of distributions (`SourcesAssumption`: a source is a list).
  The properties are nearly inductive over calls, since each call but
  `ProcessFurther` starts from nothing; what has to be shown is inside a call. One
  batch adds the count of its rows to each distribution it reaches (`BatchCounts`),
  so after `k` frames a distribution has counted the rows before the end of chunk
  `k` (`FramesFill`, by induction over `k`), and after the last one all of them.
  Rows that a selection cut before they got into frames are counted as before,
  since selecting twice selects once (`OnlyInTwice`), and so is the last one with
  the estimate of all events (`SameEvents`); `FramesOfSource` puts the two
  together. The distributions with a source each are filled in turn, some not
  reached (`InTurnKeeps`). `RightFor` is what a call
  must end with for each distribution, `ConcludeKeeps` that this is enough, and
  each action has the lemma that it does.

Only model-checked: the liveness properties (`LoopEnds`, `AllReturns`,
`Returns`), since fairness is outside the prover. Every safety invariant and
action property of a passing run is a theorem.

## Findings

- `combined_end`: `CombinedNormalizedEventSource.cxx:85` takes `src_it` at the
  end for "all sources empty". `next_src()` does not wrap around, so the stream
  ends when the last component is dry although a lower one has events. What is
  lost is bounded from below by `EndLosesOnlyLongTails`: only tails that reach
  at least two events beyond the last component. With three or more components
  the stream may even deliver again after it has returned nothing.
- `frame_estimate`: `EventFrameGen.cxx:199` wants the last rows to carry the
  final estimate also when the last events are not selected; when a chunk fills
  exactly before them the following frame has no row to carry it.
- `event_record`: `GHEP3EventSource.cxx:867` does not read an entry "if we don't
  need to", which it takes from the entry `next()` has read; it forgets the
  entry it has read itself, so after a lookup of an older event the newest
  event's record is that older one. GENIE and nusystematics weights are computed
  from it.
- `analysis_projections`: `HEPDataRecordPlugin.cxx:485` compares lists of
  projections from the second on, so distributions that differ in their first
  projection are all filled by that of the first one.

## Not modelled

Numbers: weights, cross sections, roots of errors and splines are floating
point, which TLC and TLAPS do not have; where only their bookkeeping matters
(which events an estimate covers, which rows a cell holds, which fills are
squared) that is modelled. With them go two errors of the code that show in
numbers only: the errors of a projected `BinnedValues` lose their root and those
of a sum are made from the values (`histframe/utility.cxx:172` and `:396`).

The weight calculators and framed responses hand an event or a parameter to an
external library and return its number; what they depend on in the repository,
the record of the event, is in `EventInput`. `NUISANCE2Record` calls an
installation of NUISANCE2, and the HEPData library parses and validates its
tables before `Analysis` begins. `neutvect` and NuWro events are converted by
their own libraries. Logging, formatting, printing and the Python layer forward
data.

What a user does with the results of a generator is not modelled either. The loop
that `eventframe/README.md:431` shows, `while(batch)` over the batches of
`firstArrow` and `nextArrow`, does not end at the end of a source, where every
further call returns a batch without rows (`EventFrameGen.cxx:590`); only at the
limit, which that loop does not set, is there no batch (line 343).

Two things that callers of the code have to see to are modelled as they are and
not judged: that two histograms that are added have the same bins, and that a
generator that has thrown is started again if no row may be missing.

An empty combination (`next()` divides by zero), frames of no rows
(`nchunk = 0`, a write beyond the frame), `next()` before `first()` on a
generator (uninitialised members), a column added after `first()` (a write beyond
the row) and labelled categories with negative values (an index before the
array) are undefined from the first step; the models begin where the code is
defined, and `PROJECT.json` lists these as hazards without a property.
`Binnings` has the search of `brute_force`, which puts a coordinate that is not
a number into the first bin where the other factories find none; `histogram`
looks for numbers only. `PROJECT.json` has the status of every component.
