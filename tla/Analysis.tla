------------------------------ MODULE Analysis ------------------------------
(***************************************************************************)
(* A record is asked for an analysis of one of its measurements            *)
(* (RecordFactory, HEPDataRecordPlugin), of one distribution or several,   *)
(* which processes event sources, frames and tables into comparisons       *)
(* (SingleDistributionAnalysis, SingleFluxAnalysis).                       *)
(*                                                                         *)
(* A measurement is [name, composite, subs, probes, subProbes, chi2,       *)
(* errorBins]; a distribution of it, in subs, is [select, projs, bins,     *)
(* units, smearing]: the name of its selection, the names of its           *)
(* projections, the point that each bin holds, the parts of its units, and *)
(* its smearing matrix or <<>>.  An event gives each selection and         *)
(* projection, by name, a value.  All weights are 1.                       *)
(***************************************************************************)
EXTENDS SequenceFilter, FiniteSets, SequencesExt
LOCAL INSTANCE FiniteSetsExt

CONSTANTS Requests,    \* [type, record, name], a record being a sequence of measurements
          Sources,     \* sequences of events
          ColumnSets,  \* columns of the frames and tables that are passed in
          ChunkSize,   \* rows of a frame made of a source, and of a batch of
                       \* a table; 1E4 for the former in the code
          MaxCalls     \* bound: calls that process something

ASSUME BoundsAssumption == ChunkSize \in Nat \ {0} /\ MaxCalls \in Nat
ASSUME SourcesAssumption == \A source \in Sources : source \in Seq(ToSet(source))

VARIABLES
  measurement, \* the measurement found, or none
  analysis,    \* the analysis made of it, or none
  predictions, \* contents of the bins of each distribution
  answer,      \* what the last call returned or threw
  calls,       \* the number of calls, see MaxCalls
  given        \* history: the rows each distribution was given since its
               \* prediction was reset, whether its selection cut the frames,
               \* and FALSE in known once something was thrown

vars == <<measurement, analysis, predictions, answer, calls, given>>

None == [kind |-> "none"]
Thrown == [kind |-> "thrown"]
Comparison(results) == [kind |-> "comparison", predictions |-> results]
Shared(what, value) == [kind |-> what, value |-> value]

-----------------------------------------------------------------------------
(* get_units_scale(), which takes the parts of the units in the order of   *)
(* their names; A is twice N and twice Z in all targets here.              *)
TargetScale(units) ==
  CASE {"PerNucleon", "PerTargetNeutron", "PerTargetProton"} \cap units # {} -> "PerNucleon"
    [] "PerAtom" \in units -> "PerAtom"
    [] OTHER -> "CustomType"
UnitScale(units) == IF {"pb", "cm2"} \cap units = {} THEN "CustomType" ELSE "known"
ExtraTargetScale(units) ==
  IF {"PerTargetNeutron", "PerTargetProton"} \cap units = {} THEN 1 ELSE 2

XSScaling(sub) ==
  [tgtscale |-> TargetScale(sub.units), scale |-> UnitScale(sub.units),
   extra_scale_factor |-> ExtraTargetScale(sub.units),
   divide_by_bin_width |-> "per_bin_width" \in sub.units]

Each(seq, Op(_)) == [i \in DOMAIN seq |-> Op(seq[i])]

SelectionOf(sub) == sub.select
ProjectionsOf(sub) == sub.projs

(* One list is kept when all are the same.  Lists of projections pass for  *)
(* the same also when they differ in their first projection.               *)
SameSelection(subs) == \A i \in DOMAIN subs : subs[i].select = subs[1].select
SameAfterFirst(projs, others) == Len(projs) = Len(others) /\ Tail(projs) = Tail(others)
SameProjections(subs) == \A i \in DOMAIN subs : SameAfterFirst(subs[i].projs, subs[1].projs)

FaultOneOrEach(same, seq) == IF same THEN <<Head(seq)>> ELSE Tail(seq)
OneOrEach(same, seq) == IF same THEN <<Head(seq)>> ELSE seq

FaultSingleFlux(subs) ==
  [kind |-> "multi",
   selections |-> OneOrEach(SameProjections(subs), Each(subs, SelectionOf)),
   projections |-> OneOrEach(SameProjections(subs), Each(subs, ProjectionsOf)),
   xsscales |-> Each(subs, XSScaling)]

SingleFlux(subs) ==
  [kind |-> "multi",
   selections |-> OneOrEach(SameSelection(subs), Each(subs, SelectionOf)),
   projections |-> OneOrEach(SameProjections(subs), Each(subs, ProjectionsOf)),
   xsscales |-> Each(subs, XSScaling)]

SingleDistribution(sub) ==
  [kind |-> "single", selections |-> <<sub.select>>, projections |-> <<sub.projs>>,
   xsscales |-> <<XSScaling(sub)>>]

(* probe_particle_to_pdg() of a name; a number stands for itself.          *)
Neutrinos == [numu |-> 14, numubar |-> -14, nue |-> 12, nuebar |-> -12]
ProbePDG(probe) == IF probe \in DOMAIN Neutrinos THEN <<Neutrinos[probe]>> ELSE <<>>

(* The flux is that of the composite, else of its first part. *)
ProbeOf(mm) ==
  CASE Len(mm.probes) = 1 -> ProbePDG(mm.probes[1])
    [] mm.composite /\ Len(mm.subProbes) = 1 -> ProbePDG(mm.subProbes[1])
    [] OTHER -> <<>>

NBins(subs) == FoldLeft(LAMBDA n, sub : n + Len(sub.bins), 0, subs)

(* What throws: composites of no distributions, error matrices with rows   *)
(* beyond the bins, no single flux or an unknown probe, another statistic. *)
Refused(mm) ==
  mm.subs = <<>> \/ mm.errorBins > NBins(mm.subs) \/ ProbeOf(mm) = <<>> \/ ~mm.chi2

Found(request) == SelectSeq(request.record, LAMBDA mm : mm.name = request.name)

(* RecordFactory::make_analysis() *)
Makes(request) ==
  /\ request.type = "hepdata"
  /\ Found(request) # <<>>
  /\ ~Refused(Head(Found(request)))

AnalysisOf(mm) ==
  IF mm.composite THEN SingleFlux(mm.subs) ELSE SingleDistribution(mm.subs[1])

(* A measurement that is no composite is its one distribution. *)
ASSUME MeasurementsAssumption ==
  \A request \in Requests : Makes(request) =>
    LET mm == Head(Found(request)) IN
    /\ Len(mm.subs) \in Nat
    /\ mm.subs = [d \in 1 .. Len(mm.subs) |-> mm.subs[d]]
    /\ ~mm.composite => Len(mm.subs) = 1

-----------------------------------------------------------------------------
(* The rows that an EventFrameGen makes of a source: the events that pass, *)
(* each with the number of events looped over, from which its estimate is. *)
Events == UNION {ToSet(source) : source \in Sources}
Row == [event : Events, looped : Nat \ {0}]

Looped(source) == [i \in DOMAIN source |-> [event |-> source[i], looped |-> i]]
Passing(select) == {row \in Row : row.event[select] # 0}

Frame(rows, columns) == [rows |-> rows, columns |-> columns]
ChunkEnd(rows, c) == IF c * ChunkSize < Len(rows) THEN c * ChunkSize ELSE Len(rows)
InChunks(rows, columns) ==
  [c \in 1 .. (Len(rows) + ChunkSize - 1) \div ChunkSize |->
     Frame(SubSeq(rows, ChunkEnd(rows, c - 1) + 1, ChunkEnd(rows, c)), columns)]

(* A frame ends with its last row when it is full, else with the source:   *)
(* its last row then takes the estimate of all events looped over.         *)
FaultFinalEstimate(rows, total) == rows
FinalEstimate(rows, total) ==
  IF Len(rows) % ChunkSize = 0 THEN rows ELSE [rows EXCEPT ![Len(rows)].looped = total]

FramesOf(rows, total, columns) == InChunks(FinalEstimate(rows, total), columns)

(* The frames before one that is lost because the source, the selection or *)
(* a projection throws on an event: any number of full ones.               *)
FramesBeforeThrow(rows, columns) ==
  {InChunks(SubSeq(rows, 1, n), columns) : n \in {m \in 0 .. Len(rows) : m % ChunkSize = 0}}

(* add_to_framegen() *)
ColumnsOf(ana) == ToSet(ana.selections) \cup UNION {ToSet(p) : p \in ToSet(ana.projections)}

(* The element for distribution d of a list with one for all or one each,  *)
(* and the lists that are neither.                                         *)
For(seq, d) == IF Len(seq) = 1 THEN seq[1] ELSE seq[d]
Ambiguous(ana, n) ==
  ~({Len(ana.selections), Len(ana.projections), Len(ana.xsscales)} \subseteq {1, n})

(* fill() of the bin that holds the row, if there is one. *)
Point(event, projs) == [k \in DOMAIN projs |-> event[projs[k]]]
InBin(projs, bin) == {row \in Row : Point(row.event, projs) = bin}
Filled(contents, rows, select, projs, bins) ==
  [b \in DOMAIN contents |->
     contents[b] + Cardinality({i \in DOMAIN rows :
                                  rows[i] \in Passing(select) \cap InBin(projs, bins[b])})]

Smear(matrix, contents) ==
  IF matrix = <<>> THEN contents
  ELSE [i \in DOMAIN contents |->
          MapThenSumSet(LAMBDA j : matrix[i][j] * contents[j], DOMAIN contents)]

(* get_best_fatx_per_sumw_estimate() takes the last row of the frame.  The *)
(* estimate is kept as the number of events it comes from.                 *)
Estimable(xsscale) == xsscale.tgtscale # "CustomType" /\ xsscale.scale # "CustomType"
BestEstimate(frame) == Last(frame.rows).looped

HasColumns(ana, frame, d) ==
  {For(ana.selections, d)} \cup ToSet(For(ana.projections, d)) \subseteq frame.columns

NoPrediction == [values |-> <<>>, estimate |-> 0, xsscale |-> None]
Prediction(ana, sub, contents, frame, d) ==
  [values |-> Smear(sub.smearing, contents), estimate |-> BestEstimate(frame),
   xsscale |-> For(ana.xsscales, d)]

-----------------------------------------------------------------------------
(* A call works on [ok, predictions, results]: what is filled when         *)
(* something throws stays filled.                                          *)
Begin(contents) == [ok |-> TRUE, predictions |-> contents, results |-> <<>>]
Stopped(contents) == [ok |-> FALSE, predictions |-> contents, results |-> <<>>]

Distributions == DOMAIN measurement.subs

FilledFrom(contents, frame, d) ==
  Filled(contents, frame.rows, For(analysis.selections, d), For(analysis.projections, d),
         measurement.subs[d].bins)

(* fill() throws without the columns, the scaling after it.                *)
CanProcess(frame, d) ==
  HasColumns(analysis, frame, d) /\ Estimable(For(analysis.xsscales, d))

(* process_dist_batched() of the distributions ds in turn, up to one that  *)
(* throws; the results replace those of the batch before.                  *)
ProcessBatched(work, frame, ds) ==
  LET reached(d) == \A e \in ds : e < d => CanProcess(frame, e)
      contents(d) == IF reached(d) /\ HasColumns(analysis, frame, d)
                     THEN FilledFrom(work.predictions[d], frame, d)
                     ELSE work.predictions[d] IN
  IF ~work.ok \/ Ambiguous(analysis, Len(measurement.subs))
  THEN [work EXCEPT !.ok = FALSE]
  ELSE [ok |-> \A d \in ds : CanProcess(frame, d),
        predictions |-> [d \in Distributions |->
                           IF d \in ds THEN contents(d) ELSE work.predictions[d]],
        results |-> [d \in ds |->
                       Prediction(analysis, measurement.subs[d], contents(d), frame, d)]]

(* The loop over the frames of a call. *)
ProcessFrames(work, frames, ds) ==
  LET upTo[k \in 0 .. Len(frames)] ==
        IF k = 0 THEN work ELSE ProcessBatched(upTo[k - 1], frames[k], ds)
  IN  upTo[Len(frames)]

FaultReset(contents) == contents
Reset(contents) == [b \in DOMAIN contents |-> 0]
AllReset == [d \in DOMAIN predictions |-> Reset(predictions[d])]

(* The rounds of the loop of process(std::vector): a distribution is reset *)
(* and filled from the source of its own.  No EventFrameGen can be made of *)
(* a source without events, which throws before the reset.                 *)
SelectedRows(source, d) == OnlyIn(Looped(source), Passing(For(analysis.selections, d)))

ProcessDistFrames(frames, d) ==
  ProcessFrames(Begin([predictions EXCEPT ![d] = Reset(@)]), frames, {d})

ProcessDistSource(source, d) ==
  IF source = <<>> THEN Stopped(predictions)
  ELSE ProcessDistFrames(FramesOf(SelectedRows(source, d), Len(source), ColumnsOf(analysis)), d)

BrokenDistSources(source, d) ==
  IF source = <<>> THEN {}
  ELSE {Stopped(ProcessDistFrames(frames, d).predictions) :
          frames \in FramesBeforeThrow(SelectedRows(source, d), ColumnsOf(analysis))}

(* The loop, which the first distribution that throws leaves; after[d] is  *)
(* what its round makes of the predictions before the call.                *)
InTurn(after) ==
  LET reached(d) == \A e \in Distributions : e < d => after[e].ok IN
  [ok |-> \A d \in Distributions : after[d].ok,
   predictions |-> [d \in Distributions |->
                      IF reached(d) THEN after[d].predictions[d] ELSE predictions[d]],
   results |-> [d \in Distributions |->
                  IF d \in DOMAIN after[d].results THEN after[d].results[d] ELSE NoPrediction]]

ProcessSources(sources) == [d \in Distributions |-> ProcessDistSource(sources[d], d)]

-----------------------------------------------------------------------------
Init ==
  /\ measurement = None /\ analysis = None /\ predictions = <<>>
  /\ answer = None /\ calls = 0 /\ given = <<>>

NothingGiven == [known |-> TRUE, cut |-> FALSE, rows |-> <<>>]

Make(request) ==
  /\ analysis = None
  /\ Makes(request)
  /\ LET mm == Head(Found(request)) IN
     /\ measurement' = mm
     /\ analysis' = AnalysisOf(mm)
     /\ predictions' = [d \in DOMAIN mm.subs |-> [b \in DOMAIN mm.subs[d].bins |-> 0]]
     /\ given' = [d \in DOMAIN mm.subs |-> NothingGiven]
  /\ answer' = None
  /\ UNCHANGED calls

CannotMake(request) ==
  /\ analysis = None
  /\ ~Makes(request)
  /\ answer' = Thrown
  /\ UNCHANGED <<measurement, analysis, predictions, calls, given>>

Call ==
  /\ analysis # None
  /\ calls < MaxCalls
  /\ calls' = calls + 1
  /\ UNCHANGED <<measurement, analysis>>

(* The outcome of a call after which givenTo is what was given.            *)
Conclude(work, givenTo) ==
  /\ predictions' = work.predictions
  /\ answer' = IF work.ok THEN Comparison(work.results) ELSE Thrown
  /\ given' = IF work.ok THEN givenTo
              ELSE [d \in DOMAIN given |-> [given[d] EXCEPT !.known = FALSE]]

Throws == answer' = Thrown /\ UNCHANGED <<predictions, given>>

ToAll(value) == [d \in DOMAIN given |-> value]
GivenAll(rows) == [known |-> TRUE, cut |-> FALSE, rows |-> rows]
GivenCut(rows) == [known |-> TRUE, cut |-> TRUE, rows |-> rows]

(* A single distribution has its selection cut the events before they get  *)
(* into frames; several are given frames of all events.                    *)
Cutting == analysis.kind = "single"
RowsFor(source) ==
  IF Cutting THEN OnlyIn(Looped(source), Passing(analysis.selections[1])) ELSE Looped(source)

(* Without events the EventFrameGen throws before anything is reset.       *)
Process(source) ==
  /\ Call
  /\ IF source = <<>> THEN Throws
     ELSE LET frames == FramesOf(RowsFor(source), Len(source), ColumnsOf(analysis))
          IN Conclude(ProcessFrames(Begin(AllReset), frames, Distributions),
                      ToAll([known |-> TRUE, cut |-> Cutting, rows |-> Looped(source)]))

(* An event throws: a selection or a projection of it, or the source when  *)
(* it reads an event after the first.  Where it is the first event that    *)
(* cannot be read, the EventFrameGen throws as it does without events.     *)
ProcessBreaks(source) ==
  /\ Call
  /\ source # <<>>
  /\ \E frames \in FramesBeforeThrow(RowsFor(source), ColumnsOf(analysis)) :
       Conclude(Stopped(ProcessFrames(Begin(AllReset), frames, Distributions).predictions), given)

OneSourceEach(sources) == ~Cutting /\ Len(sources) = Len(measurement.subs)

ProcessEach(sources) ==
  /\ Call
  /\ IF OneSourceEach(sources)
     THEN Conclude(InTurn(ProcessSources(sources)),
                   [d \in DOMAIN given |-> GivenCut(Looped(sources[d]))])
     ELSE Throws

(* An event of the source of distribution d throws. *)
ProcessEachBreaks(sources) ==
  /\ Call
  /\ OneSourceEach(sources)
  /\ \E d \in Distributions : \E work \in BrokenDistSources(sources[d], d) :
       Conclude(InTurn([ProcessSources(sources) EXCEPT ![d] = work]), given)

ProcessFrame(source, columns) ==
  /\ Call
  /\ source # <<>>
  /\ LET frames == <<Frame(Looped(source), columns)>>
     IN Conclude(ProcessFrames(Begin(AllReset), frames, Distributions),
                 ToAll(GivenAll(Looped(source))))

(* process_batched() is public: the predictions are filled further. *)
ProcessFurther(source, columns) ==
  /\ Call
  /\ source # <<>>
  /\ LET frames == <<Frame(Looped(source), columns)>>
     IN Conclude(ProcessFrames(Begin(predictions), frames, Distributions),
                 [d \in DOMAIN given |->
                    [given[d] EXCEPT !.rows = @ \o Looped(source), !.cut = FALSE]])

(* Several distributions take a table batch by batch.  A single one takes  *)
(* it as a whole, and throws after the reset when it has no rows.          *)
ProcessTable(source, columns) ==
  /\ Call
  /\ LET rows == Looped(source)
         whole == <<Frame(rows, columns)>>
         work == CASE analysis.kind = "multi" ->
                        ProcessFrames(Begin(AllReset), InChunks(rows, columns), Distributions)
                   [] analysis.kind = "single" /\ rows # <<>> ->
                        ProcessFrames(Begin(AllReset), whole, Distributions)
                   [] OTHER -> Stopped(AllReset)
     IN Conclude(work, ToAll(GivenAll(rows)))

(* The accessors for what all distributions share throw when there is not  *)
(* exactly one.                                                            *)
OnlyOne(what, seq) == IF Len(seq) = 1 THEN Shared(what, seq[1]) ELSE Thrown

Ask ==
  /\ analysis # None
  /\ \/ answer' = OnlyOne("selection", analysis.selections)
     \/ answer' = OnlyOne("projections", analysis.projections)
     \/ answer' = OnlyOne("xsscale", analysis.xsscales)
  /\ UNCHANGED <<measurement, analysis, predictions, calls, given>>

Next ==
  \/ \E request \in Requests : Make(request) \/ CannotMake(request)
  \/ \E source \in Sources :
       \/ Process(source)
       \/ ProcessBreaks(source)
       \/ \E other \in Sources : \/ ProcessEach(<<source, other>>)
                                 \/ ProcessEachBreaks(<<source, other>>)
       \/ \E columns \in ColumnSets :
            \/ ProcessFrame(source, columns)
            \/ ProcessFurther(source, columns)
            \/ ProcessTable(source, columns)
  \/ Ask

Spec == Init /\ [][Next]_vars

-----------------------------------------------------------------------------
Subs == IF analysis = None THEN <<>> ELSE measurement.subs

TypeOK ==
  /\ analysis # None => ~Refused(measurement) /\ ~Ambiguous(analysis, Len(Subs))
  /\ calls \in 0 .. MaxCalls
  /\ answer.kind \in {"none", "thrown", "comparison", "selection", "projections", "xsscale"}
  /\ DOMAIN predictions = DOMAIN Subs /\ DOMAIN given = DOMAIN Subs
  /\ \A d \in DOMAIN Subs :
       /\ predictions[d] \in [DOMAIN Subs[d].bins -> Nat]
       /\ given[d].known \in BOOLEAN /\ given[d].cut \in BOOLEAN

(* The rows of a distribution that its own selection takes, and how many   *)
(* of them each of its own bins holds by its own projections.              *)
Taken(sub, rows) == OnlyIn(rows, Passing(sub.select))
Counts(sub, rows) ==
  [b \in DOMAIN sub.bins |-> Len(OnlyIn(Taken(sub, rows), InBin(sub.projs, sub.bins[b])))]

(* Each distribution counts, in its own bins and by its own selection and  *)
(* projections, exactly the events it was given since it was last reset:   *)
(* none of an earlier call, none twice, none lost between two chunks, also *)
(* after a call that threw half way.  What is returned is that, smeared,   *)
(* or is missing when there was nothing to fill.                           *)
EachDistributionIsItsOwn ==
  \A d \in DOMAIN Subs : given[d].known =>
    LET counts == Counts(Subs[d], given[d].rows) IN
    /\ predictions[d] = counts
    /\ answer.kind = "comparison" =>
         IF d \in DOMAIN answer.predictions /\ answer.predictions[d] # NoPrediction
         THEN answer.predictions[d].values = Smear(Subs[d].smearing, counts)
         ELSE \A b \in DOMAIN counts : counts[b] = 0

(* The distributions whose lists of projections differ, in the first only. *)
FirstProjectionDiffers ==
  SameProjections(Subs) /\ \E d \in DOMAIN Subs : Subs[d].projs # Subs[1].projs

(* The same, of all measurements but those with distributions that differ  *)
(* in their first projection only, whose bins EachDistributionIsItsOwn     *)
(* finds filled with the projections of the first.                         *)
PredictionsOfThisCall == FirstProjectionDiffers \/ EachDistributionIsItsOwn

(* The number of events that the latest estimate for a distribution is of: *)
(* all it was given, those its selection cut included; unless these were   *)
(* cut from the frames and the last frame was full, so that no row of any  *)
(* frame carries the estimate of the events after its last.                *)
LatestEstimate(sub, to) ==
  IF to.cut /\ Len(Taken(sub, to.rows)) % ChunkSize = 0
  THEN Last(Taken(sub, to.rows)).looped
  ELSE Last(to.rows).looped

(* A returned distribution is in its own units and scaled by the latest    *)
(* estimate there is for it, from whichever chunk or batch: that of all    *)
(* events, or of those up to the last row when exactly full frames of the  *)
(* rows it takes leave no row for the events that follow.                  *)
ScaledByLastEstimate ==
  answer.kind = "comparison" =>
    \A d \in DOMAIN answer.predictions :
      LET result == answer.predictions[d]
      IN result # NoPrediction => /\ result.estimate = LatestEstimate(Subs[d], given[d])
                                  /\ result.xsscale = XSScaling(Subs[d])

(* The accessors that stand for all distributions answer, when they do not *)
(* throw, with the selection and the scaling that each of them has, and    *)
(* with the projections of the first one: each of the others has the same  *)
(* but for the first of its projections, which may be another.             *)
SharedByAll ==
  \A d \in DOMAIN Subs :
    /\ answer.kind = "selection" => answer.value = Subs[d].select
    /\ answer.kind = "projections" =>
         answer.value = Subs[1].projs /\ SameAfterFirst(Subs[d].projs, answer.value)
    /\ answer.kind = "xsscale" => answer.value = XSScaling(Subs[d])
=============================================================================
