--------------------------- MODULE AnalysisProofs ---------------------------
(***************************************************************************)
(* Proofs about Analysis, for every record, any sources, chunk size and    *)
(* number of distributions: each distribution counts the events it was     *)
(* given in its own bins and is scaled by the latest estimate, but where   *)
(* distributions differ in their first projection only, and an answer for  *)
(* all distributions is true of each but for that projection.              *)
(***************************************************************************)
EXTENDS Analysis, DataLemmas

(* The analysis in use is the one made of the measurement in use. *)
MadeOf(mm) ==
  /\ Len(mm.subs) \in Nat /\ DOMAIN mm.subs = 1 .. Len(mm.subs)
  /\ Len(mm.subs) # 0
  /\ ~mm.composite => Len(mm.subs) = 1
  /\ analysis = AnalysisOf(mm)

SharedInv ==
  /\ analysis # None => MadeOf(measurement)
  /\ SharedByAll

-----------------------------------------------------------------------------
(* The lists of a SingleFluxAnalysis.                                      *)
Selections(subs) == OneOrEach(SameSelection(subs), Each(subs, SelectionOf))
Projections(subs) == OneOrEach(SameProjections(subs), Each(subs, ProjectionsOf))
XSScales(subs) == Each(subs, XSScaling)

(* Each distribution finds its own in such a list, but for projections     *)
(* that differ in the first only.                                          *)
LEMMA EachFindsItsOwn ==
  ASSUME NEW subs, Len(subs) \in Nat \ {0}, DOMAIN subs = 1 .. Len(subs), NEW d \in DOMAIN subs
  PROVE  /\ For(Selections(subs), d) = subs[d].select
         /\ \/ For(Projections(subs), d) = subs[d].projs
            \/ SameProjections(subs) /\ subs[d].projs # subs[1].projs
         /\ For(XSScales(subs), d) = XSScaling(subs[d])
         /\ {Len(Selections(subs)), Len(Projections(subs)), Len(XSScales(subs))}
              \subseteq {1, Len(subs)}
<1> DEFINE n == Len(subs)
           selects == [i \in 1 .. n |-> subs[i].select]
           projs == [i \in 1 .. n |-> subs[i].projs]
           xsscales == [i \in 1 .. n |-> XSScaling(subs[i])]
<1>1. /\ Each(subs, SelectionOf) = selects /\ Each(subs, ProjectionsOf) = projs
      /\ Each(subs, XSScaling) = xsscales
  BY DEF Each, SelectionOf, ProjectionsOf
<1>2. Len(selects) = n /\ Len(projs) = n /\ Len(xsscales) = n
  OBVIOUS
<1>3. 1 \in 1 .. n /\ d \in 1 .. n /\ (n = 1 => d = 1)
  OBVIOUS
<1>4. /\ selects[1] = subs[1].select /\ projs[1] = subs[1].projs
      /\ selects[d] = subs[d].select /\ projs[d] = subs[d].projs
      /\ xsscales[1] = XSScaling(subs[1]) /\ xsscales[d] = XSScaling(subs[d])
  BY <1>3
<1>5. Head(selects) = subs[1].select /\ Head(projs) = subs[1].projs
  BY <1>2, <1>4
<1>6. SameSelection(subs) => subs[d].select = subs[1].select
  BY DEF SameSelection
<1> HIDE DEF selects, projs, xsscales
<1>7. For(Selections(subs), d) = subs[d].select /\ Len(Selections(subs)) \in {1, n}
  <2>1. CASE SameSelection(subs)
    <3>1. Selections(subs) = <<subs[1].select>>
      BY <2>1, <1>1, <1>5 DEF Selections, OneOrEach
    <3>2. QED BY <2>1, <3>1, <1>6 DEF For
  <2>2. CASE ~SameSelection(subs)
    <3>1. Selections(subs) = selects
      BY <2>2, <1>1 DEF Selections, OneOrEach
    <3>2. QED BY <3>1, <1>2, <1>3, <1>4 DEF For
  <2>3. QED BY <2>1, <2>2
<1>8. /\ \/ For(Projections(subs), d) = subs[d].projs
         \/ SameProjections(subs) /\ subs[d].projs # subs[1].projs
      /\ Len(Projections(subs)) \in {1, n}
  <2>1. CASE SameProjections(subs)
    <3>1. Projections(subs) = <<subs[1].projs>>
      BY <2>1, <1>1, <1>5 DEF Projections, OneOrEach
    <3>2. For(Projections(subs), d) = subs[1].projs /\ Len(Projections(subs)) = 1
      BY <3>1 DEF For
    <3>3. QED BY <2>1, <3>2
  <2>2. CASE ~SameProjections(subs)
    <3>1. Projections(subs) = projs
      BY <2>2, <1>1 DEF Projections, OneOrEach
    <3>2. QED BY <3>1, <1>2, <1>3, <1>4 DEF For
  <2>3. QED BY <2>1, <2>2
<1>9. For(XSScales(subs), d) = XSScaling(subs[d]) /\ Len(XSScales(subs)) = n
  <2>1. XSScales(subs) = xsscales
    BY <1>1 DEF XSScales
  <2>2. QED BY <2>1, <1>2, <1>3, <1>4 DEF For
<1>10. QED BY <1>7, <1>8, <1>9

(* The same for the analysis of any measurement. *)
LEMMA AnalysisFindsItsOwn ==
  ASSUME NEW mm, MadeOf(mm), NEW d \in DOMAIN mm.subs
  PROVE  /\ For(analysis.selections, d) = mm.subs[d].select
         /\ \/ For(analysis.projections, d) = mm.subs[d].projs
            \/ SameProjections(mm.subs) /\ mm.subs[d].projs # mm.subs[1].projs
         /\ For(analysis.xsscales, d) = XSScaling(mm.subs[d])
         /\ ~Ambiguous(analysis, Len(mm.subs))
<1>1. CASE mm.composite
  <2>1. analysis = SingleFlux(mm.subs)
    BY <1>1 DEF MadeOf, AnalysisOf
  <2>2. /\ analysis.selections = Selections(mm.subs)
        /\ analysis.projections = Projections(mm.subs)
        /\ analysis.xsscales = XSScales(mm.subs)
    BY <2>1 DEF SingleFlux, Selections, Projections, XSScales
  <2>3. Len(mm.subs) \in Nat \ {0} /\ DOMAIN mm.subs = 1 .. Len(mm.subs)
    BY DEF MadeOf
  <2>4. QED BY <2>2, <2>3, EachFindsItsOwn DEF Ambiguous
<1>2. CASE ~mm.composite
  <2>1. analysis = SingleDistribution(mm.subs[1])
    BY <1>2 DEF MadeOf, AnalysisOf
  <2>2. Len(mm.subs) = 1 /\ d \in 1 .. Len(mm.subs)
    BY <1>2 DEF MadeOf
  <2>3. d = 1
    BY <2>2
  <2>4. /\ analysis.selections = <<mm.subs[1].select>>
        /\ analysis.projections = <<mm.subs[1].projs>>
        /\ analysis.xsscales = <<XSScaling(mm.subs[1])>>
    BY <2>1 DEF SingleDistribution
  <2>5. QED BY <2>3, <2>4 DEF For, Ambiguous
<1>3. QED BY <1>1, <1>2

-----------------------------------------------------------------------------
NotShared(a) == a.kind \notin {"selection", "projections", "xsscale"}

LEMMA NotSharedAnswers ==
  /\ NotShared(None) /\ NotShared(Thrown)
  /\ \A results : NotShared(Comparison(results))
  BY DEF NotShared, None, Thrown, Comparison

LEMMA CallKeeps ==
  ASSUME SharedInv, UNCHANGED <<measurement, analysis>>, NotShared(answer')
  PROVE  SharedInv'
  BY DEF SharedInv, MadeOf, SharedByAll, NotShared, Subs

LEMMA InitSharedInv == Init => SharedInv
  BY DEF Init, SharedInv, SharedByAll, Subs, None

(* Make() keeps its part by the assumption on measurements.                *)
LEMMA MakeKeeps ==
  ASSUME SharedInv, NEW request \in Requests, Make(request)
  PROVE  SharedInv'
<1> DEFINE mm == Head(Found(request))
<1>1. Makes(request) /\ measurement' = mm /\ analysis' = AnalysisOf(mm) /\ answer' = None
  BY DEF Make
<1>2. /\ Len(mm.subs) \in Nat /\ mm.subs = [d \in 1 .. Len(mm.subs) |-> mm.subs[d]]
      /\ ~mm.composite => Len(mm.subs) = 1
  BY <1>1, MeasurementsAssumption
<1>3. mm.subs # <<>>
  BY <1>1 DEF Makes, Refused
<1> HIDE DEF mm
<1>4. Len(mm.subs) # 0
  <2>1. SUFFICES ASSUME Len(mm.subs) = 0 PROVE FALSE
    OBVIOUS
  <2>2. mm.subs = [d \in 1 .. 0 |-> mm.subs[d]]
    BY <1>2, <2>1
  <2>3. mm.subs = <<>>
    BY <2>2
  <2>4. QED BY <2>3, <1>3
<1>5. DOMAIN mm.subs = 1 .. Len(mm.subs)
  BY <1>2
<1>6. MadeOf(measurement)'
  BY <1>1, <1>2, <1>4, <1>5 DEF MadeOf
<1>7. SharedByAll'
  BY <1>1 DEF SharedByAll, None
<1>8. QED BY <1>6, <1>7 DEF SharedInv

LEMMA AskKeeps == ASSUME SharedInv, Ask PROVE SharedInv'
<1>1. UNCHANGED <<measurement, analysis>> /\ MadeOf(measurement) /\ analysis # None
  BY DEF Ask, SharedInv
<1>2. \/ answer' = OnlyOne("selection", analysis.selections)
      \/ answer' = OnlyOne("projections", analysis.projections)
      \/ answer' = OnlyOne("xsscale", analysis.xsscales)
  BY DEF Ask
<1>3. SharedByAll'
  <2> SUFFICES ASSUME analysis # None, NEW d \in DOMAIN measurement.subs
               PROVE  /\ answer'.kind = "selection" => answer'.value = measurement.subs[d].select
                      /\ answer'.kind = "projections" =>
                           /\ answer'.value = measurement.subs[1].projs
                           /\ SameAfterFirst(measurement.subs[d].projs, answer'.value)
                      /\ answer'.kind = "xsscale" => answer'.value = XSScaling(measurement.subs[d])
    BY <1>1 DEF SharedByAll, Subs
  <2>0. 1 \in DOMAIN measurement.subs
    BY <1>1 DEF MadeOf
  <2>1. /\ Len(analysis.selections) = 1 => analysis.selections[1] = measurement.subs[d].select
        /\ Len(analysis.projections) = 1 =>
             /\ analysis.projections[1] = measurement.subs[1].projs
             /\ SameAfterFirst(measurement.subs[d].projs, analysis.projections[1])
        /\ Len(analysis.xsscales) = 1 => analysis.xsscales[1] = XSScaling(measurement.subs[d])
    BY <1>1, <2>0, AnalysisFindsItsOwn DEF For, SameProjections, SameAfterFirst
  <2>2. CASE answer' = OnlyOne("selection", analysis.selections)
    BY <2>1, <2>2 DEF OnlyOne, Shared, Thrown
  <2>3. CASE answer' = OnlyOne("projections", analysis.projections)
    BY <2>1, <2>3 DEF OnlyOne, Shared, Thrown
  <2>4. CASE answer' = OnlyOne("xsscale", analysis.xsscales)
    BY <2>1, <2>4 DEF OnlyOne, Shared, Thrown
  <2>5. QED BY <1>2, <2>2, <2>3, <2>4
<1>4. QED BY <1>1, <1>3 DEF SharedInv, MadeOf

LEMMA NextKeepsSharedInv == SharedInv /\ [Next]_vars => SharedInv'
<1> SUFFICES ASSUME SharedInv, [Next]_vars PROVE SharedInv'
  OBVIOUS
<1>1. ASSUME NEW request \in Requests, Make(request) PROVE SharedInv'
  BY <1>1, MakeKeeps
<1>2. ASSUME NEW request \in Requests, CannotMake(request) PROVE SharedInv'
  BY <1>2, CallKeeps, NotSharedAnswers DEF CannotMake
<1>3. ASSUME NEW source \in Sources, Process(source) \/ ProcessBreaks(source) PROVE SharedInv'
  <2>1. CASE Process(source)
    <3>1. UNCHANGED <<measurement, analysis>> /\ NotShared(answer')
      BY <2>1, NotSharedAnswers DEF Process, Call, Conclude, Throws
    <3>2. QED BY <3>1, CallKeeps
  <2>2. CASE ProcessBreaks(source)
    <3>1. UNCHANGED <<measurement, analysis>> /\ NotShared(answer')
      BY <2>2, NotSharedAnswers DEF ProcessBreaks, Call, Conclude
    <3>2. QED BY <3>1, CallKeeps
  <2>3. QED BY <1>3, <2>1, <2>2
<1>4. ASSUME NEW source \in Sources, NEW other \in Sources,
             ProcessEach(<<source, other>>) \/ ProcessEachBreaks(<<source, other>>)
      PROVE  SharedInv'
  <2>1. CASE ProcessEach(<<source, other>>)
    <3>1. UNCHANGED <<measurement, analysis>> /\ NotShared(answer')
      BY <2>1, NotSharedAnswers DEF ProcessEach, Call, Conclude, Throws
    <3>2. QED BY <3>1, CallKeeps
  <2>2. CASE ProcessEachBreaks(<<source, other>>)
    <3>1. UNCHANGED <<measurement, analysis>> /\ NotShared(answer')
      BY <2>2, NotSharedAnswers DEF ProcessEachBreaks, Call, Conclude
    <3>2. QED BY <3>1, CallKeeps
  <2>3. QED BY <1>4, <2>1, <2>2
<1>5. ASSUME NEW source \in Sources, NEW columns \in ColumnSets,
             ProcessFrame(source, columns) \/ ProcessFurther(source, columns)
      PROVE  SharedInv'
  <2>1. CASE ProcessFrame(source, columns)
    <3>1. UNCHANGED <<measurement, analysis>> /\ NotShared(answer')
      BY <2>1, NotSharedAnswers DEF ProcessFrame, Call, Conclude
    <3>2. QED BY <3>1, CallKeeps
  <2>2. CASE ProcessFurther(source, columns)
    <3>1. UNCHANGED <<measurement, analysis>> /\ NotShared(answer')
      BY <2>2, NotSharedAnswers DEF ProcessFurther, Call, Conclude
    <3>2. QED BY <3>1, CallKeeps
  <2>3. QED BY <1>5, <2>1, <2>2
<1>6. ASSUME NEW source \in Sources, NEW columns \in ColumnSets, ProcessTable(source, columns)
      PROVE  SharedInv'
  <2>1. UNCHANGED <<measurement, analysis>> /\ NotShared(answer')
    BY <1>6, NotSharedAnswers DEF ProcessTable, Call, Conclude
  <2>2. QED BY <2>1, CallKeeps
<1>7. CASE Ask BY <1>7, AskKeeps
<1>8. CASE UNCHANGED vars
  BY <1>8 DEF vars, SharedInv, MadeOf, SharedByAll, Subs, FirstProjectionDiffers
<1>9. QED BY <1>1, <1>2, <1>3, <1>4, <1>5, <1>6, <1>7, <1>8 DEF Next

-----------------------------------------------------------------------------
(* get_selection() and get_xsscale() of an analysis of any number of       *)
(* distributions answer with what each of them has, or throw.              *)
(* get_projections() answers with those of the first, or throws: the       *)
(* others have the same projections but for the first of them, which it    *)
(* does not compare and which may be another.                              *)
THEOREM AnswersHoldForAll == Spec => []SharedByAll
<1>1. SharedInv => SharedByAll
  BY DEF SharedInv
<1>2. QED BY <1>1, InitSharedInv, NextKeepsSharedInv, PTL DEF Spec
-----------------------------------------------------------------------------
(* What a call works on, and the rows that a bin of a distribution counts. *)
Bins(d) == DOMAIN measurement.subs[d].bins

GoodContents(contents) ==
  /\ DOMAIN contents = Distributions
  /\ \A d \in Distributions : contents[d] \in [Bins(d) -> Nat]

GoodWork(work) ==
  /\ work = [ok |-> work.ok, predictions |-> work.predictions, results |-> work.results]
  /\ work.ok \in BOOLEAN
  /\ GoodContents(work.predictions)

BinRows(d, b) ==
  Passing(For(analysis.selections, d))
    \cap InBin(For(analysis.projections, d), measurement.subs[d].bins[b])

(* A fill adds to each bin as many as there are rows of it in the frame.   *)
LEMMA FilledAdds ==
  ASSUME NEW d \in Distributions, NEW contents \in [Bins(d) -> Nat],
         NEW frame, frame.rows \in Seq(Row)
  PROVE  /\ FilledFrom(contents, frame, d) \in [Bins(d) -> Nat]
         /\ \A b \in Bins(d) : FilledFrom(contents, frame, d)[b]
                                 = contents[b] + Len(OnlyIn(frame.rows, BinRows(d, b)))
<1> DEFINE held(b) == Cardinality({i \in DOMAIN frame.rows : frame.rows[i] \in BinRows(d, b)})
<1>1. FilledFrom(contents, frame, d) = [b \in Bins(d) |-> contents[b] + held(b)]
  BY DEF FilledFrom, Filled, BinRows
<1>2. \A b \in Bins(d) : /\ held(b) = Len(OnlyIn(frame.rows, BinRows(d, b)))
                         /\ Len(OnlyIn(frame.rows, BinRows(d, b))) \in Nat
  BY PlacesOfKept
<1> HIDE DEF held
<1>3. QED BY <1>1, <1>2

(* A batch that throws leaves contents of the right form, and one that     *)
(* does not adds the rows of its frame to each distribution it is for.     *)
LEMMA BatchFills ==
  ASSUME NEW work, GoodWork(work), NEW frame, frame.rows \in Seq(Row),
         NEW ds, ds \subseteq Distributions,
         NEW after, after = ProcessBatched(work, frame, ds)
  PROVE  /\ GoodWork(after)
         /\ after.ok =>
              /\ work.ok
              /\ \A d \in ds : \A b \in Bins(d) :
                   after.predictions[d][b]
                     = work.predictions[d][b] + Len(OnlyIn(frame.rows, BinRows(d, b)))
<1> DEFINE reached(d) == \A e \in ds : e < d => CanProcess(frame, e)
           contents(d) == IF reached(d) /\ HasColumns(analysis, frame, d)
                          THEN FilledFrom(work.predictions[d], frame, d)
                          ELSE work.predictions[d]
           can == \A d \in ds : CanProcess(frame, d)
           filled == [d \in Distributions |->
                        IF d \in ds THEN contents(d) ELSE work.predictions[d]]
           results == [d \in ds |-> Prediction(analysis, measurement.subs[d], contents(d), frame, d)]
<1>1. CASE ~work.ok \/ Ambiguous(analysis, Len(measurement.subs))
  <2>1. after = [work EXCEPT !.ok = FALSE]
    BY <1>1 DEF ProcessBatched
  <2>2. after = [ok |-> FALSE, predictions |-> work.predictions, results |-> work.results]
    BY <2>1 DEF GoodWork
  <2>3. QED BY <2>2 DEF GoodWork
<1>2. CASE work.ok /\ ~Ambiguous(analysis, Len(measurement.subs))
  <2>1. after = [ok |-> can, predictions |-> filled, results |-> results]
    BY <1>2 DEF ProcessBatched
  <2>2. \A d \in Distributions : /\ work.predictions[d] \in [Bins(d) -> Nat]
                                 /\ FilledFrom(work.predictions[d], frame, d) \in [Bins(d) -> Nat]
    BY FilledAdds DEF GoodWork, GoodContents
  <2>3. \A d \in Distributions : filled[d] \in [Bins(d) -> Nat]
    BY <2>2
  <2>4. GoodContents(filled)
    BY <2>3 DEF GoodContents
  <2>5. ASSUME can, NEW d \in ds, NEW b \in Bins(d)
        PROVE  filled[d][b] = work.predictions[d][b] + Len(OnlyIn(frame.rows, BinRows(d, b)))
    <3>1. HasColumns(analysis, frame, d)
      BY <2>5 DEF CanProcess
    <3>2. reached(d)
      BY <2>5
    <3>3. filled[d] = FilledFrom(work.predictions[d], frame, d)
      BY <3>1, <3>2
    <3>4. work.predictions[d] \in [Bins(d) -> Nat]
      BY <2>2
    <3> HIDE DEF filled
    <3>5. QED BY <3>3, <3>4, FilledAdds
  <2> HIDE DEF can, filled, results
  <2>6. /\ after.ok = can /\ after.predictions = filled
        /\ after = [ok |-> after.ok, predictions |-> after.predictions,
                    results |-> after.results]
    BY <2>1
  <2>7. can \in BOOLEAN
    BY DEF can
  <2>8. GoodWork(after)
    BY <2>4, <2>6, <2>7 DEF GoodWork
  <2>9. QED BY <1>2, <2>5, <2>6, <2>8
<1>3. QED BY <1>1, <1>2 DEF GoodWork

(* It returns what it filled. *)
LEMMA BatchReturns ==
  ASSUME NEW work, GoodWork(work), NEW frame, NEW ds, ds \subseteq Distributions,
         NEW after, after = ProcessBatched(work, frame, ds), after.ok
  PROVE  after.results = [d \in ds |-> Prediction(analysis, measurement.subs[d],
                                                  after.predictions[d], frame, d)]
<1> DEFINE reached(d) == \A e \in ds : e < d => CanProcess(frame, e)
           contents(d) == IF reached(d) /\ HasColumns(analysis, frame, d)
                          THEN FilledFrom(work.predictions[d], frame, d)
                          ELSE work.predictions[d]
           can == \A d \in ds : CanProcess(frame, d)
           filled == [d \in Distributions |->
                        IF d \in ds THEN contents(d) ELSE work.predictions[d]]
           results == [d \in ds |-> Prediction(analysis, measurement.subs[d], contents(d), frame, d)]
<1>1. CASE ~work.ok \/ Ambiguous(analysis, Len(measurement.subs))
  <2>1. after = [work EXCEPT !.ok = FALSE]
    BY <1>1 DEF ProcessBatched
  <2>2. after = [ok |-> FALSE, predictions |-> work.predictions, results |-> work.results]
    BY <2>1 DEF GoodWork
  <2>3. QED BY <2>2
<1>2. CASE work.ok /\ ~Ambiguous(analysis, Len(measurement.subs))
  <2>1. after = [ok |-> can, predictions |-> filled, results |-> results]
    BY <1>2 DEF ProcessBatched
  <2>2. \A d \in ds : filled[d] = contents(d)
    OBVIOUS
  <2> HIDE DEF contents
  <2>3. results = [d \in ds |-> Prediction(analysis, measurement.subs[d], filled[d], frame, d)]
    BY <2>2
  <2> HIDE DEF can, filled, results
  <2>4. after.predictions = filled /\ after.results = results
    BY <2>1
  <2>5. QED BY <2>3, <2>4
<1>3. QED BY <1>1, <1>2 DEF GoodWork

(* The same by row: a frame that continues the rows a bin has counted.     *)
LEMMA BatchCounts ==
  ASSUME NEW contents, GoodContents(contents), NEW before \in Seq(Row),
         NEW work, GoodWork(work), NEW frame, frame.rows \in Seq(Row),
         NEW ds, ds \subseteq Distributions,
         work.ok => \A d \in ds : \A b \in Bins(d) :
           work.predictions[d][b] = contents[d][b] + Len(OnlyIn(before, BinRows(d, b))),
         NEW after, after = ProcessBatched(work, frame, ds)
  PROVE  /\ GoodWork(after)
         /\ after.ok => \A d \in ds : \A b \in Bins(d) :
              after.predictions[d][b]
                = contents[d][b] + Len(OnlyIn(before \o frame.rows, BinRows(d, b)))
<1>1. /\ GoodWork(after)
      /\ after.ok =>
           /\ work.ok
           /\ \A d \in ds : \A b \in Bins(d) :
                after.predictions[d][b]
                  = work.predictions[d][b] + Len(OnlyIn(frame.rows, BinRows(d, b)))
  BY BatchFills
<1>2. ASSUME after.ok, NEW d \in ds, NEW b \in Bins(d)
      PROVE  after.predictions[d][b]
               = contents[d][b] + Len(OnlyIn(before \o frame.rows, BinRows(d, b)))
  <2> DEFINE nBefore == Len(OnlyIn(before, BinRows(d, b)))
             nHere == Len(OnlyIn(frame.rows, BinRows(d, b)))
  <2>1. d \in Distributions
    OBVIOUS
  <2>3. after.predictions[d][b] = work.predictions[d][b] + nHere
    BY <1>1, <1>2
  <2>4. work.predictions[d][b] = contents[d][b] + nBefore
    BY <1>1, <1>2
  <2>5. Len(OnlyIn(before \o frame.rows, BinRows(d, b))) = nBefore + nHere
    BY OnlyInConcat
  <2>6. contents[d][b] \in Nat
    BY <2>1 DEF GoodContents
  <2>7. nBefore \in Nat /\ nHere \in Nat
    BY PlacesOfKept
  <2> HIDE DEF nBefore, nHere
  <2>8. QED BY <2>3, <2>4, <2>5, <2>6, <2>7
<1>3. QED BY <1>1, <1>2

(* The loop over frames takes a step for each. *)
Batches(f, work, frames, ds) ==
  /\ f[0] = work
  /\ \A k \in 1 .. Len(frames) : f[k] = ProcessBatched(f[k - 1], frames[k], ds)

LEMMA FramesUnfold ==
  ASSUME NEW work, NEW frames, Len(frames) \in Nat, NEW ds
  PROVE  \E f : /\ Batches(f, work, frames, ds)
                /\ ProcessFrames(work, frames, ds) = f[Len(frames)]
<1> DEFINE m == Len(frames)
           Upto(n, f) == f = [k \in 0 .. n |->
                                IF k = 0 THEN work ELSE ProcessBatched(f[k - 1], frames[k], ds)]
           S == {n \in 0 .. m : \E f : Upto(n, f)}
<1>1. 0 \in S
  <2> DEFINE f == [k \in 0 .. 0 |-> work]
  <2>1. Upto(0, f)
    OBVIOUS
  <2> HIDE DEF Upto, f
  <2>2. QED BY <2>1
<1>2. ASSUME NEW n \in 0 .. m - 1, n \in S
      PROVE  n + 1 \in S
  <2>1. PICK f : Upto(n, f)
    <3> HIDE DEF Upto
    <3>1. QED BY <1>2
  <2> DEFINE g == [k \in 0 .. n + 1 |->
                     IF k \in 0 .. n THEN f[k] ELSE ProcessBatched(f[n], frames[n + 1], ds)]
             after(k) == IF k = 0 THEN work ELSE ProcessBatched(g[k - 1], frames[k], ds)
  <2>2. ASSUME NEW k \in 0 .. n + 1
        PROVE  g[k] = after(k)
    <3>1. CASE k = 0
      <4>1. f[0] = work
        BY <2>1
      <4>2. QED BY <3>1, <4>1
    <3>2. CASE k \in 1 .. n
      <4>1. f[k] = ProcessBatched(f[k - 1], frames[k], ds)
        BY <2>1, <3>2
      <4>2. g[k] = f[k] /\ g[k - 1] = f[k - 1]
        BY <3>2
      <4>3. QED BY <3>2, <4>1, <4>2
    <3>3. CASE k = n + 1
      <4>1. g[k] = ProcessBatched(f[n], frames[n + 1], ds) /\ g[k - 1] = f[n]
        BY <3>3
      <4>2. QED BY <3>3, <4>1
    <3>4. QED BY <3>1, <3>2, <3>3
  <2>3. g = [k \in 0 .. n + 1 |-> g[k]]
    OBVIOUS
  <2> HIDE DEF g
  <2>4. Upto(n + 1, g)
    BY <2>2, <2>3
  <2> HIDE DEF Upto
  <2>5. QED BY <2>4
<1> HIDE DEF S
<1>3. m \in S
  <2>1. \A n \in 0 .. m : n \in S
    BY <1>1, <1>2, BoundedInduction
  <2>2. QED BY <2>1
<1>4. \E f : Upto(m, f)
  <2> HIDE DEF Upto
  <2>1. QED BY <1>3 DEF S
<1> DEFINE upTo == CHOOSE f : Upto(m, f)
<1>5. Upto(m, upTo)
  <2> HIDE DEF Upto
  <2>1. QED BY <1>4
<1>6. ProcessFrames(work, frames, ds) = upTo[m]
  BY DEF ProcessFrames
<1> HIDE DEF upTo
<1>7. Batches(upTo, work, frames, ds)
  BY <1>5 DEF Batches
<1>8. QED BY <1>6, <1>7

(* The frames hold the rows in order, in pieces of which none is empty.    *)
Cuts(frames, rows) ==
  /\ Len(frames) \in Nat
  /\ \E end \in [0 .. Len(frames) -> 0 .. Len(rows)] :
       /\ end[0] = 0 /\ end[Len(frames)] = Len(rows)
       /\ \A k \in 1 .. Len(frames) :
            /\ end[k - 1] < end[k]
            /\ frames[k].rows = SubSeq(rows, end[k - 1] + 1, end[k])

LEMMA FrameOfWhole ==
  ASSUME NEW rows \in Seq(Row), rows # <<>>, NEW columns
  PROVE  Cuts(<<Frame(rows, columns)>>, rows)
<1> DEFINE frames == <<Frame(rows, columns)>>
           end == [k \in 0 .. 1 |-> IF k = 0 THEN 0 ELSE Len(rows)]
<1>1. Len(frames) = 1 /\ frames[1].rows = rows
  BY DEF Frame
<1>2. Len(rows) \in Nat /\ Len(rows) > 0
  OBVIOUS
<1>3. SubSeq(rows, 1, Len(rows)) = rows
  OBVIOUS
<1>4. /\ end \in [0 .. 1 -> 0 .. Len(rows)] /\ end[0] = 0 /\ end[1] = Len(rows)
  BY <1>2
<1> HIDE DEF frames, end
<1>5. \A k \in 1 .. 1 : end[k - 1] < end[k] /\ frames[k].rows = SubSeq(rows, end[k - 1] + 1, end[k])
  BY <1>1, <1>2, <1>3, <1>4
<1>6. QED BY <1>1, <1>4, <1>5 DEF Cuts, frames

LEMMA InChunksCut ==
  ASSUME NEW rows \in Seq(Row), NEW columns
  PROVE  Cuts(InChunks(rows, columns), rows)
<1> DEFINE n == Len(rows)
           m == (n + ChunkSize - 1) \div ChunkSize
           frames == InChunks(rows, columns)
           end == [k \in 0 .. m |-> ChunkEnd(rows, k)]
<1>1. n \in Nat /\ ChunkSize \in Nat \ {0}
  BY BoundsAssumption
<1>2. m \in Nat /\ m * ChunkSize >= n /\ \A k \in 1 .. m : (k - 1) * ChunkSize < n
  BY <1>1, ChunksReach
<1>3. frames = [c \in 1 .. m |->
                  Frame(SubSeq(rows, ChunkEnd(rows, c - 1) + 1, ChunkEnd(rows, c)), columns)]
  BY DEF InChunks
<1> HIDE DEF m, frames
<1>4. Len(frames) = m
  BY <1>2, <1>3
<1>5. \A k \in 0 .. m : k * ChunkSize \in Nat
  BY <1>1, <1>2
<1>6. \A k \in 0 .. m : ChunkEnd(rows, k) \in 0 .. n
  BY <1>1, <1>5 DEF ChunkEnd
<1>7. ChunkEnd(rows, 0) = 0 /\ ChunkEnd(rows, m) = n
  BY <1>1, <1>2, <1>5 DEF ChunkEnd
<1>8. ASSUME NEW k \in 1 .. m
      PROVE  ChunkEnd(rows, k - 1) < ChunkEnd(rows, k)
  <2>1. (k - 1) * ChunkSize < n /\ k - 1 \in 0 .. m /\ k \in 0 .. m
    BY <1>2
  <2>2. (k - 1) * ChunkSize < k * ChunkSize
    <3>1. k * ChunkSize = (k - 1) * ChunkSize + ChunkSize
      BY <1>1, <1>2
    <3>2. QED BY <1>1, <1>5, <2>1, <3>1
  <2>3. QED BY <1>1, <1>5, <2>1, <2>2 DEF ChunkEnd
<1>9. \A k \in 1 .. m :
        /\ end[k - 1] < end[k]
        /\ frames[k].rows = SubSeq(rows, end[k - 1] + 1, end[k])
  BY <1>3, <1>8, <1>2 DEF Frame
<1>10. end \in [0 .. m -> 0 .. n] /\ end[0] = 0 /\ end[m] = n
  BY <1>2, <1>6, <1>7
<1> HIDE DEF end, n
<1>11. QED BY <1>2, <1>4, <1>9, <1>10 DEF Cuts, frames, n


(* What the loop over the frames of some rows leaves and returns: each     *)
(* distribution has counted all of them, and the estimate is of the last.  *)
Returned(contents, rows, ds) ==
  IF rows = <<>> THEN <<>>
  ELSE [d \in ds |-> [values |-> Smear(measurement.subs[d].smearing, contents[d]),
                      estimate |-> Last(rows).looped,
                      xsscale |-> For(analysis.xsscales, d)]]

LEMMA FramesFill ==
  ASSUME NEW contents, GoodContents(contents), NEW rows \in Seq(Row),
         NEW frames, Cuts(frames, rows), NEW ds, ds \subseteq Distributions,
         NEW final, final = ProcessFrames(Begin(contents), frames, ds)
  PROVE  /\ GoodWork(final)
         /\ final.ok =>
              /\ \A d \in ds : \A b \in Bins(d) :
                   final.predictions[d][b] = contents[d][b] + Len(OnlyIn(rows, BinRows(d, b)))
              /\ final.results = Returned(final.predictions, rows, ds)
<1> DEFINE m == Len(frames)
           front(n) == SubSeq(rows, 1, n)
<1>1. m \in Nat
  BY DEF Cuts
<1>2. PICK end \in [0 .. m -> 0 .. Len(rows)] :
        /\ end[0] = 0 /\ end[m] = Len(rows)
        /\ \A k \in 1 .. m : /\ end[k - 1] < end[k]
                             /\ frames[k].rows = SubSeq(rows, end[k - 1] + 1, end[k])
  BY DEF Cuts
<1>3. PICK f : /\ Batches(f, Begin(contents), frames, ds)
               /\ final = f[m]
  BY <1>1, FramesUnfold
<1> DEFINE Good(w, n) ==
             /\ GoodWork(w)
             /\ w.ok => \A d \in ds : \A b \in Bins(d) :
                  w.predictions[d][b] = contents[d][b] + Len(OnlyIn(front(n), BinRows(d, b)))
           S == {k \in 0 .. m : Good(f[k], end[k])}
<1>4. 0 \in S
  <2>1. f[0] = Begin(contents) /\ end[0] = 0
    BY <1>2, <1>3 DEF Batches
  <2>2. GoodWork(Begin(contents)) /\ Begin(contents).predictions = contents
    BY DEF GoodWork, Begin
  <2>3. front(0) = <<>>
    OBVIOUS
  <2>4. \A d \in ds : \A b \in Bins(d) : /\ contents[d][b] \in Nat
                                     /\ Len(OnlyIn(front(0), BinRows(d, b))) = 0
    BY <2>3, OnlyInEmpty DEF GoodContents
  <2> HIDE DEF front
  <2>5. Good(f[0], end[0])
    BY <2>1, <2>2, <2>4
  <2> HIDE DEF Good
  <2>6. QED BY <1>1, <2>5
<1>5. ASSUME NEW k \in 1 .. m
      PROVE  /\ f[k] = ProcessBatched(f[k - 1], frames[k], ds)
             /\ end[k - 1] \in Nat /\ end[k] \in Nat /\ end[k - 1] < end[k] /\ end[k] <= Len(rows)
             /\ frames[k].rows \in Seq(Row)
             /\ front(end[k]) = front(end[k - 1]) \o frames[k].rows
             /\ front(end[k - 1]) \in Seq(Row)
  <2> DEFINE p == end[k - 1]
             q == end[k]
  <2>1. k - 1 \in 0 .. m /\ k \in 0 .. m /\ Len(rows) \in Nat
    BY <1>1
  <2>2. f[k] = ProcessBatched(f[k - 1], frames[k], ds)
    BY <1>3 DEF Batches
  <2>3. /\ p \in Nat /\ q \in Nat /\ p < q /\ q <= Len(rows) /\ p <= q /\ p <= Len(rows)
        /\ frames[k].rows = SubSeq(rows, p + 1, q)
    <3>1. p \in 0 .. Len(rows) /\ q \in 0 .. Len(rows)
      BY <2>1
    <3>2. p < q /\ frames[k].rows = SubSeq(rows, p + 1, q)
      BY <1>2
    <3> HIDE DEF p, q
    <3>3. QED BY <2>1, <3>1, <3>2
  <2> HIDE DEF p, q
  <2>4. /\ SubSeq(rows, p + 1, q) \in Seq(Row)
        /\ front(q) = front(p) \o SubSeq(rows, p + 1, q)
    BY <2>3, FrontContinues
  <2>5. front(p) \in Seq(Row)
    BY <2>3, FrontOf
  <2>6. QED BY <2>2, <2>3, <2>4, <2>5 DEF p, q
<1> HIDE DEF front
<1>6. ASSUME NEW k \in 1 .. m, Good(f[k - 1], end[k - 1])
      PROVE  Good(f[k], end[k])
  <2> DEFINE w == f[k - 1]
             v == f[k]
             here == frames[k]
             before == front(end[k - 1])
             now == front(end[k])
  <2>1. /\ v = ProcessBatched(w, here, ds) /\ here.rows \in Seq(Row) /\ before \in Seq(Row)
        /\ now = before \o here.rows
    BY <1>5
  <2>2. /\ GoodWork(w)
        /\ w.ok => \A d \in ds : \A b \in Bins(d) :
             w.predictions[d][b] = contents[d][b] + Len(OnlyIn(before, BinRows(d, b)))
    BY <1>6
  <2> SUFFICES /\ GoodWork(v)
               /\ v.ok => \A d \in ds : \A b \in Bins(d) :
                    v.predictions[d][b] = contents[d][b] + Len(OnlyIn(now, BinRows(d, b)))
    OBVIOUS
  <2> HIDE DEF w, v, here, before, now, Good
  <2>3. QED BY <2>1, <2>2, BatchCounts
<1> HIDE DEF Good
<1>7. ASSUME NEW n \in 0 .. m - 1, n \in S
      PROVE  n + 1 \in S
  <2>1. n + 1 \in 1 .. m /\ n + 1 - 1 = n /\ n + 1 \in 0 .. m
    BY <1>1
  <2>2. Good(f[n], end[n])
    BY <1>7
  <2>3. Good(f[n + 1], end[n + 1])
    BY <1>6, <2>1, <2>2
  <2>4. QED BY <2>1, <2>3
<1>8. \A k \in 0 .. m : Good(f[k], end[k])
  <2>1. \A k \in 0 .. m : k \in S
    <3> HIDE DEF S
    <3>1. QED BY <1>1, <1>4, <1>7, BoundedInduction
  <2>2. QED BY <2>1
<1>9. Good(final, Len(rows))
  BY <1>1, <1>2, <1>3, <1>8
<1>10. front(Len(rows)) = rows
  BY DEF front
<1>11. ASSUME final.ok
       PROVE  final.results = Returned(final.predictions, rows, ds)
  <2>1. CASE m = 0
    <3>1. rows = <<>>
      BY <1>2, <2>1
    <3>2. final.results = <<>>
      BY <1>3, <2>1 DEF Batches, Begin
    <3>3. QED BY <3>1, <3>2 DEF Returned
  <2>2. CASE m # 0
    <3>1. m \in 1 .. m /\ m - 1 \in 0 .. m
      BY <1>1, <2>2
    <3>2. GoodWork(f[m - 1])
      BY <1>8, <3>1 DEF Good
    <3> DEFINE w == f[m - 1]
               last == frames[m]
               start == end[m - 1]
               n == Len(rows)
    <3>3. final = ProcessBatched(w, last, ds) /\ last.rows \in Seq(Row)
      BY <1>3, <1>5, <3>1
    <3>4. /\ start \in Nat /\ start < n /\ start <= n /\ n \in Nat /\ n <= n
          /\ last.rows = SubSeq(rows, start + 1, n)
      <4>1. start \in Nat /\ end[m] = n /\ n \in Nat /\ start < end[m]
        BY <1>2, <1>5, <3>1
      <4>2. last.rows = SubSeq(rows, start + 1, end[m])
        BY <1>2, <3>1
      <4> HIDE DEF start, last, n
      <4>3. QED BY <4>1, <4>2
    <3> HIDE DEF w, last, start
    <3>5. final.results = [d \in ds |-> Prediction(analysis, measurement.subs[d],
                                                   final.predictions[d], last, d)]
      BY <1>11, <3>2, <3>3, BatchReturns DEF w
    <3>6. Last(last.rows) = rows[n] /\ Last(rows) = rows[n]
      <4>1. /\ Len(SubSeq(rows, start + 1, n)) = n - start
            /\ \A i \in 1 .. n - start : SubSeq(rows, start + 1, n)[i] = rows[start + i]
        BY <3>4, FrontContinues
      <4>2. n - start \in 1 .. n - start /\ start + (n - start) = n
        BY <3>4
      <4>3. last.rows[n - start] = rows[n] /\ Len(last.rows) = n - start
        BY <3>4, <4>1, <4>2
      <4>4. QED BY <4>3 DEF Last
    <3>7. rows # <<>>
      BY <3>4
    <3>8. \A d \in ds :
            Prediction(analysis, measurement.subs[d], final.predictions[d], last, d)
              = [values |-> Smear(measurement.subs[d].smearing, final.predictions[d]),
                 estimate |-> Last(rows).looped, xsscale |-> For(analysis.xsscales, d)]
      BY <3>6 DEF Prediction, BestEstimate
    <3>9. QED BY <3>5, <3>7, <3>8 DEF Returned
  <2>3. QED BY <2>1, <2>2
<1>12. QED BY <1>9, <1>10, <1>11 DEF Good

-----------------------------------------------------------------------------
(* The count of a bin by the own selection and projections of its          *)
(* distribution, over all rows or over those the selection takes.          *)
OwnRows(sub, b) == Passing(sub.select) \cap InBin(sub.projs, sub.bins[b])

LEMMA CountsByBin ==
  ASSUME NEW sub, NEW rows \in Seq(Row)
  PROVE  /\ Taken(sub, rows) \in Seq(Row)
         /\ Counts(sub, rows) = [b \in DOMAIN sub.bins |-> Len(OnlyIn(rows, OwnRows(sub, b)))]
         /\ \A b \in DOMAIN sub.bins :
              /\ Len(OnlyIn(rows, OwnRows(sub, b))) \in Nat
              /\ Len(OnlyIn(Taken(sub, rows), OwnRows(sub, b))) = Len(OnlyIn(rows, OwnRows(sub, b)))
<1>1. Taken(sub, rows) \in Seq(Row)
  BY OnlyInType DEF Taken
<1>2. ASSUME NEW b \in DOMAIN sub.bins
      PROVE  /\ Len(OnlyIn(rows, OwnRows(sub, b))) \in Nat
             /\ Len(OnlyIn(Taken(sub, rows), OwnRows(sub, b))) = Len(OnlyIn(rows, OwnRows(sub, b)))
             /\ OnlyIn(Taken(sub, rows), InBin(sub.projs, sub.bins[b]))
                  = OnlyIn(rows, OwnRows(sub, b))
  <2> DEFINE P == Passing(sub.select)
             B == InBin(sub.projs, sub.bins[b])
  <2>1. OnlyIn(OnlyIn(rows, P), B) = OnlyIn(rows, P \cap B)
    BY OnlyInTwice
  <2>2. OnlyIn(OnlyIn(rows, P), P \cap B) = OnlyIn(rows, P \cap (P \cap B))
    BY OnlyInTwice
  <2>3. P \cap (P \cap B) = P \cap B
    OBVIOUS
  <2>4. Len(OnlyIn(rows, P \cap B)) \in Nat
    BY PlacesOfKept
  <2> HIDE DEF P, B
  <2>5. QED BY <2>1, <2>2, <2>3, <2>4 DEF Taken, OwnRows, P, B
<1>3. Counts(sub, rows) = [b \in DOMAIN sub.bins |-> Len(OnlyIn(rows, OwnRows(sub, b)))]
  BY <1>2 DEF Counts
<1>4. QED BY <1>1, <1>2, <1>3

(* The estimates of rows do not matter to the counts, only their events.   *)
SameEvents(rows, others) ==
  Len(rows) = Len(others) /\ \A i \in 1 .. Len(rows) : rows[i].event = others[i].event

LEMMA CountOfSame ==
  ASSUME NEW sub, NEW rows \in Seq(Row), NEW all \in Seq(Row),
         SameEvents(rows, all) \/ SameEvents(rows, Taken(sub, all)),
         NEW b \in DOMAIN sub.bins
  PROVE  Len(OnlyIn(rows, OwnRows(sub, b))) = Len(OnlyIn(all, OwnRows(sub, b)))
<1>1. ASSUME NEW others \in Seq(Row), SameEvents(rows, others)
      PROVE  Len(OnlyIn(rows, OwnRows(sub, b))) = Len(OnlyIn(others, OwnRows(sub, b)))
  <2> DEFINE Places(seq) == {i \in DOMAIN seq : seq[i] \in OwnRows(sub, b)}
  <2>1. DOMAIN rows = 1 .. Len(rows) /\ DOMAIN others = 1 .. Len(rows)
    BY <1>1 DEF SameEvents
  <2>2. ASSUME NEW i \in 1 .. Len(rows)
        PROVE  rows[i] \in OwnRows(sub, b) <=> others[i] \in OwnRows(sub, b)
    <3>1. rows[i] \in Row /\ others[i] \in Row /\ rows[i].event = others[i].event
      BY <1>1, <2>1 DEF SameEvents
    <3>2. QED BY <3>1 DEF OwnRows, Passing, InBin
  <2>3. Places(rows) = Places(others)
    BY <2>1, <2>2
  <2>4. /\ Cardinality(Places(rows)) = Len(OnlyIn(rows, OwnRows(sub, b)))
        /\ Cardinality(Places(others)) = Len(OnlyIn(others, OwnRows(sub, b)))
    BY PlacesOfKept
  <2>5. QED BY <2>3, <2>4
<1>2. /\ Taken(sub, all) \in Seq(Row)
      /\ Len(OnlyIn(Taken(sub, all), OwnRows(sub, b))) = Len(OnlyIn(all, OwnRows(sub, b)))
  BY CountsByBin
<1>3. QED BY <1>1, <1>2

LEMMA CountsOfNone ==
  ASSUME NEW sub
  PROVE  Counts(sub, <<>>) = [b \in DOMAIN sub.bins |-> 0]
<1>1. \A b \in DOMAIN sub.bins : Len(OnlyIn(<<>>, OwnRows(sub, b))) = 0
  BY OnlyInEmpty
<1>2. QED BY <1>1, CountsByBin, EmptySeq

(* The loop over the frames of a distribution adds its counts. *)
LEMMA FramesCount ==
  ASSUME NEW contents, GoodContents(contents), NEW rows \in Seq(Row),
         NEW frames, Cuts(frames, rows), NEW ds, ds \subseteq Distributions,
         NEW final, final = ProcessFrames(Begin(contents), frames, ds), final.ok,
         NEW d \in ds, For(analysis.selections, d) = measurement.subs[d].select,
         For(analysis.projections, d) = measurement.subs[d].projs,
         NEW before \in Seq(Row), contents[d] = Counts(measurement.subs[d], before),
         NEW all \in Seq(Row),
         SameEvents(rows, all) \/ SameEvents(rows, Taken(measurement.subs[d], all))
  PROVE  final.predictions[d] = Counts(measurement.subs[d], before \o all)
<1> DEFINE sub == measurement.subs[d]
           count(seq, b) == Len(OnlyIn(seq, OwnRows(sub, b)))
<1>1. /\ GoodWork(final)
      /\ \A b \in Bins(d) :
           final.predictions[d][b] = contents[d][b] + Len(OnlyIn(rows, BinRows(d, b)))
  BY FramesFill
<1>2. final.predictions[d] \in [Bins(d) -> Nat]
  BY <1>1 DEF GoodWork, GoodContents
<1>3. before \o all \in Seq(Row)
  BY ConcatProperties
<1>4. ASSUME NEW b \in Bins(d)
      PROVE  final.predictions[d][b] = count(before \o all, b)
  <2>1. BinRows(d, b) = OwnRows(sub, b) /\ b \in DOMAIN sub.bins
    BY DEF BinRows, OwnRows, Bins
  <2>2. count(rows, b) = count(all, b)
    BY <2>1, CountOfSame
  <2>3. contents[d][b] = count(before, b)
    BY <2>1, CountsByBin
  <2>4. count(before \o all, b) = count(before, b) + count(all, b)
    BY OnlyInConcat
  <2>5. final.predictions[d][b] = contents[d][b] + count(rows, b)
    BY <1>1, <2>1
  <2> HIDE DEF count
  <2>6. QED BY <2>2, <2>3, <2>4, <2>5
<1>5. Counts(sub, before \o all) = [b \in Bins(d) |-> count(before \o all, b)]
  BY <1>3, CountsByBin DEF Bins
<1> HIDE DEF count, sub
<1>6. final.predictions[d] = [b \in Bins(d) |-> final.predictions[d][b]]
  BY <1>2
<1>7. QED BY <1>4, <1>5, <1>6 DEF sub

(* What the loop returns of a distribution, if there was anything to fill. *)
ReturnedOf(result, contents, estimate, d) ==
  /\ result # NoPrediction
  /\ result.values = Smear(measurement.subs[d].smearing, contents)
  /\ result.estimate = estimate
  /\ result.xsscale = XSScaling(measurement.subs[d])

LEMMA FramesReturn ==
  ASSUME NEW contents, GoodContents(contents), NEW rows \in Seq(Row),
         NEW frames, Cuts(frames, rows), NEW ds, ds \subseteq Distributions,
         NEW final, final = ProcessFrames(Begin(contents), frames, ds), final.ok,
         NEW d \in ds, For(analysis.xsscales, d) = XSScaling(measurement.subs[d])
  PROVE  /\ rows = <<>> => DOMAIN final.results = {}
         /\ rows # <<>> => /\ DOMAIN final.results = ds
                           /\ ReturnedOf(final.results[d], final.predictions[d],
                                         Last(rows).looped, d)
<1>1. final.results = Returned(final.predictions, rows, ds)
  BY FramesFill
<1>2. CASE rows = <<>>
  BY <1>1, <1>2 DEF Returned
<1>3. CASE rows # <<>>
  <2> DEFINE result == [values |-> Smear(measurement.subs[d].smearing, final.predictions[d]),
                        estimate |-> Last(rows).looped,
                        xsscale |-> For(analysis.xsscales, d)]
  <2>1. DOMAIN final.results = ds /\ final.results[d] = result
    BY <1>1, <1>3 DEF Returned
  <2>2. Last(rows) \in Row
    <3>1. Len(rows) \in 1 .. Len(rows)
      BY <1>3
    <3>2. QED BY <3>1, ElementOfSeq DEF Last
  <2>3. result.estimate # 0
    BY <2>2 DEF Row
  <2>4. result # NoPrediction
    BY <2>3 DEF NoPrediction
  <2>5. QED BY <1>3, <2>1, <2>4 DEF ReturnedOf
<1>4. QED BY <1>2, <1>3

-----------------------------------------------------------------------------
(* What is known of the rows that were given. *)
GoodGiven(to) ==
  /\ DOMAIN to = Distributions
  /\ \A d \in Distributions :
       /\ to[d] = [known |-> to[d].known, cut |-> to[d].cut, rows |-> to[d].rows]
       /\ to[d].known \in BOOLEAN /\ to[d].cut \in BOOLEAN
       /\ to[d].rows \in Seq(Row)

(* The inductive invariant. *)
FillInv ==
  /\ calls \in 0 .. MaxCalls
  /\ answer.kind \in {"none", "thrown", "comparison", "selection", "projections", "xsscale"}
  /\ analysis = None => /\ answer.kind # "comparison"
                        /\ DOMAIN predictions = {} /\ DOMAIN given = {}
  /\ analysis # None => /\ MadeOf(measurement) /\ ~Refused(measurement)
                        /\ GoodContents(predictions) /\ GoodGiven(given)
  /\ PredictionsOfThisCall
  /\ ScaledByLastEstimate

(* The outcome of a call is right for what a distribution was given. *)
RightFor(work, to, d) ==
  LET sub == measurement.subs[d] IN
  /\ to.known => FirstProjectionDiffers \/ work.predictions[d] = Counts(sub, to.rows)
  /\ IF d \in DOMAIN work.results /\ work.results[d] # NoPrediction
     THEN ReturnedOf(work.results[d], work.predictions[d], LatestEstimate(sub, to), d)
     ELSE to.known => \A b \in DOMAIN sub.bins : Counts(sub, to.rows)[b] = 0

LEMMA ConcludeKeeps ==
  ASSUME FillInv, Call, NEW work, NEW to, Conclude(work, to), GoodWork(work), GoodGiven(to),
         work.ok => /\ DOMAIN work.results \subseteq Distributions
                    /\ \A d \in Distributions : RightFor(work, to[d], d)
  PROVE  FillInv'
<1>1. /\ analysis # None /\ UNCHANGED <<measurement, analysis>>
      /\ calls \in 0 .. MaxCalls /\ calls < MaxCalls /\ calls' = calls + 1
      /\ MadeOf(measurement) /\ ~Refused(measurement) /\ GoodGiven(given)
  BY DEF Call, FillInv
<1>2. calls' \in 0 .. MaxCalls
  BY <1>1, BoundsAssumption
<1>3. /\ MadeOf(measurement)' /\ ~Refused(measurement)' /\ analysis' # None
      /\ Distributions' = Distributions /\ Subs = measurement.subs /\ Subs' = measurement.subs
      /\ FirstProjectionDiffers' = FirstProjectionDiffers
  BY <1>1 DEF MadeOf, Distributions, Subs, FirstProjectionDiffers
<1>4. predictions' = work.predictions /\ GoodContents(predictions)'
  <2>1. predictions' = work.predictions
    BY DEF Conclude
  <2>2. QED BY <1>1, <1>3, <2>1 DEF GoodWork, GoodContents, Bins
<1>5. CASE work.ok
  <2>1. answer' = Comparison(work.results) /\ given' = to
    BY <1>5 DEF Conclude
  <2>2. answer'.kind = "comparison" /\ answer'.predictions = work.results
    BY <2>1 DEF Comparison
  <2>3. GoodGiven(given)'
    BY <1>1, <1>3, <2>1 DEF GoodGiven
  <2>4. \A d \in Distributions : RightFor(work, to[d], d)
    BY <1>5
  <2>5. PredictionsOfThisCall'
    <3> SUFFICES ASSUME ~FirstProjectionDiffers PROVE EachDistributionIsItsOwn'
      BY <1>3 DEF PredictionsOfThisCall
    <3> SUFFICES ASSUME NEW d \in Distributions, to[d].known
                 PROVE  LET counts == Counts(measurement.subs[d], to[d].rows) IN
                        /\ work.predictions[d] = counts
                        /\ IF d \in DOMAIN work.results /\ work.results[d] # NoPrediction
                           THEN work.results[d].values = Smear(measurement.subs[d].smearing, counts)
                           ELSE \A b \in DOMAIN counts : counts[b] = 0
      BY <1>3, <1>4, <2>1, <2>2 DEF EachDistributionIsItsOwn, Distributions
    <3>1. RightFor(work, to[d], d)
      BY <2>4
    <3>2. work.predictions[d] = Counts(measurement.subs[d], to[d].rows)
      BY <3>1 DEF RightFor
    <3>3. DOMAIN Counts(measurement.subs[d], to[d].rows) = DOMAIN measurement.subs[d].bins
      BY DEF Counts
    <3>4. QED BY <3>1, <3>2, <3>3 DEF RightFor, ReturnedOf
  <2>6. ScaledByLastEstimate'
    <3> SUFFICES ASSUME NEW d \in DOMAIN work.results, work.results[d] # NoPrediction
                 PROVE  /\ work.results[d].estimate = LatestEstimate(measurement.subs[d], to[d])
                        /\ work.results[d].xsscale = XSScaling(measurement.subs[d])
      BY <1>3, <2>1, <2>2 DEF ScaledByLastEstimate
    <3>1. RightFor(work, to[d], d)
      BY <1>5, <2>4
    <3>2. QED BY <3>1 DEF RightFor, ReturnedOf
  <2>7. QED BY <1>2, <1>3, <1>4, <2>2, <2>3, <2>5, <2>6 DEF FillInv
<1>6. CASE ~work.ok
  <2>1. answer' = Thrown /\ given' = [d \in DOMAIN given |-> [given[d] EXCEPT !.known = FALSE]]
    BY <1>6 DEF Conclude
  <2>2. answer'.kind = "thrown"
    BY <2>1 DEF Thrown
  <2>3. DOMAIN given' = Distributions
    BY <1>1, <2>1 DEF GoodGiven
  <2>4. ASSUME NEW d \in Distributions
        PROVE  /\ given'[d] = [known |-> given'[d].known, cut |-> given'[d].cut,
                               rows |-> given'[d].rows]
               /\ given'[d].known = FALSE /\ given'[d].cut \in BOOLEAN
               /\ given'[d].rows \in Seq(Row)
    <3> DEFINE old == given[d]
               new == given'[d]
    <3>1. /\ old = [known |-> old.known, cut |-> old.cut, rows |-> old.rows]
          /\ old.cut \in BOOLEAN /\ old.rows \in Seq(Row)
      BY <1>1 DEF GoodGiven
    <3>2. new = [old EXCEPT !.known = FALSE]
      BY <1>1, <2>1 DEF GoodGiven
    <3> HIDE DEF old, new
    <3>3. new = [known |-> FALSE, cut |-> old.cut, rows |-> old.rows]
      BY <3>1, <3>2
    <3>4. /\ new = [known |-> new.known, cut |-> new.cut, rows |-> new.rows]
          /\ new.known = FALSE /\ new.cut \in BOOLEAN /\ new.rows \in Seq(Row)
      BY <3>1, <3>3
    <3>5. QED BY <3>4 DEF new
  <2>5. GoodGiven(given)'
    BY <1>3, <2>3, <2>4 DEF GoodGiven
  <2>6. PredictionsOfThisCall'
    BY <1>3, <2>4 DEF PredictionsOfThisCall, EachDistributionIsItsOwn, Distributions
  <2>7. ScaledByLastEstimate'
    BY <2>2 DEF ScaledByLastEstimate
  <2>8. QED BY <1>2, <1>3, <1>4, <2>2, <2>5, <2>6, <2>7 DEF FillInv
<1>7. QED BY <1>5, <1>6

(* A distribution with the contents of some rows before is given others,   *)
(* of which the frames hold all or those that it selects.                  *)
GivenAfter(before, all, contents, rows, to, d) ==
  /\ before \in Seq(Row) /\ all \in Seq(Row)
  /\ to.rows = before \o all
  /\ to.known => FirstProjectionDiffers \/ contents[d] = Counts(measurement.subs[d], before)
  /\ SameEvents(rows, all) \/ SameEvents(rows, Taken(measurement.subs[d], all))
  /\ rows # <<>> => LatestEstimate(measurement.subs[d], to) = Last(rows).looped
  /\ rows = <<>> => before = <<>>

(* The outcome of the loop over the frames is right for it. *)
LEMMA LoopIsRight ==
  ASSUME MadeOf(measurement), analysis # None, NEW contents, GoodContents(contents),
         NEW rows \in Seq(Row), NEW frames, Cuts(frames, rows),
         NEW ds, ds \subseteq Distributions,
         NEW final, final = ProcessFrames(Begin(contents), frames, ds), final.ok,
         NEW d \in ds, NEW to, NEW before, NEW all,
         GivenAfter(before, all, contents, rows, to, d)
  PROVE  DOMAIN final.results \subseteq ds /\ RightFor(final, to, d)
<1> DEFINE sub == measurement.subs[d]
<1> USE DEF GivenAfter
<1>1. /\ For(analysis.selections, d) = sub.select
      /\ For(analysis.projections, d) = sub.projs \/ FirstProjectionDiffers
      /\ For(analysis.xsscales, d) = XSScaling(sub)
  BY AnalysisFindsItsOwn DEF FirstProjectionDiffers, Subs, Distributions
<1>2. ASSUME to.known, ~FirstProjectionDiffers
      PROVE  final.predictions[d] = Counts(sub, to.rows)
  BY <1>1, <1>2, FramesCount
<1>3. /\ rows = <<>> => DOMAIN final.results = {}
      /\ rows # <<>> => /\ DOMAIN final.results = ds
                        /\ ReturnedOf(final.results[d], final.predictions[d],
                                         Last(rows).looped, d)
  BY <1>1, FramesReturn
<1>4. CASE rows = <<>>
  <2>1. before \o all = all
    BY <1>4
  <2>2. ASSUME NEW b \in DOMAIN sub.bins
        PROVE  Counts(sub, all)[b] = 0
    <3>1. Counts(sub, all)[b] = Len(OnlyIn(all, OwnRows(sub, b)))
      BY CountsByBin
    <3>2. Len(OnlyIn(rows, OwnRows(sub, b))) = Len(OnlyIn(all, OwnRows(sub, b)))
      <4> HIDE DEF sub
      <4>1. QED BY CountOfSame DEF sub
    <3>3. Len(OnlyIn(rows, OwnRows(sub, b))) = 0
      BY <1>4, OnlyInEmpty
    <3>4. QED BY <3>1, <3>2, <3>3
  <2>3. QED BY <1>2, <1>3, <1>4, <2>1, <2>2 DEF RightFor
<1>5. CASE rows # <<>>
  <2>1. ReturnedOf(final.results[d], final.predictions[d], LatestEstimate(sub, to), d)
    BY <1>3, <1>5
  <2>2. d \in DOMAIN final.results /\ final.results[d] # NoPrediction
    BY <1>3, <1>5 DEF ReturnedOf
  <2>3. QED BY <1>2, <1>3, <1>5, <2>1, <2>2 DEF RightFor
<1>6. QED BY <1>4, <1>5

-----------------------------------------------------------------------------
(* The rows of a source. *)
LEMMA LoopedIsRows ==
  ASSUME NEW source \in Sources
  PROVE  /\ Looped(source) \in Seq(Row)
         /\ source # <<>> => /\ Looped(source) # <<>> /\ Len(source) \in Nat \ {0}
                             /\ Last(Looped(source)).looped = Len(source)
<1> DEFINE n == Len(source)
<1>1. source \in Seq(ToSet(source)) /\ ToSet(source) \subseteq Events
  BY SourcesAssumption DEF Events
<1>2. n \in Nat /\ DOMAIN source = 1 .. n /\ \A i \in 1 .. n : source[i] \in Events
  BY <1>1
<1>3. Looped(source) = [i \in 1 .. n |-> [event |-> source[i], looped |-> i]]
  BY <1>2 DEF Looped
<1>4. \A i \in 1 .. n : [event |-> source[i], looped |-> i] \in Row
  BY <1>2 DEF Row
<1>5. Looped(source) \in Seq(Row) /\ Len(Looped(source)) = n
  BY <1>2, <1>3, <1>4
<1>6. source # <<>> => n # 0
  BY <1>1
<1>7. n # 0 => Last(Looped(source)).looped = n
  BY <1>2, <1>3, <1>5 DEF Last
<1>8. QED BY <1>2, <1>5, <1>6, <1>7

(* What an EventFrameGen makes of them: the same events, and the last row  *)
(* carries the latest estimate that any row can.                           *)
LEMMA FramesOfSource ==
  ASSUME NEW source \in Sources, source # <<>>, NEW sub, NEW columns,
         NEW to, to.rows = Looped(source),
         NEW base, base = IF to.cut THEN Taken(sub, to.rows) ELSE to.rows,
         NEW rows, rows = FinalEstimate(base, Len(source))
  PROVE  /\ rows \in Seq(Row) /\ Cuts(FramesOf(base, Len(source), columns), rows)
         /\ SameEvents(rows, base)
         /\ rows # <<>> => LatestEstimate(sub, to) = Last(rows).looped
<1> DEFINE all == Looped(source)
           total == Len(source)
           n == Len(base)
           full == n % ChunkSize = 0
           ends == [base EXCEPT ![n].looped = total]
<1>1. all \in Seq(Row) /\ total \in Nat \ {0} /\ Last(all).looped = total
  BY LoopedIsRows
<1>2. base \in Seq(Row) /\ n \in Nat
  BY <1>1, OnlyInType DEF Taken
<1>3. rows = IF full THEN base ELSE ends
  BY DEF FinalEstimate
<1>4. LatestEstimate(sub, to) = IF to.cut /\ full THEN Last(base).looped ELSE total
  BY <1>1 DEF LatestEstimate
<1> HIDE DEF all, total, full
<1>5. /\ rows \in Seq(Row) /\ SameEvents(rows, base)
      /\ rows # <<>> => LatestEstimate(sub, to) = Last(rows).looped
  <2>1. CASE full
    <3>1. rows = base
      BY <1>3, <2>1
    <3>2. ~to.cut => base = all
      BY DEF all
    <3>3. QED BY <1>1, <1>2, <1>4, <2>1, <3>1, <3>2 DEF SameEvents
  <2>2. CASE ~full /\ n # 0
    <3>1. rows = ends /\ n \in 1 .. n
      BY <1>2, <1>3, <2>2
    <3>2. DOMAIN ends = 1 .. n /\ DOMAIN base = 1 .. n
      BY <1>2
    <3>3. ASSUME NEW i \in 1 .. n
          PROVE  /\ ends[i] \in Row /\ ends[i].event = base[i].event
                 /\ i = n => ends[i].looped = total
      <4>1. base[i] \in Row
        BY <1>2
      <4>2. [base[i] EXCEPT !.looped = total] = [event |-> base[i].event, looped |-> total]
        BY <4>1 DEF Row
      <4>3. ends[i] = IF i = n THEN [base[i] EXCEPT !.looped = total] ELSE base[i]
        BY <3>2
      <4>4. QED BY <1>1, <4>1, <4>2, <4>3 DEF Row
    <3>4. ends = [i \in 1 .. n |-> ends[i]]
      BY <3>2
    <3> HIDE DEF ends
    <3>5. ends \in Seq(Row) /\ Len(ends) = n
      <4> HIDE DEF n
      <4>1. ends \in [1 .. n -> Row]
        BY <3>3, <3>4
      <4>2. QED BY <1>2, <4>1
    <3> HIDE DEF n
    <3>6. SameEvents(ends, base)
      BY <3>3, <3>5 DEF SameEvents, n
    <3>7. Last(ends).looped = total
      BY <3>1, <3>3, <3>5 DEF Last
    <3>8. QED BY <1>4, <2>2, <3>1, <3>5, <3>6, <3>7
  <2>3. CASE ~full /\ n = 0
    <3>1. 0 % ChunkSize = 0
      BY BoundsAssumption
    <3>2. QED BY <2>3, <3>1 DEF full
  <2>4. QED BY <2>1, <2>2, <2>3
<1>6. FramesOf(base, Len(source), columns) = InChunks(rows, columns)
  BY DEF FramesOf
<1>7. Cuts(FramesOf(base, Len(source), columns), rows)
  BY <1>5, <1>6, InChunksCut
<1>8. QED BY <1>5, <1>7

(* After a reset each distribution has the counts of no rows.              *)
LEMMA ResetCounts ==
  ASSUME GoodContents(predictions)
  PROVE  /\ GoodContents(AllReset)
         /\ \A d \in Distributions : /\ AllReset[d] = Counts(measurement.subs[d], <<>>)
                                     /\ GoodContents([predictions EXCEPT ![d] = Reset(@)])
                                     /\ [predictions EXCEPT ![d] = Reset(@)][d]
                                          = Counts(measurement.subs[d], <<>>)
<1>1. ASSUME NEW d \in Distributions
      PROVE  /\ Reset(predictions[d]) = Counts(measurement.subs[d], <<>>)
             /\ Reset(predictions[d]) \in [Bins(d) -> Nat]
  <2>1. predictions[d] \in [Bins(d) -> Nat]
    BY DEF GoodContents
  <2>2. Reset(predictions[d]) = [b \in Bins(d) |-> 0]
    BY <2>1 DEF Reset
  <2>3. QED BY <2>2, CountsOfNone DEF Bins
<1>2. DOMAIN predictions = Distributions
  BY DEF GoodContents
<1>3. DOMAIN AllReset = Distributions /\ \A d \in Distributions : AllReset[d] = Reset(predictions[d])
  BY <1>2 DEF AllReset
<1>4. GoodContents(AllReset)
  BY <1>1, <1>3 DEF GoodContents
<1>5. ASSUME NEW d \in Distributions
      PROVE  /\ GoodContents([predictions EXCEPT ![d] = Reset(@)])
             /\ [predictions EXCEPT ![d] = Reset(@)][d] = Reset(predictions[d])
  BY <1>1, <1>2 DEF GoodContents
<1>6. QED BY <1>1, <1>3, <1>4, <1>5

(* A call that resets all distributions and gives them the same rows.      *)
LEMMA ResetLoopKeeps ==
  ASSUME FillInv, Call, NEW all \in Seq(Row), NEW cut \in BOOLEAN,
         NEW rows \in Seq(Row), NEW frames, Cuts(frames, rows),
         \A d \in Distributions :
           /\ SameEvents(rows, all) \/ SameEvents(rows, Taken(measurement.subs[d], all))
           /\ rows # <<>> =>
                LatestEstimate(measurement.subs[d], [known |-> TRUE, cut |-> cut, rows |-> all])
                  = Last(rows).looped,
         NEW work, work = ProcessFrames(Begin(AllReset), frames, Distributions),
         NEW to, to = ToAll([known |-> TRUE, cut |-> cut, rows |-> all]),
         Conclude(work, to)
  PROVE  FillInv'
<1>1. /\ analysis # None /\ MadeOf(measurement)
      /\ GoodContents(predictions) /\ GoodGiven(given)
  BY DEF Call, FillInv
<1>2. /\ GoodContents(AllReset)
      /\ \A d \in Distributions : AllReset[d] = Counts(measurement.subs[d], <<>>)
  BY <1>1, ResetCounts
<1>3. GoodWork(work)
  BY <1>2, FramesFill
<1>4. \A d \in Distributions : to[d] = [known |-> TRUE, cut |-> cut, rows |-> all]
  BY <1>1 DEF ToAll, GoodGiven
<1>5. GoodGiven(to)
  BY <1>1, <1>4 DEF GoodGiven, ToAll
<1>6. ASSUME work.ok, NEW d \in Distributions
      PROVE  DOMAIN work.results \subseteq Distributions /\ RightFor(work, to[d], d)
  <2> DEFINE mine == to[d]
             none == <<>>
  <2>1. mine = [known |-> TRUE, cut |-> cut, rows |-> all]
    BY <1>4
  <2> HIDE DEF mine
  <2>2. mine.known = TRUE /\ mine.cut = cut /\ mine.rows = all
    BY <2>1
  <2>3. none \in Seq(Row) /\ mine.rows = none \o all
    BY <2>2
  <2>4. /\ SameEvents(rows, all) \/ SameEvents(rows, Taken(measurement.subs[d], all))
        /\ rows # <<>> => LatestEstimate(measurement.subs[d], mine) = Last(rows).looped
    BY <2>1
  <2>5. GivenAfter(none, all, AllReset, rows, mine, d)
    BY <1>2, <2>3, <2>4 DEF GivenAfter
  <2> HIDE DEF none
  <2>6. DOMAIN work.results \subseteq Distributions /\ RightFor(work, mine, d)
    BY <1>1, <1>2, <1>6, <2>5, LoopIsRight
  <2>7. QED BY <2>6 DEF mine
<1>7. work.ok => /\ DOMAIN work.results \subseteq Distributions
                 /\ \A d \in Distributions : RightFor(work, to[d], d)
  <2>1. 1 \in Distributions
    BY <1>1 DEF MadeOf, Distributions
  <2>2. QED BY <1>6, <2>1
<1>8. QED BY <1>3, <1>5, <1>7, ConcludeKeeps

(* A call that throws before it does anything. *)
LEMMA ThrowsKeeps ==
  ASSUME FillInv, Call, Throws
  PROVE  FillInv'
<1>1. analysis # None /\ MadeOf(measurement) /\ GoodContents(predictions) /\ GoodGiven(given)
  BY DEF Call, FillInv
<1>2. /\ UNCHANGED <<measurement, analysis, predictions, given>> /\ answer'.kind = "thrown"
      /\ calls' = calls + 1 /\ calls < MaxCalls
  BY DEF Throws, Thrown, Call
<1>3. /\ Distributions' = Distributions /\ Subs' = Subs
      /\ FirstProjectionDiffers' = FirstProjectionDiffers
  BY <1>2 DEF Distributions, Subs, FirstProjectionDiffers
<1>4. calls' \in 0 .. MaxCalls
  BY <1>2, BoundsAssumption DEF FillInv
<1>5. PredictionsOfThisCall'
  BY <1>2, <1>3 DEF FillInv, PredictionsOfThisCall, EachDistributionIsItsOwn
<1>6. ScaledByLastEstimate'
  BY <1>2 DEF ScaledByLastEstimate
<1>7. MadeOf(measurement)' /\ GoodContents(predictions)' /\ GoodGiven(given)'
  BY <1>1, <1>2, <1>3 DEF MadeOf, GoodContents, GoodGiven, Bins
<1>8. QED BY <1>1, <1>2, <1>4, <1>5, <1>6, <1>7 DEF FillInv

LEMMA ProcessKeeps ==
  ASSUME FillInv, NEW source \in Sources, Process(source)
  PROVE  FillInv'
<1> DEFINE cut == Cutting
           all == Looped(source)
           base == RowsFor(source)
           rows == FinalEstimate(base, Len(source))
           frames == FramesOf(base, Len(source), ColumnsOf(analysis))
           work == ProcessFrames(Begin(AllReset), frames, Distributions)
           mine == [known |-> TRUE, cut |-> cut, rows |-> all]
           to == ToAll(mine)
<1>1. Call /\ MadeOf(measurement) /\ (Throws \/ (source # <<>> /\ Conclude(work, to)))
  BY DEF Process, Call, FillInv
<1>2. all \in Seq(Row) /\ cut \in BOOLEAN
  BY LoopedIsRows DEF Cutting
<1>3. ASSUME NEW d \in Distributions
      PROVE  base = IF cut THEN Taken(measurement.subs[d], all) ELSE all
  <2> SUFFICES ASSUME cut PROVE analysis.selections[1] = measurement.subs[d].select
    BY DEF Taken, RowsFor
  <2>1. analysis = SingleDistribution(measurement.subs[1])
    BY <1>1 DEF MadeOf, AnalysisOf, SingleFlux, Cutting
  <2>2. analysis.selections = <<measurement.subs[1].select>>
    BY <2>1 DEF SingleDistribution
  <2>3. For(analysis.selections, d) = measurement.subs[d].select
    BY <1>1, AnalysisFindsItsOwn DEF Distributions
  <2>4. QED BY <2>2, <2>3 DEF For
<1>4. mine.cut = cut /\ mine.rows = Looped(source)
  OBVIOUS
<1>5. /\ work = ProcessFrames(Begin(AllReset), frames, Distributions)
      /\ to = ToAll([known |-> TRUE, cut |-> cut, rows |-> all])
      /\ rows = FinalEstimate(base, Len(source))
      /\ frames = FramesOf(base, Len(source), ColumnsOf(analysis))
      /\ mine = [known |-> TRUE, cut |-> cut, rows |-> all]
  OBVIOUS
<1> HIDE DEF cut, base, rows, frames, work, to, mine
<1>6. CASE source # <<>> /\ Conclude(work, to)
  <2>1. ASSUME NEW d \in Distributions
        PROVE  /\ rows \in Seq(Row) /\ Cuts(frames, rows)
               /\ SameEvents(rows, base)
               /\ rows # <<>> =>
                    LatestEstimate(measurement.subs[d], mine) = Last(rows).looped
    <3> DEFINE sub == measurement.subs[d]
    <3>1. /\ base = IF mine.cut THEN Taken(sub, mine.rows) ELSE mine.rows
          /\ mine.rows = Looped(source)
      BY <1>3, <1>4
    <3> HIDE DEF all, sub
    <3>2. QED BY <1>5, <1>6, <3>1, FramesOfSource DEF sub
  <2>2. ASSUME NEW d \in Distributions
        PROVE  SameEvents(rows, all) \/ SameEvents(rows, Taken(measurement.subs[d], all))
    BY <1>3, <2>1
  <2>3. rows \in Seq(Row) /\ Cuts(frames, rows)
    <3>1. 1 \in Distributions
      BY <1>1 DEF MadeOf, Distributions
    <3>2. QED BY <2>1, <3>1
  <2> HIDE DEF all
  <2>4. QED BY <1>1, <1>2, <1>5, <1>6, <2>1, <2>2, <2>3, ResetLoopKeeps
<1>7. QED BY <1>1, <1>6, ThrowsKeeps

(* Frames before one that is lost, and a call that filled something before *)
(* it threw.                                                               *)
LEMMA FramesBeforeThrowCut ==
  ASSUME NEW rows \in Seq(Row), NEW columns, NEW frames \in FramesBeforeThrow(rows, columns)
  PROVE  \E before \in Seq(Row) : Cuts(frames, before)
<1>1. PICK n \in 0 .. Len(rows) : frames = InChunks(SubSeq(rows, 1, n), columns)
  BY DEF FramesBeforeThrow
<1>2. SubSeq(rows, 1, n) \in Seq(Row)
  BY FrontOf
<1>3. QED BY <1>1, <1>2, InChunksCut

LEMMA StoppedKeeps ==
  ASSUME FillInv, Call, NEW work, GoodWork(work), ~work.ok, Conclude(work, given)
  PROVE  FillInv'
<1>1. GoodGiven(given)
  BY DEF Call, FillInv
<1>2. QED BY <1>1, ConcludeKeeps

LEMMA ProcessBreaksKeeps ==
  ASSUME FillInv, NEW source \in Sources, ProcessBreaks(source)
  PROVE  FillInv'
<1>1. PICK frames \in FramesBeforeThrow(RowsFor(source), ColumnsOf(analysis)) :
        Conclude(Stopped(ProcessFrames(Begin(AllReset), frames, Distributions).predictions), given)
  BY DEF ProcessBreaks
<1>2. Call /\ GoodContents(predictions)
  BY DEF ProcessBreaks, Call, FillInv
<1>3. RowsFor(source) \in Seq(Row)
  BY LoopedIsRows, OnlyInType DEF RowsFor
<1>4. PICK before \in Seq(Row) : Cuts(frames, before)
  BY <1>1, <1>3, FramesBeforeThrowCut
<1> DEFINE filled == ProcessFrames(Begin(AllReset), frames, Distributions)
           work == Stopped(filled.predictions)
<1>5. GoodWork(filled)
  BY <1>2, <1>4, ResetCounts, FramesFill
<1>6. GoodWork(work) /\ ~work.ok
  BY <1>5 DEF GoodWork, Stopped
<1> HIDE DEF filled
<1>7. Conclude(work, given)
  BY <1>1 DEF filled
<1> HIDE DEF work
<1>8. QED BY <1>2, <1>6, <1>7, StoppedKeeps

LEMMA AsTheyAre ==
  ASSUME NEW all \in Seq(Row)
  PROVE  /\ SameEvents(all, all)
         /\ \A sub : LatestEstimate(sub, [known |-> TRUE, cut |-> FALSE, rows |-> all])
                       = Last(all).looped
  BY DEF SameEvents, LatestEstimate

LEMMA ProcessFrameKeeps ==
  ASSUME FillInv, NEW source \in Sources, NEW columns \in ColumnSets, ProcessFrame(source, columns)
  PROVE  FillInv'
<1> DEFINE all == Looped(source)
           frames == <<Frame(all, columns)>>
           work == ProcessFrames(Begin(AllReset), frames, Distributions)
           to == ToAll([known |-> TRUE, cut |-> FALSE, rows |-> all])
<1>1. Call /\ Conclude(work, to) /\ source # <<>>
  BY DEF ProcessFrame, GivenAll
<1>2. all \in Seq(Row) /\ all # <<>>
  BY <1>1, LoopedIsRows
<1>3. Cuts(frames, all)
  <2> HIDE DEF all
  <2>1. QED BY <1>2, FrameOfWhole
<1> HIDE DEF all, frames, work, to
<1>4. work = ProcessFrames(Begin(AllReset), frames, Distributions)
  BY DEF work
<1>5. to = ToAll([known |-> TRUE, cut |-> FALSE, rows |-> all])
  BY DEF to
<1>6. QED BY <1>1, <1>2, <1>3, <1>4, <1>5, AsTheyAre, ResetLoopKeeps

LEMMA ProcessTableKeeps ==
  ASSUME FillInv, NEW source \in Sources, NEW columns \in ColumnSets, ProcessTable(source, columns)
  PROVE  FillInv'
<1> DEFINE all == Looped(source)
           pieces == InChunks(all, columns)
           whole == <<Frame(all, columns)>>
           to == ToAll([known |-> TRUE, cut |-> FALSE, rows |-> all])
           Made(frames) == ProcessFrames(Begin(AllReset), frames, Distributions)
<1>1. Call
  BY DEF ProcessTable
<1>2. \/ Conclude(Made(pieces), to)
      \/ all # <<>> /\ Conclude(Made(whole), to)
      \/ Conclude(Stopped(AllReset), to)
  BY DEF ProcessTable, GivenAll
<1>3. all \in Seq(Row)
  BY LoopedIsRows
<1>4. to = ToAll([known |-> TRUE, cut |-> FALSE, rows |-> all])
  OBVIOUS
<1> HIDE DEF all, to
<1>5. Cuts(pieces, all) /\ (all # <<>> => Cuts(whole, all))
  BY <1>3, InChunksCut, FrameOfWhole
<1> HIDE DEF pieces, whole
<1>6. CASE \E frames : Cuts(frames, all) /\ Conclude(Made(frames), to)
  <2>1. PICK frames : Cuts(frames, all) /\ Conclude(Made(frames), to)
    BY <1>6
  <2> DEFINE work == Made(frames)
  <2>2. work = ProcessFrames(Begin(AllReset), frames, Distributions) /\ Conclude(work, to)
    BY <2>1
  <2> HIDE DEF work, Made
  <2>3. QED BY <1>1, <1>3, <1>4, <2>1, <2>2, AsTheyAre, ResetLoopKeeps
<1>7. CASE Conclude(Stopped(AllReset), to)
  <2> DEFINE work == Stopped(AllReset)
  <2>2. Conclude(work, to)
    BY <1>7
  <2>3. analysis # None /\ GoodContents(predictions) /\ GoodGiven(given)
    BY <1>1 DEF Call, FillInv
  <2>4. GoodWork(work) /\ ~work.ok
    BY <2>3, ResetCounts DEF GoodWork, Stopped
  <2>5. GoodGiven(to)
    BY <1>3, <1>4, <2>3 DEF GoodGiven, ToAll
  <2> HIDE DEF work
  <2>6. QED BY <1>1, <2>2, <2>4, <2>5, ConcludeKeeps
<1>8. QED BY <1>2, <1>5, <1>6, <1>7

(* process_batched() goes on from the counts of the rows given before.     *)
LEMMA LastOfBoth ==
  ASSUME NEW s \in Seq(Row), NEW t \in Seq(Row), t # <<>>
  PROVE  Last(s \o t) = Last(t)
<1> DEFINE both == s \o t
           m == Len(s)
           n == Len(t)
<1>1. m \in Nat /\ n \in Nat /\ n # 0
  OBVIOUS
<1>2. /\ Len(both) = m + n
      /\ \A i \in 1 .. m + n : both[i] = IF i <= m THEN s[i] ELSE t[i - m]
  BY ConcatProperties
<1> HIDE DEF both
<1>3. m + n \in 1 .. m + n /\ ~(m + n <= m) /\ m + n - m = n
  BY <1>1
<1>4. both[Len(both)] = t[n]
  <2>1. both[m + n] = t[m + n - m]
    BY <1>2, <1>3
  <2>2. QED BY <1>2, <1>3, <2>1
<1>5. QED BY <1>4 DEF Last, both, n

LEMMA ProcessFurtherKeeps ==
  ASSUME FillInv, NEW source \in Sources, NEW columns \in ColumnSets,
         ProcessFurther(source, columns)
  PROVE  FillInv'
<1> DEFINE all == Looped(source)
           frames == <<Frame(all, columns)>>
           work == ProcessFrames(Begin(predictions), frames, Distributions)
           to == [d \in DOMAIN given |-> [given[d] EXCEPT !.rows = @ \o all, !.cut = FALSE]]
<1>1. Call /\ Conclude(work, to) /\ source # <<>>
  BY DEF ProcessFurther
<1>2. /\ analysis # None /\ MadeOf(measurement)
      /\ GoodContents(predictions) /\ GoodGiven(given)
  BY <1>1 DEF Call, FillInv
<1>3. all \in Seq(Row) /\ all # <<>>
  BY <1>1, LoopedIsRows
<1> HIDE DEF all
<1>4. Cuts(frames, all)
  BY <1>3, FrameOfWhole
<1> HIDE DEF frames
<1>5. GoodWork(work)
  BY <1>2, <1>3, <1>4, FramesFill
<1>6. ASSUME NEW d \in Distributions
      PROVE  to[d] = [known |-> given[d].known, cut |-> FALSE, rows |-> given[d].rows \o all]
  <2> DEFINE old == given[d]
  <2>1. old = [known |-> old.known, cut |-> old.cut, rows |-> old.rows]
    BY <1>2 DEF GoodGiven
  <2>2. to[d] = [old EXCEPT !.rows = @ \o all, !.cut = FALSE]
    BY <1>2 DEF GoodGiven
  <2> HIDE DEF old, to
  <2>3. ASSUME NEW new, new = [old EXCEPT !.rows = @ \o all, !.cut = FALSE]
        PROVE  new = [known |-> old.known, cut |-> FALSE, rows |-> old.rows \o all]
    BY <2>1, <2>3
  <2>4. QED BY <2>2, <2>3 DEF old
<1>7. DOMAIN to = Distributions
  BY <1>2 DEF GoodGiven
<1> HIDE DEF to
<1>8. ASSUME NEW d \in Distributions
      PROVE  /\ to[d].known = given[d].known /\ to[d].cut = FALSE
             /\ to[d].rows = given[d].rows \o all
             /\ to[d] = [known |-> to[d].known, cut |-> to[d].cut, rows |-> to[d].rows]
             /\ given[d].rows \in Seq(Row) /\ given[d].rows \o all \in Seq(Row)
  <2>1. given[d].rows \in Seq(Row)
    BY <1>2 DEF GoodGiven
  <2>2. given[d].rows \o all \in Seq(Row)
    BY <1>3, <2>1, ConcatProperties
  <2> DEFINE mine == to[d]
             known == given[d].known
             rows == given[d].rows \o all
  <2>3. mine = [known |-> known, cut |-> FALSE, rows |-> rows]
    BY <1>6
  <2> HIDE DEF mine, known, rows
  <2>4. /\ mine.known = known /\ mine.cut = FALSE /\ mine.rows = rows
        /\ mine = [known |-> mine.known, cut |-> mine.cut, rows |-> mine.rows]
    BY <2>3
  <2>5. QED BY <2>1, <2>2, <2>4 DEF mine, known, rows
<1>9. GoodGiven(to)
  BY <1>2, <1>7, <1>8 DEF GoodGiven
<1>10. ASSUME work.ok, NEW d \in Distributions
       PROVE  DOMAIN work.results \subseteq Distributions /\ RightFor(work, to[d], d)
  <2> DEFINE mine == to[d]
             before == given[d].rows
  <2>1. mine.known => FirstProjectionDiffers \/ predictions[d] = Counts(measurement.subs[d], before)
    BY <1>2, <1>8 DEF FillInv, PredictionsOfThisCall, EachDistributionIsItsOwn, Subs, Distributions
  <2>2. LatestEstimate(measurement.subs[d], mine) = Last(before \o all).looped
    BY <1>8 DEF LatestEstimate
  <2>3. LatestEstimate(measurement.subs[d], mine) = Last(all).looped
    BY <1>3, <1>8, <2>2, LastOfBoth
  <2>4. GivenAfter(before, all, predictions, all, mine, d)
    BY <1>3, <1>8, <2>1, <2>3, AsTheyAre DEF GivenAfter
  <2>5. work = ProcessFrames(Begin(predictions), frames, Distributions)
    OBVIOUS
  <2> HIDE DEF mine, before, work
  <2>6. DOMAIN work.results \subseteq Distributions /\ RightFor(work, mine, d)
    BY <1>2, <1>3, <1>4, <1>10, <2>4, <2>5, LoopIsRight
  <2>7. QED BY <2>6 DEF mine
<1>11. work.ok => /\ DOMAIN work.results \subseteq Distributions
                  /\ \A d \in Distributions : RightFor(work, to[d], d)
  <2>1. 1 \in Distributions
    BY <1>2 DEF MadeOf, Distributions
  <2> HIDE DEF work
  <2>2. QED BY <1>10, <2>1
<1> HIDE DEF work
<1>12. QED BY <1>1, <1>5, <1>9, <1>11, ConcludeKeeps

(* Each distribution is filled from a source of its own. *)
LEMMA OwnSourceIsRight ==
  ASSUME MadeOf(measurement), analysis # None, GoodContents(predictions),
         NEW source \in Sources, NEW d \in Distributions,
         NEW after, after = ProcessDistSource(source, d)
  PROVE  /\ GoodWork(after)
         /\ after.ok => /\ DOMAIN after.results \subseteq {d}
                        /\ RightFor(after, GivenCut(Looped(source)), d)
<1> DEFINE all == Looped(source)
           base == SelectedRows(source, d)
           rows == FinalEstimate(base, Len(source))
           frames == FramesOf(base, Len(source), ColumnsOf(analysis))
           contents == [predictions EXCEPT ![d] = Reset(@)]
           to == GivenCut(all)
           none == <<>>
<1>1. after = IF source = <<>> THEN Stopped(predictions)
              ELSE ProcessFrames(Begin(contents), frames, {d})
  BY DEF ProcessDistSource, ProcessDistFrames
<1>2. all \in Seq(Row)
  BY LoopedIsRows
<1>3. base = Taken(measurement.subs[d], all)
  BY AnalysisFindsItsOwn DEF Taken, Distributions, SelectedRows
<1>4. GoodContents(contents) /\ contents[d] = Counts(measurement.subs[d], none)
  BY ResetCounts
<1>5. to.known = TRUE /\ to.cut = TRUE /\ to.rows = Looped(source)
  BY DEF GivenCut
<1>6. CASE source = <<>>
  BY <1>1, <1>6 DEF GoodWork, Stopped
<1>7. CASE source # <<>>
  <2>0. /\ rows = FinalEstimate(base, Len(source))
        /\ frames = FramesOf(base, Len(source), ColumnsOf(analysis))
        /\ after = ProcessFrames(Begin(contents), frames, {d})
    BY <1>1, <1>7
  <2> HIDE DEF base, rows, frames, contents, to
  <2>1. /\ rows \in Seq(Row) /\ Cuts(frames, rows) /\ SameEvents(rows, base)
        /\ rows # <<>> => LatestEstimate(measurement.subs[d], to) = Last(rows).looped
    <3> DEFINE sub == measurement.subs[d]
    <3>1. base = IF to.cut THEN Taken(sub, to.rows) ELSE to.rows
      BY <1>3, <1>5
    <3> HIDE DEF all, sub
    <3>2. QED BY <1>5, <1>7, <2>0, <3>1, FramesOfSource DEF sub
  <2> HIDE DEF all
  <2>2. {d} \subseteq Distributions /\ d \in {d}
    OBVIOUS
  <2>3. GoodWork(after)
    BY <1>4, <2>0, <2>1, <2>2, FramesFill
  <2>4. GivenAfter(none, all, contents, rows, to, d)
    <3>1. none \in Seq(Row) /\ to.rows = none \o all
      BY <1>2, <1>5 DEF all
    <3>2. QED BY <1>2, <1>3, <1>4, <2>1, <3>1 DEF GivenAfter
  <2> HIDE DEF none
  <2>5. after.ok => DOMAIN after.results \subseteq {d} /\ RightFor(after, to, d)
    BY <1>4, <2>0, <2>1, <2>2, <2>4, LoopIsRight
  <2>6. QED BY <2>3, <2>5 DEF to, all
<1>8. QED BY <1>6, <1>7

LEMMA BrokenSourceIsGood ==
  ASSUME GoodContents(predictions), NEW source \in Sources, NEW d \in Distributions,
         NEW work \in BrokenDistSources(source, d)
  PROVE  GoodWork(work) /\ ~work.ok
<1> DEFINE rows == SelectedRows(source, d)
<1>1. source # <<>>
  BY DEF BrokenDistSources
<1>2. PICK frames \in FramesBeforeThrow(rows, ColumnsOf(analysis)) :
        work = Stopped(ProcessDistFrames(frames, d).predictions)
  BY <1>1 DEF BrokenDistSources
<1>3. rows \in Seq(Row)
  BY LoopedIsRows, OnlyInType DEF SelectedRows
<1> HIDE DEF rows
<1>4. PICK before \in Seq(Row) : Cuts(frames, before)
  BY <1>2, <1>3, FramesBeforeThrowCut
<1> DEFINE contents == [predictions EXCEPT ![d] = Reset(@)]
           filled == ProcessFrames(Begin(contents), frames, {d})
<1>5. GoodContents(contents) /\ {d} \subseteq Distributions
  BY ResetCounts
<1> HIDE DEF contents
<1>6. GoodWork(filled)
  BY <1>4, <1>5, FramesFill
<1> HIDE DEF filled
<1>7. work = Stopped(filled.predictions)
  BY <1>2 DEF filled, contents, ProcessDistFrames
<1>8. QED BY <1>6, <1>7 DEF GoodWork, Stopped

(* The loop over the distributions, whatever its rounds have made of each. *)
LEMMA InTurnIsGood ==
  ASSUME GoodContents(predictions), NEW after, \A d \in Distributions : GoodWork(after[d])
  PROVE  /\ GoodWork(InTurn(after))
         /\ InTurn(after).ok = \A d \in Distributions : after[d].ok
         /\ \A d \in Distributions : InTurn(after).ok =>
              /\ InTurn(after).predictions[d] = after[d].predictions[d]
              /\ DOMAIN InTurn(after).results = Distributions
              /\ InTurn(after).results[d] = IF d \in DOMAIN after[d].results
                                            THEN after[d].results[d] ELSE NoPrediction
<1> DEFINE reached(d) == \A e \in Distributions : e < d => after[e].ok
           ok == \A d \in Distributions : after[d].ok
           contents == [d \in Distributions |->
                          IF reached(d) THEN after[d].predictions[d] ELSE predictions[d]]
           results == [d \in Distributions |->
                         IF d \in DOMAIN after[d].results THEN after[d].results[d]
                         ELSE NoPrediction]
           work == InTurn(after)
<1>1. work = [ok |-> ok, predictions |-> contents, results |-> results]
  BY DEF InTurn
<1>2. ASSUME NEW d \in Distributions
      PROVE  /\ contents[d] \in [Bins(d) -> Nat]
             /\ ok => contents[d] = after[d].predictions[d]
             /\ results[d] = IF d \in DOMAIN after[d].results THEN after[d].results[d]
                             ELSE NoPrediction
  <2>1. after[d].predictions[d] \in [Bins(d) -> Nat] /\ predictions[d] \in [Bins(d) -> Nat]
    BY DEF GoodWork, GoodContents
  <2>2. contents[d] = IF reached(d) THEN after[d].predictions[d] ELSE predictions[d]
    OBVIOUS
  <2>3. ok => reached(d)
    OBVIOUS
  <2>4. results[d] = IF d \in DOMAIN after[d].results THEN after[d].results[d] ELSE NoPrediction
    OBVIOUS
  <2> HIDE DEF contents, results, ok, reached
  <2>5. QED BY <2>1, <2>2, <2>3, <2>4
<1>3. DOMAIN contents = Distributions /\ DOMAIN results = Distributions /\ ok \in BOOLEAN
  OBVIOUS
<1> HIDE DEF contents, results, ok, work
<1>4. /\ work.ok = ok /\ work.predictions = contents /\ work.results = results
      /\ work = [ok |-> work.ok, predictions |-> work.predictions, results |-> work.results]
  BY <1>1
<1>5. GoodWork(work)
  BY <1>2, <1>3, <1>4 DEF GoodWork, GoodContents
<1>6. QED BY <1>2, <1>3, <1>4, <1>5 DEF work, ok

LEMMA InTurnKeeps ==
  ASSUME FillInv, Call, NEW after, NEW to, GoodGiven(to), Conclude(InTurn(after), to),
         \A d \in Distributions :
           GoodWork(after[d]) /\ (after[d].ok => RightFor(after[d], to[d], d))
  PROVE  FillInv'
<1> DEFINE work == InTurn(after)
<1>1. GoodContents(predictions)
  BY DEF Call, FillInv
<1>2. /\ GoodWork(work)
      /\ work.ok = \A d \in Distributions : after[d].ok
      /\ \A d \in Distributions : work.ok =>
           /\ work.predictions[d] = after[d].predictions[d]
           /\ DOMAIN work.results = Distributions
           /\ work.results[d] = IF d \in DOMAIN after[d].results
                                THEN after[d].results[d] ELSE NoPrediction
  BY <1>1, InTurnIsGood
<1> HIDE DEF work
<1>3. ASSUME work.ok, NEW d \in Distributions
      PROVE  DOMAIN work.results \subseteq Distributions /\ RightFor(work, to[d], d)
  <2> DEFINE mine == after[d]
  <2>1. /\ RightFor(mine, to[d], d)
        /\ work.predictions[d] = mine.predictions[d]
        /\ work.results[d] = IF d \in DOMAIN mine.results THEN mine.results[d] ELSE NoPrediction
        /\ DOMAIN work.results = Distributions
    BY <1>2, <1>3
  <2> HIDE DEF mine
  <2>2. (d \in DOMAIN work.results /\ work.results[d] # NoPrediction)
          <=> (d \in DOMAIN mine.results /\ mine.results[d] # NoPrediction)
    BY <2>1
  <2>3. d \in DOMAIN mine.results => work.results[d] = mine.results[d]
    BY <2>1
  <2>4. QED BY <2>1, <2>2, <2>3 DEF RightFor
<1>4. work.ok => /\ DOMAIN work.results \subseteq Distributions
                 /\ \A d \in Distributions : RightFor(work, to[d], d)
  <2>1. 1 \in Distributions
    BY DEF Call, FillInv, MadeOf, Distributions
  <2>2. QED BY <1>3, <2>1
<1>5. Conclude(work, to)
  BY DEF work
<1>6. QED BY <1>2, <1>4, <1>5, ConcludeKeeps

(* Two sources are one for each distribution when there are two of these.  *)
LEMMA EachHasASource ==
  ASSUME MadeOf(measurement), NEW source \in Sources, NEW other \in Sources,
         OneSourceEach(<<source, other>>), NEW d \in Distributions
  PROVE  <<source, other>>[d] \in Sources
<1> DEFINE sources == <<source, other>>
<1>1. Len(sources) = 2 /\ sources[1] = source /\ sources[2] = other
  OBVIOUS
<1> HIDE DEF sources
<1>2. d \in 1 .. 2
  BY <1>1 DEF MadeOf, Distributions, OneSourceEach, sources
<1>3. d = 1 \/ d = 2
  BY <1>2
<1>4. QED BY <1>1, <1>3 DEF sources

LEMMA ProcessEachKeeps ==
  ASSUME FillInv, NEW source \in Sources, NEW other \in Sources, ProcessEach(<<source, other>>)
  PROVE  FillInv'
<1> DEFINE sources == <<source, other>>
           after == ProcessSources(sources)
           to == [d \in DOMAIN given |-> GivenCut(Looped(sources[d]))]
<1>1. Call /\ analysis # None /\ MadeOf(measurement)
      /\ GoodContents(predictions) /\ GoodGiven(given)
  BY DEF ProcessEach, Call, FillInv
<1>2. \/ Throws
      \/ OneSourceEach(sources) /\ Conclude(InTurn(after), to)
  BY DEF ProcessEach
<1>3. CASE Throws
  BY <1>1, <1>3, ThrowsKeeps
<1>4. CASE OneSourceEach(sources) /\ Conclude(InTurn(after), to)
  <2>1. \A d \in Distributions : sources[d] \in Sources
    BY <1>1, <1>4, EachHasASource
  <2>2. ASSUME NEW d \in Distributions
        PROVE  /\ to[d] = GivenCut(Looped(sources[d]))
               /\ GoodWork(after[d])
               /\ after[d].ok => RightFor(after[d], GivenCut(Looped(sources[d])), d)
    <3>1. after[d] = ProcessDistSource(sources[d], d)
      BY DEF ProcessSources
    <3>2. sources[d] \in Sources
      BY <2>1
    <3>3. to[d] = GivenCut(Looped(sources[d]))
      BY <1>1 DEF GoodGiven
    <3> HIDE DEF sources, after, to
    <3>4. QED BY <1>1, <3>1, <3>2, <3>3, OwnSourceIsRight
  <2>3. ASSUME NEW d \in Distributions
        PROVE  /\ to[d] = [known |-> to[d].known, cut |-> to[d].cut, rows |-> to[d].rows]
               /\ to[d].known \in BOOLEAN /\ to[d].cut \in BOOLEAN
               /\ to[d].rows \in Seq(Row)
    <3> DEFINE mine == to[d]
               rows == Looped(sources[d])
    <3>1. rows \in Seq(Row)
      BY <2>1, LoopedIsRows
    <3>2. mine = [known |-> TRUE, cut |-> TRUE, rows |-> rows]
      BY <2>2 DEF GivenCut
    <3> HIDE DEF mine, to, rows
    <3>3. /\ mine = [known |-> mine.known, cut |-> mine.cut, rows |-> mine.rows]
          /\ mine.known = TRUE /\ mine.cut = TRUE /\ mine.rows = rows
      BY <3>2
    <3>4. QED BY <3>1, <3>3 DEF mine
  <2>4. GoodGiven(to)
    BY <1>1, <2>3 DEF GoodGiven
  <2>5. \A d \in Distributions :
          GoodWork(after[d]) /\ (after[d].ok => RightFor(after[d], to[d], d))
    BY <2>2
  <2> HIDE DEF after, to
  <2>6. QED BY <1>1, <1>4, <2>4, <2>5, InTurnKeeps
<1>5. QED BY <1>2, <1>3, <1>4

LEMMA ProcessEachBreaksKeeps ==
  ASSUME FillInv, NEW source \in Sources, NEW other \in Sources,
         ProcessEachBreaks(<<source, other>>)
  PROVE  FillInv'
<1> DEFINE sources == <<source, other>>
           each == ProcessSources(sources)
<1>1. /\ Call /\ analysis # None /\ MadeOf(measurement) /\ OneSourceEach(sources)
      /\ GoodContents(predictions) /\ GoodGiven(given)
  BY DEF ProcessEachBreaks, Call, FillInv
<1>0. PICK d \in Distributions : \E broken \in BrokenDistSources(sources[d], d) :
        Conclude(InTurn([each EXCEPT ![d] = broken]), given)
  BY DEF ProcessEachBreaks
<1>2. PICK broken \in BrokenDistSources(sources[d], d) :
        Conclude(InTurn([each EXCEPT ![d] = broken]), given)
  BY <1>0
<1> DEFINE after == [each EXCEPT ![d] = broken]
           work == InTurn(after)
<1>3. \A e \in Distributions : sources[e] \in Sources
  BY <1>1, EachHasASource
<1>4. GoodWork(broken) /\ ~broken.ok
  BY <1>1, <1>2, <1>3, BrokenSourceIsGood
<1>5. ASSUME NEW e \in Distributions
      PROVE  GoodWork(after[e]) /\ (e = d => ~after[e].ok)
  <2>1. DOMAIN each = Distributions /\ each[e] = ProcessDistSource(sources[e], e)
    BY DEF ProcessSources
  <2>2. sources[e] \in Sources
    BY <1>3
  <2> HIDE DEF sources, each
  <2>3. GoodWork(each[e])
    BY <1>1, <2>1, <2>2, OwnSourceIsRight
  <2>4. after[e] = IF e = d THEN broken ELSE each[e]
    BY <2>1
  <2>5. QED BY <1>4, <2>3, <2>4
<1> HIDE DEF sources, each, after
<1>6. GoodWork(work) /\ ~work.ok
  BY <1>1, <1>5, InTurnIsGood
<1>7. QED BY <1>1, <1>2, <1>6, StoppedKeeps DEF after

-----------------------------------------------------------------------------
LEMMA InitFillInv == Init => FillInv
<1> SUFFICES ASSUME Init PROVE FillInv
  OBVIOUS
<1>1. /\ analysis = None /\ predictions = <<>> /\ given = <<>> /\ calls = 0 /\ answer = None
  BY DEF Init
<1>2. answer.kind = "none"
  BY <1>1 DEF None
<1>3. Subs = <<>> /\ DOMAIN Subs = {}
  BY <1>1 DEF Subs
<1>4. PredictionsOfThisCall
  BY <1>3 DEF PredictionsOfThisCall, EachDistributionIsItsOwn
<1>5. ScaledByLastEstimate
  BY <1>2 DEF ScaledByLastEstimate
<1>6. DOMAIN predictions = {} /\ DOMAIN given = {}
  BY <1>1
<1>7. calls \in 0 .. MaxCalls
  BY <1>1, BoundsAssumption
<1>8. QED BY <1>1, <1>2, <1>4, <1>5, <1>6, <1>7 DEF FillInv

(* A new analysis has counted nothing, and was given nothing. *)
LEMMA MakeStartsFilling ==
  ASSUME FillInv, NEW request \in Requests, Make(request), MadeOf(measurement)'
  PROVE  FillInv'
<1> DEFINE mm == Head(Found(request))
           subs == mm.subs
<1>1. /\ measurement' = mm /\ answer' = None /\ calls' = calls /\ Makes(request)
      /\ predictions' = [d \in DOMAIN subs |-> [b \in DOMAIN subs[d].bins |-> 0]]
      /\ given' = [d \in DOMAIN subs |-> NothingGiven]
  BY DEF Make
<1>2. ~Refused(measurement)'
  BY <1>1 DEF Makes
<1>3. answer'.kind = "none"
  BY <1>1 DEF None
<1> HIDE DEF mm
<1>4. Distributions' = DOMAIN subs
  BY <1>1 DEF Distributions
<1>5. \A d \in DOMAIN subs : /\ predictions'[d] \in [DOMAIN subs[d].bins -> Nat]
                             /\ predictions'[d] = Counts(subs[d], <<>>)
  BY <1>1, CountsOfNone
<1>6. GoodContents(predictions)'
  BY <1>1, <1>4, <1>5 DEF GoodContents, Bins
<1>7. \A d \in DOMAIN subs : given'[d] = [known |-> TRUE, cut |-> FALSE, rows |-> <<>>]
  BY <1>1 DEF NothingGiven
<1>8. ASSUME NEW d \in DOMAIN subs
      PROVE  /\ given'[d] = [known |-> given'[d].known, cut |-> given'[d].cut,
                             rows |-> given'[d].rows]
             /\ given'[d].known \in BOOLEAN /\ given'[d].cut \in BOOLEAN
             /\ given'[d].rows = <<>> /\ given'[d].rows \in Seq(Row)
  <2> DEFINE mine == given'[d]
  <2>1. mine = [known |-> TRUE, cut |-> FALSE, rows |-> <<>>]
    BY <1>7
  <2> HIDE DEF mine
  <2>2. QED BY <2>1 DEF mine
<1>9. GoodGiven(given)'
  BY <1>1, <1>4, <1>8 DEF GoodGiven
<1>10. analysis' # None /\ Subs' = subs
  BY <1>1 DEF Subs, Make, AnalysisOf, SingleFlux, SingleDistribution, None
<1>11. PredictionsOfThisCall'
  BY <1>1, <1>3, <1>5, <1>8, <1>10 DEF PredictionsOfThisCall, EachDistributionIsItsOwn
<1>12. ScaledByLastEstimate'
  BY <1>3 DEF ScaledByLastEstimate
<1>13. calls' \in 0 .. MaxCalls
  BY <1>1 DEF FillInv
<1>14. QED BY <1>2, <1>3, <1>6, <1>9, <1>10, <1>11, <1>12, <1>13 DEF FillInv

(* A step that fills nothing and returns no comparison. *)
LEMMA AnswerKeepsFillInv ==
  ASSUME FillInv, UNCHANGED <<measurement, analysis, predictions, calls, given>>,
         answer'.kind \in {"none", "thrown", "selection", "projections", "xsscale"}
  PROVE  FillInv'
<1>1. /\ Distributions' = Distributions /\ Subs' = Subs
      /\ FirstProjectionDiffers' = FirstProjectionDiffers
  BY DEF Distributions, Subs, FirstProjectionDiffers
<1>2. PredictionsOfThisCall'
  BY <1>1 DEF FillInv, PredictionsOfThisCall, EachDistributionIsItsOwn
<1>3. ScaledByLastEstimate'
  BY DEF ScaledByLastEstimate
<1>4. /\ MadeOf(measurement)' <=> MadeOf(measurement)
      /\ GoodContents(predictions)' <=> GoodContents(predictions)
      /\ GoodGiven(given)' <=> GoodGiven(given)
  BY <1>1 DEF MadeOf, GoodContents, GoodGiven, Bins
<1>5. QED BY <1>2, <1>3, <1>4 DEF FillInv

LEMMA NextKeepsFillInv == SharedInv /\ FillInv /\ [Next]_vars => FillInv'
<1> SUFFICES ASSUME SharedInv, FillInv, [Next]_vars PROVE FillInv'
  OBVIOUS
<1>1. ASSUME NEW request \in Requests, Make(request) PROVE FillInv'
  <2>1. SharedInv' /\ analysis' # None
    BY <1>1, MakeKeeps DEF Make, AnalysisOf, SingleFlux, SingleDistribution, None
  <2>2. QED BY <1>1, <2>1, MakeStartsFilling DEF SharedInv
<1>2. ASSUME NEW request \in Requests, CannotMake(request) PROVE FillInv'
  BY <1>2, AnswerKeepsFillInv DEF CannotMake, Thrown
<1>3. ASSUME NEW source \in Sources, Process(source) \/ ProcessBreaks(source) PROVE FillInv'
  BY <1>3, ProcessKeeps, ProcessBreaksKeeps
<1>4. ASSUME NEW source \in Sources, NEW other \in Sources,
             ProcessEach(<<source, other>>) \/ ProcessEachBreaks(<<source, other>>)
      PROVE  FillInv'
  BY <1>4, ProcessEachKeeps, ProcessEachBreaksKeeps
<1>5. ASSUME NEW source \in Sources, NEW columns \in ColumnSets,
             \/ ProcessFrame(source, columns)
             \/ ProcessFurther(source, columns)
             \/ ProcessTable(source, columns)
      PROVE  FillInv'
  BY <1>5, ProcessFrameKeeps, ProcessFurtherKeeps, ProcessTableKeeps
<1>6. CASE Ask
  <2>1. answer'.kind \in {"thrown", "selection", "projections", "xsscale"}
    BY <1>6 DEF Ask, OnlyOne, Shared, Thrown
  <2>2. QED BY <1>6, <2>1, AnswerKeepsFillInv DEF Ask
<1>7. CASE UNCHANGED vars
  <2>1. UNCHANGED <<measurement, analysis, predictions, answer, calls, given>>
    BY <1>7 DEF vars
  <2>2. /\ Distributions' = Distributions /\ Subs' = Subs
        /\ FirstProjectionDiffers' = FirstProjectionDiffers
    BY <2>1 DEF Distributions, Subs, FirstProjectionDiffers
  <2>3. PredictionsOfThisCall'
    BY <2>1, <2>2 DEF FillInv, PredictionsOfThisCall, EachDistributionIsItsOwn
  <2>4. ScaledByLastEstimate'
    BY <2>1, <2>2 DEF FillInv, ScaledByLastEstimate
  <2>5. /\ MadeOf(measurement)' <=> MadeOf(measurement)
        /\ GoodContents(predictions)' <=> GoodContents(predictions)
        /\ GoodGiven(given)' <=> GoodGiven(given)
    BY <2>1, <2>2 DEF MadeOf, GoodContents, GoodGiven, Bins
  <2>6. QED BY <2>1, <2>3, <2>4, <2>5 DEF FillInv
<1>8. QED BY <1>1, <1>2, <1>3, <1>4, <1>5, <1>6, <1>7 DEF Next

LEMMA FillInvIsInvariant == Spec => [](SharedInv /\ FillInv)
<1>1. Init => SharedInv /\ FillInv
  BY InitSharedInv, InitFillInv
<1>2. SharedInv /\ FillInv /\ [Next]_vars => (SharedInv /\ FillInv)'
  BY NextKeepsSharedInv, NextKeepsFillInv
<1>3. QED BY <1>1, <1>2, PTL DEF Spec

-----------------------------------------------------------------------------
(* No analysis is made of a measurement that would be refused or with      *)
(* lists that are ambiguous, and the contents of each distribution are     *)
(* counts of its own bins, also after a call that threw half way.          *)
THEOREM AnalysisTypeIsOK == Spec => []TypeOK
<1>1. FillInv => TypeOK
  <2> SUFFICES ASSUME FillInv PROVE TypeOK
    OBVIOUS
  <2>1. CASE analysis = None
    <3>1. Subs = <<>> /\ DOMAIN Subs = {}
      BY <2>1 DEF Subs
    <3>2. QED BY <2>1, <3>1 DEF FillInv, TypeOK
  <2>2. CASE analysis # None
    <3>1. /\ MadeOf(measurement) /\ ~Refused(measurement) /\ Subs = measurement.subs
          /\ GoodContents(predictions) /\ GoodGiven(given)
      BY <2>2 DEF FillInv, Subs
    <3>2. 1 \in Distributions
      BY <3>1 DEF MadeOf, Distributions
    <3>3. ~Ambiguous(analysis, Len(Subs))
      BY <3>1, <3>2, AnalysisFindsItsOwn DEF Distributions
    <3>4. /\ DOMAIN predictions = DOMAIN Subs /\ DOMAIN given = DOMAIN Subs
          /\ \A d \in DOMAIN Subs : /\ predictions[d] \in [DOMAIN Subs[d].bins -> Nat]
                                    /\ given[d].known \in BOOLEAN /\ given[d].cut \in BOOLEAN
      BY <3>1 DEF GoodContents, GoodGiven, Distributions, Bins
    <3>5. QED BY <2>2, <3>1, <3>3, <3>4 DEF FillInv, TypeOK
  <2>3. QED BY <2>1, <2>2
<1>2. QED BY <1>1, FillInvIsInvariant, PTL

(* Whatever calls of process() and process_batched() an analysis of any    *)
(* number of distributions takes, from sources and tables of any length in *)
(* chunks of any size, each distribution counts, in its own bins and by    *)
(* its own selection and projections, exactly the events it was given      *)
(* since it was last reset, and returns that.  Measurements whose          *)
(* distributions differ in their first projection only are excepted.  A    *)
(* source without events makes the call throw; nothing is said of the      *)
(* contents after a call that threw, until the next that does not.         *)
THEOREM PredictionsCountThisCall == Spec => []PredictionsOfThisCall
<1>1. FillInv => PredictionsOfThisCall
  BY DEF FillInv
<1>2. QED BY <1>1, FillInvIsInvariant, PTL

(* What is returned is in the units of its distribution and scaled by the  *)
(* estimate of all events it was given, cut ones included; or, when its    *)
(* selection cut the frames and the rows it took fill them exactly, of the *)
(* events up to the last of these.                                         *)
THEOREM LastEstimateScales == Spec => []ScaledByLastEstimate
<1>1. FillInv => ScaledByLastEstimate
  BY DEF FillInv
<1>2. QED BY <1>1, FillInvIsInvariant, PTL
=============================================================================
