------------------------------ MODULE HistOps ------------------------------
(***************************************************************************)
(* Histograms: a HistFrame is made over a binning, filled, projected,      *)
(* sliced, added, scaled and at last finalised to BinnedValues, on which   *)
(* the same operations are defined and which convert between counts and    *)
(* densities.  The operations return a new histogram, with which the user  *)
(* goes on here; what throws leaves the old one.                           *)
(*                                                                         *)
(* There is one column.  Contents are integers in units of 1 / Unit, so    *)
(* that they can be divided by the size of a bin, and uncertainties are    *)
(* kept squared, in units of 1 / Unit^2.                                   *)
(***************************************************************************)
EXTENDS Binnings

CONSTANTS GivenBins,    \* bins a binning is asked to be made of
          UniformBinnings, \* binnings of lin_spaceND(), log_space(), product()
          Coordinates,  \* the values of a projection
          Weights,      \* the weights of fills
          SliceEnds,    \* the ends of slices
          Unit,         \* divisible by the size of every bin
          MaxOps        \* bound: operations after the making; a copy and the
                        \* run of fills into an empty histogram are not counted

ASSUME BoundsAssumption == Unit \in Nat \ {0} /\ MaxOps \in Nat
ASSUME PointsAssumption ==
  Coordinates \subseteq Int \ {NaN} /\ IsFiniteSet(Coordinates) /\ Weights \subseteq Int

(* No extent is empty, which the code leaves to the caller.  The lower     *)
(* ends of bins are among the coordinates: where two bins overlap there is *)
(* a point to show it.                                                     *)
ASSUME GivenAssumption ==
  \A bins \in GivenBins : bins # <<>> =>
    IsBins(bins) /\ \A i \in DOMAIN bins, ax \in 1 .. NAxes(bins) : bins[i][ax].low \in Coordinates
ASSUME UniformAssumption ==
  \A b \in UniformBinnings : IsPart(b) \/ IsProduct(b)

VARIABLES
  given,    \* the bins asked for
  refusal,  \* what the factory threw, or "none"
  hist,     \* the histogram the user works on
  copy,     \* a copy of it the user has kept
  found,    \* the point looked for last, and the index returned
  ops,      \* the number of operations that MaxOps counts
  entries,  \* history: the fills hist has to hold, with the bin each counts for
  kept      \* history: the same of copy

vars == <<given, refusal, hist, copy, found, ops, entries, kept>>

NoHist == [type |-> "none"]
NothingFound == [x |-> <<>>, bin |-> npos]

Made == hist # NoHist
Bins == hist.binning.bins
Points == [1 .. NAxes(Bins) -> Coordinates]

-----------------------------------------------------------------------------
(* fill_bin(); an index that is npos or beyond the bins is ignored, and so *)
(* is a weight of zero.                                                    *)
FillBin(h, i, w) ==
  IF i \notin 0 .. Len(h.cells) - 1 \/ w = 0 THEN h
  ELSE [h EXCEPT !.cells[i + 1] = @ + w * Unit,
                 !.err2[i + 1] = @ + w * w * Unit * Unit,
                 !.numFills = @ + 1]

EmptyHist(binning) ==
  LET zero == [i \in DOMAIN binning.bins |-> 0] IN
  [type |-> "HistFrame", binning |-> binning, cells |-> zero, err2 |-> zero,
   numFills |-> 0]

SumOver(indices, contents) ==
  SumTo([i \in DOMAIN contents |-> IF i \in indices THEN contents[i] ELSE 0], Len(contents))

(* BuildProjectionMap() and Project_impl(): each bin goes to the one whose *)
(* extents are its projection.  The squares of the uncertainties of        *)
(* BinnedValues are summed, and the root that is taken of the sum is not   *)
(* stored: the sum is the new uncertainty.                                 *)
FaultProjected(h, axes, hasBinning) ==
  LET extents == ProjectToUniqueBins(h.binning.bins, axes)
      columns == [r \in DOMAIN extents |->
                    {i \in DOMAIN h.binning.bins :
                       h.binning.bins[i][axes[1]] = extents[r][1]}]
  IN [h EXCEPT !.binning = IF hasBinning THEN FromExtents(extents) ELSE BinsOnly(extents),
               !.cells = [r \in DOMAIN extents |-> SumOver(columns[r], h.cells)],
               !.err2 = [r \in DOMAIN extents |-> SumOver(columns[r], h.err2)]]

Projected(h, axes, hasBinning) ==
  LET extents == ProjectToUniqueBins(h.binning.bins, axes)
      columns == [r \in DOMAIN extents |->
                    {i \in DOMAIN h.binning.bins :
                       ProjectBin(h.binning.bins[i], axes) = extents[r]}]
      sum2 == [r \in DOMAIN extents |-> SumOver(columns[r], h.err2)]
  IN [h EXCEPT !.binning = IF hasBinning THEN FromExtents(extents) ELSE BinsOnly(extents),
               !.cells = [r \in DOMAIN extents |-> SumOver(columns[r], h.cells)],
               !.err2 = IF h.type = "HistFrame" THEN sum2
                        ELSE [r \in DOMAIN sum2 |-> sum2[r] * sum2[r]]]

(* BuildSliceMap(): which extents of the sliced axis are in the slice.     *)
InSlice(e, range, excludeEnd) ==
  \/ range[1] = range[2] /\ Holds(e, range[1])
  \/ /\ e.high > range[1]
     /\ e.low < range[2]
     /\ ~(excludeEnd /\ Holds(e, range[2]))

BinsToInclude(bins, ax, range, excludeEnd) ==
  OnlyIn([i \in DOMAIN bins |-> i],
         {i \in DOMAIN bins : InSlice(bins[i][ax], range, excludeEnd)})

(* The axis goes when it is not the only one and tells no bins apart.      *)
RemoveSlicedAxis(bins, ax, included) ==
  /\ NAxes(bins) > 1
  /\ \A i, j \in ToSet(included) : bins[i][ax] = bins[j][ax]

SlicedBin(bin, ax, remove) == IF remove THEN RemoveAt(bin, ax) ELSE bin

FaultSliced(h, ax, included, hasBinning) ==
  [h EXCEPT !.binning = BinsOnly([k \in DOMAIN included |-> h.binning.bins[included[k]]])]

Sliced(h, ax, included, hasBinning) ==
  LET bins == h.binning.bins
      remove == RemoveSlicedAxis(bins, ax, included)
      extents == [k \in DOMAIN included |-> SlicedBin(bins[included[k]], ax, remove)]
  IN [h EXCEPT !.binning = IF hasBinning THEN FromExtents(extents) ELSE BinsOnly(extents),
               !.cells = [k \in DOMAIN included |-> h.cells[included[k]]],
               !.err2 = [k \in DOMAIN included |-> h.err2[included[k]]]]

(* Add(); the uncertainties of BinnedValues come from their values. *)
Sum(h, other) ==
  [h EXCEPT !.cells = [i \in DOMAIN @ |-> @[i] + other.cells[i]],
            !.err2 = [i \in DOMAIN @ |->
                        IF h.type = "HistFrame" THEN @[i] + other.err2[i]
                        ELSE h.cells[i] * h.cells[i] + other.cells[i] * other.cells[i]]]

Scaled(h, factor) ==
  [h EXCEPT !.cells = [i \in DOMAIN @ |-> factor * @[i]],
            !.err2 = [i \in DOMAIN @ |-> factor * factor * @[i]]]

Sizes(h) == [i \in DOMAIN h.binning.bins |-> BinSize(h.binning.bins[i])]

TimesSizes(h) ==
  [h EXCEPT !.cells = [i \in DOMAIN @ |-> @[i] * Sizes(h)[i]],
            !.err2 = [i \in DOMAIN @ |-> @[i] * Sizes(h)[i] * Sizes(h)[i]]]

OverSizes(h) ==
  [h EXCEPT !.cells = [i \in DOMAIN @ |-> @[i] \div Sizes(h)[i]],
            !.err2 = [i \in DOMAIN @ |-> @[i] \div (Sizes(h)[i] * Sizes(h)[i])]]

(* The contents can be divided by the sizes in units of 1 / Unit. *)
Divisible(h) == \A i \in DOMAIN h.cells :
  h.cells[i] % Sizes(h)[i] = 0 /\ h.err2[i] % (Sizes(h)[i] * Sizes(h)[i]) = 0

-----------------------------------------------------------------------------
InitExtents ==
  /\ given \in GivenBins
  /\ refusal = Refusal(given)
  /\ hist \in IF refusal # "none" THEN {NoHist}
              ELSE {EmptyHist(FromExtents(given)), EmptyHist(BruteForce(given))}

InitUniform ==
  \E b \in UniformBinnings :
    given = b.bins /\ refusal = "none" /\ hist = EmptyHist(b)

Init ==
  /\ InitExtents \/ InitUniform
  /\ copy = NoHist
  /\ found = NothingFound
  /\ ops = 0
  /\ entries = <<>> /\ kept = <<>>

Operation == Made /\ ops < MaxOps /\ ops' = ops + 1 /\ UNCHANGED <<given, refusal>>
Uncounted == Made /\ UNCHANGED <<given, refusal, ops>>

(* The entries of the given point: one in the bin that contains it. *)
EntriesOf(bins, x, w) ==
  LET home == HomesOf(bins, x) IN
  [k \in 1 .. Cardinality(home) |->
     [home |-> bins[CHOOSE i \in home : TRUE], w |-> w * Unit]]

Fill(x, w) ==
  /\ Operation
  /\ hist.type = "HistFrame"
  /\ hist.binning.kind # "none"
  /\ found' = [x |-> x, bin |-> FindBin(hist.binning, x)]
  /\ hist' = FillBin(hist, found'.bin, w)
  /\ entries' = entries \o EntriesOf(Bins, x, w)
  /\ UNCHANGED <<copy, kept>>

PointLess(x, y) ==
  \E a \in DOMAIN x : x[a] < y[a] /\ \A b \in DOMAIN x : b < a => x[b] = y[b]

(* A run of fills: one of every point there is. *)
FilledWith(h, es, points) ==
  LET weight(k) == k % 3
      after[k \in 0 .. Len(points)] ==
        IF k = 0 THEN <<h, es>>
        ELSE LET before == after[k - 1] IN
             <<FillBin(before[1], FindBin(h.binning, points[k]), weight(k)),
               before[2] \o EntriesOf(h.binning.bins, points[k], weight(k))>>
  IN after[Len(points)]

FillEverywhere ==
  LET filled == FilledWith(hist, entries,
                           Ascending(Points, {p \in Points \X Points : PointLess(p[1], p[2])}))
  IN /\ Uncounted
     /\ hist.type = "HistFrame"
     /\ hist.binning.kind # "none"
     /\ entries = <<>>
     /\ hist' = filled[1]
     /\ entries' = filled[2]
     /\ UNCHANGED <<copy, found, kept>>

(* Only a result that can find bins is made by from_extents(). *)
Project(axes, hasBinning) ==
  /\ Operation
  /\ hasBinning => Refusal(ProjectToUniqueBins(Bins, axes)) = "none"
  /\ hist' = Projected(hist, axes, hasBinning)
  /\ entries' = [k \in DOMAIN entries |-> [entries[k] EXCEPT !.home = ProjectBin(@, axes)]]
  /\ found' = NothingFound
  /\ UNCHANGED <<copy, kept>>

Slice(ax, range, excludeEnd, hasBinning) ==
  LET included == BinsToInclude(Bins, ax, range, excludeEnd)
      sliced == Sliced(hist, ax, included, hasBinning)
  IN /\ Operation
     /\ included # <<>>
     /\ hasBinning => Refusal(sliced.binning.bins) = "none"
     /\ hist' = sliced
     /\ LET inside == OnlyIn(entries, {e \in ToSet(entries) :
                                          InSlice(e.home[ax], range, excludeEnd)})
            remove == RemoveSlicedAxis(Bins, ax, included)
        IN entries' = [k \in DOMAIN inside |->
                         [inside[k] EXCEPT !.home = SlicedBin(@, ax, remove)]]
     /\ found' = NothingFound
     /\ UNCHANGED <<copy, kept>>

Copy ==
  /\ Uncounted
  /\ copy' = hist
  /\ kept' = entries
  /\ UNCHANGED <<hist, found, entries>>

(* The entries of bins, each counted for the bin at the same place of      *)
(* others.                                                                 *)
AtSamePlace(es, bins, others) ==
  [k \in DOMAIN es |->
     [es[k] EXCEPT !.home = others[CHOOSE i \in DOMAIN bins : bins[i] = @]]]

(* Adding histograms of different shape is an assertion of Eigen.  Nothing *)
(* compares the bins: cells are added by their place.                      *)
AddCopy ==
  /\ Operation
  /\ copy # NoHist
  /\ copy.type = hist.type /\ Len(copy.cells) = Len(hist.cells)
  /\ hist' = Sum(hist, copy)
  /\ entries' = entries \o AtSamePlace(kept, copy.binning.bins, Bins)
  /\ UNCHANGED <<copy, found, kept>>

Scale(factor) ==
  /\ Operation
  /\ hist' = Scaled(hist, factor)
  /\ entries' = [k \in DOMAIN entries |-> [entries[k] EXCEPT !.w = factor * @]]
  /\ UNCHANGED <<copy, found, kept>>

SizeOf(e) == BinSize(e.home)
EntriesDivisible == \A k \in DOMAIN entries : entries[k].w % SizeOf(entries[k]) = 0

Finalise(divideByBinSizes) ==
  /\ Operation
  /\ hist.type = "HistFrame"
  /\ divideByBinSizes => Divisible(hist) /\ EntriesDivisible
  /\ hist' = [IF divideByBinSizes THEN OverSizes(hist) ELSE hist
              EXCEPT !.type = "BinnedValues", !.numFills = 0]
  /\ entries' = IF ~divideByBinSizes THEN entries
                ELSE [k \in DOMAIN entries |->
                        [entries[k] EXCEPT !.w = @ \div SizeOf(entries[k])]]
  /\ UNCHANGED <<copy, found, kept>>

ToCount ==
  /\ Operation
  /\ hist.type = "BinnedValues"
  /\ hist' = TimesSizes(hist)
  /\ entries' = [k \in DOMAIN entries |-> [entries[k] EXCEPT !.w = @ * SizeOf(entries[k])]]
  /\ UNCHANGED <<copy, found, kept>>

ToCountDensity ==
  /\ Operation
  /\ hist.type = "BinnedValues"
  /\ Divisible(hist)
  /\ EntriesDivisible
  /\ hist' = OverSizes(hist)
  /\ entries' = [k \in DOMAIN entries |-> [entries[k] EXCEPT !.w = @ \div SizeOf(entries[k])]]
  /\ UNCHANGED <<copy, found, kept>>

Axes == {axes \in UNION {[1 .. n -> 1 .. NAxes(Bins)] : n \in 1 .. NAxes(Bins)} :
           IsInjective(axes)}
Ranges == {range \in SliceEnds \X SliceEnds : range[1] <= range[2]}

Next ==
  \/ \E x \in Points, w \in Weights : Fill(x, w)
  \/ FillEverywhere
  \/ \E axes \in Axes, hasBinning \in BOOLEAN : Project(axes, hasBinning)
  \/ \E ax \in 1 .. NAxes(Bins), range \in Ranges, excludeEnd, hasBinning \in BOOLEAN :
       Slice(ax, range, excludeEnd, hasBinning)
  \/ Copy \/ AddCopy
  \/ Scale(2)
  \/ \E divideByBinSizes \in BOOLEAN : Finalise(divideByBinSizes)
  \/ ToCount \/ ToCountDensity

Spec == Init /\ [][Made /\ Next]_vars

-----------------------------------------------------------------------------
TypeOK ==
  /\ refusal \in {"none", "EmptyBinning", "BinningNotUnique", "BinningHasOverlaps"}
  /\ Made <=> refusal = "none"
  /\ \A h \in {hist, copy} \ {NoHist} :
       /\ h.type \in {"HistFrame", "BinnedValues"}
       /\ DOMAIN h.cells = DOMAIN h.binning.bins
       /\ DOMAIN h.err2 = DOMAIN h.binning.bins
       /\ h.numFills \in Nat
  /\ ops \in 0 .. MaxOps

(* A factory makes a binning of the bins it is given exactly when there is *)
(* one and no point is in two of them, and whichever factory or operation  *)
(* made it, its search finds the bin that contains a point, and none only  *)
(* when none does.                                                         *)
FindsTheBin ==
  /\ refusal = "none" <=>
       /\ given # <<>>
       /\ \A x \in [1 .. NAxes(given) -> Coordinates] : Cardinality(HomesOf(given, x)) <= 1
  /\ found # NothingFound =>
       HomesOf(Bins, found.x) = IF found.bin = npos THEN {} ELSE {found.bin + 1}

(* After any sequence of fills, projections, slices, sums and conversions  *)
(* a bin holds the weights, and in a HistFrame the squares of the weights, *)
(* of exactly the entries that fell into it: none is lost or counted twice *)
(* when bins are merged, left out or reordered.  Of a histogram that was   *)
(* added these are what its bin at the same place holds, whichever bin     *)
(* that is: that both have the same bins in the same order is up to the    *)
(* caller of Add().                                                        *)
SumIn(bin, es, amount) ==
  SumTo([k \in DOMAIN es |-> IF es[k].home = bin THEN amount[k] ELSE 0], Len(es))

Weights1(es) == [k \in DOMAIN es |-> es[k].w]
Weights2(es) == [k \in DOMAIN es |-> es[k].w * es[k].w]

CellsHoldTheirEntries ==
  Made => \A i \in DOMAIN Bins :
    /\ hist.cells[i] = SumIn(Bins[i], entries, Weights1(entries))
    /\ hist.type = "HistFrame" =>
         hist.err2[i] = SumIn(Bins[i], entries, Weights2(entries))
=============================================================================
