------------------------------ MODULE Binnings ------------------------------
(***************************************************************************)
(* Binnings: sequences of hyper-rectangular bins with the function that    *)
(* finds the bin of a point.  The factories of Binning make them in five   *)
(* ways, each with a search of its own.  Extents have integer ends here,   *)
(* all that is done with them is to compare and subtract; the bins of      *)
(* lin_spaceND have integer widths.  An index is counted from 0 as in the  *)
(* code, so bin i is bins[i + 1].                                          *)
(*                                                                         *)
(* Binning::contiguous has a module of its own, ContiguousSearch.          *)
(***************************************************************************)
EXTENDS Sums, SequenceFilter, FiniteSets, SequencesExt

npos == -1

(* A coordinate that is neither zero nor std::isnormal(): every comparison *)
(* with it is false.                                                       *)
NaN == 1000
Normal(v) == v # NaN
Below(v, w) == Normal(v) /\ v < w
AtLeast(v, w) == Normal(v) /\ v >= w

Extent(low, high) == [low |-> low, high |-> high]
Width(e) == e.high - e.low
Holds(e, v) == AtLeast(v, e.low) /\ Below(v, e.high)

(* SingleExtent::overlaps(): half-open, so extents that touch do not.      *)
Overlaps(e, other) ==
  IF other.low < e.low THEN other.high > e.low
  ELSE other.high > e.high => other.low < e.high

ExtentLess(a, b) == IF a.high = b.high THEN a.low < b.low ELSE a.high < b.high

-----------------------------------------------------------------------------
(* The elements of S in the order less, a set of pairs that is a strict    *)
(* and total order on S.                                                   *)
Ascending(S, less) ==
  [k \in 1 .. Cardinality(S) |->
     CHOOSE e \in S : Cardinality({d \in S : <<d, e>> \in less}) = k - 1]

SortedExtents(S) == Ascending(S, {p \in S \X S : ExtentLess(p[1], p[2])})

(* Bins: sequences of extents, compared from the last axis to the first.   *)
NAxes(bins) == Len(bins[1])

BinLess(a, b) ==
  \E i \in DOMAIN a :
    /\ ExtentLess(a[i], b[i])
    /\ \A j \in DOMAIN a : j > i => a[j] = b[j]

SortedBins(S) == Ascending(S, {p \in S \X S : BinLess(p[1], p[2])})
Unique(bins) == SortedBins(ToSet(bins))

BinsOverlap(a, b) == \A i \in DOMAIN a : Overlaps(a[i], b[i])

(* What bins are: as many extents each as there are axes, none empty.      *)
ProperExtents == {e \in [low : Int \ {NaN}, high : Int] : e.low < e.high}

IsBins(bins) ==
  /\ bins # <<>>
  /\ bins \in Seq(Seq(ProperExtents))
  /\ \A i \in DOMAIN bins : Len(bins[i]) = NAxes(bins)
  /\ NAxes(bins) # 0

ProjectBin(bin, axes) == [k \in DOMAIN axes |-> bin[axes[k]]]

ProjectToUniqueBins(bins, axes) ==
  Unique(IF axes = <<>> THEN bins
         ELSE [i \in DOMAIN bins |-> ProjectBin(bins[i], axes)])

HasOverlaps(bins) ==
  LET u == ProjectToUniqueBins(bins, <<>>) IN
  \E i, j \in DOMAIN u : i < j /\ BinsOverlap(u[i], u[j])

BinSize(bin) == ProductTo([i \in DOMAIN bin |-> Width(bin[i])], Len(bin))

(* A point is in a bin: what the searches have to decide. *)
InBin(bin, x) == \A i \in DOMAIN bin : Holds(bin[i], x[i])
HomesOf(bins, x) == {i \in DOMAIN bins : InBin(bins[i], x)}

-----------------------------------------------------------------------------
(* from_extents(): the bins are put into columns of the same extent along  *)
(* the axis that has the most of them, and a point is looked for in every  *)
(* column that contains it, since columns of different extent can overlap. *)
SortedBinMap(bins, ax) ==
  Ascending(DOMAIN bins,
            {p \in (DOMAIN bins) \X (DOMAIN bins) :
               \/ ExtentLess(bins[p[1]][ax], bins[p[2]][ax])
               \/ bins[p[1]][ax] = bins[p[2]][ax] /\ p[1] < p[2]})

ExtentsAlong(bins, ax) == {bins[i][ax] : i \in DOMAIN bins}

ColumnsAlong(bins, ax) ==
  LET extents == SortedExtents(ExtentsAlong(bins, ax)) IN
  [c \in DOMAIN extents |->
     OnlyIn(SortedBinMap(bins, ax), {i \in DOMAIN bins : bins[i][ax] = extents[c]})]

LongestAxis(bins) ==
  CHOOSE ax \in 1 .. NAxes(bins) : \A other \in 1 .. NAxes(bins) :
    LET n == Cardinality(ExtentsAlong(bins, ax))
        m == Cardinality(ExtentsAlong(bins, other))
    IN IF other < ax THEN m < n ELSE m <= n

FirstOrNpos(hits) == IF hits = <<>> THEN npos ELSE Head(hits) - 1

(* With the optimisation that is commented out: leave after the first run  *)
(* of columns that contain the value.                                      *)
FaultSearched(bins, x) ==
  LET ax == LongestAxis(bins)
      columns == ColumnsAlong(bins, ax)
      holds(c) == Holds(bins[Head(columns[c])][ax], x[ax])
      left(c) == \E b, d \in 1 .. c - 1 : b < d /\ holds(b) /\ ~holds(d)
  IN FlattenSeq([c \in DOMAIN columns |->
                   IF holds(c) /\ ~left(c) THEN columns[c] ELSE <<>>])

Searched(bins, x) ==
  LET ax == LongestAxis(bins)
      columns == ColumnsAlong(bins, ax)
  IN FlattenSeq([c \in DOMAIN columns |->
                   IF Holds(bins[Head(columns[c])][ax], x[ax])
                   THEN columns[c] ELSE <<>>])

FindInColumns(bins, x) ==
  FirstOrNpos(OnlyIn(Searched(bins, x), HomesOf(bins, x)))

(* brute_force(): a bin is passed over when the point is below or above it *)
(* on some axis.                                                           *)
PassedOver(bin, x) ==
  \E j \in DOMAIN bin : Below(x[j], bin[j].low) \/ AtLeast(x[j], bin[j].high)

FindByScan(bins, x) ==
  FirstOrNpos(OnlyIn([i \in DOMAIN bins |-> i],
                     {i \in DOMAIN bins : ~PassedOver(bins[i], x)}))

(* What from_extents() and brute_force() throw for the bins, if they do. *)
Refusal(bins) ==
  IF bins = <<>> THEN "EmptyBinning"
  ELSE IF Len(Unique(bins)) # Len(bins) THEN "BinningNotUnique"
  ELSE IF HasOverlaps(bins) THEN "BinningHasOverlaps"
  ELSE "none"

FromExtents(bins) == [kind |-> "from_extents", bins |-> bins]
BruteForce(bins) == [kind |-> "brute_force", bins |-> bins]

(* Bins without a function, which cannot be filled. *)
BinsOnly(bins) == [kind |-> "none", bins |-> bins]

-----------------------------------------------------------------------------
(* lin_spaceND(): axes of n bins of equal width, the first axis fastest.   *)
(* lin_space() is the case of one axis.                                    *)
Axis(start, stop, n) == [start |-> start, stop |-> stop, nbins |-> n]
AxisWidth(a) == (a.stop - a.start) \div a.nbins

RegularAxes ==
  {a \in [start : Int, stop : Int, nbins : Nat \ {0}] :
     a.start < a.stop /\ (a.stop - a.start) % a.nbins = 0 /\ NaN \notin a.start .. a.stop}

(* nbins_in_slice: the bins of the axes before ax. *)
BinsInSlice(sizes, ax) == ProductTo(sizes, ax - 1)

LinSpaceND(axes) ==
  LET sizes == [a \in DOMAIN axes |-> axes[a].nbins]
      along(i, a) == (i \div BinsInSlice(sizes, a)) % sizes[a]
      edge(a, k) == axes[a].start + k * AxisWidth(axes[a])
  IN [kind |-> "lin_space", axes |-> axes,
      bins |-> [b \in 1 .. BinsInSlice(sizes, Len(axes) + 1) |->
                  [a \in DOMAIN axes |->
                     Extent(edge(a, along(b - 1, a)), edge(a, along(b - 1, a) + 1))]]]

LinSpace(start, stop, n) == LinSpaceND(<<Axis(start, stop, n)>>)

FindInLinSpace(axes, x) ==
  LET sizes == [a \in DOMAIN axes |-> axes[a].nbins]
      outside(a) == ~Normal(x[a]) \/ x[a] >= axes[a].stop \/ x[a] < axes[a].start
      dimbin(a) == (x[a] - axes[a].start) \div AxisWidth(axes[a])
  IN IF \E a \in DOMAIN axes : outside(a) THEN npos
     ELSE SumTo([a \in DOMAIN axes |-> dimbin(a) * BinsInSlice(sizes, a)], Len(axes))

(* log_space_impl(): the edges grow by a constant factor; the floor of the *)
(* quotient of logarithms counts the factors that fit below the value.     *)
LogSpace(start, factor, n) ==
  LET edges == [k \in 1 .. n + 1 |->
                  start * ProductTo([j \in 1 .. n |-> factor], k - 1)] IN
  [kind |-> "log_space", edges |-> edges,
   bins |-> [b \in 1 .. n |-> <<Extent(edges[b], edges[b + 1])>>]]

FindInLogSpace(edges, x) ==
  IF ~Normal(x[1]) \/ x[1] <= 0 \/ x[1] >= Last(edges) \/ x[1] < edges[1]
  THEN npos
  ELSE Cardinality({k \in DOMAIN edges : edges[k] <= x[1]}) - 1

-----------------------------------------------------------------------------
FindInPart(binning, x) ==
  CASE binning.kind = "from_extents" -> FindInColumns(binning.bins, x)
    [] binning.kind = "brute_force" -> FindByScan(binning.bins, x)
    [] binning.kind = "lin_space" -> FindInLinSpace(binning.axes, x)
    [] binning.kind = "log_space" -> FindInLogSpace(binning.edges, x)

(* Binnings as the factories but product() make them. *)
IsLogSpace(b) ==
  LET start == b.edges[1]
      factor == b.edges[2] \div b.edges[1]
      n == Len(b.edges) - 1
  IN /\ start \in Nat \ {0} /\ factor \in Nat \ {0, 1} /\ n \in Nat \ {0}
     /\ b = LogSpace(start, factor, n)
     /\ NaN \notin ToSet(b.edges)

IsPart(b) ==
  \/ /\ b.kind = "lin_space"
     /\ b.axes # <<>> /\ b.axes \in Seq(RegularAxes) /\ b = LinSpaceND(b.axes)
  \/ b.kind = "log_space" /\ IsLogSpace(b)
  \/ /\ b \in {FromExtents(b.bins), BruteForce(b.bins)}
     /\ IsBins(b.bins) /\ Refusal(b.bins) = "none"

(* product(): the bins of the first binning change fastest. *)
ProductSizes(parts) == [k \in DOMAIN parts |-> Len(parts[k].bins)]

Product(parts) ==
  LET sizes == ProductSizes(parts)
      along(b, k) == (((b - 1) \div BinsInSlice(sizes, k)) % sizes[k]) + 1
  IN [kind |-> "product", parts |-> parts,
      bins |-> [b \in 1 .. BinsInSlice(sizes, Len(parts) + 1) |->
                  FlattenSeq([k \in DOMAIN parts |-> parts[k].bins[along(b, k)]])]]

AxesBefore(parts, k) ==
  SumTo([j \in DOMAIN parts |-> NAxes(parts[j].bins)], k - 1)

FindInProduct(parts, x) ==
  LET found == [k \in DOMAIN parts |->
                  FindInPart(parts[k], SubSeq(x, AxesBefore(parts, k) + 1,
                                              AxesBefore(parts, k + 1)))]
  IN IF \E k \in DOMAIN parts : found[k] = npos THEN npos
     ELSE SumTo([k \in DOMAIN parts |->
                   found[k] * BinsInSlice(ProductSizes(parts), k)], Len(parts))

IsProduct(b) ==
  /\ b.kind = "product"
  /\ b = Product(b.parts)
  /\ b.parts # <<>> /\ b.parts \in Seq(ToSet(b.parts))
  /\ \A k \in DOMAIN b.parts : IsPart(b.parts[k])

FindBin(binning, x) ==
  IF binning.kind = "product" THEN FindInProduct(binning.parts, x)
  ELSE FindInPart(binning, x)
=============================================================================
