--------------------------- MODULE BinningProofs ---------------------------
(***************************************************************************)
(* Proofs about binnings and histograms.  First the binary search of       *)
(* Binning::contiguous, for every number of bins, every set of edges and   *)
(* every width of a size_t that can hold twice the number of bins.  Then   *)
(* histograms: that the search of every other factory finds the bin of a   *)
(* point, for bins of any number and any number of axes, and that the      *)
(* operations on histograms keep the contents of a bin the sum of the      *)
(* entries that are in it.                                                 *)
(***************************************************************************)
EXTENDS HistOps, ContiguousSearch, DataLemmas

(* An index that is in range does not wrap. *)
LEMMA WrapInRange ==
  ASSUME NEW i \in 0 .. SizeMod - 1
  PROVE  Wrap(i) = i
BY SizesAssumption DEF Wrap

(* The middle of an interval of bins lies in it. *)
LEMMA MidInRange ==
  ASSUME NEW l \in 0 .. MaxBins, NEW r \in 0 .. MaxBins, l <= r
  PROVE  Wrap(l + r) \div 2 \in l .. r
<1>1. l + r \in 0 .. SizeMod - 1
  BY SizesAssumption
<1>2. Wrap(l + r) = l + r
  BY <1>1, WrapInRange
<1>. QED
  BY <1>2, SizesAssumption

-----------------------------------------------------------------------------
(* The search invariant: the edges increase, and while the search goes on  *)
(* the value lies between the lower edge of bin L and the upper of bin R.  *)
Sorted == \A i, j \in 0 .. numBins : i < j => binEdges[i] < binEdges[j]

Bracketed == 0 <= L /\ L <= R /\ R < numBins /\ binEdges[L] <= value /\ value < binEdges[R + 1]

SearchInv ==
  /\ Sorted
  /\ pc = "search" => Bracketed
  /\ SearchFindsTheBin

(* What the invariant says of the middle bin while the search goes on. *)
LEMMA MidBin ==
  ASSUME SearchTypeOK, Bracketed
  PROVE  /\ Mid \in L .. R /\ Mid \in 0 .. numBins - 1
         /\ numBins \in Nat /\ L \in Nat /\ R \in Nat /\ value \in Int
         /\ numBins <= MaxBins /\ numBins < SizeMod /\ SizeMod \in Nat
         /\ \A i \in 0 .. numBins : binEdges[i] \in Int
<1>1. Mid \in L .. R
  BY MidInRange DEF Mid, SearchTypeOK, Bracketed
<1>2. numBins \in Nat /\ L \in Nat /\ R \in Nat /\ value \in Int /\ numBins <= MaxBins
  BY SizesAssumption DEF SearchTypeOK
<1>3. \A i \in 0 .. numBins : binEdges[i] \in Int
  BY <1>2, SizesAssumption DEF SearchTypeOK
<1>4. Mid \in 0 .. numBins - 1
  BY <1>1, <1>2 DEF Bracketed
<1>5. SizeMod \in Nat /\ numBins < SizeMod
  BY <1>2, SizesAssumption
<1>. QED
  BY <1>1, <1>2, <1>3, <1>4, <1>5

(* An edge is at or below another exactly when its index is. *)
LEMMA EdgeOrder ==
  ASSUME SearchTypeOK, Sorted, NEW i \in 0 .. numBins, NEW j \in 0 .. numBins
  PROVE  i <= j => binEdges[i] <= binEdges[j]
<1>1. numBins \in Nat /\ binEdges[i] \in Int /\ binEdges[j] \in Int
  BY SizesAssumption DEF SearchTypeOK
<1>2. i < j => binEdges[i] < binEdges[j]
  BY DEF Sorted
<1>. QED
  BY <1>1, <1>2

(* A step to the right keeps the bracket: R is not the middle. *)
LEMMA RightStep ==
  ASSUME SearchTypeOK, Sorted, Bracketed, GoRight
  PROVE  L' = Mid + 1 /\ R' = R /\ Bracketed'
<1>0. /\ Mid \in L .. R /\ Mid \in 0 .. numBins - 1 /\ numBins \in Nat
      /\ L \in Nat /\ R \in Nat /\ value \in Int
      /\ numBins < SizeMod /\ SizeMod \in Nat
      /\ \A i \in 0 .. numBins : binEdges[i] \in Int
  BY MidBin
<1> DEFINE m == Mid
<1>1. L' = RightOf(m) /\ R' = R /\ numBins' = numBins /\ binEdges' = binEdges /\ value' = value
  BY DEF GoRight, inputVars
<1>2. binEdges[m + 1] <= value
  BY DEF GoRight, High
<1>. HIDE DEF m
<1>3. m \in 0 .. numBins - 1 /\ m \in L .. R
  BY <1>0 DEF m
<1>4. RightOf(m) = m + 1
  <2>1. m + 1 \in 0 .. SizeMod - 1
    BY <1>0, <1>3
  <2>. QED
    BY <2>1, WrapInRange DEF RightOf
<1>5. R < numBins /\ value < binEdges[R + 1] /\ binEdges[R + 1] \in Int /\ binEdges[m + 1] \in Int
  BY <1>0, <1>3 DEF Bracketed
<1>6. m # R
  BY <1>0, <1>2, <1>5
<1>7. m + 1 <= R
  BY <1>0, <1>3, <1>6
<1>. QED
  BY <1>0, <1>1, <1>2, <1>3, <1>4, <1>5, <1>7 DEF Bracketed, m

(* A step to the left keeps the bracket: L is not the middle. *)
LEMMA LeftStep ==
  ASSUME SearchTypeOK, Sorted, Bracketed, GoLeft
  PROVE  R' = Mid - 1 /\ L' = L /\ Bracketed'
<1>0. /\ Mid \in L .. R /\ Mid \in 0 .. numBins - 1 /\ numBins \in Nat
      /\ L \in Nat /\ R \in Nat /\ value \in Int
      /\ numBins < SizeMod /\ SizeMod \in Nat
      /\ \A i \in 0 .. numBins : binEdges[i] \in Int
  BY MidBin
<1> DEFINE m == Mid
<1>1. R' = LeftOf(m) /\ L' = L /\ numBins' = numBins /\ binEdges' = binEdges /\ value' = value
  BY DEF GoLeft, inputVars
<1>2. binEdges[m] > value
  BY DEF GoLeft, Low
<1>. HIDE DEF m
<1>3. m \in 0 .. numBins - 1 /\ m \in L .. R
  BY <1>0 DEF m
<1>4. L < numBins /\ binEdges[L] <= value /\ binEdges[L] \in Int /\ binEdges[m] \in Int
  BY <1>0, <1>3 DEF Bracketed
<1>5. m # L
  BY <1>0, <1>2, <1>4
<1>6. L <= m - 1 /\ m - 1 \in 0 .. SizeMod - 1 /\ m - 1 < numBins
  <2>1. m \in Int /\ L < m /\ m < numBins /\ L \in Nat
    BY <1>0, <1>3, <1>5
  <2>. QED
    BY <1>0, <2>1
<1>7. LeftOf(m) = m - 1
  BY <1>6, WrapInRange DEF LeftOf
<1>8. (m - 1) + 1 = m
  BY <1>3
<1>. QED
  BY <1>0, <1>1, <1>2, <1>4, <1>6, <1>7, <1>8 DEF Bracketed, m

-----------------------------------------------------------------------------
(* What the early returns and the search find. *)
LEMMA OutsideHasNoBin ==
  ASSUME SearchTypeOK, Sorted, Outside, normal, NEW i \in 0 .. numBins - 1
  PROVE  ~HoldsValue(i)
<1>1. /\ numBins \in Nat /\ numBins > 0 /\ value \in Int
      /\ \A k \in 0 .. numBins : binEdges[k] \in Int
  BY SizesAssumption DEF SearchTypeOK
<1>2. binEdges[0] <= binEdges[i] /\ binEdges[i + 1] <= binEdges[numBins]
  BY <1>1, EdgeOrder
<1>3. value < binEdges[0] \/ value >= binEdges[numBins - 1 + 1]
  BY DEF Outside, Low, High
<1>4. numBins - 1 + 1 = numBins
  BY <1>1
<1>. QED
  BY <1>1, <1>2, <1>3, <1>4 DEF HoldsValue

(* The invariant holds to begin with and every step keeps it. *)
LEMMA SearchInvInit == SearchInit => SearchTypeOK /\ SearchInv
BY SizesAssumption DEF SearchInit, SearchTypeOK, SearchInv, Sorted, SearchFindsTheBin, npos

LEMMA SearchInvNext ==
  ASSUME SearchTypeOK, SearchInv, [SearchNext]_searchVars
  PROVE  SearchTypeOK' /\ SearchInv'
<1>1. CASE ReturnOutside
  <2>1. SearchFindsTheBin'
    BY <1>1, OutsideHasNoBin
       DEF ReturnOutside, SearchFindsTheBin, HoldsValue, inputVars, SearchInv
  <2>. QED
    BY <1>1, <2>1 DEF ReturnOutside, SearchInv, Sorted, SearchTypeOK, inputVars
<1>2. CASE Begin
  <2>1. numBins \in Nat /\ numBins > 0 /\ numBins <= MaxBins /\ MaxBins \in Nat
    BY SizesAssumption DEF SearchTypeOK
  <2>2. binEdges[0] <= value /\ value < binEdges[numBins - 1 + 1]
    <3>1. binEdges[0] \in Int /\ binEdges[numBins - 1 + 1] \in Int /\ value \in Int
      BY <2>1, SizesAssumption DEF SearchTypeOK
    <3>. QED
      BY <1>2, <3>1 DEF Begin, Outside, Low, High
  <2>3. Bracketed'
    BY <1>2, <2>1, <2>2 DEF Begin, Bracketed, inputVars
  <2>4. SearchTypeOK'
    BY <1>2, <2>1 DEF Begin, SearchTypeOK, inputVars
  <2>. QED
    BY <1>2, <2>3, <2>4 DEF Begin, SearchInv, Sorted, SearchFindsTheBin, inputVars
<1>3. CASE Leave
  <2>1. Bracketed /\ L <= R
    BY <1>3 DEF Leave, SearchInv, Bracketed
  <2>2. Mid \in 0 .. numBins - 1 /\ numBins \in Nat /\ numBins <= MaxBins
    BY <2>1, MidBin
  <2>3. index' = Mid /\ FoundAt(Mid) /\ pc' = "done" /\ UNCHANGED <<inputVars, L, R>>
    BY <1>3, <2>1 DEF Leave
  <2>4. value \in Int /\ binEdges[Mid + 1] \in Int
    BY <2>1, <2>2, MidBin
  <2>5. SearchFindsTheBin'
    BY <2>2, <2>3, <2>4 DEF SearchFindsTheBin, HoldsValue, FoundAt, Low, High, inputVars
  <2>6. index' \in 0 .. MaxBins - 1
    BY <2>2, <2>3, SizesAssumption
  <2>. QED
    BY <2>3, <2>5, <2>6 DEF SearchInv, Sorted, SearchTypeOK, inputVars
<1>4. CASE GoRight
  <2>1. Bracketed /\ Sorted
    BY <1>4 DEF GoRight, SearchInv
  <2>2. Bracketed' /\ R' = R /\ L' = Mid + 1
    BY <1>4, <2>1, RightStep
  <2>3. L' \in 0 .. MaxBins
    BY <2>1, <2>2, MidBin, SizesAssumption
  <2>. QED
    BY <1>4, <2>2, <2>3 DEF GoRight, SearchInv, Sorted, SearchFindsTheBin, SearchTypeOK, inputVars
<1>5. CASE GoLeft
  <2>1. Bracketed /\ Sorted
    BY <1>5 DEF GoLeft, SearchInv
  <2>2. Bracketed' /\ L' = L /\ R' = Mid - 1
    BY <1>5, <2>1, LeftStep
  <2>3. Mid \in L .. R /\ L \in Nat /\ R \in Nat /\ R < numBins /\ numBins \in Nat /\ numBins <= MaxBins
    BY <2>1, MidBin DEF Bracketed
  <2>4. R' \in Int /\ R' >= L /\ R' <= MaxBins
    BY <2>2, <2>3, SizesAssumption DEF Bracketed
  <2>5. R' \in 0 .. MaxBins
    BY <2>3, <2>4, SizesAssumption
  <2>. QED
    BY <1>5, <2>2, <2>5 DEF GoLeft, SearchInv, Sorted, SearchFindsTheBin, SearchTypeOK, inputVars
<1>6. CASE UNCHANGED searchVars
  BY <1>6 DEF searchVars, inputVars, SearchTypeOK, SearchInv, Sorted, Bracketed, SearchFindsTheBin,
              HoldsValue
<1>. QED
  BY <1>1, <1>2, <1>3, <1>4, <1>5, <1>6 DEF SearchNext

(* So it is an invariant. *)
LEMMA SearchInvCorrect == SearchSpec => [](SearchTypeOK /\ SearchInv)
<1>1. SearchTypeOK /\ SearchInv /\ [SearchNext]_searchVars => (SearchTypeOK /\ SearchInv)'
  BY SearchInvNext
<1>. QED
  BY <1>1, SearchInvInit, PTL DEF SearchSpec

-----------------------------------------------------------------------------
(* The indices stay small enough for their type. *)
THEOREM SearchTypeCorrect == SearchSpec => []SearchTypeOK
BY SearchInvCorrect, PTL

(* The value is found in the bin that contains it, or is in none. *)
THEOREM SearchFinds == SearchSpec => []SearchFindsTheBin
<1>1. SearchInv => SearchFindsTheBin
  BY DEF SearchInv
<1>. QED
  BY <1>1, SearchInvCorrect, PTL

(* No index wraps and no bin beyond the ends is read. *)
THEOREM SearchStaysInRange == SearchSpec => []IndexInRange
<1>1. SearchTypeOK /\ SearchInv => IndexInRange
  BY MidBin DEF SearchInv, IndexInRange, Bracketed
<1>. QED
  BY <1>1, SearchInvCorrect, PTL

(* Every iteration shortens the interval, so the loop ends. *)
THEOREM SearchShrinks == SearchSpec => []Shrinks
<1>1. SearchTypeOK /\ SearchInv => Shrinks
  <2> SUFFICES ASSUME SearchTypeOK, SearchInv, pc = "search"
               PROVE  /\ High(Mid) <= value => R - RightOf(Mid) < R - L
                      /\ Low(Mid) > value => LeftOf(Mid) - L < R - L
    BY DEF Shrinks
  <2> DEFINE m == Mid
  <2>0. Bracketed
    BY DEF SearchInv
  <2>1. /\ m \in L .. R /\ m \in 0 .. numBins - 1 /\ numBins \in Nat
        /\ L \in Nat /\ R \in Nat /\ value \in Int
        /\ numBins < SizeMod /\ SizeMod \in Nat
        /\ \A i \in 0 .. numBins : binEdges[i] \in Int
    BY <2>0, MidBin
  <2>. HIDE DEF m
  <2>2. R - RightOf(m) < R - L
    <3>1. m + 1 \in 0 .. SizeMod - 1
      BY <2>1
    <3>2. RightOf(m) = m + 1
      BY <3>1, <2>1, WrapInRange DEF RightOf
    <3>. QED
      BY <2>1, <3>2
  <2>3. ASSUME Low(m) > value
        PROVE  LeftOf(m) - L < R - L
    <3>1. binEdges[L] <= value /\ binEdges[L] \in Int /\ binEdges[m] \in Int
      BY <2>0, <2>1 DEF Bracketed
    <3>2. m # L
      BY <2>1, <2>3, <3>1 DEF Low
    <3>3. m - 1 \in 0 .. SizeMod - 1
      BY <2>1, <3>2
    <3>4. LeftOf(m) = m - 1
      BY <3>3, <2>1, WrapInRange DEF LeftOf
    <3>. QED
      BY <2>1, <3>4
  <2>. QED
    BY <2>2, <2>3 DEF m
<1>. QED
  BY <1>1, SearchInvCorrect, PTL

-----------------------------------------------------------------------------
(* Orders. *)

(* What is a strict and total order on S. *)
StrictTotal(S, less) ==
  /\ \A e \in S : <<e, e>> \notin less
  /\ \A d, e, f \in S : <<d, e>> \in less /\ <<e, f>> \in less => <<d, f>> \in less
  /\ \A d, e \in S : d = e \/ <<d, e>> \in less \/ <<e, d>> \in less

(* Every element has a place of its own among 1 .. Cardinality(S): that of *)
(* the number of those before it.                                          *)
LEMMA AscendingLists ==
  ASSUME NEW S, IsFiniteSet(S), NEW less, StrictTotal(S, less)
  PROVE  /\ Ascending(S, less) \in Seq(S)
         /\ Len(Ascending(S, less)) = Cardinality(S)
         /\ IsInjective(Ascending(S, less))
         /\ ToSet(Ascending(S, less)) = S
<1> DEFINE n == Cardinality(S)
           Before(e) == {d \in S : <<d, e>> \in less}
           rank == [e \in S |-> Cardinality(Before(e))]
           seq == Ascending(S, less)
<1>1. n \in Nat
  BY FS_CardinalityType
<1>2. ASSUME NEW e \in S PROVE IsFiniteSet(Before(e)) /\ rank[e] \in 0 .. n - 1
  <2>1. IsFiniteSet(Before(e)) /\ Cardinality(Before(e)) <= n
        /\ (n = Cardinality(Before(e)) => S = Before(e))
    <3>1. Before(e) \in SUBSET S
      OBVIOUS
    <3> HIDE DEF Before
    <3>2. QED BY <3>1, FS_Subset
  <2>2. e \notin Before(e)
    BY DEF StrictTotal
  <2>3. Cardinality(Before(e)) \in Nat
    BY <2>1, FS_CardinalityType
  <2>4. QED BY <1>1, <2>1, <2>2, <2>3
<1>3. ASSUME NEW d \in S, NEW e \in S, <<d, e>> \in less PROVE rank[d] < rank[e]
  <2>1. Before(d) \in SUBSET Before(e)
    BY <1>3 DEF StrictTotal
  <2>2. d \in Before(e) /\ d \notin Before(d)
    BY <1>3 DEF StrictTotal
  <2>3. IsFiniteSet(Before(e)) /\ IsFiniteSet(Before(d))
    BY <1>2
  <2> HIDE DEF Before
  <2>4. Cardinality(Before(d)) <= Cardinality(Before(e))
        /\ Cardinality(Before(e)) # Cardinality(Before(d))
    BY <2>1, <2>2, <2>3, FS_Subset
  <2>5. Cardinality(Before(d)) \in Nat /\ Cardinality(Before(e)) \in Nat
    BY <2>3, FS_CardinalityType
  <2>6. QED BY <2>4, <2>5
<1>4. \A d, e \in S : rank[d] = rank[e] => d = e
  <2>1. \A d \in S : rank[d] \in Int
    BY <1>2, <1>1
  <2> HIDE DEF rank
  <2> TAKE d, e \in S
  <2> HAVE rank[d] = rank[e]
  <2>2. ~(rank[d] < rank[e]) /\ ~(rank[e] < rank[d])
    BY <2>1
  <2>3. <<d, e>> \notin less /\ <<e, d>> \notin less
    BY <1>3, <2>2
  <2>4. QED BY <2>3 DEF StrictTotal
<1>5. rank \in Injection(S, 0 .. n - 1)
  BY <1>2, <1>4 DEF Injection, IsInjective
<1>6. IsFiniteSet(0 .. n - 1) /\ Cardinality(0 .. n - 1) = n
  BY <1>1, FS_Interval
<1> HIDE DEF rank
<1>7. rank \in Surjection(S, 0 .. n - 1)
  BY <1>5, <1>6, FS_Injection
<1>8. \A k \in 1 .. n : \E e \in S : rank[e] = k - 1
  <2>1. \A k \in 1 .. n : k - 1 \in 0 .. n - 1
    BY <1>1
  <2>2. QED BY <1>7, <2>1 DEF Surjection
<1>9. seq = [k \in 1 .. n |-> CHOOSE e \in S : Cardinality(Before(e)) = k - 1]
  BY DEF Ascending
<1>15. \A e \in S : rank[e] = Cardinality(Before(e))
  BY DEF rank
<1> HIDE DEF Before
<1>10. \A k \in 1 .. n : seq[k] \in S /\ rank[seq[k]] = k - 1
  <2>1. \A k \in 1 .. n : \E e \in S : Cardinality(Before(e)) = k - 1
    BY <1>8, <1>15
  <2> HIDE DEF n
  <2>2. \A k \in 1 .. n : seq[k] \in S /\ Cardinality(Before(seq[k])) = k - 1
    BY <1>9, <2>1
  <2>3. QED BY <1>15, <2>2
<1>11. seq \in Seq(S) /\ Len(seq) = n /\ DOMAIN seq = 1 .. n
  <2>1. seq \in [1 .. n -> S]
    BY <1>9, <1>10
  <2> HIDE DEF seq, n
  <2>2. QED BY <1>1, <2>1, SeqOfFunction
<1>12. IsInjective(seq)
  <2>1. \A j, k \in 1 .. n : seq[j] = seq[k] => j - 1 = k - 1
    BY <1>10
  <2>2. \A j, k \in 1 .. n : j - 1 = k - 1 => j = k
    BY <1>1
  <2> HIDE DEF seq
  <2>3. QED BY <1>11, <2>1, <2>2 DEF IsInjective
<1>13. ToSet(seq) = S
  <2>1. ToSet(seq) = {seq[k] : k \in 1 .. n}
    BY <1>11 DEF ToSet
  <2>2. \A e \in S : \E k \in 1 .. n : seq[k] = e
    <3> TAKE e \in S
    <3>1. rank[e] \in 0 .. n - 1
      BY <1>5 DEF Injection
    <3>2. PICK k \in 1 .. n : k - 1 = rank[e]
      BY <1>1, <3>1
    <3> HIDE DEF seq, n
    <3>3. seq[k] \in S /\ rank[seq[k]] = rank[e]
      BY <1>10, <3>2
    <3>4. QED BY <1>4, <3>3
  <2> HIDE DEF seq
  <2>3. QED BY <1>10, <2>1, <2>2
<1>14. QED BY <1>11, <1>12, <1>13

-----------------------------------------------------------------------------
(* Extents that can be empty or reversed: the order does not ask. *)
AnyExtents == [low : Int, high : Int]

(* Extents are compared by their upper end and then by their lower. *)
LEMMA ExtentsAreOrdered ==
  ASSUME NEW S \in SUBSET AnyExtents
  PROVE  /\ \A a \in S : ~ExtentLess(a, a)
         /\ \A a, b, c \in S : ExtentLess(a, b) /\ ExtentLess(b, c) => ExtentLess(a, c)
         /\ \A a, b \in S : a = b \/ ExtentLess(a, b) \/ ExtentLess(b, a)
<1>1. \A a \in S : a \in AnyExtents /\ a.low \in Int /\ a.high \in Int
  BY DEF AnyExtents
<1>2. \A a, b \in AnyExtents : a.low = b.low /\ a.high = b.high => a = b
  BY DEF AnyExtents
<1>3. QED BY <1>1, <1>2 DEF ExtentLess

(* Sorted extents are all there are, each once. *)
LEMMA ExtentsSorted ==
  ASSUME NEW S \in SUBSET AnyExtents, IsFiniteSet(S)
  PROVE  /\ SortedExtents(S) \in Seq(S)
         /\ IsInjective(SortedExtents(S))
         /\ ToSet(SortedExtents(S)) = S
<1>1. StrictTotal(S, {p \in S \X S : ExtentLess(p[1], p[2])})
  BY ExtentsAreOrdered DEF StrictTotal
<1>2. QED BY <1>1, AscendingLists DEF SortedExtents

(* Bins of n axes are ordered: two of them differ on a last axis. *)
LEMMA BinsAreOrdered ==
  ASSUME NEW n \in Nat, NEW S \in SUBSET [1 .. n -> AnyExtents]
  PROVE  /\ \A a \in S : ~BinLess(a, a)
         /\ \A a, b, c \in S : BinLess(a, b) /\ BinLess(b, c) => BinLess(a, c)
         /\ \A a, b \in S : a = b \/ BinLess(a, b) \/ BinLess(b, a)
<1>1. \A a \in S : DOMAIN a = 1 .. n /\ \A i \in 1 .. n : a[i] \in AnyExtents
  OBVIOUS
<1>2. /\ \A d \in AnyExtents : ~ExtentLess(d, d)
      /\ \A d, e, f \in AnyExtents : ExtentLess(d, e) /\ ExtentLess(e, f) => ExtentLess(d, f)
      /\ \A d, e \in AnyExtents : d = e \/ ExtentLess(d, e) \/ ExtentLess(e, d)
  BY ExtentsAreOrdered
<1>3. \A a \in S : ~BinLess(a, a)
  BY <1>1, <1>2 DEF BinLess
<1>4. ASSUME NEW a \in S, NEW b \in S, NEW c \in S, BinLess(a, b), BinLess(b, c)
      PROVE  BinLess(a, c)
  <2>1. PICK i \in 1 .. n : ExtentLess(a[i], b[i]) /\ \A j \in 1 .. n : j > i => a[j] = b[j]
    BY <1>1, <1>4 DEF BinLess
  <2>2. PICK k \in 1 .. n : ExtentLess(b[k], c[k]) /\ \A j \in 1 .. n : j > k => b[j] = c[j]
    BY <1>1, <1>4 DEF BinLess
  <2>3. CASE i < k
    <3>1. ExtentLess(a[k], c[k]) /\ \A j \in 1 .. n : j > k => a[j] = c[j]
      BY <2>1, <2>2, <2>3
    <3>2. QED BY <1>1, <3>1 DEF BinLess
  <2>4. CASE k < i
    <3>1. ExtentLess(a[i], c[i]) /\ \A j \in 1 .. n : j > i => a[j] = c[j]
      BY <2>1, <2>2, <2>4
    <3>2. QED BY <1>1, <3>1 DEF BinLess
  <2>5. CASE k = i
    <3>1. ExtentLess(a[i], c[i]) /\ \A j \in 1 .. n : j > i => a[j] = c[j]
      BY <1>1, <1>2, <2>1, <2>2, <2>5
    <3>2. QED BY <1>1, <3>1 DEF BinLess
  <2>6. QED BY <2>3, <2>4, <2>5
<1>5. ASSUME NEW a \in S, NEW b \in S, a # b PROVE BinLess(a, b) \/ BinLess(b, a)
  <2> DEFINE P == {i \in 1 .. n : a[i] # b[i]}
  <2>1. P # {} /\ P \in SUBSET (1 .. n)
    <3>1. a \in [1 .. n -> AnyExtents] /\ b \in [1 .. n -> AnyExtents]
      OBVIOUS
    <3>2. \E i \in 1 .. n : a[i] # b[i]
      BY <1>5, <3>1
    <3>3. QED BY <3>2
  <2>2. PICK i \in P : \A j \in P : j <= i
    <3> HIDE DEF P
    <3>1. QED BY <2>1, HighestPlace
  <2>3. i \in 1 .. n /\ a[i] # b[i] /\ \A j \in 1 .. n : j > i => a[j] = b[j]
    BY <2>2
  <2>4. ExtentLess(a[i], b[i]) \/ ExtentLess(b[i], a[i])
    BY <1>1, <1>2, <2>3
  <2>5. QED BY <1>1, <2>3, <2>4 DEF BinLess
<1>6. QED BY <1>3, <1>4, <1>5

(* Sorted bins are all there are, each once. *)
LEMMA BinsSorted ==
  ASSUME NEW n \in Nat, NEW S \in SUBSET [1 .. n -> AnyExtents], IsFiniteSet(S)
  PROVE  /\ SortedBins(S) \in Seq(S)
         /\ Len(SortedBins(S)) = Cardinality(S)
         /\ IsInjective(SortedBins(S))
         /\ ToSet(SortedBins(S)) = S
<1>1. StrictTotal(S, {p \in S \X S : BinLess(p[1], p[2])})
  BY BinsAreOrdered DEF StrictTotal
<1>2. QED BY <1>1, AscendingLists DEF SortedBins

(* Points, of which there are finitely many, differ on a first axis. *)
LEMMA PointsAreOrdered ==
  ASSUME NEW n \in Nat, NEW S \in SUBSET [1 .. n -> Int]
  PROVE  StrictTotal(S, {p \in S \X S : PointLess(p[1], p[2])})
<1>1. \A x \in S : DOMAIN x = 1 .. n /\ \A i \in 1 .. n : x[i] \in Int
  OBVIOUS
<1>2. \A x \in S : ~PointLess(x, x)
  BY <1>1 DEF PointLess
<1>3. ASSUME NEW x \in S, NEW y \in S, NEW z \in S, PointLess(x, y), PointLess(y, z)
      PROVE  PointLess(x, z)
  <2>0. /\ DOMAIN x = 1 .. n /\ DOMAIN y = 1 .. n /\ DOMAIN z = 1 .. n
        /\ \A j \in 1 .. n : x[j] \in Int /\ y[j] \in Int /\ z[j] \in Int
    BY <1>1
  <2>1. PICK i \in 1 .. n : x[i] < y[i] /\ \A j \in 1 .. n : j < i => x[j] = y[j]
    BY <2>0, <1>3 DEF PointLess
  <2>2. PICK k \in 1 .. n : y[k] < z[k] /\ \A j \in 1 .. n : j < k => y[j] = z[j]
    BY <2>0, <1>3 DEF PointLess
  <2>3. CASE i < k
    <3>1. x[i] < z[i]
      BY <2>0, <2>1, <2>2, <2>3
    <3>2. \A j \in 1 .. n : j < i => x[j] = z[j]
      BY <2>1, <2>2, <2>3
    <3>3. QED BY <2>0, <3>1, <3>2 DEF PointLess
  <2>4. CASE k < i
    <3>1. x[k] < z[k]
      BY <2>0, <2>1, <2>2, <2>4
    <3>2. \A j \in 1 .. n : j < k => x[j] = z[j]
      BY <2>1, <2>2, <2>4
    <3>3. QED BY <2>0, <3>1, <3>2 DEF PointLess
  <2>5. CASE k = i
    <3>1. x[i] < z[i]
      BY <2>0, <2>1, <2>2, <2>5
    <3>2. \A j \in 1 .. n : j < i => x[j] = z[j]
      BY <2>1, <2>2, <2>5
    <3>3. QED BY <2>0, <3>1, <3>2 DEF PointLess
  <2>6. QED BY <2>3, <2>4, <2>5
<1>4. ASSUME NEW x \in S, NEW y \in S, x # y PROVE PointLess(x, y) \/ PointLess(y, x)
  <2> DEFINE P == {i \in 1 .. n : x[i] # y[i]}
  <2>1. P # {} /\ P \in SUBSET (1 .. n)
    <3>1. x \in [1 .. n -> Int] /\ y \in [1 .. n -> Int]
      OBVIOUS
    <3>2. \E i \in 1 .. n : x[i] # y[i]
      BY <1>4, <3>1
    <3>3. QED BY <3>2
  <2>2. PICK i \in P : \A j \in P : i <= j
    <3> HIDE DEF P
    <3>1. QED BY <2>1, LowestPlace
  <2>3. i \in 1 .. n /\ x[i] # y[i] /\ \A j \in 1 .. n : j < i => x[j] = y[j]
    BY <2>2
  <2>4. x[i] < y[i] \/ y[i] < x[i]
    BY <1>1, <2>3
  <2>5. QED BY <1>1, <2>3, <2>4 DEF PointLess
<1>5. QED BY <1>2, <1>3, <1>4 DEF StrictTotal

-----------------------------------------------------------------------------
(* Bins. *)
Numbers == Int \ {NaN}
BinsOf(n) == [1 .. n -> ProperExtents]
NumberPoints(n) == [1 .. n -> Numbers]

(* An extent that is not empty, and starts at a number. *)
LEMMA ProperExtent ==
  ASSUME NEW e \in ProperExtents
  PROVE  e \in AnyExtents /\ e.low \in Numbers /\ e.low \in Int /\ e.high \in Int /\ e.low < e.high
BY DEF ProperExtents, AnyExtents, Numbers

(* Bins have one or more axes, the same for all of them. *)
LEMMA BinsAre ==
  ASSUME NEW bins, IsBins(bins)
  PROVE  /\ NAxes(bins) \in Nat \ {0}
         /\ bins \in Seq(BinsOf(NAxes(bins)))
         /\ Len(bins) \in Nat \ {0}
         /\ DOMAIN bins = 1 .. Len(bins)
         /\ \A i \in DOMAIN bins : bins[i] \in BinsOf(NAxes(bins))
         /\ bins[1] \in BinsOf(NAxes(bins))
<1>1. bins \in Seq(Seq(ProperExtents)) /\ bins # <<>> /\ NAxes(bins) # 0
  BY DEF IsBins
<1>2. Len(bins) \in Nat \ {0} /\ DOMAIN bins = 1 .. Len(bins)
  BY <1>1, LenProperties, EmptySeq
<1>3. \A i \in 1 .. Len(bins) : bins[i] \in Seq(ProperExtents) /\ Len(bins[i]) = NAxes(bins)
  BY <1>1, <1>2, ElementOfSeq DEF IsBins
<1>4. NAxes(bins) \in Nat
  BY <1>2, <1>3, LenProperties DEF NAxes
<1>5. \A i \in 1 .. Len(bins) : bins[i] \in BinsOf(NAxes(bins))
  BY <1>3, LenProperties DEF BinsOf
<1>6. bins \in [1 .. Len(bins) -> BinsOf(NAxes(bins))]
  BY <1>1, <1>5, LenProperties
<1>7. bins \in Seq(BinsOf(NAxes(bins)))
  BY <1>2, <1>6, SeqOfFunction
<1>8. QED BY <1>1, <1>2, <1>4, <1>5, <1>7

(* One or more bins of the same axes are bins. *)
LEMMA AreBins ==
  ASSUME NEW n \in Nat \ {0}, NEW bins \in Seq(BinsOf(n)), bins # <<>>
  PROVE  IsBins(bins) /\ NAxes(bins) = n
<1>1. Len(bins) \in Nat \ {0} /\ DOMAIN bins = 1 .. Len(bins)
  BY LenProperties, EmptySeq
<1>2. \A i \in 1 .. Len(bins) : bins[i] \in BinsOf(n)
  BY ElementOfSeq
<1>3. \A i \in 1 .. Len(bins) : bins[i] \in Seq(ProperExtents) /\ Len(bins[i]) = n
  <2> TAKE i \in 1 .. Len(bins)
  <2>1. bins[i] \in [1 .. n -> ProperExtents]
    BY <1>2 DEF BinsOf
  <2>2. QED BY <2>1, SeqOfFunction
<1>4. bins \in Seq(Seq(ProperExtents))
  <2>1. bins \in [1 .. Len(bins) -> Seq(ProperExtents)]
    BY <1>1, <1>3, LenProperties
  <2>2. QED BY <1>1, <2>1, SeqOfFunction
<1>5. NAxes(bins) = n
  BY <1>1, <1>3 DEF NAxes
<1>6. QED BY <1>1, <1>3, <1>4, <1>5 DEF IsBins

(* For a point of numbers the tests of the searches say the same. *)
LEMMA InBinMeans ==
  ASSUME NEW n \in Nat, NEW bin \in BinsOf(n), NEW x \in NumberPoints(n)
  PROVE  /\ DOMAIN bin = 1 .. n
         /\ InBin(bin, x) <=> \A i \in 1 .. n : bin[i].low <= x[i] /\ x[i] < bin[i].high
         /\ \A i \in 1 .. n : Holds(bin[i], x[i]) <=> bin[i].low <= x[i] /\ x[i] < bin[i].high
         /\ PassedOver(bin, x) <=> ~InBin(bin, x)
<1>1. DOMAIN bin = 1 .. n /\ \A i \in 1 .. n : bin[i].low \in Int /\ bin[i].high \in Int
  BY ProperExtent DEF BinsOf
<1>2. \A i \in 1 .. n : x[i] \in Int /\ x[i] # NaN
  BY DEF NumberPoints, Numbers
<1>3. \A i \in 1 .. n : Holds(bin[i], x[i]) <=> bin[i].low <= x[i] /\ x[i] < bin[i].high
  BY <1>1, <1>2 DEF Holds, AtLeast, Below, Normal
<1>4. PassedOver(bin, x) <=> ~InBin(bin, x)
  <2>1. \A i \in 1 .. n : Below(x[i], bin[i].low) \/ AtLeast(x[i], bin[i].high)
                            <=> ~Holds(bin[i], x[i])
    BY <1>1, <1>2, <1>3 DEF AtLeast, Below, Normal
  <2>2. QED BY <1>1, <2>1 DEF PassedOver, InBin
<1>5. QED BY <1>1, <1>3, <1>4 DEF InBin

(* The test for overlaps means that each starts below the end of the other. *)
LEMMA ExtentsOverlap ==
  ASSUME NEW d \in ProperExtents, NEW e \in ProperExtents
  PROVE  Overlaps(d, e) <=> d.low < e.high /\ e.low < d.high
BY ProperExtent DEF Overlaps

(* Bins overlap when there is a point in both; one with the lower ends of  *)
(* the bins is enough.                                                     *)
LEMMA OverlapMeans ==
  ASSUME NEW n \in Nat, NEW a \in BinsOf(n), NEW b \in BinsOf(n), NEW C,
         \A i \in 1 .. n : a[i].low \in C /\ b[i].low \in C
  PROVE  /\ \A x \in NumberPoints(n) : InBin(a, x) /\ InBin(b, x) => BinsOverlap(a, b)
         /\ BinsOverlap(a, b) =>
              \E x \in [1 .. n -> C \cap Numbers] : InBin(a, x) /\ InBin(b, x)
<1>1. DOMAIN a = 1 .. n
      /\ \A i \in 1 .. n : a[i] \in ProperExtents /\ b[i] \in ProperExtents
  BY DEF BinsOf
<1>2. BinsOverlap(a, b) <=> \A i \in 1 .. n : a[i].low < b[i].high /\ b[i].low < a[i].high
  BY <1>1, ExtentsOverlap DEF BinsOverlap
<1>3. \A i \in 1 .. n : /\ a[i].low \in Numbers /\ a[i].high \in Int
                       /\ b[i].low \in Numbers /\ b[i].high \in Int
                       /\ a[i].low < a[i].high /\ b[i].low < b[i].high
  BY <1>1, ProperExtent
<1>4. ASSUME NEW x \in NumberPoints(n), InBin(a, x), InBin(b, x) PROVE BinsOverlap(a, b)
  <2>1. \A i \in 1 .. n : a[i].low <= x[i] /\ x[i] < a[i].high /\ b[i].low <= x[i] /\ x[i] < b[i].high
    BY <1>4, InBinMeans
  <2>2. \A i \in 1 .. n : x[i] \in Int
    BY DEF NumberPoints, Numbers
  <2>3. \A i \in 1 .. n : a[i].low < b[i].high /\ b[i].low < a[i].high
    BY <1>3, <2>1, <2>2 DEF Numbers
  <2>4. QED BY <1>2, <2>3
<1>5. ASSUME BinsOverlap(a, b)
      PROVE  \E x \in [1 .. n -> C \cap Numbers] : InBin(a, x) /\ InBin(b, x)
  <2> DEFINE x == [i \in 1 .. n |-> IF a[i].low < b[i].low THEN b[i].low ELSE a[i].low]
  <2>1. x \in [1 .. n -> C \cap Numbers] /\ x \in NumberPoints(n)
    BY <1>3 DEF NumberPoints
  <2>2. \A i \in 1 .. n : a[i].low <= x[i] /\ x[i] < a[i].high /\ b[i].low <= x[i] /\ x[i] < b[i].high
    BY <1>2, <1>3, <1>5 DEF Numbers
  <2> HIDE DEF x
  <2>3. InBin(a, x) /\ InBin(b, x)
    BY <2>1, <2>2, InBinMeans
  <2>4. QED BY <2>1, <2>3
<1>6. QED BY <1>4, <1>5

-----------------------------------------------------------------------------
(* What the factories refuse. *)
OneHome(bins, x) == \A i, j \in HomesOf(bins, x) : i = j

(* The bins a point is in; that there is one at most, in two ways. *)
LEMMA HomesAre ==
  ASSUME NEW bins, IsBins(bins), NEW x
  PROVE  /\ HomesOf(bins, x) \subseteq 1 .. Len(bins)
         /\ IsFiniteSet(HomesOf(bins, x))
         /\ OneHome(bins, x) <=> Cardinality(HomesOf(bins, x)) <= 1
<1> DEFINE H == HomesOf(bins, x)
<1>1. H \subseteq 1 .. Len(bins) /\ Len(bins) \in Nat
  BY BinsAre DEF HomesOf
<1>2. IsFiniteSet(H) /\ Cardinality(H) \in Nat
  <2>1. IsFiniteSet(1 .. Len(bins))
    BY <1>1, FS_Interval
  <2>2. QED BY <1>1, <2>1, FS_Subset, FS_CardinalityType
<1>3. ASSUME OneHome(bins, x) PROVE Cardinality(H) <= 1
  <2>1. CASE H = {}
    BY <2>1, FS_EmptySet
  <2>2. CASE H # {}
    <3>1. PICK i \in H : H = {i}
      BY <1>3, <2>2 DEF OneHome
    <3>2. Cardinality({i}) = 1
      BY FS_Singleton
    <3>3. QED BY <3>1, <3>2
  <2>3. QED BY <2>1, <2>2
<1>4. ASSUME Cardinality(H) <= 1, NEW i \in H, NEW j \in H PROVE i = j
  <2> HIDE DEF H
  <2>1. Cardinality({i}) = 1 /\ IsFiniteSet({i}) /\ {i} \in SUBSET H
    BY FS_Singleton
  <2>2. Cardinality({i}) <= Cardinality(H) /\ (Cardinality(H) = Cardinality({i}) => H = {i})
    BY <1>2, <2>1, FS_Subset
  <2>3. QED BY <1>2, <1>4, <2>1, <2>2
<1>5. QED BY <1>1, <1>2, <1>3, <1>4 DEF OneHome

(* Sorting bins and dropping the repeated ones keeps every bin. *)
LEMMA UniqueBins ==
  ASSUME NEW n \in Nat, NEW bins \in Seq(BinsOf(n))
  PROVE  /\ Unique(bins) \in Seq(BinsOf(n))
         /\ ToSet(Unique(bins)) = ToSet(bins)
         /\ IsInjective(Unique(bins))
         /\ Len(Unique(bins)) = Len(bins) <=> IsInjective(bins)
<1>1. ToSet(bins) \subseteq BinsOf(n)
  BY ToSetType
<1>2. BinsOf(n) \subseteq [1 .. n -> AnyExtents]
  BY ProperExtent DEF BinsOf
<1>3. IsFiniteSet(ToSet(bins)) /\ (IsInjective(bins) <=> Cardinality(ToSet(bins)) = Len(bins))
  BY ToSetOfInjective
<1>4. /\ SortedBins(ToSet(bins)) \in Seq(ToSet(bins))
      /\ Len(SortedBins(ToSet(bins))) = Cardinality(ToSet(bins))
      /\ IsInjective(SortedBins(ToSet(bins)))
      /\ ToSet(SortedBins(ToSet(bins))) = ToSet(bins)
  BY <1>1, <1>2, <1>3, BinsSorted
<1>5. SortedBins(ToSet(bins)) \in Seq(BinsOf(n))
  BY <1>1, <1>4, SeqMonotonic
<1>6. QED BY <1>3, <1>4, <1>5 DEF Unique

(* Bins are refused unless no point is in two of them; to see this, points *)
(* with the lower ends of bins are enough.                                 *)
LEMMA RefusedUnlessOneHome ==
  ASSUME NEW bins, IsBins(bins), NEW C,
         \A i \in DOMAIN bins : \A a \in 1 .. NAxes(bins) : bins[i][a].low \in C
  PROVE  /\ Refusal(bins) = "none" => \A x \in NumberPoints(NAxes(bins)) : OneHome(bins, x)
         /\ (\A x \in [1 .. NAxes(bins) -> C \cap Numbers] : OneHome(bins, x)) =>
              Refusal(bins) = "none"
<1> DEFINE n == NAxes(bins)
           u == Unique(bins)
<1>1. /\ n \in Nat \ {0} /\ bins \in Seq(BinsOf(n)) /\ bins # <<>> /\ DOMAIN bins = 1 .. Len(bins)
      /\ \A i \in DOMAIN bins : bins[i] \in BinsOf(n)
  BY BinsAre DEF IsBins
<1>2. /\ u \in Seq(BinsOf(n)) /\ ToSet(u) = ToSet(bins) /\ IsInjective(u)
      /\ (Len(u) = Len(bins) <=> IsInjective(bins))
  <2> HIDE DEF n
  <2>1. QED BY <1>1, UniqueBins
<1>3. DOMAIN u = 1 .. Len(u) /\ Len(u) \in Nat /\ \A i \in DOMAIN u : u[i] \in BinsOf(n)
  <2> HIDE DEF n, u
  <2>1. QED BY <1>2, LenProperties, ElementOfSeq
<1>4. HasOverlaps(bins) <=> \E i, j \in DOMAIN u : i < j /\ BinsOverlap(u[i], u[j])
  BY DEF HasOverlaps, ProjectToUniqueBins
<1>5. Refusal(bins) = "none" <=> IsInjective(bins) /\ ~HasOverlaps(bins)
  BY <1>1, <1>2 DEF Refusal
<1>6. \A a, b \in BinsOf(n) : BinsOverlap(a, b) <=> BinsOverlap(b, a)
  BY <1>1, ExtentsOverlap DEF BinsOverlap, BinsOf
<1>7. ASSUME Refusal(bins) = "none", NEW x \in NumberPoints(n) PROVE OneHome(bins, x)
  <2> SUFFICES ASSUME NEW i \in HomesOf(bins, x), NEW j \in HomesOf(bins, x), i # j
               PROVE  FALSE
    BY DEF OneHome
  <2>1. i \in DOMAIN bins /\ j \in DOMAIN bins /\ InBin(bins[i], x) /\ InBin(bins[j], x)
    BY DEF HomesOf
  <2>2. bins[i] # bins[j]
    BY <1>5, <1>7, <2>1 DEF IsInjective
  <2>3. bins[i] \in ToSet(u) /\ bins[j] \in ToSet(u)
    BY <1>2, <2>1 DEF ToSet
  <2>4. PICK k, m \in DOMAIN u : u[k] = bins[i] /\ u[m] = bins[j]
    BY <2>3 DEF ToSet
  <2>5. k # m /\ (k < m \/ m < k)
    BY <1>3, <2>2, <2>4
  <2>6. ~BinsOverlap(bins[i], bins[j])
    BY <1>3, <1>4, <1>5, <1>6, <1>7, <2>4, <2>5
  <2>7. \A y \in NumberPoints(n) : InBin(bins[i], y) /\ InBin(bins[j], y) =>
          BinsOverlap(bins[i], bins[j])
    <3>1. n \in Nat /\ bins[i] \in BinsOf(n) /\ bins[j] \in BinsOf(n)
      BY <1>1, <2>1
    <3>2. \A a \in 1 .. n : bins[i][a].low \in C /\ bins[j][a].low \in C
      BY <2>1
    <3> HIDE DEF n
    <3>3. QED BY <3>1, <3>2, OverlapMeans
  <2>8. QED BY <2>1, <2>6, <2>7
<1>8. ASSUME \A x \in [1 .. n -> C \cap Numbers] : OneHome(bins, x)
      PROVE  Refusal(bins) = "none"
  <2>1. ASSUME NEW i \in DOMAIN bins, NEW j \in DOMAIN bins, i # j
        PROVE  ~BinsOverlap(bins[i], bins[j])
    <3>1. n \in Nat /\ bins[i] \in BinsOf(n) /\ bins[j] \in BinsOf(n)
      BY <1>1
    <3>2. \A a \in 1 .. n : bins[i][a].low \in C /\ bins[j][a].low \in C
      OBVIOUS
    <3> HIDE DEF n
    <3>3. BinsOverlap(bins[i], bins[j]) =>
            \E x \in [1 .. n -> C \cap Numbers] : InBin(bins[i], x) /\ InBin(bins[j], x)
      BY <3>1, <3>2, OverlapMeans
    <3>4. QED BY <1>8, <2>1, <3>3 DEF OneHome, HomesOf
  <2>2. \A i \in DOMAIN bins : BinsOverlap(bins[i], bins[i])
    BY <1>1, ExtentsOverlap, ProperExtent DEF BinsOverlap, BinsOf
  <2>3. IsInjective(bins)
    BY <2>1, <2>2 DEF IsInjective
  <2>4. ASSUME NEW k \in DOMAIN u, NEW m \in DOMAIN u, k < m
        PROVE  ~BinsOverlap(u[k], u[m])
    <3>1. u[k] # u[m]
      BY <1>2, <1>3, <2>4 DEF IsInjective
    <3>2. PICK i, j \in DOMAIN bins : bins[i] = u[k] /\ bins[j] = u[m]
      <4>1. u[k] \in ToSet(bins) /\ u[m] \in ToSet(bins)
        BY <1>2 DEF ToSet
      <4>2. QED BY <4>1 DEF ToSet
    <3>3. QED BY <2>1, <3>1, <3>2
  <2>5. QED BY <1>4, <1>5, <2>3, <2>4
<1>9. QED BY <1>7, <1>8

(* The index of the bin that contains a point, or npos if there is none. *)
CorrectIndex(bins, x, i) ==
  i \in Int /\ HomesOf(bins, x) = IF i = npos THEN {} ELSE {i + 1}

(* When a point is in one bin at most, the first hit is that bin. *)
LEMMA FirstHitIsHome ==
  ASSUME NEW bins, IsBins(bins), NEW x, OneHome(bins, x),
         NEW hits \in Seq(1 .. Len(bins)), ToSet(hits) = HomesOf(bins, x)
  PROVE  CorrectIndex(bins, x, FirstOrNpos(hits))
<1>1. Len(bins) \in Nat
  BY BinsAre
<1>2. CASE hits = <<>>
  BY <1>2 DEF CorrectIndex, FirstOrNpos, ToSet, npos
<1>3. CASE hits # <<>>
  <2>1. Head(hits) \in 1 .. Len(bins) /\ Head(hits) \in ToSet(hits)
    BY <1>3, HeadTailProperties, LenProperties, EmptySeq DEF ToSet
  <2>2. FirstOrNpos(hits) = Head(hits) - 1 /\ Head(hits) \in Int /\ Head(hits) >= 1
    BY <1>1, <1>3, <2>1 DEF FirstOrNpos
  <2>3. FirstOrNpos(hits) # npos /\ FirstOrNpos(hits) + 1 = Head(hits)
    BY <2>2 DEF npos
  <2>4. HomesOf(bins, x) = {Head(hits)}
    BY <2>1 DEF OneHome
  <2>5. QED BY <2>2, <2>3, <2>4 DEF CorrectIndex
<1>4. QED BY <1>2, <1>3

(* The scan of brute_force() finds it. *)
LEMMA ScanFinds ==
  ASSUME NEW bins, IsBins(bins), NEW x \in NumberPoints(NAxes(bins)), OneHome(bins, x)
  PROVE  CorrectIndex(bins, x, FindByScan(bins, x))
<1> DEFINE n == Len(bins)
           all == [i \in DOMAIN bins |-> i]
           inside == {i \in DOMAIN bins : ~PassedOver(bins[i], x)}
<1>1. n \in Nat /\ DOMAIN bins = 1 .. n /\ NAxes(bins) \in Nat
      /\ \A i \in DOMAIN bins : bins[i] \in BinsOf(NAxes(bins))
  BY BinsAre
<1>2. all \in Seq(1 .. n) /\ ToSet(all) = 1 .. n
  <2>1. all \in [1 .. n -> 1 .. n] /\ DOMAIN all = 1 .. n /\ \A i \in 1 .. n : all[i] = i
    BY <1>1
  <2> HIDE DEF all, n
  <2>2. QED BY <1>1, <2>1, SeqOfFunction DEF ToSet
<1>3. inside = HomesOf(bins, x)
  BY <1>1, InBinMeans DEF HomesOf
<1>4. HomesOf(bins, x) \subseteq 1 .. n
  BY HomesAre
<1> HIDE DEF all, inside, n
<1>5. OnlyIn(all, inside) \in Seq(1 .. n) /\ ToSet(OnlyIn(all, inside)) = HomesOf(bins, x)
  <2>1. OnlyIn(all, inside) \in Seq(1 .. n) /\ ToSet(OnlyIn(all, inside)) = ToSet(all) \cap inside
    BY <1>2, OnlyInType, OnlyInElements
  <2>2. QED BY <1>2, <1>3, <1>4, <2>1
<1>6. CorrectIndex(bins, x, FirstOrNpos(OnlyIn(all, inside)))
  BY <1>5, FirstHitIsHome DEF n
<1>7. QED BY <1>6 DEF FindByScan, all, inside

-----------------------------------------------------------------------------
(* Columns. *)

(* Sorting bins along an axis loses none of them. *)
LEMMA SortedBinMapLists ==
  ASSUME NEW bins, IsBins(bins), NEW ax \in 1 .. NAxes(bins)
  PROVE  SortedBinMap(bins, ax) \in Seq(1 .. Len(bins)) /\ ToSet(SortedBinMap(bins, ax)) = 1 .. Len(bins)
<1> DEFINE n == Len(bins)
           along == {bins[i][ax] : i \in 1 .. n}
           less == {p \in (DOMAIN bins) \X (DOMAIN bins) :
                      \/ ExtentLess(bins[p[1]][ax], bins[p[2]][ax])
                      \/ bins[p[1]][ax] = bins[p[2]][ax] /\ p[1] < p[2]}
<1>1. n \in Nat /\ DOMAIN bins = 1 .. n /\ \A i \in 1 .. n : bins[i] \in BinsOf(NAxes(bins))
  BY BinsAre
<1>2. \A i \in 1 .. n : bins[i][ax] \in AnyExtents
  BY <1>1, ProperExtent DEF BinsOf
<1>3. /\ \A a \in AnyExtents : ~ExtentLess(a, a)
      /\ \A a, b, c \in AnyExtents : ExtentLess(a, b) /\ ExtentLess(b, c) => ExtentLess(a, c)
      /\ \A a, b \in AnyExtents : a = b \/ ExtentLess(a, b) \/ ExtentLess(b, a)
  BY ExtentsAreOrdered
<1>4. StrictTotal(1 .. n, less)
  <2>1. \A i, j \in 1 .. n :
          <<i, j>> \in less
            <=> ExtentLess(bins[i][ax], bins[j][ax]) \/ (bins[i][ax] = bins[j][ax] /\ i < j)
    BY <1>1
  <2> HIDE DEF less
  <2>2. \A i \in 1 .. n : <<i, i>> \notin less
    BY <1>2, <1>3, <2>1
  <2>3. \A i, j, k \in 1 .. n : <<i, j>> \in less /\ <<j, k>> \in less => <<i, k>> \in less
    <3> TAKE i, j, k \in 1 .. n
    <3> DEFINE a == bins[i][ax]
               b == bins[j][ax]
               c == bins[k][ax]
    <3>1. a \in AnyExtents /\ b \in AnyExtents /\ c \in AnyExtents
      BY <1>2
    <3>2. /\ <<i, j>> \in less <=> ExtentLess(a, b) \/ (a = b /\ i < j)
          /\ <<j, k>> \in less <=> ExtentLess(b, c) \/ (b = c /\ j < k)
          /\ <<i, k>> \in less <=> ExtentLess(a, c) \/ (a = c /\ i < k)
      BY <2>1
    <3>3. i < j /\ j < k => i < k
      BY <1>1
    <3> HIDE DEF a, b, c
    <3>4. QED BY <1>3, <3>1, <3>2, <3>3
  <2>4. \A i, j \in 1 .. n : i = j \/ <<i, j>> \in less \/ <<j, i>> \in less
    <3> TAKE i, j \in 1 .. n
    <3>1. \/ bins[i][ax] = bins[j][ax]
          \/ ExtentLess(bins[i][ax], bins[j][ax]) \/ ExtentLess(bins[j][ax], bins[i][ax])
      BY <1>2, <1>3
    <3>2. i = j \/ i < j \/ j < i
      BY <1>1
    <3>3. QED BY <2>1, <3>1, <3>2
  <2>5. QED BY <2>2, <2>3, <2>4 DEF StrictTotal
<1>5. IsFiniteSet(1 .. n)
  BY <1>1, FS_Interval
<1>6. SortedBinMap(bins, ax) = Ascending(1 .. n, less)
  BY <1>1 DEF SortedBinMap
<1> HIDE DEF less
<1>7. QED BY <1>4, <1>5, <1>6, AscendingLists

(* There is an axis with the most extents. *)
LEMMA LongestAxisExists ==
  ASSUME NEW bins, IsBins(bins)
  PROVE  LongestAxis(bins) \in 1 .. NAxes(bins)
<1> DEFINE n == NAxes(bins)
           count == [ax \in 1 .. n |-> Cardinality(ExtentsAlong(bins, ax))]
<1>1. n \in Nat \ {0} /\ DOMAIN bins = 1 .. Len(bins) /\ Len(bins) \in Nat
  BY BinsAre
<1>2. \A ax \in 1 .. n : Cardinality(ExtentsAlong(bins, ax)) \in Nat
  <2> TAKE ax \in 1 .. n
  <2> DEFINE here == [i \in 1 .. Len(bins) |-> bins[i][ax]]
  <2>1. here \in [1 .. Len(bins) -> ExtentsAlong(bins, ax)]
        /\ ToSet(here) = ExtentsAlong(bins, ax)
    BY <1>1 DEF ExtentsAlong, ToSet
  <2> HIDE DEF here
  <2>2. here \in Seq(ExtentsAlong(bins, ax))
    BY <1>1, <2>1, SeqOfFunction
  <2>3. QED BY <2>1, <2>2, ToSetOfInjective, FS_CardinalityType
<1>3. count \in [1 .. n -> Nat]
  BY <1>2
<1>4. PICK a \in 1 .. n : \A o \in 1 .. n : IF o < a THEN count[o] < count[a] ELSE count[o] <= count[a]
  <2> HIDE DEF count, n
  <2>1. QED BY <1>1, <1>3, FirstLargest
<1>5. \E ax \in 1 .. n : \A other \in 1 .. n :
        LET m == Cardinality(ExtentsAlong(bins, other))
            k == Cardinality(ExtentsAlong(bins, ax))
        IN IF other < ax THEN m < k ELSE m <= k
  BY <1>4
<1>6. QED BY <1>5 DEF LongestAxis

(* Every bin is in a column, and the bins of a column share their extent   *)
(* along the axis: testing the first of them tests all.                    *)
LEMMA ColumnsHold ==
  ASSUME NEW bins, IsBins(bins), NEW ax \in 1 .. NAxes(bins)
  PROVE  LET columns == ColumnsAlong(bins, ax) IN
         /\ columns \in Seq(Seq(1 .. Len(bins)))
         /\ \A c \in DOMAIN columns :
              /\ columns[c] # <<>>
              /\ \A i \in ToSet(columns[c]) : bins[i][ax] = bins[Head(columns[c])][ax]
         /\ \A i \in 1 .. Len(bins) : \E c \in DOMAIN columns : i \in ToSet(columns[c])
<1> DEFINE n == Len(bins)
           S == ExtentsAlong(bins, ax)
           extents == SortedExtents(S)
           map == SortedBinMap(bins, ax)
           Of(c) == {i \in DOMAIN bins : bins[i][ax] = extents[c]}
           columns == ColumnsAlong(bins, ax)
           here == [i \in 1 .. n |-> bins[i][ax]]
<1>1. n \in Nat /\ DOMAIN bins = 1 .. n /\ \A i \in 1 .. n : bins[i] \in BinsOf(NAxes(bins))
  BY BinsAre
<1>2. S \in SUBSET AnyExtents
  BY <1>1, ProperExtent DEF ExtentsAlong, BinsOf
<1>3. IsFiniteSet(S)
  <2>1. here \in [1 .. n -> S] /\ ToSet(here) = S
    BY <1>1 DEF ExtentsAlong, ToSet
  <2> HIDE DEF here, n
  <2>2. here \in Seq(S)
    BY <1>1, <2>1, SeqOfFunction
  <2>3. QED BY <2>1, <2>2, ToSetOfInjective
<1>4. extents \in Seq(S) /\ ToSet(extents) = S
  BY <1>2, <1>3, ExtentsSorted
<1>5. DOMAIN extents = 1 .. Len(extents) /\ Len(extents) \in Nat
  <2> HIDE DEF extents, S
  <2>1. QED BY <1>4, LenProperties
<1>6. map \in Seq(1 .. n) /\ ToSet(map) = 1 .. n
  BY SortedBinMapLists
<1>7. columns = [c \in DOMAIN extents |-> OnlyIn(map, Of(c))]
  BY DEF ColumnsAlong
<1>8. \A c \in DOMAIN extents : columns[c] \in Seq(1 .. n) /\ ToSet(columns[c]) = Of(c)
  <2> TAKE c \in DOMAIN extents
  <2>1. Of(c) \subseteq 1 .. n
    BY <1>1
  <2> HIDE DEF Of, map, n, extents
  <2>2. OnlyIn(map, Of(c)) \in Seq(1 .. n) /\ ToSet(OnlyIn(map, Of(c))) = (1 .. n) \cap Of(c)
    BY <1>6, OnlyInType, OnlyInElements
  <2>3. QED BY <1>7, <2>1, <2>2
<1>9. columns \in Seq(Seq(1 .. n)) /\ DOMAIN columns = 1 .. Len(extents)
  <2> HIDE DEF extents, n
  <2>1. columns \in [1 .. Len(extents) -> Seq(1 .. n)]
    BY <1>5, <1>7, <1>8
  <2>2. QED BY <1>5, <2>1, SeqOfFunction
<1>10. ASSUME NEW c \in DOMAIN columns
       PROVE  /\ columns[c] # <<>>
              /\ \A i \in ToSet(columns[c]) : bins[i][ax] = bins[Head(columns[c])][ax]
  <2>1. c \in DOMAIN extents
    BY <1>5, <1>9
  <2>2. extents[c] \in S
    BY <1>4, <1>5, <2>1, ElementOfSeq
  <2>3. PICK i \in DOMAIN bins : bins[i][ax] = extents[c]
    BY <2>2 DEF ExtentsAlong
  <2>4. i \in ToSet(columns[c]) /\ columns[c] \in Seq(1 .. n) /\ ToSet(columns[c]) = Of(c)
    BY <1>8, <2>1, <2>3
  <2>5. columns[c] # <<>>
    BY <2>4, NoElement
  <2>6. Head(columns[c]) \in ToSet(columns[c])
    BY <2>4, <2>5, HeadTailProperties, LenProperties, EmptySeq DEF ToSet
  <2>7. \A j \in Of(c) : bins[j][ax] = extents[c]
    OBVIOUS
  <2>8. QED BY <2>4, <2>5, <2>6, <2>7
<1>11. ASSUME NEW i \in 1 .. n PROVE \E c \in DOMAIN columns : i \in ToSet(columns[c])
  <2>1. bins[i][ax] \in ToSet(extents)
    BY <1>1, <1>4 DEF ExtentsAlong
  <2>2. PICK c \in DOMAIN extents : extents[c] = bins[i][ax]
    BY <2>1 DEF ToSet
  <2>3. i \in Of(c)
    BY <1>1, <2>2
  <2>4. QED BY <1>5, <1>8, <1>9, <2>2, <2>3
<1>12. QED BY <1>9, <1>10, <1>11

(* The search of from_extents() finds the bin: every column that can hold  *)
(* the point is looked at.                                                 *)
LEMMA ColumnsFind ==
  ASSUME NEW bins, IsBins(bins), NEW x \in NumberPoints(NAxes(bins)), OneHome(bins, x)
  PROVE  CorrectIndex(bins, x, FindInColumns(bins, x))
<1> DEFINE n == Len(bins)
           ax == LongestAxis(bins)
           columns == ColumnsAlong(bins, ax)
           taken == [c \in DOMAIN columns |->
                       IF Holds(bins[Head(columns[c])][ax], x[ax]) THEN columns[c] ELSE <<>>]
<1>1. ax \in 1 .. NAxes(bins)
  BY LongestAxisExists
<1>2. n \in Nat /\ NAxes(bins) \in Nat /\ DOMAIN bins = 1 .. n
      /\ \A i \in 1 .. n : bins[i] \in BinsOf(NAxes(bins))
  BY BinsAre
<1> HIDE DEF ax
<1>3. /\ columns \in Seq(Seq(1 .. n))
      /\ \A c \in DOMAIN columns :
              \A i \in ToSet(columns[c]) : bins[i][ax] = bins[Head(columns[c])][ax]
      /\ \A i \in 1 .. n : \E c \in DOMAIN columns : i \in ToSet(columns[c])
  BY <1>1, ColumnsHold
<1> HIDE DEF columns
<1>4. DOMAIN columns = 1 .. Len(columns) /\ Len(columns) \in Nat
  BY <1>3, LenProperties
<1>5. taken \in Seq(Seq(1 .. n)) /\ DOMAIN taken = DOMAIN columns
  <2>1. \A c \in 1 .. Len(columns) : columns[c] \in Seq(1 .. n) /\ <<>> \in Seq(1 .. n)
    BY <1>3, ElementOfSeq, EmptySeq
  <2>2. taken \in [1 .. Len(columns) -> Seq(1 .. n)]
    BY <1>4, <2>1
  <2> HIDE DEF taken, n
  <2>3. QED BY <1>4, <2>2, SeqOfFunction
<1>6. Searched(bins, x) = FlattenSeq(taken)
  BY DEF Searched, taken, columns, ax
<1>7. Searched(bins, x) \in Seq(1 .. n)
      /\ ToSet(Searched(bins, x)) = UNION {ToSet(s) : s \in ToSet(taken)}
  <2> HIDE DEF taken, n
  <2>1. FlattenSeq(taken) \in Seq(1 .. n)
    <3>1. <<>> \in Seq(1 .. n)
      BY EmptySeq
    <3>2. QED BY <1>5, <3>1, FlattenAppend
  <2>2. QED BY <1>5, <1>6, <2>1, FlattenElements
<1>8. HomesOf(bins, x) \subseteq ToSet(Searched(bins, x))
  <2> SUFFICES ASSUME NEW i \in HomesOf(bins, x) PROVE i \in ToSet(Searched(bins, x))
    OBVIOUS
  <2>1. i \in 1 .. n /\ InBin(bins[i], x)
    BY <1>2 DEF HomesOf
  <2>2. PICK c \in DOMAIN columns : i \in ToSet(columns[c])
    BY <1>3, <2>1
  <2>3. Holds(bins[i][ax], x[ax])
    BY <1>1, <1>2, <2>1 DEF InBin, BinsOf
  <2>4. bins[i][ax] = bins[Head(columns[c])][ax]
    BY <1>3, <2>2
  <2>5. taken[c] = columns[c] /\ taken[c] \in ToSet(taken)
    BY <1>5, <2>3, <2>4 DEF ToSet
  <2>6. QED BY <1>7, <2>2, <2>5
<1> DEFINE hits == OnlyIn(Searched(bins, x), HomesOf(bins, x))
<1>9. hits \in Seq(1 .. n) /\ ToSet(hits) = HomesOf(bins, x)
  <2> DEFINE seq == Searched(bins, x)
             H == HomesOf(bins, x)
  <2>1. seq \in Seq(1 .. n) /\ H \subseteq ToSet(seq)
    BY <1>7, <1>8
  <2> HIDE DEF seq, H, n
  <2>2. OnlyIn(seq, H) \in Seq(1 .. n) /\ ToSet(OnlyIn(seq, H)) = ToSet(seq) \cap H
    BY <2>1, OnlyInType, OnlyInElements
  <2>3. QED BY <2>1, <2>2 DEF seq, H
<1> HIDE DEF hits
<1>10. CorrectIndex(bins, x, FirstOrNpos(hits))
  BY <1>9, FirstHitIsHome DEF n
<1>11. QED BY <1>10 DEF FindInColumns, hits

-----------------------------------------------------------------------------
(* Numbers with digits of different sizes: the weight of a digit is the    *)
(* product of the sizes before it.                                         *)
IsSizes(sizes, n) == n \in Nat /\ \A k \in 1 .. n : sizes[k] \in Nat \ {0}

(* The weights start at one and grow by the sizes. *)
LEMMA WeightsOfDigits ==
  ASSUME NEW n, NEW sizes, IsSizes(sizes, n)
  PROVE  /\ BinsInSlice(sizes, 1) = 1
         /\ \A k \in 1 .. n + 1 : BinsInSlice(sizes, k) \in Nat \ {0}
         /\ \A k \in 1 .. n : BinsInSlice(sizes, k + 1) = BinsInSlice(sizes, k) * sizes[k]
<1>1. n \in Nat /\ \A k \in 1 .. n : sizes[k] \in Nat \ {0}
  BY DEF IsSizes
<1>2. BinsInSlice(sizes, 1) = 1
  <2>1. 1 - 1 = 0
    OBVIOUS
  <2>2. QED BY <2>1, ProductOfNone DEF BinsInSlice
<1>3. ASSUME NEW k \in 1 .. n
      PROVE  BinsInSlice(sizes, k + 1) = BinsInSlice(sizes, k) * sizes[k]
  <2>1. k - 1 \in Nat /\ k - 1 + 1 = k /\ k + 1 - 1 = k
        /\ \A j \in 1 .. k : sizes[j] \in Int
    BY <1>1
  <2> DEFINE m == k - 1
  <2>2. ProductTo(sizes, m + 1) = ProductTo(sizes, m) * sizes[m + 1]
    <3>1. m \in Nat /\ \A j \in 1 .. m + 1 : sizes[j] \in Int
      BY <2>1
    <3> HIDE DEF m
    <3>2. QED BY <3>1, ProductNext
  <2>3. QED BY <2>1, <2>2 DEF BinsInSlice
<1>4. \A k \in 1 .. n + 1 : BinsInSlice(sizes, k) \in Nat \ {0}
  <2> DEFINE S == {k \in 0 .. n : BinsInSlice(sizes, k + 1) \in Nat \ {0}}
  <2>1. 0 \in S
    BY <1>1, <1>2
  <2>2. ASSUME NEW k \in 0 .. n - 1, k \in S PROVE k + 1 \in S
    <3>1. k + 1 \in 1 .. n /\ k + 1 \in 0 .. n
      BY <1>1
    <3> DEFINE w == BinsInSlice(sizes, k + 1)
               s == sizes[k + 1]
    <3>2. w \in Nat \ {0} /\ s \in Nat \ {0} /\ BinsInSlice(sizes, k + 1 + 1) = w * s
      BY <1>1, <1>3, <2>2, <3>1
    <3> HIDE DEF w, s
    <3>3. w * s \in Nat \ {0}
      BY <3>2, ModStep
    <3>4. QED BY <3>1, <3>2, <3>3
  <2> HIDE DEF S
  <2>3. \A k \in 0 .. n : k \in S
    BY <1>1, <2>1, <2>2, BoundedInduction
  <2>4. \A k \in 1 .. n + 1 : k - 1 \in 0 .. n /\ k - 1 + 1 = k
    BY <1>1
  <2>5. \A k \in 1 .. n + 1 : BinsInSlice(sizes, k - 1 + 1) \in Nat \ {0}
    BY <2>3, <2>4 DEF S
  <2>6. QED BY <2>4, <2>5
<1>5. QED BY <1>2, <1>3, <1>4

(* The digit of b at place k, and the number that digits d make. *)
Digit(sizes, b, k) == (b \div BinsInSlice(sizes, k)) % sizes[k]
FromDigits(sizes, d, n) == SumTo([k \in 1 .. n |-> d[k] * BinsInSlice(sizes, k)], n)
IsDigits(sizes, d, n) == \A k \in 1 .. n : d[k] \in 0 .. sizes[k] - 1

(* A number is made of its digits, *)
LEMMA MadeOfDigits ==
  ASSUME NEW n, NEW sizes, IsSizes(sizes, n), NEW b \in 0 .. BinsInSlice(sizes, n + 1) - 1,
         NEW d, \A k \in 1 .. n : d[k] = Digit(sizes, b, k)
  PROVE  IsDigits(sizes, d, n) /\ FromDigits(sizes, d, n) = b
<1> DEFINE W(k) == BinsInSlice(sizes, k)
           t == [k \in 1 .. n |-> d[k] * W(k)]
           S == {k \in 0 .. n : SumTo(t, k) = b % W(k + 1)}
<1>1. n \in Nat /\ \A k \in 1 .. n : sizes[k] \in Nat \ {0}
  BY DEF IsSizes
<1>2. /\ W(1) = 1 /\ \A k \in 1 .. n + 1 : W(k) \in Nat \ {0}
      /\ \A k \in 1 .. n : W(k + 1) = W(k) * sizes[k]
  BY WeightsOfDigits
<1>3. b \in Nat
  <2>1. W(n + 1) \in Nat
    BY <1>1, <1>2
  <2>2. QED BY <2>1
<1> HIDE DEF W
<1>4. \A k \in 1 .. n : d[k] = (b \div W(k)) % sizes[k]
  BY DEF Digit, W
<1>5. \A k \in 1 .. n : d[k] \in 0 .. sizes[k] - 1
  <2> TAKE k \in 1 .. n
  <2> DEFINE q == b \div W(k)
             s == sizes[k]
  <2>1. q \in Int /\ s \in Nat \ {0}
    <3> DEFINE w == W(k)
    <3>1. w \in Nat \ {0} /\ s \in Nat \ {0}
      BY <1>1, <1>2
    <3> HIDE DEF w
    <3>2. b \div w \in Int
      BY <1>3, <3>1, DivMod
    <3>3. QED BY <3>1, <3>2 DEF w
  <2>2. d[k] = q % s
    BY <1>4
  <2> HIDE DEF q, s
  <2>3. q % s \in 0 .. s - 1
    BY <2>1, DivMod
  <2>4. QED BY <2>2, <2>3 DEF s
<1>6. \A k \in 1 .. n : t[k] \in Int /\ t[k] = d[k] * W(k)
  <2> TAKE k \in 1 .. n
  <2>1. d[k] \in Int /\ W(k) \in Int
    BY <1>1, <1>2, <1>5
  <2>2. QED BY <2>1
<1> HIDE DEF t
<1>7. 0 \in S
  <2>1. b % 1 = 0
    BY <1>3
  <2>2. QED BY <1>1, <1>2, <2>1, SumOfNone
<1>8. ASSUME NEW k \in 0 .. n - 1, k \in S PROVE k + 1 \in S
  <2> DEFINE m == k + 1
             w == W(m)
             s == sizes[m]
  <2>1. m \in 1 .. n /\ k \in Nat /\ m \in 0 .. n
    BY <1>1
  <2>2. SumTo(t, k + 1) = SumTo(t, k) + t[k + 1]
    <3>1. \A j \in 1 .. k + 1 : j \in 1 .. n
      BY <1>1, <2>1
    <3>2. \A j \in 1 .. k + 1 : t[j] \in Int
      BY <1>6, <3>1
    <3>3. QED BY <2>1, <3>2, SumNext
  <2>3. SumTo(t, k) = b % w
    BY <1>8
  <2>4. w \in Nat \ {0} /\ s \in Nat \ {0} /\ W(m + 1) = w * s
    BY <1>1, <1>2, <2>1
  <2>5. t[m] = ((b \div w) % s) * w
    BY <1>4, <1>6, <2>1
  <2> HIDE DEF w, s
  <2>6. b % (w * s) = (b % w) + (((b \div w) % s) * w)
    BY <1>3, <2>4, ModStep
  <2>7. SumTo(t, m) = b % W(m + 1)
    BY <2>2, <2>3, <2>4, <2>5, <2>6
  <2>8. QED BY <2>1, <2>7
<1> HIDE DEF S
<1>9. n \in S
  <2>1. \A k \in 0 .. n : k \in S
    BY <1>1, <1>7, <1>8, BoundedInduction
  <2>2. QED BY <1>1, <2>1
<1>10. SumTo(t, n) = b % W(n + 1)
  BY <1>9 DEF S
<1>11. b % W(n + 1) = b
  <2> DEFINE c == W(n + 1)
  <2>1. c \in Nat \ {0} /\ b \in 0 .. c - 1
    BY <1>1, <1>2 DEF W
  <2> HIDE DEF c
  <2>2. b = c * 0 + b
    BY <1>3, <2>1
  <2>3. b % c = b
    BY <1>3, <2>1, <2>2, DivModUnique
  <2>4. QED BY <2>3 DEF c
<1>12. QED BY <1>5, <1>10, <1>11 DEF IsDigits, FromDigits, t, W

(* and what digits make is a number with these digits. *)
LEMMA HasItsDigits ==
  ASSUME NEW n, NEW sizes, IsSizes(sizes, n), NEW d, IsDigits(sizes, d, n)
  PROVE  /\ FromDigits(sizes, d, n) \in 0 .. BinsInSlice(sizes, n + 1) - 1
         /\ \A k \in 1 .. n : Digit(sizes, FromDigits(sizes, d, n), k) = d[k]
<1> DEFINE W(k) == BinsInSlice(sizes, k)
           t == [k \in 1 .. n |-> d[k] * W(k)]
<1>1. n \in Nat /\ \A k \in 1 .. n : sizes[k] \in Nat \ {0}
  BY DEF IsSizes
<1>2. /\ W(1) = 1 /\ \A k \in 1 .. n + 1 : W(k) \in Nat \ {0}
      /\ \A k \in 1 .. n : W(k + 1) = W(k) * sizes[k]
  BY WeightsOfDigits
<1> HIDE DEF W
<1>3. \A k \in 1 .. n : d[k] \in 0 .. sizes[k] - 1 /\ d[k] \in Int
  BY DEF IsDigits
<1>4. \A k \in 1 .. n : t[k] \in Int /\ t[k] = d[k] * W(k)
  <2> TAKE k \in 1 .. n
  <2>1. d[k] \in Int /\ W(k) \in Int
    BY <1>1, <1>2, <1>3
  <2>2. QED BY <2>1
<1> HIDE DEF t
<1>5. \A k \in 0 .. n - 1 : SumTo(t, k) \in Int /\ SumTo(t, k + 1) = SumTo(t, k) + t[k + 1]
  <2> TAKE k \in 0 .. n - 1
  <2>1. k \in Nat /\ \A j \in 1 .. k + 1 : t[j] \in Int
    BY <1>1, <1>4
  <2>2. QED BY <2>1, SumNext
<1>6. \A k \in 0 .. n : SumTo(t, k) \in 0 .. W(k + 1) - 1
  <2> DEFINE S == {k \in 0 .. n : SumTo(t, k) \in 0 .. W(k + 1) - 1}
  <2>1. 0 \in S
    BY <1>1, <1>2, SumOfNone
  <2>2. ASSUME NEW k \in 0 .. n - 1, k \in S PROVE k + 1 \in S
    <3> DEFINE m == k + 1
               w == W(m)
               s == sizes[m]
               e == d[m]
               u == SumTo(t, k)
    <3>1. m \in 1 .. n /\ m \in 0 .. n /\ m \in 1 .. n + 1
      BY <1>1
    <3>2. w \in Nat \ {0} /\ s \in Nat \ {0} /\ W(m + 1) = w * s /\ e \in 0 .. s - 1 /\ t[m] = e * w
      BY <1>1, <1>2, <1>3, <1>4, <3>1
    <3>3. SumTo(t, m) = u + e * w /\ u \in 0 .. w - 1
      BY <1>5, <2>2, <3>2
    <3> HIDE DEF w, s, e, u
    <3>4. w * 0 <= w * e /\ w * e <= w * (s - 1) /\ w * e \in Int /\ w * (s - 1) \in Int
      BY <3>2, TimesLarger
    <3>5. w * 0 = 0 /\ w * (s - 1) = w * s - w /\ w * e = e * w /\ w * s \in Int
      BY <3>2
    <3>6. u + e * w \in 0 .. w * s - 1
      BY <3>2, <3>3, <3>4, <3>5
    <3>7. QED BY <3>1, <3>2, <3>3, <3>6
  <2> HIDE DEF S
  <2>3. \A k \in 0 .. n : k \in S
    BY <1>1, <2>1, <2>2, BoundedInduction
  <2>4. QED BY <2>3 DEF S
<1>7. ASSUME NEW a \in 1 .. n PROVE (SumTo(t, n) \div W(a)) % sizes[a] = d[a]
  <2> DEFINE c == W(a + 1)
             P(k, M, V) == SumTo(t, k) = SumTo(t, a) + c * M /\ W(k + 1) = c * V
             S == {k \in 0 .. n : k >= a => \E M, V \in Nat : P(k, M, V)}
  <2>1. a \in 0 .. n /\ a - 1 \in 0 .. n - 1 /\ a \in 1 .. n + 1 /\ a + 1 \in 1 .. n + 1
        /\ a - 1 + 1 = a /\ a \in Nat /\ a >= 1
    BY <1>1
  <2>2. c \in Nat \ {0} /\ SumTo(t, a) \in Int
    BY <1>2, <1>6, <2>1
  <2> HIDE DEF c
  <2>3. 0 \in S
    BY <1>1, <2>1
  <2>4. ASSUME NEW k \in 0 .. n - 1, k \in S PROVE k + 1 \in S
    <3>1. k + 1 \in 0 .. n /\ k + 1 \in 1 .. n /\ k \in Nat
      BY <1>1
    <3>2. CASE k + 1 = a
      <4>1. P(a, 0, 1)
        <5>1. c * 0 = 0 /\ c * 1 = c
          BY <2>2
        <5>2. QED BY <2>2, <5>1 DEF c
      <4>2. \E M, V \in Nat : P(a, M, V)
        BY <4>1
      <4>3. QED BY <3>1, <3>2, <4>2
    <3>3. CASE k + 1 < a
      BY <2>1, <3>1, <3>3
    <3>4. CASE k >= a
      <4>1. PICK M, V \in Nat : P(k, M, V)
        BY <2>4, <3>4
      <4> DEFINE m == k + 1
                 s == sizes[m]
                 e == d[m]
                 x0 == SumTo(t, a)
      <4>2. s \in Nat \ {0} /\ e \in 0 .. s - 1 /\ e \in Nat /\ t[m] = e * W(m) /\ W(m + 1) = W(m) * s
        BY <1>1, <1>2, <1>3, <1>4, <3>1
      <4>3. SumTo(t, m) = SumTo(t, k) + e * W(m) /\ SumTo(t, k) = x0 + c * M /\ W(m) = c * V
        BY <1>5, <4>1, <4>2
      <4> HIDE DEF s, e, x0
      <4>4. e * (c * V) = c * (e * V) /\ (c * V) * s = c * (V * s)
        BY <2>2, <4>2
      <4>5. e * V \in Nat /\ V * s \in Nat
        <5>1. \A i, j \in Nat : i * j \in Nat
          OBVIOUS
        <5>2. QED BY <4>2, <5>1
      <4>6. c * M + c * (e * V) = c * (M + e * V)
        <5> DEFINE y == e * V
        <5>1. y \in Nat
          BY <4>5
        <5> HIDE DEF y
        <5>2. c * M + c * y = c * (M + y)
          BY <2>2, <5>1
        <5>3. QED BY <5>2 DEF y
      <4>7. SumTo(t, m) = x0 + c * (M + e * V)
        <5>1. SumTo(t, m) = x0 + c * M + c * (e * V)
          BY <4>3, <4>4
        <5>2. x0 \in Int /\ c * M \in Int /\ c * (e * V) \in Int
          BY <2>2, <4>5 DEF x0
        <5> HIDE DEF m
        <5>3. QED BY <4>6, <5>1, <5>2
      <4>8. M + e * V \in Nat /\ P(m, M + e * V, V * s)
        BY <4>2, <4>3, <4>4, <4>5, <4>7 DEF x0
      <4>9. \E M1, V1 \in Nat : P(m, M1, V1)
        BY <4>5, <4>8
      <4>10. QED BY <3>1, <4>9
    <3>5. QED BY <2>1, <3>1, <3>2, <3>3, <3>4
  <2>5. n \in S
    <3> HIDE DEF S
    <3>1. \A k \in 0 .. n : k \in S
      BY <1>1, <2>3, <2>4, BoundedInduction
    <3>2. QED BY <1>1, <3>1
  <2>6. PICK M, V \in Nat : P(n, M, V)
    BY <1>1, <2>1, <2>5
  <2> DEFINE w == W(a)
             s == sizes[a]
             e == d[a]
             u == SumTo(t, a - 1)
             whole == SumTo(t, n)
  <2>7. w \in Nat \ {0} /\ s \in Nat \ {0} /\ c = w * s /\ e \in 0 .. s - 1 /\ e \in Int
        /\ t[a] = e * w /\ u \in 0 .. w - 1
    <3> DEFINE k == a - 1
    <3>0. k \in 0 .. n
      BY <1>1
    <3>1. SumTo(t, a - 1) \in 0 .. W(a - 1 + 1) - 1
      <4> HIDE DEF k
      <4>1. SumTo(t, k) \in 0 .. W(k + 1) - 1
        BY <1>6, <3>0
      <4>2. QED BY <4>1 DEF k
    <3>2. QED BY <1>1, <1>2, <1>3, <1>4, <2>1, <3>1 DEF c
  <2>8. SumTo(t, a) = u + e * w
    <3>1. SumTo(t, a - 1 + 1) = SumTo(t, a - 1) + t[a - 1 + 1]
      BY <1>5, <2>1
    <3>2. QED BY <2>1, <2>7, <3>1
  <2>9. whole = u + e * w + c * M
    BY <2>6, <2>8
  <2> HIDE DEF w, s, e, u, whole
  <2>10. whole = w * (e + s * M) + u
    <3>1. (w * s) * M = w * (s * M) /\ s * M \in Int /\ e * w = w * e
      BY <2>7
    <3>2. w * (e + s * M) = w * e + w * (s * M)
      <4> DEFINE y == s * M
      <4>1. y \in Int
        BY <3>1
      <4> HIDE DEF y
      <4>2. w * (e + y) = w * e + w * y
        BY <2>7, <4>1
      <4>3. QED BY <4>2 DEF y
    <3>3. w * e \in Int /\ w * (s * M) \in Int /\ u \in Int
      BY <2>7, <3>1
    <3>4. whole = u + w * e + w * (s * M)
      BY <2>7, <2>9, <3>1
    <3>5. QED BY <3>2, <3>3, <3>4
  <2>11. e + s * M \in Int /\ whole \in Int
    <3>1. s * M \in Int /\ e + s * M \in Int
      BY <2>7
    <3>2. QED BY <2>7, <2>10, <3>1
  <2>12. whole \div w = e + s * M
    BY <2>7, <2>10, <2>11, DivModUnique
  <2>13. (e + s * M) % s = e
    <3>1. e + s * M = s * M + e
      BY <2>7
    <3>2. QED BY <2>7, <2>11, <3>1, DivModUnique
  <2>14. QED BY <2>12, <2>13 DEF whole, w, s, e
<1>8. SumTo(t, n) = FromDigits(sizes, d, n)
  BY DEF FromDigits, t, W
<1>9. SumTo(t, n) \in 0 .. W(n + 1) - 1
  BY <1>1, <1>6
<1>10. QED BY <1>7, <1>8, <1>9 DEF W, Digit

(* Bins that are numbered by digits, of which each is right or not for a   *)
(* point on its own: Q has the pairs of a digit's place and a right value. *)
DigitsDecide(bins, x, sizes, n, Q, got) ==
  /\ IsSizes(sizes, n)
  /\ DOMAIN bins = 1 .. BinsInSlice(sizes, n + 1)
  /\ \A b \in DOMAIN bins :
       InBin(bins[b], x) <=> \A k \in 1 .. n : <<k, Digit(sizes, b - 1, k)>> \in Q
  /\ \A k \in 1 .. n :
       \/ got[k] = npos /\ \A j \in 0 .. sizes[k] - 1 : <<k, j>> \notin Q
       \/ /\ got[k] \in 0 .. sizes[k] - 1
          /\ \A j \in 0 .. sizes[k] - 1 : <<k, j>> \in Q <=> j = got[k]

(* Then the right digits make the index of the bin, and a place without a  *)
(* right digit means that there is none.                                   *)
LEMMA FoundByDigits ==
  ASSUME NEW bins, NEW x, NEW sizes, NEW n, NEW Q, NEW got,
         DigitsDecide(bins, x, sizes, n, Q, got)
  PROVE  CorrectIndex(bins, x, IF \E k \in 1 .. n : got[k] = npos THEN npos
                               ELSE FromDigits(sizes, got, n))
<1> DEFINE N == BinsInSlice(sizes, n + 1)
           digits(b) == [k \in 1 .. n |-> Digit(sizes, b, k)]
           all == FromDigits(sizes, got, n)
<1>1. /\ IsSizes(sizes, n)
      /\ DOMAIN bins = 1 .. N
      /\ \A b \in 1 .. N :
           InBin(bins[b], x) <=> \A k \in 1 .. n : <<k, Digit(sizes, b - 1, k)>> \in Q
      /\ \A k \in 1 .. n :
           \/ got[k] = npos /\ \A j \in 0 .. sizes[k] - 1 : <<k, j>> \notin Q
           \/ /\ got[k] \in 0 .. sizes[k] - 1
              /\ \A j \in 0 .. sizes[k] - 1 : <<k, j>> \in Q <=> j = got[k]
  BY DEF DigitsDecide
<1>2. n \in Nat /\ (\A k \in 1 .. n : sizes[k] \in Nat \ {0}) /\ N \in Nat \ {0}
  <2>1. n \in Nat /\ \A k \in 1 .. n : sizes[k] \in Nat \ {0}
    BY <1>1 DEF IsSizes
  <2>2. n + 1 \in 1 .. n + 1
    BY <2>1
  <2>3. QED BY <1>1, <2>1, <2>2, WeightsOfDigits
<1>3. \A b \in 0 .. N - 1 : /\ \A k \in 1 .. n : Digit(sizes, b, k) \in 0 .. sizes[k] - 1
                            /\ FromDigits(sizes, digits(b), n) = b
  <2> TAKE b \in 0 .. N - 1
  <2> DEFINE d == digits(b)
  <2>1. \A k \in 1 .. n : d[k] = Digit(sizes, b, k)
    OBVIOUS
  <2> HIDE DEF d
  <2>2. IsDigits(sizes, d, n) /\ FromDigits(sizes, d, n) = b
    BY <1>1, <2>1, MadeOfDigits
  <2>3. QED BY <2>1, <2>2 DEF IsDigits, d
<1> HIDE DEF N
<1>4. \A b \in 1 .. N : b - 1 \in 0 .. N - 1
  BY <1>2
<1>5. CASE \E k \in 1 .. n : got[k] = npos
  <2>1. PICK k \in 1 .. n : got[k] = npos
    BY <1>5
  <2>2. npos \notin 0 .. sizes[k] - 1
    BY <1>2 DEF npos
  <2>3. \A j \in 0 .. sizes[k] - 1 : <<k, j>> \notin Q
    BY <1>1, <2>1, <2>2
  <2>4. \A b \in 1 .. N : ~InBin(bins[b], x)
    BY <1>1, <1>3, <1>4, <2>3
  <2>5. HomesOf(bins, x) = {}
    BY <1>1, <2>4 DEF HomesOf
  <2>6. QED BY <1>5, <2>5 DEF CorrectIndex, npos
<1>6. CASE ~ \E k \in 1 .. n : got[k] = npos
  <2>1. \A k \in 1 .. n : /\ got[k] \in 0 .. sizes[k] - 1
                          /\ \A j \in 0 .. sizes[k] - 1 : <<k, j>> \in Q <=> j = got[k]
    BY <1>1, <1>6
  <2>2. all \in 0 .. N - 1 /\ \A k \in 1 .. n : Digit(sizes, all, k) = got[k]
    <3>1. IsDigits(sizes, got, n)
      BY <2>1 DEF IsDigits
    <3>2. QED BY <1>1, <3>1, HasItsDigits DEF N
  <2> HIDE DEF all
  <2>3. all + 1 \in 1 .. N /\ all + 1 - 1 = all /\ all # npos
    BY <1>2, <2>2 DEF npos
  <2>4. InBin(bins[all + 1], x)
    BY <1>1, <2>1, <2>2, <2>3
  <2>5. ASSUME NEW b \in 1 .. N, InBin(bins[b], x) PROVE b = all + 1
    <3>1. \A k \in 1 .. n : Digit(sizes, b - 1, k) = got[k]
      BY <1>1, <1>3, <1>4, <2>1, <2>5
    <3>2. digits(b - 1) = digits(all)
      BY <2>2, <3>1
    <3>3. b - 1 = all
      <4> HIDE DEF digits
      <4>1. QED BY <1>3, <1>4, <2>2, <3>2
    <3>4. QED BY <1>2, <3>3
  <2>6. HomesOf(bins, x) = {all + 1}
    BY <1>1, <2>3, <2>4, <2>5 DEF HomesOf
  <2>7. all \in Int
    BY <2>2
  <2>8. QED BY <1>6, <2>3, <2>6, <2>7 DEF CorrectIndex, all
<1>7. QED BY <1>5, <1>6

-----------------------------------------------------------------------------
(* lin_spaceND(). *)

(* An axis of lin_spaceND() starts at a number, and its bins fill it. *)
LEMMA AxisIs ==
  ASSUME NEW a \in RegularAxes
  PROVE  /\ a.start \in Int /\ a.stop \in Int /\ a.nbins \in Nat \ {0}
         /\ AxisWidth(a) \in Nat \ {0}
         /\ a.start + a.nbins * AxisWidth(a) = a.stop
         /\ NaN \notin a.start .. a.stop
<1> DEFINE n == a.nbins
           len == a.stop - a.start
           w == AxisWidth(a)
<1>1. /\ a.start \in Int /\ a.stop \in Int /\ n \in Nat \ {0}
      /\ len \in Nat \ {0} /\ len % n = 0 /\ NaN \notin a.start .. a.stop
  BY DEF RegularAxes
<1>2. w = len \div n
  BY DEF AxisWidth
<1>3. a.stop = a.start + len
  BY <1>1
<1> HIDE DEF n, len, w
<1>4. w \in Int /\ len = (n * w) + 0
  BY <1>1, <1>2, DivMod
<1>5. n * w = len
  BY <1>1, <1>4
<1>6. w > 0
  <2>1. SUFFICES ASSUME w <= 0 PROVE FALSE
    BY <1>4
  <2>2. n * w <= n * 0 /\ n * 0 \in Int
    BY <1>1, <1>4, <2>1, TimesLarger
  <2>3. n * 0 = 0
    BY <1>1
  <2>4. QED BY <1>1, <1>5, <2>2, <2>3
<1>7. QED BY <1>1, <1>3, <1>4, <1>5, <1>6 DEF n, w

(* The bins of an axis, and the one of a value. *)
LEMMA PlaceOnAxis ==
  ASSUME NEW a \in RegularAxes
  PROVE  /\ \A j \in 0 .. a.nbins - 1 :
              Extent(a.start + j * AxisWidth(a), a.start + (j + 1) * AxisWidth(a)) \in ProperExtents
         /\ \A v \in Numbers :
              IF v >= a.stop \/ v < a.start
              THEN \A j \in 0 .. a.nbins - 1 :
                     ~(a.start + j * AxisWidth(a) <= v /\ v < a.start + (j + 1) * AxisWidth(a))
              ELSE /\ (v - a.start) \div AxisWidth(a) \in 0 .. a.nbins - 1
                   /\ \A j \in 0 .. a.nbins - 1 :
                        (a.start + j * AxisWidth(a) <= v /\ v < a.start + (j + 1) * AxisWidth(a))
                          <=> j = (v - a.start) \div AxisWidth(a)
<1> DEFINE n == a.nbins
           w == AxisWidth(a)
           s == a.start
           e == a.stop
<1>1. s \in Int /\ e \in Int /\ n \in Nat \ {0} /\ w \in Nat \ {0} /\ s + n * w = e /\ NaN \notin s .. e
  BY AxisIs
<1> HIDE DEF n, w, s, e
<1>2. ASSUME NEW j \in 0 .. n - 1
      PROVE  /\ j * w \in Int /\ (j + 1) * w \in Int /\ n * w \in Int
             /\ 0 <= j * w /\ j * w < (j + 1) * w /\ (j + 1) * w <= n * w
  <2>1. w * 0 <= w * j /\ w * (j + 1) <= w * n /\ w * j \in Int /\ w * (j + 1) \in Int /\ w * n \in Int
    BY <1>1, TimesLarger
  <2>2. w * 0 = 0 /\ w * j = j * w /\ w * n = n * w /\ w * (j + 1) = (j + 1) * w
        /\ (j + 1) * w = j * w + w
    BY <1>1
  <2>3. QED BY <1>1, <2>1, <2>2
<1>3. ASSUME NEW j \in 0 .. n - 1
      PROVE  /\ s + j * w \in s .. e /\ s + (j + 1) * w \in s .. e /\ s + j * w < s + (j + 1) * w
             /\ Extent(s + j * w, s + (j + 1) * w) \in ProperExtents
  <2> DEFINE l == s + j * w
             h == s + (j + 1) * w
  <2>1. l \in s .. e /\ h \in s .. e /\ l < h
    BY <1>1, <1>2
  <2> HIDE DEF l, h
  <2>2. l \in Int \ {NaN} /\ h \in Int
    BY <1>1, <2>1
  <2>3. Extent(l, h) \in ProperExtents
    BY <2>1, <2>2 DEF Extent, ProperExtents
  <2>4. QED BY <2>1, <2>3 DEF l, h
<1>4. ASSUME NEW v \in Int, v >= e \/ v < s, NEW j \in 0 .. n - 1
      PROVE  ~(s + j * w <= v /\ v < s + (j + 1) * w)
  BY <1>1, <1>3, <1>4
<1>5. ASSUME NEW v \in Int, v < e, v >= s
      PROVE  /\ (v - s) \div w \in 0 .. n - 1
             /\ \A j \in 0 .. n - 1 : (s + j * w <= v /\ v < s + (j + 1) * w) <=> j = (v - s) \div w
  <2> DEFINE u == v - s
             q == u \div w
             r == u % w
  <2>1. u \in Int /\ u >= 0 /\ u < n * w /\ n * w \in Int
    BY <1>1, <1>5
  <2> HIDE DEF u
  <2>2. q \in Int /\ r \in 0 .. w - 1 /\ u = (w * q) + r
    BY <1>1, <2>1, DivMod
  <2> HIDE DEF q, r
  <2>3. q >= 0
    <3>1. SUFFICES ASSUME q <= -1 PROVE FALSE
      BY <2>2
    <3>2. w * q <= w * (-1) /\ w * q \in Int /\ w * (-1) \in Int
      BY <1>1, <2>2, <3>1, TimesLarger
    <3>3. w * (-1) = 0 - w
      BY <1>1
    <3>4. QED BY <1>1, <2>1, <2>2, <3>2, <3>3
  <2>4. q < n
    <3>1. SUFFICES ASSUME n <= q PROVE FALSE
      BY <1>1, <2>2
    <3>2. w * n <= w * q /\ w * q \in Int /\ w * n \in Int
      BY <1>1, <2>2, <3>1, TimesLarger
    <3>3. w * n = n * w
      BY <1>1
    <3>4. QED BY <1>1, <2>1, <2>2, <3>2, <3>3
  <2>5. ASSUME NEW j \in 0 .. n - 1
        PROVE  (s + j * w <= v /\ v < s + (j + 1) * w) <=> j = q
    <3>1. j * w \in Int /\ (j + 1) * w = j * w + w /\ w * j = j * w
      BY <1>1
    <3>2. v = s + u
      BY <1>1, <1>5 DEF u
    <3>3. (s + j * w <= v /\ v < s + (j + 1) * w) <=> (u - j * w \in 0 .. w - 1)
      BY <1>1, <2>1, <3>1, <3>2
    <3>4. CASE j = q
      BY <1>1, <2>1, <2>2, <3>1, <3>3, <3>4
    <3>5. CASE u - j * w \in 0 .. w - 1
      <4> DEFINE t == u - j * w
      <4>1. u = (w * j) + t /\ t \in 0 .. w - 1
        BY <2>1, <3>1, <3>5
      <4> HIDE DEF t
      <4>2. u \div w = j
        BY <1>1, <2>1, <4>1, DivModUnique
      <4>3. QED BY <3>3, <3>5, <4>2 DEF q
    <3>6. QED BY <3>3, <3>4, <3>5
  <2>6. QED BY <1>1, <2>2, <2>3, <2>4, <2>5 DEF q, u
<1>6. \A v \in Numbers : v \in Int
  BY DEF Numbers
<1>7. \A v \in Numbers :
        IF v >= e \/ v < s
        THEN \A j \in 0 .. n - 1 : ~(s + j * w <= v /\ v < s + (j + 1) * w)
        ELSE /\ (v - s) \div w \in 0 .. n - 1
             /\ \A j \in 0 .. n - 1 : (s + j * w <= v /\ v < s + (j + 1) * w) <=> j = (v - s) \div w
  <2> TAKE v \in Numbers
  <2>1. v \in Int
    BY <1>6
  <2>2. CASE v >= e \/ v < s
    BY <1>4, <2>1, <2>2
  <2>3. CASE ~(v >= e \/ v < s)
    <3>1. v < e /\ v >= s
      BY <1>1, <2>1, <2>3
    <3>2. /\ (v - s) \div w \in 0 .. n - 1
          /\ \A j \in 0 .. n - 1 : (s + j * w <= v /\ v < s + (j + 1) * w) <=> j = (v - s) \div w
      BY <1>5, <2>1, <3>1
    <3>3. QED BY <2>3, <3>2
  <2>4. QED BY <2>2, <2>3
<1>8. \A j \in 0 .. n - 1 : Extent(s + j * w, s + (j + 1) * w) \in ProperExtents
  BY <1>3
<1>9. QED BY <1>7, <1>8 DEF n, w, s, e

(* The index of a bin has digits in range. *)
LEMMA DigitsOfIndex ==
  ASSUME NEW n, NEW sizes, IsSizes(sizes, n)
  PROVE  /\ BinsInSlice(sizes, n + 1) \in Nat \ {0}
         /\ \A b \in 1 .. BinsInSlice(sizes, n + 1), k \in 1 .. n :
              Digit(sizes, b - 1, k) \in 0 .. sizes[k] - 1
<1> DEFINE N == BinsInSlice(sizes, n + 1)
<1>1. N \in Nat \ {0}
  <2>1. n + 1 \in 1 .. n + 1
    BY DEF IsSizes
  <2>2. QED BY <2>1, WeightsOfDigits
<1>2. ASSUME NEW b \in 1 .. N, NEW k \in 1 .. n
      PROVE  Digit(sizes, b - 1, k) \in 0 .. sizes[k] - 1
  <2> DEFINE c == b - 1
             d == [j \in 1 .. n |-> Digit(sizes, c, j)]
  <2>1. c \in 0 .. N - 1
    BY <1>1
  <2>2. \A j \in 1 .. n : d[j] = Digit(sizes, c, j)
    OBVIOUS
  <2> HIDE DEF c, d
  <2>3. IsDigits(sizes, d, n)
    BY <2>1, <2>2, MadeOfDigits
  <2>4. QED BY <2>2, <2>3 DEF IsDigits, c
<1>3. QED BY <1>1, <1>2

(* The bins of lin_spaceND() are found. *)
LEMMA LinSpaceFinds ==
  ASSUME NEW axes \in Seq(RegularAxes), axes # <<>>
  PROVE  /\ IsBins(LinSpaceND(axes).bins)
         /\ NAxes(LinSpaceND(axes).bins) = Len(axes)
         /\ \A x \in NumberPoints(Len(axes)) :
              CorrectIndex(LinSpaceND(axes).bins, x, FindInLinSpace(axes, x))
<1> DEFINE n == Len(axes)
           sizes == [a \in DOMAIN axes |-> axes[a].nbins]
           N == BinsInSlice(sizes, n + 1)
           low(j, a) == axes[a].start + j * AxisWidth(axes[a])
           ext(b, a) == Extent(low(Digit(sizes, b - 1, a), a), low(Digit(sizes, b - 1, a) + 1, a))
           bins == [b \in 1 .. N |-> [a \in 1 .. n |-> ext(b, a)]]
           Holder(j, a, v) == low(j, a) <= v /\ v < low(j + 1, a)
           dim(a, x) == (x[a] - axes[a].start) \div AxisWidth(axes[a])
           out(a, x) == x[a] >= axes[a].stop \/ x[a] < axes[a].start
<1>1. n \in Nat \ {0} /\ DOMAIN axes = 1 .. n /\ \A a \in 1 .. n : axes[a] \in RegularAxes
  BY LenProperties, ElementOfSeq, EmptySeq
<1>2. \A a \in 1 .. n : sizes[a] = axes[a].nbins /\ sizes[a] \in Nat \ {0}
  BY <1>1, AxisIs
<1>3. LinSpaceND(axes).bins = bins
  BY <1>1 DEF LinSpaceND, Digit
<1>4. IsSizes(sizes, n)
  BY <1>1, <1>2 DEF IsSizes
<1> HIDE DEF sizes, n
<1>5. /\ N \in Nat \ {0}
      /\ \A b \in 1 .. N, k \in 1 .. n : Digit(sizes, b - 1, k) \in 0 .. sizes[k] - 1
  BY <1>4, DigitsOfIndex
<1>6. ASSUME NEW a \in 1 .. n
      PROVE  /\ \A j \in 0 .. sizes[a] - 1 : Extent(low(j, a), low(j + 1, a)) \in ProperExtents
             /\ \A v \in Numbers :
                  IF v >= axes[a].stop \/ v < axes[a].start
                  THEN \A j \in 0 .. sizes[a] - 1 : ~Holder(j, a, v)
                  ELSE /\ (v - axes[a].start) \div AxisWidth(axes[a]) \in 0 .. sizes[a] - 1
                       /\ \A j \in 0 .. sizes[a] - 1 :
                            Holder(j, a, v) <=> j = (v - axes[a].start) \div AxisWidth(axes[a])
  BY <1>1, <1>2, PlaceOnAxis
<1> HIDE DEF low, N
<1>7. \A b \in 1 .. N, a \in 1 .. n :
        /\ ext(b, a) \in ProperExtents
        /\ ext(b, a).low = low(Digit(sizes, b - 1, a), a)
        /\ ext(b, a).high = low(Digit(sizes, b - 1, a) + 1, a)
  BY <1>5, <1>6 DEF Extent
<1> HIDE DEF ext
<1>8. \A b \in 1 .. N : bins[b] \in BinsOf(n) /\ bins[b] = [a \in 1 .. n |-> ext(b, a)]
  BY <1>7 DEF BinsOf
<1>9. bins \in Seq(BinsOf(n)) /\ Len(bins) = N /\ DOMAIN bins = 1 .. N /\ bins # <<>>
  <2>1. bins \in [1 .. N -> BinsOf(n)] /\ DOMAIN bins = 1 .. N
    BY <1>8
  <2> HIDE DEF bins
  <2>2. QED BY <1>5, <2>1, SeqOfFunction
<1> HIDE DEF bins
<1>10. IsBins(bins) /\ NAxes(bins) = n
  BY <1>1, <1>9, AreBins
<1>11. ASSUME NEW x \in NumberPoints(n) PROVE CorrectIndex(bins, x, FindInLinSpace(axes, x))
  <2> DEFINE Q == {p \in (1 .. n) \X Int : Holder(p[2], p[1], x[p[1]])}
             dims == [a \in 1 .. n |-> dim(a, x)]
             got == [a \in 1 .. n |-> IF out(a, x) THEN npos ELSE dim(a, x)]
  <2>1. \A a \in 1 .. n : x[a] \in Numbers /\ Normal(x[a])
    BY DEF NumberPoints, Numbers, Normal
  <2>2. \A a \in 1 .. n, j \in Int : <<a, j>> \in Q <=> Holder(j, a, x[a])
    OBVIOUS
  <2> HIDE DEF Holder, Q
  <2>3. ASSUME NEW b \in 1 .. N
        PROVE  InBin(bins[b], x) <=> \A k \in 1 .. n : <<k, Digit(sizes, b - 1, k)>> \in Q
    <3>1. InBin(bins[b], x) <=> \A a \in 1 .. n : ext(b, a).low <= x[a] /\ x[a] < ext(b, a).high
      <4> DEFINE bin == bins[b]
      <4>1. bin \in BinsOf(n) /\ \A a \in 1 .. n : bin[a] = ext(b, a)
        BY <1>8
      <4> HIDE DEF bin
      <4>2. InBin(bin, x) <=> \A a \in 1 .. n : bin[a].low <= x[a] /\ x[a] < bin[a].high
        BY <1>1, <4>1, InBinMeans
      <4>3. QED BY <4>1, <4>2 DEF bin
    <3>2. \A k \in 1 .. n : Digit(sizes, b - 1, k) \in Int
      BY <1>2, <1>5
    <3>3. QED BY <1>7, <2>2, <3>1, <3>2 DEF Holder
  <2>4. ASSUME NEW k \in 1 .. n
        PROVE  \/ got[k] = npos /\ \A j \in 0 .. sizes[k] - 1 : <<k, j>> \notin Q
               \/ /\ got[k] \in 0 .. sizes[k] - 1
                  /\ \A j \in 0 .. sizes[k] - 1 : <<k, j>> \in Q <=> j = got[k]
    <3>1. \A j \in 0 .. sizes[k] - 1 : j \in Int
      OBVIOUS
    <3>2. IF out(k, x)
          THEN \A j \in 0 .. sizes[k] - 1 : ~Holder(j, k, x[k])
          ELSE /\ dim(k, x) \in 0 .. sizes[k] - 1
               /\ \A j \in 0 .. sizes[k] - 1 : Holder(j, k, x[k]) <=> j = dim(k, x)
      BY <1>6, <2>1 DEF Holder
    <3> HIDE DEF out, dim
    <3>3. QED BY <2>2, <3>1, <3>2
  <2>5. DigitsDecide(bins, x, sizes, n, Q, got)
    <3> HIDE DEF got
    <3>1. QED BY <1>4, <1>9, <2>3, <2>4 DEF DigitsDecide, N
  <2>6. CorrectIndex(bins, x, IF \E k \in 1 .. n : got[k] = npos THEN npos
                              ELSE FromDigits(sizes, got, n))
    <3> HIDE DEF got
    <3>1. QED BY <2>5, FoundByDigits
  <2>7. \A k \in 1 .. n : got[k] = npos <=> out(k, x)
    <3>1. \A k \in 1 .. n : ~out(k, x) => dim(k, x) \in 0 .. sizes[k] - 1
      BY <1>6, <2>1
    <3>2. \A k \in 1 .. n : npos \notin 0 .. sizes[k] - 1
      BY <1>2 DEF npos
    <3> HIDE DEF out, dim
    <3>3. QED BY <3>1, <3>2
  <2>8. FindInLinSpace(axes, x) =
          IF \E a \in 1 .. n : out(a, x) THEN npos
          ELSE SumTo([a \in 1 .. n |-> dim(a, x) * BinsInSlice(sizes, a)], n)
    <3>1. (\E a \in DOMAIN axes : ~Normal(x[a]) \/ x[a] >= axes[a].stop \/ x[a] < axes[a].start)
            <=> \E a \in 1 .. n : out(a, x)
      BY <1>1, <2>1
    <3> HIDE DEF out
    <3>2. QED BY <1>1, <3>1 DEF FindInLinSpace, sizes, n
  <2>9. CASE \E a \in 1 .. n : out(a, x)
    BY <2>6, <2>7, <2>8, <2>9
  <2>10. CASE ~ \E a \in 1 .. n : out(a, x)
    <3>1. got = [a \in 1 .. n |-> dim(a, x)]
      BY <2>10
    <3>2. FromDigits(sizes, got, n) = SumTo([a \in 1 .. n |-> dim(a, x) * BinsInSlice(sizes, a)], n)
      <4>1. [k \in 1 .. n |-> got[k] * BinsInSlice(sizes, k)]
              = [a \in 1 .. n |-> dim(a, x) * BinsInSlice(sizes, a)]
        <5> HIDE DEF dim
        <5>1. QED BY <3>1
      <4>2. QED BY <4>1 DEF FromDigits
    <3>3. QED BY <2>6, <2>7, <2>8, <2>10, <3>2
  <2>11. QED BY <2>9, <2>10
<1>12. QED BY <1>3, <1>10, <1>11 DEF n

-----------------------------------------------------------------------------
(* Edges that ascend, and the place of a value between them. *)
Edges(edges, n) ==
  /\ n \in Nat \ {0} /\ edges \in Seq(Int) /\ Len(edges) = n + 1
  /\ \A k \in 1 .. n : edges[k] < edges[k + 1]

(* Edges that ascend from each to the next ascend from any to a later one. *)
LEMMA EdgesAscend ==
  ASSUME NEW edges, NEW n, Edges(edges, n)
  PROVE  \A i, j \in 1 .. n + 1 : i < j => edges[i] < edges[j]
<1>1. n \in Nat /\ (\A k \in 1 .. n + 1 : edges[k] \in Int)
      /\ \A k \in 1 .. n : edges[k] < edges[k + 1]
  BY LenProperties, ElementOfSeq DEF Edges
<1> DEFINE S == {d \in 0 .. n : \A i, j \in 1 .. n + 1 : j = i + d + 1 => edges[i] < edges[j]}
<1>2. 0 \in S
  <2>1. ASSUME NEW i \in 1 .. n + 1, NEW j \in 1 .. n + 1, j = i + 0 + 1 PROVE edges[i] < edges[j]
    <3>1. i \in 1 .. n /\ j = i + 1
      BY <1>1, <2>1
    <3>2. QED BY <1>1, <3>1
  <2>2. QED BY <1>1, <2>1
<1>3. ASSUME NEW d \in 0 .. n - 1, d \in S PROVE d + 1 \in S
  <2>1. ASSUME NEW i \in 1 .. n + 1, NEW j \in 1 .. n + 1, j = i + (d + 1) + 1
        PROVE  edges[i] < edges[j]
    <3> DEFINE m == j - 1
    <3>1. m \in 1 .. n /\ m \in 1 .. n + 1 /\ m = i + d + 1 /\ j = m + 1
      BY <1>1, <2>1
    <3> HIDE DEF m
    <3>2. edges[i] < edges[m] /\ edges[m] < edges[j]
      BY <1>1, <1>3, <3>1
    <3>3. QED BY <1>1, <3>1, <3>2
  <2>2. d + 1 \in 0 .. n
    BY <1>1
  <2>3. QED BY <2>1, <2>2
<1>4. \A d \in 0 .. n : d \in S
  <2> HIDE DEF S
  <2>1. QED BY <1>1, <1>2, <1>3, BoundedInduction
<1>5. ASSUME NEW i \in 1 .. n + 1, NEW j \in 1 .. n + 1, i < j PROVE edges[i] < edges[j]
  <2> DEFINE d == j - i - 1
  <2>1. d \in 0 .. n /\ j = i + d + 1
    BY <1>1, <1>5
  <2> HIDE DEF d
  <2>2. QED BY <1>4, <2>1
<1>6. QED BY <1>5

(* The number of edges at or below a value is the place of its bin. *)
LEMMA PlaceBetweenEdges ==
  ASSUME NEW edges, NEW n, Edges(edges, n), NEW v \in Int, edges[1] <= v, v < edges[n + 1]
  PROVE  /\ Cardinality({k \in DOMAIN edges : edges[k] <= v}) \in 1 .. n
         /\ \A j \in 1 .. n : (edges[j] <= v /\ v < edges[j + 1])
              <=> j = Cardinality({k \in DOMAIN edges : edges[k] <= v})
<1> DEFINE below == {k \in DOMAIN edges : edges[k] <= v}
<1>1. n \in Nat \ {0} /\ DOMAIN edges = 1 .. n + 1 /\ \A k \in 1 .. n + 1 : edges[k] \in Int
  BY LenProperties, ElementOfSeq DEF Edges
<1>2. \A i, j \in 1 .. n + 1 : i < j => edges[i] < edges[j]
  BY EdgesAscend
<1>3. below \in SUBSET (1 .. n + 1) /\ below # {}
  BY <1>1
<1>4. PICK m \in below : \A j \in below : j <= m
  <2> HIDE DEF below
  <2> DEFINE k == n + 1
  <2>1. k \in Nat
    BY <1>1
  <2> HIDE DEF k
  <2>2. below \in SUBSET (1 .. k)
    BY <1>3 DEF k
  <2>3. QED BY <1>3, <2>1, <2>2, HighestPlace
<1>5. m \in 1 .. n /\ edges[m] <= v /\ v < edges[m + 1]
  <2>1. m \in 1 .. n + 1 /\ edges[m] <= v
    BY <1>1
  <2>2. m # n + 1
    BY <1>1, <2>1
  <2>3. m \in 1 .. n /\ m + 1 \in 1 .. n + 1 /\ m + 1 \notin below
    BY <1>1, <1>4, <2>1, <2>2
  <2>4. QED BY <1>1, <2>1, <2>3
<1>6. below = 1 .. m
  <2>1. ASSUME NEW k \in 1 .. m PROVE k \in below
    <3>1. k \in 1 .. n + 1 /\ m \in 1 .. n + 1
      BY <1>1, <1>5
    <3>2. edges[k] <= edges[m]
      BY <1>1, <1>2, <3>1
    <3>3. QED BY <1>1, <1>5, <3>1, <3>2
  <2>2. ASSUME NEW k \in below PROVE k \in 1 .. m
    BY <1>1, <1>4, <1>5
  <2>3. QED BY <2>1, <2>2
<1> HIDE DEF below
<1>7. Cardinality(below) = m
  <2> DEFINE one == 1
  <2>1. Cardinality(one .. m) = IF one > m THEN 0 ELSE m - one + 1
    <3>1. one \in Int /\ m \in Int
      BY <1>5
    <3> HIDE DEF one
    <3>2. QED BY <3>1, FS_Interval
  <2>2. QED BY <1>1, <1>5, <1>6, <2>1
<1>8. ASSUME NEW j \in 1 .. n PROVE (edges[j] <= v /\ v < edges[j + 1]) <=> j = m
  <2>1. ASSUME j < m PROVE ~(v < edges[j + 1])
    <3>1. j + 1 \in 1 .. n + 1 /\ m \in 1 .. n + 1 /\ j + 1 <= m
      BY <1>1, <1>5, <2>1
    <3>2. edges[j + 1] <= edges[m]
      BY <1>1, <1>2, <3>1
    <3>3. QED BY <1>1, <1>5, <3>1, <3>2
  <2>2. ASSUME m < j PROVE ~(edges[j] <= v)
    <3>1. m + 1 \in 1 .. n + 1 /\ j \in 1 .. n + 1 /\ m + 1 <= j
      BY <1>1, <1>5, <2>2
    <3>2. edges[m + 1] <= edges[j]
      BY <1>1, <1>2, <3>1
    <3>3. QED BY <1>1, <1>5, <3>1, <3>2
  <2>3. QED BY <1>1, <1>5, <2>1, <2>2
<1>9. QED BY <1>5, <1>7, <1>8 DEF below

(* The edges of log_space(). *)
LEMMA LogEdges ==
  ASSUME NEW start \in Nat \ {0}, NEW factor \in Nat \ {0, 1}, NEW n \in Nat \ {0}
  PROVE  /\ Edges(LogSpace(start, factor, n).edges, n)
         /\ \A k \in 1 .. n + 1 : LogSpace(start, factor, n).edges[k] \in Nat \ {0}
<1> DEFINE fs == [j \in 1 .. n |-> factor]
           pow(k) == ProductTo(fs, k)
           edges == [k \in 1 .. n + 1 |-> start * pow(k - 1)]
<1>1. LogSpace(start, factor, n).edges = edges
  BY DEF LogSpace
<1>2. ASSUME NEW k \in 0 .. n - 1 PROVE pow(k + 1) = pow(k) * factor
  <2>1. k \in Nat /\ (\A j \in 1 .. k + 1 : fs[j] \in Int) /\ fs[k + 1] = factor
    OBVIOUS
  <2> HIDE DEF fs
  <2>2. QED BY <2>1, ProductNext
<1>3. \A a, b \in Nat \ {0} : a * b \in Nat \ {0}
  <2> TAKE a, b \in Nat \ {0}
  <2>1. QED BY ModStep
<1>4. \A k \in 0 .. n : pow(k) \in Nat \ {0}
  <2> DEFINE S == {k \in 0 .. n : pow(k) \in Nat \ {0}}
  <2>1. 0 \in S
    BY ProductOfNone
  <2>2. ASSUME NEW k \in 0 .. n - 1, k \in S PROVE k + 1 \in S
    BY <1>2, <1>3, <2>2
  <2> HIDE DEF S
  <2>3. \A k \in 0 .. n : k \in S
    BY <2>1, <2>2, BoundedInduction
  <2>4. QED BY <2>3 DEF S
<1> HIDE DEF pow
<1>5. \A k \in 1 .. n + 1 : edges[k] = start * pow(k - 1) /\ edges[k] \in Nat \ {0}
  <2>1. \A k \in 1 .. n + 1 : k - 1 \in 0 .. n
    OBVIOUS
  <2>2. QED BY <1>3, <1>4, <2>1
<1>6. ASSUME NEW k \in 1 .. n PROVE edges[k] < edges[k + 1]
  <2> DEFINE m == k - 1
             p == pow(m)
  <2>1. m \in 0 .. n - 1 /\ m \in 0 .. n /\ m + 1 = k /\ k + 1 - 1 = m + 1
        /\ k \in 1 .. n + 1 /\ k + 1 \in 1 .. n + 1
    OBVIOUS
  <2>2. edges[k] = start * p /\ edges[k + 1] = start * (p * factor) /\ p \in Nat \ {0}
    <3>1. edges[k] = start * pow(k - 1) /\ edges[k + 1] = start * pow(k + 1 - 1)
      BY <1>5, <2>1
    <3>2. QED BY <1>2, <1>4, <2>1, <3>1
  <2> HIDE DEF m, p, edges
  <2>3. start * (p * factor) = (start * p) * factor
    BY <2>2
  <2> DEFINE e == start * p
  <2>4. e \in Nat \ {0}
    BY <1>3, <2>2
  <2> HIDE DEF e
  <2>5. e * 2 <= e * factor /\ e * 2 = e + e /\ e * factor \in Int
    BY <2>4, TimesLarger
  <2>6. e < e * factor
    BY <2>4, <2>5
  <2>7. QED BY <2>2, <2>3, <2>6 DEF e
<1>7. edges \in Seq(Int) /\ Len(edges) = n + 1
  <2> DEFINE m == n + 1
  <2>1. m \in Nat /\ edges \in [1 .. m -> Int]
    BY <1>5
  <2> HIDE DEF m, edges
  <2>2. edges \in Seq(Int) /\ Len(edges) = m
    BY <2>1, SeqOfFunction
  <2>3. QED BY <2>2 DEF m
<1>8. QED BY <1>1, <1>5, <1>6, <1>7 DEF Edges

(* The bins of log_space() are found. *)
LEMMA LogSpaceFinds ==
  ASSUME NEW edges, NEW n, Edges(edges, n), edges[1] > 0,
         \A k \in 1 .. n + 1 : edges[k] # NaN,
         NEW bins, bins = [b \in 1 .. n |-> <<Extent(edges[b], edges[b + 1])>>]
  PROVE  /\ IsBins(bins) /\ NAxes(bins) = 1
         /\ \A x \in NumberPoints(1) : CorrectIndex(bins, x, FindInLogSpace(edges, x))
<1>1. n \in Nat \ {0} /\ DOMAIN edges = 1 .. n + 1 /\ (\A k \in 1 .. n + 1 : edges[k] \in Int)
      /\ Last(edges) = edges[n + 1] /\ edges \in Seq(Int)
  BY LenProperties, ElementOfSeq DEF Edges, Last
<1>2. \A k \in 1 .. n : edges[k] < edges[k + 1] /\ k \in 1 .. n + 1 /\ k + 1 \in 1 .. n + 1
  BY <1>1 DEF Edges
<1> DEFINE ext(b) == Extent(edges[b], edges[b + 1])
<1>3. \A b \in 1 .. n : /\ ext(b) \in ProperExtents
                        /\ ext(b).low = edges[b] /\ ext(b).high = edges[b + 1]
  BY <1>1, <1>2 DEF Extent, ProperExtents
<1>4. bins = [b \in 1 .. n |-> <<ext(b)>>]
  OBVIOUS
<1> HIDE DEF ext
<1>5. \A b \in 1 .. n : bins[b] \in BinsOf(1) /\ bins[b][1] = ext(b)
  BY <1>3, <1>4 DEF BinsOf
<1>6. bins \in Seq(BinsOf(1)) /\ Len(bins) = n /\ DOMAIN bins = 1 .. n /\ bins # <<>>
  <2>1. bins \in [1 .. n -> BinsOf(1)] /\ DOMAIN bins = 1 .. n
    BY <1>4, <1>5
  <2>2. n \in Nat /\ n # 0
    BY <1>1
  <2>3. bins \in Seq(BinsOf(1)) /\ Len(bins) = n
    BY <2>1, <2>2, SeqOfFunction
  <2>4. bins # <<>>
    BY <2>2, <2>3
  <2>5. QED BY <2>1, <2>3, <2>4
<1> DEFINE one == 1
<1>7. IsBins(bins) /\ NAxes(bins) = one
  <2>1. one \in Nat \ {0} /\ bins \in Seq(BinsOf(one))
    BY <1>6
  <2> HIDE DEF one
  <2>2. QED BY <1>6, <2>1, AreBins
<1>8. ASSUME NEW x \in NumberPoints(1) PROVE CorrectIndex(bins, x, FindInLogSpace(edges, x))
  <2> DEFINE v == x[1]
             count == Cardinality({k \in DOMAIN edges : edges[k] <= v})
  <2>1. v \in Int /\ Normal(v)
    BY DEF NumberPoints, Numbers, Normal
  <2>2. ASSUME NEW b \in 1 .. n PROVE InBin(bins[b], x) <=> edges[b] <= v /\ v < edges[b + 1]
    <3> DEFINE bin == bins[b]
    <3>1. bin \in BinsOf(one) /\ bin[one] = ext(b) /\ x \in NumberPoints(one) /\ one \in Nat
      BY <1>5
    <3>2. \A i \in 1 .. one : i = one
      OBVIOUS
    <3>3. one \in 1 .. one
      OBVIOUS
    <3>4. v = x[one]
      OBVIOUS
    <3> HIDE DEF bin, one, v
    <3>5. InBin(bin, x) <=> \A i \in 1 .. one : bin[i].low <= x[i] /\ x[i] < bin[i].high
      BY <3>1, InBinMeans
    <3>6. QED BY <1>3, <3>1, <3>2, <3>3, <3>4, <3>5 DEF bin
  <2>3. FindInLogSpace(edges, x)
          = IF v <= 0 \/ v >= edges[n + 1] \/ v < edges[1] THEN npos ELSE count - 1
    BY <1>1, <2>1 DEF FindInLogSpace
  <2> HIDE DEF v
  <2>4. CASE v >= edges[n + 1] \/ v < edges[1]
    <3>1. \A i, j \in 1 .. n + 1 : i < j => edges[i] < edges[j]
      BY EdgesAscend
    <3>2. ASSUME NEW b \in 1 .. n PROVE edges[1] <= edges[b] /\ edges[b + 1] <= edges[n + 1]
      <4>1. 1 \in 1 .. n + 1 /\ n + 1 \in 1 .. n + 1 /\ b \in 1 .. n + 1 /\ b + 1 \in 1 .. n + 1
            /\ (b = 1 \/ 1 < b) /\ (b + 1 = n + 1 \/ b + 1 < n + 1)
        BY <1>1
      <4>2. /\ edges[1] \in Int /\ edges[n + 1] \in Int
            /\ edges[b] \in Int /\ edges[b + 1] \in Int
        BY <1>1, <4>1
      <4>3. edges[1] <= edges[b]
        BY <3>1, <4>1, <4>2
      <4>4. edges[b + 1] <= edges[n + 1]
        BY <3>1, <4>1, <4>2
      <4>5. QED BY <4>3, <4>4
    <3>3. \A b \in 1 .. n : ~InBin(bins[b], x)
      <4> TAKE b \in 1 .. n
      <4>1. 1 \in 1 .. n + 1 /\ n + 1 \in 1 .. n + 1
        BY <1>1
      <4>2. QED BY <1>1, <1>2, <2>1, <2>2, <2>4, <3>2, <4>1
    <3>4. HomesOf(bins, x) = {}
      BY <1>6, <3>3 DEF HomesOf
    <3>5. FindInLogSpace(edges, x) = npos
      BY <2>3, <2>4
    <3>6. QED BY <3>4, <3>5 DEF CorrectIndex, npos
  <2>5. CASE v < edges[n + 1] /\ edges[1] <= v
    <3>1. /\ count \in 1 .. n
          /\ \A j \in 1 .. n : (edges[j] <= v /\ v < edges[j + 1]) <=> j = count
      BY <2>1, <2>5, PlaceBetweenEdges
    <3> HIDE DEF count
    <3>2. HomesOf(bins, x) = {count}
      BY <1>6, <2>2, <3>1 DEF HomesOf
    <3>3. 1 \in 1 .. n + 1 /\ n + 1 \in 1 .. n + 1
      BY <1>1
    <3>4. FindInLogSpace(edges, x) = count - 1
      BY <1>1, <2>1, <2>3, <2>5, <3>3
    <3>5. count - 1 # npos /\ count - 1 + 1 = count /\ count - 1 \in Int
      BY <3>1 DEF npos
    <3>6. QED BY <3>2, <3>4, <3>5 DEF CorrectIndex
  <2>6. QED
    <3>1. 1 \in 1 .. n + 1 /\ n + 1 \in 1 .. n + 1
      BY <1>1
    <3>2. QED BY <1>1, <2>1, <2>4, <2>5, <3>1
<1>9. QED BY <1>7, <1>8

-----------------------------------------------------------------------------
(* What a binning has to do: its bins are bins, and it finds them. *)
Finds(b) ==
  /\ IsBins(b.bins)
  /\ \A x \in NumberPoints(NAxes(b.bins)) : CorrectIndex(b.bins, x, FindBin(b, x))

(* Bins that are not refused are found by both searches. *)
LEMMA NoneRefusedFinds ==
  ASSUME NEW bins, IsBins(bins), Refusal(bins) = "none"
  PROVE  \A x \in NumberPoints(NAxes(bins)) :
           /\ CorrectIndex(bins, x, FindInColumns(bins, x))
           /\ CorrectIndex(bins, x, FindByScan(bins, x))
<1> DEFINE C == Int
<1>1. \A i \in DOMAIN bins : \A a \in 1 .. NAxes(bins) : bins[i][a].low \in C
  <2>1. \A i \in DOMAIN bins : bins[i] \in BinsOf(NAxes(bins))
    BY BinsAre
  <2>2. \A i \in DOMAIN bins : \A a \in 1 .. NAxes(bins) : bins[i][a] \in ProperExtents
    BY <2>1 DEF BinsOf
  <2>3. QED BY <2>2, ProperExtent
<1> HIDE DEF C
<1>2. \A x \in NumberPoints(NAxes(bins)) : OneHome(bins, x)
  BY <1>1, RefusedUnlessOneHome
<1>3. QED BY <1>2, ColumnsFind, ScanFinds

(* Every factory but product() makes a binning that finds its bins. *)
LEMMA PartFinds ==
  ASSUME NEW b, IsPart(b)
  PROVE  /\ IsBins(b.bins)
         /\ \A x \in NumberPoints(NAxes(b.bins)) : CorrectIndex(b.bins, x, FindInPart(b, x))
<1>1. CASE /\ b.kind = "lin_space"
           /\ b.axes # <<>> /\ b.axes \in Seq(RegularAxes) /\ b = LinSpaceND(b.axes)
  <2> DEFINE axes == b.axes
             bins == b.bins
  <2>1. axes # <<>> /\ axes \in Seq(RegularAxes) /\ bins = LinSpaceND(axes).bins
    BY <1>1
  <2>2. \A x : FindInPart(b, x) = FindInLinSpace(axes, x)
    BY <1>1 DEF FindInPart
  <2> HIDE DEF axes, bins
  <2>3. IsBins(bins) /\ \A x \in NumberPoints(NAxes(bins)) : CorrectIndex(bins, x, FindInLinSpace(axes, x))
    BY <2>1, LinSpaceFinds
  <2>4. QED BY <2>2, <2>3 DEF bins
<1>2. CASE b.kind = "log_space" /\ IsLogSpace(b)
  <2> DEFINE start == b.edges[1]
             factor == b.edges[2] \div b.edges[1]
             n == Len(b.edges) - 1
             edges == b.edges
             bins == b.bins
  <2>1. /\ start \in Nat \ {0} /\ factor \in Nat \ {0, 1} /\ n \in Nat \ {0}
        /\ b = LogSpace(start, factor, n)
        /\ NaN \notin ToSet(edges)
    BY <1>2 DEF IsLogSpace
  <2>2. \A x : FindInPart(b, x) = FindInLogSpace(edges, x)
    BY <1>2 DEF FindInPart
  <2>3. edges = LogSpace(start, factor, n).edges /\ start = edges[1]
    BY <2>1
  <2>4. bins = [k \in 1 .. n |-> <<Extent(edges[k], edges[k + 1])>>]
    <3> HIDE DEF n, start, factor
    <3>1. bins = LogSpace(start, factor, n).bins
      BY <2>1
    <3>2. LogSpace(start, factor, n).bins
            = [k \in 1 .. n |-> <<Extent(LogSpace(start, factor, n).edges[k],
                                         LogSpace(start, factor, n).edges[k + 1])>>]
      BY DEF LogSpace
    <3>3. QED BY <2>3, <3>1, <3>2
  <2> HIDE DEF edges, bins, start, factor, n
  <2>5. Edges(edges, n) /\ \A k \in 1 .. n + 1 : edges[k] \in Nat \ {0}
    BY <2>1, <2>3, LogEdges
  <2>6. edges[1] > 0 /\ \A k \in 1 .. n + 1 : edges[k] # NaN
    <3>1. DOMAIN edges = 1 .. n + 1
      BY <2>5, LenProperties DEF Edges
    <3>2. \A k \in 1 .. n + 1 : edges[k] \in ToSet(edges)
      BY <3>1 DEF ToSet
    <3>3. edges[1] > 0
      BY <2>1, <2>3
    <3>4. QED BY <2>1, <3>2, <3>3
  <2> DEFINE one == 1
  <2>7. IsBins(bins) /\ NAxes(bins) = one
        /\ \A x \in NumberPoints(one) : CorrectIndex(bins, x, FindInLogSpace(edges, x))
    BY <2>4, <2>5, <2>6, LogSpaceFinds
  <2> HIDE DEF one
  <2>8. QED BY <2>2, <2>7 DEF bins
<1>3. CASE /\ b \in {FromExtents(b.bins), BruteForce(b.bins)}
           /\ IsBins(b.bins) /\ Refusal(b.bins) = "none"
  <2> DEFINE bins == b.bins
  <2>1. IsBins(bins) /\ Refusal(bins) = "none"
    BY <1>3
  <2>2. \/ \A x : FindInPart(b, x) = FindInColumns(bins, x)
        \/ \A x : FindInPart(b, x) = FindByScan(bins, x)
    <3>1. b.kind = "from_extents" \/ b.kind = "brute_force"
      BY <1>3 DEF FromExtents, BruteForce
    <3>2. QED BY <3>1 DEF FindInPart
  <2> HIDE DEF bins
  <2>3. \A x \in NumberPoints(NAxes(bins)) :
          /\ CorrectIndex(bins, x, FindInColumns(bins, x))
          /\ CorrectIndex(bins, x, FindByScan(bins, x))
    BY <2>1, NoneRefusedFinds
  <2>4. QED BY <2>1, <2>2, <2>3 DEF bins
<1>4. QED BY <1>1, <1>2, <1>3 DEF IsPart

-----------------------------------------------------------------------------
(* Bins that are put together from pieces, and the pieces of a point. *)
IsDims(dims, n) == n \in Nat /\ \A k \in 1 .. n : dims[k] \in Nat

(* A point and bins of n pieces, piece k of dims[k] axes each. *)
Pieces(n, dims, pieces, x, sub) ==
  /\ IsDims(dims, n)
  /\ \A k \in 1 .. n : pieces[k] \in BinsOf(dims[k])
  /\ pieces \in [1 .. n -> Seq(ProperExtents)]
  /\ x \in NumberPoints(SumTo(dims, n))
  /\ \A k \in 1 .. n : /\ sub[k] \in NumberPoints(dims[k])
                        /\ \A j \in 1 .. dims[k] : sub[k][j] = x[SumTo(dims, k - 1) + j]

(* A point is in bins put together exactly when its pieces are in theirs. *)
LEMMA InConcatenation ==
  ASSUME NEW n, NEW dims, NEW pieces, NEW x, NEW sub, Pieces(n, dims, pieces, x, sub)
  PROVE  /\ FlattenSeq(pieces) \in BinsOf(SumTo(dims, n))
         /\ InBin(FlattenSeq(pieces), x) <=> \A k \in 1 .. n : InBin(pieces[k], sub[k])
<1> DEFINE N == SumTo(dims, n)
           flat == FlattenSeq(pieces)
<1> USE DEF Pieces, IsDims
<1>0. n \in Nat
  OBVIOUS
<1>1. pieces \in Seq(Seq(ProperExtents)) /\ Len(pieces) = n
  <2> DEFINE D == Seq(ProperExtents)
  <2>1. pieces \in [1 .. n -> D]
    OBVIOUS
  <2> HIDE DEF D
  <2>2. pieces \in Seq(D) /\ Len(pieces) = n
    BY <2>1, SeqOfFunction
  <2>3. QED BY <2>2 DEF D
<1>2. \A k \in 1 .. n : dims[k] = Len(pieces[k])
  <2> TAKE k \in 1 .. n
  <2> DEFINE m == dims[k]
             p == pieces[k]
  <2>1. m \in Nat /\ p \in [1 .. m -> ProperExtents]
    BY DEF BinsOf
  <2> HIDE DEF m, p
  <2>2. Len(p) = m
    BY <2>1, SeqOfFunction
  <2>3. QED BY <2>2 DEF m, p
<1>3. /\ flat \in Seq(ProperExtents) /\ Len(flat) = N
      /\ \A k \in 1 .. n : \A j \in 1 .. dims[k] : flat[SumTo(dims, k - 1) + j] = pieces[k][j]
  <2> DEFINE T == ProperExtents
             l == Len(pieces)
  <2>1. pieces \in Seq(Seq(T)) /\ \A k \in 1 .. l : dims[k] = Len(pieces[k])
    BY <1>1, <1>2
  <2>2. l = n
    BY <1>1
  <2> HIDE DEF T, flat, N
  <2>3. /\ FlattenSeq(pieces) \in Seq(T)
        /\ Len(FlattenSeq(pieces)) = SumTo(dims, l)
        /\ \A k \in 1 .. l : \A j \in 1 .. dims[k] :
             FlattenSeq(pieces)[SumTo(dims, k - 1) + j] = pieces[k][j]
    BY <2>1, FlattenPlaces DEF l
  <2> HIDE DEF l
  <2>4. QED BY <2>2, <2>3 DEF T, flat, N
<1>4. /\ \A k \in 0 .. n : SumTo(dims, k) \in Nat /\ SumTo(dims, k) <= N
      /\ \A k \in 1 .. n : SumTo(dims, k) = SumTo(dims, k - 1) + dims[k]
      /\ \A i \in 1 .. N : \E k \in 1 .. n : \E j \in 1 .. dims[k] : i = SumTo(dims, k - 1) + j
  <2>1. \A k \in 1 .. n : dims[k] \in Nat
    OBVIOUS
  <2> HIDE DEF flat, N
  <2>2. /\ \A k \in 0 .. n : SumTo(dims, k) \in Nat /\ SumTo(dims, k) <= SumTo(dims, n)
        /\ \A k \in 1 .. n : SumTo(dims, k) = SumTo(dims, k - 1) + dims[k]
    BY <2>1, SumsOfPrefixes
  <2>3. ASSUME NEW i \in 1 .. SumTo(dims, n)
        PROVE  \E k \in 1 .. n : \E j \in 1 .. dims[k] : i = SumTo(dims, k - 1) + j
    BY <2>1, SumsOfPrefixes
  <2>4. QED BY <2>2, <2>3 DEF N
<1>5. N \in Nat
  BY <1>4
<1>6. flat \in BinsOf(N)
  BY <1>3, <1>5, LenProperties, ElementOfSeq DEF BinsOf
<1>7. InBin(flat, x) <=> \A i \in 1 .. N : flat[i].low <= x[i] /\ x[i] < flat[i].high
  <2> HIDE DEF flat, N
  <2>1. x \in NumberPoints(N)
    BY DEF N
  <2>2. QED BY <1>5, <1>6, <2>1, InBinMeans
<1>8. \A k \in 1 .. n : InBin(pieces[k], sub[k])
        <=> \A j \in 1 .. dims[k] : pieces[k][j].low <= sub[k][j] /\ sub[k][j] < pieces[k][j].high
  <2> TAKE k \in 1 .. n
  <2> DEFINE p == pieces[k]
             y == sub[k]
             m == dims[k]
  <2>1. m \in Nat /\ p \in BinsOf(m) /\ y \in NumberPoints(m)
    OBVIOUS
  <2> HIDE DEF p, y, m
  <2>2. InBin(p, y) <=> \A i \in 1 .. m : p[i].low <= y[i] /\ y[i] < p[i].high
    BY <2>1, InBinMeans
  <2>3. QED BY <2>2 DEF p, y, m
<1> HIDE DEF flat, N
<1>9. \A k \in 1 .. n : \A j \in 1 .. dims[k] : SumTo(dims, k - 1) + j \in 1 .. N
  <2> TAKE k \in 1 .. n
  <2> TAKE j \in 1 .. dims[k]
  <2>1. k - 1 \in 0 .. n /\ k \in 0 .. n
    OBVIOUS
  <2>2. SumTo(dims, k - 1) \in Nat /\ SumTo(dims, k) = SumTo(dims, k - 1) + dims[k]
        /\ SumTo(dims, k) <= N /\ dims[k] \in Nat
    BY <1>4, <2>1
  <2>3. QED BY <1>5, <2>2
<1>10. ASSUME InBin(flat, x), NEW k \in 1 .. n PROVE InBin(pieces[k], sub[k])
  <2>1. \A j \in 1 .. dims[k] : pieces[k][j].low <= sub[k][j] /\ sub[k][j] < pieces[k][j].high
    BY <1>3, <1>7, <1>9, <1>10
  <2>2. QED BY <1>8, <2>1
<1>11. ASSUME \A k \in 1 .. n : InBin(pieces[k], sub[k]) PROVE InBin(flat, x)
  <2>1. ASSUME NEW i \in 1 .. N PROVE flat[i].low <= x[i] /\ x[i] < flat[i].high
    <3>1. PICK k \in 1 .. n : \E j \in 1 .. dims[k] : i = SumTo(dims, k - 1) + j
      BY <1>4
    <3>2. PICK j \in 1 .. dims[k] : i = SumTo(dims, k - 1) + j
      BY <3>1
    <3>3. pieces[k][j].low <= sub[k][j] /\ sub[k][j] < pieces[k][j].high
      BY <1>8, <1>11
    <3>4. flat[i] = pieces[k][j] /\ x[i] = sub[k][j]
      BY <1>3, <3>2
    <3>5. QED BY <3>3, <3>4
  <2>2. QED BY <1>7, <2>1
<1>12. QED BY <1>6, <1>10, <1>11 DEF flat, N

(* The piece of a point for a part. *)
IsPieced(n, dims, x, k) == IsDims(dims, n) /\ x \in NumberPoints(SumTo(dims, n)) /\ k \in 1 .. n

Piece(x, dims, k) == SubSeq(x, SumTo(dims, k - 1) + 1, SumTo(dims, k))

(* FindInProduct() cuts a point into the coordinates of its parts. *)
LEMMA PieceOfPoint ==
  ASSUME NEW n, NEW dims, NEW x, NEW k, IsPieced(n, dims, x, k)
  PROVE  /\ Piece(x, dims, k) \in NumberPoints(dims[k])
         /\ \A j \in 1 .. dims[k] : Piece(x, dims, k)[j] = x[SumTo(dims, k - 1) + j]
<1> DEFINE N == SumTo(dims, n)
           m == SumTo(dims, k - 1)
           l == SumTo(dims, k)
           y == SubSeq(x, m + 1, l)
           d == dims[k]
<1> USE DEF IsDims, IsPieced
<1>1. m \in Nat /\ l \in Nat /\ N \in Nat /\ l <= N /\ l = m + d /\ d \in Nat
  <2>1. k - 1 \in 0 .. n /\ k \in 0 .. n /\ n \in 0 .. n
    OBVIOUS
  <2>2. /\ \A i \in 0 .. n : SumTo(dims, i) \in Nat /\ SumTo(dims, i) <= N
        /\ \A i \in 1 .. n : SumTo(dims, i) = SumTo(dims, i - 1) + dims[i]
    BY SumsOfPrefixes
  <2>3. QED BY <2>1, <2>2
<1> HIDE DEF N, m, l, d
<1>2. x \in Seq(Numbers) /\ Len(x) = N
  <2>1. x \in [1 .. N -> Numbers]
    BY DEF NumberPoints, N
  <2>2. QED BY <1>1, <2>1, SeqOfFunction
<1>3. /\ y \in Seq(Numbers) /\ Len(y) = l - m
      /\ \A i \in 1 .. l - m : y[i] = x[m + i]
  <2>1. m \in Nat /\ l \in Nat /\ m <= l /\ l <= Len(x)
    BY <1>1, <1>2
  <2> DEFINE T == Numbers
  <2>2. x \in Seq(T)
    BY <1>2
  <2> HIDE DEF T
  <2>3. /\ SubSeq(x, m + 1, l) \in Seq(T)
        /\ Len(SubSeq(x, m + 1, l)) = l - m
        /\ \A i \in 1 .. l - m : SubSeq(x, m + 1, l)[i] = x[m + i]
    BY <2>1, <2>2, FrontContinues
  <2>4. QED BY <2>3 DEF T
<1>4. l - m = d
  BY <1>1
<1> HIDE DEF y
<1>5. y \in [1 .. d -> Numbers]
  BY <1>1, <1>3, <1>4, LenProperties, ElementOfSeq
<1>6. QED BY <1>3, <1>4, <1>5 DEF y, d, m, l, NumberPoints, Piece

(* A product of binnings finds its bins, if each part does. *)
LEMMA ProductFinds ==
  ASSUME NEW parts, parts # <<>>, parts \in Seq(ToSet(parts)),
         \A k \in DOMAIN parts : IsPart(parts[k]),
         NEW bins, bins = Product(parts).bins
  PROVE  /\ IsBins(bins)
         /\ \A x \in NumberPoints(NAxes(bins)) : CorrectIndex(bins, x, FindInProduct(parts, x))
<1> DEFINE n == Len(parts)
           sizes == ProductSizes(parts)
           dims == [j \in DOMAIN parts |-> NAxes(parts[j].bins)]
           N == BinsInSlice(sizes, n + 1)
           NA == SumTo(dims, n)
           pieces(b) == [k \in 1 .. n |-> parts[k].bins[Digit(sizes, b - 1, k) + 1]]
           sub(k, x) == SubSeq(x, AxesBefore(parts, k) + 1, AxesBefore(parts, k + 1))
<1>1. n \in Nat \ {0} /\ DOMAIN parts = 1 .. n
  BY LenProperties, EmptySeq
<1>2. ASSUME NEW k \in 1 .. n
      PROVE  /\ IsBins(parts[k].bins)
             /\ \A x \in NumberPoints(NAxes(parts[k].bins)) :
                  CorrectIndex(parts[k].bins, x, FindInPart(parts[k], x))
  BY <1>1, PartFinds
<1>3. \A k \in 1 .. n :
        /\ dims[k] = NAxes(parts[k].bins) /\ dims[k] \in Nat \ {0}
        /\ sizes[k] = Len(parts[k].bins) /\ sizes[k] \in Nat \ {0}
        /\ DOMAIN parts[k].bins = 1 .. sizes[k]
        /\ \A i \in 1 .. sizes[k] : parts[k].bins[i] \in BinsOf(dims[k])
  <2> TAKE k \in 1 .. n
  <2> DEFINE bs == parts[k].bins
  <2>1. dims[k] = NAxes(bs) /\ sizes[k] = Len(bs) /\ IsBins(bs)
    BY <1>1, <1>2 DEF ProductSizes
  <2> HIDE DEF bs, dims, sizes
  <2>2. /\ NAxes(bs) \in Nat \ {0} /\ Len(bs) \in Nat \ {0} /\ DOMAIN bs = 1 .. Len(bs)
        /\ \A i \in DOMAIN bs : bs[i] \in BinsOf(NAxes(bs))
    BY <2>1, BinsAre
  <2>3. QED BY <2>1, <2>2 DEF bs
<1>4. bins = [b \in 1 .. N |-> FlattenSeq(pieces(b))]
  BY <1>1 DEF Product, Digit
<1>5. \A k \in 1 .. n : AxesBefore(parts, k) = SumTo(dims, k - 1) /\ AxesBefore(parts, k + 1) = SumTo(dims, k)
  <2> TAKE k \in 1 .. n
  <2>1. k + 1 - 1 = k
    OBVIOUS
  <2>2. QED BY <2>1 DEF AxesBefore
<1>6. \A x : FindInProduct(parts, x)
        = LET got == [k \in 1 .. n |-> FindInPart(parts[k], sub(k, x))] IN
          IF \E k \in 1 .. n : got[k] = npos THEN npos
          ELSE SumTo([k \in 1 .. n |-> got[k] * BinsInSlice(sizes, k)], n)
  BY <1>1 DEF FindInProduct
<1> HIDE DEF n, sizes, dims
<1>7. IsSizes(sizes, n)
  BY <1>1, <1>3 DEF IsSizes
<1>8. /\ N \in Nat \ {0}
      /\ \A b \in 1 .. N, k \in 1 .. n : Digit(sizes, b - 1, k) \in 0 .. sizes[k] - 1
  BY <1>7, DigitsOfIndex
<1>9. \A k \in 1 .. n : \A j \in 0 .. sizes[k] - 1 : j + 1 \in 1 .. sizes[k] /\ j \in Int
  BY <1>3
<1>10. \A b \in 1 .. N : /\ \A k \in 1 .. n : pieces(b)[k] = parts[k].bins[Digit(sizes, b - 1, k) + 1]
                         /\ \A k \in 1 .. n : pieces(b)[k] \in BinsOf(dims[k])
                         /\ pieces(b) \in [1 .. n -> Seq(ProperExtents)]
  <2> TAKE b \in 1 .. N
  <2>1. \A k \in 1 .. n : pieces(b)[k] = parts[k].bins[Digit(sizes, b - 1, k) + 1]
    OBVIOUS
  <2>2. \A k \in 1 .. n : pieces(b)[k] \in BinsOf(dims[k])
    BY <1>3, <1>8, <1>9, <2>1
  <2>3. \A k \in 1 .. n : pieces(b)[k] \in Seq(ProperExtents)
    <3> TAKE k \in 1 .. n
    <3> DEFINE m == dims[k]
               p == pieces(b)[k]
    <3>1. m \in Nat /\ p \in [1 .. m -> ProperExtents]
      BY <1>3, <2>2 DEF BinsOf
    <3> HIDE DEF m, p
    <3>2. p \in Seq(ProperExtents)
      BY <3>1, SeqOfFunction
    <3>3. QED BY <3>2 DEF p
  <2>4. pieces(b) \in [1 .. n -> Seq(ProperExtents)]
    BY <2>3
  <2>5. QED BY <2>1, <2>2, <2>4
<1> HIDE DEF pieces, N
<1>11. NA \in Nat \ {0}
  <2>1. \A k \in 1 .. n : dims[k] \in Nat
    BY <1>3
  <2>2. n \in Nat /\ n \in 0 .. n /\ n \in 1 .. n /\ n - 1 \in 0 .. n
    BY <1>1
  <2>3. /\ \A k \in 0 .. n : SumTo(dims, k) \in Nat
        /\ \A k \in 1 .. n : SumTo(dims, k) = SumTo(dims, k - 1) + dims[k]
    BY <2>1, <2>2, SumsOfPrefixes
  <2>4. SumTo(dims, n - 1) \in Nat /\ SumTo(dims, n) = SumTo(dims, n - 1) + dims[n] /\ dims[n] \in Nat \ {0}
    BY <1>3, <2>2, <2>3
  <2>5. QED BY <2>4
<1>12. ASSUME NEW x \in NumberPoints(NA), NEW k \in 1 .. n
       PROVE  sub(k, x) \in NumberPoints(dims[k]) /\ \A j \in 1 .. dims[k] : sub(k, x)[j] = x[SumTo(dims, k - 1) + j]
  <2>1. \A i \in 1 .. n : dims[i] \in Nat
    BY <1>3
  <2>2. sub(k, x) = Piece(x, dims, k)
    BY <1>5 DEF Piece
  <2>3. /\ Piece(x, dims, k) \in NumberPoints(dims[k])
        /\ \A j \in 1 .. dims[k] : Piece(x, dims, k)[j] = x[SumTo(dims, k - 1) + j]
    <3> HIDE DEF sub, NA
    <3>1. n \in Nat /\ x \in NumberPoints(SumTo(dims, n))
      BY <1>1 DEF NA
    <3>2. IsDims(dims, n)
      BY <2>1, <3>1 DEF IsDims
    <3>3. IsPieced(n, dims, x, k)
      BY <3>1, <3>2 DEF IsPieced
    <3>4. QED BY <3>3, PieceOfPoint
  <2>4. QED BY <2>2, <2>3
<1> HIDE DEF sub
<1>13. ASSUME NEW b \in 1 .. N, NEW x \in NumberPoints(NA)
       PROVE  /\ bins[b] \in BinsOf(NA)
              /\ InBin(bins[b], x)
                   <=> \A k \in 1 .. n : InBin(parts[k].bins[Digit(sizes, b - 1, k) + 1], sub(k, x))
  <2> DEFINE ps == pieces(b)
             subs == [k \in 1 .. n |-> sub(k, x)]
  <2>1. \A k \in 1 .. n : dims[k] \in Nat /\ ps[k] \in BinsOf(dims[k])
    BY <1>3, <1>10
  <2>2. ps \in [1 .. n -> Seq(ProperExtents)]
    BY <1>10
  <2>3. \A k \in 1 .. n : /\ subs[k] \in NumberPoints(dims[k])
                          /\ \A j \in 1 .. dims[k] : subs[k][j] = x[SumTo(dims, k - 1) + j]
    BY <1>12
  <2>4. bins[b] = FlattenSeq(ps) /\ \A k \in 1 .. n : ps[k] = parts[k].bins[Digit(sizes, b - 1, k) + 1]
    BY <1>4, <1>10
  <2>5. \A k \in 1 .. n : subs[k] = sub(k, x)
    OBVIOUS
  <2> HIDE DEF ps, subs
  <2>6. /\ FlattenSeq(ps) \in BinsOf(NA)
        /\ InBin(FlattenSeq(ps), x) <=> \A k \in 1 .. n : InBin(ps[k], subs[k])
    <3>1. n \in Nat /\ x \in NumberPoints(SumTo(dims, n))
      BY <1>1
    <3> HIDE DEF NA
    <3>2. /\ FlattenSeq(ps) \in BinsOf(SumTo(dims, n))
          /\ InBin(FlattenSeq(ps), x) <=> \A k \in 1 .. n : InBin(ps[k], subs[k])
      <4>1. Pieces(n, dims, ps, x, subs)
        BY <2>1, <2>2, <2>3, <3>1 DEF Pieces, IsDims
      <4>2. QED BY <4>1, InConcatenation
    <3>3. QED BY <3>2 DEF NA
  <2>7. QED BY <2>4, <2>5, <2>6
<1> HIDE DEF NA
<1>14. \E x : x \in NumberPoints(NA)
  <2>1. [i \in 1 .. NA |-> 0] \in NumberPoints(NA)
    BY DEF NumberPoints, Numbers, NaN
  <2>2. QED BY <2>1
<1>15. bins \in Seq(BinsOf(NA)) /\ bins # <<>> /\ DOMAIN bins = 1 .. N
  <2>1. bins \in [1 .. N -> BinsOf(NA)]
    <3>1. \A b \in 1 .. N : bins[b] \in BinsOf(NA)
      BY <1>13, <1>14
    <3>2. DOMAIN bins = 1 .. N /\ bins = [b \in 1 .. N |-> bins[b]]
      BY <1>4
    <3>3. QED BY <3>1, <3>2
  <2>2. bins \in Seq(BinsOf(NA)) /\ Len(bins) = N
    BY <1>8, <2>1, SeqOfFunction
  <2>3. QED BY <1>8, <2>1, <2>2
<1>16. IsBins(bins) /\ NAxes(bins) = NA
  BY <1>11, <1>15, AreBins
<1>17. ASSUME NEW x \in NumberPoints(NA) PROVE CorrectIndex(bins, x, FindInProduct(parts, x))
  <2> DEFINE Q == {p \in (1 .. n) \X Int : InBin(parts[p[1]].bins[p[2] + 1], sub(p[1], x))}
             got == [k \in 1 .. n |-> FindInPart(parts[k], sub(k, x))]
  <2>1. \A k \in 1 .. n, j \in Int : <<k, j>> \in Q <=> InBin(parts[k].bins[j + 1], sub(k, x))
    OBVIOUS
  <2>2. FindInProduct(parts, x)
          = IF \E k \in 1 .. n : got[k] = npos THEN npos
            ELSE SumTo([k \in 1 .. n |-> got[k] * BinsInSlice(sizes, k)], n)
    BY <1>6
  <2>3. \A k \in 1 .. n : got[k] = FindInPart(parts[k], sub(k, x))
    OBVIOUS
  <2> HIDE DEF Q, got
  <2>4. \A b \in 1 .. N : InBin(bins[b], x) <=> \A k \in 1 .. n : <<k, Digit(sizes, b - 1, k)>> \in Q
    <3> TAKE b \in 1 .. N
    <3>1. \A k \in 1 .. n : Digit(sizes, b - 1, k) \in Int
      BY <1>8, <1>9
    <3>2. QED BY <1>13, <2>1, <3>1 DEF NA
  <2>5. ASSUME NEW k \in 1 .. n
        PROVE  \/ got[k] = npos /\ \A j \in 0 .. sizes[k] - 1 : <<k, j>> \notin Q
               \/ /\ got[k] \in 0 .. sizes[k] - 1
                  /\ \A j \in 0 .. sizes[k] - 1 : <<k, j>> \in Q <=> j = got[k]
    <3> DEFINE bs == parts[k].bins
               y == sub(k, x)
               i == got[k]
               s == sizes[k]
    <3>1. CorrectIndex(bs, y, i)
      <4>1. y \in NumberPoints(NAxes(bs))
        BY <1>3, <1>12 DEF NA
      <4>2. i = FindInPart(parts[k], y)
        BY <2>3
      <4> HIDE DEF y
      <4>3. CorrectIndex(bs, y, FindInPart(parts[k], y))
        BY <1>2, <4>1
      <4>4. QED BY <4>2, <4>3
    <3>2. \A j \in 0 .. s - 1 : <<k, j>> \in Q <=> j + 1 \in HomesOf(bs, y)
      BY <1>3, <1>9, <2>1 DEF HomesOf
    <3>3. HomesOf(bs, y) = (IF i = npos THEN {} ELSE {i + 1}) /\ HomesOf(bs, y) \subseteq 1 .. s
      BY <1>3, <3>1 DEF CorrectIndex, HomesOf
    <3>4. s \in Nat \ {0}
      BY <1>3
    <3> HIDE DEF bs, y, s
    <3>5. CASE i = npos
      BY <3>2, <3>3, <3>5 DEF s
    <3>6. CASE i # npos
      <4>1. i + 1 \in 1 .. s /\ HomesOf(bs, y) = {i + 1}
        BY <3>3, <3>6
      <4>2. i \in Int
        BY <3>1 DEF CorrectIndex
      <4>3. i \in 0 .. s - 1
        BY <3>4, <4>1, <4>2
      <4>4. \A j \in 0 .. s - 1 : j + 1 = i + 1 <=> j = i
        BY <4>2
      <4>5. QED BY <3>2, <4>1, <4>3, <4>4 DEF s
    <3>7. QED BY <3>5, <3>6
  <2>6. DigitsDecide(bins, x, sizes, n, Q, got)
    BY <1>7, <1>15, <2>4, <2>5 DEF DigitsDecide, N
  <2>7. CorrectIndex(bins, x, IF \E k \in 1 .. n : got[k] = npos THEN npos
                              ELSE FromDigits(sizes, got, n))
    BY <2>6, FoundByDigits
  <2>8. QED BY <2>2, <2>7 DEF FromDigits
<1>18. QED BY <1>16, <1>17

(* Every binning that a factory makes finds its bins. *)
LEMMA BinningFinds ==
  ASSUME NEW b, IsPart(b) \/ IsProduct(b)
  PROVE  Finds(b)
<1>1. CASE IsPart(b)
  <2>1. IsBins(b.bins) /\ \A x \in NumberPoints(NAxes(b.bins)) : CorrectIndex(b.bins, x, FindInPart(b, x))
    BY <1>1, PartFinds
  <2>2. b.kind # "product"
    <3>1. ASSUME b \in {FromExtents(b.bins), BruteForce(b.bins)} PROVE b.kind # "product"
      <4>1. b.kind = "from_extents" \/ b.kind = "brute_force"
        BY <3>1 DEF FromExtents, BruteForce
      <4>2. QED BY <4>1
    <3>2. QED BY <1>1, <3>1 DEF IsPart
  <2>3. \A x : FindBin(b, x) = FindInPart(b, x)
    BY <2>2 DEF FindBin
  <2>4. QED BY <2>1, <2>3 DEF Finds
<1>2. CASE IsProduct(b)
  <2> DEFINE parts == b.parts
             bins == b.bins
  <2>1. /\ b.kind = "product" /\ parts # <<>> /\ parts \in Seq(ToSet(parts))
        /\ \A k \in DOMAIN parts : IsPart(parts[k])
        /\ bins = Product(parts).bins
    BY <1>2 DEF IsProduct
  <2>2. \A x : FindBin(b, x) = FindInProduct(parts, x)
    BY <2>1 DEF FindBin
  <2> HIDE DEF parts, bins
  <2>3. IsBins(bins) /\ \A x \in NumberPoints(NAxes(bins)) : CorrectIndex(bins, x, FindInProduct(parts, x))
    BY <2>1, ProductFinds
  <2>4. QED BY <2>2, <2>3 DEF Finds, bins
<1>3. QED BY <1>1, <1>2

(* Bins that are not refused make binnings that find them. *)
LEMMA ExtentsFind ==
  ASSUME NEW bins, IsBins(bins), Refusal(bins) = "none"
  PROVE  Finds(FromExtents(bins)) /\ Finds(BruteForce(bins))
<1>1. IsPart(FromExtents(bins)) /\ IsPart(BruteForce(bins))
  BY DEF IsPart, FromExtents, BruteForce
<1>2. QED BY <1>1, BinningFinds

(* Bins that are found contain no point twice, *)
LEMMA OneHomeIfFound ==
  ASSUME NEW b, Finds(b)
  PROVE  \A x \in NumberPoints(NAxes(b.bins)) : OneHome(b.bins, x)
BY DEF Finds, CorrectIndex, OneHome

(* and so there is no bin twice: its lower ends would be a point of both. *)
LEMMA NoneTwice ==
  ASSUME NEW bins, IsBins(bins), \A x \in NumberPoints(NAxes(bins)) : OneHome(bins, x)
  PROVE  IsInjective(bins)
<1> DEFINE n == NAxes(bins)
           corner(i) == [a \in 1 .. n |-> bins[i][a].low]
<1>1. n \in Nat \ {0} /\ DOMAIN bins = 1 .. Len(bins)
      /\ \A i \in DOMAIN bins : bins[i] \in BinsOf(n)
  BY BinsAre
<1> HIDE DEF n
<1>2. ASSUME NEW i \in DOMAIN bins PROVE corner(i) \in NumberPoints(n) /\ InBin(bins[i], corner(i))
  <2> DEFINE bin == bins[i]
             x == corner(i)
  <2>1. bin \in BinsOf(n) /\ \A a \in 1 .. n : bin[a] \in ProperExtents
    BY <1>1 DEF BinsOf
  <2>2. \A a \in 1 .. n : x[a] = bin[a].low /\ bin[a].low \in Numbers /\ bin[a].low \in Int
                          /\ bin[a].low < bin[a].high
    BY <2>1, ProperExtent
  <2>3. x \in NumberPoints(n)
    BY <2>2 DEF NumberPoints
  <2> HIDE DEF bin, x
  <2>4. InBin(bin, x) <=> \A a \in 1 .. n : bin[a].low <= x[a] /\ x[a] < bin[a].high
    BY <1>1, <2>1, <2>3, InBinMeans
  <2>5. InBin(bin, x)
    BY <2>2, <2>4
  <2>6. QED BY <2>3, <2>5 DEF bin, x
<1>3. ASSUME NEW i \in DOMAIN bins, NEW j \in DOMAIN bins, bins[i] = bins[j] PROVE i = j
  <2>1. corner(i) \in NumberPoints(n) /\ InBin(bins[i], corner(i)) /\ InBin(bins[j], corner(i))
    BY <1>2, <1>3
  <2>2. i \in HomesOf(bins, corner(i)) /\ j \in HomesOf(bins, corner(i))
    BY <2>1 DEF HomesOf
  <2>3. QED BY <2>1, <2>2 DEF OneHome, n
<1>4. QED BY <1>3 DEF IsInjective

-----------------------------------------------------------------------------
(* The size of a bin can be divided by. *)
LEMMA SizeOfBin ==
  ASSUME NEW n \in Nat, NEW bin \in BinsOf(n)
  PROVE  BinSize(bin) \in Nat \ {0}
<1> DEFINE widths == [i \in DOMAIN bin |-> Width(bin[i])]
<1>1. DOMAIN bin = 1 .. n /\ \A i \in 1 .. n : bin[i] \in ProperExtents
  BY DEF BinsOf
<1>2. \A i \in 1 .. n : widths[i] \in Nat \ {0}
  BY <1>1, ProperExtent DEF Width
<1>3. Len(bin) = n
  <2>1. bin \in [1 .. n -> ProperExtents]
    BY DEF BinsOf
  <2>2. QED BY <2>1, SeqOfFunction
<1> HIDE DEF widths
<1> DEFINE S == {k \in 0 .. n : ProductTo(widths, k) \in Nat \ {0}}
<1>4. 0 \in S
  BY ProductOfNone
<1>5. ASSUME NEW k \in 0 .. n - 1, k \in S PROVE k + 1 \in S
  <2> DEFINE p == ProductTo(widths, k)
             w == widths[k + 1]
  <2>1. k \in Nat /\ k + 1 \in 1 .. n /\ k + 1 \in 0 .. n /\ \A i \in 1 .. k + 1 : i \in 1 .. n
    OBVIOUS
  <2>2. \A i \in 1 .. k + 1 : widths[i] \in Int
    BY <1>2, <2>1
  <2>3. ProductTo(widths, k + 1) = p * w /\ p \in Nat \ {0} /\ w \in Nat \ {0}
    BY <1>2, <1>5, <2>1, <2>2, ProductNext
  <2> HIDE DEF p, w
  <2>4. p * w \in Nat \ {0}
    BY <2>3, ModStep
  <2>5. QED BY <2>1, <2>3, <2>4
<1> HIDE DEF S
<1>6. \A k \in 0 .. n : k \in S
  BY <1>4, <1>5, BoundedInduction
<1>7. ProductTo(widths, n) \in Nat \ {0}
  <2>1. n \in S
    BY <1>6
  <2>2. QED BY <2>1 DEF S
<1>8. QED BY <1>3, <1>7 DEF BinSize, widths

-----------------------------------------------------------------------------
(* What a histogram is, and what its contents are sums of: the weights of  *)
(* the entries in each bin, and their squares.                             *)
IsHist(h) ==
  /\ h = [type |-> h.type, binning |-> h.binning, cells |-> h.cells, err2 |-> h.err2,
          numFills |-> h.numFills]
  /\ h.type \in {"HistFrame", "BinnedValues"}
  /\ IsBins(h.binning.bins) /\ IsInjective(h.binning.bins)
  /\ h.binning.kind # "none" => Finds(h.binning)
  /\ h.cells \in [DOMAIN h.binning.bins -> Int]
  /\ h.err2 \in [DOMAIN h.binning.bins -> Int]
  /\ h.numFills \in Nat

(* Entries in some bins, and the amounts their bins are to hold: weights   *)
(* and squares of weights, each for its own bin only.                      *)
EntriesIn(bins) == [home : ToSet(bins), w : Int]
Amounts1(T) == [e \in T |-> e.w]
Amounts2(T) == [e \in T |-> e.w * e.w]
Inside(T, q, bin) == [e \in T |-> IF e.home = bin THEN q[e] ELSE 0]

(* The amounts q of the entries es by the bin. *)
Collects(bins, contents, es, q) ==
  \A i \in DOMAIN bins : contents[i] = SumOf(es, Inside(EntriesIn(bins), q, bins[i]))

(* The histogram h holds the entries es. *)
Holding(h, es) ==
  LET bins == h.binning.bins IN
  /\ es \in Seq(EntriesIn(bins))
  /\ Collects(bins, h.cells, es, Amounts1(EntriesIn(bins)))
  /\ h.type = "HistFrame" => Collects(bins, h.err2, es, Amounts2(EntriesIn(bins)))

(* The parts of an entry and its amounts. *)
LEMMA EntryIn ==
  ASSUME NEW bins, NEW e \in EntriesIn(bins)
  PROVE  /\ e.home \in ToSet(bins) /\ e.w \in Int /\ e.w * e.w \in Int
         /\ e = [home |-> e.home, w |-> e.w]
         /\ Amounts1(EntriesIn(bins))[e] = e.w
         /\ Amounts2(EntriesIn(bins))[e] = e.w * e.w
<1>1. e.home \in ToSet(bins) /\ e.w \in Int /\ e = [home |-> e.home, w |-> e.w]
  BY DEF EntriesIn
<1>2. \A i, j \in Int : i * j \in Int
  OBVIOUS
<1>3. QED BY <1>1, <1>2 DEF Amounts1, Amounts2

(* Amounts are integers, of all entries *)
LEMMA AmountsType ==
  ASSUME NEW bins
  PROVE  LET T == EntriesIn(bins) IN
         Amounts1(T) \in [T -> Int] /\ Amounts2(T) \in [T -> Int]
<1>1. \A e \in EntriesIn(bins) : e.w \in Int /\ e.w * e.w \in Int
  BY EntryIn
<1>2. QED BY <1>1 DEF Amounts1, Amounts2

(* and of those in one bin. *)
LEMMA InsideType ==
  ASSUME NEW T, NEW q \in [T -> Int], NEW bin
  PROVE  /\ Inside(T, q, bin) \in [T -> Int]
         /\ \A e \in T : Inside(T, q, bin)[e] = IF e.home = bin THEN q[e] ELSE 0
BY DEF Inside

(* The sums that the invariant of the model is about. *)
LEMMA SumInIs ==
  ASSUME NEW bins, NEW es \in Seq(EntriesIn(bins)), NEW bin
  PROVE  LET T == EntriesIn(bins) IN
         /\ SumIn(bin, es, Weights1(es)) = SumOf(es, Inside(T, Amounts1(T), bin))
         /\ SumIn(bin, es, Weights2(es)) = SumOf(es, Inside(T, Amounts2(T), bin))
<1> DEFINE T == EntriesIn(bins)
<1>1. \A k \in DOMAIN es : es[k] \in T
  BY LenProperties, ElementOfSeq
<1>2. \A e \in T : Amounts1(T)[e] = e.w /\ Amounts2(T)[e] = e.w * e.w
  BY EntryIn
<1>3. /\ \A e \in T : Inside(T, Amounts1(T), bin)[e] = IF e.home = bin THEN e.w ELSE 0
      /\ \A e \in T : Inside(T, Amounts2(T), bin)[e] = IF e.home = bin THEN e.w * e.w ELSE 0
  BY <1>2 DEF Inside
<1> HIDE DEF T
<1>4. [k \in DOMAIN es |-> IF es[k].home = bin THEN Weights1(es)[k] ELSE 0]
        = [k \in DOMAIN es |-> Inside(T, Amounts1(T), bin)[es[k]]]
  <2>1. \A k \in DOMAIN es : Weights1(es)[k] = es[k].w
    BY DEF Weights1
  <2>2. QED BY <1>1, <1>3, <2>1
<1>5. [k \in DOMAIN es |-> IF es[k].home = bin THEN Weights2(es)[k] ELSE 0]
        = [k \in DOMAIN es |-> Inside(T, Amounts2(T), bin)[es[k]]]
  <2>1. \A k \in DOMAIN es : Weights2(es)[k] = es[k].w * es[k].w
    BY DEF Weights2
  <2>2. QED BY <1>1, <1>3, <2>1
<1>6. QED BY <1>4, <1>5 DEF SumIn, SumOf, T

-----------------------------------------------------------------------------
(* Making, filling. *)

(* A histogram is made empty, over a binning that finds its bins. *)
LEMMA EmptyIsHist ==
  ASSUME NEW b, Finds(b)
  PROVE  /\ IsHist(EmptyHist(b)) /\ Holding(EmptyHist(b), <<>>)
         /\ EmptyHist(b).binning = b
<1> DEFINE bins == b.bins
           h == EmptyHist(b)
           zero == [i \in DOMAIN bins |-> 0]
<1>1. IsBins(bins) /\ IsInjective(bins)
  BY OneHomeIfFound, NoneTwice DEF Finds
<1>2. /\ h = [type |-> "HistFrame", binning |-> b, cells |-> zero, err2 |-> zero, numFills |-> 0]
      /\ h.type = "HistFrame" /\ h.binning = b /\ h.cells = zero /\ h.err2 = zero /\ h.numFills = 0
  BY DEF EmptyHist
<1>3. zero \in [DOMAIN bins -> Int] /\ \A i \in DOMAIN bins : zero[i] = 0
  OBVIOUS
<1> HIDE DEF zero, h
<1>4. IsHist(h)
  BY <1>1, <1>2, <1>3 DEF IsHist
<1>5. \A q : Collects(bins, zero, <<>>, q)
  BY <1>3, SumOfEmpty DEF Collects
<1>6. <<>> \in Seq(EntriesIn(bins))
  BY EmptySeq
<1>7. Holding(h, <<>>)
  BY <1>2, <1>5, <1>6 DEF Holding
<1>8. QED BY <1>2, <1>4, <1>7 DEF h

(* One entry more in a bin. *)
LEMMA CollectsOneMore ==
  ASSUME NEW bins, IsInjective(bins), NEW T, T = EntriesIn(bins),
         NEW es \in Seq(T), NEW q \in [T -> Int], NEW contents \in [DOMAIN bins -> Int],
         Collects(bins, contents, es, q),
         NEW e \in T, NEW j \in DOMAIN bins, e.home = bins[j], NEW d, d = q[e]
  PROVE  Collects(bins, [contents EXCEPT ![j] = @ + d], Append(es, e), q)
<1> DEFINE more == [contents EXCEPT ![j] = @ + d]
<1>1. ASSUME NEW i \in DOMAIN bins
      PROVE  more[i] = SumOf(Append(es, e), Inside(T, q, bins[i]))
  <2> DEFINE g == Inside(T, q, bins[i])
  <2>1. g \in [T -> Int] /\ g[e] = IF e.home = bins[i] THEN q[e] ELSE 0
    BY InsideType
  <2>2. e.home = bins[i] <=> i = j
    BY DEF IsInjective
  <2>3. contents[i] = SumOf(es, g)
    BY DEF Collects
  <2> HIDE DEF g
  <2>4. SumOf(Append(es, e), g) = SumOf(es, g) + g[e]
    BY <2>1, SumOfAppend
  <2>5. more[i] = IF i = j THEN contents[i] + d ELSE contents[i]
    OBVIOUS
  <2>6. contents[i] \in Int
    OBVIOUS
  <2>7. QED BY <2>1, <2>2, <2>3, <2>4, <2>5, <2>6 DEF g
<1>2. QED BY <1>1 DEF Collects

(* A fill of a histogram whose search returned the right index. *)
Fills(h, es, x, i, w) ==
  /\ IsHist(h) /\ Holding(h, es) /\ h.type = "HistFrame"
  /\ CorrectIndex(h.binning.bins, x, i) /\ w \in Int

(* FillBin() adds the entry to its bin, or ignores it as no bin holds it. *)
LEMMA FilledIsHist ==
  ASSUME NEW h, NEW es, NEW x, NEW i, NEW w, Fills(h, es, x, i, w)
  PROVE  /\ IsHist(FillBin(h, i, w)) /\ FillBin(h, i, w).type = h.type
         /\ FillBin(h, i, w).binning = h.binning
         /\ Holding(FillBin(h, i, w), es \o EntriesOf(h.binning.bins, x, w))
<1> USE DEF Fills
<1> DEFINE bins == h.binning.bins
           T == EntriesIn(bins)
           n == Len(bins)
<1>1. /\ h = [type |-> h.type, binning |-> h.binning, cells |-> h.cells, err2 |-> h.err2,
              numFills |-> h.numFills]
      /\ IsBins(bins) /\ IsInjective(bins) /\ n \in Nat /\ DOMAIN bins = 1 .. n
      /\ h.cells \in [1 .. n -> Int] /\ h.err2 \in [1 .. n -> Int] /\ h.numFills \in Nat
  BY BinsAre DEF IsHist
<1>2. Len(h.cells) = n
  <2> DEFINE c == h.cells
  <2>1. c \in [1 .. n -> Int]
    BY <1>1
  <2> HIDE DEF c, n
  <2>2. Len(c) = n
    BY <1>1, <2>1, SeqOfFunction
  <2>3. QED BY <2>2 DEF c
<1>3. /\ es \in Seq(T)
      /\ Collects(bins, h.cells, es, Amounts1(T))
      /\ Collects(bins, h.err2, es, Amounts2(T))
  BY DEF Holding
<1>4. i \in Int /\ HomesOf(bins, x) = IF i = npos THEN {} ELSE {i + 1}
  BY DEF CorrectIndex
<1>5. HomesOf(bins, x) \subseteq 1 .. n
  BY <1>1 DEF HomesOf
<1>6. CASE i = npos
  <2>1. FillBin(h, i, w) = h
    BY <1>1, <1>2, <1>6 DEF FillBin, npos
  <2>2. EntriesOf(bins, x, w) = <<>>
    <3>1. Cardinality(HomesOf(bins, x)) = 0
      BY <1>4, <1>6, FS_EmptySet
    <3>2. QED BY <3>1 DEF EntriesOf
  <2>3. es \o <<>> = es
    BY <1>3, ConcatEmptySeq
  <2>4. QED BY <2>1, <2>2, <2>3
<1>7. CASE i # npos
  <2> DEFINE j == i + 1
             d == w * Unit
             e == [home |-> bins[j], w |-> d]
             d2 == w * w * Unit * Unit
             cells1 == [h.cells EXCEPT ![j] = @ + d]
             err1 == [h.err2 EXCEPT ![j] = @ + d2]
             fills1 == IF w = 0 THEN h.numFills ELSE h.numFills + 1
             h1 == FillBin(h, i, w)
  <2>1. j \in 1 .. n /\ HomesOf(bins, x) = {j} /\ i \in 0 .. n - 1
    BY <1>1, <1>4, <1>5, <1>7
  <2>2. EntriesOf(bins, x, w) = <<e>>
    <3> DEFINE H == HomesOf(bins, x)
               chosen == CHOOSE k \in H : TRUE
    <3>1. EntriesOf(bins, x, w) = [k \in 1 .. Cardinality(H) |-> [home |-> bins[chosen], w |-> w * Unit]]
      BY DEF EntriesOf
    <3>2. H = {j}
      BY <2>1
    <3>3. Cardinality(H) = 1
      BY <3>2, FS_Singleton
    <3>4. chosen = j
      BY <3>2
    <3> HIDE DEF H, chosen, j
    <3>5. EntriesOf(bins, x, w) = [k \in 1 .. 1 |-> e]
      BY <3>1, <3>3, <3>4
    <3> HIDE DEF e
    <3>6. [k \in 1 .. 1 |-> e] = <<e>>
      OBVIOUS
    <3>7. QED BY <3>5, <3>6
  <2>3. Unit \in Nat \ {0} /\ d \in Int /\ d2 \in Int /\ d2 = d * d
    <3>1. Unit \in Nat \ {0}
      BY BoundsAssumption
    <3>2. \A a, u \in Int : /\ a * u \in Int /\ a * a \in Int /\ a * a * u \in Int /\ a * a * u * u \in Int
                            /\ a * a * u * u = (a * u) * (a * u)
      OBVIOUS
    <3>3. QED BY <3>1, <3>2
  <2>4. h1 = [h EXCEPT !.cells = cells1, !.err2 = err1, !.numFills = fills1]
    <3>1. CASE w # 0
      BY <1>2, <2>1, <3>1 DEF FillBin
    <3>2. CASE w = 0
      <4>1. d = 0 /\ d2 = 0
        BY <2>3, <3>2
      <4> DEFINE c == h.cells
                 r == h.err2
      <4>2. c \in [1 .. n -> Int] /\ r \in [1 .. n -> Int]
        BY <1>1
      <4> HIDE DEF c, r, d, d2, j, n
      <4>3. [c EXCEPT ![j] = @ + d] = c /\ [r EXCEPT ![j] = @ + d2] = r
        BY <2>1, <4>1, <4>2
      <4>4. cells1 = h.cells /\ err1 = h.err2 /\ fills1 = h.numFills
        BY <3>2, <4>3 DEF c, r
      <4>5. h1 = h
        BY <3>2 DEF FillBin
      <4> HIDE DEF cells1, err1, fills1, h1
      <4>6. [h EXCEPT !.cells = h.cells, !.err2 = h.err2, !.numFills = h.numFills] = h
        BY <1>1
      <4>7. QED BY <4>4, <4>5, <4>6
    <3>3. QED BY <3>1, <3>2
  <2> HIDE DEF d, d2
  <2>5. cells1 \in [1 .. n -> Int] /\ err1 \in [1 .. n -> Int] /\ fills1 \in Nat
    <3> DEFINE c == h.cells
               r == h.err2
    <3>1. c \in [1 .. n -> Int] /\ r \in [1 .. n -> Int]
      BY <1>1
    <3> HIDE DEF c, r, j, n
    <3>2. [c EXCEPT ![j] = @ + d] \in [1 .. n -> Int] /\ [r EXCEPT ![j] = @ + d2] \in [1 .. n -> Int]
      BY <2>1, <2>3, <3>1
    <3>3. fills1 \in Nat
      BY <1>1
    <3>4. QED BY <3>2, <3>3 DEF c, r
  <2>6. e \in T /\ e.home = bins[j] /\ Amounts1(T)[e] = d /\ Amounts2(T)[e] = d2
    <3>1. e \in T
      BY <1>1, <2>1, <2>3 DEF EntriesIn, ToSet
    <3>2. e.home = bins[j] /\ e.w = d
      OBVIOUS
    <3> HIDE DEF e
    <3>3. QED BY <2>3, <3>1, <3>2, EntryIn
  <2> HIDE DEF e, fills1
  <2>7. Collects(bins, cells1, Append(es, e), Amounts1(T)) /\ Collects(bins, err1, Append(es, e), Amounts2(T))
    <3>1. Amounts1(T) \in [T -> Int] /\ Amounts2(T) \in [T -> Int]
      BY AmountsType
    <3> HIDE DEF bins, j
    <3>2. Collects(bins, cells1, Append(es, e), Amounts1(T))
      <4> DEFINE c == h.cells
                 q == Amounts1(T)
      <4>1. c \in [DOMAIN bins -> Int] /\ Collects(bins, c, es, q) /\ q \in [T -> Int] /\ d = q[e]
            /\ j \in DOMAIN bins
        BY <1>1, <1>3, <2>1, <2>6, <3>1
      <4> DEFINE U == T
      <4>2. U = EntriesIn(bins) /\ es \in Seq(U) /\ e \in U /\ q \in [U -> Int]
        BY <1>3, <2>6, <3>1
      <4> HIDE DEF c, q, U
      <4>3. Collects(bins, [c EXCEPT ![j] = @ + d], Append(es, e), q)
        BY <1>1, <2>6, <4>1, <4>2, CollectsOneMore
      <4>4. QED BY <4>3 DEF c, q
    <3>3. Collects(bins, err1, Append(es, e), Amounts2(T))
      <4> DEFINE c == h.err2
                 q == Amounts2(T)
      <4>1. c \in [DOMAIN bins -> Int] /\ Collects(bins, c, es, q) /\ q \in [T -> Int] /\ d2 = q[e]
            /\ j \in DOMAIN bins
        BY <1>1, <1>3, <2>1, <2>6, <3>1
      <4> DEFINE U == T
      <4>2. U = EntriesIn(bins) /\ es \in Seq(U) /\ e \in U /\ q \in [U -> Int]
        BY <1>3, <2>6, <3>1
      <4> HIDE DEF c, q, U
      <4>3. Collects(bins, [c EXCEPT ![j] = @ + d2], Append(es, e), q)
        BY <1>1, <2>6, <4>1, <4>2, CollectsOneMore
      <4>4. QED BY <4>3 DEF c, q
    <3>4. QED BY <3>2, <3>3
  <2> HIDE DEF cells1, err1, h1
  <2>8. /\ h1 = [type |-> h.type, binning |-> h.binning, cells |-> cells1, err2 |-> err1,
                 numFills |-> fills1]
        /\ h1.type = h.type /\ h1.binning = h.binning /\ h1.cells = cells1 /\ h1.err2 = err1
        /\ h1.numFills = fills1
    BY <1>1, <2>4
  <2>9. IsHist(h1)
    BY <1>1, <2>5, <2>8 DEF IsHist
  <2>10. es \o <<e>> = Append(es, e) /\ Append(es, e) \in Seq(T)
    <3> HIDE DEF T
    <3>1. QED BY <1>3, <2>6, AppendIsConcat, AppendProperties
  <2>11. Holding(h1, es \o EntriesOf(bins, x, w))
    BY <2>2, <2>7, <2>8, <2>10 DEF Holding
  <2>12. QED BY <2>8, <2>9, <2>11 DEF h1
<1>8. QED BY <1>6, <1>7

-----------------------------------------------------------------------------
(* The same entries with other amounts: es1 has the entries of es, and the *)
(* amount of each is f times the one before, f depending on the bin.       *)
Rescaled(bins, es, es1, q, q1, f) ==
  LET T == EntriesIn(bins) IN
  /\ es \in Seq(T) /\ es1 \in Seq(T) /\ Len(es) = Len(es1)
  /\ q \in [T -> Int] /\ q1 \in [T -> Int] /\ f \in [ToSet(bins) -> Int]
  /\ \A k \in 1 .. Len(es) :
       es1[k].home = es[k].home /\ q1[es1[k]] = f[es[k].home] * q[es[k]]

(* Contents that are multiplied by the factors hold the new amounts, *)
LEMMA CollectsRescaled ==
  ASSUME NEW bins, NEW es, NEW es1, NEW q, NEW q1, NEW f, Rescaled(bins, es, es1, q, q1, f),
         NEW contents, Collects(bins, contents, es, q)
  PROVE  Collects(bins, [i \in DOMAIN bins |-> f[bins[i]] * contents[i]], es1, q1)
<1> DEFINE T == EntriesIn(bins)
<1>1. /\ es \in Seq(T) /\ es1 \in Seq(T) /\ Len(es) = Len(es1)
      /\ q \in [T -> Int] /\ q1 \in [T -> Int]
      /\ \A bin \in ToSet(bins) : f[bin] \in Int
      /\ \A k \in 1 .. Len(es) :
           es1[k].home = es[k].home /\ q1[es1[k]] = f[es[k].home] * q[es[k]]
  BY DEF Rescaled
<1>2. \A k \in 1 .. Len(es) : es[k] \in T /\ es1[k] \in T
  BY <1>1, LenProperties, ElementOfSeq
<1> HIDE DEF T
<1>3. ASSUME NEW i \in DOMAIN bins
      PROVE  f[bins[i]] * contents[i] = SumOf(es1, Inside(T, q1, bins[i]))
  <2> DEFINE bin == bins[i]
             a == f[bin]
             g == Inside(T, q, bin)
             g1 == Inside(T, q1, bin)
             m == [e \in T |-> IF e.home = bin THEN a * q[e] ELSE 0]
             zero == 0
  <2>1. a \in Int
    BY <1>1 DEF ToSet
  <2>2. /\ g \in [T -> Int] /\ \A e \in T : g[e] = IF e.home = bin THEN q[e] ELSE 0
    BY <1>1, InsideType
  <2>3. /\ g1 \in [T -> Int] /\ \A e \in T : g1[e] = IF e.home = bin THEN q1[e] ELSE 0
    BY <1>1, InsideType
  <2>4. contents[i] = SumOf(es, g)
    BY DEF Collects, T
  <2> HIDE DEF g, g1
  <2>5. \A k \in 1 .. Len(es) :
          es[k].home = bin => q1[es1[k]] = a * q[es[k]]
    BY <1>1
  <2> HIDE DEF a, bin
  <2>6. \A e \in T : q[e] \in Int /\ a * q[e] \in Int
    BY <1>1, <2>1
  <2>7. m \in [T -> Int] /\ \A e \in T : m[e] = IF e.home = bin THEN a * q[e] ELSE 0
    BY <2>6
  <2> HIDE DEF m
  <2>8. \A k \in 1 .. Len(es) : g1[es1[k]] = m[es[k]]
    BY <1>1, <1>2, <2>3, <2>5, <2>7
  <2>9. SumOf(es1, g1) = SumOf(es, m)
    <3>1. Replaces(T, es, m, T, es1, g1)
      BY <1>1, <2>3, <2>7, <2>8 DEF Replaces
    <3>2. QED BY <3>1, SumOfReplaced
  <2>10. \A e \in T : m[e] = a * g[e] + zero * g[e]
    BY <2>1, <2>2, <2>6, <2>7
  <2> HIDE DEF zero
  <2>11. LinearOn(T, es, m, a, g, zero, g)
    <3>1. \A e \in ToSet(es) : e \in T
      BY <1>1, ToSetType
    <3>2. zero \in Int
      BY DEF zero
    <3>3. \A e \in T : g[e] \in Int
      BY <2>2
    <3>4. QED BY <1>1, <2>1, <2>2, <2>7, <2>10, <3>1, <3>2, <3>3 DEF LinearOn, Combines
  <2>12. SumOf(es, m) = a * SumOf(es, g) + zero * SumOf(es, g)
    BY <2>11, SumOfLinear
  <2>13. SumOf(es, g) \in Int
    BY <1>1, <2>2, SumOfType
  <2>14. SumOf(es, m) = a * SumOf(es, g)
    <3>1. \A s \in Int : a * s + zero * s = a * s
      BY <2>1 DEF zero
    <3>2. QED BY <2>12, <2>13, <3>1
  <2>15. QED BY <2>4, <2>9, <2>14 DEF a, bin, g1
<1>4. QED BY <1>3 DEF Collects, T

(* and contents divided by them do when the old amounts are multiples. *)
LEMMA CollectsDivided ==
  ASSUME NEW bins, NEW es, NEW es1, NEW q, NEW q1, NEW f, Rescaled(bins, es1, es, q1, q, f),
         \A bin \in ToSet(bins) : f[bin] \in Nat \ {0},
         NEW contents, Collects(bins, contents, es, q)
  PROVE  Collects(bins, [i \in DOMAIN bins |-> contents[i] \div f[bins[i]]], es1, q1)
<1> DEFINE T == EntriesIn(bins)
           parts == [i \in DOMAIN bins |-> SumOf(es1, Inside(T, q1, bins[i]))]
           whole == [i \in DOMAIN bins |-> f[bins[i]] * parts[i]]
<1>1. Collects(bins, parts, es1, q1)
  BY DEF Collects
<1>2. \A i \in DOMAIN bins : parts[i] \in Int
  <2>1. es1 \in Seq(T) /\ q1 \in [T -> Int]
    BY DEF Rescaled
  <2> TAKE i \in DOMAIN bins
  <2> DEFINE g == Inside(T, q1, bins[i])
  <2>2. g \in [T -> Int]
    BY <2>1, InsideType
  <2> HIDE DEF g, T
  <2>3. SumOf(es1, g) \in Int
    BY <2>1, <2>2, SumOfType
  <2>4. QED BY <2>3 DEF g
<1> HIDE DEF parts
<1>3. Collects(bins, whole, es, q)
  BY <1>1, CollectsRescaled
<1>4. ASSUME NEW i \in DOMAIN bins PROVE contents[i] \div f[bins[i]] = parts[i]
  <2> DEFINE a == f[bins[i]]
             p == parts[i]
  <2>1. contents[i] = a * p
    BY <1>3 DEF Collects
  <2>2. a \in Nat \ {0} /\ p \in Int
    BY <1>2 DEF ToSet
  <2> HIDE DEF a, p
  <2> DEFINE c == contents[i]
             r == 0
  <2>3. c \in Int /\ c = (a * p) + r /\ r \in 0 .. a - 1
    BY <2>1, <2>2
  <2> HIDE DEF c, r
  <2>4. c \div a = p
    BY <2>2, <2>3, DivModUnique
  <2>5. QED BY <2>4 DEF a, p, c
<1>5. \A i \in DOMAIN bins : contents[i] \div f[bins[i]] = SumOf(es1, Inside(T, q1, bins[i]))
  BY <1>4 DEF parts
<1>6. QED BY <1>5 DEF Collects

(* The same entries with other weights. *)
Reweighted(bins, es, v, es1) ==
  /\ es \in Seq(EntriesIn(bins))
  /\ \A k \in DOMAIN es : v[k] \in Int
  /\ es1 = [k \in DOMAIN es |-> [es[k] EXCEPT !.w = v[k]]]

(* They stay in their bins. *)
LEMMA WithWeights ==
  ASSUME NEW bins, NEW es, NEW v, NEW es1, Reweighted(bins, es, v, es1)
  PROVE  /\ es1 \in Seq(EntriesIn(bins)) /\ Len(es1) = Len(es)
         /\ \A k \in 1 .. Len(es) : /\ es1[k].home = es[k].home /\ es1[k].w = v[k]
                                    /\ es[k] \in EntriesIn(bins) /\ es1[k] \in EntriesIn(bins)
<1> DEFINE T == EntriesIn(bins)
           n == Len(es)
<1> USE DEF Reweighted
<1>1. n \in Nat /\ DOMAIN es = 1 .. n /\ \A k \in 1 .. n : es[k] \in T
  BY LenProperties, ElementOfSeq
<1>2. ASSUME NEW k \in 1 .. n
      PROVE  es1[k] \in T /\ es1[k].home = es[k].home /\ es1[k].w = v[k]
  <2> DEFINE e == es[k]
             u == v[k]
  <2>1. e \in T /\ u \in Int
    BY <1>1
  <2>2. e = [home |-> e.home, w |-> e.w] /\ e.home \in ToSet(bins)
    BY <2>1 DEF EntriesIn
  <2>3. es1[k] = [e EXCEPT !.w = u]
    BY <1>1
  <2> HIDE DEF e, u
  <2>4. [e EXCEPT !.w = u] = [home |-> e.home, w |-> u]
    BY <2>2
  <2>5. [home |-> e.home, w |-> u] \in T
    BY <2>1, <2>2 DEF EntriesIn
  <2>6. QED BY <2>3, <2>4, <2>5 DEF e, u
<1>3. es1 \in [1 .. n -> T]
  BY <1>1, <1>2
<1> HIDE DEF T, n
<1>4. es1 \in Seq(T) /\ Len(es1) = n
  BY <1>1, <1>3, SeqOfFunction
<1>5. QED BY <1>1, <1>2, <1>4 DEF T, n

(* Scale multiplies the contents, and the weights of all entries. *)
LEMMA ScaledIsHist ==
  ASSUME NEW h, NEW es, IsHist(h), Holding(h, es), NEW f \in Int
  PROVE  /\ IsHist(Scaled(h, f)) /\ Scaled(h, f).binning = h.binning
         /\ Holding(Scaled(h, f), [k \in DOMAIN es |-> [es[k] EXCEPT !.w = f * @]])
<1> DEFINE bins == h.binning.bins
           T == EntriesIn(bins)
           h1 == Scaled(h, f)
           v == [k \in DOMAIN es |-> f * es[k].w]
           es1 == [k \in DOMAIN es |-> [es[k] EXCEPT !.w = f * @]]
           ff == f * f
           f1 == [bin \in ToSet(bins) |-> f]
           f2 == [bin \in ToSet(bins) |-> ff]
           cells1 == [i \in DOMAIN h.cells |-> f * h.cells[i]]
           err1 == [i \in DOMAIN h.err2 |-> ff * h.err2[i]]
<1>1. /\ h = [type |-> h.type, binning |-> h.binning, cells |-> h.cells, err2 |-> h.err2,
              numFills |-> h.numFills]
      /\ h.cells \in [DOMAIN bins -> Int] /\ h.err2 \in [DOMAIN bins -> Int]
  BY DEF IsHist
<1>2. es \in Seq(T) /\ Collects(bins, h.cells, es, Amounts1(T))
      /\ (h.type = "HistFrame" => Collects(bins, h.err2, es, Amounts2(T)))
  BY DEF Holding
<1>3. ff \in Int
  OBVIOUS
<1>4. \A k \in DOMAIN es : v[k] \in Int /\ es[k].w \in Int /\ v[k] = f * es[k].w
  <2>1. \A k \in DOMAIN es : es[k] \in T
    BY <1>2, LenProperties, ElementOfSeq
  <2>2. \A k \in DOMAIN es : es[k].w \in Int
    BY <2>1, EntryIn
  <2>3. QED BY <2>2
<1>5. es1 = [k \in DOMAIN es |-> [es[k] EXCEPT !.w = v[k]]]
  OBVIOUS
<1> HIDE DEF v, es1
<1>6. /\ es1 \in Seq(T) /\ Len(es1) = Len(es)
      /\ \A k \in 1 .. Len(es) : /\ es1[k].home = es[k].home /\ es1[k].w = v[k]
                                 /\ es[k] \in T /\ es1[k] \in T
  <2>1. Reweighted(bins, es, v, es1)
    BY <1>2, <1>4, <1>5 DEF Reweighted
  <2>2. QED BY <2>1, WithWeights
<1>7. Amounts1(T) \in [T -> Int] /\ Amounts2(T) \in [T -> Int]
  BY AmountsType
<1>8. \A k \in 1 .. Len(es) : k \in DOMAIN es /\ es[k].home \in ToSet(bins)
  BY <1>2, <1>6, LenProperties, EntryIn
<1>9. \A e \in T : Amounts1(T)[e] = e.w /\ Amounts2(T)[e] = e.w * e.w
  BY EntryIn
<1> HIDE DEF T, bins
<1>10. f1 \in [ToSet(bins) -> Int] /\ f2 \in [ToSet(bins) -> Int]
       /\ \A bin \in ToSet(bins) : f1[bin] = f /\ f2[bin] = ff
  BY <1>3
<1> HIDE DEF f1, f2
<1>11. Rescaled(bins, es, es1, Amounts1(T), Amounts1(T), f1)
  <2>1. ASSUME NEW k \in 1 .. Len(es)
        PROVE  Amounts1(T)[es1[k]] = f1[es[k].home] * Amounts1(T)[es[k]]
    <3>1. Amounts1(T)[es1[k]] = v[k] /\ Amounts1(T)[es[k]] = es[k].w
      BY <1>6, <1>9
    <3>2. f1[es[k].home] = f
      BY <1>8, <1>10
    <3>3. v[k] = f * es[k].w
      BY <1>4, <1>8
    <3>4. QED BY <3>1, <3>2, <3>3
  <2>2. QED BY <1>2, <1>6, <1>7, <1>10, <2>1 DEF Rescaled, T
<1>12. Rescaled(bins, es, es1, Amounts2(T), Amounts2(T), f2)
  <2>1. \A i \in Int : (f * i) * (f * i) = ff * (i * i)
    OBVIOUS
  <2>2. \A k \in 1 .. Len(es) : Amounts2(T)[es1[k]] = f2[es[k].home] * Amounts2(T)[es[k]]
    <3> TAKE k \in 1 .. Len(es)
    <3>1. es1[k].w = f * es[k].w /\ es[k].w \in Int /\ f2[es[k].home] = ff
          /\ Amounts2(T)[es1[k]] = es1[k].w * es1[k].w /\ Amounts2(T)[es[k]] = es[k].w * es[k].w
      BY <1>4, <1>6, <1>8, <1>9, <1>10
    <3> HIDE DEF ff
    <3>2. QED BY <2>1, <3>1
  <2>3. QED BY <1>2, <1>6, <1>7, <1>10, <2>2 DEF Rescaled, T
<1>13. cells1 = [i \in DOMAIN bins |-> f1[bins[i]] * h.cells[i]]
  BY <1>1, <1>10 DEF ToSet
<1>14. err1 = [i \in DOMAIN bins |-> f2[bins[i]] * h.err2[i]]
  BY <1>1, <1>10 DEF ToSet
<1>15. cells1 \in [DOMAIN bins -> Int] /\ err1 \in [DOMAIN bins -> Int]
  <2>1. \A i \in DOMAIN bins : h.cells[i] \in Int /\ h.err2[i] \in Int
    BY <1>1
  <2> HIDE DEF ff
  <2>2. \A i \in DOMAIN bins : f * h.cells[i] \in Int /\ ff * h.err2[i] \in Int
    BY <1>3, <2>1
  <2>3. QED BY <1>1, <2>2
<1>16. Collects(bins, cells1, es1, Amounts1(T))
  <2> HIDE DEF cells1
  <2>1. QED BY <1>2, <1>11, <1>13, CollectsRescaled
<1>17. h.type = "HistFrame" => Collects(bins, err1, es1, Amounts2(T))
  <2> HIDE DEF err1
  <2>1. QED BY <1>2, <1>12, <1>14, CollectsRescaled
<1>18. /\ h1 = [type |-> h.type, binning |-> h.binning, cells |-> cells1, err2 |-> err1,
                numFills |-> h.numFills]
       /\ h1.type = h.type /\ h1.binning = h.binning /\ h1.cells = cells1 /\ h1.err2 = err1
       /\ h1.numFills = h.numFills
  <2>1. h1 = [h EXCEPT !.cells = cells1, !.err2 = err1]
    BY DEF Scaled
  <2> HIDE DEF h1, cells1, err1
  <2>2. QED BY <1>1, <2>1
<1> HIDE DEF h1, cells1, err1
<1>19. IsHist(h1)
  BY <1>15, <1>18 DEF IsHist, bins
<1>20. Holding(h1, es1)
  BY <1>6, <1>16, <1>17, <1>18 DEF Holding, T, bins
<1>21. QED BY <1>18, <1>19, <1>20 DEF h1, es1

(* A histogram with other contents. *)
WithContents(h, type, cells, err2, numFills, h1) ==
  /\ h1 = [type |-> type, binning |-> h.binning, cells |-> cells, err2 |-> err2,
           numFills |-> numFills]
  /\ type \in {"HistFrame", "BinnedValues"} /\ numFills \in Nat
  /\ cells \in [DOMAIN h.binning.bins -> Int]
  /\ err2 \in [DOMAIN h.binning.bins -> Int]

(* It is a histogram over the same binning. *)
LEMMA WithContentsIsHist ==
  ASSUME NEW h, IsHist(h), NEW type, NEW c, NEW r, NEW n, NEW h1,
         WithContents(h, type, c, r, n, h1)
  PROVE  /\ IsHist(h1) /\ h1.binning = h.binning /\ h1.type = type
         /\ h1.cells = c /\ h1.err2 = r
<1>1. /\ h1.type = type /\ h1.binning = h.binning /\ h1.cells = c /\ h1.err2 = r
      /\ h1.numFills = n
  BY DEF WithContents
<1>2. IsHist(h1)
  BY <1>1 DEF WithContents, IsHist
<1>3. QED BY <1>1, <1>2

-----------------------------------------------------------------------------
(* The sizes of the bins as factors. *)
SizesOf(bins) == [bin \in ToSet(bins) |-> BinSize(bin)]

(* The size of a bin is a positive number. *)
LEMMA SizesAre ==
  ASSUME NEW bins, IsBins(bins)
  PROVE  /\ SizesOf(bins) \in [ToSet(bins) -> Int]
         /\ \A bin \in ToSet(bins) : SizesOf(bins)[bin] = BinSize(bin) /\ BinSize(bin) \in Nat \ {0}
         /\ \A i \in DOMAIN bins : bins[i] \in ToSet(bins)
<1>1. \A bin \in ToSet(bins) : BinSize(bin) \in Nat \ {0}
  <2>1. NAxes(bins) \in Nat /\ \A i \in DOMAIN bins : bins[i] \in BinsOf(NAxes(bins))
    BY BinsAre
  <2>2. \A bin \in ToSet(bins) : bin \in BinsOf(NAxes(bins))
    BY <2>1 DEF ToSet
  <2>3. QED BY <2>1, <2>2, SizeOfBin
<1>2. QED BY <1>1 DEF SizesOf, ToSet

(* Entries whose weights are multiplied, or were, by factors of the bins. *)
Factored(bins, es, v, es1, f) ==
  /\ Reweighted(bins, es, v, es1) /\ f \in [ToSet(bins) -> Int]
  /\ \A k \in DOMAIN es : v[k] = f[es[k].home] * es[k].w

Quotients(bins, es, v, es1, f) ==
  /\ Reweighted(bins, es, v, es1) /\ f \in [ToSet(bins) -> Int]
  /\ \A k \in DOMAIN es : es[k].w = f[es[k].home] * v[k]

(* In both cases the weights differ by the factors. *)
LEMMA FactoredIsRescaled ==
  ASSUME NEW bins, NEW es, NEW v, NEW es1, NEW f, Factored(bins, es, v, es1, f)
  PROVE  LET T == EntriesIn(bins) IN Rescaled(bins, es, es1, Amounts1(T), Amounts1(T), f)
<1> DEFINE T == EntriesIn(bins)
<1>1. es \in Seq(T)
  BY DEF Factored, Reweighted
<1>2. /\ es1 \in Seq(T) /\ Len(es1) = Len(es)
      /\ \A k \in 1 .. Len(es) : /\ es1[k].home = es[k].home /\ es1[k].w = v[k]
                                 /\ es[k] \in T /\ es1[k] \in T
  BY WithWeights DEF Factored
<1>3. Amounts1(T) \in [T -> Int] /\ \A e \in T : Amounts1(T)[e] = e.w
  BY AmountsType, EntryIn
<1>4. DOMAIN es = 1 .. Len(es)
  BY <1>1, LenProperties
<1> HIDE DEF T
<1>5. \A k \in 1 .. Len(es) : Amounts1(T)[es1[k]] = f[es[k].home] * Amounts1(T)[es[k]]
  <2>1. \A k \in 1 .. Len(es) : v[k] = f[es[k].home] * es[k].w
    BY <1>4 DEF Factored
  <2>2. \A k \in 1 .. Len(es) :
          /\ Amounts1(T)[es[k]] = es[k].w /\ Amounts1(T)[es1[k]] = v[k]
    BY <1>2, <1>3
  <2>3. QED BY <2>1, <2>2
<1>6. QED BY <1>1, <1>2, <1>3, <1>5 DEF Rescaled, Factored, T

(* Likewise for quotients. *)
LEMMA QuotientsAreRescaled ==
  ASSUME NEW bins, NEW es, NEW v, NEW es1, NEW f, Quotients(bins, es, v, es1, f)
  PROVE  LET T == EntriesIn(bins) IN Rescaled(bins, es1, es, Amounts1(T), Amounts1(T), f)
<1> DEFINE T == EntriesIn(bins)
<1>1. es \in Seq(T)
  BY DEF Quotients, Reweighted
<1>2. /\ es1 \in Seq(T) /\ Len(es1) = Len(es)
      /\ \A k \in 1 .. Len(es) : /\ es1[k].home = es[k].home /\ es1[k].w = v[k]
                                 /\ es[k] \in T /\ es1[k] \in T
  BY WithWeights DEF Quotients
<1>3. Amounts1(T) \in [T -> Int] /\ \A e \in T : Amounts1(T)[e] = e.w
  BY AmountsType, EntryIn
<1>4. DOMAIN es = 1 .. Len(es)
  BY <1>1, LenProperties
<1> HIDE DEF T
<1>5. \A k \in 1 .. Len(es1) : Amounts1(T)[es[k]] = f[es1[k].home] * Amounts1(T)[es1[k]]
  BY <1>2, <1>3, <1>4 DEF Quotients
<1>6. QED BY <1>1, <1>2, <1>3, <1>5 DEF Rescaled, Quotients, T

-----------------------------------------------------------------------------
(* BinnedValues to counts. *)
LEMMA CountedIsHist ==
  ASSUME NEW h, NEW es, IsHist(h), Holding(h, es), h.type = "BinnedValues"
  PROVE  /\ IsHist(TimesSizes(h)) /\ TimesSizes(h).binning = h.binning
         /\ Holding(TimesSizes(h), [k \in DOMAIN es |-> [es[k] EXCEPT !.w = @ * SizeOf(es[k])]])
<1> DEFINE bins == h.binning.bins
           T == EntriesIn(bins)
           h1 == TimesSizes(h)
           v == [k \in DOMAIN es |-> es[k].w * SizeOf(es[k])]
           es1 == [k \in DOMAIN es |-> [es[k] EXCEPT !.w = @ * SizeOf(es[k])]]
           f == SizesOf(bins)
           cells1 == [i \in DOMAIN h.cells |-> h.cells[i] * Sizes(h)[i]]
           err1 == [i \in DOMAIN h.err2 |-> h.err2[i] * Sizes(h)[i] * Sizes(h)[i]]
<1>1. /\ h = [type |-> h.type, binning |-> h.binning, cells |-> h.cells, err2 |-> h.err2,
              numFills |-> h.numFills]
      /\ IsBins(bins) /\ h.numFills \in Nat
      /\ h.cells \in [DOMAIN bins -> Int] /\ h.err2 \in [DOMAIN bins -> Int]
  BY DEF IsHist
<1>2. es \in Seq(T) /\ Collects(bins, h.cells, es, Amounts1(T))
  BY DEF Holding
<1>3. /\ f \in [ToSet(bins) -> Int]
      /\ \A bin \in ToSet(bins) : f[bin] = BinSize(bin) /\ BinSize(bin) \in Nat \ {0}
      /\ \A i \in DOMAIN bins : bins[i] \in ToSet(bins)
  BY <1>1, SizesAre
<1>4. \A i \in DOMAIN bins : Sizes(h)[i] = f[bins[i]] /\ f[bins[i]] \in Int
  BY <1>3 DEF Sizes
<1>5. \A k \in DOMAIN es : es[k] \in T
  BY <1>2, LenProperties, ElementOfSeq
<1>6. \A k \in DOMAIN es : es[k].home \in ToSet(bins) /\ es[k].w \in Int
  BY <1>5, EntryIn
<1>7. Factored(bins, es, v, es1, f)
  <2>1. \A k \in DOMAIN es : v[k] \in Int /\ v[k] = f[es[k].home] * es[k].w
    <3> TAKE k \in DOMAIN es
    <3> DEFINE w == es[k].w
               s == f[es[k].home]
    <3>1. w \in Int /\ s \in Int /\ v[k] = w * s
      BY <1>3, <1>6 DEF SizeOf
    <3> HIDE DEF w, s, v
    <3>2. w * s \in Int /\ w * s = s * w
      BY <3>1
    <3>3. QED BY <3>1, <3>2 DEF w, s
  <2>2. es1 = [k \in DOMAIN es |-> [es[k] EXCEPT !.w = v[k]]]
    OBVIOUS
  <2> HIDE DEF v, es1, f
  <2>3. QED BY <1>2, <1>3, <2>1, <2>2 DEF Factored, Reweighted
<1> HIDE DEF v, f, es1
<1>8. /\ cells1 = [i \in DOMAIN bins |-> f[bins[i]] * h.cells[i]]
      /\ cells1 \in [DOMAIN bins -> Int] /\ err1 \in [DOMAIN bins -> Int]
  <2>1. \A a, b \in Int : a * b \in Int /\ a * b * b \in Int /\ a * b = b * a
    OBVIOUS
  <2>2. \A i \in DOMAIN bins : h.cells[i] \in Int /\ h.err2[i] \in Int
    BY <1>1
  <2>3. \A i \in DOMAIN bins : /\ h.cells[i] * Sizes(h)[i] \in Int
                               /\ h.cells[i] * Sizes(h)[i] = f[bins[i]] * h.cells[i]
                               /\ h.err2[i] * Sizes(h)[i] * Sizes(h)[i] \in Int
    BY <1>4, <2>1, <2>2
  <2>4. QED BY <1>1, <2>3
<1>9. Rescaled(bins, es, es1, Amounts1(T), Amounts1(T), f)
  BY <1>7, FactoredIsRescaled
<1>10. es1 \in Seq(T)
  BY <1>9 DEF Rescaled
<1> HIDE DEF T
<1>11. Collects(bins, cells1, es1, Amounts1(T))
  <2> HIDE DEF cells1, bins
  <2>1. QED BY <1>2, <1>8, <1>9, CollectsRescaled
<1>12. WithContents(h, h.type, cells1, err1, h.numFills, h1)
  <2>1. h1 = [h EXCEPT !.cells = cells1, !.err2 = err1]
    BY DEF TimesSizes
  <2> HIDE DEF h1, cells1, err1
  <2>2. h1 = [type |-> h.type, binning |-> h.binning, cells |-> cells1, err2 |-> err1,
              numFills |-> h.numFills]
    BY <1>1, <2>1
  <2>3. QED BY <1>1, <1>8, <2>2 DEF WithContents
<1> HIDE DEF h1, cells1, err1
<1>13. IsHist(h1) /\ h1.binning = h.binning /\ h1.type = h.type /\ h1.cells = cells1
  BY <1>12, WithContentsIsHist
<1>14. Holding(h1, es1)
  BY <1>10, <1>11, <1>13 DEF Holding, T
<1>15. QED BY <1>13, <1>14 DEF h1, es1

(* Counts to densities. *)
Densities(h, es, numFills, h1, es1) ==
  /\ h1 = [type |-> "BinnedValues", binning |-> h.binning, cells |-> OverSizes(h).cells,
           err2 |-> OverSizes(h).err2, numFills |-> numFills]
  /\ numFills \in Nat
  /\ \A k \in DOMAIN es : es[k].w % SizeOf(es[k]) = 0
  /\ es1 = [k \in DOMAIN es |-> [es[k] EXCEPT !.w = @ \div SizeOf(es[k])]]

(* A density times the size of its bin is the count: none is rounded. *)
LEMMA DensitiesAreHist ==
  ASSUME NEW h, NEW es, IsHist(h), Holding(h, es), NEW n, NEW h1, NEW es1,
         Densities(h, es, n, h1, es1)
  PROVE  IsHist(h1) /\ h1.type = "BinnedValues" /\ h1.binning = h.binning /\ Holding(h1, es1)
<1> DEFINE bins == h.binning.bins
           T == EntriesIn(bins)
           v == [k \in DOMAIN es |-> es[k].w \div SizeOf(es[k])]
           f == SizesOf(bins)
           cells1 == OverSizes(h).cells
           err1 == OverSizes(h).err2
<1>1. /\ h = [type |-> h.type, binning |-> h.binning, cells |-> h.cells, err2 |-> h.err2,
              numFills |-> h.numFills]
      /\ IsBins(bins)
      /\ h.cells \in [DOMAIN bins -> Int] /\ h.err2 \in [DOMAIN bins -> Int]
  BY DEF IsHist
<1>2. es \in Seq(T) /\ Collects(bins, h.cells, es, Amounts1(T))
  BY DEF Holding
<1>3. /\ f \in [ToSet(bins) -> Int]
      /\ \A bin \in ToSet(bins) : f[bin] = BinSize(bin) /\ BinSize(bin) \in Nat \ {0}
      /\ \A i \in DOMAIN bins : bins[i] \in ToSet(bins)
  BY <1>1, SizesAre
<1>4. \A i \in DOMAIN bins : Sizes(h)[i] = f[bins[i]] /\ f[bins[i]] \in Nat \ {0}
  BY <1>3 DEF Sizes
<1>5. \A k \in DOMAIN es : es[k] \in T
  BY <1>2, LenProperties, ElementOfSeq
<1>6. \A k \in DOMAIN es : es[k].home \in ToSet(bins) /\ es[k].w \in Int
  BY <1>5, EntryIn
<1>7. Quotients(bins, es, v, es1, f)
  <2>1. \A k \in DOMAIN es : v[k] \in Int /\ es[k].w = f[es[k].home] * v[k]
    <3> TAKE k \in DOMAIN es
    <3> DEFINE w == es[k].w
               s == f[es[k].home]
    <3>1. w \in Int /\ s \in Nat \ {0} /\ v[k] = w \div s /\ w % s = 0
      BY <1>3, <1>6 DEF SizeOf, Densities
    <3> HIDE DEF w, s, v
    <3>2. w \div s \in Int /\ w % s \in 0 .. s - 1 /\ w = (s * (w \div s)) + (w % s)
      BY <3>1, DivMod
    <3>3. w \div s \in Int /\ w = s * (w \div s)
      BY <3>1, <3>2
    <3>4. QED BY <3>1, <3>3 DEF w, s
  <2>2. es1 = [k \in DOMAIN es |-> [es[k] EXCEPT !.w = v[k]]]
    BY DEF Densities
  <2> HIDE DEF v, f
  <2>3. QED BY <1>2, <1>3, <2>1, <2>2 DEF Quotients, Reweighted
<1> HIDE DEF v, f
<1>8. /\ cells1 = [i \in DOMAIN bins |-> h.cells[i] \div f[bins[i]]]
      /\ cells1 \in [DOMAIN bins -> Int] /\ err1 \in [DOMAIN bins -> Int]
  <2>1. \A a \in Int, b \in Nat \ {0} : a \div b \in Int
    BY DivMod
  <2>2. \A b \in Nat \ {0} : b * b \in Nat \ {0}
    BY ModStep
  <2>3. \A i \in DOMAIN bins : h.cells[i] \in Int /\ h.err2[i] \in Int
    BY <1>1
  <2>4. \A i \in DOMAIN bins : /\ h.cells[i] \div Sizes(h)[i] \in Int
                               /\ h.cells[i] \div Sizes(h)[i] = h.cells[i] \div f[bins[i]]
                               /\ h.err2[i] \div (Sizes(h)[i] * Sizes(h)[i]) \in Int
    BY <1>4, <2>1, <2>2, <2>3
  <2>5. /\ cells1 = [i \in DOMAIN h.cells |-> h.cells[i] \div Sizes(h)[i]]
        /\ err1 = [i \in DOMAIN h.err2 |-> h.err2[i] \div (Sizes(h)[i] * Sizes(h)[i])]
    <3> DEFINE c == [i \in DOMAIN h.cells |-> h.cells[i] \div Sizes(h)[i]]
               r == [i \in DOMAIN h.err2 |-> h.err2[i] \div (Sizes(h)[i] * Sizes(h)[i])]
    <3>1. OverSizes(h) = [h EXCEPT !.cells = c, !.err2 = r]
      BY DEF OverSizes
    <3> HIDE DEF c, r
    <3>2. cells1 = c /\ err1 = r
      BY <1>1, <3>1
    <3>3. QED BY <3>2 DEF c, r
  <2> HIDE DEF cells1, err1
  <2>6. QED BY <1>1, <2>4, <2>5
<1>9. Rescaled(bins, es1, es, Amounts1(T), Amounts1(T), f)
  BY <1>7, QuotientsAreRescaled
<1>10. es1 \in Seq(T)
  BY <1>9 DEF Rescaled
<1> HIDE DEF T
<1>11. Collects(bins, cells1, es1, Amounts1(T))
  <2> HIDE DEF cells1, bins
  <2> DEFINE q == Amounts1(T)
             c == h.cells
  <2>1. \A bin \in ToSet(bins) : f[bin] \in Nat \ {0}
    BY <1>3
  <2>2. Rescaled(bins, es1, es, q, q, f) /\ Collects(bins, c, es, q)
    BY <1>2, <1>9
  <2> HIDE DEF q, c
  <2>3. Collects(bins, [i \in DOMAIN bins |-> c[i] \div f[bins[i]]], es1, q)
    BY <2>1, <2>2, CollectsDivided
  <2>4. QED BY <1>8, <2>3 DEF q, c
<1>12. WithContents(h, "BinnedValues", cells1, err1, n, h1)
  BY <1>8 DEF WithContents, Densities
<1> HIDE DEF cells1, err1
<1>13. IsHist(h1) /\ h1.binning = h.binning /\ h1.type = "BinnedValues" /\ h1.cells = cells1
  <2> DEFINE type == "BinnedValues"
  <2>1. WithContents(h, type, cells1, err1, n, h1)
    BY <1>12
  <2> HIDE DEF type
  <2>2. IsHist(h1) /\ h1.binning = h.binning /\ h1.type = type /\ h1.cells = cells1
    BY <2>1, WithContentsIsHist
  <2>3. QED BY <2>2 DEF type
<1>14. Holding(h1, es1)
  BY <1>10, <1>11, <1>13 DEF Holding, T
<1>15. QED BY <1>13, <1>14

-----------------------------------------------------------------------------
(* Adding. *)

(* Sums of contents hold the entries of both. *)
LEMMA CollectsTogether ==
  ASSUME NEW bins, NEW es, NEW es1, NEW T, T = EntriesIn(bins), es \in Seq(T), es1 \in Seq(T),
         NEW q, q \in [T -> Int], NEW c, NEW c1, Collects(bins, c, es, q), Collects(bins, c1, es1, q)
  PROVE  Collects(bins, [i \in DOMAIN bins |-> c[i] + c1[i]], es \o es1, q)
<1>1. ASSUME NEW i \in DOMAIN bins
      PROVE  c[i] + c1[i] = SumOf(es \o es1, Inside(T, q, bins[i]))
  <2> DEFINE g == Inside(T, q, bins[i])
  <2>1. g \in [T -> Int] /\ c[i] = SumOf(es, g) /\ c1[i] = SumOf(es1, g)
    BY InsideType DEF Collects
  <2> HIDE DEF g
  <2>2. SumOf(es \o es1, g) = SumOf(es, g) + SumOf(es1, g)
    BY <2>1, SumOfConcat
  <2>3. QED BY <2>1, <2>2 DEF g
<1>2. QED BY <1>1 DEF Collects

(* Add of two histograms over the same bins holds the entries of both. *)
LEMMA SumIsHist ==
  ASSUME NEW h, NEW es, IsHist(h), Holding(h, es), NEW o, NEW eso, IsHist(o), Holding(o, eso),
         o.type = h.type, o.binning.bins = h.binning.bins
  PROVE  /\ IsHist(Sum(h, o)) /\ Sum(h, o).binning = h.binning
         /\ Holding(Sum(h, o), es \o eso)
<1> DEFINE bins == h.binning.bins
           T == EntriesIn(bins)
           h1 == Sum(h, o)
           cells1 == [i \in DOMAIN h.cells |-> h.cells[i] + o.cells[i]]
           err1 == [i \in DOMAIN h.err2 |->
                      IF h.type = "HistFrame" THEN h.err2[i] + o.err2[i]
                      ELSE h.cells[i] * h.cells[i] + o.cells[i] * o.cells[i]]
<1>1. /\ h = [type |-> h.type, binning |-> h.binning, cells |-> h.cells, err2 |-> h.err2,
              numFills |-> h.numFills]
      /\ h.type \in {"HistFrame", "BinnedValues"} /\ h.numFills \in Nat
      /\ h.cells \in [DOMAIN bins -> Int] /\ h.err2 \in [DOMAIN bins -> Int]
  BY DEF IsHist
<1>2. o.cells \in [DOMAIN bins -> Int] /\ o.err2 \in [DOMAIN bins -> Int]
  BY DEF IsHist
<1>3. /\ es \in Seq(T) /\ Collects(bins, h.cells, es, Amounts1(T))
      /\ (h.type = "HistFrame" => Collects(bins, h.err2, es, Amounts2(T)))
  BY DEF Holding
<1>4. /\ eso \in Seq(T) /\ Collects(bins, o.cells, eso, Amounts1(T))
      /\ (h.type = "HistFrame" => Collects(bins, o.err2, eso, Amounts2(T)))
  BY DEF Holding
<1>5. Amounts1(T) \in [T -> Int] /\ Amounts2(T) \in [T -> Int]
  BY AmountsType
<1>6. cells1 = [i \in DOMAIN bins |-> h.cells[i] + o.cells[i]] /\ cells1 \in [DOMAIN bins -> Int]
  BY <1>1, <1>2
<1>7. err1 \in [DOMAIN bins -> Int]
  <2>1. \A a, b \in Int : a + b \in Int /\ a * a + b * b \in Int
    OBVIOUS
  <2>2. \A i \in DOMAIN bins : /\ h.cells[i] \in Int /\ h.err2[i] \in Int
                               /\ o.cells[i] \in Int /\ o.err2[i] \in Int
    BY <1>1, <1>2
  <2>3. \A i \in DOMAIN bins : err1[i] \in Int
    BY <1>1, <2>1, <2>2
  <2>4. QED BY <1>1, <2>3
<1>8. h.type = "HistFrame" => err1 = [i \in DOMAIN bins |-> h.err2[i] + o.err2[i]]
  BY <1>1
<1>9. es \o eso \in Seq(T)
  BY <1>3, <1>4, ConcatProperties
<1>10. WithContents(h, h.type, cells1, err1, h.numFills, h1)
  <2>1. h1 = [h EXCEPT !.cells = cells1, !.err2 = err1]
    BY DEF Sum
  <2> HIDE DEF h1, cells1, err1
  <2>2. h1 = [type |-> h.type, binning |-> h.binning, cells |-> cells1, err2 |-> err1,
              numFills |-> h.numFills]
    BY <1>1, <2>1
  <2>3. QED BY <1>1, <1>6, <1>7, <2>2 DEF WithContents
<1> HIDE DEF h1, cells1, err1
<1>11. /\ IsHist(h1) /\ h1.binning = h.binning /\ h1.type = h.type
       /\ h1.cells = cells1 /\ h1.err2 = err1
  BY <1>10, WithContentsIsHist
<1>12. Collects(bins, cells1, es \o eso, Amounts1(T))
  <2> DEFINE U == T
             q == Amounts1(T)
  <2>1. U = EntriesIn(bins) /\ es \in Seq(U) /\ eso \in Seq(U) /\ q \in [U -> Int]
        /\ Collects(bins, h.cells, es, q) /\ Collects(bins, o.cells, eso, q)
    BY <1>3, <1>4, <1>5
  <2> HIDE DEF U, q, bins
  <2>2. Collects(bins, [i \in DOMAIN bins |-> h.cells[i] + o.cells[i]], es \o eso, q)
    BY <2>1, CollectsTogether
  <2>3. QED BY <1>6, <2>2 DEF q
<1>13. h.type = "HistFrame" => Collects(bins, err1, es \o eso, Amounts2(T))
  <2> SUFFICES ASSUME h.type = "HistFrame" PROVE Collects(bins, err1, es \o eso, Amounts2(T))
    OBVIOUS
  <2> DEFINE U == T
             q == Amounts2(T)
  <2>1. U = EntriesIn(bins) /\ es \in Seq(U) /\ eso \in Seq(U) /\ q \in [U -> Int]
        /\ Collects(bins, h.err2, es, q) /\ Collects(bins, o.err2, eso, q)
    BY <1>3, <1>4, <1>5
  <2> HIDE DEF U, q, bins
  <2>2. Collects(bins, [i \in DOMAIN bins |-> h.err2[i] + o.err2[i]], es \o eso, q)
    BY <2>1, CollectsTogether
  <2>3. QED BY <1>8, <2>2 DEF q
<1>14. Holding(h1, es \o eso)
  BY <1>9, <1>11, <1>12, <1>13 DEF Holding
<1>15. QED BY <1>11, <1>14 DEF h1

(* The entries of a histogram, counted for the bins at the same places of  *)
(* another, are what its cells hold over these bins.                       *)
LEMMA PlacedIsHist ==
  ASSUME NEW o, NEW es, IsHist(o), Holding(o, es), NEW b, IsBins(b.bins), IsInjective(b.bins),
         Len(b.bins) = Len(o.binning.bins), b.kind # "none" => Finds(b)
  PROVE  LET o1 == [o EXCEPT !.binning = b]
         IN  /\ IsHist(o1) /\ o1.type = o.type /\ o1.binning = b
             /\ o1.cells = o.cells /\ o1.err2 = o.err2
             /\ Holding(o1, AtSamePlace(es, o.binning.bins, b.bins))
<1> DEFINE bins == o.binning.bins
           others == b.bins
           T == EntriesIn(bins)
           T1 == EntriesIn(others)
           place(e) == CHOOSE i \in DOMAIN bins : bins[i] = e.home
           es1 == AtSamePlace(es, bins, others)
           o1 == [o EXCEPT !.binning = b]
<1>1. /\ o = [type |-> o.type, binning |-> o.binning, cells |-> o.cells, err2 |-> o.err2,
              numFills |-> o.numFills]
      /\ o.type \in {"HistFrame", "BinnedValues"} /\ o.numFills \in Nat
      /\ IsBins(bins) /\ IsInjective(bins)
      /\ o.cells \in [DOMAIN bins -> Int] /\ o.err2 \in [DOMAIN bins -> Int]
  BY DEF IsHist
<1>2. DOMAIN bins = 1 .. Len(bins) /\ DOMAIN others = 1 .. Len(others) /\ DOMAIN others = DOMAIN bins
  BY <1>1, BinsAre
<1>3. /\ es \in Seq(T)
      /\ Collects(bins, o.cells, es, Amounts1(T))
      /\ (o.type = "HistFrame" => Collects(bins, o.err2, es, Amounts2(T)))
  BY DEF Holding
<1>4. /\ o1 = [type |-> o.type, binning |-> b, cells |-> o.cells, err2 |-> o.err2,
               numFills |-> o.numFills]
      /\ o1.type = o.type /\ o1.binning = b /\ o1.cells = o.cells /\ o1.err2 = o.err2
      /\ o1.numFills = o.numFills
  <2>1. o = [type |-> o.type, binning |-> o.binning, cells |-> o.cells, err2 |-> o.err2,
             numFills |-> o.numFills]
    BY <1>1
  <2>2. o1 = [type |-> o.type, binning |-> b, cells |-> o.cells, err2 |-> o.err2,
              numFills |-> o.numFills]
    BY ONLY <2>1
  <2> HIDE DEF o1
  <2>3. QED BY <2>2
<1> HIDE DEF o1
<1>5. IsHist(o1)
  BY <1>1, <1>2, <1>4 DEF IsHist
<1>6. ASSUME NEW e \in T
      PROVE  /\ place(e) \in DOMAIN bins /\ bins[place(e)] = e.home
             /\ [e EXCEPT !.home = others[place(e)]] = [home |-> others[place(e)], w |-> e.w]
             /\ [e EXCEPT !.home = others[place(e)]] \in T1
  <2>1. /\ e.home \in ToSet(bins) /\ e.w \in Int /\ e = [home |-> e.home, w |-> e.w]
    BY EntryIn
  <2>2. \E i \in DOMAIN bins : bins[i] = e.home
    BY <2>1 DEF ToSet
  <2>3. place(e) \in DOMAIN bins /\ bins[place(e)] = e.home
    BY <2>2
  <2> DEFINE home1 == others[place(e)]
  <2>4. home1 \in ToSet(others)
    BY <1>2, <2>3 DEF ToSet
  <2> HIDE DEF home1
  <2>5. [e EXCEPT !.home = home1] = [home |-> home1, w |-> e.w]
    BY <2>1
  <2>6. [home |-> home1, w |-> e.w] \in T1
    BY <2>1, <2>4 DEF EntriesIn
  <2>7. QED BY <2>3, <2>5, <2>6 DEF home1
<1>7. \A k \in DOMAIN es : es[k] \in T
  BY <1>3, LenProperties, ElementOfSeq
<1>8. es1 = [k \in DOMAIN es |-> [es[k] EXCEPT !.home = others[place(es[k])]]]
  BY DEF AtSamePlace
<1> HIDE DEF place, T, T1, es1, bins, others
<1>9. /\ es1 \in Seq(T1) /\ DOMAIN es1 = DOMAIN es /\ Len(es1) = Len(es)
      /\ \A k \in DOMAIN es : es1[k] = [home |-> others[place(es[k])], w |-> es[k].w]
  <2>1. \A k \in DOMAIN es : /\ es1[k] = [home |-> others[place(es[k])], w |-> es[k].w]
                              /\ es1[k] \in T1
    BY <1>6, <1>7, <1>8
  <2>2. DOMAIN es = 1 .. Len(es) /\ Len(es) \in Nat
    BY <1>3, LenProperties
  <2>3. es1 \in [1 .. Len(es) -> T1]
    BY <1>8, <2>1, <2>2
  <2>4. es1 \in Seq(T1) /\ Len(es1) = Len(es)
    BY <2>2, <2>3, SeqOfFunction
  <2>5. QED BY <1>8, <2>1, <2>4
<1>10. \A k \in DOMAIN es, i \in DOMAIN bins : es1[k].home = others[i] <=> es[k].home = bins[i]
  <2> SUFFICES ASSUME NEW k \in DOMAIN es, NEW i \in DOMAIN bins
               PROVE  es1[k].home = others[i] <=> es[k].home = bins[i]
    OBVIOUS
  <2>1. place(es[k]) \in DOMAIN bins /\ bins[place(es[k])] = es[k].home
    BY <1>6, <1>7
  <2>2. es1[k].home = others[place(es[k])]
    BY <1>9
  <2>3. others[place(es[k])] = others[i] <=> place(es[k]) = i
    BY <1>2, <2>1 DEF IsInjective, others
  <2>4. bins[place(es[k])] = bins[i] <=> place(es[k]) = i
    BY <1>1, <2>1 DEF IsInjective
  <2>5. QED BY <2>1, <2>2, <2>3, <2>4
<1>11. ASSUME NEW c, NEW q, NEW q1, Collects(bins, c, es, q),
              \A k \in DOMAIN es : q1[es1[k]] = q[es[k]]
       PROVE  Collects(others, c, es1, q1)
  <2> SUFFICES ASSUME NEW i \in DOMAIN others
               PROVE  c[i] = SumOf(es1, Inside(T1, q1, others[i]))
    BY DEF Collects, T1
  <2> DEFINE g == Inside(T, q, bins[i])
             g1 == Inside(T1, q1, others[i])
  <2>1. c[i] = SumOf(es, g)
    BY <1>2, <1>11 DEF Collects, T
  <2>2. \A k \in DOMAIN es : es1[k] \in T1
    BY <1>9, LenProperties, ElementOfSeq
  <2>3. \A k \in DOMAIN es : g[es[k]] = IF es[k].home = bins[i] THEN q[es[k]] ELSE 0
    BY <1>7 DEF Inside
  <2>4. \A k \in DOMAIN es : g1[es1[k]] = IF es1[k].home = others[i] THEN q1[es1[k]] ELSE 0
    BY <2>2 DEF Inside
  <2> HIDE DEF g, g1
  <2>5. \A k \in DOMAIN es : g1[es1[k]] = g[es[k]]
    BY <1>2, <1>10, <1>11, <2>3, <2>4
  <2>6. [k \in DOMAIN es1 |-> g1[es1[k]]] = [k \in DOMAIN es |-> g[es[k]]]
    BY <1>9, <2>5
  <2>7. SumOf(es1, g1) = SumOf(es, g)
    BY <1>9, <2>6 DEF SumOf
  <2>8. QED BY <2>1, <2>7 DEF g1
<1>12. \A k \in DOMAIN es : /\ Amounts1(T1)[es1[k]] = Amounts1(T)[es[k]]
                             /\ Amounts2(T1)[es1[k]] = Amounts2(T)[es[k]]
  <2> SUFFICES ASSUME NEW k \in DOMAIN es
               PROVE  /\ Amounts1(T1)[es1[k]] = Amounts1(T)[es[k]]
                      /\ Amounts2(T1)[es1[k]] = Amounts2(T)[es[k]]
    OBVIOUS
  <2> DEFINE e == es[k]
             e1 == es1[k]
  <2>1. e \in T /\ e1 \in T1 /\ e1.w = e.w
    BY <1>7, <1>9, LenProperties, ElementOfSeq
  <2> HIDE DEF e, e1
  <2>2. Amounts1(T)[e] = e.w /\ Amounts2(T)[e] = e.w * e.w
    BY <2>1, EntryIn DEF T
  <2>3. Amounts1(T1)[e1] = e1.w /\ Amounts2(T1)[e1] = e1.w * e1.w
    BY <2>1, EntryIn DEF T1
  <2>4. QED BY <2>1, <2>2, <2>3 DEF e, e1
<1>13. Holding(o1, es1)
  <2>1. Collects(others, o.cells, es1, Amounts1(T1))
    BY <1>3, <1>11, <1>12
  <2>2. o.type = "HistFrame" => Collects(others, o.err2, es1, Amounts2(T1))
    BY <1>3, <1>11, <1>12
  <2>3. QED BY <1>4, <1>9, <2>1, <2>2 DEF Holding, T1, others
<1>14. QED BY <1>4, <1>5, <1>13 DEF o1, es1, bins, others

-----------------------------------------------------------------------------
(* The entries es1 are the entries es with the homes that p gives them.    *)
Moved(bins, es, q, bins1, es1, q1, p) ==
  LET T == EntriesIn(bins)
      T1 == EntriesIn(bins1)
  IN /\ es \in Seq(T) /\ es1 \in Seq(T1) /\ Len(es) = Len(es1)
     /\ q \in [T -> Int] /\ q1 \in [T1 -> Int]
     /\ \A k \in 1 .. Len(es) :
          es1[k].home = p[es[k].home] /\ q1[es1[k]] = q[es[k]]

(* Bins are merged: those of the set columns[r] into bins1[r].             *)
Merges(bins, bins1, p, columns) ==
  /\ bins \in Seq(ToSet(bins)) /\ IsInjective(bins)
  /\ \A r \in DOMAIN bins1 : columns[r] = {i \in DOMAIN bins : p[bins[i]] = bins1[r]}

(* What is in the merged bin is the sum of what was in those merged. *)
LEMMA CollectsMerged ==
  ASSUME NEW bins, NEW es, NEW q, NEW bins1, NEW es1, NEW q1, NEW p, NEW columns,
         Moved(bins, es, q, bins1, es1, q1, p), Merges(bins, bins1, p, columns),
         NEW c, c \in [DOMAIN bins -> Int], Collects(bins, c, es, q)
  PROVE  Collects(bins1, [r \in DOMAIN bins1 |-> SumOver(columns[r], c)], es1, q1)
<1> DEFINE T == EntriesIn(bins)
           T1 == EntriesIn(bins1)
           n == Len(bins)
<1>1. /\ es \in Seq(T) /\ es1 \in Seq(T1) /\ Len(es) = Len(es1)
      /\ q \in [T -> Int] /\ q1 \in [T1 -> Int]
      /\ \A k \in 1 .. Len(es) : es1[k].home = p[es[k].home] /\ q1[es1[k]] = q[es[k]]
  BY DEF Moved
<1>2. n \in Nat /\ DOMAIN bins = 1 .. n /\ \A i, j \in 1 .. n : bins[i] = bins[j] => i = j
  BY LenProperties DEF Merges, IsInjective
<1>3. Len(c) = n /\ DOMAIN c = 1 .. n
  <2>1. c \in [1 .. n -> Int] /\ n \in Nat
    BY <1>2
  <2> HIDE DEF n
  <2>2. QED BY <2>1, SeqOfFunction
<1>4. \A k \in 1 .. Len(es) : es[k] \in T /\ es1[k] \in T1
  BY <1>1, LenProperties, ElementOfSeq
<1>5. \A e \in T : \E i \in 1 .. n : e.home = bins[i]
  BY <1>2 DEF EntriesIn, ToSet
<1>6. \A i \in 1 .. n : c[i] = SumOf(es, Inside(T, q, bins[i]))
  BY <1>2 DEF Collects
<1> HIDE DEF T, T1, n
<1>7. ASSUME NEW r \in DOMAIN bins1
      PROVE  SumOver(columns[r], c) = SumOf(es1, Inside(T1, q1, bins1[r]))
  <2> DEFINE C == columns[r]
             sums == [i \in DOMAIN c |-> IF i \in C THEN c[i] ELSE 0]
             kindOf == [e \in T |-> e.home]
             m == [e \in T |-> IF \E i \in 1 .. n : i \in C /\ kindOf[e] = bins[i] THEN q[e] ELSE 0]
             g == Inside(T1, q1, bins1[r])
  <2>1. SumOver(C, c) = SumTo(sums, n)
    BY <1>3 DEF SumOver
  <2>2. \A i \in 1 .. n : i \in C <=> p[bins[i]] = bins1[r]
    BY <1>2 DEF Merges
  <2>3. \A i \in 1 .. n : sums[i] = IF i \in C THEN c[i] ELSE 0
    BY <1>3
  <2>4. \A i \in 1 .. n : Inside(T, q, bins[i]) = [e \in T |-> IF kindOf[e] = bins[i] THEN q[e] ELSE 0]
    BY DEF Inside
  <2>5. \A e \in T : kindOf[e] = e.home
    OBVIOUS
  <2> HIDE DEF kindOf, sums, C
  <2>6. SumsOfKinds(T, es, kindOf, bins, n, C, q, sums)
    BY <1>1, <1>2, <1>6, <2>3, <2>4 DEF SumsOfKinds
  <2>7. SumTo(sums, n) = SumOf(es, m)
    BY <2>6, SumOfKinds
  <2>8. m \in [T -> Int]
    BY <1>1
  <2>9. \A e \in T : m[e] = IF p[e.home] = bins1[r] THEN q[e] ELSE 0
    <3> TAKE e \in T
    <3>1. (\E i \in 1 .. n : i \in C /\ kindOf[e] = bins[i]) <=> p[e.home] = bins1[r]
      BY <1>5, <2>2, <2>5
    <3>2. QED BY <3>1
  <2>10. g \in [T1 -> Int] /\ \A e \in T1 : g[e] = IF e.home = bins1[r] THEN q1[e] ELSE 0
    BY <1>1, InsideType
  <2> HIDE DEF m, g
  <2>11. Replaces(T, es, m, T1, es1, g)
    <3>1. ASSUME NEW k \in 1 .. Len(es) PROVE g[es1[k]] = m[es[k]]
      <4>1. es1[k].home = p[es[k].home] /\ q1[es1[k]] = q[es[k]] /\ es[k] \in T /\ es1[k] \in T1
        BY <1>1, <1>4
      <4>2. m[es[k]] = IF p[es[k].home] = bins1[r] THEN q[es[k]] ELSE 0
        BY <2>9, <4>1
      <4>3. g[es1[k]] = IF es1[k].home = bins1[r] THEN q1[es1[k]] ELSE 0
        BY <2>10, <4>1
      <4>4. QED BY <4>1, <4>2, <4>3
    <3>2. QED BY <1>1, <2>8, <2>10, <3>1 DEF Replaces
  <2>12. SumOf(es1, g) = SumOf(es, m)
    BY <2>11, SumOfReplaced
  <2>13. QED BY <2>1, <2>7, <2>12 DEF g, C
<1>8. QED BY <1>7 DEF Collects, T1

(* The sum over some of the contents is a number. *)
LEMMA SumOverType ==
  ASSUME NEW n \in Nat, NEW c \in [1 .. n -> Int], NEW C
  PROVE  SumOver(C, c) \in Int
<1> DEFINE f == [i \in DOMAIN c |-> IF i \in C THEN c[i] ELSE 0]
<1>1. Len(c) = n
  BY SeqOfFunction
<1>2. \A i \in 1 .. n : f[i] \in Int
  OBVIOUS
<1>3. SumOver(C, c) = SumTo(f, n)
  BY <1>1 DEF SumOver
<1> HIDE DEF f
<1>4. QED BY <1>2, <1>3, SumType

(* The same entries in other bins. *)
WithHomes(bins, es, p, bins1, es1) ==
  /\ es \in Seq(EntriesIn(bins))
  /\ \A k \in DOMAIN es : p[es[k].home] \in ToSet(bins1)
  /\ es1 = [k \in DOMAIN es |-> [es[k] EXCEPT !.home = p[@]]]

(* They keep their amounts. *)
LEMMA MovedEntries ==
  ASSUME NEW bins, NEW es, NEW p, NEW bins1, NEW es1, WithHomes(bins, es, p, bins1, es1)
  PROVE  /\ es1 \in Seq(EntriesIn(bins1))
         /\ Moved(bins, es, Amounts1(EntriesIn(bins)), bins1, es1, Amounts1(EntriesIn(bins1)), p)
         /\ Moved(bins, es, Amounts2(EntriesIn(bins)), bins1, es1, Amounts2(EntriesIn(bins1)), p)
<1> DEFINE T == EntriesIn(bins)
           T1 == EntriesIn(bins1)
           n == Len(es)
<1> USE DEF WithHomes
<1>1. n \in Nat /\ DOMAIN es = 1 .. n /\ \A k \in 1 .. n : es[k] \in T
  BY LenProperties, ElementOfSeq
<1>2. ASSUME NEW k \in 1 .. n
      PROVE  es1[k] \in T1 /\ es1[k].home = p[es[k].home] /\ es1[k].w = es[k].w
  <2> DEFINE e == es[k]
             u == p[e.home]
  <2>1. e \in T /\ u \in ToSet(bins1)
    BY <1>1
  <2>2. e = [home |-> e.home, w |-> e.w] /\ e.w \in Int
    BY <2>1 DEF EntriesIn
  <2>3. es1[k] = [e EXCEPT !.home = u]
    BY <1>1
  <2> HIDE DEF e, u
  <2>4. [e EXCEPT !.home = u] = [home |-> u, w |-> e.w]
    BY <2>2
  <2>5. [home |-> u, w |-> e.w] \in T1
    BY <2>1, <2>2 DEF EntriesIn
  <2>6. QED BY <2>3, <2>4, <2>5 DEF e, u
<1>3. es1 \in [1 .. n -> T1]
  BY <1>1, <1>2
<1>4. es1 \in Seq(T1) /\ Len(es1) = n
  <2> HIDE DEF T1, n
  <2>1. QED BY <1>1, <1>3, SeqOfFunction
<1>5. /\ Amounts1(T) \in [T -> Int] /\ Amounts2(T) \in [T -> Int]
      /\ Amounts1(T1) \in [T1 -> Int] /\ Amounts2(T1) \in [T1 -> Int]
  BY AmountsType
<1>6. /\ \A e \in T : Amounts1(T)[e] = e.w /\ Amounts2(T)[e] = e.w * e.w
      /\ \A e \in T1 : Amounts1(T1)[e] = e.w /\ Amounts2(T1)[e] = e.w * e.w
  BY EntryIn
<1> HIDE DEF T, T1
<1>7. \A k \in 1 .. n : /\ es1[k].home = p[es[k].home]
                        /\ Amounts1(T1)[es1[k]] = Amounts1(T)[es[k]]
                        /\ Amounts2(T1)[es1[k]] = Amounts2(T)[es[k]]
  BY <1>1, <1>2, <1>6
<1>8. QED BY <1>1, <1>4, <1>5, <1>7 DEF Moved, T, T1

-----------------------------------------------------------------------------
(* Projected bins are bins, each of them once, and every bin has one. *)
LEMMA ProjectedBins ==
  ASSUME NEW bins, IsBins(bins), NEW m \in Nat \ {0}, NEW axes \in [1 .. m -> 1 .. NAxes(bins)]
  PROVE  LET extents == ProjectToUniqueBins(bins, axes) IN
         /\ IsBins(extents) /\ IsInjective(extents)
         /\ \A i \in DOMAIN bins : ProjectBin(bins[i], axes) \in ToSet(extents)
<1> DEFINE n == NAxes(bins)
           extents == ProjectToUniqueBins(bins, axes)
           each == [i \in DOMAIN bins |-> ProjectBin(bins[i], axes)]
<1>1. n \in Nat \ {0} /\ DOMAIN bins = 1 .. Len(bins) /\ Len(bins) \in Nat \ {0}
      /\ \A i \in DOMAIN bins : bins[i] \in BinsOf(n)
  BY BinsAre
<1>2. axes # <<>> /\ DOMAIN axes = 1 .. m
  OBVIOUS
<1>3. \A i \in DOMAIN bins : ProjectBin(bins[i], axes) \in BinsOf(m)
  BY <1>1, <1>2 DEF ProjectBin, BinsOf
<1>4. each \in [1 .. Len(bins) -> BinsOf(m)]
  BY <1>1, <1>3
<1> HIDE DEF n
<1>5. each \in Seq(BinsOf(m)) /\ Len(each) = Len(bins) /\ DOMAIN each = 1 .. Len(bins)
  <2> DEFINE l == Len(bins)
             P == BinsOf(m)
  <2>1. l \in Nat /\ each \in [1 .. l -> P]
    BY <1>1, <1>4
  <2> HIDE DEF each, l, P
  <2>2. each \in Seq(P) /\ Len(each) = l /\ DOMAIN each = 1 .. l
    BY <2>1, SeqOfFunction
  <2>3. QED BY <2>2 DEF l, P
<1>6. extents = Unique(each)
  BY <1>2 DEF ProjectToUniqueBins
<1>7. \A i \in DOMAIN bins : each[i] = ProjectBin(bins[i], axes) /\ each[i] \in ToSet(each)
  BY <1>1, <1>5 DEF ToSet
<1> HIDE DEF each
<1>8. Unique(each) \in Seq(BinsOf(m)) /\ ToSet(Unique(each)) = ToSet(each) /\ IsInjective(Unique(each))
  BY <1>5, UniqueBins
<1>9. Unique(each) # <<>>
  <2>1. 1 \in DOMAIN bins
    BY <1>1
  <2>2. ToSet(Unique(each)) # {}
    BY <1>7, <1>8, <2>1
  <2>3. QED BY <2>2, NoElement
<1>10. IsBins(extents)
  BY <1>6, <1>8, <1>9, AreBins
<1>11. QED BY <1>6, <1>7, <1>8, <1>10

(* The binning of a result can find its bins, or it has no function. *)
LEMMA BinningOfResult ==
  ASSUME NEW bins, IsBins(bins), NEW hasBinning \in BOOLEAN,
         hasBinning => Refusal(bins) = "none",
         NEW b, b = IF hasBinning THEN FromExtents(bins) ELSE BinsOnly(bins)
  PROVE  b.bins = bins /\ (b.kind # "none" => Finds(b))
<1>1. b.bins = bins /\ (~hasBinning => b.kind = "none")
  BY DEF FromExtents, BinsOnly
<1>2. hasBinning => Finds(b)
  BY ExtentsFind
<1>3. QED BY <1>1, <1>2

(* Project_impl() loses no entry and counts none twice. *)
LEMMA ProjectedIsHist ==
  ASSUME NEW h, NEW es, IsHist(h), Holding(h, es), NEW m \in Nat \ {0},
         NEW axes \in [1 .. m -> 1 .. NAxes(h.binning.bins)], NEW hasBinning \in BOOLEAN,
         hasBinning => Refusal(ProjectToUniqueBins(h.binning.bins, axes)) = "none"
  PROVE  /\ IsHist(Projected(h, axes, hasBinning))
         /\ Holding(Projected(h, axes, hasBinning),
                    [k \in DOMAIN es |-> [es[k] EXCEPT !.home = ProjectBin(@, axes)]])
<1> DEFINE bins == h.binning.bins
           bins1 == ProjectToUniqueBins(bins, axes)
           T == EntriesIn(bins)
           T1 == EntriesIn(bins1)
           h1 == Projected(h, axes, hasBinning)
           p == [bin \in ToSet(bins) |-> ProjectBin(bin, axes)]
           es1 == [k \in DOMAIN es |-> [es[k] EXCEPT !.home = ProjectBin(@, axes)]]
           columns == [r \in DOMAIN bins1 |->
                         {i \in DOMAIN bins : ProjectBin(bins[i], axes) = bins1[r]}]
           cells1 == [r \in DOMAIN bins1 |-> SumOver(columns[r], h.cells)]
           sum2 == [r \in DOMAIN bins1 |-> SumOver(columns[r], h.err2)]
           err1 == IF h.type = "HistFrame" THEN sum2 ELSE [r \in DOMAIN sum2 |-> sum2[r] * sum2[r]]
           b == IF hasBinning THEN FromExtents(bins1) ELSE BinsOnly(bins1)
<1>1. /\ h = [type |-> h.type, binning |-> h.binning, cells |-> h.cells, err2 |-> h.err2,
              numFills |-> h.numFills]
      /\ h.type \in {"HistFrame", "BinnedValues"} /\ h.numFills \in Nat
      /\ IsBins(bins) /\ IsInjective(bins)
      /\ h.cells \in [DOMAIN bins -> Int] /\ h.err2 \in [DOMAIN bins -> Int]
  BY DEF IsHist
<1>2. /\ es \in Seq(T) /\ Collects(bins, h.cells, es, Amounts1(T))
      /\ (h.type = "HistFrame" => Collects(bins, h.err2, es, Amounts2(T)))
  BY DEF Holding
<1>3. /\ IsBins(bins1) /\ IsInjective(bins1)
      /\ \A i \in DOMAIN bins : ProjectBin(bins[i], axes) \in ToSet(bins1)
  BY <1>1, ProjectedBins
<1>4. \A k \in DOMAIN es : es[k].home \in ToSet(bins)
  <2>1. \A k \in DOMAIN es : es[k] \in T
    BY <1>2, LenProperties, ElementOfSeq
  <2>2. QED BY <2>1, EntryIn
<1>5. \A bin \in ToSet(bins) : p[bin] = ProjectBin(bin, axes) /\ p[bin] \in ToSet(bins1)
  BY <1>3 DEF ToSet
<1>6. es1 = [k \in DOMAIN es |-> [es[k] EXCEPT !.home = p[@]]]
  BY <1>4, <1>5
<1> HIDE DEF p, es1, bins1
<1>7. WithHomes(bins, es, p, bins1, es1)
  BY <1>2, <1>4, <1>5, <1>6 DEF WithHomes
<1>8. /\ es1 \in Seq(T1)
      /\ Moved(bins, es, Amounts1(T), bins1, es1, Amounts1(T1), p)
      /\ Moved(bins, es, Amounts2(T), bins1, es1, Amounts2(T1), p)
  BY <1>7, MovedEntries
<1>9. bins \in Seq(ToSet(bins)) /\ DOMAIN bins = 1 .. Len(bins) /\ Len(bins) \in Nat
  <2>1. bins \in Seq(BinsOf(NAxes(bins))) /\ DOMAIN bins = 1 .. Len(bins) /\ Len(bins) \in Nat
    BY <1>1, BinsAre
  <2> HIDE DEF bins
  <2>2. QED BY <2>1, SeqOfElements
<1>10. Merges(bins, bins1, p, columns)
  <2>1. \A i \in DOMAIN bins : p[bins[i]] = ProjectBin(bins[i], axes)
    BY <1>5 DEF ToSet
  <2>2. QED BY <1>1, <1>9, <2>1 DEF Merges
<1> HIDE DEF columns, T, T1
<1>11. Collects(bins1, cells1, es1, Amounts1(T1))
  <2> DEFINE c == h.cells
             q == Amounts1(T)
             q1 == Amounts1(T1)
  <2>1. c \in [DOMAIN bins -> Int] /\ Moved(bins, es, q, bins1, es1, q1, p)
    BY <1>1, <1>8
  <2>2. Collects(bins, c, es, q)
    BY <1>2
  <2> HIDE DEF bins, c, q, q1
  <2>3. Collects(bins1, [r \in DOMAIN bins1 |-> SumOver(columns[r], c)], es1, q1)
    BY <1>10, <2>1, <2>2, CollectsMerged
  <2>4. QED BY <2>3 DEF c, q1
<1>12. h.type = "HistFrame" => Collects(bins1, sum2, es1, Amounts2(T1))
  <2> DEFINE c == h.err2
             q == Amounts2(T)
             q1 == Amounts2(T1)
  <2>1. c \in [DOMAIN bins -> Int] /\ Moved(bins, es, q, bins1, es1, q1, p)
    BY <1>1, <1>8
  <2>2. h.type = "HistFrame" => Collects(bins, c, es, q)
    BY <1>2
  <2> HIDE DEF bins, c, q, q1
  <2>3. h.type = "HistFrame" => Collects(bins1, [r \in DOMAIN bins1 |-> SumOver(columns[r], c)], es1, q1)
    BY <1>10, <2>1, <2>2, CollectsMerged
  <2>4. QED BY <2>3 DEF c, q1
<1>13. \A r \in DOMAIN bins1 : SumOver(columns[r], h.cells) \in Int /\ SumOver(columns[r], h.err2) \in Int
  <2> DEFINE c == h.cells
             d == h.err2
             n == Len(bins)
  <2>1. c \in [1 .. n -> Int] /\ d \in [1 .. n -> Int] /\ n \in Nat
    BY <1>1, <1>9
  <2> HIDE DEF c, d, n
  <2>2. \A C : SumOver(C, c) \in Int /\ SumOver(C, d) \in Int
    BY <2>1, SumOverType
  <2>3. QED BY <2>2 DEF c, d
<1>14. cells1 \in [DOMAIN bins1 -> Int] /\ sum2 \in [DOMAIN bins1 -> Int]
  BY <1>13
<1>15. err1 \in [DOMAIN bins1 -> Int] /\ (h.type = "HistFrame" => err1 = sum2)
  <2> HIDE DEF sum2
  <2>1. \A r \in DOMAIN bins1 : sum2[r] * sum2[r] \in Int
    BY <1>14
  <2>2. QED BY <1>14, <2>1
<1>16. b.bins = bins1 /\ (b.kind # "none" => Finds(b))
  <2> HIDE DEF b
  <2>1. b = IF hasBinning THEN FromExtents(bins1) ELSE BinsOnly(bins1)
    BY DEF b
  <2>2. hasBinning => Refusal(bins1) = "none"
    BY DEF bins1
  <2>3. QED BY <1>3, <2>1, <2>2, BinningOfResult
<1>17. h1 = [type |-> h.type, binning |-> b, cells |-> cells1, err2 |-> err1, numFills |-> h.numFills]
  <2>1. h1 = [h EXCEPT !.binning = b, !.cells = cells1, !.err2 = err1]
    BY DEF Projected, columns, bins1
  <2> HIDE DEF h1, b, cells1, err1
  <2>2. QED BY <1>1, <2>1
<1> HIDE DEF h1, b, cells1, err1
<1>18. /\ h1.type = h.type /\ h1.binning = b /\ h1.cells = cells1 /\ h1.err2 = err1
       /\ h1.numFills = h.numFills
  BY <1>17
<1>19. IsHist(h1)
  BY <1>1, <1>3, <1>14, <1>15, <1>16, <1>17, <1>18 DEF IsHist
<1>20. Holding(h1, es1)
  BY <1>8, <1>11, <1>12, <1>15, <1>16, <1>18 DEF Holding, T1
<1>21. QED BY <1>19, <1>20 DEF h1, es1

-----------------------------------------------------------------------------
(* Bins are selected: bins1[k] is what p makes of the bin included[k]. *)
Selects(bins, included, p, bins1) ==
  /\ bins \in Seq(ToSet(bins)) /\ included \in Seq(DOMAIN bins)
  /\ bins1 = [k \in DOMAIN included |-> p[bins[included[k]]]]
  /\ \A i, j \in ToSet(included) : p[bins[i]] = p[bins[j]] => bins[i] = bins[j]

(* inside has those of the entries that are in the selected bins. *)
SelectsEntries(bins, included, es, S) ==
  /\ es \in Seq(EntriesIn(bins))
  /\ \A e \in ToSet(es) : e \in S <=> \E i \in ToSet(included) : e.home = bins[i]

(* Contents that are selected with their bins hold the entries of these. *)
LEMMA CollectsSelected ==
  ASSUME NEW bins, NEW included, NEW p, NEW bins1, Selects(bins, included, p, bins1),
         NEW es, NEW S, SelectsEntries(bins, included, es, S),
         NEW q, NEW es1, NEW q1, Moved(bins, OnlyIn(es, S), q, bins1, es1, q1, p),
         NEW c, Collects(bins, c, es, q)
  PROVE  Collects(bins1, [k \in DOMAIN included |-> c[included[k]]], es1, q1)
<1> DEFINE T == EntriesIn(bins)
           T1 == EntriesIn(bins1)
           inside == OnlyIn(es, S)
<1>1. /\ inside \in Seq(T) /\ es1 \in Seq(T1) /\ Len(inside) = Len(es1)
      /\ q \in [T -> Int] /\ q1 \in [T1 -> Int]
      /\ \A k \in 1 .. Len(inside) : es1[k].home = p[inside[k].home] /\ q1[es1[k]] = q[inside[k]]
  BY DEF Moved
<1>2. es \in Seq(T) /\ \A e \in ToSet(es) : e \in S <=> \E i \in ToSet(included) : e.home = bins[i]
  BY DEF SelectsEntries
<1>3. \A k \in 1 .. Len(inside) : inside[k] \in T /\ es1[k] \in T1
  BY <1>1, LenProperties, ElementOfSeq
<1>4. \A k \in 1 .. Len(es) : es[k] \in T /\ es[k] \in ToSet(es)
  BY <1>2, LenProperties, ElementOfSeq DEF ToSet
<1>5. ToSet(inside) = ToSet(es) \cap S
  BY <1>2, OnlyInElements
<1>6. \A k \in 1 .. Len(inside) : inside[k] \in ToSet(inside)
  BY <1>1, LenProperties DEF ToSet
<1> HIDE DEF T, T1
<1>7. ASSUME NEW r \in DOMAIN included
      PROVE  c[included[r]] = SumOf(es1, Inside(T1, q1, bins1[r]))
  <2> DEFINE i == included[r]
             bin == bins[i]
             g == Inside(T, q, bin)
             g1 == Inside(T1, q1, bins1[r])
             h == [e \in T |-> IF e \in S THEN g[e] ELSE 0]
  <2>1. i \in DOMAIN bins /\ i \in ToSet(included) /\ bins1[r] = p[bin]
    <3>1. \A k \in DOMAIN included : included[k] \in DOMAIN bins
      BY LenProperties, ElementOfSeq DEF Selects
    <3>2. QED BY <3>1 DEF Selects, ToSet
  <2>2. g \in [T -> Int] /\ \A e \in T : g[e] = IF e.home = bin THEN q[e] ELSE 0
    BY <1>1, InsideType
  <2>3. g1 \in [T1 -> Int] /\ \A e \in T1 : g1[e] = IF e.home = p[bin] THEN q1[e] ELSE 0
    BY <1>1, <2>1, InsideType
  <2>4. c[i] = SumOf(es, g)
    BY <2>1 DEF Collects, T
  <2>5. \A j \in ToSet(included) : p[bins[j]] = p[bin] => bins[j] = bin
    BY <2>1 DEF Selects
  <2> HIDE DEF g, g1
  <2>6. h \in [T -> Int] /\ \A e \in T : h[e] = IF e \in S THEN g[e] ELSE 0
    BY <2>2
  <2>7. \A k \in 1 .. Len(es) : es[k].home = bin => es[k] \in S
    BY <1>2, <1>4, <2>1
  <2>8. \A k \in 1 .. Len(inside) : inside[k].home = bin <=> p[inside[k].home] = p[bin]
    <3> TAKE k \in 1 .. Len(inside)
    <3>1. inside[k] \in ToSet(es) /\ inside[k] \in S
      BY <1>5, <1>6
    <3>2. \E j \in ToSet(included) : inside[k].home = bins[j]
      BY <1>2, <3>1
    <3>3. QED BY <2>5, <3>2
  <2> HIDE DEF h, bin, inside
  <2>9. SumOf(es, h) = SumOf(es, g)
    <3>1. \A k \in 1 .. Len(es) : h[es[k]] = g[es[k]]
      BY <1>4, <2>2, <2>6, <2>7
    <3>2. Replaces(T, es, g, T, es, h)
      BY <1>2, <2>2, <2>6, <3>1 DEF Replaces
    <3>3. QED BY <3>2, SumOfReplaced
  <2>10. SumOf(inside, g) = SumOf(es, h)
    <3>1. CountsOnly(T, es, S, g, h)
      BY <1>2, <2>2, <2>6 DEF CountsOnly
    <3>2. SumOf(OnlyIn(es, S), g) = SumOf(es, h)
      BY <3>1, SumOfSelected
    <3>3. QED BY <3>2 DEF inside
  <2>11. SumOf(es1, g1) = SumOf(inside, g)
    <3>1. \A k \in 1 .. Len(inside) : g1[es1[k]] = g[inside[k]]
      <4> TAKE k \in 1 .. Len(inside)
      <4>1. es1[k].home = p[inside[k].home] /\ q1[es1[k]] = q[inside[k]]
        BY <1>1
      <4>2. g[inside[k]] = IF inside[k].home = bin THEN q[inside[k]] ELSE 0
        BY <1>3, <2>2
      <4>3. g1[es1[k]] = IF es1[k].home = p[bin] THEN q1[es1[k]] ELSE 0
        BY <1>3, <2>3
      <4>4. QED BY <2>8, <4>1, <4>2, <4>3
    <3>2. Replaces(T, inside, g, T1, es1, g1)
      BY <1>1, <2>2, <2>3, <3>1 DEF Replaces
    <3>3. QED BY <3>2, SumOfReplaced
  <2>12. QED BY <2>4, <2>9, <2>10, <2>11 DEF g1, bin
<1>8. DOMAIN bins1 = DOMAIN included
  BY DEF Selects
<1>9. QED BY <1>7, <1>8 DEF Collects, T1

-----------------------------------------------------------------------------
(* A bin without one of its axes. *)
LEMMA WithoutAxis ==
  ASSUME NEW n \in Nat, n > 1, NEW bin \in BinsOf(n), NEW ax \in 1 .. n
  PROVE  /\ RemoveAt(bin, ax) \in BinsOf(n - 1)
         /\ \A j \in 1 .. n - 1 : RemoveAt(bin, ax)[j] = IF j < ax THEN bin[j] ELSE bin[j + 1]
<1> DEFINE P == ProperExtents
           s == SubSeq(bin, 1, ax - 1)
           t == SubSeq(bin, ax + 1, n)
           without == s \o t
<1>1. bin \in Seq(P) /\ Len(bin) = n
  <2>1. bin \in [1 .. n -> P]
    BY DEF BinsOf
  <2> HIDE DEF P
  <2>2. QED BY <2>1, SeqOfFunction
<1>2. ax - 1 \in Nat /\ ax \in Nat /\ ax - 1 <= n /\ ax <= n
  OBVIOUS
<1> HIDE DEF P
<1>3. s \in Seq(P) /\ Len(s) = ax - 1 /\ \A i \in 1 .. ax - 1 : s[i] = bin[i]
  <2> DEFINE m == ax - 1
  <2>1. m \in Nat /\ m <= Len(bin)
    BY <1>1, <1>2
  <2> HIDE DEF m
  <2>2. SubSeq(bin, 1, m) \in Seq(P) /\ Len(SubSeq(bin, 1, m)) = m
        /\ \A i \in 1 .. m : SubSeq(bin, 1, m)[i] = bin[i]
    BY <1>1, <2>1, FrontOf
  <2>3. QED BY <2>2 DEF m
<1>4. t \in Seq(P) /\ Len(t) = n - ax /\ \A i \in 1 .. n - ax : t[i] = bin[ax + i]
  <2>1. ax \in Nat /\ ax <= n /\ n <= Len(bin)
    BY <1>1, <1>2
  <2>2. QED BY <1>1, <2>1, FrontContinues
<1>5. RemoveAt(bin, ax) = without
  BY <1>1 DEF RemoveAt
<1> HIDE DEF s, t
<1>6. /\ without \in Seq(P) /\ Len(without) = n - 1
      /\ \A i \in 1 .. n - 1 : without[i] = IF i <= ax - 1 THEN s[i] ELSE t[i - (ax - 1)]
  <2>1. without \in Seq(P)
    BY <1>3, <1>4, ConcatProperties
  <2>2. Len(without) = Len(s) + Len(t)
        /\ \A i \in 1 .. Len(s) + Len(t) : without[i] = IF i <= Len(s) THEN s[i] ELSE t[i - Len(s)]
    BY <1>3, <1>4, ConcatProperties
  <2>3. Len(s) + Len(t) = n - 1
    BY <1>3, <1>4
  <2> HIDE DEF without
  <2>4. QED BY <1>3, <2>1, <2>2, <2>3
<1> HIDE DEF without
<1>7. \A j \in 1 .. n - 1 : without[j] = IF j < ax THEN bin[j] ELSE bin[j + 1]
  <2> TAKE j \in 1 .. n - 1
  <2>1. CASE j < ax
    BY <1>3, <1>6, <2>1
  <2>2. CASE j >= ax
    <3>1. j - (ax - 1) \in 1 .. n - ax /\ ax + (j - (ax - 1)) = j + 1
      BY <2>2
    <3>2. without[j] = t[j - (ax - 1)]
      BY <1>6, <2>2
    <3>3. QED BY <1>4, <2>2, <3>1, <3>2
  <2>3. QED BY <2>1, <2>2
<1>8. without \in [1 .. n - 1 -> P]
  <2>1. DOMAIN without = 1 .. n - 1 /\ \A j \in 1 .. n - 1 : without[j] \in P
    BY <1>6, LenProperties, ElementOfSeq
  <2>2. without = [j \in DOMAIN without |-> without[j]]
    BY <1>6
  <2>3. QED BY <2>1, <2>2
<1>9. QED BY <1>5, <1>7, <1>8 DEF P, BinsOf

(* Bins that agree along an axis are told apart by the others. *)
LEMMA AxisTellsNothing ==
  ASSUME NEW n \in Nat, n > 1, NEW a \in BinsOf(n), NEW b \in BinsOf(n), NEW ax \in 1 .. n,
         a[ax] = b[ax], RemoveAt(a, ax) = RemoveAt(b, ax)
  PROVE  a = b
<1>1. \A j \in 1 .. n - 1 : /\ RemoveAt(a, ax)[j] = IF j < ax THEN a[j] ELSE a[j + 1]
                            /\ RemoveAt(b, ax)[j] = IF j < ax THEN b[j] ELSE b[j + 1]
  BY WithoutAxis
<1>2. \A i \in 1 .. n : a[i] = b[i]
  <2> TAKE i \in 1 .. n
  <2>1. CASE i < ax
    <3>1. i \in 1 .. n - 1
      BY <2>1
    <3>2. QED BY <1>1, <2>1, <3>1
  <2>2. CASE i = ax
    BY <2>2
  <2>3. CASE i > ax
    <3> DEFINE j == i - 1
    <3>1. j \in 1 .. n - 1 /\ ~(j < ax) /\ j + 1 = i
      BY <2>3
    <3> HIDE DEF j
    <3>2. a[j + 1] = b[j + 1]
      BY <1>1, <3>1
    <3>3. QED BY <3>1, <3>2
  <2>4. QED BY <2>1, <2>2, <2>3
<1>3. a \in [1 .. n -> ProperExtents] /\ b \in [1 .. n -> ProperExtents]
  BY DEF BinsOf
<1>4. QED BY <1>2, <1>3

(* What a slice makes of each bin: the axis goes or stays. *)
SlicesOf(bins, ax, included) ==
  [bin \in ToSet(bins) |-> SlicedBin(bin, ax, RemoveSlicedAxis(bins, ax, included))]

(* Sliced bins are bins, each of them once. *)
LEMMA SlicedBins ==
  ASSUME NEW bins, IsBins(bins), IsInjective(bins), NEW ax \in 1 .. NAxes(bins),
         NEW included \in Seq(DOMAIN bins), included # <<>>, IsInjective(included),
         NEW bins1, bins1 = [k \in DOMAIN included |-> SlicesOf(bins, ax, included)[bins[included[k]]]]
  PROVE  /\ IsBins(bins1) /\ IsInjective(bins1)
         /\ Selects(bins, included, SlicesOf(bins, ax, included), bins1)
<1> DEFINE n == NAxes(bins)
           p == SlicesOf(bins, ax, included)
           l == Len(included)
           remove == RemoveSlicedAxis(bins, ax, included)
<1>1. n \in Nat \ {0} /\ bins \in Seq(BinsOf(n)) /\ \A i \in DOMAIN bins : bins[i] \in BinsOf(n)
  BY BinsAre
<1>2. /\ l \in Nat \ {0} /\ DOMAIN included = 1 .. l
      /\ \A k \in 1 .. l : included[k] \in DOMAIN bins /\ included[k] \in ToSet(included)
  <2>1. l \in Nat /\ DOMAIN included = 1 .. l /\ \A k \in 1 .. l : included[k] \in DOMAIN bins
    BY LenProperties, ElementOfSeq
  <2>2. l # 0
    BY EmptySeq
  <2>3. QED BY <2>1, <2>2 DEF ToSet
<1>3. \A i \in DOMAIN bins : bins[i] \in ToSet(bins)
  BY DEF ToSet
<1>4. \A i \in ToSet(included) : i \in DOMAIN bins
  BY ToSetType
<1>5. bins \in Seq(ToSet(bins))
  BY <1>1, SeqOfElements
<1> HIDE DEF n, l
<1>6. \E m \in Nat \ {0} :
        /\ \A i \in DOMAIN bins : p[bins[i]] \in BinsOf(m)
        /\ \A i, j \in ToSet(included) : p[bins[i]] = p[bins[j]] => bins[i] = bins[j]
  <2>1. CASE remove
    <3>1. n > 1 /\ \A i, j \in ToSet(included) : bins[i][ax] = bins[j][ax]
      BY <2>1 DEF RemoveSlicedAxis, n
    <3>2. \A i \in DOMAIN bins : p[bins[i]] = RemoveAt(bins[i], ax)
      BY <1>3, <2>1 DEF SlicesOf, SlicedBin
    <3>3. ax \in 1 .. n
      BY DEF n
    <3>4. \A i \in DOMAIN bins : p[bins[i]] \in BinsOf(n - 1)
      BY <1>1, <3>1, <3>2, <3>3, WithoutAxis
    <3>5. ASSUME NEW i \in ToSet(included), NEW j \in ToSet(included), p[bins[i]] = p[bins[j]]
          PROVE  bins[i] = bins[j]
      <4>1. i \in DOMAIN bins /\ j \in DOMAIN bins
        BY <1>4
      <4> DEFINE a == bins[i]
                 b == bins[j]
      <4>2. a \in BinsOf(n) /\ b \in BinsOf(n) /\ a[ax] = b[ax] /\ RemoveAt(a, ax) = RemoveAt(b, ax)
        BY <1>1, <3>1, <3>2, <3>5, <4>1
      <4> HIDE DEF a, b
      <4>3. a = b
        BY <1>1, <3>1, <3>3, <4>2, AxisTellsNothing
      <4>4. QED BY <4>3 DEF a, b
    <3>6. n - 1 \in Nat \ {0}
      BY <1>1, <3>1
    <3>7. QED BY <3>4, <3>5, <3>6
  <2>2. CASE ~remove
    <3>1. \A i \in DOMAIN bins : p[bins[i]] = bins[i]
      BY <1>3, <2>2 DEF SlicesOf, SlicedBin
    <3>2. QED BY <1>1, <1>4, <3>1
  <2>3. QED BY <2>1, <2>2
<1> HIDE DEF p
<1>7. Selects(bins, included, p, bins1)
  BY <1>5, <1>6 DEF Selects, p
<1>8. PICK m \in Nat \ {0} : \A i \in DOMAIN bins : p[bins[i]] \in BinsOf(m)
  BY <1>6
<1>9. bins1 \in [1 .. l -> BinsOf(m)]
  BY <1>2, <1>8 DEF p
<1>10. bins1 \in Seq(BinsOf(m)) /\ bins1 # <<>>
  <2> DEFINE P == BinsOf(m)
  <2> HIDE DEF P
  <2>1. bins1 \in Seq(P) /\ Len(bins1) = l
    BY <1>2, <1>9, SeqOfFunction DEF P
  <2>2. bins1 # <<>>
    BY <1>2, <2>1
  <2>3. QED BY <2>1, <2>2 DEF P
<1>11. IsBins(bins1)
  BY <1>10, AreBins
<1>12. IsInjective(bins1)
  <2>1. ASSUME NEW i \in 1 .. l, NEW j \in 1 .. l, bins1[i] = bins1[j] PROVE i = j
    <3>1. bins[included[i]] = bins[included[j]]
      BY <1>2, <1>6, <2>1 DEF p
    <3>2. included[i] = included[j]
      BY <1>2, <3>1 DEF IsInjective
    <3>3. QED BY <1>2, <3>2 DEF IsInjective
  <2>2. DOMAIN bins1 = 1 .. l
    BY <1>9
  <2>3. QED BY <2>1, <2>2 DEF IsInjective
<1>13. QED BY <1>7, <1>11, <1>12 DEF p

(* The bins of a slice are those whose extents along its axis are in it. *)
LEMMA IncludedBins ==
  ASSUME NEW bins, IsBins(bins), NEW ax, NEW range, NEW excludeEnd
  PROVE  LET included == BinsToInclude(bins, ax, range, excludeEnd) IN
         /\ included \in Seq(DOMAIN bins) /\ IsInjective(included)
         /\ ToSet(included) = {i \in DOMAIN bins : InSlice(bins[i][ax], range, excludeEnd)}
<1> DEFINE n == Len(bins)
           all == [i \in DOMAIN bins |-> i]
           I == {i \in DOMAIN bins : InSlice(bins[i][ax], range, excludeEnd)}
<1>1. n \in Nat /\ DOMAIN bins = 1 .. n
  BY BinsAre
<1>2. all \in [1 .. n -> 1 .. n] /\ DOMAIN all = 1 .. n /\ \A i \in 1 .. n : all[i] = i
  BY <1>1
<1>3. I \subseteq 1 .. n
  BY <1>1
<1>4. BinsToInclude(bins, ax, range, excludeEnd) = OnlyIn(all, I)
  BY DEF BinsToInclude
<1> HIDE DEF all, n, I
<1>5. all \in Seq(1 .. n) /\ ToSet(all) = 1 .. n /\ IsInjective(all)
  BY <1>1, <1>2, SeqOfFunction DEF ToSet, IsInjective
<1>6. OnlyIn(all, I) \in Seq(1 .. n) /\ IsInjective(OnlyIn(all, I)) /\ ToSet(OnlyIn(all, I)) = ToSet(all) \cap I
  BY <1>5, OnlyInType, OnlyInInjective, OnlyInElements
<1>7. QED BY <1>1, <1>3, <1>4, <1>5, <1>6 DEF I

(* The entries in the slice, in the bins they get. *)
SlicedEntries(bins, es, ax, range, excludeEnd) ==
  LET included == BinsToInclude(bins, ax, range, excludeEnd)
      inside == OnlyIn(es, {e \in ToSet(es) : InSlice(e.home[ax], range, excludeEnd)})
  IN [k \in DOMAIN inside |->
        [inside[k] EXCEPT !.home = SlicedBin(@, ax, RemoveSlicedAxis(bins, ax, included))]]

(* The entries in the slice are those whose bin is included. *)
LEMMA EntriesSliced ==
  ASSUME NEW bins, IsBins(bins), NEW es \in Seq(EntriesIn(bins)), NEW ax, NEW range, NEW excludeEnd,
         NEW included, included = BinsToInclude(bins, ax, range, excludeEnd),
         NEW bins1, bins1 = [k \in DOMAIN included |-> SlicesOf(bins, ax, included)[bins[included[k]]]]
  PROVE  LET S == {e \in ToSet(es) : InSlice(e.home[ax], range, excludeEnd)} IN
         /\ SelectsEntries(bins, included, es, S)
         /\ WithHomes(bins, OnlyIn(es, S), SlicesOf(bins, ax, included), bins1,
                      SlicedEntries(bins, es, ax, range, excludeEnd))
<1> DEFINE T == EntriesIn(bins)
           S == {e \in ToSet(es) : InSlice(e.home[ax], range, excludeEnd)}
           inside == OnlyIn(es, S)
           p == SlicesOf(bins, ax, included)
           es1 == SlicedEntries(bins, es, ax, range, excludeEnd)
<1>1. /\ included \in Seq(DOMAIN bins)
      /\ ToSet(included) = {i \in DOMAIN bins : InSlice(bins[i][ax], range, excludeEnd)}
  BY IncludedBins
<1>2. \A e \in ToSet(es) : e \in T /\ \E i \in DOMAIN bins : e.home = bins[i]
  <2>1. \A e \in ToSet(es) : e \in T
    BY ToSetType
  <2>2. QED BY <2>1, EntryIn DEF ToSet
<1>3. \A e \in ToSet(es) : e \in S <=> \E i \in ToSet(included) : e.home = bins[i]
  <2> TAKE e \in ToSet(es)
  <2>1. e \in S <=> InSlice(e.home[ax], range, excludeEnd)
    OBVIOUS
  <2> HIDE DEF S
  <2>2. QED BY <1>1, <1>2, <2>1
<1>4. SelectsEntries(bins, included, es, S)
  BY <1>3 DEF SelectsEntries
<1>5. es1 = [k \in DOMAIN inside |->
               [inside[k] EXCEPT !.home = SlicedBin(@, ax, RemoveSlicedAxis(bins, ax, included))]]
  BY DEF SlicedEntries
<1> HIDE DEF S, es1, T
<1>6. inside \in Seq(T) /\ ToSet(inside) = ToSet(es) \cap S
  BY OnlyInType, OnlyInElements DEF T
<1> HIDE DEF inside
<1>7. \A k \in DOMAIN inside : inside[k] \in ToSet(es) /\ inside[k] \in S
  BY <1>6 DEF ToSet
<1>8. \A k \in DOMAIN inside : \E i \in ToSet(included) : inside[k].home = bins[i]
  BY <1>3, <1>7
<1>9. \A k \in DOMAIN inside : inside[k].home \in ToSet(bins)
  BY <1>1, <1>8 DEF ToSet
<1>10. \A bin \in ToSet(bins) : p[bin] = SlicedBin(bin, ax, RemoveSlicedAxis(bins, ax, included))
  BY DEF SlicesOf
<1> HIDE DEF p
<1>11. es1 = [k \in DOMAIN inside |-> [inside[k] EXCEPT !.home = p[@]]]
  BY <1>5, <1>9, <1>10
<1>12. \A k \in DOMAIN inside : p[inside[k].home] \in ToSet(bins1)
  <2>1. \A i \in ToSet(included) : p[bins[i]] \in ToSet(bins1)
    BY DEF ToSet, p
  <2>2. QED BY <1>8, <2>1
<1>13. WithHomes(bins, inside, p, bins1, es1)
  BY <1>6, <1>11, <1>12 DEF WithHomes, T
<1>14. QED BY <1>4, <1>13 DEF S, es1, p, inside

(* A slice holds the entries of its bins, and no other. *)
LEMMA SlicedIsHist ==
  ASSUME NEW h, NEW es, IsHist(h), Holding(h, es), NEW ax \in 1 .. NAxes(h.binning.bins),
         NEW range, NEW excludeEnd, NEW hasBinning \in BOOLEAN,
         NEW included, included = BinsToInclude(h.binning.bins, ax, range, excludeEnd),
         included # <<>>,
         hasBinning => Refusal(Sliced(h, ax, included, hasBinning).binning.bins) = "none"
  PROVE  /\ IsHist(Sliced(h, ax, included, hasBinning))
         /\ Holding(Sliced(h, ax, included, hasBinning),
                    SlicedEntries(h.binning.bins, es, ax, range, excludeEnd))
<1> DEFINE bins == h.binning.bins
           p == SlicesOf(bins, ax, included)
           bins1 == [k \in DOMAIN included |-> p[bins[included[k]]]]
           T == EntriesIn(bins)
           T1 == EntriesIn(bins1)
           h1 == Sliced(h, ax, included, hasBinning)
           es1 == SlicedEntries(bins, es, ax, range, excludeEnd)
           S == {e \in ToSet(es) : InSlice(e.home[ax], range, excludeEnd)}
           cells1 == [k \in DOMAIN included |-> h.cells[included[k]]]
           err1 == [k \in DOMAIN included |-> h.err2[included[k]]]
           extents == [k \in DOMAIN included |->
                         SlicedBin(bins[included[k]], ax, RemoveSlicedAxis(bins, ax, included))]
           b == IF hasBinning THEN FromExtents(bins1) ELSE BinsOnly(bins1)
<1>1. /\ h = [type |-> h.type, binning |-> h.binning, cells |-> h.cells, err2 |-> h.err2,
              numFills |-> h.numFills]
      /\ h.type \in {"HistFrame", "BinnedValues"} /\ h.numFills \in Nat
      /\ IsBins(bins) /\ IsInjective(bins)
      /\ h.cells \in [DOMAIN bins -> Int] /\ h.err2 \in [DOMAIN bins -> Int]
  BY DEF IsHist
<1>2. /\ es \in Seq(T) /\ Collects(bins, h.cells, es, Amounts1(T))
      /\ (h.type = "HistFrame" => Collects(bins, h.err2, es, Amounts2(T)))
  BY DEF Holding
<1>3. included \in Seq(DOMAIN bins) /\ IsInjective(included)
  BY <1>1, IncludedBins
<1>4. \A k \in DOMAIN included : included[k] \in DOMAIN bins
  BY <1>3, LenProperties, ElementOfSeq
<1>5. bins1 = extents
  BY <1>4 DEF SlicesOf, ToSet
<1>6. cells1 \in [DOMAIN included -> Int] /\ err1 \in [DOMAIN included -> Int]
      /\ DOMAIN bins1 = DOMAIN included
  BY <1>1, <1>4
<1>7. h1 = [h EXCEPT !.binning = IF hasBinning THEN FromExtents(extents) ELSE BinsOnly(extents),
                     !.cells = cells1, !.err2 = err1]
  BY DEF Sliced
<1> HIDE DEF extents, p, h1, es1, cells1, err1, S
<1>8. h1 = [h EXCEPT !.binning = b, !.cells = cells1, !.err2 = err1]
  BY <1>5, <1>7
<1> HIDE DEF b
<1>9. h1 = [type |-> h.type, binning |-> b, cells |-> cells1, err2 |-> err1, numFills |-> h.numFills]
  BY <1>1, <1>8
<1>10. /\ h1.type = h.type /\ h1.binning = b /\ h1.cells = cells1 /\ h1.err2 = err1
       /\ h1.numFills = h.numFills
  BY <1>9
<1>11. IsBins(bins1) /\ IsInjective(bins1) /\ Selects(bins, included, p, bins1)
  <2> DEFINE c == bins1
  <2>1. c = [k \in DOMAIN included |-> SlicesOf(bins, ax, included)[bins[included[k]]]]
    BY DEF p
  <2> HIDE DEF c, bins
  <2>2. IsBins(c) /\ IsInjective(c) /\ Selects(bins, included, SlicesOf(bins, ax, included), c)
    BY <1>1, <1>3, <2>1, SlicedBins DEF bins
  <2>3. QED BY <2>2 DEF p, c
<1>12. b.bins = bins1 /\ (b.kind # "none" => Finds(b))
  <2>1. b = IF hasBinning THEN FromExtents(bins1) ELSE BinsOnly(bins1)
    BY DEF b
  <2>2. b.bins = bins1
    BY <2>1 DEF FromExtents, BinsOnly
  <2>3. hasBinning => Refusal(bins1) = "none"
    BY <1>10, <2>2 DEF h1
  <2> HIDE DEF bins1
  <2>4. QED BY <1>11, <2>1, <2>3, BinningOfResult
<1>13. SelectsEntries(bins, included, es, S) /\ WithHomes(bins, OnlyIn(es, S), p, bins1, es1)
  <2> DEFINE c == bins1
  <2>1. c = [k \in DOMAIN included |-> SlicesOf(bins, ax, included)[bins[included[k]]]]
    BY DEF p
  <2>0. IsBins(bins) /\ es \in Seq(EntriesIn(bins)) /\ included = BinsToInclude(bins, ax, range, excludeEnd)
    BY <1>1, <1>2
  <2> HIDE DEF c, bins
  <2>2. /\ SelectsEntries(bins, included, es, {e \in ToSet(es) : InSlice(e.home[ax], range, excludeEnd)})
        /\ WithHomes(bins, OnlyIn(es, {e \in ToSet(es) : InSlice(e.home[ax], range, excludeEnd)}),
                     SlicesOf(bins, ax, included), c,
                     SlicedEntries(bins, es, ax, range, excludeEnd))
    BY <2>0, <2>1, EntriesSliced
  <2>3. QED BY <2>2 DEF p, c, S, es1
<1> HIDE DEF bins1
<1>14. /\ es1 \in Seq(T1)
       /\ Moved(bins, OnlyIn(es, S), Amounts1(T), bins1, es1, Amounts1(T1), p)
       /\ Moved(bins, OnlyIn(es, S), Amounts2(T), bins1, es1, Amounts2(T1), p)
  <2> DEFINE u == OnlyIn(es, S)
  <2>1. WithHomes(bins, u, p, bins1, es1)
    BY <1>13
  <2> HIDE DEF u
  <2>2. QED BY <2>1, MovedEntries DEF u
<1> HIDE DEF T, T1
<1>15. Collects(bins1, cells1, es1, Amounts1(T1))
  <2> DEFINE c == h.cells
             q == Amounts1(T)
             q1 == Amounts1(T1)
  <2>1. Moved(bins, OnlyIn(es, S), q, bins1, es1, q1, p) /\ Collects(bins, c, es, q)
    BY <1>2, <1>14
  <2> HIDE DEF bins, c, q, q1
  <2>2. Collects(bins1, [k \in DOMAIN included |-> c[included[k]]], es1, q1)
    BY <1>11, <1>13, <2>1, CollectsSelected
  <2>3. QED BY <2>2 DEF c, q1, cells1
<1>16. h.type = "HistFrame" => Collects(bins1, err1, es1, Amounts2(T1))
  <2> SUFFICES ASSUME h.type = "HistFrame" PROVE Collects(bins1, err1, es1, Amounts2(T1))
    OBVIOUS
  <2> DEFINE c == h.err2
             q == Amounts2(T)
             q1 == Amounts2(T1)
  <2>1. Moved(bins, OnlyIn(es, S), q, bins1, es1, q1, p) /\ Collects(bins, c, es, q)
    BY <1>2, <1>14
  <2> HIDE DEF bins, c, q, q1
  <2>2. Collects(bins1, [k \in DOMAIN included |-> c[included[k]]], es1, q1)
    BY <1>11, <1>13, <2>1, CollectsSelected
  <2>3. QED BY <2>2 DEF c, q1, err1
<1>17. IsHist(h1)
  BY <1>1, <1>6, <1>9, <1>10, <1>11, <1>12 DEF IsHist, bins1
<1>18. Holding(h1, es1)
  BY <1>10, <1>12, <1>14, <1>15, <1>16 DEF Holding, T1
<1>19. QED BY <1>17, <1>18 DEF h1, es1

-----------------------------------------------------------------------------
(* Histograms over the binning of h, each with the entries it holds. *)
FilledPairs(h) ==
  {d \in [type : {h.type}, binning : {h.binning}, cells : [DOMAIN h.binning.bins -> Int],
          err2 : [DOMAIN h.binning.bins -> Int], numFills : Nat]
         \X Seq(EntriesIn(h.binning.bins)) :
     IsHist(d[1]) /\ Holding(d[1], d[2])}

(* That is what they are. *)
LEMMA FilledPair ==
  ASSUME NEW h, NEW g, NEW es
  PROVE  <<g, es>> \in FilledPairs(h) <=>
           g.type = h.type /\ g.binning = h.binning /\ IsHist(g) /\ Holding(g, es)
<1> DEFINE bins == h.binning.bins
           H == [type : {h.type}, binning : {h.binning}, cells : [DOMAIN bins -> Int],
                 err2 : [DOMAIN bins -> Int], numFills : Nat]
           d == <<g, es>>
<1>1. d \in FilledPairs(h) <=> g \in H /\ es \in Seq(EntriesIn(bins)) /\ IsHist(g) /\ Holding(g, es)
  BY DEF FilledPairs
<1>2. g \in H => g.type = h.type /\ g.binning = h.binning
  OBVIOUS
<1>3. ASSUME g.type = h.type, g.binning = h.binning, IsHist(g), Holding(g, es)
      PROVE  g \in H /\ es \in Seq(EntriesIn(bins))
  <2>1. /\ g = [type |-> g.type, binning |-> g.binning, cells |-> g.cells, err2 |-> g.err2,
                numFills |-> g.numFills]
        /\ g.cells \in [DOMAIN bins -> Int] /\ g.err2 \in [DOMAIN bins -> Int] /\ g.numFills \in Nat
    BY <1>3 DEF IsHist
  <2>2. g \in H
    BY <1>3, <2>1
  <2>3. es \in Seq(EntriesIn(bins))
    BY <1>3 DEF Holding
  <2>4. QED BY <2>2, <2>3
<1>4. QED BY <1>1, <1>2, <1>3

WeightOf(k) == k % 3

FilledOnce(h, points, before, k) ==
  <<FillBin(before[1], FindBin(h.binning, points[k]), WeightOf(k)),
    before[2] \o EntriesOf(h.binning.bins, points[k], WeightOf(k))>>

(* One fill of the run is a fill of a histogram that holds its entries, *)
LEMMA FilledOnceMore ==
  ASSUME NEW h, IsHist(h), h.type = "HistFrame", h.binning.kind # "none",
         NEW points \in Seq(NumberPoints(NAxes(h.binning.bins))),
         NEW d \in FilledPairs(h), NEW k \in 1 .. Len(points)
  PROVE  FilledOnce(h, points, d, k) \in FilledPairs(h)
<1> DEFINE g == d[1]
           es == d[2]
           x == points[k]
           w == WeightOf(k)
           i == FindBin(h.binning, x)
<1>1. d = <<g, es>>
  BY DEF FilledPairs
<1>2. g.type = h.type /\ g.binning = h.binning /\ IsHist(g) /\ Holding(g, es)
  <2> HIDE DEF g, es
  <2>1. QED BY <1>1, FilledPair
<1>3. x \in NumberPoints(NAxes(h.binning.bins))
  BY LenProperties, ElementOfSeq
<1>4. CorrectIndex(g.binning.bins, x, i)
  BY <1>2, <1>3 DEF IsHist, Finds
<1>5. w \in Int
  BY DEF WeightOf
<1>6. FilledOnce(h, points, d, k) = <<FillBin(g, i, w), es \o EntriesOf(h.binning.bins, x, w)>>
  BY DEF FilledOnce
<1> HIDE DEF g, es, x, w, i
<1>0. Fills(g, es, x, i, w)
  BY <1>2, <1>4, <1>5 DEF Fills
<1>7. /\ IsHist(FillBin(g, i, w)) /\ FillBin(g, i, w).type = g.type
      /\ FillBin(g, i, w).binning = g.binning
      /\ Holding(FillBin(g, i, w), es \o EntriesOf(g.binning.bins, x, w))
  BY <1>0, FilledIsHist
<1> DEFINE g1 == FillBin(g, i, w)
           es1 == es \o EntriesOf(h.binning.bins, x, w)
<1>8. g1.type = h.type /\ g1.binning = h.binning /\ IsHist(g1) /\ Holding(g1, es1)
  BY <1>2, <1>7
<1> HIDE DEF g1, es1
<1>9. <<g1, es1>> \in FilledPairs(h)
  BY <1>8, FilledPair
<1>10. QED BY <1>6, <1>9 DEF g1, es1

(* and so a whole run of fills leaves one. *)
LEMMA FilledWithIsHist ==
  ASSUME NEW h, NEW es, IsHist(h), Holding(h, es), h.type = "HistFrame", h.binning.kind # "none",
         NEW points \in Seq(NumberPoints(NAxes(h.binning.bins)))
  PROVE  LET filled == FilledWith(h, es, points) IN
         /\ IsHist(filled[1]) /\ Holding(filled[1], filled[2])
         /\ filled[1].type = h.type /\ filled[1].binning = h.binning
<1> DEFINE m == Len(points)
           D == FilledPairs(h)
           base == <<h, es>>
           next(d, k) == FilledOnce(h, points, d, k)
           step == [p \in D \X (1 .. m) |-> next(p[1], p[2])]
           Upto(f) == f = [k \in 0 .. m |-> IF k = 0 THEN base ELSE next(f[k - 1], k)]
           chosen == CHOOSE f : Upto(f)
<1>1. m \in Nat /\ base \in D
  BY FilledPair, LenProperties
<1>2. FilledWith(h, es, points) = chosen[m]
  BY DEF FilledWith, FilledOnce, WeightOf
<1>3. \A d \in D, k \in 1 .. m : next(d, k) \in D
  BY FilledOnceMore
<1> HIDE DEF D, m, base, next
<1>4. step \in [D \X (1 .. m) -> D] /\ \A d \in D, k \in 1 .. m : step[<<d, k>>] = next(d, k)
  BY <1>3
<1> HIDE DEF step
<1>5. PICK f : f \in Recursions(m, D, base, step)
  BY <1>1, <1>4, RecursionUpTo
<1>6. f \in [0 .. m -> D] /\ f[0] = base
  BY <1>5 DEF Recursions
<1>7. \A k \in 1 .. m : f[k] = next(f[k - 1], k)
  <2>1. \A k \in 1 .. m : f[k] = step[<<f[k - 1], k>>]
    BY <1>5 DEF Recursions
  <2>2. \A k \in 1 .. m : f[k - 1] \in D
    BY <1>1, <1>6
  <2>3. QED BY <1>4, <2>1, <2>2
<1>8. Upto(f)
  <2>1. \A k \in 0 .. m : f[k] = IF k = 0 THEN base ELSE next(f[k - 1], k)
    <3>1. \A k \in 0 .. m : k # 0 => k \in 1 .. m
      BY <1>1
    <3>2. QED BY <1>6, <1>7, <3>1
  <2>2. QED BY <1>6, <2>1
<1>9. Upto(chosen)
  <2> HIDE DEF Upto
  <2>1. QED BY <1>8
<1> HIDE DEF chosen
<1>10. /\ \A k \in 0 .. m : chosen[k] = IF k = 0 THEN base ELSE next(chosen[k - 1], k)
  BY <1>9
<1> DEFINE S == {k \in 0 .. m : chosen[k] = f[k]}
<1>11. 0 \in S
  BY <1>1, <1>6, <1>10
<1>12. ASSUME NEW n \in 0 .. m - 1, n \in S PROVE n + 1 \in S
  <2> DEFINE k == n + 1
  <2>1. k \in 1 .. m /\ k \in 0 .. m /\ k # 0 /\ k - 1 = n
    BY <1>1
  <2>2. chosen[k - 1] = f[k - 1]
    BY <1>12, <2>1
  <2> HIDE DEF k
  <2>3. chosen[k] = next(chosen[k - 1], k) /\ f[k] = next(f[k - 1], k)
    BY <1>7, <1>10, <2>1
  <2>4. chosen[k] = f[k]
    BY <2>2, <2>3
  <2>5. QED BY <2>1, <2>4 DEF k
<1> HIDE DEF S
<1>13. \A k \in 0 .. m : k \in S
  BY <1>1, <1>11, <1>12, BoundedInduction
<1>14. chosen[m] = f[m] /\ f[m] \in D
  <2>1. m \in 0 .. m
    BY <1>1
  <2>2. QED BY <1>6, <1>13, <2>1 DEF S
<1> DEFINE filled == FilledWith(h, es, points)
<1>15. filled \in D
  BY <1>2, <1>14
<1> HIDE DEF filled
<1>16. filled = <<filled[1], filled[2]>>
  BY <1>15 DEF D, FilledPairs
<1> DEFINE g1 == filled[1]
           es1 == filled[2]
<1>17. <<g1, es1>> \in FilledPairs(h)
  BY <1>15, <1>16 DEF D
<1> HIDE DEF g1, es1
<1>18. g1.type = h.type /\ g1.binning = h.binning /\ IsHist(g1) /\ Holding(g1, es1)
  BY <1>17, FilledPair
<1>19. QED BY <1>18 DEF g1, es1, filled

-----------------------------------------------------------------------------
(* The invariant.  The histogram and its copy are histograms that hold their entries; what *)
(* was found was right.                                                    *)
HistInv ==
  /\ refusal \in {"none", "EmptyBinning", "BinningNotUnique", "BinningHasOverlaps"}
  /\ Made <=> refusal = "none"
  /\ ops \in 0 .. MaxOps
  /\ refusal = "none" <=>
       /\ given # <<>>
       /\ \A x \in [1 .. NAxes(given) -> Coordinates] : Cardinality(HomesOf(given, x)) <= 1
  /\ Made => IsHist(hist) /\ Holding(hist, entries)
  /\ copy # NoHist => IsHist(copy) /\ Holding(copy, kept)
  /\ found # NothingFound => CorrectIndex(Bins, found.x, found.bin)

(* A histogram is not the one that is missing. *)
LEMMA HistIsMade ==
  ASSUME NEW h, IsHist(h)
  PROVE  h # NoHist
<1>1. h.type # "none"
  BY DEF IsHist
<1>2. NoHist.type = "none"
  BY DEF NoHist
<1>3. QED BY <1>1, <1>2

(* The points that are looked for are points of numbers. *)
LEMMA PointsAreNumbers ==
  ASSUME NEW bins, IsBins(bins)
  PROVE  /\ [1 .. NAxes(bins) -> Coordinates] \subseteq NumberPoints(NAxes(bins))
         /\ Coordinates \cap Numbers = Coordinates
BY PointsAssumption DEF NumberPoints, Numbers

-----------------------------------------------------------------------------
(* A factory refuses bins exactly when there are none or two of them       *)
(* overlap, which the points of the coordinates show.                      *)
LEMMA RefusalIsRight ==
  ASSUME NEW bins \in GivenBins
  PROVE  /\ Refusal(bins) \in {"none", "EmptyBinning", "BinningNotUnique", "BinningHasOverlaps"}
         /\ Refusal(bins) = "none" => IsBins(bins)
         /\ Refusal(bins) = "none" <=>
              /\ bins # <<>>
              /\ \A x \in [1 .. NAxes(bins) -> Coordinates] : Cardinality(HomesOf(bins, x)) <= 1
<1>1. Refusal(bins) \in {"none", "EmptyBinning", "BinningNotUnique", "BinningHasOverlaps"}
  BY DEF Refusal
<1>2. CASE bins = <<>>
  <2>1. Refusal(bins) = "EmptyBinning"
    BY <1>2 DEF Refusal
  <2>2. QED BY <1>1, <1>2, <2>1
<1>3. CASE bins # <<>>
  <2>1. IsBins(bins) /\ \A i \in DOMAIN bins : \A ax \in 1 .. NAxes(bins) : bins[i][ax].low \in Coordinates
    BY <1>3, GivenAssumption
  <2>2. /\ Refusal(bins) = "none" => \A x \in NumberPoints(NAxes(bins)) : OneHome(bins, x)
        /\ (\A x \in [1 .. NAxes(bins) -> Coordinates \cap Numbers] : OneHome(bins, x)) =>
             Refusal(bins) = "none"
    BY <2>1, RefusedUnlessOneHome
  <2>3. \A x : OneHome(bins, x) <=> Cardinality(HomesOf(bins, x)) <= 1
    BY <2>1, HomesAre
  <2>4. /\ [1 .. NAxes(bins) -> Coordinates] \subseteq NumberPoints(NAxes(bins))
        /\ Coordinates \cap Numbers = Coordinates
    BY <2>1, PointsAreNumbers
  <2>5. QED BY <1>1, <1>3, <2>1, <2>2, <2>3, <2>4
<1>4. QED BY <1>2, <1>3

(* Every factory makes a histogram that holds nothing, or refuses. *)
LEMMA InitInv == Init => HistInv
<1> SUFFICES ASSUME Init PROVE HistInv
  OBVIOUS
<1>1. /\ copy = NoHist /\ found = NothingFound /\ ops = 0 /\ entries = <<>> /\ kept = <<>>
      /\ ops \in 0 .. MaxOps
  BY BoundsAssumption DEF Init
<1>2. CASE InitExtents
  <2>1. /\ given \in GivenBins /\ refusal = Refusal(given)
        /\ hist \in IF refusal # "none" THEN {NoHist}
                    ELSE {EmptyHist(FromExtents(given)), EmptyHist(BruteForce(given))}
    BY <1>2 DEF InitExtents
  <2>2. /\ refusal \in {"none", "EmptyBinning", "BinningNotUnique", "BinningHasOverlaps"}
        /\ refusal = "none" => IsBins(given)
        /\ refusal = "none" <=>
             /\ given # <<>>
             /\ \A x \in [1 .. NAxes(given) -> Coordinates] : Cardinality(HomesOf(given, x)) <= 1
    BY <2>1, RefusalIsRight
  <2>3. refusal # "none" => ~Made
    BY <2>1 DEF Made
  <2>4. refusal = "none" => Made /\ IsHist(hist) /\ Holding(hist, entries)
    <3> SUFFICES ASSUME refusal = "none" PROVE Made /\ IsHist(hist) /\ Holding(hist, entries)
      OBVIOUS
    <3>1. Finds(FromExtents(given)) /\ Finds(BruteForce(given))
      BY <2>1, <2>2, ExtentsFind
    <3>2. hist = EmptyHist(FromExtents(given)) \/ hist = EmptyHist(BruteForce(given))
      BY <2>1
    <3>3. IsHist(hist) /\ Holding(hist, <<>>)
      BY <3>1, <3>2, EmptyIsHist
    <3>4. QED BY <1>1, <3>3, HistIsMade DEF Made
  <2>5. QED BY <1>1, <2>2, <2>3, <2>4 DEF HistInv
<1>3. CASE InitUniform
  <2>1. PICK b \in UniformBinnings : given = b.bins /\ refusal = "none" /\ hist = EmptyHist(b)
    BY <1>3 DEF InitUniform
  <2>2. Finds(b)
    BY <2>1, UniformAssumption, BinningFinds
  <2>3. IsHist(hist) /\ Holding(hist, entries)
    BY <1>1, <2>1, <2>2, EmptyIsHist
  <2>4. Made
    BY <2>3, HistIsMade DEF Made
  <2>5. IsBins(given) /\ \A x \in NumberPoints(NAxes(given)) : OneHome(given, x)
    BY <2>1, <2>2, OneHomeIfFound DEF Finds
  <2>6. \A x : OneHome(given, x) <=> Cardinality(HomesOf(given, x)) <= 1
    BY <2>5, HomesAre
  <2>7. [1 .. NAxes(given) -> Coordinates] \subseteq NumberPoints(NAxes(given))
    BY <2>5, PointsAreNumbers
  <2>8. \A x \in [1 .. NAxes(given) -> Coordinates] : Cardinality(HomesOf(given, x)) <= 1
    BY <2>5, <2>6, <2>7
  <2>9. given # <<>>
    BY <2>5 DEF IsBins
  <2>10. QED BY <1>1, <2>1, <2>3, <2>4, <2>8, <2>9 DEF HistInv
<1>4. QED BY <1>2, <1>3 DEF Init

-----------------------------------------------------------------------------
(* What is left to show of an operation. *)
LEMMA OperationKeepsInv ==
  ASSUME HistInv, Operation \/ Uncounted, IsHist(hist'), Holding(hist', entries'),
         \/ copy' = copy /\ kept' = kept
         \/ copy' = hist /\ kept' = entries,
         \/ found' = NothingFound
         \/ found' = found /\ hist'.binning.bins = hist.binning.bins
         \/ CorrectIndex(hist'.binning.bins, found'.x, found'.bin)
  PROVE  HistInv'
<1>1. /\ Made /\ given' = given /\ refusal' = refusal
      /\ (ops < MaxOps /\ ops' = ops + 1) \/ ops' = ops
  BY DEF Operation, Uncounted
<1>2. Made'
  <2> DEFINE h == hist'
  <2>1. IsHist(h)
    OBVIOUS
  <2> HIDE DEF h
  <2>2. h # NoHist
    BY <2>1, HistIsMade
  <2>3. QED BY <2>2 DEF h, Made
<1>3. ops' \in 0 .. MaxOps
  BY <1>1, BoundsAssumption DEF HistInv
<1>4. copy' # NoHist => IsHist(copy') /\ Holding(copy', kept')
  BY <1>1 DEF HistInv
<1>5. found' # NothingFound => CorrectIndex(Bins', found'.x, found'.bin)
  <2>1. found # NothingFound => CorrectIndex(hist.binning.bins, found.x, found.bin)
    BY DEF HistInv, Bins
  <2>2. CASE found' = NothingFound
    BY <2>2
  <2>3. CASE found' = found /\ hist'.binning.bins = hist.binning.bins
    BY <2>1, <2>3 DEF Bins
  <2>4. CASE CorrectIndex(hist'.binning.bins, found'.x, found'.bin)
    BY <2>4 DEF Bins
  <2>5. QED BY <2>2, <2>3, <2>4
<1>6. QED BY <1>1, <1>2, <1>3, <1>4, <1>5 DEF HistInv

(* An operation starts from a histogram that holds its entries. *)
LEMMA Working ==
  ASSUME HistInv, Operation \/ Uncounted
  PROVE  IsHist(hist) /\ Holding(hist, entries) /\ IsBins(Bins)
BY DEF HistInv, Operation, Uncounted, IsHist, Bins

-----------------------------------------------------------------------------
(* Every operation keeps the invariant. *)
LEMMA FillKeepsInv ==
  ASSUME HistInv, NEW x \in Points, NEW w \in Weights, Fill(x, w)
  PROVE  HistInv'
<1> DEFINE i == FindBin(hist.binning, x)
<1>1. /\ Operation /\ hist.type = "HistFrame" /\ hist.binning.kind # "none"
      /\ found' = [x |-> x, bin |-> i] /\ hist' = FillBin(hist, found'.bin, w)
      /\ entries' = entries \o EntriesOf(Bins, x, w) /\ copy' = copy /\ kept' = kept
  BY DEF Fill
<1>2. IsHist(hist) /\ Holding(hist, entries) /\ IsBins(Bins)
  BY <1>1, Working
<1>3. found'.x = x /\ found'.bin = i
  BY <1>1
<1>4. CorrectIndex(hist.binning.bins, x, i)
  <2>1. x \in NumberPoints(NAxes(Bins))
    BY <1>2, PointsAreNumbers DEF Points
  <2>2. QED BY <1>1, <1>2, <2>1 DEF IsHist, Finds, Bins
<1>5. w \in Int
  BY PointsAssumption
<1> HIDE DEF i
<1>6. /\ IsHist(FillBin(hist, i, w)) /\ FillBin(hist, i, w).binning = hist.binning
      /\ Holding(FillBin(hist, i, w), entries \o EntriesOf(hist.binning.bins, x, w))
  <2> DEFINE h == hist
             es == entries
  <2>1. /\ IsHist(h) /\ Holding(h, es) /\ h.type = "HistFrame"
        /\ CorrectIndex(h.binning.bins, x, i)
    BY <1>1, <1>2, <1>4
  <2> HIDE DEF h, es
  <2>0. Fills(h, es, x, i, w)
    BY <1>5, <2>1 DEF Fills
  <2>2. /\ IsHist(FillBin(h, i, w)) /\ FillBin(h, i, w).binning = h.binning
        /\ Holding(FillBin(h, i, w), es \o EntriesOf(h.binning.bins, x, w))
    BY <2>0, FilledIsHist
  <2>3. QED BY <2>2 DEF h, es
<1>7. IsHist(hist') /\ Holding(hist', entries') /\ hist'.binning = hist.binning
  BY <1>1, <1>3, <1>6 DEF Bins
<1>8. CorrectIndex(hist'.binning.bins, found'.x, found'.bin)
  BY <1>3, <1>4, <1>7
<1>9. QED BY <1>1, <1>7, <1>8, OperationKeepsInv

LEMMA FillEverywhereKeepsInv ==
  ASSUME HistInv, FillEverywhere
  PROVE  HistInv'
<1> DEFINE less == {p \in Points \X Points : PointLess(p[1], p[2])}
           points == Ascending(Points, less)
           filled == FilledWith(hist, entries, points)
<1>1. /\ Uncounted /\ hist.type = "HistFrame" /\ hist.binning.kind # "none"
      /\ hist' = filled[1] /\ entries' = filled[2]
      /\ copy' = copy /\ kept' = kept /\ found' = found
  BY DEF FillEverywhere
<1>2. IsHist(hist) /\ Holding(hist, entries) /\ IsBins(Bins)
  BY <1>1, Working
<1>3. points \in Seq(NumberPoints(NAxes(hist.binning.bins)))
  <2> DEFINE n == NAxes(Bins)
             N == NumberPoints(n)
  <2>1. n \in Nat
    BY <1>2, BinsAre
  <2>2. Points = [1 .. n -> Coordinates] /\ Points \subseteq N
    BY <1>2, PointsAreNumbers DEF Points
  <2>3. N = NumberPoints(NAxes(hist.binning.bins))
    BY DEF Bins
  <2> HIDE DEF n, N
  <2>4. Points \in SUBSET [1 .. n -> Int]
    BY <2>2, PointsAssumption
  <2>5. IsFiniteSet(Points)
    BY <2>1, <2>2, PointsAssumption, FinitelyManyFunctions
  <2>6. StrictTotal(Points, less)
    BY <2>1, <2>4, PointsAreOrdered
  <2> HIDE DEF less
  <2>7. points \in Seq(Points)
    BY <2>5, <2>6, AscendingLists
  <2> HIDE DEF points
  <2>8. points \in Seq(N)
    BY <2>2, <2>7, SeqWiden
  <2>9. QED BY <2>3, <2>8
<1> HIDE DEF points
<1>4. /\ IsHist(filled[1]) /\ Holding(filled[1], filled[2])
      /\ filled[1].type = hist.type /\ filled[1].binning = hist.binning
  BY <1>1, <1>2, <1>3, FilledWithIsHist
<1> HIDE DEF filled
<1>5. IsHist(hist') /\ Holding(hist', entries') /\ hist'.binning = hist.binning
  BY <1>1, <1>4
<1>6. QED BY <1>1, <1>5, OperationKeepsInv

LEMMA ProjectKeepsInv ==
  ASSUME HistInv, NEW axes \in Axes, NEW hasBinning \in BOOLEAN, Project(axes, hasBinning)
  PROVE  HistInv'
<1> DEFINE h1 == Projected(hist, axes, hasBinning)
           es1 == [k \in DOMAIN entries |-> [entries[k] EXCEPT !.home = ProjectBin(@, axes)]]
<1>1. /\ Operation /\ (hasBinning => Refusal(ProjectToUniqueBins(Bins, axes)) = "none")
      /\ hist' = h1 /\ entries' = es1
      /\ copy' = copy /\ kept' = kept /\ found' = NothingFound
  BY DEF Project
<1>2. IsHist(hist) /\ Holding(hist, entries) /\ IsBins(Bins)
  BY <1>1, Working
<1>3. PICK m \in 1 .. NAxes(Bins) : axes \in [1 .. m -> 1 .. NAxes(Bins)]
  BY DEF Axes
<1>4. m \in Nat \ {0}
  <2>1. NAxes(Bins) \in Nat
    BY <1>2, BinsAre
  <2>2. QED BY <2>1
<1>5. axes \in [1 .. m -> 1 .. NAxes(hist.binning.bins)]
      /\ (hasBinning => Refusal(ProjectToUniqueBins(hist.binning.bins, axes)) = "none")
  BY <1>1, <1>3 DEF Bins
<1>6. IsHist(h1) /\ Holding(h1, es1)
  BY <1>2, <1>4, <1>5, ProjectedIsHist
<1> HIDE DEF h1, es1
<1>7. QED BY <1>1, <1>6, OperationKeepsInv

LEMMA SliceKeepsInv ==
  ASSUME HistInv, NEW ax \in 1 .. NAxes(Bins), NEW range, NEW excludeEnd,
         NEW hasBinning \in BOOLEAN, Slice(ax, range, excludeEnd, hasBinning)
  PROVE  HistInv'
<1> DEFINE included == BinsToInclude(Bins, ax, range, excludeEnd)
           h1 == Sliced(hist, ax, included, hasBinning)
           es1 == SlicedEntries(Bins, entries, ax, range, excludeEnd)
<1>1. /\ Operation /\ included # <<>>
      /\ (hasBinning => Refusal(h1.binning.bins) = "none")
      /\ hist' = h1 /\ entries' = es1
      /\ copy' = copy /\ kept' = kept /\ found' = NothingFound
  BY DEF Slice, SlicedEntries
<1>2. IsHist(hist) /\ Holding(hist, entries)
  BY <1>1, Working
<1>3. ax \in 1 .. NAxes(hist.binning.bins)
      /\ included = BinsToInclude(hist.binning.bins, ax, range, excludeEnd)
      /\ es1 = SlicedEntries(hist.binning.bins, entries, ax, range, excludeEnd)
  BY DEF Bins
<1> HIDE DEF included, es1
<1>4. IsHist(h1) /\ Holding(h1, es1)
  BY <1>1, <1>2, <1>3, SlicedIsHist
<1> HIDE DEF h1
<1>5. QED BY <1>1, <1>4, OperationKeepsInv

LEMMA CopyKeepsInv ==
  ASSUME HistInv, Copy
  PROVE  HistInv'
<1>1. Uncounted /\ copy' = hist /\ kept' = entries /\ hist' = hist /\ entries' = entries /\ found' = found
  BY DEF Copy
<1>2. IsHist(hist) /\ Holding(hist, entries)
  BY <1>1, Working
<1>3. QED BY <1>1, <1>2, OperationKeepsInv

(* A histogram has as many cells as bins. *)
LEMMA CellsForBins ==
  ASSUME NEW h, IsHist(h)
  PROVE  Len(h.cells) = Len(h.binning.bins)
<1> DEFINE c == h.cells
           n == Len(h.binning.bins)
<1>1. n \in Nat /\ c \in [1 .. n -> Int]
  BY BinsAre DEF IsHist
<1> HIDE DEF c, n
<1>2. Len(c) = n
  BY <1>1, SeqOfFunction
<1>3. QED BY <1>2 DEF c, n

LEMMA AddCopyKeepsInv ==
  ASSUME HistInv, AddCopy
  PROVE  HistInv'
<1> DEFINE o1 == [copy EXCEPT !.binning = hist.binning]
           eso == AtSamePlace(kept, copy.binning.bins, hist.binning.bins)
           h1 == Sum(hist, copy)
           es1 == entries \o eso
<1>1. /\ Operation /\ copy # NoHist /\ copy.type = hist.type
      /\ Len(copy.cells) = Len(hist.cells)
      /\ hist' = h1 /\ entries' = es1
      /\ copy' = copy /\ kept' = kept /\ found' = found
  BY DEF AddCopy, Bins
<1>2. IsHist(hist) /\ Holding(hist, entries) /\ IsHist(copy) /\ Holding(copy, kept)
  BY <1>1, Working DEF HistInv
<1>3. Len(hist.binning.bins) = Len(copy.binning.bins)
  BY <1>1, <1>2, CellsForBins
<1>4. /\ IsHist(o1) /\ o1.type = copy.type /\ o1.binning = hist.binning
      /\ o1.cells = copy.cells /\ o1.err2 = copy.err2
      /\ Holding(o1, eso)
  <2> DEFINE b == hist.binning
  <2>1. IsBins(b.bins) /\ IsInjective(b.bins) /\ (b.kind # "none" => Finds(b))
    BY <1>2 DEF IsHist
  <2>2. Len(b.bins) = Len(copy.binning.bins)
    BY <1>3
  <2> HIDE DEF b
  <2>3. LET o2 == [copy EXCEPT !.binning = b]
        IN  /\ IsHist(o2) /\ o2.type = copy.type /\ o2.binning = b
            /\ o2.cells = copy.cells /\ o2.err2 = copy.err2
            /\ Holding(o2, AtSamePlace(kept, copy.binning.bins, b.bins))
    BY <1>2, <2>1, <2>2, PlacedIsHist
  <2>4. QED BY <2>3 DEF b
<1>5. h1 = Sum(hist, o1)
  BY <1>4 DEF Sum
<1> HIDE DEF o1, eso
<1>6. IsHist(h1) /\ h1.binning = hist.binning /\ Holding(h1, es1)
  <2>1. o1.type = hist.type /\ o1.binning.bins = hist.binning.bins
    BY <1>1, <1>4
  <2>2. QED BY <1>2, <1>4, <1>5, <2>1, SumIsHist
<1> HIDE DEF h1, es1
<1>7. QED BY <1>1, <1>6, OperationKeepsInv

LEMMA ScaleKeepsInv ==
  ASSUME HistInv, NEW factor \in Int, Scale(factor)
  PROVE  HistInv'
<1> DEFINE h1 == Scaled(hist, factor)
           es1 == [k \in DOMAIN entries |-> [entries[k] EXCEPT !.w = factor * @]]
<1>1. /\ Operation /\ hist' = h1 /\ entries' = es1
      /\ copy' = copy /\ kept' = kept /\ found' = found
  BY DEF Scale
<1>2. IsHist(hist) /\ Holding(hist, entries)
  BY <1>1, Working
<1>3. IsHist(h1) /\ h1.binning = hist.binning /\ Holding(h1, es1)
  BY <1>2, ScaledIsHist
<1> HIDE DEF h1, es1
<1>4. QED BY <1>1, <1>3, OperationKeepsInv

LEMMA FinaliseKeepsInv ==
  ASSUME HistInv, NEW divideByBinSizes \in BOOLEAN, Finalise(divideByBinSizes)
  PROVE  HistInv'
<1>1. /\ Operation /\ copy' = copy /\ kept' = kept /\ found' = found
      /\ hist' = [IF divideByBinSizes THEN OverSizes(hist) ELSE hist
                  EXCEPT !.type = "BinnedValues", !.numFills = 0]
      /\ entries' = IF ~divideByBinSizes THEN entries
                    ELSE [k \in DOMAIN entries |->
                            [entries[k] EXCEPT !.w = @ \div SizeOf(entries[k])]]
      /\ divideByBinSizes => EntriesDivisible
  BY DEF Finalise
<1>2. IsHist(hist) /\ Holding(hist, entries)
  BY <1>1, Working
<1>3. /\ hist = [type |-> hist.type, binning |-> hist.binning, cells |-> hist.cells,
                 err2 |-> hist.err2, numFills |-> hist.numFills]
      /\ hist.cells \in [DOMAIN hist.binning.bins -> Int]
      /\ hist.err2 \in [DOMAIN hist.binning.bins -> Int]
  BY <1>2 DEF IsHist
<1>4. CASE divideByBinSizes
  <2> DEFINE zero == 0
             h1 == hist'
             es1 == entries'
             over == OverSizes(hist)
  <2>1. h1 = [over EXCEPT !.type = "BinnedValues", !.numFills = zero]
    BY <1>1, <1>4
  <2>2. \E c, r : over = [hist EXCEPT !.cells = c, !.err2 = r]
    BY DEF OverSizes
  <2> HIDE DEF over
  <2>3. over = [type |-> hist.type, binning |-> hist.binning, cells |-> over.cells,
                err2 |-> over.err2, numFills |-> hist.numFills]
    BY <1>3, <2>2
  <2> HIDE DEF zero, h1
  <2>4. h1 = [type |-> "BinnedValues", binning |-> hist.binning, cells |-> over.cells,
              err2 |-> over.err2, numFills |-> zero]
    <3> DEFINE c == over.cells
               r == over.err2
    <3>1. over = [type |-> hist.type, binning |-> hist.binning, cells |-> c,
                  err2 |-> r, numFills |-> hist.numFills]
      BY <2>3
    <3> HIDE DEF c, r
    <3>2. h1 = [type |-> "BinnedValues", binning |-> hist.binning, cells |-> c,
                err2 |-> r, numFills |-> zero]
      BY <2>1, <3>1
    <3>3. QED BY <3>2 DEF c, r
  <2>5. es1 = [k \in DOMAIN entries |-> [entries[k] EXCEPT !.w = @ \div SizeOf(entries[k])]]
    BY <1>1, <1>4
  <2>6. \A k \in DOMAIN entries : entries[k].w % SizeOf(entries[k]) = 0
    BY <1>1, <1>4 DEF EntriesDivisible
  <2> HIDE DEF es1
  <2>7. Densities(hist, entries, zero, h1, es1)
    BY <2>4, <2>5, <2>6 DEF Densities, over, zero
  <2>8. IsHist(h1) /\ h1.binning = hist.binning /\ Holding(h1, es1)
    BY <1>2, <2>7, DensitiesAreHist
  <2>9. QED BY <1>1, <2>8, OperationKeepsInv DEF h1, es1
<1>5. CASE ~divideByBinSizes
  <2> DEFINE type == "BinnedValues"
             zero == 0
             c == hist.cells
             r == hist.err2
             h1 == hist'
  <2>1. h1 = [hist EXCEPT !.type = type, !.numFills = zero] /\ entries' = entries
    BY <1>1, <1>5
  <2> HIDE DEF h1
  <2>2. WithContents(hist, type, c, r, zero, h1)
    BY <1>3, <2>1 DEF WithContents
  <2> HIDE DEF type, zero, c, r
  <2>3. IsHist(h1) /\ h1.binning = hist.binning /\ h1.type = type /\ h1.cells = c
    BY <1>2, <2>2, WithContentsIsHist
  <2>4. Holding(h1, entries)
    BY <1>2, <2>3 DEF Holding, type, c
  <2>5. QED BY <1>1, <2>1, <2>3, <2>4, OperationKeepsInv DEF h1
<1>6. QED BY <1>4, <1>5

LEMMA ToCountKeepsInv ==
  ASSUME HistInv, ToCount
  PROVE  HistInv'
<1> DEFINE h1 == TimesSizes(hist)
           es1 == [k \in DOMAIN entries |-> [entries[k] EXCEPT !.w = @ * SizeOf(entries[k])]]
<1>1. /\ Operation /\ hist.type = "BinnedValues" /\ hist' = h1 /\ entries' = es1
      /\ copy' = copy /\ kept' = kept /\ found' = found
  BY DEF ToCount
<1>2. IsHist(hist) /\ Holding(hist, entries)
  BY <1>1, Working
<1>3. IsHist(h1) /\ h1.binning = hist.binning /\ Holding(h1, es1)
  BY <1>1, <1>2, CountedIsHist
<1> HIDE DEF h1, es1
<1>4. QED BY <1>1, <1>3, OperationKeepsInv

LEMMA ToCountDensityKeepsInv ==
  ASSUME HistInv, ToCountDensity
  PROVE  HistInv'
<1> DEFINE h1 == OverSizes(hist)
           es1 == [k \in DOMAIN entries |-> [entries[k] EXCEPT !.w = @ \div SizeOf(entries[k])]]
           n == hist.numFills
<1>1. /\ Operation /\ hist.type = "BinnedValues" /\ EntriesDivisible /\ hist' = h1 /\ entries' = es1
      /\ copy' = copy /\ kept' = kept /\ found' = found
  BY DEF ToCountDensity
<1>2. IsHist(hist) /\ Holding(hist, entries)
  BY <1>1, Working
<1>3. /\ hist = [type |-> hist.type, binning |-> hist.binning, cells |-> hist.cells,
                 err2 |-> hist.err2, numFills |-> hist.numFills]
      /\ n \in Nat
  BY <1>2 DEF IsHist
<1>4. \E c, r : h1 = [hist EXCEPT !.cells = c, !.err2 = r]
  BY DEF OverSizes
<1>5. h1 = [type |-> "BinnedValues", binning |-> hist.binning, cells |-> h1.cells,
            err2 |-> h1.err2, numFills |-> n]
  <2> HIDE DEF h1
  <2>1. QED BY <1>1, <1>3, <1>4
<1>6. \A k \in DOMAIN entries : entries[k].w % SizeOf(entries[k]) = 0
  BY <1>1 DEF EntriesDivisible
<1>7. Densities(hist, entries, n, h1, es1)
  BY <1>3, <1>5, <1>6 DEF Densities
<1> HIDE DEF h1, es1, n
<1>8. IsHist(h1) /\ h1.binning = hist.binning /\ Holding(h1, es1)
  BY <1>2, <1>7, DensitiesAreHist
<1>9. QED BY <1>1, <1>8, OperationKeepsInv

LEMMA StepKeepsInv == HistInv /\ [Made /\ Next]_vars => HistInv'
<1> SUFFICES ASSUME HistInv, [Made /\ Next]_vars PROVE HistInv'
  OBVIOUS
<1>1. ASSUME NEW x \in Points, NEW w \in Weights, Fill(x, w) PROVE HistInv'
  BY <1>1, FillKeepsInv
<1>2. CASE FillEverywhere
  BY <1>2, FillEverywhereKeepsInv
<1>3. ASSUME NEW axes \in Axes, NEW hasBinning \in BOOLEAN, Project(axes, hasBinning) PROVE HistInv'
  BY <1>3, ProjectKeepsInv
<1>4. ASSUME NEW ax \in 1 .. NAxes(Bins), NEW range \in Ranges, NEW excludeEnd \in BOOLEAN,
             NEW hasBinning \in BOOLEAN, Slice(ax, range, excludeEnd, hasBinning)
      PROVE  HistInv'
  BY <1>4, SliceKeepsInv
<1>5. CASE Copy
  BY <1>5, CopyKeepsInv
<1>6. CASE AddCopy
  BY <1>6, AddCopyKeepsInv
<1>7. CASE Scale(2)
  <2> DEFINE factor == 2
  <2>1. factor \in Int /\ Scale(factor)
    BY <1>7
  <2> HIDE DEF factor
  <2>2. QED BY <2>1, ScaleKeepsInv
<1>8. ASSUME NEW divideByBinSizes \in BOOLEAN, Finalise(divideByBinSizes) PROVE HistInv'
  BY <1>8, FinaliseKeepsInv
<1>9. CASE ToCount
  BY <1>9, ToCountKeepsInv
<1>10. CASE ToCountDensity
  BY <1>10, ToCountDensityKeepsInv
<1>11. CASE UNCHANGED vars
  BY <1>11 DEF vars, HistInv, Made, Bins
<1>12. QED
  BY <1>1, <1>2, <1>3, <1>4, <1>5, <1>6, <1>7, <1>8, <1>9, <1>10, <1>11 DEF Next

-----------------------------------------------------------------------------
(* A histogram has an uncertainty and a content for every bin, whatever    *)
(* has been done to it; and it exists exactly if its factory threw nothing. *)
THEOREM HistTypes == Spec => []TypeOK
<1>1. HistInv => TypeOK
  <2> SUFFICES ASSUME HistInv PROVE TypeOK
    OBVIOUS
  <2>1. ASSUME NEW h \in {hist, copy} \ {NoHist}
        PROVE  /\ h.type \in {"HistFrame", "BinnedValues"}
               /\ DOMAIN h.cells = DOMAIN h.binning.bins
               /\ DOMAIN h.err2 = DOMAIN h.binning.bins
               /\ h.numFills \in Nat
    <3>1. IsHist(h)
      BY <2>1 DEF HistInv, Made
    <3>2. QED BY <3>1 DEF IsHist
  <2>2. QED BY <2>1 DEF TypeOK, HistInv
<1>2. QED BY InitInv, StepKeepsInv, <1>1, PTL DEF Spec

(* Whichever factory, projection or slice made a binning, find_bin returns *)
(* the bin that contains the point, and npos only when none does; and the  *)
(* factories throw exactly for no bins and for bins that overlap.          *)
THEOREM EverySearchFindsTheBin == Spec => []FindsTheBin
<1>1. HistInv => FindsTheBin
  BY DEF HistInv, FindsTheBin, CorrectIndex
<1>2. QED BY InitInv, StepKeepsInv, <1>1, PTL DEF Spec

(* After any sequence of fills, projections, slices, sums, scalings and    *)
(* conversions every bin holds the weights of exactly the entries that are *)
(* in it, and in a HistFrame the uncertainties are those of these weights. *)
(* The entries of a histogram that was added are in the bins at the same   *)
(* places, as Add() compares no bins.                                      *)
THEOREM NoEntryIsLost == Spec => []CellsHoldTheirEntries
<1>1. HistInv => CellsHoldTheirEntries
  <2> SUFFICES ASSUME HistInv, Made PROVE
                 \A i \in DOMAIN Bins :
                   /\ hist.cells[i] = SumIn(Bins[i], entries, Weights1(entries))
                   /\ hist.type = "HistFrame" =>
                        hist.err2[i] = SumIn(Bins[i], entries, Weights2(entries))
    BY DEF CellsHoldTheirEntries
  <2> DEFINE T == EntriesIn(Bins)
  <2>1. /\ entries \in Seq(T) /\ Collects(Bins, hist.cells, entries, Amounts1(T))
        /\ (hist.type = "HistFrame" => Collects(Bins, hist.err2, entries, Amounts2(T)))
    BY DEF HistInv, Holding, Bins
  <2>2. \A i \in DOMAIN Bins :
          /\ SumIn(Bins[i], entries, Weights1(entries)) = SumOf(entries, Inside(T, Amounts1(T), Bins[i]))
          /\ SumIn(Bins[i], entries, Weights2(entries)) = SumOf(entries, Inside(T, Amounts2(T), Bins[i]))
    BY <2>1, SumInIs
  <2>3. QED BY <2>1, <2>2 DEF Collects
<1>2. QED BY InitInv, StepKeepsInv, <1>1, PTL DEF Spec
=============================================================================
