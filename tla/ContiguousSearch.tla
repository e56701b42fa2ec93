-------------------------- MODULE ContiguousSearch --------------------------
(***************************************************************************)
(* The binning function of Binning::contiguous: a binary search for the    *)
(* bin that contains a value among bins that share their edges.  Bin i is  *)
(* [edges[i], edges[i + 1]).  The indices are unsigned, so they wrap at    *)
(* SizeMod; the values are integers, all the search does with them is      *)
(* compare.  One step is one iteration of the loop.                        *)
(***************************************************************************)
EXTENDS Binnings

CONSTANTS SizeMod,   \* 2^w, the number of values of a size_t
          MaxBins,   \* bound: bins
          MaxEdge    \* bound: edges lie in 0 .. MaxEdge

(* A vector of bins is far smaller than the address space. *)
ASSUME SizesAssumption ==
  /\ SizeMod \in Nat /\ MaxBins \in Nat /\ MaxEdge \in Nat
  /\ 2 * MaxBins < SizeMod

VARIABLES
  numBins,   \* bins.size()
  binEdges,  \* the edges, low and high end of the bins
  value,     \* the value looked for
  normal,    \* the value is zero or std::isnormal()
  L, R,      \* the first and the last bin that can still contain it
  pc,        \* "call", "search", "done"
  index      \* the index returned

inputVars == <<numBins, binEdges, value, normal>>
searchVars == <<inputVars, L, R, pc, index>>

-----------------------------------------------------------------------------
Wrap(i) == i % SizeMod

Low(m) == binEdges[m]
High(m) == binEdges[m + 1]

(* edges_to_extents() accepts two or more edges that increase strictly. *)
SearchInit ==
  /\ numBins \in 1 .. MaxBins
  /\ binEdges \in [0 .. numBins -> 0 .. MaxEdge]
  /\ \A i, j \in 0 .. numBins : i < j => binEdges[i] < binEdges[j]
  /\ value \in -1 .. MaxEdge + 1
  /\ normal \in BOOLEAN
  /\ L = 0 /\ R = 0
  /\ pc = "call"
  /\ index = npos

FaultOutside == ~normal \/ value >= High(numBins - 1)
Outside == ~normal \/ value < Low(0) \/ value >= High(numBins - 1)

(* The early returns, all of them npos. *)
ReturnOutside ==
  /\ pc = "call"
  /\ Outside
  /\ pc' = "done"
  /\ index' = npos
  /\ UNCHANGED <<inputVars, L, R>>

Begin ==
  /\ pc = "call"
  /\ ~Outside
  /\ L' = 0
  /\ R' = numBins - 1
  /\ pc' = "search"
  /\ UNCHANGED <<inputVars, index>>

Mid == Wrap(L + R) \div 2

FaultFoundAt(m) == Low(m) <= value /\ High(m) >= value
FaultFoundInside(m) == Low(m) < value /\ High(m) > value
FoundAt(m) == Low(m) <= value /\ High(m) > value

(* The bin is found, or there is nothing left to search. *)
Leave ==
  /\ pc = "search"
  /\ L <= R => FoundAt(Mid)
  /\ index' = IF L <= R THEN Mid ELSE npos
  /\ pc' = "done"
  /\ UNCHANGED <<inputVars, L, R>>

FaultRightOf(m) == m
RightOf(m) == Wrap(m + 1)

GoRight ==
  /\ pc = "search"
  /\ L <= R
  /\ ~FoundAt(Mid)
  /\ High(Mid) <= value
  /\ L' = RightOf(Mid)
  /\ UNCHANGED <<inputVars, R, pc, index>>

FaultLeftOf(m) == Wrap(m - 2)
LeftOf(m) == Wrap(m - 1)

GoLeft ==
  /\ pc = "search"
  /\ L <= R
  /\ ~FoundAt(Mid)
  /\ High(Mid) > value
  /\ Low(Mid) > value
  /\ R' = LeftOf(Mid)
  /\ UNCHANGED <<inputVars, L, pc, index>>

SearchNext == ReturnOutside \/ Begin \/ Leave \/ GoRight \/ GoLeft

SearchSpec == SearchInit /\ [][SearchNext]_searchVars

(* The search is one call of one thread. *)
FairSearch == SearchSpec /\ WF_searchVars(SearchNext)

-----------------------------------------------------------------------------
SearchTypeOK ==
  /\ numBins \in 1 .. MaxBins
  /\ binEdges \in [0 .. numBins -> 0 .. MaxEdge]
  /\ value \in -1 .. MaxEdge + 1
  /\ normal \in BOOLEAN
  /\ L \in 0 .. MaxBins /\ R \in 0 .. MaxBins
  /\ pc \in {"call", "search", "done"}
  /\ index \in 0 .. MaxBins - 1 \cup {npos}

HoldsValue(i) == binEdges[i] <= value /\ value < binEdges[i + 1]

(* The search finds the bin that contains the value, and npos means that   *)
(* there is none: no value on an edge is lost or counted in two bins.      *)
SearchFindsTheBin ==
  pc = "done" => \/ index \in 0 .. numBins - 1 /\ HoldsValue(index)
                 \/ /\ index = npos
                    /\ normal => \A i \in 0 .. numBins - 1 : ~HoldsValue(i)

(* The loop reads no bin beyond the ends, no index wraps around (R = m - 1  *)
(* is never taken at m = 0), and the interval is never empty: the return   *)
(* after the loop is not reached.                                          *)
IndexInRange ==
  pc = "search" => 0 <= L /\ L <= R /\ R < numBins /\ Mid \in L .. R

(* Every iteration that goes on leaves a smaller interval to search: it    *)
(* cannot repeat itself, and the loop ends.                                *)
Shrinks ==
  pc = "search" => /\ High(Mid) <= value => R - RightOf(Mid) < R - L
                   /\ Low(Mid) > value => LeftOf(Mid) - L < R - L

(* The search returns. *)
Returns == <>(pc = "done")
=============================================================================
