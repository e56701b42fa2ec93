----------------------------- MODULE MCAnalysis -----------------------------
(* Records and events for Analysis: a single distribution, composites that *)
(* agree or differ in selections and projections, one whose second part    *)
(* cannot be scaled, and records that are refused.                         *)
EXTENDS Analysis

Dist(select, projs, bins, units, smearing) ==
  [select |-> select, projs |-> projs, bins |-> bins, units |-> units, smearing |-> smearing]

Along(n) == IF n = 1 THEN <<<<0>>, <<1>>>> ELSE <<<<0, 0>>, <<1, 0>>, <<1, 1>>>>
PerNucleon == {"pb", "PerNucleon"}
Swap == <<<<0, 2>>, <<1, 1>>>>

A == Dist("s1", <<"x">>, Along(1), PerNucleon, <<>>)
B == Dist("s2", <<"x">>, Along(1), {"cm2", "PerAtom", "per_bin_width"}, Swap)
C == Dist("s1", <<"y">>, Along(1), PerNucleon, <<>>)
D == Dist("s2", <<"x", "y">>, Along(2), {"pb", "PerTargetNeutron"}, <<>>)
E == Dist("s1", <<"x">>, Along(1), {"pb"}, <<>>)
F == Dist("s1", <<"y", "x">>, Along(2), PerNucleon, <<>>)

Measurement(name, subs) ==
  [name |-> name, composite |-> Len(subs) # 1, subs |-> subs, probes |-> <<"numu">>,
   subProbes |-> <<>>, chi2 |-> TRUE, errorBins |-> 2]

Record ==
  <<Measurement("A", <<A>>), Measurement("B", <<B>>), Measurement("D", <<D>>),
    Measurement("A", <<C>>), Measurement("AA", <<A, A>>), Measurement("AB", <<A, B>>),
    Measurement("AE", <<A, E>>), Measurement("DA", <<D, A>>),
    Measurement("DF", <<D, F>>), Measurement("AD", <<A, D>>), Measurement("ABD", <<A, B, D>>),
    [Measurement("A1", <<A>>) EXCEPT !.composite = TRUE], Measurement("none", <<>>),
    [Measurement("parts", <<A, C>>) EXCEPT !.probes = <<>>, !.subProbes = <<"nuebar">>],
    [Measurement("fluxes", <<A, B>>) EXCEPT !.probes = <<"numu", "nue">>],
    [Measurement("probe", <<A, B>>) EXCEPT !.probes = <<"nutau">>],
    [Measurement("statistic", <<A>>) EXCEPT !.chi2 = FALSE],
    [Measurement("errors", <<A, B>>) EXCEPT !.errorBins = 5],
    [Measurement("error", <<A>>) EXCEPT !.errorBins = 3]>>

MCRequests ==
  [type : {"hepdata"}, record : {Record},
   name : {Record[i].name : i \in 1 .. Len(Record)} \cup {"unnamed"}]
  \cup [type : {"hepmc", ""}, record : {Record}, name : {"A"}]

Event(s1, s2, x, y) == [s1 |-> s1, s2 |-> s2, x |-> x, y |-> y]
e1 == Event(1, 0, 0, 1)
e2 == Event(1, 1, 1, 0)
e3 == Event(0, 1, 1, 1)
e4 == Event(0, 0, 0, 0)
MCSources == {<<>>, <<e4>>, <<e1, e3>>, <<e2, e1, e3>>, <<e2, e3, e1, e2, e4>>}

MCColumnSets == {{"s1", "s2", "x", "y"}, {"s1", "x", "y"}}
=============================================================================
