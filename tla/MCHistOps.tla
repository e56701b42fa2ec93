----------------------------- MODULE MCHistOps -----------------------------
(* Small binnings for HistOps: every list of up to two extents on one axis *)
(* and lists on two axes that are no product of axes, overlap or repeat.   *)
EXTENDS HistOps

E(low, high) == Extent(low, high)
Extents1D == {<<E(low, high)>> : low \in 0 .. 2, high \in 1 .. 3}
Increasing == {b \in Extents1D : b[1].low < b[1].high}

(* A wide bin below two narrow ones, listed out of order. *)
Pyramid == << <<E(0, 2), E(0, 1)>>, <<E(1, 2), E(1, 3)>>, <<E(0, 1), E(1, 3)>> >>

(* Four bins around a fifth, of two sizes along each axis. *)
Pinwheel == << <<E(0, 2), E(0, 1)>>, <<E(2, 3), E(0, 2)>>, <<E(1, 3), E(2, 3)>>,
               <<E(0, 1), E(1, 3)>>, <<E(1, 2), E(1, 2)>> >>

(* The first and the third share a range of the first axis, but not with   *)
(* the second, which is between them in the order of the columns.          *)
Staircase == << <<E(0, 2), E(0, 1)>>, <<E(2, 3), E(0, 1)>>, <<E(1, 4), E(1, 2)>> >>

Crossing == << <<E(0, 2), E(0, 2)>>, <<E(1, 3), E(1, 3)>> >>
Repeated == << <<E(0, 1), E(0, 1)>>, <<E(1, 2), E(0, 1)>>, <<E(0, 1), E(0, 1)>> >>

MCGivenBins == UNION {[1 .. n -> Increasing] : n \in 0 .. 2}
               \cup {Pyramid, Pinwheel, Staircase, Crossing, Repeated}

MCUniformBinnings ==
  {LinSpaceND(<<Axis(0, 2, 2), Axis(1, 3, 1)>>),
   LogSpace(1, 2, 1),
   Product(<<LinSpace(0, 3, 3), FromExtents(<< <<E(0, 2)>>, <<E(2, 3)>> >>)>>)}
=============================================================================
