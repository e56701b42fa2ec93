------------------------- MODULE FlatTreeConversion -------------------------
(***************************************************************************)
(* ToGenEvent() of NUISANCE2FlatTreeEventSource.cxx: how an entry of a     *)
(* NUISANCE2 flat tree becomes an event.                                   *)
(*                                                                         *)
(* An entry is [mode, nu, tgtpid, init, nfs, weight]: the NEUT mode, the   *)
(* code of the neutrino, the target (of tgtz and tgta, or tgt), the codes  *)
(* of the initial particles, the number of final-state particles and the   *)
(* input weight.                                                           *)
(***************************************************************************)
EXTENDS Integers, Sequences

(* ChannelNameIndexModeMapping, as pairs of NEUT mode and process.         *)
ChannelNameIndexModeMapping ==
  {<<1, 200>>, <<11, 400>>, <<12, 401>>, <<13, 402>>, <<10, 403>>, <<21, 500>>,
   <<31, 450>>, <<32, 451>>, <<33, 452>>, <<34, 452>>, <<30, 453>>, <<41, 550>>,
   <<51, 250>>, <<52, 251>>, <<53, 350>>, <<16, 100>>, <<36, 150>>, <<22, 410>>,
   <<42, 460>>, <<43, 461>>, <<23, 411>>, <<44, 462>>, <<45, 463>>, <<26, 600>>,
   <<46, 601>>, <<17, 412>>, <<38, 464>>, <<39, 465>>, <<2, 300>>, <<15, 110>>,
   <<35, 160>>, <<-1, 225>>, <<-11, 425>>, <<-12, 426>>, <<-13, 427>>, <<-10, 428>>,
   <<-21, 525>>, <<-31, 475>>, <<-32, 476>>, <<-33, 478>>, <<-34, 479>>, <<-30, 480>>,
   <<-41, 575>>, <<-51, 275>>, <<-52, 276>>, <<-53, 355>>, <<-16, 125>>, <<-36, 175>>,
   <<-22, 435>>, <<-42, 485>>, <<-43, 486>>, <<-23, 436>>, <<-44, 487>>, <<-45, 488>>,
   <<-26, 625>>, <<-46, 675>>, <<-17, 437>>, <<-38, 489>>, <<-39, 490>>, <<-2, 325>>,
   <<-15, 135>>, <<-35, 185>>, <<54, 700>>, <<-54, 725>>, <<55, 701>>}

(* What an entry of the tree has: the neutrino is listed once at most.     *)
WrittenByNUISANCE(e) ==
  /\ e.init \in Seq({e.init[i] : i \in DOMAIN e.init})
  /\ \A i, j \in DOMAIN e.init : e.init[i] = e.nu /\ e.init[j] = e.nu => i = j
  /\ e.nfs \in Nat

(* GetEC1Channel() throws an int for a mode that it does not have. *)
KnownMode(mode) == \E c \in ChannelNameIndexModeMapping : c[1] = mode
GetEC1Channel(mode) == (CHOOSE c \in ChannelNameIndexModeMapping : c[1] = mode)[2]

(* The initial particles that are the beam, that are taken for the target  *)
(* and for the struck nucleon.                                             *)
BeamAt(e) == {i \in DOMAIN e.init : e.init[i] = e.nu}

FreeNucleon(tgtpid) ==
  CASE tgtpid = 1000010010 -> 2212 [] tgtpid = 1000000010 -> 2112 [] OTHER -> 0

TargetsAt(e) ==
  {i \in DOMAIN e.init \ BeamAt(e) : e.init[i] \in {e.tgtpid, FreeNucleon(e.tgtpid)}}

StruckAt(e) ==
  IF FreeNucleon(e.tgtpid) # 0 THEN {}
  ELSE {i \in DOMAIN e.init \ (BeamAt(e) \cup TargetsAt(e)) : e.init[i] \in {2212, 2112}}

(* The last of several candidates; position 0 is the dummy nucleus that is *)
(* added when the tree names a nucleus and does not list it.               *)
LastOf(S) == {i \in S : \A j \in S : j <= i}

TargetOf(e) ==
  IF TargetsAt(e) = {} /\ e.tgtpid > 1000000000 THEN {0} ELSE LastOf(TargetsAt(e))

(* The struck nucleon is part of the event only beside a listed target. *)
StruckOf(e) == IF TargetsAt(e) = {} THEN {} ELSE LastOf(StruckAt(e))

Incomplete(e) == BeamAt(e) = {} \/ TargetOf(e) = {} \/ e.nfs = 0

EventOfEntry(e) ==
  [process |-> GetEC1Channel(e.mode),
   beam |-> BeamAt(e),
   target |-> TargetOf(e),
   struck |-> StruckOf(e),
   final |-> 1 .. e.nfs,
   weight |-> IF Incomplete(e) THEN 0 ELSE e.weight]
=============================================================================
