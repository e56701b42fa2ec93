--------------------------- MODULE GHepConversion ---------------------------
(***************************************************************************)
(* ghepconv of GHEP3EventSource.cxx: how a GENIE record becomes an event   *)
(* with a beam, a target and a final state.                                *)
(*                                                                         *)
(* A record is [scattering, interaction, neutCode, stack]: the process,    *)
(* the NEUT code GENIE gives it, and the stack of particles.  A particle   *)
(* is [pdg, status, mother, finite]: its code, its GENIE status, the       *)
(* position of its first mother and whether its energy is a normal number. *)
(* Positions count from 0 as in GENIE.                                     *)
(***************************************************************************)
EXTENDS Integers, Sequences

Electron == 11
Hydrogen == 1000010010
IsIon(pdg) == pdg > 1000000000

At(r, i) == r.stack[i + 1]
Positions(r) == 0 .. Len(r.stack) - 1

-----------------------------------------------------------------------------
(* NEUTToMode; a code that it lacks gives 0. *)
ModeOfNEUT(code) ==
  CASE code = 1 -> 200 [] code = 2 -> 300 [] code \in 11 .. 13 -> 400
    [] code = 16 -> 100 [] code \in 21 .. 23 -> 500 [] code = 26 -> 600
    [] code \in 31 .. 34 -> 450 [] code = 36 -> 150 [] code \in 41 .. 45 -> 550
    [] code = 46 -> 650 [] code \in 51 .. 52 -> 250 [] OTHER -> 0

DeclaredModes == {700, 701, -200, -300, -400, -600, 200, 250, 300, 350, 400, 450,
                  500, 550, 600, 650, 100, 150, 101, 151}

ElectronMode(scattering) ==
  CASE scattering = "QuasiElastic" -> -200 [] scattering = "MEC" -> -300
    [] scattering = "Resonant" -> -400 [] scattering = "DeepInelastic" -> -600
    [] OTHER -> 0

(* ConvertGENIEReactionCode(); 0 is a process that it does not know. *)
ReactionCode(r) ==
  CASE r.scattering = "NuElectronElastic" -> 700
    [] r.scattering = "InverseMuDecay" -> 701
    [] r.interaction = "EM" ->
         IF At(r, 0).pdg = Electron THEN ElectronMode(r.scattering) ELSE 0
    [] r.interaction = "WeakCC" ->
         (CASE r.scattering = "MEC" -> 300 [] r.scattering = "Diffractive" -> 101
            [] OTHER -> ModeOfNEUT(r.neutCode))
    [] r.interaction = "WeakNC" ->
         (CASE r.scattering = "MEC" -> 350 [] r.scattering = "Diffractive" -> 151
            [] OTHER -> ModeOfNEUT(r.neutCode))
    [] OTHER -> 0

(* Process 700, which no other interaction has. *)
IsNuElectronElastic(r) == r.scattering = "NuElectronElastic"

-----------------------------------------------------------------------------
(* The target is the nucleus at position 1, or else a free particle there  *)
(* in the initial state; any other record cannot be parsed.                *)
StartsThere(r) == At(r, 1).status = "InitialState"
IsFree(r) == StartsThere(r) /\ ~IsIon(At(r, 1).pdg)
HasTarget(r) == StartsThere(r)
TargetPDG(r) == At(r, 1).pdg

(* GetGENIEParticleStatus(), before and after its correction for nuclei;   *)
(* "none" is 0, a particle that is left out of the event.                  *)
StatusOfGENIE(r, p) ==
  CASE p.status = "InitialState" ->
         IF IsNuElectronElastic(r) /\ p.pdg = Electron THEN "Target" ELSE "IncomingBeam"
    [] p.status \in {"NucleonTarget", "CorrelatedNucleon", "NucleonClusterTarget"} ->
         "StruckNucleon"
    [] p.status = "StableFinalState" -> "UndecayedPhysical"
    [] p.status = "HadronInTheNucleus" ->
         IF ReactionCode(r) \in {300, -300} THEN "StruckNucleon" ELSE "DocumentationLine"
    [] p.status \in {"PreDecayResonantState", "DISPreFragmHadronicState",
                     "IntermediateState"} -> "DocumentationLine"
    [] OTHER -> "none"

CorrectedStatus(r, p, state) ==
  CASE state = "IncomingBeam"
       /\ (IsIon(p.pdg) \/ (IsFree(r) /\ p.pdg = TargetPDG(r))) -> "Target"
    [] state = "DocumentationLine" /\ IsIon(p.pdg) -> "UndecayedPhysical"
    [] OTHER -> state

ParticleStatus(r, p) == CorrectedStatus(r, p, StatusOfGENIE(r, p))

(* IsPrimaryParticle().  The walk along the mothers there has no effect on *)
(* what it returns.                                                        *)
IsPrimaryParticle(r, p) ==
  \/ p.status \in {"InitialState", "NucleonTarget"}
  \/ /\ p.status \notin {"DISPreFragmHadronicState", "PreDecayResonantState",
                         "IntermediateState", "DecayedState", "Undefined"}
     /\ \/ p.mother < 2
        \/ p.status = "HadronInTheNucleus"
        \/ p.status = "StableFinalState" /\ TargetPDG(r) \in {Hydrogen, 2212}

-----------------------------------------------------------------------------
IsBroken(r) ==
  \E i \in Positions(r) : /\ ParticleStatus(r, At(r, i)) = "UndecayedPhysical"
                          /\ ~At(r, i).finite

(* The status of a physical particle: all are nulled in a broken event.    *)
PhysicalStatus(r) == IF IsBroken(r) THEN "DocumentationLine" ELSE "UndecayedPhysical"

(* Where ToGenEvent() puts a particle: the vertex it comes out of and the  *)
(* one it goes into, and the status it has there.                          *)
Nowhere == [out |-> "none", in |-> "none", status |-> "none"]
Into(vertex, status) == [Nowhere EXCEPT !.in = vertex, !.status = status]
OutOf(vertex, status) == [Nowhere EXCEPT !.out = vertex, !.status = status]

PlacePrimary(r, p, state, physical) ==
  CASE state = "IncomingBeam" -> Into("primary", state)
    [] state = "DocumentationLine" ->
         [out |-> "primary", in |-> "fsi", status |-> state]
    [] state = "UndecayedPhysical" ->
         IF IsNuElectronElastic(r) /\ IsIon(p.pdg) THEN Nowhere
         ELSE OutOf("primary", physical)
    [] state = "Target" ->
         IF IsNuElectronElastic(r) /\ p.pdg = Electron THEN Into("primary", state)
         ELSE Into("nucleonSeparation", state)
    [] state = "StruckNucleon" -> OutOf("nucleonSeparation", state)

FaultPlaceOther(r, p, state, physical) ==
  CASE IsIon(p.pdg) -> OutOf("nucleonSeparation", state)
    [] ~IsIon(p.pdg) /\ state = "UndecayedPhysical" -> OutOf("fsi", physical)
    [] OTHER -> Nowhere

PlaceOther(r, p, state, physical) ==
  CASE IsIon(p.pdg) -> OutOf("nucleonSeparation", state)
    [] ~IsIon(p.pdg) /\ state = "UndecayedPhysical" ->
         OutOf(IF IsNuElectronElastic(r) THEN "primary" ELSE "fsi", physical)
    [] OTHER -> Nowhere

Place(r, p, state, physical) ==
  CASE state = "none" -> Nowhere
    [] state # "none" /\ IsPrimaryParticle(r, p) -> PlacePrimary(r, p, state, physical)
    [] OTHER -> PlaceOther(r, p, state, physical)

Places(r, physical) ==
  [i \in Positions(r) |-> Place(r, At(r, i), ParticleStatus(r, At(r, i)), physical)]

(* Vertices that are part of the event; a particle is, with either end.    *)
Vertices(r, places) ==
  {"primary"} \cup
  (IF IsNuElectronElastic(r) THEN {}
   ELSE {"fsi"} \cup
        {v \in {"nucleonSeparation"} : \E i \in Positions(r) : places[i].in = v})

WithStatus(r, places, status) ==
  {i \in Positions(r) :
     places[i].status = status /\ {places[i].in, places[i].out} \cap Vertices(r, places) # {}}

(* What GENIE writes.  The probe is at position 0 and what it scatters off *)
(* at position 1; nothing else is in the initial state, but for the one    *)
(* electron of elastic scattering off electrons.  A nucleus is no hadron   *)
(* or resonance inside the target, and a free proton leaves no nucleus.    *)
Initial(r) == {i \in Positions(r) : At(r, i).status = "InitialState"}

WrittenByGENIE(r) ==
  /\ \A i \in Initial(r) : i \in {0, 1} \/ (IsNuElectronElastic(r) /\ At(r, i).pdg = Electron)
  /\ \A i, j \in Initial(r) : At(r, i).pdg = Electron /\ At(r, j).pdg = Electron => i = j
  /\ \A i \in Positions(r) : At(r, i).mother \in Int
  /\ \A i \in Positions(r) : IsIon(At(r, i).pdg) =>
       /\ At(r, i).status \notin {"HadronInTheNucleus", "PreDecayResonantState",
                                  "DISPreFragmHadronicState"}
       /\ At(r, i).status = "StableFinalState" /\ TargetPDG(r) \in {Hydrogen, 2212} =>
            At(r, i).mother < 2

(* The event: what the rest of the program sees of it. *)
EventOfPlaces(r, places) ==
  [process |-> ReactionCode(r),
   beam |-> WithStatus(r, places, "IncomingBeam"),
   target |-> WithStatus(r, places, "Target"),
   final |-> WithStatus(r, places, "UndecayedPhysical"),
   weight |-> 1]

EventOfGHep(r) == EventOfPlaces(r, Places(r, PhysicalStatus(r)))

(* ToGenEvent() throws FailedGHEPParsing. *)
Incomplete(r, event) ==
  \/ event.beam = {} \/ event.target = {}
  \/ ~IsBroken(r) /\ event.final = {}

Unparsable(r) == ~HasTarget(r) \/ Incomplete(r, EventOfGHep(r))
=============================================================================
