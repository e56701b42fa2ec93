---------------------------- MODULE MCEventInput ----------------------------
(* Disks, requests and records for EventInput: every assignment of kinds   *)
(* to four files with every request, and every record of a list of GENIE   *)
(* stacks and of flat tree entries read after a good one.                  *)
EXTENDS EventInput, TLC

Dirs == {"cwd", "d1", "d2", "gone"}
Names == {"a", "b", "/c", "root://r", ""}

P(pdg, status, mother) == [pdg |-> pdg, status |-> status, mother |-> mother, finite |-> TRUE]
Broken(p) == [p EXCEPT !.finite = FALSE]
GRecord(scattering, interaction, code, stack) ==
  [scattering |-> scattering, interaction |-> interaction, neutCode |-> code, stack |-> stack]

(* Scattering off a nucleus: beam, nucleus, struck nucleon, remnant,       *)
(* lepton, a hadron before and one after the cascade, the final nucleus.   *)
NuclearStacks(probe) ==
  {<<P(probe, "InitialState", -1), P(1000060120, start, -1), struck,
     P(1000060110, remnant, 1), P(13, "StableFinalState", 0), P(211, inside, 2),
     last, P(1000050100, "StableFinalState", 3)>> :
     start \in {"InitialState", "IntermediateState"},
     struck \in {P(2112, "NucleonTarget", 1), P(2000000200, "NucleonClusterTarget", 1)},
     remnant \in {"IntermediateState", "FinalStateNuclearRemnant"},
     inside \in {"HadronInTheNucleus", "PreDecayResonantState"},
     last \in {P(211, "StableFinalState", 5), Broken(P(211, "StableFinalState", 5))}}

(* Off a free proton or hydrogen, where nothing is left behind. *)
FreeStacks(probe) ==
  {<<P(probe, "InitialState", -1), P(target, "InitialState", -1),
     P(13, "StableFinalState", 0), P(2214, "PreDecayResonantState", 1),
     P(2212, last, 3)>> :
     target \in {2212, 1000010010}, last \in {"StableFinalState", "DecayedState"}}

ElectronStack ==
  <<P(14, "InitialState", -1), P(1000060120, "InitialState", -1), P(11, "InitialState", 1),
    P(14, "StableFinalState", 0), P(11, "StableFinalState", 2),
    P(1000060120, "StableFinalState", 1)>>

Nothing == <<P(14, "InitialState", -1), P(2212, "InitialState", -1), P(211, "DecayedState", 0)>>

Process == {<<"QuasiElastic", "WeakCC", 1>>, <<"MEC", "WeakCC", 2>>,
            <<"Resonant", "WeakNC", 31>>, <<"Resonant", "WeakCC", 99>>}

GHepRecords ==
  {GRecord(p[1], p[2], p[3], s) : p \in Process, s \in NuclearStacks(14) \cup FreeStacks(14)}
  \cup {GRecord(sc, "EM", 0, s) : sc \in {"MEC", "Coherent"}, s \in NuclearStacks(11)}
  \cup {GRecord("NuElectronElastic", "WeakNC", 98, ElectronStack),
        GRecord("NuElectronElastic", "WeakNC", 98, [ElectronStack EXCEPT ![5] = Broken(@)]),
        GRecord("Diffractive", "WeakNC", 0, Nothing)}

GoodGHep == GRecord("QuasiElastic", "WeakCC", 1, CHOOSE s \in FreeStacks(14) :
                      s[2].pdg = 2212 /\ s[5].status = "StableFinalState")
BadGHep == GRecord("Diffractive", "WeakNC", 0, Nothing)

FlatEntry(mode, tgtpid, init, nfs) ==
  [mode |-> mode, nu |-> 14, tgtpid |-> tgtpid, init |-> init, nfs |-> nfs, weight |-> 2]
FlatEntries ==
  {FlatEntry(1, t, init, nfs) :
     t \in {1000010010, 1000000010, 1000060120, 11}, nfs \in {0, 2},
     init \in {<<14, 2212>>, <<14, 2112>>, <<14, 1000060120, 2112>>, <<14>>, <<2212>>,
               <<14, 1000010010, 2212>>}}
GoodFlat == FlatEntry(1, 1000060120, <<14, 1000060120, 2112>>, 2)
BadFlat == FlatEntry(0, 1000060120, <<14, 1000060120, 2112>>, 2)

File(tree, entries) == [tree |-> tree, mono |-> TRUE, entries |-> entries]
Absent == File("absent", <<>>)
Neut(n) == File("neuttree", [i \in 1 .. n |-> i])
NoFlux == [Neut(1) EXCEPT !.mono = FALSE]

Disk(a, a1, b, c, r) ==
  [loc \in Dirs \X Names |->
     CASE loc = <<"cwd", "a">> -> a [] loc = <<"d1", "a">> -> a1 [] loc = <<"d2", "b">> -> b
       [] loc = <<"cwd", "/c">> -> c [] loc = <<"cwd", "root://r">> -> r
       [] OTHER -> Absent]

SomeFiles == {Absent, Neut(2), NoFlux, File("neuttree", <<>>), File("gtree", <<BadGHep>>),
              File("gtree", <<GoodGHep, BadGHep, GoodGHep>>), File("HepMC3", <<1>>)}
OtherFiles == {Neut(1), File("gtree", <<GoodGHep>>), File("treeout", <<1, 2>>),
               File("FlatTree_VARS", <<GoodFlat, BadFlat, GoodFlat>>)}

AskWith(plugin, filepath, filepaths, genie) ==
  [plugin |-> plugin, filepath |-> filepath, filepaths |-> filepaths, genie |-> genie]
Ask(plugin, filepath, filepaths) == AskWith(plugin, filepath, filepaths, {})

Settings == {"spline_file", "tune", "event-generator-list"}
MCRequests ==
  {Ask(NoName, f, <<>>) : f \in Names} \cup {Ask("GHEP3", "a", <<>>), Ask("neutvect", "b", <<>>)}
  \cup {Ask(NoName, "a", <<"/c", "b">>), Ask(NoName, NoName, <<"a", "b">>), Ask(NoName, NoName, <<>>)}

Session(disk, ask, linked, env) ==
  [world |-> disk, request |-> ask, build |-> linked, env |-> env]

MCSessions ==
  {Session(Disk(a, a1, b, Neut(1), File("gtree", <<GoodGHep>>)), ask, linked, env) :
     a \in SomeFiles, a1 \in {Absent, Neut(1)}, b \in OtherFiles, ask \in MCRequests,
     linked \in {"static", "dynamic"}, env \in {<<>>, <<"d1", "gone">>}}
  \cup {Session(Disk(file, Absent, Absent, Absent, Absent), AskWith(NoName, "a", <<>>, genie),
                "static", <<>>) :
           genie \in {Settings, Settings \ {"tune"}},
           file \in {File("gtree", <<GoodGHep, r>>) : r \in GHepRecords}
                   \cup {File("FlatTree_VARS", <<e, GoodFlat, e>>) : e \in FlatEntries}}
=============================================================================
