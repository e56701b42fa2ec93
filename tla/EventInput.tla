----------------------------- MODULE EventInput -----------------------------
(***************************************************************************)
(* EventSourceFactory and the sources of its plugins: a request names      *)
(* files, the factory resolves them along its search path and asks the     *)
(* plugins in turn which can read them; the user of the source made reads  *)
(* events with first() and next(), and asks for the generator's record of  *)
(* an event he still holds, as the reweighting calculators do.             *)
(*                                                                         *)
(* A file is [tree, mono, entries]: the tree it holds, whether it can be   *)
(* normalised (neutvect only), and its entries.                            *)
(***************************************************************************)
EXTENDS SequenceFilter, FiniteSets, SequencesExt

G == INSTANCE GHepConversion
F == INSTANCE FlatTreeConversion

CONSTANTS Sessions,   \* [world, request, build, env]: what is on disk, as a function
                      \* from <<directory, name>> to files; what is asked for, as
                      \* [plugin, filepath, filepaths, genie], with the settings of
                      \* GENIE it has; the build; the search path
                      \* of the environment
          Remote,     \* names of files that are not local, as root://...
          Absolute,   \* names that begin with /
          Here,       \* the directory of names that are not searched for
          MissingDirs,\* directories that do not exist
          NewDirs,    \* directories a user adds
          MaxPast     \* bound: calls of next() past the end

ASSUME BoundsAssumption == MaxPast \in Nat

NoName == "none"

(* Where the files of a request may be looked for; what is there is a      *)
(* sequence of entries.                                                    *)
NamesOf(asked) == ({asked.filepath} \ {NoName}) \cup ToSet(asked.filepaths)
DirsOf(session) == {Here} \cup ToSet(session.env) \cup NewDirs
Places(session) == DirsOf(session) \X NamesOf(session.request)

IsSequence(s) == s \in Seq(ToSet(s))

ASSUME SessionsAssumption ==
  \A session \in Sessions :
    /\ session.build \in {"static", "dynamic"}
    /\ IsSequence(session.env) /\ IsSequence(session.request.filepaths)
    /\ \A loc \in Places(session) : IsSequence(session.world[loc].entries)

(* Every file has a name. *)
ASSUME NamesAssumption ==
  \A session \in Sessions : \A loc \in Places(session) :
    loc[2] = "" => session.world[loc].tree = "absent"

(* The records of GENIE and of the flat trees are as these programs write  *)
(* them.                                                                   *)
ASSUME RecordsAssumption ==
  \A session \in Sessions : \A loc \in Places(session) :
    LET file == session.world[loc] IN
    /\ file.tree = "gtree" => \A k \in DOMAIN file.entries : G!WrittenByGENIE(file.entries[k])
    /\ file.tree = "FlatTree_VARS" =>
         \A k \in DOMAIN file.entries : F!WrittenByNUISANCE(file.entries[k])

VARIABLES
  world,    \* the files
  request,  \* what the user asks for
  build,    \* whether plugins are linked or loaded
  paths,    \* nuisance_event_paths
  made,     \* what make_unnormalized() did
  source,   \* [plugin, chain] of the source made
  ient,     \* ient
  listName, \* whether EventGeneratorListName is set (GHEP3)
  runInfo,  \* conventions in gri that depend on the state of the source
  loaded,   \* the entry that was read last, Len(chain) when there was none left
  reply,    \* what the last call returned
  pass,     \* history: events delivered since first()
  held,     \* history: the events the user holds
  fresh     \* history: no record was asked for since the last event was read

setup == <<world, request, build>>
vars == <<setup, paths, made, source, listName, runInfo, ient, loaded, reply, pass,
          held, fresh>>

NoSource == [plugin |-> "none", chain |-> <<>>]
NoReply == [call |-> "none"]
Null == [call |-> "null"]

-----------------------------------------------------------------------------
(* std::filesystem::exists() knows local files only; ROOT opens any.       *)
Exists(loc) == world[loc].tree # "absent" /\ loc[2] \notin Remote

FaultAddTo(dirs, dir) == IF Contains(dirs, dir) THEN dirs ELSE Append(dirs, dir)

AddTo(dirs, dir) ==
  IF dir \in MissingDirs \/ Contains(dirs, dir) THEN dirs ELSE Append(dirs, dir)

FaultResolve(name) ==
  CASE name = "" -> {}
    [] name # "" /\ name \in Absolute \cup Remote -> {<<Here, name>>}
    [] OTHER ->
         LET places == paths \o <<Here>> IN
         {<<places[i], name>> :
            i \in {j \in DOMAIN places :
                     /\ Exists(<<places[j], name>>)
                     /\ \A k \in 1 .. j - 1 : ~Exists(<<places[k], name>>)}}

(* PathResolver::resolve(), as the set of at most one place. *)
Resolve(name) ==
  CASE name = "" -> {}
    [] name # "" /\ (Exists(<<Here, name>>) \/ name \in Remote) -> {<<Here, name>>}
    [] name \in Absolute /\ ~Exists(<<Here, name>>) -> {}
    [] OTHER ->
         {<<paths[i], name>> :
            i \in {j \in DOMAIN paths :
                     /\ Exists(<<paths[j], name>>)
                     /\ \A k \in 1 .. j - 1 : ~Exists(<<paths[k], name>>)}}

AsWritten(name) == <<Here, name>>

(* A name that is not resolved is left as it was written. *)
Located(name) ==
  IF Resolve(name) = {} THEN AsWritten(name) ELSE CHOOSE loc \in Resolve(name) : TRUE

HasTTree(loc, tree) == world[loc].tree = tree

-----------------------------------------------------------------------------
TreeOf == [neutvect |-> "neuttree", GHEP3 |-> "gtree",
           NUISANCE2FlatTree |-> "FlatTree_VARS", NuWroevent1 |-> "treeout"]
Plugins == DOMAIN TreeOf

(* TryAllKnownEventInputPlugins(); loaded plugins come in the order of     *)
(* their file names, and the plugin that the request names is not looked   *)
(* at.                                                                     *)
Order ==
  IF build = "static" THEN <<"neutvect", "GHEP3", "NUISANCE2FlatTree", "NuWroevent1">>
  ELSE <<"GHEP3", "NUISANCE2FlatTree", "NuWroevent1", "neutvect">>
Tried(plugin) == build = "dynamic" \/ request.plugin \in {NoName, plugin}

(* The constructors.  neutvect and NuWro turn to the list of files, whose  *)
(* names were not resolved, when the one file has not their tree.          *)
FilesOf(plugin) ==
  LET withTree(locs) ==
        OnlyIn(locs, {loc \in ToSet(locs) : HasTTree(loc, TreeOf[plugin])})
      names == request.filepaths IN
  IF request.filepath = NoName
  THEN withTree([i \in DOMAIN names |-> Located(names[i])])
  ELSE LET one == withTree(<<Located(request.filepath)>>) IN
       IF one = <<>> /\ plugin \in {"neutvect", "NuWroevent1"}
       THEN withTree([i \in DOMAIN names |-> AsWritten(names[i])])
       ELSE one

EntriesOf(loc) == [k \in DOMAIN world[loc].entries |-> <<loc, k>>]
ChainOf(plugin) ==
  LET files == FilesOf(plugin) IN FlattenSeq([i \in DOMAIN files |-> EntriesOf(files[i])])

Entry(e) == world[e[1]].entries[e[2]]

(* ToGenEvent() throws. *)
Fails(plugin, e) ==
  CASE plugin = "GHEP3" -> G!Unparsable(Entry(e))
    [] plugin = "NUISANCE2FlatTree" -> ~F!KnownMode(Entry(e).mode)
    [] OTHER -> FALSE

Converted(plugin, e) ==
  CASE plugin = "GHEP3" -> G!EventOfGHep(Entry(e))
    [] plugin = "NUISANCE2FlatTree" -> F!EventOfEntry(Entry(e))
    [] OTHER -> Entry(e)

(* first(): neutvect throws without the histograms of flux and rate; the   *)
(* flat tree takes the beam of its first event without a test.             *)
FirstOutcome(plugin) ==
  LET chain == ChainOf(plugin) IN
  CASE chain = <<>> -> "null"
    [] chain # <<>> /\ plugin = "neutvect" ->
         IF world[chain[1][1]].mono THEN "event" ELSE "throws"
    [] chain # <<>> /\ plugin # "neutvect" /\ Fails(plugin, chain[1]) -> "throws"
    [] chain # <<>> /\ plugin = "NUISANCE2FlatTree" /\ ~Fails(plugin, chain[1]) ->
         IF Converted(plugin, chain[1]).beam = {} THEN "crashes" ELSE "event"
    [] OTHER -> "event"

(* GetSpline(): with the name of a list GENIE computes the cross sections; *)
(* the event then has one, and BuildRunInfo() announces it.                *)
Conventions(named) ==
  {"E.C.1", "V.C.1", "P.C.1", "P.C.2"} \cup (IF named THEN {"E.C.2", "G.R.6"} ELSE {})

EventAt(plugin, chain, k, number, named) ==
  [number |-> number, entry |-> k, content |-> Converted(plugin, chain[k + 1]),
   crossSection |-> named]

-----------------------------------------------------------------------------
Init ==
  /\ \E session \in Sessions :
       /\ world = session.world
       /\ request = session.request
       /\ build = session.build
       /\ paths = OnlyIn(session.env, ToSet(session.env) \ MissingDirs)
  /\ made = "no"
  /\ source = NoSource
  /\ listName = FALSE
  /\ runInfo = {}
  /\ ient = 0
  /\ loaded = 0
  /\ reply = NoReply
  /\ pass = <<>>
  /\ held = {}
  /\ fresh = TRUE

(* add_event_path() *)
AddEventPath ==
  /\ made = "no"
  /\ \E dir \in NewDirs : paths' = AddTo(paths, dir)
  /\ UNCHANGED <<setup, made, source, listName, runInfo, ient, loaded, reply, pass,
                 held, fresh>>

NoneMade(how) ==
  /\ made' = how
  /\ UNCHANGED <<source, listName, runInfo, ient, loaded, pass, fresh>>

Delivered(ev) ==
  /\ reply' = [call |-> "event", event |-> ev]
  /\ held' = held \cup {ev}

(* The source stands on its first entry, and has made its run information; *)
(* ient of a flat tree is already that of the next event.                  *)
AtFirst(plugin, chain, named) ==
  /\ ient' = IF plugin = "NUISANCE2FlatTree" THEN 1 ELSE 0
  /\ loaded' = 0
  /\ runInfo' = Conventions(named)
  /\ pass' = <<EventAt(plugin, chain, 0, 0, named)>>
  /\ fresh' = TRUE

(* The constructor of GHEP3EventSource gives the list its name only after  *)
(* it has called first(), and only when all that is needed before is set.  *)
NamesList(plugin) ==
  plugin = "GHEP3" /\ request.genie = {"spline_file", "tune", "event-generator-list"}

HepMC3Reads ==
  /\ request.filepath # NoName
  /\ HasTTree(Located(request.filepath), "HepMC3")
  /\ world[Located(request.filepath)].entries # <<>>

(* The source is made, and left after the call of first() that the factory *)
(* takes the run information from.                                         *)
Makes(plugin, chain) ==
  /\ made' = "source"
  /\ source' = [plugin |-> plugin, chain |-> chain]
  /\ listName' = NamesList(plugin)
  /\ AtFirst(plugin, chain, listName')

(* make_unnormalized() *)
Make ==
  LET order == OnlyIn(Order, {p \in Plugins : Tried(p) /\ FirstOutcome(p) # "null"})
      nothingNamed == request.filepath = NoName /\ request.filepaths = <<>> IN
  /\ made = "no"
  /\ \/ nothingNamed /\ NoneMade("null")
     \/ /\ ~nothingNamed /\ order # <<>>
        /\ LET plugin == Head(order) IN
           IF FirstOutcome(plugin) = "event" THEN Makes(plugin, ChainOf(plugin))
           ELSE NoneMade(FirstOutcome(plugin))
     \/ /\ ~nothingNamed /\ order = <<>>
        /\ NoneMade(IF HepMC3Reads THEN "HepMC3" ELSE "null")
  /\ UNCHANGED <<setup, paths, reply, held>>

-----------------------------------------------------------------------------
First ==
  /\ made = "source"
  /\ AtFirst(source.plugin, source.chain, listName)
  /\ Delivered(pass'[1])
  /\ UNCHANGED <<setup, paths, made, source, listName>>

(* What next() does with the entry it has moved to; number is that of the  *)
(* event, if there is one.                                                 *)
NextEntry(k, number) ==
  IF k >= Len(source.chain) THEN reply' = Null /\ UNCHANGED <<pass, held, fresh>>
  ELSE /\ fresh' = TRUE
       /\ IF Fails(source.plugin, source.chain[k + 1])
          THEN reply' = [call |-> "throws"] /\ UNCHANGED <<pass, held>>
          ELSE LET ev == EventAt(source.plugin, source.chain, k, number, listName) IN
               pass' = Append(pass, ev) /\ Delivered(ev)

(* next() of the chains read by entry number. *)
NextOfChain ==
  /\ made = "source" /\ source.plugin # "NUISANCE2FlatTree"
  /\ ient < Len(source.chain) + MaxPast
  /\ ient' = ient + 1
  /\ loaded' = IF ient' < Len(source.chain) THEN ient' ELSE loaded
  /\ NextEntry(ient', ient')
  /\ UNCHANGED <<setup, paths, made, source, listName, runInfo>>

(* next() of the flat tree; its reader moves by itself, and ient counts    *)
(* the events delivered.                                                   *)
NextOfReader ==
  /\ made = "source" /\ source.plugin = "NUISANCE2FlatTree"
  /\ loaded' = IF loaded < Len(source.chain) THEN loaded + 1 ELSE loaded
  /\ NextEntry(loaded', ient)
  /\ ient' = IF reply'.call = "event" THEN ient + 1 ELSE ient
  /\ UNCHANGED <<setup, paths, made, source, listName, runInfo>>

(* The entry that is read when the record of event number is asked for:    *)
(* neutvect() reads always, EventRecord() unless the event is the one the  *)
(* cursor is at.                                                           *)
FaultLoadedForRecord(number) ==
  IF source.plugin = "GHEP3" /\ number # ient THEN loaded ELSE number

LoadedForRecord(number) ==
  IF source.plugin = "GHEP3" /\ number = ient THEN loaded ELSE number

FaultAskRecord ==
  /\ made = "source" /\ source.plugin \in {"neutvect", "GHEP3"}
  /\ \E ev \in held :
       /\ loaded' = LoadedForRecord(ev.number)
       /\ ient' = ev.number
       /\ reply' = [call |-> "record", asked |-> ev, got |-> loaded', after |-> fresh]
       /\ fresh' = FALSE
  /\ UNCHANGED <<setup, paths, made, source, listName, runInfo, pass, held>>

(* neutvect(ev), EventRecord(ev) *)
AskRecord ==
  /\ made = "source" /\ source.plugin \in {"neutvect", "GHEP3"}
  /\ \E ev \in held :
       /\ loaded' = LoadedForRecord(ev.number)
       /\ reply' = [call |-> "record", asked |-> ev, got |-> loaded', after |-> fresh]
       /\ fresh' = FALSE
  /\ UNCHANGED <<setup, paths, made, source, listName, runInfo, ient, pass, held>>

Next == AddEventPath \/ Make \/ First \/ NextOfChain \/ NextOfReader \/ AskRecord

Spec == Init /\ [][Next]_vars
-----------------------------------------------------------------------------
(* The variables keep their types: in particular the cursor is at or       *)
(* before the end, or past it by the calls of a user who goes on.          *)
TypeOK ==
  /\ build \in {"static", "dynamic"}
  /\ made \in {"no", "null", "throws", "crashes", "HepMC3", "source"}
  /\ source.plugin \in Plugins \cup {"none"}
  /\ (made = "source") = (source # NoSource)
  /\ ient \in 0 .. Len(source.chain) + MaxPast
  /\ loaded \in 0 .. Len(source.chain)
  /\ ToSet(paths) \cap MissingDirs = {}
  /\ fresh \in BOOLEAN /\ listName \in BOOLEAN

(* The first place of the search that has a file of that name; names that  *)
(* are not searched for have one place.                                    *)
FirstPlace(name) ==
  LET places == <<Here>> \o paths IN
  {<<places[i], name>> :
     i \in {j \in DOMAIN places :
              /\ name \in Absolute \cup Remote => j = 1
              /\ world[<<places[j], name>>].tree # "absent"
              /\ \A k \in 1 .. j - 1 : world[<<places[k], name>>].tree = "absent"}}

Named == IF request.filepath # NoName THEN {request.filepath} ELSE ToSet(request.filepaths)
Found == UNION {FirstPlace(name) : name \in Named}

(* What the request names is found at the first place of the search that   *)
(* has a file of that name, nothing else is read, and the factory gives up *)
(* only when no plugin it may try has a tree with entries there.           *)
ReadsWhatWasNamed ==
  /\ made = "null" =>
       \A loc \in Found, plugin \in Plugins :
         Tried(plugin) /\ HasTTree(loc, TreeOf[plugin]) => world[loc].entries = <<>>
  /\ made = "source" /\ (request.filepath # NoName => request.filepaths = <<>>) =>
       /\ {e[1] : e \in ToSet(source.chain)} \subseteq Found
       /\ \A loc \in Found : HasTTree(loc, TreeOf[source.plugin]) =>
            \A k \in DOMAIN world[loc].entries : Contains(source.chain, <<loc, k>>)

(* A pass delivers, in order, every entry of the chain up to the cursor    *)
(* that can be converted, under the number of its entry (flat trees: of    *)
(* the event in the pass), whatever records are asked for in between and   *)
(* however many entries throw; nothing is given only at the end.           *)
PassIsChain ==
  made = "source" =>
    LET n == Len(source.chain)
        flat == source.plugin = "NUISANCE2FlatTree"
        at == IF flat THEN loaded ELSE ient
        good == {k \in 0 .. n - 1 : k <= at /\ ~Fails(source.plugin, source.chain[k + 1])} IN
    /\ {pass[i].entry : i \in DOMAIN pass} = good
    /\ \A i, j \in DOMAIN pass : i < j => pass[i].entry < pass[j].entry
    /\ \A i \in DOMAIN pass :
         /\ pass[i].number = IF flat THEN i - 1 ELSE pass[i].entry
         /\ pass[i].content = Converted(source.plugin, source.chain[pass[i].entry + 1])
    /\ reply = Null => at >= n

(* The record given for an event is the one the event was made of: for     *)
(* neutvect always, for GHEP3 when an event was read since the last record *)
(* was asked for.                                                          *)
LookupRightAfterReading ==
  reply.call = "record" /\ (reply.after \/ source.plugin = "neutvect") =>
    reply.got = reply.asked.entry

(* The same without the condition, as EventRecord() takes for granted when *)
(* it does not "read off disk if we don't need to".                        *)
LookupReturnsTheEvent ==
  reply.call = "record" => reply.got = reply.asked.entry

(* The particles of a GENIE record that are its final state; nuclear       *)
(* remnants are kept in a broken event.                                    *)
FinalStateOfGHep(r) ==
  LET electronElastic == r.scattering = "NuElectronElastic"
      physical == {i \in G!Positions(r) : G!At(r, i).status = "StableFinalState"}
      remnants == {i \in G!Positions(r) :
                     /\ G!IsIon(G!At(r, i).pdg)
                     /\ G!At(r, i).status \in {"IntermediateState", "StableFinalState"}
                     /\ G!At(r, i).mother >= 2 \/ G!At(r, i).status = "IntermediateState"}
      broken == \E i \in physical \cup remnants : ~G!At(r, i).finite IN
  IF electronElastic THEN {i \in physical : ~broken /\ ~G!IsIon(G!At(r, i).pdg)}
  ELSE IF broken THEN remnants ELSE physical \cup remnants

(* Every event delivered with a weight has a beam, a target and, unless it *)
(* was broken, the final state of the record: no particle is lost between  *)
(* the vertices or kept in one that is not part of the event.  A GENIE     *)
(* event has a cross section if and only if the run information says so,   *)
(* although the source makes that more than once while it is being made.   *)
ConvertedIsWhole ==
  /\ made = "source" /\ source.plugin = "GHEP3" =>
       \A ev \in held :
         LET r == Entry(source.chain[ev.entry + 1]) IN
         /\ ev.content.process \in G!DeclaredModes \cup {0}
         /\ Cardinality(ev.content.beam) = 1 /\ Cardinality(ev.content.target) = 1
         /\ ev.content.final = FinalStateOfGHep(r)
         /\ ev.crossSection = ("E.C.2" \in runInfo)
  /\ made = "source" /\ source.plugin = "NUISANCE2FlatTree" =>
       \A ev \in held : ev.content.weight # 0 =>
         /\ Cardinality(ev.content.beam) = 1 /\ Cardinality(ev.content.target) = 1
         /\ ev.content.final # {}
         /\ ev.content.struck \cap (ev.content.target \cup ev.content.beam) = {}
=============================================================================
