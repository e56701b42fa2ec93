-------------------------- MODULE EventInputProofs --------------------------
(***************************************************************************)
(* Proofs about EventInput, for every disk, request, search path, build    *)
(* and record: passes over the chain of any source, and what a record that *)
(* is asked for is the record of.                                          *)
(*                                                                         *)
(* The argument.  The source that is made has a chain of at least one      *)
(* entry, the first of which can be converted (SourceInv).  What was       *)
(* delivered is exactly what can be converted of the entries up to the     *)
(* cursor, in their order (PassUpTo), so one more entry extends the pass   *)
(* or throws.  A record that is asked for moves only what is loaded; while *)
(* nothing was asked for since the last event was read, the entry that is  *)
(* loaded is that of the cursor (CursorInv), and events are held under the *)
(* number of their entry (HeldInv).                                        *)
(*                                                                         *)
(* That what is held is whole rests on what is on disk (Written): a source *)
(* reads only files that have its tree, and what their entries convert to  *)
(* follows from the records as their programs write them, particle by      *)
(* particle (MembersOf); the invariant WholeInv says which entry each      *)
(* event that is held was made of, and that it could be converted.         *)
(***************************************************************************)
EXTENDS EventInput, DataLemmas

Flat(plugin) == plugin = "NUISANCE2FlatTree"

(* What is on disk, asked for and searched is that of one session.         *)
SessionInv ==
  \E session \in Sessions :
    /\ world = session.world /\ request = session.request /\ build = session.build
    /\ paths \in Seq(DirsOf(session))
    /\ ToSet(paths) \cap MissingDirs = {}

(* A source has entries, the first of which it can convert. *)
GoodSource(plugin, chain) ==
  /\ plugin \in Plugins
  /\ Len(chain) \in Nat \ {0}
  /\ ~Fails(plugin, chain[1])

SourceInv ==
  /\ made \in {"no", "null", "throws", "crashes", "HepMC3", "source"}
  /\ made # "source" => /\ source = NoSource /\ reply = NoReply
                        /\ ient = 0 /\ loaded = 0 /\ held = {}
  /\ made = "source" => GoodSource(source.plugin, source.chain)
  /\ fresh \in BOOLEAN /\ listName \in BOOLEAN

(* The events of a pass up to entry at.                                    *)
PassUpTo(events, plugin, chain, at) ==
  /\ IsSequence(events)
  /\ \A k \in 0 .. Len(chain) - 1 :
       (k <= at /\ ~Fails(plugin, chain[k + 1])) <=> \E i \in DOMAIN events : events[i].entry = k
  /\ \A i, j \in DOMAIN events : i < j => events[i].entry < events[j].entry
  /\ \A i \in DOMAIN events :
       /\ events[i].entry \in 0 .. Len(chain) - 1
       /\ events[i].entry <= at
       /\ i - 1 <= events[i].entry
       /\ events[i].number = IF Flat(plugin) THEN i - 1 ELSE events[i].entry
       /\ events[i].content = Converted(plugin, chain[events[i].entry + 1])

At == IF Flat(source.plugin) THEN loaded ELSE ient

CursorInv ==
  made = "source" =>
    /\ loaded \in 0 .. Len(source.chain)
    /\ ient \in 0 .. Len(source.chain) + MaxPast
    /\ Flat(source.plugin) => ient = Len(pass)
    /\ ~Flat(source.plugin) /\ fresh /\ ient < Len(source.chain) => loaded = ient
    /\ reply = Null => At >= Len(source.chain)

HeldInv ==
  made = "source" =>
    \A ev \in held :
      /\ ev.entry \in 0 .. Len(source.chain) - 1 /\ ev.number \in 0 .. Len(source.chain) - 1
      /\ ~Flat(source.plugin) => ev.number = ev.entry

PassInv == made = "source" => PassUpTo(pass, source.plugin, source.chain, At)

(* The inductive invariant. *)
InputInv ==
  /\ SessionInv
  /\ SourceInv
  /\ CursorInv
  /\ HeldInv
  /\ PassInv
  /\ LookupRightAfterReading

-----------------------------------------------------------------------------
(* The files of a request are looked for where its session has sequences.  *)
LEMMA LocatedIsPlace ==
  ASSUME NEW session \in Sessions, paths \in Seq(DirsOf(session)),
         NEW name \in NamesOf(session.request)
  PROVE  Located(name) \in Places(session) /\ AsWritten(name) \in Places(session)
<1>1. Here \in DirsOf(session) /\ \A i \in DOMAIN paths : paths[i] \in DirsOf(session)
  BY DEF DirsOf
<1>2. AsWritten(name) \in Places(session)
  BY <1>1 DEF AsWritten, Places
<1>3. \A loc \in Resolve(name) : loc \in Places(session)
  <2> DEFINE found == {j \in DOMAIN paths : /\ Exists(<<paths[j], name>>)
                                            /\ \A k \in 1 .. j - 1 : ~Exists(<<paths[k], name>>)}
             there == {<<paths[i], name>> : i \in found}
             here == {<<Here, name>>}
  <2>1. \A loc \in there \cup here : loc \in Places(session)
    <3>1. \A dir \in DirsOf(session) : <<dir, name>> \in Places(session)
      BY DEF Places
    <3> HIDE DEF found
    <3>2. found \subseteq DOMAIN paths
      BY DEF found
    <3>3. \A loc \in there : loc \in Places(session)
      BY <1>1, <3>1, <3>2
    <3>4. <<Here, name>> \in Places(session)
      BY <1>1, <3>1
    <3>5. QED BY <3>3, <3>4
  <2>2. Resolve(name) = CASE name = "" -> {}
          [] name # "" /\ (Exists(<<Here, name>>) \/ name \in Remote) -> here
          [] name \in Absolute /\ ~Exists(<<Here, name>>) -> {}
          [] OTHER -> there
    BY DEF Resolve
  <2> HIDE DEF there, here
  <2>3. Resolve(name) \subseteq there \cup here
    BY <2>2
  <2>4. QED BY <2>1, <2>3
<1>4. QED BY <1>2, <1>3 DEF Located

LEMMA FilesAre ==
  ASSUME SessionInv, NEW plugin
  PROVE  \E session \in Sessions : /\ world = session.world
                                   /\ FilesOf(plugin) \in Seq(Places(session))
<1>1. PICK session \in Sessions :
        /\ world = session.world /\ request = session.request
        /\ paths \in Seq(DirsOf(session))
  BY DEF SessionInv
<1> DEFINE P == Places(session)
           names == request.filepaths
           withTree(locs) == OnlyIn(locs, {loc \in ToSet(locs) : HasTTree(loc, TreeOf[plugin])})
           located == [i \in DOMAIN names |-> Located(names[i])]
           asWritten == [i \in DOMAIN names |-> AsWritten(names[i])]
           one == withTree(<<Located(request.filepath)>>)
<1>2. names \in Seq(ToSet(names))
  BY <1>1, SessionsAssumption DEF IsSequence
<1>3. \A i \in DOMAIN names : names[i] \in NamesOf(session.request)
  BY <1>1 DEF NamesOf, ToSet
<1>4. \A i \in DOMAIN names : Located(names[i]) \in P /\ AsWritten(names[i]) \in P
  BY <1>1, <1>3, LocatedIsPlace
<1>5. Len(names) \in Nat /\ DOMAIN names = 1 .. Len(names)
  BY <1>2
<1>6. located \in Seq(P) /\ asWritten \in Seq(P)
  <2> HIDE DEF P, names
  <2>1. located \in [1 .. Len(names) -> P] /\ asWritten \in [1 .. Len(names) -> P]
    BY <1>4, <1>5
  <2>2. QED BY <1>5, <2>1
<1>7. request.filepath # NoName => <<Located(request.filepath)>> \in Seq(P)
  <2>1. request.filepath # NoName => request.filepath \in NamesOf(session.request)
    BY <1>1 DEF NamesOf
  <2>2. request.filepath # NoName => Located(request.filepath) \in P
    BY <1>1, <2>1, LocatedIsPlace
  <2> HIDE DEF P
  <2>3. QED BY <2>2, OneElement
<1> HIDE DEF P, located, asWritten
<1>8. \A locs \in Seq(P) : withTree(locs) \in Seq(P)
  BY OnlyInType
<1>9. FilesOf(plugin) = IF request.filepath = NoName THEN withTree(located)
                        ELSE IF one = <<>> /\ plugin \in {"neutvect", "NuWroevent1"}
                        THEN withTree(asWritten) ELSE one
  BY DEF FilesOf, located, asWritten
<1> HIDE DEF withTree
<1>10. FilesOf(plugin) \in Seq(P)
  BY <1>6, <1>7, <1>8, <1>9
<1>11. QED BY <1>1, <1>10 DEF P

(* So a chain is a sequence of entries. *)
LEMMA ChainIsSequence ==
  ASSUME SessionInv, NEW plugin
  PROVE  /\ Len(ChainOf(plugin)) \in Nat
         /\ Len(ChainOf(plugin)) = 0 => ChainOf(plugin) = <<>>
         /\ DOMAIN ChainOf(plugin) = 1 .. Len(ChainOf(plugin))
<1>1. PICK session \in Sessions : /\ world = session.world
                                  /\ FilesOf(plugin) \in Seq(Places(session))
  BY FilesAre
<1> DEFINE files == FilesOf(plugin)
           P == Places(session)
           T == P \X Nat
           entries == [i \in DOMAIN files |-> EntriesOf(files[i])]
<1>2. ASSUME NEW loc \in P
      PROVE  EntriesOf(loc) \in Seq(T)
  <2> DEFINE stored == world[loc].entries
  <2>1. stored \in Seq(ToSet(stored))
    BY <1>1, SessionsAssumption DEF IsSequence
  <2> HIDE DEF stored, P
  <2>2. Len(stored) \in Nat /\ DOMAIN stored = 1 .. Len(stored)
    BY <2>1
  <2>3. EntriesOf(loc) = [k \in 1 .. Len(stored) |-> <<loc, k>>]
    BY <2>2 DEF EntriesOf, stored
  <2>4. EntriesOf(loc) \in [1 .. Len(stored) -> T]
    BY <2>2, <2>3
  <2> HIDE DEF T
  <2>5. QED BY <2>2, <2>4
<1> HIDE DEF T, P
<1>3. files \in Seq(P)
  BY <1>1 DEF P
<1> HIDE DEF files
<1>4. Len(files) \in Nat /\ DOMAIN files = 1 .. Len(files)
      /\ \A i \in 1 .. Len(files) : files[i] \in P
  BY <1>3
<1>5. entries \in Seq(Seq(T))
  <2>1. entries \in [1 .. Len(files) -> Seq(T)]
    BY <1>2, <1>4
  <2>2. QED BY <1>4, <2>1
<1>6. <<>> \in Seq(T)
  OBVIOUS
<1>7. FlattenSeq(entries) \in Seq(T)
  BY <1>5, <1>6, FlattenAppend
<1>8. ChainOf(plugin) = FlattenSeq(entries)
  BY DEF ChainOf, files
<1> HIDE DEF entries
<1>9. QED BY <1>7, <1>8, EmptySeq, LenProperties

-----------------------------------------------------------------------------
(* What can be converted depends on the files alone. *)
LEMMA ConversionStays ==
  ASSUME world' = world
  PROVE  \A plugin, e : (Fails(plugin, e) <=> Fails(plugin, e)')
                        /\ Converted(plugin, e) = Converted(plugin, e)'
BY DEF Fails, Converted, Entry

LEMMA AppendedIsSequence ==
  ASSUME NEW seq, IsSequence(seq), NEW e
  PROVE  /\ IsSequence(Append(seq, e))
         /\ Len(seq) \in Nat /\ DOMAIN seq = 1 .. Len(seq)
         /\ Len(Append(seq, e)) = Len(seq) + 1
         /\ DOMAIN Append(seq, e) = 1 .. Len(seq) + 1
         /\ \A i \in 1 .. Len(seq) : Append(seq, e)[i] = seq[i]
         /\ \A i : i = Len(seq) + 1 => Append(seq, e)[i] = e
<1> DEFINE T == ToSet(seq) \cup {e}
<1>1. seq \in Seq(ToSet(seq))
  BY DEF IsSequence
<1>2. seq \in Seq(T) /\ e \in T
  BY <1>1, SeqWiden
<1> HIDE DEF T
<1>3. Append(seq, e) \in Seq(T)
  BY <1>2
<1>4. IsSequence(Append(seq, e))
  BY <1>3, SeqOfElements DEF IsSequence
<1>5. QED BY <1>2, <1>3, <1>4

(* first() gives the first entry. *)
LEMMA PassBegins ==
  ASSUME NEW plugin, NEW chain, GoodSource(plugin, chain), NEW named
  PROVE  PassUpTo(<<EventAt(plugin, chain, 0, 0, named)>>, plugin, chain, 0)
<1> DEFINE ev == EventAt(plugin, chain, 0, 0, named)
           one == <<ev>>
           n == Len(chain)
<1>1. ev.entry = 0 /\ ev.number = 0 /\ ev.content = Converted(plugin, chain[0 + 1])
  BY DEF EventAt
<1>2. n \in Nat \ {0} /\ 0 \in 0 .. n - 1 /\ ~Fails(plugin, chain[0 + 1])
  BY DEF GoodSource
<1> HIDE DEF ev
<1>3. one \in Seq({ev})
  BY OneElement
<1>4. IsSequence(one)
  BY <1>3, SeqOfElements DEF IsSequence
<1>5. DOMAIN one = {1} /\ one[1] = ev
  OBVIOUS
<1> HIDE DEF one
<1>6. ASSUME NEW k \in 0 .. n - 1
      PROVE  (k <= 0 /\ ~Fails(plugin, chain[k + 1])) <=> \E i \in DOMAIN one : one[i].entry = k
  BY <1>1, <1>2, <1>5
<1>7. \A i \in DOMAIN one : i = 1 /\ one[i] = ev
  BY <1>5
<1>8. QED BY <1>1, <1>2, <1>4, <1>6, <1>7 DEF PassUpTo, one, ev

(* The next entry is delivered, under its number or that of the event. *)
LEMMA PassGrows ==
  ASSUME NEW plugin, NEW chain, Len(chain) \in Nat, NEW at \in Nat, NEW events,
         PassUpTo(events, plugin, chain, at),
         NEW k, k = at + 1, k < Len(chain), ~Fails(plugin, chain[k + 1]),
         NEW number, number = IF Flat(plugin) THEN Len(events) ELSE k, NEW named
  PROVE  /\ PassUpTo(Append(events, EventAt(plugin, chain, k, number, named)), plugin, chain, k)
         /\ Len(events) \in Nat /\ Len(events) <= k
<1> DEFINE ev == EventAt(plugin, chain, k, number, named)
           more == Append(events, ev)
           m == Len(events)
           n == Len(chain)
<1>1. ev.entry = k /\ ev.number = number /\ ev.content = Converted(plugin, chain[k + 1])
  BY DEF EventAt
<1> HIDE DEF ev
<1>2. IsSequence(events)
  BY DEF PassUpTo
<1>3. /\ IsSequence(more) /\ m \in Nat /\ DOMAIN events = 1 .. m /\ DOMAIN more = 1 .. m + 1
      /\ \A i \in 1 .. m : more[i] = events[i]
      /\ \A i : i = m + 1 => more[i] = ev
  BY <1>2, AppendedIsSequence
<1> HIDE DEF more
<1>4. k \in 0 .. n - 1
  OBVIOUS
<1>5. m <= k
  <2>1. CASE m = 0
    BY <2>1
  <2>2. CASE m # 0
    <3>1. m \in DOMAIN events
      BY <1>3, <2>2
    <3>2. m - 1 <= events[m].entry /\ events[m].entry <= at /\ events[m].entry \in 0 .. n - 1
      BY <3>1 DEF PassUpTo
    <3> HIDE DEF m
    <3>3. QED BY <1>3, <3>2
  <2>3. QED BY <2>1, <2>2
<1> HIDE DEF m
<1>6. \A i \in 1 .. m : events[i].entry \in 0 .. n - 1 /\ events[i].entry <= at
  BY <1>3 DEF PassUpTo
<1>7. ASSUME NEW j \in 0 .. n - 1
      PROVE  (j <= k /\ ~Fails(plugin, chain[j + 1])) <=> \E i \in DOMAIN more : more[i].entry = j
  <2>1. CASE j = k
    <3>1. m + 1 \in DOMAIN more /\ more[m + 1].entry = k
      BY <1>1, <1>3
    <3>2. QED BY <2>1, <3>1
  <2>2. CASE j # k
    <3>1. (j <= at /\ ~Fails(plugin, chain[j + 1]))
            <=> \E i \in 1 .. m : events[i].entry = j
      BY <1>3 DEF PassUpTo
    <3>2. j <= k <=> j <= at
      BY <2>2
    <3>3. (\E i \in 1 .. m : events[i].entry = j) <=> \E i \in 1 .. m + 1 : more[i].entry = j
      <4>1. ASSUME NEW i \in 1 .. m + 1, more[i].entry = j
            PROVE  i \in 1 .. m /\ events[i].entry = j
        <5>1. i # m + 1
          BY <1>1, <1>3, <2>2, <4>1
        <5>2. i \in 1 .. m
          BY <1>3, <5>1
        <5>3. QED BY <1>3, <4>1, <5>2
      <4>2. \A i \in 1 .. m : i \in 1 .. m + 1 /\ more[i].entry = events[i].entry
        BY <1>3
      <4>3. QED BY <4>1, <4>2
    <3>4. QED BY <1>3, <3>1, <3>2, <3>3
  <2>3. QED BY <2>1, <2>2
<1>8. ASSUME NEW i \in DOMAIN more, NEW j \in DOMAIN more, i < j
      PROVE  more[i].entry < more[j].entry
  <2>1. i \in 1 .. m /\ more[i] = events[i]
    BY <1>3, <1>8
  <2>2. CASE j \in 1 .. m
    BY <1>3, <1>8, <2>1, <2>2 DEF PassUpTo
  <2>3. CASE j = m + 1
    <3>1. more[j].entry = k /\ events[i].entry <= at /\ events[i].entry \in Nat
      BY <1>1, <1>3, <1>6, <2>1, <2>3
    <3>2. QED BY <2>1, <3>1
  <2>4. QED BY <1>3, <2>2, <2>3
<1>9. ASSUME NEW i \in DOMAIN more
      PROVE  /\ more[i].entry \in 0 .. n - 1
             /\ more[i].entry <= k
             /\ i - 1 <= more[i].entry
             /\ more[i].number = IF Flat(plugin) THEN i - 1 ELSE more[i].entry
             /\ more[i].content = Converted(plugin, chain[more[i].entry + 1])
  <2>1. CASE i \in 1 .. m
    <3>1. more[i] = events[i] /\ i \in DOMAIN events
      BY <1>3, <2>1
    <3>2. /\ events[i].entry \in 0 .. n - 1 /\ events[i].entry <= at
          /\ i - 1 <= events[i].entry
          /\ events[i].number = IF Flat(plugin) THEN i - 1 ELSE events[i].entry
          /\ events[i].content = Converted(plugin, chain[events[i].entry + 1])
      BY <3>1 DEF PassUpTo
    <3>3. events[i].entry <= k
      BY <3>2
    <3>4. QED BY <3>1, <3>2, <3>3
  <2>2. CASE i = m + 1
    <3>1. more[i] = ev /\ i - 1 = m
      BY <1>3, <2>2
    <3>2. number = IF Flat(plugin) THEN i - 1 ELSE k
      BY <3>1 DEF m
    <3>3. QED BY <1>1, <1>4, <1>5, <3>1, <3>2
  <2>3. QED BY <1>3, <2>1, <2>2
<1>10. PassUpTo(more, plugin, chain, k)
  BY <1>3, <1>7, <1>8, <1>9 DEF PassUpTo
<1>11. QED BY <1>3, <1>5, <1>10 DEF more, m, ev

(* An entry that cannot be converted throws, and there are none behind the *)
(* last one.                                                               *)
LEMMA PassSkips ==
  ASSUME NEW plugin, NEW chain, Len(chain) \in Nat, NEW at \in Nat, NEW events,
         PassUpTo(events, plugin, chain, at), NEW k \in Nat,
         \/ k = at + 1 /\ k < Len(chain) /\ Fails(plugin, chain[k + 1])
         \/ at <= k /\ at >= Len(chain) - 1
  PROVE  PassUpTo(events, plugin, chain, k)
<1> DEFINE n == Len(chain)
<1>1. \A j \in 0 .. n - 1 :
        (j <= k /\ ~Fails(plugin, chain[j + 1])) <=> (j <= at /\ ~Fails(plugin, chain[j + 1]))
  <2>1. ASSUME NEW j \in 0 .. n - 1, j <= k, ~(j <= at)
        PROVE  Fails(plugin, chain[j + 1])
    BY <2>1
  <2>2. \A j \in 0 .. n - 1 : j <= at => j <= k
    OBVIOUS
  <2>3. QED BY <2>1, <2>2
<1>2. \A i \in DOMAIN events : events[i].entry <= k
  <2>1. \A i \in DOMAIN events : events[i].entry <= at /\ events[i].entry \in 0 .. n - 1
    BY DEF PassUpTo
  <2>2. QED BY <2>1
<1>3. QED BY <1>1, <1>2 DEF PassUpTo

LEMMA PassStays ==
  ASSUME world' = world, NEW events, NEW plugin, NEW chain, NEW at,
         PassUpTo(events, plugin, chain, at)
  PROVE  PassUpTo(events, plugin, chain, at)'
<1>1. \A e : (Fails(plugin, e) <=> Fails(plugin, e)')
             /\ Converted(plugin, e) = Converted(plugin, e)'
  BY ConversionStays
<1>2. QED BY <1>1 DEF PassUpTo

-----------------------------------------------------------------------------
(* make_unnormalized() makes the source of a plugin whose first() gives an *)
(* event, so its chain is not empty and its first entry can be converted.  *)
LEMMA FirstPluginIsGood ==
  ASSUME SessionInv, NEW plugin \in Plugins
  PROVE  /\ FirstOutcome(plugin) \in {"null", "throws", "crashes", "event"}
         /\ FirstOutcome(plugin) = "event" => GoodSource(plugin, ChainOf(plugin))
<1> DEFINE chain == ChainOf(plugin)
           bad == Fails(plugin, chain[1])
<1>1. FirstOutcome(plugin) =
        CASE chain = <<>> -> "null"
          [] chain # <<>> /\ plugin = "neutvect" ->
               IF world[chain[1][1]].mono THEN "event" ELSE "throws"
          [] chain # <<>> /\ plugin # "neutvect" /\ bad -> "throws"
          [] chain # <<>> /\ plugin = "NUISANCE2FlatTree" /\ ~bad ->
               IF Converted(plugin, chain[1]).beam = {} THEN "crashes" ELSE "event"
          [] OTHER -> "event"
  BY DEF FirstOutcome
<1>2. plugin = "neutvect" => ~bad
  BY DEF Fails
<1>3. Len(chain) \in Nat /\ (Len(chain) = 0 => chain = <<>>)
  BY ChainIsSequence
<1> HIDE DEF chain, bad
<1>4. FirstOutcome(plugin) \in {"null", "throws", "crashes", "event"}
  BY <1>1
<1>5. FirstOutcome(plugin) = "event" => chain # <<>> /\ ~bad
  BY <1>1, <1>2
<1>6. QED BY <1>3, <1>4, <1>5 DEF GoodSource, chain, bad

LEMMA OrderIsOfPlugins == Order \in Seq(Plugins)
<1>1. Plugins = {"neutvect", "GHEP3", "NUISANCE2FlatTree", "NuWroevent1"}
  BY DEF Plugins, TreeOf
<1> DEFINE T == Plugins
<1>2. /\ "neutvect" \in T /\ "GHEP3" \in T
      /\ "NUISANCE2FlatTree" \in T /\ "NuWroevent1" \in T
  BY <1>1
<1> HIDE DEF T
<1>3. \A a, b, c, d \in T : <<a, b, c, d>> \in Seq(T)
  OBVIOUS
<1>4. Order \in Seq(T)
  BY <1>2, <1>3 DEF Order
<1>5. QED BY <1>4 DEF T

(* The source is left on its first entry. *)
LEMMA MakesKeepsInv ==
  ASSUME InputInv, made = "no", UNCHANGED <<setup, paths, reply, held>>,
         NEW plugin, NEW chain, GoodSource(plugin, chain), Makes(plugin, chain)
  PROVE  InputInv'
<1>1. /\ made' = "source" /\ source' = [plugin |-> plugin, chain |-> chain]
      /\ ient' = IF Flat(plugin) THEN 1 ELSE 0
      /\ loaded' = 0 /\ fresh' = TRUE
      /\ pass' = <<EventAt(plugin, chain, 0, 0, listName')>>
  BY DEF Makes, AtFirst, Flat
<1>2. source'.plugin = plugin /\ source'.chain = chain
  BY <1>1
<1>3. reply = NoReply /\ held = {}
  BY DEF InputInv, SourceInv
<1>4. SessionInv'
  BY DEF InputInv, SessionInv, setup
<1>5. world' = world
  BY DEF setup
<1>6. GoodSource(source.plugin, source.chain)'
  BY <1>2, <1>5, ConversionStays DEF GoodSource
<1>7. SourceInv'
  BY <1>1, <1>6 DEF SourceInv, Makes, NamesList
<1>8. Len(chain) \in Nat \ {0} /\ MaxPast \in Nat
  BY BoundsAssumption DEF GoodSource
<1>9. Len(pass') = 1
  BY <1>1
<1>10. reply' # Null
  BY <1>3 DEF NoReply, Null
<1>11. CursorInv'
  BY <1>1, <1>2, <1>8, <1>9, <1>10 DEF CursorInv, Flat
<1>12. HeldInv'
  BY <1>3 DEF HeldInv
<1>13. PassUpTo(pass', plugin, chain, 0)
  BY <1>1, PassBegins
<1>14. At' = IF Flat(plugin) THEN 0 ELSE 0
  BY <1>1, <1>2 DEF At, Flat
<1>15. PassUpTo(pass, source.plugin, source.chain, At)'
  BY <1>2, <1>5, <1>13, <1>14, PassStays
<1>16. LookupRightAfterReading'
  BY <1>3 DEF LookupRightAfterReading, NoReply
<1>17. QED BY <1>4, <1>7, <1>11, <1>12, <1>15, <1>16 DEF InputInv, PassInv

LEMMA NoneMadeKeepsInv ==
  ASSUME InputInv, made = "no", UNCHANGED <<setup, paths, reply, held>>,
         NEW how \in {"null", "throws", "crashes", "HepMC3"}, NoneMade(how)
  PROVE  InputInv'
BY DEF InputInv, SessionInv, SourceInv, CursorInv, HeldInv, PassInv,
       LookupRightAfterReading, NoneMade, setup

LEMMA MakeKeepsInv ==
  ASSUME InputInv, Make
  PROVE  InputInv'
<1> DEFINE S == {p \in Plugins : Tried(p) /\ FirstOutcome(p) # "null"}
           order == OnlyIn(Order, S)
           plugin == Head(order)
           nothingNamed == request.filepath = NoName /\ request.filepaths = <<>>
<1>1. /\ made = "no" /\ UNCHANGED <<setup, paths, reply, held>>
      /\ \/ nothingNamed /\ NoneMade("null")
         \/ /\ ~nothingNamed /\ order # <<>>
            /\ IF FirstOutcome(plugin) = "event" THEN Makes(plugin, ChainOf(plugin))
               ELSE NoneMade(FirstOutcome(plugin))
         \/ /\ ~nothingNamed /\ order = <<>>
            /\ NoneMade(IF HepMC3Reads THEN "HepMC3" ELSE "null")
  BY DEF Make
<1>2. order \in Seq(Plugins) /\ ToSet(order) \subseteq S
  BY OrderIsOfPlugins, OnlyInType, OnlyInElements
<1>3. order # <<>> => plugin \in S
  <2> HIDE DEF S, order
  <2>1. order # <<>> => 1 \in DOMAIN order /\ plugin = order[1]
    BY <1>2
  <2>2. QED BY <1>2, <2>1 DEF ToSet
<1>4. \A p \in S : p \in Plugins
  OBVIOUS
<1> HIDE DEF S, order, plugin, nothingNamed
<1>5. SessionInv
  BY DEF InputInv
<1>6. CASE NoneMade("null")
  BY <1>1, <1>6, NoneMadeKeepsInv
<1>7. CASE order # <<>> /\ FirstOutcome(plugin) = "event" /\ Makes(plugin, ChainOf(plugin))
  <2>1. GoodSource(plugin, ChainOf(plugin))
    BY <1>3, <1>4, <1>5, <1>7, FirstPluginIsGood
  <2>2. QED BY <1>1, <1>7, <2>1, MakesKeepsInv
<1>8. CASE order # <<>> /\ FirstOutcome(plugin) # "event" /\ NoneMade(FirstOutcome(plugin))
  <2>1. FirstOutcome(plugin) \in {"null", "throws", "crashes", "HepMC3"}
    BY <1>3, <1>4, <1>5, <1>8, FirstPluginIsGood
  <2>2. QED BY <1>1, <1>8, <2>1, NoneMadeKeepsInv
<1>9. CASE NoneMade(IF HepMC3Reads THEN "HepMC3" ELSE "null")
  BY <1>1, <1>9, NoneMadeKeepsInv
<1>10. QED BY <1>1, <1>6, <1>7, <1>8, <1>9

-----------------------------------------------------------------------------
(* The calls of a user of the source. *)
LEMMA AddEventPathKeepsInv ==
  ASSUME InputInv, AddEventPath
  PROVE  InputInv'
<1>1. /\ UNCHANGED <<setup, made, source, listName, runInfo, ient, loaded, reply, pass, held, fresh>>
      /\ made # "source"
  BY DEF AddEventPath
<1>2. PICK session \in Sessions :
        /\ world = session.world /\ request = session.request /\ build = session.build
        /\ paths \in Seq(DirsOf(session)) /\ ToSet(paths) \cap MissingDirs = {}
  BY DEF InputInv, SessionInv
<1>3. PICK dir \in NewDirs : paths' = AddTo(paths, dir)
  BY DEF AddEventPath
<1>4. paths' \in Seq(DirsOf(session)) /\ ToSet(paths') \cap MissingDirs = {}
  <2>1. CASE dir \in MissingDirs \/ Contains(paths, dir)
    BY <1>2, <1>3, <2>1 DEF AddTo
  <2>2. CASE dir \notin MissingDirs /\ ~Contains(paths, dir)
    <3> DEFINE D == DirsOf(session)
    <3>1. paths' = Append(paths, dir)
      BY <1>3, <2>2 DEF AddTo
    <3>2. dir \in D
      BY DEF DirsOf
    <3> HIDE DEF D
    <3>3. paths' \in Seq(D) /\ ToSet(paths') = ToSet(paths) \cup {dir}
      BY <1>2, <3>1, <3>2, ToSetAppend, AppendProperties DEF D
    <3>4. QED BY <1>2, <2>2, <3>3 DEF D
  <2>3. QED BY <2>1, <2>2
<1>5. SessionInv'
  BY <1>1, <1>2, <1>4 DEF SessionInv, setup
<1>6. QED BY <1>1, <1>5 DEF InputInv, SourceInv, CursorInv, HeldInv, PassInv,
                             LookupRightAfterReading

(* What a call of the user leaves as it is. *)
LEMMA SetupStays ==
  ASSUME InputInv, made = "source", UNCHANGED <<setup, paths, made, source, listName>>,
         fresh' \in BOOLEAN
  PROVE  /\ SessionInv' /\ SourceInv'
         /\ world' = world /\ made' = "source"
         /\ GoodSource(source.plugin, source.chain)
         /\ Len(source.chain) \in Nat \ {0}
         /\ source' = source
<1>1. SessionInv'
  BY DEF InputInv, SessionInv, setup
<1>2. world' = world
  BY DEF setup
<1>3. GoodSource(source.plugin, source.chain)
  BY DEF InputInv, SourceInv
<1>4. GoodSource(source.plugin, source.chain)'
  BY <1>2, <1>3, ConversionStays DEF GoodSource
<1>5. SourceInv'
  BY <1>4 DEF InputInv, SourceInv
<1>6. QED BY <1>1, <1>2, <1>3, <1>5 DEF GoodSource

LEMMA FirstKeepsInv ==
  ASSUME InputInv, First
  PROVE  InputInv'
<1> DEFINE plugin == source.plugin
           chain == source.chain
           ev == EventAt(plugin, chain, 0, 0, listName)
<1>1. /\ made = "source" /\ UNCHANGED <<setup, paths, made, source, listName>>
      /\ ient' = IF Flat(plugin) THEN 1 ELSE 0
      /\ loaded' = 0 /\ fresh' = TRUE /\ pass' = <<ev>>
      /\ reply' = [call |-> "event", event |-> pass'[1]] /\ held' = held \cup {pass'[1]}
  BY DEF First, AtFirst, Delivered, Flat
<1>2. pass'[1] = ev
  BY <1>1
<1>3. /\ SessionInv' /\ SourceInv'
      /\ world' = world /\ made' = "source"
      /\ GoodSource(plugin, chain) /\ Len(chain) \in Nat \ {0}
      /\ source' = source
  BY <1>1, SetupStays
<1>4. ev.entry = 0 /\ ev.number = 0
  BY DEF EventAt
<1>5. reply'.call = "event"
  BY <1>1
<1>6. reply' # Null
  BY <1>5 DEF Null
<1>7. CursorInv'
  <2>1. Len(pass') = 1
    BY <1>1
  <2>2. MaxPast \in Nat
    BY BoundsAssumption
  <2>3. QED BY <1>1, <1>3, <1>6, <2>1, <2>2 DEF CursorInv, Flat
<1>8. HeldInv'
  <2> HIDE DEF ev
  <2>1. held' = held \cup {ev}
    BY <1>1, <1>2
  <2>2. 0 \in 0 .. Len(chain) - 1
    BY <1>3
  <2>3. HeldInv
    BY DEF InputInv
  <2>4. QED BY <1>1, <1>3, <1>4, <2>1, <2>2, <2>3 DEF HeldInv
<1>9. PassUpTo(pass', plugin, chain, 0)
  BY <1>1, <1>3, PassBegins
<1>10. At' = IF Flat(plugin) THEN 0 ELSE 0
  BY <1>1, <1>3 DEF At
<1>11. PassUpTo(pass, source.plugin, source.chain, At)'
  BY <1>3, <1>9, <1>10, PassStays
<1>12. LookupRightAfterReading'
  BY <1>5 DEF LookupRightAfterReading
<1>13. QED BY <1>3, <1>7, <1>8, <1>11, <1>12 DEF InputInv, PassInv

(* next() of the chains that are read by the number of the entry.          *)
LEMMA NextOfChainKeepsInv ==
  ASSUME InputInv, NextOfChain
  PROVE  InputInv'
<1> DEFINE plugin == source.plugin
           chain == source.chain
           n == Len(chain)
           k == ient'
           ev == EventAt(plugin, chain, k, k, listName)
<1>1. /\ made = "source" /\ ~Flat(plugin) /\ UNCHANGED <<setup, paths, made, source, listName>>
      /\ ient < n + MaxPast /\ ient' = ient + 1
      /\ loaded' = IF k < n THEN k ELSE loaded
      /\ NextEntry(k, k)
  BY DEF NextOfChain, Flat
<1>2. /\ loaded \in 0 .. n /\ ient \in 0 .. n + MaxPast
      /\ PassUpTo(pass, plugin, chain, ient)
      /\ LookupRightAfterReading /\ HeldInv /\ fresh \in BOOLEAN
  BY <1>1 DEF InputInv, SourceInv, CursorInv, PassInv, At
<1>3. fresh' \in BOOLEAN
  BY <1>1, <1>2 DEF NextEntry, Delivered
<1>4. /\ SessionInv' /\ SourceInv'
      /\ world' = world /\ made' = "source"
      /\ GoodSource(plugin, chain) /\ n \in Nat \ {0}
      /\ source' = source
  BY <1>1, <1>3, SetupStays
<1>5. MaxPast \in Nat
  BY BoundsAssumption
<1>6. /\ ient \in Nat /\ k \in Nat /\ k = ient + 1 /\ k \in 0 .. n + MaxPast
      /\ loaded' \in 0 .. n /\ (k < n => loaded' = k)
  BY <1>1, <1>2, <1>4, <1>5
<1>7. At' = k
  BY <1>1, <1>4 DEF At
<1>8. \/ /\ k >= n /\ reply' = Null /\ UNCHANGED <<pass, held, fresh>>
      \/ /\ k < n /\ Fails(plugin, chain[k + 1])
         /\ reply' = [call |-> "throws"] /\ UNCHANGED <<pass, held>>
      \/ /\ k < n /\ ~Fails(plugin, chain[k + 1])
         /\ pass' = Append(pass, ev)
         /\ reply' = [call |-> "event", event |-> ev] /\ held' = held \cup {ev}
  <2>1. n \in Nat
    BY <1>4
  <2>2. k >= n \/ k < n
    BY <1>6, <2>1
  <2>3. QED BY <1>1, <2>2 DEF NextEntry, Delivered
<1>9. reply'.call # "record" /\ (reply' = Null => k >= n)
  <2>1. [call |-> "throws"] # Null /\ Null.call # "record"
    BY DEF Null
  <2>2. [call |-> "event", event |-> ev] # Null
    <3>1. [call |-> "event", event |-> ev].call # Null.call
      BY DEF Null
    <3>2. QED BY <3>1
  <2> HIDE DEF ev
  <2>3. QED BY <1>8, <2>1, <2>2
<1>10. ev.entry = k /\ ev.number = k
  BY DEF EventAt
<1>11. HeldInv'
  <2> HIDE DEF ev, k
  <2>1. held' = held \/ (held' = held \cup {ev} /\ k \in 0 .. n - 1)
    BY <1>4, <1>6, <1>8
  <2>2. QED BY <1>1, <1>2, <1>4, <1>10, <2>1 DEF HeldInv
<1>12. PassUpTo(pass', plugin, chain, k)
  <2>1. CASE k < n /\ ~Fails(plugin, chain[k + 1]) /\ pass' = Append(pass, ev)
    <3>1. n \in Nat
      BY <1>4
    <3>2. k = IF Flat(plugin) THEN Len(pass) ELSE k
      BY <1>1
    <3> HIDE DEF k, plugin, chain
    <3>3. QED BY <1>2, <1>6, <2>1, <3>1, <3>2, PassGrows
  <2>2. CASE k >= n \/ Fails(plugin, chain[k + 1])
    <3>1. pass' = pass /\ n \in Nat
      <4>1. n \in Nat /\ k \in Nat
        BY <1>4, <1>6
      <4> HIDE DEF k, n, ev, plugin, chain
      <4>2. QED BY <1>8, <2>2, <4>1
    <3>2. \/ k = ient + 1 /\ k < n /\ Fails(plugin, chain[k + 1])
          \/ ient <= k /\ ient >= n - 1
      BY <1>4, <1>6, <2>2
    <3> HIDE DEF k, plugin, chain
    <3>3. QED BY <1>2, <1>6, <3>1, <3>2, PassSkips
  <2>3. QED BY <1>8, <2>1, <2>2
<1>13. PassUpTo(pass, source.plugin, source.chain, At)'
  BY <1>4, <1>7, <1>12, PassStays
<1>14. CursorInv'
  BY <1>1, <1>4, <1>6, <1>7, <1>9 DEF CursorInv
<1>15. LookupRightAfterReading'
  BY <1>9 DEF LookupRightAfterReading
<1>16. QED BY <1>4, <1>11, <1>13, <1>14, <1>15 DEF InputInv, PassInv

(* next() of the flat tree, whose reader moves by itself.                  *)
LEMMA NextOfReaderKeepsInv ==
  ASSUME InputInv, NextOfReader
  PROVE  InputInv'
<1> DEFINE plugin == source.plugin
           chain == source.chain
           n == Len(chain)
           k == loaded'
           ev == EventAt(plugin, chain, k, ient, listName)
           quiet == reply' = Null /\ pass' = pass /\ held' = held
           throws == /\ Fails(plugin, chain[k + 1])
                     /\ reply' = [call |-> "throws"] /\ pass' = pass /\ held' = held
           delivers == /\ ~Fails(plugin, chain[k + 1])
                       /\ pass' = Append(pass, ev)
                       /\ reply' = [call |-> "event", event |-> ev] /\ held' = held \cup {ev}
<1>1. /\ made = "source" /\ Flat(plugin) /\ UNCHANGED <<setup, paths, made, source, listName>>
      /\ k = IF loaded < n THEN loaded + 1 ELSE loaded
      /\ NextEntry(k, ient)
      /\ ient' = IF reply'.call = "event" THEN ient + 1 ELSE ient
  BY DEF NextOfReader, Flat
<1>2. /\ loaded \in 0 .. n /\ ient \in 0 .. n + MaxPast /\ ient = Len(pass)
      /\ PassUpTo(pass, plugin, chain, loaded)
      /\ HeldInv /\ fresh \in BOOLEAN
  BY <1>1 DEF InputInv, SourceInv, CursorInv, PassInv, At
<1>3. fresh' \in BOOLEAN
  BY <1>1, <1>2 DEF NextEntry, Delivered
<1>4. /\ SessionInv' /\ SourceInv'
      /\ world' = world /\ made' = "source"
      /\ GoodSource(plugin, chain) /\ n \in Nat \ {0}
      /\ source' = source
  BY <1>1, <1>3, SetupStays
<1>5. MaxPast \in Nat
  BY BoundsAssumption
<1>6. /\ loaded \in Nat /\ k \in 0 .. n /\ n \in Nat
      /\ k < n => k = loaded + 1
      /\ k >= n => loaded <= k /\ loaded >= n - 1
  BY <1>1, <1>2, <1>4
<1>7. At' = k
  BY <1>1, <1>4 DEF At
<1>8. (k >= n /\ quiet) \/ (k < n /\ throws) \/ (k < n /\ delivers)
  <2>1. k >= n \/ k < n
    BY <1>6
  <2>2. QED BY <1>1, <2>1 DEF NextEntry, Delivered
<1>9. [call |-> "throws"].call = "throws" /\ Null.call = "null"
  BY DEF Null
<1>10. [call |-> "event", event |-> ev].call = "event"
  OBVIOUS
<1>11. ev.entry = k /\ ev.number = ient
  BY DEF EventAt
<1>12. IsSequence(pass)
  BY <1>2 DEF PassUpTo
<1>13. Len(Append(pass, ev)) = Len(pass) + 1 /\ Len(pass) \in Nat
  BY <1>12, AppendedIsSequence
<1> HIDE DEF ev, k, n
<1>14. CASE k < n /\ delivers
  <2>1. reply'.call = "event" /\ reply' # Null
    BY <1>9, <1>10, <1>14
  <2>2. ient = IF Flat(plugin) THEN Len(pass) ELSE k
    BY <1>1, <1>2
  <2>3. PassUpTo(pass', plugin, chain, k) /\ ient <= k
    <3>1. k = loaded + 1 /\ k < Len(chain) /\ Len(chain) \in Nat
      BY <1>6, <1>14 DEF n
    <3> HIDE DEF plugin, chain
    <3>2. QED BY <1>2, <1>6, <1>14, <2>2, <3>1, PassGrows DEF ev
  <2>4. PassUpTo(pass, source.plugin, source.chain, At)'
    BY <1>4, <1>7, <2>3, PassStays
  <2>5. k \in 0 .. n - 1 /\ ient \in 0 .. n - 1 /\ ient' = ient + 1
    BY <1>1, <1>2, <1>6, <1>13, <1>14, <2>1, <2>3
  <2>6. CursorInv'
    <3>1. ient' = Len(pass') /\ ient' \in 0 .. n + MaxPast /\ k \in 0 .. n
      BY <1>2, <1>5, <1>6, <1>13, <1>14, <2>5
    <3>2. QED BY <1>1, <1>4, <2>1, <3>1 DEF CursorInv, n, k
  <2>7. HeldInv'
    BY <1>1, <1>2, <1>4, <1>11, <1>14, <2>5 DEF HeldInv, n
  <2>8. LookupRightAfterReading'
    BY <2>1 DEF LookupRightAfterReading
  <2>9. QED BY <1>4, <2>4, <2>6, <2>7, <2>8 DEF InputInv, PassInv
<1>15. CASE (k >= n /\ quiet) \/ (k < n /\ throws)
  <2>1. reply'.call \notin {"event", "record"} /\ (reply' = Null => k >= n)
    BY <1>9, <1>15
  <2>2. ient' = ient
    BY <1>1, <2>1
  <2>3. PassUpTo(pass', plugin, chain, k)
    <3>1. \/ k = loaded + 1 /\ k < Len(chain) /\ Fails(plugin, chain[k + 1])
          \/ loaded <= k /\ loaded >= Len(chain) - 1
      BY <1>6, <1>15 DEF n
    <3>2. Len(chain) \in Nat /\ k \in Nat
      BY <1>6 DEF n
    <3> HIDE DEF plugin, chain
    <3>3. QED BY <1>2, <1>6, <1>15, <3>1, <3>2, PassSkips
  <2>4. PassUpTo(pass, source.plugin, source.chain, At)'
    BY <1>4, <1>7, <2>3, PassStays
  <2>5. CursorInv'
    BY <1>1, <1>2, <1>4, <1>6, <1>7, <1>15, <2>1, <2>2 DEF CursorInv, n, k
  <2>6. HeldInv'
    BY <1>1, <1>2, <1>4, <1>15 DEF HeldInv
  <2>7. LookupRightAfterReading'
    BY <2>1 DEF LookupRightAfterReading
  <2>8. QED BY <1>4, <2>4, <2>5, <2>6, <2>7 DEF InputInv, PassInv
<1> HIDE DEF quiet, throws, delivers
<1>16. QED BY <1>8, <1>14, <1>15

(* neutvect(ev), EventRecord(ev): only what is loaded moves.               *)
LEMMA AskRecordKeepsInv ==
  ASSUME InputInv, AskRecord
  PROVE  InputInv'
<1> DEFINE plugin == source.plugin
           n == Len(source.chain)
<1>1. /\ made = "source" /\ plugin \in {"neutvect", "GHEP3"}
      /\ UNCHANGED <<setup, paths, made, source, listName, ient, pass, held>>
      /\ fresh' = FALSE
  BY DEF AskRecord
<1>2. PICK ev \in held :
        /\ loaded' = LoadedForRecord(ev.number)
        /\ reply' = [call |-> "record", asked |-> ev, got |-> loaded', after |-> fresh]
  BY DEF AskRecord
<1>3. ~Flat(plugin)
  BY <1>1 DEF Flat
<1>4. /\ loaded \in 0 .. n /\ ient \in 0 .. n + MaxPast
      /\ (fresh /\ ient < n => loaded = ient)
      /\ PassUpTo(pass, plugin, source.chain, ient)
  BY <1>1, <1>3 DEF InputInv, CursorInv, PassInv, At
<1>5. ev.number \in 0 .. n - 1 /\ ev.number = ev.entry
  BY <1>1, <1>3 DEF InputInv, HeldInv
<1>6. /\ SessionInv' /\ SourceInv'
      /\ world' = world /\ made' = "source" /\ n \in Nat \ {0} /\ source' = source
  BY <1>1, SetupStays
<1>7. loaded' \in 0 .. n
  BY <1>2, <1>4, <1>5, <1>6 DEF LoadedForRecord
<1>8. reply'.call = "record" /\ reply'.asked = ev /\ reply'.got = loaded' /\ reply'.after = fresh
  BY <1>2
<1>9. reply' # Null
  BY <1>8 DEF Null
<1>10. CursorInv'
  BY <1>1, <1>3, <1>4, <1>6, <1>7, <1>9 DEF CursorInv
<1>11. HeldInv'
  BY <1>1, <1>6 DEF InputInv, HeldInv
<1>12. At' = ient
  BY <1>1, <1>3, <1>6 DEF At
<1>13. PassUpTo(pass, source.plugin, source.chain, At)'
  BY <1>1, <1>4, <1>6, <1>12, PassStays
<1>14. LookupRightAfterReading'
  <2>1. ASSUME fresh \/ plugin = "neutvect"
        PROVE  loaded' = ev.number
    <3>1. ient = ev.number => ient < n
      BY <1>5, <1>6
    <3>2. QED BY <1>1, <1>2, <1>4, <2>1, <3>1 DEF LoadedForRecord
  <2>2. QED BY <1>5, <1>6, <1>8, <2>1 DEF LookupRightAfterReading
<1>15. QED BY <1>6, <1>10, <1>11, <1>13, <1>14 DEF InputInv, PassInv

-----------------------------------------------------------------------------
LEMMA InputInvInit ==
  ASSUME Init
  PROVE  InputInv
<1>1. PICK session \in Sessions :
        /\ world = session.world /\ request = session.request /\ build = session.build
        /\ paths = OnlyIn(session.env, ToSet(session.env) \ MissingDirs)
  BY DEF Init
<1> DEFINE D == DirsOf(session)
           there == ToSet(session.env) \ MissingDirs
<1>2. session.env \in Seq(ToSet(session.env))
  BY SessionsAssumption DEF IsSequence
<1>3. ToSet(session.env) \subseteq D
  BY DEF DirsOf
<1> HIDE DEF D
<1>4. session.env \in Seq(D)
  BY <1>2, <1>3, SeqWiden
<1>5. paths \in Seq(D) /\ ToSet(paths) \subseteq there
  <2> HIDE DEF there
  <2>1. QED BY <1>1, <1>4, OnlyInType, OnlyInElements DEF there
<1>6. SessionInv
  BY <1>1, <1>5 DEF SessionInv, D
<1>7. /\ made = "no" /\ source = NoSource /\ reply = NoReply /\ ient = 0 /\ loaded = 0
      /\ held = {} /\ fresh = TRUE /\ listName = FALSE
  BY DEF Init
<1>8. QED BY <1>6, <1>7 DEF InputInv, SourceInv, CursorInv, HeldInv, PassInv,
                            LookupRightAfterReading, NoReply

LEMMA InputInvNext ==
  ASSUME InputInv, [Next]_vars
  PROVE  InputInv'
<1>1. CASE UNCHANGED vars
  <2>1. /\ world' = world /\ request' = request /\ build' = build /\ paths' = paths
        /\ made' = made /\ source' = source /\ listName' = listName /\ ient' = ient
        /\ loaded' = loaded /\ reply' = reply /\ pass' = pass /\ held' = held /\ fresh' = fresh
    BY <1>1 DEF vars, setup
  <2>2. At' = At
    BY <2>1 DEF At
  <2>3. SessionInv'
    BY <2>1 DEF InputInv, SessionInv
  <2>4. SourceInv'
    BY <2>1 DEF InputInv, SourceInv, GoodSource, Fails, Entry
  <2>5. CursorInv'
    BY <2>1, <2>2 DEF InputInv, CursorInv
  <2>6. HeldInv'
    BY <2>1 DEF InputInv, HeldInv
  <2>7. PassInv'
    <3>1. CASE made = "source"
      <4>1. PassUpTo(pass, source.plugin, source.chain, At)
        BY <3>1 DEF InputInv, PassInv
      <4>2. PassUpTo(pass, source.plugin, source.chain, At)'
        BY <2>1, <2>2, <4>1, PassStays
      <4>3. QED BY <4>2 DEF PassInv
    <3>2. QED BY <2>1, <3>1 DEF PassInv
  <2>8. LookupRightAfterReading'
    BY <2>1 DEF InputInv, LookupRightAfterReading
  <2>9. QED BY <2>3, <2>4, <2>5, <2>6, <2>7, <2>8 DEF InputInv
<1>2. QED BY <1>1, AddEventPathKeepsInv, MakeKeepsInv, FirstKeepsInv, NextOfChainKeepsInv,
             NextOfReaderKeepsInv, AskRecordKeepsInv DEF Next

LEMMA InputInvIsInvariant == Spec => []InputInv
<1>1. Init => InputInv
  BY InputInvInit
<1>2. InputInv /\ [Next]_vars => InputInv'
  BY InputInvNext
<1>3. QED BY <1>1, <1>2, PTL DEF Spec

-----------------------------------------------------------------------------
(* The factory leaves a source only when it made one, its cursor never     *)
(* moves further past the end than the user called next(), and no          *)
(* directory that does not exist is searched.                              *)
THEOREM EventInputTypeIsOK == Spec => []TypeOK
<1>1. ASSUME InputInv
      PROVE  TypeOK
  <2>1. build \in {"static", "dynamic"} /\ ToSet(paths) \cap MissingDirs = {}
    BY <1>1, SessionsAssumption DEF InputInv, SessionInv
  <2>2. "none" \notin Plugins
    BY DEF Plugins, TreeOf
  <2>3. NoSource.plugin = "none" /\ Len(NoSource.chain) = 0
    BY DEF NoSource
  <2>4. SourceInv /\ CursorInv /\ MaxPast \in Nat
    BY <1>1, BoundsAssumption DEF InputInv
  <2>5. CASE made = "source"
    <3>1. source.plugin \in Plugins /\ source # NoSource
      BY <2>2, <2>3, <2>4, <2>5 DEF SourceInv, GoodSource
    <3>2. QED BY <2>1, <2>4, <2>5, <3>1 DEF TypeOK, SourceInv, CursorInv
  <2>6. CASE made # "source"
    <3>1. source = NoSource /\ ient = 0 /\ loaded = 0
      BY <2>4, <2>6 DEF SourceInv
    <3>2. source.plugin = "none" /\ Len(source.chain) = 0
      BY <2>3, <3>1
    <3>3. ient \in 0 .. Len(source.chain) + MaxPast /\ loaded \in 0 .. Len(source.chain)
      BY <2>4, <3>1, <3>2
    <3>4. QED BY <2>1, <2>4, <2>6, <3>1, <3>2, <3>3 DEF TypeOK, SourceInv
  <2>7. QED BY <2>5, <2>6
<1>2. QED BY <1>1, InputInvIsInvariant, PTL

(* A pass over any source gives, once and in order, every entry up to its  *)
(* cursor that can be converted, and nothing is given only at the end.     *)
THEOREM PassesAreChains == Spec => []PassIsChain
<1>1. ASSUME InputInv, made = "source"
      PROVE  PassIsChain
  <2> DEFINE plugin == source.plugin
             chain == source.chain
             n == Len(chain)
             good == {k \in 0 .. n - 1 : k <= At /\ ~Fails(plugin, chain[k + 1])}
  <2>1. PassUpTo(pass, plugin, chain, At) /\ (reply = Null => At >= n)
    BY <1>1 DEF InputInv, PassInv, CursorInv
  <2>2. \A k : k \in {pass[i].entry : i \in DOMAIN pass} <=> \E i \in DOMAIN pass : pass[i].entry = k
    OBVIOUS
  <2>3. \A k : k \in good <=> \E i \in DOMAIN pass : pass[i].entry = k
    BY <2>1 DEF PassUpTo
  <2>4. {pass[i].entry : i \in DOMAIN pass} = good
    BY <2>2, <2>3
  <2>5. QED BY <2>1, <2>4 DEF PassIsChain, PassUpTo, At, Flat
<1>2. InputInv => PassIsChain
  BY <1>1 DEF PassIsChain
<1>3. QED BY <1>2, InputInvIsInvariant, PTL

(* The record given is that of the event when one was read since the last  *)
(* record was asked for, and always with neutvect.                         *)
THEOREM RecordsRightAfterReading == Spec => []LookupRightAfterReading
<1>1. InputInv => LookupRightAfterReading
  BY DEF InputInv
<1>2. QED BY <1>1, InputInvIsInvariant, PTL

-----------------------------------------------------------------------------
(* What is read is what was named.                                         *)
LEMMA OneElementSet == \A x : ToSet(<<x>>) = {x}
BY DEF ToSet

(* A name is located where the search first finds a file.                  *)
LEMMA FirstPlaceIsLocated ==
  ASSUME NEW session \in Sessions, world = session.world, paths \in Seq(DirsOf(session)),
         NEW name \in NamesOf(session.request)
  PROVE  /\ Located(name) \in Places(session)
         /\ FirstPlace(name)
              = IF world[Located(name)].tree = "absent" THEN {} ELSE {Located(name)}
<1> DEFINE m == Len(paths)
           places == <<Here>> \o paths
           at(i) == <<places[i], name>>
           absent(loc) == world[loc].tree = "absent"
           first(i) == /\ name \in Absolute \cup Remote => i = 1
                       /\ ~absent(at(i))
                       /\ \A k \in 1 .. i - 1 : absent(at(k))
           here == <<Here, name>>
           next == {j \in 1 .. m : /\ Exists(<<paths[j], name>>)
                                  /\ \A k \in 1 .. j - 1 : ~Exists(<<paths[k], name>>)}
<1>1. /\ m \in Nat /\ DOMAIN paths = 1 .. m /\ DOMAIN places = 1 .. m + 1
      /\ places[1] = Here /\ \A j \in 1 .. m : places[j + 1] = paths[j]
  OBVIOUS
<1>2. Located(name) \in Places(session)
  BY LocatedIsPlace
<1>3. FirstPlace(name) = {at(i) : i \in {j \in 1 .. m + 1 : first(j)}}
  BY <1>1 DEF FirstPlace
<1>4. Resolve(name) = CASE name = "" -> {}
        [] name # "" /\ (Exists(here) \/ name \in Remote) -> {here}
        [] name \in Absolute /\ ~Exists(here) -> {}
        [] OTHER -> {<<paths[i], name>> : i \in next}
  BY <1>1 DEF Resolve
<1>5. \A loc : loc[2] = name => (Exists(loc) <=> ~absent(loc) /\ name \notin Remote)
  BY DEF Exists
<1>6. at(1) = here /\ \A j \in 1 .. m : at(j + 1) = <<paths[j], name>>
  BY <1>1
<1> HIDE DEF places
<1>7. CASE name = ""
  <2>1. ASSUME NEW i \in 1 .. m + 1
        PROVE  absent(at(i))
    <3>1. places[i] \in DirsOf(session)
      <4>1. CASE i = 1
        BY <1>1, <4>1 DEF DirsOf
      <4>2. CASE i # 1
        <5>1. i - 1 \in 1 .. m /\ (i - 1) + 1 = i
          BY <1>1, <4>2
        <5>2. places[i] = paths[i - 1] /\ paths[i - 1] \in DirsOf(session)
          BY <1>1, <5>1
        <5>3. QED BY <5>2
      <4>3. QED BY <4>1, <4>2
    <3>2. at(i) \in Places(session)
      BY <3>1 DEF Places
    <3>3. QED BY <1>7, <3>2, NamesAssumption
  <2>2. Resolve(name) = {}
    BY <1>7 DEF Resolve
  <2>3. Located(name) = here
    BY <2>2 DEF Located, AsWritten
  <2>4. absent(here)
    BY <1>1, <1>6, <2>1
  <2> HIDE DEF at, absent, here
  <2>5. FirstPlace(name) = {}
    BY <1>3, <2>1 DEF absent
  <2>6. QED BY <1>2, <2>3, <2>4, <2>5 DEF absent
<1>8. CASE name # "" /\ (~absent(here) \/ name \in Absolute \cup Remote)
  <2>1. Resolve(name) \in {{}, {here}}
    <3>1. Exists(here) \/ name \in Remote \/ (name \in Absolute /\ ~Exists(here))
      BY <1>5, <1>8
    <3> DEFINE others == {<<paths[i], name>> : i \in next}
    <3>2. Resolve(name) = CASE name = "" -> {}
            [] name # "" /\ (Exists(here) \/ name \in Remote) -> {here}
            [] name \in Absolute /\ ~Exists(here) -> {}
            [] OTHER -> others
      BY <1>4
    <3> HIDE DEF others, here
    <3>3. QED BY <1>8, <3>1, <3>2
  <2>2. Located(name) = here
    BY <2>1 DEF Located, AsWritten
  <2>3. \A i \in 1 .. m + 1 : first(i) <=> i = 1 /\ ~absent(here)
    <3>1. ASSUME NEW i \in 1 .. m + 1, first(i)
          PROVE  i = 1 /\ ~absent(here)
      <4>1. CASE name \in Absolute \cup Remote
        BY <1>6, <3>1, <4>1
      <4>2. CASE ~absent(here)
        <5>1. i # 1 => 1 \in 1 .. i - 1
          BY <1>1
        <5>2. i # 1 => absent(at(1))
          BY <3>1, <5>1
        <5>3. QED BY <1>6, <4>2, <5>2
      <4>3. QED BY <1>8, <4>1, <4>2
    <3>2. ~absent(here) => first(1)
      BY <1>6
    <3>3. QED BY <3>1, <3>2
  <2>4. 1 \in 1 .. m + 1
    BY <1>1
  <2> HIDE DEF at, absent, here, first
  <2>5. FirstPlace(name) = IF absent(here) THEN {} ELSE {here}
    BY <1>3, <1>6, <2>3, <2>4
  <2>6. QED BY <1>2, <2>2, <2>5 DEF absent
<1>9. CASE name # "" /\ absent(here) /\ name \notin Absolute \cup Remote
  <2> DEFINE others == {<<paths[i], name>> : i \in next}
  <2>1. Resolve(name) = others
    <3>1. ~Exists(here)
      BY <1>5, <1>9
    <3>2. Resolve(name) = CASE name = "" -> {}
            [] name # "" /\ (Exists(here) \/ name \in Remote) -> {here}
            [] name \in Absolute /\ ~Exists(here) -> {}
            [] OTHER -> others
      BY <1>4
    <3> HIDE DEF others, here, absent
    <3>3. QED BY <1>9, <3>1, <3>2
  <2>2. \A j \in 1 .. m : Exists(<<paths[j], name>>) <=> ~absent(at(j + 1))
    BY <1>5, <1>6, <1>9
  <2>3. \A j \in 1 .. m : j \in next <=> first(j + 1)
    <3> SUFFICES ASSUME NEW j \in 1 .. m PROVE j \in next <=> first(j + 1)
      OBVIOUS
    <3>1. j \in next <=> /\ ~absent(at(j + 1))
                        /\ \A k \in 1 .. j - 1 : ~Exists(<<paths[k], name>>)
      BY <2>2
    <3>2. \A k \in 1 .. j - 1 : k \in 1 .. m
      BY <1>1
    <3>3. (\A k \in 1 .. j - 1 : ~Exists(<<paths[k], name>>))
            <=> \A k \in 1 .. j - 1 : absent(at(k + 1))
      BY <2>2, <3>2
    <3>4. \A k : k \in 1 .. (j + 1) - 1 <=> k = 1 \/ (k - 1 \in 1 .. j - 1 /\ k \in Int)
      BY <1>1
    <3> HIDE DEF next
    <3>5. (\A k \in 1 .. j - 1 : absent(at(k + 1))) <=> \A k \in 1 .. (j + 1) - 1 : absent(at(k))
      <4>1. ASSUME \A k \in 1 .. j - 1 : absent(at(k + 1)), NEW k \in 1 .. (j + 1) - 1
            PROVE  absent(at(k))
        <5>1. CASE k = 1
          BY <1>6, <1>9, <5>1
        <5>2. CASE k # 1
          <6>1. k - 1 \in 1 .. j - 1 /\ (k - 1) + 1 = k
            BY <1>1, <5>2
          <6> HIDE DEF absent, at
          <6>2. absent(at((k - 1) + 1))
            BY <4>1, <6>1
          <6>3. QED BY <6>1, <6>2
        <5>3. QED BY <5>1, <5>2
      <4>2. ASSUME \A k \in 1 .. (j + 1) - 1 : absent(at(k)), NEW k \in 1 .. j - 1
            PROVE  absent(at(k + 1))
        <5>1. k + 1 \in 1 .. (j + 1) - 1
          BY <1>1
        <5> HIDE DEF absent, at
        <5>2. QED BY <4>2, <5>1
      <4>3. QED BY <4>1, <4>2
    <3>6. QED BY <1>9, <3>1, <3>3, <3>5
  <2>4. FirstPlace(name) = others
    <3>1. ~first(1)
      BY <1>6, <1>9
    <3>2. \A i \in 1 .. m + 1 : first(i) => \E j \in next : at(i) = <<paths[j], name>>
      <4> SUFFICES ASSUME NEW i \in 1 .. m + 1, first(i)
                   PROVE  \E j \in next : at(i) = <<paths[j], name>>
        OBVIOUS
      <4>1. i # 1
        BY <3>1
      <4>2. i - 1 \in 1 .. m /\ (i - 1) + 1 = i
        BY <1>1, <4>1
      <4> HIDE DEF first, at, next
      <4>3. i - 1 \in next /\ at(i) = <<paths[i - 1], name>>
        BY <1>6, <2>3, <4>2
      <4>4. QED BY <4>3
    <3>3. \A j \in next : j \in 1 .. m
      OBVIOUS
    <3> HIDE DEF first, at, next
    <3>4. \A j \in next : j + 1 \in 1 .. m + 1 /\ first(j + 1) /\ at(j + 1) = <<paths[j], name>>
      BY <1>1, <1>6, <2>3, <3>3
    <3>5. \A loc : loc \in FirstPlace(name) <=> \E i \in 1 .. m + 1 : first(i) /\ loc = at(i)
      BY <1>3
    <3>6. \A loc : loc \in FirstPlace(name) <=> loc \in others
      BY <3>2, <3>4, <3>5
    <3>7. QED BY <3>6 DEF FirstPlace
  <2>5. \A j \in next : ~absent(<<paths[j], name>>)
    BY <1>5
  <2>6. \A i, j \in next : i = j
    <3> SUFFICES ASSUME NEW i \in next, NEW j \in next, i # j PROVE FALSE
      OBVIOUS
    <3>1. i < j \/ j < i
      BY <1>1
    <3>2. QED BY <1>1, <3>1
  <2> HIDE DEF next
  <2>7. CASE next = {}
    <3>1. others = {} /\ Located(name) = here
      BY <2>1, <2>7 DEF Located, AsWritten
    <3>2. QED BY <1>2, <1>9, <2>4, <3>1
  <2>8. CASE next # {}
    <3>1. PICK j \in next : TRUE
      BY <2>8
    <3>2. others = {<<paths[j], name>>}
      BY <2>6, <3>1
    <3> DEFINE there == <<paths[j], name>>
    <3> HIDE DEF others, there
    <3>3. Located(name) = there
      <4>1. Resolve(name) = {there}
        BY <2>1, <3>2 DEF there
      <4>2. (CHOOSE loc \in {there} : TRUE) = there
        OBVIOUS
      <4>3. QED BY <4>1, <4>2 DEF Located
    <3> USE DEF there
    <3>4. QED BY <1>2, <2>4, <2>5, <3>1, <3>2, <3>3
  <2>9. QED BY <2>7, <2>8
<1>10. QED BY <1>7, <1>8, <1>9

(* Of the files that are named, a plugin reads those that have its tree.   *)
LEMMA ReadsNamedFiles ==
  ASSUME SessionInv, NEW plugin \in Plugins
  PROVE  LET files == ToSet(FilesOf(plugin))
             named == {loc \in {Located(name) : name \in Named} : HasTTree(loc, TreeOf[plugin])}
         IN  /\ named \subseteq files
             /\ (request.filepath # NoName => request.filepaths = <<>>) => files = named
<1>1. PICK session \in Sessions :
        /\ world = session.world /\ request = session.request
        /\ paths \in Seq(DirsOf(session))
  BY DEF SessionInv
<1> DEFINE P == Places(session)
           names == request.filepaths
           tree == TreeOf[plugin]
           withTree(locs) == OnlyIn(locs, {loc \in ToSet(locs) : HasTTree(loc, tree)})
           located == [i \in DOMAIN names |-> Located(names[i])]
           asWritten == [i \in DOMAIN names |-> AsWritten(names[i])]
           one == withTree(<<Located(request.filepath)>>)
           named == {loc \in {Located(name) : name \in Named} : HasTTree(loc, tree)}
<1>2. FilesOf(plugin) = IF request.filepath = NoName THEN withTree(located)
                        ELSE IF one = <<>> /\ plugin \in {"neutvect", "NuWroevent1"}
                        THEN withTree(asWritten) ELSE one
  BY DEF FilesOf
<1>3. ASSUME NEW T, NEW locs \in Seq(T)
      PROVE  ToSet(withTree(locs)) = {loc \in ToSet(locs) : HasTTree(loc, tree)}
  BY OnlyInElements
<1> HIDE DEF withTree
<1>4. CASE request.filepath = NoName
  <2>1. names \in Seq(ToSet(names)) /\ ToSet(names) = Named
    BY <1>1, <1>4, SessionsAssumption DEF IsSequence, Named
  <2>2. Len(names) \in Nat /\ DOMAIN names = 1 .. Len(names)
    BY <2>1
  <2>3. located \in Seq({Located(name) : name \in Named})
    <3>1. \A i \in DOMAIN names : Located(names[i]) \in {Located(name) : name \in Named}
      BY <2>1 DEF ToSet
    <3> DEFINE L == {Located(name) : name \in Named}
    <3> HIDE DEF L, names
    <3>2. located \in [1 .. Len(names) -> L]
      BY <2>2, <3>1 DEF L
    <3>3. located \in Seq(L)
      BY <2>2, <3>2
    <3>4. QED BY <3>3 DEF L
  <2>4. ToSet(located) = {Located(name) : name \in Named}
    <3>1. ToSet(located) = {Located(names[i]) : i \in DOMAIN names}
      BY DEF ToSet
    <3>2. \A name : name \in Named <=> \E i \in DOMAIN names : names[i] = name
      BY <2>1 DEF ToSet
    <3> HIDE DEF located, names
    <3>3. QED BY <3>1, <3>2
  <2> HIDE DEF located, tree
  <2>5. ToSet(withTree(located)) = {loc \in ToSet(located) : HasTTree(loc, tree)}
    BY <1>3, <2>3
  <2>6. QED BY <1>2, <1>4, <2>4, <2>5 DEF tree
<1>5. CASE request.filepath # NoName
  <2> DEFINE loc0 == Located(request.filepath)
  <2>1. named = {loc \in {loc0} : HasTTree(loc, tree)}
    BY <1>5 DEF Named
  <2>2. ToSet(one) = {loc \in {loc0} : HasTTree(loc, tree)}
    <3> HIDE DEF loc0
    <3>1. <<loc0>> \in Seq({loc0}) /\ ToSet(<<loc0>>) = {loc0}
      BY OneElementSet
    <3>2. ToSet(withTree(<<loc0>>)) = {loc \in ToSet(<<loc0>>) : HasTTree(loc, tree)}
      BY <1>3, <3>1
    <3>3. QED BY <3>1, <3>2 DEF loc0
  <2> HIDE DEF loc0, named, one, tree
  <2>3. one = <<>> => named = {}
    BY <2>1, <2>2, NoElement
  <2>4. names = <<>> => ToSet(withTree(asWritten)) = {}
    <3> SUFFICES ASSUME names = <<>> PROVE ToSet(withTree(asWritten)) = {}
      OBVIOUS
    <3>1. asWritten = <<>>
      OBVIOUS
    <3> HIDE DEF asWritten
    <3>2. asWritten \in Seq({}) /\ ToSet(asWritten) = {}
      BY <3>1, NoElement
    <3>3. ToSet(withTree(asWritten)) = {loc \in ToSet(asWritten) : HasTTree(loc, tree)}
      BY <1>3, <3>2
    <3>4. QED BY <3>2, <3>3
  <2>5. named \subseteq ToSet(FilesOf(plugin))
    BY <1>2, <1>5, <2>1, <2>2, <2>3
  <2>6. names = <<>> => ToSet(FilesOf(plugin)) = named
    BY <1>2, <1>5, <2>1, <2>2, <2>3, <2>4
  <2>7. QED BY <1>5, <2>5, <2>6 DEF named, tree
<1>6. QED BY <1>4, <1>5

(* A chain has every entry of its files, and no other.                     *)
LEMMA ChainHolds ==
  ASSUME SessionInv, NEW plugin
  PROVE  /\ \A e : e \in ToSet(ChainOf(plugin))
                 <=> \E loc \in ToSet(FilesOf(plugin)) :
                       \E k \in DOMAIN world[loc].entries : e = <<loc, k>>
         /\ \A loc \in ToSet(FilesOf(plugin)) : world[loc].entries \in Seq(ToSet(world[loc].entries))
<1>1. PICK session \in Sessions : /\ world = session.world
                                  /\ FilesOf(plugin) \in Seq(Places(session))
  BY FilesAre
<1> DEFINE files == FilesOf(plugin)
           P == Places(session)
           T == P \X Nat
           entries == [i \in DOMAIN files |-> EntriesOf(files[i])]
<1>2. ASSUME NEW loc \in P
      PROVE  /\ world[loc].entries \in Seq(ToSet(world[loc].entries))
             /\ EntriesOf(loc) \in Seq(T)
             /\ ToSet(EntriesOf(loc)) = {<<loc, k>> : k \in DOMAIN world[loc].entries}
  <2> DEFINE stored == world[loc].entries
  <2>1. stored \in Seq(ToSet(stored))
    BY <1>1, SessionsAssumption DEF IsSequence
  <2> HIDE DEF stored, P
  <2>2. Len(stored) \in Nat /\ DOMAIN stored = 1 .. Len(stored)
    BY <2>1
  <2>3. EntriesOf(loc) = [k \in 1 .. Len(stored) |-> <<loc, k>>]
    BY <2>2 DEF EntriesOf, stored
  <2>4. EntriesOf(loc) \in [1 .. Len(stored) -> T]
    BY <2>2, <2>3
  <2>5. ToSet(EntriesOf(loc)) = {<<loc, k>> : k \in 1 .. Len(stored)}
    BY <2>3 DEF ToSet
  <2> HIDE DEF T
  <2>6. EntriesOf(loc) \in Seq(T)
    BY <2>2, <2>4
  <2>7. QED BY <2>1, <2>2, <2>5, <2>6 DEF stored
<1> HIDE DEF T, P
<1>3. files \in Seq(P)
  BY <1>1 DEF P
<1> HIDE DEF files
<1>4. /\ Len(files) \in Nat /\ DOMAIN files = 1 .. Len(files)
      /\ \A i \in 1 .. Len(files) : files[i] \in P
      /\ ToSet(files) \subseteq P
  BY <1>3, ToSetType
<1>5. entries \in Seq(Seq(T))
  <2>1. entries \in [1 .. Len(files) -> Seq(T)]
    BY <1>2, <1>4
  <2>2. QED BY <1>4, <2>1
<1>6. ToSet(entries) = {EntriesOf(loc) : loc \in ToSet(files)}
  BY DEF ToSet
<1>7. ChainOf(plugin) = FlattenSeq(entries)
  BY DEF ChainOf, files
<1> HIDE DEF entries
<1>8. ToSet(ChainOf(plugin)) = UNION {ToSet(s) : s \in ToSet(entries)}
  BY <1>5, <1>7, FlattenElements
<1>9. \A e : e \in ToSet(ChainOf(plugin))
             <=> \E loc \in ToSet(files) : e \in ToSet(EntriesOf(loc))
  BY <1>6, <1>8
<1>10. \A e : e \in ToSet(ChainOf(plugin))
              <=> \E loc \in ToSet(files) : \E k \in DOMAIN world[loc].entries : e = <<loc, k>>
  BY <1>2, <1>4, <1>9
<1>11. QED BY <1>2, <1>4, <1>10 DEF files

(* What is found is what is located and there.                             *)
LEMMA FoundIsLocated ==
  ASSUME SessionInv
  PROVE  Found = {loc \in {Located(name) : name \in Named} : world[loc].tree # "absent"}
<1>1. PICK session \in Sessions :
        /\ world = session.world /\ request = session.request
        /\ paths \in Seq(DirsOf(session))
  BY DEF SessionInv
<1>2. Named \subseteq NamesOf(session.request)
  BY <1>1 DEF Named, NamesOf
<1>3. \A name \in Named :
        FirstPlace(name) = IF world[Located(name)].tree = "absent" THEN {} ELSE {Located(name)}
  BY <1>1, <1>2, FirstPlaceIsLocated
<1>4. \A loc : loc \in Found <=> \E name \in Named : loc \in FirstPlace(name)
  BY DEF Found
<1>5. \A loc : loc \in Found
              <=> \E name \in Named : loc = Located(name) /\ world[loc].tree # "absent"
  BY <1>3, <1>4
<1>6. QED BY <1>5

(* The chain of a plugin is what it finds. *)
LEMMA ChainIsFound ==
  ASSUME SessionInv, NEW plugin \in Plugins
  PROVE  /\ ChainOf(plugin) = <<>> =>
              \A loc \in Found : HasTTree(loc, TreeOf[plugin]) => world[loc].entries = <<>>
         /\ (request.filepath # NoName => request.filepaths = <<>>) =>
              /\ {e[1] : e \in ToSet(ChainOf(plugin))} \subseteq Found
              /\ \A loc \in Found : HasTTree(loc, TreeOf[plugin]) =>
                   \A k \in DOMAIN world[loc].entries : <<loc, k>> \in ToSet(ChainOf(plugin))
<1> DEFINE files == ToSet(FilesOf(plugin))
           chain == ToSet(ChainOf(plugin))
           named == {loc \in {Located(name) : name \in Named} : HasTTree(loc, TreeOf[plugin])}
<1>1. /\ \A e : e \in chain
               <=> \E loc \in files : \E k \in DOMAIN world[loc].entries : e = <<loc, k>>
      /\ \A loc \in files : world[loc].entries \in Seq(ToSet(world[loc].entries))
  BY ChainHolds
<1>2. /\ named \subseteq files
      /\ (request.filepath # NoName => request.filepaths = <<>>) => files = named
  BY ReadsNamedFiles
<1>3. TreeOf[plugin] # "absent"
  BY DEF Plugins, TreeOf
<1>4. Found = {loc \in {Located(name) : name \in Named} : world[loc].tree # "absent"}
  BY FoundIsLocated
<1>5. named \subseteq Found /\ \A loc \in Found : HasTTree(loc, TreeOf[plugin]) => loc \in named
  BY <1>3, <1>4 DEF HasTTree
<1>6. ChainOf(plugin) = <<>> => chain = {}
  BY NoElement
<1> HIDE DEF files, chain, named
<1>7. ASSUME chain = {}, NEW loc \in Found, HasTTree(loc, TreeOf[plugin])
      PROVE  world[loc].entries = <<>>
  <2>1. loc \in files
    BY <1>2, <1>5, <1>7
  <2> DEFINE stored == world[loc].entries
  <2>2. stored \in Seq(ToSet(stored)) /\ DOMAIN stored = {}
    BY <1>1, <1>7, <2>1
  <2> HIDE DEF stored
  <2>3. stored = <<>>
    BY <2>2
  <2>4. QED BY <2>3 DEF stored
<1>8. ASSUME files = named
      PROVE  /\ {e[1] : e \in chain} \subseteq Found
             /\ \A loc \in Found : HasTTree(loc, TreeOf[plugin]) =>
                  \A k \in DOMAIN world[loc].entries : <<loc, k>> \in chain
  <2>1. \A e \in chain : e[1] \in files
    BY <1>1
  <2>2. QED BY <1>1, <1>5, <1>8, <2>1
<1>9. QED BY <1>2, <1>6, <1>7, <1>8 DEF chain

(* The factory tries every plugin it may, before it gives up.              *)
LEMMA GivesUpWhenNull ==
  ASSUME SessionInv, NEW plugin \in Plugins, Tried(plugin),
         OnlyIn(Order, {p \in Plugins : Tried(p) /\ FirstOutcome(p) # "null"}) = <<>>
  PROVE  ChainOf(plugin) = <<>>
<1> DEFINE S == {p \in Plugins : Tried(p) /\ FirstOutcome(p) # "null"}
<1>1. ToSet(Order) = Plugins
  <2>1. Plugins = {"neutvect", "GHEP3", "NUISANCE2FlatTree", "NuWroevent1"}
    BY DEF Plugins, TreeOf
  <2>2. \A a, b, c, d : ToSet(<<a, b, c, d>>) = {a, b, c, d}
    BY DEF ToSet
  <2>3. QED BY <2>1, <2>2 DEF Order
<1>2. ToSet(OnlyIn(Order, S)) = ToSet(Order) \cap S
  BY OrderIsOfPlugins, OnlyInElements
<1>3. ToSet(OnlyIn(Order, S)) = {}
  BY NoElement
<1>4. FirstOutcome(plugin) = "null"
  BY <1>1, <1>2, <1>3
<1> DEFINE chain == ChainOf(plugin)
           bad == Fails(plugin, chain[1])
<1>5. FirstOutcome(plugin) =
        CASE chain = <<>> -> "null"
          [] chain # <<>> /\ plugin = "neutvect" ->
               IF world[chain[1][1]].mono THEN "event" ELSE "throws"
          [] chain # <<>> /\ plugin # "neutvect" /\ bad -> "throws"
          [] chain # <<>> /\ plugin = "NUISANCE2FlatTree" /\ ~bad ->
               IF Converted(plugin, chain[1]).beam = {} THEN "crashes" ELSE "event"
          [] OTHER -> "event"
  BY DEF FirstOutcome
<1> HIDE DEF chain, bad
<1>6. chain = <<>>
  BY <1>4, <1>5
<1>7. QED BY <1>6 DEF chain

(* What is found depends on the session and the search path alone. *)
LEMMA FoundStays ==
  ASSUME UNCHANGED <<setup, paths>>
  PROVE  Found' = Found /\ \A plugin : Tried(plugin)' <=> Tried(plugin)
BY DEF Found, FirstPlace, Named, Tried, setup

LEMMA MakeReads ==
  ASSUME InputInv, Make
  PROVE  ReadsWhatWasNamed'
<1> DEFINE S == {p \in Plugins : Tried(p) /\ FirstOutcome(p) # "null"}
           order == OnlyIn(Order, S)
           plugin == Head(order)
           nothingNamed == request.filepath = NoName /\ request.filepaths = <<>>
           Entries(loc) == world[loc].entries
           Right(p, chain) ==
             (request.filepath # NoName => request.filepaths = <<>>) =>
               /\ {e[1] : e \in ToSet(chain)} \subseteq Found
               /\ \A loc \in Found : HasTTree(loc, TreeOf[p]) =>
                    \A k \in DOMAIN world[loc].entries : Contains(chain, <<loc, k>>)
           GaveUp == \A loc \in Found, p \in Plugins :
                       Tried(p) /\ HasTTree(loc, TreeOf[p]) => world[loc].entries = <<>>
<1>1. /\ UNCHANGED <<setup, paths>>
      /\ \/ nothingNamed /\ NoneMade("null")
         \/ /\ ~nothingNamed /\ order # <<>>
            /\ IF FirstOutcome(plugin) = "event" THEN Makes(plugin, ChainOf(plugin))
               ELSE NoneMade(FirstOutcome(plugin))
         \/ /\ ~nothingNamed /\ order = <<>>
            /\ NoneMade(IF HepMC3Reads THEN "HepMC3" ELSE "null")
  BY DEF Make
<1>2. order \in Seq(Plugins) /\ ToSet(order) \subseteq S
  BY OrderIsOfPlugins, OnlyInType, OnlyInElements
<1>3. order # <<>> => plugin \in S
  <2> HIDE DEF S, order
  <2>1. order # <<>> => 1 \in DOMAIN order /\ plugin = order[1]
    BY <1>2
  <2>2. QED BY <1>2, <2>1 DEF ToSet
<1>4. SessionInv
  BY DEF InputInv
<1>5. nothingNamed => GaveUp
  <2>1. nothingNamed => Named = {}
    BY NoElement DEF Named
  <2>2. QED BY <2>1 DEF Found
<1>6. order = <<>> => GaveUp
  BY <1>4, GivesUpWhenNull, ChainIsFound
<1>7. \A p \in Plugins : Right(p, ChainOf(p))
  <2> SUFFICES ASSUME NEW p \in Plugins PROVE Right(p, ChainOf(p))
    OBVIOUS
  <2>1. Len(ChainOf(p)) \in Nat /\ \A e \in ToSet(ChainOf(p)) : Contains(ChainOf(p), e)
    BY <1>4, ChainIsSequence DEF Contains, ToSet
  <2>2. QED BY <1>4, <2>1, ChainIsFound
<1>8. world' = world /\ request' = request /\ Found' = Found
      /\ \A p : Tried(p)' <=> Tried(p)
  BY <1>1, FoundStays DEF setup
<1>9. plugin \in S => plugin \in Plugins /\ FirstOutcome(plugin) # "null"
  OBVIOUS
<1> HIDE DEF S, order, plugin, nothingNamed, Right, GaveUp
<1>10. ASSUME made' = "null" => GaveUp,
              made' = "source" => Right(source'.plugin, source'.chain)
       PROVE  ReadsWhatWasNamed'
  BY <1>8, <1>10 DEF ReadsWhatWasNamed, Right, GaveUp, HasTTree
<1>11. CASE nothingNamed /\ NoneMade("null")
  BY <1>5, <1>10, <1>11 DEF NoneMade
<1>12. CASE order # <<>> /\ FirstOutcome(plugin) = "event" /\ Makes(plugin, ChainOf(plugin))
  <2>1. made' = "source" /\ source' = [plugin |-> plugin, chain |-> ChainOf(plugin)]
    BY <1>12 DEF Makes
  <2>2. Right(source'.plugin, source'.chain)
    BY <1>3, <1>7, <1>9, <1>12, <2>1
  <2>3. QED BY <1>10, <2>1, <2>2
<1>13. CASE order # <<>> /\ FirstOutcome(plugin) # "event" /\ NoneMade(FirstOutcome(plugin))
  <2>1. FirstOutcome(plugin) \in {"throws", "crashes"}
    BY <1>3, <1>4, <1>9, <1>13, FirstPluginIsGood
  <2>2. QED BY <1>10, <1>13, <2>1 DEF NoneMade
<1>14. CASE order = <<>> /\ NoneMade(IF HepMC3Reads THEN "HepMC3" ELSE "null")
  BY <1>6, <1>10, <1>14 DEF NoneMade
<1>15. QED BY <1>1, <1>11, <1>12, <1>13, <1>14

LEMMA OthersKeepReading ==
  ASSUME ReadsWhatWasNamed, UNCHANGED <<setup, paths, made, source>>
  PROVE  ReadsWhatWasNamed'
<1>1. world' = world /\ request' = request /\ Found' = Found
      /\ \A p : Tried(p)' <=> Tried(p)
  BY FoundStays DEF setup
<1>2. QED BY <1>1 DEF ReadsWhatWasNamed, HasTTree

LEMMA ReadingNext == InputInv /\ ReadsWhatWasNamed /\ [Next]_vars => ReadsWhatWasNamed'
<1> SUFFICES ASSUME InputInv, ReadsWhatWasNamed, [Next]_vars PROVE ReadsWhatWasNamed'
  OBVIOUS
<1>1. CASE AddEventPath
  BY <1>1 DEF AddEventPath, ReadsWhatWasNamed
<1>2. CASE Make
  BY <1>2, MakeReads
<1>3. CASE First \/ NextOfChain \/ NextOfReader \/ AskRecord
  BY <1>3, OthersKeepReading DEF First, NextOfChain, NextOfReader, AskRecord
<1>4. CASE UNCHANGED vars
  BY <1>4, OthersKeepReading DEF vars
<1>5. QED BY <1>1, <1>2, <1>3, <1>4 DEF Next

(* A source reads what the request names, found at the first place of the  *)
(* search that has it and all of it, and the factory gives up only when no *)
(* plugin it may try has entries there: the paths added and resolved by    *)
(* EventSourceFactory and the fallbacks of the plugins agree.              *)
THEOREM NamedFilesAreRead == Spec => []ReadsWhatWasNamed
<1>1. Init => ReadsWhatWasNamed
  BY DEF Init, ReadsWhatWasNamed
<1>2. QED BY <1>1, ReadingNext, InputInvIsInvariant, PTL DEF Spec

-----------------------------------------------------------------------------
(* What the event of a GENIE record holds, particle by particle.           *)

(* Which particles of a record are in the final state, before and after    *)
(* the event was found to be broken.                                       *)
LEMMA PhysicalParticles ==
  ASSUME NEW r, G!WrittenByGENIE(r), NEW i \in G!Positions(r)
  PROVE  G!ParticleStatus(r, G!At(r, i)) = "UndecayedPhysical"
           <=> \/ G!At(r, i).status = "StableFinalState"
               \/ G!IsIon(G!At(r, i).pdg) /\ G!At(r, i).status = "IntermediateState"
<1> DEFINE p == G!At(r, i)
           state == G!StatusOfGENIE(r, p)
<1>1. G!IsIon(p.pdg) => p.status \notin {"HadronInTheNucleus", "PreDecayResonantState", "DISPreFragmHadronicState"}
  BY DEF G!WrittenByGENIE
<1>2. G!ParticleStatus(r, p) = G!CorrectedStatus(r, p, state)
  BY DEF G!ParticleStatus
<1> HIDE DEF p
<1>3. state = "UndecayedPhysical" <=> p.status = "StableFinalState"
  BY DEF G!StatusOfGENIE
<1>4. state = "DocumentationLine" /\ G!IsIon(p.pdg) <=> p.status = "IntermediateState" /\ G!IsIon(p.pdg)
  BY <1>1 DEF G!StatusOfGENIE
<1> HIDE DEF state
<1>5. G!ParticleStatus(r, p) = "UndecayedPhysical"
       <=> state = "UndecayedPhysical" \/ (state = "DocumentationLine" /\ G!IsIon(p.pdg))
  BY <1>2 DEF G!CorrectedStatus
<1>6. QED BY <1>3, <1>4, <1>5 DEF p

(* Where a particle of each status is put.                                 *)
Statuses == {"IncomingBeam", "Target", "StruckNucleon", "DocumentationLine",
             "UndecayedPhysical", "none"}

LEMMA StatusType ==
  ASSUME NEW r, NEW p
  PROVE  G!ParticleStatus(r, p) \in Statuses
<1> DEFINE state == G!StatusOfGENIE(r, p)
<1>1. state \in Statuses
  BY DEF G!StatusOfGENIE, Statuses
<1>2. G!ParticleStatus(r, p) = G!CorrectedStatus(r, p, state)
  BY DEF G!ParticleStatus
<1> HIDE DEF state
<1>3. G!CorrectedStatus(r, p, state) \in Statuses
  BY <1>1 DEF G!CorrectedStatus, Statuses
<1>4. QED BY <1>2, <1>3

LEMMA PlaceOfParticle ==
  ASSUME NEW r, NEW p, NEW state \in Statuses, NEW physical
  PROVE  LET place == G!Place(r, p, state, physical)
             elastic == G!IsNuElectronElastic(r)
             primary == G!IsPrimaryParticle(r, p)
             ion == G!IsIon(p.pdg) IN
         /\ state = "none" => place = G!Nowhere
         /\ state = "IncomingBeam" /\ primary => place = G!Into("primary", state)
         /\ state = "Target" /\ primary =>
              place = IF elastic /\ p.pdg = G!Electron THEN G!Into("primary", state)
                      ELSE G!Into("nucleonSeparation", state)
         /\ state = "UndecayedPhysical" /\ primary =>
              place = IF elastic /\ ion THEN G!Nowhere ELSE G!OutOf("primary", physical)
         /\ state = "StruckNucleon" /\ primary => place = G!OutOf("nucleonSeparation", state)
         /\ state = "DocumentationLine" /\ primary =>
              place = [out |-> "primary", in |-> "fsi", status |-> state]
         /\ state # "none" /\ ~primary /\ ion => place = G!OutOf("nucleonSeparation", state)
         /\ state = "UndecayedPhysical" /\ ~primary /\ ~ion =>
              place = G!OutOf(IF elastic THEN "primary" ELSE "fsi", physical)
         /\ state \notin {"none", "UndecayedPhysical"} /\ ~primary /\ ~ion => place = G!Nowhere
<1>1. state # "none" /\ G!IsPrimaryParticle(r, p) =>
        G!Place(r, p, state, physical) = G!PlacePrimary(r, p, state, physical)
  BY DEF G!Place
<1>2. state # "none" /\ ~G!IsPrimaryParticle(r, p) =>
        G!Place(r, p, state, physical) = G!PlaceOther(r, p, state, physical)
  BY DEF G!Place
<1>3. state = "none" => G!Place(r, p, state, physical) = G!Nowhere
  BY DEF G!Place
<1>4. /\ state = "IncomingBeam" => G!PlacePrimary(r, p, state, physical) = G!Into("primary", state)
      /\ state = "Target" => G!PlacePrimary(r, p, state, physical)
              = IF G!IsNuElectronElastic(r) /\ p.pdg = G!Electron THEN G!Into("primary", state)
                ELSE G!Into("nucleonSeparation", state)
      /\ state = "UndecayedPhysical" => G!PlacePrimary(r, p, state, physical)
              = IF G!IsNuElectronElastic(r) /\ G!IsIon(p.pdg) THEN G!Nowhere
                ELSE G!OutOf("primary", physical)
      /\ state = "StruckNucleon" =>
           G!PlacePrimary(r, p, state, physical) = G!OutOf("nucleonSeparation", state)
      /\ state = "DocumentationLine" => G!PlacePrimary(r, p, state, physical)
              = [out |-> "primary", in |-> "fsi", status |-> state]
  BY DEF G!PlacePrimary
<1>5. /\ G!IsIon(p.pdg) => G!PlaceOther(r, p, state, physical) = G!OutOf("nucleonSeparation", state)
      /\ ~G!IsIon(p.pdg) /\ state = "UndecayedPhysical" =>
           G!PlaceOther(r, p, state, physical)
              = G!OutOf(IF G!IsNuElectronElastic(r) THEN "primary" ELSE "fsi", physical)
      /\ ~G!IsIon(p.pdg) /\ state # "UndecayedPhysical" =>
           G!PlaceOther(r, p, state, physical) = G!Nowhere
  BY DEF G!PlaceOther
<1>6. QED BY <1>1, <1>2, <1>3, <1>4, <1>5 DEF Statuses

(* The members of an event by their status.                                *)
LEMMA MembersOf ==
  ASSUME NEW r, NEW i \in G!Positions(r)
  PROVE  LET physical == G!PhysicalStatus(r)
             places == G!Places(r, physical)
             state == G!ParticleStatus(r, G!At(r, i))
             elastic == G!IsNuElectronElastic(r)
             primary == G!IsPrimaryParticle(r, G!At(r, i))
             ion == G!IsIon(G!At(r, i).pdg)
             separated == "nucleonSeparation" \in G!Vertices(r, places) IN
         /\ i \in G!WithStatus(r, places, "IncomingBeam") => state = "IncomingBeam"
         /\ i \in G!WithStatus(r, places, "Target") =>
              state = "Target" /\ IF elastic THEN G!At(r, i).pdg = G!Electron ELSE separated
         /\ i \in G!WithStatus(r, places, "UndecayedPhysical") <=>
              /\ state = "UndecayedPhysical"
              /\ IF primary THEN ~(elastic /\ ion) /\ ~G!IsBroken(r)
                 ELSE IF ion THEN separated ELSE ~G!IsBroken(r)
<1> DEFINE physical == G!PhysicalStatus(r)
           places == G!Places(r, physical)
           p == G!At(r, i)
           state == G!ParticleStatus(r, p)
           elastic == G!IsNuElectronElastic(r)
           primary == G!IsPrimaryParticle(r, p)
           ion == G!IsIon(p.pdg)
           vertices == G!Vertices(r, places)
           separated == "nucleonSeparation" \in vertices
           place == places[i]
<1>1. \A status : i \in G!WithStatus(r, places, status)
                    <=> place.status = status /\ {place.in, place.out} \cap vertices # {}
  BY DEF G!WithStatus
<1>2. /\ "primary" \in vertices /\ "none" \notin vertices
      /\ ~elastic => "fsi" \in vertices
      /\ elastic => ~separated /\ "fsi" \notin vertices
  BY DEF G!Vertices
<1>3. physical = IF G!IsBroken(r) THEN "DocumentationLine" ELSE "UndecayedPhysical"
  BY DEF G!PhysicalStatus
<1>4. place = G!Place(r, p, state, physical)
  BY DEF G!Places
<1>5. state \in Statuses
  BY StatusType
<1> HIDE DEF places, vertices, physical, p, state, elastic, primary, ion, place, separated
<1>6. /\ state = "none" => place = G!Nowhere
      /\ state = "IncomingBeam" /\ primary => place = G!Into("primary", state)
      /\ state = "Target" /\ primary =>
           place = IF elastic /\ p.pdg = G!Electron THEN G!Into("primary", state)
                   ELSE G!Into("nucleonSeparation", state)
      /\ state = "UndecayedPhysical" /\ primary =>
           place = IF elastic /\ ion THEN G!Nowhere ELSE G!OutOf("primary", physical)
      /\ state = "StruckNucleon" /\ primary => place = G!OutOf("nucleonSeparation", state)
      /\ state = "DocumentationLine" /\ primary =>
           place = [out |-> "primary", in |-> "fsi", status |-> state]
      /\ state # "none" /\ ~primary /\ ion => place = G!OutOf("nucleonSeparation", state)
      /\ state = "UndecayedPhysical" /\ ~primary /\ ~ion =>
           place = G!OutOf(IF elastic THEN "primary" ELSE "fsi", physical)
      /\ state \notin {"none", "UndecayedPhysical"} /\ ~primary /\ ~ion => place = G!Nowhere
  BY <1>4, <1>5, PlaceOfParticle DEF elastic, primary, ion
<1>7. /\ G!Nowhere.status = "none"
      /\ \A v, s : G!Into(v, s).status = s /\ G!Into(v, s).in = v /\ G!Into(v, s).out = "none"
      /\ \A v, s : G!OutOf(v, s).status = s /\ G!OutOf(v, s).out = v /\ G!OutOf(v, s).in = "none"
  BY DEF G!Nowhere, G!Into, G!OutOf
<1>8. i \in G!WithStatus(r, places, "IncomingBeam") => state = "IncomingBeam"
  BY <1>1, <1>3, <1>5, <1>6, <1>7 DEF Statuses
<1>9. i \in G!WithStatus(r, places, "Target") =>
        state = "Target" /\ IF elastic THEN p.pdg = G!Electron ELSE separated
  <2> SUFFICES ASSUME i \in G!WithStatus(r, places, "Target")
               PROVE  state = "Target" /\ IF elastic THEN p.pdg = G!Electron ELSE separated
    OBVIOUS
  <2>1. place.status = "Target" /\ {place.in, place.out} \cap vertices # {}
    BY <1>1
  <2>2. state = "Target"
    BY <1>3, <1>5, <1>6, <1>7, <2>1 DEF Statuses
  <2>3. \/ place = G!Into("primary", state) /\ elastic /\ p.pdg = G!Electron
        \/ place = G!Into("nucleonSeparation", state)
        \/ place = G!OutOf("nucleonSeparation", state)
        \/ place = G!Nowhere
    BY <1>6, <2>2
  <2>4. (p.pdg = G!Electron /\ elastic) \/ separated
    BY <1>2, <1>7, <2>1, <2>2, <2>3 DEF separated
  <2>5. QED BY <1>2, <2>2, <2>4
<1>10. i \in G!WithStatus(r, places, "UndecayedPhysical") <=>
         /\ state = "UndecayedPhysical"
         /\ IF primary THEN ~(elastic /\ ion) /\ ~G!IsBroken(r)
            ELSE IF ion THEN separated ELSE ~G!IsBroken(r)
  <2>1. CASE state # "UndecayedPhysical"
    BY <1>1, <1>5, <1>6, <1>7, <2>1 DEF Statuses
  <2>2. CASE state = "UndecayedPhysical" /\ primary
    BY <1>1, <1>2, <1>3, <1>6, <1>7, <2>2
  <2>3. CASE state = "UndecayedPhysical" /\ ~primary
    BY <1>1, <1>2, <1>3, <1>6, <1>7, <2>3 DEF separated
  <2>4. QED BY <2>1, <2>2, <2>3
<1>11. QED BY <1>8, <1>9, <1>10 DEF places, vertices, physical, p, state, elastic, primary, ion, separated

(* The particles in the initial state of a record.                         *)
LEMMA InitialParticles ==
  ASSUME NEW r, NEW i \in G!Positions(r)
  PROVE  LET p == G!At(r, i)
             elastic == G!IsNuElectronElastic(r) IN
         /\ G!ParticleStatus(r, p) = "IncomingBeam" =>
              /\ p.status = "InitialState" /\ ~(elastic /\ p.pdg = G!Electron)
              /\ ~G!IsIon(p.pdg) /\ ~(G!IsFree(r) /\ p.pdg = G!TargetPDG(r))
         /\ G!ParticleStatus(r, p) = "Target" => p.status = "InitialState"
<1> DEFINE p == G!At(r, i)
           state == G!StatusOfGENIE(r, p)
<1>1. G!ParticleStatus(r, p) = G!CorrectedStatus(r, p, state)
  BY DEF G!ParticleStatus
<1> HIDE DEF p
<1>2. state \in {"IncomingBeam", "Target"} => p.status = "InitialState"
  BY DEF G!StatusOfGENIE
<1>3. state = "IncomingBeam" => ~(G!IsNuElectronElastic(r) /\ p.pdg = G!Electron)
  BY <1>2 DEF G!StatusOfGENIE
<1> HIDE DEF state
<1>4. /\ G!CorrectedStatus(r, p, state) = "IncomingBeam" =>
           /\ state = "IncomingBeam" /\ ~G!IsIon(p.pdg)
           /\ ~(G!IsFree(r) /\ p.pdg = G!TargetPDG(r))
      /\ G!CorrectedStatus(r, p, state) = "Target" => state \in {"IncomingBeam", "Target"}
  BY DEF G!CorrectedStatus
<1>5. QED BY <1>1, <1>2, <1>3, <1>4 DEF p

(* The beam is at position 0, and there is one target.                     *)
LEMMA BeamAndTarget ==
  ASSUME NEW r, G!WrittenByGENIE(r), ~G!Unparsable(r)
  PROVE  /\ Cardinality(G!EventOfGHep(r).beam) = 1
         /\ Cardinality(G!EventOfGHep(r).target) = 1
<1> DEFINE places == G!Places(r, G!PhysicalStatus(r))
           beam == G!WithStatus(r, places, "IncomingBeam")
           target == G!WithStatus(r, places, "Target")
           elastic == G!IsNuElectronElastic(r)
<1>1. G!EventOfGHep(r).beam = beam /\ G!EventOfGHep(r).target = target
  BY DEF G!EventOfGHep, G!EventOfPlaces
<1>2. beam # {} /\ target # {} /\ G!StartsThere(r)
  BY <1>1 DEF G!Unparsable, G!Incomplete, G!HasTarget
<1>3. beam \subseteq G!Positions(r) /\ target \subseteq G!Positions(r)
  BY DEF G!WithStatus
<1>4. \A i \in beam : G!ParticleStatus(r, G!At(r, i)) = "IncomingBeam"
  BY <1>3, MembersOf
<1>5. \A i \in target : /\ G!ParticleStatus(r, G!At(r, i)) = "Target"
                        /\ elastic => G!At(r, i).pdg = G!Electron
  BY <1>3, MembersOf
<1>6. \A i \in G!Positions(r) : G!At(r, i).status = "InitialState" =>
        i \in {0, 1} \/ (elastic /\ G!At(r, i).pdg = G!Electron)
  BY DEF G!WrittenByGENIE, G!Initial
<1>7. \A i, j \in G!Positions(r) :
        (/\ G!At(r, i).status = "InitialState" /\ G!At(r, j).status = "InitialState"
         /\ G!At(r, i).pdg = G!Electron /\ G!At(r, j).pdg = G!Electron) => i = j
  <2> SUFFICES ASSUME NEW i \in G!Positions(r), NEW j \in G!Positions(r),
                      G!At(r, i).status = "InitialState", G!At(r, j).status = "InitialState",
                      G!At(r, i).pdg = G!Electron, G!At(r, j).pdg = G!Electron
               PROVE  i = j
    OBVIOUS
  <2>1. i \in G!Initial(r) /\ j \in G!Initial(r)
    BY DEF G!Initial
  <2>2. QED BY <2>1 DEF G!WrittenByGENIE
<1> HIDE DEF places, beam, target, elastic
<1>8. \A i \in beam : i = 0
  <2> SUFFICES ASSUME NEW i \in beam PROVE i = 0
    OBVIOUS
  <2>1. /\ G!At(r, i).status = "InitialState" /\ ~(elastic /\ G!At(r, i).pdg = G!Electron)
        /\ ~G!IsIon(G!At(r, i).pdg) /\ ~(G!IsFree(r) /\ G!At(r, i).pdg = G!TargetPDG(r))
    BY <1>3, <1>4, InitialParticles DEF elastic
  <2>2. i # 1
    BY <1>2, <2>1 DEF G!IsFree, G!TargetPDG
  <2>3. QED BY <1>3, <1>6, <2>1, <2>2
<1>9. beam = {0}
  BY <1>2, <1>8
<1>10. 0 \notin target
  <2>1. G!ParticleStatus(r, G!At(r, 0)) = "IncomingBeam"
    BY <1>4, <1>9
  <2>2. QED BY <1>5, <2>1
<1>11. \A i, j \in target : i = j
  <2> SUFFICES ASSUME NEW i \in target, NEW j \in target PROVE i = j
    OBVIOUS
  <2>1. G!At(r, i).status = "InitialState" /\ G!At(r, j).status = "InitialState"
    BY <1>3, <1>5, InitialParticles
  <2>2. CASE elastic
    BY <1>3, <1>5, <1>7, <2>1, <2>2
  <2>3. CASE ~elastic
    BY <1>3, <1>6, <1>10, <2>1, <2>3
  <2>4. QED BY <2>2, <2>3
<1>12. PICK t \in target : target = {t}
  BY <1>2, <1>11
<1>13. Cardinality({0}) = 1 /\ Cardinality({t}) = 1
  BY FS_Singleton
<1>14. QED BY <1>1, <1>9, <1>12, <1>13

(* The final state of the event is that of the record.                     *)
LEMMA FinalStateKept ==
  ASSUME NEW r, G!WrittenByGENIE(r), ~G!Unparsable(r)
  PROVE  G!EventOfGHep(r).final = FinalStateOfGHep(r)
<1> DEFINE places == G!Places(r, G!PhysicalStatus(r))
           final == G!WithStatus(r, places, "UndecayedPhysical")
           target == G!WithStatus(r, places, "Target")
           elastic == G!IsNuElectronElastic(r)
           separated == "nucleonSeparation" \in G!Vertices(r, places)
           undecayed(i) == G!ParticleStatus(r, G!At(r, i)) = "UndecayedPhysical"
           primary(i) == G!IsPrimaryParticle(r, G!At(r, i))
           ion(i) == G!IsIon(G!At(r, i).pdg)
           stable(i) == G!At(r, i).status = "StableFinalState"
           inside(i) == G!At(r, i).status = "IntermediateState"
           late(i) == G!At(r, i).mother >= 2
<1>1. G!EventOfGHep(r).final = final /\ G!EventOfGHep(r).target = target
  BY DEF G!EventOfGHep, G!EventOfPlaces
<1>2. target # {}
  BY <1>1 DEF G!Unparsable, G!Incomplete
<1>3. ~elastic => separated
  <2>1. target \subseteq G!Positions(r)
    BY DEF G!WithStatus
  <2>2. PICK i \in G!Positions(r) : i \in target
    BY <1>2, <2>1
  <2>3. QED BY <2>2, MembersOf
<1>4. elastic => ~separated
  BY DEF G!Vertices
<1>5. \A i \in G!Positions(r) : i \in final <=>
        /\ undecayed(i)
        /\ IF primary(i) THEN ~(elastic /\ ion(i)) /\ ~G!IsBroken(r)
           ELSE IF ion(i) THEN separated ELSE ~G!IsBroken(r)
  BY MembersOf
<1>6. \A i \in G!Positions(r) : undecayed(i) <=> stable(i) \/ (ion(i) /\ inside(i))
  BY PhysicalParticles
<1>7. G!IsBroken(r) <=> \E i \in G!Positions(r) : undecayed(i) /\ ~G!At(r, i).finite
  BY DEF G!IsBroken
<1>8. \A i \in G!Positions(r) : ion(i) =>
        /\ stable(i) => (~primary(i) <=> late(i))
        /\ inside(i) => ~primary(i)
  <2> SUFFICES ASSUME NEW i \in G!Positions(r), ion(i)
               PROVE  /\ stable(i) => (~primary(i) <=> late(i))
                      /\ inside(i) => ~primary(i)
    OBVIOUS
  <2>1. /\ G!At(r, i).mother \in Int
        /\ stable(i) /\ G!TargetPDG(r) \in {G!Hydrogen, 2212} => G!At(r, i).mother < 2
    BY DEF G!WrittenByGENIE
  <2>2. QED BY <2>1 DEF G!IsPrimaryParticle
<1>9. final \subseteq G!Positions(r)
  BY DEF G!WithStatus
<1>10. FinalStateOfGHep(r) =
         LET physical == {i \in G!Positions(r) : stable(i)}
             remnants == {i \in G!Positions(r) :
                            ion(i) /\ (inside(i) \/ stable(i)) /\ (late(i) \/ inside(i))}
             broken == \E i \in physical \cup remnants : ~G!At(r, i).finite IN
         IF elastic THEN {i \in physical : ~broken /\ ~ion(i)}
         ELSE IF broken THEN remnants ELSE physical \cup remnants
  BY DEF FinalStateOfGHep, G!IsNuElectronElastic
<1> DEFINE physical == {i \in G!Positions(r) : stable(i)}
           remnants == {i \in G!Positions(r) :
                          ion(i) /\ (inside(i) \/ stable(i)) /\ (late(i) \/ inside(i))}
           broken == \E i \in physical \cup remnants : ~G!At(r, i).finite
<1> HIDE DEF places, final, elastic, separated, undecayed, primary, ion, stable, inside, late
<1>11. broken <=> G!IsBroken(r)
  BY <1>6, <1>7
<1> HIDE DEF broken
<1>12. final = IF elastic THEN {i \in physical : ~broken /\ ~ion(i)}
               ELSE IF broken THEN remnants ELSE physical \cup remnants
  <2>1. CASE elastic
    <3>1. \A i \in G!Positions(r) : i \in final <=> undecayed(i) /\ ~ion(i) /\ ~broken
      BY <1>4, <1>5, <1>11, <2>1
    <3>2. \A i \in G!Positions(r) : i \in final <=> i \in physical /\ ~ion(i) /\ ~broken
      BY <1>6, <3>1
    <3>3. QED BY <1>9, <2>1, <3>2
  <2>2. CASE ~elastic /\ broken
    <3>1. \A i \in G!Positions(r) : i \in final <=> undecayed(i) /\ ion(i) /\ ~primary(i)
      BY <1>3, <1>5, <1>11, <2>2
    <3>2. \A i \in G!Positions(r) : i \in final <=> i \in remnants
      BY <1>6, <1>8, <3>1
    <3>3. QED BY <1>9, <2>2, <3>2
  <2>3. CASE ~elastic /\ ~broken
    <3>1. \A i \in G!Positions(r) : i \in final <=> undecayed(i)
      BY <1>3, <1>5, <1>11, <2>3
    <3>2. \A i \in G!Positions(r) : i \in final <=> i \in physical \cup remnants
      BY <1>6, <3>1
    <3>3. QED BY <1>9, <2>3, <3>2
  <2>4. QED BY <2>1, <2>2, <2>3
<1>13. QED BY <1>1, <1>10, <1>12 DEF broken

(* A process that GENIE has is one that is declared.                       *)
LEMMA ProcessDeclared ==
  ASSUME NEW r
  PROVE  G!EventOfGHep(r).process \in G!DeclaredModes \cup {0}
<1>1. \A code : G!ModeOfNEUT(code) \in G!DeclaredModes \cup {0}
  BY DEF G!ModeOfNEUT, G!DeclaredModes
<1>2. \A scattering : G!ElectronMode(scattering) \in G!DeclaredModes \cup {0}
  BY DEF G!ElectronMode, G!DeclaredModes
<1>3. {300, 101, 350, 151, 700, 701} \subseteq G!DeclaredModes
  BY DEF G!DeclaredModes
<1>4. G!ReactionCode(r) \in G!DeclaredModes \cup {0}
  BY <1>1, <1>2, <1>3 DEF G!ReactionCode
<1>5. QED BY <1>4 DEF G!EventOfGHep, G!EventOfPlaces

(* An event that could be converted has one beam, one target and the final *)
(* state of its record.                                                    *)
LEMMA GHepEventIsWhole ==
  ASSUME NEW r, G!WrittenByGENIE(r), ~G!Unparsable(r)
  PROVE  /\ G!EventOfGHep(r).process \in G!DeclaredModes \cup {0}
         /\ Cardinality(G!EventOfGHep(r).beam) = 1
         /\ Cardinality(G!EventOfGHep(r).target) = 1
         /\ G!EventOfGHep(r).final = FinalStateOfGHep(r)
BY BeamAndTarget, FinalStateKept, ProcessDeclared

(* The beam, the target and the struck nucleon of an entry of a flat tree. *)
LEMMA FlatEventIsWhole ==
  ASSUME NEW e, F!WrittenByNUISANCE(e), F!EventOfEntry(e).weight # 0
  PROVE  LET event == F!EventOfEntry(e) IN
         /\ Cardinality(event.beam) = 1 /\ Cardinality(event.target) = 1
         /\ event.final # {}
         /\ event.struck \cap (event.target \cup event.beam) = {}
<1> DEFINE event == F!EventOfEntry(e)
           beam == F!BeamAt(e)
           targets == F!TargetsAt(e)
           target == F!TargetOf(e)
<1>1. /\ event.beam = beam /\ event.target = target
      /\ event.struck = F!StruckOf(e) /\ event.final = 1 .. e.nfs
      /\ event.weight = IF F!Incomplete(e) THEN 0 ELSE e.weight
  BY DEF F!EventOfEntry
<1>2. beam # {} /\ target # {} /\ e.nfs # 0
  BY <1>1 DEF F!Incomplete
<1>3. \A i, j \in beam : i = j
  BY DEF F!BeamAt, F!WrittenByNUISANCE
<1>4. DOMAIN e.init \subseteq Int
  <2> DEFINE T == {e.init[i] : i \in DOMAIN e.init}
  <2>1. e.init \in Seq(T)
    BY DEF F!WrittenByNUISANCE
  <2> HIDE DEF T
  <2>2. QED BY <2>1
<1>5. targets \subseteq Int
  BY <1>4 DEF F!TargetsAt
<1>6. \A i, j \in target : i = j
  <2>1. CASE target = {0}
    BY <2>1
  <2>2. CASE target = F!LastOf(targets)
    BY <1>5, <2>2 DEF F!LastOf
  <2>3. QED BY <2>1, <2>2 DEF F!TargetOf
<1>7. e.nfs \in Nat
  BY DEF F!WrittenByNUISANCE
<1>8. 1 \in 1 .. e.nfs
  BY <1>2, <1>7
<1>9. F!StruckOf(e) \cap (target \cup beam) = {}
  BY DEF F!StruckOf, F!StruckAt, F!TargetOf, F!LastOf
<1> HIDE DEF event, beam, targets, target
<1>10. PICK b \in beam : beam = {b}
  BY <1>2, <1>3
<1>11. PICK t \in target : target = {t}
  BY <1>2, <1>6
<1>12. Cardinality({b}) = 1 /\ Cardinality({t}) = 1
  BY FS_Singleton
<1>13. QED BY <1>1, <1>8, <1>9, <1>10, <1>11, <1>12 DEF event

(* Entries are as the programs that wrote them write them.                 *)
Written(plugin, e) ==
  /\ plugin = "GHEP3" => G!WrittenByGENIE(Entry(e))
  /\ plugin = "NUISANCE2FlatTree" => F!WrittenByNUISANCE(Entry(e))

(* A plugin opens files that have its tree only. *)
LEMMA FilesHaveTree ==
  ASSUME SessionInv, NEW plugin, NEW loc \in ToSet(FilesOf(plugin))
  PROVE  HasTTree(loc, TreeOf[plugin])
<1>1. PICK session \in Sessions :
        /\ world = session.world /\ request = session.request
        /\ paths \in Seq(DirsOf(session))
  BY DEF SessionInv
<1> DEFINE names == request.filepaths
           withTree(locs) == OnlyIn(locs, {l \in ToSet(locs) : HasTTree(l, TreeOf[plugin])})
           located == [i \in DOMAIN names |-> Located(names[i])]
           asWritten == [i \in DOMAIN names |-> AsWritten(names[i])]
           one == withTree(<<Located(request.filepath)>>)
<1>2. FilesOf(plugin) = IF request.filepath = NoName THEN withTree(located)
                        ELSE IF one = <<>> /\ plugin \in {"neutvect", "NuWroevent1"}
                        THEN withTree(asWritten) ELSE one
  BY DEF FilesOf
<1>3. ASSUME NEW T, NEW locs \in Seq(T), NEW l \in ToSet(withTree(locs))
      PROVE  HasTTree(l, TreeOf[plugin])
  <2>1. ToSet(withTree(locs)) = {x \in ToSet(locs) : HasTTree(x, TreeOf[plugin])}
    BY OnlyInElements
  <2> HIDE DEF withTree
  <2>2. QED BY <1>3, <2>1
<1> HIDE DEF withTree
<1>4. names \in Seq(ToSet(names))
  BY <1>1, SessionsAssumption DEF IsSequence
<1>5. Len(names) \in Nat /\ DOMAIN names = 1 .. Len(names)
  BY <1>4
<1>6. located \in Seq(ToSet(located)) /\ asWritten \in Seq(ToSet(asWritten))
  <2> HIDE DEF names
  <2>1. located \in [1 .. Len(names) -> ToSet(located)]
    BY <1>5 DEF ToSet
  <2>2. asWritten \in [1 .. Len(names) -> ToSet(asWritten)]
    BY <1>5 DEF ToSet
  <2> DEFINE L == ToSet(located)
             W == ToSet(asWritten)
  <2> HIDE DEF L, W, located, asWritten
  <2>3. located \in Seq(L) /\ asWritten \in Seq(W)
    BY <1>5, <2>1, <2>2 DEF L, W
  <2>4. QED BY <2>3 DEF L, W
<1> DEFINE loc0 == Located(request.filepath)
<1> HIDE DEF loc0
<1>7. <<loc0>> \in Seq({loc0})
  BY OneElement
<1>8. one = withTree(<<loc0>>)
  BY DEF loc0
<1> HIDE DEF one, located, asWritten
<1>9. QED BY <1>2, <1>3, <1>6, <1>7, <1>8

LEMMA ChainIsWritten ==
  ASSUME SessionInv, NEW plugin \in Plugins, NEW k \in 0 .. Len(ChainOf(plugin)) - 1
  PROVE  Written(plugin, ChainOf(plugin)[k + 1])
<1>1. PICK session \in Sessions : /\ world = session.world
                                  /\ FilesOf(plugin) \in Seq(Places(session))
  BY FilesAre
<1> DEFINE e == ChainOf(plugin)[k + 1]
<1>2. e \in ToSet(ChainOf(plugin))
  <2>1. k + 1 \in DOMAIN ChainOf(plugin)
    BY ChainIsSequence
  <2>2. QED BY <2>1 DEF ToSet
<1>3. PICK loc \in ToSet(FilesOf(plugin)) : \E i \in DOMAIN world[loc].entries : e = <<loc, i>>
  BY <1>2, ChainHolds
<1>4. PICK i \in DOMAIN world[loc].entries : e = <<loc, i>>
  BY <1>3
<1>5. loc \in Places(session)
  BY <1>1, ToSetType
<1>6. HasTTree(loc, TreeOf[plugin])
  BY FilesHaveTree
<1>7. Entry(e) = world[loc].entries[i]
  BY <1>4 DEF Entry
<1>8. /\ TreeOf["GHEP3"] = "gtree" /\ TreeOf["NUISANCE2FlatTree"] = "FlatTree_VARS"
  BY DEF TreeOf
<1>9. /\ world[loc].tree = "gtree" => G!WrittenByGENIE(world[loc].entries[i])
      /\ world[loc].tree = "FlatTree_VARS" => F!WrittenByNUISANCE(world[loc].entries[i])
  BY <1>1, <1>5, RecordsAssumption
<1>10. QED BY <1>6, <1>7, <1>8, <1>9 DEF Written, HasTTree

(* What is known of a source and of the events held from it.               *)
WholeInv ==
  made = "source" =>
    /\ \A k \in 0 .. Len(source.chain) - 1 : Written(source.plugin, source.chain[k + 1])
    /\ runInfo = Conventions(listName)
    /\ \A ev \in held :
         /\ ev.entry \in 0 .. Len(source.chain) - 1
         /\ ~Fails(source.plugin, source.chain[ev.entry + 1])
         /\ ev.content = Converted(source.plugin, source.chain[ev.entry + 1])
         /\ ev.crossSection = listName

LEMMA WholeOfInv ==
  ASSUME InputInv, WholeInv
  PROVE  ConvertedIsWhole
<1> DEFINE plugin == source.plugin
           entry(ev) == Entry(source.chain[ev.entry + 1])
<1>1. ASSUME made = "source", plugin = "GHEP3", NEW ev \in held
      PROVE  /\ ev.content.process \in G!DeclaredModes \cup {0}
             /\ Cardinality(ev.content.beam) = 1 /\ Cardinality(ev.content.target) = 1
             /\ ev.content.final = FinalStateOfGHep(entry(ev))
             /\ ev.crossSection = ("E.C.2" \in runInfo)
  <2>1. /\ G!WrittenByGENIE(entry(ev)) /\ ~G!Unparsable(entry(ev))
        /\ ev.content = G!EventOfGHep(entry(ev))
        /\ ev.crossSection = listName
    BY <1>1 DEF WholeInv, Written, Fails, Converted
  <2>2. listName \in BOOLEAN
    BY DEF InputInv, SourceInv
  <2>3. listName <=> "E.C.2" \in runInfo
    BY <1>1 DEF WholeInv, Conventions
  <2>4. ev.crossSection = ("E.C.2" \in runInfo)
    BY <2>1, <2>2, <2>3
  <2> HIDE DEF entry
  <2>5. QED BY <2>1, <2>4, GHepEventIsWhole
<1>2. ASSUME made = "source", plugin = "NUISANCE2FlatTree", NEW ev \in held,
             ev.content.weight # 0
      PROVE  /\ Cardinality(ev.content.beam) = 1 /\ Cardinality(ev.content.target) = 1
             /\ ev.content.final # {}
             /\ ev.content.struck \cap (ev.content.target \cup ev.content.beam) = {}
  <2>1. F!WrittenByNUISANCE(entry(ev)) /\ ev.content = F!EventOfEntry(entry(ev))
    BY <1>2 DEF WholeInv, Written, Converted
  <2> HIDE DEF entry
  <2>2. QED BY <1>2, <2>1, FlatEventIsWhole
<1>3. QED BY <1>1, <1>2 DEF ConvertedIsWhole

LEMMA WholeStays ==
  ASSUME WholeInv, world' = world, UNCHANGED <<made, source, listName, runInfo>>,
         held' = held
  PROVE  WholeInv'
<1>1. \A plugin, e : /\ (Fails(plugin, e) <=> Fails(plugin, e)')
                     /\ Converted(plugin, e) = Converted(plugin, e)'
                     /\ (Written(plugin, e) <=> Written(plugin, e)')
  BY ConversionStays DEF Written, Entry
<1>2. QED BY <1>1 DEF WholeInv

LEMMA WholeGrows ==
  ASSUME WholeInv, made = "source", world' = world, UNCHANGED <<made, source, listName>>,
         runInfo' = Conventions(listName),
         NEW k \in 0 .. Len(source.chain) - 1, ~Fails(source.plugin, source.chain[k + 1]),
         NEW number, NEW named, named = listName,
         held' = held \cup {EventAt(source.plugin, source.chain, k, number, named)}
  PROVE  WholeInv'
<1> DEFINE new == EventAt(source.plugin, source.chain, k, number, named)
<1>1. \A plugin, e : /\ (Fails(plugin, e) <=> Fails(plugin, e)')
                     /\ Converted(plugin, e) = Converted(plugin, e)'
                     /\ (Written(plugin, e) <=> Written(plugin, e)')
  BY ConversionStays DEF Written, Entry
<1>2. /\ new.entry = k /\ new.crossSection = listName
      /\ new.content = Converted(source.plugin, source.chain[k + 1])
  BY DEF EventAt
<1>3. held' = held \cup {new}
  OBVIOUS
<1> HIDE DEF new
<1>4. \A ev \in held' :
        /\ ev.entry \in 0 .. Len(source.chain) - 1
        /\ ~Fails(source.plugin, source.chain[ev.entry + 1])
        /\ ev.content = Converted(source.plugin, source.chain[ev.entry + 1])
        /\ ev.crossSection = listName
  BY <1>2, <1>3 DEF WholeInv
<1>5. QED BY <1>1, <1>4 DEF WholeInv, Conventions

LEMMA MakeIsWhole ==
  ASSUME InputInv, Make
  PROVE  WholeInv'
<1> DEFINE S == {p \in Plugins : Tried(p) /\ FirstOutcome(p) # "null"}
           order == OnlyIn(Order, S)
           plugin == Head(order)
<1>1. /\ made = "no" /\ UNCHANGED <<setup, held>>
      /\ \/ made' \in {"null", "throws", "crashes", "HepMC3"}
         \/ order # <<>> /\ Makes(plugin, ChainOf(plugin))
  <2>1. order # <<>> => plugin \in S
    <3>1. order \in Seq(Plugins) /\ ToSet(order) \subseteq S
      BY OrderIsOfPlugins, OnlyInType, OnlyInElements
    <3> HIDE DEF S, order
    <3>2. order # <<>> => 1 \in DOMAIN order /\ plugin = order[1]
      BY <3>1
    <3>3. QED BY <3>1, <3>2 DEF ToSet
  <2>2. SessionInv
    BY DEF InputInv
  <2>3. order # <<>> => FirstOutcome(plugin) \in {"null", "throws", "crashes", "event"}
                        /\ FirstOutcome(plugin) # "null"
    BY <2>1, <2>2, FirstPluginIsGood
  <2>4. /\ made = "no" /\ UNCHANGED <<setup, paths, reply, held>>
        /\ \/ NoneMade("null")
           \/ /\ order # <<>>
              /\ IF FirstOutcome(plugin) = "event" THEN Makes(plugin, ChainOf(plugin))
                 ELSE NoneMade(FirstOutcome(plugin))
           \/ NoneMade(IF HepMC3Reads THEN "HepMC3" ELSE "null")
    BY DEF Make
  <2> HIDE DEF S, order, plugin
  <2>5. QED BY <2>3, <2>4 DEF NoneMade
<1>2. CASE made' # "source"
  BY <1>2 DEF WholeInv
<1>3. CASE made' = "source"
  <2>1. order # <<>> /\ Makes(plugin, ChainOf(plugin))
    BY <1>1, <1>3
  <2>2. plugin \in Plugins
    <3>1. order \in Seq(Plugins)
      BY OrderIsOfPlugins, OnlyInType
    <3> HIDE DEF order
    <3>2. QED BY <2>1, <3>1
  <2> DEFINE chain == ChainOf(plugin)
  <2>3. /\ source'.plugin = plugin /\ source'.chain = chain
        /\ runInfo' = Conventions(listName')
    BY <2>1 DEF Makes, AtFirst
  <2>4. held' = {} /\ world' = world /\ SessionInv
    BY <1>1 DEF InputInv, SourceInv, setup
  <2>5. \A k \in 0 .. Len(chain) - 1 : Written(plugin, chain[k + 1])
    BY <2>2, <2>4, ChainIsWritten
  <2>6. \A p, e : Written(p, e) <=> Written(p, e)'
    BY <2>4 DEF Written, Entry
  <2> HIDE DEF plugin, chain
  <2>7. QED BY <2>3, <2>4, <2>5, <2>6 DEF WholeInv, Conventions
<1>4. QED BY <1>2, <1>3

LEMMA WholeNext ==
  ASSUME InputInv, WholeInv, [Next]_vars
  PROVE  WholeInv'
<1> DEFINE plugin == source.plugin
           chain == source.chain
           n == Len(chain)
<1>1. made = "source" => GoodSource(plugin, chain)
  BY DEF InputInv, SourceInv
<1>2. CASE AddEventPath
  BY <1>2, WholeStays DEF AddEventPath, setup
<1>3. CASE Make
  BY <1>3, MakeIsWhole
<1>4. CASE First
  <2>1. /\ made = "source" /\ UNCHANGED <<setup, made, source, listName>>
        /\ runInfo' = Conventions(listName)
        /\ pass' = <<EventAt(plugin, chain, 0, 0, listName)>> /\ held' = held \cup {pass'[1]}
    BY <1>4 DEF First, AtFirst, Delivered
  <2>2. held' = held \cup {EventAt(plugin, chain, 0, 0, listName)}
    BY <2>1
  <2>3. 0 \in 0 .. n - 1 /\ ~Fails(plugin, chain[0 + 1])
    BY <1>1, <2>1 DEF GoodSource
  <2>4. QED BY <2>1, <2>2, <2>3, WholeGrows DEF setup
<1>5. ASSUME made = "source", UNCHANGED <<setup, made, source, listName, runInfo>>,
             NEW k \in Nat, NEW number, NextEntry(k, number)
      PROVE  WholeInv'
  <2>1. CASE held' = held
    BY <1>5, <2>1, WholeStays DEF setup
  <2>2. CASE held' # held
    <3>1. /\ ~(k >= n) /\ ~Fails(plugin, chain[k + 1])
          /\ held' = held \cup {EventAt(plugin, chain, k, number, listName)}
      BY <1>5, <2>2 DEF NextEntry, Delivered
    <3>2. n \in Nat
      BY <1>1, <1>5 DEF GoodSource
    <3>3. k \in 0 .. n - 1
      BY <3>1, <3>2
    <3>4. runInfo' = Conventions(listName)
      BY <1>5 DEF WholeInv
    <3>5. QED BY <1>5, <3>1, <3>3, <3>4, WholeGrows DEF setup
  <2>3. QED BY <2>1, <2>2
<1>6. made = "source" => loaded \in Nat /\ ient \in Nat
  <2>1. MaxPast \in Nat
    BY BoundsAssumption
  <2>2. made = "source" => n \in Nat
    BY <1>1 DEF GoodSource
  <2>3. QED BY <2>1, <2>2 DEF InputInv, CursorInv
<1>7. CASE NextOfChain
  <2>1. ient' \in Nat
    BY <1>6, <1>7 DEF NextOfChain
  <2>2. QED BY <1>5, <1>7, <2>1 DEF NextOfChain
<1>8. CASE NextOfReader
  <2>1. loaded' \in Nat
    BY <1>6, <1>8 DEF NextOfReader
  <2>2. QED BY <1>5, <1>8, <2>1 DEF NextOfReader
<1>9. CASE AskRecord
  BY <1>9, WholeStays DEF AskRecord, setup
<1>10. CASE UNCHANGED vars
  BY <1>10, WholeStays DEF vars, setup
<1>11. QED BY <1>2, <1>3, <1>4, <1>7, <1>8, <1>9, <1>10 DEF Next

(* Every event that is delivered with a weight is whole: the conversions   *)
(* of GHEP3EventSource and of the flat trees lose no particle of a record  *)
(* as GENIE or NUISANCE2 writes it between the vertices, find one beam and *)
(* one target, and the run information announces the cross sections that   *)
(* the events have.                                                        *)
THEOREM ConvertedEventsAreWhole == Spec => []ConvertedIsWhole
<1>1. Init => WholeInv
  BY DEF Init, WholeInv
<1>2. InputInv /\ WholeInv /\ [Next]_vars => WholeInv'
  BY WholeNext
<1>3. InputInv /\ WholeInv => ConvertedIsWhole
  BY WholeOfInv
<1>4. QED BY <1>1, <1>2, <1>3, InputInvIsInvariant, PTL DEF Spec
=============================================================================
