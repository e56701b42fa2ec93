----------------------- MODULE NormalizedSourceProofs -----------------------
(***************************************************************************)
(* Proofs about NormalizedSource, for every set of wrappers around the     *)
(* reader and every file: each accumulator counts what its own wrapper was *)
(* given, the users of a reader split its events, and a source that was    *)
(* handed out does not crash while its file stays.                         *)
(***************************************************************************)
EXTENDS NormalizedSource, SequenceTheorems, DataLemmas, TLAPS

(* The reader: the file has an event, and the history of reads is as long  *)
(* as the position of the reader says.                                     *)
ReaderInv ==
  /\ nEvents \in 1 .. MaxEvents
  /\ pos \in 1 .. nEvents + 1
  /\ since \in Seq(Users \X (1 .. MaxEvents))
  /\ EachEventReadOnce

(* The wrappers: none that was handed out is without its accumulator.      *)
WrapperInv ==
  /\ acc \in [Wrappers -> Nat \cup {NoAcc}]
  /\ got \in [Wrappers -> Seq(1 .. MaxEvents)]
  /\ made \subseteq Wrappers
  /\ \A w \in made : acc[w] # NoAcc
  /\ AccumulatorCountsGiven

(* The flags: a crash needs a file that was away.                          *)
FlagInv ==
  /\ bad \subseteq 1 .. nEvents
  /\ hasXS \in BOOLEAN /\ present \in BOOLEAN /\ removed \in BOOLEAN /\ alive \in BOOLEAN
  /\ ~present => removed
  /\ GoodSourceSurvives

SourceInv == ReaderInv /\ WrapperInv /\ FlagInv

-----------------------------------------------------------------------------
(* What process() does with an event and an accumulator.                   *)
LEMMA ProcessCases ==
  ASSUME NEW a \in Nat \cup {NoAcc}, NEW ev \in Nat
  PROVE  /\ Process(a, ev).result \in {"nothing", "threw", "crash", "event"}
         /\ Process(a, ev).result = "event" => a # NoAcc /\ Process(a, ev).acc = a + 1
         /\ Process(a, ev).result # "event" => Process(a, ev).acc = a
         /\ Process(a, ev).result = "crash" => a = NoAcc
         /\ Process(a, ev).result = "event" => ev # NoEvent
  BY DEF Process, NoAcc, NoEvent

(* first() either starts a new accumulator, of the events it then gives,   *)
(* or leaves the old one alone; it crashes only without an event.          *)
LEMMA FirstCases ==
  ASSUME ReaderInv, WrapperInv, NEW w \in Wrappers
  PROVE  LET r == FirstResult(w) IN
         /\ r.result \in {"nothing", "threw", "crash", "event"}
         /\ r.result = "event" => NewAccumulator(w) /\ r.acc = 1 /\ FirstEvent \in 1 .. nEvents
         /\ r.result # "event" /\ NewAccumulator(w) => r.acc = 0
         /\ r.result # "event" /\ ~NewAccumulator(w) => r.acc = acc[w]
         /\ r.result = "crash" => ~present
<1>1. FirstEvent \in 0 .. nEvents /\ (present => FirstEvent = 1)
  BY DEF ReaderInv, FirstEvent, EventAt, NoEvent
<1> USE <1>1
<1>2. CASE w \in External
  BY <1>2 DEF FirstResult, NewAccumulator, Process, NoAcc, NoEvent, ReaderInv
<1>3. CASE w \notin External
  BY <1>3 DEF FirstResult, NewAccumulator, Process, NoAcc, NoEvent, ReaderInv
<1>4. QED BY <1>2, <1>3

(* Give() keeps the accumulators in step with what was given.              *)
LEMMA GiveKeepsCount ==
  ASSUME WrapperInv, NEW w \in Wrappers, NEW res, NEW ev \in Nat, NEW before \in Seq(1 .. MaxEvents),
         Give(w, res, ev, before),
         res.result = "event" => res.acc = Len(before) + 1 /\ ev \in 1 .. MaxEvents,
         res.result # "event" => res.acc = NoAcc \/ res.acc = Len(before),
         res.acc \in Nat \cup {NoAcc},
         acc[w] # NoAcc => res.acc # NoAcc
  PROVE  /\ acc' \in [Wrappers -> Nat \cup {NoAcc}]
         /\ got' \in [Wrappers -> Seq(1 .. MaxEvents)]
         /\ \A v \in Wrappers : acc[v] # NoAcc => acc'[v] # NoAcc
         /\ AccumulatorCountsGiven'
         /\ acc'[w] = res.acc
<1> DEFINE after == IF res.result = "event" THEN Append(before, ev) ELSE before
<1>1. after \in Seq(1 .. MaxEvents) /\ (res.acc # NoAcc => res.acc = Len(after))
  <2>1. CASE res.result = "event"
    <3>1. after = Append(before, ev) /\ ev \in 1 .. MaxEvents
      BY <2>1
    <3>2. Append(before, ev) \in Seq(1 .. MaxEvents) /\ Len(Append(before, ev)) = Len(before) + 1
      BY <3>1
    <3>3. QED BY <2>1, <3>1, <3>2
  <2>2. CASE res.result # "event"
    BY <2>2
  <2>3. QED BY <2>1, <2>2
<1>2. acc' = [acc EXCEPT ![w] = res.acc] /\ got' = [got EXCEPT ![w] = after]
  BY DEF Give
<1> HIDE DEF after
<1>3. QED BY <1>1, <1>2 DEF WrapperInv, AccumulatorCountsGiven

-----------------------------------------------------------------------------
LEMMA InitSourceInv == Init => SourceInv
<1> SUFFICES ASSUME Init PROVE SourceInv
  OBVIOUS
<1> USE DEF Init
<1>1. ReaderInv
  <2>1. since \in Seq(Users \X (1 .. MaxEvents))
    BY BoundsAssumption DEF Users
  <2>2. QED BY <2>1, BoundsAssumption DEF ReaderInv, EachEventReadOnce
<1>2. WrapperInv
  BY DEF WrapperInv, AccumulatorCountsGiven
<1>3. FlagInv
  BY DEF FlagInv, GoodSourceSurvives
<1>4. QED BY <1>1, <1>2, <1>3 DEF SourceInv

(* The reader goes on, or is reopened, and the history with it.            *)
LEMMA ReadKeepsReader ==
  ASSUME ReaderInv, NEW u \in Users, UNCHANGED fileVars,
         pos' = PosAfterNext, since' = Read(u, EventAt(PosAfterNext))
  PROVE  ReaderInv'
<1>1. CASE pos + 1 \in 1 .. nEvents
  <2>1. pos' = pos + 1 /\ since' = Append(since, <<u, pos + 1>>)
    BY <1>1 DEF ReaderInv, PosAfterNext, Read, EventAt, NoEvent
  <2>2. <<u, pos + 1>> \in Users \X (1 .. MaxEvents)
    BY <1>1, BoundsAssumption DEF ReaderInv
  <2>3. since \in Seq(Users \X (1 .. MaxEvents)) /\ Len(since) = pos
    BY <1>1 DEF ReaderInv, EachEventReadOnce
  <2> DEFINE Reads == Users \X (1 .. MaxEvents)
             newest == <<u, pos + 1>>
  <2> HIDE DEF Reads, newest
  <2>4. /\ since \in Seq(Reads) /\ newest \in Reads
        /\ since' = Append(since, newest) /\ Len(since) = pos
    BY <2>1, <2>2, <2>3 DEF Reads, newest
  <2>5. since' \in Seq(Reads) /\ Len(since') = pos + 1
    BY <2>4, AppendProperties
  <2>6. /\ \A i \in 1 .. Len(since) : since'[i] = since[i]
        /\ since'[pos + 1] = newest
    BY <2>4, AppendProperties
  <2>7. ASSUME NEW i \in 1 .. Len(since')
        PROVE  since'[i][2] = i
    <3>1. CASE i \in 1 .. Len(since)
      <4>1. since'[i] = since[i]
        BY <3>1, <2>6
      <4>2. since[i][2] = i
        BY <3>1 DEF ReaderInv, EachEventReadOnce
      <4>3. QED BY <4>1, <4>2
    <3>2. CASE i = pos + 1
      <4>1. newest[2] = pos + 1
        BY DEF newest
      <4>2. QED BY <3>2, <4>1, <2>6
    <3>3. i \in 1 .. Len(since) \/ i = pos + 1
      BY <2>4, <2>5 DEF ReaderInv
    <3>4. QED BY <3>1, <3>2, <3>3
  <2>8. QED
    <3> USE DEF ReaderInv, EachEventReadOnce, fileVars
    <3>1. nEvents' \in 1 .. MaxEvents /\ pos' \in 1 .. nEvents' + 1 /\ ~(pos' > nEvents')
      BY <1>1, <2>1
    <3>2. QED BY <3>1, <2>1, <2>5, <2>7 DEF Reads
<1>2. CASE pos + 1 \notin 1 .. nEvents
  BY <1>2 DEF ReaderInv, PosAfterNext, Read, EventAt, NoEvent, EachEventReadOnce, fileVars
<1>3. QED BY <1>1, <1>2

LEMMA RestartKeepsReader ==
  ASSUME ReaderInv, NEW u \in Users, UNCHANGED fileVars,
         pos' = PosAfterFirst, since' = Restarted(u, FirstEvent)
  PROVE  ReaderInv'
<1>1. CASE present
  <2>1. since' = << <<u, 1>> >> /\ pos' = 1
    BY <1>1 DEF ReaderInv, PosAfterFirst, Restarted, FirstEvent, EventAt, NoEvent
  <2>2. <<u, 1>> \in Users \X (1 .. MaxEvents)
    BY BoundsAssumption DEF ReaderInv
  <2>3. since' \in Seq(Users \X (1 .. MaxEvents))
    BY <2>1, <2>2
  <2>4. QED BY <2>1, <2>3 DEF ReaderInv, EachEventReadOnce, fileVars
<1>2. CASE ~present
  BY <1>2 DEF ReaderInv, PosAfterFirst, Restarted, EachEventReadOnce, fileVars
<1>3. QED BY <1>1, <1>2

(* first() of a wrapper, whether it is being made or restarted.            *)
LEMMA FirstKeeps ==
  ASSUME SourceInv, NEW w \in Wrappers, First(w), UNCHANGED <<fileVars, present, removed>>,
         made' \subseteq made \cup {w}, w \in made' \ made => FirstResult(w).result = "event"
  PROVE  SourceInv'
<1> USE DEF SourceInv
<1>1. ReaderInv'
  BY RestartKeepsReader DEF First, Users
<1> DEFINE before == IF NewAccumulator(w) THEN <<>> ELSE got[w]
           res == FirstResult(w)
<1>2. before \in Seq(1 .. MaxEvents) /\ FirstEvent \in Nat
  <2>1. got[w] \in Seq(1 .. MaxEvents) /\ <<>> \in Seq(1 .. MaxEvents)
    BY DEF WrapperInv
  <2>2. FirstEvent \in Nat
    BY DEF ReaderInv, FirstEvent, EventAt, NoEvent
  <2>3. QED BY <2>1, <2>2
<1>3. /\ res.acc \in Nat \cup {NoAcc}
      /\ res.result = "event" => res.acc = Len(before) + 1 /\ FirstEvent \in 1 .. MaxEvents
      /\ res.result # "event" => res.acc = NoAcc \/ res.acc = Len(before)
      /\ acc[w] # NoAcc => res.acc # NoAcc
  <2> HIDE DEF res
  <2>1. /\ res.result \in {"nothing", "threw", "crash", "event"}
        /\ res.result = "event" => NewAccumulator(w) /\ res.acc = 1 /\ FirstEvent \in 1 .. nEvents
        /\ res.result # "event" /\ NewAccumulator(w) => res.acc = 0
        /\ res.result # "event" /\ ~NewAccumulator(w) => res.acc = acc[w]
    BY FirstCases DEF res
  <2>2. acc[w] \in Nat \cup {NoAcc} /\ (acc[w] # NoAcc => acc[w] = Len(got[w]))
    BY DEF WrapperInv, AccumulatorCountsGiven
  <2>3. CASE NewAccumulator(w)
    <3>1. before = <<>> /\ Len(before) = 0
      BY <2>3
    <3> HIDE DEF before
    <3>2. QED BY <2>1, <2>3, <3>1, BoundsAssumption DEF ReaderInv, NoAcc
  <2>4. CASE ~NewAccumulator(w)
    <3>1. before = got[w]
      BY <2>4
    <3> HIDE DEF before
    <3>2. QED BY <2>1, <2>2, <2>4, <3>1, BoundsAssumption DEF ReaderInv, NoAcc
  <2>5. QED BY <2>3, <2>4
<1>4. Give(w, res, FirstEvent, before)
  BY DEF First
<1> HIDE DEF before
<1>5. /\ acc' \in [Wrappers -> Nat \cup {NoAcc}] /\ got' \in [Wrappers -> Seq(1 .. MaxEvents)]
      /\ \A v \in Wrappers : acc[v] # NoAcc => acc'[v] # NoAcc
      /\ AccumulatorCountsGiven' /\ acc'[w] = res.acc
  <2> HIDE DEF res
  <2>1. QED BY <1>2, <1>3, <1>4, GiveKeepsCount
<1>6. w \in made' \ made => acc'[w] # NoAcc
  BY <1>5, FirstCases DEF NoAcc
<1>7. WrapperInv'
  BY <1>5, <1>6 DEF WrapperInv
<1>8. alive' = (res.result # "crash")
  BY <1>4 DEF Give
<1>9. res.result = "crash" => ~present
  BY FirstCases
<1>10. FlagInv'
  BY <1>8, <1>9 DEF FlagInv, GoodSourceSurvives, fileVars
<1>11. QED BY <1>1, <1>7, <1>10

(* next() of a wrapper.                                                    *)
LEMMA AdvanceKeeps ==
  ASSUME SourceInv, NEW w \in Wrappers, Advance(w)
  PROVE  SourceInv'
<1> USE DEF SourceInv
<1> DEFINE ev == EventAt(PosAfterNext)
           res == Process(acc[w], ev)
<1>1. ReaderInv'
  BY ReadKeepsReader DEF Advance, Users
<1>2. ev \in 0 .. nEvents /\ got[w] \in Seq(1 .. MaxEvents) /\ acc[w] \in Nat \cup {NoAcc}
  BY DEF ReaderInv, EventAt, NoEvent, WrapperInv
<1>3. Give(w, res, ev, got[w])
  BY DEF Advance
<1>4. /\ res.acc \in Nat \cup {NoAcc}
      /\ res.result = "event" => res.acc = Len(got[w]) + 1 /\ ev \in 1 .. MaxEvents
      /\ res.result # "event" => res.acc = NoAcc \/ res.acc = Len(got[w])
      /\ acc[w] # NoAcc => res.acc # NoAcc
  <2>1. ev \in Nat
    BY <1>2 DEF ReaderInv
  <2> HIDE DEF ev, res
  <2>2. /\ res.result \in {"nothing", "threw", "crash", "event"}
        /\ res.result = "event" => acc[w] # NoAcc /\ res.acc = acc[w] + 1 /\ ev # NoEvent
        /\ res.result # "event" => res.acc = acc[w]
    BY <1>2, <2>1, ProcessCases DEF res
  <2>3. acc[w] # NoAcc => acc[w] = Len(got[w])
    BY DEF WrapperInv, AccumulatorCountsGiven
  <2>4. CASE res.result = "event"
    <3>1. acc[w] \in Nat /\ res.acc = acc[w] + 1 /\ acc[w] = Len(got[w])
      BY <1>2, <2>2, <2>3, <2>4
    <3>2. ev \in 1 .. MaxEvents
      BY <1>2, <2>1, <2>2, <2>4, BoundsAssumption DEF ReaderInv, NoEvent
    <3>3. res.acc \in Nat /\ res.acc # NoAcc
      BY <3>1 DEF NoAcc
    <3>4. QED BY <2>4, <3>1, <3>2, <3>3
  <2>5. CASE res.result # "event"
    BY <1>2, <2>2, <2>3, <2>5
  <2>6. QED BY <2>4, <2>5
<1>5. res.result # "crash"
  BY <1>2, ProcessCases DEF Advance, WrapperInv
<1>6. /\ acc' \in [Wrappers -> Nat \cup {NoAcc}] /\ got' \in [Wrappers -> Seq(1 .. MaxEvents)]
      /\ \A v \in Wrappers : acc[v] # NoAcc => acc'[v] # NoAcc
      /\ AccumulatorCountsGiven'
  <2>1. ev \in Nat
    BY <1>2 DEF ReaderInv
  <2> HIDE DEF res, ev
  <2>2. QED BY <2>1, <1>2, <1>3, <1>4, GiveKeepsCount
<1>7. WrapperInv'
  BY <1>6 DEF WrapperInv, Advance
<1>8. FlagInv'
  BY <1>3, <1>5 DEF FlagInv, GoodSourceSurvives, Give, Advance, fileVars
<1>9. QED BY <1>1, <1>7, <1>8

LEMMA NextKeepsSourceInv == SourceInv /\ [Next]_vars => SourceInv'
<1> SUFFICES ASSUME SourceInv, [Next]_vars PROVE SourceInv'
  OBVIOUS
<1>1. ASSUME NEW w \in Wrappers, Make(w) PROVE SourceInv'
  <2>1. made' \subseteq made \cup {w} /\ (w \in made' \ made => FirstResult(w).result = "event")
    BY <1>1 DEF Make, HandOut
  <2>2. QED BY <1>1, <2>1, FirstKeeps DEF Make
<1>2. ASSUME NEW w \in Wrappers, Restart(w) PROVE SourceInv'
  BY <1>2, FirstKeeps DEF Restart
<1>3. ASSUME NEW w \in Wrappers, Advance(w) PROVE SourceInv'
  BY <1>3, AdvanceKeeps
<1>4. CASE RawFirst
  <2>1. ReaderInv'
    BY <1>4, RestartKeepsReader DEF RawFirst, SourceInv, Users, fileVars
  <2>2. QED BY <1>4, <2>1 DEF RawFirst, SourceInv, WrapperInv, AccumulatorCountsGiven, FlagInv,
                            GoodSourceSurvives, fileVars
<1>5. CASE RawNext
  <2>1. ReaderInv'
    BY <1>5, ReadKeepsReader DEF RawNext, SourceInv, Users, fileVars
  <2>2. QED BY <1>5, <2>1 DEF RawNext, SourceInv, WrapperInv, AccumulatorCountsGiven, FlagInv,
                            GoodSourceSurvives, fileVars
<1>6. CASE FileComesAndGoes
  BY <1>6 DEF FileComesAndGoes, SourceInv, ReaderInv, EachEventReadOnce, WrapperInv,
              AccumulatorCountsGiven, FlagInv, GoodSourceSurvives, fileVars
<1>7. CASE UNCHANGED vars
  BY <1>7 DEF vars, SourceInv, ReaderInv, EachEventReadOnce, WrapperInv,
              AccumulatorCountsGiven, FlagInv, GoodSourceSurvives, fileVars
<1>8. QED BY <1>1, <1>2, <1>3, <1>4, <1>5, <1>6, <1>7 DEF Next

-----------------------------------------------------------------------------
(* What a wrapper read and process() let pass, and the events of it.       *)
Mine(w) == OnlyIn(since, {w} \X ((1 .. nEvents) \ bad))

EventsIn(seq) == [i \in 1 .. Len(seq) |-> seq[i][2]]

Reads == Users \X (1 .. MaxEvents)

(* While the file stays, the last events a wrapper was given are those.  A *)
(* wrapper without a cross section of its own was handed out for a file    *)
(* that has one.                                                           *)
GivenInv ==
  ~removed => \A w \in made : /\ w \in External \/ hasXS
                            /\ IsSuffix(EventsIn(Mine(w)), got[w])

LEMMA SuffixElements ==
  ASSUME NEW s, NEW t, Len(s) \in Nat, Len(t) \in Nat
  PROVE  IsSuffix(s, t) <=>
           /\ Len(s) <= Len(t)
           /\ \A i \in 1 .. Len(s) : s[i] = t[Len(t) - Len(s) + i]
<1> DEFINE m == Len(s)
           n == Len(t)
           rs == Reverse(s)
           rt == Reverse(t)
<1>1. /\ rs \in Seq({s[i] : i \in 1 .. m}) /\ Len(rs) = m
      /\ \A i \in 1 .. m : rs[i] = s[m - i + 1]
  BY DEF Reverse
<1>2. /\ rt \in Seq({t[i] : i \in 1 .. n}) /\ Len(rt) = n
      /\ \A i \in 1 .. n : rt[i] = t[n - i + 1]
  BY DEF Reverse
<1>3. IsSuffix(s, t) <=> m <= n /\ SubSeq(rs, 1, m) = SubSeq(rt, 1, m)
  BY <1>1, <1>2 DEF IsSuffix, IsPrefix
<1> HIDE DEF m, n, rs, rt
<1>4. ASSUME m <= n
      PROVE  SubSeq(rs, 1, m) = SubSeq(rt, 1, m)
               <=> \A i \in 1 .. m : rs[i] = rt[i]
  <2> DEFINE A == {s[i] : i \in 1 .. m} \cup {t[i] : i \in 1 .. n}
             fs == SubSeq(rs, 1, m)
             ft == SubSeq(rt, 1, m)
  <2>1. m \in Nat /\ n \in Nat /\ rs \in Seq(A) /\ rt \in Seq(A)
    BY <1>1, <1>2 DEF m, n
  <2> HIDE DEF A
  <2>2. fs \in Seq(A) /\ Len(fs) = m /\ \A i \in 1 .. m : fs[i] = rs[i]
    BY <1>1, <2>1, FrontOf
  <2>3. ft \in Seq(A) /\ Len(ft) = m /\ \A i \in 1 .. m : ft[i] = rt[i]
    BY <1>2, <1>4, <2>1, FrontOf
  <2> HIDE DEF fs, ft
  <2>4. (\A i \in 1 .. m : rs[i] = rt[i]) => fs = ft
    BY <2>2, <2>3, SeqEqual
  <2>5. fs = ft => \A i \in 1 .. m : rs[i] = rt[i]
    BY <2>2, <2>3
  <2>6. QED BY <2>4, <2>5 DEF fs, ft
<1>5. ASSUME m <= n
      PROVE  (\A i \in 1 .. m : rs[i] = rt[i])
               <=> \A i \in 1 .. m : s[i] = t[n - m + i]
  <2>0. m \in Nat /\ n \in Nat
    BY DEF m, n
  <2>1. ASSUME \A i \in 1 .. m : rs[i] = rt[i], NEW i \in 1 .. m
        PROVE  s[i] = t[n - m + i]
    <3> DEFINE j == m - i + 1
    <3>1. j \in 1 .. m /\ j \in 1 .. n /\ m - j + 1 = i /\ n - j + 1 = n - m + i
      BY <1>5, <2>0
    <3> HIDE DEF j
    <3>2. rs[j] = s[m - j + 1] /\ rt[j] = t[n - j + 1] /\ rs[j] = rt[j]
      BY <1>1, <1>2, <2>1, <3>1
    <3>3. QED BY <3>1, <3>2
  <2>2. ASSUME \A i \in 1 .. m : s[i] = t[n - m + i], NEW i \in 1 .. m
        PROVE  rs[i] = rt[i]
    <3> DEFINE j == m - i + 1
    <3>1. j \in 1 .. m /\ n - m + j = n - i + 1 /\ i \in 1 .. n
      BY <1>5, <2>0
    <3>2. s[j] = t[n - m + j]
      BY <2>2, <3>1
    <3>3. QED BY <1>1, <1>2, <3>1, <3>2
  <2>3. QED BY <2>1, <2>2
<1>6. QED BY <1>3, <1>4, <1>5 DEF m, n

(* One more event at the end of both keeps the one a suffix of the other,  *)
(* and nothing is a suffix of everything.                                  *)
LEMMA SuffixExtends ==
  ASSUME NEW s \in Seq(Reads), NEW t \in Seq(1 .. MaxEvents),
         NEW u, NEW ev, <<u, ev>> \in Reads, ev \in 1 .. MaxEvents,
         IsSuffix(EventsIn(s), t)
  PROVE  IsSuffix(EventsIn(Append(s, <<u, ev>>)), Append(t, ev))
<1> DEFINE s1 == Append(s, <<u, ev>>)
           t1 == Append(t, ev)
           m == Len(s)
           n == Len(t)
<1>1. /\ m \in Nat /\ Len(s1) = m + 1 /\ s1[m + 1] = <<u, ev>>
      /\ \A i \in 1 .. m : s1[i] = s[i]
  BY AppendProperties, LenProperties
<1>2. /\ n \in Nat /\ Len(t1) = n + 1 /\ t1[n + 1] = ev
      /\ \A i \in 1 .. n : t1[i] = t[i]
  BY AppendProperties, LenProperties
<1>3. Len(EventsIn(s)) = m /\ \A i \in 1 .. m : EventsIn(s)[i] = s[i][2]
  BY <1>1 DEF EventsIn
<1> HIDE DEF s1, t1, m, n
<1>4. Len(EventsIn(s1)) = m + 1 /\ \A i \in 1 .. m + 1 : EventsIn(s1)[i] = s1[i][2]
  BY <1>1 DEF EventsIn
<1>5. m <= n /\ \A i \in 1 .. m : s[i][2] = t[n - m + i]
  <2>1. Len(t) \in Nat /\ Len(t) = n
    BY <1>2 DEF n
  <2>2. Len(EventsIn(s)) \in Nat
    BY <1>1, <1>3
  <2>3. /\ Len(EventsIn(s)) <= Len(t)
        /\ \A i \in 1 .. Len(EventsIn(s)) :
             EventsIn(s)[i] = t[Len(t) - Len(EventsIn(s)) + i]
    BY <2>1, <2>2, SuffixElements
  <2>4. QED BY <1>3, <2>1, <2>3
<1>6. ASSUME NEW i \in 1 .. m + 1
      PROVE  s1[i][2] = t1[(n + 1) - (m + 1) + i]
  <2>1. CASE i = m + 1
    <3>1. (n + 1) - (m + 1) + i = n + 1
      BY <1>1, <1>2, <2>1
    <3>2. s1[i] = <<u, ev>> /\ t1[n + 1] = ev
      BY <1>1, <1>2, <2>1
    <3>3. s1[i][2] = ev
      BY <3>2
    <3>4. QED BY <3>1, <3>2, <3>3
  <2>2. CASE i \in 1 .. m
    <3>1. (n + 1) - (m + 1) + i = n - m + i /\ n - m + i \in 1 .. n
      BY <1>1, <1>2, <1>5, <2>2
    <3>2. s1[i] = s[i] /\ s[i][2] = t[n - m + i]
      BY <1>1, <1>5, <2>2
    <3>3. t1[n - m + i] = t[n - m + i]
      BY <1>2, <3>1
    <3>4. QED BY <3>1, <3>2, <3>3
  <2>3. QED BY <1>1, <2>1, <2>2
<1>7. IsSuffix(EventsIn(s1), t1)
  <2>1. Len(EventsIn(s1)) \in Nat /\ Len(t1) \in Nat /\ Len(EventsIn(s1)) <= Len(t1)
    BY <1>1, <1>2, <1>4, <1>5
  <2>2. \A i \in 1 .. Len(EventsIn(s1)) :
          EventsIn(s1)[i] = t1[Len(t1) - Len(EventsIn(s1)) + i]
    BY <1>2, <1>4, <1>6
  <2>3. QED BY <2>1, <2>2, SuffixElements
<1>8. QED BY <1>7 DEF s1, t1

LEMMA EmptyIsSuffix ==
  ASSUME NEW t \in Seq(1 .. MaxEvents)
  PROVE  IsSuffix(EventsIn(<<>>), t)
<1>1. Len(EventsIn(<<>>)) = 0 /\ Len(t) \in Nat
  BY LenProperties DEF EventsIn
<1>2. QED BY <1>1, SuffixElements

(* A read is its user's, if the event is good, and nobody else's. *)
LEMMA ReadIsMine ==
  ASSUME SourceInv, UNCHANGED fileVars, NEW u \in Users, NEW ev \in 1 .. nEvents,
         since' = Append(since, <<u, ev>>), NEW w \in Wrappers
  PROVE  Mine(w)' = IF u = w /\ ev \notin bad THEN Append(Mine(w), <<u, ev>>) ELSE Mine(w)
<1> DEFINE S == {w} \X ((1 .. nEvents) \ bad)
           r == <<u, ev>>
<1>1. Mine(w)' = OnlyIn(Append(since, r), S)
  BY DEF Mine, fileVars
<1>2. since \in Seq(Reads) /\ r \in Reads
  BY BoundsAssumption DEF SourceInv, ReaderInv, Reads
<1>3. r \in S <=> u = w /\ ev \notin bad
  OBVIOUS
<1> HIDE DEF r, S
<1>4. OnlyIn(Append(since, r), S)
        = IF r \in S THEN Append(OnlyIn(since, S), r) ELSE OnlyIn(since, S)
  BY <1>2, OnlyInAppend
<1>5. QED BY <1>1, <1>3, <1>4 DEF Mine, r, S

(* After the reader was reopened only its one read is anybody's. *)
LEMMA ReopenedIsMine ==
  ASSUME SourceInv, present, UNCHANGED fileVars, NEW u \in Users,
         since' = Restarted(u, FirstEvent), NEW w \in Wrappers
  PROVE  /\ FirstEvent = 1
         /\ Mine(w)' = IF u = w /\ 1 \notin bad THEN << <<w, 1>> >> ELSE <<>>
<1> DEFINE S == {w} \X ((1 .. nEvents) \ bad)
           r == <<u, 1>>
<1>1. FirstEvent = 1 /\ 1 \in 1 .. nEvents
  BY BoundsAssumption DEF SourceInv, ReaderInv, FirstEvent, EventAt
<1>2. Mine(w)' = OnlyIn(<<r>>, S)
  BY <1>1 DEF Mine, fileVars, Restarted, NoEvent
<1>3. r \in S <=> u = w /\ 1 \notin bad
  BY <1>1
<1> HIDE DEF r, S
<1>4. OnlyIn(<<r>>, S) = IF r \in S THEN <<r>> ELSE <<>>
  BY OnlyInSingle
<1>5. QED BY <1>1, <1>2, <1>3, <1>4 DEF r

(* first() of a wrapper hands the event it read to its user, or throws. *)
LEMMA FirstKeepsGiven ==
  ASSUME SourceInv, GivenInv, NEW w \in Wrappers, First(w), UNCHANGED <<fileVars, removed>>,
         made' \subseteq made \cup {w}, w \in made' \ made => FirstResult(w).result = "event"
  PROVE  GivenInv'
<1> SUFFICES ASSUME ~removed, NEW v \in made'
             PROVE  /\ v \in External \/ hasXS
                    /\ IsSuffix(EventsIn(Mine(v)'), got'[v])
  BY DEF GivenInv, fileVars, EventsIn
<1>1. present /\ v \in Wrappers /\ got \in [Wrappers -> Seq(1 .. MaxEvents)]
  BY DEF SourceInv, FlagInv, WrapperInv
<1>2. FirstEvent = 1 /\ 1 \in 1 .. MaxEvents
  BY <1>1, ReopenedIsMine, BoundsAssumption DEF First, Users
<1>3. Mine(v)' = IF w = v /\ 1 \notin bad THEN << <<v, 1>> >> ELSE <<>>
  BY <1>1, ReopenedIsMine DEF First, Users
<1>4. v \in External \/ hasXS
  <2>1. CASE v \in made
    BY <2>1 DEF GivenInv
  <2>2. CASE v \notin made
    BY <2>2, FirstCases DEF NewAccumulator, SourceInv
  <2>3. QED BY <2>1, <2>2
<1>5. CASE v # w
  <2>1. got'[v] = got[v]
    BY <1>1, <1>5 DEF First, Give
  <2>2. QED BY <1>1, <1>3, <1>4, <1>5, <2>1, EmptyIsSuffix
<1>6. CASE v = w
  <2>1. NewAccumulator(w) /\ FirstResult(w) = Process(0, 1)
    BY <1>2, <1>4, <1>6 DEF NewAccumulator, FirstResult, NoEvent
  <2>2. got'[v] = IF 1 \in bad THEN <<>> ELSE Append(<<>>, 1)
    BY <1>1, <1>2, <1>6, <2>1 DEF First, Give, Process, NoEvent, NoAcc
  <2>3. CASE 1 \in bad
    <3>1. Mine(v)' = <<>> /\ got'[v] = <<>> /\ <<>> \in Seq(1 .. MaxEvents)
      BY <1>3, <2>2, <2>3
    <3>2. QED BY <1>4, <3>1, EmptyIsSuffix
  <2>4. CASE 1 \notin bad
    <3>1. <<v, 1>> \in Reads /\ <<>> \in Seq(Reads) /\ <<>> \in Seq(1 .. MaxEvents)
      BY <1>1, <1>2 DEF Reads, Users
    <3>2. IsSuffix(EventsIn(Append(<<>>, <<v, 1>>)), Append(<<>>, 1))
      BY <1>2, <3>1, EmptyIsSuffix, SuffixExtends
    <3>3. Append(<<>>, <<v, 1>>) = << <<v, 1>> >>
      OBVIOUS
    <3>4. QED BY <1>3, <1>4, <1>6, <2>2, <2>4, <3>2, <3>3
  <2>5. QED BY <2>3, <2>4
<1>7. QED BY <1>5, <1>6

(* next(), of a wrapper or of the source itself, extends its user's reads. *)
LEMMA AdvanceKeepsGiven ==
  ASSUME SourceInv, GivenInv, NEW w \in Wrappers, Advance(w)
  PROVE  GivenInv'
<1> SUFFICES ASSUME ~removed, NEW v \in made
             PROVE  /\ v \in External \/ hasXS
                    /\ IsSuffix(EventsIn(Mine(v)'), got'[v])
  BY DEF GivenInv, Advance, fileVars, EventsIn
<1> DEFINE ev == EventAt(PosAfterNext)
<1>1. /\ v \in Wrappers /\ got \in [Wrappers -> Seq(1 .. MaxEvents)]
      /\ w \in made /\ acc[w] # NoAcc /\ got[v] \in Seq(1 .. MaxEvents)
  BY DEF SourceInv, WrapperInv, Advance
<1>2. (v \in External \/ hasXS) /\ IsSuffix(EventsIn(Mine(v)), got[v])
  BY DEF GivenInv
<1>3. /\ Give(w, Process(acc[w], ev), ev, got[w])
      /\ since' = Read(w, ev)
      /\ UNCHANGED fileVars
  BY DEF Advance
<1>4. ev = NoEvent \/ ev \in 1 .. nEvents
  BY DEF EventAt
<1> HIDE DEF ev
<1>5. CASE ev = NoEvent
  <2>1. Mine(v)' = Mine(v)
    BY <1>3, <1>5 DEF Mine, Read, fileVars
  <2>2. got'[v] = got[v]
    BY <1>1, <1>3, <1>5 DEF Give, Process
  <2>3. QED BY <1>2, <2>1, <2>2
<1>6. CASE ev \in 1 .. nEvents
  <2>1. ev # NoEvent /\ ev \in 1 .. MaxEvents
    BY <1>6, BoundsAssumption DEF NoEvent, SourceInv, ReaderInv
  <2>2. Mine(v)' = IF w = v /\ ev \notin bad THEN Append(Mine(v), <<w, ev>>) ELSE Mine(v)
    BY <1>1, <1>3, <1>6, <2>1, ReadIsMine DEF Read, Users
  <2>3. got'[v] = IF w = v /\ ev \notin bad THEN Append(got[v], ev) ELSE got[v]
    BY <1>1, <1>3, <2>1 DEF Give, Process
  <2>4. CASE w = v /\ ev \notin bad
    <3>1. Mine(v) \in Seq(Reads)
      BY OnlyInType DEF Mine, SourceInv, ReaderInv, Reads
    <3>2. <<w, ev>> \in Reads
      BY <2>1 DEF Reads, Users
    <3>3. IsSuffix(EventsIn(Append(Mine(v), <<w, ev>>)), Append(got[v], ev))
      BY <1>1, <1>2, <2>1, <3>1, <3>2, SuffixExtends
    <3>4. QED BY <1>2, <2>2, <2>3, <2>4, <3>3
  <2>5. CASE ~(w = v /\ ev \notin bad)
    BY <1>2, <2>2, <2>3, <2>5
  <2>6. QED BY <2>4, <2>5
<1>7. QED BY <1>4, <1>5, <1>6

(* The user of the source itself takes events away from the wrappers, but  *)
(* those were never theirs.                                                *)
LEMMA RawKeepsGiven ==
  ASSUME SourceInv, GivenInv, RawFirst \/ RawNext
  PROVE  GivenInv'
<1>0. UNCHANGED <<removed, made, got, hasXS>>
  BY DEF RawFirst, RawNext, fileVars
<1> SUFFICES ASSUME ~removed, NEW v \in made
             PROVE  /\ v \in External \/ hasXS
                    /\ IsSuffix(EventsIn(Mine(v)'), got[v])
  BY <1>0 DEF GivenInv, EventsIn
<1>1. present /\ v \in Wrappers /\ got[v] \in Seq(1 .. MaxEvents)
  BY DEF SourceInv, FlagInv, WrapperInv
<1>2. (v \in External \/ hasXS) /\ IsSuffix(EventsIn(Mine(v)), got[v])
  BY DEF GivenInv
<1>3. Raw \in Users /\ Raw # v
  BY <1>1, WrappersAssumption DEF Users
<1>4. CASE RawFirst
  <2>1. Mine(v)' = <<>>
    BY <1>1, <1>3, <1>4, ReopenedIsMine DEF RawFirst, fileVars
  <2>2. QED BY <1>1, <1>2, <2>1, EmptyIsSuffix
<1>5. CASE RawNext
  <2> DEFINE ev == EventAt(PosAfterNext)
  <2>1. since' = Read(Raw, ev) /\ UNCHANGED fileVars
    BY <1>5 DEF RawNext, fileVars
  <2>2. ev = NoEvent \/ ev \in 1 .. nEvents
    BY DEF EventAt
  <2> HIDE DEF ev
  <2>3. Mine(v)' = Mine(v)
    <3>1. CASE ev = NoEvent
      BY <2>1, <3>1 DEF Mine, Read, fileVars
    <3>2. CASE ev \in 1 .. nEvents
      <4>1. since' = Append(since, <<Raw, ev>>)
        BY <2>1, <3>2, BoundsAssumption DEF Read, NoEvent, SourceInv, ReaderInv
      <4>2. QED BY <1>1, <1>3, <2>1, <3>2, <4>1, ReadIsMine
    <3>3. QED BY <2>2, <3>1, <3>2
  <2>4. QED BY <1>2, <2>3
<1>6. QED BY <1>4, <1>5

LEMMA NextKeepsGiven == SourceInv /\ GivenInv /\ [Next]_vars => GivenInv'
<1> SUFFICES ASSUME SourceInv, GivenInv, [Next]_vars PROVE GivenInv'
  OBVIOUS
<1>1. ASSUME NEW w \in Wrappers, Make(w) PROVE GivenInv'
  <2>1. made' \subseteq made \cup {w} /\ (w \in made' \ made => FirstResult(w).result = "event")
    BY <1>1 DEF Make, HandOut
  <2>2. QED BY <1>1, <2>1, FirstKeepsGiven DEF Make
<1>2. ASSUME NEW w \in Wrappers, Restart(w) PROVE GivenInv'
  BY <1>2, FirstKeepsGiven DEF Restart
<1>3. ASSUME NEW w \in Wrappers, Advance(w) PROVE GivenInv'
  BY <1>3, AdvanceKeepsGiven
<1>4. CASE RawFirst \/ RawNext
  BY <1>4, RawKeepsGiven
<1>5. CASE FileComesAndGoes
  BY <1>5 DEF FileComesAndGoes, GivenInv
<1>6. CASE UNCHANGED vars
  BY <1>6 DEF vars, fileVars, GivenInv, EventsIn, Mine
<1>7. QED BY <1>1, <1>2, <1>3, <1>4, <1>5, <1>6 DEF Next

-----------------------------------------------------------------------------
(* The state of a reader and of its wrappers keeps its types, for every    *)
(* number of wrappers and length of file.                                  *)
THEOREM ReaderTypeCorrect == Spec => []TypeOK
<1>1. SourceInv => TypeOK
  BY DEF SourceInv, ReaderInv, WrapperInv, FlagInv, TypeOK
<1>2. QED BY <1>1, InitSourceInv, NextKeepsSourceInv, PTL DEF Spec

(* norm_info() of a wrapper speaks of exactly the events it was given,     *)
(* whoever else uses its reader and whichever calls threw.                 *)
THEOREM AccumulatorsCountGiven == Spec => []AccumulatorCountsGiven
<1>1. SourceInv => AccumulatorCountsGiven
  BY DEF SourceInv, WrapperInv
<1>2. QED BY <1>1, InitSourceInv, NextKeepsSourceInv, PTL DEF Spec

(* The users of a reader split its events: each is read by one of them.    *)
THEOREM EventsAreReadOnce == Spec => []EachEventReadOnce
<1>1. SourceInv => EachEventReadOnce
  BY DEF SourceInv, ReaderInv
<1>2. QED BY <1>1, InitSourceInv, NextKeepsSourceInv, PTL DEF Spec

(* No null pointer is dereferenced while the file stays where it was.      *)
THEOREM GoodSourcesSurvive == Spec => []GoodSourceSurvives
<1>1. SourceInv => GoodSourceSurvives
  BY DEF SourceInv, FlagInv
<1>2. QED BY <1>1, InitSourceInv, NextKeepsSourceInv, PTL DEF Spec

(* What a wrapper read since the reader was reopened it was given, but for *)
(* the events process() rejected: none is kept back, and none comes from   *)
(* another user's reads.                                                   *)
THEOREM ReadsReachTheirUser == Spec => []ReadsAreGiven
<1>1. Init => GivenInv
  BY DEF Init, GivenInv
<1>2. GivenInv => ReadsAreGiven
  BY DEF GivenInv, ReadsAreGiven, Mine, EventsIn
<1>3. QED BY <1>1, <1>2, InitSourceInv, NextKeepsSourceInv, NextKeepsGiven, PTL DEF Spec
=============================================================================
