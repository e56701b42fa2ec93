------------------------ MODULE EventFrameGenProofs ------------------------
(***************************************************************************)
(* Proofs about EventFrameGen, for every source, chunk and limit, every    *)
(* sequence of calls and every failure: what the source delivered is       *)
(* looped over in order, the limit and the allocated rows are respected,   *)
(* the rows handed out are the kept events but for those of failed frames, *)
(* and the estimate in the last row of a frame covers exactly the events   *)
(* looped over.                                                            *)
(***************************************************************************)
EXTENDS EventFrameGen, SequenceTheorems, FiniteSetTheorems, DataLemmas, TLAPS

(* The iterator holds the event of the last call that did not fail.        *)
HoldsLast ==
  /\ it # NoEvent => it <= calls /\ Delivers(it) /\ \A k \in it + 1 .. calls : Fails(k)
  /\ it = NoEvent => ~Delivers(calls)

(* The order of the events looped over, and that one that is looped over   *)
(* again was held through as many failed calls; d is 1 where the event     *)
(* that the iterator holds may still come another time.                    *)
InOrder(events) ==
  \A i, j \in 1 .. Len(events) : i < j =>
    \/ events[i] < events[j]
    \/ events[i] = events[j] /\ \A k \in 1 .. j - i : Fails(events[i] + k)

UpToHeld(events, d) ==
  \A i \in 1 .. Len(events) :
    /\ events[i] <= calls
    /\ it # NoEvent => events[i] <= it
    /\ it # NoEvent /\ events[i] = it => Len(events) - i + d <= calls - it

(* Once an event has been looped over, and before the iterator moves on.   *)
AllLooped(events) ==
  /\ events \in Seq(1 .. MaxCalls) /\ Len(events) <= MaxCalls
  /\ Len(events) <= IF it # NoEvent THEN calls ELSE calls - 1
  /\ Counted(calls) = ToSet(events)
  /\ it # NoEvent => it \in ToSet(events)
  /\ UpToHeld(events, 0)
  /\ InOrder(events)

StreamInv ==
  /\ pc # "new" => HoldsLast
  /\ ~Fails(1)
  /\ nproc = Len(looped)
  /\ pc = "finish" => AllLooped(looped)
  /\ pc \notin {"new", "finish"} =>
       /\ Len(looped) <= calls - 1
       /\ UpToHeld(looped, 1)
  /\ NothingDropped

(* The loop is entered with room below both limits, and outside a call no  *)
(* frame is half filled.                                                   *)
LimitInv ==
  /\ WithinLimitAndChunk
  /\ Len(chunk) <= want
  /\ pc = "loop" => nproc < limit
  /\ pc \notin {"loop", "finish"} => chunk = <<>>

(* Only the last row of a frame is given another estimate than its own.    *)
OwnEstimates(rows, n) ==
  \A i \in 1 .. n : Counted(rows[i].estimate) = Counted(rows[i].event)

EstimateInv ==
  /\ OwnEstimates(chunk, Len(chunk))
  /\ \A k \in 1 .. Len(given) : OwnEstimates(given[k], Len(given[k]) - 1)
  /\ result = "rows" /\ pc = "idle" =>
       /\ given # <<>>
       /\ Counted(Last(Last(given)).estimate) = ToSet(looped)

GenInv == TypeOK /\ StreamInv /\ LimitInv /\ EstimateInv

-----------------------------------------------------------------------------
(* ++ev_it moves on to the next call of the source, and what norm_info()   *)
(* counts grows by what that call delivers.                                *)
LEMMA AdvanceMovesOn ==
  ASSUME calls \in 1 .. MaxCalls + 1, Advance
  PROVE  /\ calls' \in 1 .. MaxCalls + 1 /\ calls <= calls'
         /\ it' \in 0 .. MaxCalls /\ it' = EventOf(calls')
         /\ calls <= MaxCalls => calls' = calls + 1
         /\ calls > MaxCalls => it' = NoEvent /\ calls' = calls
         /\ it' # NoEvent => it' = calls + 1 /\ calls' = calls + 1
         /\ Counted(calls') = Counted(calls) \cup ({it'} \ {NoEvent})
<1> USE BoundsAssumption DEF Advance, EventOf, Delivers, NoEvent
<1>1. CASE calls <= MaxCalls
  BY <1>1 DEF Counted
<1>2. CASE calls > MaxCalls
  BY <1>2 DEF Counted
<1>3. QED BY <1>1, <1>2

(* A call that throws counts no event.                                     *)
LEMMA FailureMovesOn ==
  ASSUME calls \in 1 .. MaxCalls + 1, AdvanceFails
  PROVE  /\ calls' \in 1 .. MaxCalls + 1 /\ calls' = calls + 1
         /\ it' = it /\ Fails(calls') /\ ~Delivers(calls')
         /\ Counted(calls') = Counted(calls)
<1> USE BoundsAssumption DEF AdvanceFails, LeaveCall, Fails, Delivers
<1>1. calls' = calls + 1 /\ calls + 1 <= MaxCalls /\ it' = it
  OBVIOUS
<1>2. Counted(calls') = Counted(calls)
  BY <1>1 DEF Counted
<1>3. QED BY <1>1, <1>2

(* The event that is held is the last one that norm_info() counts.         *)
LEMMA HeldEvent ==
  ASSUME calls \in 1 .. MaxCalls + 1, HoldsLast, it # NoEvent, it \in 0 .. MaxCalls
  PROVE  /\ it \in 1 .. MaxCalls /\ it <= calls /\ calls <= MaxCalls
         /\ Counted(calls) = Counted(it)
<1> USE BoundsAssumption DEF NoEvent
<1>1. /\ it \in 1 .. MaxCalls /\ it <= calls
      /\ \A k \in it + 1 .. calls : Fails(k)
  BY DEF HoldsLast
<1>2. calls <= MaxCalls
  <2>1. CASE it = calls
    BY <1>1, <2>1
  <2>2. CASE it # calls
    <3>1. calls \in it + 1 .. calls
      BY <1>1, <2>2
    <3>2. QED BY <1>1, <3>1 DEF Fails
  <2>3. QED BY <2>1, <2>2
<1>3. Counted(calls) = Counted(it)
  BY <1>1 DEF Counted, Fails, Delivers
<1>4. QED BY <1>1, <1>2, <1>3

(* The iterator moves on, or throws, once its event has been looped over.  *)
LEMMA MovingOnKeeps ==
  ASSUME calls \in 1 .. MaxCalls + 1, it \in 0 .. MaxCalls, HoldsLast, ~Fails(1),
         NEW events, AllLooped(events), Advance \/ AdvanceFails,
         looped' = events, nproc' = Len(events), kind' = kind, pc' \notin {"new", "finish"}
  PROVE  StreamInv' /\ calls' \in 1 .. MaxCalls + 1 /\ it' \in 0 .. MaxCalls
<1> USE BoundsAssumption DEF NoEvent
<1> DEFINE n == Len(events)
<1>1. /\ n \in Nat /\ n <= MaxCalls /\ events \in Seq(1 .. MaxCalls)
      /\ \A i \in 1 .. n : events[i] \in 1 .. MaxCalls /\ events[i] <= calls
      /\ Counted(calls) = ToSet(events)
      /\ it # NoEvent => it \in ToSet(events)
  BY LenProperties, ElementOfSeq DEF AllLooped, UpToHeld
<1>2. /\ n <= IF it # NoEvent THEN calls ELSE calls - 1
      /\ InOrder(events)
      /\ \A i \in 1 .. n : it # NoEvent =>
            events[i] <= it /\ (events[i] = it => n - i <= calls - it)
  BY <1>1 DEF AllLooped, UpToHeld
<1>3. /\ \A k : Fails(k)' <=> Fails(k)
      /\ \A k : Delivers(k)' <=> Delivers(k)
      /\ \A k : Counted(k)' = Counted(k)
      /\ Counted(calls)' = Counted(calls') /\ Delivers(calls)' = Delivers(calls')
      /\ Delivers(it)' = Delivers(it')
  BY DEF Fails, Delivers, Counted
<1>4. InOrder(looped)'
  BY <1>2, <1>3 DEF InOrder
<1> HIDE DEF n
<1>5. CASE Advance
  <2>1. /\ calls' \in 1 .. MaxCalls + 1 /\ calls <= calls'
        /\ it' \in 0 .. MaxCalls /\ it' = EventOf(calls')
        /\ calls <= MaxCalls => calls' = calls + 1
        /\ it' # NoEvent => it' = calls + 1 /\ calls' = calls + 1
        /\ Counted(calls') = Counted(calls) \cup ({it'} \ {NoEvent})
    BY <1>5, AdvanceMovesOn
  <2>2. HoldsLast'
    <3>1. it' # NoEvent => it' = calls' /\ Delivers(calls')
      BY <2>1 DEF EventOf
    <3>2. it' = NoEvent => ~Delivers(calls')
      BY <2>1 DEF EventOf
    <3>3. QED BY <1>3, <2>1, <3>1, <3>2 DEF HoldsLast
  <2>3. Len(looped') <= calls' - 1
    <3>1. CASE it # NoEvent
      BY <1>1, <1>2, <2>1, <3>1, HeldEvent DEF n
    <3>2. CASE it = NoEvent
      BY <1>1, <1>2, <2>1, <3>2 DEF n
    <3>3. QED BY <3>1, <3>2
  <2>4. UpToHeld(looped, 1)'
    <3>1. \A i \in 1 .. n : events[i] <= calls' /\ (it' # NoEvent => events[i] < it')
      BY <1>1, <2>1
    <3>2. QED BY <1>1, <2>1, <3>1 DEF UpToHeld, n
  <2>5. NothingDropped'
    <3>1. Counted(calls') = ToSet(looped') \cup ({it'} \ {NoEvent})
      BY <1>1, <2>1
    <3>2. QED BY <1>3, <1>4, <3>1 DEF NothingDropped, InOrder
  <2>6. QED BY <1>3, <2>1, <2>2, <2>3, <2>4, <2>5 DEF StreamInv
<1>6. CASE AdvanceFails
  <2>1. /\ calls' \in 1 .. MaxCalls + 1 /\ calls' = calls + 1
        /\ it' = it /\ Fails(calls') /\ ~Delivers(calls')
        /\ Counted(calls') = Counted(calls)
    BY <1>6, FailureMovesOn
  <2>2. HoldsLast'
    <3>1. it # NoEvent => it <= calls' /\ Delivers(it) /\ \A k \in it + 1 .. calls' : Fails(k)
      BY <2>1 DEF HoldsLast
    <3>2. QED BY <1>3, <2>1, <3>1 DEF HoldsLast
  <2>3. Len(looped') <= calls' - 1
    BY <1>1, <1>2, <2>1 DEF n
  <2>4. UpToHeld(looped, 1)'
    <3>1. \A i \in 1 .. n : /\ events[i] <= calls'
                            /\ it # NoEvent => events[i] <= it
                            /\ it # NoEvent /\ events[i] = it => n - i + 1 <= calls' - it
      BY <1>1, <1>2, <2>1
    <3>2. QED BY <2>1, <3>1 DEF UpToHeld, n
  <2>5. NothingDropped'
    <3>1. Counted(calls') = ToSet(looped') \cup ({it'} \ {NoEvent})
      BY <1>1, <2>1
    <3>2. QED BY <1>3, <1>4, <3>1 DEF NothingDropped, InOrder
  <2>6. QED BY <1>3, <2>1, <2>2, <2>3, <2>4, <2>5 DEF StreamInv
<1>7. QED BY <1>5, <1>6

(* ToSet and the elements of a sequence that has grown by one.             *)
LEMMA Grown ==
  ASSUME NEW S, NEW s \in Seq(S), NEW e \in S
  PROVE  /\ Append(s, e) \in Seq(S) /\ Len(Append(s, e)) = Len(s) + 1
         /\ \A i \in 1 .. Len(s) : Append(s, e)[i] = s[i]
         /\ Append(s, e)[Len(s) + 1] = e
         /\ ToSet(Append(s, e)) = ToSet(s) \cup {e}
         /\ Append(s, e) # <<>> /\ Last(Append(s, e)) = e
<1>1. /\ Append(s, e) \in Seq(S) /\ Len(Append(s, e)) = Len(s) + 1
      /\ \A i \in 1 .. Len(s) : Append(s, e)[i] = s[i]
      /\ Append(s, e)[Len(s) + 1] = e
  BY AppendProperties
<1>2. DOMAIN s = 1 .. Len(s) /\ DOMAIN Append(s, e) = 1 .. Len(s) + 1 /\ Len(s) \in Nat
  BY <1>1
<1>3. ToSet(Append(s, e)) = ToSet(s) \cup {e}
  <2>1. 1 .. Len(s) + 1 = (1 .. Len(s)) \cup {Len(s) + 1}
    BY <1>2
  <2>2. QED BY <1>1, <1>2, <2>1 DEF ToSet
<1>4. Append(s, e) # <<>>
  BY <1>1, <1>2, EmptySeq
<1>5. Last(Append(s, e)) = Append(s, e)[Len(Append(s, e))]
  BY DEF Last
<1>6. QED BY <1>1, <1>3, <1>4, <1>5

(* The final estimate changes one field of the last row.                   *)
LEMMA FinalEstimateOfLast ==
  ASSUME NEW rows \in Seq(Row), rows # <<>>, calls \in 1 .. MaxCalls + 1
  PROVE  /\ FinalEstimate(rows) \in Seq(Row) /\ Len(FinalEstimate(rows)) = Len(rows)
         /\ FinalEstimate(rows) # <<>>
         /\ \A i \in 1 .. Len(rows) - 1 : FinalEstimate(rows)[i] = rows[i]
         /\ Last(FinalEstimate(rows)).estimate = calls
<1> DEFINE n == Len(rows)
           row == [rows[n] EXCEPT !.estimate = calls]
<1>1. n \in Nat /\ n \in 1 .. n /\ rows[n] \in Row
  BY EmptySeq, ElementOfSeq
<1>2. row \in Row /\ row.estimate = calls
  BY <1>1 DEF Row
<1>3. FinalEstimate(rows) = [rows EXCEPT ![n] = row]
  BY DEF FinalEstimate
<1> HIDE DEF row
<1>4. /\ [rows EXCEPT ![n] = row] \in Seq(Row) /\ Len([rows EXCEPT ![n] = row]) = n
      /\ \A i \in 1 .. n : [rows EXCEPT ![n] = row][i] = IF i = n THEN row ELSE rows[i]
  BY <1>1, <1>2, ExceptSeq
<1>5. FinalEstimate(rows) # <<>>
  BY <1>1, <1>3, <1>4, EmptySeq
<1>6. Last(FinalEstimate(rows)) = row
  <2>1. Last(FinalEstimate(rows)) = FinalEstimate(rows)[Len(FinalEstimate(rows))]
    BY DEF Last
  <2>2. QED BY <2>1, <1>1, <1>3, <1>4
<1>7. \A i \in 1 .. Len(rows) - 1 : FinalEstimate(rows)[i] = rows[i]
  <2> HIDE DEF n
  <2>1. \A i \in 1 .. n - 1 : i \in 1 .. n /\ i # n
    BY <1>1
  <2>2. QED BY <2>1, <1>3, <1>4 DEF n
<1>8. QED BY <1>2, <1>3, <1>4, <1>5, <1>6, <1>7

-----------------------------------------------------------------------------
LEMMA InitGenInv == Init => GenInv
<1> SUFFICES ASSUME Init PROVE GenInv
  OBVIOUS
<1> USE DEF Init, NoEvent
<1>1. <<>> \in Seq(Row) /\ <<>> \in Seq(Seq(Row)) /\ <<>> \in Seq(1 .. MaxCalls) /\ Len(<<>>) = 0
  BY EmptySeq
<1>2. TypeOK
  <2>1. chunk \in Seq(Row) /\ given \in Seq(Seq(Row)) /\ looped \in Seq(1 .. MaxCalls)
    BY <1>1
  <2>2. calls \in 1 .. MaxCalls + 1 /\ it \in 0 .. MaxCalls /\ nproc \in 0 .. MaxCalls /\ want \in 1 .. MaxChunk
    BY BoundsAssumption
  <2>3. QED BY <2>1, <2>2 DEF TypeOK
<1>3. StreamInv
  BY <1>1 DEF StreamInv, NothingDropped, Fails
<1>4. LimitInv
  BY <1>1, BoundsAssumption DEF LimitInv, WithinLimitAndChunk
<1>5. EstimateInv
  BY <1>1 DEF EstimateInv, OwnEstimates
<1>6. QED BY <1>2, <1>3, <1>4, <1>5 DEF GenInv

(* A call of next() that ends hands out a frame, or nothing.               *)
LEMMA ReturnKeeps ==
  ASSUME NEW rows \in Seq(Row), TypeOK, Return(rows),
         rows # <<>> => OwnEstimates(rows, Len(rows) - 1),
         \A k \in 1 .. Len(given) : OwnEstimates(given[k], Len(given[k]) - 1)
  PROVE  /\ given' \in Seq(Seq(Row)) /\ chunk' = <<>>
         /\ \A k \in 1 .. Len(given') : OwnEstimates(given'[k], Len(given'[k]) - 1)
         /\ pc' \in {"idle", "again"} /\ inAll' \in BOOLEAN
         /\ result' \in {"none", "rows", "empty", "null", "all", "threw", "refused"}
         /\ pc' = "idle" /\ result' = "rows" => given' # <<>> /\ Last(given') = rows /\ rows # <<>>
<1>1. CASE rows = <<>>
  BY <1>1 DEF Return, TypeOK, More
<1>2. CASE rows # <<>>
  <2>1. given' = Append(given, rows) /\ given \in Seq(Seq(Row))
    BY <1>2 DEF Return, TypeOK
  <2>2. /\ given' \in Seq(Seq(Row)) /\ Len(given') = Len(given) + 1
        /\ \A k \in 1 .. Len(given) : given'[k] = given[k]
        /\ given'[Len(given) + 1] = rows
        /\ given' # <<>> /\ Last(given') = rows
    BY <2>1, Grown
  <2>3. Len(given) \in Nat
    BY <2>1, LenProperties
  <2>4. \A k \in 1 .. Len(given') : OwnEstimates(given'[k], Len(given'[k]) - 1)
    <3> SUFFICES ASSUME NEW k \in 1 .. Len(given') PROVE OwnEstimates(given'[k], Len(given'[k]) - 1)
      OBVIOUS
    <3>1. CASE k = Len(given) + 1
      BY <1>2, <2>2, <3>1
    <3>2. CASE k # Len(given) + 1
      <4>1. k \in 1 .. Len(given)
        BY <2>2, <2>3, <3>2
      <4>2. QED BY <4>1, <2>2
    <3>3. QED BY <3>1, <3>2
  <2>5. QED BY <1>2, <2>2, <2>4 DEF Return, TypeOK
<1>3. QED BY <1>1, <1>2

(* The event of the iterator is looped over.                               *)
LEMMA LoopingOver ==
  ASSUME TypeOK, StreamInv, pc = "loop", it # NoEvent
  PROVE  /\ AllLooped(Append(looped, it))
         /\ Len(Append(looped, it)) = nproc + 1
         /\ \A i \in 1 .. Len(looped) : Append(looped, it)[i] = looped[i]
<1> DEFINE n == Len(looped)
           more == Append(looped, it)
<1>1. /\ calls \in 1 .. MaxCalls + 1 /\ MaxCalls \in Nat
      /\ looped \in Seq(1 .. MaxCalls) /\ HoldsLast /\ it \in 0 .. MaxCalls
  BY BoundsAssumption DEF TypeOK, StreamInv
<1>2. it \in 1 .. MaxCalls /\ it <= calls /\ calls <= MaxCalls
  BY <1>1, HeldEvent
<1>3. /\ n \in Nat /\ n = nproc /\ n <= calls - 1
      /\ Counted(calls) = ToSet(looped) \cup ({it} \ {NoEvent})
      /\ InOrder(looped)
      /\ \A i \in 1 .. n : /\ looped[i] \in 1 .. MaxCalls
                           /\ looped[i] <= it
                           /\ looped[i] = it => n - i + 1 <= calls - it
  BY <1>1, LenProperties, ElementOfSeq DEF StreamInv, NothingDropped, InOrder, UpToHeld
<1>4. /\ more \in Seq(1 .. MaxCalls) /\ Len(more) = n + 1
      /\ \A i \in 1 .. n : more[i] = looped[i]
      /\ more[n + 1] = it
      /\ ToSet(more) = ToSet(looped) \cup {it}
  BY <1>1, <1>2, Grown
<1> HIDE DEF n, more
<1>5. \A i \in 1 .. n + 1 : i = n + 1 \/ i \in 1 .. n
  BY <1>3
<1>6. UpToHeld(more, 0)
  <2>1. ASSUME NEW i \in 1 .. n
        PROVE  /\ more[i] <= calls /\ more[i] <= it
               /\ more[i] = it => n + 1 - i + 0 <= calls - it
    <3>1. more[i] = looped[i] /\ looped[i] \in 1 .. MaxCalls /\ looped[i] <= it
      BY <1>3, <1>4
    <3>2. looped[i] = it => n - i + 1 <= calls - it
      BY <1>3
    <3>3. looped[i] <= calls
      BY <1>1, <1>2, <3>1
    <3>4. n + 1 - i + 0 = n - i + 1
      BY <1>3
    <3>5. QED BY <3>1, <3>2, <3>3, <3>4
  <2>2. more[n + 1] = it /\ it <= calls /\ it <= it /\ n + 1 - (n + 1) + 0 <= calls - it
    BY <1>1, <1>2, <1>3, <1>4
  <2>3. ASSUME NEW i \in 1 .. n + 1
        PROVE  /\ more[i] <= calls /\ more[i] <= it
               /\ more[i] = it => n + 1 - i + 0 <= calls - it
    BY <1>5, <2>1, <2>2
  <2>4. Len(more) = n + 1 /\ n \in Nat
    BY <1>3, <1>4
  <2>5. ASSUME NEW i \in 1 .. Len(more)
        PROVE  /\ more[i] <= calls
               /\ it # NoEvent => more[i] <= it
               /\ it # NoEvent /\ more[i] = it => Len(more) - i + 0 <= calls - it
    BY <2>3, <2>4
  <2>6. QED BY <2>5 DEF UpToHeld
<1>7. InOrder(more)
  <2> SUFFICES ASSUME NEW i \in 1 .. n + 1, NEW j \in 1 .. n + 1, i < j, ~(more[i] < more[j])
               PROVE  more[i] = more[j] /\ \A k \in 1 .. j - i : Fails(more[i] + k)
    BY <1>4 DEF InOrder
  <2>1. i \in 1 .. n
    BY <1>3
  <2>2. CASE j \in 1 .. n
    BY <1>3, <1>4, <2>1, <2>2 DEF InOrder, n
  <2>3. CASE j = n + 1
    <3>1. more[i] = it /\ more[j] = it
      BY <1>2, <1>3, <1>4, <2>1, <2>3
    <3>2. j - i <= calls - it
      BY <1>3, <1>4, <2>1, <2>3, <3>1
    <3>3. \A k \in 1 .. j - i : it + k \in it + 1 .. calls
      BY <1>1, <1>2, <1>3, <2>1, <3>2
    <3>4. \A k \in it + 1 .. calls : Fails(k)
      BY <1>1 DEF HoldsLast
    <3>5. QED BY <3>1, <3>3, <3>4
  <2>4. QED BY <1>5, <2>2, <2>3
<1>8. n + 1 <= calls /\ n + 1 <= MaxCalls /\ it \in ToSet(more) /\ Counted(calls) = ToSet(more)
  BY <1>1, <1>2, <1>3, <1>4
<1>9. AllLooped(more)
  BY <1>4, <1>6, <1>7, <1>8 DEF AllLooped
<1>10. QED BY <1>3, <1>4, <1>9 DEF more, n

(* The body of the loop, whatever becomes of the event it looks at.        *)
LEMMA LoopKeepsStream ==
  ASSUME GenInv, pc = "loop", it # NoEvent, LoopedOver, NEW stop \in BOOLEAN, NEW rows,
         GoOn(stop, rows), UNCHANGED kind
  PROVE  /\ StreamInv' /\ looped' \in Seq(1 .. MaxCalls)
         /\ calls' \in 1 .. MaxCalls + 1 /\ it' \in 0 .. MaxCalls
         /\ nproc' = nproc + 1 /\ nproc' \in 0 .. MaxCalls /\ nproc' <= limit
<1> USE DEF GenInv
<1>1. /\ calls \in 1 .. MaxCalls + 1 /\ it \in 0 .. MaxCalls /\ HoldsLast /\ ~Fails(1)
      /\ MaxCalls \in Nat /\ nproc \in Nat /\ limit \in Nat /\ nproc < limit
  BY BoundsAssumption DEF TypeOK, StreamInv, LimitInv
<1>2. looped' = Append(looped, it) /\ nproc' = nproc + 1
  BY DEF LoopedOver
<1>3. AllLooped(looped') /\ Len(looped') = nproc'
  BY <1>2, LoopingOver
<1>4. /\ looped' \in Seq(1 .. MaxCalls) /\ nproc' \in 0 .. MaxCalls /\ nproc' <= limit
  BY <1>1, <1>2, <1>3 DEF AllLooped
<1>5. CASE stop
  <2>1. pc' = "finish" /\ calls' = calls /\ it' = it
    BY <1>5 DEF GoOn, sourceVars
  <2>2. /\ Counted(calls)' = Counted(calls)
        /\ \A k : Fails(k)' <=> Fails(k)
        /\ \A k : Delivers(k)' <=> Delivers(k)
        /\ Delivers(calls)' = Delivers(calls) /\ Delivers(it)' = Delivers(it)
    BY <2>1 DEF Counted, Delivers, Fails
  <2>3. HoldsLast'
    BY <1>1, <2>1, <2>2 DEF HoldsLast
  <2>4. InOrder(looped)'
    BY <1>3, <2>2 DEF AllLooped, InOrder
  <2>5. AllLooped(looped)'
    BY <1>3, <2>1, <2>2, <2>4 DEF AllLooped, UpToHeld
  <2>6. NothingDropped'
    BY <1>3, <2>1, <2>2, <2>4 DEF NothingDropped, AllLooped, InOrder
  <2>7. StreamInv'
    BY <1>1, <1>3, <2>1, <2>2, <2>3, <2>5, <2>6 DEF StreamInv
  <2>8. QED BY <1>1, <1>2, <1>4, <2>1, <2>7
<1>6. CASE ~stop
  <2>1. (Advance \/ AdvanceFails) /\ pc' \in {"loop", "idle"}
    BY <1>6 DEF GoOn, AdvanceFails, LeaveCall
  <2>2. StreamInv' /\ calls' \in 1 .. MaxCalls + 1 /\ it' \in 0 .. MaxCalls
    BY <1>1, <1>3, <2>1, MovingOnKeeps
  <2>3. QED BY <1>2, <1>4, <2>2
<1>7. QED BY <1>5, <1>6

(* Steps that leave the source and the history of events alone.            *)
LEMMA StreamStays ==
  ASSUME GenInv, UNCHANGED <<kind, calls, it, looped, nproc>>,
         pc \notin {"new", "finish"}, pc' = "finish" => it = NoEvent
  PROVE  StreamInv'
<1>1. /\ Counted(calls)' = Counted(calls)
      /\ \A k : Fails(k)' <=> Fails(k)
      /\ Delivers(calls)' = Delivers(calls) /\ Delivers(it)' = Delivers(it)
  BY DEF Fails, Counted, Delivers
<1>2. NothingDropped'
  BY <1>1 DEF GenInv, StreamInv, NothingDropped
<1>3. HoldsLast' /\ UpToHeld(looped, 1)'
  BY <1>1 DEF GenInv, StreamInv, HoldsLast, UpToHeld
<1>4. pc' = "finish" => AllLooped(looped)'
  <2> SUFFICES ASSUME it = NoEvent PROVE AllLooped(looped)'
    OBVIOUS
  <2>1. /\ looped \in Seq(1 .. MaxCalls) /\ Len(looped) <= MaxCalls
        /\ Counted(calls) = ToSet(looped) /\ InOrder(looped)
    <3>1. looped \in Seq(1 .. MaxCalls) /\ nproc = Len(looped) /\ nproc <= MaxCalls
      BY BoundsAssumption DEF GenInv, StreamInv, TypeOK
    <3>2. NothingDropped
      BY DEF GenInv, StreamInv
    <3>3. Counted(calls) = ToSet(looped) \cup ({it} \ {NoEvent}) /\ InOrder(looped)
      BY <3>2 DEF NothingDropped, InOrder
    <3>4. QED BY <3>1, <3>3
  <2>2. Len(looped) <= calls - 1 /\ UpToHeld(looped, 0)
    BY DEF GenInv, StreamInv, UpToHeld
  <2>3. InOrder(looped)'
    BY <1>1, <2>1 DEF InOrder
  <2>4. UpToHeld(looped, 0)'
    BY <2>2 DEF UpToHeld
  <2>5. QED BY <1>1, <2>1, <2>2, <2>3, <2>4 DEF AllLooped
<1>5. QED BY <1>1, <1>2, <1>3, <1>4 DEF GenInv, StreamInv

(* Steps that hand out nothing and fill no row.                            *)
LEMMA EstimatesStay ==
  ASSUME EstimateInv, kind' = kind, given' = given, chunk' \in {chunk, <<>>},
         result' = "rows" /\ pc' = "idle" => result = "rows" /\ pc = "idle" /\ looped' = looped
  PROVE  EstimateInv'
<1>1. /\ \A e : Counted(e)' = Counted(e)
      /\ Counted(Last(Last(given)).estimate)' = Counted(Last(Last(given)).estimate)
  <2>1. /\ \A e : Delivers(e)' <=> Delivers(e)
        /\ Last(Last(given)).estimate' = Last(Last(given)).estimate
    BY DEF Delivers
  <2>2. QED BY <2>1 DEF Counted
<1>2. OwnEstimates(chunk, Len(chunk))'
  <2>1. CASE chunk' = chunk
    BY <1>1, <2>1 DEF EstimateInv, OwnEstimates
  <2>2. CASE chunk' = <<>>
    BY <2>2, EmptySeq DEF OwnEstimates
  <2>3. QED BY <2>1, <2>2
<1>3. (\A k \in 1 .. Len(given) : OwnEstimates(given[k], Len(given[k]) - 1))'
  BY <1>1 DEF EstimateInv, OwnEstimates
<1>4. QED BY <1>1, <1>2, <1>3 DEF EstimateInv

(* An exception leaves a call.                                             *)
LEMMA LeavingKeeps ==
  ASSUME GenInv, LeaveCall, StreamInv', looped' \in Seq(1 .. MaxCalls), calls' \in 1 .. MaxCalls + 1,
         nproc' \in 0 .. MaxCalls, nproc' <= limit, inError' \in BOOLEAN,
         UNCHANGED <<kind, limit, arrow, want>>
  PROVE  GenInv'
<1> USE DEF GenInv, LeaveCall
<1>1. <<>> \in Seq(Row) /\ Len(<<>>) = 0
  BY EmptySeq
<1>2. TypeOK'
  BY <1>1 DEF TypeOK
<1>3. LimitInv'
  BY <1>1, BoundsAssumption DEF LimitInv, WithinLimitAndChunk, StreamInv, TypeOK
<1>4. EstimateInv'
  BY EstimatesStay
<1>5. QED BY <1>2, <1>3, <1>4

(* next() up to its loop, on its own or as part of all().                  *)
LEMMA EnterNextKeeps ==
  ASSUME GenInv, pc \in {"idle", "again"}, EnterNext, want' \in 1 .. MaxChunk, arrow' \in BOOLEAN,
         UNCHANGED <<inputVars, sourceVars, nproc, inError, looped>>
  PROVE  GenInv'
<1> USE DEF GenInv
<1>1. chunk = <<>> /\ nproc \in Nat /\ limit \in Nat /\ Len(<<>>) = 0 /\ <<>> \in Seq(Row)
  BY EmptySeq, BoundsAssumption DEF LimitInv, TypeOK
<1>2. CASE ReachedLimit(nproc)
  <2>1. /\ given' = given /\ chunk' = chunk /\ pc' = "idle" /\ inAll' = FALSE
        /\ result' \in {"all", "empty", "null"}
    BY <1>2 DEF EnterNext, ReturnAtLimit
  <2>2. StreamInv'
    BY <2>1, StreamStays DEF inputVars, sourceVars
  <2>3. TypeOK'
    BY <1>1, <2>1 DEF TypeOK, inputVars, sourceVars
  <2>4. LimitInv'
    BY <1>1, <2>1 DEF LimitInv, WithinLimitAndChunk, inputVars
  <2>5. EstimateInv'
    BY <2>1, EstimatesStay DEF inputVars
  <2>6. QED BY <2>2, <2>3, <2>4, <2>5
<1>3. CASE ~ReachedLimit(nproc)
  <2>1. pc' = "loop" /\ UNCHANGED <<inAll, chunk, result, given>>
    BY <1>3 DEF EnterNext
  <2>2. StreamInv'
    BY <2>1, StreamStays DEF inputVars, sourceVars
  <2>3. TypeOK'
    BY <2>1 DEF TypeOK, inputVars, sourceVars
  <2>4. LimitInv'
    BY <1>1, <1>3, <2>1 DEF LimitInv, WithinLimitAndChunk, ReachedLimit, inputVars
  <2>5. EstimateInv'
    BY <2>1, EstimatesStay DEF inputVars
  <2>6. QED BY <2>2, <2>3, <2>4, <2>5
<1>4. QED BY <1>2, <1>3

LEMMA FirstFrameKeeps ==
  ASSUME GenInv, NEW n \in 1 .. MaxChunk, NEW isArrow \in BOOLEAN, NEW isAll \in BOOLEAN,
         FirstFrame(n, isArrow, isAll)
  PROVE  GenInv'
<1> USE DEF GenInv
<1>1. /\ calls' = 1 /\ it' = EventOf(1) /\ looped' = <<>> /\ given' = <<>> /\ nproc' = 0
      /\ chunk' = <<>> /\ want' = n /\ arrow' = isArrow
      /\ UNCHANGED <<kind, limit, inError>>
  BY DEF FirstFrame, Rewind, LimitInv, inputVars
<1>2. /\ <<>> \in Seq(Seq(Row)) /\ <<>> \in Seq(Row) /\ <<>> \in Seq(1 .. MaxCalls) /\ Len(<<>>) = 0
      /\ ToSet(<<>>) = {}
  BY EmptySeq DEF ToSet
<1>3. /\ pc' \in {"idle", "loop"} /\ inAll' \in BOOLEAN
      /\ result' \in {"none", "rows", "empty", "null", "all", "threw", "refused"}
      /\ pc' = "idle" => result' \in {"all", "empty", "null"}
      /\ pc' = "loop" => 0 < limit
  <2>1. CASE ReachedLimit(0)
    BY <2>1 DEF FirstFrame, ReturnAtLimit
  <2>2. CASE ~ReachedLimit(0)
    <3>1. 0 < limit
      BY <2>2, BoundsAssumption DEF ReachedLimit, TypeOK
    <3>2. pc' = "loop" /\ inAll' = isAll /\ result' = result
      BY <2>2 DEF FirstFrame
    <3>3. QED BY <3>1, <3>2 DEF TypeOK
  <2>3. QED BY <2>1, <2>2
<1>4. TypeOK'
  <2>1. it' \in 0 .. MaxCalls /\ calls' \in 1 .. MaxCalls + 1 /\ nproc' \in 0 .. MaxCalls
    BY <1>1, BoundsAssumption DEF EventOf, Delivers, NoEvent
  <2>2. QED BY <1>1, <1>2, <1>3, <2>1 DEF TypeOK
<1>5. StreamInv'
  <2>1. /\ Counted(calls)' = Counted(1) /\ Delivers(calls)' = Delivers(1)
        /\ Delivers(it)' = Delivers(it') /\ Fails(1)' = Fails(1)
    BY <1>1 DEF Counted, Delivers, Fails
  <2>2. Counted(1) = {EventOf(1)} \ {NoEvent}
    BY BoundsAssumption DEF EventOf, Counted, Delivers, NoEvent
  <2>3. NothingDropped'
    BY <1>1, <1>2, <2>1, <2>2 DEF NothingDropped
  <2>4. HoldsLast'
    <3>1. it' # NoEvent => it' = 1 /\ Delivers(1)
      BY <1>1 DEF EventOf
    <3>2. it' = NoEvent => ~Delivers(1)
      BY <1>1 DEF EventOf, NoEvent
    <3>3. QED BY <1>1, <2>1, <3>1, <3>2 DEF HoldsLast
  <2>5. UpToHeld(looped, 1)' /\ Len(looped') <= calls' - 1
    BY <1>1, <1>2 DEF UpToHeld
  <2>6. QED BY <1>1, <1>2, <1>3, <2>1, <2>3, <2>4, <2>5 DEF StreamInv
<1>6. LimitInv'
  BY <1>1, <1>2, <1>3, BoundsAssumption DEF LimitInv, WithinLimitAndChunk, TypeOK
<1>7. EstimateInv'
  BY <1>1, <1>2, <1>3 DEF EstimateInv, OwnEstimates
<1>8. QED BY <1>4, <1>5, <1>6, <1>7

LEMMA CutKeeps == ASSUME GenInv, Cut PROVE GenInv'
<1> USE DEF GenInv
<1> DEFINE stop == ReachedLimit(nproc + 1)
<1>1. /\ pc = "loop" /\ it # NoEvent /\ LoopedOver /\ GoOn(stop, chunk)
      /\ UNCHANGED <<kind, limit, arrow, want>>
  BY DEF Cut, InLoop, inputVars
<1>2. /\ StreamInv' /\ looped' \in Seq(1 .. MaxCalls)
      /\ calls' \in 1 .. MaxCalls + 1 /\ it' \in 0 .. MaxCalls
      /\ nproc' = nproc + 1 /\ nproc' \in 0 .. MaxCalls /\ nproc' <= limit
  <2>1. stop \in BOOLEAN
    BY DEF ReachedLimit
  <2> HIDE DEF stop
  <2>2. QED BY <1>1, <2>1, LoopKeepsStream
<1>3. CASE AdvanceFails
  BY <1>1, <1>2, <1>3, LeavingKeeps DEF AdvanceFails, TypeOK
<1>4. CASE ~AdvanceFails
  <2>1. /\ UNCHANGED <<inError, inAll, chunk, result, given>>
        /\ pc' = "finish" \/ (pc' = "loop" /\ ~stop)
    BY <1>1, <1>4 DEF GoOn
  <2>2. pc' = "loop" => nproc' < limit
    BY <1>2, <2>1, BoundsAssumption DEF ReachedLimit, TypeOK
  <2>3. TypeOK'
    BY <1>1, <1>2, <2>1 DEF TypeOK
  <2>4. LimitInv'
    BY <1>1, <1>2, <2>1, <2>2 DEF LimitInv, WithinLimitAndChunk, StreamInv
  <2>5. EstimateInv'
    BY <1>1, <2>1, EstimatesStay
  <2>6. QED BY <1>2, <2>3, <2>4, <2>5
<1>5. QED BY <1>3, <1>4

LEMMA KeepKeeps == ASSUME GenInv, Keep PROVE GenInv'
<1> USE DEF GenInv
<1> DEFINE row == [event |-> it, estimate |-> calls]
           rows == Append(chunk, row)
           stop == ReachedLimit(nproc + 1) \/ ChunkFull(rows)
<1>1. /\ pc = "loop" /\ it # NoEvent /\ LoopedOver /\ GoOn(stop, rows)
      /\ UNCHANGED <<kind, limit, arrow, want>>
  BY DEF Keep, InLoop, inputVars
<1>2. /\ StreamInv' /\ looped' \in Seq(1 .. MaxCalls)
      /\ calls' \in 1 .. MaxCalls + 1 /\ it' \in 0 .. MaxCalls
      /\ nproc' = nproc + 1 /\ nproc' \in 0 .. MaxCalls /\ nproc' <= limit
  <2>1. stop \in BOOLEAN
    BY DEF ReachedLimit, ChunkFull
  <2> HIDE DEF stop, rows
  <2>2. QED BY <1>1, <2>1, LoopKeepsStream
<1>3. CASE AdvanceFails
  <2> HIDE DEF stop, rows
  <2>1. QED BY <1>1, <1>2, <1>3, LeavingKeeps DEF AdvanceFails, TypeOK
<1>4. CASE ~AdvanceFails
  <2>1. row \in Row /\ Counted(row.estimate) = Counted(row.event)
    <3>1. calls \in 1 .. MaxCalls + 1 /\ HoldsLast /\ it \in 0 .. MaxCalls
      BY <1>1 DEF TypeOK, StreamInv
    <3>2. it \in 1 .. MaxCalls /\ Counted(calls) = Counted(it)
      BY <1>1, <3>1, HeldEvent
    <3>3. QED BY <3>1, <3>2 DEF Row
  <2> HIDE DEF row
  <2>2. /\ rows \in Seq(Row) /\ Len(rows) = Len(chunk) + 1
        /\ \A i \in 1 .. Len(chunk) : rows[i] = chunk[i]
        /\ rows[Len(chunk) + 1] = row
    BY <2>1, Grown DEF TypeOK
  <2> HIDE DEF rows
  <2>3. /\ UNCHANGED <<inError, inAll, result, given>> /\ chunk' = rows
        /\ pc' = "finish" \/ (pc' = "loop" /\ ~stop)
    BY <1>1, <1>4 DEF GoOn
  <2>4. /\ pc' = "loop" => nproc' < limit /\ Len(chunk') < want
        /\ Len(chunk') <= want
    <3>1. Len(chunk) < want /\ Len(chunk) \in Nat /\ want \in Nat
      BY <1>1, LenProperties, BoundsAssumption DEF LimitInv, WithinLimitAndChunk, TypeOK
    <3>2. QED BY <1>2, <2>2, <2>3, <3>1, BoundsAssumption DEF ReachedLimit, ChunkFull, TypeOK
  <2>5. TypeOK'
    BY <1>1, <1>2, <2>2, <2>3 DEF TypeOK
  <2>6. LimitInv'
    BY <1>1, <1>2, <2>3, <2>4 DEF LimitInv, WithinLimitAndChunk, StreamInv
  <2>7. EstimateInv'
    <3>1. Len(chunk) \in Nat
      BY LenProperties DEF TypeOK
    <3>2. OwnEstimates(rows, Len(rows))
      <4>1. \A i \in 1 .. Len(chunk) : Counted(chunk[i].estimate) = Counted(chunk[i].event)
        BY DEF EstimateInv, OwnEstimates
      <4>2. \A i \in 1 .. Len(rows) : i = Len(chunk) + 1 \/ i \in 1 .. Len(chunk)
        BY <2>2, <3>1
      <4>3. QED BY <2>1, <2>2, <4>1, <4>2 DEF OwnEstimates
    <3>3. \A e : Counted(e)' = Counted(e)
      BY <1>1 DEF Counted, Delivers
    <3>4. OwnEstimates(chunk, Len(chunk))'
      BY <2>3, <3>2, <3>3 DEF OwnEstimates
    <3>5. (\A k \in 1 .. Len(given) : OwnEstimates(given[k], Len(given[k]) - 1))'
      BY <2>3, <3>3 DEF EstimateInv, OwnEstimates
    <3>6. pc' # "idle"
      BY <2>3
    <3>7. QED BY <3>4, <3>5, <3>6 DEF EstimateInv
  <2>8. QED BY <1>2, <2>5, <2>6, <2>7
<1>5. QED BY <1>3, <1>4

LEMMA ThrowKeeps == ASSUME GenInv, Throw PROVE GenInv'
<1> USE DEF GenInv
<1>1. /\ pc = "loop" /\ pc' = "idle" /\ LeaveCall /\ inError' \in BOOLEAN
      /\ UNCHANGED <<kind, limit, calls, it, nproc, arrow, want, looped>>
  BY DEF Throw, InLoop, inputVars, LeaveCall, TypeOK
<1>2. StreamInv'
  BY <1>1, StreamStays
<1>3. QED BY <1>1, <1>2, LeavingKeeps DEF TypeOK, LimitInv, WithinLimitAndChunk

LEMMA SourceEndsKeeps == ASSUME GenInv, SourceEnds PROVE GenInv'
<1> USE DEF GenInv
<1>1. /\ pc = "loop" /\ it = NoEvent /\ pc' = "finish"
      /\ UNCHANGED <<kind, limit, calls, it, nproc, inError, arrow, inAll, want, chunk,
                     result, given, looped>>
  BY DEF SourceEnds, inputVars, sourceVars, callVars
<1>2. StreamInv'
  BY <1>1, StreamStays
<1>3. TypeOK'
  BY <1>1 DEF TypeOK
<1>4. LimitInv'
  BY <1>1 DEF LimitInv, WithinLimitAndChunk
<1>5. EstimateInv'
  BY <1>1, EstimatesStay
<1>6. QED BY <1>2, <1>3, <1>4, <1>5

(* The end of next(): the estimate is that of the calls made, and every    *)
(* event those delivered has been looped over.                             *)
LEMMA FinishKeeps == ASSUME GenInv, Finish PROVE GenInv'
<1> USE DEF GenInv
<1> DEFINE rows == FinalEstimate(chunk)
<1>1. /\ pc = "finish" /\ UNCHANGED <<kind, limit, nproc, arrow, want, looped>>
      /\ (Advance /\ Return(rows) /\ UNCHANGED inError) \/ AdvanceFails
  BY DEF Finish, inputVars
<1>2. pc' \in {"idle", "again"}
  BY <1>1 DEF Return, AdvanceFails, LeaveCall
<1>3. AllLooped(looped) /\ Counted(calls) = ToSet(looped)
  BY <1>1 DEF StreamInv, AllLooped
<1>4. StreamInv' /\ calls' \in 1 .. MaxCalls + 1 /\ it' \in 0 .. MaxCalls
  <2>1. calls \in 1 .. MaxCalls + 1 /\ it \in 0 .. MaxCalls /\ HoldsLast /\ ~Fails(1)
        /\ nproc = Len(looped)
    BY <1>1 DEF TypeOK, StreamInv
  <2>2. Advance \/ AdvanceFails
    BY <1>1
  <2>3. nproc' = Len(looped) /\ looped' = looped /\ kind' = kind
    BY <1>1, <2>1
  <2>4. QED BY <1>2, <1>3, <2>1, <2>2, <2>3, MovingOnKeeps
<1>5. CASE AdvanceFails
  <2> HIDE DEF rows
  <2>1. QED BY <1>1, <1>4, <1>5, LeavingKeeps DEF AdvanceFails, TypeOK, LimitInv, WithinLimitAndChunk
<1>6. CASE ~AdvanceFails
  <2>1. Return(rows) /\ UNCHANGED inError
    BY <1>1, <1>6
  <2>2. /\ rows \in Seq(Row)
        /\ rows # <<>> => OwnEstimates(rows, Len(rows) - 1) /\ Last(rows).estimate = calls
    <3>1. CASE chunk = <<>>
      BY <3>1, EmptySeq DEF FinalEstimate
    <3>2. CASE chunk # <<>>
      <4>1. /\ rows \in Seq(Row) /\ Len(rows) = Len(chunk) /\ Last(rows).estimate = calls
            /\ \A i \in 1 .. Len(chunk) - 1 : rows[i] = chunk[i]
        BY <3>2, FinalEstimateOfLast DEF TypeOK
      <4>2. Len(chunk) \in Nat
        BY LenProperties DEF TypeOK
      <4> HIDE DEF rows
      <4>3. OwnEstimates(rows, Len(rows) - 1)
        BY <4>1, <4>2 DEF EstimateInv, OwnEstimates
      <4>4. QED BY <4>1, <4>3
    <3>3. QED BY <3>1, <3>2
  <2> HIDE DEF rows
  <2>3. /\ given' \in Seq(Seq(Row)) /\ chunk' = <<>>
        /\ \A k \in 1 .. Len(given') : OwnEstimates(given'[k], Len(given'[k]) - 1)
        /\ pc' \in {"idle", "again"} /\ inAll' \in BOOLEAN
        /\ result' \in {"none", "rows", "empty", "null", "all", "threw", "refused"}
        /\ pc' = "idle" /\ result' = "rows" => given' # <<>> /\ Last(given') = rows /\ rows # <<>>
    <3>1. \A k \in 1 .. Len(given) : OwnEstimates(given[k], Len(given[k]) - 1)
      BY DEF EstimateInv
    <3>2. QED BY <2>1, <2>2, <3>1, ReturnKeeps
  <2>4. <<>> \in Seq(Row) /\ Len(<<>>) = 0
    BY EmptySeq
  <2>5. TypeOK'
    BY <1>1, <1>4, <2>1, <2>3, <2>4 DEF TypeOK
  <2>6. LimitInv'
    BY <1>1, <2>3, <2>4, BoundsAssumption DEF LimitInv, WithinLimitAndChunk, TypeOK
  <2>7. EstimateInv'
    <3>1. pc' = "idle" /\ result' = "rows" => Counted(Last(Last(given')).estimate) = ToSet(looped)
      BY <1>3, <2>2, <2>3
    <3>2. \A e : Counted(e)' = Counted(e)
      BY <1>1 DEF Counted, Delivers
    <3>3. Counted(Last(Last(given)).estimate)' = Counted(Last(Last(given')).estimate)
      BY <1>1 DEF Counted, Delivers
    <3>4. OwnEstimates(chunk, Len(chunk))'
      BY <2>3, <2>4 DEF OwnEstimates
    <3>5. (\A k \in 1 .. Len(given) : OwnEstimates(given[k], Len(given[k]) - 1))'
      BY <2>3, <3>2 DEF OwnEstimates
    <3>6. QED BY <1>1, <2>3, <3>1, <3>3, <3>4, <3>5 DEF EstimateInv
  <2>8. QED BY <1>4, <2>5, <2>6, <2>7
<1>7. QED BY <1>5, <1>6

LEMMA NextKeepsGenInv == GenInv /\ [Next]_vars => GenInv'
<1> SUFFICES ASSUME GenInv, [Next]_vars PROVE GenInv'
  OBVIOUS
<1>1. ASSUME NEW n \in 1 .. MaxChunk, NEW a \in BOOLEAN, NEW b \in BOOLEAN, FirstFrame(n, a, b)
      PROVE  GenInv'
  BY <1>1, FirstFrameKeeps
<1>2. ASSUME NEW n \in 1 .. MaxChunk, NEW a \in BOOLEAN, NextFrame(n, a) PROVE GenInv'
  BY <1>2, EnterNextKeeps DEF NextFrame
<1>3. CASE NextOfAll
  <2>1. want' \in 1 .. MaxChunk /\ arrow' \in BOOLEAN
    BY <1>3 DEF NextOfAll, GenInv, TypeOK
  <2>2. QED BY <1>3, <2>1, EnterNextKeeps DEF NextOfAll
<1>4. CASE Refuse
  <2>1. /\ pc = "idle" /\ result' = "refused"
        /\ UNCHANGED <<kind, limit, calls, it, nproc, inError, pc, arrow, inAll, want, chunk,
                       given, looped>>
    BY <1>4 DEF Refuse, inputVars, sourceVars, callVars
  <2>2. StreamInv'
    BY <2>1, StreamStays
  <2>3. TypeOK' /\ LimitInv'
    BY <2>1 DEF GenInv, TypeOK, LimitInv, WithinLimitAndChunk
  <2>4. EstimateInv'
    BY <2>1, EstimatesStay DEF GenInv
  <2>5. QED BY <2>2, <2>3, <2>4 DEF GenInv
<1>5. CASE Cut BY <1>5, CutKeeps
<1>6. CASE Keep BY <1>6, KeepKeeps
<1>7. CASE Throw BY <1>7, ThrowKeeps
<1>8. CASE SourceEnds BY <1>8, SourceEndsKeeps
<1>9. CASE Finish BY <1>9, FinishKeeps
<1>10. CASE UNCHANGED vars
  <2>1. UNCHANGED <<kind, limit, calls, it, nproc, inError, pc, arrow, inAll, want, chunk, result,
                    given, looped>>
    BY <1>10 DEF vars, inputVars, sourceVars, callVars
  <2>2. /\ Counted(calls)' = Counted(calls)
        /\ \A k : Fails(k)' <=> Fails(k)
        /\ Delivers(calls)' = Delivers(calls) /\ Delivers(it)' = Delivers(it)
    BY <2>1 DEF Fails, Counted, Delivers
  <2>3. StreamInv'
    <3>1. HoldsLast' = HoldsLast /\ NothingDropped' = NothingDropped
      BY <2>1, <2>2 DEF HoldsLast, NothingDropped
    <3>2. InOrder(looped)' = InOrder(looped)
      BY <2>1, <2>2 DEF InOrder
    <3>3. UpToHeld(looped, 0)' = UpToHeld(looped, 0) /\ UpToHeld(looped, 1)' = UpToHeld(looped, 1)
      BY <2>1 DEF UpToHeld
    <3>4. AllLooped(looped)' = AllLooped(looped)
      BY <2>1, <2>2, <3>2, <3>3 DEF AllLooped
    <3>5. QED BY <2>1, <2>2, <3>1, <3>3, <3>4 DEF GenInv, StreamInv
  <2>4. TypeOK' /\ LimitInv'
    BY <2>1 DEF GenInv, TypeOK, LimitInv, WithinLimitAndChunk
  <2>5. EstimateInv'
    BY <2>1, EstimatesStay DEF GenInv
  <2>6. QED BY <2>3, <2>4, <2>5 DEF GenInv
<1>11. QED BY <1>1, <1>2, <1>3, <1>4, <1>5, <1>6, <1>7, <1>8, <1>9, <1>10 DEF Next, Inside

-----------------------------------------------------------------------------
(* The rows.  F are the rows handed out, c those of the frame being        *)
(* filled, seen the events looped over, i the event that the iterator      *)
(* holds and n the number of calls of the source: the rows are in order    *)
(* and of events that were kept, one that is missing was lost with its     *)
(* frame, and the frame being filled has lost none.  What the iterator     *)
(* holds is in no frame handed out.                                        *)
OnThrowing == it # NoEvent /\ kind[it] = "throws"

EventIn(rows) == {rows[j].event : j \in 1 .. Len(rows)}

Increasing(rows) ==
  \A j, k \in 1 .. Len(rows) : j < k => rows[j].event < rows[k].event

KeptOf(seen) == {e \in ToSet(seen) : kind[e] = "keep"}

KeptBetween(e, k) == {f \in e .. k - 1 : kind[f] = "keep"}

LostAt(e, k, i, n) ==
  /\ \/ k <= n /\ kind[k] = "fails"
     \/ k = i /\ kind[k] = "throws"
  /\ Cardinality(KeptBetween(e, k)) <= MaxChunk

Whole(c, seen) ==
  \A e \in EventIn(c) : \A f \in KeptOf(seen) : f >= e => f \in EventIn(c)

RowsOk(F, c, seen, i, n) ==
  /\ Increasing(F \o c)
  /\ EventIn(F) \cup EventIn(c) \subseteq KeptOf(seen)
  /\ \A e \in KeptOf(seen) \ (EventIn(F) \cup EventIn(c)) :
       \E k \in e + 1 .. MaxCalls : LostAt(e, k, i, n)
  /\ Whole(c, seen)
  /\ i # NoEvent => i \notin EventIn(F)

RowsInv ==
  /\ RowsOk(FlattenSeq(given), chunk, looped, it, calls)
  /\ it # NoEvent /\ pc # "finish" => it \notin EventIn(chunk)
  /\ pc = "finish" => ~OnThrowing

LEMMA RowsType ==
  ASSUME TypeOK
  PROVE  FlattenSeq(given) \in Seq(Row) /\ chunk \in Seq(Row) /\ Rows = FlattenSeq(given) \o chunk
<1>1. given \in Seq(Seq(Row)) /\ chunk \in Seq(Row) /\ <<>> \in Seq(Row)
  BY EmptySeq DEF TypeOK
<1>2. FlattenSeq(given) \in Seq(Row)
  BY <1>1, FlattenAppend
<1>3. QED BY <1>1, <1>2 DEF Rows

(* The events of rows one after the other. *)
LEMMA EventsJoined ==
  ASSUME NEW F \in Seq(Row), NEW c \in Seq(Row)
  PROVE  /\ F \o c \in Seq(Row)
         /\ EventIn(F \o c) = EventIn(F) \cup EventIn(c)
         /\ Increasing(F \o c) => Increasing(F)
<1> DEFINE m == Len(F)
           n == Len(c)
           r == F \o c
<1>1. /\ m \in Nat /\ n \in Nat /\ r \in Seq(Row) /\ Len(r) = m + n
      /\ \A j \in 1 .. m + n : r[j] = IF j <= m THEN F[j] ELSE c[j - m]
  BY LenProperties, ConcatProperties
<1> HIDE DEF m, n, r
<1>2. \A j \in 1 .. m : j \in 1 .. m + n /\ r[j] = F[j]
  BY <1>1
<1>3. \A j \in 1 .. n : j + m \in 1 .. m + n /\ r[j + m] = c[j]
  BY <1>1
<1>4. \A j \in 1 .. m + n : j \in 1 .. m \/ (j - m \in 1 .. n /\ r[j] = c[j - m])
  BY <1>1
<1>5. EventIn(r) = EventIn(F) \cup EventIn(c)
  <2>1. EventIn(r) \subseteq EventIn(F) \cup EventIn(c)
    BY <1>1, <1>2, <1>4 DEF EventIn, m, n
  <2>2. EventIn(F) \subseteq EventIn(r)
    BY <1>1, <1>2 DEF EventIn, m
  <2>3. EventIn(c) \subseteq EventIn(r)
    BY <1>1, <1>3 DEF EventIn, n
  <2>4. QED BY <2>1, <2>2, <2>3
<1>6. Increasing(r) => Increasing(F)
  BY <1>1, <1>2 DEF Increasing, m
<1>7. QED BY <1>1, <1>5, <1>6 DEF r

(* A row more, of a later event. *)
LEMMA EventsGrown ==
  ASSUME NEW rows \in Seq(Row), NEW row \in Row
  PROVE  /\ Append(rows, row) \in Seq(Row)
         /\ EventIn(Append(rows, row)) = EventIn(rows) \cup {row.event}
         /\ Increasing(rows) /\ (\A e \in EventIn(rows) : e < row.event) => Increasing(Append(rows, row))
<1> DEFINE n == Len(rows)
           r == Append(rows, row)
<1>1. /\ n \in Nat /\ r \in Seq(Row) /\ Len(r) = n + 1 /\ r[n + 1] = row
      /\ \A j \in 1 .. n : r[j] = rows[j]
  BY LenProperties, AppendProperties
<1> HIDE DEF n, r
<1>2. \A j \in 1 .. n + 1 : j = n + 1 \/ j \in 1 .. n
  BY <1>1
<1>3. \A j \in 1 .. n : j \in 1 .. n + 1
  BY <1>1
<1>4. EventIn(r) = EventIn(rows) \cup {row.event}
  <2>1. EventIn(r) \subseteq EventIn(rows) \cup {row.event}
    BY <1>1, <1>2 DEF EventIn, n
  <2>2. EventIn(rows) \subseteq EventIn(r)
    BY <1>1, <1>3 DEF EventIn, n
  <2>3. row.event \in EventIn(r)
    BY <1>1 DEF EventIn
  <2>4. QED BY <2>1, <2>2, <2>3
<1>5. ASSUME Increasing(rows), \A e \in EventIn(rows) : e < row.event,
             NEW j \in 1 .. n + 1, NEW k \in 1 .. n + 1, j < k
      PROVE  r[j].event < r[k].event
  <2>1. j \in 1 .. n
    BY <1>1, <1>5
  <2>2. CASE k = n + 1
    <3>1. rows[j].event \in EventIn(rows)
      BY <2>1 DEF EventIn, n
    <3>2. QED BY <1>1, <1>5, <2>1, <2>2, <3>1
  <2>3. CASE k \in 1 .. n
    BY <1>1, <1>5, <2>1, <2>3 DEF Increasing, n
  <2>4. QED BY <1>2, <2>2, <2>3
<1>6. QED BY <1>1, <1>4, <1>5 DEF r, Increasing

(* Rows of the same events. *)
LEMMA EventsSame ==
  ASSUME NEW rows, NEW others, Len(others) = Len(rows),
         \A j \in 1 .. Len(rows) : others[j].event = rows[j].event
  PROVE  EventIn(others) = EventIn(rows) /\ (Increasing(rows) => Increasing(others))
  BY DEF EventIn, Increasing

(* A frame of no more rows than its size has no more events than that. *)
LEMMA EventsOfFrame ==
  ASSUME NEW c \in Seq(Row), Len(c) <= MaxChunk, NEW S \in SUBSET EventIn(c)
  PROVE  Cardinality(S) <= MaxChunk
<1> DEFINE n == Len(c)
           f == [j \in 1 .. n |-> c[j].event]
<1>1. n \in Nat /\ MaxChunk \in Nat
  BY LenProperties, BoundsAssumption
<1> HIDE DEF n
<1>2. f \in Surjection(1 .. n, EventIn(c))
  BY DEF Surjection, EventIn, n
<1>3. IsFiniteSet(1 .. n) /\ Cardinality(1 .. n) = n
  BY <1>1, FS_Interval
<1> HIDE DEF f
<1>4. IsFiniteSet(EventIn(c)) /\ Cardinality(EventIn(c)) <= n
  BY <1>2, <1>3, FS_Surjection
<1>5. IsFiniteSet(S) /\ Cardinality(S) <= Cardinality(EventIn(c))
  BY <1>4, FS_Subset
<1>6. Cardinality(S) \in Nat /\ Cardinality(EventIn(c)) \in Nat
  BY <1>4, <1>5, FS_CardinalityType
<1>7. QED BY <1>1, <1>4, <1>5, <1>6 DEF n

(* Another sequence of the same rows, but for their estimates. *)
LEMMA JoinedSame ==
  ASSUME NEW F \in Seq(Row), NEW c \in Seq(Row), NEW rows \in Seq(Row), Len(rows) = Len(c),
         \A j \in 1 .. Len(c) : rows[j].event = c[j].event, Increasing(F \o c)
  PROVE  Increasing(F \o rows) /\ EventIn(rows) = EventIn(c)
<1> DEFINE m == Len(F)
           n == Len(c)
           r == F \o c
           s == F \o rows
<1>1. /\ m \in Nat /\ n \in Nat /\ Len(r) = m + n /\ Len(s) = m + n
      /\ \A j \in 1 .. m + n : r[j] = IF j <= m THEN F[j] ELSE c[j - m]
      /\ \A j \in 1 .. m + n : s[j] = IF j <= m THEN F[j] ELSE rows[j - m]
  <2>1. m \in Nat /\ n \in Nat /\ Len(rows) = n
    BY LenProperties
  <2>2. Len(r) = m + n /\ \A j \in 1 .. m + n : r[j] = IF j <= m THEN F[j] ELSE c[j - m]
    BY ConcatProperties
  <2>3. /\ Len(s) = Len(F) + Len(rows)
        /\ \A j \in 1 .. Len(F) + Len(rows) : s[j] = IF j <= Len(F) THEN F[j] ELSE rows[j - Len(F)]
    <3>1. \A a, b \in Seq(Row) :
            /\ Len(a \o b) = Len(a) + Len(b)
            /\ \A j \in 1 .. Len(a) + Len(b) : (a \o b)[j] = IF j <= Len(a) THEN a[j] ELSE b[j - Len(a)]
      BY ConcatProperties
    <3>2. QED BY <3>1, Zenon
  <2>4. Len(F) = m
    OBVIOUS
  <2> HIDE DEF m, n, r, s
  <2>5. QED BY <2>1, <2>2, <2>3, <2>4
<1>2. \A j \in 1 .. n : rows[j].event = c[j].event
  OBVIOUS
<1> HIDE DEF m, n, r, s
<1>3. \A j \in 1 .. m + n : ~(j <= m) => j - m \in 1 .. n
  BY <1>1
<1>4. \A j \in 1 .. m + n : s[j].event = r[j].event
  BY <1>1, <1>2, <1>3
<1>5. Increasing(s)
  BY <1>1, <1>4, EventsSame DEF r
<1>6. QED BY <1>5, EventsSame DEF s

(* A frame is lost at a call, or at an event, after all that is kept of it. *)
LEMMA FrameLost ==
  ASSUME NEW F \in Seq(Row), NEW c \in Seq(Row), NEW seen \in Seq(1 .. MaxCalls),
         NEW i, NEW n \in Nat, NEW m \in Nat, n <= m, RowsOk(F, c, seen, i, n), Len(c) <= MaxChunk,
         NEW k \in 1 .. MaxCalls, (k <= m /\ kind[k] = "fails") \/ (k = i /\ kind[k] = "throws"),
         \A e \in EventIn(c) : e < k,
         \A f \in 1 .. k - 1 : kind[f] = "keep" => f \in ToSet(seen)
  PROVE  RowsOk(F, <<>>, seen, i, m)
<1> USE BoundsAssumption
<1>1. /\ <<>> \in Seq(Row) /\ EventIn(<<>>) = {} /\ F \o <<>> = F
  BY EmptySeq, ConcatEmptySeq DEF EventIn
<1>2. Increasing(F) /\ EventIn(F) \subseteq KeptOf(seen) /\ EventIn(c) \subseteq KeptOf(seen)
  BY EventsJoined DEF RowsOk
<1>3. ToSet(seen) \subseteq 1 .. MaxCalls
  BY ToSetType
<1>4. ASSUME NEW e \in KeptOf(seen) \ EventIn(F)
      PROVE  \E h \in e + 1 .. MaxCalls : LostAt(e, h, i, m)
  <2>1. CASE e \in EventIn(c)
    <3>1. e \in 1 .. MaxCalls /\ e < k
      BY <1>3, <2>1 DEF KeptOf
    <3>2. KeptBetween(e, k) \subseteq EventIn(c)
      <4> SUFFICES ASSUME NEW f \in e .. k - 1, kind[f] = "keep" PROVE f \in EventIn(c)
        BY DEF KeptBetween
      <4>1. f \in 1 .. k - 1 /\ f >= e
        BY <3>1
      <4>2. f \in KeptOf(seen)
        BY <4>1 DEF KeptOf
      <4>3. QED BY <2>1, <4>1, <4>2 DEF RowsOk, Whole
    <3>3. Cardinality(KeptBetween(e, k)) <= MaxChunk
      BY <3>2, EventsOfFrame
    <3>4. k \in e + 1 .. MaxCalls
      BY <3>1
    <3>5. QED BY <3>3, <3>4 DEF LostAt
  <2>2. CASE e \notin EventIn(c)
    <3>1. PICK h \in e + 1 .. MaxCalls : LostAt(e, h, i, n)
      BY <2>2 DEF RowsOk
    <3>2. e \in 1 .. MaxCalls
      BY <1>3 DEF KeptOf
    <3>3. LostAt(e, h, i, m)
      BY <3>1, <3>2 DEF LostAt
    <3>4. QED BY <3>3
  <2>3. QED BY <2>1, <2>2
<1>5. Whole(<<>>, seen) /\ (i # NoEvent => i \notin EventIn(F))
  BY <1>1 DEF Whole, RowsOk
<1>6. QED BY <1>1, <1>2, <1>4, <1>5 DEF RowsOk

(* The event of the iterator is looped over, and gets a row if it is kept. *)
LEMMA RowsLooped ==
  ASSUME GenInv, RowsInv, pc = "loop", it # NoEvent, kind[it] \in {"keep", "cut"},
         NEW c, c = IF kind[it] = "keep" THEN Append(chunk, [event |-> it, estimate |-> calls]) ELSE chunk
  PROVE  /\ c \in Seq(Row) /\ Len(c) <= MaxChunk
         /\ RowsOk(FlattenSeq(given), c, Append(looped, it), it, calls)
<1> USE DEF GenInv
<1> DEFINE F == FlattenSeq(given)
           row == [event |-> it, estimate |-> calls]
           seen == Append(looped, it)
<1>1. /\ F \in Seq(Row) /\ chunk \in Seq(Row) /\ looped \in Seq(1 .. MaxCalls)
      /\ it \in 1 .. MaxCalls /\ it <= calls /\ calls \in 1 .. MaxCalls + 1
  <2>1. calls \in 1 .. MaxCalls + 1 /\ HoldsLast /\ it \in 0 .. MaxCalls /\ looped \in Seq(1 .. MaxCalls)
    BY DEF TypeOK, StreamInv
  <2>2. it \in 1 .. MaxCalls /\ it <= calls
    BY <2>1, HeldEvent
  <2>3. QED BY <2>1, <2>2, RowsType
<1>2. row \in Row /\ row.event = it
  BY <1>1 DEF Row
<1>3. /\ RowsOk(F, chunk, looped, it, calls)
      /\ it \notin EventIn(chunk) /\ it \notin EventIn(F)
  BY DEF RowsInv, RowsOk
<1>4. KeptOf(seen) = KeptOf(looped) \cup (IF kind[it] = "keep" THEN {it} ELSE {})
  <2>1. ToSet(seen) = ToSet(looped) \cup {it}
    BY <1>1, ToSetAppend
  <2>2. QED BY <2>1 DEF KeptOf
<1>5. \A e \in ToSet(looped) : e \in 1 .. MaxCalls /\ e <= it
  <2>1. \A j \in 1 .. Len(looped) : looped[j] \in 1 .. MaxCalls /\ looped[j] <= it
    BY <1>1, ElementOfSeq DEF StreamInv, UpToHeld
  <2>2. DOMAIN looped = 1 .. Len(looped)
    BY <1>1
  <2>3. QED BY <2>1, <2>2 DEF ToSet
<1>6. Len(chunk) \in Nat /\ want \in Nat /\ MaxChunk \in Nat /\ Len(chunk) < want /\ want <= MaxChunk
  BY <1>1, LenProperties, BoundsAssumption DEF LimitInv, WithinLimitAndChunk, TypeOK
<1> HIDE DEF F, row, seen
<1>7. CASE kind[it] = "cut"
  <2>1. c = chunk /\ KeptOf(seen) = KeptOf(looped)
    BY <1>4, <1>7
  <2>2. RowsOk(F, c, seen, it, calls)
    BY <1>3, <2>1 DEF RowsOk, Whole
  <2>3. QED BY <1>1, <1>6, <2>1, <2>2 DEF F, seen
<1>8. CASE kind[it] = "keep"
  <2>1. c = Append(chunk, row) /\ KeptOf(seen) = KeptOf(looped) \cup {it}
    BY <1>4, <1>8 DEF row
  <2>2. c \in Seq(Row) /\ Len(c) = Len(chunk) + 1 /\ EventIn(c) = EventIn(chunk) \cup {it}
    BY <1>1, <1>2, <2>1, EventsGrown, AppendProperties
  <2>3. F \o c = Append(F \o chunk, row)
    BY <1>1, <1>2, <2>1
  <2>4. EventIn(F) \cup EventIn(chunk) \subseteq KeptOf(looped)
    BY <1>3 DEF RowsOk
  <2>5. \A e \in EventIn(F \o chunk) : e < it
    <3>1. EventIn(F \o chunk) = EventIn(F) \cup EventIn(chunk)
      BY <1>1, EventsJoined
    <3>2. \A e \in EventIn(F) \cup EventIn(chunk) : e \in ToSet(looped) /\ e # it
      BY <1>3, <2>4 DEF KeptOf
    <3>3. QED BY <1>1, <1>5, <3>1, <3>2
  <2>6. Increasing(F \o c)
    <3>1. Increasing(F \o chunk) /\ F \o chunk \in Seq(Row)
      BY <1>1, <1>3, EventsJoined DEF RowsOk
    <3>2. QED BY <1>2, <2>3, <2>5, <3>1, EventsGrown
  <2>7. Whole(c, seen)
    <3> SUFFICES ASSUME NEW e \in EventIn(c), NEW f \in KeptOf(seen), f >= e PROVE f \in EventIn(c)
      BY DEF Whole
    <3>1. CASE f = it
      BY <2>2, <3>1
    <3>2. CASE f # it
      <4>1. f \in KeptOf(looped) /\ f \in 1 .. MaxCalls /\ f < it
        BY <1>1, <1>5, <2>1, <3>2 DEF KeptOf
      <4>2. e \in EventIn(chunk)
        BY <1>1, <2>2, <4>1
      <4>3. QED BY <1>3, <2>2, <4>1, <4>2 DEF RowsOk, Whole
    <3>3. QED BY <3>1, <3>2
  <2>8. \A e \in KeptOf(seen) \ (EventIn(F) \cup EventIn(c)) :
          \E k \in e + 1 .. MaxCalls : LostAt(e, k, it, calls)
    BY <1>3, <2>1, <2>2 DEF RowsOk
  <2>9. EventIn(F) \cup EventIn(c) \subseteq KeptOf(seen)
    BY <2>1, <2>2, <2>4
  <2>10. RowsOk(F, c, seen, it, calls)
    BY <1>3, <2>6, <2>7, <2>8, <2>9 DEF RowsOk
  <2>11. QED BY <1>6, <2>2, <2>10 DEF F, seen
<1>9. QED BY <1>7, <1>8

(* The iterator moves on to an event that has no row. *)
LEMMA RowsAdvanced ==
  ASSUME TypeOK, NEW F \in Seq(Row), NEW c \in Seq(Row), NEW seen, AllLooped(seen),
         RowsOk(F, c, seen, it, calls), ~OnThrowing, Advance
  PROVE  /\ RowsOk(F, c, seen, it', calls')
         /\ it' # NoEvent => it' \notin EventIn(F) \cup EventIn(c)
<1>1. /\ calls \in 1 .. MaxCalls + 1 /\ calls' \in 1 .. MaxCalls + 1 /\ calls <= calls'
      /\ it' # NoEvent => it' = calls + 1
  <2>1. calls \in 1 .. MaxCalls + 1
    BY DEF TypeOK
  <2>2. QED BY <2>1, AdvanceMovesOn
<1>2. \A e \in ToSet(seen) : e \in 1 .. MaxCalls /\ e <= calls
  <2>1. seen \in Seq(1 .. MaxCalls) /\ \A j \in 1 .. Len(seen) : seen[j] \in 1 .. MaxCalls /\ seen[j] <= calls
    BY ElementOfSeq DEF AllLooped, UpToHeld
  <2>2. DOMAIN seen = 1 .. Len(seen)
    BY <2>1
  <2>3. QED BY <2>1, <2>2 DEF ToSet
<1>3. EventIn(F) \cup EventIn(c) \subseteq ToSet(seen)
  BY DEF RowsOk, KeptOf
<1>4. it' # NoEvent => it' \notin EventIn(F) \cup EventIn(c)
  BY <1>1, <1>2, <1>3, BoundsAssumption
<1>5. ASSUME NEW e \in KeptOf(seen) \ (EventIn(F) \cup EventIn(c))
      PROVE  \E k \in e + 1 .. MaxCalls : LostAt(e, k, it', calls')
  <2>1. PICK k \in e + 1 .. MaxCalls : LostAt(e, k, it, calls)
    BY DEF RowsOk
  <2>2. e \in 1 .. MaxCalls
    BY <1>2 DEF KeptOf
  <2>3. k # NoEvent /\ k \in Nat
    BY <2>1, <2>2, BoundsAssumption DEF NoEvent
  <2>4. k <= calls /\ kind[k] = "fails"
    BY <2>1, <2>3 DEF LostAt, OnThrowing
  <2>5. LostAt(e, k, it', calls')
    BY <1>1, <2>1, <2>3, <2>4, BoundsAssumption DEF LostAt
  <2>6. QED BY <2>5
<1>6. QED BY <1>4, <1>5 DEF RowsOk

(* The source fails: the frame is lost, the iterator keeps its event. *)
LEMMA RowsOfFailure ==
  ASSUME TypeOK, NEW F \in Seq(Row), NEW c \in Seq(Row), NEW seen, AllLooped(seen), Len(c) <= MaxChunk,
         RowsOk(F, c, seen, it, calls), AdvanceFails
  PROVE  RowsOk(F, <<>>, seen, it', calls')
<1>1. /\ calls \in 1 .. MaxCalls + 1 /\ calls' = calls + 1 /\ it' = it
      /\ calls' \in 1 .. MaxCalls /\ kind[calls'] = "fails"
  <2>1. calls \in 1 .. MaxCalls + 1
    BY DEF TypeOK
  <2>2. QED BY <2>1, FailureMovesOn, BoundsAssumption DEF Fails
<1>2. seen \in Seq(1 .. MaxCalls) /\ Counted(calls) = ToSet(seen)
  BY DEF AllLooped
<1>3. \A e \in EventIn(c) : e < calls'
  <2>1. EventIn(c) \subseteq Counted(calls)
    BY <1>2 DEF RowsOk, KeptOf
  <2>2. QED BY <1>1, <2>1, BoundsAssumption DEF Counted
<1>4. \A f \in 1 .. calls' - 1 : kind[f] = "keep" => f \in ToSet(seen)
  <2> SUFFICES ASSUME NEW f \in 1 .. calls' - 1, kind[f] = "keep" PROVE f \in Counted(calls)
    BY <1>2
  <2>1. f \in 1 .. MaxCalls /\ f <= calls
    BY <1>1, BoundsAssumption
  <2>2. QED BY <2>1, BoundsAssumption DEF Counted, Delivers
<1>5. calls \in Nat /\ calls' \in Nat /\ calls <= calls' /\ calls' <= calls'
  BY <1>1, BoundsAssumption
<1>6. RowsOk(F, <<>>, seen, it, calls')
  BY <1>1, <1>2, <1>3, <1>4, <1>5, FrameLost
<1>7. QED BY <1>1, <1>6

(* A filter or a projection throws: the iterator stays on that event. *)
LEMMA RowsThrown ==
  ASSUME GenInv, RowsInv, pc = "loop", OnThrowing
  PROVE  RowsOk(FlattenSeq(given), <<>>, looped, it, calls)
<1> USE DEF GenInv
<1>1. /\ looped \in Seq(1 .. MaxCalls) /\ it \in 1 .. MaxCalls /\ it <= calls /\ calls \in 1 .. MaxCalls + 1
  <2>1. calls \in 1 .. MaxCalls + 1 /\ HoldsLast /\ it \in 0 .. MaxCalls /\ looped \in Seq(1 .. MaxCalls)
    BY DEF TypeOK, StreamInv
  <2>2. QED BY <2>1, HeldEvent DEF OnThrowing
<1>2. FlattenSeq(given) \in Seq(Row) /\ chunk \in Seq(Row) /\ Len(chunk) <= MaxChunk
  BY RowsType, LenProperties, BoundsAssumption DEF LimitInv, TypeOK
<1>3. \A e \in ToSet(looped) : e \in 1 .. MaxCalls /\ e <= it
  <2>1. \A j \in 1 .. Len(looped) : looped[j] \in 1 .. MaxCalls /\ looped[j] <= it
    BY <1>1, ElementOfSeq DEF StreamInv, UpToHeld, OnThrowing
  <2>2. DOMAIN looped = 1 .. Len(looped)
    BY <1>1
  <2>3. QED BY <2>1, <2>2 DEF ToSet
<1>4. \A e \in EventIn(chunk) : e < it
  <2>1. \A e \in EventIn(chunk) : e \in ToSet(looped) /\ kind[e] = "keep"
    BY DEF RowsInv, RowsOk, KeptOf
  <2>2. \A e \in EventIn(chunk) : e # it
    BY <2>1 DEF OnThrowing
  <2>3. QED BY <1>1, <1>3, <2>1, <2>2
<1>5. \A f \in 1 .. it - 1 : kind[f] = "keep" => f \in ToSet(looped)
  <2>1. Counted(calls) = ToSet(looped) \cup ({it} \ {NoEvent})
    BY DEF StreamInv, NothingDropped
  <2>2. QED BY <1>1, <2>1, BoundsAssumption DEF Counted, Delivers
<1>6. kind[it] = "throws" /\ calls \in Nat /\ calls <= calls
  BY <1>1, BoundsAssumption DEF OnThrowing
<1>7. RowsOk(FlattenSeq(given), chunk, looped, it, calls)
  BY DEF RowsInv
<1>8. QED BY <1>1, <1>2, <1>4, <1>5, <1>6, <1>7, FrameLost

(* The invariant after a step, from what it says of the new values. *)
LEMMA RowsInvNext ==
  ASSUME kind' = kind, RowsOk(FlattenSeq(given'), chunk', looped', it', calls'),
         it' # NoEvent /\ pc' # "finish" => it' \notin EventIn(chunk'),
         pc' = "finish" => it' = NoEvent \/ kind[it'] # "throws"
  PROVE  RowsInv'
<1>1. RowsOk(FlattenSeq(given), chunk, looped, it, calls)'
        <=> RowsOk(FlattenSeq(given'), chunk', looped', it', calls')
  BY DEF RowsOk, Whole, LostAt, KeptBetween, KeptOf, Increasing, EventIn
<1>2. EventIn(chunk)' = EventIn(chunk')
  BY DEF EventIn
<1>3. QED BY <1>1, <1>2 DEF RowsInv, OnThrowing

LEMMA RowsLoop ==
  ASSUME GenInv, RowsInv, Cut \/ Keep
  PROVE  RowsInv'
<1> DEFINE F == FlattenSeq(given)
           row == [event |-> it, estimate |-> calls]
           c == IF kind[it] = "keep" THEN Append(chunk, row) ELSE chunk
           stop == IF kind[it] = "keep" THEN ReachedLimit(nproc + 1) \/ ChunkFull(c)
                                        ELSE ReachedLimit(nproc + 1)
           seen == Append(looped, it)
<1>1. /\ pc = "loop" /\ it # NoEvent /\ kind[it] \in {"keep", "cut"} /\ looped' = seen
      /\ kind' = kind /\ GoOn(stop, c)
  BY DEF Cut, Keep, InLoop, LoopedOver, inputVars
<1> HIDE DEF stop
<1>2. c \in Seq(Row) /\ Len(c) <= MaxChunk /\ RowsOk(F, c, seen, it, calls)
  <2> DEFINE d == c
  <2>1. d = IF kind[it] = "keep" THEN Append(chunk, [event |-> it, estimate |-> calls]) ELSE chunk
    OBVIOUS
  <2> HIDE DEF d
  <2>2. d \in Seq(Row) /\ Len(d) <= MaxChunk /\ RowsOk(FlattenSeq(given), d, Append(looped, it), it, calls)
    BY <1>1, <2>1, RowsLooped
  <2>3. QED BY <2>2 DEF d
<1>3. F \in Seq(Row) /\ TypeOK /\ AllLooped(seen) /\ ~OnThrowing
  <2>1. TypeOK /\ StreamInv
    BY DEF GenInv
  <2>2. AllLooped(seen)
    BY <1>1, <2>1, LoopingOver
  <2>3. QED BY <1>1, <2>1, <2>2, RowsType DEF OnThrowing
<1> HIDE DEF F, c, seen
<1>4. it \notin EventIn(F)
  BY <1>1, <1>2 DEF RowsOk
<1>5. CASE stop
  <2>1. pc' = "finish" /\ chunk' = c /\ given' = given /\ it' = it /\ calls' = calls
    BY <1>1, <1>5 DEF GoOn, sourceVars
  <2>2. RowsOk(FlattenSeq(given'), chunk', looped', it', calls')
    BY <1>1, <1>2, <2>1 DEF F
  <2>3. QED BY <1>1, <2>1, <2>2, RowsInvNext
<1>6. CASE ~stop /\ Advance
  <2>1. pc' = "loop" /\ chunk' = c /\ given' = given
    BY <1>1, <1>6 DEF GoOn, Advance, AdvanceFails
  <2>2. RowsOk(F, c, seen, it', calls') /\ (it' # NoEvent => it' \notin EventIn(F) \cup EventIn(c))
    BY <1>2, <1>3, <1>6, RowsAdvanced
  <2>3. RowsOk(FlattenSeq(given'), chunk', looped', it', calls')
    BY <1>1, <2>1, <2>2 DEF F
  <2>4. QED BY <1>1, <2>1, <2>2, <2>3, RowsInvNext
<1>7. CASE AdvanceFails
  <2>1. pc' = "idle" /\ chunk' = <<>> /\ given' = given
    BY <1>7 DEF AdvanceFails, LeaveCall
  <2>2. RowsOk(F, <<>>, seen, it', calls')
    BY <1>2, <1>3, <1>7, RowsOfFailure
  <2>3. RowsOk(FlattenSeq(given'), chunk', looped', it', calls')
    BY <1>1, <2>1, <2>2 DEF F
  <2>4. EventIn(chunk') = {}
    BY <2>1, EmptySeq DEF EventIn
  <2>5. QED BY <1>1, <2>1, <2>3, <2>4, RowsInvNext
<1>8. QED BY <1>1, <1>5, <1>6, <1>7 DEF GoOn

(* The rows of the frame are lost, those before it stay. *)
LEMMA RowsThrow ==
  ASSUME GenInv, RowsInv, Throw
  PROVE  RowsInv'
<1>1. /\ pc = "loop" /\ OnThrowing /\ pc' = "idle" /\ chunk' = <<>>
      /\ UNCHANGED <<kind, it, calls, given, looped>>
  BY DEF Throw, InLoop, LeaveCall, inputVars, OnThrowing
<1>2. RowsOk(FlattenSeq(given), <<>>, looped, it, calls)
  BY <1>1, RowsThrown
<1>3. RowsOk(FlattenSeq(given'), chunk', looped', it', calls')
  BY <1>1, <1>2
<1>4. EventIn(chunk') = {}
  BY <1>1, EmptySeq DEF EventIn
<1>5. QED BY <1>1, <1>3, <1>4, RowsInvNext

(* The end of next() hands out the rows of the frame and starts another.   *)
LEMMA RowsFinish ==
  ASSUME GenInv, RowsInv, Finish
  PROVE  RowsInv'
<1> DEFINE rows == FinalEstimate(chunk)
           F == FlattenSeq(given)
<1>1. /\ pc = "finish" /\ UNCHANGED <<kind, looped>> /\ ~OnThrowing
      /\ (Advance /\ Return(rows)) \/ AdvanceFails
      /\ chunk' = <<>> /\ pc' # "finish"
  BY DEF Finish, inputVars, Return, AdvanceFails, LeaveCall, RowsInv
<1>2. /\ F \in Seq(Row) /\ chunk \in Seq(Row) /\ given \in Seq(Seq(Row)) /\ TypeOK
      /\ AllLooped(looped) /\ RowsOk(F, chunk, looped, it, calls) /\ Len(chunk) <= MaxChunk
  <2>1. TypeOK /\ StreamInv /\ Len(chunk) <= want
    BY DEF GenInv, LimitInv
  <2>2. chunk \in Seq(Row) /\ want \in 1 .. MaxChunk /\ given \in Seq(Seq(Row)) /\ F \in Seq(Row)
    BY <2>1, RowsType DEF TypeOK
  <2>3. Len(chunk) <= MaxChunk
    BY <2>1, <2>2, LenProperties, BoundsAssumption
  <2>4. AllLooped(looped) /\ RowsOk(F, chunk, looped, it, calls)
    BY <1>1, <2>1 DEF StreamInv, RowsInv
  <2>5. QED BY <2>1, <2>2, <2>3, <2>4
<1>3. EventIn(<<>>) = {} /\ <<>> \in Seq(Row)
  BY EmptySeq DEF EventIn
<1>4. CASE AdvanceFails
  <2>1. given' = given
    BY <1>4 DEF AdvanceFails, LeaveCall
  <2>2. RowsOk(F, <<>>, looped, it', calls')
    BY <1>2, <1>4, RowsOfFailure
  <2>3. RowsOk(FlattenSeq(given'), chunk', looped', it', calls')
    BY <1>1, <2>1, <2>2
  <2>4. QED BY <1>1, <1>3, <2>3, RowsInvNext
<1>5. CASE Advance /\ Return(rows)
  <2>1. /\ rows \in Seq(Row) /\ Len(rows) = Len(chunk)
        /\ \A i \in 1 .. Len(chunk) : rows[i].event = chunk[i].event
    <3>1. CASE chunk = <<>>
      BY <1>2, <3>1 DEF FinalEstimate
    <3>2. CASE chunk # <<>>
      <4>1. rows = [chunk EXCEPT ![Len(chunk)].estimate = calls]
        BY <3>2 DEF FinalEstimate
      <4>2. rows \in Seq(Row) /\ Len(rows) = Len(chunk)
        BY <1>2, <3>2, FinalEstimateOfLast DEF GenInv, TypeOK
      <4>3. DOMAIN chunk = 1 .. Len(chunk) /\ \A i \in 1 .. Len(chunk) : chunk[i] \in Row
        BY <1>2, LenProperties, ElementOfSeq
      <4>4. \A i \in 1 .. Len(chunk) :
              rows[i] = IF i = Len(chunk) THEN [chunk[i] EXCEPT !.estimate = calls] ELSE chunk[i]
        BY <4>1, <4>3
      <4>5. \A i \in 1 .. Len(chunk) : [chunk[i] EXCEPT !.estimate = calls].event = chunk[i].event
        BY <4>3 DEF Row
      <4>6. QED BY <4>2, <4>4, <4>5
    <3>3. QED BY <3>1, <3>2
  <2> HIDE DEF rows, F
  <2>2. RowsOk(F, chunk, looped, it', calls')
        /\ (it' # NoEvent => it' \notin EventIn(F) \cup EventIn(chunk))
    BY <1>1, <1>2, <1>5, RowsAdvanced
  <2>3. Increasing(F \o rows) /\ EventIn(rows) = EventIn(chunk)
    BY <1>2, <2>1, <2>2, JoinedSame DEF RowsOk
  <2>4. F \o rows \in Seq(Row) /\ EventIn(F \o rows) = EventIn(F) \cup EventIn(chunk)
    BY <1>2, <2>1, <2>3, EventsJoined
  <2>5. FlattenSeq(given') = F \o rows
    <3>1. CASE rows = <<>>
      <4>1. given' = given
        BY <1>5, <3>1 DEF Return
      <4>2. QED BY <1>2, <3>1, <4>1, ConcatEmptySeq DEF F
    <3>2. CASE rows # <<>>
      <4>1. given' = Append(given, rows)
        BY <1>5, <3>2 DEF Return
      <4>2. QED BY <1>2, <2>1, <4>1, FlattenAppend DEF F
    <3>3. QED BY <3>1, <3>2
  <2>6. (F \o rows) \o <<>> = F \o rows
    BY <2>4, ConcatEmptySeq
  <2>7. RowsOk(F \o rows, <<>>, looped, it', calls')
    BY <1>3, <2>2, <2>3, <2>4, <2>6 DEF RowsOk, Whole
  <2>8. RowsOk(FlattenSeq(given'), chunk', looped', it', calls')
    BY <1>1, <2>5, <2>7
  <2>9. QED BY <1>1, <1>3, <2>8, RowsInvNext
<1>6. QED BY <1>1, <1>4, <1>5

(* Steps that hand out nothing and loop over nothing. *)
LEMMA RowsStay ==
  ASSUME RowsInv, UNCHANGED <<kind, it, calls, given, chunk, looped>>,
         pc' = "finish" => it = NoEvent \/ pc = "finish",
         pc = "finish" => pc' = "finish"
  PROVE  RowsInv'
<1>1. RowsOk(FlattenSeq(given'), chunk', looped', it', calls')
  BY DEF RowsInv
<1>2. QED BY <1>1, RowsInvNext DEF RowsInv, OnThrowing

(* Nothing has been handed out or looped over. *)
LEMMA NoRows ==
  ASSUME NEW i, NEW n
  PROVE  RowsOk(<<>>, <<>>, <<>>, i, n) /\ EventIn(<<>>) = {} /\ FlattenSeq(<<>>) = <<>>
<1>1. EventIn(<<>>) = {} /\ ToSet(<<>>) = {} /\ Len(<<>>) = 0
  BY EmptySeq DEF EventIn, ToSet
<1>2. <<>> \o <<>> = <<>>
  BY EmptySeq, ConcatEmptySeq
<1>3. QED BY <1>1, <1>2, FlattenEmpty DEF RowsOk, Increasing, KeptOf, Whole

LEMMA RowsFirstFrame ==
  ASSUME GenInv, RowsInv, NEW n \in 1 .. MaxChunk, NEW isArrow \in BOOLEAN, NEW isAll \in BOOLEAN,
         FirstFrame(n, isArrow, isAll)
  PROVE  RowsInv'
<1>1. given' = <<>> /\ looped' = <<>> /\ chunk' = <<>> /\ kind' = kind /\ pc' # "finish"
  <2>1. pc' \in {"idle", "loop"}
    BY DEF FirstFrame, ReturnAtLimit
  <2>2. QED BY <2>1 DEF FirstFrame, GenInv, LimitInv, inputVars
<1>2. RowsOk(FlattenSeq(given'), chunk', looped', it', calls') /\ EventIn(chunk') = {}
  BY <1>1, NoRows
<1>3. QED BY <1>1, <1>2, RowsInvNext

LEMMA InitRowsInv == Init => RowsInv
  BY NoRows DEF Init, RowsInv

LEMMA NextKeepsRows == GenInv /\ RowsInv /\ [Next]_vars => RowsInv'
<1> SUFFICES ASSUME GenInv, RowsInv, [Next]_vars PROVE RowsInv'
  OBVIOUS
<1>1. ASSUME NEW n \in 1 .. MaxChunk, NEW a \in BOOLEAN, NEW b \in BOOLEAN, FirstFrame(n, a, b)
      PROVE  RowsInv'
  BY <1>1, RowsFirstFrame
<1>2. ASSUME (\E n \in 1 .. MaxChunk : \E a \in BOOLEAN : NextFrame(n, a)) \/ NextOfAll
      PROVE  RowsInv'
  <2>1. /\ pc \in {"idle", "again"} /\ EnterNext
        /\ UNCHANGED <<kind, it, calls, looped>>
    BY <1>2 DEF NextFrame, NextOfAll, inputVars, sourceVars
  <2>2. given' = given /\ chunk' = chunk /\ pc' # "finish"
    BY <2>1 DEF EnterNext, ReturnAtLimit
  <2>3. QED BY <2>1, <2>2, RowsStay
<1>3. CASE Refuse
  BY <1>3, RowsStay DEF Refuse, inputVars, sourceVars
<1>4. CASE Cut \/ Keep BY <1>4, RowsLoop
<1>5. CASE Throw BY <1>5, RowsThrow
<1>6. CASE SourceEnds
  BY <1>6, RowsStay DEF SourceEnds, inputVars, sourceVars
<1>7. CASE Finish BY <1>7, RowsFinish
<1>8. CASE UNCHANGED vars
  BY <1>8, RowsStay DEF vars, inputVars, sourceVars
<1>9. QED BY <1>1, <1>2, <1>3, <1>4, <1>5, <1>6, <1>7, <1>8 DEF Next, Inside

(* What the invariant says of the events of the rows. *)
LEMMA RowEvents ==
  ASSUME TypeOK, RowsInv
  PROVE  /\ EventsOf(Rows) \in Seq(1 .. MaxCalls)
         /\ \A i, j \in 1 .. Len(EventsOf(Rows)) : i < j => EventsOf(Rows)[i] < EventsOf(Rows)[j]
         /\ ToSet(EventsOf(Rows)) = EventIn(Rows)
         /\ EventIn(Rows) \subseteq KeptOf(looped)
         /\ \A e \in KeptOf(looped) \ EventIn(Rows) :
              \E k \in e + 1 .. MaxCalls : LostAt(e, k, it, calls)
<1> DEFINE R == Rows
           ev == EventsOf(R)
           m == Len(R)
<1>1. R \in Seq(Row) /\ Increasing(R) /\ EventIn(R) = EventIn(FlattenSeq(given)) \cup EventIn(chunk)
  <2>1. FlattenSeq(given) \in Seq(Row) /\ chunk \in Seq(Row) /\ R = FlattenSeq(given) \o chunk
    BY RowsType
  <2>2. Increasing(FlattenSeq(given) \o chunk)
    BY DEF RowsInv, RowsOk
  <2> HIDE DEF R
  <2>3. QED BY <2>1, <2>2, EventsJoined
<1>2. /\ EventIn(R) \subseteq KeptOf(looped)
      /\ \A e \in KeptOf(looped) \ EventIn(R) :
              \E k \in e + 1 .. MaxCalls : LostAt(e, k, it, calls)
  BY <1>1 DEF RowsInv, RowsOk
<1> HIDE DEF R
<1>3. m \in Nat /\ \A i \in 1 .. m : R[i].event \in 1 .. MaxCalls
  <2>1. m \in Nat
    BY <1>1, LenProperties
  <2>2. \A i \in 1 .. m : R[i] \in Row
    BY <1>1, ElementOfSeq
  <2> HIDE DEF m
  <2>3. QED BY <2>1, <2>2 DEF Row
<1>4. ev = [i \in 1 .. m |-> R[i].event]
  BY DEF EventsOf
<1> HIDE DEF ev
<1>5. ev \in Seq(1 .. MaxCalls) /\ Len(ev) = m /\ DOMAIN ev = 1 .. m
      /\ \A i \in 1 .. m : ev[i] = R[i].event
  BY <1>3, <1>4
<1>6. ToSet(ev) = EventIn(R)
  BY <1>5 DEF ToSet, EventIn
<1>7. \A i, j \in 1 .. Len(ev) : i < j => ev[i] < ev[j]
  BY <1>1, <1>5 DEF Increasing
<1>8. QED BY <1>2, <1>5, <1>6, <1>7 DEF R, ev

LEMMA RowsInvMeans == GenInv /\ RowsInv => RowsAreTheKept
<1> SUFFICES ASSUME GenInv, RowsInv PROVE RowsAreTheKept
  OBVIOUS
<1> DEFINE ev == EventsOf(Rows)
           K == KeptOf(looped)
<1>1. /\ ev \in Seq(1 .. MaxCalls)
      /\ \A i, j \in 1 .. Len(ev) : i < j => ev[i] < ev[j]
      /\ ToSet(ev) = EventIn(Rows) /\ EventIn(Rows) \subseteq K
      /\ \A e \in K \ EventIn(Rows) : \E k \in e + 1 .. MaxCalls : LostAt(e, k, it, calls)
  BY RowEvents DEF GenInv
<1>2. ToSet(Kept(looped)) = K
  <2>1. looped \in Seq(1 .. MaxCalls)
    BY DEF GenInv, TypeOK
  <2>2. ToSet(Kept(looped)) = ToSet(looped) \cap {e \in 1 .. MaxCalls : kind[e] = "keep"}
    BY <2>1, OnlyInElements DEF Kept
  <2>3. ToSet(looped) \subseteq 1 .. MaxCalls
    BY <2>1, ToSetType
  <2>4. QED BY <2>2, <2>3 DEF KeptOf
<1>3. DOMAIN ev = 1 .. Len(ev)
  BY <1>1
<1>4. \A e, k : LostAt(e, k, it, calls) => RowsFailed(e, k)
  BY DEF LostAt, RowsFailed, KeptBetween
<1> HIDE DEF K
<1>5. \A e \in ToSet(Kept(looped)) \ ToSet(ev) : \E k \in e + 1 .. MaxCalls : RowsFailed(e, k)
  BY <1>1, <1>2, <1>4
<1>6. QED BY <1>1, <1>2, <1>3, <1>5 DEF RowsAreTheKept

-----------------------------------------------------------------------------
(* A whole pass.  all() goes on only while the source has not failed, and  *)
(* the loop ends early only at the limit or with a row.                    *)
UpTo(n) == [k \in 1 .. n |-> k]

PassInv ==
  /\ inAll => \A k \in 1 .. calls : ~Fails(k)
  /\ pc = "finish" /\ it # NoEvent => nproc = limit \/ chunk # <<>>
  /\ AllIsComplete

(* Two sequences in increasing order with the same elements.               *)
LEMMA SameInOrder ==
  ASSUME NEW s \in Seq(Nat), NEW t \in Seq(Nat), ToSet(s) = ToSet(t),
         \A i, j \in 1 .. Len(s) : i < j => s[i] < s[j],
         \A i, j \in 1 .. Len(t) : i < j => t[i] < t[j]
  PROVE  s = t
<1> DEFINE m == Len(s)
           n == Len(t)
           N == m + n
           P(i) == /\ i <= m <=> i <= n
                   /\ i <= m => \A j \in 1 .. i : s[j] = t[j]
           S == {i \in 0 .. N : P(i)}
<1>1. /\ m \in Nat /\ n \in Nat
      /\ \A i \in 1 .. m : s[i] \in Nat /\ s[i] \in ToSet(t)
      /\ \A i \in 1 .. n : t[i] \in Nat /\ t[i] \in ToSet(s)
      /\ \A i, j \in 1 .. m : i < j => s[i] < s[j]
      /\ \A i, j \in 1 .. n : i < j => t[i] < t[j]
  <2>1. DOMAIN s = 1 .. m /\ DOMAIN t = 1 .. n
    OBVIOUS
  <2>2. (\A i \in 1 .. m : s[i] \in ToSet(s)) /\ (\A i \in 1 .. n : t[i] \in ToSet(t))
    BY <2>1 DEF ToSet
  <2>3. QED BY <2>2, LenProperties, ElementOfSeq
<1>2. /\ \A e \in ToSet(s) : \E i \in 1 .. m : s[i] = e
      /\ \A e \in ToSet(t) : \E i \in 1 .. n : t[i] = e
  BY DEF ToSet
<1> HIDE DEF m, n
<1>3. N \in Nat /\ m \in 0 .. N /\ n \in 0 .. N
  BY <1>1
<1>4. 0 \in S
  BY <1>1
<1>5. ASSUME NEW i \in 0 .. N - 1, i \in S PROVE i + 1 \in S
  <2>1. i \in Nat /\ i + 1 \in 0 .. N /\ P(i)
    BY <1>1, <1>5
  <2>2. ASSUME i + 1 <= m PROVE i + 1 <= n /\ t[i + 1] <= s[i + 1]
    <3>1. i + 1 \in 1 .. m /\ i <= m /\ \A j \in 1 .. i : s[j] = t[j] /\ s[j] < s[i + 1]
      BY <1>1, <2>1, <2>2
    <3>2. PICK j \in 1 .. n : t[j] = s[i + 1]
      BY <1>1, <1>2, <3>1
    <3>3. ~(j <= i)
      <4>1. j <= i => j \in 1 .. i
        BY <1>1
      <4>2. QED BY <1>1, <3>1, <3>2, <4>1
    <3>4. i + 1 <= j /\ i + 1 \in 1 .. n
      BY <1>1, <2>1, <3>3
    <3>5. t[i + 1] <= t[j]
      <4>1. i + 1 = j \/ i + 1 < j
        BY <2>1, <3>4
      <4>2. t[j] \in Nat /\ (i + 1 < j => t[i + 1] < t[j])
        BY <1>1, <3>4
      <4>3. t[i + 1] \in Nat
        BY <1>1, <3>4
      <4>4. QED BY <1>1, <2>1, <3>4, <4>1, <4>2, <4>3
    <3>6. QED BY <1>1, <3>2, <3>4, <3>5
  <2>3. ASSUME i + 1 <= n PROVE i + 1 <= m /\ s[i + 1] <= t[i + 1]
    <3>1. i + 1 \in 1 .. n /\ i <= m /\ \A j \in 1 .. i : s[j] = t[j] /\ t[j] < t[i + 1]
      BY <1>1, <2>1, <2>3
    <3>2. PICK j \in 1 .. m : s[j] = t[i + 1]
      BY <1>1, <1>2, <3>1
    <3>3. ~(j <= i)
      <4>1. j <= i => j \in 1 .. i
        BY <1>1
      <4>2. QED BY <1>1, <3>1, <3>2, <4>1
    <3>4. i + 1 <= j /\ i + 1 \in 1 .. m
      BY <1>1, <2>1, <3>3
    <3>5. s[i + 1] <= s[j]
      <4>1. i + 1 = j \/ i + 1 < j
        BY <2>1, <3>4
      <4>2. s[j] \in Nat /\ (i + 1 < j => s[i + 1] < s[j])
        BY <1>1, <3>4
      <4>3. s[i + 1] \in Nat
        BY <1>1, <3>4
      <4>4. QED BY <1>1, <2>1, <3>4, <4>1, <4>2, <4>3
    <3>6. QED BY <1>1, <3>2, <3>4, <3>5
  <2>4. i + 1 <= m => \A j \in 1 .. i + 1 : s[j] = t[j]
    <3> SUFFICES ASSUME i + 1 <= m, NEW j \in 1 .. i + 1 PROVE s[j] = t[j]
      OBVIOUS
    <3>1. j \in 1 .. i \/ j = i + 1
      BY <2>1
    <3>2. s[i + 1] = t[i + 1]
      <4>1. i + 1 \in 1 .. m /\ i + 1 \in 1 .. n
        BY <1>1, <2>1, <2>2
      <4>2. QED BY <1>1, <2>2, <2>3, <4>1
    <3>3. i <= m
      BY <1>1, <2>1
    <3>4. QED BY <2>1, <3>1, <3>2, <3>3
  <2>5. QED BY <2>1, <2>2, <2>3, <2>4
<1> HIDE DEF S, N
<1>6. \A i \in 0 .. N : i \in S
  BY <1>3, <1>4, <1>5, BoundedInduction
<1>7. m \in S /\ n \in S
  BY <1>3, <1>6
<1>8. P(m) /\ P(n)
  BY <1>7 DEF S
<1>9. m = n /\ \A j \in 1 .. m : s[j] = t[j]
  BY <1>1, <1>8
<1>10. QED BY <1>9, SeqEqual DEF m, n

(* What is kept of the events in their order is in order.                  *)
LEMMA KeptInOrder ==
  LET K == Kept(UpTo(MaxCalls)) IN
  /\ K \in Seq(Nat) /\ ToSet(K) = {e \in 1 .. MaxCalls : kind[e] = "keep"}
  /\ \A i, j \in 1 .. Len(K) : i < j => K[i] < K[j]
<1> DEFINE keep == {e \in 1 .. MaxCalls : kind[e] = "keep"}
           Ordered(s) == \A i, j \in 1 .. Len(s) : i < j => s[i] < s[j]
           S == {n \in 0 .. MaxCalls :
                   /\ OnlyIn(UpTo(n), keep) \in Seq(1 .. n)
                   /\ ToSet(OnlyIn(UpTo(n), keep)) = {e \in 1 .. n : e \in keep}
                   /\ Ordered(OnlyIn(UpTo(n), keep))}
<1>1. MaxCalls \in Nat
  BY BoundsAssumption
<1>2. \A n \in 0 .. MaxCalls : UpTo(n) \in Seq(1 .. n) /\ Len(UpTo(n)) = n
  BY <1>1 DEF UpTo
<1> HIDE DEF keep
<1>3. 0 \in S
  <2>1. ToSet(<<>>) = {} /\ Len(<<>>) = 0 /\ <<>> \in Seq(1 .. 0)
    BY EmptySeq DEF ToSet
  <2>2. UpTo(0) = <<>>
    BY <1>1, <1>2, EmptySeq
  <2>3. OnlyIn(UpTo(0), keep) = <<>>
    BY <2>2, OnlyInEmpty
  <2>4. 0 \in 0 .. MaxCalls /\ {e \in 1 .. 0 : e \in keep} = {}
    BY <1>1
  <2>5. OnlyIn(UpTo(0), keep) \in Seq(1 .. 0) /\ ToSet(OnlyIn(UpTo(0), keep)) = {}
        /\ Len(OnlyIn(UpTo(0), keep)) = 0
    BY <2>1, <2>3
  <2>6. Ordered(OnlyIn(UpTo(0), keep))
    BY <2>5
  <2>7. QED BY <2>4, <2>5, <2>6
<1>4. ASSUME NEW n \in 0 .. MaxCalls - 1, n \in S PROVE n + 1 \in S
  <2> DEFINE k == n + 1
             K == OnlyIn(UpTo(n), keep)
             L == OnlyIn(UpTo(k), keep)
  <2>1. n \in Nat /\ k \in 1 .. MaxCalls /\ k \in 0 .. MaxCalls /\ k - 1 = n
    BY <1>1
  <2>2. K \in Seq(1 .. n) /\ ToSet(K) = {e \in 1 .. n : e \in keep} /\ Ordered(K)
    BY <1>4
  <2>3. UpTo(k) = Append(UpTo(n), k)
    <3> DEFINE a == Append(UpTo(n), k)
    <3>1. UpTo(n) \in Seq(Nat) /\ Len(UpTo(n)) = n /\ k \in Nat
      BY <1>1, <1>2, <2>1
    <3>2. /\ a \in Seq(Nat) /\ Len(a) = k /\ a[k] = k
          /\ \A i \in 1 .. n : a[i] = UpTo(n)[i]
      BY <2>1, <3>1, AppendProperties
    <3>3. UpTo(k) \in Seq(Nat) /\ Len(UpTo(k)) = k
      BY <1>1, <2>1 DEF UpTo
    <3> HIDE DEF a
    <3>4. \A i \in 1 .. k : i = k \/ i \in 1 .. n
      BY <2>1
    <3>5. \A i \in 1 .. k : a[i] = i
      BY <3>2, <3>4 DEF UpTo
    <3>6. \A i \in 1 .. k : UpTo(k)[i] = i
      BY DEF UpTo
    <3>7. UpTo(k) = a
      BY <3>2, <3>3, <3>5, <3>6, SeqEqual
    <3>8. QED BY <3>7 DEF a
  <2>4. UpTo(n) \in Seq(1 .. k) /\ K \in Seq(1 .. k) /\ k \in 1 .. k
    <3>1. 1 .. n \subseteq 1 .. k
      BY <2>1
    <3>2. UpTo(n) \in Seq(1 .. n)
      BY <1>1, <1>2
    <3>3. QED BY <2>1, <2>2, <3>1, <3>2, SeqWiden
  <2> HIDE DEF k, K, L
  <2>5. L = IF k \in keep THEN Append(K, k) ELSE K
    <3> DEFINE u == UpTo(n)
               T == 1 .. k
    <3>1. u \in Seq(T) /\ k \in T
      BY <2>4
    <3> HIDE DEF u, T
    <3>2. OnlyIn(Append(u, k), keep) = IF k \in keep THEN Append(OnlyIn(u, keep), k) ELSE OnlyIn(u, keep)
      BY <3>1, OnlyInAppend
    <3>3. UpTo(k) = Append(u, k)
      BY <2>3 DEF u, k
    <3>4. QED BY <3>2, <3>3 DEF L, K, u
  <2>6. \A e : e \in 1 .. k <=> e \in 1 .. n \/ e = k
    BY <2>1
  <2>7. CASE k \notin keep
    <3>1. L = K /\ {e \in 1 .. k : e \in keep} = {e \in 1 .. n : e \in keep}
      BY <2>5, <2>6, <2>7
    <3>2. QED BY <2>1, <2>2, <2>4, <3>1 DEF k, L
  <2>8. CASE k \in keep
    <3>1. L = Append(K, k)
      BY <2>5, <2>8
    <3>2. /\ L \in Seq(1 .. k) /\ Len(L) = Len(K) + 1 /\ Len(K) \in Nat
          /\ \A i \in 1 .. Len(K) : L[i] = K[i]
          /\ L[Len(K) + 1] = k
      BY <2>4, <3>1, AppendProperties, LenProperties
    <3>3. ToSet(L) = {e \in 1 .. k : e \in keep}
      <4>1. ToSet(L) = ToSet(K) \cup {k}
        BY <2>4, <3>1, ToSetAppend
      <4>2. QED BY <2>2, <2>6, <2>8, <4>1
    <3>4. Ordered(L)
      <4>1. \A i \in 1 .. Len(K) : K[i] \in 1 .. n
        BY <2>2, ElementOfSeq
      <4>2. \A i \in 1 .. Len(K) : K[i] < k
        BY <2>1, <4>1 DEF k
      <4>3. \A i \in 1 .. Len(L) : i = Len(K) + 1 \/ i \in 1 .. Len(K)
        BY <3>2
      <4>4. ASSUME NEW i \in 1 .. Len(L), NEW j \in 1 .. Len(L), i < j PROVE L[i] < L[j]
        <5>1. i \in 1 .. Len(K)
          BY <3>2, <4>4
        <5>2. CASE j = Len(K) + 1
          BY <3>2, <4>2, <5>1, <5>2
        <5>3. CASE j \in 1 .. Len(K)
          BY <2>2, <3>2, <4>4, <5>1, <5>3
        <5>4. QED BY <4>3, <5>2, <5>3
      <4>5. QED BY <4>4
    <3>5. QED BY <2>1, <3>2, <3>3, <3>4 DEF k, L
  <2>9. QED BY <2>7, <2>8
<1> HIDE DEF S
<1>5. \A n \in 0 .. MaxCalls : n \in S
  BY <1>1, <1>3, <1>4, BoundedInduction
<1>6. MaxCalls \in S
  BY <1>1, <1>5
<1> DEFINE K == OnlyIn(UpTo(MaxCalls), keep)
<1>7. K \in Seq(1 .. MaxCalls) /\ ToSet(K) = {e \in 1 .. MaxCalls : e \in keep} /\ Ordered(K)
  BY <1>6 DEF S
<1>8. K \in Seq(Nat)
  <2>1. 1 .. MaxCalls \subseteq Nat
    BY <1>1
  <2> HIDE DEF K
  <2>2. QED BY <1>7, <2>1, SeqWiden
<1>9. Kept(UpTo(MaxCalls)) = K /\ {e \in 1 .. MaxCalls : e \in keep} = {e \in 1 .. MaxCalls : kind[e] = "keep"}
  BY DEF Kept, keep
<1> HIDE DEF K
<1>10. QED BY <1>7, <1>8, <1>9

(* A source that does not resume gives nothing after it has ended.         *)
LEMMA NothingAfterTheEnd ==
  ASSUME TypeOK, ~Resumes, ~Delivers(calls), ~Fails(calls)
  PROVE  \A k \in 1 .. MaxCalls : k >= calls => kind[k] = "none"
<1>1. calls \in 1 .. MaxCalls + 1 /\ MaxCalls \in Nat
  BY BoundsAssumption DEF TypeOK
<1> DEFINE S == {k \in 0 .. MaxCalls : k >= calls => kind[k] = "none"}
<1>2. 0 \in S
  BY <1>1
<1>3. calls <= MaxCalls => kind[calls] = "none"
  BY <1>1 DEF Delivers, Fails
<1>4. ASSUME NEW n \in 0 .. MaxCalls - 1, n \in S PROVE n + 1 \in S
  <2>1. n \in Nat /\ n + 1 \in 0 .. MaxCalls /\ (n >= calls => kind[n] = "none")
    BY <1>1, <1>4
  <2>2. ASSUME n >= calls PROVE kind[n + 1] = "none"
    <3>1. n + 1 \in 2 .. MaxCalls /\ n + 1 - 1 = n
      BY <1>1, <2>1, <2>2
    <3>2. kind[n + 1 - 1] = "none"
      BY <2>1, <2>2, <3>1
    <3>3. QED BY <3>1, <3>2 DEF Resumes
  <2>3. n + 1 >= calls => n >= calls \/ n + 1 = calls
    BY <1>1, <2>1
  <2>4. n + 1 = calls => kind[n + 1] = "none"
    BY <1>1, <1>3, <2>1
  <2>5. QED BY <2>1, <2>2, <2>3, <2>4
<1> HIDE DEF S
<1>5. \A n \in 0 .. MaxCalls : n \in S
  BY <1>1, <1>2, <1>4, BoundedInduction
<1>6. QED BY <1>1, <1>5 DEF S

(* Once the source has ended without a failure there is a row of every     *)
(* event that passes the filters.                                          *)
LEMMA AllRowsAreThere ==
  ASSUME TypeOK, RowsInv, ~Resumes, ~Delivers(calls), it = NoEvent,
         \A k \in 1 .. calls : ~Fails(k), Counted(calls) = ToSet(looped)
  PROVE  EventsOf(Rows) = Kept(UpTo(MaxCalls))
<1> DEFINE ev == EventsOf(Rows)
           K == Kept(UpTo(MaxCalls))
<1>1. calls \in 1 .. MaxCalls + 1 /\ MaxCalls \in Nat
  BY BoundsAssumption DEF TypeOK
<1>2. /\ ev \in Seq(1 .. MaxCalls)
      /\ \A i, j \in 1 .. Len(ev) : i < j => ev[i] < ev[j]
      /\ ToSet(ev) = EventIn(Rows) /\ EventIn(Rows) \subseteq KeptOf(looped)
      /\ \A e \in KeptOf(looped) \ EventIn(Rows) : \E k \in e + 1 .. MaxCalls : LostAt(e, k, it, calls)
  BY RowEvents
<1>3. /\ K \in Seq(Nat) /\ ToSet(K) = {e \in 1 .. MaxCalls : kind[e] = "keep"}
      /\ \A i, j \in 1 .. Len(K) : i < j => K[i] < K[j]
  BY KeptInOrder
<1> HIDE DEF ev, K
<1>4. ev \in Seq(Nat)
  <2>1. 1 .. MaxCalls \subseteq Nat
    BY <1>1
  <2>2. QED BY <1>2, <2>1, SeqWiden
<1>5. ASSUME NEW e \in 1 .. MaxCalls, NEW k \in e + 1 .. MaxCalls PROVE ~LostAt(e, k, it, calls)
  <2>1. k \in 1 .. MaxCalls
    BY <1>1
  <2>2. k # it
    BY <2>1, <1>1 DEF NoEvent
  <2>3. k <= calls => kind[k] # "fails"
    BY <1>1, <2>1 DEF Fails
  <2>4. QED BY <2>2, <2>3 DEF LostAt
<1>6. KeptOf(looped) = {e \in 1 .. MaxCalls : kind[e] = "keep"}
  <2>1. \A e \in 1 .. MaxCalls : kind[e] = "keep" => e < calls
    <3>1. ~Fails(calls)
      BY <1>1
    <3>2. \A k \in 1 .. MaxCalls : k >= calls => kind[k] = "none"
      BY <3>1, NothingAfterTheEnd
    <3>3. QED BY <1>1, <3>2
  <2>2. \A e \in 1 .. MaxCalls : kind[e] = "keep" => e \in Counted(calls)
    BY <1>1, <2>1 DEF Counted, Delivers
  <2>3. Counted(calls) \subseteq 1 .. MaxCalls
    BY DEF Counted
  <2>4. QED BY <2>2, <2>3 DEF KeptOf
<1>7. KeptOf(looped) \subseteq EventIn(Rows)
  BY <1>2, <1>5, <1>6
<1>8. ToSet(ev) = ToSet(K)
  BY <1>2, <1>3, <1>6, <1>7
<1>9. ev = K
  BY <1>2, <1>3, <1>4, <1>8, SameInOrder
<1>10. QED BY <1>9 DEF ev, K

LEMMA CompleteAfter ==
  ASSUME kind' = kind,
         result' = "all" /\ pc' = "idle" /\ ~Resumes =>
           nproc' = limit' \/ (Rows' = Rows /\ EventsOf(Rows) = Kept(UpTo(MaxCalls)))
  PROVE  AllIsComplete'
<1>1. Resumes' = Resumes /\ EventsOf(Rows)' = EventsOf(Rows')
      /\ Kept([k \in 1 .. MaxCalls |-> k])' = Kept(UpTo(MaxCalls))
  BY DEF Resumes, EventsOf, Kept, UpTo
<1>2. QED BY <1>1 DEF AllIsComplete

(* Another call of the source that has not failed.                         *)
LEMMA NoFailureYet ==
  ASSUME TypeOK, Advance, kind' = kind, \A k \in 1 .. calls : ~Fails(k)
  PROVE  \A k \in 1 .. calls' : ~Fails(k)'
<1>1. calls \in Nat /\ ~Fails(calls + 1) /\ calls' = IF calls <= MaxCalls THEN calls + 1 ELSE calls
  BY BoundsAssumption DEF TypeOK, Advance
<1>2. \A k : Fails(k)' <=> Fails(k)
  BY DEF Fails
<1>3. \A k \in 1 .. calls' : k \in 1 .. calls \/ k = calls + 1
  BY <1>1, BoundsAssumption
<1>4. QED BY <1>1, <1>2, <1>3

LEMMA PassLoop ==
  ASSUME GenInv, PassInv, Cut \/ Keep
  PROVE  PassInv'
<1> DEFINE row == [event |-> it, estimate |-> calls]
           c == IF kind[it] = "keep" THEN Append(chunk, row) ELSE chunk
           stop == IF kind[it] = "keep" THEN ReachedLimit(nproc + 1) \/ ChunkFull(c)
                                        ELSE ReachedLimit(nproc + 1)
<1>1. /\ pc = "loop" /\ it # NoEvent /\ UNCHANGED <<kind, limit>> /\ nproc' = nproc + 1
      /\ GoOn(stop, c)
  BY DEF Cut, Keep, InLoop, LoopedOver, inputVars
<1>2. stop => nproc' = limit \/ c # <<>>
  <2>1. ReachedLimit(nproc + 1) => nproc' = limit
    BY <1>1, BoundsAssumption DEF ReachedLimit, GenInv, LimitInv, TypeOK
  <2>2. chunk \in Seq(Row)
    BY DEF GenInv, TypeOK
  <2>3. Append(chunk, row) # <<>>
    <3>1. it \in 1 .. MaxCalls /\ calls \in 1 .. MaxCalls + 1
      BY <1>1, BoundsAssumption DEF GenInv, TypeOK, NoEvent
    <3>2. row \in Row
      BY <3>1 DEF Row
    <3> HIDE DEF row
    <3>3. QED BY <2>2, <3>2, Grown
  <2>4. QED BY <2>1, <2>3
<1> HIDE DEF stop, c
<1>3. TypeOK
  BY DEF GenInv
<1>4. \A k : Fails(k)' <=> Fails(k)
  BY <1>1 DEF Fails
<1>5. CASE stop
  <2>1. pc' = "finish" /\ chunk' = c /\ UNCHANGED <<calls, it, inAll>>
    BY <1>1, <1>5 DEF GoOn, sourceVars
  <2>2. AllIsComplete'
    BY <2>1 DEF AllIsComplete
  <2>3. QED BY <1>1, <1>2, <1>4, <1>5, <2>1, <2>2 DEF PassInv
<1>6. CASE Advance /\ pc' = "loop" /\ inAll' = inAll
  <2>1. inAll' => \A k \in 1 .. calls' : ~Fails(k)'
    BY <1>1, <1>3, <1>6, NoFailureYet DEF PassInv
  <2>2. QED BY <1>6, <2>1 DEF PassInv, AllIsComplete
<1>7. CASE AdvanceFails
  <2>1. pc' = "idle" /\ inAll' = FALSE /\ result' = "threw"
    BY <1>7 DEF AdvanceFails, LeaveCall
  <2>2. QED BY <2>1 DEF PassInv, AllIsComplete
<1>8. QED BY <1>1, <1>5, <1>6, <1>7 DEF GoOn

LEMMA PassFinish ==
  ASSUME GenInv, RowsInv, PassInv, Finish
  PROVE  PassInv'
<1>1. /\ pc = "finish" /\ UNCHANGED <<kind, limit, looped, nproc>>
      /\ (Advance /\ Return(FinalEstimate(chunk))) \/ AdvanceFails
  BY DEF Finish, inputVars
<1>2. CASE AdvanceFails
  <2>1. pc' = "idle" /\ inAll' = FALSE /\ result' = "threw"
    BY <1>2 DEF AdvanceFails, LeaveCall
  <2>2. QED BY <2>1 DEF PassInv, AllIsComplete
<1>3. CASE Advance /\ Return(FinalEstimate(chunk))
  <2>1. TypeOK /\ chunk' = <<>> /\ pc' # "finish" /\ (inAll' => inAll)
    BY <1>3 DEF Return, GenInv
  <2>2. inAll' => \A k \in 1 .. calls' : ~Fails(k)'
    BY <1>1, <1>3, <2>1, NoFailureYet DEF PassInv
  <2>3. ASSUME result' = "all", pc' = "idle", ~Resumes, nproc # limit
        PROVE  Rows' = Rows /\ EventsOf(Rows) = Kept(UpTo(MaxCalls))
    <3>1. FinalEstimate(chunk) = <<>> /\ given' = given /\ inAll
      <4>1. ~(inAll /\ More(FinalEstimate(chunk))) /\ inAll
        BY <1>3, <2>3 DEF Return
      <4>2. QED BY <1>3, <4>1 DEF More, Return
    <3>2. chunk = <<>>
      BY <3>1, FinalEstimateOfLast DEF GenInv, TypeOK
    <3>3. it = NoEvent
      BY <1>1, <2>3, <3>2 DEF PassInv
    <3>4. Rows' = Rows
      BY <2>1, <3>1, <3>2 DEF Rows
    <3>5. ~Delivers(calls) /\ Counted(calls) = ToSet(looped)
      BY <1>1, <3>3 DEF GenInv, StreamInv, HoldsLast, AllLooped
    <3>6. \A k \in 1 .. calls : ~Fails(k)
      BY <3>1 DEF PassInv
    <3>7. QED BY <2>1, <2>3, <3>3, <3>4, <3>5, <3>6, AllRowsAreThere
  <2>4. AllIsComplete'
    BY <1>1, <2>3, CompleteAfter
  <2>5. QED BY <2>1, <2>2, <2>4 DEF PassInv
<1>4. QED BY <1>1, <1>2, <1>3

LEMMA PassFirstFrame ==
  ASSUME GenInv, PassInv, NEW n \in 1 .. MaxChunk, NEW isArrow \in BOOLEAN, NEW isAll \in BOOLEAN,
         FirstFrame(n, isArrow, isAll)
  PROVE  PassInv'
<1>1. /\ calls' = 1 /\ kind' = kind /\ limit' = limit
      /\ nproc' = 0 /\ pc' \in {"idle", "loop"}
      /\ pc' = "idle" => ReachedLimit(0)
  BY DEF FirstFrame, ReturnAtLimit, Rewind, inputVars
<1>2. limit \in Nat
  BY BoundsAssumption DEF GenInv, TypeOK
<1>3. pc' = "idle" => nproc' = limit'
  BY <1>1, <1>2 DEF ReachedLimit
<1>4. \A k \in 1 .. calls' : ~Fails(k)'
  <2>1. ~Fails(1)' /\ \A k \in 1 .. calls' : k = 1
    BY <1>1 DEF GenInv, StreamInv, Fails
  <2>2. QED BY <2>1
<1>5. QED BY <1>1, <1>3, <1>4 DEF PassInv, AllIsComplete

(* Steps that leave the source alone, and come to the end of all() only at *)
(* the limit.                                                              *)
LEMMA PassStays ==
  ASSUME PassInv, UNCHANGED <<kind, calls>>, inAll' => inAll,
         pc' = "finish" => it' = NoEvent,
         pc' = "idle" /\ result' = "all" => nproc' = limit'
  PROVE  PassInv'
<1>1. \A k : Fails(k)' <=> Fails(k)
  BY DEF Fails
<1>2. QED BY <1>1 DEF PassInv, AllIsComplete

LEMMA InitPassInv == Init => PassInv
  BY DEF Init, PassInv, AllIsComplete

LEMMA NextKeepsPass == GenInv /\ RowsInv /\ PassInv /\ [Next]_vars => PassInv'
<1> SUFFICES ASSUME GenInv, RowsInv, PassInv, [Next]_vars PROVE PassInv'
  OBVIOUS
<1>1. ASSUME NEW n \in 1 .. MaxChunk, NEW a \in BOOLEAN, NEW b \in BOOLEAN, FirstFrame(n, a, b)
      PROVE  PassInv'
  BY <1>1, PassFirstFrame
<1>2. ASSUME (\E n \in 1 .. MaxChunk : \E a \in BOOLEAN : NextFrame(n, a)) \/ NextOfAll
      PROVE  PassInv'
  <2>1. EnterNext /\ UNCHANGED <<kind, limit, calls, it, nproc>>
    BY <1>2 DEF NextFrame, NextOfAll, inputVars, sourceVars
  <2>2. pc' \in {"idle", "loop"} /\ (pc' = "idle" => ReachedLimit(nproc)) /\ (inAll' => inAll)
    BY <2>1 DEF EnterNext, ReturnAtLimit
  <2>3. ReachedLimit(nproc) => nproc = limit
    BY BoundsAssumption DEF ReachedLimit, GenInv, TypeOK, LimitInv, WithinLimitAndChunk
  <2>4. QED BY <2>1, <2>2, <2>3, PassStays
<1>3. CASE Refuse
  BY <1>3, PassStays DEF Refuse, inputVars, sourceVars, callVars
<1>4. CASE Cut \/ Keep
  BY <1>4, PassLoop
<1>5. CASE Throw
  BY <1>5, PassStays DEF Throw, LeaveCall, inputVars
<1>6. CASE SourceEnds
  BY <1>6, PassStays DEF SourceEnds, inputVars, sourceVars, callVars
<1>7. CASE Finish
  BY <1>7, PassFinish
<1>8. CASE UNCHANGED vars
  <2>1. UNCHANGED <<kind, limit, calls, it, nproc, inAll, pc, chunk, result, given, looped>>
    BY <1>8 DEF vars, inputVars, sourceVars, callVars
  <2>2. Resumes' = Resumes /\ Rows' = Rows /\ \A k : Fails(k)' <=> Fails(k)
    BY <2>1 DEF Resumes, Rows, Fails
  <2>3. /\ EventsOf(Rows)' = EventsOf(Rows)
        /\ Kept([k \in 1 .. MaxCalls |-> k])' = Kept([k \in 1 .. MaxCalls |-> k])
    BY <2>1, <2>2 DEF Kept, EventsOf
  <2>4. QED BY <2>1, <2>2, <2>3 DEF PassInv, AllIsComplete
<1>9. QED BY <1>1, <1>2, <1>3, <1>4, <1>5, <1>6, <1>7, <1>8 DEF Next, Inside

-----------------------------------------------------------------------------
(* Every value stays in its type, whatever the filters, the projections    *)
(* and the source do.                                                      *)
THEOREM GenTypeCorrect == Spec => []TypeOK
<1>1. GenInv => TypeOK
  BY DEF GenInv
<1>2. QED BY <1>1, InitGenInv, NextKeepsGenInv, PTL DEF Spec

(* No event that the source delivered is dropped between two calls of      *)
(* next(), whatever throws.  An event is looped over again only when it    *)
(* was held through calls of the source that failed, and no more often     *)
(* than there were of these.                                               *)
THEOREM NoEventDropped == Spec => []NothingDropped
<1>1. GenInv => NothingDropped
  BY DEF GenInv, StreamInv
<1>2. QED BY <1>1, InitGenInv, NextKeepsGenInv, PTL DEF Spec

(* next() loops over no more events than the limit and never writes a row  *)
(* beyond the chunk it allocated.                                          *)
THEOREM LimitAndChunkHold == Spec => []WithinLimitAndChunk
<1>1. GenInv => WithinLimitAndChunk
  BY DEF GenInv, LimitInv
<1>2. QED BY <1>1, InitGenInv, NextKeepsGenInv, PTL DEF Spec

(* The estimate column: a row covers the events up to its own, the last    *)
(* row of a frame all the events looped over, cut ones included.           *)
THEOREM EstimatesAreOfTheLooped == Spec => []EstimateIsWhatWasLooped
<1>1. GenInv => EstimateIsWhatWasLooped
  <2> SUFFICES ASSUME GenInv PROVE EstimateIsWhatWasLooped
    OBVIOUS
  <2>1. ASSUME NEW f \in ToSet(given) PROVE OwnEstimates(f, Len(f) - 1)
    <3>1. PICK k \in DOMAIN given : f = given[k]
      BY DEF ToSet
    <3>2. DOMAIN given = 1 .. Len(given)
      BY DEF GenInv, TypeOK
    <3>3. QED BY <3>1, <3>2 DEF GenInv, EstimateInv
  <2>2. QED BY <2>1 DEF GenInv, EstimateInv, EstimateIsWhatWasLooped, OwnEstimates
<1>2. QED BY <1>1, InitGenInv, NextKeepsGenInv, PTL DEF Spec

(* The rows handed out are those of the events that pass the filters, in   *)
(* order and each once, however the calls cut the stream into frames.      *)
(* Missing are at most the rows of a frame that was being filled when the  *)
(* source, a filter or a projection threw.                                 *)
THEOREM RowsAreTheKeptEvents == Spec => []RowsAreTheKept
<1>1. QED BY InitRowsInv, RowsInvMeans, InitGenInv, NextKeepsGenInv, NextKeepsRows, PTL DEF Spec

(* all() returns every event that passes the filters, unless the limit     *)
(* stopped it, an exception left it or the source resumed after its end.   *)
THEOREM AllReturnsEverything == Spec => []AllIsComplete
<1>1. PassInv => AllIsComplete
  BY DEF PassInv
<1>2. QED
  BY <1>1, InitGenInv, InitRowsInv, InitPassInv, NextKeepsGenInv, NextKeepsRows, NextKeepsPass, PTL DEF Spec
=============================================================================
