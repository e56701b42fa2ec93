------------------------ MODULE CombinedSourceProofs ------------------------
(***************************************************************************)
(* Theorems about CombinedSource for any number of components and events.  *)
(*                                                                         *)
(* TypeCorrect comes first.  The reader invariant ReadInv then gives what  *)
(* a pass delivers (StreamInOrder, NothingSkipped, FinishedIsDrained), the *)
(* turn invariant TurnInv gives the order of the turns (RoundRobin) and    *)
(* what an early end of the stream loses (EndLosesOnlyLongTails), the      *)
(* invariant CountInv gives what norm_info() counts, and the refinement of *)
(* Merge is shown step by step.                                            *)
(***************************************************************************)
EXTENDS CombinedSource, DataLemmas, TLAPS

(* The two places where next_src() can start its scan. *)
LEMMA ScanStart ==
  ASSUME NEW i \in 0 .. N
  PROVE  /\ (i + 1) % N \in 0 .. N - 1
         /\ i < N - 1 => (i + 1) % N = i + 1
         /\ i = N - 1 => (i + 1) % N = 0
<1>1. N \in Nat /\ N > 0
  BY NAssumption
<1>2. (i + 1) % N \in 0 .. N - 1
  BY <1>1
<1>3. i < N - 1 => (i + 1) % N = i + 1
  BY <1>1
<1>4. i = N - 1 => (i + 1) % N = 0
  BY <1>1
<1>. QED
  BY <1>2, <1>3, <1>4

(* The variables keep their types. *)
THEOREM TypeCorrect == Spec => []TypeOK
<1>0. N \in Nat \ {0} /\ MaxSize \in Nat /\ 0 \in Comp
  BY NAssumption, MaxSizeAssumption DEF Comp
<1>1. Init => TypeOK
  BY <1>0 DEF Init, TypeOK, CStatus, NoEvent
<1>2. TypeOK /\ [Next]_vars => TypeOK'
  <2> SUFFICES ASSUME TypeOK, [Next]_vars
               PROVE  TypeOK'
    OBVIOUS
  <2> USE <1>0 DEF TypeOK
  <2>1. ASSUME First
        PROVE  TypeOK'
    <3>0. srcIt' \in 0 .. N /\ pc' \in {"new", "idle", "loop"} /\ size' = size
      BY <2>1 DEF First
    <3>1. CASE FirstDelivers
      <4>1. MaxSize >= 1
        BY <3>1 DEF FirstDelivers
      <4>2. status' \in [Comp -> CStatus]
        BY <3>1 DEF FirstDelivers, Restarted, CStatus
      <4>3. <<0, 1>> \in Comp \X (1 .. MaxSize)
        BY <4>1
      <4>4. out' \in Seq(Comp \X (1 .. MaxSize))
        BY <3>1, <4>3 DEF FirstDelivers
      <4>5. seen' \in [Comp -> 0 .. MaxSize]
        BY <3>1, <4>1 DEF FirstDelivers
      <4>. QED
        BY <3>0, <3>1, <4>2, <4>3, <4>4, <4>5 DEF FirstDelivers
    <3>2. CASE FirstFails
      <4>1. status' \in [Comp -> CStatus]
        BY <3>2 DEF FirstFails, Restarted, CStatus
      <4>2. seen' \in [Comp -> 0 .. MaxSize]
        BY <3>2 DEF FirstFails
      <4>3. out' \in Seq(Comp \X (1 .. MaxSize))
        BY <3>2 DEF FirstFails
      <4>. QED
        BY <3>0, <3>2, <4>1, <4>2, <4>3 DEF FirstFails, NoEvent
    <3>. QED
      BY <2>1, <3>1, <3>2 DEF First
  <2>2. ASSUME CallNext
        PROVE  TypeOK'
    BY <2>2 DEF CallNext
  <2>3. ASSUME VisitDelivers
        PROVE  TypeOK'
    <3>1. srcIt \in Comp
      BY <2>3 DEF VisitDelivers, Comp
    <3>2. Turn(srcIt) \in 1 .. MaxSize
      BY <2>3, <3>1 DEF VisitDelivers, HasTurn, Turn
    <3>3. ret' \in Comp \X (1 .. MaxSize) /\ out' = Append(out, ret')
      BY <2>3, <3>1, <3>2 DEF VisitDelivers
    <3>4. out' \in Seq(Comp \X (1 .. MaxSize))
      BY <3>3
    <3>5. seen' \in [Comp -> 0 .. MaxSize] /\ status' \in [Comp -> CStatus]
      BY <2>3, <3>1, <3>2 DEF VisitDelivers, HadEvent, CStatus
    <3>. QED
      BY <2>3, <3>3, <3>4, <3>5 DEF VisitDelivers
  <2>4. ASSUME VisitDry
        PROVE  TypeOK'
    BY <2>4 DEF VisitDry, HadNone, CStatus, Comp, callVars
  <2>5. ASSUME ReturnNothing
        PROVE  TypeOK'
    BY <2>5 DEF ReturnNothing, sourceVars
  <2>6. CASE UNCHANGED vars
    BY <2>6 DEF vars, sourceVars, callVars
  <2>. QED
    BY <2>1, <2>2, <2>3, <2>4, <2>5, <2>6 DEF Next, InLoop
<1>. QED
  BY <1>1, <1>2, PTL DEF Spec

-----------------------------------------------------------------------------
(* The reader invariant: readers stay inside their files, a component was  *)
(* given up only when drained, and what was returned in this pass is what  *)
(* the readers of the components restarted in this pass moved past.        *)
ReadInv ==
  /\ \A c \in Comp : seen[c] <= size[c]
  /\ FinishedIsDrained
  /\ StreamInOrder
  /\ NothingSkipped

(* One step that only moves srcIt and the program counter, or marks a      *)
(* component whose reader is at its end, leaves the invariant alone.       *)
LEMMA ReadInvStable ==
  ASSUME TypeOK, ReadInv, UNCHANGED <<size, seen, out>>,
         status' \in [Comp -> CStatus],
         \A c \in Comp : Taken(c)' = Taken(c),
         \A c \in Comp : status'[c] = "kFinished" => seen[c] = size[c]
  PROVE  ReadInv'
<1>1. \A j \in 1 .. Len(out) : out[j][1] \in Comp
  BY DEF TypeOK
<1>2. StreamInOrder'
  BY <1>1 DEF ReadInv, StreamInOrder
<1>3. NothingSkipped'
  BY DEF ReadInv, NothingSkipped
<1>4. FinishedIsDrained'
  BY DEF FinishedIsDrained
<1>. QED
  BY <1>2, <1>3, <1>4 DEF ReadInv

(* first() opens a pass with nothing but, if there is one, the first event *)
(* of component 0.                                                         *)
LEMMA ReadInvFirst ==
  ASSUME TypeOK, ReadInv, First
  PROVE  ReadInv'
<1>0. N \in Nat \ {0} /\ 0 \in Comp
  BY NAssumption DEF Comp
<1>1. CASE FirstDelivers
  <2>1. \A c \in Comp : Taken(c)' = IF c = 0 THEN 1 ELSE 0
    BY <1>0, <1>1 DEF FirstDelivers, Restarted, Taken, TypeOK
  <2>2. out' = << <<0, 1>> >> /\ size' = size
    BY <1>1 DEF FirstDelivers, First
  <2>3. \A c \in Comp : seen'[c] <= size'[c]
    BY <1>0, <1>1, <2>2 DEF FirstDelivers, TypeOK, ReadInv
  <2>4. FinishedIsDrained'
    BY <1>0, <1>1 DEF FirstDelivers, Restarted, FinishedIsDrained
  <2>5. Len(out') = 1 /\ out'[1] = <<0, 1>>
    BY <2>2
  <2>6. StreamInOrder'
    BY <1>0, <2>1, <2>5 DEF StreamInOrder
  <2>7. NothingSkipped'
    <3> SUFFICES ASSUME NEW c \in Comp, NEW k \in 1 .. Taken(c)'
                 PROVE  \E i \in 1 .. Len(out') : out'[i] = <<c, k>>
      BY DEF NothingSkipped
    <3>1. c = 0 /\ k = 1
      BY <2>1
    <3>. QED
      BY <3>1, <2>5
  <2>. QED
    BY <2>3, <2>4, <2>6, <2>7 DEF ReadInv
<1>2. CASE FirstFails
  <2>1. \A c \in Comp : Taken(c)' = 0
    BY <1>0, <1>2 DEF FirstFails, Restarted, Taken, TypeOK
  <2>2. out' = <<>> /\ size' = size
    BY <1>2 DEF FirstFails, First
  <2>3. \A c \in Comp : seen'[c] <= size'[c]
    BY <1>0, <1>2, <2>2 DEF FirstFails, TypeOK, ReadInv
  <2>4. FinishedIsDrained'
    BY <1>0, <1>2, <2>2 DEF FirstFails, Restarted, FinishedIsDrained, TypeOK
  <2>5. Len(out') = 0
    BY <2>2
  <2>6. StreamInOrder'
    BY <2>5 DEF StreamInOrder
  <2>7. NothingSkipped'
    BY <2>1 DEF NothingSkipped
  <2>. QED
    BY <2>3, <2>4, <2>6, <2>7 DEF ReadInv
<1>. QED
  BY <1>1, <1>2 DEF First

(* An event that is returned is the next one of its component.             *)
LEMMA Delivered ==
  ASSUME TypeOK, VisitDelivers
  PROVE  /\ srcIt \in Comp
         /\ Turn(srcIt) = Taken(srcIt) + 1
         /\ Turn(srcIt) <= size[srcIt]
         /\ Taken(srcIt)' = Turn(srcIt)
         /\ seen'[srcIt] = Turn(srcIt)
         /\ \A c \in Comp \ {srcIt} : /\ Taken(c)' = Taken(c)
                                      /\ seen'[c] = seen[c]
                                      /\ status'[c] = status[c]
         /\ status'[srcIt] = "kHasEvents"
         /\ srcIt' = srcIt /\ size' = size
         /\ Len(out') = Len(out) + 1
         /\ out'[Len(out) + 1] = <<srcIt, Turn(srcIt)>>
         /\ \A i \in 1 .. Len(out) : out'[i] = out[i]
<1>1. srcIt \in Comp
  BY NAssumption DEF VisitDelivers, Comp, TypeOK
<1>2. status' = [status EXCEPT ![srcIt] = "kHasEvents"]
  BY DEF VisitDelivers, HadEvent
<1>3. seen' = [seen EXCEPT ![srcIt] = Turn(srcIt)] /\ srcIt' = srcIt
  BY DEF VisitDelivers
<1>4. Turn(srcIt) \in Nat
  BY <1>1 DEF Turn, TypeOK
<1>5. Turn(srcIt) = Taken(srcIt) + 1
  BY <1>1 DEF Turn, Taken, TypeOK
<1>6. Taken(srcIt)' = Turn(srcIt) /\ seen'[srcIt] = Turn(srcIt)
  BY <1>1, <1>2, <1>3 DEF Taken, TypeOK
<1>7. \A c \in Comp \ {srcIt} : Taken(c)' = Taken(c) /\ seen'[c] = seen[c]
                                /\ status'[c] = status[c]
  BY <1>1, <1>2, <1>3 DEF Taken, TypeOK
<1>8. out' = Append(out, <<srcIt, Turn(srcIt)>>)
  BY DEF VisitDelivers
<1>9. out \in Seq(Comp \X (1 .. MaxSize))
  BY DEF TypeOK
<1>10. /\ Len(out') = Len(out) + 1
       /\ out'[Len(out) + 1] = <<srcIt, Turn(srcIt)>>
       /\ \A i \in 1 .. Len(out) : out'[i] = out[i]
  BY <1>8, <1>9
<1>11. status'[srcIt] = "kHasEvents"
  BY <1>1, <1>2 DEF TypeOK
<1>12. size' = size /\ Turn(srcIt) <= size[srcIt]
  BY DEF VisitDelivers, HasTurn
<1>. QED
  BY <1>1, <1>3, <1>5, <1>6, <1>7, <1>10, <1>11, <1>12

(* A visit that returns an event extends the stream by it.                 *)
LEMMA ReadInvDelivers ==
  ASSUME TypeOK, ReadInv, VisitDelivers
  PROVE  ReadInv'
<1> DEFINE Now(c) == IF status'[c] = "kFirst" THEN 0 ELSE seen'[c]
<1>1. Len(out) \in Nat /\ \A j \in 1 .. Len(out) : out[j][1] \in Comp
  BY DEF TypeOK
<1>2. \A c \in Comp : /\ Taken(c) \in Nat /\ Now(c) \in Nat
                      /\ Taken(c) <= Now(c) /\ Taken(c)' = Now(c)
  BY Delivered DEF Taken, TypeOK
<1>3. \A c \in Comp : seen'[c] <= size'[c]
  BY Delivered DEF ReadInv, TypeOK
<1>4. FinishedIsDrained'
  BY Delivered DEF ReadInv, FinishedIsDrained
<1>5. StreamInOrder'
  <2>0. Now(srcIt) = Turn(srcIt) /\ Turn(srcIt) = Taken(srcIt) + 1
    BY Delivered DEF Taken
  <2> SUFFICES ASSUME NEW j \in 1 .. Len(out')
               PROVE  /\ out'[j][2] \in 1 .. Now(out'[j][1])
                      /\ \A i \in 1 .. j - 1 :
                           out'[i][1] = out'[j][1] => out'[i][2] < out'[j][2]
    BY DEF StreamInOrder, Taken
  <2> HIDE DEF Now
  <2>1. CASE j \in 1 .. Len(out)
    <3>1. out'[j] = out[j] /\ \A i \in 1 .. j - 1 : out'[i] = out[i]
      BY <1>1, <2>1, Delivered
    <3>2. out[j][2] \in 1 .. Taken(out[j][1])
      BY <2>1 DEF ReadInv, StreamInOrder
    <3>3. \A i \in 1 .. j - 1 : out[i][1] = out[j][1] => out[i][2] < out[j][2]
      BY <2>1 DEF ReadInv, StreamInOrder
    <3>4. out[j][1] \in Comp
      BY <1>1, <2>1
    <3>5. out[j][2] \in 1 .. Now(out[j][1])
      BY <1>2, <3>2, <3>4
    <3>. QED
      BY <3>1, <3>3, <3>5
  <2>2. CASE j = Len(out) + 1
    <3>1. out'[j] = <<srcIt, Taken(srcIt) + 1>>
      BY <2>0, <2>2, Delivered
    <3>2. \A i \in 1 .. j - 1 : out'[i] = out[i] /\ out[i][2] \in 1 .. Taken(out[i][1])
      BY <1>1, <2>2, Delivered DEF ReadInv, StreamInOrder
    <3>3. Taken(srcIt) \in Nat
      BY <1>2, Delivered
    <3>4. \A i \in 1 .. j - 1 : out[i][1] = srcIt => out[i][2] < Taken(srcIt) + 1
      BY <3>2, <3>3
    <3>. QED
      BY <2>0, <3>1, <3>2, <3>3, <3>4
  <2>3. Len(out') = Len(out) + 1
    BY Delivered
  <2>4. j \in 1 .. Len(out) \/ j = Len(out) + 1
    BY <1>1, <2>3
  <2>. QED
    BY <2>1, <2>2, <2>4
<1>6. NothingSkipped'
  <2> SUFFICES ASSUME NEW c \in Comp, NEW k \in 1 .. Taken(c)'
               PROVE  \E i \in 1 .. Len(out') : out'[i] = <<c, k>>
    BY DEF NothingSkipped
  <2>1. CASE k \in 1 .. Taken(c)
    <3>1. PICK i \in 1 .. Len(out) : out[i] = <<c, k>>
      BY <2>1 DEF ReadInv, NothingSkipped
    <3>. QED
      BY <1>1, <3>1, Delivered
  <2>2. CASE k \notin 1 .. Taken(c)
    <3>1. c = srcIt /\ k = Turn(srcIt)
      BY <1>2, <2>2, Delivered
    <3>. QED
      BY <1>1, <3>1, Delivered
  <2>. QED
    BY <2>1, <2>2
<1>. QED
  BY <1>3, <1>4, <1>5, <1>6 DEF ReadInv

(* The reader that a visit finds dry is at its end. *)
LEMMA FoundDry ==
  ASSUME TypeOK, ReadInv, VisitDry
  PROVE  /\ srcIt \in Comp
         /\ Taken(srcIt) = size[srcIt]
         /\ UNCHANGED <<size, seen, out>>
         /\ status' = [status EXCEPT ![srcIt] = "kFinished"]
         /\ \A c \in Comp : Taken(c)' = Taken(c)
         /\ seen[srcIt] = size[srcIt]
<1>1. srcIt \in Comp
  BY NAssumption DEF VisitDry, Comp, TypeOK
<1>2. seen[srcIt] \in Nat /\ size[srcIt] \in Nat /\ seen[srcIt] <= size[srcIt]
  BY <1>1 DEF TypeOK, ReadInv
<1>3. Turn(srcIt) > size[srcIt]
  BY <1>1, <1>2 DEF VisitDry, HasTurn, Turn
<1>4. seen[srcIt] = size[srcIt] /\ Taken(srcIt) = size[srcIt]
  BY <1>2, <1>3 DEF Turn, Taken
<1>5. seen' = seen /\ size' = size /\ out' = out
  BY <1>1, <1>4 DEF VisitDry, callVars, TypeOK
<1>6. status' = [status EXCEPT ![srcIt] = "kFinished"]
  BY DEF VisitDry, HadNone
<1>7. \A c \in Comp : Taken(c)' = Taken(c)
  BY <1>1, <1>4, <1>5, <1>6 DEF Taken, TypeOK
<1>. QED
  BY <1>1, <1>4, <1>5, <1>6, <1>7

(* Every step keeps the reader invariant. *)
LEMMA ReadInvNext ==
  ASSUME TypeOK, TypeOK', ReadInv, [Next]_vars
  PROVE  ReadInv'
<1>1. CASE First
  BY <1>1, ReadInvFirst
<1>2. CASE CallNext
  <2>1. UNCHANGED <<size, seen, out>> /\ status' = status
    BY <1>2 DEF CallNext
  <2>2. \A c \in Comp : Taken(c)' = Taken(c)
    BY <2>1 DEF Taken
  <2>3. \A c \in Comp : status'[c] = "kFinished" => seen[c] = size[c]
    BY <2>1 DEF ReadInv, FinishedIsDrained
  <2>. QED
    BY <2>1, <2>2, <2>3, ReadInvStable DEF TypeOK
<1>3. CASE VisitDelivers
  BY <1>3, ReadInvDelivers
<1>4. CASE VisitDry
  <2>1. \A c \in Comp : status'[c] = "kFinished" => seen[c] = size[c]
    BY <1>4, FoundDry DEF ReadInv, FinishedIsDrained, TypeOK
  <2>. QED
    BY <1>4, <2>1, FoundDry, ReadInvStable DEF TypeOK
<1>5. CASE ReturnNothing \/ UNCHANGED vars
  <2>1. UNCHANGED <<size, seen, out>> /\ status' = status
    BY <1>5 DEF ReturnNothing, vars, sourceVars, callVars
  <2>2. \A c \in Comp : Taken(c)' = Taken(c)
    BY <2>1 DEF Taken
  <2>3. \A c \in Comp : status'[c] = "kFinished" => seen[c] = size[c]
    BY <2>1 DEF ReadInv, FinishedIsDrained
  <2>. QED
    BY <2>1, <2>2, <2>3, ReadInvStable DEF TypeOK
<1>. QED
  BY <1>1, <1>2, <1>3, <1>4, <1>5 DEF Next, InLoop

LEMMA ReadInvCorrect == Spec => []ReadInv
<1>1. Init => ReadInv
  BY DEF Init, ReadInv, FinishedIsDrained, StreamInOrder, NothingSkipped, Taken, Comp
<1>2. TypeOK /\ TypeOK' /\ ReadInv /\ [Next]_vars => ReadInv'
  BY ReadInvNext
<1>. QED
  BY <1>1, <1>2, TypeCorrect, PTL DEF Spec

(* What the consumer gets in a pass: no event twice or out of order ...    *)
THEOREM StreamStaysInOrder == Spec => []StreamInOrder
<1>1. ReadInv => StreamInOrder
  BY DEF ReadInv
<1>. QED
  BY <1>1, ReadInvCorrect, PTL

(* ... and none that a reader has moved past is missing.                   *)
THEOREM NothingIsSkipped == Spec => []NothingSkipped
<1>1. ReadInv => NothingSkipped
  BY DEF ReadInv
<1>. QED
  BY <1>1, ReadInvCorrect, PTL

-----------------------------------------------------------------------------
(* The turn invariant.  Served(c) is 1 when component c has already had    *)
(* its turn in the current round of the robin.  Until next() has returned  *)
(* nothing, two live components are apart by the turns they have had, and  *)
(* once the last component is finished every live one is beyond its size.  *)
Live(c) == status[c] # "kFinished"

Served(c) == IF c < srcIt \/ (c = srcIt /\ pc # "loop") THEN 1 ELSE 0

Balanced ==
  \A c, d \in Comp :
    Live(c) /\ Live(d) => Taken(c) - Served(c) = Taken(d) - Served(d)

BeyondLast ==
  ~Live(N - 1) =>
    \A c \in Comp : Live(c) => Taken(c) >= size[N - 1] + 1 + Served(c)

TurnInv ==
  /\ pc = "new" => srcIt = 0 /\ \A c \in Comp : status[c] = "kFirst"
  /\ ~ended =>
       /\ pc # "new" => Balanced /\ BeyondLast
       /\ srcIt = N => ~Live(N - 1) /\ pc = "loop"
  /\ EndLosesOnlyLongTails

(* The loop of next() enters every component up to the one it stops at. *)
LEMMA ScanFinds ==
  ASSUME NEW st, NEW i \in 0 .. N, NEW c \in 0 .. N, IsNextSrc(st, i, c)
  PROVE  /\ i < N - 1 => i < c
         /\ \A d \in Comp :
              d < c /\ (i < d \/ i = N - 1) => st[d] = "kFinished"
         /\ c = N => st[N - 1] = "kFinished"
<1>1. N \in Nat /\ N > 0
  BY NAssumption
<1>. QED
  BY <1>1, ScanStart DEF IsNextSrc, FirstLiveFrom, Comp

LEMMA TurnInvFirst ==
  ASSUME TypeOK, First
  PROVE  TurnInv'
<1>0. N \in Nat \ {0} /\ 0 \in Comp /\ N - 1 \in Comp
  BY NAssumption DEF Comp
<1>1. srcIt' = 0 /\ pc' = "idle" /\ ended' = FALSE /\ size' = size
  BY DEF First, FirstDelivers, FirstFails
<1>2. \A c \in Comp : Served(c)' = IF c = 0 THEN 1 ELSE 0
  BY <1>0, <1>1 DEF Served, Comp
<1>3. \A c \in Comp :
        /\ c # 0 => Taken(c)' = 0 /\ Live(c)'
        /\ c = 0 /\ Live(c)' => Taken(c)' = 1
  BY <1>0 DEF First, FirstDelivers, FirstFails, Restarted, Taken, Live, TypeOK
<1>4. Balanced'
  BY <1>2, <1>3 DEF Balanced
<1>5. BeyondLast'
  BY <1>0, <1>3 DEF BeyondLast, Comp
<1>6. (srcIt = N => ~Live(N - 1) /\ pc = "loop")'
  BY <1>0, <1>1
<1>7. EndLosesOnlyLongTails'
  BY <1>1 DEF EndLosesOnlyLongTails
<1>. QED
  BY <1>1, <1>4, <1>5, <1>6, <1>7 DEF TurnInv

LEMMA TurnInvCallNext ==
  ASSUME TypeOK, TurnInv, CallNext
  PROVE  TurnInv'
<1>0. N \in Nat \ {0} /\ N - 1 \in Comp /\ Comp = 0 .. N - 1
  BY NAssumption DEF Comp
<1>1. /\ UNCHANGED <<size, seen, status, ended>> /\ pc = "idle" /\ pc' = "loop"
      /\ \A c \in Comp : Taken(c)' = Taken(c) /\ (Live(c)' <=> Live(c))
  BY DEF CallNext, Taken, Live
<1>2. /\ srcIt' \in 0 .. N
      /\ IsNextSrc(status, srcIt, srcIt')
  BY DEF CallNext
<1>3. EndLosesOnlyLongTails'
  BY <1>1 DEF TurnInv, EndLosesOnlyLongTails, Comp
<1>4. ASSUME ~ended
      PROVE  /\ Balanced' /\ BeyondLast'
             /\ (srcIt = N => ~Live(N - 1) /\ pc = "loop")'
  <2>1. srcIt \in 0 .. N - 1 /\ Balanced /\ BeyondLast
    BY <1>0, <1>1, <1>4 DEF TurnInv, TypeOK
  <2>2. srcIt' = N => ~Live(N - 1)
    BY <1>2, ScanFinds DEF TypeOK, Live
  <2>3. \A c \in Comp : Taken(c) \in Nat
    BY DEF Taken, TypeOK
  <2>4. CASE srcIt < N - 1
    <3>1. \A c \in Comp : Live(c) => Served(c)' = Served(c)
      <4>0. srcIt \in 0 .. N
        BY <1>0, <2>1
      <4>1. srcIt < srcIt' /\ srcIt' \in 0 .. N
        BY <1>2, <2>4, <4>0, ScanFinds
      <4>2. \A c \in Comp : srcIt < c /\ c < srcIt' => ~Live(c)
        BY <1>2, <4>0, ScanFinds DEF Live
      <4>3. \A c \in Comp : Live(c) => (c < srcIt' <=> c < srcIt \/ c = srcIt)
        BY <1>0, <2>1, <4>1, <4>2
      <4>. QED
        BY <1>1, <4>3 DEF Served
    <3>. QED
      BY <1>0, <1>1, <2>1, <2>2, <3>1 DEF Balanced, BeyondLast
  <2>5. CASE srcIt = N - 1
    <3>1. \A c \in Comp : Live(c) => Served(c)' = 0 /\ Served(c) = 1
      BY <1>0, <1>1, <1>2, <2>5, ScanFinds DEF Served, Live, TypeOK
    <3>2. Balanced'
      BY <1>1, <2>1, <2>3, <3>1 DEF Balanced
    <3>3. ASSUME ~Live(N - 1), NEW c \in Comp, Live(c)
          PROVE  Taken(c) >= size[N - 1] + 1 + 0
      <4>1. Taken(c) >= size[N - 1] + 1 + 1
        BY <2>1, <3>1, <3>3 DEF BeyondLast
      <4>. QED
        BY <1>0, <2>3, <4>1 DEF TypeOK
    <3>4. BeyondLast'
      BY <1>0, <1>1, <3>1, <3>3 DEF BeyondLast
    <3>5. (srcIt = N => ~Live(N - 1) /\ pc = "loop")'
      BY <1>0, <1>1, <2>2
    <3>. QED
      BY <3>2, <3>4, <3>5
  <2>. QED
    BY <1>0, <2>1, <2>4, <2>5
<1>. QED
  BY <1>1, <1>3, <1>4 DEF TurnInv

LEMMA TurnInvDelivers ==
  ASSUME TypeOK, ReadInv, TurnInv, VisitDelivers
  PROVE  TurnInv'
<1>0. N \in Nat \ {0} /\ N - 1 \in Comp /\ Comp = 0 .. N - 1
  BY NAssumption DEF Comp
<1>1. pc = "loop" /\ pc' = "idle" /\ ended' = ended
  BY DEF VisitDelivers
<1>2. \A c \in Comp : Taken(c) \in Nat /\ size[c] \in Nat
  BY DEF Taken, TypeOK
<1>3. Taken(srcIt)' = Taken(srcIt) + 1 /\ Taken(srcIt) < size[srcIt]
  BY <1>2, Delivered
<1>4. EndLosesOnlyLongTails'
  <2> SUFFICES ASSUME ended, NEW c \in Comp
               PROVE  \/ Taken(c)' = size[c]
                      \/ Taken(c)' >= size[N - 1] + 2
    BY <1>1, Delivered DEF EndLosesOnlyLongTails
  <2>1. Taken(c) = size[c] \/ Taken(c) >= size[N - 1] + 2
    BY DEF TurnInv, EndLosesOnlyLongTails
  <2>2. CASE c = srcIt
    <3>1. Taken(c)' = Taken(c) + 1 /\ Taken(c) < size[c]
      BY <1>3, <2>2, Delivered DEF Taken
    <3>. QED
      BY <1>0, <1>2, <2>1, <3>1
  <2>3. CASE c # srcIt
    BY <2>1, <2>3, Delivered
  <2>. QED
    BY <2>2, <2>3
<1>5. ASSUME ~ended
      PROVE  Balanced' /\ BeyondLast'
  <2>1. Balanced /\ BeyondLast
    BY <1>1, <1>5 DEF TurnInv
  <2>2. Served(srcIt) = 0 /\ Served(srcIt)' = 1
    BY <1>0, <1>1, Delivered DEF Served
  <2>3. \A c \in Comp \ {srcIt} : Served(c)' = Served(c)
                                  /\ (Live(c)' <=> Live(c))
    BY <1>0, <1>1, Delivered DEF Served, Live
  <2>4. Live(srcIt) /\ Live(srcIt)'
    <3>1. status[srcIt] = "kFinished" => Taken(srcIt) = size[srcIt]
      BY Delivered DEF ReadInv, FinishedIsDrained, Taken
    <3>. QED
      BY <1>2, <1>3, <3>1, Delivered DEF Live
  <2>5. \A c \in Comp : /\ Live(c)' <=> Live(c)
                        /\ Taken(c)' - Served(c)' = Taken(c) - Served(c)
                        /\ Served(c) \in {0, 1} /\ Served(c)' \in {0, 1}
                        /\ Taken(c)' \in Nat
    <3> SUFFICES ASSUME NEW c \in Comp
                 PROVE  /\ Live(c)' <=> Live(c)
                        /\ Taken(c)' - Served(c)' = Taken(c) - Served(c)
                        /\ Served(c) \in {0, 1} /\ Served(c)' \in {0, 1}
                        /\ Taken(c)' \in Nat
      OBVIOUS
    <3>1. CASE c = srcIt
      <4>1. Taken(c)' = Taken(c) + 1
        BY <1>3, <3>1, Delivered DEF Taken
      <4>2. Served(c) = 0 /\ Served(c)' = 1
        BY <1>0, <1>1, <3>1, Delivered DEF Served
      <4>3. Live(c)' /\ Live(c)
        BY <2>4, <3>1, Delivered DEF Live
      <4>. QED
        BY <1>2, <4>1, <4>2, <4>3
    <3>2. CASE c # srcIt
      <4>1. Served(c) \in {0, 1}
        BY DEF Served
      <4>. QED
        BY <1>2, <2>3, <3>2, <4>1, Delivered
    <3>. QED
      BY <3>1, <3>2
  <2>6. Balanced'
    BY <2>1, <2>5 DEF Balanced
  <2>7. BeyondLast'
    <3> SUFFICES ASSUME ~Live(N - 1), NEW c \in Comp, Live(c)
                 PROVE  Taken(c)' >= size[N - 1] + 1 + Served(c)'
      BY <1>0, <2>5, Delivered DEF BeyondLast
    <3>1. Taken(c) >= size[N - 1] + 1 + Served(c)
      BY <2>1 DEF BeyondLast
    <3>2. size[N - 1] \in Nat /\ Taken(c) \in Nat
      BY <1>0, <1>2
    <3>3. /\ Taken(c)' - Served(c)' = Taken(c) - Served(c)
          /\ Served(c) \in Nat /\ Served(c)' \in Nat /\ Taken(c)' \in Nat
      BY <2>5
    <3>. QED
      BY <3>1, <3>2, <3>3
  <2>. QED
    BY <2>6, <2>7
<1>. QED
  BY <1>0, <1>1, <1>4, <1>5, Delivered DEF TurnInv

LEMMA TurnInvDry ==
  ASSUME TypeOK, ReadInv, TurnInv, VisitDry
  PROVE  TurnInv'
<1>0. N \in Nat \ {0} /\ N - 1 \in Comp /\ Comp = 0 .. N - 1
  BY NAssumption DEF Comp
<1>1. /\ pc = "loop" /\ pc' = "loop" /\ ended' = ended /\ size' = size
      /\ srcIt \in Comp /\ srcIt' \in 0 .. N
  BY FoundDry DEF VisitDry, callVars
<1>2. IsNextSrc(status', srcIt, srcIt')
  BY DEF VisitDry
<1>7. /\ srcIt < N - 1 => srcIt < srcIt'
      /\ \A d \in Comp : d < srcIt' /\ (srcIt < d \/ srcIt = N - 1)
                          => status'[d] = "kFinished"
      /\ srcIt' = N => status'[N - 1] = "kFinished"
  <2> DEFINE st == status' i == srcIt c == srcIt'
  <2>1. i \in 0 .. N /\ c \in 0 .. N /\ IsNextSrc(st, i, c)
    BY <1>0, <1>1, <1>2
  <2> HIDE DEF st, i, c
  <2>2. /\ i < N - 1 => i < c
        /\ \A d \in Comp :
             d < c /\ (i < d \/ i = N - 1) => st[d] = "kFinished"
        /\ c = N => st[N - 1] = "kFinished"
    BY <2>1, ScanFinds
  <2>. QED
    BY <2>2 DEF st, i, c
<1>3. \A c \in Comp : Taken(c) \in Nat /\ Taken(c)' = Taken(c) /\ size[c] \in Nat
  BY FoundDry DEF Taken, TypeOK
<1>4. \A c \in Comp : Live(c)' <=> Live(c) /\ c # srcIt
  BY <1>1, FoundDry DEF Live, TypeOK
<1>5. EndLosesOnlyLongTails'
  BY <1>1, <1>3 DEF TurnInv, EndLosesOnlyLongTails
<1>6. ASSUME ~ended
      PROVE  /\ Balanced' /\ BeyondLast'
             /\ (srcIt = N => ~Live(N - 1) /\ pc = "loop")'
  <2>1. Balanced /\ BeyondLast
    BY <1>1, <1>6 DEF TurnInv
  <2>2. srcIt' = N => status'[N - 1] = "kFinished"
    BY <1>7
  <2>3. (srcIt = N => ~Live(N - 1) /\ pc = "loop")'
    BY <1>1, <2>2 DEF Live
  <2>4. CASE srcIt < N - 1
    <3>2. ASSUME NEW c \in Comp, Live(c)'
          PROVE  Live(c) /\ c # srcIt /\ Served(c)' = Served(c)
      <4>1. Live(c) /\ c # srcIt /\ status'[c] # "kFinished"
        BY <1>4, <3>2 DEF Live
      <4>2. c < srcIt \/ ~(c < srcIt')
        BY <1>0, <1>1, <1>7, <4>1
      <4>3. c < srcIt => c < srcIt'
        <5> DEFINE next == srcIt'
        <5>1. next \in Int /\ srcIt < next /\ srcIt \in Int /\ c \in Int
          BY <1>0, <1>1, <1>7, <2>4
        <5> HIDE DEF next
        <5>2. c < srcIt => c < next
          BY <5>1
        <5>. QED
          BY <5>2 DEF next
      <4>. QED
        BY <1>1, <4>1, <4>2, <4>3 DEF Served
    <3>3. Balanced'
      BY <1>3, <2>1, <3>2 DEF Balanced
    <3>4. ~Live(N - 1)' => ~Live(N - 1)
      BY <1>0, <1>4, <2>4
    <3>5. BeyondLast'
      BY <1>0, <1>1, <1>3, <2>1, <3>2, <3>4 DEF BeyondLast
    <3>. QED
      BY <2>3, <3>3, <3>5
  <2>5. CASE srcIt = N - 1
    <3>2. ASSUME NEW c \in Comp, Live(c)'
          PROVE  Live(c) /\ c # srcIt /\ Served(c)' = 0 /\ Served(c) = 1
      <4>1. Live(c) /\ c # srcIt /\ status'[c] # "kFinished"
        BY <1>4, <3>2 DEF Live
      <4>2. c < srcIt /\ ~(c < srcIt')
        BY <1>0, <1>7, <2>5, <4>1
      <4>. QED
        BY <1>1, <4>1, <4>2 DEF Served
    <3>3. Balanced'
      BY <1>3, <2>1, <3>2 DEF Balanced
    <3>4. Live(srcIt) => Taken(srcIt) = size[N - 1] /\ Served(srcIt) = 0
      BY <1>0, <1>1, <2>5, FoundDry DEF Served
    <3>5. ASSUME NEW c \in Comp, Live(c)'
          PROVE  Taken(c) >= size[N - 1] + 1
      <4>0. /\ Live(c) /\ Served(c) = 1 /\ Taken(c) \in Nat
            /\ size[N - 1] \in Nat /\ Taken(srcIt) \in Nat
        BY <1>0, <1>1, <1>3, <3>2, <3>5
      <4>1. CASE Live(srcIt)
        <5>1. Taken(c) - 1 = size[N - 1] - 0
          BY <1>1, <2>1, <3>4, <4>0, <4>1 DEF Balanced
        <5>. QED
          BY <4>0, <5>1
      <4>2. CASE ~Live(srcIt)
        <5>1. Taken(c) >= size[N - 1] + 1 + 1
          BY <2>1, <2>5, <4>0, <4>2 DEF BeyondLast
        <5>. QED
          BY <4>0, <5>1
      <4>. QED
        BY <4>1, <4>2
    <3>6. BeyondLast'
      <4> SUFFICES ASSUME NEW c \in Comp, Live(c)'
                   PROVE  Taken(c)' >= size[N - 1] + 1 + Served(c)'
        BY <1>1 DEF BeyondLast
      <4>1. Taken(c) >= size[N - 1] + 1 /\ Served(c)' = 0 /\ Taken(c)' = Taken(c)
        BY <1>3, <3>2, <3>5
      <4>2. size[N - 1] \in Nat
        BY <1>0, <1>3
      <4>. QED
        BY <4>1, <4>2
    <3>. QED
      BY <2>3, <3>3, <3>6
  <2>. QED
    BY <1>0, <1>1, <2>4, <2>5
<1>. QED
  BY <1>1, <1>5, <1>6 DEF TurnInv

(* When next() gives up, every live component is past the last one's size. *)
LEMMA TurnInvReturns ==
  ASSUME TypeOK, ReadInv, TurnInv, ReturnNothing
  PROVE  TurnInv'
<1>0. N \in Nat \ {0} /\ N - 1 \in Comp /\ Comp = 0 .. N - 1
  BY NAssumption DEF Comp
<1>1. /\ pc = "loop" /\ pc' = "idle" /\ ended' = TRUE /\ srcIt = N
      /\ UNCHANGED <<size, seen, status, srcIt>>
      /\ \A c \in Comp : Taken(c)' = Taken(c)
  BY DEF ReturnNothing, sourceVars, Taken
<1>2. \A c \in Comp : Taken(c) \in Nat /\ size[c] \in Nat
  BY DEF Taken, TypeOK
<1>3. ASSUME ~ended
      PROVE  EndLosesOnlyLongTails'
  <2>1. BeyondLast /\ ~Live(N - 1)
    BY <1>0, <1>1, <1>3 DEF TurnInv
  <2> SUFFICES ASSUME NEW c \in Comp
               PROVE  Taken(c) = size[c] \/ Taken(c) >= size[N - 1] + 2
    BY <1>1 DEF EndLosesOnlyLongTails
  <2>2. CASE Live(c)
    <3>1. Served(c) = 1
      BY <1>0, <1>1 DEF Served
    <3>2. Taken(c) >= size[N - 1] + 1 + 1
      BY <2>1, <2>2, <3>1 DEF BeyondLast
    <3>3. size[N - 1] \in Nat
      BY <1>0, <1>2
    <3>. QED
      BY <3>2, <3>3
  <2>3. CASE ~Live(c)
    BY <2>3 DEF Live, ReadInv, FinishedIsDrained, Taken
  <2>. QED
    BY <2>2, <2>3
<1>4. ASSUME ended
      PROVE  EndLosesOnlyLongTails'
  BY <1>1, <1>4 DEF TurnInv, EndLosesOnlyLongTails
<1>. QED
  BY <1>1, <1>3, <1>4 DEF TurnInv

LEMMA TurnInvCorrect == Spec => []TurnInv
<1>1. Init => TurnInv
  <2> SUFFICES ASSUME Init
               PROVE  TurnInv
    OBVIOUS
  <2>1. pc = "new" /\ srcIt = 0 /\ srcIt # N /\ ~ended
    BY NAssumption DEF Init
  <2>2. \A c \in Comp : status[c] = "kFirst"
    BY DEF Init
  <2>. QED
    BY <2>1, <2>2 DEF TurnInv, EndLosesOnlyLongTails
<1>2. TypeOK /\ ReadInv /\ TurnInv /\ [Next]_vars => TurnInv'
  <2> SUFFICES ASSUME TypeOK, ReadInv, TurnInv, [Next]_vars
               PROVE  TurnInv'
    OBVIOUS
  <2>1. CASE UNCHANGED vars
    BY <2>1 DEF vars, sourceVars, callVars, TurnInv, Balanced, BeyondLast,
                EndLosesOnlyLongTails, Taken, Live, Served
  <2>. QED
    BY <2>1, TurnInvFirst, TurnInvCallNext, TurnInvDelivers, TurnInvDry,
       TurnInvReturns DEF Next, InLoop
<1>. QED
  BY <1>1, <1>2, TypeCorrect, ReadInvCorrect, PTL DEF Spec

(* The robin is round: a component is never more than one event ahead of a *)
(* higher one, nor behind it, before next() has returned nothing.          *)
THEOREM RobinIsRound == Spec => []RoundRobin
<1>1. TypeOK /\ TurnInv => RoundRobin
  <2> SUFFICES ASSUME TypeOK, TurnInv, ~ended,
                      NEW c \in Comp, NEW d \in Comp, c < d,
                      status[c] # "kFinished", status[d] # "kFinished"
               PROVE  Taken(c) - Taken(d) \in {0, 1}
    BY DEF RoundRobin
  <2>0. Comp = 0 .. N - 1 /\ Taken(c) \in Nat /\ Taken(d) \in Nat
    BY DEF Comp, Taken, TypeOK
  <2>1. CASE pc = "new"
    BY <2>1 DEF TurnInv, Taken
  <2>2. CASE pc # "new"
    <3>1. Taken(c) - Served(c) = Taken(d) - Served(d)
      BY <2>2 DEF TurnInv, Balanced, Live
    <3>2. \/ Served(c) = Served(d) /\ Served(c) \in {0, 1}
          \/ Served(c) = 1 /\ Served(d) = 0
      <4>1. c \in Int /\ d \in Int /\ srcIt \in Int
        BY <2>0, NAssumption DEF TypeOK
      <4>2. d < srcIt => c < srcIt
        BY <4>1
      <4>3. d = srcIt => c < srcIt
        BY <4>1
      <4>4. Served(d) = 1 => Served(c) = 1
        BY <4>2, <4>3 DEF Served
      <4>5. Served(c) \in {0, 1} /\ Served(d) \in {0, 1}
        BY DEF Served
      <4>. QED
        BY <4>4, <4>5
    <3>3. CASE Served(c) = Served(d) /\ Served(c) \in {0, 1}
      <4>1. Taken(c) = Taken(d)
        BY <2>0, <3>1, <3>3
      <4>. QED
        BY <2>0, <4>1
    <3>4. CASE Served(c) = 1 /\ Served(d) = 0
      <4>1. Taken(c) - 1 = Taken(d) - 0
        BY <3>1, <3>4
      <4>. QED
        BY <2>0, <4>1
    <3>. QED
      BY <3>2, <3>3, <3>4
  <2>. QED
    BY <2>1, <2>2
<1>. QED
  BY <1>1, TypeCorrect, TurnInvCorrect, PTL

(* An early end loses events only of components that are longer than the   *)
(* last one by more than two events, and only events after those.          *)
THEOREM EarlyEndIsBounded == Spec => []EndLosesOnlyLongTails
<1>1. TurnInv => EndLosesOnlyLongTails
  BY DEF TurnInv
<1>. QED
  BY <1>1, TurnInvCorrect, PTL

-----------------------------------------------------------------------------
(* The normalisation.  The number of events returned in a pass is the sum  *)
(* of what was taken from each component, and what norm_info() adds up is  *)
(* the sum of what each reader has seen.                                   *)
TakenOf == [c \in Comp |-> Taken(c)]

CountInv == \A g \in PartialSums(TakenOf, N) : g[N] = Len(out)

(* norm_info() at each component, from what it is at the one before. *)
LEMMA NormInfoUnfolds ==
  ASSUME TypeOK
  PROVE  /\ NormInfoUpTo[0] = [fatx |-> {}, nevents |-> 0]
         /\ \A k \in 1 .. N :
              NormInfoUpTo[k] =
                IF NormInfoUpTo[k - 1].nevents = 0
                THEN [fatx |-> {k - 1}, nevents |-> seen[k - 1]]
                ELSE [fatx |-> NormInfoUpTo[k - 1].fatx \cup {k - 1},
                      nevents |-> NormInfoUpTo[k - 1].nevents + seen[k - 1]]
<1> DEFINE D == [fatx : SUBSET Comp, nevents : Nat]
           After(sum, k) == IF sum.nevents = 0
                            THEN [fatx |-> {k - 1}, nevents |-> seen[k - 1]]
                            ELSE [fatx |-> sum.fatx \cup {k - 1},
                                  nevents |-> sum.nevents + seen[k - 1]]
           base == [fatx |-> {}, nevents |-> 0]
           step == [p \in D \X (1 .. N) |-> After(p[1], p[2])]
           Upto(f) == f = [k \in 0 .. N |-> IF k = 0 THEN base ELSE After(f[k - 1], k)]
           chosen == CHOOSE f : Upto(f)
<1>1. N \in Nat /\ base \in D
  BY NAssumption
<1>2. \A s \in D, k \in 1 .. N : After(s, k) \in D
  <2> SUFFICES ASSUME NEW s \in D, NEW k \in 1 .. N
               PROVE  After(s, k) \in D
    OBVIOUS
  <2>1. k - 1 \in Comp /\ seen[k - 1] \in Nat
    BY <1>1 DEF Comp, TypeOK
  <2>2. QED BY <2>1
<1>3. NormInfoUpTo = chosen
  BY DEF NormInfoUpTo
<1> HIDE DEF After, D, base
<1>4. step \in [D \X (1 .. N) -> D] /\ \A s \in D, k \in 1 .. N : step[<<s, k>>] = After(s, k)
  BY <1>2
<1> HIDE DEF step
<1>5. PICK f : f \in Recursions(N, D, base, step)
  BY <1>1, <1>4, RecursionUpTo
<1>6. f \in [0 .. N -> D] /\ f[0] = base
  BY <1>5 DEF Recursions
<1>7. \A k \in 1 .. N : f[k] = After(f[k - 1], k)
  <2>1. \A k \in 1 .. N : f[k] = step[<<f[k - 1], k>>]
    BY <1>5 DEF Recursions
  <2>2. \A k \in 1 .. N : f[k - 1] \in D
    BY <1>1, <1>6
  <2>3. QED BY <1>4, <2>1, <2>2
<1>8. Upto(f)
  BY <1>1, <1>6, <1>7
<1>9. Upto(chosen)
  <2> HIDE DEF Upto
  <2>1. QED BY <1>8
<1> HIDE DEF chosen
<1>10. chosen[0] = base /\ \A k \in 1 .. N : chosen[k] = After(chosen[k - 1], k)
  <2>1. \A k \in 0 .. N : chosen[k] = IF k = 0 THEN base ELSE After(chosen[k - 1], k)
    BY <1>9
  <2>2. 0 \in 0 .. N /\ \A k \in 1 .. N : k \in 0 .. N /\ k # 0
    BY <1>1
  <2>3. QED BY <2>1, <2>2
<1>11. QED BY <1>3, <1>10 DEF After, base

(* norm_info() counts what the readers have seen, and leaves out only      *)
(* components that have seen nothing.                                      *)
LEMMA NormInfoAddsUp ==
  ASSUME TypeOK, NEW g \in PartialSums(seen, N)
  PROVE  /\ NormInfo.nevents = g[N]
         /\ \A c \in Comp : seen[c] > 0 => c \in NormInfo.fatx
<1> DEFINE S == {k \in 0 .. N :
                   /\ NormInfoUpTo[k].nevents = g[k]
                   /\ \A c \in 0 .. k - 1 :
                        /\ seen[c] > 0 => c \in NormInfoUpTo[k].fatx
                        /\ seen[c] <= g[k]}
<1>0. N \in Nat /\ Comp = 0 .. N - 1
  BY NAssumption DEF Comp
<1>1. 0 \in S
  BY <1>0, NormInfoUnfolds DEF PartialSums
<1>2. ASSUME NEW n \in 0 .. N - 1, n \in S
      PROVE  n + 1 \in S
  <2>0. seen[n] \in Nat /\ g[n] \in Nat /\ g[n + 1] = g[n] + seen[n]
    <3>1. seen[n] \in Nat
      BY <1>0 DEF TypeOK
    <3>2. g[n] \in Nat /\ g[n + 1] = g[n] + seen[n]
      BY <1>0, PartialSumsNext
    <3>3. QED BY <3>1, <3>2
  <2>1. /\ n + 1 \in 1 .. N /\ n + 1 - 1 = n /\ n \in Nat
        /\ seen[n] \in Nat /\ g[n] \in Nat /\ g[n + 1] = g[n] + seen[n]
    BY <1>0, <2>0
  <2>2. /\ NormInfoUpTo[n].nevents = g[n]
        /\ \A c \in 0 .. n - 1 : /\ seen[c] > 0 => c \in NormInfoUpTo[n].fatx
                                 /\ seen[c] <= g[n] /\ seen[c] \in Nat
    <3>1. \A c \in 0 .. n - 1 : c \in Comp
      BY <1>0
    <3>2. \A c \in Comp : seen[c] \in Nat
      BY DEF TypeOK
    <3>3. /\ NormInfoUpTo[n].nevents = g[n]
          /\ \A c \in 0 .. n - 1 : /\ seen[c] > 0 => c \in NormInfoUpTo[n].fatx
                                   /\ seen[c] <= g[n]
      BY <1>2
    <3>4. QED BY <3>1, <3>2, <3>3
  <2>3. NormInfoUpTo[n + 1] =
          IF g[n] = 0 THEN [fatx |-> {n}, nevents |-> seen[n]]
          ELSE [fatx |-> NormInfoUpTo[n].fatx \cup {n},
                nevents |-> g[n] + seen[n]]
    <3>1. ASSUME NEW k \in 1 .. N, k = n + 1
          PROVE  NormInfoUpTo[k] =
                   IF g[n] = 0 THEN [fatx |-> {n}, nevents |-> seen[n]]
                   ELSE [fatx |-> NormInfoUpTo[n].fatx \cup {n},
                         nevents |-> g[n] + seen[n]]
      <4>1. k - 1 = n
        BY <2>1, <3>1
      <4>2. QED BY <2>2, <4>1, NormInfoUnfolds
    <3>2. QED BY <2>1, <3>1
  <2>4. NormInfoUpTo[n + 1].nevents = g[n + 1]
    BY <2>1, <2>3
  <2>5. ASSUME NEW c \in 0 .. n
        PROVE  /\ seen[c] > 0 => c \in NormInfoUpTo[n + 1].fatx
               /\ seen[c] <= g[n + 1]
    <3>1. CASE c = n
      BY <2>1, <2>3, <3>1
    <3>2. CASE c \in 0 .. n - 1
      BY <2>1, <2>2, <2>3, <3>2
    <3>3. QED BY <2>1, <3>1, <3>2
  <2>6. QED BY <2>1, <2>4, <2>5
<1> HIDE DEF S
<1>3. \A n \in 0 .. N : n \in S
  BY <1>0, <1>1, <1>2, BoundedInduction
<1>4. N \in S
  BY <1>0, <1>3
<1>5. QED BY <1>0, <1>4 DEF S, NormInfo

(* first() leaves one event, of component 0, or none. *)
LEMMA CountInvFirst ==
  ASSUME TypeOK, First
  PROVE  CountInv'
<1>0. N \in Nat \ {0} /\ 0 \in Comp /\ Comp = 0 .. N - 1
  BY NAssumption DEF Comp
<1>1. TakenOf' = [c \in Comp |-> Taken(c)']
  BY DEF TakenOf
<1> DEFINE f == TakenOf'
           zeroes == [c \in Comp |-> 0]
<1>2. CASE FirstFails
  <2>1. \A c \in Comp : Taken(c)' = 0
    BY <1>0, <1>2 DEF FirstFails, Restarted, Taken, TypeOK
  <2>2. f = zeroes /\ Len(out') = 0
    BY <1>1, <1>2, <2>1 DEF FirstFails
  <2> HIDE DEF f
  <2>3. \A g \in PartialSums(f, N) : g[N] = 0
    BY <1>0, <2>2, PartialSumsOfZeroes
  <2>4. QED BY <2>2, <2>3 DEF f, CountInv
<1>3. CASE FirstDelivers
  <2>1. \A c \in Comp : Taken(c)' = IF c = 0 THEN 1 ELSE 0
    BY <1>0, <1>3 DEF FirstDelivers, Restarted, Taken, TypeOK
  <2>2. f = [c \in Comp |-> IF c = 0 THEN 1 ELSE 0] /\ Len(out') = 1
    BY <1>1, <1>3, <2>1 DEF FirstDelivers
  <2>3. zeroes \in [0 .. N - 1 -> Nat] /\ \A c \in 0 .. N - 1 : zeroes[c] = 0
    BY <1>0
  <2>4. f[0] = zeroes[0] + 1 /\ \A d \in 0 .. N - 1 : d # 0 => f[d] = zeroes[d]
    BY <1>0, <2>2
  <2> HIDE DEF f, zeroes
  <2>5. PICK z : z \in PartialSums(zeroes, N)
    BY <1>0, <2>3, PartialSumsExist
  <2>6. z[N] = 0
    BY <1>0, <2>3, <2>5, PartialSumsOfZeroes
  <2>7. \A g \in PartialSums(f, N) : g[N] = z[N] + 1
    BY <1>0, <2>3, <2>4, <2>5, PartialSumsOneMore
  <2>8. QED BY <2>2, <2>6, <2>7 DEF f, CountInv
<1>4. QED BY <1>2, <1>3 DEF First

LEMMA CountInvNext ==
  ASSUME TypeOK, TypeOK', ReadInv, CountInv, [Next]_vars
  PROVE  CountInv'
<1>0. N \in Nat \ {0} /\ Comp = 0 .. N - 1
  BY NAssumption DEF Comp
<1>1. CASE First
  BY <1>1, CountInvFirst
<1>2. CASE VisitDelivers
  <2> DEFINE f == TakenOf
             f1 == TakenOf'
  <2>1. /\ f \in [0 .. N - 1 -> Nat]
        /\ srcIt \in 0 .. N - 1
        /\ f1[srcIt] = f[srcIt] + 1
        /\ \A d \in 0 .. N - 1 : d # srcIt => f1[d] = f[d]
        /\ Len(out') = Len(out) + 1
    <3>1. \A c \in Comp : Taken(c) \in Nat
      BY DEF Taken, TypeOK
    <3>2. /\ srcIt \in Comp
          /\ \A d \in Comp : d # srcIt => Taken(d)' = Taken(d)
          /\ Len(out') = Len(out) + 1
      BY <1>2, Delivered
    <3>3. \A d \in Comp : d = srcIt => Taken(d)' = Taken(d) + 1
      BY <1>2, Delivered DEF Taken
    <3>4. f1 = [c \in Comp |-> Taken(c)']
      BY DEF TakenOf
    <3>5. \A c \in Comp : f[c] = Taken(c) /\ f1[c] = Taken(c)'
      BY <3>4 DEF TakenOf
    <3>6. f \in [Comp -> Nat]
      BY <3>1 DEF TakenOf
    <3> HIDE DEF f, f1
    <3>7. QED BY <1>0, <3>2, <3>5, <3>6, <3>3
  <2>2. \A g \in PartialSums(f, N) : g[N] = Len(out)
    BY DEF CountInv
  <2> HIDE DEF f, f1
  <2>3. PICK g : g \in PartialSums(f, N)
    BY <1>0, <2>1, PartialSumsExist
  <2>4. \A g1 \in PartialSums(f1, N) : g1[N] = g[N] + 1
    BY <1>0, <2>1, <2>3, PartialSumsOneMore
  <2>5. \A g1 \in PartialSums(f1, N) : g1[N] = Len(out')
    BY <2>1, <2>2, <2>3, <2>4
  <2>6. QED BY <2>5 DEF f1, CountInv
<1>3. CASE CallNext \/ VisitDry \/ ReturnNothing \/ UNCHANGED vars
  <2>1. \A c \in Comp : Taken(c)' = Taken(c)
    BY <1>3, FoundDry DEF CallNext, ReturnNothing, vars, sourceVars, Taken
  <2>2. TakenOf' = TakenOf
    BY <2>1 DEF TakenOf
  <2>3. out' = out
    BY <1>3, FoundDry DEF CallNext, ReturnNothing, vars, callVars
  <2>4. QED BY <2>2, <2>3 DEF CountInv
<1>4. QED BY <1>1, <1>2, <1>3 DEF Next, InLoop

LEMMA CountInvCorrect == Spec => []CountInv
<1>1. Init => CountInv
  <2> SUFFICES ASSUME Init
               PROVE  CountInv
    OBVIOUS
  <2>1. N \in Nat /\ Len(out) = 0
    BY NAssumption DEF Init
  <2>2. \A c \in 0 .. N - 1 : TakenOf[c] = 0
    BY DEF Init, TakenOf, Taken, Comp
  <2>3. \A g \in PartialSums(TakenOf, N) : g[N] = 0
    BY <2>1, <2>2, PartialSumsOfZeroes
  <2>4. QED BY <2>1, <2>3 DEF CountInv
<1>2. TypeOK /\ TypeOK' /\ ReadInv /\ CountInv /\ [Next]_vars => CountInv'
  BY CountInvNext
<1>3. QED
  BY <1>1, <1>2, TypeCorrect, ReadInvCorrect, PTL DEF Spec

(* The normalisation counts the events of the pass, exactly so once every  *)
(* component has been restarted, and has the cross section of every        *)
(* component that has events.                                              *)
THEOREM NormInfoIsOfThePass == Spec => []NormInfoCountsPass
<1>1. TypeOK /\ CountInv => NormInfoCountsPass
  <2> SUFFICES ASSUME TypeOK, CountInv
               PROVE  NormInfoCountsPass
    OBVIOUS
  <2>0. N \in Nat /\ Comp = 0 .. N - 1
    BY NAssumption DEF Comp
  <2>1. /\ seen \in [0 .. N - 1 -> Nat] /\ TakenOf \in [0 .. N - 1 -> Nat]
        /\ \A c \in 0 .. N - 1 : /\ TakenOf[c] \in Nat /\ seen[c] \in Nat
                                 /\ TakenOf[c] <= seen[c]
    BY <2>0 DEF TakenOf, Taken, TypeOK
  <2>2. PICK s : s \in PartialSums(seen, N)
    BY <2>0, <2>1, PartialSumsExist
  <2>3. PICK g : g \in PartialSums(TakenOf, N)
    BY <2>0, <2>1, PartialSumsExist
  <2>4. NormInfo.nevents = s[N] /\ \A c \in Comp : seen[c] > 0 => c \in NormInfo.fatx
    BY <2>2, NormInfoAddsUp
  <2>5. g[N] = Len(out)
    BY <2>3 DEF CountInv
  <2>6. g[N] <= s[N]
    BY <2>0, <2>1, <2>2, <2>3, PartialSumsGrow
  <2>7. ASSUME \A c \in Comp : status[c] # "kFirst"
        PROVE  s[N] = Len(out)
    <3>1. seen = TakenOf
      BY <2>7 DEF TakenOf, Taken, TypeOK
    <3>2. s[N] = Len(out)
      BY <2>2, <3>1 DEF CountInv
    <3>3. QED BY <3>2
  <2>8. s[N] \in Nat /\ g[N] \in Nat
    BY <2>0, <2>2, <2>3 DEF PartialSums
  <2>9. QED BY <2>4, <2>5, <2>6, <2>7, <2>8 DEF NormInfoCountsPass
<1>2. QED BY <1>1, TypeCorrect, CountInvCorrect, PTL

-----------------------------------------------------------------------------
(* A component is never given up while it still has events. *)
THEOREM GivenUpWhenDrained == Spec => []FinishedIsDrained
<1>1. ReadInv => FinishedIsDrained
  BY DEF ReadInv
<1>. QED
  BY <1>1, ReadInvCorrect, PTL

(* The combination implements the interleaving of its components: a visit  *)
(* that returns an event is Deliver, first() is Restart, the rest stutter. *)
THEOREM Refinement == Spec => ImplementsMerge
<1> DEFINE taken == [c \in Comp |-> Taken(c)]
<1>0. N \in Nat \ {0} /\ 0 \in Comp
  BY NAssumption DEF Comp
<1>1. Init => Merged!Init
  <2> SUFFICES ASSUME Init
               PROVE  Merged!Init
    OBVIOUS
  <2>1. size \in [Comp -> Nat]
    BY MaxSizeAssumption DEF Init
  <2>2. \A c \in Comp : Taken(c) = 0
    BY DEF Init, Taken
  <2>. QED
    BY <2>1, <2>2 DEF Init, Merged!Init, Merged!Nothing
<1>2. TypeOK /\ ReadInv /\ [Next]_vars => [Merged!Next]_(Merged!vars)
  <2> SUFFICES ASSUME TypeOK, ReadInv, [Next]_vars
               PROVE  Merged!Next \/ UNCHANGED <<size, taken, out>>
    BY DEF Merged!vars
  <2>1. ASSUME FirstDelivers, size' = size
        PROVE  Merged!Restart
    <3>1. \A c \in Comp : Taken(c)' = IF c = 0 THEN 1 ELSE 0
      BY <1>0, <2>1 DEF FirstDelivers, Restarted, Taken, TypeOK
    <3>2. taken' = [Merged!Nothing EXCEPT ![0] = 1]
      BY <1>0, <3>1 DEF Merged!Nothing
    <3>3. size[0] > 0 /\ out' = << <<0, 1>> >>
      BY <2>1 DEF FirstDelivers
    <3>. QED
      BY <1>0, <2>1, <3>2, <3>3 DEF Merged!Restart
  <2>2. ASSUME FirstFails, size' = size
        PROVE  Merged!Restart
    <3>1. \A c \in Comp : Taken(c)' = 0
      BY <1>0, <2>2 DEF FirstFails, Restarted, Taken, TypeOK
    <3>2. taken' = Merged!Nothing /\ out' = <<>>
      BY <2>2, <3>1 DEF Merged!Nothing, FirstFails
    <3>. QED
      BY <2>2, <3>2 DEF Merged!Restart
  <2>3. ASSUME VisitDelivers
        PROVE  Merged!Deliver(srcIt)
    <3>1. srcIt \in Comp /\ size' = size
      BY <2>3, Delivered
    <3>2. \A c \in Comp : Taken(c) \in Nat /\ size[c] \in Nat
      BY DEF Taken, TypeOK
    <3>3. taken[srcIt] = Taken(srcIt)
      BY <3>1
    <3>4. taken[srcIt] < size[srcIt]
      BY <2>3, <3>1, <3>2, <3>3, Delivered
    <3>5. \A c \in Comp : Taken(c)' = IF c = srcIt THEN Taken(c) + 1 ELSE Taken(c)
      <4> SUFFICES ASSUME NEW c \in Comp
                   PROVE  Taken(c)' = IF c = srcIt THEN Taken(c) + 1 ELSE Taken(c)
        OBVIOUS
      <4>1. c = srcIt => Taken(c)' = Taken(c) + 1
        BY <2>3, Delivered DEF Taken
      <4>. QED
        BY <2>3, <4>1, Delivered
    <3>6. taken' = [taken EXCEPT ![srcIt] = @ + 1]
      BY <3>1, <3>5
    <3>7. out' = Append(out, <<srcIt, taken[srcIt] + 1>>)
      BY <2>3, <3>3, Delivered DEF VisitDelivers
    <3>. QED
      BY <3>1, <3>4, <3>6, <3>7 DEF Merged!Deliver
  <2>4. ASSUME VisitDry
        PROVE  UNCHANGED <<size, taken, out>>
    BY <2>4, FoundDry
  <2>5. ASSUME CallNext \/ ReturnNothing \/ UNCHANGED vars
        PROVE  UNCHANGED <<size, taken, out>>
    BY <2>5 DEF CallNext, ReturnNothing, vars, sourceVars, callVars, Taken
  <2>6. ASSUME First
        PROVE  Merged!Restart
    BY <2>1, <2>2, <2>6 DEF First
  <2>. QED
    <3>1. VisitDelivers => srcIt \in Comp
      BY Delivered
    <3>. QED
      BY <2>3, <2>4, <2>5, <2>6, <3>1 DEF Next, InLoop, Merged!Next
<1>. QED
  BY <1>1, <1>2, TypeCorrect, ReadInvCorrect, PTL DEF Spec, ImplementsMerge, Merged!Spec
=============================================================================
