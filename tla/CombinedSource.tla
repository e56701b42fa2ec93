--------------------------- MODULE CombinedSource ---------------------------
(***************************************************************************)
(* CombinedNormalizedEventSource: several normalised event sources read as *)
(* one.  The components are visited in turn; one that runs dry is marked   *)
(* kFinished and skipped from then on.                                     *)
(*                                                                         *)
(* A component is owned by the combination, so one number describes it:    *)
(* seen[c], the position of its reader, which is also the number of events *)
(* its accumulator has processed since its last first().  It survives the  *)
(* first() of the combination, which restarts component 0 only: the others *)
(* are restarted when their turn comes.                                    *)
(*                                                                         *)
(* A call of next() is its loop: CallNext enters it, one step visits one   *)
(* component, and the call returns by delivering an event or by            *)
(* ReturnNothing.  No other operation runs between these steps.            *)
(***************************************************************************)
EXTENDS Integers, Sequences

CONSTANTS N,        \* number of components, comp_evs.size()
          MaxSize   \* bound: events in a component

ASSUME NAssumption == N \in Nat \ {0}
ASSUME MaxSizeAssumption == MaxSize \in Nat

Comp == 0 .. N - 1
CStatus == {"kFirst", "kHasEvents", "kFinished"}
NoEvent == <<>>

VARIABLES
  size,     \* events in each component; 0 when its first() finds nothing
  seen,     \* reader position of each component = events in its accumulator
  status,   \* CStatus of each component
  srcIt,    \* src_it: the component read last, N when none was left
  pc,       \* "new" before first(), "loop" inside next(), otherwise "idle"
  ret,      \* what the last completed call returned
  out,      \* history: the events returned since first()
  ended     \* history: next() has returned nothing since first()

sourceVars == <<seen, status, srcIt>>
callVars == <<pc, ret, out, ended>>
vars == <<size, sourceVars, callVars>>

-----------------------------------------------------------------------------
(* next_src(): the scan starts one after i, modulo N, and goes up to the   *)
(* last component without wrapping; N when all of those are finished.      *)
FirstLiveFrom(start, st, c) ==
  /\ c \in start .. N
  /\ \A d \in start .. c - 1 : st[d] = "kFinished"
  /\ c < N => st[c] # "kFinished"

FaultNextSrcFromZero(st, i, c) == FirstLiveFrom(0, st, c)
FaultNextSrcNoModulo(st, i, c) == FirstLiveFrom(i + 1, st, c)

IsNextSrc(st, i, c) == FirstLiveFrom((i + 1) % N, st, c)

(* The statuses first() leaves, given that of component 0. *)
FaultRestarted(st0) == [status EXCEPT ![0] = st0]

Restarted(st0) == [c \in Comp |-> IF c = 0 THEN st0 ELSE "kFirst"]

(* The statuses after visiting c, when it had an event and when it did not. *)
FaultHadEvent(c) == status
FaultHadEventFinishes(c) == [status EXCEPT ![c] = "kFinished"]

HadEvent(c) == [status EXCEPT ![c] = "kHasEvents"]

FaultHadNone(c) == status

HadNone(c) == [status EXCEPT ![c] = "kFinished"]

(* The event that visiting c reads: its first in this pass when its turn   *)
(* comes for the first time, otherwise the one after the last.             *)
FaultTurn(c) == seen[c] + 1

Turn(c) == IF status[c] = "kFirst" THEN 1 ELSE seen[c] + 1

FaultHasTurn(c) == Turn(c) <= size[c] + 1

HasTurn(c) == Turn(c) <= size[c]

-----------------------------------------------------------------------------
(* The factory and the Python constructor have called first() on every     *)
(* component before it is combined, and the user may have read on.         *)
Init ==
  /\ size \in [Comp -> 0 .. MaxSize]
  /\ seen \in [Comp -> 0 .. MaxSize]
  /\ \A c \in Comp : seen[c] <= size[c] /\ (size[c] > 0 => seen[c] > 0)
  /\ status = [c \in Comp |-> "kFirst"]
  /\ srcIt = 0
  /\ pc = "new"
  /\ ret = NoEvent
  /\ out = <<>>
  /\ ended = FALSE

(* first(): every status is reset, component 0 alone is restarted. *)
FirstDelivers ==
  /\ size[0] > 0
  /\ seen' = [seen EXCEPT ![0] = 1]
  /\ status' = Restarted("kHasEvents")
  /\ ret' = <<0, 1>>
  /\ out' = << <<0, 1>> >>
  /\ ended' = FALSE

FirstFails ==
  /\ size[0] = 0
  /\ seen' = [seen EXCEPT ![0] = 0]
  /\ status' = Restarted("kFinished")
  /\ ret' = NoEvent
  /\ out' = <<>>
  /\ ended' = FALSE

First ==
  /\ pc \in {"new", "idle"}
  /\ srcIt' = 0
  /\ pc' = "idle"
  /\ FirstDelivers \/ FirstFails
  /\ UNCHANGED size

(* next() up to its loop. *)
CallNext ==
  /\ pc = "idle"
  /\ pc' = "loop"
  /\ \E c \in 0 .. N : IsNextSrc(status, srcIt, c) /\ srcIt' = c
  /\ UNCHANGED <<size, seen, status, ret, out, ended>>

(* One iteration that gets an event: case kFirst or kHasEvents, return ev. *)
VisitDelivers ==
  /\ pc = "loop"
  /\ srcIt < N
  /\ HasTurn(srcIt)
  /\ seen' = [seen EXCEPT ![srcIt] = Turn(srcIt)]
  /\ status' = HadEvent(srcIt)
  /\ ret' = <<srcIt, Turn(srcIt)>>
  /\ out' = Append(out, ret')
  /\ pc' = "idle"
  /\ UNCHANGED <<size, srcIt, ended>>

(* One iteration that gets none: the component is finished, try the next.  *)
VisitDry ==
  /\ pc = "loop"
  /\ srcIt < N
  /\ ~HasTurn(srcIt)
  /\ seen' = [seen EXCEPT ![srcIt] = size[srcIt]]
  /\ status' = HadNone(srcIt)
  /\ \E c \in 0 .. N : IsNextSrc(HadNone(srcIt), srcIt, c) /\ srcIt' = c
  /\ UNCHANGED <<size, callVars>>

(* No component is left to visit: next() returns nothing. *)
ReturnNothing ==
  /\ pc = "loop"
  /\ srcIt = N
  /\ ret' = NoEvent
  /\ ended' = TRUE
  /\ pc' = "idle"
  /\ UNCHANGED <<size, sourceVars, out>>

InLoop == VisitDelivers \/ VisitDry \/ ReturnNothing

Next == First \/ CallNext \/ InLoop

Spec == Init /\ [][Next]_vars

-----------------------------------------------------------------------------
FaultNormInfoUpTo[k \in 0 .. N] ==
  IF k = 0 THEN [fatx |-> {}, nevents |-> 0]
  ELSE LET sum == FaultNormInfoUpTo[k - 1] IN
       IF sum.nevents <= 1 THEN [fatx |-> {k - 1}, nevents |-> seen[k - 1]]
       ELSE [fatx |-> sum.fatx \cup {k - 1},
             nevents |-> sum.nevents + seen[k - 1]]

(* norm_info(): the components are summed in order, but a sum that holds   *)
(* no event yet is replaced.  The flux-averaged cross section is abstract: *)
(* it is the set of components whose own value entered the sum.            *)
NormInfoUpTo[k \in 0 .. N] ==
  IF k = 0 THEN [fatx |-> {}, nevents |-> 0]
  ELSE LET sum == NormInfoUpTo[k - 1] IN
       IF sum.nevents = 0 THEN [fatx |-> {k - 1}, nevents |-> seen[k - 1]]
       ELSE [fatx |-> sum.fatx \cup {k - 1},
             nevents |-> sum.nevents + seen[k - 1]]

FaultNormInfo == FaultNormInfoUpTo[N]

NormInfo == NormInfoUpTo[N]

-----------------------------------------------------------------------------
(* A call that was entered is run by its thread. *)
FairSpec == Spec /\ WF_vars(InLoop)

-----------------------------------------------------------------------------
(* Events of component c delivered in this pass. *)
Taken(c) == IF status[c] = "kFirst" THEN 0 ELSE seen[c]

TypeOK ==
  /\ size \in [Comp -> 0 .. MaxSize]
  /\ seen \in [Comp -> 0 .. MaxSize]
  /\ status \in [Comp -> CStatus]
  /\ srcIt \in 0 .. N
  /\ pc \in {"new", "idle", "loop"}
  /\ ret \in {NoEvent} \cup (Comp \X (1 .. MaxSize))
  /\ out \in Seq(Comp \X (1 .. MaxSize))
  /\ ended \in BOOLEAN

(* No event is invented or repeated, and each component keeps its order,   *)
(* although its reader may still stand where an earlier pass left it.      *)
StreamInOrder ==
  \A j \in 1 .. Len(out) :
    /\ out[j][2] \in 1 .. Taken(out[j][1])
    /\ \A i \in 1 .. j - 1 : out[i][1] = out[j][1] => out[i][2] < out[j][2]

(* Nothing a component's reader has moved past in this pass was dropped.   *)
NothingSkipped ==
  \A c \in Comp : \A k \in 1 .. Taken(c) :
    \E i \in 1 .. Len(out) : out[i] = <<c, k>>

(* A component is given up only after its last event was delivered.        *)
FinishedIsDrained ==
  \A c \in Comp : status[c] = "kFinished" => seen[c] = size[c]

(* Round robin: until next() has returned nothing, components that still  *)
(* may have events are at most one event apart, a lower one being ahead.   *)
RoundRobin ==
  ~ended => \A c, d \in Comp :
    /\ c < d
    /\ status[c] # "kFinished"
    /\ status[d] # "kFinished"
    => Taken(c) - Taken(d) \in {0, 1}

(* next() returns nothing when no component above the last one read has    *)
(* events, whatever the lower ones hold.  So the stream may end early, but *)
(* then a component with events left has given two more, or yet more, than *)
(* the last component had: nothing is lost near the shortest one's end.    *)
EndLosesOnlyLongTails ==
  ended => \A c \in Comp :
    \/ Taken(c) = size[c]
    \/ Taken(c) >= size[N - 1] + 2

(* What the comment on the test for the end of the stream says.            *)
EndMeansAllSourcesEmpty ==
  pc = "idle" /\ srcIt = N => \A c \in Comp : Taken(c) = size[c]

(* The normalisation counts every event of the pass; it counts no other    *)
(* once every component has been restarted.  Before that it also holds     *)
(* what the components not yet restarted had read in an earlier pass.  At  *)
(* any time every component that has events contributes its cross section. *)
NormInfoCountsPass ==
  /\ pc = "idle" =>
       /\ NormInfo.nevents >= Len(out)
       /\ (\A c \in Comp : status[c] # "kFirst") => NormInfo.nevents = Len(out)
  /\ \A c \in Comp : seen[c] > 0 => c \in NormInfo.fatx

(* The range-for loop over a NormalizedEventSource, which calls first()    *)
(* once and then next(), comes to its end: a user who keeps calling and    *)
(* does not restart for ever is told again and again that nothing is left. *)
LoopEnds ==
  \/ []<>(pc = "idle" /\ ret = NoEvent)
  \/ []<><<First>>_vars
  \/ <>[](pc \in {"new", "idle"})

-----------------------------------------------------------------------------
(* The combination implements the interleaving of its components. *)
Merged == INSTANCE Merge WITH taken <- [c \in Comp |-> Taken(c)]

ImplementsMerge == Merged!Spec
=============================================================================
