-------------------------- MODULE NormalizedSource --------------------------
(***************************************************************************)
(* One HepMC3EventSource, the reader of a file, and the                    *)
(* NormalizedEventSources that wrap it.  force_fatx() wraps the source it  *)
(* is called on, so several wrappers, and the user of the raw source, may  *)
(* share one reader; each wrapper has a cross-section accumulator of its   *)
(* own, which counts the events that wrapper was given.                    *)
(*                                                                         *)
(* The file can disappear and come back while the program runs: first()    *)
(* looks at the path again each time, next() uses the reader it has.       *)
(***************************************************************************)
EXTENDS Integers, Sequences, SequencesExt, SequenceFilter

CONSTANTS Wrappers,   \* the NormalizedEventSources around the reader
          External,   \* those with an external_fatx, from force_fatx()
          Raw,        \* the user of the unnormalised source itself
          MaxEvents,  \* bound: events in the file
          MaxGiven    \* bound: events given to a wrapper between two firsts

ASSUME WrappersAssumption == External \subseteq Wrappers /\ Raw \notin Wrappers
ASSUME BoundsAssumption == MaxEvents \in Nat \ {0} /\ MaxGiven \in Nat \ {0}

NoAcc == -1      \* xs_acc is a null pointer
NoEvent == 0     \* a null event; the events of the file are numbered from 1

VARIABLES
  nEvents,    \* events in the file
  bad,        \* the events that process() rejects: not in MeV
  hasXS,      \* MakeAccumulator understands the run_info of the file
  present,    \* the file exists
  removed,    \* history: the file was removed at some time
  pos,        \* events the reader has read; nEvents + 1 once it has failed
  acc,        \* events in the accumulator of each wrapper, or NoAcc
  made,       \* the wrappers handed to the user
  alive,      \* FALSE after a null pointer was dereferenced
  got,        \* history: events given to each wrapper since its accumulator
              \* was made
  since       \* history: <<user, event>> read since the reader was reopened

fileVars == <<nEvents, bad, hasXS>>
vars == <<fileVars, present, removed, pos, acc, made, alive, got, since>>

Users == Wrappers \cup {Raw}
EventAt(p) == IF p \in 1 .. nEvents THEN p ELSE NoEvent

-----------------------------------------------------------------------------
(* HepMC3EventSource::first(): the reader is replaced only if the path     *)
(* still exists, then the first event is read.                             *)
FaultPosAfterFirst == 1

PosAfterFirst == IF present THEN 1 ELSE pos
FirstEvent == IF present THEN EventAt(1) ELSE NoEvent

(* HepMC3EventSource::next(): a failed reader is not read again. *)
FaultPosNotFailed == pos + 1

PosAfterNext == IF pos > nEvents THEN pos ELSE pos + 1

(* NormalizedEventSource::process(): the check of the units comes before   *)
(* the accumulator is told of the event.                                   *)
FaultProcess(a, ev) ==
  IF ev = NoEvent THEN [result |-> "nothing", acc |-> a]
  ELSE IF a = NoAcc THEN [result |-> "crash", acc |-> a]
  ELSE IF ev \in bad THEN [result |-> "threw", acc |-> a + 1]
  ELSE [result |-> "event", acc |-> a + 1]

FaultProcessWithholds(a, ev) ==
  IF ev = NoEvent \/ a = 1 THEN [result |-> "nothing", acc |-> a]
  ELSE [result |-> "event", acc |-> a + 1]

Process(a, ev) ==
  IF ev = NoEvent THEN [result |-> "nothing", acc |-> a]
  ELSE IF ev \in bad THEN [result |-> "threw", acc |-> a]
  ELSE IF a = NoAcc THEN [result |-> "crash", acc |-> a]
  ELSE [result |-> "event", acc |-> a + 1]

(* NormalizedEventSource::first() by its result.  Without an external fatx *)
(* the accumulator comes from the run_info of the first event, which is    *)
(* fetched without a test for null and read a second time afterwards.      *)
FirstResult(w) ==
  IF w \in External THEN Process(0, FirstEvent)
  ELSE IF FirstEvent = NoEvent THEN [result |-> "crash", acc |-> acc[w]]
  ELSE IF ~hasXS THEN [result |-> "nothing", acc |-> acc[w]]
  ELSE Process(0, FirstEvent)

NewAccumulator(w) == w \in External \/ (FirstEvent # NoEvent /\ hasXS)

(* What a call leaves behind, the reader apart. *)
Give(w, res, ev, before) ==
  /\ acc' = [acc EXCEPT ![w] = res.acc]
  /\ alive' = (res.result # "crash")
  /\ got' = [got EXCEPT ![w] =
               IF res.result = "event" THEN Append(before, ev) ELSE before]

Restarted(w, ev) == IF ~present THEN since
                    ELSE IF ev = NoEvent THEN <<>> ELSE << <<w, ev>> >>

Read(w, ev) == IF ev = NoEvent THEN since ELSE Append(since, <<w, ev>>)

-----------------------------------------------------------------------------
(* make_unnormalized() has found the reader able to deliver an event.      *)
Init ==
  /\ nEvents \in 1 .. MaxEvents
  /\ bad \in SUBSET (1 .. nEvents)
  /\ hasXS \in BOOLEAN
  /\ present = TRUE
  /\ removed = FALSE
  /\ pos = 1
  /\ acc = [w \in Wrappers |-> NoAcc]
  /\ made = {}
  /\ alive = TRUE
  /\ got = [w \in Wrappers |-> <<>>]
  /\ since = << <<Raw, 1>> >>

(* first() of a wrapper. *)
First(w) ==
  /\ Give(w, FirstResult(w), FirstEvent,
          IF NewAccumulator(w) THEN <<>> ELSE got[w])
  /\ pos' = PosAfterFirst
  /\ since' = Restarted(w, FirstEvent)

(* EventSourceFactory::make() and the Python constructor hand a wrapper    *)
(* out only if its first() returns an event.                               *)
FaultHandOut(w) == made' = made \cup {w}

HandOut(w) ==
  made' = IF FirstResult(w).result = "event" THEN made \cup {w} ELSE made

Make(w) ==
  /\ alive
  /\ w \notin made
  /\ w \notin External => present
  /\ First(w)
  /\ HandOut(w)
  /\ UNCHANGED <<fileVars, present, removed>>

Restart(w) ==
  /\ alive
  /\ w \in made
  /\ First(w)
  /\ UNCHANGED <<fileVars, present, removed, made>>

(* next() of a wrapper. *)
Advance(w) ==
  /\ alive
  /\ w \in made
  /\ Len(got[w]) < MaxGiven
  /\ LET ev == EventAt(PosAfterNext)
     IN  /\ Give(w, Process(acc[w], ev), ev, got[w])
         /\ since' = Read(w, ev)
  /\ pos' = PosAfterNext
  /\ UNCHANGED <<fileVars, present, removed, made>>

(* first() and next() of the unnormalised source. *)
RawFirst ==
  /\ alive
  /\ pos' = PosAfterFirst
  /\ since' = Restarted(Raw, FirstEvent)
  /\ UNCHANGED <<fileVars, present, removed, acc, made, alive, got>>

RawNext ==
  /\ alive
  /\ pos' = PosAfterNext
  /\ since' = Read(Raw, EventAt(PosAfterNext))
  /\ UNCHANGED <<fileVars, present, removed, acc, made, alive, got>>

(* The file is moved away, or back. *)
FileComesAndGoes ==
  /\ present' = ~present
  /\ removed' = TRUE
  /\ UNCHANGED <<fileVars, pos, acc, made, alive, got, since>>

Next ==
  \/ \E w \in Wrappers : Make(w) \/ Restart(w) \/ Advance(w)
  \/ RawFirst
  \/ RawNext
  \/ FileComesAndGoes

Spec == Init /\ [][Next]_vars

-----------------------------------------------------------------------------
TypeOK ==
  /\ nEvents \in 1 .. MaxEvents
  /\ bad \subseteq 1 .. nEvents
  /\ hasXS \in BOOLEAN /\ present \in BOOLEAN /\ removed \in BOOLEAN
  /\ pos \in 1 .. nEvents + 1
  /\ acc \in [Wrappers -> Nat \cup {NoAcc}]
  /\ made \subseteq Wrappers
  /\ alive \in BOOLEAN
  /\ got \in [Wrappers -> Seq(1 .. MaxEvents)]
  /\ since \in Seq(Users \X (1 .. MaxEvents))

(* norm_info() of a wrapper speaks of the events that wrapper was given,   *)
(* however many users share the reader and whichever calls threw.          *)
AccumulatorCountsGiven ==
  \A w \in Wrappers : acc[w] # NoAcc => acc[w] = Len(got[w])

(* Between two reopenings the file is read front to back, each event by    *)
(* one user: users that share a reader split the events between them.      *)
EachEventReadOnce ==
  /\ Len(since) = IF pos > nEvents THEN nEvents ELSE pos
  /\ \A i \in 1 .. Len(since) : since[i][2] = i

(* What a wrapper read since the reader was reopened it was also given,    *)
(* but for the events process() rejected: those are lost to everybody.     *)
(* A first() on a file that is gone empties the accumulator and leaves the *)
(* reader where it was, so the wrapper then goes on with the old pass.     *)
ReadsAreGiven ==
  LET mine(w) == OnlyIn(since, {w} \X ((1 .. nEvents) \ bad))
  IN  ~removed => \A w \in made :
        IsSuffix([i \in 1 .. Len(mine(w)) |-> mine(w)[i][2]], got[w])

(* A source that was handed out never dereferences a null pointer while    *)
(* its file stays where it was.                                            *)
GoodSourceSurvives == alive \/ removed
=============================================================================
