---------------------------- MODULE EventFrameGen ----------------------------
(***************************************************************************)
(* EventFrameGen: reads a normalised event source through a looper, cuts   *)
(* and projects its events, and hands the rows out in frames of a bounded  *)
(* size: first() restarts the source, next() goes on, all() repeats next() *)
(* until a frame has no rows.  firstArrow() and nextArrow() do the same    *)
(* but remember a failure of a filter or a projection.                     *)
(*                                                                         *)
(* The source is the sequence of the answers it gives, the first() and the *)
(* next() calls numbered from 1: kind[k] is "none" where the k-th call     *)
(* returns nothing, "fails" where it throws (an event not in MeV, one that *)
(* a plugin cannot convert) and otherwise what the filters and projections *)
(* make of the event, which is named k.  After the first "none" a file has *)
(* nothing else, but a combination of three or more sources may            *)
(* (MayResume).  A source does not fail on its first event: the            *)
(* constructor of the generator has asked for it already.  norm_info() is  *)
(* determined by the number of calls made.                                 *)
(*                                                                         *)
(* One step is one iteration of the loop of next().  A generator is used   *)
(* by one thread, and here it has its source for itself.                   *)
(***************************************************************************)
EXTENDS Integers, Sequences, FiniteSets, SequencesExt, SequenceFilter

CONSTANTS MaxCalls,  \* bound: the calls of the source that may deliver
          MaxChunk,  \* bound: rows asked for in a frame
          MayResume  \* the source may deliver after it has returned nothing

ASSUME BoundsAssumption == MaxCalls \in Nat \ {0} /\ MaxChunk \in Nat \ {0}
ASSUME MayResumeAssumption == MayResume \in BOOLEAN

Kinds == {"keep", "cut", "throws", "none", "fails"}
NoEvent == 0
Row == [event : 1 .. MaxCalls, estimate : 1 .. MaxCalls + 1]

VARIABLES
  kind,     \* what each call of the source delivers, see above
  limit,    \* max_events_to_loop; MaxCalls + 1 and more is no limit
  calls,    \* calls of the source since its first(): norm_info() covers these
  it,       \* ev_it: the event it holds, or NoEvent
  nproc,    \* neventsprocessed
  inError,  \* in_error_state
  pc,       \* "new", "idle", and "loop", "finish", "again" inside a call
  arrow,    \* the call is firstArrow() or nextArrow()
  inAll,    \* the call is all()
  want,     \* nchunk
  chunk,    \* the rows of the frame being filled
  result,   \* how the last call ended
  given,    \* history: the frames with rows since first()
  looped    \* history: the events looped over since first()

inputVars == <<kind, limit>>
sourceVars == <<calls, it>>
callVars == <<arrow, inAll, want>>
vars == <<inputVars, sourceVars, nproc, inError, pc, callVars, chunk, result,
          given, looped>>

Delivers(k) == k <= MaxCalls /\ kind[k] \notin {"none", "fails"}
Fails(k) == k <= MaxCalls /\ kind[k] = "fails"
EventOf(k) == IF Delivers(k) THEN k ELSE NoEvent

(* The events norm_info() speaks of after the given number of calls. *)
Counted(k) == {e \in 1 .. MaxCalls : e <= k /\ Delivers(e)}

-----------------------------------------------------------------------------
(* The source delivers again after it has returned nothing. *)
Resumes == \E k \in 2 .. MaxCalls : kind[k - 1] = "none" /\ kind[k] # "none"

(* ++ev_it; calls past MaxCalls are all alike. *)
Advance ==
  /\ ~Fails(calls + 1)
  /\ calls' = IF calls <= MaxCalls THEN calls + 1 ELSE calls
  /\ it' = EventOf(calls + 1)

(* An exception leaves the call: the rows of this frame are lost, ev_it    *)
(* stays on the event it holds.                                            *)
LeaveCall ==
  /\ pc' = "idle"
  /\ inAll' = FALSE
  /\ chunk' = <<>>
  /\ result' = "threw"
  /\ UNCHANGED <<it, given>>

(* ++ev_it throws in source->next(), and no call remembers that.  The      *)
(* event that ev_it keeps has been counted already; the next call loops    *)
(* over it again.                                                          *)
FaultAdvanceFails ==
  /\ Fails(calls + 1)
  /\ calls' = calls + 1
  /\ pc' = "idle" /\ inAll' = FALSE /\ result' = "threw"
  /\ UNCHANGED <<it, given, chunk, inError>>

AdvanceFails ==
  /\ Fails(calls + 1)
  /\ calls' = calls + 1
  /\ LeaveCall
  /\ UNCHANGED inError

(* ev_it = begin(source) *)
Rewind == calls' = 1 /\ it' = EventOf(1)

Usable == ~inError

ReachedLimit(n) == n >= limit

(* `while (next_chunk.rows())' of all() *)
FaultMore(rows) == TRUE
FaultMoreThanOne(rows) == Len(rows) > 1
More(rows) == rows # <<>>

-----------------------------------------------------------------------------
Init ==
  /\ kind \in [1 .. MaxCalls -> Kinds]
  /\ kind[1] \notin {"none", "fails"}
  /\ Resumes => MayResume
  /\ limit \in 0 .. MaxCalls + 1
  /\ calls = 1 /\ it = NoEvent
  /\ nproc = 0
  /\ inError = FALSE
  /\ pc = "new"
  /\ arrow = FALSE /\ inAll = FALSE /\ want = 1
  /\ chunk = <<>>
  /\ result = "none"
  /\ given = <<>> /\ looped = <<>>

(* What a call of next() returns, and what all() does with it. *)
Return(rows) ==
  /\ given' = IF rows = <<>> THEN given ELSE Append(given, rows)
  /\ chunk' = <<>>
  /\ IF inAll /\ More(rows)
     THEN pc' = "again" /\ UNCHANGED <<result, inAll>>
     ELSE /\ pc' = "idle"
          /\ inAll' = FALSE
          /\ result' = IF inAll THEN "all"
                       ELSE IF rows = <<>> THEN "empty" ELSE "rows"

(* At the limit next() returns a frame without rows, but nextArrow() no    *)
(* batch at all.                                                           *)
ReturnAtLimit(isArrow, isAll) ==
  /\ pc' = "idle"
  /\ inAll' = FALSE
  /\ result' = IF isAll THEN "all" ELSE IF isArrow THEN "null" ELSE "empty"

(* first() up to the loop of the next() it calls; all() begins with it. *)
FirstFrame(n, isArrow, isAll) ==
  /\ pc \in {"new", "idle"}
  /\ Usable
  /\ nproc' = 0
  /\ Rewind
  /\ arrow' = isArrow /\ want' = n
  /\ given' = <<>> /\ looped' = <<>>
  /\ IF ReachedLimit(0)
     THEN ReturnAtLimit(isArrow, isAll)
     ELSE pc' = "loop" /\ inAll' = isAll /\ UNCHANGED result
  /\ UNCHANGED <<inputVars, inError, chunk>>

(* next() up to its loop. *)
EnterNext ==
  IF ReachedLimit(nproc)
  THEN ReturnAtLimit(arrow', inAll) /\ UNCHANGED <<chunk, given>>
  ELSE pc' = "loop" /\ UNCHANGED <<inAll, chunk, result, given>>

NextFrame(n, isArrow) ==
  /\ pc = "idle"
  /\ Usable
  /\ arrow' = isArrow /\ want' = n
  /\ EnterNext
  /\ UNCHANGED <<inputVars, sourceVars, nproc, inError, looped>>

NextOfAll ==
  /\ pc = "again"
  /\ EnterNext
  /\ UNCHANGED <<inputVars, sourceVars, nproc, inError, arrow, want, looped>>

(* Any of the calls, once a failure was remembered. *)
Refuse ==
  /\ pc = "idle"
  /\ inError
  /\ result' = "refused"
  /\ UNCHANGED <<inputVars, sourceVars, nproc, inError, pc, callVars, chunk,
                 given, looped>>

-----------------------------------------------------------------------------
InLoop(k) == pc = "loop" /\ it # NoEvent /\ kind[it] = k

LoopedOver == looped' = Append(looped, it) /\ nproc' = nproc + 1

(* ++ev_it, unless one of the tests before it breaks out of the loop; rows *)
(* are those of the frame so far.                                          *)
FaultGoOn(stop, rows) ==
  /\ Advance
  /\ pc' = IF stop THEN "finish" ELSE "loop"
  /\ chunk' = rows
  /\ UNCHANGED <<inError, inAll, result, given>>

GoOn(stop, rows) ==
  \/ /\ stop
     /\ pc' = "finish"
     /\ chunk' = rows
     /\ UNCHANGED <<sourceVars, inError, inAll, result, given>>
  \/ /\ ~stop
     /\ Advance
     /\ chunk' = rows
     /\ UNCHANGED <<pc, inError, inAll, result, given>>
  \/ ~stop /\ AdvanceFails

Cut ==
  /\ InLoop("cut")
  /\ LoopedOver
  /\ GoOn(ReachedLimit(nproc + 1), chunk)
  /\ UNCHANGED <<inputVars, arrow, want>>

FaultChunkFull(rows) == Len(rows) > want
ChunkFull(rows) == Len(rows) >= want

Keep ==
  /\ InLoop("keep")
  /\ LoopedOver
  /\ LET rows == Append(chunk, [event |-> it, estimate |-> calls])
     IN GoOn(ReachedLimit(nproc + 1) \/ ChunkFull(rows), rows)
  /\ UNCHANGED <<inputVars, arrow, want>>

(* A filter or a projection throws, or the event has no process.id.  Only  *)
(* the arrow calls remember it, and they only the former.                  *)
Throw ==
  /\ InLoop("throws")
  /\ LeaveCall
  /\ inError' \in {FALSE, arrow}
  /\ UNCHANGED <<inputVars, calls, nproc, arrow, want, looped>>

SourceEnds ==
  /\ pc = "loop"
  /\ it = NoEvent
  /\ pc' = "finish"
  /\ UNCHANGED <<inputVars, sourceVars, nproc, inError, callVars, chunk,
                 result, given, looped>>

(* After the loop: the last row gets the final estimate, and only then the *)
(* iterator moves on to the event the next call begins with.               *)
FaultFinalEstimate(rows) == rows

FaultEstimateReadAhead(rows) ==
  IF rows = <<>> THEN rows
  ELSE [rows EXCEPT ![Len(rows)].estimate = calls + 1]

FinalEstimate(rows) ==
  IF rows = <<>> THEN rows
  ELSE [rows EXCEPT ![Len(rows)].estimate = calls]

Finish ==
  /\ pc = "finish"
  /\ \/ Advance /\ Return(FinalEstimate(chunk)) /\ UNCHANGED inError
     \/ AdvanceFails
  /\ UNCHANGED <<inputVars, nproc, arrow, want, looped>>

Inside == NextOfAll \/ Cut \/ Keep \/ Throw \/ SourceEnds \/ Finish

Next ==
  \/ \E n \in 1 .. MaxChunk : \/ \E isArrow \in BOOLEAN : FirstFrame(n, isArrow, FALSE)
                              \/ \E isArrow \in BOOLEAN : NextFrame(n, isArrow)
                              \/ FirstFrame(n, FALSE, TRUE)
  \/ Refuse
  \/ Inside

Spec == Init /\ [][Next]_vars

(* The thread that has entered a call runs it. *)
FairSpec == Spec /\ WF_vars(Inside)

-----------------------------------------------------------------------------
Rows == FlattenSeq(given) \o chunk
EventsOf(rows) == [i \in 1 .. Len(rows) |-> rows[i].event]
Kept(events) == OnlyIn(events, {e \in 1 .. MaxCalls : kind[e] = "keep"})

TypeOK ==
  /\ kind \in [1 .. MaxCalls -> Kinds]
  /\ limit \in 0 .. MaxCalls + 1
  /\ calls \in 1 .. MaxCalls + 1
  /\ it \in 0 .. MaxCalls
  /\ nproc \in 0 .. MaxCalls
  /\ inError \in BOOLEAN /\ arrow \in BOOLEAN /\ inAll \in BOOLEAN
  /\ pc \in {"new", "idle", "loop", "finish", "again"}
  /\ want \in 1 .. MaxChunk
  /\ chunk \in Seq(Row)
  /\ result \in {"none", "rows", "empty", "null", "all", "threw", "refused"}
  /\ given \in Seq(Seq(Row))
  /\ looped \in Seq(1 .. MaxCalls)

(* No row is given twice or out of the order of the file, and every event  *)
(* that was looped over and passes the filters has its row, however the    *)
(* calls cut the stream into frames.  Missing are only rows of a frame     *)
(* that was lost with an exception: that of a call k of the source after   *)
(* them, or that of the event k which ev_it is still on; and of each such  *)
(* frame no more than its size.                                            *)
RowsFailed(e, k) ==
  /\ \/ k <= calls /\ kind[k] = "fails"
     \/ k = it /\ kind[k] = "throws"
  /\ Cardinality({f \in e .. k - 1 : kind[f] = "keep"}) <= MaxChunk

RowsAreTheKept ==
  LET events == EventsOf(Rows) IN
  /\ \A i, j \in DOMAIN events : i < j => events[i] < events[j]
  /\ ToSet(events) \subseteq ToSet(Kept(looped))
  /\ \A e \in ToSet(Kept(looped)) \ ToSet(events) : \E k \in e + 1 .. MaxCalls : RowsFailed(e, k)

(* Every event the source delivered was looped over, in order, or is the   *)
(* one the iterator holds: none is dropped between two calls.  An event is *)
(* looped over again only when it was held through a call of the source    *)
(* that failed, and once for each of the calls that fail in a row.         *)
NothingDropped ==
  pc # "new" =>
    /\ Counted(calls) = ToSet(looped) \cup ({it} \ {NoEvent})
    /\ \A i, j \in 1 .. Len(looped) : i < j =>
         \/ looped[i] < looped[j]
         \/ looped[i] = looped[j] /\ \A k \in 1 .. j - i : Fails(looped[i] + k)

(* No more events are looped over than the limit allows, the counter it is *)
(* compared with is their number over all calls, and the loop never fills  *)
(* a row beyond the chunk it has allocated: the two limits may be met by   *)
(* the same event, at the end of the source or not.                        *)
WithinLimitAndChunk ==
  /\ nproc = Len(looped) /\ nproc <= limit
  /\ pc = "loop" => Len(chunk) < want

(* The estimate in a row is that of the events up to it, and in the last   *)
(* row of a frame that of every event looped over so far, cut ones too:    *)
(* not fewer, and not the one that is read ahead.                          *)
EstimateIsWhatWasLooped ==
  /\ \A f \in ToSet(given) : \A i \in 1 .. Len(f) - 1 :
       Counted(f[i].estimate) = Counted(f[i].event)
  /\ result = "rows" /\ pc = "idle" =>
       Counted(Last(Last(given)).estimate) = ToSet(looped)

(* all() returns every event that passes the filters, unless the limit     *)
(* stopped it, an exception left it or the source resumed after its end.   *)
AllIsComplete ==
  result = "all" /\ pc = "idle" /\ ~Resumes =>
    \/ nproc = limit
    \/ EventsOf(Rows) = Kept([k \in 1 .. MaxCalls |-> k])

(* all() comes to an end, with all rows or with an exception. *)
AllReturns == inAll ~> ~inAll

(* What the comment on the final estimate says: once there are no more     *)
(* rows the last one carries the estimate of all the events read, also     *)
(* when the events after it were not selected.                             *)
LastRowIsFinalEstimate ==
  result = "all" /\ pc = "idle" /\ given # <<>> =>
    ToSet(looped) \subseteq Counted(Last(Last(given)).estimate)
=============================================================================
