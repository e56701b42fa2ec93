------------------------------- MODULE Merge -------------------------------
(***************************************************************************)
(* What a combination of event sources promises its consumer, whatever the *)
(* order in which it visits them: the stream is an interleaving of the     *)
(* component streams.  Every component contributes its events in file      *)
(* order, each of them once per pass, and a restart begins a new pass.     *)
(* CombinedSource is shown to implement this specification.                *)
(***************************************************************************)
EXTENDS Naturals, Sequences

CONSTANT Comp      \* the components

VARIABLES size,    \* events a component can deliver in a pass
          taken,   \* events of a component delivered in this pass
          out      \* the events of this pass, in the order of delivery

vars == <<size, taken, out>>

Nothing == [c \in Comp |-> 0]

Init ==
  /\ size \in [Comp -> Nat]
  /\ taken = Nothing
  /\ out = <<>>

(* The next event of c joins the stream. *)
Deliver(c) ==
  /\ taken[c] < size[c]
  /\ taken' = [taken EXCEPT ![c] = @ + 1]
  /\ out' = Append(out, <<c, taken[c] + 1>>)
  /\ UNCHANGED size

(* A new pass: empty so far, or opened by the first event of a component.  *)
Restart ==
  /\ UNCHANGED size
  /\ \/ taken' = Nothing /\ out' = <<>>
     \/ \E c \in Comp :
          /\ size[c] > 0
          /\ taken' = [Nothing EXCEPT ![c] = 1]
          /\ out' = << <<c, 1>> >>

Next == Restart \/ \E c \in Comp : Deliver(c)

Spec == Init /\ [][Next]_vars
=============================================================================
