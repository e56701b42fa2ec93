----------------------------- MODULE MCFrameFill -----------------------------
(* FrameFill with calls that use every way to fill, and one call for every  *)
(* way to fail before the rows.                                             *)
EXTENDS FrameFill

Call(f, s, l) == [fill |-> f, split |-> s, lacks |-> l]

MCPlans ==
  { Call("column 0", "unlabelled", "nothing"),
    Call("nothing", "labelled", "nothing"),
    Call("column sel", "weighted", "nothing"),
    Call("nothing", "unlabelled", "early"),
    Call("column sel", "labelled", "late"),
    Call("nothing", "no", "nothing") }
=============================================================================
