------------------------------ MODULE FrameFill ------------------------------
(***************************************************************************)
(* Filling a HistFrame from EventFrames, batch after batch.  A call of     *)
(* fill() turns its operations into a plan, adding the histogram columns   *)
(* the plan needs, and then fills row by row; columns for categories that  *)
(* have no label are added when a row brings a new value.  The call may be *)
(* left by an exception: while it plans, when the frame lacks a column, or *)
(* at a row whose projection is missing (builds with checks).              *)
(*                                                                         *)
(* A row is chosen when the loop comes to it, since nothing looks at a row *)
(* before.                                                                 *)
(*                                                                         *)
(* Weights are not modelled: a cell counts the rows that were filled into  *)
(* it.  A row that would add nothing, because no bin contains it or its    *)
(* weight is not a normal number, has bin npos.                            *)
(***************************************************************************)
EXTENDS SequenceFilter, FiniteSets, SequencesExt

CONSTANTS Bins,       \* the bins of the histogram
          Categories, \* values of the column that categorises, not negative
          NLabels,    \* the labels a labelled plan has, for the first values
          Plans,      \* the operations that calls are made with
          MaxBatch,   \* bound: rows of a frame
          MaxRows     \* bound: rows filled since the last reset()

ASSUME BinsAssumption == Bins \subseteq Nat
ASSUME CategoriesAssumption == Categories \subseteq Nat /\ NLabels \in Nat
ASSUME BoundsAssumption == MaxBatch \in Nat \ {0} /\ MaxRows \in Nat

npos == -1

(* The names of the columns of the histogram. *)
Default == <<"mc">>
Named == <<"sel">>
Label(i) == <<"label", i>>
Weighted == <<"weight.shift">>
Category(v) == <<"process.id", v>>

(* What a row of a frame is to the fill: `pass' is the column of fill_if,  *)
(* `missing' says that a projection is kMissingDatum, which find_bin()     *)
(* refuses.                                                                *)
Row == {row \in [bin : Bins \cup {npos}, categ : Categories,
                 pass : BOOLEAN, missing : BOOLEAN] : row.missing => row.bin = npos}

(* The operations of a call.  The frame lacks a column: one that is looked *)
(* up before any histogram column is added, or only after all of them.     *)
Plan == [fill : {"nothing", "column 0", "column sel"},
         split : {"no", "labelled", "unlabelled", "weighted"},
         lacks : {"nothing", "early", "late"}]

ASSUME PlansAssumption == Plans \subseteq Plan

VARIABLES
  columns,   \* names of the columns, in order
  sums,      \* sums[c][b]: rows filled into bin b of column c
  numFills,  \* num_fills
  plan,      \* the plan of the call
  categs,    \* unlabelled_categ_list with its columns, in order
  left,      \* rows of the frame the loop has not come to
  pc,        \* "idle", "rows"
  done       \* history: the rows filled since reset(), each with its plan

hist == <<columns, sums, numFills>>
vars == <<hist, plan, categs, left, pc, done>>

NoPlan == [fill |-> "nothing", split |-> "no", lacks |-> "nothing"]

NoRows == [b \in Bins |-> 0]

-----------------------------------------------------------------------------
(* find_column_index() of a column there is, and add_column(), which       *)
(* resizes the contents.                                                   *)
Position(cols, name) == CHOOSE i \in DOMAIN cols : cols[i] = name

Resized(cells, cols) ==
  [c \in DOMAIN cols |-> IF c \in DOMAIN cells THEN cells[c] ELSE NoRows]

(* The columns after those of the given names, no two of them equal, that   *)
(* do not exist are added.                                                 *)
WithColumns(cols, names) == cols \o OnlyIn(names, ToSet(names) \ ToSet(cols))

(* fill_bin() for every target in turn; find_bin() found no bin if b is npos. *)
Times(c, targets) == Cardinality({i \in DOMAIN targets : targets[i] = c})

FillBin(cells, b, targets) ==
  IF b = npos THEN cells
  ELSE [c \in DOMAIN cells |->
          [cells[c] EXCEPT ![b] = @ + Times(c, targets)]]

(* The fills that the cells hold, one after the other in each of them. *)
FillsIn(cells) ==
  UNION {{<<c, b, k>> : k \in 1 .. cells[c][b]} : c \in DOMAIN cells, b \in Bins}

-----------------------------------------------------------------------------
(* A HistFrame with its default column; fill() has not been called.        *)
Init ==
  /\ columns = <<Default>>
  /\ sums = <<NoRows>>
  /\ numFills = 0
  /\ plan = NoPlan
  /\ categs = <<>>
  /\ left = 0
  /\ pc = "idle"
  /\ done = <<>>

(* Columns that the operations of a plan add, in the order of the code.    *)
PlannedColumns(p) ==
  IF p.lacks = "early" THEN <<>>
  ELSE (IF p.fill = "column sel" THEN <<Named>> ELSE <<>>)
       \o (IF p.split = "labelled"
           THEN [i \in 1 .. NLabels |-> Label(i - 1)] ELSE <<>>)
       \o (IF p.split = "weighted" THEN <<Weighted>> ELSE <<>>)

Refused(p) == p.lacks # "nothing" \/ (p.fill = "nothing" /\ p.split = "no")

(* The columns fill_loop() takes for those of categories seen before.      *)
FaultSeenBefore(cols) == <<>>
SeenBefore(cols) ==
  LET known == OnlyIn([c \in DOMAIN cols |-> c],
                      {c \in DOMAIN cols : \E v \in Categories : cols[c] = Category(v)})
  IN  [i \in DOMAIN known |-> [value |-> cols[known[i]][2], column |-> known[i]]]

(* The call ends: its local variables are gone. *)
Leave ==
  /\ pc' = "idle"
  /\ plan' = NoPlan
  /\ categs' = <<>>
  /\ left' = 0

(* fill() of a frame of n rows, up to the loop over them. *)
Fill(p, n) ==
  LET cols == WithColumns(columns, PlannedColumns(p)) IN
  /\ pc = "idle"
  /\ Len(done) + n <= MaxRows
  /\ columns' = cols
  /\ sums' = Resized(sums, cols)
  /\ IF Refused(p)
     THEN Leave
     ELSE /\ pc' = "rows"
          /\ plan' = p
          /\ left' = n
          /\ categs' = IF p.split = "unlabelled" THEN SeenBefore(cols) ELSE <<>>
  /\ UNCHANGED <<numFills, done>>

AtRow == pc = "rows" /\ left > 0

(* The conditional column says no: the next row. *)
SkipRow(row) ==
  /\ AtRow
  /\ ~row.pass
  /\ left' = left - 1
  /\ UNCHANGED <<hist, plan, categs, pc, done>>

(* find_bin() throws: the rows before this one stay filled. *)
ThrowAtRow(row) ==
  /\ AtRow
  /\ row.pass /\ row.missing
  /\ Leave
  /\ UNCHANGED <<hist, done>>

(* A category that has no label and no column yet. *)
IsNew(v) == plan.split = "unlabelled" /\ \A e \in ToSet(categs) : e.value # v

(* The columns a row is filled into, one after the other.                  *)
FaultCategoryColumns(v, ctgs) ==
  IF plan.split = "labelled"
  THEN IF v < NLabels THEN <<Position(columns, Label(0)) + v>> ELSE <<>>
  ELSE IF plan.split = "unlabelled" THEN <<ctgs[Len(ctgs)].column>>
  ELSE <<>>

CategoryColumns(v, ctgs) ==
  IF plan.split = "labelled"
  THEN IF v < NLabels THEN <<Position(columns, Label(v))>> ELSE <<>>
  ELSE IF plan.split = "unlabelled"
  THEN <<(CHOOSE e \in ToSet(ctgs) : e.value = v).column>>
  ELSE <<>>

FillColumn ==
  IF plan.fill = "column 0" THEN <<1>>
  ELSE IF plan.fill = "column sel" THEN <<Position(columns, Named)>>
  ELSE <<>>

WeightColumn == IF plan.split = "weighted" THEN <<Position(columns, Weighted)>> ELSE <<>>

FaultNumFills(b, targets) == IF b = npos THEN 0 ELSE 1
NumFills(b, targets) == IF b = npos THEN 0 ELSE Len(targets)

FillRow(row) ==
  /\ AtRow
  /\ row.pass /\ ~row.missing
  /\ LET v == row.categ
         cols == IF IsNew(v) THEN Append(columns, Category(v)) ELSE columns
         ctgs == IF IsNew(v) THEN Append(categs, [value |-> v, column |-> Len(cols)])
                 ELSE categs
         targets == FillColumn \o CategoryColumns(v, ctgs) \o WeightColumn
     IN  /\ columns' = cols
         /\ categs' = ctgs
         /\ sums' = FillBin(Resized(sums, cols), row.bin, targets)
         /\ numFills' = numFills + NumFills(row.bin, targets)
         /\ done' = Append(done, [row |-> row, plan |-> plan])
  /\ left' = left - 1
  /\ UNCHANGED <<plan, pc>>

EndFill ==
  /\ pc = "rows"
  /\ left = 0
  /\ Leave
  /\ UNCHANGED <<hist, done>>

(* reset(): the contents go, the columns stay. *)
Reset ==
  /\ pc = "idle"
  /\ sums' = [c \in DOMAIN columns |-> NoRows]
  /\ numFills' = 0
  /\ done' = <<>>
  /\ UNCHANGED <<columns, plan, categs, left, pc>>

Next ==
  \/ \E p \in Plans, n \in 0 .. MaxBatch : Fill(p, n)
  \/ \E row \in Row : SkipRow(row) \/ ThrowAtRow(row) \/ FillRow(row)
  \/ EndFill
  \/ Reset

Spec == Init /\ [][Next]_vars

-----------------------------------------------------------------------------
(* In particular no column is added twice, whichever calls failed before.  *)
Columns == {Default, Named, Weighted} \cup {Label(i) : i \in 0 .. NLabels - 1}
           \cup {Category(v) : v \in Categories}

Filled == [row : Row, plan : Plan]

TypeOK ==
  /\ columns \in Seq(Columns)
  /\ IsInjective(columns)
  /\ sums \in Seq([Bins -> Nat]) /\ Len(sums) = Len(columns)
  /\ numFills \in Nat
  /\ plan \in Plan /\ (pc = "idle" => plan = NoPlan)
  /\ categs \in Seq([value : Categories, column : 1 .. Len(columns)])
  /\ left \in 0 .. MaxBatch
  /\ pc \in {"idle", "rows"}
  /\ done \in Seq(Filled)

(* The column a filled row belongs to. *)
Belongs(row, p, name) ==
  \/ name = Default /\ p.fill = "column 0"
  \/ name = Named /\ p.fill = "column sel"
  \/ name = Weighted /\ p.split = "weighted"
  \/ \E i \in 0 .. NLabels - 1 :
       name = Label(i) /\ p.split = "labelled" /\ row.categ = i
  \/ name = Category(row.categ) /\ p.split = "unlabelled"

(* The filled rows a cell should hold. *)
RowsOf(name, b) == {e \in Filled : e.row.bin = b /\ Belongs(e.row, e.plan, name)}

(* Every cell holds the rows that belong to it: of all the batches since   *)
(* reset(), whatever their plans, and of failed calls those rows only that *)
(* came before the failure.  Every column a filled row belongs to exists.  *)
CellsHoldTheirRows ==
  /\ \A e \in ToSet(done), name \in Columns :
       Belongs(e.row, e.plan, name) => name \in ToSet(columns)
  /\ \A c \in DOMAIN columns, b \in Bins :
       sums[c][b] = Len(OnlyIn(done, RowsOf(columns[c], b)))

(* num_fills is the number of fills that are in the cells. *)
NumFillsIsTotal == numFills = Cardinality(FillsIn(sums))
=============================================================================
