--------------------------- MODULE FrameFillProofs ---------------------------
(***************************************************************************)
(* Proofs about FrameFill: after any sequence of calls, failed ones and    *)
(* resets, every cell of the histogram holds the rows that belong to it.   *)
(*                                                                         *)
(* The argument.  No column is there twice, and while the rows of a call   *)
(* are filled the frame has the columns of its plan and the list of the    *)
(* categories agrees with the columns (FillInv).  So the columns a row is  *)
(* filled into are exactly those it belongs to, each once (TargetsAre),    *)
(* and a column that is added holds nothing and no earlier row belongs to  *)
(* it (ResizedHolds).                                                      *)
(***************************************************************************)
EXTENDS FrameFill, DataLemmas, FiniteSetTheorems

(* Columns that a call of fill() can work with. *)
GoodColumns(cols) ==
  /\ cols \in Seq(Columns)
  /\ IsInjective(cols)
  /\ Len(cols) >= 1 /\ cols[1] = Default

(* The columns of more begin with cols. *)
Grown(cols, more) ==
  /\ Len(cols) <= Len(more)
  /\ \A c \in 1 .. Len(cols) : more[c] = cols[c]

PlanHasColumns(p, cols) ==
  /\ p.fill = "column sel" => Named \in ToSet(cols)
  /\ p.split = "labelled" => \A i \in 0 .. NLabels - 1 : Label(i) \in ToSet(cols)
  /\ p.split = "weighted" => Weighted \in ToSet(cols)

(* The list of the categories is that of the columns for categories. *)
CategsAre(ctgs, cols) ==
  /\ ctgs \in Seq([value : Categories, column : 1 .. Len(cols)])
  /\ \A e \in ToSet(ctgs) : cols[e.column] = Category(e.value)
  /\ \A v \in Categories : Category(v) \in ToSet(cols) => \E e \in ToSet(ctgs) : e.value = v

(* If the call needs a column for the category v there is one in the list. *)
CategsHave(ctgs, cols, v) ==
  plan.split = "unlabelled" => /\ CategsAre(ctgs, cols)
                               /\ \E e \in ToSet(ctgs) : e.value = v

(* The inductive invariant. *)
FillInv ==
  /\ TypeOK
  /\ GoodColumns(columns)
  /\ pc = "rows" => /\ PlanHasColumns(plan, columns)
                    /\ plan.split = "unlabelled" => CategsAre(categs, columns)
  /\ CellsHoldTheirRows

-----------------------------------------------------------------------------
(* Names of columns. *)
LEMMA NamesDiffer ==
  /\ Default # Named /\ Default # Weighted /\ Named # Weighted
  /\ \A i : Label(i) # Default /\ Label(i) # Named /\ Label(i) # Weighted
  /\ \A v : Category(v) # Default /\ Category(v) # Named /\ Category(v) # Weighted
  /\ \A i, v : Label(i) # Category(v)
  /\ \A i, j : Label(i) = Label(j) => i = j
  /\ \A v, w : Category(v) = Category(w) => v = w
<1>1. Default # Named /\ Default # Weighted /\ Named # Weighted
  BY DEF Default, Named, Weighted
<1>2. ASSUME NEW i
      PROVE  Label(i) # Default /\ Label(i) # Named /\ Label(i) # Weighted
  BY DEF Default, Named, Weighted, Label
<1>3. ASSUME NEW v
      PROVE  Category(v) # Default /\ Category(v) # Named /\ Category(v) # Weighted
  BY DEF Default, Named, Weighted, Category
<1>4. \A i, v : Label(i) # Category(v)
  BY DEF Label, Category
<1>5. \A i, j : Label(i) = Label(j) => i = j
  BY DEF Label
<1>6. \A v, w : Category(v) = Category(w) => v = w
  BY DEF Category
<1>7. QED BY <1>1, <1>2, <1>3, <1>4, <1>5, <1>6

LEMMA NamesAreColumns ==
  /\ Default \in Columns /\ Named \in Columns /\ Weighted \in Columns
  /\ \A i \in 0 .. NLabels - 1 : Label(i) \in Columns
  /\ \A v \in Categories : Category(v) \in Columns
BY DEF Columns

(* The columns a plan adds are distinct and those it fills. *)
LEMMA PlannedColumnsAre ==
  ASSUME NEW p \in Plan
  PROVE  /\ PlannedColumns(p) \in Seq(Columns)
         /\ IsInjective(PlannedColumns(p))
         /\ ~Refused(p) => \A cols : ToSet(PlannedColumns(p)) \subseteq ToSet(cols)
                                        => PlanHasColumns(p, cols)
<1> DEFINE sel == IF p.fill = "column sel" THEN <<Named>> ELSE <<>>
           labels == IF p.split = "labelled"
                     THEN [i \in 1 .. NLabels |-> Label(i - 1)] ELSE <<>>
           weight == IF p.split = "weighted" THEN <<Weighted>> ELSE <<>>
<1>1. /\ sel \in Seq(Columns) /\ IsInjective(sel)
      /\ ToSet(sel) = IF p.fill = "column sel" THEN {Named} ELSE {}
  BY NamesAreColumns, OneElement, NoElement
<1>2. /\ weight \in Seq(Columns) /\ IsInjective(weight)
      /\ ToSet(weight) = IF p.split = "weighted" THEN {Weighted} ELSE {}
  BY NamesAreColumns, OneElement, NoElement
<1>3. /\ labels \in Seq(Columns) /\ IsInjective(labels)
      /\ ToSet(labels) = IF p.split = "labelled" THEN {Label(i) : i \in 0 .. NLabels - 1} ELSE {}
  <2>1. CASE p.split # "labelled"
    BY <2>1, NoElement
  <2>2. CASE p.split = "labelled"
    <3>1. NLabels \in Nat
      BY CategoriesAssumption
    <3>2. \A i \in 1 .. NLabels : i - 1 \in 0 .. NLabels - 1
      BY <3>1
    <3>3. labels = [i \in 1 .. NLabels |-> Label(i - 1)]
      BY <2>2
    <3>4. labels \in [1 .. NLabels -> Columns]
      BY <3>2, <3>3, NamesAreColumns
    <3>5. labels \in Seq(Columns)
      BY <3>1, <3>4
    <3>6. ASSUME NEW i \in 1 .. NLabels, NEW j \in 1 .. NLabels, labels[i] = labels[j]
          PROVE  i - 1 = j - 1
      <4>1. Label(i - 1) = Label(j - 1)
        BY <3>3, <3>6
      <4>2. QED BY <4>1, NamesDiffer
    <3>7. IsInjective(labels)
      BY <3>1, <3>3, <3>6 DEF IsInjective
    <3>8. ASSUME NEW i \in 0 .. NLabels - 1
          PROVE  \E j \in 1 .. NLabels : labels[j] = Label(i)
      <4>1. i + 1 \in 1 .. NLabels /\ (i + 1) - 1 = i
        BY <3>1
      <4>2. labels[i + 1] = Label((i + 1) - 1)
        BY <3>3, <4>1
      <4>3. QED BY <4>1, <4>2
    <3>9. ToSet(labels) = {Label(i) : i \in 0 .. NLabels - 1}
      <4>1. DOMAIN labels = 1 .. NLabels
        BY <3>3
      <4>2. ToSet(labels) \subseteq {Label(i) : i \in 0 .. NLabels - 1}
        BY <3>2, <3>3, <4>1 DEF ToSet
      <4> HIDE DEF labels
      <4>3. {Label(i) : i \in 0 .. NLabels - 1} \subseteq ToSet(labels)
        BY <3>8, <4>1 DEF ToSet
      <4>4. QED BY <4>2, <4>3
    <3>10. QED BY <2>2, <3>5, <3>7, <3>9
  <2>3. QED BY <2>1, <2>2
<1>4. CASE p.lacks = "early"
  BY <1>4 DEF PlannedColumns, IsInjective, Refused
<1>5. CASE p.lacks # "early"
  <2>1. PlannedColumns(p) = (sel \o labels) \o weight
    BY <1>5 DEF PlannedColumns
  <2>2. ToSet(sel) \cap ToSet(labels) = {}
    BY <1>1, <1>3, NamesDiffer
  <2>3. (ToSet(sel) \cup ToSet(labels)) \cap ToSet(weight) = {}
    BY <1>1, <1>2, <1>3, NamesDiffer
  <2> HIDE DEF sel, labels, weight
  <2> DEFINE both == sel \o labels
             all == both \o weight
  <2>4. both \in Seq(Columns) /\ IsInjective(both) /\ ToSet(both) = ToSet(sel) \cup ToSet(labels)
    <3>1. sel \in Seq(Columns) /\ labels \in Seq(Columns) /\ IsInjective(sel) /\ IsInjective(labels)
      BY <1>1, <1>3
    <3>2. QED BY <3>1, <2>2, Joined
  <2> HIDE DEF both
  <2>5. ToSet(both) \cap ToSet(weight) = {}
    BY <2>3, <2>4
  <2>6. all \in Seq(Columns) /\ IsInjective(all) /\ ToSet(all) = ToSet(both) \cup ToSet(weight)
    BY <1>2, <2>4, <2>5, Joined
  <2>7. PlannedColumns(p) = all
    BY <2>1 DEF both
  <2> HIDE DEF all
  <2>8. QED BY <1>1, <1>2, <1>3, <2>4, <2>6, <2>7 DEF PlanHasColumns
<1>6. QED BY <1>4, <1>5

(* Columns are added behind those there are, and none that is there. *)
LEMMA WithColumnsAre ==
  ASSUME NEW cols, GoodColumns(cols), NEW names \in Seq(Columns), IsInjective(names)
  PROVE  /\ GoodColumns(WithColumns(cols, names))
         /\ Grown(cols, WithColumns(cols, names))
         /\ ToSet(WithColumns(cols, names)) = ToSet(cols) \cup ToSet(names)
<1> DEFINE new == OnlyIn(names, ToSet(names) \ ToSet(cols))
           more == cols \o new
<1>1. cols \in Seq(Columns) /\ IsInjective(cols) /\ Len(cols) >= 1 /\ cols[1] = Default
  BY DEF GoodColumns
<1>2. new \in Seq(Columns) /\ IsInjective(new)
  BY OnlyInType, OnlyInInjective
<1>3. ToSet(new) = ToSet(names) \cap (ToSet(names) \ ToSet(cols))
  BY OnlyInElements
<1> HIDE DEF new
<1>4. more \in Seq(Columns) /\ IsInjective(more) /\ ToSet(more) = ToSet(cols) \cup ToSet(new)
  BY <1>1, <1>2, <1>3, Joined
<1>5. Grown(cols, more)
  BY <1>1, <1>2 DEF Grown
<1>6. Len(more) >= 1 /\ more[1] = Default
  BY <1>1, <1>2, <1>4, <1>5 DEF Grown
<1>7. WithColumns(cols, names) = more
  BY DEF WithColumns, new
<1>8. QED BY <1>3, <1>4, <1>5, <1>6, <1>7 DEF GoodColumns

(* One more column that is new. *)
LEMMA AppendedColumn ==
  ASSUME NEW cols, GoodColumns(cols), NEW name \in Columns, name \notin ToSet(cols)
  PROVE  /\ GoodColumns(Append(cols, name))
         /\ Grown(cols, Append(cols, name))
         /\ ToSet(Append(cols, name)) = ToSet(cols) \cup {name}
<1>1. cols \in Seq(Columns) /\ IsInjective(cols) /\ Len(cols) >= 1 /\ cols[1] = Default
  BY DEF GoodColumns
<1>2. ToSet(Append(cols, name)) = ToSet(cols) \cup {name}
  BY <1>1, ToSetAppend
<1>3. IsInjective(Append(cols, name))
  BY <1>1, InjectiveAppend
<1>4. Append(cols, name) \in Seq(Columns) /\ Len(Append(cols, name)) = Len(cols) + 1
      /\ \A c \in 1 .. Len(cols) : Append(cols, name)[c] = cols[c]
  BY <1>1
<1>5. Append(cols, name)[1] = Default /\ Len(Append(cols, name)) >= 1
  BY <1>1, <1>4
<1>6. QED BY <1>1, <1>2, <1>3, <1>4, <1>5 DEF GoodColumns, Grown

(* The list that is made at the start of the rows agrees with the columns. *)
LEMMA SeenBeforeIs ==
  ASSUME NEW cols, GoodColumns(cols)
  PROVE  CategsAre(SeenBefore(cols), cols)
<1> DEFINE all == [c \in DOMAIN cols |-> c]
           S == {c \in DOMAIN cols : \E v \in Categories : cols[c] = Category(v)}
           known == OnlyIn(all, S)
           seen == [i \in DOMAIN known |-> [value |-> cols[known[i]][2], column |-> known[i]]]
           n == Len(cols)
<1>1. n \in Nat /\ DOMAIN cols = 1 .. n
  BY DEF GoodColumns
<1>2. all \in Seq(1 .. n) /\ DOMAIN all = 1 .. n /\ \A c \in 1 .. n : all[c] = c
  BY <1>1
<1>3. ToSet(all) = 1 .. n
  BY <1>2 DEF ToSet
<1>4. known \in Seq(1 .. n) /\ ToSet(known) = (1 .. n) \cap S
  BY <1>2, <1>3, OnlyInType, OnlyInElements
<1>5. \A c \in S : c \in 1 .. n /\ \E v \in Categories : cols[c] = Category(v)
  BY <1>1
<1>6. \A c \in 1 .. n, v \in Categories : cols[c] = Category(v) => c \in S
  BY <1>1
<1>7. \A v : Category(v)[2] = v
  BY DEF Category
<1>8. seen = SeenBefore(cols)
  BY DEF SeenBefore
<1> HIDE DEF all, S, known
<1>9. \A i \in DOMAIN known : known[i] \in S
  BY <1>4 DEF ToSet
<1>10. ASSUME NEW i \in DOMAIN known
       PROVE  /\ seen[i].value \in Categories /\ seen[i].column \in 1 .. n
              /\ seen[i] \in [value : Categories, column : 1 .. n]
              /\ cols[seen[i].column] = Category(seen[i].value)
  <2>1. PICK v \in Categories : cols[known[i]] = Category(v)
    BY <1>5, <1>9
  <2>2. cols[known[i]][2] = v
    BY <1>7, <2>1
  <2>3. seen[i] = [value |-> v, column |-> known[i]] /\ known[i] \in 1 .. n
    BY <1>5, <1>9, <2>2
  <2>4. QED BY <2>1, <2>3
<1>11. DOMAIN seen = DOMAIN known /\ DOMAIN known = 1 .. Len(known) /\ Len(known) \in Nat
  BY <1>4
<1> HIDE DEF seen
<1>12. seen \in Seq([value : Categories, column : 1 .. n])
  <2> DEFINE E == [value : Categories, column : 1 .. n]
  <2>1. \A i \in 1 .. Len(known) : seen[i] \in E
    BY <1>10, <1>11
  <2> HIDE DEF E
  <2>2. seen = [i \in 1 .. Len(known) |-> seen[i]]
    BY <1>11 DEF seen
  <2>3. seen \in [1 .. Len(known) -> E]
    BY <2>1, <2>2
  <2>4. seen \in Seq(E)
    BY <1>11, <2>3
  <2>5. QED BY <2>4 DEF E
<1>13. \A e \in ToSet(seen) : cols[e.column] = Category(e.value)
  BY <1>10, <1>11 DEF ToSet
<1>14. ASSUME NEW v \in Categories, Category(v) \in ToSet(cols)
       PROVE  \E e \in ToSet(seen) : e.value = v
  <2>1. PICK c \in 1 .. n : cols[c] = Category(v)
    BY <1>1, <1>14 DEF ToSet
  <2>2. c \in ToSet(known)
    BY <1>4, <1>6, <2>1
  <2>3. PICK i \in DOMAIN known : known[i] = c
    BY <2>2 DEF ToSet
  <2>4. seen[i].value = v
    BY <1>7, <2>1, <2>3 DEF seen
  <2>5. seen[i] \in ToSet(seen)
    BY <1>11 DEF ToSet
  <2>6. QED BY <2>4, <2>5
<1>15. QED BY <1>8, <1>12, <1>13, <1>14 DEF CategsAre, n

-----------------------------------------------------------------------------
(* No row belongs to a column that is added, and it holds nothing.         *)
LEMMA ResizedHolds ==
  ASSUME TypeOK, CellsHoldTheirRows, NEW cols, GoodColumns(cols), Grown(columns, cols)
  PROVE  /\ Resized(sums, cols) \in Seq([Bins -> Nat])
         /\ Len(Resized(sums, cols)) = Len(cols)
         /\ \A c \in 1 .. Len(cols), b \in Bins :
              Resized(sums, cols)[c][b] = Len(OnlyIn(done, RowsOf(cols[c], b)))
<1> DEFINE n == Len(cols)
           m == Len(columns)
           cells == Resized(sums, cols)
<1>1. /\ n \in Nat /\ m \in Nat /\ m <= n
      /\ DOMAIN cols = 1 .. n /\ DOMAIN columns = 1 .. m /\ DOMAIN sums = 1 .. m
      /\ \A c \in 1 .. m : sums[c] \in [Bins -> Nat] /\ cols[c] = columns[c] /\ c \in 1 .. n
  BY DEF TypeOK, GoodColumns, Grown
<1>2. NoRows \in [Bins -> Nat] /\ \A b \in Bins : NoRows[b] = 0
  BY DEF NoRows
<1>3. cells = [c \in 1 .. n |-> IF c \in 1 .. m THEN sums[c] ELSE NoRows]
  BY <1>1 DEF Resized
<1> HIDE DEF cells
<1>4. cells \in [1 .. n -> [Bins -> Nat]]
  BY <1>1, <1>2, <1>3
<1>5. cells \in Seq([Bins -> Nat]) /\ Len(cells) = n
  BY <1>1, <1>4
<1>6. ASSUME NEW c \in 1 .. n, NEW b \in Bins
      PROVE  cells[c][b] = Len(OnlyIn(done, RowsOf(cols[c], b)))
  <2>1. CASE c \in 1 .. m
    <3>1. cells[c] = sums[c] /\ cols[c] = columns[c]
      BY <1>1, <1>3, <2>1
    <3>2. sums[c][b] = Len(OnlyIn(done, RowsOf(columns[c], b)))
      BY <1>1, <2>1 DEF CellsHoldTheirRows
    <3>3. QED BY <3>1, <3>2
  <2>2. CASE c \notin 1 .. m
    <3> DEFINE S == RowsOf(cols[c], b)
    <3>1. cells[c][b] = 0
      BY <1>2, <1>3, <2>2
    <3>2. \A i \in 1 .. m : cols[c] # columns[i]
      BY <1>1, <2>2 DEF GoodColumns, IsInjective
    <3>3. cols[c] \in Columns /\ cols[c] \notin ToSet(columns)
      BY <1>1, <3>2 DEF GoodColumns, ToSet
    <3>4. \A e \in ToSet(done) : ~Belongs(e.row, e.plan, cols[c])
      BY <3>3 DEF CellsHoldTheirRows
    <3>5. ToSet(done) \cap S = {}
      BY <3>4 DEF RowsOf
    <3> HIDE DEF S
    <3>6. done \in Seq(Filled)
      BY DEF TypeOK
    <3>7. OnlyIn(done, S) = <<>>
      BY <3>5, <3>6, OnlyInNone
    <3>8. QED BY <3>1, <3>7 DEF S
  <2>3. QED BY <2>1, <2>2
<1>7. QED BY <1>5, <1>6 DEF cells

(* The position of a column stays its position when columns are added.     *)
LEMMA PositionIs ==
  ASSUME GoodColumns(columns), NEW cols, GoodColumns(cols), Grown(columns, cols),
         NEW name \in ToSet(columns)
  PROVE  /\ Position(columns, name) \in 1 .. Len(cols)
         /\ \A c \in 1 .. Len(cols) : cols[c] = name <=> c = Position(columns, name)
<1> DEFINE p == Position(columns, name)
<1>1. \E i \in DOMAIN columns : columns[i] = name
  BY DEF ToSet
<1>2. p \in DOMAIN columns /\ columns[p] = name
  BY <1>1 DEF Position
<1> HIDE DEF p
<1>3. p \in 1 .. Len(cols) /\ cols[p] = name
  BY <1>2 DEF GoodColumns, Grown
<1>4. \A c \in 1 .. Len(cols) : cols[c] = name => c = p
  BY <1>3 DEF GoodColumns, IsInjective
<1>5. QED BY <1>3, <1>4 DEF p

(* An element is in a sequence without repetitions once or not at all.     *)
LEMMA OnceOrNot ==
  ASSUME NEW T, NEW seq \in Seq(T), IsInjective(seq), NEW e
  PROVE  Times(e, seq) = IF e \in ToSet(seq) THEN 1 ELSE 0
<1> DEFINE I == {i \in DOMAIN seq : seq[i] = e}
<1>1. CASE e \in ToSet(seq)
  <2>1. PICK i \in DOMAIN seq : seq[i] = e
    BY <1>1 DEF ToSet
  <2>2. I = {i}
    BY <2>1 DEF IsInjective
  <2>3. QED BY <1>1, <2>2, FS_Singleton DEF Times
<1>2. CASE e \notin ToSet(seq)
  <2>1. I = {}
    BY <1>2 DEF ToSet
  <2>2. QED BY <1>2, <2>1, FS_EmptySet DEF Times
<1>3. QED BY <1>1, <1>2

-----------------------------------------------------------------------------
(* The columns a row is filled into. *)
Targets(v, ctgs) == FillColumn \o CategoryColumns(v, ctgs) \o WeightColumn

LEMMA FillColumnIs ==
  ASSUME GoodColumns(columns), PlanHasColumns(plan, columns),
         NEW cols, GoodColumns(cols), Grown(columns, cols)
  PROVE  /\ FillColumn \in Seq(1 .. Len(cols)) /\ IsInjective(FillColumn)
         /\ ToSet(FillColumn) = {c \in 1 .. Len(cols) :
                                   \/ plan.fill = "column 0" /\ cols[c] = Default
                                   \/ plan.fill = "column sel" /\ cols[c] = Named}
<1> DEFINE n == Len(cols)
<1>1. n \in Nat /\ DOMAIN cols = 1 .. n /\ n >= 1 /\ cols[1] = Default
  BY DEF GoodColumns
<1>2. CASE plan.fill = "column 0"
  <2>1. 1 \in 1 .. n /\ \A c \in 1 .. n : cols[c] = Default <=> c = 1
    BY <1>1 DEF GoodColumns, IsInjective
  <2>2. FillColumn = <<1>>
    BY <1>2 DEF FillColumn
  <2>3. FillColumn \in Seq(1 .. n) /\ IsInjective(FillColumn) /\ ToSet(FillColumn) = {1}
    BY <2>1, <2>2, OneElement
  <2>4. QED BY <1>2, <2>1, <2>3
<1>3. CASE plan.fill = "column sel"
  <2> DEFINE p == Position(columns, Named)
  <2>1. p \in 1 .. n /\ \A c \in 1 .. n : cols[c] = Named <=> c = p
    BY <1>3, PositionIs DEF PlanHasColumns
  <2>2. FillColumn = <<p>>
    BY <1>3 DEF FillColumn
  <2> HIDE DEF p
  <2>3. FillColumn \in Seq(1 .. n) /\ IsInjective(FillColumn) /\ ToSet(FillColumn) = {p}
    BY <2>1, <2>2, OneElement
  <2>4. QED BY <1>3, <2>1, <2>3
<1>4. CASE plan.fill # "column 0" /\ plan.fill # "column sel"
  <2>1. FillColumn = <<>>
    BY <1>4 DEF FillColumn
  <2>2. FillColumn \in Seq(1 .. n) /\ IsInjective(FillColumn) /\ ToSet(FillColumn) = {}
    BY <2>1, NoElement
  <2>3. QED BY <1>4, <2>2
<1>5. QED BY <1>2, <1>3, <1>4

LEMMA CategoryColumnsAre ==
  ASSUME GoodColumns(columns), PlanHasColumns(plan, columns),
         NEW cols, GoodColumns(cols), Grown(columns, cols), NEW v \in Categories, NEW ctgs,
         CategsHave(ctgs, cols, v)
  PROVE  /\ CategoryColumns(v, ctgs) \in Seq(1 .. Len(cols))
         /\ IsInjective(CategoryColumns(v, ctgs))
         /\ ToSet(CategoryColumns(v, ctgs))
              = {c \in 1 .. Len(cols) :
                   \/ plan.split = "labelled" /\ v < NLabels /\ cols[c] = Label(v)
                   \/ plan.split = "unlabelled" /\ cols[c] = Category(v)}
<1> DEFINE n == Len(cols)
           columnsOfV == CategoryColumns(v, ctgs)
<1>1. n \in Nat /\ DOMAIN cols = 1 .. n /\ v \in Nat /\ NLabels \in Nat
  BY CategoriesAssumption DEF GoodColumns
<1>2. CASE plan.split = "labelled" /\ v < NLabels
  <2> DEFINE p == Position(columns, Label(v))
  <2>1. v \in 0 .. NLabels - 1
    BY <1>1, <1>2
  <2>2. p \in 1 .. n /\ \A c \in 1 .. n : cols[c] = Label(v) <=> c = p
    BY <1>2, <2>1, PositionIs DEF PlanHasColumns
  <2>3. columnsOfV = <<p>>
    BY <1>2 DEF CategoryColumns
  <2> HIDE DEF p, columnsOfV
  <2>4. columnsOfV \in Seq(1 .. n) /\ IsInjective(columnsOfV) /\ ToSet(columnsOfV) = {p}
    BY <2>2, <2>3, OneElement
  <2>5. QED BY <1>2, <2>2, <2>4 DEF columnsOfV
<1>3. CASE plan.split = "unlabelled"
  <2> DEFINE e0 == CHOOSE e \in ToSet(ctgs) : e.value = v
             p == e0.column
  <2>1. e0 \in ToSet(ctgs) /\ e0.value = v
    BY <1>3 DEF CategsHave
  <2>2. columnsOfV = <<p>>
    BY <1>3 DEF CategoryColumns
  <2> HIDE DEF e0
  <2>3. e0 \in [value : Categories, column : 1 .. n]
    BY <1>3, <2>1, ToSetType DEF CategsAre, CategsHave
  <2>4. p \in 1 .. n /\ cols[p] = Category(v)
    BY <1>3, <2>1, <2>3 DEF CategsAre, CategsHave
  <2> HIDE DEF p, columnsOfV
  <2>5. \A c \in 1 .. n : cols[c] = Category(v) <=> c = p
    BY <1>1, <2>4 DEF GoodColumns, IsInjective
  <2>6. columnsOfV \in Seq(1 .. n) /\ IsInjective(columnsOfV) /\ ToSet(columnsOfV) = {p}
    BY <2>2, <2>4, OneElement
  <2>7. QED BY <1>3, <2>4, <2>5, <2>6 DEF columnsOfV
<1>4. CASE plan.split # "unlabelled" /\ ~(plan.split = "labelled" /\ v < NLabels)
  <2>1. columnsOfV = <<>>
    BY <1>4 DEF CategoryColumns
  <2> HIDE DEF columnsOfV
  <2>2. columnsOfV \in Seq(1 .. n) /\ IsInjective(columnsOfV) /\ ToSet(columnsOfV) = {}
    BY <2>1, NoElement
  <2>3. QED BY <1>4, <2>2 DEF columnsOfV
<1>5. QED BY <1>2, <1>3, <1>4

LEMMA WeightColumnIs ==
  ASSUME GoodColumns(columns), PlanHasColumns(plan, columns),
         NEW cols, GoodColumns(cols), Grown(columns, cols)
  PROVE  /\ WeightColumn \in Seq(1 .. Len(cols)) /\ IsInjective(WeightColumn)
         /\ ToSet(WeightColumn) = {c \in 1 .. Len(cols) :
                                     plan.split = "weighted" /\ cols[c] = Weighted}
<1> DEFINE n == Len(cols)
<1>1. CASE plan.split = "weighted"
  <2> DEFINE p == Position(columns, Weighted)
  <2>1. p \in 1 .. n /\ \A c \in 1 .. n : cols[c] = Weighted <=> c = p
    BY <1>1, PositionIs DEF PlanHasColumns
  <2>2. WeightColumn = <<p>>
    BY <1>1 DEF WeightColumn
  <2> HIDE DEF p
  <2>3. WeightColumn \in Seq(1 .. n) /\ IsInjective(WeightColumn) /\ ToSet(WeightColumn) = {p}
    BY <2>1, <2>2, OneElement
  <2>4. QED BY <1>1, <2>1, <2>3
<1>2. CASE plan.split # "weighted"
  <2>1. WeightColumn = <<>>
    BY <1>2 DEF WeightColumn
  <2>2. WeightColumn \in Seq(1 .. n) /\ IsInjective(WeightColumn) /\ ToSet(WeightColumn) = {}
    BY <2>1, NoElement
  <2>3. QED BY <1>2, <2>2
<1>3. QED BY <1>1, <1>2

(* A row is filled once into each column it belongs to, and into no other. *)
LEMMA TargetsAre ==
  ASSUME GoodColumns(columns), PlanHasColumns(plan, columns), NEW row \in Row,
         NEW cols, GoodColumns(cols), Grown(columns, cols), NEW ctgs,
         CategsHave(ctgs, cols, row.categ)
  PROVE  /\ Targets(row.categ, ctgs) \in Seq(1 .. Len(cols))
         /\ IsInjective(Targets(row.categ, ctgs))
         /\ \A c \in 1 .. Len(cols) :
              Times(c, Targets(row.categ, ctgs))
                = IF Belongs(row, plan, cols[c]) THEN 1 ELSE 0
<1> DEFINE n == Len(cols)
           v == row.categ
           F == FillColumn
           G == CategoryColumns(v, ctgs)
           H == WeightColumn
           targets == Targets(v, ctgs)
           inF(c) == \/ plan.fill = "column 0" /\ cols[c] = Default
                     \/ plan.fill = "column sel" /\ cols[c] = Named
           inG(c) == \/ plan.split = "labelled" /\ v < NLabels /\ cols[c] = Label(v)
                     \/ plan.split = "unlabelled" /\ cols[c] = Category(v)
           inH(c) == plan.split = "weighted" /\ cols[c] = Weighted
<1>1. v \in Categories /\ v \in Nat /\ NLabels \in Nat
  BY CategoriesAssumption DEF Row
<1>2. F \in Seq(1 .. n) /\ IsInjective(F) /\ ToSet(F) = {c \in 1 .. n : inF(c)}
  BY FillColumnIs
<1>3. G \in Seq(1 .. n) /\ IsInjective(G) /\ ToSet(G) = {c \in 1 .. n : inG(c)}
  BY <1>1, CategoryColumnsAre
<1>4. H \in Seq(1 .. n) /\ IsInjective(H) /\ ToSet(H) = {c \in 1 .. n : inH(c)}
  BY WeightColumnIs
<1>5. \A c : ~(inF(c) /\ inG(c)) /\ ~(inF(c) /\ inH(c)) /\ ~(inG(c) /\ inH(c))
  BY NamesDiffer
<1>6. \A c : (inF(c) \/ inG(c) \/ inH(c)) <=> Belongs(row, plan, cols[c])
  <2>1. \A i \in 0 .. NLabels - 1 : v = i => v < NLabels
    BY <1>1
  <2>2. v < NLabels => v \in 0 .. NLabels - 1
    BY <1>1
  <2>3. QED BY <2>1, <2>2 DEF Belongs
<1>7. targets = (F \o G) \o H
  BY DEF Targets
<1> HIDE DEF v, F, G, H, targets, inF, inG, inH
<1>8. ToSet(F) \cap ToSet(G) = {} /\ (ToSet(F) \cup ToSet(G)) \cap ToSet(H) = {}
  BY <1>2, <1>3, <1>4, <1>5
<1> DEFINE both == F \o G
<1>9. both \in Seq(1 .. n) /\ IsInjective(both) /\ ToSet(both) = ToSet(F) \cup ToSet(G)
  <2>1. F \in Seq(1 .. n) /\ G \in Seq(1 .. n) /\ IsInjective(F) /\ IsInjective(G)
    BY <1>2, <1>3
  <2>2. QED BY <1>8, <2>1, Joined
<1>10. targets = both \o H
  BY <1>7
<1> HIDE DEF both
<1>11. /\ targets \in Seq(1 .. n) /\ IsInjective(targets)
       /\ ToSet(targets) = ToSet(both) \cup ToSet(H)
  <2>1. both \in Seq(1 .. n) /\ H \in Seq(1 .. n) /\ IsInjective(both) /\ IsInjective(H)
    BY <1>4, <1>9
  <2>2. ToSet(both) \cap ToSet(H) = {}
    BY <1>8, <1>9
  <2>3. QED BY <1>10, <2>1, <2>2, Joined
<1>12. ASSUME NEW c \in 1 .. n
       PROVE  Times(c, targets) = IF Belongs(row, plan, cols[c]) THEN 1 ELSE 0
  <2>1. c \in ToSet(targets) <=> Belongs(row, plan, cols[c])
    BY <1>2, <1>3, <1>4, <1>6, <1>9, <1>11
  <2>2. QED BY <1>11, <2>1, OnceOrNot
<1>13. QED BY <1>11, <1>12 DEF targets, v

(* The columns a row belongs to are there.                                  *)
LEMMA BelongsToColumns ==
  ASSUME GoodColumns(columns), PlanHasColumns(plan, columns), NEW row \in Row,
         NEW cols, GoodColumns(cols), Grown(columns, cols),
         plan.split = "unlabelled" => Category(row.categ) \in ToSet(cols),
         NEW name, Belongs(row, plan, name)
  PROVE  name \in ToSet(cols)
<1>1. ToSet(columns) \subseteq ToSet(cols)
  <2>1. /\ DOMAIN columns = 1 .. Len(columns) /\ DOMAIN cols = 1 .. Len(cols)
        /\ Len(columns) \in Nat /\ Len(cols) \in Nat
    BY DEF GoodColumns
  <2>2. QED BY <2>1 DEF Grown, ToSet
<1>2. Default \in ToSet(cols)
  BY DEF GoodColumns, ToSet
<1>3. QED BY <1>1, <1>2 DEF Belongs, PlanHasColumns

-----------------------------------------------------------------------------
(* Filling a row into its columns. *)
CellsAfter(row, cols, ctgs) ==
  FillBin(Resized(sums, cols), row.bin, Targets(row.categ, ctgs))

DoneAfter(row) == Append(done, [row |-> row, plan |-> plan])

LEMMA CellsGrow ==
  ASSUME TypeOK, CellsHoldTheirRows, GoodColumns(columns), PlanHasColumns(plan, columns),
         NEW row \in Row, NEW cols, GoodColumns(cols), Grown(columns, cols), NEW ctgs,
         CategsHave(ctgs, cols, row.categ)
  PROVE  /\ CellsAfter(row, cols, ctgs) \in Seq([Bins -> Nat])
         /\ Len(CellsAfter(row, cols, ctgs)) = Len(cols)
         /\ \A c \in 1 .. Len(cols), b \in Bins :
              CellsAfter(row, cols, ctgs)[c][b] = Len(OnlyIn(DoneAfter(row), RowsOf(cols[c], b)))
<1> DEFINE n == Len(cols)
           cells == CellsAfter(row, cols, ctgs)
           more == DoneAfter(row)
           old == Resized(sums, cols)
           e0 == [row |-> row, plan |-> plan]
           targets == Targets(row.categ, ctgs)
           count == [c \in 1 .. n |-> Times(c, targets)]
<1>1. /\ old \in Seq([Bins -> Nat]) /\ Len(old) = n
      /\ \A c \in 1 .. n, b \in Bins : old[c][b] = Len(OnlyIn(done, RowsOf(cols[c], b)))
  BY ResizedHolds
<1>2. \A c \in 1 .. n : count[c] = IF Belongs(row, plan, cols[c]) THEN 1 ELSE 0
  BY TargetsAre
<1>3. n \in Nat
  BY DEF GoodColumns
<1>4. done \in Seq(Filled) /\ e0 \in Filled /\ row.bin \in Bins \cup {npos}
  BY DEF TypeOK, Filled, Row
<1>5. cells = IF row.bin = npos THEN old
              ELSE [c \in 1 .. n |-> [old[c] EXCEPT ![row.bin] = @ + count[c]]]
  <2>1. DOMAIN old = 1 .. n
    BY <1>1, <1>3
  <2>2. cells = FillBin(old, row.bin, targets)
    BY DEF CellsAfter
  <2> HIDE DEF old, targets
  <2>3. CASE row.bin = npos
    BY <2>2, <2>3 DEF FillBin
  <2>4. CASE row.bin # npos
    <3>1. cells = [c \in DOMAIN old |-> [old[c] EXCEPT ![row.bin] = @ + Times(c, targets)]]
      BY <2>2, <2>4 DEF FillBin
    <3>2. \A c \in 1 .. n : count[c] = Times(c, targets)
      OBVIOUS
    <3> HIDE DEF count
    <3>3. QED BY <2>1, <2>4, <3>1, <3>2
  <2>5. QED BY <2>3, <2>4
<1>6. npos \notin Bins
  BY BinsAssumption DEF npos
<1> HIDE DEF old, count, targets
<1>7. \A c \in 1 .. n : old[c] \in [Bins -> Nat]
  BY <1>1, <1>3
<1>8. \A c \in 1 .. n, b \in Bins :
        e0 \in RowsOf(cols[c], b) <=> b = row.bin /\ Belongs(row, plan, cols[c])
  BY <1>4 DEF RowsOf
<1>9. ASSUME NEW c \in 1 .. n, NEW b \in Bins
      PROVE  Len(OnlyIn(more, RowsOf(cols[c], b)))
               = IF b = row.bin THEN old[c][b] + count[c] ELSE old[c][b]
  <2> DEFINE S == RowsOf(cols[c], b)
             kept == OnlyIn(done, S)
  <2>1. kept \in Seq(Filled) /\ old[c][b] = Len(kept)
    BY <1>1, <1>4, OnlyInType
  <2>2. OnlyIn(more, S) = IF e0 \in S THEN Append(kept, e0) ELSE kept
    <3>1. more = Append(done, e0)
      BY DEF DoneAfter
    <3> HIDE DEF S, e0
    <3>2. OnlyIn(Append(done, e0), S)
            = IF e0 \in S THEN Append(OnlyIn(done, S), e0) ELSE OnlyIn(done, S)
      BY <1>4, OnlyInAppend
    <3>3. QED BY <3>1, <3>2
  <2>3. e0 \in S <=> b = row.bin /\ Belongs(row, plan, cols[c])
    BY <1>8
  <2> HIDE DEF S, kept, e0
  <2>4. Len(Append(kept, e0)) = Len(kept) + 1 /\ Len(kept) \in Nat
    BY <2>1
  <2>5. Len(OnlyIn(more, S)) = IF b = row.bin THEN old[c][b] + count[c] ELSE old[c][b]
    BY <1>2, <2>1, <2>2, <2>3, <2>4
  <2>6. QED BY <2>5 DEF S
<1>10. CASE row.bin = npos
  BY <1>1, <1>5, <1>6, <1>9, <1>10
<1>11. CASE row.bin # npos
  <2> DEFINE b0 == row.bin
  <2>1. b0 \in Bins
    BY <1>4, <1>11
  <2>2. cells = [c \in 1 .. n |-> [old[c] EXCEPT ![b0] = old[c][b0] + count[c]]]
    BY <1>5, <1>11
  <2> HIDE DEF b0
  <2>3. ASSUME NEW c \in 1 .. n
        PROVE  /\ cells[c] \in [Bins -> Nat]
               /\ \A b \in Bins : cells[c][b]
                                    = IF b = b0 THEN old[c][b] + count[c] ELSE old[c][b]
    <3>1. count[c] \in Nat
      BY <1>2
    <3>2. old[c] \in [Bins -> Nat] /\ old[c][b0] + count[c] \in Nat
      BY <1>7, <2>1, <3>1
    <3>3. cells[c] = [old[c] EXCEPT ![b0] = old[c][b0] + count[c]]
      BY <2>2
    <3>4. QED BY <2>1, <3>2, <3>3
  <2>4. cells \in Seq([Bins -> Nat]) /\ Len(cells) = n
    <3>1. cells \in [1 .. n -> [Bins -> Nat]]
      BY <2>2, <2>3
    <3>2. QED BY <1>3, <3>1
  <2>5. ASSUME NEW c \in 1 .. n, NEW b \in Bins
        PROVE  cells[c][b] = Len(OnlyIn(more, RowsOf(cols[c], b)))
    <3> DEFINE L == Len(OnlyIn(more, RowsOf(cols[c], b)))
    <3>1. L = IF b = b0 THEN old[c][b] + count[c] ELSE old[c][b]
      BY <1>9 DEF b0
    <3> HIDE DEF L
    <3>2. cells[c][b] = L
      BY <2>3, <3>1
    <3>3. QED BY <3>2 DEF L
  <2> HIDE DEF cells, n, more
  <2>6. QED BY <2>4, <2>5 DEF cells, n, more
<1>12. QED BY <1>10, <1>11

-----------------------------------------------------------------------------
LEMMA FillInvInit == Init => FillInv
<1> SUFFICES ASSUME Init PROVE FillInv
  OBVIOUS
<1> USE DEF Init
<1>1. GoodColumns(columns)
  <2>1. columns \in Seq(Columns) /\ IsInjective(columns)
    BY NamesAreColumns, OneElement
  <2>2. QED BY <2>1 DEF GoodColumns
<1>2. NoRows \in [Bins -> Nat]
  BY DEF NoRows
<1>3. TypeOK
  <2>1. sums \in Seq([Bins -> Nat]) /\ Len(sums) = Len(columns)
    BY <1>2
  <2>2. plan \in Plan /\ plan = NoPlan
    BY DEF NoPlan, Plan
  <2>3. categs \in Seq([value : Categories, column : 1 .. Len(columns)]) /\ done \in Seq(Filled)
    OBVIOUS
  <2>4. left \in 0 .. MaxBatch
    BY BoundsAssumption
  <2>5. QED BY <1>1, <2>1, <2>2, <2>3, <2>4 DEF TypeOK, GoodColumns
<1>4. CellsHoldTheirRows
  <2>1. ToSet(done) = {}
    BY NoElement
  <2>2. ASSUME NEW c \in DOMAIN columns, NEW b \in Bins
        PROVE  sums[c][b] = Len(OnlyIn(done, RowsOf(columns[c], b)))
    <3>1. OnlyIn(done, RowsOf(columns[c], b)) = <<>>
      BY OnlyInEmpty
    <3>2. sums[c][b] = 0
      BY DEF NoRows
    <3>3. QED BY <3>1, <3>2
  <2>3. QED BY <2>1, <2>2 DEF CellsHoldTheirRows
<1>5. QED BY <1>1, <1>3, <1>4 DEF FillInv

(* A call is planned: its columns are added, or it fails. *)
LEMMA FillKeepsInv ==
  ASSUME FillInv, NEW p \in Plans, NEW n \in 0 .. MaxBatch, Fill(p, n)
  PROVE  FillInv'
<1> DEFINE names == PlannedColumns(p)
           cols == WithColumns(columns, names)
<1>1. TypeOK /\ GoodColumns(columns) /\ CellsHoldTheirRows
  BY DEF FillInv
<1>2. p \in Plan
  BY PlansAssumption
<1>3. names \in Seq(Columns) /\ IsInjective(names)
  BY <1>2, PlannedColumnsAre
<1>4. /\ GoodColumns(cols) /\ Grown(columns, cols)
      /\ ToSet(cols) = ToSet(columns) \cup ToSet(names)
  BY <1>1, <1>3, WithColumnsAre
<1>5. ~Refused(p) => PlanHasColumns(p, cols)
  BY <1>2, <1>4, PlannedColumnsAre
<1>6. /\ Resized(sums, cols) \in Seq([Bins -> Nat])
      /\ Len(Resized(sums, cols)) = Len(cols)
      /\ \A c \in 1 .. Len(cols), b \in Bins :
           Resized(sums, cols)[c][b] = Len(OnlyIn(done, RowsOf(cols[c], b)))
  BY <1>1, <1>4, ResizedHolds
<1>7. columns' = cols /\ sums' = Resized(sums, cols) /\ UNCHANGED <<numFills, done>>
  BY DEF Fill
<1>8. \/ /\ Refused(p) /\ pc' = "idle" /\ plan' = NoPlan /\ categs' = <<>> /\ left' = 0
      \/ /\ ~Refused(p) /\ pc' = "rows" /\ plan' = p /\ left' = n
         /\ categs' = IF p.split = "unlabelled" THEN SeenBefore(cols) ELSE <<>>
  BY DEF Fill, Leave
<1> HIDE DEF names, cols
<1>9. CategsAre(SeenBefore(cols), cols)
  BY <1>4, SeenBeforeIs
<1>10. categs' \in Seq([value : Categories, column : 1 .. Len(cols)])
  BY <1>8, <1>9, NoElement DEF CategsAre
<1>11. /\ plan' \in Plan /\ (pc' = "idle" => plan' = NoPlan)
       /\ left' \in 0 .. MaxBatch /\ pc' \in {"idle", "rows"}
  <2>1. NoPlan \in Plan
    BY DEF NoPlan, Plan
  <2>2. 0 \in 0 .. MaxBatch
    BY BoundsAssumption
  <2>3. QED BY <1>2, <1>8, <2>1, <2>2
<1>12. TypeOK'
  BY <1>1, <1>4, <1>6, <1>7, <1>10, <1>11 DEF TypeOK, GoodColumns
<1>13. GoodColumns(columns)'
  BY <1>4, <1>7 DEF GoodColumns
<1>14. CellsHoldTheirRows'
  <2>1. ToSet(columns) \subseteq ToSet(cols)
    BY <1>4
  <2>2. DOMAIN cols = 1 .. Len(cols)
    BY <1>4 DEF GoodColumns
  <2>3. QED BY <1>1, <1>6, <1>7, <2>1, <2>2 DEF CellsHoldTheirRows
<1>15. ASSUME pc' = "rows"
       PROVE  /\ PlanHasColumns(plan, columns)'
              /\ plan'.split = "unlabelled" => CategsAre(categs, columns)'
  BY <1>5, <1>7, <1>8, <1>9, <1>15 DEF PlanHasColumns, CategsAre
<1>16. QED BY <1>12, <1>13, <1>14, <1>15 DEF FillInv

(* The columns and the list of the categories with the category of a row.  *)
LEMMA CategoryHasColumn ==
  ASSUME FillInv, pc = "rows", NEW v \in Categories,
         NEW cols, cols = IF IsNew(v) THEN Append(columns, Category(v)) ELSE columns,
         NEW ctgs, ctgs = IF IsNew(v)
                          THEN Append(categs, [value |-> v, column |-> Len(cols)])
                          ELSE categs
  PROVE  /\ GoodColumns(cols) /\ Grown(columns, cols)
         /\ ToSet(columns) \subseteq ToSet(cols)
         /\ ctgs \in Seq([value : Categories, column : 1 .. Len(cols)])
         /\ CategsHave(ctgs, cols, v)
         /\ plan.split = "unlabelled" => CategsAre(ctgs, cols) /\ Category(v) \in ToSet(cols)
<1>1. /\ TypeOK /\ GoodColumns(columns) /\ PlanHasColumns(plan, columns)
      /\ plan.split = "unlabelled" => CategsAre(categs, columns)
  BY DEF FillInv
<1>2. Category(v) \in Columns
  BY NamesAreColumns
<1>3. CASE ~IsNew(v)
  <2>1. cols = columns /\ ctgs = categs
    BY <1>3
  <2>2. Grown(columns, cols)
    BY <1>1, <2>1 DEF Grown, GoodColumns
  <2>3. ASSUME plan.split = "unlabelled"
        PROVE  (\E e \in ToSet(categs) : e.value = v) /\ Category(v) \in ToSet(columns)
    <3>1. PICK e \in ToSet(categs) : e.value = v
      BY <1>3, <2>3 DEF IsNew
    <3>2. CategsAre(categs, columns)
      BY <1>1, <2>3
    <3>3. columns[e.column] = Category(v)
      BY <3>1, <3>2 DEF CategsAre
    <3>4. e.column \in 1 .. Len(columns)
      BY <3>1, <3>2, ToSetType DEF CategsAre
    <3>5. Category(v) \in ToSet(columns)
      BY <1>1, <3>3, <3>4 DEF ToSet, GoodColumns
    <3>6. QED BY <3>1, <3>5
  <2>4. categs \in Seq([value : Categories, column : 1 .. Len(columns)])
    BY <1>1 DEF TypeOK
  <2>5. QED BY <1>1, <2>1, <2>2, <2>3, <2>4 DEF CategsHave
<1>4. CASE IsNew(v)
  <2> DEFINE n == Len(cols)
             e0 == [value |-> v, column |-> n]
             E == [value : Categories, column : 1 .. n]
  <2>1. plan.split = "unlabelled" /\ \A e \in ToSet(categs) : e.value # v
    BY <1>4 DEF IsNew
  <2>2. CategsAre(categs, columns)
    BY <1>1, <2>1
  <2>3. Category(v) \notin ToSet(columns)
    BY <2>1, <2>2 DEF CategsAre
  <2>4. cols = Append(columns, Category(v)) /\ ctgs = Append(categs, e0)
    BY <1>4
  <2>5. GoodColumns(cols) /\ Grown(columns, cols) /\ ToSet(cols) = ToSet(columns) \cup {Category(v)}
    BY <1>1, <1>2, <2>3, <2>4, AppendedColumn
  <2>6. n = Len(columns) + 1 /\ cols[n] = Category(v) /\ Len(columns) \in Nat
    BY <1>1, <2>4 DEF GoodColumns
  <2>7. 1 .. Len(columns) \subseteq 1 .. n /\ n \in 1 .. n
    BY <2>6
  <2>8. categs \in Seq([value : Categories, column : 1 .. Len(columns)])
    BY <1>1 DEF TypeOK
  <2>9. categs \in Seq(E) /\ e0 \in E
    <3>1. [value : Categories, column : 1 .. Len(columns)] \subseteq E
      BY <2>7
    <3>2. e0 \in E
      BY <2>7
    <3> HIDE DEF E
    <3>3. categs \in Seq(E)
      BY <2>8, <3>1, SeqWiden
    <3>4. QED BY <3>2, <3>3
  <2> HIDE DEF e0, E
  <2>10. ctgs \in Seq(E) /\ ToSet(ctgs) = ToSet(categs) \cup {e0}
    BY <2>4, <2>9, ToSetAppend, AppendProperties
  <2>11. e0.value = v /\ e0.column = n
    BY DEF e0
  <2>12. \A e \in ToSet(ctgs) : cols[e.column] = Category(e.value)
    <3>1. ASSUME NEW e \in ToSet(categs)
          PROVE  cols[e.column] = Category(e.value)
      <4>1. columns[e.column] = Category(e.value)
        BY <2>2 DEF CategsAre
      <4>2. e.column \in 1 .. Len(columns)
        BY <2>8, ToSetType
      <4>3. QED BY <2>5, <4>1, <4>2 DEF Grown
    <3>2. QED BY <2>6, <2>10, <2>11, <3>1
  <2>13. ASSUME NEW w \in Categories, Category(w) \in ToSet(cols)
         PROVE  \E e \in ToSet(ctgs) : e.value = w
    <3>1. CASE Category(w) \in ToSet(columns)
      BY <2>2, <2>10, <3>1 DEF CategsAre
    <3>2. CASE Category(w) = Category(v)
      BY <2>10, <2>11, <3>2, NamesDiffer
    <3>3. QED BY <2>5, <2>13, <3>1, <3>2
  <2>14. CategsAre(ctgs, cols)
    BY <2>10, <2>12, <2>13 DEF CategsAre, E
  <2>15. \E e \in ToSet(ctgs) : e.value = v
    BY <2>10, <2>11
  <2>16. QED BY <2>5, <2>10, <2>14, <2>15 DEF E, CategsHave
<1>5. QED BY <1>3, <1>4

(* A row is filled. *)
LEMMA FillRowKeepsInv ==
  ASSUME FillInv, NEW row \in Row, FillRow(row)
  PROVE  FillInv'
<1> DEFINE v == row.categ
           cols == IF IsNew(v) THEN Append(columns, Category(v)) ELSE columns
           ctgs == IF IsNew(v) THEN Append(categs, [value |-> v, column |-> Len(cols)])
                   ELSE categs
           targets == Targets(v, ctgs)
           e0 == [row |-> row, plan |-> plan]
<1>1. /\ TypeOK /\ GoodColumns(columns) /\ CellsHoldTheirRows
      /\ pc = "rows" /\ left > 0
      /\ PlanHasColumns(plan, columns)
  BY DEF FillInv, FillRow, AtRow
<1>2. v \in Categories
  BY DEF Row
<1>3. /\ columns' = cols /\ categs' = ctgs
      /\ sums' = FillBin(Resized(sums, cols), row.bin, targets)
      /\ numFills' = numFills + NumFills(row.bin, targets)
      /\ done' = Append(done, e0)
      /\ left' = left - 1 /\ UNCHANGED <<plan, pc>>
  BY DEF FillRow, Targets
<1>4. /\ GoodColumns(cols) /\ Grown(columns, cols)
      /\ ToSet(columns) \subseteq ToSet(cols)
      /\ ctgs \in Seq([value : Categories, column : 1 .. Len(cols)])
      /\ CategsHave(ctgs, cols, row.categ)
      /\ plan.split = "unlabelled" => CategsAre(ctgs, cols) /\ Category(v) \in ToSet(cols)
  BY <1>1, <1>2, CategoryHasColumn
<1> HIDE DEF cols, ctgs
<1>5. targets \in Seq(1 .. Len(cols))
  BY <1>1, <1>4, TargetsAre
<1>6. /\ sums' \in Seq([Bins -> Nat])
      /\ Len(sums') = Len(cols)
      /\ \A c \in 1 .. Len(cols), b \in Bins :
           sums'[c][b] = Len(OnlyIn(done', RowsOf(cols[c], b)))
  <2>1. sums' = CellsAfter(row, cols, ctgs) /\ done' = DoneAfter(row)
    BY <1>3 DEF CellsAfter, DoneAfter
  <2>2. /\ CellsAfter(row, cols, ctgs) \in Seq([Bins -> Nat])
        /\ Len(CellsAfter(row, cols, ctgs)) = Len(cols)
        /\ \A c \in 1 .. Len(cols), b \in Bins :
             CellsAfter(row, cols, ctgs)[c][b] = Len(OnlyIn(DoneAfter(row), RowsOf(cols[c], b)))
    BY <1>1, <1>4, CellsGrow
  <2>3. QED BY <2>1, <2>2
<1>7. NumFills(row.bin, targets) \in Nat
  BY <1>5 DEF NumFills
<1> HIDE DEF targets, v
<1>8. e0 \in Filled /\ done \in Seq(Filled) /\ e0.row = row /\ e0.plan = plan
  BY <1>1 DEF TypeOK, Filled
<1> HIDE DEF e0
<1>9. done' \in Seq(Filled) /\ ToSet(done') = ToSet(done) \cup {e0}
  BY <1>3, <1>8, ToSetAppend, AppendProperties
<1>10. GoodColumns(columns)'
  BY <1>3, <1>4 DEF GoodColumns
<1>11. TypeOK'
  <2>1. numFills' \in Nat
    BY <1>1, <1>3, <1>7 DEF TypeOK
  <2>2. left' \in 0 .. MaxBatch
    BY <1>1, <1>3, BoundsAssumption DEF TypeOK
  <2>3. QED BY <1>1, <1>3, <1>4, <1>6, <1>9, <2>1, <2>2 DEF TypeOK, GoodColumns
<1>12. CellsHoldTheirRows'
  <2>1. ASSUME NEW e \in ToSet(done'), NEW name \in Columns, Belongs(e.row, e.plan, name)
        PROVE  name \in ToSet(cols)
    <3>1. CASE e \in ToSet(done)
      BY <1>1, <1>4, <2>1, <3>1 DEF CellsHoldTheirRows
    <3>2. CASE e = e0
      <4>1. Belongs(row, plan, name)
        BY <1>8, <2>1, <3>2
      <4>2. QED BY <1>1, <1>4, <4>1, BelongsToColumns DEF v
    <3>3. QED BY <1>9, <3>1, <3>2
  <2>2. DOMAIN cols = 1 .. Len(cols)
    BY <1>4 DEF GoodColumns
  <2>3. QED BY <1>3, <1>6, <2>1, <2>2 DEF CellsHoldTheirRows
<1>13. /\ PlanHasColumns(plan, columns)'
       /\ plan'.split = "unlabelled" => CategsAre(categs, columns)'
  BY <1>1, <1>3, <1>4 DEF PlanHasColumns, CategsAre
<1>14. QED BY <1>10, <1>11, <1>12, <1>13 DEF FillInv

(* The call ends, after its rows or at one of them. *)
LEMMA LeaveKeepsInv ==
  ASSUME FillInv, Leave, UNCHANGED <<hist, done>>
  PROVE  FillInv'
<1>1. TypeOK'
  <2>1. NoPlan \in Plan
    BY DEF NoPlan, Plan
  <2>2. 0 \in 0 .. MaxBatch
    BY BoundsAssumption
  <2>3. categs' \in Seq([value : Categories, column : 1 .. Len(columns)])
    BY NoElement DEF Leave
  <2>4. QED BY <2>1, <2>2, <2>3 DEF FillInv, TypeOK, Leave, hist
<1>2. GoodColumns(columns)' /\ CellsHoldTheirRows' /\ pc' # "rows"
  BY DEF FillInv, GoodColumns, CellsHoldTheirRows, Leave, hist
<1>3. QED BY <1>1, <1>2 DEF FillInv

LEMMA ResetKeepsInv ==
  ASSUME FillInv, Reset
  PROVE  FillInv'
<1> DEFINE n == Len(columns)
<1>1. /\ TypeOK /\ GoodColumns(columns) /\ pc = "idle"
      /\ sums' = [c \in DOMAIN columns |-> NoRows] /\ numFills' = 0 /\ done' = <<>>
      /\ UNCHANGED <<columns, plan, categs, left, pc>>
  BY DEF FillInv, Reset
<1>2. n \in Nat /\ DOMAIN columns = 1 .. n
  BY <1>1 DEF GoodColumns
<1>3. NoRows \in [Bins -> Nat] /\ \A b \in Bins : NoRows[b] = 0
  BY DEF NoRows
<1>4. sums' \in Seq([Bins -> Nat]) /\ Len(sums') = n
  <2>1. sums' \in [1 .. n -> [Bins -> Nat]]
    BY <1>1, <1>2, <1>3
  <2>2. QED BY <1>2, <2>1
<1>5. done' \in Seq(Filled) /\ ToSet(done') = {}
  BY <1>1, NoElement
<1>6. TypeOK'
  BY <1>1, <1>4, <1>5 DEF TypeOK
<1>7. \A c \in DOMAIN columns, b \in Bins :
        sums'[c][b] = Len(OnlyIn(done', RowsOf(columns[c], b)))
  <2>1. \A S : Len(OnlyIn(done', S)) = 0
    <3>1. \A S : OnlyIn(done', S) = <<>>
      BY <1>1, OnlyInEmpty
    <3>2. Len(<<>>) = 0
      OBVIOUS
    <3>3. QED BY <3>1, <3>2
  <2>2. QED BY <1>1, <1>3, <2>1
<1>8. CellsHoldTheirRows'
  BY <1>1, <1>5, <1>7 DEF CellsHoldTheirRows
<1>9. QED BY <1>1, <1>6, <1>8 DEF FillInv, GoodColumns

LEMMA FillInvNext == FillInv /\ [Next]_vars => FillInv'
<1> SUFFICES ASSUME FillInv, [Next]_vars PROVE FillInv'
  OBVIOUS
<1>1. ASSUME NEW p \in Plans, NEW n \in 0 .. MaxBatch, Fill(p, n)
      PROVE  FillInv'
  BY <1>1, FillKeepsInv
<1>2. ASSUME NEW row \in Row, SkipRow(row)
      PROVE  FillInv'
  <2>1. TypeOK'
    <3>1. left' \in 0 .. MaxBatch
      BY <1>2, BoundsAssumption DEF FillInv, TypeOK, SkipRow, AtRow
    <3>2. QED BY <1>2, <3>1 DEF FillInv, TypeOK, SkipRow, hist
  <2>2. QED BY <1>2, <2>1 DEF FillInv, GoodColumns, PlanHasColumns, CategsAre,
                              CellsHoldTheirRows, SkipRow, hist
<1>3. ASSUME NEW row \in Row, ThrowAtRow(row)
      PROVE  FillInv'
  BY <1>3, LeaveKeepsInv DEF ThrowAtRow
<1>4. ASSUME NEW row \in Row, FillRow(row)
      PROVE  FillInv'
  BY <1>4, FillRowKeepsInv
<1>5. CASE EndFill
  BY <1>5, LeaveKeepsInv DEF EndFill
<1>6. CASE Reset
  BY <1>6, ResetKeepsInv
<1>7. CASE UNCHANGED vars
  BY <1>7 DEF FillInv, TypeOK, GoodColumns, PlanHasColumns, CategsAre,
              CellsHoldTheirRows, vars, hist
<1>8. QED BY <1>1, <1>2, <1>3, <1>4, <1>5, <1>6, <1>7 DEF Next

LEMMA FillInvHolds == Spec => []FillInv
<1>1. Init => FillInv
  BY FillInvInit
<1>2. FillInv /\ [Next]_vars => FillInv'
  BY FillInvNext
<1>3. QED BY <1>1, <1>2, PTL DEF Spec

(* A histogram that is filled keeps its shape: it has one row of contents  *)
(* per column and no column twice, also when a call fails after it added   *)
(* columns.                                                                *)
THEOREM FillTypeIsOK == Spec => []TypeOK
<1>1. FillInv => TypeOK
  BY DEF FillInv
<1>2. QED BY <1>1, FillInvHolds, PTL

(* Every cell holds exactly the rows that belong to it, whichever batches  *)
(* with whichever plans were filled, failed or were reset: fill() of       *)
(* histframe/frame_fill.h neither loses a row nor fills it into the column *)
(* of another category, label or weight.                                   *)
THEOREM FilledCellsHoldTheirRows == Spec => []CellsHoldTheirRows
<1>1. FillInv => CellsHoldTheirRows
  BY DEF FillInv
<1>2. QED BY <1>1, FillInvHolds, PTL

-----------------------------------------------------------------------------
(* num_fills.  A fill of a row adds as many fills to the cells as the row  *)
(* has columns, since no column is filled twice.                           *)
CountInv ==
  /\ IsFiniteSet(FillsIn(sums))
  /\ NumFillsIsTotal

LEMMA FillsInCells ==
  ASSUME NEW n \in Nat, NEW cells, DOMAIN cells = 1 .. n
  PROVE  /\ \A c, b, k : <<c, b, k>> \in FillsIn(cells)
                         <=> c \in 1 .. n /\ b \in Bins /\ k \in 1 .. cells[c][b]
         /\ \A f \in FillsIn(cells) : \E c, b, k : f = <<c, b, k>>
<1> DEFINE Cell(c, b) == {<<c, b, k>> : k \in 1 .. cells[c][b]}
<1>1. FillsIn(cells) = UNION {Cell(c, b) : c \in 1 .. n, b \in Bins}
  BY DEF FillsIn
<1> HIDE DEF Cell
<1>2. \A f \in FillsIn(cells) :
        \E c \in 1 .. n, b \in Bins : \E k \in 1 .. cells[c][b] : f = <<c, b, k>>
  <2>1. \A f \in FillsIn(cells) : \E c \in 1 .. n, b \in Bins : f \in Cell(c, b)
    BY <1>1
  <2>2. QED BY <2>1 DEF Cell
<1>3. \A c \in 1 .. n, b \in Bins : \A k \in 1 .. cells[c][b] : <<c, b, k>> \in FillsIn(cells)
  <2>1. \A c \in 1 .. n, b \in Bins : \A f \in Cell(c, b) : f \in FillsIn(cells)
    BY <1>1
  <2>2. QED BY <2>1 DEF Cell
<1>4. ASSUME NEW c, NEW b, NEW k, <<c, b, k>> \in FillsIn(cells)
      PROVE  c \in 1 .. n /\ b \in Bins /\ k \in 1 .. cells[c][b]
  <2>1. PICK d \in 1 .. n, a \in Bins : \E j \in 1 .. cells[d][a] : <<c, b, k>> = <<d, a, j>>
    BY <1>2, <1>4
  <2>2. QED BY <2>1
<1>5. QED BY <1>2, <1>3, <1>4

(* Cells that hold the same in all places, but for places that hold nothing. *)
LEMMA SameFills ==
  ASSUME NEW n \in Nat, NEW m \in Nat, NEW old, NEW new,
         DOMAIN old = 1 .. n, DOMAIN new = 1 .. m, n <= m,
         \A c \in 1 .. n, b \in Bins : new[c][b] = old[c][b],
         \A c \in 1 .. m, b \in Bins : c \notin 1 .. n => new[c][b] = 0
  PROVE  FillsIn(new) = FillsIn(old)
<1>1. /\ \A c, b, k : <<c, b, k>> \in FillsIn(old)
                     <=> c \in 1 .. n /\ b \in Bins /\ k \in 1 .. old[c][b]
      /\ \A f \in FillsIn(old) : \E c, b, k : f = <<c, b, k>>
  BY FillsInCells
<1>2. /\ \A c, b, k : <<c, b, k>> \in FillsIn(new)
                     <=> c \in 1 .. m /\ b \in Bins /\ k \in 1 .. new[c][b]
      /\ \A f \in FillsIn(new) : \E c, b, k : f = <<c, b, k>>
  BY FillsInCells
<1>3. 1 .. 0 = {} /\ \A c \in 1 .. n : c \in 1 .. m
  OBVIOUS
<1>4. \A c, b, k : <<c, b, k>> \in FillsIn(new) <=> <<c, b, k>> \in FillsIn(old)
  <2> SUFFICES ASSUME NEW c, NEW b, NEW k
               PROVE  <<c, b, k>> \in FillsIn(new) <=> <<c, b, k>> \in FillsIn(old)
    OBVIOUS
  <2>1. CASE c \in 1 .. n /\ b \in Bins
    BY <1>1, <1>2, <1>3, <2>1
  <2>2. CASE c \in 1 .. m /\ c \notin 1 .. n /\ b \in Bins
    <3>1. new[c][b] = 0
      BY <2>2
    <3>2. k \notin 1 .. new[c][b]
      BY <1>3, <3>1
    <3>3. QED BY <1>1, <1>2, <2>2, <3>2
  <2>3. CASE ~(c \in 1 .. m /\ b \in Bins)
    BY <1>1, <1>2, <1>3, <2>3
  <2>4. QED BY <2>1, <2>2, <2>3
<1>5. QED BY <1>1, <1>2, <1>4

(* The numbers of a sequence without repetitions are as many as it is long. *)
LEMMA AsManyAsLong ==
  ASSUME NEW T, NEW seq \in Seq(T), IsInjective(seq)
  PROVE  IsFiniteSet(ToSet(seq)) /\ Cardinality(ToSet(seq)) = Len(seq) /\ Len(seq) \in Nat
<1> DEFINE n == Len(seq)
<1>1. n \in Nat /\ DOMAIN seq = 1 .. n /\ seq \in [1 .. n -> ToSet(seq)]
  BY DEF ToSet
<1>2. ToSet(seq) = {seq[i] : i \in 1 .. n}
  BY <1>1 DEF ToSet
<1>3. seq \in Bijection(1 .. n, ToSet(seq))
  <2>1. \A i, j \in 1 .. n : seq[i] = seq[j] => i = j
    BY <1>1 DEF IsInjective
  <2>2. \A t \in ToSet(seq) : \E i \in 1 .. n : seq[i] = t
    BY <1>2
  <2>3. QED BY <1>1, <2>1, <2>2 DEF Bijection, Injection, Surjection
<1>4. IsFiniteSet(1 .. n) /\ Cardinality(1 .. n) = n
  BY <1>1, FS_Interval
<1>5. QED BY <1>1, <1>3, <1>4, FS_Bijection DEF ExistsBijection

(* One fill for each of the targets. *)
LEMMA FillsAdd ==
  ASSUME NEW n \in Nat, NEW old, DOMAIN old = 1 .. n,
         \A c \in 1 .. n : old[c] \in [Bins -> Nat],
         NEW b0 \in Bins, b0 # npos, NEW targets \in Seq(1 .. n), IsInjective(targets),
         IsFiniteSet(FillsIn(old))
  PROVE  /\ IsFiniteSet(FillsIn(FillBin(old, b0, targets)))
         /\ Cardinality(FillsIn(FillBin(old, b0, targets)))
              = Cardinality(FillsIn(old)) + Len(targets)
<1> DEFINE new == FillBin(old, b0, targets)
           Cols == ToSet(targets)
           fill == [c \in Cols |-> <<c, b0, old[c][b0] + 1>>]
           More == {fill[c] : c \in Cols}
<1>1. new = [c \in 1 .. n |-> [old[c] EXCEPT ![b0] = @ + Times(c, targets)]]
  BY DEF FillBin
<1>2. Cols \subseteq 1 .. n
  BY ToSetType
<1>3. /\ IsFiniteSet(Cols) /\ Cardinality(Cols) = Len(targets) /\ Len(targets) \in Nat
      /\ \A c : Times(c, targets) = IF c \in Cols THEN 1 ELSE 0
  BY AsManyAsLong, OnceOrNot
<1> HIDE DEF new, Cols
<1>4. /\ DOMAIN new = 1 .. n
      /\ \A c \in 1 .. n, b \in Bins :
           /\ old[c][b] \in Nat
           /\ new[c][b] = IF b = b0 /\ c \in Cols THEN old[c][b] + 1 ELSE old[c][b]
  <2>1. DOMAIN new = 1 .. n
    BY <1>1
  <2>2. ASSUME NEW c \in 1 .. n, NEW b \in Bins
        PROVE  /\ old[c][b] \in Nat
               /\ new[c][b] = IF b = b0 /\ c \in Cols THEN old[c][b] + 1 ELSE old[c][b]
    <3>1. old[c] \in [Bins -> Nat]
      OBVIOUS
    <3>2. new[c] = [old[c] EXCEPT ![b0] = old[c][b0] + Times(c, targets)]
      BY <1>1
    <3>3. Times(c, targets) = IF c \in Cols THEN 1 ELSE 0
      BY <1>3
    <3>4. new[c][b] = IF b = b0 THEN old[c][b] + Times(c, targets) ELSE old[c][b]
      BY <3>1, <3>2
    <3>5. old[c][b] \in Nat
      BY <3>1
    <3>6. QED BY <3>3, <3>4, <3>5
  <2>3. QED BY <2>1, <2>2
<1>5. /\ \A c, b, k : <<c, b, k>> \in FillsIn(old)
                     <=> c \in 1 .. n /\ b \in Bins /\ k \in 1 .. old[c][b]
      /\ \A f \in FillsIn(old) : \E c, b, k : f = <<c, b, k>>
  BY FillsInCells
<1>6. /\ \A c, b, k : <<c, b, k>> \in FillsIn(new)
                     <=> c \in 1 .. n /\ b \in Bins /\ k \in 1 .. new[c][b]
      /\ \A f \in FillsIn(new) : \E c, b, k : f = <<c, b, k>>
  BY <1>4, FillsInCells
<1>7. \A c, b, k : <<c, b, k>> \in More <=> c \in Cols /\ b = b0 /\ k = old[c][b0] + 1
  OBVIOUS
<1>8. \A f \in More : \E c, b, k : f = <<c, b, k>>
  OBVIOUS
<1>9. \A x \in Nat : \A k : /\ k \in 1 .. (x + 1) <=> k \in 1 .. x \/ k = x + 1
                            /\ x + 1 \notin 1 .. x
  OBVIOUS
<1>10. FillsIn(new) = FillsIn(old) \cup More
  <2> HIDE DEF More
  <2>1. ASSUME NEW c, NEW b, NEW k
        PROVE  <<c, b, k>> \in FillsIn(new)
                 <=> <<c, b, k>> \in FillsIn(old) \/ <<c, b, k>> \in More
    <3>1. CASE c \in Cols /\ b = b0
      <4>1. c \in 1 .. n /\ b \in Bins /\ new[c][b] = old[c][b] + 1 /\ old[c][b] \in Nat
        BY <1>2, <1>4, <3>1
      <4>2. k \in 1 .. new[c][b] <=> k \in 1 .. old[c][b] \/ k = old[c][b] + 1
        BY <1>9, <4>1
      <4>3. QED BY <1>5, <1>6, <1>7, <3>1, <4>1, <4>2
    <3>2. CASE ~(c \in Cols /\ b = b0)
      <4>1. <<c, b, k>> \notin More
        BY <1>7, <3>2
      <4>2. c \in 1 .. n /\ b \in Bins => new[c][b] = old[c][b]
        BY <1>4, <3>2
      <4>3. QED BY <1>5, <1>6, <4>1, <4>2
    <3>3. QED BY <3>1, <3>2
  <2>2. \A f \in FillsIn(new) : f \in FillsIn(old) \cup More
    BY <1>6, <2>1
  <2>3. \A f \in FillsIn(old) \cup More : f \in FillsIn(new)
    BY <1>5, <1>8, <2>1
  <2>4. QED BY <2>2, <2>3
<1>11. FillsIn(old) \cap More = {}
  <2> SUFFICES ASSUME NEW c \in Cols, fill[c] \in FillsIn(old) PROVE FALSE
    OBVIOUS
  <2>1. old[c][b0] + 1 \in 1 .. old[c][b0]
    BY <1>5
  <2>2. old[c][b0] \in Nat
    BY <1>2, <1>4
  <2>3. QED BY <1>9, <2>1, <2>2
<1>12. fill \in Bijection(Cols, More)
  <2>1. fill \in [Cols -> More] /\ \A f \in More : \E c \in Cols : fill[c] = f
    OBVIOUS
  <2>2. \A c, d \in Cols : fill[c] = fill[d] => c = d
    OBVIOUS
  <2> HIDE DEF fill, More
  <2>3. fill \in Injection(Cols, More)
    BY <2>1, <2>2 DEF Injection, IsInjective
  <2>4. QED BY <2>1, <2>3 DEF Bijection, Surjection
<1> HIDE DEF fill, More
<1>13. IsFiniteSet(More) /\ Cardinality(More) = Len(targets)
  BY <1>3, <1>12, FS_Bijection DEF ExistsBijection
<1>14. IsFiniteSet(FillsIn(new)) /\ Cardinality(FillsIn(new))
         = Cardinality(FillsIn(old)) + Cardinality(More) - Cardinality(FillsIn(old) \cap More)
  BY <1>10, <1>13, FS_Union
<1>15. Cardinality(FillsIn(old)) \in Nat /\ Cardinality({}) = 0
  BY FS_CardinalityType, FS_EmptySet
<1>16. Cardinality(FillsIn(new)) = Cardinality(FillsIn(old)) + Len(targets)
  <2>1. Cardinality(FillsIn(old) \cap More) = 0
    BY <1>11, <1>15
  <2> DEFINE x == Cardinality(FillsIn(old))
             y == Cardinality(FillsIn(new))
  <2>2. x \in Nat /\ y = x + Len(targets) - 0
    BY <1>13, <1>14, <1>15, <2>1
  <2> HIDE DEF x, y
  <2>3. y = x + Len(targets)
    BY <1>3, <2>2
  <2>4. QED BY <2>3 DEF x, y
<1>17. QED BY <1>14, <1>16 DEF new

(* Columns that are added hold no fills. *)
LEMMA ResizedFills ==
  ASSUME TypeOK, NEW cols, GoodColumns(cols), Grown(columns, cols)
  PROVE  /\ FillsIn(Resized(sums, cols)) = FillsIn(sums)
         /\ DOMAIN Resized(sums, cols) = 1 .. Len(cols)
         /\ \A c \in 1 .. Len(cols) : Resized(sums, cols)[c] \in [Bins -> Nat]
<1> DEFINE n == Len(cols)
           m == Len(columns)
           cells == Resized(sums, cols)
<1>1. /\ n \in Nat /\ m \in Nat /\ m <= n
      /\ DOMAIN cols = 1 .. n /\ DOMAIN sums = 1 .. m
      /\ \A c \in 1 .. m : sums[c] \in [Bins -> Nat]
  BY DEF TypeOK, GoodColumns, Grown
<1>2. NoRows \in [Bins -> Nat] /\ \A b \in Bins : NoRows[b] = 0
  BY DEF NoRows
<1>3. cells = [c \in 1 .. n |-> IF c \in 1 .. m THEN sums[c] ELSE NoRows]
  BY <1>1 DEF Resized
<1> HIDE DEF cells, n, m
<1>4. /\ DOMAIN cells = 1 .. n
      /\ \A c \in 1 .. n : cells[c] = IF c \in 1 .. m THEN sums[c] ELSE NoRows
      /\ \A c \in 1 .. m : c \in 1 .. n
  BY <1>1, <1>3
<1>5. FillsIn(cells) = FillsIn(sums)
  <2>1. \A c \in 1 .. m, b \in Bins : cells[c][b] = sums[c][b]
    BY <1>4
  <2>2. \A c \in 1 .. n, b \in Bins : c \notin 1 .. m => cells[c][b] = 0
    BY <1>2, <1>4
  <2>3. QED BY <1>1, <1>4, <2>1, <2>2, SameFills
<1>6. \A c \in 1 .. n : cells[c] \in [Bins -> Nat]
  BY <1>1, <1>2, <1>4
<1>7. QED BY <1>4, <1>5, <1>6 DEF cells, n

LEMMA FillKeepsCount ==
  ASSUME FillInv, CountInv, NEW p \in Plans, NEW n \in 0 .. MaxBatch, Fill(p, n)
  PROVE  CountInv'
<1> DEFINE names == PlannedColumns(p)
           cols == WithColumns(columns, names)
<1>1. p \in Plan /\ TypeOK /\ GoodColumns(columns)
  BY PlansAssumption DEF FillInv
<1>2. names \in Seq(Columns) /\ IsInjective(names)
  BY <1>1, PlannedColumnsAre
<1>3. GoodColumns(cols) /\ Grown(columns, cols)
  BY <1>1, <1>2, WithColumnsAre
<1>4. sums' = Resized(sums, cols) /\ numFills' = numFills
  BY DEF Fill
<1> HIDE DEF cols
<1>5. FillsIn(sums') = FillsIn(sums)
  BY <1>1, <1>3, <1>4, ResizedFills
<1>6. QED BY <1>4, <1>5 DEF CountInv, NumFillsIsTotal

LEMMA FillRowKeepsCount ==
  ASSUME FillInv, CountInv, NEW row \in Row, FillRow(row)
  PROVE  CountInv'
<1> DEFINE v == row.categ
           cols == IF IsNew(v) THEN Append(columns, Category(v)) ELSE columns
           ctgs == IF IsNew(v) THEN Append(categs, [value |-> v, column |-> Len(cols)])
                   ELSE categs
           targets == Targets(v, ctgs)
           old == Resized(sums, cols)
<1>1. /\ TypeOK /\ GoodColumns(columns) /\ PlanHasColumns(plan, columns) /\ pc = "rows"
      /\ v \in Categories /\ row.bin \in Bins \cup {npos}
  BY DEF FillInv, FillRow, AtRow, Row
<1>2. /\ sums' = FillBin(old, row.bin, targets)
      /\ numFills' = numFills + NumFills(row.bin, targets)
  BY DEF FillRow, Targets
<1>3. GoodColumns(cols) /\ Grown(columns, cols) /\ CategsHave(ctgs, cols, row.categ)
  BY <1>1, CategoryHasColumn
<1> HIDE DEF cols, ctgs
<1>4. targets \in Seq(1 .. Len(cols)) /\ IsInjective(targets)
  BY <1>1, <1>3, TargetsAre
<1>5. /\ FillsIn(old) = FillsIn(sums) /\ DOMAIN old = 1 .. Len(cols)
      /\ \A c \in 1 .. Len(cols) : old[c] \in [Bins -> Nat]
  BY <1>1, <1>3, ResizedFills
<1>6. Len(cols) \in Nat /\ npos \notin Bins
  BY <1>3, BinsAssumption DEF GoodColumns, npos
<1> HIDE DEF targets, old
<1>7. IsFiniteSet(FillsIn(sums')) /\ numFills' = Cardinality(FillsIn(sums'))
  <2>1. CASE row.bin = npos
    <3>1. sums' = old /\ numFills' = numFills + 0
      BY <1>2, <2>1 DEF FillBin, NumFills
    <3>2. numFills \in Nat
      BY <1>1 DEF TypeOK
    <3>3. QED BY <1>5, <3>1, <3>2 DEF CountInv, NumFillsIsTotal
  <2>2. CASE row.bin \in Bins
    <3>1. row.bin # npos
      BY <1>6, <2>2
    <3>2. numFills' = numFills + Len(targets)
      BY <1>2, <3>1 DEF NumFills
    <3>3. /\ IsFiniteSet(FillsIn(sums'))
          /\ Cardinality(FillsIn(sums')) = Cardinality(FillsIn(old)) + Len(targets)
      BY <1>2, <1>4, <1>5, <1>6, <2>2, <3>1, FillsAdd DEF CountInv
    <3>4. QED BY <1>5, <3>2, <3>3 DEF CountInv, NumFillsIsTotal
  <2>3. QED BY <1>1, <2>1, <2>2
<1>8. QED BY <1>7 DEF CountInv, NumFillsIsTotal

(* Cells that hold nothing have no fills: at the beginning, and after      *)
(* reset().                                                                *)
LEMMA NothingFilled ==
  ASSUME NEW n \in Nat, NEW cells, cells = [c \in 1 .. n |-> NoRows]
  PROVE  IsFiniteSet(FillsIn(cells)) /\ Cardinality(FillsIn(cells)) = 0
<1>1. \A c \in 1 .. n, b \in Bins : cells[c][b] = 0
  BY DEF NoRows
<1>2. 1 .. 0 = {} /\ DOMAIN cells = 1 .. n
  OBVIOUS
<1>3. \A c, b, k : <<c, b, k>> \notin FillsIn(cells)
  <2>1. \A c, b, k : <<c, b, k>> \in FillsIn(cells)
                      => c \in 1 .. n /\ b \in Bins /\ k \in 1 .. cells[c][b]
    BY <1>2, FillsInCells
  <2>2. QED BY <1>1, <1>2, <2>1
<1>4. \A f \in FillsIn(cells) : \E c, b, k : f = <<c, b, k>>
  BY <1>2, FillsInCells
<1>5. FillsIn(cells) = {}
  BY <1>3, <1>4
<1>6. QED BY <1>5, FS_EmptySet

LEMMA CountInvInit == Init => CountInv
<1> SUFFICES ASSUME Init PROVE CountInv
  OBVIOUS
<1>1. sums = [c \in 1 .. 1 |-> NoRows]
  BY DEF Init
<1>2. QED BY <1>1, NothingFilled DEF Init, CountInv, NumFillsIsTotal

LEMMA CountInvNext == FillInv /\ CountInv /\ [Next]_vars => CountInv'
<1> SUFFICES ASSUME FillInv, CountInv, [Next]_vars PROVE CountInv'
  OBVIOUS
<1>1. ASSUME NEW p \in Plans, NEW n \in 0 .. MaxBatch, Fill(p, n)
      PROVE  CountInv'
  BY <1>1, FillKeepsCount
<1>2. ASSUME NEW row \in Row, FillRow(row)
      PROVE  CountInv'
  BY <1>2, FillRowKeepsCount
<1>3. CASE Reset
  <2>1. Len(columns) \in Nat /\ DOMAIN columns = 1 .. Len(columns)
    BY DEF FillInv, GoodColumns
  <2>2. sums' = [c \in 1 .. Len(columns) |-> NoRows] /\ numFills' = 0
    BY <1>3, <2>1 DEF Reset
  <2>3. IsFiniteSet(FillsIn(sums')) /\ Cardinality(FillsIn(sums')) = 0
    BY <2>1, <2>2, NothingFilled
  <2>4. QED BY <2>2, <2>3 DEF CountInv, NumFillsIsTotal
<1>4. ASSUME UNCHANGED <<sums, numFills>>
      PROVE  CountInv'
  BY <1>4 DEF CountInv, NumFillsIsTotal
<1>5. CASE UNCHANGED vars
  BY <1>4, <1>5 DEF vars, hist
<1>6. ASSUME NEW row \in Row, SkipRow(row) \/ ThrowAtRow(row)
      PROVE  CountInv'
  BY <1>4, <1>6 DEF SkipRow, ThrowAtRow, hist
<1>7. CASE EndFill
  BY <1>4, <1>7 DEF EndFill, hist
<1>8. QED BY <1>1, <1>2, <1>3, <1>5, <1>6, <1>7 DEF Next

(* num_fills is the number of fills in the cells, also when a row is in    *)
(* no bin, columns are added between two rows or a call throws half way:   *)
(* HistFrame::fill_bin() counts once for every column it fills.            *)
THEOREM NumFillsCountsFills == Spec => []NumFillsIsTotal
<1>1. CountInv => NumFillsIsTotal
  BY DEF CountInv
<1>2. QED BY <1>1, CountInvInit, CountInvNext, FillInvHolds, PTL DEF Spec
=============================================================================
