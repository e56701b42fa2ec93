----------------------------- MODULE DataLemmas -----------------------------
(***************************************************************************)
(* Lemmas about numbers and sequences that the proofs about the components *)
(* need.  Induction is over sets of numbers: NatSetInduction follows from  *)
(* the well-foundedness of the order of Nat, and the set to apply it to is *)
(* that of the numbers for which a formula holds.                          *)
(***************************************************************************)
EXTENDS Sums, SequenceFilter, SequencesExt, SequenceTheorems, FiniteSetTheorems,
        WellFoundedInduction, TLAPS

(* A set of numbers that has 0, and each number after one it has, has all. *)
LEMMA NatSetInduction ==
  ASSUME NEW S \in SUBSET Nat, 0 \in S, \A n \in S : n + 1 \in S
  PROVE  \A n \in Nat : n \in S
<1> DEFINE R == {ss \in Nat \X Nat : ss[1] < ss[2]}
<1>1. IsWellFoundedOn(R, Nat)
  BY NatLessThanWellFounded DEF OpToRel
<1> HIDE DEF R
<1>2. ASSUME Nat \ S # {} PROVE FALSE
  <2>1. PICK x \in Nat \ S : \A y \in Nat \ S : ~ (<<y, x>> \in R)
    BY <1>1, <1>2, WFMin
  <2>2. x - 1 \in Nat /\ x - 1 \notin S
    OBVIOUS
  <2>3. <<x - 1, x>> \in R
    BY <2>2 DEF R
  <2>4. QED BY <2>1, <2>2, <2>3
<1>3. QED BY <1>2

(* The same up to a bound. *)
LEMMA BoundedInduction ==
  ASSUME NEW m \in Nat, NEW S, 0 \in S,
         \A n \in 0 .. m - 1 : n \in S => n + 1 \in S
  PROVE  \A n \in 0 .. m : n \in S
<1> DEFINE T == {n \in Nat : n <= m => n \in S}
<1>1. T \in SUBSET Nat /\ 0 \in T
  OBVIOUS
<1>2. \A n \in T : n + 1 \in T
  OBVIOUS
<1> HIDE DEF T
<1>3. \A n \in Nat : n \in T
  BY <1>1, <1>2, NatSetInduction
<1>4. QED BY <1>3 DEF T

(* The functions that have a given value at 0 and at each number up to m   *)
(* the one that a step function makes of the value before.                 *)
Recursions(m, D, base, step) ==
  {f \in [0 .. m -> D] : /\ f[0] = base
                        /\ \A k \in 1 .. m : f[k] = step[<<f[k - 1], k>>]}

(* There is one. *)
LEMMA RecursionUpTo ==
  ASSUME NEW m \in Nat, NEW D, NEW base \in D, NEW step \in [D \X (1 .. m) -> D]
  PROVE  Recursions(m, D, base, step) # {}
<1> DEFINE Upto(n, f) == /\ f \in [0 .. n -> D]
                         /\ f[0] = base
                         /\ \A k \in 1 .. n : f[k] = step[<<f[k - 1], k>>]
           S == {n \in 0 .. m : \E f : Upto(n, f)}
<1>1. 0 \in S
  <2>1. Upto(0, [k \in 0 .. 0 |-> base])
    OBVIOUS
  <2> HIDE DEF Upto
  <2>2. QED BY <2>1
<1>2. ASSUME NEW n \in 0 .. m - 1, n \in S
      PROVE  n + 1 \in S
  <2>1. PICK f : Upto(n, f)
    <3> HIDE DEF Upto
    <3>1. QED BY <1>2
  <2> DEFINE last == step[<<f[n], n + 1>>]
             g == [k \in 0 .. n + 1 |-> IF k <= n THEN f[k] ELSE last]
  <2>2. f[n] \in D /\ last \in D
    BY <2>1
  <2>3. g \in [0 .. n + 1 -> D] /\ g[0] = base
    BY <2>1, <2>2
  <2>4. ASSUME NEW k \in 1 .. n + 1 PROVE g[k] = step[<<g[k - 1], k>>]
    <3>1. k - 1 \in 0 .. n /\ g[k - 1] = f[k - 1]
      OBVIOUS
    <3>2. CASE k = n + 1
      BY <3>1, <3>2
    <3>3. CASE k \in 1 .. n
      <4>1. g[k] = f[k]
        BY <3>3
      <4>2. f[k] = step[<<f[k - 1], k>>]
        BY <2>1, <3>3
      <4>3. QED BY <3>1, <4>1, <4>2
    <3>4. QED BY <3>2, <3>3
  <2> HIDE DEF g
  <2>5. Upto(n + 1, g)
    BY <2>3, <2>4
  <2> HIDE DEF Upto
  <2>6. QED BY <2>5
<1> HIDE DEF S
<1>3. \A n \in 0 .. m : n \in S
  BY <1>1, <1>2, BoundedInduction
<1>4. m \in S
  BY <1>3
<1>5. \E f : Upto(m, f)
  <2> HIDE DEF Upto
  <2>1. QED BY <1>4 DEF S
<1>6. QED BY <1>5 DEF Recursions

(* Two functions that follow the same steps from the same value agree. *)
Follows(f, m, step) == \A k \in 1 .. m : f[k] = step[<<f[k - 1], k>>]

LEMMA RecursionUnique ==
  ASSUME NEW m \in Nat, NEW step, NEW f, NEW g, f[0] = g[0],
         Follows(f, m, step), Follows(g, m, step)
  PROVE  \A k \in 0 .. m : f[k] = g[k]
<1> DEFINE S == {k \in 0 .. m : f[k] = g[k]}
<1>1. 0 \in S
  OBVIOUS
<1>2. ASSUME NEW n \in 0 .. m - 1, n \in S
      PROVE  n + 1 \in S
  <2>1. n + 1 \in 1 .. m /\ n + 1 - 1 = n /\ f[n] = g[n]
    BY <1>2
  <2>2. f[n + 1] = step[<<f[n], n + 1>>] /\ g[n + 1] = step[<<g[n], n + 1>>]
    BY <2>1 DEF Follows
  <2>3. f[n + 1] = g[n + 1]
    BY <2>1, <2>2
  <2>4. QED BY <2>1, <2>3
<1> HIDE DEF S
<1>3. \A n \in 0 .. m : n \in S
  BY <1>1, <1>2, BoundedInduction
<1>4. QED BY <1>3 DEF S

(* One step more does not change the values before it.                     *)
SameSteps(step, stepMore, m, D) ==
  \A s \in D, k \in 1 .. m : stepMore[<<s, k>>] = step[<<s, k>>]

LEMMA RecursionExtends ==
  ASSUME NEW m \in Nat, NEW n \in Nat, n = m + 1,
         NEW D, NEW base, NEW step, NEW stepMore,
         SameSteps(step, stepMore, m, D),
         NEW f, f \in Recursions(m, D, base, step),
         NEW g, g \in Recursions(n, D, base, stepMore)
  PROVE  f[m] \in D /\ g[n] = stepMore[<<f[m], n>>]
<1>1. f \in [0 .. m -> D] /\ f[0] = base /\ Follows(f, m, step)
  BY DEF Recursions, Follows
<1>2. /\ g \in [0 .. n -> D] /\ g[0] = base
      /\ \A k \in 1 .. n : g[k] = stepMore[<<g[k - 1], k>>]
  BY DEF Recursions
<1>3. Follows(g, m, step)
  <2>1. \A k \in 1 .. m : k \in 1 .. n /\ g[k - 1] \in D
    BY <1>2
  <2>2. QED BY <1>2, <2>1 DEF Follows, SameSteps
<1>4. \A k \in 0 .. m : f[k] = g[k]
  BY <1>1, <1>2, <1>3, RecursionUnique
<1>5. g[m] = f[m] /\ f[m] \in D
  BY <1>1, <1>4
<1>6. n \in 1 .. n /\ n - 1 = m
  OBVIOUS
<1>7. g[n] = stepMore[<<g[n - 1], n>>]
  BY <1>2, <1>6
<1>8. QED BY <1>5, <1>6, <1>7

(* Induction on how a sequence is appended to. *)
LEMMA SeqSetInduction ==
  ASSUME NEW T, NEW S, <<>> \in S,
         \A seq \in Seq(T), e \in T : seq \in S => Append(seq, e) \in S
  PROVE  \A seq \in Seq(T) : seq \in S
<1> DEFINE Lengths == {n \in Nat : \A seq \in Seq(T) : Len(seq) = n => seq \in S}
<1>1. 0 \in Lengths
  BY EmptySeq
<1>2. ASSUME NEW n \in Lengths PROVE n + 1 \in Lengths
  <2> SUFFICES ASSUME NEW seq \in Seq(T), Len(seq) = n + 1
               PROVE  seq \in S
    BY <1>2
  <2> DEFINE front == SubSeq(seq, 1, n)
  <2>1. n \in Nat /\ n + 1 \in 1 .. Len(seq) /\ seq[n + 1] \in T
    BY ElementOfSeq
  <2>2. front \in Seq(T) /\ Len(front) = n /\ \A i \in 1 .. n : front[i] = seq[i]
    BY <2>1, SubSeqProperties
  <2>3. seq = Append(front, seq[n + 1])
    <3> HIDE DEF front
    <3>1. /\ Append(front, seq[n + 1]) \in Seq(T) /\ Len(Append(front, seq[n + 1])) = n + 1
          /\ \A i \in 1 .. n : Append(front, seq[n + 1])[i] = seq[i]
          /\ Append(front, seq[n + 1])[n + 1] = seq[n + 1]
      BY <2>1, <2>2, AppendProperties
    <3>2. \A i \in 1 .. n + 1 : Append(front, seq[n + 1])[i] = seq[i]
      BY <2>1, <3>1
    <3>3. QED BY <3>1, <3>2, SeqEqual
  <2>4. front \in S
    BY <1>2, <2>2
  <2> HIDE DEF front
  <2>5. Append(front, seq[n + 1]) \in S
    BY <2>1, <2>2, <2>4
  <2>6. QED BY <2>3, <2>5
<1> HIDE DEF Lengths
<1>3. \A n \in Nat : n \in Lengths
  BY <1>1, <1>2, NatSetInduction DEF Lengths
<1>4. QED BY <1>3, LenProperties DEF Lengths

-----------------------------------------------------------------------------
(* What OnlyIn() is: a function with the values it recurs over exists, so  *)
(* the one it chooses has them.                                            *)
FilterStep(seq, S, T) ==
  [p \in Seq(T) \X (1 .. Len(seq)) |->
     IF seq[p[2]] \in S THEN Append(p[1], seq[p[2]]) ELSE p[1]]

Filters(seq, S, T) == Recursions(Len(seq), Seq(T), <<>>, FilterStep(seq, S, T))

LEMMA FilterUnfolds ==
  ASSUME NEW T, NEW seq \in Seq(T), NEW S
  PROVE  \E f \in Filters(seq, S, T) : OnlyIn(seq, S) = f[Len(seq)]
<1> DEFINE D == Seq(T)
           m == Len(seq)
           step == FilterStep(seq, S, T)
           After(s, k) == IF seq[k] \in S THEN Append(s, seq[k]) ELSE s
           Upto(f) == f = [i \in 0 .. m |-> IF i = 0 THEN <<>> ELSE After(f[i - 1], i)]
           chosen == CHOOSE f : Upto(f)
<1>1. m \in Nat /\ <<>> \in D
  BY LenProperties, EmptySeq
<1>2. \A s \in D, k \in 1 .. m : After(s, k) \in D
  BY ElementOfSeq, AppendProperties
<1>3. step = [p \in D \X (1 .. m) |-> After(p[1], p[2])]
  BY DEF FilterStep
<1>4. OnlyIn(seq, S) = chosen[m]
  BY DEF OnlyIn
<1> HIDE DEF After, D, m, step
<1>5. step \in [D \X (1 .. m) -> D]
  BY <1>2, <1>3
<1>6. \A s \in D, k \in 1 .. m : step[<<s, k>>] = After(s, k)
  BY <1>3
<1>7. PICK f \in [0 .. m -> D] :
        f[0] = <<>> /\ \A k \in 1 .. m : f[k] = step[<<f[k - 1], k>>]
  <2>1. Recursions(m, D, <<>>, step) # {}
    BY <1>1, <1>5, RecursionUpTo
  <2>2. QED BY <2>1 DEF Recursions
<1>8. Upto(f)
  <2>1. \A k \in 1 .. m : f[k - 1] \in D
    BY <1>1, <1>7
  <2>2. \A k \in 1 .. m : f[k] = After(f[k - 1], k)
    BY <2>1, <1>6, <1>7
  <2>3. QED BY <1>1, <1>7, <2>2
<1>9. Upto(chosen)
  <2> HIDE DEF Upto
  <2>1. QED BY <1>8
<1> HIDE DEF chosen
<1>10. chosen[0] = <<>> /\ \A k \in 1 .. m : chosen[k] = After(chosen[k - 1], k)
  BY <1>1, <1>9
<1> DEFINE Typed == {k \in 0 .. m : chosen[k] \in D}
<1>11. 0 \in Typed
  BY <1>1, <1>10
<1>12. ASSUME NEW n \in 0 .. m - 1, n \in Typed PROVE n + 1 \in Typed
  <2>1. n + 1 \in 1 .. m /\ n + 1 - 1 = n /\ chosen[n] \in D
    BY <1>1, <1>12
  <2>2. chosen[n + 1] \in D
    BY <1>2, <1>10, <2>1
  <2>3. QED BY <2>1, <2>2
<1> HIDE DEF Typed
<1>13. \A k \in 0 .. m : chosen[k] \in D
  BY <1>1, <1>11, <1>12, BoundedInduction DEF Typed
<1>14. chosen \in [0 .. m -> D]
  BY <1>9, <1>13
<1>15. \A k \in 1 .. m : chosen[k] = step[<<chosen[k - 1], k>>]
  <2>1. \A k \in 1 .. m : chosen[k - 1] \in D
    BY <1>1, <1>13
  <2>2. QED BY <2>1, <1>6, <1>10
<1>16. chosen \in Recursions(m, D, <<>>, step)
  BY <1>10, <1>14, <1>15 DEF Recursions
<1>17. QED BY <1>4, <1>16 DEF D, m, step, Filters

(* Only elements of the sequence are kept. *)
LEMMA OnlyInType ==
  ASSUME NEW T, NEW seq \in Seq(T), NEW S
  PROVE  OnlyIn(seq, S) \in Seq(T)
<1>1. PICK f \in [0 .. Len(seq) -> Seq(T)] : OnlyIn(seq, S) = f[Len(seq)]
  BY FilterUnfolds DEF Filters, Recursions
<1>2. Len(seq) \in 0 .. Len(seq)
  BY LenProperties
<1>3. QED BY <1>1, <1>2

LEMMA OnlyInEmpty ==
  ASSUME NEW S
  PROVE  OnlyIn(<<>>, S) = <<>>
<1>1. <<>> \in Seq({}) /\ Len(<<>>) = 0
  BY EmptySeq
<1>2. PICK f \in Filters(<<>>, S, {}) : OnlyIn(<<>>, S) = f[Len(<<>>)]
  BY <1>1, FilterUnfolds
<1>3. f[0] = <<>>
  BY DEF Filters, Recursions
<1>4. QED BY <1>1, <1>2, <1>3

(* What is appended to a sequence is appended to what is kept of it, or it *)
(* is not.                                                                 *)
LEMMA OnlyInAppend ==
  ASSUME NEW T, NEW seq \in Seq(T), NEW e \in T, NEW S
  PROVE  OnlyIn(Append(seq, e), S)
           = IF e \in S THEN Append(OnlyIn(seq, S), e) ELSE OnlyIn(seq, S)
<1> DEFINE more == Append(seq, e)
           m == Len(seq)
           n == Len(more)
           step == FilterStep(seq, S, T)
           stepMore == FilterStep(more, S, T)
<1>1. /\ more \in Seq(T) /\ n = m + 1 /\ m \in Nat /\ n \in Nat
      /\ \A i \in 1 .. m : more[i] = seq[i]
      /\ more[n] = e
  BY AppendProperties, LenProperties
<1> HIDE DEF more
<1>2. PICK f \in Filters(seq, S, T) : OnlyIn(seq, S) = f[m]
  BY FilterUnfolds
<1>3. PICK g \in Filters(more, S, T) : OnlyIn(more, S) = g[n]
  BY <1>1, FilterUnfolds
<1>4. f \in Recursions(m, Seq(T), <<>>, step) /\ g \in Recursions(n, Seq(T), <<>>, stepMore)
  BY DEF Filters
<1>5. SameSteps(step, stepMore, m, Seq(T))
  BY <1>1 DEF FilterStep, SameSteps
<1>6. \A s \in Seq(T) : stepMore[<<s, n>>] = IF e \in S THEN Append(s, e) ELSE s
  BY <1>1 DEF FilterStep
<1> HIDE DEF m, n, step, stepMore
<1>7. f[m] \in Seq(T) /\ g[n] = stepMore[<<f[m], n>>]
  BY <1>1, <1>4, <1>5, RecursionExtends
<1>8. QED BY <1>2, <1>3, <1>6, <1>7 DEF more

LEMMA OnlyInSingle ==
  ASSUME NEW e, NEW S
  PROVE  OnlyIn(<<e>>, S) = IF e \in S THEN <<e>> ELSE <<>>
<1> DEFINE T == {e}
           none == <<>>
<1>1. none \in Seq(T) /\ e \in T /\ <<e>> = Append(none, e)
  OBVIOUS
<1>2. OnlyIn(none, S) = none
  BY OnlyInEmpty
<1> HIDE DEF T, none
<1>3. OnlyIn(Append(none, e), S) = IF e \in S THEN Append(none, e) ELSE none
  BY <1>1, <1>2, OnlyInAppend
<1>4. QED BY <1>1, <1>3 DEF none

-----------------------------------------------------------------------------
(* The elements of a sequence, and sequences without repetitions. *)
LEMMA ToSetType ==
  ASSUME NEW T, NEW seq \in Seq(T)
  PROVE  ToSet(seq) \subseteq T
BY DEF ToSet

LEMMA ToSetAppend ==
  ASSUME NEW T, NEW seq \in Seq(T), NEW e
  PROVE  ToSet(Append(seq, e)) = ToSet(seq) \cup {e}
<1> DEFINE more == Append(seq, e)
           m == Len(seq)
           n == Len(more)
<1>1. /\ n = m + 1 /\ m \in Nat /\ n \in 1 .. n
      /\ DOMAIN seq = 1 .. m /\ DOMAIN more = 1 .. n
      /\ \A i \in 1 .. m : more[i] = seq[i] /\ i \in 1 .. n
      /\ more[n] = e
      /\ \A i \in 1 .. n : i = n \/ i \in 1 .. m
  OBVIOUS
<1> HIDE DEF more, m, n
<1>2. ToSet(more) = ToSet(seq) \cup {e}
  BY <1>1 DEF ToSet
<1>3. QED BY <1>2 DEF more

LEMMA ToSetConcat ==
  ASSUME NEW T, NEW s \in Seq(T), NEW t \in Seq(T)
  PROVE  ToSet(s \o t) = ToSet(s) \cup ToSet(t)
<1> DEFINE both == s \o t
           m == Len(s)
           n == Len(t)
<1>1. /\ m \in Nat /\ n \in Nat
      /\ DOMAIN s = 1 .. m /\ DOMAIN t = 1 .. n /\ DOMAIN both = 1 .. m + n
      /\ \A i \in 1 .. m : both[i] = s[i] /\ i \in 1 .. m + n
      /\ \A i \in 1 .. n : both[m + i] = t[i] /\ m + i \in 1 .. m + n
      /\ \A i \in 1 .. m + n : i \in 1 .. m \/ \E j \in 1 .. n : i = m + j /\ both[i] = t[j]
  <2>1. m \in Nat /\ n \in Nat /\ DOMAIN s = 1 .. m /\ DOMAIN t = 1 .. n
        /\ DOMAIN both = 1 .. m + n
    OBVIOUS
  <2>2. \A i \in 1 .. m : both[i] = s[i] /\ i \in 1 .. m + n
    BY <2>1
  <2>3. \A i \in 1 .. n : both[m + i] = t[i] /\ m + i \in 1 .. m + n
    BY <2>1
  <2>4. ASSUME NEW i \in 1 .. m + n, i \notin 1 .. m
        PROVE  \E j \in 1 .. n : i = m + j /\ both[i] = t[j]
    <3>1. i - m \in 1 .. n /\ i = m + (i - m)
      BY <2>1, <2>4
    <3>2. QED BY <2>3, <3>1
  <2>5. QED BY <2>1, <2>2, <2>3, <2>4
<1> HIDE DEF both, m, n
<1>2. ToSet(s) \cup ToSet(t) \subseteq ToSet(both)
  <2>1. \A i \in DOMAIN s : s[i] \in ToSet(both)
    BY <1>1 DEF ToSet
  <2>2. ASSUME NEW i \in DOMAIN t
        PROVE  t[i] \in ToSet(both)
    <3>1. i \in 1 .. n
      BY <1>1
    <3>2. m + i \in DOMAIN both /\ both[m + i] = t[i]
      BY <1>1, <3>1
    <3>3. QED BY <3>2 DEF ToSet
  <2>3. QED BY <2>1, <2>2 DEF ToSet
<1>3. ToSet(both) \subseteq ToSet(s) \cup ToSet(t)
  BY <1>1 DEF ToSet
<1>4. ToSet(both) = ToSet(s) \cup ToSet(t)
  BY <1>2, <1>3
<1>5. QED BY <1>4 DEF both

LEMMA InjectiveAppend ==
  ASSUME NEW T, NEW seq \in Seq(T), NEW e, IsInjective(seq), e \notin ToSet(seq)
  PROVE  IsInjective(Append(seq, e))
<1> DEFINE more == Append(seq, e)
           m == Len(seq)
           n == Len(more)
<1>1. /\ n = m + 1 /\ m \in Nat /\ n \in 1 .. n
      /\ DOMAIN seq = 1 .. m /\ DOMAIN more = 1 .. n
      /\ \A i \in 1 .. m : more[i] = seq[i] /\ i \in 1 .. n
      /\ more[n] = e
      /\ \A i \in 1 .. n : i = n \/ i \in 1 .. m
  OBVIOUS
<1> HIDE DEF more, m, n
<1>2. \A i \in 1 .. m : more[i] # e
  BY <1>1 DEF ToSet
<1>3. \A i, j \in 1 .. m : more[i] = more[j] => i = j
  BY <1>1 DEF IsInjective
<1>4. IsInjective(more)
  BY <1>1, <1>2, <1>3 DEF IsInjective
<1>5. QED BY <1>4 DEF more

LEMMA InjectiveConcat ==
  ASSUME NEW T, NEW s \in Seq(T), NEW t \in Seq(T), IsInjective(s), IsInjective(t),
         ToSet(s) \cap ToSet(t) = {}
  PROVE  IsInjective(s \o t)
<1> DEFINE both == s \o t
           m == Len(s)
           n == Len(t)
<1>1. /\ m \in Nat /\ n \in Nat
      /\ DOMAIN s = 1 .. m /\ DOMAIN t = 1 .. n /\ DOMAIN both = 1 .. m + n
  OBVIOUS
<1>2. \A i \in 1 .. m : both[i] = s[i]
  BY <1>1
<1>3. ASSUME NEW i \in 1 .. m + n, i \notin 1 .. m
      PROVE  i - m \in 1 .. n /\ both[i] = t[i - m]
  BY <1>1, <1>3
<1> HIDE DEF both, m, n
<1>4. \A i \in 1 .. m, j \in 1 .. n : s[i] # t[j]
  BY <1>1 DEF ToSet
<1>5. ASSUME NEW i \in 1 .. m + n, NEW j \in 1 .. m + n, both[i] = both[j]
      PROVE  i = j
  <2>1. CASE i \in 1 .. m /\ j \in 1 .. m
    BY <1>1, <1>2, <1>5, <2>1 DEF IsInjective
  <2>2. CASE i \notin 1 .. m /\ j \notin 1 .. m
    <3>1. i - m = j - m
      BY <1>1, <1>3, <1>5, <2>2 DEF IsInjective
    <3>2. QED BY <1>1, <3>1
  <2>3. CASE i \in 1 .. m /\ j \notin 1 .. m
    BY <1>2, <1>3, <1>4, <1>5, <2>3
  <2>4. CASE i \notin 1 .. m /\ j \in 1 .. m
    BY <1>2, <1>3, <1>4, <1>5, <2>4
  <2>5. QED BY <2>1, <2>2, <2>3, <2>4
<1>6. IsInjective(both)
  BY <1>1, <1>5 DEF IsInjective
<1>7. QED BY <1>6 DEF both

(* The beginning of a sequence. *)
LEMMA FrontOf ==
  ASSUME NEW T, NEW seq \in Seq(T), NEW m \in Nat, m <= Len(seq)
  PROVE  /\ SubSeq(seq, 1, m) \in Seq(T) /\ Len(SubSeq(seq, 1, m)) = m
         /\ \A i \in 1 .. m : SubSeq(seq, 1, m)[i] = seq[i]
<1> DEFINE front == SubSeq(seq, 1, m)
<1>1. Len(seq) \in Nat /\ \A i \in 1 .. m : seq[i] \in T
  BY ElementOfSeq, LenProperties
<1>2. /\ front \in Seq(T) /\ Len(front) = IF 1 <= m THEN m - 1 + 1 ELSE 0
      /\ \A i \in 1 .. m - 1 + 1 : front[i] = seq[1 + i - 1]
  BY <1>1, SubSeqProperties
<1> HIDE DEF front
<1>3. Len(front) = m
  BY <1>2
<1>4. \A i \in 1 .. m : front[i] = seq[i]
  <2>1. \A i \in 1 .. m : i \in 1 .. m - 1 + 1 /\ 1 + i - 1 = i
    OBVIOUS
  <2>2. QED BY <1>2, <2>1
<1>5. QED BY <1>2, <1>3, <1>4 DEF front

LEMMA SeqWiden ==
  ASSUME NEW T, NEW U, T \subseteq U, NEW seq \in Seq(T)
  PROVE  seq \in Seq(U)
<1>1. \A i \in 1 .. Len(seq) : seq[i] \in T
  OBVIOUS
<1>2. QED BY <1>1

LEMMA SeqOfElements ==
  ASSUME NEW T, NEW seq \in Seq(T)
  PROVE  seq \in Seq(ToSet(seq))
<1>1. \A i \in 1 .. Len(seq) : seq[i] \in ToSet(seq)
  BY DEF ToSet
<1>2. QED BY <1>1

LEMMA OneElement ==
  ASSUME NEW T, NEW e \in T
  PROVE  <<e>> \in Seq(T) /\ IsInjective(<<e>>) /\ ToSet(<<e>>) = {e}
<1> DEFINE one == <<e>>
<1>1. one \in Seq(T) /\ DOMAIN one = {1} /\ one[1] = e
  OBVIOUS
<1> HIDE DEF one
<1>2. IsInjective(one) /\ ToSet(one) = {e}
  BY <1>1 DEF IsInjective, ToSet
<1>3. QED BY <1>1, <1>2 DEF one

LEMMA NoElement ==
  ASSUME NEW T
  PROVE  <<>> \in Seq(T) /\ IsInjective(<<>>) /\ ToSet(<<>>) = {}
<1> DEFINE none == <<>>
<1>1. none \in Seq(T) /\ DOMAIN none = {}
  BY EmptySeq
<1> HIDE DEF none
<1>2. IsInjective(none) /\ ToSet(none) = {}
  BY <1>1 DEF IsInjective, ToSet
<1>3. QED BY <1>1, <1>2 DEF none

(* Two sequences without repetitions that share no element. *)
LEMMA Joined ==
  ASSUME NEW T, NEW s \in Seq(T), NEW t \in Seq(T), IsInjective(s), IsInjective(t),
         ToSet(s) \cap ToSet(t) = {}
  PROVE  s \o t \in Seq(T) /\ IsInjective(s \o t) /\ ToSet(s \o t) = ToSet(s) \cup ToSet(t)
<1>1. s \o t \in Seq(T)
  BY ConcatProperties
<1>2. IsInjective(s \o t)
  BY InjectiveConcat
<1>3. ToSet(s \o t) = ToSet(s) \cup ToSet(t)
  BY ToSetConcat
<1>4. QED BY <1>1, <1>2, <1>3

(* The elements that are kept are those of the set, and none is kept twice. *)
LEMMA OnlyInElements ==
  ASSUME NEW T, NEW seq \in Seq(T), NEW S
  PROVE  ToSet(OnlyIn(seq, S)) = ToSet(seq) \cap S
<1> DEFINE Good == {s \in Seq(T) : ToSet(OnlyIn(s, S)) = ToSet(s) \cap S}
<1>1. <<>> \in Good
  <2>1. ToSet(<<>>) = {}
    BY DEF ToSet
  <2>2. QED BY <2>1, EmptySeq, OnlyInEmpty
<1>2. ASSUME NEW s \in Seq(T), NEW e \in T, s \in Good
      PROVE  Append(s, e) \in Good
  <2>1. Append(s, e) \in Seq(T) /\ OnlyIn(s, S) \in Seq(T)
    BY AppendProperties, OnlyInType
  <2>2. ToSet(OnlyIn(s, S)) = ToSet(s) \cap S
    BY <1>2
  <2>3. ToSet(Append(s, e)) = ToSet(s) \cup {e}
    BY ToSetAppend
  <2>4. ToSet(Append(OnlyIn(s, S), e)) = ToSet(OnlyIn(s, S)) \cup {e}
    BY <2>1, ToSetAppend
  <2>5. OnlyIn(Append(s, e), S)
          = IF e \in S THEN Append(OnlyIn(s, S), e) ELSE OnlyIn(s, S)
    BY OnlyInAppend
  <2>6. ToSet(OnlyIn(Append(s, e), S)) = ToSet(Append(s, e)) \cap S
    BY <2>2, <2>3, <2>4, <2>5
  <2>7. QED BY <2>1, <2>6
<1> HIDE DEF Good
<1>3. seq \in Good
  BY <1>1, <1>2, SeqSetInduction
<1>4. QED BY <1>3 DEF Good

LEMMA OnlyInInjective ==
  ASSUME NEW T, NEW seq \in Seq(T), NEW S, IsInjective(seq)
  PROVE  IsInjective(OnlyIn(seq, S))
<1> DEFINE Good == {s \in Seq(T) : IsInjective(s) => IsInjective(OnlyIn(s, S))}
<1>1. <<>> \in Good
  BY EmptySeq, OnlyInEmpty
<1>2. ASSUME NEW s \in Seq(T), NEW e \in T, s \in Good
      PROVE  Append(s, e) \in Good
  <2>1. Append(s, e) \in Seq(T) /\ OnlyIn(s, S) \in Seq(T)
    BY AppendProperties, OnlyInType
  <2>2. ASSUME IsInjective(Append(s, e))
        PROVE  IsInjective(s) /\ e \notin ToSet(s)
    <3> DEFINE more == Append(s, e)
               m == Len(s)
               n == Len(more)
    <3>1. /\ n = m + 1 /\ m \in Nat /\ n \in 1 .. n
          /\ DOMAIN s = 1 .. m /\ DOMAIN more = 1 .. n
          /\ \A i \in 1 .. m : more[i] = s[i] /\ i \in 1 .. n /\ i # n
          /\ more[n] = e
      OBVIOUS
    <3>2. IsInjective(more)
      BY <2>2
    <3> HIDE DEF more, m, n
    <3>3. IsInjective(s)
      BY <3>1, <3>2 DEF IsInjective
    <3>4. e \notin ToSet(s)
      BY <3>1, <3>2 DEF IsInjective, ToSet
    <3>5. QED BY <3>3, <3>4
  <2>3. ASSUME IsInjective(Append(s, e))
        PROVE  IsInjective(OnlyIn(Append(s, e), S))
    <3>1. IsInjective(OnlyIn(s, S))
      BY <1>2, <2>2, <2>3
    <3>2. e \notin ToSet(OnlyIn(s, S))
      BY <2>2, <2>3, OnlyInElements
    <3>3. IsInjective(Append(OnlyIn(s, S), e))
      BY <2>1, <3>1, <3>2, InjectiveAppend
    <3>4. QED BY <3>1, <3>3, OnlyInAppend
  <2>4. QED BY <2>1, <2>3
<1> HIDE DEF Good
<1>3. seq \in Good
  BY <1>1, <1>2, SeqSetInduction
<1>4. QED BY <1>3 DEF Good

(* Nothing is kept of a sequence that has no element of the set. *)
LEMMA OnlyInNone ==
  ASSUME NEW T, NEW seq \in Seq(T), NEW S, ToSet(seq) \cap S = {}
  PROVE  OnlyIn(seq, S) = <<>>
<1> DEFINE kept == OnlyIn(seq, S)
<1>1. kept \in Seq(T) /\ ToSet(kept) = {}
  BY OnlyInType, OnlyInElements
<1> HIDE DEF kept
<1>2. DOMAIN kept = {}
  BY <1>1 DEF ToSet
<1>3. kept = <<>>
  BY <1>1, <1>2, EmptySeq
<1>4. QED BY <1>3 DEF kept

-----------------------------------------------------------------------------
(* What is kept of one sequence after another, and of what was kept.       *)
LEMMA ConcatAppend ==
  ASSUME NEW T, NEW s \in Seq(T), NEW u \in Seq(T), NEW e \in T
  PROVE  s \o Append(u, e) = Append(s \o u, e)
<1> DEFINE left == s \o Append(u, e)
           right == Append(s \o u, e)
           m == Len(s)
           n == Len(u)
<1>1. m \in Nat /\ n \in Nat
  BY LenProperties
<1>2. /\ Append(u, e) \in Seq(T) /\ Len(Append(u, e)) = n + 1
      /\ \A i \in 1 .. n : Append(u, e)[i] = u[i]
      /\ Append(u, e)[n + 1] = e
  BY AppendProperties
<1>3. /\ s \o u \in Seq(T) /\ Len(s \o u) = m + n
      /\ \A i \in 1 .. m + n : (s \o u)[i] = IF i <= m THEN s[i] ELSE u[i - m]
  BY ConcatProperties
<1>4. /\ left \in Seq(T) /\ Len(left) = m + (n + 1)
      /\ \A i \in 1 .. m + (n + 1) : left[i] = IF i <= m THEN s[i] ELSE Append(u, e)[i - m]
  BY <1>2, ConcatProperties
<1>5. /\ right \in Seq(T) /\ Len(right) = m + n + 1
      /\ \A i \in 1 .. m + n : right[i] = (s \o u)[i]
      /\ right[m + n + 1] = e
  BY <1>3, AppendProperties
<1> HIDE DEF left, right, m, n
<1>6. ASSUME NEW i \in 1 .. m + n + 1
      PROVE  left[i] = right[i]
  <2>1. CASE i <= m
    <3>1. i \in 1 .. m + n /\ i \in 1 .. m + (n + 1)
      BY <1>1, <2>1
    <3>2. left[i] = s[i] /\ right[i] = (s \o u)[i]
      BY <1>4, <1>5, <2>1, <3>1
    <3>3. (s \o u)[i] = s[i]
      BY <1>3, <2>1, <3>1
    <3>4. QED BY <3>2, <3>3
  <2>2. CASE i > m /\ i <= m + n
    <3>1. i - m \in 1 .. n /\ i \in 1 .. m + n /\ i \in 1 .. m + (n + 1) /\ ~(i <= m)
      BY <1>1, <2>2
    <3>2. left[i] = Append(u, e)[i - m] /\ right[i] = u[i - m]
      BY <1>3, <1>4, <1>5, <3>1
    <3>3. Append(u, e)[i - m] = u[i - m]
      BY <1>2, <3>1
    <3>4. QED BY <3>2, <3>3
  <2>3. CASE i = m + n + 1
    <3>1. i - m = n + 1 /\ i \in 1 .. m + (n + 1) /\ ~(i <= m)
      BY <1>1, <2>3
    <3>2. left[i] = Append(u, e)[i - m]
      BY <1>4, <3>1
    <3>3. QED BY <1>2, <1>5, <2>3, <3>1, <3>2
  <2>4. QED BY <1>1, <2>1, <2>2, <2>3
<1>7. Len(left) = Len(right) /\ Len(left) = m + n + 1
  BY <1>1, <1>4, <1>5
<1>8. left = right
  BY <1>4, <1>5, <1>6, <1>7, SeqEqual
<1>9. QED BY <1>8 DEF left, right

LEMMA OnlyInConcat ==
  ASSUME NEW T, NEW s \in Seq(T), NEW t \in Seq(T), NEW S
  PROVE  /\ OnlyIn(s \o t, S) = OnlyIn(s, S) \o OnlyIn(t, S)
         /\ Len(OnlyIn(s \o t, S)) = Len(OnlyIn(s, S)) + Len(OnlyIn(t, S))
<1> DEFINE Good == {u \in Seq(T) : OnlyIn(s \o u, S) = OnlyIn(s, S) \o OnlyIn(u, S)}
           kept == OnlyIn(s, S)
<1>1. kept \in Seq(T) /\ OnlyIn(t, S) \in Seq(T)
  BY OnlyInType
<1>2. <<>> \in Good
  <2>1. s \o <<>> = s /\ kept \o <<>> = kept
    BY <1>1, ConcatEmptySeq
  <2>2. QED BY <2>1, EmptySeq, OnlyInEmpty
<1>3. ASSUME NEW u \in Seq(T), NEW e \in T, u \in Good
      PROVE  Append(u, e) \in Good
  <2> DEFINE ku == OnlyIn(u, S)
  <2>1. /\ Append(u, e) \in Seq(T) /\ s \o u \in Seq(T) /\ ku \in Seq(T)
        /\ s \o Append(u, e) = Append(s \o u, e)
    BY AppendProperties, ConcatProperties, OnlyInType, ConcatAppend
  <2>2. OnlyIn(Append(s \o u, e), S)
          = IF e \in S THEN Append(OnlyIn(s \o u, S), e) ELSE OnlyIn(s \o u, S)
    BY <2>1, OnlyInAppend
  <2>3. OnlyIn(Append(u, e), S) = IF e \in S THEN Append(ku, e) ELSE ku
    BY OnlyInAppend
  <2>4. OnlyIn(s \o u, S) = kept \o ku
    BY <1>3
  <2>5. kept \o Append(ku, e) = Append(kept \o ku, e)
    BY <1>1, <2>1, ConcatAppend
  <2> HIDE DEF kept, ku
  <2>6. OnlyIn(s \o Append(u, e), S) = kept \o OnlyIn(Append(u, e), S)
    BY <2>1, <2>2, <2>3, <2>4, <2>5
  <2>7. QED BY <2>1, <2>6 DEF kept
<1> HIDE DEF Good
<1>4. \A u \in Seq(T) : u \in Good
  BY <1>2, <1>3, SeqSetInduction
<1>5. OnlyIn(s \o t, S) = kept \o OnlyIn(t, S)
  BY <1>4 DEF Good
<1>6. Len(kept \o OnlyIn(t, S)) = Len(kept) + Len(OnlyIn(t, S))
  BY <1>1, ConcatProperties
<1>7. QED BY <1>5, <1>6

LEMMA OnlyInTwice ==
  ASSUME NEW T, NEW s \in Seq(T), NEW R, NEW S
  PROVE  OnlyIn(OnlyIn(s, R), S) = OnlyIn(s, R \cap S)
<1> DEFINE Good == {u \in Seq(T) : OnlyIn(OnlyIn(u, R), S) = OnlyIn(u, R \cap S)}
<1>1. <<>> \in Good
  BY EmptySeq, OnlyInEmpty
<1>2. ASSUME NEW u \in Seq(T), NEW e \in T, u \in Good
      PROVE  Append(u, e) \in Good
  <2> DEFINE ku == OnlyIn(u, R)
             kku == OnlyIn(u, R \cap S)
  <2>1. Append(u, e) \in Seq(T) /\ ku \in Seq(T)
    BY AppendProperties, OnlyInType
  <2>2. OnlyIn(Append(u, e), R) = IF e \in R THEN Append(ku, e) ELSE ku
    BY OnlyInAppend
  <2>3. OnlyIn(Append(ku, e), S) = IF e \in S THEN Append(OnlyIn(ku, S), e) ELSE OnlyIn(ku, S)
    BY <2>1, OnlyInAppend
  <2>4. OnlyIn(Append(u, e), R \cap S) = IF e \in R \cap S THEN Append(kku, e) ELSE kku
    BY OnlyInAppend
  <2>5. OnlyIn(ku, S) = kku
    BY <1>2
  <2> HIDE DEF ku, kku
  <2>6. OnlyIn(OnlyIn(Append(u, e), R), S) = OnlyIn(Append(u, e), R \cap S)
    BY <2>2, <2>3, <2>4, <2>5
  <2>7. QED BY <2>1, <2>6
<1> HIDE DEF Good
<1>3. \A u \in Seq(T) : u \in Good
  BY <1>1, <1>2, SeqSetInduction
<1>4. QED BY <1>3 DEF Good

(* A sequence up to one place, continued up to a later one. *)
LEMMA FrontContinues ==
  ASSUME NEW T, NEW s \in Seq(T), NEW m \in Nat, NEW n \in Nat, m <= n, n <= Len(s)
  PROVE  /\ SubSeq(s, m + 1, n) \in Seq(T)
         /\ Len(SubSeq(s, m + 1, n)) = n - m
         /\ \A i \in 1 .. n - m : SubSeq(s, m + 1, n)[i] = s[m + i]
         /\ SubSeq(s, 1, n) = SubSeq(s, 1, m) \o SubSeq(s, m + 1, n)
<1> DEFINE rest == SubSeq(s, m + 1, n)
           front == SubSeq(s, 1, m)
           whole == SubSeq(s, 1, n)
           both == front \o rest
<1>1. Len(s) \in Nat /\ \A i \in 1 .. Len(s) : s[i] \in T
  BY ElementOfSeq, LenProperties
<1>2. \A i \in m + 1 .. n : s[i] \in T
  BY <1>1
<1>3. /\ rest \in Seq(T) /\ Len(rest) = n - m
      /\ \A i \in 1 .. n - m : rest[i] = s[m + i]
  <2>1. /\ rest \in Seq(T)
        /\ Len(rest) = IF m + 1 <= n THEN n - (m + 1) + 1 ELSE 0
        /\ \A i \in 1 .. n - (m + 1) + 1 : rest[i] = s[m + 1 + i - 1]
    BY <1>2, SubSeqProperties
  <2> HIDE DEF rest
  <2>2. n - (m + 1) + 1 = n - m /\ \A i \in 1 .. n - m : m + 1 + i - 1 = m + i
    OBVIOUS
  <2>3. QED BY <2>1, <2>2
<1>4. /\ front \in Seq(T) /\ Len(front) = m /\ \A i \in 1 .. m : front[i] = s[i]
      /\ whole \in Seq(T) /\ Len(whole) = n /\ \A i \in 1 .. n : whole[i] = s[i]
  BY <1>1, FrontOf
<1> HIDE DEF rest, front, whole
<1>5. /\ both \in Seq(T) /\ Len(both) = m + (n - m)
      /\ \A i \in 1 .. m + (n - m) : both[i] = IF i <= m THEN front[i] ELSE rest[i - m]
  <2>1. /\ both \in Seq(T) /\ Len(both) = Len(front) + Len(rest)
        /\ \A i \in 1 .. Len(front) + Len(rest) :
             both[i] = IF i <= Len(front) THEN front[i] ELSE rest[i - Len(front)]
    BY <1>3, <1>4, ConcatProperties
  <2>2. QED BY <1>3, <1>4, <2>1
<1> HIDE DEF both
<1>6. ASSUME NEW i \in 1 .. n
      PROVE  whole[i] = both[i]
  <2>1. i \in 1 .. m + (n - m)
    OBVIOUS
  <2>2. CASE i <= m
    <3>1. both[i] = front[i] /\ i \in 1 .. m
      BY <1>5, <2>1, <2>2
    <3>2. QED BY <1>4, <3>1
  <2>3. CASE ~(i <= m)
    <3>1. both[i] = rest[i - m] /\ i - m \in 1 .. n - m /\ m + (i - m) = i
      BY <1>5, <2>1, <2>3
    <3>2. rest[i - m] = s[m + (i - m)]
      BY <1>3, <3>1
    <3>3. QED BY <1>4, <3>1, <3>2
  <2>4. QED BY <2>2, <2>3
<1>7. Len(whole) = Len(both) /\ Len(whole) = n
  BY <1>4, <1>5
<1>8. whole = both
  BY <1>4, <1>5, <1>6, <1>7, SeqEqual
<1>9. QED BY <1>3, <1>8 DEF whole, both, rest, front

(* How many chunks of c elements a sequence of n has, the last of which    *)
(* may be shorter.                                                         *)
LEMMA ChunksReach ==
  ASSUME NEW n \in Nat, NEW c \in Nat \ {0}
  PROVE  /\ (n + c - 1) \div c \in Nat
         /\ ((n + c - 1) \div c) * c >= n
         /\ \A k \in 1 .. (n + c - 1) \div c : (k - 1) * c < n
<1> DEFINE x == n + c - 1
           m == x \div c
<1>1. m \in Nat /\ c * m <= x /\ x < c * m + c
  <2>1. x \in Nat
    OBVIOUS
  <2> HIDE DEF x
  <2>2. QED BY <2>1, Z3
<1> HIDE DEF m
<1>2. m * c = c * m /\ m * c \in Nat
  BY <1>1
<1>3. m * c >= n
  BY <1>1, <1>2
<1>4. ASSUME NEW k \in 1 .. m PROVE (k - 1) * c < n
  <2>1. m * c = (k - 1) * c + (m - k + 1) * c
    BY <1>1
  <2>2. (m - k + 1) * c >= c
    BY <1>1
  <2>3. QED BY <1>1, <1>2, <2>1, <2>2
<1>5. QED BY <1>1, <1>3, <1>4 DEF m

(* How many places hold what is kept. *)
LEMMA PlacesOfKept ==
  ASSUME NEW T, NEW s \in Seq(T), NEW S
  PROVE  /\ Cardinality({i \in DOMAIN s : s[i] \in S}) = Len(OnlyIn(s, S))
         /\ Len(OnlyIn(s, S)) \in Nat
<1> DEFINE At(u) == {i \in 1 .. Len(u) : u[i] \in S}
           Good == {u \in Seq(T) : /\ IsFiniteSet(At(u))
                                   /\ Cardinality(At(u)) = Len(OnlyIn(u, S))}
<1>1. <<>> \in Good
  <2>1. At(<<>>) = {} /\ Len(<<>>) = 0
    BY EmptySeq
  <2>2. Len(OnlyIn(<<>>, S)) = 0
    BY <2>1, OnlyInEmpty
  <2> HIDE DEF At
  <2>3. QED BY <2>1, <2>2, EmptySeq, FS_EmptySet
<1>2. ASSUME NEW u \in Seq(T), NEW e \in T, u \in Good
      PROVE  Append(u, e) \in Good
  <2> DEFINE v == Append(u, e)
             m == Len(u)
             n == m + 1
             kept == OnlyIn(u, S)
  <2>1. /\ v \in Seq(T) /\ Len(v) = n /\ m \in Nat
        /\ \A i \in 1 .. m : v[i] = u[i]
        /\ v[n] = e
    BY AppendProperties, LenProperties
  <2>2. OnlyIn(v, S) = IF e \in S THEN Append(kept, e) ELSE kept
    BY OnlyInAppend
  <2>3. kept \in Seq(T) /\ Len(Append(kept, e)) = Len(kept) + 1
    BY OnlyInType, AppendProperties
  <2> HIDE DEF v, kept
  <2>4. At(v) = IF e \in S THEN At(u) \cup {n} ELSE At(u)
    <3>1. \A i \in 1 .. n : i \in 1 .. m \/ i = n
      BY <2>1
    <3>2. \A i \in 1 .. m : i \in 1 .. n
      BY <2>1
    <3>3. n \in 1 .. n
      BY <2>1
    <3> HIDE DEF n, m
    <3>4. \A i : i \in At(v) <=> i \in At(u) \/ (i = n /\ e \in S)
      BY <2>1, <3>1, <3>2, <3>3 DEF m
    <3> HIDE DEF At
    <3>5. QED BY <3>4
  <2>5. n \notin At(u)
    BY <2>1
  <2>6. IsFiniteSet(At(u)) /\ Cardinality(At(u)) = Len(kept)
    BY <1>2 DEF kept
  <2> HIDE DEF At, n
  <2>7. IsFiniteSet(At(v)) /\ Cardinality(At(v)) = Len(OnlyIn(v, S))
    BY <2>2, <2>3, <2>4, <2>5, <2>6, FS_AddElement
  <2>8. QED BY <2>1, <2>7 DEF v
<1> HIDE DEF Good
<1>3. \A u \in Seq(T) : u \in Good
  BY <1>1, <1>2, SeqSetInduction
<1>4. Cardinality(At(s)) = Len(OnlyIn(s, S))
  BY <1>3 DEF Good
<1>5. DOMAIN s = 1 .. Len(s)
  BY LenProperties
<1>6. OnlyIn(s, S) \in Seq(T)
  BY OnlyInType
<1>7. QED BY <1>4, <1>5, <1>6, LenProperties

-----------------------------------------------------------------------------
(* The functions of the partial sums of f over 0 .. m - 1. *)
PartialSums(f, m) ==
  {g \in [0 .. m -> Nat] : /\ g[0] = 0
                           /\ \A k \in 1 .. m : g[k] = g[k - 1] + f[k - 1]}

LEMMA PartialSumsExist ==
  ASSUME NEW m \in Nat, NEW f \in [0 .. m - 1 -> Nat]
  PROVE  PartialSums(f, m) # {}
<1> DEFINE step == [p \in Nat \X (1 .. m) |-> p[1] + f[p[2] - 1]]
<1>1. \A n \in Nat, k \in 1 .. m : n + f[k - 1] \in Nat
  OBVIOUS
<1>2. step \in [Nat \X (1 .. m) -> Nat]
  BY <1>1
<1>3. \A n \in Nat, k \in 1 .. m : step[<<n, k>>] = n + f[k - 1]
  OBVIOUS
<1> HIDE DEF step
<1>4. PICK g : g \in Recursions(m, Nat, 0, step)
  <2>1. 0 \in Nat /\ m \in Nat
    OBVIOUS
  <2>2. Recursions(m, Nat, 0, step) # {}
    BY <1>2, <2>1, RecursionUpTo
  <2>3. QED BY <2>2, Zenon
<1>5. g \in [0 .. m -> Nat] /\ g[0] = 0
  BY <1>4 DEF Recursions
<1>6. \A k \in 1 .. m : g[k] = g[k - 1] + f[k - 1]
  <2>1. \A k \in 1 .. m : g[k] = step[<<g[k - 1], k>>] /\ g[k - 1] \in Nat
    BY <1>4, <1>5 DEF Recursions
  <2>2. QED BY <1>3, <2>1
<1>7. QED BY <1>5, <1>6 DEF PartialSums

LEMMA PartialSumsNext ==
  ASSUME NEW m \in Nat, NEW f, NEW g \in PartialSums(f, m), NEW n \in 0 .. m - 1
  PROVE  g[n] \in Nat /\ g[n + 1] = g[n] + f[n]
<1>1. n + 1 \in 1 .. m /\ n + 1 - 1 = n /\ n \in 0 .. m
  OBVIOUS
<1>2. g[n] \in Nat
  BY <1>1 DEF PartialSums
<1>3. \A k \in 1 .. m : g[k] = g[k - 1] + f[k - 1]
  BY DEF PartialSums
<1>4. g[n + 1] = g[n + 1 - 1] + f[n + 1 - 1]
  BY <1>1, <1>3
<1>5. QED BY <1>1, <1>2, <1>4

(* The sums of zeroes are zero. *)
LEMMA PartialSumsOfZeroes ==
  ASSUME NEW m \in Nat, NEW f, NEW g \in PartialSums(f, m),
         \A c \in 0 .. m - 1 : f[c] = 0
  PROVE  \A k \in 0 .. m : g[k] = 0
<1> DEFINE S == {k \in 0 .. m : g[k] = 0}
<1>1. 0 \in S
  BY DEF PartialSums
<1>2. ASSUME NEW n \in 0 .. m - 1, n \in S
      PROVE  n + 1 \in S
  <2>1. n + 1 \in 1 .. m /\ n + 1 - 1 = n /\ g[n] = 0 /\ f[n] = 0
    BY <1>2
  <2>2. g[n + 1] = 0 + 0
    BY <2>1, PartialSumsNext
  <2>3. QED BY <2>1, <2>2
<1> HIDE DEF S
<1>3. \A n \in 0 .. m : n \in S
  BY <1>1, <1>2, BoundedInduction
<1>4. QED BY <1>3 DEF S

(* When one term is one more, so are the sums that it is in. *)
LEMMA PartialSumsOneMore ==
  ASSUME NEW m \in Nat, NEW f \in [0 .. m - 1 -> Nat], NEW f1, NEW c \in 0 .. m - 1,
         f1[c] = f[c] + 1, \A d \in 0 .. m - 1 : d # c => f1[d] = f[d],
         NEW g \in PartialSums(f, m), NEW g1 \in PartialSums(f1, m)
  PROVE  g1[m] = g[m] + 1
<1> DEFINE S == {k \in 0 .. m : g1[k] = IF k <= c THEN g[k] ELSE g[k] + 1}
<1>1. 0 \in S
  BY DEF PartialSums
<1>2. ASSUME NEW n \in 0 .. m - 1, n \in S
      PROVE  n + 1 \in S
  <2>1. /\ n + 1 \in 1 .. m /\ n + 1 - 1 = n /\ n \in Nat /\ c \in Nat
        /\ g[n] \in Nat /\ f[n] \in Nat
    BY DEF PartialSums
  <2>2. g1[n] = IF n <= c THEN g[n] ELSE g[n] + 1
    BY <1>2
  <2>3. g[n + 1] = g[n] + f[n] /\ g1[n + 1] = g1[n] + f1[n]
    BY PartialSumsNext
  <2>4. g1[n + 1] = IF n + 1 <= c THEN g[n + 1] ELSE g[n + 1] + 1
    <3>1. CASE n < c
      BY <2>1, <2>2, <2>3, <3>1
    <3>2. CASE n = c
      BY <2>1, <2>2, <2>3, <3>2
    <3>3. CASE n > c
      BY <2>1, <2>2, <2>3, <3>3
    <3>4. QED BY <2>1, <3>1, <3>2, <3>3
  <2>5. QED BY <2>1, <2>4
<1> HIDE DEF S
<1>3. \A n \in 0 .. m : n \in S
  BY <1>1, <1>2, BoundedInduction
<1>4. m \in S /\ ~(m <= c)
  BY <1>3
<1>5. QED BY <1>4 DEF S

(* The sums of larger terms are larger, *)
LEMMA PartialSumsGrow ==
  ASSUME NEW m \in Nat, NEW f, NEW f1,
         \A d \in 0 .. m - 1 : f[d] \in Nat /\ f1[d] \in Nat /\ f[d] <= f1[d],
         NEW g \in PartialSums(f, m), NEW g1 \in PartialSums(f1, m)
  PROVE  g[m] <= g1[m]
<1> DEFINE S == {k \in 0 .. m : g[k] <= g1[k]}
<1>1. 0 \in S
  BY DEF PartialSums
<1>2. ASSUME NEW n \in 0 .. m - 1, n \in S
      PROVE  n + 1 \in S
  <2>1. /\ n + 1 \in 1 .. m /\ n + 1 - 1 = n
        /\ g[n] \in Nat /\ g1[n] \in Nat
    BY DEF PartialSums
  <2>2. g[n] <= g1[n] /\ f[n] \in Nat /\ f1[n] \in Nat /\ f[n] <= f1[n]
    BY <1>2
  <2>3. g[n + 1] = g[n] + f[n] /\ g1[n + 1] = g1[n] + f1[n]
    BY PartialSumsNext
  <2>4. QED BY <2>1, <2>2, <2>3
<1> HIDE DEF S
<1>3. \A n \in 0 .. m : n \in S
  BY <1>1, <1>2, BoundedInduction
<1>4. QED BY <1>3 DEF S

-----------------------------------------------------------------------------
(* FlattenSeq() of the community modules, one sequence at a time. *)
FlattenStep(seqs, T) == [p \in Seq(T) \X (1 .. Len(seqs)) |-> p[1] \o seqs[p[2]]]

Flattenings(seqs, T) == Recursions(Len(seqs), Seq(T), <<>>, FlattenStep(seqs, T))

LEMMA FlattenUnfolds ==
  ASSUME NEW T, NEW seqs \in Seq(Seq(T))
  PROVE  \E f \in Flattenings(seqs, T) : FlattenSeq(seqs) = f[Len(seqs)]
<1> DEFINE D == Seq(T)
           m == Len(seqs)
           step == FlattenStep(seqs, T)
           Upto(f) == f = [i \in 1 .. m |-> IF i = 1 THEN seqs[i] ELSE f[i - 1] \o seqs[i]]
           chosen == CHOOSE f : Upto(f)
<1>1. m \in Nat /\ <<>> \in D /\ \A k \in 1 .. m : seqs[k] \in D
  BY LenProperties, EmptySeq, ElementOfSeq
<1>2. step = [p \in D \X (1 .. m) |-> p[1] \o seqs[p[2]]]
  BY DEF FlattenStep
<1>3. FlattenSeq(seqs) = IF m = 0 THEN seqs ELSE chosen[m]
  BY DEF FlattenSeq
<1>4. m = 0 => seqs = <<>>
  BY EmptySeq
<1>5. \A s \in D, t \in D : s \o t \in D /\ <<>> \o t = t
  BY ConcatProperties, ConcatEmptySeq
<1> HIDE DEF D, m, step
<1>6. \A s \in D, k \in 1 .. m : s \o seqs[k] \in D /\ step[<<s, k>>] = s \o seqs[k]
  BY <1>1, <1>2, <1>5
<1>7. step \in [D \X (1 .. m) -> D]
  BY <1>2, <1>6
<1>8. PICK f : f \in Recursions(m, D, <<>>, step)
  BY <1>1, <1>7, RecursionUpTo
<1>9. f \in [0 .. m -> D] /\ f[0] = <<>>
  BY <1>8 DEF Recursions
<1>10. \A k \in 1 .. m : f[k] = f[k - 1] \o seqs[k]
  <2>1. \A k \in 1 .. m : f[k] = step[<<f[k - 1], k>>]
    BY <1>8 DEF Recursions
  <2>2. \A k \in 1 .. m : f[k - 1] \in D
    BY <1>1, <1>9
  <2>3. QED BY <1>6, <2>1, <2>2
<1>11. \A k \in 1 .. m : k = 1 => f[k] = seqs[k]
  BY <1>1, <1>5, <1>9, <1>10
<1> DEFINE g == [k \in 1 .. m |-> f[k]]
<1>12. Upto(g)
  <2>1. \A k \in 1 .. m : g[k] = IF k = 1 THEN seqs[k] ELSE g[k - 1] \o seqs[k]
    <3>1. \A k \in 1 .. m : k # 1 => k - 1 \in 1 .. m
      BY <1>1
    <3>2. QED BY <1>10, <1>11, <3>1
  <2> HIDE DEF g
  <2>2. g = [k \in 1 .. m |-> g[k]]
    BY DEF g
  <2>3. QED BY <2>1, <2>2
<1>13. Upto(chosen)
  <2> HIDE DEF Upto, g
  <2>1. QED BY <1>12
<1> HIDE DEF chosen, g
<1> DEFINE S == {k \in 0 .. m : k >= 1 => chosen[k] = f[k]}
<1>14. 0 \in S
  BY <1>1
<1>15. ASSUME NEW n \in 0 .. m - 1, n \in S
       PROVE  n + 1 \in S
  <2>1. \A k \in 1 .. m : chosen[k] = IF k = 1 THEN seqs[k] ELSE chosen[k - 1] \o seqs[k]
    BY <1>13
  <2>2. n + 1 \in 1 .. m /\ n + 1 \in 0 .. m
    BY <1>1
  <2>3. CASE n = 0
    <3>1. chosen[1] = seqs[1] /\ f[1] = seqs[1]
      BY <1>11, <2>1, <2>2, <2>3
    <3>2. QED BY <2>2, <2>3, <3>1
  <2>4. CASE n >= 1
    <3>1. chosen[n] = f[n]
      BY <1>15, <2>4
    <3>2. ASSUME NEW k \in 1 .. m, k = n + 1
          PROVE  chosen[k] = f[k]
      <4>1. k - 1 = n /\ k # 1
        BY <2>4, <3>2
      <4>2. chosen[k] = chosen[k - 1] \o seqs[k] /\ f[k] = f[k - 1] \o seqs[k]
        BY <1>10, <2>1, <4>1
      <4>3. QED BY <3>1, <4>1, <4>2
    <3>3. QED BY <2>2, <3>2
  <2>5. QED BY <2>3, <2>4
<1> HIDE DEF S
<1>16. \A n \in 0 .. m : n \in S
  BY <1>1, <1>14, <1>15, BoundedInduction
<1>17. m >= 1 => chosen[m] = f[m]
  <2>1. m \in 0 .. m
    BY <1>1
  <2>2. QED BY <1>16, <2>1 DEF S
<1>18. FlattenSeq(seqs) = f[m]
  BY <1>1, <1>3, <1>4, <1>9, <1>17
<1>19. QED BY <1>8, <1>18 DEF Flattenings, D, m, step

LEMMA FlattenEmpty == FlattenSeq(<<>>) = <<>>
  BY DEF FlattenSeq

LEMMA FlattenAppend ==
  ASSUME NEW T, NEW seqs \in Seq(Seq(T)), NEW s \in Seq(T)
  PROVE  /\ FlattenSeq(seqs) \in Seq(T)
         /\ FlattenSeq(Append(seqs, s)) = FlattenSeq(seqs) \o s
<1> DEFINE more == Append(seqs, s)
           m == Len(seqs)
           n == Len(more)
           step == FlattenStep(seqs, T)
           stepMore == FlattenStep(more, T)
<1>1. /\ more \in Seq(Seq(T)) /\ n = m + 1 /\ m \in Nat /\ n \in Nat
      /\ \A i \in 1 .. m : more[i] = seqs[i]
      /\ more[n] = s
  BY AppendProperties, LenProperties
<1> HIDE DEF more
<1>2. PICK f \in Flattenings(seqs, T) : FlattenSeq(seqs) = f[m]
  BY FlattenUnfolds
<1>3. PICK g \in Flattenings(more, T) : FlattenSeq(more) = g[n]
  BY <1>1, FlattenUnfolds
<1>4. f \in Recursions(m, Seq(T), <<>>, step) /\ g \in Recursions(n, Seq(T), <<>>, stepMore)
  BY DEF Flattenings
<1>5. SameSteps(step, stepMore, m, Seq(T))
  BY <1>1 DEF FlattenStep, SameSteps
<1>6. \A t \in Seq(T) : stepMore[<<t, n>>] = t \o s
  <2>1. stepMore = [p \in Seq(T) \X (1 .. n) |-> p[1] \o more[p[2]]]
    BY <1>1 DEF FlattenStep
  <2>2. more[n] = s /\ n \in 1 .. n
    BY <1>1
  <2> HIDE DEF n, stepMore
  <2>3. QED BY <2>1, <2>2
<1> HIDE DEF m, n, step, stepMore
<1>7. f[m] \in Seq(T) /\ g[n] = stepMore[<<f[m], n>>]
  BY <1>1, <1>4, <1>5, RecursionExtends
<1>8. QED BY <1>2, <1>3, <1>6, <1>7 DEF more

(* The elements of a concatenation are those of the sequences in it. *)
LEMMA FlattenElements ==
  ASSUME NEW T, NEW seqs \in Seq(Seq(T))
  PROVE  ToSet(FlattenSeq(seqs)) = UNION {ToSet(s) : s \in ToSet(seqs)}
<1> DEFINE All(ss) == UNION {ToSet(s) : s \in ToSet(ss)}
           Good == {ss \in Seq(Seq(T)) : ToSet(FlattenSeq(ss)) = All(ss)}
<1>1. <<>> \in Good
  <2>1. ToSet(<<>>) = {} /\ <<>> \in Seq(Seq(T))
    BY NoElement
  <2>2. QED BY <2>1, FlattenEmpty
<1>2. ASSUME NEW ss \in Seq(Seq(T)), NEW s \in Seq(T), ss \in Good
      PROVE  Append(ss, s) \in Good
  <2> DEFINE flat == FlattenSeq(ss)
             more == Append(ss, s)
  <2>1. flat \in Seq(T) /\ FlattenSeq(more) = flat \o s /\ more \in Seq(Seq(T))
    BY FlattenAppend, AppendProperties
  <2>2. ToSet(flat) = All(ss)
    BY <1>2
  <2>3. ToSet(more) = ToSet(ss) \cup {s}
    BY ToSetAppend
  <2> HIDE DEF flat, more
  <2>4. ToSet(FlattenSeq(more)) = ToSet(flat) \cup ToSet(s)
    BY <2>1, ToSetConcat
  <2>5. All(more) = All(ss) \cup ToSet(s)
    BY <2>3
  <2>6. more \in Good
    BY <2>1, <2>2, <2>4, <2>5
  <2>7. QED BY <2>6 DEF more
<1> HIDE DEF Good
<1>3. seqs \in Good
  BY <1>1, <1>2, SeqSetInduction
<1>4. QED BY <1>3 DEF Good

-----------------------------------------------------------------------------
(* Places, sequences and functions. *)

(* A function over 1 .. n is a sequence of n elements. *)
LEMMA SeqOfFunction ==
  ASSUME NEW n \in Nat, NEW S, NEW f \in [1 .. n -> S]
  PROVE  f \in Seq(S) /\ Len(f) = n
<1>1. f \in Seq(S)
  BY SeqDef
<1>2. QED BY <1>1, LenProperties

(* A set of places has a last one, *)
LEMMA HighestPlace ==
  ASSUME NEW n \in Nat, NEW P \in SUBSET (1 .. n), P # {}
  PROVE  \E i \in P : \A j \in P : j <= i
<1> DEFINE S == {k \in Nat : \A Q \in SUBSET (1 .. k) : Q # {} => \E i \in Q : \A j \in Q : j <= i}
<1>1. 0 \in S
  <2>1. 1 .. 0 = {}
    OBVIOUS
  <2>2. \A Q \in SUBSET (1 .. 0) : Q = {}
    BY <2>1
  <2>3. QED BY <2>2
<1>2. ASSUME NEW k \in S PROVE k + 1 \in S
  <2> SUFFICES ASSUME NEW Q \in SUBSET (1 .. k + 1), Q # {}
               PROVE  \E i \in Q : \A j \in Q : j <= i
    BY <1>2
  <2>1. CASE k + 1 \in Q
    BY <2>1
  <2>2. CASE k + 1 \notin Q
    <3>1. Q \in SUBSET (1 .. k)
      BY <2>2
    <3>2. QED BY <1>2, <3>1
  <2>3. QED BY <2>1, <2>2
<1>3. S \in SUBSET Nat
  OBVIOUS
<1> HIDE DEF S
<1>4. n \in S
  BY <1>1, <1>2, <1>3, NatSetInduction
<1>5. QED BY <1>4 DEF S

(* and a first one. *)
LEMMA LowestPlace ==
  ASSUME NEW n \in Nat, NEW P \in SUBSET (1 .. n), P # {}
  PROVE  \E i \in P : \A j \in P : i <= j
<1> DEFINE Q == {n + 1 - i : i \in P}
<1>1. Q \in SUBSET (1 .. n) /\ Q # {}
  <2>1. \A i \in P : n + 1 - i \in 1 .. n
    OBVIOUS
  <2>2. QED BY <2>1
<1>2. PICK q \in Q : \A j \in Q : j <= q
  <2> HIDE DEF Q
  <2>1. QED BY <1>1, HighestPlace
<1>3. PICK i \in P : q = n + 1 - i
  BY <1>2
<1>4. ASSUME NEW j \in P PROVE i <= j
  <2>1. n + 1 - j \in Q
    OBVIOUS
  <2>2. n + 1 - j <= n + 1 - i
    BY <1>2, <1>3, <2>1
  <2>3. QED BY <2>2
<1>5. QED BY <1>4

(* There are finitely many points when there are finitely many coordinates. *)
LEMMA FinitelyManyFunctions ==
  ASSUME NEW n \in Nat, NEW C, IsFiniteSet(C)
  PROVE  IsFiniteSet([1 .. n -> C])
<1> DEFINE F == [1 .. n -> C]
           pairs == SUBSET ((1 .. n) \X C)
           graph == [f \in F |-> {<<i, f[i]>> : i \in 1 .. n}]
<1>1. IsFiniteSet(pairs)
  <2>1. IsFiniteSet(1 .. n)
    BY FS_Interval
  <2>2. IsFiniteSet((1 .. n) \X C)
    BY <2>1, FS_Product
  <2>3. QED BY <2>2, FS_SUBSET
<1>2. graph \in [F -> pairs]
  OBVIOUS
<1>3. ASSUME NEW f \in F, NEW g \in F, graph[f] = graph[g] PROVE f = g
  <2>1. \A i \in 1 .. n : f[i] = g[i]
    <3> TAKE i \in 1 .. n
    <3>1. <<i, f[i]>> \in {<<j, g[j]>> : j \in 1 .. n}
      BY <1>3
    <3>2. QED BY <3>1
  <2>2. QED BY <2>1
<1>4. graph \in Injection(F, pairs)
  BY <1>2, <1>3 DEF Injection, IsInjective
<1> HIDE DEF graph, pairs, F
<1>5. IsFiniteSet(F)
  BY <1>1, <1>4, FS_Injection
<1>6. QED BY <1>5 DEF F

(* No element is repeated exactly when there are as many as places. *)
LEMMA ToSetOfInjective ==
  ASSUME NEW T, NEW seq \in Seq(T)
  PROVE  /\ IsFiniteSet(ToSet(seq))
         /\ IsInjective(seq) <=> Cardinality(ToSet(seq)) = Len(seq)
<1> DEFINE n == Len(seq)
           S == ToSet(seq)
<1>1. n \in Nat /\ DOMAIN seq = 1 .. n /\ seq \in [1 .. n -> T]
  BY LenProperties
<1>2. seq \in Surjection(1 .. n, S)
  BY <1>1 DEF ToSet, Surjection
<1>3. IsFiniteSet(1 .. n) /\ Cardinality(1 .. n) = n
  BY <1>1, FS_Interval
<1> HIDE DEF n, S
<1>4. IsFiniteSet(S) /\ (Cardinality(S) = n <=> seq \in Injection(1 .. n, S))
  BY <1>2, <1>3, FS_Surjection
<1>5. seq \in Injection(1 .. n, S) <=> IsInjective(seq)
  BY <1>2 DEF Injection, Surjection
<1>6. QED BY <1>4, <1>5 DEF n, S

(* The first of the largest of some numbers. *)
LEMMA FirstLargest ==
  ASSUME NEW n \in Nat \ {0}, NEW f \in [1 .. n -> Nat]
  PROVE  \E a \in 1 .. n : \A o \in 1 .. n : IF o < a THEN f[o] < f[a] ELSE f[o] <= f[a]
<1> DEFINE Best(k) == \E a \in 1 .. k : \A o \in 1 .. k : IF o < a THEN f[o] < f[a] ELSE f[o] <= f[a]
           S == {k \in 0 .. n : k >= 1 => Best(k)}
<1>1. 0 \in S
  OBVIOUS
<1>2. ASSUME NEW k \in 0 .. n - 1, k \in S PROVE k + 1 \in S
  <2> DEFINE m == k + 1
  <2>1. m \in 1 .. n /\ m \in 0 .. n /\ k \in Nat
        /\ \A o : o \in 1 .. m <=> o \in 1 .. k \/ o = m
    OBVIOUS
  <2>2. CASE k = 0
    <3>1. Best(1)
      OBVIOUS
    <3>2. QED BY <2>1, <2>2, <3>1
  <2>3. CASE k >= 1
    <3>1. PICK a \in 1 .. k : \A o \in 1 .. k : IF o < a THEN f[o] < f[a] ELSE f[o] <= f[a]
      BY <1>2, <2>3
    <3>2. \A o \in 1 .. k : o \in 1 .. n /\ o < m /\ f[o] \in Nat /\ f[o] <= f[a]
      BY <2>1, <3>1
    <3>3. f[a] \in Nat /\ f[m] \in Nat /\ a < m /\ a \in 1 .. m /\ m \in 1 .. m
      BY <2>1, <3>2
    <3>4. CASE f[m] > f[a]
      <4>1. \A o \in 1 .. m : IF o < m THEN f[o] < f[m] ELSE f[o] <= f[m]
        BY <2>1, <3>2, <3>3, <3>4
      <4>2. QED BY <2>1, <3>3, <4>1
    <3>5. CASE f[m] <= f[a]
      <4>1. \A o \in 1 .. m : IF o < a THEN f[o] < f[a] ELSE f[o] <= f[a]
        BY <2>1, <3>1, <3>2, <3>3, <3>5
      <4>2. QED BY <2>1, <3>3, <4>1
    <3>6. QED BY <3>3, <3>4, <3>5
  <2>4. QED BY <2>1, <2>2, <2>3
<1>3. \A k \in 0 .. n : k \in S
  <2> HIDE DEF S
  <2>1. QED BY <1>1, <1>2, BoundedInduction
<1>4. n \in S
  <2> HIDE DEF S
  <2>1. QED BY <1>3
<1>5. QED BY <1>4

-----------------------------------------------------------------------------
(* Division. *)

(* Multiplying by a number that is not negative keeps the order. *)
LEMMA TimesLarger ==
  ASSUME NEW c \in Nat, NEW a \in Int, NEW b \in Int, a <= b
  PROVE  c * a \in Int /\ c * b \in Int /\ c * a <= c * b
<1> DEFINE S == {k \in Nat : k * a \in Int /\ k * b \in Int /\ k * a <= k * b}
<1>1. 0 \in S
  OBVIOUS
<1>2. ASSUME NEW k \in S PROVE k + 1 \in S
  <2>1. (k + 1) * a = k * a + a /\ (k + 1) * b = k * b + b
    OBVIOUS
  <2>2. QED BY <2>1
<1>3. S \in SUBSET Nat
  OBVIOUS
<1> HIDE DEF S
<1>4. c \in S
  BY <1>1, <1>2, <1>3, NatSetInduction
<1>5. QED BY <1>4 DEF S

(* A number is the quotient times the divisor and the remainder, *)
LEMMA DivMod ==
  ASSUME NEW a \in Int, NEW c \in Nat \ {0}
  PROVE  a \div c \in Int /\ a % c \in 0 .. c - 1 /\ a = (c * (a \div c)) + (a % c)
OBVIOUS

(* and no other numbers are. *)
LEMMA DivModUnique ==
  ASSUME NEW a \in Int, NEW c \in Nat \ {0}, NEW q \in Int, NEW r \in 0 .. c - 1, a = c * q + r
  PROVE  a \div c = q /\ a % c = r
<1> DEFINE p == a \div c
           s == a % c
<1>1. p \in Int /\ s \in 0 .. c - 1 /\ a = c * p + s
  BY DivMod
<1> HIDE DEF p, s
<1>2. ASSUME p > q PROVE FALSE
  <2>1. c * (q + 1) <= c * p /\ c * (q + 1) \in Int /\ c * p \in Int
    BY <1>1, <1>2, TimesLarger
  <2>2. c * (q + 1) = c * q + c /\ c * q \in Int
    OBVIOUS
  <2>3. QED BY <1>1, <2>1, <2>2
<1>3. ASSUME q > p PROVE FALSE
  <2>1. c * (p + 1) <= c * q /\ c * (p + 1) \in Int /\ c * q \in Int
    BY <1>1, <1>3, TimesLarger
  <2>2. c * (p + 1) = c * p + c /\ c * p \in Int
    BY <1>1
  <2>3. QED BY <1>1, <2>1, <2>2
<1>4. p = q
  BY <1>1, <1>2, <1>3
<1>5. s = r
  BY <1>1, <1>4
<1>6. QED BY <1>4, <1>5 DEF p, s

(* The remainder by a product of two, in two steps. *)
LEMMA ModStep ==
  ASSUME NEW a \in Nat, NEW c \in Nat \ {0}, NEW s \in Nat \ {0}
  PROVE  c * s \in Nat \ {0} /\ a % (c * s) = (a % c) + (((a \div c) % s) * c)
<1> DEFINE q == a \div c
           r == a % c
           q2 == q \div s
           r2 == q % s
           cs == c * s
<1>1. q \in Int /\ r \in 0 .. c - 1 /\ a = c * q + r
  BY DivMod
<1> HIDE DEF q, r
<1>2. q2 \in Int /\ r2 \in 0 .. s - 1 /\ q = s * q2 + r2
  BY <1>1, DivMod
<1> HIDE DEF q2, r2
<1>3. cs \in Nat \ {0}
  <2>1. c * 1 <= c * s /\ c * s \in Int
    BY TimesLarger
  <2>2. c * 1 = c
    OBVIOUS
  <2>3. QED BY <2>1, <2>2
<1>4. c * r2 + r \in 0 .. cs - 1
  <2>1. c * 0 <= c * r2 /\ c * r2 <= c * (s - 1) /\ c * r2 \in Int /\ c * (s - 1) \in Int
    BY <1>2, TimesLarger
  <2>2. c * 0 = 0 /\ c * (s - 1) = cs - c
    OBVIOUS
  <2> HIDE DEF cs
  <2>3. QED BY <1>1, <1>3, <2>1, <2>2
<1>5. a = cs * q2 + (c * r2 + r)
  <2>1. c * (s * q2 + r2) = c * (s * q2) + c * r2
    BY <1>2
  <2>2. c * (s * q2) = cs * q2
    BY <1>2
  <2>3. cs * q2 \in Int /\ c * r2 \in Int
    BY <1>2
  <2> HIDE DEF cs
  <2>4. QED BY <1>1, <1>2, <2>1, <2>2, <2>3
<1> HIDE DEF cs
<1>6. a % cs = c * r2 + r
  <2> DEFINE y == c * r2 + r
  <2>1. y \in 0 .. cs - 1 /\ a = cs * q2 + y
    BY <1>4, <1>5
  <2> HIDE DEF y
  <2>2. a % cs = y
    BY <1>2, <1>3, <2>1, DivModUnique
  <2>3. QED BY <2>2 DEF y
<1>7. c * r2 + r = r + r2 * c
  BY <1>1, <1>2
<1>8. QED BY <1>3, <1>6, <1>7 DEF cs, q, r, r2

-----------------------------------------------------------------------------
(* What SumTo() and ProductTo() are: the last value of a recursion. *)
SumStep(f, n) == [p \in Int \X (1 .. n) |-> p[1] + f[p[2]]]
ProductStep(f, n) == [p \in Int \X (1 .. n) |-> p[1] * f[p[2]]]

(* Both are computed by steps from the first term to the last. *)
LEMMA SumUnfolds ==
  ASSUME NEW n \in Nat, NEW f, \A k \in 1 .. n : f[k] \in Int
  PROVE  \E g \in Recursions(n, Int, 0, SumStep(f, n)) : SumTo(f, n) = g[n]
<1> DEFINE Upto(g) == g = [k \in 0 .. n |-> IF k = 0 THEN 0 ELSE g[k - 1] + f[k]]
           step == SumStep(f, n)
           chosen == CHOOSE g : Upto(g)
<1>1. step \in [Int \X (1 .. n) -> Int] /\ \A s \in Int, k \in 1 .. n : step[<<s, k>>] = s + f[k]
  BY DEF SumStep
<1>2. SumTo(f, n) = chosen[n]
  BY DEF SumTo
<1> HIDE DEF step
<1>3. PICK g : g \in Recursions(n, Int, 0, step)
  <2>1. 0 \in Int
    OBVIOUS
  <2>2. Recursions(n, Int, 0, step) # {}
    BY <1>1, <2>1, RecursionUpTo
  <2>3. QED BY <2>2, Zenon
<1>4. g \in [0 .. n -> Int] /\ g[0] = 0 /\ \A k \in 1 .. n : g[k] = step[<<g[k - 1], k>>]
  BY <1>3 DEF Recursions
<1>5. Upto(g)
  <2>1. \A k \in 1 .. n : g[k - 1] \in Int /\ g[k] = step[<<g[k - 1], k>>]
    BY <1>4
  <2>2. \A k \in 1 .. n : g[k] = g[k - 1] + f[k]
    BY <1>1, <2>1
  <2>4. \A k \in 0 .. n : g[k] = IF k = 0 THEN 0 ELSE g[k - 1] + f[k]
    BY <1>4, <2>2
  <2>3. g = [k \in 0 .. n |-> g[k]]
    BY <1>4
  <2>5. QED BY <2>4, <2>3
<1>6. Upto(chosen)
  <2> HIDE DEF Upto
  <2>1. QED BY <1>5
<1> HIDE DEF chosen
<1> DEFINE S == {k \in 0 .. n : chosen[k] = g[k]}
<1>7. 0 \in S
  BY <1>4, <1>6
<1>8. ASSUME NEW k \in 0 .. n - 1, k \in S PROVE k + 1 \in S
  <2>1. \A j \in 0 .. n : chosen[j] = IF j = 0 THEN 0 ELSE chosen[j - 1] + f[j]
    BY <1>6
  <2>2. k + 1 \in 1 .. n /\ k + 1 - 1 = k /\ g[k] \in Int /\ k + 1 # 0
    BY <1>4
  <2>3. chosen[k + 1] = chosen[k] + f[k + 1]
    BY <2>1, <2>2
  <2>4. g[k + 1] = g[k] + f[k + 1]
    <3>1. g[k + 1] = step[<<g[k + 1 - 1], k + 1>>]
      BY <1>4, <2>2
    <3>2. QED BY <1>1, <2>2, <3>1
  <2>5. QED BY <1>8, <2>2, <2>3, <2>4
<1> HIDE DEF S
<1>9. n \in S
  BY <1>7, <1>8, BoundedInduction
<1>10. QED BY <1>2, <1>3, <1>9 DEF S, step

LEMMA ProductUnfolds ==
  ASSUME NEW n \in Nat, NEW f, \A k \in 1 .. n : f[k] \in Int
  PROVE  \E g \in Recursions(n, Int, 1, ProductStep(f, n)) : ProductTo(f, n) = g[n]
<1> DEFINE Upto(g) == g = [k \in 0 .. n |-> IF k = 0 THEN 1 ELSE g[k - 1] * f[k]]
           step == ProductStep(f, n)
           chosen == CHOOSE g : Upto(g)
<1>1. step \in [Int \X (1 .. n) -> Int] /\ \A s \in Int, k \in 1 .. n : step[<<s, k>>] = s * f[k]
  BY DEF ProductStep
<1>2. ProductTo(f, n) = chosen[n]
  BY DEF ProductTo
<1> HIDE DEF step
<1>3. PICK g : g \in Recursions(n, Int, 1, step)
  <2>1. 1 \in Int
    OBVIOUS
  <2>2. Recursions(n, Int, 1, step) # {}
    BY <1>1, <2>1, RecursionUpTo
  <2>3. QED BY <2>2, Zenon
<1>4. g \in [0 .. n -> Int] /\ g[0] = 1 /\ \A k \in 1 .. n : g[k] = step[<<g[k - 1], k>>]
  BY <1>3 DEF Recursions
<1>5. Upto(g)
  <2>1. \A k \in 1 .. n : g[k - 1] \in Int /\ g[k] = step[<<g[k - 1], k>>]
    BY <1>4
  <2>2. \A k \in 1 .. n : g[k] = g[k - 1] * f[k]
    BY <1>1, <2>1
  <2>4. \A k \in 0 .. n : g[k] = IF k = 0 THEN 1 ELSE g[k - 1] * f[k]
    BY <1>4, <2>2
  <2>3. g = [k \in 0 .. n |-> g[k]]
    BY <1>4
  <2>5. QED BY <2>4, <2>3
<1>6. Upto(chosen)
  <2> HIDE DEF Upto
  <2>1. QED BY <1>5
<1> HIDE DEF chosen
<1> DEFINE S == {k \in 0 .. n : chosen[k] = g[k]}
<1>7. 0 \in S
  BY <1>4, <1>6
<1>8. ASSUME NEW k \in 0 .. n - 1, k \in S PROVE k + 1 \in S
  <2>1. \A j \in 0 .. n : chosen[j] = IF j = 0 THEN 1 ELSE chosen[j - 1] * f[j]
    BY <1>6
  <2>2. k + 1 \in 1 .. n /\ k + 1 - 1 = k /\ g[k] \in Int /\ k + 1 # 0
    BY <1>4
  <2>3. chosen[k + 1] = chosen[k] * f[k + 1]
    BY <2>1, <2>2
  <2>4. g[k + 1] = g[k] * f[k + 1]
    <3>1. g[k + 1] = step[<<g[k + 1 - 1], k + 1>>]
      BY <1>4, <2>2
    <3>2. QED BY <1>1, <2>2, <3>1
  <2>5. QED BY <1>8, <2>2, <2>3, <2>4
<1> HIDE DEF S
<1>9. n \in S
  BY <1>7, <1>8, BoundedInduction
<1>10. QED BY <1>2, <1>3, <1>9 DEF S, step

(* What they are for no terms, and for one term more. *)
LEMMA SumOfNone == ASSUME NEW f PROVE SumTo(f, 0) = 0
<1>1. PICK g \in Recursions(0, Int, 0, SumStep(f, 0)) : SumTo(f, 0) = g[0]
  BY SumUnfolds
<1>2. QED BY <1>1 DEF Recursions

LEMMA ProductOfNone == ASSUME NEW f PROVE ProductTo(f, 0) = 1
<1>1. PICK g \in Recursions(0, Int, 1, ProductStep(f, 0)) : ProductTo(f, 0) = g[0]
  BY ProductUnfolds
<1>2. QED BY <1>1 DEF Recursions

LEMMA SumNext ==
  ASSUME NEW n \in Nat, NEW f, \A k \in 1 .. n + 1 : f[k] \in Int
  PROVE  SumTo(f, n) \in Int /\ SumTo(f, n + 1) = SumTo(f, n) + f[n + 1]
<1>1. PICK g \in Recursions(n, Int, 0, SumStep(f, n)) : SumTo(f, n) = g[n]
  BY SumUnfolds
<1>2. PICK h \in Recursions(n + 1, Int, 0, SumStep(f, n + 1)) : SumTo(f, n + 1) = h[n + 1]
  BY SumUnfolds
<1>3. SameSteps(SumStep(f, n), SumStep(f, n + 1), n, Int)
  BY DEF SameSteps, SumStep
<1>4. g[n] \in Int /\ h[n + 1] = SumStep(f, n + 1)[<<g[n], n + 1>>]
  BY <1>3, RecursionExtends
<1>5. QED BY <1>1, <1>2, <1>4 DEF SumStep

LEMMA ProductNext ==
  ASSUME NEW n \in Nat, NEW f, \A k \in 1 .. n + 1 : f[k] \in Int
  PROVE  ProductTo(f, n) \in Int /\ ProductTo(f, n + 1) = ProductTo(f, n) * f[n + 1]
<1>1. PICK g \in Recursions(n, Int, 1, ProductStep(f, n)) : ProductTo(f, n) = g[n]
  BY ProductUnfolds
<1>2. PICK h \in Recursions(n + 1, Int, 1, ProductStep(f, n + 1)) : ProductTo(f, n + 1) = h[n + 1]
  BY ProductUnfolds
<1>3. SameSteps(ProductStep(f, n), ProductStep(f, n + 1), n, Int)
  BY DEF SameSteps, ProductStep
<1>4. g[n] \in Int /\ h[n + 1] = ProductStep(f, n + 1)[<<g[n], n + 1>>]
  BY <1>3, RecursionExtends
<1>5. QED BY <1>1, <1>2, <1>4 DEF ProductStep

(* The sum of integers is one. *)
LEMMA SumType ==
  ASSUME NEW n \in Nat, NEW f, \A k \in 1 .. n : f[k] \in Int
  PROVE  SumTo(f, n) \in Int
<1>1. PICK g \in Recursions(n, Int, 0, SumStep(f, n)) : SumTo(f, n) = g[n]
  BY SumUnfolds
<1>2. QED BY <1>1 DEF Recursions

(* The terms decide. *)
LEMMA SumSame ==
  ASSUME NEW n \in Nat, NEW f, NEW g, \A k \in 1 .. n : f[k] \in Int /\ g[k] = f[k]
  PROVE  SumTo(g, n) = SumTo(f, n)
<1> DEFINE S == {k \in 0 .. n : SumTo(g, k) = SumTo(f, k)}
<1>1. 0 \in S
  BY SumOfNone
<1>2. ASSUME NEW k \in 0 .. n - 1, k \in S PROVE k + 1 \in S
  <2>1. k \in Nat /\ k + 1 \in 1 .. n /\ \A j \in 1 .. k + 1 : f[j] \in Int /\ g[j] \in Int
    OBVIOUS
  <2>2. SumTo(g, k + 1) = SumTo(g, k) + g[k + 1] /\ SumTo(f, k + 1) = SumTo(f, k) + f[k + 1]
    BY <2>1, SumNext
  <2>3. QED BY <1>2, <2>1, <2>2
<1> HIDE DEF S
<1>3. n \in S
  BY <1>1, <1>2, BoundedInduction
<1>4. QED BY <1>3 DEF S

(* Terms that combine those of two sums have the combination as their sum. *)
Combines(S, h, a, f, b, g) ==
  \A k \in S : f[k] \in Int /\ g[k] \in Int /\ h[k] = a * f[k] + b * g[k]

LEMMA SumLinear ==
  ASSUME NEW n \in Nat, NEW f, NEW g, NEW h, NEW a \in Int, NEW b \in Int,
         Combines(1 .. n, h, a, f, b, g)
  PROVE  SumTo(h, n) = a * SumTo(f, n) + b * SumTo(g, n)
<1> DEFINE S == {k \in 0 .. n : SumTo(h, k) = a * SumTo(f, k) + b * SumTo(g, k)}
<1>1. 0 \in S
  BY SumOfNone
<1>2. ASSUME NEW k \in 0 .. n - 1, k \in S PROVE k + 1 \in S
  <2>1. /\ k \in Nat /\ k + 1 \in 1 .. n
        /\ \A j \in 1 .. k + 1 : f[j] \in Int /\ g[j] \in Int /\ h[j] \in Int
    BY DEF Combines
  <2>2. /\ SumTo(g, k + 1) = SumTo(g, k) + g[k + 1] /\ SumTo(f, k + 1) = SumTo(f, k) + f[k + 1]
        /\ SumTo(h, k + 1) = SumTo(h, k) + h[k + 1]
        /\ SumTo(f, k) \in Int /\ SumTo(g, k) \in Int /\ SumTo(h, k) \in Int
    BY <2>1, SumNext
  <2> DEFINE sf == SumTo(f, k)
             sg == SumTo(g, k)
             sh == SumTo(h, k)
  <2>3. SumTo(h, k + 1) = a * SumTo(f, k + 1) + b * SumTo(g, k + 1)
    <3>1. sh = a * sf + b * sg /\ sf \in Int /\ sg \in Int /\ sh \in Int
      BY <1>2, <2>2
    <3>2. h[k + 1] = a * f[k + 1] + b * g[k + 1] /\ f[k + 1] \in Int /\ g[k + 1] \in Int
      BY <2>1 DEF Combines
    <3>3. SumTo(h, k + 1) = sh + h[k + 1] /\ SumTo(f, k + 1) = sf + f[k + 1]
          /\ SumTo(g, k + 1) = sg + g[k + 1]
      BY <2>2
    <3> HIDE DEF sf, sg, sh
    <3>4. QED BY <3>1, <3>2, <3>3
  <2>4. QED BY <2>1, <2>3
<1> HIDE DEF S
<1>3. \A k \in 0 .. n : k \in S
  BY <1>1, <1>2, BoundedInduction
<1>4. n \in 0 .. n
  OBVIOUS
<1>5. QED BY <1>3, <1>4 DEF S

(* The sum over the elements of a sequence, each counting for what a       *)
(* function gives it.                                                      *)
SumOf(seq, g) == SumTo([k \in DOMAIN seq |-> g[seq[k]]], Len(seq))

(* It is a number, for no elements it is zero, and it grows with the       *)
(* sequence by what is appended to it.                                     *)
LEMMA SumOfType ==
  ASSUME NEW T, NEW seq \in Seq(T), NEW g \in [T -> Int]
  PROVE  SumOf(seq, g) \in Int
<1>1. Len(seq) \in Nat /\ DOMAIN seq = 1 .. Len(seq) /\ \A k \in 1 .. Len(seq) : seq[k] \in T
  BY LenProperties, ElementOfSeq
<1>2. \A k \in 1 .. Len(seq) : [j \in DOMAIN seq |-> g[seq[j]]][k] \in Int
  BY <1>1
<1>3. QED BY <1>1, <1>2, SumType DEF SumOf

LEMMA SumOfEmpty == ASSUME NEW g PROVE SumOf(<<>>, g) = 0
<1>1. Len(<<>>) = 0
  OBVIOUS
<1>2. QED BY <1>1, SumOfNone DEF SumOf

LEMMA SumOfAppend ==
  ASSUME NEW T, NEW seq \in Seq(T), NEW e \in T, NEW g \in [T -> Int]
  PROVE  SumOf(Append(seq, e), g) = SumOf(seq, g) + g[e]
<1> DEFINE n == Len(seq)
           more == Append(seq, e)
           f == [k \in DOMAIN seq |-> g[seq[k]]]
           h == [k \in DOMAIN more |-> g[more[k]]]
<1>1. /\ n \in Nat /\ Len(more) = n + 1 /\ DOMAIN seq = 1 .. n /\ DOMAIN more = 1 .. n + 1
      /\ \A k \in 1 .. n : more[k] = seq[k] /\ seq[k] \in T
      /\ more[n + 1] = e
  BY LenProperties, ElementOfSeq, AppendProperties
<1> HIDE DEF more, n
<1>2. \A k \in 1 .. n + 1 : h[k] \in Int
  BY <1>1
<1>3. \A k \in 1 .. n : f[k] \in Int /\ h[k] = f[k]
  BY <1>1
<1>4. h[n + 1] = g[e]
  BY <1>1
<1> HIDE DEF f, h
<1>5. SumTo(h, n + 1) = SumTo(h, n) + h[n + 1]
  BY <1>1, <1>2, SumNext
<1>6. SumTo(h, n) = SumTo(f, n)
  BY <1>1, <1>3, SumSame
<1>7. QED BY <1>1, <1>4, <1>5, <1>6 DEF SumOf, f, h, more, n

LEMMA SumOfConcat ==
  ASSUME NEW T, NEW s \in Seq(T), NEW t \in Seq(T), NEW g \in [T -> Int]
  PROVE  SumOf(s \o t, g) = SumOf(s, g) + SumOf(t, g)
<1> DEFINE Good == {u \in Seq(T) : SumOf(s \o u, g) = SumOf(s, g) + SumOf(u, g)}
<1>1. <<>> \in Good
  <2>1. <<>> \in Seq(T) /\ s \o <<>> = s /\ SumOf(s, g) \in Int
    BY EmptySeq, ConcatEmptySeq, SumOfType
  <2>2. QED BY <2>1, SumOfEmpty
<1>2. ASSUME NEW u \in Seq(T), NEW e \in T, u \in Good
      PROVE  Append(u, e) \in Good
  <2>1. s \o u \in Seq(T) /\ s \o Append(u, e) = Append(s \o u, e) /\ Append(u, e) \in Seq(T)
    BY ConcatAppend, ConcatProperties, AppendProperties
  <2>2. SumOf(Append(s \o u, e), g) = SumOf(s \o u, g) + g[e]
    BY <2>1, SumOfAppend
  <2>3. SumOf(Append(u, e), g) = SumOf(u, g) + g[e]
    BY SumOfAppend
  <2>4. SumOf(s \o u, g) = SumOf(s, g) + SumOf(u, g)
    BY <1>2
  <2>5. SumOf(s, g) \in Int /\ SumOf(u, g) \in Int /\ g[e] \in Int
    BY SumOfType
  <2>6. SumOf(s \o Append(u, e), g) = SumOf(s, g) + SumOf(Append(u, e), g)
    BY <2>1, <2>2, <2>3, <2>4, <2>5
  <2>7. QED BY <2>1, <2>6
<1> HIDE DEF Good
<1>3. t \in Good
  BY <1>1, <1>2, SeqSetInduction
<1>4. QED BY <1>3 DEF Good

(* Elements that count for nothing can be left out, *)
CountsOnly(T, seq, S, g, h) ==
  /\ seq \in Seq(T) /\ g \in [T -> Int] /\ h \in [T -> Int]
  /\ \A e \in T : h[e] = IF e \in S THEN g[e] ELSE 0

LEMMA SumOfSelected ==
  ASSUME NEW T, NEW seq, NEW S, NEW g, NEW h, CountsOnly(T, seq, S, g, h)
  PROVE  SumOf(OnlyIn(seq, S), g) = SumOf(seq, h)
<1> USE DEF CountsOnly
<1> DEFINE Good == {u \in Seq(T) : SumOf(OnlyIn(u, S), g) = SumOf(u, h)}
<1>1. <<>> \in Good
  BY EmptySeq, OnlyInEmpty, SumOfEmpty
<1>2. ASSUME NEW u \in Seq(T), NEW e \in T, u \in Good
      PROVE  Append(u, e) \in Good
  <2>1. Append(u, e) \in Seq(T) /\ OnlyIn(u, S) \in Seq(T)
    BY AppendProperties, OnlyInType
  <2>2. OnlyIn(Append(u, e), S) = IF e \in S THEN Append(OnlyIn(u, S), e) ELSE OnlyIn(u, S)
    BY OnlyInAppend
  <2>3. SumOf(Append(OnlyIn(u, S), e), g) = SumOf(OnlyIn(u, S), g) + g[e]
    BY <2>1, SumOfAppend
  <2>4. SumOf(Append(u, e), h) = SumOf(u, h) + h[e]
    BY SumOfAppend
  <2>5. SumOf(OnlyIn(u, S), g) = SumOf(u, h) /\ SumOf(u, h) \in Int
    BY <1>2, SumOfType
  <2>6. SumOf(OnlyIn(Append(u, e), S), g) = SumOf(Append(u, e), h)
    <3>1. CASE e \in S
      BY <2>2, <2>3, <2>4, <2>5, <3>1
    <3>2. CASE e \notin S
      BY <2>2, <2>4, <2>5, <3>2
    <3>3. QED BY <3>1, <3>2
  <2>7. QED BY <2>1, <2>6
<1> HIDE DEF Good
<1>3. seq \in Good
  BY <1>1, <1>2, SeqSetInduction
<1>4. QED BY <1>3 DEF Good

(* and elements that are replaced by others that count as much can be.     *)
Replaces(T, s, g, U, t, h) ==
  /\ s \in Seq(T) /\ t \in Seq(U) /\ Len(s) = Len(t)
  /\ g \in [T -> Int] /\ h \in [U -> Int]
  /\ \A k \in 1 .. Len(s) : h[t[k]] = g[s[k]]

LEMMA SumOfReplaced ==
  ASSUME NEW T, NEW s, NEW g, NEW U, NEW t, NEW h, Replaces(T, s, g, U, t, h)
  PROVE  SumOf(t, h) = SumOf(s, g)
<1> USE DEF Replaces
<1> DEFINE n == Len(s)
           f == [k \in DOMAIN s |-> g[s[k]]]
           f1 == [k \in DOMAIN t |-> h[t[k]]]
<1>1. /\ n \in Nat /\ Len(t) = n /\ DOMAIN s = 1 .. n /\ DOMAIN t = 1 .. n
      /\ \A k \in 1 .. n : s[k] \in T
  BY LenProperties, ElementOfSeq
<1> HIDE DEF n
<1>2. \A k \in 1 .. n : f[k] \in Int /\ f1[k] = f[k]
  BY <1>1 DEF n
<1> HIDE DEF f, f1
<1>3. SumTo(f1, n) = SumTo(f, n)
  BY <1>1, <1>2, SumSame
<1>4. QED BY <1>1, <1>3 DEF SumOf, f, f1, n

(* What elements count for can be a combination of two counts, *)
LinearOn(T, seq, h, a, f, b, g) ==
  /\ seq \in Seq(T) /\ a \in Int /\ b \in Int
  /\ f \in [T -> Int] /\ g \in [T -> Int] /\ h \in [T -> Int]
  /\ Combines(ToSet(seq), h, a, f, b, g)

LEMMA SumOfLinear ==
  ASSUME NEW T, NEW seq, NEW a, NEW b, NEW f, NEW g, NEW h, LinearOn(T, seq, h, a, f, b, g)
  PROVE  SumOf(seq, h) = a * SumOf(seq, f) + b * SumOf(seq, g)
<1> DEFINE n == Len(seq)
           ff == [k \in DOMAIN seq |-> f[seq[k]]]
           gg == [k \in DOMAIN seq |-> g[seq[k]]]
           hh == [k \in DOMAIN seq |-> h[seq[k]]]
<1> USE DEF LinearOn
<1>1. /\ DOMAIN seq = 1 .. n
      /\ \A k \in 1 .. n : seq[k] \in T /\ seq[k] \in ToSet(seq)
  BY LenProperties, ElementOfSeq DEF ToSet
<1>5. n \in Nat
  BY LenProperties
<1> HIDE DEF n
<1>2. Combines(1 .. n, hh, a, ff, b, gg)
  BY <1>1 DEF Combines
<1> HIDE DEF ff, gg, hh
<1>3. SumTo(hh, n) = a * SumTo(ff, n) + b * SumTo(gg, n)
  BY <1>2, <1>5, SumLinear
<1>4. QED BY <1>3 DEF SumOf, ff, gg, hh, n

(* or the sum of two when some condition holds. *)
AddsWhen(T, seq, h, f, g, c) ==
  /\ seq \in Seq(T)
  /\ f \in [T -> Int] /\ g \in [T -> Int] /\ h \in [T -> Int]
  /\ \A e \in T : h[e] = IF c THEN f[e] + g[e] ELSE f[e]

LEMMA SumOfTwo ==
  ASSUME NEW T, NEW seq, NEW c, NEW C, NEW f, NEW g, NEW h,
         AddsWhen(T, seq, h, f, g, c \in C)
  PROVE  SumOf(seq, h) = IF c \in C THEN SumOf(seq, f) + SumOf(seq, g) ELSE SumOf(seq, f)
<1> DEFINE unit == 1
           one == IF c \in C THEN 1 ELSE 0
<1> USE DEF AddsWhen
<1>1. one \in Int /\ unit \in Int /\ SumOf(seq, f) \in Int /\ SumOf(seq, g) \in Int
  BY SumOfType
<1>2. LinearOn(T, seq, h, unit, f, one, g)
  BY ToSetType DEF Combines, LinearOn
<1>3. SumOf(seq, h) = unit * SumOf(seq, f) + one * SumOf(seq, g)
  <2> HIDE DEF one, unit, AddsWhen
  <2>1. QED BY <1>2, SumOfLinear
<1>4. QED BY <1>1, <1>3

(* Sums over the elements of each of several kinds are together the sum    *)
(* over the elements of all of these kinds, if the kinds are different.    *)
SumsOfKinds(T, seq, kindOf, kinds, n, C, g, sums) ==
  /\ seq \in Seq(T) /\ n \in Nat /\ g \in [T -> Int]
  /\ \A i, j \in 1 .. n : kinds[i] = kinds[j] => i = j
  /\ \A i \in 1 .. n :
       sums[i] = IF i \in C
                 THEN SumOf(seq, [e \in T |-> IF kindOf[e] = kinds[i] THEN g[e] ELSE 0])
                 ELSE 0

LEMMA SumOfKinds ==
  ASSUME NEW T, NEW seq, NEW kindOf, NEW kinds, NEW n, NEW C, NEW g, NEW sums,
         SumsOfKinds(T, seq, kindOf, kinds, n, C, g, sums)
  PROVE  SumTo(sums, n)
           = SumOf(seq, [e \in T |-> IF \E i \in 1 .. n : i \in C /\ kindOf[e] = kinds[i]
                                     THEN g[e] ELSE 0])
<1> USE DEF SumsOfKinds
<1> DEFINE Of(i) == [e \in T |-> IF kindOf[e] = kinds[i] THEN g[e] ELSE 0]
           Among(e, k) == \E i \in 1 .. k : i \in C /\ kindOf[e] = kinds[i]
           UpTo(k) == [e \in T |-> IF Among(e, k) THEN g[e] ELSE 0]
           S == {k \in 0 .. n : SumTo(sums, k) = SumOf(seq, UpTo(k))}
<1>1. 0 \in S
  <2>1. UpTo(0) \in [T -> Int] /\ \A e \in T : UpTo(0)[e] = 0
    OBVIOUS
  <2> DEFINE zero == 0
  <2>2. LinearOn(T, seq, UpTo(0), zero, g, zero, g)
    BY <2>1, ToSetType DEF Combines, LinearOn
  <2>3. SumOf(seq, UpTo(0)) = zero * SumOf(seq, g) + zero * SumOf(seq, g)
    <3> HIDE DEF UpTo, zero
    <3>1. QED BY <2>2, SumOfLinear
  <2>4. SumOf(seq, UpTo(0)) = 0
    BY <2>3, SumOfType
  <2>5. QED BY <2>4, SumOfNone
<1>2. ASSUME NEW k \in 0 .. n - 1, k \in S PROVE k + 1 \in S
  <2> DEFINE m == k + 1
  <2>1. m \in 1 .. n /\ k \in Nat /\ m \in 0 .. n
    OBVIOUS
  <2>2. \A j \in 1 .. n : Of(j) \in [T -> Int] /\ SumOf(seq, Of(j)) \in Int
    <3>1. \A j \in 1 .. n : Of(j) \in [T -> Int]
      OBVIOUS
    <3> HIDE DEF Of
    <3>2. QED BY <3>1, SumOfType
  <2>3. \A j \in 1 .. n : sums[j] = IF j \in C THEN SumOf(seq, Of(j)) ELSE 0
    OBVIOUS
  <2>4. SumTo(sums, k + 1) = SumTo(sums, k) + sums[m] /\ SumTo(sums, k) \in Int
    <3>1. \A j \in 1 .. k + 1 : sums[j] \in Int
      <4>1. \A j \in 1 .. n : SumOf(seq, Of(j)) \in Int
        BY <2>2
      <4> HIDE DEF Of
      <4>2. \A j \in 1 .. n : sums[j] \in Int
        BY <2>3, <4>1
      <4>3. QED BY <2>1, <4>2
    <3>2. QED BY <2>1, <3>1, SumNext
  <2>5. UpTo(k) \in [T -> Int] /\ UpTo(m) \in [T -> Int]
    OBVIOUS
  <2>6. \A e \in T : UpTo(m)[e] = IF m \in C THEN UpTo(k)[e] + Of(m)[e] ELSE UpTo(k)[e]
    <3> TAKE e \in T
    <3>1. Among(e, m) <=> Among(e, k) \/ (m \in C /\ kindOf[e] = kinds[m])
      <4>1. \A i : i \in 1 .. m <=> i \in 1 .. k \/ i = m
        BY <2>1
      <4> HIDE DEF m
      <4>2. QED BY <4>1
    <3>2. kindOf[e] = kinds[m] => ~Among(e, k)
      <4>1. \A i \in 1 .. k : i \in 1 .. n /\ i # m
        BY <2>1
      <4> HIDE DEF m
      <4>2. QED BY <2>1, <4>1
    <3>3. g[e] \in Int
      OBVIOUS
    <3> HIDE DEF Among, m
    <3>4. QED BY <3>1, <3>2, <3>3
  <2>7. SumTo(sums, k) = SumOf(seq, UpTo(k))
    BY <1>2
  <2>8. SumOf(seq, UpTo(m)) = SumTo(sums, m)
    <3>1. Of(m) \in [T -> Int]
      BY <2>1, <2>2
    <3>2. SumOf(seq, UpTo(m))
            = IF m \in C THEN SumOf(seq, UpTo(k)) + SumOf(seq, Of(m)) ELSE SumOf(seq, UpTo(k))
      <4> HIDE DEF UpTo, Of, m
      <4>1. AddsWhen(T, seq, UpTo(m), UpTo(k), Of(m), m \in C)
        BY <2>5, <2>6, <3>1 DEF AddsWhen
      <4>2. QED BY <4>1, SumOfTwo
    <3>3. sums[m] = IF m \in C THEN SumOf(seq, Of(m)) ELSE 0
      BY <2>1, <2>3
    <3> HIDE DEF UpTo, Of
    <3>4. QED BY <2>4, <2>7, <3>2, <3>3
  <2>9. QED BY <2>1, <2>8
<1>3. \A k \in 0 .. n : k \in S
  <2>1. n \in Nat
    OBVIOUS
  <2> HIDE DEF S, SumsOfKinds
  <2>2. QED BY <1>1, <1>2, <2>1, BoundedInduction
<1>4. n \in S
  <2> HIDE DEF S
  <2>1. QED BY <1>3
<1>5. QED BY <1>4

-----------------------------------------------------------------------------
(* The sums of the prefixes of some numbers. *)
LEMMA SumsOfPrefixes ==
  ASSUME NEW n \in Nat, NEW f, \A k \in 1 .. n : f[k] \in Nat
  PROVE  /\ \A k \in 0 .. n : SumTo(f, k) \in Nat /\ SumTo(f, k) <= SumTo(f, n)
         /\ SumTo(f, 0) = 0
         /\ \A k \in 1 .. n : SumTo(f, k) = SumTo(f, k - 1) + f[k]
         /\ \A i \in 1 .. SumTo(f, n) : \E k \in 1 .. n : \E j \in 1 .. f[k] : i = SumTo(f, k - 1) + j
<1>1. SumTo(f, 0) = 0
  BY SumOfNone
<1>2. ASSUME NEW k \in 0 .. n - 1 PROVE SumTo(f, k + 1) = SumTo(f, k) + f[k + 1] /\ SumTo(f, k) \in Int
  <2>1. k \in Nat /\ \A j \in 1 .. k + 1 : f[j] \in Int
    OBVIOUS
  <2>2. QED BY <2>1, SumNext
<1> DEFINE S == {k \in 0 .. n : SumTo(f, k) \in Nat}
           Reached(k) == \A i \in 1 .. SumTo(f, k) :
                           \E m \in 1 .. n : \E j \in 1 .. f[m] : i = SumTo(f, m - 1) + j
           R == {k \in 0 .. n : SumTo(f, k) \in Nat /\ Reached(k)}
<1>3. \A k \in 0 .. n : k \in S
  <2>1. 0 \in S
    BY <1>1
  <2>2. ASSUME NEW k \in 0 .. n - 1, k \in S PROVE k + 1 \in S
    BY <1>2, <2>2
  <2> HIDE DEF S
  <2>3. QED BY <2>1, <2>2, BoundedInduction
<1>4. ASSUME NEW k \in 1 .. n PROVE SumTo(f, k) = SumTo(f, k - 1) + f[k]
  <2> DEFINE m == k - 1
  <2>1. m \in 0 .. n - 1 /\ k = m + 1
    OBVIOUS
  <2> HIDE DEF m
  <2>2. SumTo(f, m + 1) = SumTo(f, m) + f[m + 1]
    BY <1>2, <2>1
  <2>3. QED BY <2>1, <2>2 DEF m
<1>5. \A k \in 0 .. n : SumTo(f, k) <= SumTo(f, n)
  <2> DEFINE D == {d \in 0 .. n : \A k \in 0 .. n : n = k + d => SumTo(f, k) <= SumTo(f, n)}
  <2>1. 0 \in D
    BY <1>3
  <2>2. ASSUME NEW d \in 0 .. n - 1, d \in D PROVE d + 1 \in D
    <3>1. ASSUME NEW k \in 0 .. n, n = k + (d + 1) PROVE SumTo(f, k) <= SumTo(f, n)
      <4>1. k \in 0 .. n - 1 /\ k + 1 \in 0 .. n /\ n = (k + 1) + d
        BY <3>1
      <4>2. SumTo(f, k + 1) <= SumTo(f, n)
        BY <2>2, <4>1
      <4>3. SumTo(f, k + 1) = SumTo(f, k) + f[k + 1] /\ f[k + 1] \in Nat
        BY <1>2, <4>1
      <4>4. QED BY <1>3, <4>1, <4>2, <4>3
    <3>2. QED BY <3>1
  <2> HIDE DEF D
  <2>3. \A d \in 0 .. n : d \in D
    BY <2>1, <2>2, BoundedInduction
  <2>4. ASSUME NEW k \in 0 .. n PROVE SumTo(f, k) <= SumTo(f, n)
    <3> DEFINE d == n - k
    <3>1. d \in 0 .. n /\ n = k + d
      OBVIOUS
    <3> HIDE DEF d
    <3>2. QED BY <2>3, <3>1 DEF D
  <2>5. QED BY <2>4
<1>6. \A k \in 0 .. n : k \in R
  <2>1. 0 \in R
    BY <1>1
  <2>2. ASSUME NEW k \in 0 .. n - 1, k \in R PROVE k + 1 \in R
    <3> DEFINE m == k + 1
    <3>1. m \in 1 .. n /\ m \in 0 .. n /\ m - 1 = k /\ f[m] \in Nat
      OBVIOUS
    <3>2. SumTo(f, m) = SumTo(f, k) + f[m] /\ SumTo(f, k) \in Nat /\ SumTo(f, m) \in Nat
      BY <1>2, <1>3, <3>1
    <3>3. ASSUME NEW i \in 1 .. SumTo(f, m)
          PROVE  \E l \in 1 .. n : \E j \in 1 .. f[l] : i = SumTo(f, l - 1) + j
      <4>1. CASE i <= SumTo(f, k)
        BY <2>2, <3>2, <4>1
      <4>2. CASE i > SumTo(f, k)
        <5> DEFINE j == i - SumTo(f, k)
        <5>1. j \in 1 .. f[m] /\ i = SumTo(f, m - 1) + j
          BY <3>1, <3>2, <4>2
        <5> HIDE DEF j
        <5>2. QED BY <3>1, <5>1
      <4>3. QED BY <3>2, <4>1, <4>2
    <3>4. QED BY <3>1, <3>2, <3>3
  <2> HIDE DEF R
  <2>3. QED BY <2>1, <2>2, BoundedInduction
<1>7. Reached(n)
  BY <1>6
<1>8. QED BY <1>1, <1>3, <1>4, <1>5, <1>7

(* Where the elements of sequences go in their concatenation. *)
LEMMA FlattenPlaces ==
  ASSUME NEW T, NEW seqs \in Seq(Seq(T)), NEW f, \A k \in 1 .. Len(seqs) : f[k] = Len(seqs[k])
  PROVE  /\ FlattenSeq(seqs) \in Seq(T)
         /\ Len(FlattenSeq(seqs)) = SumTo(f, Len(seqs))
         /\ \A k \in 1 .. Len(seqs) : \A j \in 1 .. f[k] :
              FlattenSeq(seqs)[SumTo(f, k - 1) + j] = seqs[k][j]
<1> DEFINE Lens(ss) == [k \in 1 .. Len(ss) |-> Len(ss[k])]
           Right(ss) == /\ FlattenSeq(ss) \in Seq(T)
                        /\ Len(FlattenSeq(ss)) = SumTo(Lens(ss), Len(ss))
                        /\ \A k \in 1 .. Len(ss) : \A j \in 1 .. Len(ss[k]) :
                             FlattenSeq(ss)[SumTo(Lens(ss), k - 1) + j] = ss[k][j]
           Good == {ss \in Seq(Seq(T)) : Right(ss)}
<1>1. <<>> \in Good
  <2> DEFINE e == <<>>
  <2>1. e \in Seq(T) /\ e \in Seq(Seq(T)) /\ Len(e) = 0 /\ FlattenSeq(e) = e
    BY EmptySeq, FlattenEmpty
  <2>2. SumTo(Lens(e), 0) = 0
    BY SumOfNone
  <2>3. 1 .. 0 = {}
    OBVIOUS
  <2> HIDE DEF e, Lens
  <2>4. Right(e)
    BY <2>1, <2>2, <2>3
  <2>5. QED BY <2>1, <2>4 DEF e
<1>2. ASSUME NEW ss \in Seq(Seq(T)), NEW s \in Seq(T), ss \in Good
      PROVE  Append(ss, s) \in Good
  <2> DEFINE more == Append(ss, s)
             m == Len(ss)
             n == Len(more)
             flat == FlattenSeq(ss)
             f0 == Lens(ss)
             f1 == Lens(more)
  <2>1. /\ more \in Seq(Seq(T)) /\ n = m + 1 /\ m \in Nat /\ n \in Nat
        /\ \A i \in 1 .. m : more[i] = ss[i]
        /\ more[n] = s
    BY AppendProperties, LenProperties
  <2>2. flat \in Seq(T) /\ FlattenSeq(more) = flat \o s
    BY FlattenAppend
  <2>3. /\ Len(flat) = SumTo(f0, m)
        /\ \A k \in 1 .. m : \A j \in 1 .. Len(ss[k]) : flat[SumTo(f0, k - 1) + j] = ss[k][j]
    BY <1>2
  <2>4. /\ \A k \in 1 .. m : f0[k] = Len(ss[k]) /\ f0[k] \in Nat
        /\ \A k \in 1 .. n : f1[k] = Len(more[k]) /\ f1[k] \in Nat
        /\ \A k \in 1 .. m : f1[k] = f0[k]
        /\ f1[n] = Len(s)
    <3>1. \A k \in 1 .. m : f0[k] = Len(ss[k]) /\ Len(ss[k]) \in Nat
      BY <2>1, LenProperties, ElementOfSeq
    <3>2. \A k \in 1 .. n : f1[k] = Len(more[k]) /\ Len(more[k]) \in Nat
      BY <2>1, LenProperties, ElementOfSeq
    <3>3. (\A k \in 1 .. m : k \in 1 .. n) /\ n \in 1 .. n
      BY <2>1
    <3> HIDE DEF f0, f1, more, m, n
    <3>4. QED BY <2>1, <3>1, <3>2, <3>3
  <2> HIDE DEF f0, f1, more, m, n, flat
  <2>5. \A k \in 0 .. m : SumTo(f1, k) = SumTo(f0, k) /\ SumTo(f0, k) \in Nat /\ SumTo(f0, k) <= SumTo(f0, m)
    <3>1. ASSUME NEW k \in 0 .. m PROVE SumTo(f1, k) = SumTo(f0, k)
      <4>1. k \in Nat /\ \A j \in 1 .. k : f0[j] \in Int /\ f1[j] = f0[j]
        BY <2>1, <2>4
      <4>2. QED BY <4>1, SumSame
    <3>2. \A k \in 0 .. m : SumTo(f0, k) \in Nat /\ SumTo(f0, k) <= SumTo(f0, m)
      BY <2>1, <2>4, SumsOfPrefixes
    <3>3. QED BY <3>1, <3>2
  <2>6. SumTo(f1, n) = SumTo(f1, n - 1) + f1[n] /\ n - 1 = m /\ n \in 1 .. n
    <3>0. n = m + 1 /\ m \in Nat
      BY <2>1
    <3>1. n \in 1 .. n /\ n - 1 = m
      BY <3>0
    <3>2. \A k \in 1 .. n : SumTo(f1, k) = SumTo(f1, k - 1) + f1[k]
      BY <2>1, <2>4, SumsOfPrefixes
    <3>3. QED BY <3>1, <3>2
  <2>7. m \in 0 .. m /\ Len(s) \in Nat /\ s \in Seq(T)
    BY <2>1, LenProperties
  <2>8. /\ flat \o s \in Seq(T) /\ Len(flat \o s) = Len(flat) + Len(s)
        /\ \A i \in 1 .. Len(flat) : (flat \o s)[i] = flat[i]
        /\ \A j \in 1 .. Len(s) : (flat \o s)[Len(flat) + j] = s[j]
    <3>1. /\ flat \o s \in Seq(T) /\ Len(flat \o s) = Len(flat) + Len(s)
          /\ \A i \in 1 .. Len(flat) + Len(s) :
               (flat \o s)[i] = IF i <= Len(flat) THEN flat[i] ELSE s[i - Len(flat)]
      BY <2>2, ConcatProperties
    <3>2. Len(flat) \in Nat /\ Len(s) \in Nat
      BY <2>2, LenProperties
    <3>3. QED BY <3>1, <3>2
  <2>9. Len(FlattenSeq(more)) = SumTo(f1, n)
    BY <2>2, <2>3, <2>4, <2>5, <2>6, <2>7, <2>8
  <2>10. ASSUME NEW k \in 1 .. n, NEW j \in 1 .. Len(more[k])
         PROVE  FlattenSeq(more)[SumTo(f1, k - 1) + j] = more[k][j]
    <3>1. CASE k = n
      <4>1. k - 1 = m /\ more[k] = s /\ j \in 1 .. Len(s)
        BY <2>1, <2>5, <2>10, <3>1
      <4>2. SumTo(f1, m) = SumTo(f0, m)
        BY <2>5, <2>7
      <4>3. SumTo(f1, k - 1) = Len(flat)
        BY <2>3, <4>1, <4>2
      <4>4. (flat \o s)[Len(flat) + j] = s[j]
        BY <2>8, <4>1
      <4>5. QED BY <2>2, <4>1, <4>3, <4>4
    <3>2. CASE k \in 1 .. m
      <4>1. j \in 1 .. Len(ss[k]) /\ more[k] = ss[k] /\ k - 1 \in 0 .. m /\ k \in 0 .. m
            /\ f0[k] = Len(ss[k]) /\ f0[k] \in Nat
        BY <2>1, <2>4, <2>10, <3>2
      <4>2. SumTo(f0, k) = SumTo(f0, k - 1) + f0[k]
        <5>1. \A i \in 1 .. m : SumTo(f0, i) = SumTo(f0, i - 1) + f0[i]
          BY <2>1, <2>4, SumsOfPrefixes
        <5>2. QED BY <3>2, <5>1
      <4> DEFINE i == SumTo(f0, k - 1) + j
      <4>3. i \in 1 .. Len(flat) /\ SumTo(f1, k - 1) + j = i
        BY <2>3, <2>5, <4>1, <4>2
      <4>4. flat[i] = ss[k][j]
        BY <2>3, <3>2, <4>1
      <4> HIDE DEF i
      <4>5. QED BY <2>2, <2>8, <4>1, <4>3, <4>4
    <3>3. QED BY <2>1, <3>1, <3>2
  <2>11. Right(more)
    <3>1. n = Len(more) /\ f1 = Lens(more)
      BY DEF n, f1
    <3>2. FlattenSeq(more) \in Seq(T)
      BY <2>2, <2>8
    <3> HIDE DEF Lens
    <3>3. QED BY <2>9, <2>10, <3>1, <3>2
  <2>12. QED BY <2>1, <2>11 DEF more
<1>3. seqs \in Good
  <2> HIDE DEF Good
  <2>1. QED BY <1>1, <1>2, SeqSetInduction
<1>4. Len(seqs) \in Nat /\ \A k \in 1 .. Len(seqs) : Len(seqs[k]) \in Nat
  BY LenProperties, ElementOfSeq
<1>5. \A k \in 0 .. Len(seqs) : SumTo(f, k) = SumTo(Lens(seqs), k)
  <2> DEFINE f0 == Lens(seqs)
  <2>1. \A j \in 1 .. Len(seqs) : f0[j] \in Int /\ f[j] = f0[j]
    BY <1>4
  <2> HIDE DEF f0
  <2>2. ASSUME NEW k \in 0 .. Len(seqs) PROVE SumTo(f, k) = SumTo(f0, k)
    <3>1. k \in Nat /\ \A j \in 1 .. k : f0[j] \in Int /\ f[j] = f0[j]
      BY <1>4, <2>1
    <3>2. QED BY <3>1, SumSame
  <2>3. QED BY <2>2 DEF f0
<1> HIDE DEF Lens
<1>6. \A k \in 1 .. Len(seqs) : k - 1 \in 0 .. Len(seqs)
  BY <1>4
<1>7. Len(seqs) \in 0 .. Len(seqs)
  BY <1>4
<1>8. QED BY <1>3, <1>5, <1>6, <1>7
=============================================================================
