-------------------------- MODULE BucketFillProofs --------------------------
(* The invariants of BucketFill for every set of PSBTs, offers and rates.   *)
(* Those of the filling do not depend on what an amount adds up to: they    *)
(* never expand Fits. Those of the fees rest on lemmas about sums, which    *)
(* are proved by least counterexamples.                                     *)
EXTENDS BucketFill, FiniteSetTheorems, WellFoundedInduction, TLAPS

Inv == TypeOK /\ EachOnce /\ SkippedDoesNotFit

LEMMA InitInv == Init => Inv
BY ConstantsAssumption DEF Init, Inv, TypeOK, EachOnce, SkippedDoesNotFit

\* What a run is given does not change; the hashes of co-signed PSBTs come and
\* go, which ends steady.
LEMMA InputsKept ==
  ASSUME TypeOK, [Next]_vars
  PROVE  /\ UNCHANGED inputs
         /\ indexed' \subseteq CoSigned /\ steady' \in BOOLEAN
         /\ steady' => steady /\ indexed' = indexed
<1>1. UNCHANGED inputs
  BY DEF Next, Run, vars, Sort, TryAll, Push, Skip, Exhausted, GiveUp, Stage, Finish,
         HashDeleted, HashWritten
<1>2. CASE UNCHANGED hashes
  BY <1>1, <1>2 DEF hashes, TypeOK
<1>3. ASSUME NEW p \in Psbt, HashDeleted(p) \/ HashWritten(p)
      PROVE  indexed' \subseteq CoSigned /\ steady' = FALSE
  BY <1>3 DEF HashDeleted, HashWritten, TypeOK
<1>4. UNCHANGED hashes \/ \E p \in Psbt : HashDeleted(p) \/ HashWritten(p)
  BY DEF Next, Run, vars, Sort, TryAll, Push, Skip, Exhausted, GiveUp, Stage, Finish
<1>5. CASE \E p \in Psbt : HashDeleted(p) \/ HashWritten(p)
  BY <1>1, <1>3, <1>5
<1> QED
  BY <1>2, <1>4, <1>5

LEMMA TypesKept == ASSUME TypeOK, [Next]_vars PROVE TypeOK'
<1> USE DEF TypeOK
<1>1. offer' \in [Psbt -> Offers] /\ threshold' \in Thresholds /\ expired' \in BOOLEAN
  BY InputsKept DEF inputs
<1>2. indexed' \subseteq CoSigned /\ steady' \in BOOLEAN
  BY InputsKept
<1>3. /\ rest' \subseteq Psbt /\ tried' \subseteq rest' /\ bucket' \subseteq Psbt
      /\ chosen' \subseteq Psbt
  BY DEF Next, Run, vars, inputs, hashes, fill, Sort, TryAll, Push, Skip, Without, InLine, Exhausted,
         GiveUp, Stage, Finish, HashDeleted, HashWritten
<1>4. pc' \in {"sort", "full", "push", "chosen", "staged", "batched", "none", "thrown"}
  BY DEF Next, Run, vars, inputs, hashes, fill, Sort, TryAll, Push, Skip, Exhausted,
         GiveUp, Stage, Finish, HashDeleted, HashWritten
<1> QED
  BY <1>1, <1>2, <1>3, <1>4

\* A PSBT changes sides only when it is pushed.
LEMMA SidesKept == ASSUME TypeOK, EachOnce, [Next]_vars PROVE EachOnce'
<1>1. ASSUME NEW p \in Psbt, Push(p) PROVE EachOnce'
  <2>1. p \in rest /\ rest' = rest \ {p} /\ bucket' = bucket \cup {p}
    BY <1>1 DEF Push, InLine, Without
  <2> QED
    BY <2>1 DEF EachOnce
<1>2. CASE UNCHANGED <<rest, bucket>>
  BY <1>2 DEF EachOnce
<1>3. (\E p \in Psbt : Push(p)) \/ UNCHANGED <<rest, bucket>>
  BY DEF Next, Run, vars, hashes, fill, Sort, TryAll, Skip, Exhausted, GiveUp, Stage, Finish,
         HashDeleted, HashWritten
<1> QED
  BY <1>1, <1>2, <1>3

\* While no hash changes a PSBT is tried against the same bucket, offers, hashes
\* and rate until the next push, which clears tried.
LEMMA SkippedKept ==
  ASSUME TypeOK, SkippedDoesNotFit, [Next]_vars
  PROVE  SkippedDoesNotFit'
<1> SUFFICES ASSUME steady', NEW q \in tried'
             PROVE  ~Fits(offer', indexed', bucket' \cup {q}, threshold')
  BY DEF SkippedDoesNotFit
<1>1. offer' = offer /\ threshold' = threshold /\ indexed' = indexed /\ steady
  BY InputsKept DEF inputs
<1>2. ASSUME NEW p \in Psbt, Push(p) PROVE FALSE
  BY <1>2 DEF Push
<1>3. ASSUME NEW p \in Psbt, Skip(p)
      PROVE  ~Fits(offer', indexed', bucket' \cup {q}, threshold')
  <2>1. /\ bucket' = bucket
        /\ tried' = tried \cup {p}
        /\ ~Fits(offer, indexed, bucket \cup {p}, threshold)
    BY <1>3 DEF Skip
  <2>2. CASE q = p
    BY <1>1, <2>1, <2>2
  <2>3. CASE q \in tried
    BY <1>1, <2>1, <2>3 DEF SkippedDoesNotFit
  <2> QED
    BY <2>1, <2>2, <2>3
<1>4. CASE UNCHANGED <<tried, bucket>>
  BY <1>1, <1>4 DEF SkippedDoesNotFit
<1>5. (\E p \in Psbt : Push(p) \/ Skip(p)) \/ UNCHANGED <<tried, bucket>>
  BY DEF Next, Run, vars, hashes, fill, Sort, TryAll, Exhausted, GiveUp, Stage, Finish,
         HashDeleted, HashWritten
<1> QED
  BY <1>2, <1>3, <1>4, <1>5

THEOREM FillInvariant == Spec => []Inv
<1>1. Inv /\ [Next]_vars => Inv'
  BY TypesKept, SidesKept, SkippedKept DEF Inv
<1> QED
  BY InitInv, <1>1, PTL DEF Spec

\* Every reachable state is well typed.
THEOREM TypeCorrect == Spec => []TypeOK
<1>1. Inv => TypeOK
  BY DEF Inv
<1> QED
  BY FillInvariant, <1>1, PTL

\* fillUpBucket's slices lose no PSBT and merge none twice, however many.
THEOREM NoneLostNoneTwice == Spec => []EachOnce
<1>1. Inv => EachOnce
  BY DEF Inv
<1> QED
  BY FillInvariant, <1>1, PTL

\* Starting over after every push makes up for the order of the attempts: what
\* was passed over still does not fit, for any offers and any fee rate.
THEOREM SkippedForGood == Spec => []SkippedDoesNotFit
<1>1. Inv => SkippedDoesNotFit
  BY DEF Inv
<1> QED
  BY FillInvariant, <1>1, PTL

\* What fillUpBucket has pushed, and what it returned, meets the rate.
FilledFits ==
  steady =>
    /\ bucket # {} => Fits(offer, indexed, bucket, threshold)
    /\ pc = "chosen" /\ chosen # {} => Fits(offer, indexed, chosen, threshold)

LEMMA FilledKept == ASSUME TypeOK, FilledFits, [Next]_vars PROVE FilledFits'
<1> SUFFICES ASSUME steady' PROVE FilledFits'
  BY DEF FilledFits
<1>1. offer' = offer /\ threshold' = threshold /\ indexed' = indexed /\ steady
  BY InputsKept DEF inputs
<1>2. CASE TryAll
  BY <1>1, <1>2 DEF FilledFits, TryAll, fill
<1>3. ASSUME NEW p \in Psbt, Push(p) PROVE FilledFits'
  BY <1>1, <1>3 DEF FilledFits, Push
<1>4. CASE Exhausted
  BY <1>1, <1>4 DEF FilledFits, Exhausted, fill
<1>5. CASE UNCHANGED bucket /\ (pc' # "chosen" \/ UNCHANGED <<pc, chosen>>)
  BY <1>1, <1>5 DEF FilledFits
<1>6. \/ TryAll \/ (\E p \in Psbt : Push(p)) \/ Exhausted
      \/ UNCHANGED bucket /\ (pc' # "chosen" \/ UNCHANGED <<pc, chosen>>)
  BY DEF Next, Run, vars, fill, Sort, Skip, GiveUp, Stage, Finish, HashDeleted, HashWritten
<1> QED
  BY <1>2, <1>3, <1>4, <1>5, <1>6

\* However often fillUpBucket calls itself, its answer meets the rate; the sanity check
\* that follows is there for hashes that change.
THEOREM SaneUnlessChanged == Spec => []ChosenFits
<1>1. Init => TypeOK /\ FilledFits
  BY InitInv DEF Init, Inv, FilledFits
<1>2. TypeOK /\ FilledFits /\ [Next]_vars => (TypeOK /\ FilledFits)'
  BY TypesKept, FilledKept
<1>3. FilledFits => ChosenFits
  BY DEF FilledFits, ChosenFits, Fits, Staged
<1> QED
  BY <1>1, <1>2, <1>3, PTL DEF Spec

-----------------------------------------------------------------------------
(* Sums over a finite set: that MapThenSumSet's recursion defines something. *)

Picked(s) == CHOOSE x \in s : TRUE

LEMMA PickedIsIn == \A s : s # {} => Picked(s) \in s
BY DEF Picked

\* A set of subsets of a finite set has one that contains no other.
LEMMA SmallestSubset ==
  ASSUME NEW S, IsFiniteSet(S), NEW T \in SUBSET SUBSET S, T # {}
  PROVE  \E s \in T : \A u \in T : u \subseteq s => u = s
<1>1. IsWellFoundedOn(StrictSubsetOrdering(S), SUBSET S)
  BY FS_FiniteSubsetsOfFinite, FS_StrictSubsetOrderingWellFounded, Zenon
<1>2. \E s \in T : \A u \in T : <<u, s>> \notin StrictSubsetOrdering(S)
  BY <1>1, WFMin, Zenon
<1> QED
  BY <1>2 DEF StrictSubsetOrdering

\* A set of natural numbers has a least one.
LEMMA LeastNumber ==
  ASSUME NEW T \in SUBSET Nat, T # {}
  PROVE  \E n \in T : \A m \in T : n <= m
<1>1. \E n \in T : \A m \in T : <<m, n>> \notin OpToRel(<, Nat)
  BY NatLessThanWellFounded, WFMin, Zenon
<1>2. PICK n \in T : \A m \in T : <<m, n>> \notin OpToRel(<, Nat)
  BY <1>1
<1>3. ASSUME NEW m \in T PROVE n <= m
  <2>1. m \in Nat /\ n \in Nat
    OBVIOUS
  <2>2. m < n => <<m, n>> \in OpToRel(<, Nat)
    BY <2>1 DEF OpToRel
  <2>3. ~(m < n)
    BY <1>2, <2>2, Zenon
  <2> QED
    BY <2>1, <2>3
<1> QED
  BY <1>3

\* g has the sums of the weights w of the subsets of S, added as MapThenSumSet does.
SumsUp(g, w, S) ==
  g = [s \in SUBSET S |-> IF s = {} THEN 0 ELSE w[Picked(s)] + g[s \ {Picked(s)}]]

\* There is such a function: for each n there is one that is right at the sets of at
\* most n members.
LEMMA SumExists ==
  ASSUME NEW S, IsFiniteSet(S), NEW w
  PROVE  \E g : SumsUp(g, w, S)
<1> DEFINE Body(g, s) == IF s = {} THEN 0 ELSE w[Picked(s)] + g[s \ {Picked(s)}]
           Good(n) == \E g : \A s \in SUBSET S : Cardinality(s) <= n => g[s] = Body(g, s)
<1>1. ASSUME NEW s \in SUBSET S
      PROVE  /\ IsFiniteSet(s) /\ Cardinality(s) \in Nat
             /\ Cardinality(s) = 0 <=> s = {}
             /\ s # {} => /\ s \ {Picked(s)} \in SUBSET S
                          /\ Cardinality(s \ {Picked(s)}) = Cardinality(s) - 1
  <2>1. IsFiniteSet(s) /\ Cardinality(s) \in Nat
    BY FS_Subset, FS_CardinalityType
  <2>2. Cardinality(s) = 0 <=> s = {}
    BY <2>1, FS_EmptySet
  <2>3. s # {} => Cardinality(s \ {Picked(s)}) = Cardinality(s) - 1
    BY <2>1, PickedIsIn, FS_RemoveElement
  <2> QED
    BY <2>1, <2>2, <2>3
<1>2. Good(0)
  <2> DEFINE zero == [s \in SUBSET S |-> 0]
  <2>1. ASSUME NEW s \in SUBSET S, Cardinality(s) <= 0 PROVE zero[s] = Body(zero, s)
    <3>1. Cardinality(s) \in Nat /\ (Cardinality(s) = 0 <=> s = {})
      BY <1>1, Zenon
    <3>2. s = {}
      BY <2>1, <3>1
    <3> QED
      BY <3>2
  <2> HIDE DEF zero, Body
  <2> QED
    BY <2>1
<1>3. ASSUME NEW n \in Nat, Good(n) PROVE Good(n + 1)
  <2>1. PICK g : \A s \in SUBSET S : Cardinality(s) <= n => g[s] = Body(g, s)
    BY <1>3
  <2> DEFINE h == [s \in SUBSET S |-> IF Cardinality(s) <= n THEN g[s] ELSE Body(g, s)]
  <2>2. ASSUME NEW s \in SUBSET S, Cardinality(s) <= n + 1
        PROVE  h[s] = Body(g, s) /\ Body(h, s) = Body(g, s)
    <3>1. h[s] = Body(g, s)
      BY <2>1
    <3>2. s # {} => h[s \ {Picked(s)}] = g[s \ {Picked(s)}]
      <4>1. s # {} => Cardinality(s \ {Picked(s)}) <= n
        BY <1>1, <2>2
      <4> QED
        BY <1>1, <4>1
    <3> QED
      BY <3>1, <3>2
  <2> HIDE DEF h, Body
  <2>3. \A s \in SUBSET S : Cardinality(s) <= n + 1 => h[s] = Body(h, s)
    BY <2>2
  <2> QED
    BY <2>3
<1>4. \A n \in Nat : Good(n)
  <2> HIDE DEF Good
  <2> DEFINE Bad == {n \in Nat : ~Good(n)}
  <2>1. SUFFICES ASSUME Bad # {} PROVE FALSE
    OBVIOUS
  <2>2. PICK n \in Bad : \A m \in Bad : n <= m
    BY <2>1, LeastNumber
  <2>3. n # 0 /\ n - 1 \in Nat /\ n - 1 \notin Bad
    BY <1>2, <2>2
  <2>4. Good(n - 1)
    BY <2>3
  <2>5. Good((n - 1) + 1)
    BY <1>3, <2>3, <2>4
  <2> QED
    BY <2>2, <2>5
<1>5. PICK g : \A s \in SUBSET S : g[s] = Body(g, s)
  <2>1. \A s \in SUBSET S : Cardinality(s) <= Cardinality(S)
    BY FS_Subset
  <2>2. Good(Cardinality(S))
    BY <1>4, FS_CardinalityType
  <2> QED
    BY <2>1, <2>2
<1> DEFINE h == [s \in SUBSET S |-> g[s]]
<1>6. \A s \in SUBSET S : h[s] = Body(h, s)
  BY <1>1, <1>5
<1>7. h = [s \in SUBSET S |-> Body(h, s)]
  BY <1>6
<1> QED
  BY <1>7 DEF SumsUp

ValueOf(o, S) == [p \in S |-> Counted(o, p)]
FeeOf(o, S) == [p \in S |-> o[p].fee]

\* Values and fees are such sums.
LEMMA SumsUnfold ==
  ASSUME NEW S, IsFiniteSet(S), NEW o
  PROVE  /\ \E v : SumsUp(v, ValueOf(o, S), S) /\ v[S] = Value(o, S)
         /\ \E f : SumsUp(f, FeeOf(o, S), S) /\ f[S] = Fee(o, S)
<1> DEFINE IsValue(g) == g = [s \in SUBSET S |->
             IF s = {} THEN 0 ELSE Counted(o, Picked(s)) + g[s \ {Picked(s)}]]
           IsFee(g) == g = [s \in SUBSET S |->
             IF s = {} THEN 0 ELSE o[Picked(s)].fee + g[s \ {Picked(s)}]]
<1>1. ASSUME NEW s \in SUBSET S, s # {}
      PROVE  /\ ValueOf(o, S)[Picked(s)] = Counted(o, Picked(s))
             /\ FeeOf(o, S)[Picked(s)] = o[Picked(s)].fee
  BY <1>1, PickedIsIn DEF ValueOf, FeeOf
<1>2. ASSUME NEW g PROVE IsValue(g) <=> SumsUp(g, ValueOf(o, S), S)
  <2>1. [s \in SUBSET S |-> IF s = {} THEN 0 ELSE Counted(o, Picked(s)) + g[s \ {Picked(s)}]] =
        [s \in SUBSET S |->
           IF s = {} THEN 0 ELSE ValueOf(o, S)[Picked(s)] + g[s \ {Picked(s)}]]
    BY <1>1
  <2> QED
    BY <2>1, Zenon DEF SumsUp
<1>3. ASSUME NEW g PROVE IsFee(g) <=> SumsUp(g, FeeOf(o, S), S)
  <2>1. [s \in SUBSET S |-> IF s = {} THEN 0 ELSE o[Picked(s)].fee + g[s \ {Picked(s)}]] =
        [s \in SUBSET S |->
           IF s = {} THEN 0 ELSE FeeOf(o, S)[Picked(s)] + g[s \ {Picked(s)}]]
    BY <1>1
  <2> QED
    BY <2>1, Zenon DEF SumsUp
<1>4. Value(o, S) = (CHOOSE g : IsValue(g))[S]
  BY DEF Value, MapThenSumSet, MapThenFoldSet, Picked
<1>5. Fee(o, S) = (CHOOSE g : IsFee(g))[S]
  BY DEF Fee, MapThenSumSet, MapThenFoldSet, Picked
<1> HIDE DEF IsValue, IsFee
<1>6. IsValue(CHOOSE g : IsValue(g))
  <2>1. \E g : IsValue(g)
    BY <1>2, SumExists, Zenon
  <2> QED
    BY <2>1, Zenon
<1>7. IsFee(CHOOSE g : IsFee(g))
  <2>1. \E g : IsFee(g)
    BY <1>3, SumExists, Zenon
  <2> QED
    BY <2>1, Zenon
<1> QED
  BY <1>2, <1>3, <1>4, <1>5, <1>6, <1>7, Zenon

\* A sum takes one member's weight and adds the sum of the others.
LEMMA SumsUpStep ==
  ASSUME NEW S, NEW w, NEW g, SumsUp(g, w, S), NEW s \in SUBSET S, s # {}
  PROVE  g[s] = w[Picked(s)] + g[s \ {Picked(s)}]
<1> g[s] = IF s = {} THEN 0 ELSE w[Picked(s)] + g[s \ {Picked(s)}]
  BY DEF SumsUp
<1> QED
  OBVIOUS

\* A sum is a natural number if all weights are.
LEMMA SumsUpType ==
  ASSUME NEW S, IsFiniteSet(S), NEW w \in [S -> Nat], NEW g, SumsUp(g, w, S)
  PROVE  g \in [SUBSET S -> Nat] /\ g[{}] = 0
<1>1. \A s \in SUBSET S : g[s] = IF s = {} THEN 0 ELSE w[Picked(s)] + g[s \ {Picked(s)}]
  BY DEF SumsUp
<1>2. g[{}] = 0
  BY <1>1
<1>3. ASSUME NEW s \in SUBSET S, s # {}
      PROVE  Picked(s) \in s /\ g[s] = w[Picked(s)] + g[s \ {Picked(s)}]
  BY <1>1, <1>3, PickedIsIn
<1>4. \A s \in SUBSET S : g[s] \in Nat
  <2> DEFINE Bad == {s \in SUBSET S : g[s] \notin Nat}
  <2>1. SUFFICES ASSUME Bad # {} PROVE FALSE
    OBVIOUS
  <2>2. PICK s \in Bad : \A u \in Bad : u \subseteq s => u = s
    <3>1. Bad \in SUBSET SUBSET S
      OBVIOUS
    <3> HIDE DEF Bad
    <3> QED
      BY <2>1, <3>1, SmallestSubset
  <2>3. s # {} /\ s \in SUBSET S
    BY <1>2
  <2>4. Picked(s) \in s /\ g[s] = w[Picked(s)] + g[s \ {Picked(s)}]
    BY <1>3, <2>3
  <2>5. s \ {Picked(s)} \in SUBSET S /\ s \ {Picked(s)} \notin Bad
    BY <2>2, <2>3, <2>4
  <2>6. g[s \ {Picked(s)}] \in Nat /\ w[Picked(s)] \in Nat
    BY <2>3, <2>4, <2>5
  <2>7. g[s] \in Nat
    BY <2>4, <2>6
  <2> QED
    BY <2>7
<1> QED
  BY <1>2, <1>4 DEF SumsUp

-----------------------------------------------------------------------------
(* Rounding and dividing. *)

LEMMA Quotient ==
  ASSUME NEW x \in Int, NEW y \in Nat, y > 0
  PROVE  /\ x \div y \in Int
         /\ y * (x \div y) <= x /\ x < y * (x \div y) + y
OBVIOUS

LEMMA TimesMonotone ==
  ASSUME NEW y \in Nat, NEW a \in Int, NEW b \in Int, a <= b
  PROVE  y * a <= y * b
OBVIOUS

\* What lies above Math.round(n / d).
LEMMA AboveRounded ==
  ASSUME NEW n \in Nat, NEW d \in Nat, d > 0, NEW m \in Int, Rounded(n, d) < m
  PROVE  2 * n + d < 2 * d * m
<1> DEFINE q == (2 * n + d) \div (2 * d)
<1>1. 2 * n + d \in Int /\ 2 * d \in Nat /\ 2 * d > 0
  OBVIOUS
<1>2. q \in Int /\ 2 * n + d < 2 * d * q + 2 * d
  BY <1>1, Quotient
<1>3. q + 1 <= m
  BY <1>2 DEF Rounded
<1> HIDE DEF q
<1>4. 2 * d * (q + 1) <= 2 * d * m
  BY <1>1, <1>2, <1>3, TimesMonotone
<1>5. 2 * d * (q + 1) = 2 * d * q + 2 * d
  BY <1>2
<1> QED
  BY <1>2, <1>4, <1>5

\* What Math.round(n / d) lies below.
LEMMA RoundedBelow ==
  ASSUME NEW n \in Nat, NEW d \in Nat, d > 0, NEW m \in Int, 2 * n + d <= 2 * d * m
  PROVE  Rounded(n, d) <= m
<1> DEFINE q == (2 * n + d) \div (2 * d)
<1>1. 2 * n + d \in Int /\ 2 * d \in Nat /\ 2 * d > 0
  OBVIOUS
<1>2. q \in Int /\ 2 * d * q <= 2 * n + d
  BY <1>1, Quotient
<1>3. q <= m
  <2> HIDE DEF q
  <2>1. SUFFICES ASSUME m + 1 <= q PROVE FALSE
    BY <1>2
  <2>2. 2 * d * (m + 1) <= 2 * d * q
    BY <1>1, <1>2, <2>1, TimesMonotone
  <2>3. 2 * d * (m + 1) = 2 * d * m + 2 * d
    OBVIOUS
  <2> QED
    BY <1>1, <1>2, <2>2, <2>3
<1> QED
  BY <1>3 DEF Rounded

LEMMA RoundedType == \A n \in Nat, d \in Nat : d > 0 => Rounded(n, d) \in Nat
BY DEF Rounded

\* finalizeBatch and validatePSBT get offers in whole satoshis.
LEMMA SumsOfOffers ==
  ASSUME NEW o \in [Psbt -> Offers], NEW S \in SUBSET Psbt
  PROVE  /\ IsFiniteSet(S)
         /\ ValueOf(o, S) \in [S -> Nat] /\ FeeOf(o, S) \in [S -> Nat]
         /\ Value(o, S) \in Nat /\ Fee(o, S) \in Nat
         /\ ServiceFees(o, S) \in Nat
<1>1. IsFiniteSet(S)
  BY ConstantsAssumption, FS_Subset
<1>2. ValueOf(o, S) \in [S -> Nat] /\ FeeOf(o, S) \in [S -> Nat]
  BY ConstantsAssumption DEF ValueOf, FeeOf, Counted
<1>3. Value(o, S) \in Nat /\ Fee(o, S) \in Nat
  <2>1. PICK v : SumsUp(v, ValueOf(o, S), S) /\ v[S] = Value(o, S)
    BY <1>1, SumsUnfold
  <2>2. PICK f : SumsUp(f, FeeOf(o, S), S) /\ f[S] = Fee(o, S)
    BY <1>1, SumsUnfold
  <2>3. v \in [SUBSET S -> Nat] /\ f \in [SUBSET S -> Nat]
    BY <1>1, <1>2, <2>1, <2>2, SumsUpType
  <2> QED
    BY <2>1, <2>2, <2>3
<1>4. ServiceFees(o, S) \in Nat
  BY <1>3, RoundedType, ConstantsAssumption DEF ServiceFees
<1> QED
  BY <1>1, <1>2, <1>3, <1>4

\* The value of one PSBT.
LEMMA ValueOfOne ==
  ASSUME NEW o \in [Psbt -> Offers], NEW p \in Psbt
  PROVE  Value(o, {p}) = Counted(o, p)
<1>1. /\ {p} \in SUBSET Psbt /\ IsFiniteSet({p})
      /\ ValueOf(o, {p}) \in [{p} -> Nat] /\ ValueOf(o, {p})[p] = Counted(o, p)
  BY SumsOfOffers DEF ValueOf
<1>2. PICK v : SumsUp(v, ValueOf(o, {p}), {p}) /\ v[{p}] = Value(o, {p})
  BY <1>1, SumsUnfold
<1>3. /\ v[{}] = 0
      /\ v[{p}] = ValueOf(o, {p})[Picked({p})] + v[{p} \ {Picked({p})}]
  <2>1. v[{}] = 0
    BY <1>1, <1>2, SumsUpType
  <2>2. ASSUME NEW s \in SUBSET {p}, s # {}
        PROVE  v[s] = ValueOf(o, {p})[Picked(s)] + v[s \ {Picked(s)}]
    BY <1>2, <2>2, SumsUpStep
  <2> QED
    BY <2>1, <2>2
<1>4. Picked({p}) = p /\ {p} \ {Picked({p})} = {}
  BY PickedIsIn
<1>5. Counted(o, p) \in Nat
  BY ConstantsAssumption DEF Counted
<1> QED
  BY <1>1, <1>2, <1>3, <1>4, <1>5

\* Where every value is counted, the funds are the fee.
LEMMA FundsOfCounted ==
  ASSUME NEW o, NEW S, \A p \in S : o[p].witness, Fee(o, S) \in Nat
  PROVE  Funds(o, S) = Fee(o, S)
<1> DEFINE IsValue(g) == g = [s \in SUBSET {} |->
             IF s = {} THEN 0 ELSE o[Picked(s)].value + g[s \ {Picked(s)}]]
           zero == [s \in SUBSET {} |-> 0]
<1>1. {p \in S : ~o[p].witness} = {}
  OBVIOUS
<1>2. MapThenSumSet(LAMBDA p : o[p].value, {}) = (CHOOSE g : IsValue(g))[{}]
  BY DEF MapThenSumSet, MapThenFoldSet, Picked
<1>3. IsValue(zero)
  OBVIOUS
<1>4. IsValue(CHOOSE g : IsValue(g))
  <2> HIDE DEF IsValue, zero
  <2> QED
    BY <1>3, Zenon
<1>5. ASSUME NEW g, IsValue(g) PROVE g[{}] = 0
  BY <1>5
<1> HIDE DEF IsValue, zero
<1>6. MapThenSumSet(LAMBDA p : o[p].value, {}) = 0
  BY <1>2, <1>4, <1>5
<1>7. Funds(o, S) = Fee(o, S) - 0
  BY <1>1, <1>6 DEF Funds
<1> QED
  BY <1>7

-----------------------------------------------------------------------------
(* The fees. *)

\* What is left of every PSBT for the miners, by validatePSBT.
MinersPaidBy(o) == \A p \in Psbt : o[p].fee - ServiceFees(o, {p}) > 0

\* What one validated PSBT leaves exceeds its exact share by half a satoshi, so the
\* sums of any of them differ by at least that much, and rounding takes no more.
LEMMA FeesFit ==
  ASSUME NEW o \in [Psbt -> Offers], MinersPaidBy(o),
         NEW S \in SUBSET Psbt, S # {}
  PROVE  ServiceFees(o, S) <= Fee(o, S)
<1> DEFINE d == FeeShare
<1>1. d \in Nat /\ d > 0
  BY ConstantsAssumption
<1>2. ASSUME NEW p \in Psbt
      PROVE  /\ Counted(o, p) \in Nat /\ o[p].fee \in Nat
             /\ 2 * Counted(o, p) + d < 2 * d * o[p].fee
  <2>1. Counted(o, p) \in Nat /\ o[p].fee \in Nat
    BY ConstantsAssumption DEF Counted
  <2>2. Rounded(Counted(o, p), d) \in Nat /\ Rounded(Counted(o, p), d) < o[p].fee
    <3>1. o[p].fee - ServiceFees(o, {p}) > 0
      BY DEF MinersPaidBy
    <3>2. ServiceFees(o, {p}) = Rounded(Counted(o, p), d)
      BY ValueOfOne, Zenon DEF ServiceFees
    <3>3. Rounded(Counted(o, p), d) \in Nat
      BY <1>1, <2>1, RoundedType
    <3> QED
      BY <2>1, <3>1, <3>2, <3>3
  <2> QED
    BY <1>1, <2>1, <2>2, AboveRounded
<1>3. PICK v : SumsUp(v, ValueOf(o, S), S) /\ v[S] = Value(o, S)
  BY SumsUnfold, SumsOfOffers
<1>4. PICK f : SumsUp(f, FeeOf(o, S), S) /\ f[S] = Fee(o, S)
  BY SumsUnfold, SumsOfOffers
<1>5. /\ v \in [SUBSET S -> Nat] /\ f \in [SUBSET S -> Nat] /\ v[{}] = 0 /\ f[{}] = 0
      /\ \A s \in SUBSET S : s # {} =>
           /\ v[s] = ValueOf(o, S)[Picked(s)] + v[s \ {Picked(s)}]
           /\ f[s] = FeeOf(o, S)[Picked(s)] + f[s \ {Picked(s)}]
  <2>1. IsFiniteSet(S) /\ ValueOf(o, S) \in [S -> Nat] /\ FeeOf(o, S) \in [S -> Nat]
    BY SumsOfOffers
  <2>2. v \in [SUBSET S -> Nat] /\ v[{}] = 0 /\ f \in [SUBSET S -> Nat] /\ f[{}] = 0
    BY <1>3, <1>4, <2>1, SumsUpType
  <2>3. ASSUME NEW s \in SUBSET S, s # {}
        PROVE  /\ v[s] = ValueOf(o, S)[Picked(s)] + v[s \ {Picked(s)}]
               /\ f[s] = FeeOf(o, S)[Picked(s)] + f[s \ {Picked(s)}]
    BY <1>3, <1>4, <2>3, SumsUpStep
  <2> QED
    BY <2>2, <2>3
<1>6. \A s \in SUBSET S : s # {} => 2 * v[s] + d <= 2 * d * f[s]
  <2> DEFINE Bad == {s \in SUBSET S : s # {} /\ ~(2 * v[s] + d <= 2 * d * f[s])}
  <2>1. SUFFICES ASSUME Bad # {} PROVE FALSE
    OBVIOUS
  <2>2. PICK s \in Bad : \A u \in Bad : u \subseteq s => u = s
    <3>1. Bad \in SUBSET SUBSET S /\ IsFiniteSet(S)
      BY SumsOfOffers
    <3> HIDE DEF Bad
    <3> QED
      BY <2>1, <3>1, SmallestSubset
  <2>3. s \in SUBSET S /\ s # {}
    OBVIOUS
  <2> DEFINE p == Picked(s)
             t == s \ {p}
  <2>4. /\ p \in s /\ p \in Psbt /\ t \in SUBSET S
        /\ v[s] = Counted(o, p) + v[t] /\ f[s] = o[p].fee + f[t]
        /\ v[t] \in Nat /\ f[t] \in Nat
    <3>1. p \in s
      BY <2>3, PickedIsIn
    <3>2. ValueOf(o, S)[p] = Counted(o, p) /\ FeeOf(o, S)[p] = o[p].fee
      BY <2>3, <3>1 DEF ValueOf, FeeOf
    <3> QED
      BY <1>5, <2>3, <3>1, <3>2
  <2>5. t = {} \/ 2 * v[t] + d <= 2 * d * f[t]
    <3>1. p \in s /\ t \in SUBSET S
      BY <2>4
    <3>2. t \notin Bad
      <4> HIDE DEF Bad
      <4> QED
        BY <2>2, <3>1
    <3> QED
      BY <3>1, <3>2
  <2> HIDE DEF p, t, Bad
  <2>6. 2 * d * f[s] = 2 * d * o[p].fee + 2 * d * f[t]
    BY <1>1, <1>2, <2>4
  <2>7. 2 * v[s] + d <= 2 * d * f[s]
    <3>1. /\ 2 * d * f[t] \in Nat /\ 2 * d * o[p].fee \in Nat /\ 2 * d * f[s] \in Nat
          /\ d \in Nat /\ Counted(o, p) \in Nat /\ v[t] \in Nat
          /\ 2 * Counted(o, p) + d < 2 * d * o[p].fee
      BY <1>1, <1>2, <2>4, <2>6
    <3>2. CASE t = {}
      BY <1>5, <2>4, <2>6, <3>1, <3>2
    <3>3. CASE 2 * v[t] + d <= 2 * d * f[t]
      BY <2>4, <2>6, <3>1, <3>3
    <3> QED
      BY <2>5, <3>2, <3>3
  <2> QED
    BY <2>2, <2>7 DEF Bad
<1>7. 2 * Value(o, S) + d <= 2 * d * Fee(o, S)
  BY <1>3, <1>4, <1>6
<1> HIDE DEF d
<1>8. Rounded(Value(o, S), d) <= Fee(o, S)
  BY <1>1, <1>7, SumsOfOffers, RoundedBelow
<1> QED
  BY <1>8 DEF ServiceFees, d

\* Every PSBT of the run has passed validatePSBT, and offers do not change.
AllValidated == MinersPaidBy(offer)

LEMMA InitValidated == Init => TypeOK /\ AllValidated
BY InitInv DEF Init, Inv, AllValidated, MinersPaidBy, Validated

LEMMA ValidatedKept == ASSUME TypeOK, AllValidated, [Next]_vars PROVE AllValidated'
<1>1. offer' = offer
  BY InputsKept DEF inputs
<1> QED
  BY <1>1 DEF AllValidated

LEMMA ValidatedFit == ASSUME TypeOK, AllValidated PROVE ServiceFeesFit
<1> SUFFICES ASSUME NEW S \in SUBSET {p \in Psbt : offer[p].witness}, S # {}
             PROVE  ServiceFees(offer, S) <= Funds(offer, S)
  BY DEF ServiceFeesFit
<1>1. ServiceFees(offer, S) <= Fee(offer, S)
  BY FeesFit DEF TypeOK, AllValidated
<1>2. Funds(offer, S) = Fee(offer, S)
  BY FundsOfCounted, SumsOfOffers DEF TypeOK
<1> QED
  BY <1>1, <1>2

\* The service fee of a batch never exceeds the funds of its PSBTs, however many they
\* are, at any FEE of the form 1 / n and for any rounding, as long as their inputs have
\* a witnessUtxo: one by one validatePSBT suffices.
THEOREM FeesAlwaysFit == Spec => []ServiceFeesFit
<1>1. TypeOK /\ AllValidated /\ [Next]_vars => (TypeOK /\ AllValidated)'
  BY TypesKept, ValidatedKept
<1>2. TypeOK /\ AllValidated => ServiceFeesFit
  BY ValidatedFit
<1> QED
  BY InitValidated, <1>1, <1>2, PTL DEF Spec

-----------------------------------------------------------------------------
(* The two transactions of a batch. *)

LEMMA QuotientGrows ==
  ASSUME NEW a \in Nat \ {0}, NEW w \in Nat
  PROVE  /\ (a + 0 * w + 3) \div 4 \in Nat \ {0}
         /\ (a + 1 * w + 3) \div 4 \in Nat \ {0}
         /\ (a + 0 * w + 3) \div 4 <= (a + 1 * w + 3) \div 4
OBVIOUS

\* The fee output makes a transaction longer, if anything; of the hashes only those
\* of its own PSBTs count.
LEMMA Sizes ==
  ASSUME NEW S \in SUBSET Psbt, NEW i
  PROVE  /\ VSize(i, S, 0) \in Nat \ {0} /\ VSize(i, S, 1) \in Nat \ {0}
         /\ VSize(i, S, 0) <= VSize(i, S, 1)
         /\ \A j, n : S \cap i = S \cap j => VSize(i, S, n) = VSize(j, S, n)
<1> DEFINE a == TxWeight + Cardinality(S) * PsbtWeight + Cardinality(S \cap i) * SignatureWeight
<1>1. Cardinality(S) \in Nat /\ Cardinality(S \cap i) \in Nat
  <2>1. IsFiniteSet(S) /\ IsFiniteSet(S \cap i)
    BY ConstantsAssumption, FS_Subset
  <2> QED
    BY <2>1, FS_CardinalityType, Zenon
<1>2. a \in Nat \ {0}
  <2>1. \A c \in Nat, w \in Nat : c * w \in Nat
    OBVIOUS
  <2>2. /\ Cardinality(S) * PsbtWeight \in Nat
        /\ Cardinality(S \cap i) * SignatureWeight \in Nat
    BY <1>1, <2>1, ConstantsAssumption
  <2> QED
    BY <2>2, ConstantsAssumption
<1>3. \A n : VSize(i, S, n) = (a + n * OutputWeight + 3) \div 4
  BY DEF VSize
<1>4. OutputWeight \in Nat
  BY ConstantsAssumption
<1>5. \A j, n : S \cap i = S \cap j => VSize(i, S, n) = VSize(j, S, n)
  BY Zenon DEF VSize
<1> HIDE DEF a
<1> QED
  BY <1>2, <1>3, <1>4, <1>5, QuotientGrows

\* What a rate rounded down guarantees.
LEMMA MeetsPays ==
  ASSUME NEW m \in Int, NEW v \in Nat \ {0}, NEW r \in Nat, m \div v >= r
  PROVE  r * v \in Nat /\ r * v <= m
<1>1. m \div v \in Int /\ v * (m \div v) <= m
  BY Quotient
<1>2. v * r <= v * (m \div v)
  BY <1>1, TimesMonotone
<1>3. r * v \in Nat /\ v * r = r * v
  OBVIOUS
<1>4. v * (m \div v) \in Int
  BY <1>1
<1> QED
  BY <1>1, <1>2, <1>3, <1>4

\* The arithmetic of batchBucket: t is the staged transaction, s its service fee and
\* u the final one.
LEMMA Settled ==
  ASSUME NEW S \in SUBSET Psbt, NEW o \in [Psbt -> Offers], NEW r \in Nat,
         ServiceFees(o, S) <= Fee(o, S),
         NEW i, NEW j, S \cap i = S \cap j,
         NEW t, t = Finalized(o, i, S, ServiceFees(o, S)), t.outputs = 1, Meets(t, r),
         NEW k, k = (IF t.mining - r * t.vsize > 0 THEN t.mining - r * t.vsize ELSE 0),
         NEW u, u = Finalized(o, j, S, ServiceFees(o, S) + k - 1)
  PROVE  /\ u.mining >= r * u.vsize
         /\ \/ u.mining <= r * u.vsize + 1
            \/ \E p \in S : ~o[p].witness
            \/ ServiceFees(o, S) = DustLimit + 1
<1> DEFINE s == ServiceFees(o, S)
           m == Fee(o, S)
           v0 == VSize(i, S, 0)
           v1 == VSize(i, S, 1)
<1>1. s \in Nat /\ m \in Nat /\ s <= m
  BY SumsOfOffers
<1>2. v0 \in Nat /\ v1 \in Nat \ {0} /\ v0 <= v1 /\ v0 = VSize(j, S, 0) /\ v1 = VSize(j, S, 1)
  BY Sizes
<1>3. s > 546 /\ t.mining = m - s /\ t.vsize = v1
  <2>1. FeeOutputs(o, S, s) = 1
    BY DEF Finalized
  <2>2. t.mining = m - 1 * s /\ t.vsize = v1
    BY <2>1 DEF Finalized
  <2>3. s > 546
    BY <2>1 DEF FeeOutputs, DustLimit
  <2> HIDE DEF s, m
  <2> QED
    BY <1>1, <2>2, <2>3
<1> DEFINE n == s + k - 1
<1>4. /\ u.mining = m - FeeOutputs(o, S, n) * n
      /\ u.vsize = VSize(j, S, FeeOutputs(o, S, n))
      /\ FeeOutputs(o, S, n) = IF n > 546 /\ Funds(o, S) >= n THEN 1 ELSE 0
  BY DEF Finalized, FeeOutputs, DustLimit
<1>5. (m - s) \div v1 >= r
  BY <1>3 DEF Meets
<1>6. k = IF (m - s) - r * v1 > 0 THEN (m - s) - r * v1 ELSE 0
  BY <1>3
<1> HIDE DEF s, m, v0, v1
<1>7. r * v1 \in Nat /\ r * v1 <= m - s
  BY <1>1, <1>2, <1>5, MeetsPays
<1>8. k = (m - s) - r * v1 /\ n = m - r * v1 - 1
  BY <1>1, <1>6, <1>7
<1> HIDE DEF n
<1>9. CASE n > 546 /\ Funds(o, S) >= n
  <2>1. FeeOutputs(o, S, n) = 1
    BY <1>4, <1>9
  <2>2. u.mining = m - 1 * n /\ u.vsize = v1
    BY <1>2, <1>4, <2>1
  <2>3. u.mining = r * v1 + 1
    BY <1>1, <1>7, <1>8, <2>2
  <2> QED
    BY <1>7, <2>2, <2>3
<1>10. CASE ~(n > 546 /\ Funds(o, S) >= n)
  <2>1. FeeOutputs(o, S, n) = 0
    BY <1>4, <1>10
  <2>2. u.mining = m - 0 * n /\ u.vsize = v0
    BY <1>2, <1>4, <2>1
  <2>3. u.mining = m
    BY <1>1, <1>7, <1>8, <2>2
  <2>4. r * v0 <= r * v1 /\ r * v0 \in Nat
    BY <1>2, TimesMonotone
  <2>5. u.mining >= r * u.vsize
    BY <1>1, <1>7, <2>2, <2>3, <2>4
  <2>6. CASE \A p \in S : o[p].witness
    <3>1. Funds(o, S) = m
      BY <1>1, <2>6, FundsOfCounted DEF m
    <3>2. ~(n > 546)
      BY <1>1, <1>7, <1>8, <1>10, <3>1
    <3>3. s = 547
      BY <1>1, <1>3, <1>7, <1>8, <3>2
    <3> QED
      BY <2>5, <3>3 DEF s, DustLimit
  <2> QED
    BY <2>5, <2>6
<1> QED
  BY <1>9, <1>10

\* What batchBucket knows of its two transactions. The hashes it read for either
\* may have changed since.
Priced ==
  /\ pc \in {"staged", "batched"} =>
       /\ chosen # {} /\ Meets(staged, threshold)
       /\ \E i \in SUBSET CoSigned :
            staged = Finalized(offer, i, chosen, ServiceFees(offer, chosen))
  /\ final # NoTx =>
       /\ pc = "batched"
       /\ \E j \in SUBSET CoSigned : final = Finalized(offer, j, chosen, FinalServiceFees)

PriceInv == TypeOK /\ AllValidated /\ Priced

LEMMA PricedKept == ASSUME TypeOK, Priced, [Next]_vars PROVE Priced'
<1>0. offer' = offer /\ threshold' = threshold
  BY InputsKept DEF inputs
<1>1. CASE UNCHANGED <<pc, chosen, staged, final>>
  BY <1>0, <1>1 DEF Priced, FinalServiceFees, Overpaid
<1>2. CASE Stage
  <2>1. /\ pc = "chosen" /\ chosen # {} /\ chosen' = chosen /\ final' = final
        /\ staged' = Finalized(offer, indexed, chosen, ServiceFees(offer, chosen))
        /\ pc' = IF Meets(staged', threshold) THEN "staged" ELSE "none"
    BY <1>2 DEF Stage, Staged
  <2>2. indexed \in SUBSET CoSigned
    BY DEF TypeOK
  <2>3. final' = NoTx
    BY <2>1 DEF Priced
  <2> QED
    BY <1>0, <2>1, <2>2, <2>3 DEF Priced
<1>3. CASE Finish
  <2>1. /\ pc = "staged" /\ pc' = "batched" /\ chosen' = chosen /\ staged' = staged
        /\ final' = Finalized(offer, indexed, chosen, FinalServiceFees)
    BY <1>3 DEF Finish
  <2>2. indexed \in SUBSET CoSigned
    BY DEF TypeOK
  <2>3. FinalServiceFees' = FinalServiceFees
    BY <1>0, <2>1 DEF FinalServiceFees, Overpaid
  <2> QED
    BY <1>0, <2>1, <2>2, <2>3 DEF Priced
<1>4. CASE pc # "batched" /\ pc' \notin {"staged", "batched"} /\ final' = final
  BY <1>4 DEF Priced
<1>5. \/ UNCHANGED <<pc, chosen, staged, final>> \/ Stage \/ Finish
      \/ pc # "batched" /\ pc' \notin {"staged", "batched"} /\ final' = final
  BY DEF Next, Run, vars, Sort, TryAll, Push, Skip, Exhausted, GiveUp, HashDeleted, HashWritten
<1> QED
  BY <1>1, <1>2, <1>3, <1>4, <1>5

LEMMA PricedPays == ASSUME PriceInv PROVE FinalPaysMiners
<1> SUFFICES ASSUME final # NoTx, staged.outputs = 1, final.signed = staged.signed
             PROVE  /\ final.mining >= threshold * final.vsize
                    /\ \/ final.mining <= threshold * final.vsize + 1
                       \/ \E p \in chosen : ~offer[p].witness
                       \/ ServiceFees(offer, chosen) = DustLimit + 1
  BY DEF FinalPaysMiners
<1>1. /\ TypeOK /\ AllValidated /\ Priced
      /\ chosen \in SUBSET Psbt /\ offer \in [Psbt -> Offers] /\ threshold \in Nat
  BY ConstantsAssumption DEF PriceInv, TypeOK
<1>2. chosen # {} /\ Meets(staged, threshold)
  BY <1>1 DEF Priced
<1>3. PICK i \in SUBSET CoSigned :
        staged = Finalized(offer, i, chosen, ServiceFees(offer, chosen))
  BY <1>1 DEF Priced
<1>4. PICK j \in SUBSET CoSigned : final = Finalized(offer, j, chosen, FinalServiceFees)
  BY <1>1 DEF Priced
<1>5. chosen \cap i = chosen \cap j
  BY <1>3, <1>4 DEF Finalized
<1>6. ServiceFees(offer, chosen) <= Fee(offer, chosen)
  BY <1>1, <1>2, FeesFit DEF AllValidated
<1> DEFINE k == IF staged.mining - threshold * staged.vsize > 0
                THEN staged.mining - threshold * staged.vsize ELSE 0
<1>7. FinalServiceFees = ServiceFees(offer, chosen) + k - 1
  BY DEF FinalServiceFees, Overpaid
<1> QED
  BY <1>1, <1>2, <1>3, <1>4, <1>5, <1>6, <1>7, Settled

\* The final transaction pays the miners what was asked, at any rate and for any batch,
\* and no more than a satoshi on top if all inputs have a witnessUtxo: what the first
\* transaction overpaid, the second returns.
THEOREM MinersPaid == Spec => []FinalPaysMiners
<1>1. Init => PriceInv
  BY InitValidated DEF Init, PriceInv, Priced
<1>2. PriceInv /\ [Next]_vars => PriceInv'
  BY TypesKept, ValidatedKept, PricedKept DEF PriceInv
<1>3. PriceInv => FinalPaysMiners
  BY PricedPays
<1> QED
  BY <1>1, <1>2, <1>3, PTL DEF Spec

-----------------------------------------------------------------------------
(* The run gets on. That it does not stop needs fairness; that its steps    *)
(* are bounded and that it always has one does not.                         *)

\* What is left of a run, in steps: the attempts of this call, and those of the calls
\* that follow a push, each with one PSBT less.
Attempts(n) == n * n
StepsLeft ==
  CASE pc = "sort"   -> Attempts(Cardinality(rest)) + Cardinality(rest) + 6
    [] pc = "full"   -> Attempts(Cardinality(rest)) + Cardinality(rest) + 5
    [] pc = "push"   -> Attempts(Cardinality(rest)) + Cardinality(rest \ tried) + 4
    [] pc = "chosen" -> 3
    [] pc = "staged" -> 2
    [] OTHER         -> 0

\* fillUpBucket's recursion and its attempts end: a run has at most n^2 + n + 6
\* steps for n PSBTs, and requests that write hashes meanwhile add none.
RunGetsOn ==
  [][StepsLeft' < StepsLeft \/ (StepsLeft' = StepsLeft /\ indexed' # indexed)]_vars

LEMMA Counts ==
  ASSUME TypeOK
  PROVE  /\ IsFiniteSet(rest) /\ IsFiniteSet(rest \ tried)
         /\ Cardinality(rest) \in Nat /\ Cardinality(rest \ tried) \in Nat
         /\ Cardinality(rest \ tried) <= Cardinality(rest)
         /\ \A p \in rest : Cardinality(rest \ {p}) = Cardinality(rest) - 1
         /\ \A p \in rest \ tried :
              Cardinality((rest \ tried) \ {p}) = Cardinality(rest \ tried) - 1
<1>1. IsFiniteSet(rest)
  BY ConstantsAssumption, FS_Subset DEF TypeOK
<1>2. IsFiniteSet(rest \ tried) /\ Cardinality(rest \ tried) <= Cardinality(rest)
  BY <1>1, FS_Subset
<1> QED
  BY <1>1, <1>2, FS_CardinalityType, FS_RemoveElement

LEMMA Squares ==
  /\ \A n \in Nat : Attempts(n) \in Nat
  /\ \A n \in Nat \ {0} : Attempts(n) = Attempts(n - 1) + 2 * n - 1
BY DEF Attempts

\* Each action of the run takes something away.
LEMMA RunShrinks == ASSUME TypeOK, Run PROVE StepsLeft' < StepsLeft
<1> DEFINE n == Cardinality(rest)
           m == Cardinality(rest \ tried)
<1>0. n \in Nat /\ m \in Nat /\ m <= n /\ Attempts(n) \in Nat
  BY Counts, Squares
<1>1. CASE Sort
  BY <1>0, <1>1 DEF Sort, StepsLeft
<1>2. CASE TryAll
  BY <1>0, <1>2 DEF TryAll, StepsLeft, fill
<1>3. ASSUME NEW p \in Psbt, Push(p) PROVE StepsLeft' < StepsLeft
  <2>1. p \in rest /\ p \in rest \ tried /\ rest' = rest \ {p}
    BY <1>3 DEF Push, InLine, Without
  <2>2. Cardinality(rest') = n - 1 /\ Cardinality((rest \ tried) \ {p}) = m - 1
    BY <2>1, Counts
  <2>3. n > 0 /\ m > 0
    <3>1. n # 0 /\ m # 0
      BY <2>1, Counts, FS_EmptySet
    <3> QED
      BY <1>0, <3>1
  <2>4. pc = "push" /\ pc' = "full"
    BY <1>3 DEF Push
  <2>5. /\ StepsLeft = Attempts(n) + m + 4
        /\ StepsLeft' = Attempts(n - 1) + (n - 1) + 5
    BY <2>2, <2>4 DEF StepsLeft
  <2>6. Attempts(n) = Attempts(n - 1) + 2 * n - 1 /\ Attempts(n - 1) \in Nat
    BY <1>0, <2>3, Squares
  <2> HIDE DEF n, m
  <2> QED
    BY <1>0, <2>3, <2>5, <2>6
<1>4. ASSUME NEW p \in Psbt, Skip(p) PROVE StepsLeft' < StepsLeft
  <2>1. /\ p \in rest \ tried /\ rest' = rest /\ rest' \ tried' = (rest \ tried) \ {p}
        /\ pc = "push" /\ pc' = "push"
    BY <1>4 DEF Skip, InLine
  <2>2. Cardinality(rest' \ tried') = m - 1
    BY <2>1, Counts
  <2>3. StepsLeft = Attempts(n) + m + 4 /\ StepsLeft' = Attempts(n) + (m - 1) + 4
    BY <2>1, <2>2 DEF StepsLeft
  <2> HIDE DEF n, m
  <2> QED
    BY <1>0, <2>3
<1>5. CASE Exhausted
  BY <1>0, <1>5 DEF Exhausted, StepsLeft
<1>6. CASE GiveUp
  BY <1>6 DEF GiveUp, StepsLeft
<1>7. CASE Stage
  BY <1>7 DEF Stage, StepsLeft
<1>8. CASE Finish
  BY <1>8 DEF Finish, StepsLeft
<1> QED
  BY <1>1, <1>2, <1>3, <1>4, <1>5, <1>6, <1>7, <1>8 DEF Run

\* fillUpBucket and batchBucket come to an end after at most n^2 + n + 6 steps of their
\* own, for any number n of PSBTs, with any revocations in between.
THEOREM RunIsBounded == Spec => RunGetsOn
<1>1. ASSUME TypeOK, [Next]_vars
      PROVE  [StepsLeft' < StepsLeft \/ (StepsLeft' = StepsLeft /\ indexed' # indexed)]_vars
  <2>1. ASSUME NEW p \in Psbt, HashDeleted(p) \/ HashWritten(p)
        PROVE  StepsLeft' = StepsLeft /\ indexed' # indexed
    BY <2>1 DEF HashDeleted, HashWritten, fill, StepsLeft
  <2> QED
    BY <1>1, <2>1, RunShrinks DEF Next
<1> QED
  BY TypeCorrect, <1>1, PTL DEF Spec, RunGetsOn

DensityOK == density \in [Psbt -> [gain : Nat, size : Nat \ {0}]]

LEMMA DensitiesKept ==
  ASSUME TypeOK, AllValidated, DensityOK, [Next]_vars
  PROVE  DensityOK'
<1>1. CASE Sort
  <2>1. ASSUME NEW p \in Psbt
        PROVE  Density(offer, indexed, p) \in [gain : Nat, size : Nat \ {0}]
    <3>1. {p} \in SUBSET Psbt /\ offer \in [Psbt -> Offers]
      BY DEF TypeOK
    <3>2. ServiceFees(offer, {p}) \in Nat
      BY <3>1, SumsOfOffers
    <3>3. offer[p].fee - ServiceFees(offer, {p}) \in Nat
      <4>1. offer[p].fee \in Nat
        BY <3>1, ConstantsAssumption
      <4>2. offer[p].fee - ServiceFees(offer, {p}) > 0
        BY DEF AllValidated, MinersPaidBy
      <4> QED
        BY <3>2, <4>1, <4>2
    <3>4. VSize(indexed, {p}, 0) \in Nat \ {0}
      BY <3>1, Sizes
    <3>5. \A a \in Nat, b \in Nat : a * b \in Nat
      OBVIOUS
    <3>6. ServiceFees(offer, {p}) * (offer[p].fee - ServiceFees(offer, {p})) \in Nat
      BY <3>2, <3>3, <3>5
    <3> QED
      BY <3>4, <3>6 DEF Density
  <2>2. density' = [p \in Psbt |-> Density(offer, indexed, p)]
    BY <1>1 DEF Sort
  <2> QED
    BY <2>1, <2>2 DEF DensityOK
<1>2. CASE UNCHANGED density
  BY <1>2 DEF DensityOK
<1>3. Sort \/ UNCHANGED density
  BY DEF Next, Run, vars, fill, TryAll, Push, Skip, Exhausted, GiveUp, Stage, Finish,
         HashDeleted, HashWritten
<1> QED
  BY <1>1, <1>2, <1>3

\* Fractions compared by cross multiplication are in a total preorder.
LEMMA Fractions ==
  ASSUME NEW a \in Nat, NEW b \in Nat \ {0}, NEW c \in Nat, NEW d \in Nat \ {0},
         NEW e \in Nat, NEW f \in Nat \ {0},
         a * d >= c * b, c * f >= e * d
  PROVE  a * f >= e * b
<1>1. \A x \in Nat, y \in Nat : x * y \in Nat /\ x * y = y * x
  OBVIOUS
<1>2. \A x \in Nat, y \in Nat, z \in Nat : (x * y) * z = x * (y * z)
  OBVIOUS
<1>3. f * (c * b) <= f * (a * d)
  BY <1>1, TimesMonotone
<1>4. b * (e * d) <= b * (c * f)
  BY <1>1, TimesMonotone
<1>5. f * (c * b) = b * (c * f)
  BY <1>1, <1>2
<1>6. f * (a * d) = d * (a * f) /\ b * (e * d) = d * (e * b)
  BY <1>1, <1>2
<1>7. a * f \in Nat /\ e * b \in Nat
  BY <1>1
<1>8. d * (e * b) <= d * (a * f)
  <2>1. f * (c * b) \in Nat /\ f * (a * d) \in Nat /\ b * (e * d) \in Nat
    BY <1>1
  <2> QED
    BY <1>3, <1>4, <1>5, <1>6, <2>1
<1>9. ASSUME NEW x \in Nat, NEW y \in Nat, d * x <= d * y PROVE x <= y
  <2>1. SUFFICES ASSUME y + 1 <= x PROVE FALSE
    OBVIOUS
  <2>2. d * (y + 1) <= d * x
    BY <2>1, TimesMonotone
  <2>3. d * (y + 1) = d * y + d
    OBVIOUS
  <2>4. d * x \in Nat /\ d * y \in Nat
    OBVIOUS
  <2> QED
    BY <1>9, <2>2, <2>3, <2>4
<1> QED
  BY <1>7, <1>8, <1>9

LEMMA DenserIsPreorder ==
  ASSUME DensityOK
  PROVE  /\ \A p, q \in Psbt : Denser(p, q) \/ Denser(q, p)
         /\ \A p, q, r \in Psbt : Denser(p, q) /\ Denser(q, r) => Denser(p, r)
<1>1. ASSUME NEW p \in Psbt
      PROVE  density[p].gain \in Nat /\ density[p].size \in Nat \ {0}
  BY DEF DensityOK
<1>2. ASSUME NEW p \in Psbt, NEW q \in Psbt PROVE Denser(p, q) \/ Denser(q, p)
  <2>1. \A x \in Nat, y \in Nat : x * y \in Nat
    OBVIOUS
  <2>2. /\ density[p].gain * density[q].size \in Nat
        /\ density[q].gain * density[p].size \in Nat
    BY <1>1, <2>1
  <2> QED
    BY <2>2 DEF Denser
<1>3. ASSUME NEW p \in Psbt, NEW q \in Psbt, NEW r \in Psbt, Denser(p, q), Denser(q, r)
      PROVE  Denser(p, r)
  BY <1>1, <1>3, Fractions DEF Denser
<1> QED
  BY <1>2, <1>3

\* Of any PSBTs one is the densest, be it equally with others.
LEMMA DensestExists ==
  ASSUME DensityOK, NEW S \in SUBSET Psbt, S # {}
  PROVE  \E p \in S : \A q \in S : Denser(p, q)
<1> DEFINE Bad == {s \in SUBSET Psbt : s # {} /\ ~ \E p \in s : \A q \in s : Denser(p, q)}
<1>1. SUFFICES ASSUME Bad # {} PROVE FALSE
  OBVIOUS
<1>2. PICK s \in Bad : \A u \in Bad : u \subseteq s => u = s
  <2>1. Bad \in SUBSET SUBSET Psbt
    OBVIOUS
  <2> HIDE DEF Bad
  <2> QED
    BY <1>1, <2>1, SmallestSubset, ConstantsAssumption
<1>3. PICK x \in s : TRUE
  OBVIOUS
<1>4. s \subseteq Psbt /\ x \in Psbt /\ Denser(x, x)
  BY <1>3, DenserIsPreorder
<1>5. CASE s = {x}
  BY <1>4, <1>5
<1>6. CASE s # {x}
  <2>1. s \ {x} \notin Bad /\ s \ {x} # {} /\ s \ {x} \in SUBSET Psbt
    BY <1>2, <1>3, <1>6
  <2>2. PICK p \in s \ {x} : \A q \in s \ {x} : Denser(p, q)
    BY <2>1
  <2>3. CASE Denser(p, x)
    BY <1>4, <2>2, <2>3
  <2>4. CASE Denser(x, p)
    <3>1. \A q \in s : Denser(x, q)
      BY <1>4, <2>2, <2>4, DenserIsPreorder
    <3> QED
      BY <3>1
  <2> QED
    BY <1>4, <2>2, <2>3, <2>4, DenserIsPreorder
<1> QED
  BY <1>5, <1>6

\* While attemptPushToBucket has something left to try, one PSBT is next.
NextFound == pc = "push" => rest \subseteq tried \/ \E p \in Psbt : InLine(p)

\* The run is never stuck between two attempts: the sort by density puts one of the
\* PSBTs left first, also where the fractions are equal or zero.
THEOREM NeverStuck == Spec => []NextFound
<1> DEFINE DenseInv == TypeOK /\ AllValidated /\ DensityOK
<1>1. Init => DenseInv
  BY InitValidated DEF Init, DensityOK
<1>2. DenseInv /\ [Next]_vars => DenseInv'
  BY TypesKept, ValidatedKept, DensitiesKept
<1>3. DenseInv => NextFound
  <2> SUFFICES ASSUME DenseInv, ~(rest \subseteq tried)
               PROVE  \E p \in Psbt : InLine(p)
    BY DEF NextFound
  <2>1. rest \ tried \in SUBSET Psbt /\ rest \ tried # {}
    BY DEF TypeOK
  <2> QED
    BY <2>1, DensestExists DEF InLine
<1> HIDE DEF DenseInv
<1> QED
  BY <1>1, <1>2, <1>3, PTL DEF Spec

=============================================================================
