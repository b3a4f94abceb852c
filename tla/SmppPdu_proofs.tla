--------------------------- MODULE SmppPdu_proofs ---------------------------
(***************************************************************************)
(* Proofs about the PDU classes: command_length is what encode() writes,   *)
(* whatever was called before, and decode() takes apart what encode() put  *)
(* together.  They hold for every set of classes, lengths, TLVs and texts  *)
(* that PduAssumption allows and for any number of calls.                  *)
(*                                                                         *)
(* encode() and decode() are loops, here recursive functions: the first    *)
(* section shows that such functions exist and what FlattenSeq and sums    *)
(* over sets return.                                                       *)
(***************************************************************************)
EXTENDS SmppPdu, FiniteSetTheorems, SequenceTheorems, TLAPS

(* A set of natural numbers has a least element. *)
LEMMA LeastElement ==
  ASSUME NEW S \in SUBSET Nat, S # {}
  PROVE  \E x \in S : \A y \in S : x <= y
<1> DEFINE T == {1 .. n : n \in S}
           R == StrictSubsetOrdering(Nat)
<1>1. T # {} /\ T \subseteq FiniteSubsetsOf(Nat)
  <2>1. \A n \in S : IsFiniteSet(1 .. n) /\ 1 .. n \subseteq Nat
    BY FS_Interval
  <2> QED BY <2>1 DEF FiniteSubsetsOf
<1>2. \E A \in T : \A B \in T : ~ (<<B, A>> \in R)
  BY <1>1, FS_StrictSubsetOrderingWellFounded, WFMin
<1>3. PICK x \in S : \A y \in S : ~ (<<1 .. y, 1 .. x>> \in R)
  BY <1>2
<1>4. ASSUME NEW y \in S, y < x
      PROVE  <<1 .. y, 1 .. x>> \in R
  BY <1>4 DEF StrictSubsetOrdering
<1> HIDE DEF R
<1>5. \A y \in S : ~ (y < x)
  BY <1>3, <1>4
<1>6. \A y \in S : y \in Int /\ x \in Int
  OBVIOUS
<1> QED BY <1>5, <1>6

(* Induction over the natural numbers, for a set instead of a predicate. *)
LEMMA EveryNumber ==
  ASSUME NEW S \in SUBSET Nat, 0 \in S, \A n \in S : n + 1 \in S
  PROVE  S = Nat
<1> SUFFICES ASSUME Nat \ S # {} PROVE FALSE
  OBVIOUS
<1>1. PICK x \in Nat \ S : \A y \in Nat \ S : x <= y
  <2>1. Nat \ S \in SUBSET Nat
    OBVIOUS
  <2> QED BY <2>1, LeastElement
<1>2. x - 1 \in Nat /\ x - 1 \in S
  BY <1>1
<1> QED BY <1>1, <1>2

(* The same up to a bound. *)
LEMMA UpTo ==
  ASSUME NEW n \in Nat, NEW S, 0 \in S, \A i \in 1 .. n : i - 1 \in S
           => i \in S
  PROVE  \A i \in 0 .. n : i \in S
<1> DEFINE T == {i \in Nat : i <= n => i \in S}
<1>1. \A i \in T : i + 1 \in T
  <2> SUFFICES ASSUME NEW i \in T, i + 1 <= n PROVE i + 1 \in S
    OBVIOUS
  <2>1. i \in S /\ i + 1 \in 1 .. n /\ (i + 1) - 1 = i
    OBVIOUS
  <2> QED BY <2>1
<1>2. T = Nat
  <2>1. T \in SUBSET Nat /\ 0 \in T
    OBVIOUS
  <2> HIDE DEF T
  <2> QED BY <2>1, <1>1, EveryNumber
<1> QED BY <1>2

(* f[i] is what step makes of base in i steps, as in a loop that counts. *)
Iterates(n, base, step, f) ==
  f[0] = base /\ \A i \in 1 .. n : f[i] = step[i][f[i - 1]]

(* A recursive function of 0 .. n exists. *)
LEMMA Recursion ==
  ASSUME NEW n \in Nat, NEW V, NEW base \in V, NEW step \in [1 .. n -> [V -> V]]
  PROVE  \E f \in [0 .. n -> V] : Iterates(n, base, step, f)
<1> DEFINE Begun(m, f) == f[0] = base
    /\ \A i \in 1 .. m : f[i] = step[i][f[i - 1]]
           S == {m \in 0 .. n : \E f \in [0 .. m -> V] : Begun(m, f)}
<1>1. 0 \in S
  <2> DEFINE f == [i \in 0 .. 0 |-> base]
  <2>1. f \in [0 .. 0 -> V] /\ Begun(0, f)
    OBVIOUS
  <2> HIDE DEF f, Begun
  <2>2. \E h \in [0 .. 0 -> V] : Begun(0, h)
    BY <2>1
  <2> QED BY <2>2
<1>2. ASSUME NEW m \in 1 .. n, m - 1 \in S
      PROVE  m \in S
  <2>1. PICK f \in [0 .. m - 1 -> V] : Begun(m - 1, f)
    BY <1>2
  <2> DEFINE g == [i \in 0 .. m |-> IF i < m THEN f[i] ELSE step[m][f[m - 1]]]
  <2>2. g \in [0 .. m -> V]
    OBVIOUS
  <2>3. Begun(m, g)
    BY <2>1
  <2> HIDE DEF g, Begun
  <2>4. \E h \in [0 .. m -> V] : Begun(m, h)
    BY <2>2, <2>3
  <2> QED BY <2>4
<1>3. n \in S
  <2> HIDE DEF S
  <2>1. \A i \in 0 .. n : i \in S
    BY <1>1, <1>2, UpTo
  <2> QED BY <2>1
<1> QED BY <1>3 DEF Iterates

(* The same for a loop that takes the elements out of a set. *)
IteratesSets(U, base, pick, step, f) ==
  /\ f[{}] = base
  /\ \A S \in SUBSET U :
       S # {} => f[S] = step[pick[S]][f[S \ {pick[S]}]]

(* A function of the subsets of a finite set exists that takes one element
   after the other out of its argument. *)
LEMMA SetRecursion ==
  ASSUME NEW U, IsFiniteSet(U), NEW V, NEW base \in V,
         NEW pick \in [(SUBSET U) \ {{}} -> U],
         \A S \in (SUBSET U) \ {{}} : pick[S] \in S,
         NEW step \in [U -> [V -> V]]
  PROVE  \E f \in [SUBSET U -> V] : IteratesSets(U, base, pick, step, f)
<1> DEFINE Small(m) == {S \in SUBSET U : Cardinality(S) <= m}
           Begun(m, f) ==
             /\ f[{}] = base
             /\ \A S \in Small(m) :
                  S # {} => f[S] = step[pick[S]][f[S \ {pick[S]}]]
           M == {m \in Nat : \E f \in [Small(m) -> V] : Begun(m, f)}
<1>0. \A S \in SUBSET U : IsFiniteSet(S) /\ Cardinality(S) \in Nat
  BY FS_Subset, FS_CardinalityType
<1>a. {} \in SUBSET U /\ Cardinality({}) = 0
      /\ \A S \in SUBSET U : Cardinality(S) = 0 => S = {}
  BY <1>0, FS_EmptySet
<1>b. \A S \in SUBSET U : S # {} =>
        S \ {pick[S]} \in SUBSET U
        /\ Cardinality(S \ {pick[S]}) = Cardinality(S) - 1
  BY <1>0, FS_RemoveElement
<1>1. 0 \in M
  <2> DEFINE f == [S \in Small(0) |-> base]
  <2>1. f \in [Small(0) -> V]
    OBVIOUS
  <2>2. {} \in Small(0) /\ \A S \in Small(0) : S = {}
    BY <1>0, <1>a
  <2>3. Begun(0, f)
    BY <2>2
  <2> HIDE DEF f
  <2> QED BY <2>1, <2>3
<1>2. ASSUME NEW m \in M
      PROVE  m + 1 \in M
  <2>1. PICK f \in [Small(m) -> V] : Begun(m, f)
    OBVIOUS
  <2> DEFINE g == [S \in Small(m + 1) |->
                     IF S \in Small(m) THEN f[S] ELSE step[pick[S]][f[S \ {pick[S]}]]]
  <2>2. \A S \in Small(m + 1) : S # {} => S \ {pick[S]} \in Small(m)
    BY <1>0, <1>b, SMTT(30)
  <2>3. {} \in Small(m) /\ Small(m) \subseteq Small(m + 1)
    BY <1>0, <1>a
  <2>4. g \in [Small(m + 1) -> V]
    <3> SUFFICES ASSUME NEW S \in Small(m + 1), S \notin Small(m)
                 PROVE  step[pick[S]][f[S \ {pick[S]}]] \in V
      OBVIOUS
    <3>1. S # {} /\ S \in SUBSET U
      BY <2>3
    <3>2. S \ {pick[S]} \in Small(m) /\ pick[S] \in U
      BY <3>1, <2>2
    <3>3. step[pick[S]] \in [V -> V] /\ f[S \ {pick[S]}] \in V
      BY <3>2
    <3> QED BY <3>3
  <2>5. Begun(m + 1, g)
    <3>1. g[{}] = base
      BY <2>3, <2>1
    <3>2. ASSUME NEW S \in Small(m + 1), S # {}
          PROVE  g[S] = step[pick[S]][g[S \ {pick[S]}]]
      <4>1. S \ {pick[S]} \in Small(m)
        BY <3>2, <2>2
      <4>2. g[S \ {pick[S]}] = f[S \ {pick[S]}]
        BY <4>1, <2>3
      <4>3. S \in Small(m) => f[S] = step[pick[S]][f[S \ {pick[S]}]]
        BY <3>2, <2>1
      <4>4. g[S] = step[pick[S]][f[S \ {pick[S]}]]
        BY <4>3
      <4> QED BY <4>2, <4>4
    <3> HIDE DEF g
    <3> QED BY <3>1, <3>2
  <2> HIDE DEF g, Begun
  <2>6. \E h \in [Small(m + 1) -> V] : Begun(m + 1, h)
    BY <2>4, <2>5
  <2> HIDE DEF Small
  <2> QED BY <2>6
<1>3. Cardinality(U) \in M
  <2> HIDE DEF M
  <2>1. Cardinality(U) \in Nat
    BY FS_CardinalityType
  <2>2. M \in SUBSET Nat
    BY DEF M
  <2> QED BY <2>1, <2>2, <1>1, <1>2, EveryNumber
<1>4. Small(Cardinality(U)) = SUBSET U
  BY FS_Subset, FS_CardinalityType
<1>5. PICK f \in [Small(Cardinality(U)) -> V] : Begun(Cardinality(U), f)
  BY <1>3
<1>6. IteratesSets(U, base, pick, step, f)
  BY <1>4, <1>5 DEF IteratesSets
<1> QED BY <1>4, <1>6

(* Induction over the subsets of a finite set. *)
LEMMA EverySet ==
  ASSUME NEW U, IsFiniteSet(U), NEW P, {} \in P,
         \A S \in (SUBSET U) \ {{}} : (\A x \in S : S \ {x} \in P) => S \in P
  PROVE  \A S \in SUBSET U : S \in P
<1> DEFINE M == {m \in Nat : \A S \in SUBSET U : Cardinality(S) = m => S \in P}
<1>1. \A S \in SUBSET U : IsFiniteSet(S) /\ Cardinality(S) \in Nat
  BY FS_Subset, FS_CardinalityType
<1>2. \A S \in SUBSET U : Cardinality(S) = 0 => S = {}
  BY <1>1, FS_EmptySet
<1>3. 0 \in M
  BY <1>2
<1>4. ASSUME NEW m \in M
      PROVE  m + 1 \in M
  <2> SUFFICES ASSUME NEW S \in SUBSET U, Cardinality(S) = m + 1
               PROVE  S \in P
    OBVIOUS
  <2>1. S # {}
    <3>1. m \in Nat /\ Cardinality({}) = 0
      BY FS_EmptySet
    <3> QED BY <3>1
  <2>2. ASSUME NEW x \in S
        PROVE  S \ {x} \in P
    <3>1. Cardinality(S \ {x}) = m /\ S \ {x} \in SUBSET U
      BY <1>1, FS_RemoveElement
    <3> QED BY <3>1
  <2> QED BY <2>1, <2>2
<1>5. M = Nat
  <2>1. M \in SUBSET Nat
    OBVIOUS
  <2> HIDE DEF M
  <2> QED BY <2>1, <1>3, <1>4, EveryNumber
<1> QED BY <1>1, <1>5

(* A sum over a set (Functions) is the sum over the rest and any element. *)
LEMMA SumSteps ==
  ASSUME NEW U, IsFiniteSet(U), NEW f \in [U -> Nat]
  PROVE  /\ SumFunctionOnSet(f, {}) = 0
         /\ \A S \in SUBSET U :
              /\ SumFunctionOnSet(f, S) \in Nat
              /\ \A x \in S :
                   SumFunctionOnSet(f, S) = f[x] + SumFunctionOnSet(f, S \ {x})
<1> DEFINE pick(S) == CHOOSE x \in S : TRUE
           Sum(S, g) == IF S = {} THEN 0 ELSE f[pick(S)] + g[S \ {pick(S)}]
           iter(T) == CHOOSE g : g = [S \in SUBSET T |-> Sum(S, g)]
<1>1. \A S : S # {} => pick(S) \in S
  OBVIOUS
<1>2. \A T : SumFunctionOnSet(f, T) = iter(T)[T]
  BY DEF SumFunctionOnSet, FoldFunctionOnSet, MapThenFoldSet
<1> HIDE DEF pick
<1>3. \A T \in SUBSET U : iter(T) = [S \in SUBSET T |-> Sum(S, iter(T))]
  <2> SUFFICES ASSUME NEW T \in SUBSET U
               PROVE  \E g : g = [S \in SUBSET T |-> Sum(S, g)]
    OBVIOUS
  <2> DEFINE picks == [S \in (SUBSET T) \ {{}} |-> pick(S)]
             step == [x \in T |-> [n \in Nat |-> f[x] + n]]
  <2>1. /\ picks \in [(SUBSET T) \ {{}} -> T]
        /\ \A S \in (SUBSET T) \ {{}} : picks[S] \in S
    BY <1>1
  <2>2. IsFiniteSet(T) /\ step \in [T -> [Nat -> Nat]] /\ 0 \in Nat
    BY FS_Subset
  <2>3. PICK g \in [SUBSET T -> Nat] :
          /\ g[{}] = 0
          /\ \A S \in SUBSET T : S # {}
               => g[S] = step[picks[S]][g[S \ {picks[S]}]]
    <3> HIDE DEF picks, step
    <3>1. \E g \in [SUBSET T -> Nat] : IteratesSets(T, 0, picks, step, g)
      BY <2>1, <2>2, SetRecursion
    <3> QED BY <3>1 DEF IteratesSets
  <2>4. \A S \in SUBSET T : g[S] = Sum(S, g)
    <3> SUFFICES ASSUME NEW S \in SUBSET T, S # {}
                 PROVE  g[S] = f[pick(S)] + g[S \ {pick(S)}]
      BY <2>3
    <3>1. picks[S] = pick(S) /\ pick(S) \in T /\ g[S \ {pick(S)}] \in Nat
      BY <1>1
    <3>2. step[pick(S)][g[S \ {pick(S)}]] = f[pick(S)] + g[S \ {pick(S)}]
      BY <3>1
    <3> QED BY <2>3, <3>1, <3>2
  <2>5. g = [S \in SUBSET T |-> Sum(S, g)]
    BY <2>4
  <2> QED BY <2>5
<1> HIDE DEF iter
<1>4. ASSUME NEW T \in SUBSET U
      PROVE  \A S \in SUBSET T : iter(T)[S] = iter(U)[S] /\ iter(U)[S] \in Nat
  <2> DEFINE P == {S \in SUBSET T : iter(T)[S] = iter(U)[S] /\ iter(U)[S] \in Nat}
  <2>1. IsFiniteSet(T)
    BY FS_Subset
  <2>2. {} \in P
    <3>1. {} \in SUBSET T /\ {} \in SUBSET U /\ U \in SUBSET U
      OBVIOUS
    <3>2. iter(T)[{}] = 0 /\ iter(U)[{}] = 0
      BY <1>3, <3>1
    <3> QED BY <3>1, <3>2
  <2>3. ASSUME NEW S \in (SUBSET T) \ {{}}, \A x \in S : S \ {x} \in P
        PROVE  S \in P
    <3>1. pick(S) \in S /\ pick(S) \in U
      BY <1>1
    <3>2. S \ {pick(S)} \in P
      BY <2>3, <3>1
    <3>3. /\ iter(T)[S] = f[pick(S)] + iter(T)[S \ {pick(S)}]
          /\ iter(U)[S] = f[pick(S)] + iter(U)[S \ {pick(S)}]
      BY <1>3
    <3> QED BY <3>1, <3>2, <3>3
  <2> HIDE DEF P
  <2>4. \A S \in SUBSET T : S \in P
    BY <2>1, <2>2, <2>3, EverySet
  <2> QED BY <2>4 DEF P
<1> DEFINE G(S) == iter(U)[S]
<1>5. \A S \in SUBSET U : SumFunctionOnSet(f, S) = G(S) /\ G(S) \in Nat
  BY <1>2, <1>4
<1>6. G({}) = 0 /\ \A S \in SUBSET U : S # {}
        => G(S) = f[pick(S)] + G(S \ {pick(S)})
  BY <1>3
<1> HIDE DEF G
<1>7. \A S \in SUBSET U : \A x \in S : G(S) = f[x] + G(S \ {x})
  <2> DEFINE P == {S \in SUBSET U : \A x \in S : G(S) = f[x] + G(S \ {x})}
  <2>1. {} \in P
    OBVIOUS
  <2>2. ASSUME NEW S \in (SUBSET U) \ {{}}, \A x \in S : S \ {x} \in P
        PROVE  S \in P
    <3> SUFFICES ASSUME NEW x \in S, x # pick(S)
                 PROVE  G(S) = f[x] + G(S \ {x})
      BY <1>6
    <3> DEFINE y == pick(S)
               R == S \ {x, y}
    <3>1. y \in S /\ y \in U /\ x \in U
      BY <1>1
    <3>2. G(S) = f[y] + G(S \ {y})
      BY <1>6
    <3>3. G(S \ {y}) = f[x] + G(R)
      <4>1. S \ {y} \in P /\ x \in S \ {y} /\ (S \ {y}) \ {x} = R
        BY <2>2, <3>1
      <4> QED BY <4>1
    <3>4. G(S \ {x}) = f[y] + G(R)
      <4>1. S \ {x} \in P /\ y \in S \ {x} /\ (S \ {x}) \ {y} = R
        BY <2>2, <3>1
      <4> QED BY <4>1
    <3>5. G(R) \in Nat /\ f[x] \in Nat /\ f[y] \in Nat
      BY <1>5, <3>1
    <3> QED BY <3>2, <3>3, <3>4, <3>5
  <2> HIDE DEF P
  <2>3. \A S \in SUBSET U : S \in P
    BY <2>1, <2>2, EverySet
  <2> QED BY <2>3 DEF P
<1>8. {} \in SUBSET U /\ \A S \in SUBSET U : \A x \in S : S \ {x} \in SUBSET U
  OBVIOUS
<1> QED BY <1>5, <1>6, <1>7, <1>8

(* The pieces ss make up b one after the other, the i-th ends at at[i]. *)
LaidOut(ss, b, at) ==
  /\ at \in [0 .. Len(ss) -> Nat]
  /\ at[0] = 0 /\ at[Len(ss)] = Len(b)
  /\ \A i \in 1 .. Len(ss) :
       /\ at[i] = at[i - 1] + Len(ss[i])
       /\ \A j \in 1 .. Len(ss[i]) : b[at[i - 1] + j] = ss[i][j]

(* FlattenSeq appends one piece after the other. *)
LEMMA FlattenedSteps ==
  ASSUME NEW V, NEW ss \in Seq(Seq(V)), ss # <<>>
  PROVE  \E g \in [0 .. Len(ss) -> Seq(V)] :
           /\ g[0] = <<>> /\ g[Len(ss)] = FlattenSeq(ss)
           /\ \A i \in 1 .. Len(ss) : g[i] = g[i - 1] \o ss[i]
<1> DEFINE n == Len(ss)
           Longer(i, f) == IF i = 1 THEN ss[i] ELSE f[i - 1] \o ss[i]
           flatten == CHOOSE f : f = [i \in 1 .. n |-> Longer(i, f)]
           step == [i \in 1 .. n |-> [s \in Seq(V) |-> s \o ss[i]]]
<1>1. n \in Nat /\ n > 0 /\ \A i \in 1 .. n : ss[i] \in Seq(V)
  BY EmptySeq
<1>2. FlattenSeq(ss) = flatten[n]
  BY <1>1 DEF FlattenSeq
<1> HIDE DEF flatten, n
<1>3. step \in [1 .. n -> [Seq(V) -> Seq(V)]] /\ <<>> \in Seq(V)
  BY <1>1
<1>4. PICK g \in [0 .. n -> Seq(V)] : Iterates(n, <<>>, step, g)
  <2> HIDE DEF step
  <2> QED BY <1>1, <1>3, Recursion
<1>5. g[0] = <<>> /\ \A i \in 1 .. n : g[i] = g[i - 1] \o ss[i]
  <2> SUFFICES ASSUME NEW i \in 1 .. n PROVE g[i] = g[i - 1] \o ss[i]
    BY <1>4 DEF Iterates
  <2>1. g[i] = step[i][g[i - 1]]
    BY <1>4 DEF Iterates
  <2>2. i - 1 \in 0 .. n
    BY <1>1
  <2>3. g[i - 1] \in Seq(V)
    BY <2>2
  <2> QED BY <2>1, <2>3
<1>6. g[1] = ss[1]
  <2>1. 1 \in 1 .. n /\ 1 - 1 = 0
    BY <1>1
  <2>2. g[1] = <<>> \o ss[1] /\ ss[1] \in Seq(V)
    BY <1>1, <1>5, <2>1
  <2> QED BY <2>2, ConcatEmptySeq
<1>7. flatten = [i \in 1 .. n |-> Longer(i, flatten)]
  <2> DEFINE h == [i \in 1 .. n |-> g[i]]
  <2>1. ASSUME NEW i \in 1 .. n PROVE h[i] = Longer(i, h)
    <3>1. i # 1 => i - 1 \in 1 .. n
      BY <1>1
    <3> QED BY <3>1, <1>5, <1>6
  <2>2. h = [i \in 1 .. n |-> Longer(i, h)]
    BY <2>1
  <2> HIDE DEF h, Next
  <2>3. \E f : f = [i \in 1 .. n |-> Longer(i, f)]
    BY <2>2
  <2> QED BY <2>3 DEF flatten
<1>8. \A i \in 0 .. n : i \in {m \in 0 .. n : m = 0 \/ flatten[m] = g[m]}
  <2> DEFINE S == {m \in 0 .. n : m = 0 \/ flatten[m] = g[m]}
  <2>1. 0 \in S
    BY <1>1
  <2>2. ASSUME NEW i \in 1 .. n, i - 1 \in S PROVE i \in S
    <3>1. flatten[i] = IF i = 1 THEN ss[i] ELSE flatten[i - 1] \o ss[i]
      BY <1>7
    <3>2. i # 1 => flatten[i - 1] = g[i - 1]
      <4>1. i # 1 => i - 1 # 0
        BY <1>1
      <4> QED BY <4>1, <2>2
    <3>3. g[i] = g[i - 1] \o ss[i]
      BY <1>5
    <3>4. flatten[i] = g[i]
      BY <3>1, <3>2, <3>3, <1>6
    <3>5. i \in 0 .. n
      BY <1>1
    <3> QED BY <3>4, <3>5
  <2> HIDE DEF S
  <2>3. \A i \in 0 .. n : i \in S
    BY <1>1, <2>1, <2>2, UpTo
  <2> QED BY <2>3 DEF S
<1>9. flatten[n] = g[n]
  BY <1>1, <1>8
<1> QED BY <1>2, <1>4, <1>5, <1>9 DEF n

(* What FlattenSeq returns is the pieces laid out. *)
LEMMA Flattened ==
  ASSUME NEW V, NEW ss \in Seq(Seq(V))
  PROVE  /\ FlattenSeq(ss) \in Seq(V)
         /\ \E at : LaidOut(ss, FlattenSeq(ss), at)
<1>1. CASE ss = <<>>
  <2>1. FlattenSeq(ss) = <<>>
    BY <1>1 DEF FlattenSeq
  <2>2. LaidOut(ss, <<>>, [i \in 0 .. 0 |-> 0])
    BY <1>1 DEF LaidOut
  <2> QED BY <2>1, <2>2
<1>2. CASE ss # <<>>
  <2> DEFINE n == Len(ss)
  <2>1. n \in Nat /\ \A i \in 1 .. n : ss[i] \in Seq(V)
    OBVIOUS
  <2>2. PICK g \in [0 .. n -> Seq(V)] :
          /\ g[0] = <<>> /\ g[n] = FlattenSeq(ss)
          /\ \A i \in 1 .. n : g[i] = g[i - 1] \o ss[i]
    BY <1>2, FlattenedSteps
  <2> DEFINE at == [i \in 0 .. n |-> Len(g[i])]
  <2> HIDE DEF n
  <2>3. at \in [0 .. n -> Nat] /\ at[0] = 0 /\ at[n] = Len(FlattenSeq(ss))
    <3>1. \A i \in 0 .. n : Len(g[i]) \in Nat
      BY <2>2
    <3> QED BY <3>1, <2>1, <2>2
  <2>4. ASSUME NEW i \in 1 .. n
        PROVE  /\ i - 1 \in 0 .. n /\ i \in 0 .. n
               /\ g[i - 1] \in Seq(V) /\ ss[i] \in Seq(V)
               /\ g[i] = g[i - 1] \o ss[i]
               /\ at[i] = Len(g[i]) /\ at[i - 1] = Len(g[i - 1])
               /\ at[i] = at[i - 1] + Len(ss[i])
    <3>1. i - 1 \in 0 .. n /\ i \in 0 .. n
      BY <2>1
    <3>2. g[i - 1] \in Seq(V) /\ ss[i] \in Seq(V) /\ g[i] = g[i - 1] \o ss[i]
      BY <2>1, <2>2, <3>1
    <3>3. Len(g[i]) = Len(g[i - 1]) + Len(ss[i])
      BY <3>2
    <3> QED BY <3>1, <3>2, <3>3
  <2> DEFINE In(m, i) == \A j \in 1 .. Len(ss[i]) : g[m][at[i - 1] + j] = ss[i][j]
             S == {m \in 0 .. n : \A i \in 1 .. m : In(m, i) /\ at[i] <= at[m]}
  <2> HIDE DEF at
  <2>5. 0 \in S
    BY <2>1
  <2>6. ASSUME NEW m \in 1 .. n, m - 1 \in S
        PROVE  m \in S
    <3>1. /\ m \in 0 .. n
          /\ g[m - 1] \in Seq(V) /\ ss[m] \in Seq(V)
             /\ g[m] = g[m - 1] \o ss[m]
          /\ at[m - 1] = Len(g[m - 1]) /\ at[m] = at[m - 1] + Len(ss[m])
      BY <2>4
    <3>1a. \A i \in 1 .. Len(g[m]) :
              g[m][i] = IF i <= at[m - 1] THEN g[m - 1][i] ELSE ss[m][i - at[m - 1]]
      BY <3>1, ConcatProperties
    <3>1b. /\ at[m - 1] \in Nat /\ Len(ss[m]) \in Nat /\ m \in Nat
           /\ at[m] \in Nat /\ Len(g[m]) = at[m - 1] + Len(ss[m])
      <4>1. m - 1 \in 0 .. n /\ m \in 0 .. n /\ m \in Nat
        BY <2>1
      <4>2. at[m - 1] \in Nat /\ at[m] \in Nat
        BY <2>3, <4>1
      <4>3. Len(ss[m]) \in Nat /\ Len(g[m]) = Len(g[m - 1]) + Len(ss[m])
        BY <3>1, LenProperties, ConcatProperties
      <4> QED BY <3>1, <4>1, <4>2, <4>3
    <3>2. In(m, m)
      <4> SUFFICES ASSUME NEW j \in 1 .. Len(ss[m])
                   PROVE  g[m][at[m - 1] + j] = ss[m][j]
        OBVIOUS
      <4>1. /\ at[m - 1] + j \in 1 .. Len(g[m])
               /\ ~ (at[m - 1] + j <= at[m - 1])
            /\ (at[m - 1] + j) - at[m - 1] = j
        BY <3>1b, SMTT(30)
      <4> QED BY <3>1a, <4>1
    <3>3. ASSUME NEW i \in 1 .. m - 1
          PROVE  In(m, i) /\ at[i] <= at[m]
      <4>1. i \in 1 .. n /\ In(m - 1, i) /\ at[i] <= at[m - 1]
        BY <2>1, <2>6
      <4>2. at[i] = at[i - 1] + Len(ss[i]) /\ at[i - 1] \in Nat
            /\ ss[i] \in Seq(V)
        BY <2>3, <2>4, <4>1
      <4>3. ASSUME NEW j \in 1 .. Len(ss[i])
            PROVE  g[m][at[i - 1] + j] = ss[i][j]
        <5>1. Len(ss[i]) \in Nat /\ at[i - 1] + Len(ss[i]) <= at[m - 1]
          BY <4>1, <4>2
        <5>2. /\ at[i - 1] + j \in 1 .. Len(g[m]) /\ at[i - 1] + j <= at[m - 1]
          <6> DEFINE a == at[i - 1]
                     b == at[m - 1]
                     c == Len(ss[i])
                     d == Len(ss[m])
                     e == Len(g[m])
          <6>1. a \in Nat /\ b \in Nat /\ c \in Nat /\ d \in Nat /\ e = b + d
                /\ a + c <= b /\ j \in 1 .. c
            BY <3>1b, <4>2, <5>1
          <6> HIDE DEF a, b, c, d, e
          <6>2. a + j \in 1 .. e /\ a + j <= b
            BY <6>1
          <6> QED BY <6>2 DEF a, b, c, d, e
        <5>3. g[m][at[i - 1] + j] = g[m - 1][at[i - 1] + j]
          BY <3>1a, <5>2
        <5> QED BY <5>3, <4>1
      <4>4. at[m - 1] <= at[m]
        <5>1. at[m] = at[m - 1] + Len(ss[m])
          BY <3>1
        <5> HIDE DEF In, S
        <5> QED BY <5>1, <3>1b
      <4>5. at[i] \in Nat /\ at[m - 1] \in Nat /\ at[m] \in Nat
        BY <2>3, <2>4, <4>1
      <4> QED BY <4>1, <4>3, <4>4, <4>5
    <3>4. at[m] \in Nat /\ m \in Nat
      BY <3>1b
    <3>5. \A i \in 1 .. m : In(m, i) /\ at[i] <= at[m]
      <4> SUFFICES ASSUME NEW i \in 1 .. m PROVE In(m, i) /\ at[i] <= at[m]
        OBVIOUS
      <4>1. i = m \/ i \in 1 .. m - 1
        BY <3>4
      <4> HIDE DEF In
      <4> QED BY <4>1, <3>2, <3>3, <3>4
    <3> HIDE DEF In
    <3> QED BY <3>1, <3>5
  <2>7. n \in S
    <3> HIDE DEF S
    <3>1. \A m \in 0 .. n : m \in S
      BY <2>1, <2>5, <2>6, UpTo
    <3> QED BY <3>1, <2>1
  <2>8. LaidOut(ss, FlattenSeq(ss), at)
    BY <2>2, <2>3, <2>4, <2>7 DEF LaidOut, n
  <2>9. g[n] \in Seq(V)
    BY <2>1, <2>2
  <2> QED BY <2>2, <2>8, <2>9
<1> QED BY <1>1, <1>2

(****************************************************************************)
(* Frames: pieces one after the other.                                      *)
(****************************************************************************)

(* Two counters that move by the same amounts keep their distance. *)
InStep(n, a, b, d) ==
  /\ \A i \in 0 .. n : a[i] \in Int /\ b[i] \in Int
  /\ a[0] = b[0] + d
  /\ \A i \in 1 .. n : a[i] - a[i - 1] = b[i] - b[i - 1]

(* Two loops of as many rounds that do the same in each round end alike. *)
LEMMA Lockstep ==
  ASSUME NEW n \in Nat, NEW a, NEW b, NEW d \in Int, InStep(n, a, b, d)
  PROVE  \A i \in 0 .. n : a[i] = b[i] + d
<1> DEFINE S == {i \in 0 .. n : a[i] = b[i] + d}
<1>1. 0 \in S
  BY DEF InStep
<1>2. ASSUME NEW i \in 1 .. n, i - 1 \in S PROVE i \in S
  <2>1. i \in 0 .. n /\ i - 1 \in 0 .. n
    OBVIOUS
  <2>2. a[i] \in Int /\ b[i] \in Int /\ a[i - 1] \in Int /\ b[i - 1] \in Int
    BY <2>1 DEF InStep
  <2>3. a[i] - a[i - 1] = b[i] - b[i - 1] /\ a[i - 1] = b[i - 1] + d
    BY <1>2 DEF InStep
  <2>4. a[i] = b[i] + d
    <3> DEFINE v == a[i]
               w == a[i - 1]
               x == b[i]
               y == b[i - 1]
    <3>1. /\ v \in Int /\ w \in Int /\ x \in Int /\ y \in Int
          /\ v - w = x - y /\ w = y + d
      BY <2>2, <2>3
    <3> HIDE DEF v, w, x, y
    <3>2. v = x + d
      BY <3>1
    <3> QED BY <3>2 DEF v, x
  <2> QED BY <2>1, <2>4
<1> HIDE DEF S
<1>3. \A i \in 0 .. n : i \in S
  BY <1>1, <1>2, UpTo
<1> QED BY <1>3 DEF S

(* The offsets of the pieces are numbers that grow by their lengths. *)
LEMMA LaidOutTypes ==
  ASSUME NEW V, NEW ss \in Seq(Seq(V)), NEW b, NEW at, LaidOut(ss, b, at)
  PROVE  /\ \A i \in 0 .. Len(ss) : at[i] \in Nat
         /\ \A i \in 1 .. Len(ss) :
              /\ Len(ss[i]) \in Nat /\ at[i] = at[i - 1] + Len(ss[i])
              /\ at[i] - at[i - 1] = Len(ss[i])
<1>1. \A i \in 0 .. Len(ss) : at[i] \in Nat
  BY DEF LaidOut
<1>2. Len(ss) \in Nat /\ \A i \in 1 .. Len(ss) : ss[i] \in Seq(V)
  OBVIOUS
<1>3. ASSUME NEW i \in 1 .. Len(ss)
      PROVE  /\ Len(ss[i]) \in Nat /\ at[i] = at[i - 1] + Len(ss[i])
             /\ at[i] - at[i - 1] = Len(ss[i])
  <2>1. i - 1 \in 0 .. Len(ss) /\ i \in 0 .. Len(ss)
    BY <1>2
  <2>2. Len(ss[i]) \in Nat
    BY <1>2, LenProperties
  <2>3. at[i] = at[i - 1] + Len(ss[i])
    BY DEF LaidOut
  <2>4. at[i - 1] \in Nat
    BY <1>1, <2>1
  <2> HIDE DEF LaidOut
  <2> QED BY <2>2, <2>3, <2>4
<1> QED BY <1>1, <1>3

(* Two sequences of pieces one after the other: their lengths add up. *)
LEMMA FlattenConcat ==
  ASSUME NEW V, NEW ss \in Seq(Seq(V)), NEW tt \in Seq(Seq(V))
  PROVE  Len(FlattenSeq(ss \o tt)) = Len(FlattenSeq(ss)) + Len(FlattenSeq(tt))
<1> DEFINE u == ss \o tt
           m == Len(ss)
           n == Len(tt)
<1>1. /\ u \in Seq(Seq(V)) /\ Len(u) = m + n /\ m \in Nat /\ n \in Nat
      /\ \A i \in 1 .. m : u[i] = ss[i]
      /\ \A i \in 1 .. n : u[m + i] = tt[i]
  BY ConcatProperties, LenProperties
<1>2. PICK a : LaidOut(ss, FlattenSeq(ss), a)
  BY Flattened
<1>3. PICK b : LaidOut(tt, FlattenSeq(tt), b)
  BY Flattened
<1> HIDE DEF u
<1>4. PICK c : LaidOut(u, FlattenSeq(u), c)
  BY <1>1, Flattened
<1>5. \A i \in 0 .. m : c[i] = a[i]
  <2>1. \A i \in 0 .. m : c[i] \in Int /\ a[i] \in Int
    BY <1>1, <1>2, <1>4, LaidOutTypes
  <2>2. c[0] = a[0] + 0
    BY <1>2, <1>4 DEF LaidOut
  <2>3. ASSUME NEW i \in 1 .. m PROVE c[i] - c[i - 1] = a[i] - a[i - 1]
    <3>1. a[i] - a[i - 1] = Len(ss[i])
      BY <1>2, LaidOutTypes
    <3>2. i \in 1 .. Len(u)
      BY <1>1
    <3>3. c[i] - c[i - 1] = Len(u[i])
      <4>1. \A h \in 1 .. Len(u) : c[h] - c[h - 1] = Len(u[h])
        <5>1. u \in Seq(Seq(V)) /\ LaidOut(u, FlattenSeq(u), c)
          BY <1>1, <1>4
        <5> HIDE DEF m, n
        <5> QED BY <5>1, LaidOutTypes
      <4> QED BY <3>2, <4>1
    <3> QED BY <1>1, <3>1, <3>3
  <2>4. InStep(m, c, a, 0)
    BY <2>1, <2>2, <2>3 DEF InStep
  <2> HIDE DEF m
  <2>5. \A i \in 0 .. m : c[i] = a[i] + 0
    BY <1>1, <2>4, Lockstep
  <2> QED BY <2>1, <2>5
<1> DEFINE d == [i \in 0 .. n |-> c[m + i]]
<1>6. \A i \in 0 .. n : d[i] = b[i] + a[m]
  <2>1. \A i \in 0 .. n : d[i] = c[m + i] /\ m + i \in 0 .. Len(u)
    BY <1>1
  <2>2. \A i \in 0 .. n : d[i] \in Int /\ b[i] \in Int
    BY <1>1, <1>3, <1>4, <2>1, LaidOutTypes
  <2>3. a[m] \in Int /\ m \in 0 .. m /\ 0 \in 0 .. n
    BY <1>1, <1>2, LaidOutTypes
  <2>4. d[0] = b[0] + a[m]
    <3>1. d[0] = c[m] /\ c[m] = a[m] /\ b[0] = 0
      BY <1>1, <1>3, <1>5, <2>1, <2>3 DEF LaidOut
    <3> QED BY <3>1, <2>3
  <2>5. ASSUME NEW i \in 1 .. n PROVE d[i] - d[i - 1] = b[i] - b[i - 1]
    <3>1. b[i] - b[i - 1] = Len(tt[i])
      BY <1>3, LaidOutTypes
    <3>2. m + i \in 1 .. Len(u) /\ i - 1 \in 0 .. n /\ i \in 0 .. n
          /\ m + (i - 1) = (m + i) - 1
      BY <1>1
    <3>0. u \in Seq(Seq(V))
      BY <1>1
    <3>a. \A h \in 1 .. Len(u) : c[h] - c[h - 1] = Len(u[h])
      BY <1>4, <3>0, LaidOutTypes
    <3>3. c[m + i] - c[(m + i) - 1] = Len(u[m + i])
      BY <3>a, <3>2
    <3>4. d[i] = c[m + i] /\ d[i - 1] = c[(m + i) - 1]
      BY <2>1, <3>2
    <3> QED BY <1>1, <3>1, <3>3, <3>4
  <2>6. InStep(n, d, b, a[m])
    BY <2>2, <2>4, <2>5 DEF InStep
  <2> DEFINE k == a[m]
  <2>7. n \in Nat /\ k \in Int /\ InStep(n, d, b, k)
    BY <1>1, <2>3, <2>6
  <2> HIDE DEF d, m, n, k
  <2>8. \A i \in 0 .. n : d[i] = b[i] + k
    BY <2>7, Lockstep
  <2> QED BY <2>8 DEF k
<1>7. c[m + n] = b[n] + a[m]
  BY <1>1, <1>6
<1>8. /\ c[m + n] = Len(FlattenSeq(u))
      /\ a[m] = Len(FlattenSeq(ss)) /\ b[n] = Len(FlattenSeq(tt))
  BY <1>1, <1>2, <1>3, <1>4 DEF LaidOut
<1>9. a[m] \in Nat /\ b[n] \in Nat
  BY <1>1, <1>2, <1>3, LaidOutTypes
<1> QED BY <1>7, <1>8, <1>9 DEF u

(* No piece takes nothing, one takes its own length. *)
LEMMA FlattenShort ==
  ASSUME NEW V, NEW s \in Seq(V)
  PROVE  FlattenSeq(<<>>) = <<>> /\ FlattenSeq(<<s>>) = s
<1>1. FlattenSeq(<<>>) = <<>>
  BY DEF FlattenSeq
<1> DEFINE ss == <<s>>
<1>2. ss \in Seq(Seq(V)) /\ Len(ss) = 1 /\ ss[1] = s
  OBVIOUS
<1>3. FlattenSeq(ss) \in Seq(V)
  BY <1>2, Flattened
<1>4. PICK a : LaidOut(ss, FlattenSeq(ss), a)
  BY <1>2, Flattened
<1> HIDE DEF ss
<1>5. 1 \in 1 .. Len(ss) /\ 1 - 1 = 0
  BY <1>2
<1>6. a[0] = 0 /\ a[1] = Len(FlattenSeq(ss)) /\ a[1] = a[0] + Len(s)
      /\ \A j \in 1 .. Len(s) : FlattenSeq(ss)[a[0] + j] = s[j]
  BY <1>2, <1>4, <1>5 DEF LaidOut
<1>7. Len(s) \in Nat /\ Len(FlattenSeq(ss)) = Len(s)
  BY <1>6, LenProperties
<1>8. \A j \in 1 .. Len(s) : FlattenSeq(ss)[j] = s[j]
  <2>1. \A j \in 1 .. Len(s) : 0 + j = j
    BY <1>7
  <2> QED BY <1>6, <2>1
<1>9. FlattenSeq(ss) = s
  BY <1>3, <1>7, <1>8, SeqEqual
<1> QED BY <1>1, <1>9 DEF ss

(* Pieces of the same lengths but one. *)
LEMMA FlattenChange ==
  ASSUME NEW V, NEW ss \in Seq(Seq(V)), NEW tt \in Seq(Seq(V)), Len(ss) = Len(tt),
         NEW k \in 1 .. Len(ss),
         \A i \in 1 .. Len(ss) : i # k => Len(tt[i]) = Len(ss[i])
  PROVE  Len(FlattenSeq(tt)) = Len(FlattenSeq(ss)) + Len(tt[k]) - Len(ss[k])
<1> DEFINE n == Len(ss)
           e == Len(tt[k]) - Len(ss[k])
<1>1. PICK a : LaidOut(ss, FlattenSeq(ss), a)
  BY Flattened
<1>2. PICK b : LaidOut(tt, FlattenSeq(tt), b)
  BY Flattened
<1>3. /\ n \in Nat /\ k \in 1 .. n
      /\ \A i \in 0 .. n : a[i] \in Nat /\ b[i] \in Nat
      /\ \A i \in 1 .. n : Len(ss[i]) \in Nat /\ Len(tt[i]) \in Nat
      /\ \A i \in 1 .. n : a[i] - a[i - 1] = Len(ss[i])
         /\ b[i] - b[i - 1] = Len(tt[i])
  BY <1>1, <1>2, LaidOutTypes, LenProperties, SMTT(30)
<1>4. a[0] = 0 /\ b[0] = 0 /\ a[n] = Len(FlattenSeq(ss))
      /\ b[n] = Len(FlattenSeq(tt))
  BY <1>1, <1>2 DEF LaidOut
<1> DEFINE c == [i \in 0 .. n |-> IF i < k THEN a[i] ELSE a[i] + e]
<1>5. e \in Int
  BY <1>3
<1> HIDE DEF n, e
<1>6. /\ \A i \in 0 .. n : b[i] \in Int /\ c[i] \in Int
      /\ b[0] = c[0] + 0
  <2>1. ASSUME NEW i \in 0 .. n PROVE b[i] \in Int /\ c[i] \in Int
    <3>1. a[i] \in Int /\ b[i] \in Int
      BY <1>3
    <3> QED BY <3>1, <1>5
  <2>2. 0 \in 0 .. n /\ 0 < k
    BY <1>3
  <2>3. c[0] = a[0]
    BY <2>2
  <2> HIDE DEF c
  <2> QED BY <1>4, <2>1, <2>3
<1>7. ASSUME NEW i \in 1 .. n
      PROVE  b[i] - b[i - 1] = c[i] - c[i - 1]
  <2>1. i \in 0 .. n /\ i - 1 \in 0 .. n
    BY <1>3
  <2>2. a[i] \in Nat /\ a[i - 1] \in Nat /\ k \in Nat
    BY <1>3, <2>1
  <2>3. CASE i = k
    <3>1. c[i] = a[i] + e /\ c[i - 1] = a[i - 1]
      BY <1>3, <2>1, <2>3
    <3>2. b[i] - b[i - 1] = Len(tt[k]) /\ a[i] - a[i - 1] = Len(ss[k])
      BY <1>3, <2>3
    <3>3. Len(tt[k]) \in Nat /\ Len(ss[k]) \in Nat
      BY <1>3
    <3> DEFINE x == Len(tt[k])
               y == Len(ss[k])
    <3>4. e = x - y /\ b[i] - b[i - 1] = x /\ a[i] - a[i - 1] = y
          /\ x \in Nat /\ y \in Nat
      BY <3>2, <3>3 DEF e
    <3> DEFINE u == a[i]
               v == a[i - 1]
    <3>5. u \in Nat /\ v \in Nat /\ u - v = y
      BY <2>2, <3>4
    <3> HIDE DEF x, y, c, u, v
    <3>6. (u + e) - v = x
      BY <3>4, <3>5
    <3> QED BY <3>1, <3>4, <3>6 DEF u, v
  <2>4. CASE i # k
    <3>1. b[i] - b[i - 1] = a[i] - a[i - 1]
      BY <1>3, <2>4 DEF n
    <3>2. c[i] - c[i - 1] = a[i] - a[i - 1]
      <4>1. CASE i < k
        <5>1. c[i] = a[i] /\ c[i - 1] = a[i - 1]
          BY <2>1, <2>2, <4>1
        <5> QED BY <5>1
      <4>2. CASE i > k
        <5>1. c[i] = a[i] + e /\ c[i - 1] = a[i - 1] + e
          BY <2>1, <2>2, <4>2
        <5> DEFINE u == a[i]
                   v == a[i - 1]
        <5>2. u \in Nat /\ v \in Nat /\ e \in Int
          BY <2>2, <1>5
        <5> HIDE DEF c, u, v
        <5>3. (u + e) - (v + e) = u - v
          BY <5>2
        <5> QED BY <5>1, <5>3 DEF u, v
      <4> QED BY <2>2, <2>4, <4>1, <4>2
    <3> QED BY <3>1, <3>2
  <2> QED BY <2>3, <2>4
<1>8. b[n] = a[n] + e
  <2> HIDE DEF c
  <2>0. InStep(n, b, c, 0)
    BY <1>6, <1>7 DEF InStep
  <2>1. \A i \in 0 .. n : b[i] = c[i] + 0
    BY <1>3, <2>0, Lockstep
  <2>2. n \in 0 .. n /\ ~ (n < k) /\ a[n] \in Int
    BY <1>3
  <2>3. c[n] = a[n] + e
    BY <2>2 DEF c
  <2> QED BY <1>5, <2>1, <2>2, <2>3
<1>9. Len(tt[k]) \in Nat /\ Len(ss[k]) \in Nat /\ a[n] \in Nat
  BY <1>3
<1> QED BY <1>4, <1>8, <1>9 DEF e

(****************************************************************************)
(* Octets, strings and numbers.                                             *)
(****************************************************************************)

(* What the parts of a frame are, octet by octet. *)
LEMMA StringIs ==
  ASSUME NEW n \in Nat
  PROVE  /\ Chars(n) \in Seq(Nat) /\ Len(Chars(n)) = n
         /\ String(n) \in Seq(Nat) /\ Len(String(n)) = n + 1
         /\ String(n)[n + 1] = 0
         /\ \A i \in 1 .. n : String(n)[i] = Char
<1> DEFINE c == Chars(n)
           s == String(n)
<1>1. c \in Seq(Nat) /\ Len(c) = n /\ \A i \in 1 .. n : c[i] = Char
  BY IsASeq DEF Chars, Char
<1>2. <<0>> \in Seq(Nat) /\ Len(<<0>>) = 1 /\ <<0>>[1] = 0
  OBVIOUS
<1>3. s = c \o <<0>>
  BY DEF String
<1> HIDE DEF c, s
<1>4. s \in Seq(Nat) /\ Len(s) = n + 1
  BY <1>1, <1>2, <1>3, ConcatProperties
<1>5. \A i \in 1 .. n + 1 : s[i] = IF i <= n THEN c[i] ELSE <<0>>[i - n]
  BY <1>1, <1>2, <1>3, ConcatProperties
<1>6. s[n + 1] = 0
  <2>1. n + 1 \in 1 .. n + 1 /\ ~ (n + 1 <= n) /\ (n + 1) - n = 1
    OBVIOUS
  <2>2. s[n + 1] = <<0>>[1]
    BY <1>5, <2>1
  <2> QED BY <1>2, <2>2
<1>7. \A i \in 1 .. n : s[i] = Char
  <2>1. \A i \in 1 .. n : i \in 1 .. n + 1 /\ i <= n
    OBVIOUS
  <2> QED BY <1>1, <1>5, <2>1
<1> QED BY <1>1, <1>4, <1>6, <1>7 DEF c, s

(* What comes after the first octet. *)
LEMMA AfterOne ==
  ASSUME NEW V, NEW s \in Seq(V), NEW v \in V
  PROVE  /\ <<v>> \o s \in Seq(V) /\ Len(<<v>> \o s) = Len(s) + 1
         /\ (<<v>> \o s)[1] = v
         /\ \A i \in 1 .. Len(s) : (<<v>> \o s)[1 + i] = s[i]
<1> DEFINE t == <<v>>
<1>1. t \in Seq(V) /\ Len(t) = 1 /\ t[1] = v
  OBVIOUS
<1>2. Len(s) \in Nat
  BY LenProperties
<1> HIDE DEF t
<1>a. /\ t \o s \in Seq(V) /\ Len(t \o s) = Len(t) + Len(s)
      /\ \A i \in 1 .. Len(t) + Len(s) :
           (t \o s)[i] = IF i <= Len(t) THEN t[i] ELSE s[i - Len(t)]
  BY <1>1, ConcatProperties
<1>3. /\ t \o s \in Seq(V) /\ Len(t \o s) = Len(s) + 1
      /\ \A i \in 1 .. Len(s) + 1 : (t \o s)[i] = IF i <= 1 THEN t[i] ELSE s[i - 1]
  BY <1>a, <1>1, <1>2
<1>4. (t \o s)[1] = v
  <2>1. 1 \in 1 .. Len(s) + 1
    BY <1>2
  <2> QED BY <1>1, <1>3, <2>1
<1>5. \A i \in 1 .. Len(s) : (t \o s)[1 + i] = s[i]
  <2>1. \A i \in 1 .. Len(s) : 1 + i \in 1 .. Len(s) + 1 /\ ~ (1 + i <= 1)
        /\ (1 + i) - 1 = i
    BY <1>2
  <2> QED BY <1>3, <2>1
<1> QED BY <1>3, <1>4, <1>5 DEF t

(* SmeAddress::encode: ton, npi, the digits and a NUL. *)
LEMMA AddressIs ==
  ASSUME NEW n \in Nat
  PROVE  /\ SmeAddress(n) \in Seq(Nat) /\ Len(SmeAddress(n)) = n + 3
         /\ \A i \in 1 .. n + 1 : SmeAddress(n)[2 + i] = String(n)[i]
<1> DEFINE t == <<1, 1>>
           s == String(n)
<1>1. t \in Seq(Nat) /\ Len(t) = 2
  OBVIOUS
<1>2. s \in Seq(Nat) /\ Len(s) = n + 1
  BY StringIs
<1>3. SmeAddress(n) = t \o s
  BY DEF SmeAddress
<1> HIDE DEF t, s
<1>4. /\ t \o s \in Seq(Nat) /\ Len(t \o s) = n + 3
      /\ \A i \in 1 .. n + 3 : (t \o s)[i] = IF i <= 2 THEN t[i] ELSE s[i - 2]
  <2>1. /\ t \o s \in Seq(Nat) /\ Len(t \o s) = Len(t) + Len(s)
        /\ \A i \in 1 .. Len(t) + Len(s) :
             (t \o s)[i] = IF i <= Len(t) THEN t[i] ELSE s[i - Len(t)]
    BY <1>1, <1>2, ConcatProperties
  <2>2. Len(t) + Len(s) = n + 3
    BY <1>1, <1>2
  <2> QED BY <2>1, <2>2, <1>1
<1>5. \A i \in 1 .. n + 1 : (t \o s)[2 + i] = s[i]
  <2>1. \A i \in 1 .. n + 1 : 2 + i \in 1 .. n + 3 /\ ~ (2 + i <= 2)
        /\ (2 + i) - 2 = i
    OBVIOUS
  <2> QED BY <1>4, <2>1
<1> QED BY <1>3, <1>4, <1>5 DEF s

(* ShortMessage::encode: sm_length and as many octets. *)
LEMMA TextIs ==
  ASSUME NEW n \in Uint8
  PROVE  Text(n) \in Seq(Nat) /\ Len(Text(n)) = n + 1 /\ Text(n)[1] = n
<1>1. n % 256 = n /\ n \in Nat
  BY DEF Uint8
<1>2. Chars(n) \in Seq(Nat) /\ Len(Chars(n)) = n
  BY <1>1, StringIs
<1> QED BY <1>1, <1>2, AfterOne DEF Text

(* A number of two octets is what its octets say. *)
LEMMA HighAndLow ==
  ASSUME NEW h \in Int, NEW l \in Int, l >= 0, l <= 255,
         h * 256 + l >= 0, h * 256 + l <= 65535
  PROVE  h \in 0 .. 255 /\ h % 256 = h
<1>1. h >= 0
  OBVIOUS
<1>2. h <= 255
  OBVIOUS
<1>3. h \in 0 .. 255
  BY <1>1, <1>2
<1> QED BY <1>3

(* Two octets and the number they are read as. *)
Reads(h, n) == h \in Seq(Nat) /\ Len(h) = 2 /\ h[1] * 256 + h[2] = n

(* Two octets are read as the number that was written. *)
LEMMA HalfIs ==
  ASSUME NEW n \in Uint16
  PROVE  Reads(Half(n), n)
<1> USE DEF Reads
<1>0. n \in Int /\ n >= 0 /\ n <= 65535
  BY DEF Uint16
<1>1. n = (n \div 256) * 256 + (n % 256)
  BY <1>0, SMTT(30)
<1>2. n \div 256 \in Int /\ n % 256 \in Int /\ n % 256 >= 0 /\ n % 256 <= 255
  BY <1>0
<1>3. ASSUME NEW h \in Int, NEW l \in Int, h = n \div 256, l = n % 256,
             l >= 0, l <= 255, n = h * 256 + l
      PROVE  /\ Half(n) \in Seq(Nat) /\ Len(Half(n)) = 2
             /\ Half(n)[1] * 256 + Half(n)[2] = n
  <2>1. h * 256 + l >= 0 /\ h * 256 + l <= 65535
    BY <1>0, <1>3
  <2>2. h \in 0 .. 255 /\ h % 256 = h
    BY <1>3, <2>1, HighAndLow
  <2>3. Half(n) = <<h, l>>
    BY <1>3, <2>2 DEF Half
  <2>4. h \in Nat /\ l \in Nat
    BY <1>3, <2>2
  <2>5. <<h, l>> \in Seq(Nat) /\ Len(<<h, l>>) = 2 /\ <<h, l>>[1] = h
        /\ <<h, l>>[2] = l
    BY <2>4
  <2>6. n = h * 256 + l
    BY <1>3
  <2>7. <<h, l>>[1] * 256 + <<h, l>>[2] = n
    BY <2>5, <2>6
  <2> QED BY <2>3, <2>5, <2>7
<1> QED BY <1>1, <1>2, <1>3

(* A number of four octets takes four octets. *)
LEMMA WordIs ==
  ASSUME NEW n \in Int
  PROVE  Word(n) \in Seq(Nat) /\ Len(Word(n)) = 4
<1>1. ASSUME NEW m \in Int PROVE Half(m) \in Seq(Nat) /\ Len(Half(m)) = 2
  <2>1. m \div 256 \in Int
    OBVIOUS
  <2>2. (m \div 256) % 256 \in Nat /\ m % 256 \in Nat
    BY <2>1
  <2> QED BY <2>2 DEF Half
<1>2. n % 65536 \in Int /\ n \div 65536 \in Int
  OBVIOUS
<1>3. ASSUME NEW s \in Seq(Nat), NEW t \in Seq(Nat), Len(s) = 2, Len(t) = 2
      PROVE  s \o t \in Seq(Nat) /\ Len(s \o t) = 4
  <2>1. s \o t \in Seq(Nat) /\ Len(s \o t) = Len(s) + Len(t)
    BY ConcatProperties
  <2> QED BY <1>3, <2>1
<1> QED BY <1>1, <1>2, <1>3 DEF Word

(****************************************************************************)
(* TLVs, and what an object may hold.                                       *)
(****************************************************************************)

TlvSet == [tag : Uint16, len : Uint16]
EntrySet == {e \in [flag : {"sme", "list", "unsuccess"}, len : Nat] :
              e.flag # "list" => e.len < MaxLen}
Values == UNION {[Fields(k) -> Uint8] : k \in Kinds}
Pdus == [kind : Kinds, length : Int, val : Values, list : Seq(EntrySet),
         tlvs : Seq(TlvSet), isDefault : BOOLEAN]

(* The entries of a list are of class k. *)
EntriesOf(k, list) == \A i \in 1 .. Len(list) : list[i].flag \in EntryFlags(k)

(* The object's members are within the limits of their types. *)
Sound(p) ==
  /\ p \in Pdus
  /\ p.val \in [Fields(p.kind) -> Uint8]
  /\ \A f \in Layout[p.kind].strings : p.val[f] < MaxLength[f]
  /\ EntriesOf(p.kind, p.list)
  /\ Len(p.list) <= ListLimit

TlvFrames(tlvs) == [i \in DOMAIN tlvs |-> EncodedTlv(tlvs[i])]
TlvOctets(tlvs) == Len(FlattenSeq(TlvFrames(tlvs)))
EntryFrames(list) == [i \in DOMAIN list |-> EncodedEntry(list[i])]
ListOctets(list) == Len(FlattenSeq(EntryFrames(list)))
FieldFrames(p) ==
  [i \in DOMAIN Layout[p.kind].order |-> EncodedField(p, Layout[p.kind].order[i])]

(* Three pieces one after the other. *)
LEMMA Concat3 ==
  ASSUME NEW V, NEW r \in Seq(V), NEW s \in Seq(V), NEW t \in Seq(V)
  PROVE  /\ r \o s \o t \in Seq(V)
         /\ Len(r \o s \o t) = Len(r) + Len(s) + Len(t)
         /\ \A i \in 1 .. Len(r) : (r \o s \o t)[i] = r[i]
         /\ \A i \in 1 .. Len(s) : (r \o s \o t)[Len(r) + i] = s[i]
         /\ \A i \in 1 .. Len(t) : (r \o s \o t)[Len(r) + Len(s) + i] = t[i]
<1> DEFINE q == r \o s
           u == q \o t
<1>1. Len(r) \in Nat /\ Len(s) \in Nat /\ Len(t) \in Nat
  BY LenProperties
<1>2. /\ q \in Seq(V) /\ Len(q) = Len(r) + Len(s)
      /\ \A i \in 1 .. Len(r) + Len(s) : q[i] = IF i <= Len(r) THEN r[i] ELSE s[i - Len(r)]
  BY ConcatProperties
<1> HIDE DEF q
<1>3. /\ u \in Seq(V) /\ Len(u) = Len(q) + Len(t)
      /\ \A i \in 1 .. Len(q) + Len(t) : u[i] = IF i <= Len(q) THEN q[i] ELSE t[i - Len(q)]
  <2>1. q \in Seq(V)
    BY <1>2
  <2> QED BY <2>1, ConcatProperties
<1> HIDE DEF u
<1>4. ASSUME NEW i \in 1 .. Len(r) PROVE u[i] = r[i]
  <2>1. i \in 1 .. Len(q) + Len(t) /\ i <= Len(q)
        /\ i \in 1 .. Len(r) + Len(s) /\ i <= Len(r)
    BY <1>1, <1>2
  <2> QED BY <1>2, <1>3, <2>1
<1>5. ASSUME NEW i \in 1 .. Len(s) PROVE u[Len(r) + i] = s[i]
  <2>1. /\ Len(r) + i \in 1 .. Len(q) + Len(t) /\ Len(r) + i <= Len(q)
        /\ Len(r) + i \in 1 .. Len(r) + Len(s) /\ ~ (Len(r) + i <= Len(r))
        /\ (Len(r) + i) - Len(r) = i
    BY <1>1, <1>2
  <2> QED BY <1>2, <1>3, <2>1
<1>6. ASSUME NEW i \in 1 .. Len(t) PROVE u[Len(r) + Len(s) + i] = t[i]
  <2>1. /\ Len(q) + i \in 1 .. Len(q) + Len(t) /\ ~ (Len(q) + i <= Len(q))
        /\ (Len(q) + i) - Len(q) = i
    BY <1>1, <1>2
  <2>2. u[Len(q) + i] = t[i]
    BY <1>3, <2>1
  <2> QED BY <1>2, <2>2
<1>7. u \in Seq(V) /\ Len(u) = Len(r) + Len(s) + Len(t)
  BY <1>2, <1>3
<1> QED BY <1>4, <1>5, <1>6, <1>7 DEF u, q

(* TLV::encode: tag and length, both in network order, then the value. *)
LEMMA TlvIs ==
  ASSUME NEW t \in TlvSet
  PROVE  /\ EncodedTlv(t) \in Seq(Nat) /\ Len(EncodedTlv(t)) = Octets(t)
         /\ Octets(t) \in Nat /\ Octets(t) = t.len + 4 /\ t.len \in Nat
         /\ EncodedTlv(t)[1] * 256 + EncodedTlv(t)[2] = t.tag
         /\ EncodedTlv(t)[3] * 256 + EncodedTlv(t)[4] = t.len
<1>0. t.tag \in Uint16 /\ t.len \in Uint16
  BY DEF TlvSet
<1>1. /\ t.tag \in Int /\ t.tag >= 0 /\ t.tag <= 65535
      /\ t.len \in Int /\ t.len >= 0 /\ t.len <= 65535
  BY DEF TlvSet, Uint16
<1> DEFINE r == Half(t.tag)
           s == Half(t.len)
           c == Chars(t.len)
           e == r \o s \o c
<1>2. /\ r \in Seq(Nat) /\ Len(r) = 2 /\ r[1] * 256 + r[2] = t.tag
      /\ s \in Seq(Nat) /\ Len(s) = 2 /\ s[1] * 256 + s[2] = t.len
  <2>1. Reads(r, t.tag) /\ Reads(s, t.len)
    BY <1>0, HalfIs
  <2> HIDE DEF r, s
  <2> QED BY <2>1 DEF Reads
<1>3. t.len \in Nat
  BY <1>1
<1>4. c \in Seq(Nat) /\ Len(c) = t.len
  BY <1>3, StringIs
<1>5. EncodedTlv(t) = e
  BY DEF EncodedTlv
<1> HIDE DEF r, s, c
<1>6. /\ e \in Seq(Nat) /\ Len(e) = Len(r) + Len(s) + Len(c)
      /\ \A i \in 1 .. Len(r) : e[i] = r[i]
      /\ \A i \in 1 .. Len(s) : e[Len(r) + i] = s[i]
  <2>1. r \in Seq(Nat) /\ s \in Seq(Nat) /\ c \in Seq(Nat)
    BY <1>2, <1>4
  <2> QED BY <2>1, Concat3
<1>7. Len(e) = t.len + 4
  BY <1>2, <1>3, <1>4, <1>6
<1>8. e[1] = r[1] /\ e[2] = r[2] /\ e[2 + 1] = s[1] /\ e[2 + 2] = s[2]
  BY <1>2, <1>6
<1>9. 2 + 1 = 3 /\ 2 + 2 = 4
  OBVIOUS
<1> HIDE DEF e
<1>10. Octets(t) = t.len + 4 /\ Octets(t) \in Nat
  BY <1>3 DEF Octets
<1> QED BY <1>2, <1>3, <1>5, <1>6, <1>7, <1>8, <1>9, <1>10

(* The TLVs of an object, as encode writes them. *)
LEMMA TlvFramesAre ==
  ASSUME NEW tlvs \in Seq(TlvSet)
  PROVE  /\ TlvFrames(tlvs) \in Seq(Seq(Nat))
            /\ Len(TlvFrames(tlvs)) = Len(tlvs)
         /\ \A i \in 1 .. Len(tlvs) :
              tlvs[i] \in TlvSet /\ TlvFrames(tlvs)[i] = EncodedTlv(tlvs[i])
         /\ TlvOctets(tlvs) \in Nat
<1>1. Len(tlvs) \in Nat /\ DOMAIN tlvs = 1 .. Len(tlvs)
      /\ \A i \in 1 .. Len(tlvs) : tlvs[i] \in TlvSet
  OBVIOUS
<1>2. \A i \in 1 .. Len(tlvs) : EncodedTlv(tlvs[i]) \in Seq(Nat)
  BY <1>1, TlvIs
<1>3. TlvFrames(tlvs) \in Seq(Seq(Nat)) /\ Len(TlvFrames(tlvs)) = Len(tlvs)
  BY <1>1, <1>2, IsASeq DEF TlvFrames
<1>4. FlattenSeq(TlvFrames(tlvs)) \in Seq(Nat)
  BY <1>3, Flattened
<1> QED BY <1>1, <1>3, <1>4, LenProperties DEF TlvFrames, TlvOctets

(* What two lists of TLVs take adds up. *)
LEMMA TlvOctetsConcat ==
  ASSUME NEW s \in Seq(TlvSet), NEW t \in Seq(TlvSet)
  PROVE  TlvOctets(s \o t) = TlvOctets(s) + TlvOctets(t)
<1> DEFINE u == s \o t
           f == TlvFrames(s)
           g == TlvFrames(t)
           h == TlvFrames(u)
<1>1. /\ u \in Seq(TlvSet) /\ Len(u) = Len(s) + Len(t)
      /\ \A i \in 1 .. Len(s) + Len(t) : u[i] = IF i <= Len(s) THEN s[i] ELSE t[i - Len(s)]
  BY ConcatProperties
<1>2. /\ f \in Seq(Seq(Nat)) /\ Len(f) = Len(s)
      /\ \A i \in 1 .. Len(s) : f[i] = EncodedTlv(s[i])
      /\ g \in Seq(Seq(Nat)) /\ Len(g) = Len(t)
      /\ \A i \in 1 .. Len(t) : g[i] = EncodedTlv(t[i])
  BY TlvFramesAre
<1> HIDE DEF u
<1>3. /\ h \in Seq(Seq(Nat)) /\ Len(h) = Len(u)
      /\ \A i \in 1 .. Len(u) : h[i] = EncodedTlv(u[i])
  BY <1>1, TlvFramesAre
<1> HIDE DEF f, g, h
<1>4. /\ f \o g \in Seq(Seq(Nat)) /\ Len(f \o g) = Len(f) + Len(g)
      /\ \A i \in 1 .. Len(f) + Len(g) : (f \o g)[i] = IF i <= Len(f) THEN f[i] ELSE g[i - Len(f)]
  <2>1. f \in Seq(Seq(Nat)) /\ g \in Seq(Seq(Nat))
    BY <1>2
  <2> QED BY <2>1, ConcatProperties
<1>5. Len(s) \in Nat /\ Len(t) \in Nat
  BY LenProperties
<1>6. ASSUME NEW i \in 1 .. Len(u)
      PROVE  h[i] = (f \o g)[i]
  <2>1. i \in 1 .. Len(s) + Len(t) /\ i \in 1 .. Len(f) + Len(g)
    BY <1>1, <1>2
  <2>2. i <= Len(s) => i \in 1 .. Len(s)
    BY <1>5, <2>1
  <2>3. ~ (i <= Len(s)) => i - Len(s) \in 1 .. Len(t)
    BY <1>5, <2>1
  <2> QED BY <1>1, <1>2, <1>3, <1>4, <2>1, <2>2, <2>3
<1>7. h = f \o g
  <2>1. Len(h) = Len(f \o g)
    BY <1>1, <1>2, <1>3, <1>4
  <2> QED BY <1>3, <1>4, <1>6, <2>1, SeqEqual
<1>8. Len(FlattenSeq(f \o g)) = Len(FlattenSeq(f)) + Len(FlattenSeq(g))
  BY <1>2, FlattenConcat
<1> QED BY <1>7, <1>8 DEF TlvOctets, f, g, h, u

(* No TLV takes nothing, one takes its octets. *)
LEMMA TlvOctetsShort ==
  ASSUME NEW t \in TlvSet
  PROVE  TlvOctets(<<>>) = 0 /\ TlvOctets(<<t>>) = Octets(t)
<1>1. TlvFrames(<<>>) = <<>>
  BY DEF TlvFrames
<1>2. TlvFrames(<<t>>) = <<EncodedTlv(t)>>
  BY DEF TlvFrames
<1>3. EncodedTlv(t) \in Seq(Nat) /\ Len(EncodedTlv(t)) = Octets(t)
  BY TlvIs
<1>4. FlattenSeq(<<>>) = <<>> /\ FlattenSeq(<<EncodedTlv(t)>>) = EncodedTlv(t)
  BY <1>3, FlattenShort
<1> QED BY <1>1, <1>2, <1>3, <1>4 DEF TlvOctets

(* A TLV more takes its octets more. *)
LEMMA TlvOctetsAppend ==
  ASSUME NEW s \in Seq(TlvSet), NEW t \in TlvSet
  PROVE  TlvOctets(Append(s, t)) = TlvOctets(s) + Octets(t)
<1>1. <<t>> \in Seq(TlvSet) /\ Append(s, t) = s \o <<t>>
  BY AppendIsConcat
<1> QED BY <1>1, TlvOctetsConcat, TlvOctetsShort

(****************************************************************************)
(* What was written is read.                                                *)
(****************************************************************************)

(* The octets s are in b from offset off on. *)
Written(b, off, s) ==
  /\ off \in Nat
  /\ off + Len(s) <= Len(b)
  /\ \A i \in 1 .. Len(s) : b[off + i] = s[i]

(* Then so are the parts s is put together from. *)
LEMMA WrittenConcat ==
  ASSUME NEW b \in Seq(Nat), NEW off, NEW r \in Seq(Nat), NEW s \in Seq(Nat),
         Written(b, off, r \o s)
  PROVE  Written(b, off, r) /\ Written(b, off + Len(r), s)
<1> DEFINE q == r \o s
<1>1. /\ q \in Seq(Nat) /\ Len(q) = Len(r) + Len(s)
      /\ \A i \in 1 .. Len(r) + Len(s) : q[i] = IF i <= Len(r) THEN r[i] ELSE s[i - Len(r)]
  BY ConcatProperties
<1>2. Len(r) \in Nat /\ Len(s) \in Nat /\ Len(b) \in Nat
  BY LenProperties
<1> HIDE DEF q
<1>3. /\ off \in Nat /\ off + (Len(r) + Len(s)) <= Len(b)
      /\ \A i \in 1 .. Len(r) + Len(s) : b[off + i] = q[i]
  BY <1>1 DEF Written, q
<1>4. Written(b, off, r)
  <2>1. \A i \in 1 .. Len(r) : i \in 1 .. Len(r) + Len(s) /\ i <= Len(r)
    BY <1>2
  <2>2. \A i \in 1 .. Len(r) : b[off + i] = r[i]
    BY <1>1, <1>3, <2>1
  <2>3. off + Len(r) <= Len(b)
    BY <1>2, <1>3
  <2> QED BY <1>3, <2>2, <2>3 DEF Written
<1>5. Written(b, off + Len(r), s)
  <2>1. ASSUME NEW i \in 1 .. Len(s)
        PROVE  b[(off + Len(r)) + i] = s[i]
    <3>1. /\ Len(r) + i \in 1 .. Len(r) + Len(s) /\ ~ (Len(r) + i <= Len(r))
          /\ (Len(r) + i) - Len(r) = i
             /\ (off + Len(r)) + i = off + (Len(r) + i)
      BY <1>2, <1>3
    <3> QED BY <1>1, <1>3, <3>1
  <2>2. off + Len(r) \in Nat /\ (off + Len(r)) + Len(s) <= Len(b)
    BY <1>2, <1>3
  <2> QED BY <2>1, <2>2 DEF Written
<1> QED BY <1>4, <1>5

(* The pieces lie behind one another, within the frame. *)
LEMMA LaidOutGrows ==
  ASSUME NEW V, NEW ss \in Seq(Seq(V)), NEW c, NEW at, LaidOut(ss, c, at)
  PROVE  \A i \in 0 .. Len(ss) : at[i] \in Nat /\ at[i] <= at[Len(ss)]
<1> DEFINE n == Len(ss)
           S == {m \in 0 .. n : at[n - m] <= at[n]}
<1>1. /\ n \in Nat
      /\ \A i \in 0 .. n : at[i] \in Nat
      /\ \A i \in 1 .. n : Len(ss[i]) \in Nat /\ at[i] = at[i - 1] + Len(ss[i])
  BY LaidOutTypes, LenProperties
<1>4. n \in 0 .. n
  BY <1>1
<1> HIDE DEF n
<1>2. 0 \in S
  <2>1. 0 \in 0 .. n /\ n - 0 = n /\ at[n] \in Nat
    BY <1>1, <1>4
  <2>2. at[n] <= at[n]
    BY <2>1
  <2> QED BY <2>1, <2>2
<1>3. ASSUME NEW m \in 1 .. n, m - 1 \in S PROVE m \in S
  <2>1. /\ m \in 0 .. n /\ (n - (m - 1)) \in 1 .. n
           /\ (n - (m - 1)) - 1 = n - m
        /\ n - m \in 0 .. n
    BY <1>1
  <2>2. at[n - (m - 1)] = at[n - m] + Len(ss[n - (m - 1)])
        /\ at[n - (m - 1)] <= at[n]
    BY <1>1, <1>3, <2>1
  <2>3. at[n - m] \in Nat /\ at[n] \in Nat /\ Len(ss[n - (m - 1)]) \in Nat
    BY <1>1, <1>4, <2>1
  <2> DEFINE u == at[n - m]
             v == Len(ss[n - (m - 1)])
             w == at[n - (m - 1)]
             x == at[n]
  <2>4. u \in Nat /\ v \in Nat /\ x \in Nat /\ w = u + v /\ w <= x
    BY <2>2, <2>3
  <2>5. u <= x
    <3> HIDE DEF u, v, w, x
    <3> QED BY <2>4
  <2> QED BY <2>1, <2>5
<1>5. \A m \in 0 .. n : m \in S
  <2> HIDE DEF S
  <2> QED BY <1>1, <1>2, <1>3, UpTo
<1>6. ASSUME NEW i \in 0 .. n PROVE at[i] <= at[n]
  <2>1. n - i \in 0 .. n /\ n - (n - i) = i
    BY <1>1
  <2> QED BY <1>5, <2>1
<1> QED BY <1>1, <1>6 DEF n

(* Every piece of a frame is found at its offset. *)
LEMMA WrittenPieces ==
  ASSUME NEW b \in Seq(Nat), NEW off, NEW ss \in Seq(Seq(Nat)), NEW at, NEW c \in Seq(Nat),
         LaidOut(ss, c, at), Written(b, off, c)
  PROVE  \A i \in 1 .. Len(ss) :
           Written(b, off + at[i - 1], ss[i]) /\ off + at[i] <= Len(b)
<1> SUFFICES ASSUME NEW i \in 1 .. Len(ss)
             PROVE  Written(b, off + at[i - 1], ss[i]) /\ off + at[i] <= Len(b)
  OBVIOUS
<1> DEFINE l == Len(ss[i])
           u == at[i - 1]
           v == at[i]
           m == Len(c)
           e == Len(b)
<1>1. i - 1 \in 0 .. Len(ss) /\ i \in 0 .. Len(ss) /\ Len(ss) \in Nat
  OBVIOUS
<1>2. u \in Nat /\ v \in Nat /\ v <= m
  <2>1. at[Len(ss)] = m
    BY DEF LaidOut
  <2>2. \A h \in 0 .. Len(ss) : at[h] \in Nat /\ at[h] <= at[Len(ss)]
    BY LaidOutGrows
  <2> QED BY <1>1, <2>1, <2>2
<1>3. l \in Nat /\ v = u + l
  BY LaidOutTypes
<1>4. \A j \in 1 .. l : c[u + j] = ss[i][j]
  BY DEF LaidOut
<1>5. off \in Nat /\ off + m <= e /\ \A j \in 1 .. m : b[off + j] = c[j]
  BY DEF Written
<1>6. m \in Nat /\ e \in Nat
  BY LenProperties
<1> HIDE DEF l, u, v, m, e
<1>7. off + u \in Nat /\ (off + u) + l <= e /\ off + v <= e
  BY <1>2, <1>3, <1>5, <1>6
<1>8. ASSUME NEW j \in 1 .. l PROVE b[(off + u) + j] = ss[i][j]
  <2>1. u + j \in 1 .. m /\ (off + u) + j = off + (u + j)
    BY <1>2, <1>3, <1>5, <1>6
  <2> QED BY <1>4, <1>5, <2>1
<1> QED BY <1>7, <1>8 DEF Written, l, u, v, e

(* decode reads the octet that was written. *)
LEMMA OctetAtIs ==
  ASSUME NEW b \in Seq(Nat), NEW off, NEW s \in Seq(Nat), Written(b, off, s)
  PROVE  /\ \A i \in 1 .. Len(s) : OctetAt(b, off + (i - 1)) = s[i]
         /\ Len(s) > 0 => OctetAt(b, off) = s[1]
<1>1. off \in Nat /\ Len(s) \in Nat /\ Len(b) \in Nat /\ off + Len(s) <= Len(b)
      /\ \A i \in 1 .. Len(s) : b[off + i] = s[i]
  BY LenProperties DEF Written
<1>2. ASSUME NEW i \in 1 .. Len(s)
      PROVE  OctetAt(b, off + (i - 1)) = s[i]
  <2>1. off + (i - 1) < Len(b) /\ (off + (i - 1)) + 1 = off + i
    BY <1>1
  <2> QED BY <1>1, <2>1 DEF OctetAt
<1>3. Len(s) > 0 => 1 \in 1 .. Len(s) /\ off + (1 - 1) = off
  BY <1>1
<1> QED BY <1>2, <1>3

(* decode reads the two octets that were written. *)
LEMMA HalfAtIs ==
  ASSUME NEW b \in Seq(Nat), NEW off, NEW n, NEW h, Reads(h, n), Written(b, off, h)
  PROVE  HalfAt(b, off) = n
<1>1. h \in Seq(Nat) /\ Len(h) = 2 /\ h[1] * 256 + h[2] = n
  BY DEF Reads
<1>2. 1 \in 1 .. Len(h) /\ 2 \in 1 .. Len(h) /\ off \in Nat
  BY <1>1 DEF Written
<1>3. off + (1 - 1) = off /\ off + (2 - 1) = off + 1
  BY <1>2
<1>4. OctetAt(b, off + (1 - 1)) = h[1] /\ OctetAt(b, off + (2 - 1)) = h[2]
  <2>1. \A i \in 1 .. Len(h) : OctetAt(b, off + (i - 1)) = h[i]
    BY <1>1, OctetAtIs
  <2> QED BY <1>2, <2>1
<1>5. OctetAt(b, off) = h[1] /\ OctetAt(b, off + 1) = h[2]
  BY <1>3, <1>4
<1> QED BY <1>1, <1>5 DEF HalfAt

(* decode finds the end of a string where encode put its NUL. *)
LEMMA LengthAtIs ==
  ASSUME NEW b \in Seq(Nat), NEW off, NEW n \in Nat, Written(b, off, String(n))
  PROVE  LengthAt(b, off) = n
<1> DEFINE s == String(n)
           nuls == {i \in off + 1 .. Len(b) : b[i] = 0}
<1>1. /\ Len(s) = n + 1 /\ s[n + 1] = 0 /\ \A i \in 1 .. n : s[i] = 120
  BY StringIs DEF Char
<1> HIDE DEF s
<1>2. /\ off \in Nat /\ off + (n + 1) <= Len(b) /\ Len(b) \in Nat
      /\ \A i \in 1 .. n + 1 : b[off + i] = s[i]
  BY <1>1, LenProperties DEF Written, s
<1>3. off + (n + 1) \in nuls
  <2>1. n + 1 \in 1 .. n + 1 /\ off + (n + 1) \in off + 1 .. Len(b)
    BY <1>2
  <2> QED BY <1>1, <1>2, <2>1
<1>4. ASSUME NEW i \in nuls PROVE off + (n + 1) <= i
  <2> SUFFICES ASSUME i < off + (n + 1) PROVE FALSE
    BY <1>2
  <2>1. i - off \in 1 .. n /\ i - off \in 1 .. n + 1 /\ off + (i - off) = i
    BY <1>2
  <2>a. b[off + (i - off)] = s[i - off] /\ s[i - off] = 120
    BY <1>1, <1>2, <2>1
  <2>2. b[i] = 120
    BY <2>1, <2>a
  <2> QED BY <2>2
<1>5. Min(nuls) = off + (n + 1)
  <2>1. \A x \in nuls : (\A y \in nuls : x <= y) => x = off + (n + 1)
    <3>1. ASSUME NEW x \in nuls, \A y \in nuls : x <= y PROVE x = off + (n + 1)
      <4>1. x <= off + (n + 1) /\ off + (n + 1) <= x /\ x \in Int
            /\ off + (n + 1) \in Int
        BY <1>2, <1>3, <1>4, <3>1, SMTT(30)
      <4> QED BY <4>1
    <3> QED BY <3>1
  <2> HIDE DEF nuls
  <2>2. \E x \in nuls : \A y \in nuls : x <= y
    BY <1>3, <1>4
  <2> QED BY <2>1, <2>2 DEF Min
<1>6. nuls # {}
  BY <1>3
<1>7. LengthAt(b, off) = Min(nuls) - 1 - off
  <2> HIDE <1>3
  <2> QED BY <1>6 DEF LengthAt
<1> HIDE DEF nuls
<1> QED BY <1>2, <1>5, <1>7

(* SmeAddress::decode takes an address of less than MaxLen characters. *)
LEMMA AddressAtIs ==
  ASSUME NEW b \in Seq(Nat), NEW off, NEW n \in Nat, Written(b, off, SmeAddress(n))
  PROVE  /\ n < MaxLen => AddressAt(b, off) = [ok |-> TRUE, len |-> n]
         /\ ~ (n < MaxLen) => AddressAt(b, off) = Refused
<1> DEFINE t == <<1, 1>>
           s == String(n)
<1>1. t \in Seq(Nat) /\ Len(t) = 2 /\ s \in Seq(Nat) /\ Len(s) = n + 1
  BY StringIs
<1>2. Written(b, off, t \o s)
  BY DEF SmeAddress
<1> HIDE DEF t, s
<1>3. Written(b, off, t) /\ Written(b, off + Len(t), s)
  BY <1>1, <1>2, WrittenConcat
<1>4. off \in Nat /\ Len(b) \in Nat /\ off + 2 \in Nat
      /\ (off + 2) + (n + 1) <= Len(b)
  BY <1>1, <1>3, LenProperties DEF Written
<1>5. LengthAt(b, off + 2) = n
  BY <1>1, <1>3, LengthAtIs DEF s
<1>6. ~ (Len(b) - off < 3)
  BY <1>4
<1>7. LengthAt(b, off + 2) >= MaxLen <=> ~ (n < MaxLen)
  BY <1>5 DEF MaxLen
<1> QED BY <1>5, <1>6, <1>7 DEF AddressAt

(* b ends within the octets s that begin at offset off. *)
CutShort(b, off, s) ==
  /\ off \in Nat
  /\ off <= Len(b) /\ Len(b) < off + Len(s)
  /\ \A i \in 1 .. Len(s) : off + i <= Len(b) => b[off + i] = s[i]

(* Then it ends within one of the two parts s is put together from. *)
LEMMA CutConcat ==
  ASSUME NEW b \in Seq(Nat), NEW off, NEW r \in Seq(Nat), NEW s \in Seq(Nat),
         CutShort(b, off, r \o s)
  PROVE  CutShort(b, off, r) \/ (Written(b, off, r) /\ CutShort(b, off + Len(r), s))
<1> DEFINE q == r \o s
<1>1. /\ q \in Seq(Nat) /\ Len(q) = Len(r) + Len(s)
      /\ \A i \in 1 .. Len(r) + Len(s) : q[i] = IF i <= Len(r) THEN r[i] ELSE s[i - Len(r)]
  BY ConcatProperties
<1>2. Len(r) \in Nat /\ Len(s) \in Nat /\ Len(b) \in Nat
  BY LenProperties
<1> HIDE DEF q
<1>3. /\ off \in Nat /\ off <= Len(b) /\ Len(b) < off + (Len(r) + Len(s))
      /\ \A i \in 1 .. Len(r) + Len(s) : off + i <= Len(b) => b[off + i] = q[i]
  BY <1>1 DEF CutShort, q
<1>4. \A i \in 1 .. Len(r) : i \in 1 .. Len(r) + Len(s) /\ i <= Len(r)
  BY <1>2
<1>5. \A i \in 1 .. Len(r) : off + i <= Len(b) => b[off + i] = r[i]
  BY <1>1, <1>3, <1>4
<1>6. CASE Len(b) < off + Len(r)
  BY <1>3, <1>5, <1>6 DEF CutShort
<1>7. CASE ~ (Len(b) < off + Len(r))
  <2>1. off + Len(r) \in Nat /\ off + Len(r) <= Len(b)
        /\ Len(b) < (off + Len(r)) + Len(s)
    BY <1>2, <1>3, <1>7
  <2>2. \A i \in 1 .. Len(r) : off + i <= Len(b)
    BY <1>2, <1>3, <2>1
  <2>3. Written(b, off, r)
    BY <1>3, <1>5, <2>1, <2>2 DEF Written
  <2>4. ASSUME NEW i \in 1 .. Len(s), (off + Len(r)) + i <= Len(b)
        PROVE  b[(off + Len(r)) + i] = s[i]
    <3>1. /\ Len(r) + i \in 1 .. Len(r) + Len(s) /\ ~ (Len(r) + i <= Len(r))
          /\ (Len(r) + i) - Len(r) = i
             /\ (off + Len(r)) + i = off + (Len(r) + i)
      BY <1>2, <1>3
    <3> QED BY <1>1, <1>3, <2>4, <3>1
  <2>5. CutShort(b, off + Len(r), s)
    BY <2>1, <2>4 DEF CutShort
  <2> QED BY <2>3, <2>5
<1> QED BY <1>6, <1>7

(* Or within the j-th of many, and those before it are complete. *)
LEMMA CutPieces ==
  ASSUME NEW b \in Seq(Nat), NEW off, NEW ss \in Seq(Seq(Nat)), NEW at, NEW c \in Seq(Nat),
         LaidOut(ss, c, at), CutShort(b, off, c)
  PROVE  \E j \in 1 .. Len(ss) :
           /\ CutShort(b, off + at[j - 1], ss[j])
           /\ \A i \in 1 .. j - 1 : Written(b, off + at[i - 1], ss[i])
<1> DEFINE n == Len(ss)
           m == Len(c)
           e == Len(b)
           J == {i \in 1 .. n : e < off + at[i]}
<1>1. /\ n \in Nat /\ m \in Nat /\ e \in Nat
      /\ \A i \in 0 .. n : at[i] \in Nat /\ at[i] <= m
      /\ at[0] = 0 /\ at[n] = m
  <2>1. at[0] = 0 /\ at[n] = m
    BY DEF LaidOut
  <2> QED BY <2>1, LaidOutGrows, LenProperties
<1>2. /\ \A i \in 1 .. n : /\ Len(ss[i]) \in Nat /\ at[i] = at[i - 1] + Len(ss[i])
                           /\ i \in 0 .. n /\ i - 1 \in 0 .. n
      /\ \A i \in 1 .. n : \A j \in 1 .. Len(ss[i]) : c[at[i - 1] + j] = ss[i][j]
  BY LaidOutTypes, SMTT(30) DEF LaidOut
<1>3. /\ off \in Nat /\ off <= e /\ e < off + m
      /\ \A i \in 1 .. m : off + i <= e => b[off + i] = c[i]
  BY DEF CutShort
<1> HIDE DEF n, m, e
<1>4. n \in J
  <2>1. n # 0
    BY <1>1, <1>3
  <2> QED BY <1>1, <1>3, <2>1
<1>5. PICK j \in J : \A i \in J : j <= i
  <2>1. J \in SUBSET Nat
    BY <1>1
  <2>2. J # {}
    BY <1>4
  <2> HIDE DEF J
  <2> QED BY <2>1, <2>2, LeastElement
<1>6. ASSUME NEW i \in 1 .. n, NEW h \in 1 .. Len(ss[i]), (off + at[i - 1]) + h <= e
      PROVE  b[(off + at[i - 1]) + h] = ss[i][h]
  <2> DEFINE x == at[i - 1]
             l == Len(ss[i])
  <2>1. x \in Nat /\ l \in Nat /\ x + l <= m /\ h \in 1 .. l
    BY <1>1, <1>2
  <2>2. (off + x) + h <= e
    BY <1>6
  <2>3. c[x + h] = ss[i][h]
    BY <1>2
  <2> HIDE DEF x, l
  <2>4. x + h \in 1 .. m /\ (off + x) + h = off + (x + h)
    BY <1>1, <1>3, <2>1
  <2>5. b[(off + x) + h] = ss[i][h]
    BY <1>3, <2>2, <2>3, <2>4
  <2> QED BY <2>5 DEF x
<1>7. \A i \in 0 .. j - 1 : off + at[i] <= e
  <2> SUFFICES ASSUME NEW i \in 0 .. j - 1 PROVE off + at[i] <= e
    OBVIOUS
  <2>1. i \in 0 .. n /\ (i = 0 \/ i \in 1 .. n) /\ ~ (j <= i)
    BY <1>1
  <2>2. at[i] \in Nat /\ i \notin J
    BY <1>1, <1>5, <2>1
  <2> QED BY <1>1, <1>3, <2>1, <2>2
<1>8. ASSUME NEW i \in 1 .. j - 1
      PROVE  Written(b, off + at[i - 1], ss[i])
  <2> DEFINE x == at[i - 1]
             l == Len(ss[i])
  <2>1. i \in 1 .. n /\ i \in 0 .. j - 1
    BY <1>1
  <2>2. x \in Nat /\ l \in Nat /\ off + (x + l) <= e
    BY <1>1, <1>2, <1>7, <2>1
  <2>3. \A h \in 1 .. l : (off + x) + h <= e => b[(off + x) + h] = ss[i][h]
    BY <1>6, <2>1
  <2>4. off + x \in Nat /\ (off + x) + l <= e
        /\ \A h \in 1 .. l : (off + x) + h <= e
    <3> HIDE DEF x, l
    <3> QED BY <1>1, <1>3, <2>2
  <2> QED BY <2>3, <2>4 DEF Written, e
<1>9. CutShort(b, off + at[j - 1], ss[j])
  <2>1. j - 1 \in 0 .. j - 1 /\ j \in 1 .. n /\ e < off + at[j]
    BY <1>1
  <2> DEFINE x == at[j - 1]
             l == Len(ss[j])
  <2>2. x \in Nat /\ l \in Nat /\ e < off + (x + l) /\ off + x <= e
    BY <1>1, <1>2, <1>7, <2>1
  <2>3. off + x \in Nat /\ e < (off + x) + l
    <3> HIDE DEF x, l
    <3> QED BY <1>1, <1>3, <2>2
  <2>4. \A h \in 1 .. l : (off + x) + h <= e => b[(off + x) + h] = ss[j][h]
    BY <1>6, <2>1
  <2> QED BY <2>2, <2>3, <2>4 DEF CutShort, e
<1>10. j \in 1 .. n
  OBVIOUS
<1> HIDE DEF J
<1> QED BY <1>8, <1>9, <1>10 DEF n

(* A string whose NUL is cut off has no end that decode would find. *)
LEMMA LengthAtCut ==
  ASSUME NEW b \in Seq(Nat), NEW off, NEW n \in Nat, CutShort(b, off, String(n))
  PROVE  LengthAt(b, off) = Len(b)
<1> DEFINE s == String(n)
           nuls == {i \in off + 1 .. Len(b) : b[i] = 0}
<1>1. Len(s) = n + 1 /\ \A i \in 1 .. n : s[i] = 120
  BY StringIs DEF Char
<1> HIDE DEF s
<1>2. /\ off \in Nat /\ Len(b) \in Nat /\ Len(b) < off + (n + 1)
      /\ \A i \in 1 .. n + 1 : off + i <= Len(b) => b[off + i] = s[i]
  BY <1>1, LenProperties DEF CutShort, s
<1>3. ASSUME NEW i \in off + 1 .. Len(b) PROVE b[i] = 120
  <2>1. i - off \in 1 .. n /\ i - off \in 1 .. n + 1 /\ off + (i - off) = i
        /\ i <= Len(b)
    BY <1>2
  <2>2. b[off + (i - off)] = s[i - off] /\ s[i - off] = 120
    BY <1>1, <1>2, <2>1
  <2> QED BY <2>1, <2>2
<1>4. nuls = {}
  BY <1>3
<1> QED BY <1>4 DEF LengthAt

(* Such an address, if it is not refused, has no room for its NUL. *)
LEMMA AddressAtCut ==
  ASSUME NEW b \in Seq(Nat), NEW off, NEW n \in Nat, CutShort(b, off, SmeAddress(n))
  PROVE  AddressAt(b, off) = Refused
         \/ AddressAt(b, off) = [ok |-> TRUE, len |-> Len(b)]
<1> DEFINE t == <<1, 1>>
           s == String(n)
<1>1. t \in Seq(Nat) /\ Len(t) = 2 /\ s \in Seq(Nat)
  BY StringIs
<1>2. CutShort(b, off, t \o s)
  BY DEF SmeAddress
<1> HIDE DEF t, s
<1>3. CutShort(b, off, t) \/ CutShort(b, off + 2, s)
  BY <1>1, <1>2, CutConcat
<1>4. off \in Nat /\ Len(b) \in Nat
  BY <1>2, LenProperties DEF CutShort
<1>5. CASE Len(b) - off < 3
  BY <1>5 DEF AddressAt
<1>6. CASE ~ (Len(b) - off < 3)
  <2>1. ~ CutShort(b, off, t)
    BY <1>1, <1>4, <1>6 DEF CutShort
  <2>2. LengthAt(b, off + 2) = Len(b)
    BY <1>3, <2>1, LengthAtCut DEF s
  <2> QED BY <1>6, <2>2 DEF AddressAt
<1> QED BY <1>5, <1>6

(****************************************************************************)
(* Address lists.                                                           *)
(****************************************************************************)

(* An entry of an address list is encoded in the octets that add() counts. *)
LEMMA EntryIs ==
  ASSUME NEW e \in EntrySet
  PROVE  /\ EncodedEntry(e) \in Seq(Nat)
            /\ Len(EncodedEntry(e)) = EntryOctets(e)
         /\ EntryOctets(e) \in Nat
<1> DEFINE n == e.len
           a == SmeAddress(n)
           s == String(n)
           w == Word(0)
<1>1. n \in Nat /\ e.flag \in {"sme", "list", "unsuccess"}
  BY DEF EntrySet
<1>2. a \in Seq(Nat) /\ Len(a) = n + 3 /\ s \in Seq(Nat) /\ Len(s) = n + 1
  BY <1>1, AddressIs, StringIs
<1>3. w \in Seq(Nat) /\ Len(w) = 4
  BY WordIs
<1> HIDE DEF a, s, n, w
<1>4. CASE e.flag = "sme"
  <2>1. EncodedEntry(e) = <<1>> \o a /\ EntryOctets(e) = 1 + (n + 3)
    BY <1>4 DEF EncodedEntry, EntryOctets, a, n
  <2>2. <<1>> \o a \in Seq(Nat) /\ Len(<<1>> \o a) = Len(a) + 1
    BY <1>2, AfterOne
  <2> HIDE DEF EntryOctets
  <2> QED BY <1>1, <1>2, <2>1, <2>2
<1>5. CASE e.flag = "list"
  <2>1. EncodedEntry(e) = <<2>> \o s /\ EntryOctets(e) = 1 + (n + 1)
    BY <1>5 DEF EncodedEntry, EntryOctets, s, n
  <2>2. <<2>> \o s \in Seq(Nat) /\ Len(<<2>> \o s) = Len(s) + 1
    BY <1>2, AfterOne
  <2> QED BY <1>1, <1>2, <2>1, <2>2
<1>6. CASE e.flag = "unsuccess"
  <2>1. EncodedEntry(e) = a \o w /\ EntryOctets(e) = (n + 3) + 4
    BY <1>6 DEF EncodedEntry, EntryOctets, a, n, w
  <2>2. a \o w \in Seq(Nat) /\ Len(a \o w) = Len(a) + Len(w)
    <3>1. a \in Seq(Nat) /\ w \in Seq(Nat)
      BY <1>2, <1>3
    <3> QED BY <3>1, ConcatProperties
  <2> QED BY <1>1, <1>2, <1>3, <2>1, <2>2
<1> QED BY <1>1, <1>4, <1>5, <1>6

(* The entries of a list, as encode writes them. *)
LEMMA EntryFramesAre ==
  ASSUME NEW list \in Seq(EntrySet)
  PROVE  /\ EntryFrames(list) \in Seq(Seq(Nat))
            /\ Len(EntryFrames(list)) = Len(list)
         /\ \A i \in 1 .. Len(list) :
              list[i] \in EntrySet
              /\ EntryFrames(list)[i] = EncodedEntry(list[i])
         /\ FlattenSeq(EntryFrames(list)) \in Seq(Nat)
         /\ ListOctets(list) \in Nat
<1>1. Len(list) \in Nat /\ DOMAIN list = 1 .. Len(list)
      /\ \A i \in 1 .. Len(list) : list[i] \in EntrySet
  OBVIOUS
<1>2. \A i \in 1 .. Len(list) : EncodedEntry(list[i]) \in Seq(Nat)
  BY <1>1, EntryIs
<1>3. EntryFrames(list) \in Seq(Seq(Nat)) /\ Len(EntryFrames(list)) = Len(list)
  BY <1>1, <1>2, IsASeq DEF EntryFrames
<1>4. FlattenSeq(EntryFrames(list)) \in Seq(Nat)
  BY <1>3, Flattened
<1> QED BY <1>1, <1>3, <1>4, LenProperties DEF EntryFrames, ListOctets

(* An entry more takes what add() adds to command_length. *)
LEMMA ListOctetsAppend ==
  ASSUME NEW list \in Seq(EntrySet), NEW e \in EntrySet
  PROVE  ListOctets(Append(list, e)) = ListOctets(list) + EntryOctets(e)
<1> DEFINE l == Append(list, e)
           f == EntryFrames(list)
           g == EntryFrames(l)
           s == EncodedEntry(e)
<1>1. /\ l \in Seq(EntrySet) /\ Len(l) = Len(list) + 1
      /\ \A i \in 1 .. Len(list) : l[i] = list[i]
      /\ l[Len(list) + 1] = e
  BY AppendProperties
<1> HIDE DEF l
<1>2. /\ f \in Seq(Seq(Nat)) /\ Len(f) = Len(list)
      /\ \A i \in 1 .. Len(list) : f[i] = EncodedEntry(list[i])
  BY EntryFramesAre
<1>3. /\ g \in Seq(Seq(Nat)) /\ Len(g) = Len(l)
      /\ \A i \in 1 .. Len(l) : g[i] = EncodedEntry(l[i])
  BY <1>1, EntryFramesAre
<1>4. s \in Seq(Nat) /\ Len(s) = EntryOctets(e)
  BY EntryIs
<1> HIDE DEF f, g, s
<1>5. Len(list) \in Nat /\ <<s>> \in Seq(Seq(Nat)) /\ Append(f, s) = f \o <<s>>
  BY <1>2, <1>4, LenProperties, AppendIsConcat
<1>6. g = Append(f, s)
  <2>1. /\ Append(f, s) \in Seq(Seq(Nat)) /\ Len(Append(f, s)) = Len(f) + 1
        /\ \A i \in 1 .. Len(f) : Append(f, s)[i] = f[i]
        /\ Append(f, s)[Len(f) + 1] = s
    BY <1>2, <1>4, AppendProperties
  <2>2. ASSUME NEW i \in 1 .. Len(g) PROVE g[i] = Append(f, s)[i]
    <3>1. i \in 1 .. Len(list) \/ i = Len(list) + 1
      BY <1>1, <1>3, <1>5
    <3>2. CASE i \in 1 .. Len(list)
      BY <1>1, <1>2, <1>3, <2>1, <3>2
    <3>3. CASE i = Len(list) + 1
      BY <1>1, <1>2, <1>3, <2>1, <3>3 DEF s
    <3> QED BY <3>1, <3>2, <3>3
  <2>3. Len(g) = Len(Append(f, s))
    BY <1>1, <1>2, <1>3, <2>1
  <2> QED BY <1>3, <2>1, <2>2, <2>3, SeqEqual
<1>7. Len(FlattenSeq(g)) = Len(FlattenSeq(f)) + Len(FlattenSeq(<<s>>))
  BY <1>2, <1>5, <1>6, FlattenConcat
<1>8. FlattenSeq(<<s>>) = s
  BY <1>4, FlattenShort
<1> QED BY <1>4, <1>7, <1>8 DEF ListOctets, f, g, l

(* The count octet, then the entries. *)
LEMMA ListIs ==
  ASSUME NEW list \in Seq(EntrySet)
  PROVE  /\ EncodedList(list) = <<Len(list)>> \o FlattenSeq(EntryFrames(list))
         /\ EncodedList(list) \in Seq(Nat)
         /\ Len(EncodedList(list)) = ListOctets(list) + 1
         /\ EncodedList(list)[1] = Len(list)
         /\ ListOctets(<<>>) = 0
<1>1. Len(list) \in Nat
  BY LenProperties
<1>2. EncodedList(list) = <<Len(list)>> \o FlattenSeq(EntryFrames(list))
  BY DEF EncodedList, EntryFrames
<1>3. FlattenSeq(EntryFrames(list)) \in Seq(Nat)
  BY EntryFramesAre
<1>4. EntryFrames(<<>>) = <<>> /\ FlattenSeq(<<>>) = <<>>
  BY DEF EntryFrames, FlattenSeq
<1> QED BY <1>1, <1>2, <1>3, <1>4, AfterOne DEF ListOctets

(* decode takes one entry out that encode has written. *)
LEMMA EntryAtIs ==
  ASSUME NEW k, NEW b \in Seq(Nat), NEW off, NEW e \in EntrySet,
         e.flag \in EntryFlags(k), Written(b, off, EncodedEntry(e))
  PROVE  EntryAt(k, b, off) = [ok |-> TRUE, entry |-> e]
<1> DEFINE n == e.len
           a == SmeAddress(n)
           s == String(n)
           w == Word(0)
<1>1. n \in Nat /\ (e.flag # "list" => n < MaxLen) /\ e = Entry(e.flag, n)
  BY DEF EntrySet, Entry
<1>2. a \in Seq(Nat) /\ Len(a) = n + 3 /\ s \in Seq(Nat) /\ Len(s) = n + 1
      /\ w \in Seq(Nat)
  <2>1. w \in Seq(Nat)
    BY WordIs
  <2> QED BY <1>1, <2>1, AddressIs, StringIs
<1>3. /\ off \in Nat /\ Len(b) \in Nat /\ EntryOctets(e) \in Nat
      /\ ~ (off + EntryOctets(e) > Len(b))
  BY EntryIs, LenProperties DEF Written
<1>4. Taken(e, b, off) = [ok |-> TRUE, entry |-> e]
  BY <1>3 DEF Taken
<1>5. e.flag # "list" =>
        \A o \in Nat : Written(b, o, a)
          => AddressAt(b, o) = [ok |-> TRUE, len |-> n]
  BY <1>1, AddressAtIs
<1>6. \A o \in Nat : Written(b, o, s) => LengthAt(b, o) = n
  BY <1>1, LengthAtIs
<1> HIDE DEF a, s, n, w
<1>7. CASE e.flag = "sme"
  <2>1. k = "submit_multi"
    BY <1>7 DEF EntryFlags
  <2>2. Written(b, off, <<1>> \o a)
    BY <1>7 DEF EncodedEntry, a, n
  <2>3. Written(b, off, <<1>>) /\ Written(b, off + 1, a)
    <3>1. <<1>> \in Seq(Nat) /\ Len(<<1>>) = 1
      OBVIOUS
    <3> QED BY <1>2, <2>2, <3>1, WrittenConcat
  <2>4. OctetAt(b, off) = 1
    <3>1. <<1>> \in Seq(Nat) /\ Len(<<1>>) > 0 /\ <<1>>[1] = 1
      OBVIOUS
    <3> QED BY <2>3, <3>1, OctetAtIs
  <2>5. AddressAt(b, off + 1) = [ok |-> TRUE, len |-> n]
    <3>1. off + 1 \in Nat
      BY <1>3
    <3> QED BY <1>5, <1>7, <2>3, <3>1
  <2>6. EntryAt(k, b, off) = TakenSme("sme", AddressAt(b, off + 1), b, off)
    BY <2>1, <2>4 DEF EntryAt
  <2>7. TakenSme("sme", AddressAt(b, off + 1), b, off) = Taken(e, b, off)
    BY <1>1, <1>7, <2>5 DEF TakenSme
  <2> QED BY <1>4, <2>6, <2>7
<1>8. CASE e.flag = "list"
  <2>1. k = "submit_multi"
    BY <1>8 DEF EntryFlags
  <2>2. Written(b, off, <<2>> \o s)
    BY <1>8 DEF EncodedEntry, s, n
  <2>3. Written(b, off, <<2>>) /\ Written(b, off + 1, s)
    <3>1. <<2>> \in Seq(Nat) /\ Len(<<2>>) = 1
      OBVIOUS
    <3> QED BY <1>2, <2>2, <3>1, WrittenConcat
  <2>4. OctetAt(b, off) = 2
    <3>1. <<2>> \in Seq(Nat) /\ Len(<<2>>) > 0 /\ <<2>>[1] = 2
      OBVIOUS
    <3> QED BY <2>3, <3>1, OctetAtIs
  <2>5. LengthAt(b, off + 1) = n
    <3>1. off + 1 \in Nat
      BY <1>3
    <3> QED BY <1>6, <2>3, <3>1
  <2>6. EntryAt(k, b, off) = Taken(Entry("list", LengthAt(b, off + 1)), b, off)
    BY <2>1, <2>4 DEF EntryAt
  <2> QED BY <1>1, <1>4, <1>8, <2>5, <2>6
<1>9. CASE e.flag = "unsuccess"
  <2>1. k = "submit_multi_resp"
    BY <1>9 DEF EntryFlags
  <2>2. Written(b, off, a \o w)
    BY <1>9 DEF EncodedEntry, a, n, w
  <2>3. Written(b, off, a)
    BY <1>2, <2>2, WrittenConcat
  <2>5. AddressAt(b, off) = [ok |-> TRUE, len |-> n]
    BY <1>3, <1>5, <1>9, <2>3
  <2>6. EntryAt(k, b, off) = TakenSme("unsuccess", AddressAt(b, off), b, off)
    BY <2>1 DEF EntryAt
  <2>7. TakenSme("unsuccess", AddressAt(b, off), b, off) = Taken(e, b, off)
    BY <1>1, <1>9, <2>5 DEF TakenSme
  <2> QED BY <1>4, <2>6, <2>7
<1> QED BY <1>7, <1>8, <1>9 DEF EntryFlags, EntrySet

(* decode refuses an entry that is cut short. *)
LEMMA EntryAtCut ==
  ASSUME NEW k, NEW b \in Seq(Nat), NEW off, NEW e \in EntrySet,
         e.flag \in EntryFlags(k), CutShort(b, off, EncodedEntry(e))
  PROVE  EntryAt(k, b, off) = Refused
<1> DEFINE n == e.len
           a == SmeAddress(n)
           s == String(n)
           w == Word(0)
           l == Len(b)
<1>1. n \in Nat /\ (e.flag # "list" => n < MaxLen) /\ e = Entry(e.flag, n)
  BY DEF EntrySet, Entry
<1>2. a \in Seq(Nat) /\ Len(a) = n + 3 /\ s \in Seq(Nat) /\ Len(s) = n + 1
      /\ w \in Seq(Nat)
  <2>1. w \in Seq(Nat)
    BY WordIs
  <2> QED BY <1>1, <2>1, AddressIs, StringIs
<1>3. off \in Nat /\ l \in Nat /\ l < off + EntryOctets(e)
      /\ EntryOctets(e) \in Nat
  BY EntryIs, LenProperties DEF CutShort
<1>4. ASSUME NEW o \in Nat, CutShort(b, o, a)
      PROVE  \/ AddressAt(b, o) = Refused
             \/ AddressAt(b, o) = [ok |-> TRUE, len |-> l]
  BY <1>1, <1>4, AddressAtCut
<1>5. \A o \in Nat : CutShort(b, o, s) => LengthAt(b, o) = l
  BY <1>1, LengthAtCut
<1>6. \A v : <<v>> \in Seq({v}) /\ Len(<<v>>) = 1
  OBVIOUS
<1>7. \A v \in Nat : CutShort(b, off, <<v>>) => OctetAt(b, off) = 0
  BY <1>3, <1>6 DEF CutShort, OctetAt
<1>8. e.flag # "list" => \A o \in Nat : Written(b, o, a)
        => AddressAt(b, o) = [ok |-> TRUE, len |-> n]
  BY <1>1, AddressAtIs
<1> HIDE DEF a, s, n, w
<1>9. CASE e.flag = "sme"
  <2>1. k = "submit_multi"
    BY <1>9 DEF EntryFlags
  <2>2. CutShort(b, off, <<1>> \o a)
    BY <1>9 DEF EncodedEntry, a, n
  <2>3. CutShort(b, off, <<1>>) \/ (Written(b, off, <<1>>) /\ CutShort(b, off + 1, a))
    <3>1. <<1>> \in Seq(Nat) /\ Len(<<1>>) = 1
      OBVIOUS
    <3> QED BY <1>2, <2>2, <3>1, CutConcat
  <2>4. CASE CutShort(b, off, <<1>>)
    BY <1>7, <2>1, <2>4 DEF EntryAt
  <2>5. CASE Written(b, off, <<1>>) /\ CutShort(b, off + 1, a)
    <3>1. OctetAt(b, off) = 1
      <4>1. <<1>> \in Seq(Nat) /\ Len(<<1>>) > 0 /\ <<1>>[1] = 1
        OBVIOUS
      <4> QED BY <2>5, <4>1, OctetAtIs
    <3>2. EntryAt(k, b, off) = TakenSme("sme", AddressAt(b, off + 1), b, off)
      BY <2>1, <3>1 DEF EntryAt
    <3>3. off + 1 \in Nat
      BY <1>3
    <3>4. CASE AddressAt(b, off + 1) = Refused
      BY <3>2, <3>4 DEF TakenSme, Refused
    <3>5. CASE AddressAt(b, off + 1) = [ok |-> TRUE, len |-> l]
      <4>1. TakenSme("sme", AddressAt(b, off + 1), b, off) = Taken(Entry("sme", l), b, off)
        BY <3>5 DEF TakenSme
      <4>2. EntryOctets(Entry("sme", l)) = 1 + (l + 3)
        BY DEF EntryOctets, Entry
      <4>3. off + (1 + (l + 3)) > l
        BY <1>3
      <4> QED BY <3>2, <4>1, <4>2, <4>3 DEF Taken, l
    <3> QED BY <1>4, <2>5, <3>3, <3>4, <3>5
  <2> QED BY <2>3, <2>4, <2>5
<1>10. CASE e.flag = "list"
  <2>1. k = "submit_multi"
    BY <1>10 DEF EntryFlags
  <2>2. CutShort(b, off, <<2>> \o s)
    BY <1>10 DEF EncodedEntry, s, n
  <2>3. CutShort(b, off, <<2>>) \/ (Written(b, off, <<2>>) /\ CutShort(b, off + 1, s))
    <3>1. <<2>> \in Seq(Nat) /\ Len(<<2>>) = 1
      OBVIOUS
    <3> QED BY <1>2, <2>2, <3>1, CutConcat
  <2>4. CASE CutShort(b, off, <<2>>)
    BY <1>7, <2>1, <2>4 DEF EntryAt
  <2>5. CASE Written(b, off, <<2>>) /\ CutShort(b, off + 1, s)
    <3>1. OctetAt(b, off) = 2
      <4>1. <<2>> \in Seq(Nat) /\ Len(<<2>>) > 0 /\ <<2>>[1] = 2
        OBVIOUS
      <4> QED BY <2>5, <4>1, OctetAtIs
    <3>2. EntryAt(k, b, off) = Taken(Entry("list", LengthAt(b, off + 1)), b, off)
      BY <2>1, <3>1 DEF EntryAt
    <3>3. off + 1 \in Nat
      BY <1>3
    <3>4. LengthAt(b, off + 1) = l
      BY <1>5, <2>5, <3>3
    <3>5. EntryOctets(Entry("list", l)) = 1 + (l + 1)
      BY DEF EntryOctets, Entry
    <3>6. off + (1 + (l + 1)) > l
      BY <1>3
    <3> QED BY <3>2, <3>4, <3>5, <3>6 DEF Taken, l
  <2> QED BY <2>3, <2>4, <2>5
<1>11. CASE e.flag = "unsuccess"
  <2>1. k = "submit_multi_resp"
    BY <1>11 DEF EntryFlags
  <2>2. CutShort(b, off, a \o w)
    BY <1>11 DEF EncodedEntry, a, n, w
  <2>3. CutShort(b, off, a) \/ Written(b, off, a)
    BY <1>2, <2>2, CutConcat
  <2>4. EntryAt(k, b, off) = TakenSme("unsuccess", AddressAt(b, off), b, off)
    BY <2>1 DEF EntryAt
  <2>5. CASE AddressAt(b, off) = Refused
    BY <2>4, <2>5 DEF TakenSme, Refused
  <2>6. CASE AddressAt(b, off) = [ok |-> TRUE, len |-> l]
    <3>1. TakenSme("unsuccess", AddressAt(b, off), b, off) = Taken(Entry("unsuccess", l), b, off)
      BY <2>6 DEF TakenSme
    <3>2. EntryOctets(Entry("unsuccess", l)) = (l + 3) + 4
      BY DEF EntryOctets, Entry
    <3>3. off + ((l + 3) + 4) > l
      BY <1>3
    <3> QED BY <2>4, <3>1, <3>2, <3>3 DEF Taken, l
  <2>7. CASE Written(b, off, a)
    <3>1. AddressAt(b, off) = [ok |-> TRUE, len |-> n]
      BY <1>3, <1>8, <1>11, <2>7
    <3>2. TakenSme("unsuccess", AddressAt(b, off), b, off) = Taken(e, b, off)
      BY <1>1, <1>11, <3>1 DEF TakenSme
    <3>3. off + EntryOctets(e) > l
      BY <1>3
    <3> QED BY <2>4, <3>2, <3>3 DEF Taken, l
  <2> QED BY <1>3, <1>4, <2>3, <2>5, <2>6, <2>7
<1> QED BY <1>9, <1>10, <1>11 DEF EntryFlags, EntrySet

(****************************************************************************)
(* The loop that decodes a list.                                            *)
(****************************************************************************)

(* One round of the loop that decodes a list. *)
LEMMA AddTakenIs ==
  ASSUME NEW o, NEW l, NEW e
  PROVE  AddTaken([ok |-> TRUE, off |-> o, list |-> l], [ok |-> TRUE, entry |-> e])
           = [ok |-> TRUE, off |-> o + EntryOctets(e), list |-> Append(l, e)]
BY DEF AddTaken

(* The check before a list of submit_multi. *)
RoomForList(k, b, off) == k = "submit_multi" => Len(b) - off >= 3

(* Where the entries of a list begin and end, after its count octet. *)
EntriesAt(list, at) ==
  /\ at[0] = 0
  /\ \A i \in 0 .. Len(list) : at[i] \in Nat
  /\ \A i \in 1 .. Len(list) : at[i] = at[i - 1] + EntryOctets(list[i])

(* What decode has after it took the first i entries. *)
EntriesTaken(off, list, at, i) ==
  [ok |-> TRUE, off |-> (off + 1) + at[i], list |-> SubSeq(list, 1, i)]

(* decode takes the first j entries out that encode has written; if it cannot
   take the next one, it refuses the list. *)
LEMMA ListLoop ==
  ASSUME NEW k, NEW b \in Seq(Nat), NEW off \in Nat, NEW list \in Seq(EntrySet),
         EntriesOf(k, list), NEW at, EntriesAt(list, at),
         OctetAt(b, off) = Len(list), Len(b) - off >= 1, RoomForList(k, b, off),
         NEW j \in 0 .. Len(list),
         \A i \in 1 .. j : Written(b, (off + 1) + at[i - 1], EncodedEntry(list[i])),
         j # Len(list) => EntryAt(k, b, (off + 1) + at[j]) = Refused
  PROVE  ListAt(k, b, off) =
           IF j = Len(list) THEN EntriesTaken(off, list, at, Len(list)) ELSE Refused
<1> DEFINE n == Len(list)
           next(r) == IF r.ok THEN AddTaken(r, EntryAt(k, b, r.off)) ELSE Refused
           base == [ok |-> TRUE, off |-> off + 1, list |-> <<>>]
           upTo == CHOOSE f : f = [i \in 0 .. OctetAt(b, off) |->
                                     IF i = 0 THEN base ELSE next(f[i - 1])]
<1>1. n \in Nat /\ \A i \in 1 .. n : list[i] \in EntrySet
  OBVIOUS
<1>2. n \in Nat /\ off \in Nat /\ Len(b) \in Nat /\ j \in 0 .. n
  BY LenProperties
<1>4. /\ \A i \in 0 .. n : at[i] \in Nat
      /\ \A i \in 1 .. n : at[i] = at[i - 1] + EntryOctets(list[i])
      /\ at[0] = 0
  BY DEF EntriesAt
<1>9. ListAt(k, b, off) = upTo[n]
  <2>1. ~ (Len(b) - off < IF k = "submit_multi" THEN 3 ELSE 1)
    BY <1>2 DEF RoomForList
  <2>2. ListAt(k, b, off) = upTo[OctetAt(b, off)]
    BY <2>1 DEF ListAt
  <2> QED BY <2>2
<1> DEFINE w == [i \in 0 .. n |-> IF i <= j THEN EntriesTaken(off, list, at, i) ELSE Refused]
<1>10. ASSUME NEW i \in 1 .. n
       PROVE  next(w[i - 1]) = w[i]
  <2> DEFINE e == list[i]
             o == (off + 1) + at[i - 1]
             l == SubSeq(list, 1, i - 1)
             r == w[i - 1]
  <2>1. i - 1 \in 0 .. n /\ i \in 0 .. n
    BY <1>2
  <2>a. CASE i <= j
    <3>1. r = [ok |-> TRUE, off |-> o, list |-> l]
      BY <1>2, <2>1, <2>a DEF EntriesTaken
    <3>2. EntryAt(k, b, o) = [ok |-> TRUE, entry |-> e]
      <4>1. e \in EntrySet /\ e.flag \in EntryFlags(k)
            /\ Written(b, o, EncodedEntry(e))
        BY <1>1, <1>2, <2>a DEF EntriesOf
      <4> HIDE DEF e, o
      <4> QED BY <4>1, EntryAtIs
    <3>3. o + EntryOctets(e) = (off + 1) + at[i]
      <4>1. at[i - 1] \in Nat /\ at[i] = at[i - 1] + EntryOctets(e)
            /\ EntryOctets(e) \in Nat
        BY <1>1, <1>4, <2>1, EntryIs
      <4> HIDE DEF e
      <4> QED BY <1>2, <4>1
    <3>4. Append(l, e) = SubSeq(list, 1, i)
      <4>1. 1 \in 1 .. n /\ i \in 1 .. n
        BY <1>2
      <4>2. SubSeq(list, 1, i) = l \o <<e>>
        BY <4>1, SubSeqRecursiveSecond
      <4>3. l \in Seq(EntrySet) /\ e \in EntrySet
        <5>1. \A h \in 1 .. i - 1 : list[h] \in EntrySet
          BY <1>1, <1>2
        <5>2. 1 \in Int /\ i - 1 \in Int
          BY <1>2
        <5> QED BY <1>1, <5>1, <5>2, SubSeqProperties
      <4> QED BY <4>2, <4>3, AppendIsConcat
    <3>5. w[i] = [ok |-> TRUE, off |-> o + EntryOctets(e), list |-> Append(l, e)]
      BY <2>1, <2>a, <3>3, <3>4 DEF EntriesTaken
    <3> HIDE DEF w, e, o, l
    <3>6. next(r) = AddTaken(r, EntryAt(k, b, o))
      <4>1. r.ok /\ r.off = o
        BY <3>1
      <4> QED BY <4>1
    <3> HIDE DEF r, next
    <3>7. AddTaken(r, [ok |-> TRUE, entry |-> e])
            = [ok |-> TRUE, off |-> o + EntryOctets(e), list |-> Append(l, e)]
      BY <3>1, AddTakenIs
    <3> QED BY <3>2, <3>5, <3>6, <3>7 DEF r
  <2>b. CASE i - 1 = j
    <3>1. r = [ok |-> TRUE, off |-> o, list |-> l] /\ w[i] = Refused
      BY <1>2, <2>1, <2>b DEF EntriesTaken
    <3>2. EntryAt(k, b, o) = Refused
      BY <1>2, <2>b
    <3> HIDE DEF w, o, l
    <3>3. next(r) = AddTaken(r, EntryAt(k, b, o))
      <4>1. r.ok /\ r.off = o
        BY <3>1
      <4> QED BY <4>1
    <3>4. AddTaken(r, Refused) = Refused
      BY DEF AddTaken, Refused
    <3> HIDE DEF r, next
    <3> QED BY <3>1, <3>2, <3>3, <3>4 DEF r
  <2>c. CASE ~ (i - 1 <= j)
    <3>1. r = Refused /\ w[i] = Refused
      BY <1>2, <2>1, <2>c
    <3>2. next(Refused) = Refused
      BY DEF Refused
    <3> HIDE DEF w, next
    <3> QED BY <3>1, <3>2
  <2> QED BY <1>2, <2>a, <2>b, <2>c
<1>11. w[0] = base
  <2>1. 0 \in 0 .. n /\ (off + 1) + at[0] = off + 1 /\ 0 <= j
    BY <1>2, <1>4
  <2>2. SubSeq(list, 1, 0) = <<>>
    BY SubSeqEmpty
  <2> QED BY <2>1, <2>2 DEF EntriesTaken
<1>12. w[n] = IF j = n THEN EntriesTaken(off, list, at, n) ELSE Refused
  <2>1. n \in 0 .. n /\ (n <= j <=> j = n)
    BY <1>2
  <2> QED BY <2>1
<1>13. w = [i \in 0 .. n |-> IF i = 0 THEN base ELSE next(w[i - 1])]
  <2>1. w = [i \in 0 .. n |-> w[i]]
    OBVIOUS
  <2>2. \A i \in 0 .. n : w[i] = IF i = 0 THEN base ELSE next(w[i - 1])
    <3>1. \A i \in 0 .. n : i # 0 => i \in 1 .. n
      BY <1>2
    <3> HIDE DEF w, next, base
    <3> QED BY <1>10, <1>11, <3>1
  <2> HIDE DEF w, next, base
  <2> QED BY <2>1, <2>2
<1>14. upTo = [i \in 0 .. n |-> IF i = 0 THEN base ELSE next(upTo[i - 1])]
  <2> HIDE DEF w, next, base
  <2>1. \E f : f = [i \in 0 .. n |-> IF i = 0 THEN base ELSE next(f[i - 1])]
    BY <1>13
  <2> QED BY <2>1
<1> HIDE DEF upTo, w, next, base
<1>15. \A i \in 0 .. n : i \in {m \in 0 .. n : upTo[m] = w[m]}
  <2> DEFINE S == {m \in 0 .. n : upTo[m] = w[m]}
  <2>1. 0 \in S
    BY <1>2, <1>11, <1>14
  <2>2. ASSUME NEW i \in 1 .. n, i - 1 \in S PROVE i \in S
    <3>1. i \in 0 .. n /\ i # 0
      BY <1>2
    <3>2. upTo[i] = next(upTo[i - 1])
      BY <1>14, <3>1
    <3> QED BY <1>10, <2>2, <3>1, <3>2
  <2> HIDE DEF S
  <2>3. \A i \in 0 .. n : i \in S
    BY <1>2, <2>1, <2>2, UpTo
  <2> QED BY <2>3 DEF S
<1>16. upTo[n] = w[n]
  BY <1>2, <1>15
<1> QED BY <1>9, <1>12, <1>16

(* Where the entries of a list are. *)
LEMMA EntriesLaidOut ==
  ASSUME NEW list \in Seq(EntrySet)
  PROVE  \E at : /\ LaidOut(EntryFrames(list), FlattenSeq(EntryFrames(list)), at)
                 /\ EntriesAt(list, at) /\ at[Len(list)] = ListOctets(list)
<1> DEFINE n == Len(list)
           ss == EntryFrames(list)
           c == FlattenSeq(ss)
<1>1. /\ ss \in Seq(Seq(Nat)) /\ Len(ss) = n
      /\ \A i \in 1 .. n : list[i] \in EntrySet
         /\ ss[i] = EncodedEntry(list[i])
      /\ c \in Seq(Nat)
  BY EntryFramesAre
<1>3. PICK at : LaidOut(ss, c, at)
  BY <1>1, Flattened
<1>4. /\ \A i \in 0 .. n : at[i] \in Nat
      /\ \A i \in 1 .. n : at[i] = at[i - 1] + EntryOctets(list[i])
      /\ at[0] = 0 /\ at[n] = ListOctets(list)
  <2>1. \A i \in 0 .. n : at[i] \in Nat
    BY <1>1, <1>3 DEF LaidOut
  <2>2. at[0] = 0 /\ at[n] = Len(c)
    BY <1>1, <1>3 DEF LaidOut
  <2>3. \A i \in 1 .. n : at[i] = at[i - 1] + Len(ss[i])
    BY <1>1, <1>3 DEF LaidOut
  <2>4. \A i \in 1 .. n : Len(ss[i]) = EntryOctets(list[i])
    BY <1>1, EntryIs
  <2> QED BY <2>1, <2>2, <2>3, <2>4 DEF ListOctets
<1> QED BY <1>3, <1>4 DEF EntriesAt

(* The count octet is read as the number of entries. *)
LEMMA CountIs ==
  ASSUME NEW b \in Seq(Nat), NEW off, NEW list \in Seq(EntrySet),
         Written(b, off, <<Len(list)>>)
  PROVE  OctetAt(b, off) = Len(list) /\ Len(b) - off >= 1
<1> DEFINE n == Len(list)
<1>1. n \in Nat
  OBVIOUS
<1> HIDE DEF n
<1>2. <<n>> \in Seq(Nat) /\ Len(<<n>>) = 1 /\ <<n>>[1] = n /\ Len(<<n>>) > 0
  BY <1>1
<1>3. Written(b, off, <<n>>)
  BY DEF n
<1>4. OctetAt(b, off) = n
  BY <1>2, <1>3, OctetAtIs
<1>5. off \in Nat /\ Len(b) \in Nat /\ off + 1 <= Len(b)
  BY <1>2, <1>3, LenProperties DEF Written
<1> QED BY <1>4, <1>5 DEF n

(* decode takes a whole list out that encode has written. *)
LEMMA ListAtIs ==
  ASSUME NEW k, NEW b \in Seq(Nat), NEW off, NEW list \in Seq(EntrySet),
         EntriesOf(k, list), Written(b, off, EncodedList(list)), RoomForList(k, b, off)
  PROVE  ListAt(k, b, off) =
           [ok |-> TRUE, off |-> off + 1 + ListOctets(list), list |-> list]
<1> DEFINE n == Len(list)
           ss == EntryFrames(list)
           c == FlattenSeq(ss)
<1>1. /\ ss \in Seq(Seq(Nat)) /\ Len(ss) = n
      /\ \A i \in 1 .. n : ss[i] = EncodedEntry(list[i])
      /\ c \in Seq(Nat) /\ n \in Nat
  BY EntryFramesAre
<1>2. PICK at : LaidOut(ss, c, at) /\ EntriesAt(list, at)
      /\ at[n] = ListOctets(list)
  BY EntriesLaidOut
<1>3. Written(b, off, <<n>>) /\ Written(b, off + 1, c)
  <2>1. Written(b, off, <<n>> \o c)
    BY ListIs
  <2>2. <<n>> \in Seq(Nat) /\ Len(<<n>>) = 1
    BY <1>1
  <2> HIDE DEF n, c
  <2>3. Written(b, off, <<n>>) /\ Written(b, off + Len(<<n>>), c)
    BY <1>1, <2>1, <2>2, WrittenConcat
  <2> QED BY <2>2, <2>3
<1>4. off \in Nat
  BY <1>3 DEF Written
<1> HIDE DEF c
<1>5. \A i \in 1 .. n : Written(b, (off + 1) + at[i - 1], EncodedEntry(list[i]))
  <2> HIDE DEF ss
  <2> QED BY <1>1, <1>2, <1>3, WrittenPieces
<1>6. n \in 0 .. Len(list)
  BY <1>1
<1>7. OctetAt(b, off) = Len(list) /\ Len(b) - off >= 1
  BY <1>3, CountIs
<1>8. ListAt(k, b, off) = EntriesTaken(off, list, at, n)
  BY <1>2, <1>4, <1>5, <1>6, <1>7, ListLoop
<1>9. SubSeq(list, 1, n) = list
  BY SubSeqFull
<1> QED BY <1>2, <1>8, <1>9 DEF EntriesTaken

(* decode refuses a list that is cut short. *)
LEMMA ListAtCut ==
  ASSUME NEW k, NEW b \in Seq(Nat), NEW off, NEW list \in Seq(EntrySet),
         EntriesOf(k, list), CutShort(b, off, EncodedList(list))
  PROVE  ListAt(k, b, off) = Refused
<1> DEFINE n == Len(list)
           ss == EntryFrames(list)
           c == FlattenSeq(ss)
<1>1. /\ ss \in Seq(Seq(Nat)) /\ Len(ss) = n
      /\ \A i \in 1 .. n : list[i] \in EntrySet
         /\ ss[i] = EncodedEntry(list[i])
      /\ c \in Seq(Nat) /\ n \in Nat
  BY EntryFramesAre
<1>2. PICK at : LaidOut(ss, c, at) /\ EntriesAt(list, at)
  BY EntriesLaidOut
<1>3. CutShort(b, off, <<n>>) \/ (Written(b, off, <<n>>) /\ CutShort(b, off + 1, c))
  <2>1. CutShort(b, off, <<n>> \o c)
    BY ListIs
  <2>2. <<n>> \in Seq(Nat) /\ Len(<<n>>) = 1
    BY <1>1
  <2> HIDE DEF n, c
  <2>3. CutShort(b, off, <<n>>) \/ (Written(b, off, <<n>>) /\ CutShort(b, off + Len(<<n>>), c))
    BY <1>1, <2>1, <2>2, CutConcat
  <2> QED BY <2>2, <2>3
<1>4. off \in Nat /\ Len(b) \in Nat
  BY LenProperties DEF CutShort
<1>5. CASE ~ RoomForList(k, b, off)
  BY <1>4, <1>5 DEF RoomForList, ListAt
<1>6. CASE CutShort(b, off, <<n>>)
  <2>1. Len(<<n>>) = 1
    OBVIOUS
  <2> HIDE DEF n
  <2>2. Len(b) < off + 1
    BY <1>6, <2>1 DEF CutShort
  <2>3. Len(b) - off < IF k = "submit_multi" THEN 3 ELSE 1
    BY <1>4, <2>2
  <2> QED BY <2>3 DEF ListAt
<1>7. CASE RoomForList(k, b, off) /\ Written(b, off, <<n>>)
           /\ CutShort(b, off + 1, c)
  <2>1. PICK j \in 1 .. n :
          /\ CutShort(b, (off + 1) + at[j - 1], ss[j])
          /\ \A i \in 1 .. j - 1 : Written(b, (off + 1) + at[i - 1], ss[i])
    <3> HIDE DEF ss, c
    <3> QED BY <1>1, <1>2, <1>7, CutPieces
  <2> DEFINE m == j - 1
  <2>2. m \in 0 .. Len(list) /\ m # Len(list) /\ \A i \in 1 .. m : i \in 1 .. n
    BY <1>1
  <2>3. \A i \in 1 .. m : Written(b, (off + 1) + at[i - 1], EncodedEntry(list[i]))
    BY <1>1, <2>1, <2>2
  <2>4. EntryAt(k, b, (off + 1) + at[m]) = Refused
    <3>1. list[j] \in EntrySet /\ list[j].flag \in EntryFlags(k)
          /\ CutShort(b, (off + 1) + at[m], EncodedEntry(list[j]))
      BY <1>1, <2>1 DEF EntriesOf
    <3> HIDE DEF m
    <3> QED BY <3>1, EntryAtCut
  <2>5. OctetAt(b, off) = Len(list) /\ Len(b) - off >= 1
    BY <1>7, CountIs
  <2> HIDE DEF m
  <2> QED BY <1>2, <1>4, <1>7, <2>2, <2>3, <2>4, <2>5, ListLoop
<1> QED BY <1>3, <1>5, <1>6, <1>7

(****************************************************************************)
(* decode_tlvs.                                                             *)
(****************************************************************************)

(* One TLV that encode has written. *)
LEMMA TlvAtIs ==
  ASSUME NEW b \in Seq(Nat), NEW off, NEW t \in TlvSet, Written(b, off, EncodedTlv(t))
  PROVE  Tlv(HalfAt(b, off), HalfAt(b, off + 2)) = t
<1> DEFINE r == Half(t.tag)
           s == Half(t.len)
           c == Chars(t.len)
<1>1. t.tag \in Uint16 /\ t.len \in Uint16 /\ t.len \in Nat
  BY DEF TlvSet, Uint16
<1>2. Reads(r, t.tag) /\ Reads(s, t.len)
  BY <1>1, HalfIs
<1>3. r \in Seq(Nat) /\ Len(r) = 2 /\ s \in Seq(Nat) /\ Len(s) = 2
  <2> HIDE DEF r, s
  <2> QED BY <1>2 DEF Reads
<1>4. c \in Seq(Nat)
  BY <1>1, StringIs
<1>5. Written(b, off, r \o s \o c)
  BY DEF EncodedTlv
<1> HIDE DEF r, s, c
<1>6. Written(b, off, r \o s)
  <2>1. r \o s \in Seq(Nat)
    BY <1>3, ConcatProperties
  <2> QED BY <1>4, <1>5, <2>1, WrittenConcat
<1>7. Written(b, off, r) /\ Written(b, off + 2, s)
  BY <1>3, <1>6, WrittenConcat
<1>8. HalfAt(b, off) = t.tag /\ HalfAt(b, off + 2) = t.len
  BY <1>2, <1>7, HalfAtIs
<1>9. t = [tag |-> t.tag, len |-> t.len]
  BY DEF TlvSet
<1> QED BY <1>8, <1>9 DEF Tlv

(* The TLV t is complete in b at offset o. *)
Complete(b, o, t) ==
  /\ Tlv(HalfAt(b, o), HalfAt(b, o + 2)) = t
  /\ Len(b) - o # 0 /\ ~ (Len(b) - o < 4) /\ ~ ((Len(b) - o) - 4 < t.len)

(* What decode_tlvs has after it took l. *)
TlvsTaken(o, l) == [ok |-> TRUE, off |-> o, tlvs |-> l]

(* One round of decode_tlvs. *)
LEMMA NextTlvIs ==
  ASSUME NEW b, NEW o, NEW l, NEW t, Complete(b, o, t)
  PROVE  NextTlv(TlvsTaken(o, l), b) = TlvsTaken(o + Octets(t), Append(l, t))
BY DEF NextTlv, Complete, TlvsTaken

(* decode_tlvs refuses a TLV that is cut short. *)
LEMMA NextTlvCut ==
  ASSUME NEW b \in Seq(Nat), NEW o, NEW l, NEW t \in TlvSet,
         CutShort(b, o, EncodedTlv(t)), o < Len(b)
  PROVE  NextTlv(TlvsTaken(o, l), b) = Refused
<1> DEFINE u == Half(t.tag)
           v == Half(t.len)
           c == Chars(t.len)
           r == TlvsTaken(o, l)
           left == Len(b) - o
           tlv == Tlv(HalfAt(b, o), HalfAt(b, o + 2))
<1>1. t.tag \in Uint16 /\ t.len \in Uint16 /\ t.len \in Nat
  BY DEF TlvSet, Uint16
<1>2. Reads(u, t.tag) /\ Reads(v, t.len)
  BY <1>1, HalfIs
<1>3. u \in Seq(Nat) /\ Len(u) = 2 /\ v \in Seq(Nat) /\ Len(v) = 2
      /\ c \in Seq(Nat)
  <2>1. c \in Seq(Nat)
    BY <1>1, StringIs
  <2> HIDE DEF u, v
  <2> QED BY <1>2, <2>1 DEF Reads
<1>4. o \in Nat /\ Len(b) \in Nat /\ Len(b) < o + (t.len + 4) /\ left # 0
      /\ left \in Nat
  BY TlvIs, LenProperties DEF CutShort
<1>5. CutShort(b, o, u \o v \o c)
  BY DEF EncodedTlv
<1>6. r.ok /\ r.off = o
  BY DEF TlvsTaken
<1> HIDE DEF u, v, c, r
<1>7. CASE left < 4
  <2> HIDE DEF tlv, left
  <2>1. r.ok /\ left # 0 /\ (left < 4 \/ left - 4 < tlv.len)
    BY <1>4, <1>6, <1>7
  <2>2. NextTlv(r, b) = Refused
    BY <1>6, <2>1 DEF NextTlv, left, tlv
  <2> QED BY <2>2 DEF r
<1>8. CASE ~ (left < 4)
  <2>1. u \o v \in Seq(Nat) /\ Len(u \o v) = 4
    <3>1. u \o v \in Seq(Nat) /\ Len(u \o v) = Len(u) + Len(v)
      BY <1>3, ConcatProperties
    <3> QED BY <1>3, <3>1
  <2>2. CutShort(b, o, u \o v) \/ Written(b, o, u \o v)
    BY <1>3, <1>5, <2>1, CutConcat
  <2>3. ~ CutShort(b, o, u \o v)
    BY <1>4, <1>8, <2>1 DEF CutShort
  <2>4. Written(b, o + 2, v)
    BY <1>3, <2>2, <2>3, WrittenConcat
  <2>5. HalfAt(b, o + 2) = t.len
    BY <1>2, <2>4, HalfAtIs
  <2>6. tlv.len = t.len
    BY <2>5 DEF Tlv
  <2>7. left - 4 < tlv.len
    BY <1>4, <1>1, <2>6
  <2> HIDE DEF tlv, left
  <2>8. r.ok /\ left # 0 /\ (left < 4 \/ left - 4 < tlv.len)
    BY <1>4, <1>6, <2>7
  <2>9. NextTlv(r, b) = Refused
    BY <1>6, <2>8 DEF NextTlv, left, tlv
  <2> QED BY <2>9 DEF r
<1> QED BY <1>7, <1>8 DEF r

(* Where the TLVs begin and end, from the first one on. *)
TlvsLaid(tlvs, at) ==
  /\ at[0] = 0
  /\ \A i \in 0 .. Len(tlvs) : at[i] \in Nat
  /\ \A i \in 1 .. Len(tlvs) : at[i] = at[i - 1] + Octets(tlvs[i])

(* The TLVs of an object lie one after the other, to the end of its frame. *)
LEMMA TlvsLaidOut ==
  ASSUME NEW tlvs \in Seq(TlvSet)
  PROVE  \E at : /\ LaidOut(TlvFrames(tlvs), FlattenSeq(TlvFrames(tlvs)), at)
                 /\ TlvsLaid(tlvs, at) /\ at[Len(tlvs)] = TlvOctets(tlvs)
<1> DEFINE n == Len(tlvs)
           ss == TlvFrames(tlvs)
           c == FlattenSeq(ss)
<1>1. /\ ss \in Seq(Seq(Nat)) /\ Len(ss) = n
      /\ \A i \in 1 .. n : tlvs[i] \in TlvSet /\ ss[i] = EncodedTlv(tlvs[i])
  BY TlvFramesAre
<1>3. PICK at : LaidOut(ss, c, at)
  BY <1>1, Flattened
<1>4. \A i \in 0 .. n : at[i] \in Nat
  BY <1>1, <1>3 DEF LaidOut
<1>5. at[0] = 0 /\ at[n] = Len(c)
  BY <1>1, <1>3 DEF LaidOut
<1>6. \A i \in 1 .. n : at[i] = at[i - 1] + Len(ss[i])
  BY <1>1, <1>3 DEF LaidOut
<1>7. \A i \in 1 .. n : Len(ss[i]) = Octets(tlvs[i])
  BY <1>1, TlvIs
<1> QED BY <1>3, <1>4, <1>5, <1>6, <1>7 DEF TlvsLaid, TlvOctets

(* i TLVs take at least four octets each, and some follow the others. *)
LEMMA TlvsGrow ==
  ASSUME NEW tlvs \in Seq(TlvSet), NEW at, TlvsLaid(tlvs, at)
  PROVE  /\ \A i \in 0 .. Len(tlvs) : 4 * i <= at[i]
         /\ \A i \in 1 .. Len(tlvs) : at[i - 1] < at[i]
<1> DEFINE n == Len(tlvs)
           S == {i \in 0 .. n : 4 * i <= at[i]}
<1>1. n \in Nat /\ \A i \in 1 .. n : tlvs[i] \in TlvSet
  OBVIOUS
<1>2. \A i \in 1 .. n : Octets(tlvs[i]) \in Nat /\ Octets(tlvs[i]) >= 4
  <2>1. \A i \in 1 .. n : Octets(tlvs[i]) = tlvs[i].len + 4
        /\ tlvs[i].len \in Nat
    BY <1>1, TlvIs
  <2> QED BY <2>1
<1>3. /\ at[0] = 0 /\ \A i \in 0 .. n : at[i] \in Nat
      /\ \A i \in 1 .. n : at[i] = at[i - 1] + Octets(tlvs[i])
  BY DEF TlvsLaid
<1>4. 0 \in S
  BY <1>1, <1>3
<1>5. ASSUME NEW i \in 1 .. n
      PROVE  at[i - 1] < at[i] /\ (i - 1 \in S => i \in S)
  <2>1. i \in 0 .. n /\ i - 1 \in 0 .. n
    BY <1>1
  <2> DEFINE x == at[i - 1]
             y == at[i]
             z == Octets(tlvs[i])
  <2>2. x \in Nat /\ z \in Nat /\ z >= 4 /\ y = x + z
    BY <1>2, <1>3, <2>1
  <2>3. x < y /\ (4 * (i - 1) <= x => 4 * i <= y)
    <3> HIDE DEF x, y, z
    <3> QED BY <1>1, <2>2
  <2> QED BY <2>1, <2>3
<1>6. \A i \in 0 .. n : i \in S
  <2> HIDE DEF S
  <2> QED BY <1>1, <1>4, <1>5, UpTo
<1> QED BY <1>5, <1>6

(* decode_tlvs takes the first j TLVs out that encode has written, and ends
   with q if that is what the next round makes of them and nothing changes
   after it. *)
LEMMA TlvsLoop ==
  ASSUME NEW b \in Seq(Nat), NEW start \in Nat, start >= 4, NEW tlvs \in Seq(TlvSet),
         NEW at, TlvsLaid(tlvs, at), NEW j \in 0 .. Len(tlvs), start + at[j] <= Len(b),
         \A i \in 1 .. j : Written(b, start + at[i - 1], EncodedTlv(tlvs[i])),
         NEW q, NextTlv(TlvsTaken(start + at[j], SubSeq(tlvs, 1, j)), b) = q,
         NextTlv(q, b) = q
  PROVE  TlvsAt(b, start) = q
<1> DEFINE n == Len(tlvs)
           m == Len(b) \div 4
           base == TlvsTaken(start, <<>>)
           upTo == CHOOSE f : f = [i \in 0 .. m |->
                                     IF i = 0 THEN base ELSE NextTlv(f[i - 1], b)]
<1>1. n \in Nat /\ \A i \in 1 .. n : tlvs[i] \in TlvSet
  OBVIOUS
<1>2. j \in 0 .. n /\ start \in Nat /\ Len(b) \in Nat
  BY LenProperties
<1>4. /\ \A i \in 0 .. n : at[i] \in Nat
      /\ \A i \in 1 .. n : at[i] = at[i - 1] + Octets(tlvs[i])
      /\ at[0] = 0
  BY DEF TlvsLaid
<1>6. j < m /\ m \in Nat
  <2> DEFINE l == Len(b)
             z == at[j]
  <2>1. l \in Nat /\ z \in Nat /\ 4 * j <= z /\ start + z <= l
    BY <1>2, <1>4, TlvsGrow
  <2>2. 4 * (j + 1) <= l
    <3> HIDE DEF z, l
    <3> QED BY <1>1, <1>2, <2>1
  <2>3. j < l \div 4 /\ l \div 4 \in Nat
    <3> HIDE DEF l, n
    <3> QED BY <1>1, <1>2, <2>1, <2>2, SMTT(30)
  <2> QED BY <2>3
<1> HIDE DEF m
<1> DEFINE w == [i \in 0 .. m |->
                   IF i <= j THEN TlvsTaken(start + at[i], SubSeq(tlvs, 1, i)) ELSE q]
<1>7. TlvsAt(b, start) = upTo[m]
  BY DEF TlvsAt, TlvsTaken, m
<1>9. ASSUME NEW i \in 1 .. m
      PROVE  NextTlv(w[i - 1], b) = w[i]
  <2>0. i - 1 \in 0 .. m /\ i \in 0 .. m
    BY <1>6
  <2>1. CASE i <= j
    <3> DEFINE t == tlvs[i]
               o == start + at[i - 1]
               l == SubSeq(tlvs, 1, i - 1)
               r == w[i - 1]
               left == Len(b) - o
    <3>1. i \in 1 .. n /\ i - 1 \in 0 .. n /\ i - 1 <= j /\ i \in 1 .. j
      BY <1>1, <1>2, <2>1
    <3>2. r = TlvsTaken(o, l)
      BY <2>0, <3>1
    <3>a. t \in TlvSet /\ Written(b, o, EncodedTlv(t))
      BY <1>1, <3>1
    <3>3. Tlv(HalfAt(b, o), HalfAt(b, o + 2)) = t
      <4> HIDE DEF t, o
      <4> QED BY <3>a, TlvAtIs
    <3>4. /\ o + Octets(t) = start + at[i]
          /\ left # 0 /\ ~ (left < 4 \/ left - 4 < t.len)
      <4>1. at[i - 1] \in Nat /\ at[i] = at[i - 1] + Octets(t)
        BY <1>4, <3>1
      <4>2. Octets(t) = t.len + 4 /\ t.len \in Nat
            /\ Len(EncodedTlv(t)) = Octets(t)
        BY <3>a, TlvIs
      <4>3. o + Octets(t) <= Len(b)
        BY <3>a, <4>2 DEF Written
      <4> DEFINE x == at[i - 1]
                 y == at[i]
                 z == Len(b)
                 v == t.len
      <4>4. x \in Nat /\ y = x + (v + 4) /\ (start + x) + (v + 4) <= z
            /\ v \in Nat /\ z \in Nat
        BY <1>2, <4>1, <4>2, <4>3
      <4>5. /\ (start + x) + (v + 4) = start + y
            /\ z - (start + x) # 0 /\ ~ (z - (start + x) < 4 \/ (z - (start + x)) - 4 < v)
        <5> HIDE DEF x, y, z, v
        <5> QED BY <4>4
      <4> QED BY <4>2, <4>5
    <3>5. Append(l, t) = SubSeq(tlvs, 1, i)
      <4>1. 1 \in 1 .. n /\ i \in 1 .. n
        BY <1>1, <3>1
      <4>2. SubSeq(tlvs, 1, i) = l \o <<t>>
        BY <4>1, SubSeqRecursiveSecond
      <4>3. l \in Seq(TlvSet) /\ t \in TlvSet
        <5>1. \A h \in 1 .. i - 1 : tlvs[h] \in TlvSet
          BY <1>1, <1>2, <3>1
        <5>2. 1 \in Int /\ i - 1 \in Int
          BY <3>1
        <5> QED BY <1>1, <3>1, <5>1, <5>2, SubSeqProperties
      <4> QED BY <4>2, <4>3, AppendIsConcat
    <3>6. w[i] = TlvsTaken(o + Octets(t), Append(l, t))
      BY <2>0, <2>1, <3>4, <3>5
    <3>7. Complete(b, o, t)
      BY <3>3, <3>4 DEF Complete
    <3> HIDE DEF w, t, o, l, left, r
    <3>9. NextTlv(r, b) = TlvsTaken(o + Octets(t), Append(l, t))
      BY <3>2, <3>7, NextTlvIs
    <3> QED BY <3>6, <3>9 DEF r
  <2>2. CASE i - 1 = j
    <3>1. w[i - 1] = TlvsTaken(start + at[j], SubSeq(tlvs, 1, j)) /\ w[i] = q
      BY <1>2, <2>0, <2>2
    <3> HIDE DEF w
    <3> QED BY <3>1
  <2>3. CASE ~ (i - 1 <= j)
    <3>1. w[i - 1] = q /\ w[i] = q
      BY <1>2, <2>0, <2>3
    <3> HIDE DEF w
    <3> QED BY <3>1
  <2>4. i <= j \/ i - 1 = j \/ ~ (i - 1 <= j)
    BY <1>2
  <2> QED BY <2>1, <2>2, <2>3, <2>4
<1>10. w[0] = base
  <2>1. 0 \in 0 .. m /\ start + at[0] = start /\ 0 <= j
    BY <1>2, <1>4, <1>6
  <2>2. SubSeq(tlvs, 1, 0) = <<>>
    BY SubSeqEmpty
  <2> QED BY <2>1, <2>2
<1>11. w[m] = q
  <2>1. m \in 0 .. m /\ ~ (m <= j)
    BY <1>2, <1>6
  <2> QED BY <2>1
<1>13. w = [i \in 0 .. m |-> IF i = 0 THEN base ELSE NextTlv(w[i - 1], b)]
  <2>1. w = [i \in 0 .. m |-> w[i]]
    OBVIOUS
  <2>2. \A i \in 0 .. m : w[i] = IF i = 0 THEN base ELSE NextTlv(w[i - 1], b)
    <3>1. \A i \in 0 .. m : i # 0 => i \in 1 .. m
      BY <1>6
    <3> HIDE DEF w, base
    <3> QED BY <1>9, <1>10, <3>1
  <2> HIDE DEF w, base
  <2> QED BY <2>1, <2>2
<1>14. upTo = [i \in 0 .. m |-> IF i = 0 THEN base ELSE NextTlv(upTo[i - 1], b)]
  <2> HIDE DEF w, base
  <2>1. \E f : f = [i \in 0 .. m |-> IF i = 0 THEN base ELSE NextTlv(f[i - 1], b)]
    BY <1>13
  <2> QED BY <2>1
<1> HIDE DEF upTo, w, base
<1>15. \A i \in 0 .. m : i \in {h \in 0 .. m : upTo[h] = w[h]}
  <2> DEFINE S == {h \in 0 .. m : upTo[h] = w[h]}
  <2>1. 0 \in S
    BY <1>6, <1>10, <1>14
  <2>2. ASSUME NEW i \in 1 .. m, i - 1 \in S PROVE i \in S
    <3>1. i \in 0 .. m /\ i # 0
      BY <1>6
    <3>2. upTo[i] = NextTlv(upTo[i - 1], b)
      BY <1>14, <3>1
    <3> QED BY <1>9, <2>2, <3>1, <3>2
  <2> HIDE DEF S
  <2>3. \A i \in 0 .. m : i \in S
    BY <1>6, <2>1, <2>2, UpTo
  <2> QED BY <2>3 DEF S
<1>16. upTo[m] = w[m]
  BY <1>6, <1>15
<1> QED BY <1>7, <1>11, <1>16

(* If nothing follows the first j TLVs, decode_tlvs returns them. *)
LEMMA TlvsAtEnd ==
  ASSUME NEW b \in Seq(Nat), NEW start \in Nat, start >= 4, NEW tlvs \in Seq(TlvSet),
         NEW at, TlvsLaid(tlvs, at), NEW j \in 0 .. Len(tlvs), start + at[j] = Len(b),
         \A i \in 1 .. j : Written(b, start + at[i - 1], EncodedTlv(tlvs[i]))
  PROVE  TlvsAt(b, start) = TlvsTaken(Len(b), SubSeq(tlvs, 1, j))
<1> DEFINE q == TlvsTaken(Len(b), SubSeq(tlvs, 1, j))
<1>1. Len(b) \in Nat /\ start + at[j] <= Len(b)
  BY LenProperties
<1>2. NextTlv(q, b) = q
  <2>1. q.off = Len(b) /\ q.ok /\ Len(b) - Len(b) = 0
    BY <1>1 DEF TlvsTaken
  <2> HIDE DEF q
  <2> QED BY <2>1 DEF NextTlv
<1>3. NextTlv(TlvsTaken(start + at[j], SubSeq(tlvs, 1, j)), b) = q
  BY <1>2
<1> HIDE DEF q
<1>4. TlvsAt(b, start) = q
  BY <1>1, <1>2, <1>3, TlvsLoop
<1> QED BY <1>4 DEF q

(* If the next one is cut short, it refuses them. *)
LEMMA TlvsAtCut ==
  ASSUME NEW b \in Seq(Nat), NEW start \in Nat, start >= 4, NEW tlvs \in Seq(TlvSet),
         NEW at, TlvsLaid(tlvs, at), NEW j \in 1 .. Len(tlvs), start + at[j - 1] < Len(b),
         \A i \in 1 .. j - 1 : Written(b, start + at[i - 1], EncodedTlv(tlvs[i])),
         CutShort(b, start + at[j - 1], EncodedTlv(tlvs[j]))
  PROVE  TlvsAt(b, start) = Refused
<1> DEFINE h == j - 1
<1>1. h \in 0 .. Len(tlvs) /\ tlvs[j] \in TlvSet
  OBVIOUS
<1>2. start + at[h] <= Len(b)
  BY DEF CutShort
<1>3. NextTlv(TlvsTaken(start + at[h], SubSeq(tlvs, 1, h)), b) = Refused
  BY <1>1, NextTlvCut
<1>4. NextTlv(Refused, b) = Refused
  BY DEF NextTlv, Refused
<1>5. \A i \in 1 .. h : Written(b, start + at[i - 1], EncodedTlv(tlvs[i]))
  OBVIOUS
<1> HIDE DEF h
<1> QED BY <1>1, <1>2, <1>3, <1>4, <1>5, TlvsLoop

(* decode_tlvs takes all TLVs out that encode has written at the end. *)
LEMMA TlvsAtIs ==
  ASSUME NEW b \in Seq(Nat), NEW start, start >= 4, NEW tlvs \in Seq(TlvSet),
         Written(b, start, FlattenSeq(TlvFrames(tlvs))),
         start + TlvOctets(tlvs) = Len(b)
  PROVE  TlvsAt(b, start) = TlvsTaken(Len(b), tlvs)
<1> DEFINE n == Len(tlvs)
           ss == TlvFrames(tlvs)
           c == FlattenSeq(ss)
<1>1. /\ ss \in Seq(Seq(Nat)) /\ Len(ss) = n /\ n \in Nat
      /\ \A i \in 1 .. n : tlvs[i] \in TlvSet /\ ss[i] = EncodedTlv(tlvs[i])
  BY TlvFramesAre, LenProperties
<1>2. c \in Seq(Nat)
  BY <1>1, Flattened
<1>3. PICK at : LaidOut(ss, c, at) /\ TlvsLaid(tlvs, at)
      /\ at[n] = TlvOctets(tlvs)
  BY TlvsLaidOut
<1>4. start \in Nat /\ n \in 0 .. Len(tlvs) /\ start + at[n] = Len(b)
  BY <1>1, <1>3 DEF Written
<1>5. \A i \in 1 .. n : Written(b, start + at[i - 1], EncodedTlv(tlvs[i]))
  <2> HIDE DEF c, ss
  <2>1. Written(b, start, c)
    BY DEF c, ss
  <2> QED BY <1>1, <1>2, <1>3, <2>1, WrittenPieces
<1>6. SubSeq(tlvs, 1, n) = tlvs
  BY SubSeqFull
<1>7. TlvsAt(b, start) = TlvsTaken(Len(b), SubSeq(tlvs, 1, n))
  BY <1>3, <1>4, <1>5, TlvsAtEnd
<1> QED BY <1>6, <1>7

(****************************************************************************)
(* Members, and the frame of an object.                                     *)
(****************************************************************************)

(* The members of a class, from PduAssumption. *)
LEMMA Members ==
  ASSUME NEW k \in Kinds
  PROVE  LET c == Layout[k]
         IN  /\ c.order \in Seq(STRING) /\ Len(c.order) \in Nat
             /\ DOMAIN c.order = 1 .. Len(c.order)
             /\ \A i \in 1 .. Len(c.order) : c.order[i] \in Fields(k) \cup c.list
             /\ \A f \in Fields(k) \cup c.list : \E i \in 1 .. Len(c.order) : c.order[i] = f
             /\ \A i, j \in 1 .. Len(c.order) : c.order[i] = c.order[j]
                  => i = j
             /\ \A f \in c.strings : f \in DOMAIN MaxLength /\ f \in Counted(k)
                  /\ f \notin c.addresses /\ f \notin c.octets
                     /\ f \notin c.text /\ f \notin c.list
             /\ \A f \in c.addresses : f \in Counted(k)
                  /\ f \notin c.strings /\ f \notin c.octets
                     /\ f \notin c.text /\ f \notin c.list
             /\ \A f \in c.octets : f \notin Counted(k) /\ f \in Fields(k)
                  /\ f \notin c.strings /\ f \notin c.addresses
                     /\ f \notin c.text /\ f \notin c.list
             /\ \A f \in c.text : f \in Counted(k)
                  /\ f \notin c.strings /\ f \notin c.octets
                     /\ f \notin c.addresses /\ f \notin c.list
             /\ \A f \in c.list : f \notin Fields(k)
             /\ c.list = {} <=> EntryFlags(k) = {}
             /\ \A f, g \in c.list : f = g
<1> DEFINE c == Layout[k]
<1>1. WellFormed(k) /\ c.order \in Seq(STRING)
  BY PduAssumption
<1> HIDE DEF c
<1>2. Len(c.order) \in Nat /\ DOMAIN c.order = 1 .. Len(c.order)
  BY <1>1
<1>3. /\ c.strings \subseteq DOMAIN MaxLength
      /\ c.strings \cap (c.addresses \cup c.octets \cup c.text \cup c.list) = {}
      /\ c.addresses \cap (c.octets \cup c.text \cup c.list) = {}
      /\ c.octets \cap (c.text \cup c.list) = {}
      /\ c.text \cap c.list = {}
      /\ c.list = {} <=> EntryFlags(k) = {}
      /\ \A f, g \in c.list : f = g
  BY <1>1 DEF WellFormed, c
<1>4. IsInjective(c.order) /\ Range(c.order) = Fields(k) \cup c.list
  BY <1>1 DEF WellFormed, c
<1>5. \A i, j \in 1 .. Len(c.order) : c.order[i] = c.order[j] => i = j
  BY <1>2, <1>4 DEF IsInjective
<1>6. /\ \A i \in 1 .. Len(c.order) : c.order[i] \in Fields(k) \cup c.list
      /\ \A f \in Fields(k) \cup c.list : \E i \in 1 .. Len(c.order) : c.order[i] = f
  BY <1>2, <1>4 DEF Range
<1>7. /\ Fields(k) = c.strings \cup c.addresses \cup c.text \cup c.octets
      /\ Counted(k) = c.strings \cup c.addresses \cup c.text
  BY DEF Fields, Counted, c
<1> QED BY <1>1, <1>2, <1>3, <1>5, <1>6, <1>7 DEF c

(* What a member takes in a frame. *)
Least(k, f) == IF f \in Layout[k].addresses THEN 3 ELSE 1
Extra(p, f) == CASE f \in Counted(p.kind)     -> p.val[f]
                 [] f \in Layout[p.kind].list -> ListOctets(p.list)
                 [] OTHER                     -> 0

(* What is known of the members of a sound object. *)
LEMMA SoundIs ==
  ASSUME NEW p, Sound(p)
  PROVE  /\ p.kind \in Kinds /\ p.length \in Int
            /\ p.val \in [Fields(p.kind) -> Uint8]
         /\ p.list \in Seq(EntrySet) /\ p.tlvs \in Seq(TlvSet)
            /\ p.isDefault \in BOOLEAN
         /\ \A f \in Fields(p.kind) : p.val[f] \in Nat /\ p.val[f] < 256
         /\ \A f \in Layout[p.kind].strings : p.val[f] < MaxLength[f]
         /\ EntriesOf(p.kind, p.list)
         /\ Len(p.list) <= ListLimit
<1>1. p \in Pdus /\ p.val \in [Fields(p.kind) -> Uint8]
  BY DEF Sound
<1>2. /\ p.kind \in Kinds /\ p.length \in Int
      /\ p.list \in Seq(EntrySet) /\ p.tlvs \in Seq(TlvSet)
         /\ p.isDefault \in BOOLEAN
  BY <1>1 DEF Pdus
<1>3. \A f \in Fields(p.kind) : p.val[f] \in Nat /\ p.val[f] < 256
  BY <1>1 DEF Uint8
<1> QED BY <1>1, <1>2, <1>3 DEF Sound

(* A member takes what its empty form does, and its length. *)
LEMMA FieldIs ==
  ASSUME NEW p, Sound(p), NEW f \in Fields(p.kind) \cup Layout[p.kind].list
  PROVE  /\ EncodedField(p, f) \in Seq(Nat)
         /\ Len(EncodedField(p, f)) = Least(p.kind, f) + Extra(p, f)
         /\ Extra(p, f) \in Nat
<1> DEFINE k == p.kind
           c == Layout[k]
           n == p.val[f]
<1>0. k \in Kinds /\ p.list \in Seq(EntrySet)
  BY SoundIs
<1>1. f \in Fields(k) => n \in Nat /\ n \in Uint8
  BY SoundIs DEF Uint8
<1>2. Fields(k) = c.strings \cup c.addresses \cup c.text \cup c.octets
  BY DEF Fields, Counted
<1>3. CASE f \in c.strings
  <2>1. f \in Counted(k) /\ f \notin c.addresses /\ f \notin c.octets
        /\ f \notin c.text /\ f \notin c.list
        /\ f \in Fields(k)
    BY <1>0, <1>2, <1>3, Members
  <2>2. EncodedField(p, f) = String(n)
    BY <1>3, <2>1 DEF EncodedField
  <2>3. Least(k, f) = 1 /\ Extra(p, f) = n
    BY <2>1 DEF Least, Extra
  <2>4. String(n) \in Seq(Nat) /\ Len(String(n)) = n + 1
    BY <1>1, <2>1, StringIs
  <2> QED BY <1>1, <2>1, <2>2, <2>3, <2>4
<1>4. CASE f \in c.addresses
  <2>1. f \in Counted(k) /\ f \notin c.strings /\ f \notin c.octets
        /\ f \notin c.text /\ f \notin c.list
        /\ f \in Fields(k)
    BY <1>0, <1>2, <1>4, Members
  <2>2. EncodedField(p, f) = SmeAddress(n)
    BY <1>4, <2>1 DEF EncodedField
  <2>3. Least(k, f) = 3 /\ Extra(p, f) = n
    BY <1>4, <2>1 DEF Least, Extra
  <2>4. SmeAddress(n) \in Seq(Nat) /\ Len(SmeAddress(n)) = n + 3
    BY <1>1, <2>1, AddressIs
  <2> QED BY <1>1, <2>1, <2>2, <2>3, <2>4
<1>5. CASE f \in c.text
  <2>1. f \in Counted(k) /\ f \notin c.strings /\ f \notin c.octets
        /\ f \notin c.addresses /\ f \notin c.list
        /\ f \in Fields(k)
    BY <1>0, <1>2, <1>5, Members
  <2>2. EncodedField(p, f) = Text(n)
    BY <1>5, <2>1 DEF EncodedField
  <2>3. Least(k, f) = 1 /\ Extra(p, f) = n
    BY <1>5, <2>1 DEF Least, Extra
  <2>4. Text(n) \in Seq(Nat) /\ Len(Text(n)) = n + 1
    BY <1>1, <2>1, TextIs
  <2> QED BY <1>1, <2>1, <2>2, <2>3, <2>4
<1>6. CASE f \in c.octets
  <2>1. f \notin Counted(k) /\ f \notin c.strings /\ f \notin c.text
        /\ f \notin c.addresses /\ f \notin c.list
        /\ f \in Fields(k)
    BY <1>0, <1>2, <1>6, Members
  <2>2. EncodedField(p, f) = <<n>>
    BY <1>6, <2>1 DEF EncodedField
  <2>3. Least(k, f) = 1 /\ Extra(p, f) = 0
    BY <1>6, <2>1 DEF Least, Extra
  <2>4. <<n>> \in Seq(Nat) /\ Len(<<n>>) = 1
    BY <1>1, <2>1
  <2> HIDE DEF n
  <2> QED BY <2>1, <2>2, <2>3, <2>4
<1>7. CASE f \in c.list
  <2>1. f \notin Fields(k)
    BY <1>0, <1>7, Members
  <2>a. f \notin Counted(k) /\ f \notin c.strings /\ f \notin c.text
        /\ f \notin c.addresses /\ f \notin c.octets
    BY <2>1, <1>2 DEF Counted
  <2>2. EncodedField(p, f) = EncodedList(p.list)
    BY <1>7, <2>a DEF EncodedField
  <2>3. Least(k, f) = 1 /\ Extra(p, f) = ListOctets(p.list)
    BY <1>7, <2>a DEF Least, Extra
  <2>4. EncodedList(p.list) \in Seq(Nat)
        /\ Len(EncodedList(p.list)) = ListOctets(p.list) + 1
        /\ ListOctets(p.list) \in Nat
    BY <1>0, ListIs, EntryFramesAre
  <2> QED BY <2>2, <2>3, <2>4
<1> QED BY <1>2, <1>3, <1>4, <1>5, <1>6, <1>7

FieldsOctets(p) == Len(FlattenSeq(FieldFrames(p)))

(* The members of an object, as encode writes them. *)
LEMMA FieldFramesAre ==
  ASSUME NEW p, Sound(p)
  PROVE  LET order == Layout[p.kind].order
         IN  /\ FieldFrames(p) \in Seq(Seq(Nat))
                /\ Len(FieldFrames(p)) = Len(order)
             /\ \A i \in 1 .. Len(order) :
                  /\ order[i] \in Fields(p.kind) \cup Layout[p.kind].list
                  /\ FieldFrames(p)[i] = EncodedField(p, order[i])
                  /\ Len(FieldFrames(p)[i]) = Least(p.kind, order[i]) + Extra(p, order[i])
                  /\ Extra(p, order[i]) \in Nat
             /\ FlattenSeq(FieldFrames(p)) \in Seq(Nat)
             /\ FieldsOctets(p) \in Nat
<1> DEFINE order == Layout[p.kind].order
<1>1. p.kind \in Kinds
  BY SoundIs
<1>2. /\ Len(order) \in Nat /\ DOMAIN order = 1 .. Len(order)
      /\ \A i \in 1 .. Len(order) : order[i] \in Fields(p.kind) \cup Layout[p.kind].list
  BY <1>1, Members
<1>3. \A i \in 1 .. Len(order) :
        /\ EncodedField(p, order[i]) \in Seq(Nat)
        /\ Len(EncodedField(p, order[i])) = Least(p.kind, order[i]) + Extra(p, order[i])
        /\ Extra(p, order[i]) \in Nat
  BY <1>2, FieldIs
<1>4. FieldFrames(p) = [i \in 1 .. Len(order) |-> EncodedField(p, order[i])]
  BY <1>2 DEF FieldFrames
<1> HIDE DEF order
<1>5. FieldFrames(p) \in Seq(Seq(Nat)) /\ Len(FieldFrames(p)) = Len(order)
  BY <1>2, <1>3, <1>4, IsASeq
<1>6. FlattenSeq(FieldFrames(p)) \in Seq(Nat)
  BY <1>5, Flattened
<1>7. FieldsOctets(p) \in Nat
  BY <1>6, LenProperties DEF FieldsOctets
<1>8. \A i \in 1 .. Len(order) : FieldFrames(p)[i] = EncodedField(p, order[i])
  BY <1>4
<1> QED BY <1>2, <1>3, <1>5, <1>6, <1>7, <1>8 DEF order

(* The header takes sixteen octets. *)
LEMMA HeaderIs ==
  ASSUME NEW p, p.length \in Int
  PROVE  Header(p) \in Seq(Nat) /\ Len(Header(p)) = 16
<1> DEFINE w == Word(p.length)
           z == [i \in 1 .. 12 |-> 0]
<1>1. w \in Seq(Nat) /\ Len(w) = 4
  BY WordIs
<1>2. z \in Seq(Nat) /\ Len(z) = 12
  <2>1. 12 \in Nat /\ \A i \in 1 .. 12 : 0 \in Nat
    OBVIOUS
  <2> QED BY <2>1, IsASeq
<1>3. Header(p) = w \o z
  BY DEF Header
<1> HIDE DEF w, z
<1>4. w \o z \in Seq(Nat) /\ Len(w \o z) = Len(w) + Len(z)
  <2>1. w \in Seq(Nat) /\ z \in Seq(Nat)
    BY <1>1, <1>2
  <2> QED BY <2>1, ConcatProperties
<1> QED BY <1>1, <1>2, <1>3, <1>4

(* The frame: the header, the members, the TLVs. *)
LEMMA EncodeIs ==
  ASSUME NEW p, Sound(p)
  PROVE  /\ Encode(p) \in Seq(Nat)
         /\ Len(Encode(p)) = 16 + FieldsOctets(p) + TlvOctets(p.tlvs)
         /\ Written(Encode(p), 16, FlattenSeq(FieldFrames(p)))
         /\ Written(Encode(p), 16 + FieldsOctets(p), FlattenSeq(TlvFrames(p.tlvs)))
<1> DEFINE h == Header(p)
           f == FlattenSeq(FieldFrames(p))
           t == FlattenSeq(TlvFrames(p.tlvs))
           b == Encode(p)
<1>1. h \in Seq(Nat) /\ Len(h) = 16
  BY SoundIs, HeaderIs
<1>2. f \in Seq(Nat) /\ Len(f) = FieldsOctets(p) /\ FieldsOctets(p) \in Nat
  BY FieldFramesAre DEF FieldsOctets
<1>3. t \in Seq(Nat) /\ Len(t) = TlvOctets(p.tlvs) /\ TlvOctets(p.tlvs) \in Nat
  <2>1. p.tlvs \in Seq(TlvSet)
    BY SoundIs
  <2>2. TlvFrames(p.tlvs) \in Seq(Seq(Nat)) /\ TlvOctets(p.tlvs) \in Nat
    BY <2>1, TlvFramesAre
  <2>3. t \in Seq(Nat)
    BY <2>2, Flattened
  <2> QED BY <2>2, <2>3 DEF TlvOctets
<1>4. b = h \o f \o t
  BY DEF Encode, FieldFrames, TlvFrames
<1> HIDE DEF h, f, t, b
<1>5. h \o f \in Seq(Nat) /\ Len(h \o f) = 16 + FieldsOctets(p)
  <2>1. h \in Seq(Nat) /\ f \in Seq(Nat)
    BY <1>1, <1>2
  <2>2. h \o f \in Seq(Nat) /\ Len(h \o f) = Len(h) + Len(f)
    BY <2>1, ConcatProperties
  <2> QED BY <1>1, <1>2, <2>2
<1>6. b \in Seq(Nat) /\ Len(b) = 16 + FieldsOctets(p) + TlvOctets(p.tlvs)
  <2> DEFINE q == h \o f
  <2>1. q \in Seq(Nat) /\ t \in Seq(Nat) /\ b = q \o t
    BY <1>3, <1>4, <1>5
  <2> HIDE DEF q
  <2>2. b \in Seq(Nat) /\ Len(b) = Len(q) + Len(t)
    BY <2>1, ConcatProperties
  <2> QED BY <1>3, <1>5, <2>2 DEF q
<1>7. Written(b, 0, h \o f \o t)
  <2>1. Len(b) \in Nat /\ 0 + Len(b) <= Len(b)
        /\ \A i \in 1 .. Len(b) : 0 + i = i
    BY <1>6, LenProperties
  <2>2. Written(b, 0, b)
    BY <2>1 DEF Written
  <2> QED BY <1>4, <2>2
<1>8. Written(b, 0, h \o f) /\ Written(b, 0 + Len(h \o f), t)
  <2> DEFINE q == h \o f
  <2>1. q \in Seq(Nat) /\ t \in Seq(Nat) /\ b \in Seq(Nat)
        /\ Written(b, 0, q \o t)
    BY <1>3, <1>5, <1>6, <1>7
  <2> HIDE DEF q
  <2>2. Written(b, 0, q) /\ Written(b, 0 + Len(q), t)
    BY <2>1, WrittenConcat
  <2> QED BY <2>2 DEF q
<1>9. Written(b, 0 + Len(h), f)
  BY <1>1, <1>2, <1>6, <1>8, WrittenConcat
<1>10. 0 + Len(h) = 16 /\ 0 + Len(h \o f) = 16 + FieldsOctets(p)
  BY <1>1, <1>2, <1>5
<1> QED BY <1>6, <1>8, <1>9, <1>10 DEF b, f, t

(****************************************************************************)
(* decode, one member.                                                      *)
(****************************************************************************)

(* What decode has after it took some members out of a frame of n octets. *)
PduTaken(k, n, v, l) ==
  [kind |-> k, length |-> n, val |-> v, list |-> l, tlvs |-> <<>>, isDefault |-> FALSE]
FieldsTaken(k, n, o, v, l) == [ok |-> TRUE, off |-> o, pdu |-> PduTaken(k, n, v, l)]

(* A member of so many octets ends in b. *)
Fits(b, o, octets) == o + octets <= Len(b)

(* decode takes a member that ends within the frame. *)
LEMMA WithFieldIs ==
  ASSUME NEW k, NEW b, NEW o, NEW v, NEW l, NEW f, NEW value, NEW octets,
         NEW n, Fits(b, o, octets)
  PROVE  WithField(FieldsTaken(k, n, o, v, l), f, Field(value, octets), b)
           = FieldsTaken(k, n, o + octets, [v EXCEPT ![f] = value], l)
BY DEF WithField, FieldsTaken, PduTaken, Field, Fits

(* decode takes a list that ends within the frame. *)
LEMMA WithListIs ==
  ASSUME NEW k, NEW b, NEW o, NEW v, NEW l, NEW n, NEW e, NEW list, e <= Len(b)
  PROVE  WithList(FieldsTaken(k, n, o, v, l), [ok |-> TRUE, off |-> e, list |-> list], b)
           = FieldsTaken(k, n, e, v, list)
BY DEF WithList, FieldsTaken, PduTaken

(* What decode has before the first member. *)
LEMMA BlankIs ==
  ASSUME NEW k, NEW n
  PROVE  [ok |-> TRUE, off |-> 16, pdu |-> [Blank(k) EXCEPT !.length = n]]
           = FieldsTaken(k, n, 16, [f \in Fields(k) |-> 0], <<>>)
<1>1. [Blank(k) EXCEPT !.length = n] = PduTaken(k, n, [f \in Fields(k) |-> 0], <<>>)
  <2> SUFFICES ASSUME NEW u, u = [Blank(k) EXCEPT !.length = n]
               PROVE  u = PduTaken(k, n, [f \in Fields(k) |-> 0], <<>>)
    OBVIOUS
  <2> QED BY DEF PduTaken, Blank
<1> QED BY <1>1 DEF FieldsTaken

(* An address that decode does not take. *)
TooLong(p, f) == f \in Layout[p.kind].addresses /\ p.val[f] >= MaxLen

(* What decode has after the member f of p. *)
AfterMember(p, n, o, v, l, f) ==
  IF TooLong(p, f) THEN Refused
  ELSE FieldsTaken(p.kind, n, o + Len(EncodedField(p, f)),
         IF f \in Layout[p.kind].list THEN v ELSE [v EXCEPT ![f] = p.val[f]],
         IF f \in Layout[p.kind].list THEN p.list ELSE l)

(* decode takes one member out that encode has written. *)
LEMMA DecodeFieldIs ==
  ASSUME NEW p, Sound(p), NEW b \in Seq(Nat), NEW o, NEW v, NEW l, NEW n,
         NEW f \in Fields(p.kind) \cup Layout[p.kind].list,
         Written(b, o, EncodedField(p, f)),
         f \in Layout[p.kind].list => RoomForList(p.kind, b, o)
  PROVE  DecodeField(p.kind, b, FieldsTaken(p.kind, n, o, v, l), f)
           = AfterMember(p, n, o, v, l, f)
<1> DEFINE k == p.kind
           c == Layout[k]
           m == p.val[f]
           r == FieldsTaken(k, n, o, v, l)
           e == EncodedField(p, f)
<1>0. k \in Kinds /\ p.list \in Seq(EntrySet)
  BY SoundIs
<1>1. f \in Fields(k) => m \in Nat /\ m \in Uint8
  BY SoundIs DEF Uint8
<1>2. Fields(k) = c.strings \cup c.addresses \cup c.text \cup c.octets
  BY DEF Fields, Counted
<1>3. r.ok /\ r.off = o
  BY DEF FieldsTaken
<1>4. e \in Seq(Nat) /\ o \in Nat /\ Len(e) \in Nat /\ o + Len(e) <= Len(b)
      /\ Written(b, o, e)
  BY FieldIs, LenProperties DEF Written
<1>5. f \in Fields(k) => f \notin c.list
  BY <1>0, Members
<1> HIDE DEF r, e, AfterMember
<1>6. f \in Fields(k)
        => DecodeField(k, b, r, f) = WithField(r, f, FieldAt(c, b, o, f), b)
  BY <1>3, <1>5 DEF DecodeField
<1>7. ASSUME f \in Fields(k), FieldAt(c, b, o, f) = Field(m, Len(e)), ~ TooLong(p, f)
      PROVE  DecodeField(k, b, r, f) = FieldsTaken(k, n, o + Len(e), [v EXCEPT ![f] = m], l)
  <2> HIDE DEF m, c, k
  <2>1. Fits(b, o, Len(e))
    BY <1>4 DEF Fits
  <2> QED BY <1>6, <1>7, <2>1, WithFieldIs DEF r
<1>8. CASE f \in c.strings
  <2>1. f \in DOMAIN MaxLength /\ f \notin c.addresses /\ f \notin c.octets
        /\ f \notin c.text
        /\ f \notin c.list /\ f \in Fields(k)
    BY <1>0, <1>2, <1>8, Members
  <2>2. e = String(m)
    BY <1>8, <2>1 DEF EncodedField, e
  <2>3. LengthAt(b, o) = m /\ Len(e) = m + 1
    BY <1>1, <1>4, <2>1, <2>2, LengthAtIs, StringIs
  <2>4. ~ (m >= MaxLength[f])
    <3>1. m < MaxLength[f]
      BY <1>8, SoundIs
    <3>2. MaxLength[f] \in Nat
      BY <2>1 DEF MaxLength
    <3> QED BY <1>1, <2>1, <3>1, <3>2
  <2>5. FieldAt(c, b, o, f) = StringField(f, LengthAt(b, o))
    BY <1>8, <2>1 DEF FieldAt
  <2>6. FieldAt(c, b, o, f) = Field(m, Len(e))
    BY <2>3, <2>4, <2>5 DEF StringField
  <2>7. ~ TooLong(p, f)
    BY <2>1 DEF TooLong
  <2> QED BY <1>7, <2>1, <2>6, <2>7 DEF r, e, AfterMember
<1>9. CASE f \in c.addresses
  <2>1. f \notin c.strings /\ f \notin c.octets /\ f \notin c.text
        /\ f \notin c.list /\ f \in Fields(k)
    BY <1>0, <1>2, <1>9, Members
  <2>2. e = SmeAddress(m)
    BY <1>9, <2>1 DEF EncodedField, e
  <2>3. FieldAt(c, b, o, f) = AddressField(AddressAt(b, o))
    BY <1>9, <2>1 DEF FieldAt
  <2>4. m \in Nat /\ Len(e) = m + 3 /\ Written(b, o, SmeAddress(m))
    BY <1>1, <1>4, <2>1, <2>2, AddressIs
  <2>5. TooLong(p, f) <=> ~ (m < MaxLen)
    BY <1>9, <2>4 DEF TooLong, MaxLen
  <2>6. CASE TooLong(p, f)
    <3>1. AddressAt(b, o) = Refused
      BY <2>4, <2>5, <2>6, AddressAtIs
    <3>2. FieldAt(c, b, o, f) = Refused
      BY <2>3, <3>1 DEF AddressField, Refused
    <3>3. DecodeField(k, b, r, f) = Refused
      BY <1>6, <2>1, <3>2 DEF WithField, Refused
    <3> QED BY <2>6, <3>3 DEF r, AfterMember
  <2>7. CASE ~ TooLong(p, f)
    <3>1. AddressAt(b, o) = [ok |-> TRUE, len |-> m]
      BY <2>4, <2>5, <2>7, AddressAtIs
    <3>2. FieldAt(c, b, o, f) = Field(m, Len(e))
      BY <2>3, <2>4, <3>1 DEF AddressField
    <3> QED BY <1>7, <2>1, <2>7, <3>2 DEF r, e, AfterMember
  <2> QED BY <2>6, <2>7
<1>10. CASE f \in c.text
  <2>1. f \notin c.strings /\ f \notin c.octets /\ f \notin c.addresses
        /\ f \notin c.list /\ f \in Fields(k)
    BY <1>0, <1>2, <1>10, Members
  <2>2. e = Text(m)
    BY <1>10, <2>1 DEF EncodedField, e
  <2>3. Len(e) = m + 1 /\ e[1] = m /\ Len(e) > 0
    BY <1>1, <2>1, <2>2, TextIs
  <2>4. OctetAt(b, o) = m
    BY <1>4, <2>3, OctetAtIs
  <2>5. FieldAt(c, b, o, f) = Field(m, Len(e))
    BY <1>10, <2>1, <2>3, <2>4 DEF FieldAt
  <2>7. ~ TooLong(p, f)
    BY <2>1 DEF TooLong
  <2> QED BY <1>7, <2>1, <2>5, <2>7 DEF r, e, AfterMember
<1>11. CASE f \in c.octets
  <2>1. f \notin c.strings /\ f \notin c.text /\ f \notin c.addresses
        /\ f \notin c.list /\ f \in Fields(k)
    BY <1>0, <1>2, <1>11, Members
  <2>2. e = <<m>>
    BY <1>11, <2>1 DEF EncodedField, e
  <2>3. Len(e) = 1 /\ e[1] = m /\ Len(e) > 0
    <3> HIDE DEF m
    <3> QED BY <2>2
  <2>4. OctetAt(b, o) = m
    BY <1>4, <2>3, OctetAtIs
  <2>5. FieldAt(c, b, o, f) = Field(m, Len(e))
    BY <1>11, <2>1, <2>3, <2>4 DEF FieldAt
  <2>7. ~ TooLong(p, f)
    BY <2>1 DEF TooLong
  <2> QED BY <1>7, <2>1, <2>5, <2>7 DEF r, e, AfterMember
<1>12. CASE f \in c.list
  <2>1. f \notin Fields(k) /\ EntryFlags(k) # {}
    BY <1>0, <1>12, Members
  <2>a. f \notin c.strings /\ f \notin c.text /\ f \notin c.addresses
        /\ f \notin c.octets
    BY <2>1, <1>2
  <2>2. e = EncodedList(p.list)
    BY <1>12, <2>a DEF EncodedField, e
  <2>3. Len(e) = ListOctets(p.list) + 1 /\ ListOctets(p.list) \in Nat
    BY <1>0, <2>2, ListIs, EntryFramesAre
  <2>4. ListAt(k, b, o) = [ok |-> TRUE, off |-> o + 1 + ListOctets(p.list), list |-> p.list]
    <3>1. /\ EntriesOf(k, p.list)
          /\ Written(b, o, EncodedList(p.list))
          /\ RoomForList(k, b, o)
      BY <1>4, <1>12, <2>2, SoundIs
    <3> HIDE DEF k
    <3> QED BY <1>0, <3>1, ListAtIs
  <2>5. o + 1 + ListOctets(p.list) = o + Len(e)
    <3> DEFINE x == ListOctets(p.list)
    <3> HIDE DEF x
    <3> QED BY <1>4, <2>3 DEF x
  <2>6. DecodeField(k, b, r, f) = WithList(r, ListAt(k, b, o), b)
    BY <1>3, <1>12 DEF DecodeField
  <2>7. DecodeField(k, b, r, f) = FieldsTaken(k, n, o + Len(e), v, p.list)
    BY <1>4, <2>4, <2>5, <2>6, WithListIs DEF r
  <2>8. ~ TooLong(p, f)
    BY <2>a DEF TooLong
  <2> QED BY <1>12, <2>7, <2>8 DEF r, e, AfterMember
<1> QED BY <1>2, <1>8, <1>9, <1>10, <1>11, <1>12

(* decode refuses a member that is cut short. *)
LEMMA DecodeFieldCut ==
  ASSUME NEW p, Sound(p), NEW b \in Seq(Nat), NEW o, NEW v, NEW l, NEW n,
         NEW f \in Fields(p.kind) \cup Layout[p.kind].list,
         CutShort(b, o, EncodedField(p, f))
  PROVE  DecodeField(p.kind, b, FieldsTaken(p.kind, n, o, v, l), f) = Refused
<1> DEFINE k == p.kind
           c == Layout[k]
           m == p.val[f]
           r == FieldsTaken(k, n, o, v, l)
           e == EncodedField(p, f)
           z == Len(b)
<1>0. k \in Kinds /\ p.list \in Seq(EntrySet) /\ EntriesOf(k, p.list)
  BY SoundIs
<1>1. f \in Fields(k) => m \in Nat /\ m \in Uint8
  BY SoundIs DEF Uint8
<1>2. Fields(k) = c.strings \cup c.addresses \cup c.text \cup c.octets
  BY DEF Fields, Counted
<1>3. r.ok /\ r.off = o
  BY DEF FieldsTaken
<1>4. /\ e \in Seq(Nat) /\ o \in Nat /\ Len(e) \in Nat /\ z \in Nat /\ o <= z
      /\ z < o + Len(e) /\ CutShort(b, o, e)
      /\ \A i \in 1 .. Len(e) : o + i <= z => b[o + i] = e[i]
  BY FieldIs, LenProperties DEF CutShort
<1>5. f \in Fields(k) => f \notin c.list
  BY <1>0, Members
<1> HIDE DEF r, e, m
<1>6. f \in Fields(k)
        => DecodeField(k, b, r, f) = WithField(r, f, FieldAt(c, b, o, f), b)
  BY <1>3, <1>5 DEF DecodeField
<1>7. ASSUME f \in Fields(k), FieldAt(c, b, o, f) = Refused
      PROVE  DecodeField(k, b, r, f) = Refused
  BY <1>6, <1>7 DEF WithField, Refused
<1>7a. ASSUME f \in Fields(k), NEW x, NEW y, FieldAt(c, b, o, f) = Field(x, y), o + y > z, y \in Nat
       PROVE  DecodeField(k, b, r, f) = Refused
  <2> DEFINE q == Field(x, y)
  <2>1. q.octets = y /\ ~ (r.off + q.octets <= Len(b))
    BY <1>3, <1>4, <1>7a DEF Field
  <2> HIDE DEF q
  <2> QED BY <1>6, <1>7a, <2>1 DEF WithField, q
<1>8. CASE f \in c.strings
  <2>1. f \notin c.addresses /\ f \notin c.octets /\ f \notin c.text
        /\ f \notin c.list /\ f \in Fields(k)
    BY <1>0, <1>2, <1>8, Members
  <2>2. e = String(m)
    BY <1>8, <2>1 DEF EncodedField, e, m
  <2>3. LengthAt(b, o) = z
    BY <1>1, <1>4, <2>1, <2>2, LengthAtCut
  <2>4. FieldAt(c, b, o, f) = StringField(f, z)
    BY <1>8, <2>1, <2>3 DEF FieldAt
  <2>5. StringField(f, z) = Refused \/ StringField(f, z) = Field(z, z + 1)
    BY DEF StringField
  <2>6. z \in Nat /\ z + 1 \in Nat /\ o + (z + 1) > z
    BY <1>4
  <2> HIDE DEF z
  <2> QED BY <1>7, <1>7a, <2>1, <2>4, <2>5, <2>6 DEF r
<1>9. CASE f \in c.addresses
  <2>1. f \notin c.strings /\ f \notin c.octets /\ f \notin c.text
        /\ f \notin c.list /\ f \in Fields(k)
    BY <1>0, <1>2, <1>9, Members
  <2>2. e = SmeAddress(m)
    BY <1>9, <2>1 DEF EncodedField, e, m
  <2>3. AddressAt(b, o) = Refused \/ AddressAt(b, o) = [ok |-> TRUE, len |-> z]
    BY <1>1, <1>4, <2>1, <2>2, AddressAtCut
  <2>4. FieldAt(c, b, o, f) = AddressField(AddressAt(b, o))
    BY <1>9, <2>1 DEF FieldAt
  <2>5. AddressField(AddressAt(b, o)) = Refused
        \/ AddressField(AddressAt(b, o)) = Field(z, z + 3)
    BY <2>3 DEF AddressField, Refused
  <2>6. z \in Nat /\ z + 3 \in Nat /\ o + (z + 3) > z
    BY <1>4
  <2> HIDE DEF z
  <2> QED BY <1>7, <1>7a, <2>1, <2>4, <2>5, <2>6 DEF r
<1>10. CASE f \in c.text
  <2>1. f \notin c.strings /\ f \notin c.octets /\ f \notin c.addresses
        /\ f \notin c.list /\ f \in Fields(k)
    BY <1>0, <1>2, <1>10, Members
  <2>2. e = Text(m)
    BY <1>10, <2>1 DEF EncodedField, e, m
  <2>3. Len(e) = m + 1 /\ e[1] = m /\ m \in Nat
    BY <1>1, <2>1, <2>2, TextIs
  <2> DEFINE x == OctetAt(b, o)
  <2>4. x \in Nat /\ x + 1 \in Nat /\ o + (x + 1) > z
    <3>1. CASE o < z
      <4>1. 1 \in 1 .. Len(e) /\ o + 1 <= z
        BY <1>4, <2>3, <3>1
      <4>2. x = m
        BY <1>4, <2>3, <3>1, <4>1 DEF OctetAt
      <4> HIDE DEF x
      <4> QED BY <1>4, <2>3, <4>2
    <3>2. CASE ~ (o < z)
      <4>1. x = 0
        BY <3>2 DEF OctetAt
      <4> HIDE DEF x
      <4> QED BY <1>4, <3>2, <4>1
    <3> QED BY <3>1, <3>2
  <2>5. FieldAt(c, b, o, f) = Field(x, x + 1)
    BY <1>10, <2>1 DEF FieldAt
  <2> HIDE DEF x, z
  <2> QED BY <1>7a, <2>1, <2>4, <2>5 DEF r
<1>11. CASE f \in c.octets
  <2>1. f \notin c.strings /\ f \notin c.text /\ f \notin c.addresses
        /\ f \notin c.list /\ f \in Fields(k)
    BY <1>0, <1>2, <1>11, Members
  <2>2. e = <<m>>
    BY <1>11, <2>1 DEF EncodedField, e, m
  <2>3. Len(e) = 1
    BY <2>2
  <2> DEFINE x == OctetAt(b, o)
  <2>4. x = 0 /\ o + 1 > z
    BY <1>4, <2>3 DEF OctetAt
  <2>5. FieldAt(c, b, o, f) = Field(x, 1)
    BY <1>11, <2>1 DEF FieldAt
  <2> HIDE DEF x, z
  <2> QED BY <1>7a, <2>1, <2>4, <2>5 DEF r
<1>12. CASE f \in c.list
  <2>1. f \notin Fields(k)
    BY <1>0, <1>12, Members
  <2>a. f \notin c.strings /\ f \notin c.text /\ f \notin c.addresses
        /\ f \notin c.octets
    BY <2>1, <1>2
  <2>2. e = EncodedList(p.list)
    BY <1>12, <2>a DEF EncodedField, e
  <2>3. ListAt(k, b, o) = Refused
    BY <1>0, <1>4, <2>2, ListAtCut
  <2>4. DecodeField(k, b, r, f) = WithList(r, ListAt(k, b, o), b)
    BY <1>3, <1>12 DEF DecodeField
  <2> QED BY <2>3, <2>4 DEF WithList, Refused, r
<1> QED BY <1>2, <1>8, <1>9, <1>10, <1>11, <1>12

(* decode refuses a list after which there is too little. *)
LEMMA DecodeListShort ==
  ASSUME NEW k, NEW b, NEW o, NEW v, NEW l, NEW n, NEW f \in Layout[k].list,
         o \in Nat, Len(b) \in Nat, ~ RoomForList(k, b, o)
  PROVE  DecodeField(k, b, FieldsTaken(k, n, o, v, l), f) = Refused
<1> DEFINE r == FieldsTaken(k, n, o, v, l)
<1>1. r.ok /\ r.off = o
  BY DEF FieldsTaken
<1> HIDE DEF r
<1>2. ListAt(k, b, o) = Refused
  BY DEF RoomForList, ListAt
<1>3. DecodeField(k, b, r, f) = WithList(r, Refused, b)
  BY <1>1, <1>2 DEF DecodeField
<1>4. WithList(r, Refused, b) = Refused
  BY DEF WithList, Refused
<1> QED BY <1>3, <1>4 DEF r

(****************************************************************************)
(* decode, all members.                                                     *)
(****************************************************************************)

(* decode can take the member f out of b at offset o, or cannot whatever it
   has taken before. *)
Ready(p, b, o, f) ==
  /\ Written(b, o, EncodedField(p, f))
  /\ f \in Layout[p.kind].list => RoomForList(p.kind, b, o)
  /\ ~ TooLong(p, f)
Refuses(p, b, o, f) ==
  \A v, l : DecodeField(p.kind, b, FieldsTaken(p.kind, Len(b), o, v, l), f) = Refused

(* The members of G can be taken, and the first that is not in G cannot. *)
Divided(p, b, at, G) ==
  \A i \in 1 .. Len(Layout[p.kind].order) :
    IF i \in G THEN Ready(p, b, 16 + at[i - 1], Layout[p.kind].order[i])
    ELSE (\A h \in 1 .. i - 1 : h \in G)
           => Refuses(p, b, 16 + at[i - 1], Layout[p.kind].order[i])

(* decode takes the members of G out one after the other and refuses the frame
   at the first that is not in G. *)
LEMMA FieldsLoop ==
  ASSUME NEW p, Sound(p), NEW b \in Seq(Nat), NEW at,
         LaidOut(FieldFrames(p), FlattenSeq(FieldFrames(p)), at), NEW G,
         Divided(p, b, at, G)
  PROVE  DecodeFields(p.kind, b) =
           IF \A i \in 1 .. Len(Layout[p.kind].order) : i \in G
           THEN FieldsTaken(p.kind, Len(b), 16 + FieldsOctets(p), p.val, p.list)
           ELSE Refused
<1> DEFINE k == p.kind
           c == Layout[k]
           order == c.order
           n == Len(order)
           ss == FieldFrames(p)
           base == FieldsTaken(k, Len(b), 16, [f \in Fields(k) |-> 0], <<>>)
           upTo == CHOOSE g : g = [i \in 0 .. n |->
                     IF i = 0 THEN base ELSE DecodeField(k, b, g[i - 1], order[i])]
<1>0. /\ k \in Kinds /\ p.val \in [Fields(k) -> Uint8]
         /\ p.list \in Seq(EntrySet)
      /\ EntriesOf(k, p.list)
  BY SoundIs
<1>1. /\ n \in Nat /\ DOMAIN order = 1 .. n
      /\ \A i \in 1 .. n : order[i] \in Fields(k) \cup c.list
      /\ \A f \in Fields(k) \cup c.list : \E i \in 1 .. n : order[i] = f
      /\ \A i, j \in 1 .. n : order[i] = order[j] => i = j
      /\ \A f \in c.list : f \notin Fields(k)
      /\ c.list = {} <=> EntryFlags(k) = {}
  BY <1>0, Members
<1>1a. c.addresses \subseteq Fields(k)
  BY DEF Fields, Counted
<1>2. /\ ss \in Seq(Seq(Nat)) /\ Len(ss) = n
      /\ \A i \in 1 .. n : /\ ss[i] = EncodedField(p, order[i])
                           /\ Len(ss[i]) \in Nat /\ Len(ss[i]) >= 1
      /\ FlattenSeq(ss) \in Seq(Nat)
  <2>1. /\ ss \in Seq(Seq(Nat)) /\ Len(ss) = n
        /\ FlattenSeq(ss) \in Seq(Nat)
        /\ \A i \in 1 .. n : /\ ss[i] = EncodedField(p, order[i])
                             /\ Len(ss[i]) = Least(k, order[i]) + Extra(p, order[i])
                             /\ Extra(p, order[i]) \in Nat
    BY FieldFramesAre
  <2>2. \A i \in 1 .. n : Least(k, order[i]) \in {1, 3}
    BY DEF Least
  <2>3. ASSUME NEW i \in 1 .. n PROVE Len(ss[i]) \in Nat /\ Len(ss[i]) >= 1
    <3> DEFINE x == Least(k, order[i])
               y == Extra(p, order[i])
    <3>1. x \in {1, 3} /\ y \in Nat /\ Len(ss[i]) = x + y
      BY <2>1, <2>2
    <3> HIDE DEF x, y
    <3> QED BY <3>1
  <2> QED BY <2>1, <2>3
<1>5. /\ \A i \in 0 .. n : at[i] \in Nat
      /\ \A i \in 1 .. n : at[i] = at[i - 1] + Len(ss[i])
      /\ at[0] = 0 /\ at[n] = FieldsOctets(p)
  BY <1>2 DEF LaidOut, FieldsOctets
<1>6. \A i \in 1 .. n :
        IF i \in G THEN Ready(p, b, 16 + at[i - 1], order[i])
        ELSE (\A h \in 1 .. i - 1 : h \in G)
               => Refuses(p, b, 16 + at[i - 1], order[i])
  BY DEF Divided
<1> HIDE DEF ss
<1> DEFINE short(i) == \A j \in 1 .. i : j \in G
           val(i) == [f \in Fields(k) |->
                        IF \E j \in 1 .. i : order[j] = f THEN p.val[f] ELSE 0]
           list(i) == IF \E j \in 1 .. i : order[j] \in c.list THEN p.list ELSE <<>>
           w == [i \in 0 .. n |-> IF short(i)
                                  THEN FieldsTaken(k, Len(b), 16 + at[i], val(i), list(i))
                                  ELSE Refused]
<1>8. ASSUME NEW i \in 1 .. n
      PROVE  DecodeField(k, b, w[i - 1], order[i]) = w[i]
  <2> DEFINE f == order[i]
             o == 16 + at[i - 1]
  <2>1. /\ i \in 0 .. n /\ i - 1 \in 0 .. n
        /\ \A j : j \in 1 .. i <=> j \in 1 .. i - 1 \/ j = i
    BY <1>1
  <2>2. short(i) <=> short(i - 1) /\ i \in G
    BY <2>1
  <2>3. CASE ~ short(i - 1)
    <3>1. w[i - 1] = Refused /\ w[i] = Refused
      BY <2>1, <2>2, <2>3
    <3>2. DecodeField(k, b, Refused, f) = Refused
      BY DEF DecodeField, Refused
    <3> HIDE DEF w
    <3> QED BY <3>1, <3>2
  <2>4. CASE short(i - 1)
    <3> DEFINE v == val(i - 1)
               l == list(i - 1)
    <3>1. w[i - 1] = FieldsTaken(k, Len(b), o, v, l)
      BY <2>1, <2>4
    <3>2. o + Len(EncodedField(p, f)) = 16 + at[i]
      <4> DEFINE x == at[i - 1]
                 y == Len(ss[i])
      <4>1. x \in Nat /\ y \in Nat /\ at[i] = x + y
            /\ ss[i] = EncodedField(p, f)
        BY <1>2, <1>5, <2>1
      <4> HIDE DEF x, y, f
      <4>2. (16 + x) + y = 16 + (x + y)
        BY <4>1
      <4> QED BY <4>1, <4>2 DEF x, y
    <3>3. (IF f \in c.list THEN v ELSE [v EXCEPT ![f] = p.val[f]]) = val(i)
      <4>1. CASE f \in c.list
        <5>1. \A g \in Fields(k) : (\E j \in 1 .. i : order[j] = g)
              <=> (\E j \in 1 .. i - 1 : order[j] = g)
          BY <1>1, <2>1, <4>1
        <5> QED BY <4>1, <5>1
      <4>2. CASE f \notin c.list
        <5>1. f \in Fields(k)
          BY <1>1, <4>2
        <5>2. [v EXCEPT ![f] = p.val[f]]
                = [g \in Fields(k) |-> IF g = f THEN p.val[f] ELSE v[g]]
          BY <5>1
        <5>3. \A g \in Fields(k) :
                (\E j \in 1 .. i : order[j] = g) <=> g = f
                \/ \E j \in 1 .. i - 1 : order[j] = g
          BY <2>1
        <5>4. \A g \in Fields(k) : (IF g = f THEN p.val[f] ELSE v[g])
                = IF \E j \in 1 .. i : order[j] = g THEN p.val[g] ELSE 0
          BY <5>3
        <5> HIDE DEF f
        <5> QED BY <4>2, <5>2, <5>4
      <4> QED BY <4>1, <4>2
    <3>4. (IF f \in c.list THEN p.list ELSE l) = list(i)
      BY <2>1
    <3>5. w[i] = IF i \in G THEN FieldsTaken(k, Len(b), 16 + at[i], val(i), list(i))
                 ELSE Refused
      BY <2>1, <2>2, <2>4
    <3>6. IF i \in G THEN Ready(p, b, o, f) ELSE Refuses(p, b, o, f)
      BY <1>6, <2>4
    <3>7. f \in Fields(k) \cup c.list
      BY <1>1
    <3> HIDE DEF f, o, v, l, val, list, short, w
    <3>8. DecodeField(k, b, w[i - 1], f) = w[i]
      <4>1. CASE i \in G
        <5>1. DecodeField(k, b, FieldsTaken(k, Len(b), o, v, l), f)
                = AfterMember(p, Len(b), o, v, l, f)
          BY <3>6, <3>7, <4>1, DecodeFieldIs DEF Ready
        <5>2. ~ TooLong(p, f)
          BY <3>6, <4>1 DEF Ready
        <5> QED BY <3>1, <3>2, <3>3, <3>4, <3>5, <4>1, <5>1, <5>2
                   DEF AfterMember
      <4>2. CASE i \notin G
        <5>1. DecodeField(k, b, FieldsTaken(k, Len(b), o, v, l), f) = Refused
          BY <3>6, <4>2 DEF Refuses
        <5> QED BY <3>1, <3>5, <4>2, <5>1
      <4> QED BY <4>1, <4>2
    <3> QED BY <3>8 DEF f
  <2> QED BY <2>3, <2>4
<1>9. w[0] = base
  <2>1. 0 \in 0 .. n /\ 16 + at[0] = 16 /\ \A j : j \notin 1 .. 0
    BY <1>1, <1>5
  <2>2. short(0)
    BY <2>1
  <2>3. val(0) = [f \in Fields(k) |-> 0] /\ list(0) = <<>>
    BY <2>1
  <2> HIDE DEF short, val, list
  <2> QED BY <2>1, <2>2, <2>3
<1>10. w[n] = IF \A i \in 1 .. n : i \in G
              THEN FieldsTaken(k, Len(b), 16 + FieldsOctets(p), p.val, p.list)
              ELSE Refused
  <2>1. n \in 0 .. n /\ 16 + at[n] = 16 + FieldsOctets(p)
    BY <1>1, <1>5
  <2>2. short(n) <=> \A i \in 1 .. n : i \in G
    OBVIOUS
  <2>3. val(n) = p.val
    <3>1. \A f \in Fields(k) : \E j \in 1 .. n : order[j] = f
      BY <1>1
    <3>2. val(n) = [f \in Fields(k) |-> p.val[f]]
      BY <3>1
    <3> QED BY <1>0, <3>2
  <2>4. list(n) = p.list
    <3>1. CASE c.list = {}
      <4>1. EntryFlags(k) = {}
        BY <1>1, <3>1
      <4>2. Len(p.list) \in Nat /\ \A i \in 1 .. Len(p.list) : FALSE
        BY <1>0, <4>1, LenProperties DEF EntriesOf
      <4>3. Len(p.list) = 0
        BY <4>2
      <4>4. p.list = <<>>
        BY <1>0, <4>3, EmptySeq
      <4>5. list(n) = <<>>
        BY <3>1
      <4> QED BY <4>4, <4>5
    <3>2. CASE c.list # {}
      <4>1. \E j \in 1 .. n : order[j] \in c.list
        BY <1>1, <3>2
      <4> QED BY <4>1
    <3> QED BY <3>1, <3>2
  <2> HIDE DEF short, val, list
  <2> QED BY <2>1, <2>2, <2>3, <2>4
<1> HIDE DEF w
<1>11. DecodeFields(k, b) = upTo[n]
  <2>1. [ok |-> TRUE, off |-> 16, pdu |-> [Blank(k) EXCEPT !.length = Len(b)]] = base
    BY BlankIs
  <2> HIDE DEF base
  <2> QED BY <2>1 DEF DecodeFields
<1> HIDE DEF base
<1>13. w = [i \in 0 .. n |-> IF i = 0 THEN base ELSE DecodeField(k, b, w[i - 1], order[i])]
  <2>1. w = [i \in 0 .. n |-> w[i]]
    BY DEF w
  <2>2. \A i \in 0 .. n : w[i] = IF i = 0 THEN base ELSE DecodeField(k, b, w[i - 1], order[i])
    <3>1. \A i \in 0 .. n : i # 0 => i \in 1 .. n
      BY <1>1
    <3> QED BY <1>8, <1>9, <3>1
  <2> QED BY <2>1, <2>2
<1>14. upTo = [i \in 0 .. n |-> IF i = 0 THEN base ELSE DecodeField(k, b, upTo[i - 1], order[i])]
  <2>1. \E g : g = [i \in 0 .. n |-> IF i = 0 THEN base ELSE DecodeField(k, b, g[i - 1], order[i])]
    BY <1>13
  <2> QED BY <2>1
<1> HIDE DEF upTo, n
<1>15. \A i \in 0 .. n : upTo[i] = w[i]
  <2> DEFINE S == {h \in 0 .. n : upTo[h] = w[h]}
  <2>1. 0 \in S
    BY <1>1, <1>9, <1>14
  <2>2. ASSUME NEW i \in 1 .. n, i - 1 \in S PROVE i \in S
    <3>1. i \in 0 .. n /\ i # 0
      BY <1>1
    <3>2. upTo[i] = DecodeField(k, b, upTo[i - 1], order[i])
      BY <1>14, <3>1
    <3> QED BY <1>8, <2>2, <3>1, <3>2
  <2> HIDE DEF S
  <2>3. \A i \in 0 .. n : i \in S
    BY <1>1, <2>1, <2>2, UpTo
  <2>4. \A i \in S : upTo[i] = w[i]
    BY DEF S
  <2> QED BY <2>3, <2>4
<1>16. upTo[n] = w[n]
  <2>1. n \in 0 .. n
    BY <1>1
  <2> QED BY <1>15, <2>1
<1> QED BY <1>10, <1>11, <1>16 DEF n

(* What is known of the frames of the members, and where they are. *)
LEMMA FieldsLaidOut ==
  ASSUME NEW p, Sound(p)
  PROVE  LET order == Layout[p.kind].order
             ss == FieldFrames(p)
         IN  /\ ss \in Seq(Seq(Nat)) /\ Len(ss) = Len(order)
                /\ FlattenSeq(ss) \in Seq(Nat)
             /\ Len(order) \in Nat
             /\ \A i \in 1 .. Len(order) :
                  /\ order[i] \in Fields(p.kind) \cup Layout[p.kind].list
                  /\ ss[i] = EncodedField(p, order[i])
                  /\ Len(ss[i]) \in Nat /\ Len(ss[i]) >= 1
             /\ \A f \in Fields(p.kind) : \E i \in 1 .. Len(order) : order[i] = f
             /\ \E at : LaidOut(ss, FlattenSeq(ss), at)
<1> DEFINE k == p.kind
           order == Layout[k].order
           n == Len(order)
           ss == FieldFrames(p)
<1>1. /\ ss \in Seq(Seq(Nat)) /\ Len(ss) = n
      /\ FlattenSeq(ss) \in Seq(Nat)
      /\ \A i \in 1 .. n : /\ ss[i] = EncodedField(p, order[i])
                           /\ order[i] \in Fields(k) \cup Layout[k].list
                           /\ Len(ss[i]) = Least(k, order[i]) + Extra(p, order[i])
                           /\ Extra(p, order[i]) \in Nat
  BY FieldFramesAre
<1>2. \A i \in 1 .. n : Least(k, order[i]) \in {1, 3}
  BY DEF Least
<1>3. ASSUME NEW i \in 1 .. n PROVE Len(ss[i]) \in Nat /\ Len(ss[i]) >= 1
  <2> DEFINE x == Least(k, order[i])
             y == Extra(p, order[i])
  <2>1. x \in {1, 3} /\ y \in Nat /\ Len(ss[i]) = x + y
    BY <1>1, <1>2
  <2> HIDE DEF x, y
  <2> QED BY <2>1
<1>4. /\ n \in Nat
      /\ \A f \in Fields(k) : \E i \in 1 .. n : order[i] = f
  BY SoundIs, Members
<1>5. \E at : LaidOut(ss, FlattenSeq(ss), at)
  BY <1>1, Flattened
<1> QED BY <1>1, <1>3, <1>4, <1>5

(* decode takes the members out that encode has written, unless one of them
   is an address that is too long. *)
LEMMA FieldsWhole ==
  ASSUME NEW p, Sound(p), NEW b \in Seq(Nat), Written(b, 16, FlattenSeq(FieldFrames(p)))
  PROVE  DecodeFields(p.kind, b) =
           IF \E f \in Layout[p.kind].addresses : TooLong(p, f) THEN Refused
           ELSE FieldsTaken(p.kind, Len(b), 16 + FieldsOctets(p), p.val, p.list)
<1> DEFINE k == p.kind
           c == Layout[k]
           order == c.order
           n == Len(order)
           ss == FieldFrames(p)
           G == {i \in 1 .. n : ~ TooLong(p, order[i])}
<1>1. /\ ss \in Seq(Seq(Nat)) /\ Len(ss) = n /\ FlattenSeq(ss) \in Seq(Nat)
         /\ n \in Nat
      /\ \A i \in 1 .. n : /\ order[i] \in Fields(k) \cup c.list
                           /\ ss[i] = EncodedField(p, order[i])
                           /\ Len(ss[i]) \in Nat /\ Len(ss[i]) >= 1
      /\ \A f \in Fields(k) : \E i \in 1 .. n : order[i] = f
      /\ \E at : LaidOut(ss, FlattenSeq(ss), at)
  BY FieldsLaidOut
<1>2. k \in Kinds /\ DOMAIN order = 1 .. n
  BY SoundIs, Members
<1>3. c.addresses \subseteq Fields(k)
  BY DEF Fields, Counted
<1>4. PICK at : LaidOut(ss, FlattenSeq(ss), at)
  BY <1>1
<1>5. /\ \A i \in 0 .. n : at[i] \in Nat
      /\ \A i \in 1 .. n : at[i] = at[i - 1] + Len(ss[i])
  BY <1>1, <1>4 DEF LaidOut
<1>6. \A i \in 1 .. n : Written(b, 16 + at[i - 1], ss[i])
      /\ 16 + at[i] <= Len(b)
  BY <1>1, <1>4, WrittenPieces
<1>6a. Len(b) \in Nat
  BY LenProperties
<1> HIDE DEF ss
<1>7. ASSUME NEW i \in 1 .. n, order[i] \in c.list
      PROVE  RoomForList(k, b, 16 + at[i - 1])
  <2> SUFFICES ASSUME k = "submit_multi" PROVE Len(b) - (16 + at[i - 1]) >= 3
    BY DEF RoomForList
  <2>1. i + 2 <= n
    <3>1. i \in DOMAIN Layout["submit_multi"].order
      BY <1>2
    <3> QED BY <1>7, <3>1, PduAssumption
  <2>2. /\ i + 1 \in 1 .. n /\ i + 2 \in 1 .. n /\ i - 1 \in 0 .. n
        /\ (i + 1) - 1 = i /\ (i + 2) - 1 = i + 1
    BY <1>1, <2>1
  <2> DEFINE x == at[i - 1]
             y == at[i]
             z == at[i + 1]
             u == at[i + 2]
             l1 == Len(ss[i])
             l2 == Len(ss[i + 1])
             l3 == Len(ss[i + 2])
             l == Len(b)
  <2>3. y = x + l1
    BY <1>5
  <2>4. z = y + l2
    BY <1>5, <2>2
  <2>5. u = z + l3 /\ 16 + u <= l
    BY <1>5, <1>6, <2>2
  <2>6. x \in Nat /\ l1 \in Nat /\ l2 \in Nat /\ l3 \in Nat /\ l1 >= 1
        /\ l2 >= 1 /\ l3 >= 1
    BY <1>1, <1>5, <2>2
  <2>7. l - (16 + x) >= 3
    <3> HIDE DEF x, y, z, u, l1, l2, l3, l
    <3> QED BY <2>3, <2>4, <2>5, <2>6, <1>6a DEF l
  <2> QED BY <2>7
<1>8. ASSUME NEW i \in 1 .. n
      PROVE  IF i \in G THEN Ready(p, b, 16 + at[i - 1], order[i])
             ELSE (\A h \in 1 .. i - 1 : h \in G)
                    => Refuses(p, b, 16 + at[i - 1], order[i])
  <2> DEFINE f == order[i]
             o == 16 + at[i - 1]
  <2>1. /\ f \in Fields(k) \cup c.list /\ Written(b, o, EncodedField(p, f))
        /\ f \in c.list => RoomForList(k, b, o)
    BY <1>1, <1>6, <1>7
  <2>2. i \in G <=> ~ TooLong(p, f)
    OBVIOUS
  <2> HIDE DEF f, o, G, c, order, n
  <2>3. CASE TooLong(p, f)
    <3>1. \A v, l : AfterMember(p, Len(b), o, v, l, f) = Refused
      BY <2>3 DEF AfterMember
    <3>2. \A v, l : DecodeField(k, b, FieldsTaken(k, Len(b), o, v, l), f)
                      = AfterMember(p, Len(b), o, v, l, f)
      BY <2>1, DecodeFieldIs DEF c
    <3>3. Refuses(p, b, o, f)
      BY <3>1, <3>2 DEF Refuses
    <3> QED BY <2>2, <2>3, <3>3 DEF f, o
  <2>4. CASE ~ TooLong(p, f)
    BY <2>1, <2>2, <2>4 DEF Ready, f, o, c
  <2> QED BY <2>3, <2>4
<1>9. (\A i \in 1 .. n : i \in G) <=> ~ \E f \in c.addresses : TooLong(p, f)
  <2>1. \A f : TooLong(p, f) => f \in c.addresses
    BY DEF TooLong
  <2> QED BY <1>1, <1>3, <2>1
<1> HIDE DEF G
<1>10. DecodeFields(k, b) =
         IF \A i \in 1 .. n : i \in G
         THEN FieldsTaken(k, Len(b), 16 + FieldsOctets(p), p.val, p.list)
         ELSE Refused
  BY <1>4, <1>8, FieldsLoop DEF ss, Divided
<1> QED BY <1>9, <1>10

(* decode refuses a frame that ends within its members. *)
LEMMA FieldsCut ==
  ASSUME NEW p, Sound(p), NEW b \in Seq(Nat), CutShort(b, 16, FlattenSeq(FieldFrames(p))),
         \A f \in Layout[p.kind].addresses : ~ TooLong(p, f)
  PROVE  DecodeFields(p.kind, b) = Refused
<1> DEFINE k == p.kind
           c == Layout[k]
           order == c.order
           n == Len(order)
           ss == FieldFrames(p)
           t == FlattenSeq(ss)
<1>1. /\ ss \in Seq(Seq(Nat)) /\ Len(ss) = n /\ t \in Seq(Nat) /\ n \in Nat
      /\ \A i \in 1 .. n : /\ order[i] \in Fields(k) \cup c.list
                           /\ ss[i] = EncodedField(p, order[i])
                           /\ Len(ss[i]) \in Nat /\ Len(ss[i]) >= 1
      /\ \E at : LaidOut(ss, t, at)
  BY FieldsLaidOut
<1>2. PICK at : LaidOut(ss, t, at)
  BY <1>1
<1>3. PICK j \in 1 .. n :
        /\ CutShort(b, 16 + at[j - 1], ss[j])
        /\ \A i \in 1 .. j - 1 : Written(b, 16 + at[i - 1], ss[i])
  <2> HIDE DEF ss, t
  <2>1. CutShort(b, 16, t)
    BY DEF t, ss
  <2> QED BY <1>1, <1>2, <2>1, CutPieces
<1>4. \A i \in 1 .. n : 16 + at[i - 1] \in Nat
  <2>1. \A i \in 1 .. n : i - 1 \in 0 .. n
    BY <1>1
  <2>2. \A i \in 0 .. n : at[i] \in Nat
    BY <1>1, <1>2 DEF LaidOut
  <2> QED BY <2>1, <2>2
<1>5. Len(b) \in Nat
  BY LenProperties
<1> DEFINE G == {i \in 1 .. n : Ready(p, b, 16 + at[i - 1], order[i])}
<1>6. j \notin G
  <2> DEFINE o == 16 + at[j - 1]
             l == Len(ss[j])
  <2>1. o \in Nat /\ l \in Nat /\ Len(b) < o + l
    BY <1>1, <1>3, <1>4 DEF CutShort
  <2>2. ~ Written(b, o, ss[j])
    <3> HIDE DEF o
    <3>1. ~ (o + l <= Len(b))
      <4> HIDE DEF l
      <4> QED BY <1>5, <2>1
    <3> QED BY <3>1 DEF Written
  <2> QED BY <1>1, <2>2 DEF Ready
<1>7. \A f : ~ TooLong(p, f)
  BY DEF TooLong
<1>8. ASSUME NEW i \in 1 .. n, i \notin G, \A h \in 1 .. i - 1 : h \in G
      PROVE  Refuses(p, b, 16 + at[i - 1], order[i])
  <2> DEFINE f == order[i]
             o == 16 + at[i - 1]
  <2>1. i \in 1 .. j
    <3>1. ~ (j \in 1 .. i - 1)
      BY <1>6, <1>8
    <3> QED BY <1>1, <3>1
  <2>2. CASE i = j
    <3>1. CutShort(b, o, EncodedField(p, f)) /\ f \in Fields(k) \cup c.list
      BY <1>1, <1>3, <2>2
    <3> HIDE DEF f, o
    <3> QED BY <3>1, DecodeFieldCut DEF Refuses, f, o
  <2>3. CASE i # j
    <3>1. i \in 1 .. j - 1
      BY <1>1, <2>1, <2>3
    <3>2. Written(b, o, EncodedField(p, f))
      BY <1>1, <1>3, <3>1
    <3>3. ~ Ready(p, b, o, f) /\ o \in Nat
      BY <1>4, <1>8
    <3> HIDE DEF f, o
    <3>4. f \in c.list /\ ~ RoomForList(k, b, o)
      BY <1>7, <3>2, <3>3 DEF Ready
    <3>5. \A v, l : DecodeField(k, b, FieldsTaken(k, Len(b), o, v, l), f) = Refused
      BY <1>5, <3>3, <3>4, DecodeListShort
    <3> QED BY <3>5 DEF Refuses, f, o
  <2> QED BY <2>2, <2>3
<1>9. \A i \in 1 .. n :
        IF i \in G THEN Ready(p, b, 16 + at[i - 1], order[i])
        ELSE (\A h \in 1 .. i - 1 : h \in G)
               => Refuses(p, b, 16 + at[i - 1], order[i])
  BY <1>8
<1> HIDE DEF G
<1>10. DecodeFields(k, b) =
         IF \A i \in 1 .. n : i \in G
         THEN FieldsTaken(k, Len(b), 16 + FieldsOctets(p), p.val, p.list)
         ELSE Refused
  BY <1>2, <1>9, FieldsLoop DEF ss, t, Divided
<1> QED BY <1>6, <1>10

(****************************************************************************)
(* decode undoes encode.                                                    *)
(****************************************************************************)

(* Decodable, of any object. *)
CanDecode(p) ==
  /\ RequiredTags(p.kind) \subseteq {t.tag : t \in Range(p.tlvs)}
  /\ \A f \in Layout[p.kind].addresses : p.val[f] < MaxLen

(* What decode returns for the frame of p. *)
Decoded(p) == [ok |-> TRUE, pdu |-> [p EXCEPT !.length = Len(Encode(p)), !.isDefault = FALSE]]

(* An object with another length, written out. *)
LEMMA DecodedIs ==
  ASSUME NEW p \in Pdus, NEW n
  PROVE  [p EXCEPT !.length = n, !.isDefault = FALSE]
           = [kind |-> p.kind, length |-> n, val |-> p.val, list |-> p.list,
              tlvs |-> p.tlvs, isDefault |-> FALSE]
<1> SUFFICES ASSUME NEW u, u = [p EXCEPT !.length = n, !.isDefault = FALSE]
             PROVE  u = [kind |-> p.kind, length |-> n, val |-> p.val, list |-> p.list,
                         tlvs |-> p.tlvs, isDefault |-> FALSE]
  OBVIOUS
<1> QED BY DEF Pdus

(* decode ends with the TLVs, if the required ones are there. *)
LEMMA WithTlvsIs ==
  ASSUME NEW p, Sound(p), NEW n, NEW o
  PROVE  WithTlvs(PduTaken(p.kind, n, p.val, p.list), TlvsTaken(o, p.tlvs)) =
           IF RequiredTags(p.kind) \subseteq {t.tag : t \in Range(p.tlvs)}
           THEN [ok |-> TRUE, pdu |-> [p EXCEPT !.length = n, !.isDefault = FALSE]]
           ELSE Refused
<1> DEFINE q == PduTaken(p.kind, n, p.val, p.list)
           r == TlvsTaken(o, p.tlvs)
<1>1. r.ok /\ r.tlvs = p.tlvs
  BY DEF TlvsTaken
<1>2. q.kind = p.kind
  BY DEF PduTaken
<1>3. [q EXCEPT !.tlvs = p.tlvs] = [p EXCEPT !.length = n, !.isDefault = FALSE]
  <2>1. p \in Pdus
    BY DEF Sound
  <2>3. ASSUME NEW u, u = [q EXCEPT !.tlvs = p.tlvs]
        PROVE  u = [kind |-> p.kind, length |-> n, val |-> p.val, list |-> p.list,
                    tlvs |-> p.tlvs, isDefault |-> FALSE]
    BY <2>3 DEF PduTaken
  <2> HIDE DEF q
  <2> QED BY <2>1, <2>3, DecodedIs
<1> HIDE DEF q, r
<1> QED BY <1>1, <1>2, <1>3 DEF WithTlvs, q, r

(* decode of an encoded object: the object again, or a refusal when an address
   is too long or a required TLV is missing. *)
LEMMA DecodeIs ==
  ASSUME NEW p, Sound(p)
  PROVE  Decode(p.kind, Encode(p)) = IF CanDecode(p) THEN Decoded(p) ELSE Refused
<1> DEFINE k == p.kind
           b == Encode(p)
           n == Len(b)
           o == 16 + FieldsOctets(p)
<1>1. /\ k \in Kinds /\ p.tlvs \in Seq(TlvSet)
      /\ \A f \in Fields(k) : p.val[f] \in Nat
  BY SoundIs
<1>2. /\ b \in Seq(Nat) /\ n = o + TlvOctets(p.tlvs)
      /\ Written(b, o, FlattenSeq(TlvFrames(p.tlvs)))
  BY EncodeIs
<1>3. FieldsOctets(p) \in Nat /\ TlvOctets(p.tlvs) \in Nat
  BY <1>1, FieldFramesAre, TlvFramesAre
<1> HIDE DEF b
<1>4. ~ (n < 16)
  <2> DEFINE x == FieldsOctets(p)
             y == TlvOctets(p.tlvs)
  <2>1. n = (16 + x) + y /\ x \in Nat /\ y \in Nat
    BY <1>2, <1>3
  <2> HIDE DEF x, y, n
  <2> QED BY <2>1
<1>5. Decode(k, b) = Finish(DecodeFields(k, b), b)
  BY <1>4 DEF Decode
<1>6. \A f \in Layout[k].addresses : TooLong(p, f) <=> ~ (p.val[f] < MaxLen)
  <2>1. Layout[k].addresses \subseteq Fields(k)
    BY DEF Fields, Counted
  <2> QED BY <1>1, <2>1 DEF TooLong, MaxLen
<1>7. DecodeFields(k, b) =
        IF \E f \in Layout[k].addresses : TooLong(p, f) THEN Refused
        ELSE FieldsTaken(k, n, o, p.val, p.list)
  <2>1. b \in Seq(Nat) /\ Written(b, 16, FlattenSeq(FieldFrames(p)))
    BY EncodeIs DEF b
  <2> QED BY <2>1, FieldsWhole
<1>8. CASE \E f \in Layout[k].addresses : TooLong(p, f)
  <2>1. ~ CanDecode(p)
    BY <1>6, <1>8 DEF CanDecode
  <2>2. Finish(Refused, b) = Refused
    BY DEF Finish, Refused
  <2> QED BY <1>5, <1>7, <1>8, <2>1, <2>2 DEF b
<1>9. CASE ~ \E f \in Layout[k].addresses : TooLong(p, f)
  <2>1. TlvsAt(b, o) = TlvsTaken(n, p.tlvs)
    <3>1. o >= 4
      BY <1>3
    <3> HIDE DEF o
    <3> QED BY <1>1, <1>2, <3>1, TlvsAtIs
  <2> DEFINE r == FieldsTaken(k, n, o, p.val, p.list)
  <2>2. r.ok /\ r.off = o /\ r.pdu = PduTaken(k, n, p.val, p.list)
    BY DEF FieldsTaken
  <2>3. DecodeFields(k, b) = r
    BY <1>7, <1>9
  <2> HIDE DEF r, o
  <2>4. Finish(r, b) = WithTlvs(r.pdu, TlvsAt(b, o))
    BY <2>2 DEF Finish
  <2>5. Decode(k, b) = WithTlvs(PduTaken(k, n, p.val, p.list), TlvsTaken(n, p.tlvs))
    BY <1>5, <2>1, <2>2, <2>3, <2>4
  <2>6. CanDecode(p)
        <=> RequiredTags(k) \subseteq {t.tag : t \in Range(p.tlvs)}
    BY <1>6, <1>9 DEF CanDecode
  <2> QED BY <2>5, <2>6, WithTlvsIs DEF Decoded, b
<1> QED BY <1>8, <1>9

(****************************************************************************)
(* What a change of one member changes.                                     *)
(****************************************************************************)

(* Pieces of the same lengths make up sequences of the same length. *)
LEMMA FlattenSame ==
  ASSUME NEW V, NEW ss \in Seq(Seq(V)), NEW tt \in Seq(Seq(V)), Len(ss) = Len(tt),
         \A i \in 1 .. Len(ss) : Len(tt[i]) = Len(ss[i])
  PROVE  Len(FlattenSeq(tt)) = Len(FlattenSeq(ss))
<1>1. Len(ss) \in Nat
  BY LenProperties
<1>2. CASE Len(ss) = 0
  <2>1. ss = <<>> /\ tt = <<>>
    BY <1>2, EmptySeq
  <2> QED BY <2>1
<1>3. CASE Len(ss) # 0
  <2>1. 1 \in 1 .. Len(ss)
    BY <1>1, <1>3
  <2>2. Len(FlattenSeq(tt)) = Len(FlattenSeq(ss)) + Len(tt[1]) - Len(ss[1])
    BY <2>1, FlattenChange
  <2>3. Len(tt[1]) = Len(ss[1]) /\ ss[1] \in Seq(V)
        /\ FlattenSeq(ss) \in Seq(V)
    BY <2>1, Flattened
  <2>4. Len(ss[1]) \in Nat /\ Len(FlattenSeq(ss)) \in Nat
    BY <2>3, LenProperties
  <2> DEFINE x == Len(ss[1])
             y == Len(FlattenSeq(ss))
             z == Len(FlattenSeq(tt))
  <2>5. x \in Nat /\ y \in Nat /\ z = y + x - x
    BY <2>2, <2>3, <2>4
  <2> HIDE DEF x, y, z
  <2>6. z = y
    BY <2>5
  <2> QED BY <2>6 DEF y, z
<1> QED BY <1>2, <1>3

(* The members of q take what those of p do, but for f. *)
LEMMA FieldsChange ==
  ASSUME NEW p, NEW q, Sound(p), Sound(q), q.kind = p.kind,
         NEW f \in Fields(p.kind) \cup Layout[p.kind].list,
         \A g \in Fields(p.kind) \cup Layout[p.kind].list :
           g # f => Extra(q, g) = Extra(p, g)
  PROVE  FieldsOctets(q) = FieldsOctets(p) + Extra(q, f) - Extra(p, f)
<1> DEFINE order == Layout[p.kind].order
           n == Len(order)
           ss == FieldFrames(p)
           tt == FieldFrames(q)
<1>0. p.kind \in Kinds
  BY SoundIs
<1>1. /\ \A i \in 1 .. n : order[i] \in Fields(p.kind) \cup Layout[p.kind].list
      /\ \A g \in Fields(p.kind) \cup Layout[p.kind].list : \E i \in 1 .. n : order[i] = g
      /\ \A i, j \in 1 .. n : order[i] = order[j] => i = j
  BY <1>0, Members
<1>2. PICK h \in 1 .. n : order[h] = f
  BY <1>1
<1>3. /\ ss \in Seq(Seq(Nat)) /\ Len(ss) = n
      /\ \A i \in 1 .. n : /\ Len(ss[i]) = Least(p.kind, order[i]) + Extra(p, order[i])
                           /\ Extra(p, order[i]) \in Nat
      /\ FieldsOctets(p) \in Nat
  BY FieldFramesAre
<1>4. /\ tt \in Seq(Seq(Nat)) /\ Len(tt) = n
      /\ \A i \in 1 .. n : /\ Len(tt[i]) = Least(p.kind, order[i]) + Extra(q, order[i])
                           /\ Extra(q, order[i]) \in Nat
  BY FieldFramesAre
<1>5. \A i \in 1 .. n : i # h => Len(tt[i]) = Len(ss[i])
  <2> SUFFICES ASSUME NEW i \in 1 .. n, i # h PROVE Len(tt[i]) = Len(ss[i])
    OBVIOUS
  <2>1. order[i] # f /\ order[i] \in Fields(p.kind) \cup Layout[p.kind].list
    BY <1>1, <1>2
  <2>2. Extra(q, order[i]) = Extra(p, order[i])
    BY <2>1
  <2> HIDE DEF ss, tt, order
  <2> QED BY <1>3, <1>4, <2>2
<1> HIDE DEF ss, tt
<1>6. Len(FlattenSeq(tt)) = Len(FlattenSeq(ss)) + Len(tt[h]) - Len(ss[h])
  <2>1. Len(ss) = Len(tt) /\ h \in 1 .. Len(ss)
    BY <1>2, <1>3, <1>4
  <2>2. \A i \in 1 .. Len(ss) : i # h => Len(tt[i]) = Len(ss[i])
    BY <1>3, <1>5
  <2> HIDE DEF n
  <2> QED BY <1>3, <1>4, <2>1, <2>2, FlattenChange
<1> DEFINE l == Least(p.kind, f)
           x == Extra(p, f)
           y == Extra(q, f)
           u == FieldsOctets(p)
           v == FieldsOctets(q)
<1>7. l \in Nat /\ x \in Nat /\ y \in Nat /\ u \in Nat
      /\ v = u + (l + y) - (l + x)
  <2>1. Len(ss[h]) = l + x /\ x \in Nat /\ Len(tt[h]) = l + y /\ y \in Nat
    BY <1>2, <1>3, <1>4
  <2>2. l \in Nat
    BY DEF Least
  <2> HIDE DEF l, x, y
  <2> QED BY <1>3, <1>6, <2>1, <2>2 DEF FieldsOctets, ss, tt
<1> HIDE DEF l, x, y, u, v
<1>8. v = u + y - x
  BY <1>7
<1> QED BY <1>8 DEF x, y, u, v

(* The members of q take what those of p do. *)
LEMMA FieldsSame ==
  ASSUME NEW p, NEW q, Sound(p), Sound(q), q.kind = p.kind,
         \A g \in Fields(p.kind) \cup Layout[p.kind].list : Extra(q, g) = Extra(p, g)
  PROVE  FieldsOctets(q) = FieldsOctets(p)
<1> DEFINE order == Layout[p.kind].order
           n == Len(order)
           ss == FieldFrames(p)
           tt == FieldFrames(q)
<1>1. /\ ss \in Seq(Seq(Nat)) /\ Len(ss) = n
      /\ \A i \in 1 .. n : /\ order[i] \in Fields(p.kind) \cup Layout[p.kind].list
                           /\ Len(ss[i]) = Least(p.kind, order[i]) + Extra(p, order[i])
  BY FieldFramesAre
<1>2. /\ tt \in Seq(Seq(Nat)) /\ Len(tt) = n
      /\ \A i \in 1 .. n : Len(tt[i]) = Least(p.kind, order[i]) + Extra(q, order[i])
  BY FieldFramesAre
<1>3. \A i \in 1 .. n : Len(tt[i]) = Len(ss[i])
  BY <1>1, <1>2
<1> HIDE DEF ss, tt
<1>4. Len(FlattenSeq(tt)) = Len(FlattenSeq(ss))
  BY <1>1, <1>2, <1>3, FlattenSame
<1> QED BY <1>4 DEF FieldsOctets, ss, tt

(****************************************************************************)
(* command_length: insertions.                                              *)
(****************************************************************************)

(* command_length is what the members take. *)
Right(p) == Sound(p) /\ p.length = 16 + FieldsOctets(p) + TlvOctets(p.tlvs)

(* The length is right if and only if encode fills its buffer. *)
LEMMA RightIs ==
  ASSUME NEW p, Sound(p)
  PROVE  Right(p) <=> p.length = Len(Encode(p))
BY EncodeIs DEF Right

SameMembers(p, q) ==
  q \in Pdus /\ q.kind = p.kind /\ q.val = p.val /\ q.list = p.list

(* The length may change by what the TLVs do. *)
LEMMA TlvsChange ==
  ASSUME NEW p, NEW q, Right(p), SameMembers(p, q),
         q.length = p.length + TlvOctets(q.tlvs) - TlvOctets(p.tlvs)
  PROVE  Right(q)
<1>1. Sound(q)
  BY DEF Sound, Right, SameMembers
<1>2. FieldsOctets(q) = FieldsOctets(p)
  <2>1. FieldFrames(q) = FieldFrames(p)
    <3>1. \A f : EncodedField(q, f) = EncodedField(p, f)
      BY DEF EncodedField, SameMembers
    <3> QED BY <3>1 DEF FieldFrames, SameMembers
  <2> QED BY <2>1 DEF FieldsOctets
<1> DEFINE x == FieldsOctets(p)
           y == TlvOctets(p.tlvs)
           z == TlvOctets(q.tlvs)
<1>3. x \in Nat /\ y \in Nat /\ z \in Nat
  <2>1. p.tlvs \in Seq(TlvSet) /\ q.tlvs \in Seq(TlvSet) /\ Sound(p)
    BY <1>1, SoundIs DEF Right
  <2> QED BY <2>1, FieldFramesAre, TlvFramesAre
<1>4. p.length = 16 + x + y /\ q.length = p.length + z - y
  BY DEF Right
<1>5. q.length = 16 + x + z
  <2> HIDE DEF x, y, z
  <2> QED BY <1>3, <1>4
<1> QED BY <1>1, <1>2, <1>5 DEF Right

(* n is the length of p with other TLVs. *)
Balanced(p, tlvs, n) == n \in Int
/\ n = p.length + TlvOctets(tlvs) - TlvOctets(p.tlvs)

WithTlvList(p, tlvs, n) == [p EXCEPT !.tlvs = tlvs, !.length = n]

(* Only the TLVs and the length may have changed. *)
OnlyTlvs(p, q) == Right(q) /\ SameMembers(p, q) /\ q.isDefault = p.isDefault

(* A call that throws leaves the object as it is. *)
LEMMA NothingChanged ==
  ASSUME NEW p, Right(p)
  PROVE  OnlyTlvs(p, p)
BY DEF OnlyTlvs, Right, Sound, SameMembers

(* Other TLVs with the length that belongs to them. *)
LEMMA TlvsOf ==
  ASSUME NEW p, Right(p), NEW tlvs \in Seq(TlvSet), NEW n, Balanced(p, tlvs, n)
  PROVE  OnlyTlvs(p, WithTlvList(p, tlvs, n))
         /\ WithTlvList(p, tlvs, n).tlvs = tlvs
<1> DEFINE q == [p EXCEPT !.tlvs = tlvs, !.length = n]
<1>1. p \in Pdus
  BY DEF Right, Sound
<1>0. n \in Int /\ n = p.length + TlvOctets(tlvs) - TlvOctets(p.tlvs)
  BY DEF Balanced
<1>2. q \in Pdus /\ q.tlvs = tlvs /\ q.length = n /\ q.kind = p.kind
      /\ q.val = p.val
      /\ q.list = p.list /\ q.isDefault = p.isDefault
  BY <1>0, <1>1 DEF Pdus
<1> HIDE DEF q
<1>3. SameMembers(p, q)
  BY <1>2 DEF SameMembers
<1>4. Right(q)
  BY <1>0, <1>2, <1>3, TlvsChange
<1> QED BY <1>2, <1>3, <1>4 DEF q, OnlyTlvs, WithTlvList

(* insert_tlv adds what the TLV takes. *)
LEMMA InsertTlvRight ==
  ASSUME NEW p, Right(p), NEW t \in TlvSet
  PROVE  OnlyTlvs(p, InsertTlv(p, t))
         /\ InsertTlv(p, t).tlvs = Append(p.tlvs, t)
<1> DEFINE tlvs == Append(p.tlvs, t)
           n == p.length + Octets(t)
<1>1. p \in Pdus /\ p.tlvs \in Seq(TlvSet) /\ p.length \in Int
  BY SoundIs DEF Right, Sound
<1>2. Octets(t) \in Nat /\ TlvOctets(p.tlvs) \in Nat
  BY <1>1, TlvIs, TlvFramesAre
<1>3. TlvOctets(tlvs) = TlvOctets(p.tlvs) + Octets(t)
  BY <1>1, TlvOctetsAppend
<1>4. Balanced(p, tlvs, n)
  <2> DEFINE x == Octets(t)
             y == TlvOctets(p.tlvs)
             z == TlvOctets(tlvs)
             l == p.length
  <2>1. x \in Nat /\ y \in Nat /\ l \in Int /\ z = y + x
    BY <1>1, <1>2, <1>3
  <2> HIDE DEF x, y, z, l
  <2>2. l + x \in Int /\ l + x = l + z - y
    BY <2>1
  <2> QED BY <2>2 DEF x, y, z, l, Balanced
<1>5. tlvs \in Seq(TlvSet)
  BY <1>1, AppendProperties
<1>6. InsertTlv(p, t) = WithTlvList(p, tlvs, n)
  BY DEF InsertTlv, WithTlvList
<1> HIDE DEF tlvs, n
<1>7. OnlyTlvs(p, WithTlvList(p, tlvs, n))
      /\ WithTlvList(p, tlvs, n).tlvs = tlvs
  BY <1>4, <1>5, TlvsOf
<1> QED BY <1>6, <1>7 DEF tlvs

(* A TLV more in the middle takes its octets more. *)
LEMMA InsertAtOctets ==
  ASSUME NEW s \in Seq(TlvSet), NEW i \in 1 .. Len(s) + 1, NEW t \in TlvSet
  PROVE  /\ InsertAt(s, i, t) \in Seq(TlvSet)
         /\ TlvOctets(InsertAt(s, i, t)) = TlvOctets(s) + Octets(t)
<1> DEFINE u == SubSeq(s, 1, i - 1)
           v == SubSeq(s, i, Len(s))
           w == <<t>>
<1>1. Len(s) \in Nat /\ \A j \in 1 .. Len(s) : s[j] \in TlvSet
  BY LenProperties
<1>2. w \in Seq(TlvSet)
  OBVIOUS
<1>3. u \in Seq(TlvSet)
  <2>1. 1 \in Int /\ i - 1 \in Int /\ \A j \in 1 .. i - 1 : s[j] \in TlvSet
    BY <1>1
  <2> QED BY <2>1, SubSeqProperties
<1>4. v \in Seq(TlvSet)
  <2>1. i \in Int /\ Len(s) \in Int /\ \A j \in i .. Len(s) : s[j] \in TlvSet
    BY <1>1
  <2> QED BY <2>1, SubSeqProperties
<1>5. s = u \o v
  <2>1. CASE i = 1
    <3>1. u = <<>>
      BY <2>1, SubSeqEmpty
    <3>2. v = s
      BY <2>1, SubSeqFull
    <3> QED BY <3>1, <3>2, ConcatEmptySeq
  <2>2. CASE i = Len(s) + 1
    <3>1. v = <<>>
      BY <1>1, <2>2, SubSeqEmpty
    <3>2. u = s
      <4>1. i - 1 = Len(s)
        BY <1>1, <2>2
      <4> QED BY <4>1, SubSeqFull
    <3> QED BY <3>1, <3>2, ConcatEmptySeq
  <2>3. CASE i # 1 /\ i # Len(s) + 1
    <3> HIDE DEF u, v
    <3>1. /\ Len(u) = i - 1 /\ \A j \in 1 .. i - 1 : u[j] = s[j]
      <4>1. 1 \in Int /\ i - 1 \in Int /\ \A j \in 1 .. i - 1 : s[j] \in TlvSet
        BY <1>1
      <4>2. 1 <= i - 1 /\ (i - 1) - 1 + 1 = i - 1
            /\ \A j \in 1 .. i - 1 : 1 + j - 1 = j
        BY <1>1, <2>3
      <4>3. /\ Len(u) = IF 1 <= i - 1 THEN (i - 1) - 1 + 1 ELSE 0
            /\ \A j \in 1 .. (i - 1) - 1 + 1 : u[j] = s[1 + j - 1]
        BY <4>1, SubSeqProperties DEF u
      <4> QED BY <4>2, <4>3
    <3>2. /\ Len(v) = Len(s) - i + 1
          /\ \A j \in 1 .. Len(s) - i + 1 : v[j] = s[i + j - 1]
      <4>1. i \in Int /\ Len(s) \in Int /\ i <= Len(s)
            /\ \A j \in i .. Len(s) : s[j] \in TlvSet
        BY <1>1, <2>3
      <4> QED BY <4>1, SubSeqProperties DEF v
    <3>3. /\ u \o v \in Seq(TlvSet) /\ Len(u \o v) = Len(u) + Len(v)
          /\ \A j \in 1 .. Len(u) + Len(v) :
               (u \o v)[j] = IF j <= Len(u) THEN u[j] ELSE v[j - Len(u)]
      BY <1>3, <1>4, ConcatProperties
    <3>4. Len(u \o v) = Len(s)
      BY <1>1, <3>1, <3>2, <3>3, SMTT(30)
    <3>5. ASSUME NEW j \in 1 .. Len(s) PROVE (u \o v)[j] = s[j]
      <4>1. j \in 1 .. Len(u) + Len(v)
        BY <1>1, <3>1, <3>2
      <4>2. CASE j <= i - 1
        <5>1. j \in 1 .. i - 1 /\ j <= Len(u)
          BY <1>1, <3>1, <4>2
        <5> QED BY <3>1, <3>3, <4>1, <5>1
      <4>3. CASE ~ (j <= i - 1)
        <5>1. j - (i - 1) \in 1 .. Len(s) - i + 1 /\ i + (j - (i - 1)) - 1 = j
          BY <1>1, <4>3
        <5>2. v[j - (i - 1)] = s[j]
          BY <3>2, <5>1
        <5> QED BY <3>1, <3>3, <4>1, <4>3, <5>2
      <4> QED BY <4>2, <4>3
    <3> QED BY <3>3, <3>4, <3>5, SeqEqual
  <2> QED BY <2>1, <2>2, <2>3
<1>6. InsertAt(s, i, t) = u \o w \o v
  BY DEF InsertAt
<1> HIDE DEF u, v, w
<1>7. u \o w \in Seq(TlvSet)
  BY <1>2, <1>3, ConcatProperties
<1>8. (u \o w) \o v \in Seq(TlvSet)
  <2> DEFINE q == u \o w
  <2>1. q \in Seq(TlvSet)
    BY <1>7
  <2> HIDE DEF q
  <2> QED BY <2>1, <1>4, ConcatProperties DEF q
<1>9. /\ TlvOctets((u \o w) \o v) = TlvOctets(u \o w) + TlvOctets(v)
      /\ TlvOctets(u \o w) = TlvOctets(u) + TlvOctets(w)
      /\ TlvOctets(u \o v) = TlvOctets(u) + TlvOctets(v)
      /\ TlvOctets(w) = Octets(t)
  <2> DEFINE q == u \o w
  <2>1. q \in Seq(TlvSet)
    BY <1>7
  <2> HIDE DEF q
  <2>2. TlvOctets(q \o v) = TlvOctets(q) + TlvOctets(v)
    BY <2>1, <1>4, TlvOctetsConcat
  <2> QED BY <2>2, <1>2, <1>3, <1>4, TlvOctetsConcat, TlvOctetsShort DEF q, w
<1>10. TlvOctets(u) \in Nat /\ TlvOctets(v) \in Nat /\ Octets(t) \in Nat
  BY <1>3, <1>4, TlvFramesAre, TlvIs
<1> DEFINE x == TlvOctets(u)
           y == TlvOctets(v)
           z == Octets(t)
<1>11. TlvOctets((u \o w) \o v) = (x + z) + y /\ TlvOctets(s) = x + y
  BY <1>5, <1>9
<1>12. x \in Nat /\ y \in Nat /\ z \in Nat
  BY <1>10
<1>13. (x + z) + y = (x + y) + z
  <2> HIDE DEF x, y, z
  <2> QED BY <1>12
<1> QED BY <1>6, <1>8, <1>11, <1>13

(* insert_after_tlv and insert_before_tlv: the TLV is there, or nothing is
   done. *)
Inserted(p, i, t) ==
  [p EXCEPT !.tlvs = InsertAt(@, i, t), !.length = @ + Octets(t)]

(* A TLV inserted anywhere leaves the length right. *)
LEMMA InsertRight ==
  ASSUME NEW p, Right(p), NEW i, i \in 1 .. Len(p.tlvs) + 1, NEW t \in TlvSet
  PROVE  OnlyTlvs(p, Inserted(p, i, t))
<1> DEFINE tlvs == InsertAt(p.tlvs, i, t)
           n == p.length + Octets(t)
<1>1. p \in Pdus /\ p.tlvs \in Seq(TlvSet) /\ p.length \in Int
  BY SoundIs DEF Right, Sound
<1>2. Octets(t) \in Nat /\ TlvOctets(p.tlvs) \in Nat
  BY <1>1, TlvIs, TlvFramesAre
<1>3. tlvs \in Seq(TlvSet) /\ TlvOctets(tlvs) = TlvOctets(p.tlvs) + Octets(t)
  BY <1>1, InsertAtOctets
<1>4. Balanced(p, tlvs, n)
  <2> DEFINE x == Octets(t)
             y == TlvOctets(p.tlvs)
             z == TlvOctets(tlvs)
             l == p.length
  <2>1. x \in Nat /\ y \in Nat /\ l \in Int /\ z = y + x
    BY <1>1, <1>2, <1>3
  <2> HIDE DEF x, y, z, l
  <2>2. l + x \in Int /\ l + x = l + z - y
    BY <2>1
  <2> QED BY <2>2 DEF x, y, z, l, Balanced
<1>6. Inserted(p, i, t) = WithTlvList(p, tlvs, n)
  BY DEF Inserted, WithTlvList
<1> HIDE DEF tlvs, n
<1> QED BY <1>3, <1>4, <1>6, TlvsOf

FirstOf(s, tag) == SelectInSeq(s, LAMBDA t : t.tag = tag)
LastOf(s, tag)  == SelectLastInSeq(s, LAMBDA t : t.tag = tag)

(* The first and the last TLV of a tag are in the list, or 0. *)
LEMMA SelectedIs ==
  ASSUME NEW s, Len(s) \in Nat, NEW tag
  PROVE  FirstOf(s, tag) \in 0 .. Len(s) /\ LastOf(s, tag) \in 0 .. Len(s)
<1> DEFINE I == {i \in 1 .. Len(s) : s[i].tag = tag}
<1>1. I # {} => Min(I) \in I
  <2> SUFFICES ASSUME I # {} PROVE \E x \in I : \A y \in I : x <= y
    BY DEF Min
  <2>1. I \in SUBSET Nat
    OBVIOUS
  <2> HIDE DEF I
  <2> QED BY <2>1, LeastElement
<1>2. I # {} => Max(I) \in I
  <2> SUFFICES ASSUME I # {} PROVE \E x \in I : \A y \in I : x >= y
    BY DEF Max
  <2> DEFINE J == {Len(s) - i : i \in I}
  <2>1. J \in SUBSET Nat /\ J # {}
    OBVIOUS
  <2>2. PICK m \in J : \A n \in J : m <= n
    <3> HIDE DEF J
    <3> QED BY <2>1, LeastElement
  <2>3. PICK x \in I : m = Len(s) - x
    OBVIOUS
  <2>4. \A y \in I : Len(s) - x <= Len(s) - y
    BY <2>2, <2>3
  <2>5. \A y \in I : y \in Int /\ x \in Int
    OBVIOUS
  <2> HIDE DEF I, J
  <2> QED BY <2>4, <2>5
<1>3. FirstOf(s, tag) = IF I # {} THEN Min(I) ELSE 0
  BY DEF SelectInSeq, FirstOf
<1>4. LastOf(s, tag) = IF I # {} THEN Max(I) ELSE 0
  BY DEF SelectLastInSeq, LastOf
<1> QED BY <1>1, <1>2, <1>3, <1>4

(* insert_after_tlv and insert_before_tlv leave the length right, also when the
   tag they look for is missing. *)
LEMMA InsertNextTo ==
  ASSUME NEW p, Right(p), NEW t \in TlvSet, NEW tag
  PROVE  /\ OnlyTlvs(p, InsertAfterTlv(p, t, tag))
         /\ OnlyTlvs(p, InsertBeforeTlv(p, t, tag))
<1> DEFINE i == FirstOf(p.tlvs, tag)
           j == LastOf(p.tlvs, tag)
<1>1. Len(p.tlvs) \in Nat
  BY SoundIs, LenProperties DEF Right
<1>2. i \in 0 .. Len(p.tlvs) /\ j \in 0 .. Len(p.tlvs)
  BY <1>1, SelectedIs
<1>3. InsertAfterTlv(p, t, tag) =
        IF j = 0 THEN p
        ELSE Inserted(p, j + 1, t)
  BY DEF InsertAfterTlv, LastOf, Inserted
<1>4. InsertBeforeTlv(p, t, tag) =
        IF i = 0 THEN p
        ELSE Inserted(p, i, t)
  BY DEF InsertBeforeTlv, FirstOf, Inserted
<1> HIDE DEF i, j
<1>5. j # 0 => j + 1 \in 1 .. Len(p.tlvs) + 1
  BY <1>1, <1>2
<1>6. i # 0 => i \in 1 .. Len(p.tlvs) + 1
  BY <1>1, <1>2
<1>7. OnlyTlvs(p, InsertAfterTlv(p, t, tag))
  BY <1>3, <1>5, NothingChanged, InsertRight
<1>8. OnlyTlvs(p, InsertBeforeTlv(p, t, tag))
  BY <1>4, <1>6, NothingChanged, InsertRight
<1> QED BY <1>7, <1>8

(****************************************************************************)
(* command_length: removals.                                                *)
(****************************************************************************)

(* The largest number of a set is in it. *)
LEMMA Maximum ==
  ASSUME NEW n \in Nat
  PROVE  /\ \A S \in (SUBSET (1 .. n)) \ {{}} : Max(S) \in S
         /\ \A i \in 1 .. n : Max(1 .. i) = i /\ (1 .. i) \ {i} = 1 .. i - 1
<1>1. ASSUME NEW S \in (SUBSET (1 .. n)) \ {{}}
      PROVE  Max(S) \in S
  <2> SUFFICES \E x \in S : \A y \in S : x >= y
    BY DEF Max
  <2> DEFINE J == {n - i : i \in S}
  <2>1. J \in SUBSET Nat /\ J # {}
    OBVIOUS
  <2>2. PICK m \in J : \A k \in J : m <= k
    <3> HIDE DEF J
    <3> QED BY <2>1, LeastElement
  <2>3. PICK x \in S : m = n - x
    OBVIOUS
  <2>4. \A y \in S : n - x <= n - y
    BY <2>2, <2>3
  <2>5. \A y \in S : y \in Int /\ x \in Int
    OBVIOUS
  <2> HIDE DEF J
  <2> QED BY <2>4, <2>5
<1>2. ASSUME NEW i \in 1 .. n
      PROVE  Max(1 .. i) = i
  <2> DEFINE S == 1 .. i
  <2>1. \A x \in S : (\A y \in S : x >= y) => x = i
    OBVIOUS
  <2>2. i \in S /\ \A y \in S : i >= y
    OBVIOUS
  <2> HIDE DEF S
  <2>3. Max(S) = i
    BY <2>1, <2>2 DEF Max
  <2> QED BY <2>3 DEF S
<1>3. \A i \in 1 .. n : (1 .. i) \ {i} = 1 .. i - 1
  OBVIOUS
<1> QED BY <1>1, <1>2, <1>3

(* A loop over a sequence, as FoldLeft does it. *)
IteratesMax(n, base, step, f) ==
  /\ f[{}] = base
  /\ \A S \in SUBSET (1 .. n) :
       S # {} => Max(S) \in S /\ f[S] = step[Max(S)][f[S \ {Max(S)}]]

(* The loop ends with a value for any sequence. *)
LEMMA MaxRecursion ==
  ASSUME NEW n \in Nat, NEW V, NEW base \in V, NEW step \in [1 .. n -> [V -> V]]
  PROVE  \E f \in [SUBSET (1 .. n) -> V] : IteratesMax(n, base, step, f)
<1> DEFINE U == 1 .. n
           pick == [S \in (SUBSET U) \ {{}} |-> Max(S)]
<1>1. \A S \in (SUBSET U) \ {{}} : Max(S) \in S
  BY Maximum
<1>2. IsFiniteSet(U)
  BY FS_Interval
<1> HIDE DEF U
<1>3. pick \in [(SUBSET U) \ {{}} -> U]
      /\ \A S \in (SUBSET U) \ {{}} : pick[S] \in S
  BY <1>1
<1>4. \A S \in (SUBSET U) \ {{}} : pick[S] = Max(S)
  OBVIOUS
<1> HIDE DEF pick
<1>5. \E f \in [SUBSET U -> V] : IteratesSets(U, base, pick, step, f)
  BY <1>2, <1>3, SetRecursion DEF U
<1>6. PICK f \in [SUBSET U -> V] : IteratesSets(U, base, pick, step, f)
  BY <1>5
<1>7. IteratesMax(n, base, step, f)
  <2>1. f[{}] = base
    BY <1>6 DEF IteratesSets
  <2>2. ASSUME NEW S \in SUBSET U, S # {}
        PROVE  Max(S) \in S /\ f[S] = step[Max(S)][f[S \ {Max(S)}]]
    <3>1. f[S] = step[pick[S]][f[S \ {pick[S]}]]
      BY <1>6, <2>2 DEF IteratesSets
    <3>2. pick[S] = Max(S) /\ Max(S) \in S
      BY <1>1, <1>4, <2>2
    <3> QED BY <3>1, <3>2
  <2> QED BY <2>1, <2>2 DEF IteratesMax, U
<1> QED BY <1>6, <1>7 DEF U

(* The constructor inserts one TLV after the other. *)
LEMMA InsertAllSteps ==
  ASSUME NEW p \in Pdus, NEW tlvs \in Seq(TlvSet)
  PROVE  \E g : /\ g[0] = p /\ g[Len(tlvs)] = InsertAll(p, tlvs)
                /\ \A i \in 1 .. Len(tlvs) : g[i] = InsertTlv(g[i - 1], tlvs[i])
<1> DEFINE n == Len(tlvs)
           U == 1 .. n
           Body(f, S) == IF S = {} THEN p ELSE InsertTlv(f[S \ {Max(S)}], tlvs[Max(S)])
           iter == CHOOSE f : f = [S \in SUBSET U |-> Body(f, S)]
           step == [i \in U |-> [q \in Pdus |-> InsertTlv(q, tlvs[i])]]
<1>1. n \in Nat /\ DOMAIN tlvs = U /\ \A i \in U : tlvs[i] \in TlvSet
  BY LenProperties
<1>2. InsertAll(p, tlvs) = iter[U]
  <2>1. InsertAll(p, tlvs) = (CHOOSE f : f = [S \in SUBSET (DOMAIN tlvs) |-> Body(f, S)])[DOMAIN tlvs]
    BY DEF InsertAll, FoldLeft, MapThenFoldSet
  <2> QED BY <1>1, <2>1
<1>3. \A q \in Pdus : \A t \in TlvSet : InsertTlv(q, t) \in Pdus
  <2> SUFFICES ASSUME NEW q \in Pdus, NEW t \in TlvSet PROVE InsertTlv(q, t) \in Pdus
    OBVIOUS
  <2>1. q.length + Octets(t) \in Int
    <3>1. q.length \in Int /\ Octets(t) \in Nat
      BY TlvIs DEF Pdus
    <3> QED BY <3>1
  <2>2. Append(q.tlvs, t) \in Seq(TlvSet)
    BY DEF Pdus
  <2> QED BY <2>1, <2>2 DEF InsertTlv, Pdus
<1> HIDE DEF n, U
<1>4. step \in [U -> [Pdus -> Pdus]]
  BY <1>1, <1>3
<1>5. PICK f \in [SUBSET U -> Pdus] : IteratesMax(n, p, step, f)
  <2> HIDE DEF step
  <2> QED BY <1>1, <1>4, MaxRecursion DEF U
<1>6. \A S \in SUBSET U : f[S] = Body(f, S)
  <2> SUFFICES ASSUME NEW S \in SUBSET U, S # {}
               PROVE  f[S] = InsertTlv(f[S \ {Max(S)}], tlvs[Max(S)])
    BY <1>5 DEF IteratesMax
  <2>1. Max(S) \in S /\ f[S] = step[Max(S)][f[S \ {Max(S)}]]
    BY <1>5 DEF IteratesMax, U
  <2>2. Max(S) \in U /\ f[S \ {Max(S)}] \in Pdus
    BY <2>1
  <2> QED BY <2>1, <2>2
<1>7. iter = [S \in SUBSET U |-> Body(iter, S)]
  <2>1. f = [S \in SUBSET U |-> Body(f, S)]
    BY <1>6
  <2> HIDE DEF Body
  <2>2. \E h : h = [S \in SUBSET U |-> Body(h, S)]
    BY <2>1
  <2> QED BY <2>2
<1> HIDE DEF iter
<1> DEFINE g == [i \in 0 .. n |-> iter[1 .. i]]
<1>8. g[0] = p
  <2>1. 0 \in 0 .. n /\ 1 .. 0 = {}
    BY <1>1
  <2> QED BY <1>7, <2>1
<1>9. g[n] = InsertAll(p, tlvs)
  BY <1>1, <1>2 DEF U
<1>10. ASSUME NEW i \in 1 .. n
       PROVE  g[i] = InsertTlv(g[i - 1], tlvs[i])
  <2>1. i \in 0 .. n /\ i - 1 \in 0 .. n /\ 1 .. i \in SUBSET U /\ 1 .. i # {}
    <3>1. i \in 1 .. i /\ i \in 0 .. n /\ i - 1 \in 0 .. n
      BY <1>1
    <3>2. \A j \in 1 .. i : j \in 1 .. n
      BY <1>1
    <3> QED BY <3>1, <3>2 DEF U
  <2>2. Max(1 .. i) = i /\ (1 .. i) \ {i} = 1 .. i - 1
    BY <1>1, Maximum
  <2>3. iter[1 .. i] = Body(iter, 1 .. i)
    <3> DEFINE S == 1 .. i
    <3>1. S \in SUBSET U
      BY <2>1
    <3> HIDE DEF S, Body
    <3>2. iter[S] = Body(iter, S)
      BY <1>7, <3>1
    <3> QED BY <3>2 DEF S
  <2>4. iter[1 .. i] = InsertTlv(iter[1 .. i - 1], tlvs[i])
    BY <2>1, <2>2, <2>3
  <2> QED BY <2>1, <2>4
<1> HIDE DEF g
<1> QED BY <1>8, <1>9, <1>10 DEF n

(* The mandatory TLVs of a constructor leave the length right. *)
LEMMA InsertAllRight ==
  ASSUME NEW p, Right(p), NEW tlvs \in Seq(TlvSet)
  PROVE  /\ OnlyTlvs(p, InsertAll(p, tlvs))
         /\ p.tlvs = <<>> => InsertAll(p, tlvs).tlvs = tlvs
<1> DEFINE n == Len(tlvs)
<1>1. n \in Nat /\ \A i \in 1 .. n : tlvs[i] \in TlvSet
  BY LenProperties
<1>2. PICK g : /\ g[0] = p /\ g[n] = InsertAll(p, tlvs)
               /\ \A i \in 1 .. n : g[i] = InsertTlv(g[i - 1], tlvs[i])
  <2>1. p \in Pdus
    BY DEF Right, Sound
  <2> QED BY <2>1, InsertAllSteps
<1> DEFINE First(i) == p.tlvs = <<>> => g[i].tlvs = SubSeq(tlvs, 1, i)
           S == {i \in 0 .. n : OnlyTlvs(p, g[i]) /\ First(i)}
<1>3. 0 \in S
  <2>1. SubSeq(tlvs, 1, 0) = <<>>
    BY SubSeqEmpty
  <2>2. First(0)
    BY <1>2, <2>1
  <2>3. OnlyTlvs(p, g[0]) /\ 0 \in 0 .. n
    BY <1>1, <1>2, NothingChanged
  <2> HIDE DEF First
  <2> QED BY <2>2, <2>3
<1>4. ASSUME NEW i \in 1 .. n, i - 1 \in S PROVE i \in S
  <2>1. i \in 0 .. n /\ tlvs[i] \in TlvSet
    BY <1>1
  <2>2. OnlyTlvs(p, g[i - 1])
    BY <1>4
  <2>3. OnlyTlvs(g[i - 1], g[i]) /\ g[i].tlvs = Append(g[i - 1].tlvs, tlvs[i])
    <3>1. g[i] = InsertTlv(g[i - 1], tlvs[i])
      BY <1>2
    <3>2. Right(g[i - 1])
      BY <2>2 DEF OnlyTlvs
    <3> QED BY <2>1, <3>1, <3>2, InsertTlvRight
  <2>4. OnlyTlvs(p, g[i])
    BY <2>2, <2>3 DEF OnlyTlvs, SameMembers
  <2>5. First(i)
    <3> DEFINE l == SubSeq(tlvs, 1, i - 1)
    <3>1. 1 \in 1 .. n /\ i \in 1 .. n
      BY <1>1
    <3>2. SubSeq(tlvs, 1, i) = l \o <<tlvs[i]>>
      BY <3>1, SubSeqRecursiveSecond
    <3>3. l \in Seq(TlvSet)
      <4>1. 1 \in Int /\ i - 1 \in Int
            /\ \A h \in 1 .. i - 1 : tlvs[h] \in TlvSet
        BY <1>1
      <4> QED BY <4>1, SubSeqProperties
    <3>4. SubSeq(tlvs, 1, i) = Append(l, tlvs[i])
      BY <2>1, <3>2, <3>3, AppendIsConcat
    <3> HIDE DEF l
    <3>5. p.tlvs = <<>> => g[i - 1].tlvs = l
      BY <1>4 DEF l
    <3> QED BY <2>3, <3>4, <3>5
  <2> QED BY <2>1, <2>4, <2>5
<1>5. \A i \in 0 .. n : i \in S
  <2> HIDE DEF S
  <2> QED BY <1>1, <1>3, <1>4, UpTo
<1>6. OnlyTlvs(p, g[n]) /\ First(n)
  BY <1>1, <1>5
<1>7. SubSeq(tlvs, 1, n) = tlvs
  BY SubSeqFull
<1> QED BY <1>2, <1>6, <1>7

(* What remove_tlv does with one TLV of the list. *)
Visit(tag, q, t) ==
  IF t.tag = tag THEN [q EXCEPT !.length = @ - Octets(t)]
  ELSE [q EXCEPT !.tlvs = Append(@, t)]

(* One round of remove_tlv. *)
LEMMA VisitIs ==
  ASSUME NEW tag, NEW q \in Pdus, NEW t \in TlvSet
  PROVE  /\ Visit(tag, q, t) \in Pdus
         /\ SameMembers(q, Visit(tag, q, t))
            /\ Visit(tag, q, t).isDefault = q.isDefault
         /\ Visit(tag, q, t).length =
              IF t.tag = tag THEN q.length - Octets(t) ELSE q.length
         /\ Visit(tag, q, t).tlvs = IF t.tag = tag THEN q.tlvs ELSE Append(q.tlvs, t)
<1>1. q.length - Octets(t) \in Int
  <2>1. q.length \in Int /\ Octets(t) \in Nat
    BY TlvIs DEF Pdus
  <2> QED BY <2>1
<1>2. Append(q.tlvs, t) \in Seq(TlvSet)
  BY DEF Pdus
<1>3. CASE t.tag = tag
  BY <1>1, <1>3 DEF Visit, Pdus, SameMembers
<1>4. CASE t.tag # tag
  BY <1>2, <1>4 DEF Visit, Pdus, SameMembers
<1> QED BY <1>3, <1>4

(* remove_tlv visits one TLV after the other. *)
LEMMA RemoveSteps ==
  ASSUME NEW p \in Pdus, NEW tag
  PROVE  \E g : /\ g[0] = [p EXCEPT !.tlvs = <<>>] /\ g[Len(p.tlvs)] = RemoveTlv(p, tag)
                /\ \A i \in 1 .. Len(p.tlvs) :
                     g[i - 1] \in Pdus
                     /\ g[i] = Visit(tag, g[i - 1], p.tlvs[i])
<1> DEFINE tlvs == p.tlvs
           n == Len(tlvs)
           U == 1 .. n
           base == [p EXCEPT !.tlvs = <<>>]
           Body(f, S) == IF S = {} THEN base ELSE Visit(tag, f[S \ {Max(S)}], tlvs[Max(S)])
           iter == CHOOSE f : f = [S \in SUBSET U |-> Body(f, S)]
           step == [i \in U |-> [q \in Pdus |-> Visit(tag, q, tlvs[i])]]
<1>0. tlvs \in Seq(TlvSet) /\ base \in Pdus
  <2>1. <<>> \in Seq(TlvSet)
    OBVIOUS
  <2>2. \A l \in Seq(TlvSet) : [p EXCEPT !.tlvs = l] \in Pdus
    BY DEF Pdus
  <2>3. p.tlvs \in Seq(TlvSet)
    BY DEF Pdus
  <2> QED BY <2>1, <2>2, <2>3
<1>1. n \in Nat /\ DOMAIN tlvs = U /\ \A i \in U : tlvs[i] \in TlvSet
  BY <1>0, LenProperties
<1>2. RemoveTlv(p, tag) = iter[U]
  <2>1. RemoveTlv(p, tag)
          = (CHOOSE f : f = [S \in SUBSET (DOMAIN tlvs) |-> Body(f, S)])[DOMAIN tlvs]
    BY DEF RemoveTlv, FoldLeft, MapThenFoldSet, Visit
  <2> QED BY <1>1, <2>1
<1>3. \A q \in Pdus : \A t \in TlvSet : Visit(tag, q, t) \in Pdus
  BY VisitIs
<1> HIDE DEF n, U, tlvs, base
<1>4. step \in [U -> [Pdus -> Pdus]]
  BY <1>1, <1>3
<1>5. PICK f \in [SUBSET U -> Pdus] : IteratesMax(n, base, step, f)
  <2> HIDE DEF step
  <2> QED BY <1>0, <1>1, <1>4, MaxRecursion DEF U
<1>6. \A S \in SUBSET U : f[S] = Body(f, S)
  <2> SUFFICES ASSUME NEW S \in SUBSET U, S # {}
               PROVE  f[S] = Visit(tag, f[S \ {Max(S)}], tlvs[Max(S)])
    BY <1>5 DEF IteratesMax
  <2>1. Max(S) \in S /\ f[S] = step[Max(S)][f[S \ {Max(S)}]]
    BY <1>5 DEF IteratesMax, U
  <2>2. Max(S) \in U /\ f[S \ {Max(S)}] \in Pdus
    BY <2>1
  <2> QED BY <2>1, <2>2
<1>7. iter = [S \in SUBSET U |-> Body(iter, S)]
  <2>1. f = [S \in SUBSET U |-> Body(f, S)]
    BY <1>6
  <2> HIDE DEF Body
  <2>2. \E h : h = [S \in SUBSET U |-> Body(h, S)]
    BY <2>1
  <2> QED BY <2>2
<1> HIDE DEF iter
<1> DEFINE g == [i \in 0 .. n |-> iter[1 .. i]]
<1>8. g[0] = base
  <2>1. 0 \in 0 .. n /\ 1 .. 0 = {}
    BY <1>1
  <2> QED BY <1>7, <2>1
<1>9. g[n] = RemoveTlv(p, tag)
  BY <1>1, <1>2 DEF U
<1>10. ASSUME NEW i \in 1 .. n
       PROVE  g[i] = Visit(tag, g[i - 1], tlvs[i])
  <2>1. i \in 0 .. n /\ i - 1 \in 0 .. n /\ 1 .. i \in SUBSET U /\ 1 .. i # {}
    <3>1. i \in 1 .. i /\ i \in 0 .. n /\ i - 1 \in 0 .. n
      BY <1>1
    <3>2. \A j \in 1 .. i : j \in 1 .. n
      BY <1>1
    <3> QED BY <3>1, <3>2 DEF U
  <2>2. Max(1 .. i) = i /\ (1 .. i) \ {i} = 1 .. i - 1
    BY <1>1, Maximum
  <2>3. iter[1 .. i] = Body(iter, 1 .. i)
    <3> DEFINE S == 1 .. i
    <3>1. S \in SUBSET U
      BY <2>1
    <3> HIDE DEF S, Body
    <3>2. iter[S] = Body(iter, S)
      BY <1>7, <3>1
    <3> QED BY <3>2 DEF S
  <2>4. iter[1 .. i] = Visit(tag, iter[1 .. i - 1], tlvs[i])
    BY <2>1, <2>2, <2>3
  <2> QED BY <2>1, <2>4
<1> HIDE DEF g
<1>11. \A i \in 0 .. n : i \in {m \in 0 .. n : g[m] \in Pdus}
  <2> DEFINE S == {m \in 0 .. n : g[m] \in Pdus}
  <2>1. 0 \in S
    BY <1>0, <1>1, <1>8
  <2>2. ASSUME NEW i \in 1 .. n, i - 1 \in S PROVE i \in S
    <3>1. g[i - 1] \in Pdus /\ tlvs[i] \in TlvSet /\ i \in 0 .. n
      BY <1>1, <2>2 DEF U
    <3> QED BY <1>3, <1>10, <3>1
  <2> HIDE DEF S
  <2>3. \A i \in 0 .. n : i \in S
    BY <1>1, <2>1, <2>2, UpTo
  <2> QED BY <2>3 DEF S
<1>12. \A i \in 1 .. n : g[i - 1] \in Pdus
  <2>1. \A i \in 1 .. n : i - 1 \in 0 .. n
    BY <1>1
  <2> QED BY <1>11, <2>1
<1> QED BY <1>8, <1>9, <1>10, <1>12 DEF n, tlvs, base

(* remove_tlv takes off the length what the removed TLVs took. *)
LEMMA RemoveTlvRight ==
  ASSUME NEW p, Right(p), NEW tag
  PROVE  OnlyTlvs(p, RemoveTlv(p, tag))
<1> DEFINE tlvs == p.tlvs
           n == Len(tlvs)
<1>1. p \in Pdus /\ tlvs \in Seq(TlvSet) /\ p.length \in Int
  BY DEF Right, Sound, Pdus
<1>2. n \in Nat /\ \A i \in 1 .. n : tlvs[i] \in TlvSet
  BY <1>1, LenProperties
<1>3. PICK g : /\ g[0] = [p EXCEPT !.tlvs = <<>>] /\ g[n] = RemoveTlv(p, tag)
               /\ \A i \in 1 .. n :
                    g[i - 1] \in Pdus /\ g[i] = Visit(tag, g[i - 1], tlvs[i])
  BY <1>1, RemoveSteps
<1> DEFINE T(i) == TlvOctets(SubSeq(tlvs, 1, i))
           Kept(i) == /\ SameMembers(p, g[i]) /\ g[i].isDefault = p.isDefault
                      /\ g[i].length = p.length + TlvOctets(g[i].tlvs) - T(i)
           S == {i \in 0 .. n : Kept(i)}
<1>4. 0 \in S
  <2>1. /\ SameMembers(p, g[0]) /\ g[0].isDefault = p.isDefault
        /\ g[0].length = p.length /\ g[0].tlvs = <<>>
    BY <1>1, <1>3 DEF Pdus, SameMembers
  <2>2. SubSeq(tlvs, 1, 0) = <<>> /\ TlvOctets(<<>>) = 0
    <3>1. TlvFrames(<<>>) = <<>> /\ FlattenSeq(<<>>) = <<>>
      BY DEF TlvFrames, FlattenSeq
    <3> QED BY <3>1, SubSeqEmpty DEF TlvOctets
  <2>3. p.length = p.length + 0 - 0
    BY <1>1
  <2>4. T(0) = 0
    BY <2>2
  <2>5. g[0].length = p.length + TlvOctets(g[0].tlvs) - T(0)
    <3> HIDE DEF T
    <3> QED BY <2>1, <2>2, <2>3, <2>4
  <2>6. 0 \in 0 .. n
    BY <1>2
  <2> HIDE DEF T, n
  <2> QED BY <2>1, <2>5, <2>6
<1>5. ASSUME NEW i \in 1 .. n, i - 1 \in S PROVE i \in S
  <2> DEFINE q == g[i - 1]
             r == g[i]
             t == tlvs[i]
  <2>1. i \in 0 .. n /\ t \in TlvSet /\ q \in Pdus /\ r = Visit(tag, q, t)
    BY <1>2, <1>3
  <2>2. Kept(i - 1)
    BY <1>5
  <2>3. /\ r \in Pdus /\ SameMembers(q, r) /\ r.isDefault = q.isDefault
        /\ r.length = IF t.tag = tag THEN q.length - Octets(t) ELSE q.length
        /\ r.tlvs = IF t.tag = tag THEN q.tlvs ELSE Append(q.tlvs, t)
    <3> HIDE DEF q, r, t
    <3> QED BY <2>1, VisitIs
  <2>4. T(i) = T(i - 1) + Octets(t) /\ T(i - 1) \in Nat
    <3> DEFINE l == SubSeq(tlvs, 1, i - 1)
    <3>1. 1 \in 1 .. n /\ i \in 1 .. n
      BY <1>2
    <3>2. SubSeq(tlvs, 1, i) = l \o <<t>>
      BY <1>1, <3>1, SubSeqRecursiveSecond
    <3>3. l \in Seq(TlvSet)
      <4>1. 1 \in Int /\ i - 1 \in Int
            /\ \A h \in 1 .. i - 1 : tlvs[h] \in TlvSet
        BY <1>2
      <4> HIDE DEF tlvs
      <4> QED BY <4>1, SubSeqProperties
    <3>4. SubSeq(tlvs, 1, i) = Append(l, t)
      BY <2>1, <3>2, <3>3, AppendIsConcat
    <3> HIDE DEF l, t
    <3> QED BY <2>1, <3>3, <3>4, TlvOctetsAppend, TlvFramesAre DEF l
  <2>5. TlvOctets(q.tlvs) \in Nat
        /\ TlvOctets(Append(q.tlvs, t)) = TlvOctets(q.tlvs) + Octets(t)
        /\ q.length \in Int /\ Octets(t) \in Nat
    <3>1. q.tlvs \in Seq(TlvSet) /\ q.length \in Int
      BY <2>1 DEF Pdus
    <3> HIDE DEF q, t
    <3> QED BY <2>1, <3>1, TlvFramesAre, TlvOctetsAppend, TlvIs
  <2>6. g[i].length = p.length + TlvOctets(g[i].tlvs) - T(i)
    <3> DEFINE l == p.length
               a == q.length
               x == TlvOctets(q.tlvs)
               y == Octets(t)
               z == T(i - 1)
    <3>1. a = l + x - z
      BY <2>2
    <3>2. /\ l \in Int /\ a \in Int /\ x \in Nat /\ y \in Nat /\ z \in Nat
          /\ T(i) = z + y
      BY <1>1, <2>4, <2>5
    <3>3. CASE t.tag = tag
      <4>1. r.length = a - y /\ TlvOctets(r.tlvs) = x
        BY <2>3, <3>3
      <4> HIDE DEF l, a, x, y, z, T, r
      <4>2. r.length = l + x - (z + y)
        BY <3>1, <3>2, <4>1
      <4> QED BY <3>2, <4>1, <4>2 DEF r, l
    <3>4. CASE t.tag # tag
      <4>1. r.length = a /\ TlvOctets(r.tlvs) = x + y
        BY <2>3, <2>5, <3>4
      <4> HIDE DEF l, a, x, y, z, T, r
      <4>2. r.length = l + (x + y) - (z + y)
        BY <3>1, <3>2, <4>1
      <4> QED BY <3>2, <4>1, <4>2 DEF r, l
    <3> QED BY <3>3, <3>4
  <2>7. SameMembers(p, g[i]) /\ g[i].isDefault = p.isDefault
    BY <2>2, <2>3 DEF SameMembers
  <2> QED BY <2>1, <2>6, <2>7
<1>6. \A i \in 0 .. n : i \in S
  <2> HIDE DEF S
  <2> QED BY <1>2, <1>4, <1>5, UpTo
<1>7. Kept(n)
  BY <1>2, <1>6
<1>8. SubSeq(tlvs, 1, n) = tlvs
  BY <1>1, SubSeqFull
<1>9. Right(g[n])
  <2>1. SameMembers(p, g[n])
        /\ g[n].length = p.length + TlvOctets(g[n].tlvs) - TlvOctets(p.tlvs)
    BY <1>7, <1>8
  <2> HIDE DEF n
  <2> QED BY <2>1, TlvsChange
<1> QED BY <1>3, <1>7, <1>9 DEF OnlyTlvs

(****************************************************************************)
(* The setters of mandatory TLVs.                                           *)
(****************************************************************************)

(* The members are the same and the length is right again. *)
Kept(p, q) == Right(q) /\ SameMembers(p, q)

WithFlag(p, flag) == [p EXCEPT !.isDefault = flag]

(* defaultBroadcastAreaIdentifier_ is not in the frame. *)
LEMMA WithFlagRight ==
  ASSUME NEW p, Right(p), NEW flag \in BOOLEAN
  PROVE  /\ Kept(p, WithFlag(p, flag))
         /\ WithFlag(p, flag).tlvs = p.tlvs
            /\ WithFlag(p, flag).length = p.length
         /\ WithFlag(p, flag).isDefault = flag
<1> DEFINE q == WithFlag(p, flag)
<1>1. p \in Pdus
  BY DEF Right, Sound
<1>2. /\ SameMembers(p, q) /\ q.tlvs = p.tlvs /\ q.length = p.length
         /\ q.isDefault = flag
  BY <1>1 DEF WithFlag, Pdus, SameMembers
<1> HIDE DEF q
<1>3. q.length = p.length + TlvOctets(q.tlvs) - TlvOctets(p.tlvs)
  <2>1. p.length \in Int /\ TlvOctets(p.tlvs) \in Nat
    BY SoundIs, TlvFramesAre DEF Right
  <2> DEFINE l == p.length
             x == TlvOctets(p.tlvs)
  <2>2. l \in Int /\ x \in Nat
    BY <2>1
  <2> HIDE DEF l, x
  <2>3. l = l + x - x
    BY <2>2
  <2> QED BY <1>2, <2>3 DEF l, x
<1>4. Right(q)
  BY <1>2, <1>3, TlvsChange
<1> QED BY <1>2, <1>4 DEF q, Kept

(* The TLVs the library inserts fit their fields. *)
LEMMA MandatoryAre ==
  ASSUME NEW k
  PROVE  /\ MandatoryTlvs(k) \in Seq(TlvSet)
         /\ \A i \in 1 .. Len(MandatoryTlvs(k)) : MandatoryTlvs(k)[i] \in TlvSet
         /\ MandatoryTags(k) \subseteq Uint16
         /\ k = "submit_sm" => MandatoryTlvs(k) = <<>> /\ MandatoryTags(k) = {}
         /\ message_payload \in Uint16 /\ dest_addr_subunit \in Uint16
         /\ broadcast_area_identifier \in Uint16
<1>1. /\ 1060 \in Uint16 /\ 5 \in Uint16 /\ 1537 \in Uint16 /\ 1540 \in Uint16
      /\ 1541 \in Uint16 /\ 1542 \in Uint16 /\ 1544 \in Uint16
      /\ 1 \in Uint16 /\ 2 \in Uint16 /\ 3 \in Uint16
  BY DEF Uint16
<1>2. \A t \in Uint16 : \A n \in Uint16 : Tlv(t, n) \in TlvSet
  BY DEF Tlv, TlvSet
<1>3. /\ Tlv(1542, 1) \in TlvSet /\ Tlv(1537, 3) \in TlvSet
         /\ Tlv(1540, 2) \in TlvSet
      /\ Tlv(1541, 3) \in TlvSet /\ Tlv(1544, 1) \in TlvSet
  BY <1>1, <1>2
<1>4. MandatoryTlvs(k) \in Seq(TlvSet)
  <2> HIDE DEF TlvSet, Tlv
  <2>1. \A a, b, c, d \in TlvSet : <<a, b, c, d>> \in Seq(TlvSet)
    OBVIOUS
  <2>2. \A a, b \in TlvSet : <<a, b>> \in Seq(TlvSet)
    OBVIOUS
  <2>3. <<>> \in Seq(TlvSet)
    OBVIOUS
  <2> QED BY <1>3, <2>1, <2>2, <2>3
       DEF MandatoryTlvs, broadcast_content_type, broadcast_rep_num,
           broadcast_frequency_interval, broadcast_area_identifier, broadcast_area_success
<1>5. \A i \in 1 .. Len(MandatoryTlvs(k)) : MandatoryTlvs(k)[i] \in TlvSet
  BY <1>4
<1>6. MandatoryTags(k) \subseteq Uint16
  <2>1. DOMAIN MandatoryTlvs(k) = 1 .. Len(MandatoryTlvs(k))
    BY <1>4
  <2>2. \A t \in TlvSet : t.tag \in Uint16
    BY DEF TlvSet
  <2> QED BY <1>5, <2>1, <2>2 DEF MandatoryTags, Range
<1>7. k = "submit_sm" => MandatoryTlvs(k) = <<>> /\ MandatoryTags(k) = {}
  BY DEF MandatoryTlvs, MandatoryTags, Range
<1> QED BY <1>1, <1>4, <1>5, <1>6, <1>7 DEF message_payload,
           dest_addr_subunit, broadcast_area_identifier

(* The setters of the mandatory TLVs. *)
LEMMA AreaIdentifierRight ==
  ASSUME NEW p, Right(p), NEW n \in Uint16
  PROVE  Kept(p, AreaIdentifier(p, n))
<1> DEFINE r == RemoveTlv(p, broadcast_area_identifier)
           q == IF p.isDefault THEN WithFlag(r, FALSE) ELSE p
           t == Tlv(broadcast_area_identifier, n)
           next == MandatoryTlvs(p.kind)[2].tag
<1>1. t \in TlvSet
  BY MandatoryAre DEF Tlv, TlvSet
<1>2. Kept(p, p)
  BY NothingChanged DEF OnlyTlvs, Kept
<1>3. Kept(p, r)
  BY RemoveTlvRight DEF OnlyTlvs, Kept
<1> HIDE DEF r
<1>4. Kept(r, WithFlag(r, FALSE))
  BY <1>3, WithFlagRight DEF Kept
<1>5. Kept(p, q)
  BY <1>2, <1>3, <1>4 DEF Kept, SameMembers
<1>6. AreaIdentifier(p, n) = InsertBeforeTlv(q, t, next)
  BY DEF AreaIdentifier, WithFlag, r
<1> HIDE DEF q, t, next
<1>7. Kept(q, InsertBeforeTlv(q, t, next))
  <2>1. Right(q)
    BY <1>5 DEF Kept
  <2>2. OnlyTlvs(q, InsertBeforeTlv(q, t, next))
    BY <1>1, <2>1, InsertNextTo
  <2> QED BY <2>2 DEF OnlyTlvs, Kept
<1> QED BY <1>5, <1>6, <1>7 DEF Kept, SameMembers

(* The setter of another mandatory TLV leaves the length right. *)
LEMMA SetMandatoryRight ==
  ASSUME NEW p, Right(p), NEW i \in 1 .. Len(MandatoryTlvs(p.kind))
  PROVE  Kept(p, SetMandatory(p, i))
<1> DEFINE t == MandatoryTlvs(p.kind)[i]
           q == RemoveTlv(p, t.tag)
           tag == MandatoryTlvs(p.kind)[i - 1].tag
<1>1. t \in TlvSet
  BY MandatoryAre
<1>2. SetMandatory(p, i) = InsertAfterTlv(q, t, tag)
  BY DEF SetMandatory
<1> HIDE DEF t
<1>3. OnlyTlvs(p, q)
  BY RemoveTlvRight
<1> HIDE DEF q, tag
<1>4. OnlyTlvs(q, InsertAfterTlv(q, t, tag))
  <2>1. Right(q)
    BY <1>3 DEF OnlyTlvs
  <2> QED BY <1>1, <2>1, InsertNextTo
<1> QED BY <1>2, <1>3, <1>4 DEF OnlyTlvs, Kept, SameMembers

(****************************************************************************)
(* The other setters.                                                       *)
(****************************************************************************)

WithVal(p, v, n) == [p EXCEPT !.val = v, !.length = n]

(* An object with other values. *)
LEMMA WithValIs ==
  ASSUME NEW p, Sound(p), NEW v \in [Fields(p.kind) -> Uint8], NEW n \in Int
  PROVE  LET q == WithVal(p, v, n)
         IN  /\ q \in Pdus /\ q.kind = p.kind /\ q.val = v /\ q.length = n
             /\ q.list = p.list /\ q.tlvs = p.tlvs /\ q.isDefault = p.isDefault
<1>1. p \in Pdus /\ p.kind \in Kinds
  BY DEF Sound, Pdus
<1>2. v \in Values
  BY <1>1 DEF Values
<1> QED BY <1>1, <1>2 DEF WithVal, Pdus

(* A member's value is within its type's limit. *)
Limited(k, f, n) == f \in Layout[k].strings => n < MaxLength[f]

(* A setter moves command_length by the change of the length of its member. *)
LEMMA SetLengthRight ==
  ASSUME NEW p, Right(p), NEW f \in Counted(p.kind), NEW n \in Uint8,
         Limited(p.kind, f, n)
  PROVE  LET q == SetLength(p, f, n)
         IN  /\ Right(q) /\ q.kind = p.kind /\ q.list = p.list
                /\ q.tlvs = p.tlvs
             /\ q.isDefault = p.isDefault /\ q.val = [p.val EXCEPT ![f] = n]
<1> DEFINE v == [p.val EXCEPT ![f] = n]
           m == p.length + n - p.val[f]
           q == WithVal(p, v, m)
           k == p.kind
<1>0. /\ Sound(p) /\ k \in Kinds /\ p.length \in Int
         /\ p.val \in [Fields(k) -> Uint8]
      /\ \A g \in Fields(k) : p.val[g] \in Nat
      /\ \A g \in Layout[k].strings : p.val[g] < MaxLength[g]
      /\ EntriesOf(k, p.list) /\ Len(p.list) <= ListLimit
      /\ p.tlvs \in Seq(TlvSet)
  BY SoundIs DEF Right
<1>1. f \in Fields(k) /\ n \in Nat
  BY DEF Fields, Uint8
<1>2. m \in Int
  BY <1>0, <1>1
<1>3. v \in [Fields(k) -> Uint8] /\ v[f] = n /\ \A g \in Fields(k) : g # f
        => v[g] = p.val[g]
  BY <1>0, <1>1
<1>4. SetLength(p, f, n) = q
  BY DEF SetLength, WithVal
<1> HIDE DEF v, m
<1>5. /\ q \in Pdus /\ q.kind = k /\ q.val = v /\ q.length = m
      /\ q.list = p.list /\ q.tlvs = p.tlvs /\ q.isDefault = p.isDefault
  BY <1>0, <1>2, <1>3, WithValIs
<1> HIDE DEF q
<1>6. Sound(q)
  <2>1. \A g \in Layout[k].strings : v[g] < MaxLength[g]
    <3> SUFFICES ASSUME NEW g \in Layout[k].strings PROVE v[g] < MaxLength[g]
      OBVIOUS
    <3>1. g \in Fields(k)
      BY DEF Fields, Counted
    <3>2. CASE g = f
      BY <1>3, <3>2 DEF Limited
    <3>3. CASE g # f
      BY <1>0, <1>3, <3>1, <3>3
    <3> QED BY <3>2, <3>3
  <2> QED BY <1>0, <1>3, <1>5, <2>1 DEF Sound
<1>7. FieldsOctets(q) = FieldsOctets(p) + Extra(q, f) - Extra(p, f)
  <2>1. \A g \in Fields(k) \cup Layout[k].list : g # f
          => Extra(q, g) = Extra(p, g)
    <3> SUFFICES ASSUME NEW g \in Fields(k) \cup Layout[k].list, g # f
                 PROVE  Extra(q, g) = Extra(p, g)
      OBVIOUS
    <3>1. g \in Counted(k) => g \in Fields(k)
      BY DEF Fields
    <3> QED BY <1>3, <1>5, <3>1 DEF Extra
  <2> QED BY <1>0, <1>1, <1>5, <1>6, <2>1, FieldsChange
<1>8. Extra(q, f) = n /\ Extra(p, f) = p.val[f]
  <2>1. f \notin Layout[k].list
    BY <1>0, <1>1, Members
  <2> QED BY <1>3, <1>5, <2>1 DEF Extra
<1>9. q.length = 16 + FieldsOctets(q) + TlvOctets(q.tlvs)
  <2> DEFINE x == FieldsOctets(p)
             y == TlvOctets(p.tlvs)
             z == FieldsOctets(q)
             a == p.val[f]
             l == p.length
  <2>1. x \in Nat /\ y \in Nat /\ a \in Nat /\ l \in Int
    BY <1>0, <1>1, FieldFramesAre, TlvFramesAre
  <2>2. l = 16 + x + y /\ z = x + n - a /\ m = l + n - a
    BY <1>7, <1>8 DEF Right, m
  <2> HIDE DEF x, y, z, a, l
  <2>3. m = 16 + z + y
    BY <1>1, <2>1, <2>2
  <2> QED BY <1>5, <2>3 DEF z, y
<1> QED BY <1>4, <1>5, <1>6, <1>9 DEF Right, q, v

(* An octet takes one octet whatever its value. *)
WithOctet(p, f, n) == [p EXCEPT !.val[f] = n]

(* The setter of an octet rightly leaves command_length alone. *)
LEMMA WithOctetRight ==
  ASSUME NEW p, Right(p), NEW f \in Layout[p.kind].octets, NEW n \in Uint8
  PROVE  LET q == WithOctet(p, f, n)
         IN  /\ Right(q) /\ q.kind = p.kind /\ q.list = p.list
                /\ q.tlvs = p.tlvs
             /\ q.isDefault = p.isDefault /\ q.val = [p.val EXCEPT ![f] = n]
<1> DEFINE v == [p.val EXCEPT ![f] = n]
           q == WithVal(p, v, p.length)
           k == p.kind
<1>0. /\ Sound(p) /\ k \in Kinds /\ p.length \in Int
         /\ p.val \in [Fields(k) -> Uint8]
      /\ \A g \in Layout[k].strings : p.val[g] < MaxLength[g]
      /\ EntriesOf(k, p.list) /\ Len(p.list) <= ListLimit
      /\ p \in Pdus
  BY SoundIs DEF Right, Sound
<1>1. f \in Fields(k) /\ f \notin Counted(k) /\ f \notin Layout[k].strings
  BY <1>0, Members
<1>3. v \in [Fields(k) -> Uint8] /\ \A g \in Fields(k) : g # f
        => v[g] = p.val[g]
  BY <1>0, <1>1
<1>4. WithOctet(p, f, n) = q
  <2> SUFFICES ASSUME NEW u, u = WithOctet(p, f, n), NEW w, w = q PROVE u = w
    OBVIOUS
  <2> QED BY <1>0 DEF WithOctet, WithVal, Pdus
<1> HIDE DEF v
<1>5. /\ q \in Pdus /\ q.kind = k /\ q.val = v /\ q.length = p.length
      /\ q.list = p.list /\ q.tlvs = p.tlvs /\ q.isDefault = p.isDefault
  BY <1>0, <1>3, WithValIs
<1> HIDE DEF q
<1>6. Sound(q)
  <2>1. \A g \in Layout[k].strings : v[g] < MaxLength[g]
    <3> SUFFICES ASSUME NEW g \in Layout[k].strings PROVE v[g] < MaxLength[g]
      OBVIOUS
    <3>1. g \in Fields(k) /\ g # f
      BY <1>1 DEF Fields, Counted
    <3> QED BY <1>0, <1>3, <3>1
  <2> QED BY <1>0, <1>3, <1>5, <2>1 DEF Sound
<1>7. FieldsOctets(q) = FieldsOctets(p)
  <2>1. \A g \in Fields(k) \cup Layout[k].list : Extra(q, g) = Extra(p, g)
    <3> SUFFICES ASSUME NEW g \in Fields(k) \cup Layout[k].list
                 PROVE  Extra(q, g) = Extra(p, g)
      OBVIOUS
    <3>1. g \in Counted(k) => g \in Fields(k) /\ g # f
      BY <1>1 DEF Fields
    <3> QED BY <1>3, <1>5, <3>1 DEF Extra
  <2> QED BY <1>0, <1>5, <1>6, <2>1, FieldsSame
<1>8. Right(q)
  BY <1>5, <1>6, <1>7 DEF Right
<1> QED BY <1>4, <1>5, <1>8 DEF q, v

(* An entry more in the list takes what it is encoded in. *)
LEMMA AddEntryRight ==
  ASSUME NEW p, Right(p), NEW e \in EntrySet, e.flag \in EntryFlags(p.kind)
  PROVE  LET q == AddEntry(p, e)
         IN  /\ Right(q) /\ q.kind = p.kind /\ q.val = p.val /\ q.tlvs = p.tlvs
             /\ q.isDefault = p.isDefault
<1> DEFINE l == Append(p.list, e)
           m == p.length + EntryOctets(e)
           q == [p EXCEPT !.list = l, !.length = m]
           k == p.kind
<1>0. /\ Sound(p) /\ k \in Kinds /\ p.length \in Int
         /\ p.val \in [Fields(k) -> Uint8]
      /\ \A g \in Layout[k].strings : p.val[g] < MaxLength[g]
      /\ EntriesOf(k, p.list) /\ p.list \in Seq(EntrySet)
      /\ p \in Pdus /\ p.tlvs \in Seq(TlvSet)
  BY SoundIs DEF Right, Sound
<1>1. CASE ~ (Len(p.list) < ListLimit)
  BY <1>1 DEF AddEntry
<1>2. CASE Len(p.list) < ListLimit
  <2>1. /\ l \in Seq(EntrySet) /\ Len(l) = Len(p.list) + 1
        /\ \A i \in 1 .. Len(p.list) : l[i] = p.list[i]
        /\ l[Len(p.list) + 1] = e /\ Len(p.list) \in Nat
    BY <1>0, AppendProperties, LenProperties
  <2>2. EntryOctets(e) \in Nat /\ ListOctets(p.list) \in Nat
        /\ ListOctets(l) = ListOctets(p.list) + EntryOctets(e)
    BY <1>0, EntryIs, EntryFramesAre, ListOctetsAppend
  <2>3. AddEntry(p, e) = q
    BY <1>2 DEF AddEntry
  <2>4. m \in Int
    BY <1>0, <2>2
  <2> HIDE DEF l, m
  <2>5. /\ q \in Pdus /\ q.kind = k /\ q.val = p.val /\ q.length = m
        /\ q.list = l /\ q.tlvs = p.tlvs /\ q.isDefault = p.isDefault
    BY <1>0, <2>1, <2>4 DEF Pdus
  <2> HIDE DEF q
  <2>6. Sound(q)
    <3>1. Len(l) <= ListLimit
      BY <1>2, <2>1, PduAssumption DEF Uint8
    <3>2. EntriesOf(k, l)
      <4> SUFFICES ASSUME NEW i \in 1 .. Len(l) PROVE l[i].flag \in EntryFlags(k)
        BY DEF EntriesOf
      <4>1. i \in 1 .. Len(p.list) \/ i = Len(p.list) + 1
        BY <2>1
      <4> QED BY <1>0, <2>1, <4>1 DEF EntriesOf
    <3> QED BY <1>0, <2>5, <3>1, <3>2 DEF Sound
  <2>7. PICK f \in Layout[k].list : \A g \in Layout[k].list : g = f
    BY <1>0, Members
  <2>8. f \notin Fields(k) /\ f \notin Counted(k)
    BY <1>0, Members DEF Fields
  <2>9. FieldsOctets(q) = FieldsOctets(p) + Extra(q, f) - Extra(p, f)
    <3>1. \A g \in Fields(k) \cup Layout[k].list : g # f
            => Extra(q, g) = Extra(p, g)
      BY <2>5, <2>7 DEF Extra
    <3> QED BY <1>0, <2>5, <2>6, <3>1, FieldsChange
  <2>10. Extra(q, f) = ListOctets(l) /\ Extra(p, f) = ListOctets(p.list)
    BY <2>5, <2>8 DEF Extra
  <2>11. q.length = 16 + FieldsOctets(q) + TlvOctets(q.tlvs)
    <3> DEFINE x == FieldsOctets(p)
               y == TlvOctets(p.tlvs)
               z == FieldsOctets(q)
               a == ListOctets(p.list)
               b == EntryOctets(e)
               n == p.length
    <3>1. x \in Nat /\ y \in Nat /\ a \in Nat /\ b \in Nat /\ n \in Int
      BY <1>0, <2>2, FieldFramesAre, TlvFramesAre
    <3>2. n = 16 + x + y /\ z = x + (a + b) - a /\ m = n + b
      BY <2>2, <2>9, <2>10 DEF Right, m
    <3> HIDE DEF x, y, z, a, b, n
    <3>3. m = 16 + z + y
      BY <3>1, <3>2
    <3> QED BY <2>5, <3>3 DEF z, y
  <2> QED BY <2>3, <2>5, <2>6, <2>11 DEF Right
<1> QED BY <1>1, <1>2

(****************************************************************************)
(* MinLength.                                                               *)
(****************************************************************************)

(* How many of the first i members are in S. *)
CountOf(order, i, S) == Cardinality({order[j] : j \in 1 .. i} \cap S)

(* Counting the members of S one after the other, each once. *)
LEMMA CountsAre ==
  ASSUME NEW order, NEW n \in Nat, NEW S,
         \A i, j \in 1 .. n : order[i] = order[j] => i = j
  PROVE  /\ \A i \in 0 .. n : CountOf(order, i, S) \in Nat
         /\ CountOf(order, 0, S) = 0
         /\ \A i \in 1 .. n :
              CountOf(order, i, S)
                = CountOf(order, i - 1, S) + (IF order[i] \in S THEN 1 ELSE 0)
         /\ (\A f \in S : \E i \in 1 .. n : order[i] = f)
              => CountOf(order, n, S) = Cardinality(S) /\ IsFiniteSet(S)
<1> DEFINE R(i) == {order[j] : j \in 1 .. i} \cap S
<1>1. R(0) = {}
  OBVIOUS
<1>2. \A i \in 1 .. n : R(i) = IF order[i] \in S THEN R(i - 1) \cup {order[i]} ELSE R(i - 1)
  <2> SUFFICES ASSUME NEW i \in 1 .. n
               PROVE  R(i) = IF order[i] \in S THEN R(i - 1) \cup {order[i]} ELSE R(i - 1)
    OBVIOUS
  <2>1. 1 .. i = (1 .. i - 1) \cup {i}
    OBVIOUS
  <2> HIDE DEF R
  <2>2. {order[j] : j \in 1 .. i} = {order[j] : j \in 1 .. i - 1} \cup {order[i]}
    BY <2>1
  <2> QED BY <2>2 DEF R
<1>3. \A i \in 1 .. n : order[i] \notin R(i - 1)
  <2> SUFFICES ASSUME NEW i \in 1 .. n, NEW j \in 1 .. i - 1, order[j] = order[i]
               PROVE  FALSE
    OBVIOUS
  <2>1. j \in 1 .. n /\ j # i
    OBVIOUS
  <2> QED BY <2>1
<1>4. (\A f \in S : \E i \in 1 .. n : order[i] = f) => R(n) = S
  OBVIOUS
<1> HIDE DEF R
<1> DEFINE F == {i \in 0 .. n : IsFiniteSet(R(i))}
<1>5. \A i \in 0 .. n : i \in F
  <2>1. 0 \in F
    BY <1>1, FS_EmptySet
  <2>2. ASSUME NEW i \in 1 .. n, i - 1 \in F PROVE i \in F
    <3>1. IsFiniteSet(R(i - 1)) /\ i \in 0 .. n
      BY <2>2
    <3>2. IsFiniteSet(R(i - 1) \cup {order[i]})
      BY <3>1, FS_AddElement
    <3> QED BY <1>2, <3>1, <3>2
  <2> HIDE DEF F
  <2> QED BY <2>1, <2>2, UpTo
<1>6. \A i \in 0 .. n : IsFiniteSet(R(i)) /\ Cardinality(R(i)) \in Nat
  BY <1>5, FS_CardinalityType
<1>7. ASSUME NEW i \in 1 .. n
      PROVE  Cardinality(R(i)) = Cardinality(R(i - 1)) + (IF order[i] \in S THEN 1 ELSE 0)
  <2>1. i - 1 \in 0 .. n
    OBVIOUS
  <2>2. IsFiniteSet(R(i - 1)) /\ Cardinality(R(i - 1)) \in Nat
    BY <1>6, <2>1
  <2>3. CASE order[i] \in S
    <3>1. R(i) = R(i - 1) \cup {order[i]} /\ order[i] \notin R(i - 1)
      BY <1>2, <1>3, <2>3
    <3>2. Cardinality(R(i)) = Cardinality(R(i - 1)) + 1
      BY <2>2, <3>1, FS_AddElement
    <3> QED BY <2>3, <3>2
  <2>4. CASE order[i] \notin S
    <3>1. R(i) = R(i - 1)
      BY <1>2, <2>4
    <3> QED BY <2>2, <2>4, <3>1
  <2> QED BY <2>3, <2>4
<1>8. Cardinality(R(0)) = 0
  BY <1>1, FS_EmptySet
<1>9. \A i : CountOf(order, i, S) = Cardinality(R(i))
  BY DEF CountOf, R
<1>10. n \in 0 .. n
  OBVIOUS
<1> QED BY <1>4, <1>6, <1>7, <1>8, <1>9, <1>10

(* MinLength is what the header and the empty members take. *)
LEMMA BlankOctets ==
  ASSUME NEW k \in Kinds, NEW p, Sound(p), p.kind = k,
         \A f \in Fields(k) \cup Layout[k].list : Extra(p, f) = 0
  PROVE  16 + FieldsOctets(p) = Layout[k].min
<1> DEFINE c == Layout[k]
           order == c.order
           n == Len(order)
           ss == FieldFrames(p)
           s == c.strings
           a == c.addresses
           r == c.octets \cup c.text \cup c.list
           C(S, i) == CountOf(order, i, S)
<1>1. /\ n \in Nat
      /\ \A i, j \in 1 .. n : order[i] = order[j] => i = j
      /\ \A f \in Fields(k) \cup c.list : \E i \in 1 .. n : order[i] = f
      /\ \A i \in 1 .. n : order[i] \in Fields(k) \cup c.list
  BY Members
<1>2. c.min = 16 + Cardinality(s) + 3 * Cardinality(a) + Cardinality(r)
  <2>1. WellFormed(k)
    BY PduAssumption
  <2> QED BY <2>1 DEF WellFormed
<1>3. /\ ss \in Seq(Seq(Nat)) /\ Len(ss) = n
      /\ \A i \in 1 .. n : Len(ss[i]) = Least(k, order[i]) + 0
  BY FieldFramesAre
<1>4. \A i \in 1 .. n : \/ order[i] \in s /\ order[i] \notin a /\ order[i] \notin r
                        \/ order[i] \notin s /\ order[i] \in a /\ order[i] \notin r
                        \/ order[i] \notin s /\ order[i] \notin a /\ order[i] \in r
  <2>1. Fields(k) \cup c.list = s \cup a \cup r
    BY DEF Fields, Counted
  <2>2. WellFormed(k)
    BY PduAssumption
  <2>3. s \cap (a \cup r) = {} /\ a \cap r = {}
    BY <2>2 DEF WellFormed
  <2> HIDE DEF s, a, r, order, n, c
  <2> QED BY <1>1, <2>1, <2>3
<1>5. \A f \in s \cup a \cup r : f \in Fields(k) \cup c.list
  BY DEF Fields, Counted
<1>6. PICK at : LaidOut(ss, FlattenSeq(ss), at)
  BY <1>3, Flattened
<1>7. \A i \in 1 .. n : Len(ss[i]) = IF order[i] \in a THEN 3 ELSE 1
  BY <1>3 DEF Least
<1> HIDE DEF s, a, r, ss, order, n, c
<1>8. \A S \in {s, a, r} :
        /\ \A i \in 0 .. n : C(S, i) \in Nat
        /\ C(S, 0) = 0
        /\ \A i \in 1 .. n : C(S, i) = C(S, i - 1) + (IF order[i] \in S THEN 1 ELSE 0)
        /\ C(S, n) = Cardinality(S)
  <2> SUFFICES ASSUME NEW S \in {s, a, r}
               PROVE  /\ \A i \in 0 .. n : C(S, i) \in Nat
                      /\ C(S, 0) = 0
                      /\ \A i \in 1 .. n :
                           C(S, i) = C(S, i - 1) + (IF order[i] \in S THEN 1 ELSE 0)
                      /\ C(S, n) = Cardinality(S)
    OBVIOUS
  <2>1. \A f \in S : \E i \in 1 .. n : order[i] = f
    BY <1>1, <1>5
  <2>2. /\ \A i \in 0 .. n : CountOf(order, i, S) \in Nat
        /\ CountOf(order, 0, S) = 0
        /\ \A i \in 1 .. n :
             CountOf(order, i, S)
               = CountOf(order, i - 1, S) + (IF order[i] \in S THEN 1 ELSE 0)
        /\ (\A f \in S : \E i \in 1 .. n : order[i] = f)
             => CountOf(order, n, S) = Cardinality(S) /\ IsFiniteSet(S)
    BY <1>1, CountsAre
  <2> QED BY <2>1, <2>2
<1> HIDE DEF C
<1> DEFINE D(i) == C(s, i) + 3 * C(a, i) + C(r, i)
           E == {i \in 0 .. n : at[i] = D(i)}
<1>9. /\ at[0] = 0 /\ at[n] = Len(FlattenSeq(ss))
      /\ \A i \in 1 .. n : at[i] = at[i - 1] + Len(ss[i])
  BY <1>3, <1>6, LaidOutTypes DEF LaidOut
<1>10. \A i \in 0 .. n : i \in E
  <2>1. 0 \in E
    <3>1. C(s, 0) = 0 /\ C(a, 0) = 0 /\ C(r, 0) = 0
      BY <1>8
    <3>2. D(0) = 0 /\ 0 \in 0 .. n
      BY <1>1, <3>1
    <3> QED BY <1>9, <3>2
  <2>2. ASSUME NEW i \in 1 .. n, i - 1 \in E PROVE i \in E
    <3>1. at[i] = D(i - 1) + Len(ss[i])
      BY <1>9, <2>2
    <3>2. C(s, i - 1) \in Nat /\ C(a, i - 1) \in Nat /\ C(r, i - 1) \in Nat
          /\ i \in 0 .. n
      <4>1. i - 1 \in 0 .. n /\ i \in 0 .. n
        BY <1>1
      <4> QED BY <1>8, <4>1
    <3>3. /\ C(s, i) = C(s, i - 1) + (IF order[i] \in s THEN 1 ELSE 0)
          /\ C(a, i) = C(a, i - 1) + (IF order[i] \in a THEN 1 ELSE 0)
          /\ C(r, i) = C(r, i - 1) + (IF order[i] \in r THEN 1 ELSE 0)
      BY <1>8
    <3>4. D(i) = D(i - 1) + Len(ss[i])
      BY <1>4, <1>7, <3>2, <3>3, SMTT(30)
    <3> QED BY <3>1, <3>2, <3>4
  <2> HIDE DEF E
  <2> QED BY <1>1, <2>1, <2>2, UpTo
<1>11. at[n] = Cardinality(s) + 3 * Cardinality(a) + Cardinality(r)
  <2>1. n \in E
    BY <1>1, <1>10
  <2>2. C(s, n) = Cardinality(s) /\ C(a, n) = Cardinality(a)
        /\ C(r, n) = Cardinality(r)
    BY <1>8
  <2> QED BY <2>1, <2>2
<1>12. FieldsOctets(p) = at[n]
  BY <1>9 DEF FieldsOctets, ss
<1>13. /\ Cardinality(s) \in Nat /\ Cardinality(a) \in Nat
          /\ Cardinality(r) \in Nat
  <2>1. n \in 0 .. n
    BY <1>1
  <2> QED BY <1>8, <2>1
<1>14. 16 + at[n] = c.min
  <2> DEFINE x == Cardinality(s)
             y == Cardinality(a)
             z == Cardinality(r)
             w == at[n]
  <2>1. x \in Nat /\ y \in Nat /\ z \in Nat /\ w = x + 3 * y + z
    BY <1>11, <1>13
  <2>2. c.min = 16 + x + 3 * y + z
    BY <1>2
  <2> HIDE DEF x, y, z, w
  <2>3. 16 + w = 16 + x + 3 * y + z
    BY <2>1
  <2> QED BY <2>2, <2>3 DEF w
<1> QED BY <1>12, <1>14 DEF c

(****************************************************************************)
(* The default constructor.                                                 *)
(****************************************************************************)

(* No TLVs take nothing. *)
LEMMA NoTlvs == TlvOctets(<<>>) = 0
<1>1. TlvFrames(<<>>) = <<>> /\ FlattenSeq(<<>>) = <<>>
  BY DEF TlvFrames, FlattenSeq
<1> QED BY <1>1 DEF TlvOctets

(* An object without entries and TLVs, of which only octets are set. *)
Empty(k, v) == WithVal(Blank(k), v, Layout[k].min)

(* MinLength is right for an object without text, entries and TLVs. *)
LEMMA EmptyRight ==
  ASSUME NEW k \in Kinds, NEW v \in [Fields(k) -> Uint8],
         \A f \in Counted(k) : v[f] = 0
  PROVE  LET q == Empty(k, v)
         IN  /\ Right(q) /\ q.kind = k /\ q.val = v /\ q.list = <<>>
                /\ q.tlvs = <<>>
             /\ q.isDefault = FALSE
<1> DEFINE q == Empty(k, v)
<1>1. Layout[k].min \in Nat
  BY PduAssumption DEF WellFormed
<1>2. v \in Values
  BY DEF Values
<1>3. q = [kind |-> k, length |-> Layout[k].min, val |-> v, list |-> <<>>, tlvs |-> <<>>,
           isDefault |-> FALSE]
  <2> SUFFICES ASSUME NEW u, u = q
               PROVE  u = [kind |-> k, length |-> Layout[k].min, val |-> v, list |-> <<>>,
                           tlvs |-> <<>>, isDefault |-> FALSE]
    OBVIOUS
  <2> QED BY DEF Empty, WithVal, Blank
<1> HIDE DEF q
<1>4. <<>> \in Seq(EntrySet) /\ <<>> \in Seq(TlvSet) /\ Len(<<>>) = 0
  OBVIOUS
<1>5. /\ q \in Pdus /\ q.kind = k /\ q.length = Layout[k].min /\ q.val = v
      /\ q.list = <<>> /\ q.tlvs = <<>> /\ q.isDefault = FALSE
  BY <1>1, <1>2, <1>3, <1>4 DEF Pdus
<1>6. Sound(q)
  <2>1. \A f \in Layout[k].strings : v[f] < MaxLength[f]
    <3> SUFFICES ASSUME NEW f \in Layout[k].strings PROVE v[f] < MaxLength[f]
      OBVIOUS
    <3>1. f \in DOMAIN MaxLength /\ f \in Counted(k)
      BY Members
    <3>2. v[f] = 0
      BY <3>1
    <3>3. \A g \in DOMAIN MaxLength : 0 < MaxLength[g]
      BY DEF MaxLength
    <3> QED BY <3>1, <3>2, <3>3
  <2>2. Len(q.list) <= ListLimit
    BY <1>4, <1>5, PduAssumption DEF Uint8
  <2>3. EntriesOf(k, q.list)
    BY <1>5 DEF EntriesOf
  <2> QED BY <1>5, <2>1, <2>2, <2>3 DEF Sound
<1>7. \A f \in Fields(k) \cup Layout[k].list : Extra(q, f) = 0
  <2>1. ListOctets(<<>>) = 0
    <3>1. <<>> \in Seq(EntrySet)
      OBVIOUS
    <3> QED BY <3>1, ListIs
  <2> QED BY <1>5, <2>1, Members DEF Extra
<1>8. 16 + FieldsOctets(q) = Layout[k].min
  BY <1>5, <1>6, <1>7, BlankOctets
<1>9. q.length = 16 + FieldsOctets(q) + TlvOctets(q.tlvs)
  BY <1>1, <1>5, <1>8, NoTlvs
<1> QED BY <1>5, <1>6, <1>9 DEF Right, q

(* The default constructor. *)
LEMMA DefaultRight ==
  ASSUME NEW k \in Kinds
  PROVE  LET q == Default(k)
         IN  /\ Right(q) /\ q.kind = k /\ q.val = [f \in Fields(k) |-> 0]
             /\ q.tlvs = MandatoryTlvs(k)
<1> DEFINE v == [f \in Fields(k) |-> 0]
           p == Empty(k, v)
           r == InsertAll(p, MandatoryTlvs(k))
           flag == MandatoryTlvs(k) # <<>>
<1>1. v \in [Fields(k) -> Uint8] /\ \A f \in Counted(k) : v[f] = 0
  <2>1. 0 \in Uint8
    BY DEF Uint8
  <2> QED BY <2>1 DEF Fields
<1>2. p = Blank(k)
  <2> SUFFICES ASSUME NEW u, u = p PROVE u = Blank(k)
    OBVIOUS
  <2> HIDE DEF v
  <2>1. u = [kind |-> k, length |-> Layout[k].min, val |-> v, list |-> <<>>, tlvs |-> <<>>,
             isDefault |-> FALSE]
    BY DEF Empty, WithVal, Blank
  <2> QED BY <2>1 DEF Blank, v
<1>3. Right(p) /\ p.kind = k /\ p.val = v /\ p.tlvs = <<>>
  <2> HIDE DEF v
  <2> QED BY <1>1, EmptyRight
<1>4. Default(k) = WithFlag(r, flag)
  BY <1>2 DEF Default, WithFlag
<1> HIDE DEF p
<1>5. OnlyTlvs(p, r) /\ r.tlvs = MandatoryTlvs(k)
  BY <1>3, MandatoryAre, InsertAllRight
<1> HIDE DEF r
<1>6. Kept(r, WithFlag(r, flag)) /\ WithFlag(r, flag).tlvs = r.tlvs
  <2>1. Right(r) /\ flag \in BOOLEAN
    BY <1>5 DEF OnlyTlvs
  <2> QED BY <2>1, WithFlagRight
<1> HIDE DEF flag
<1> QED BY <1>3, <1>4, <1>5, <1>6 DEF Kept, OnlyTlvs, SameMembers

(****************************************************************************)
(* The constructor with parameters.                                         *)
(****************************************************************************)

(* A class has finitely many members. *)
LEMMA FieldsFinite ==
  ASSUME NEW k \in Kinds
  PROVE  IsFiniteSet(Fields(k))
<1> DEFINE order == Layout[k].order
           n == Len(order)
           S == Fields(k)
<1>1. /\ n \in Nat
      /\ \A i, j \in 1 .. n : order[i] = order[j] => i = j
      /\ \A f \in S : \E i \in 1 .. n : order[i] = f
  BY Members
<1> HIDE DEF order, n, S
<1>2. (\A f \in S : \E i \in 1 .. n : order[i] = f)
        => CountOf(order, n, S) = Cardinality(S) /\ IsFiniteSet(S)
  BY <1>1, CountsAre
<1> QED BY <1>1, <1>2 DEF S

(* The members of S are set, of the others only the octets. *)
Partly(k, val, S) ==
  [f \in Fields(k) |-> IF f \in S \/ f \in Layout[k].octets THEN val[f] ELSE 0]
PartlySet(k, val, S) ==
  WithVal(Blank(k), Partly(k, val, S), Layout[k].min + SumFunctionOnSet(val, S))

(* The values a constructor may be called with. *)
Settable(k, val) ==
  val \in [Fields(k) -> Uint8]
  /\ \A f \in Layout[k].strings : val[f] < MaxLength[f]

(* One more member of S is set. *)
LEMMA SetOneMore ==
  ASSUME NEW k \in Kinds, NEW val, Settable(k, val),
         NEW S \in SUBSET Counted(k), NEW x \in S, Right(PartlySet(k, val, S \ {x})),
         PartlySet(k, val, S \ {x}).kind = k
  PROVE  Right(PartlySet(k, val, S)) /\ PartlySet(k, val, S).kind = k
<1> DEFINE R == S \ {x}
           a == SumFunctionOnSet(val, R)
           b == SumFunctionOnSet(val, S)
           min == Layout[k].min
           v == Partly(k, val, R)
           w == Partly(k, val, S)
           p == PartlySet(k, val, R)
           q == PartlySet(k, val, S)
<1>1. x \in Counted(k) /\ x \in Fields(k) /\ x \notin Layout[k].octets
  <2>1. x \in Counted(k) /\ \A f \in Layout[k].octets : f \notin Counted(k)
    BY Members
  <2> QED BY <2>1 DEF Fields
<1>2. val \in [Fields(k) -> Uint8] /\ val[x] \in Nat /\ val[x] \in Uint8
  BY <1>1 DEF Settable, Uint8
<1>3. a \in Nat /\ b \in Nat /\ b = val[x] + a
  <2>1. IsFiniteSet(Fields(k)) /\ val \in [Fields(k) -> Nat]
    BY <1>2, FieldsFinite DEF Uint8
  <2>2. S \in SUBSET Fields(k) /\ R \in SUBSET Fields(k)
    BY DEF Fields
  <2> HIDE DEF R
  <2>3. \A T \in SUBSET Fields(k) :
          /\ SumFunctionOnSet(val, T) \in Nat
          /\ \A y \in T : SumFunctionOnSet(val, T) = val[y] + SumFunctionOnSet(val, T \ {y})
    BY <2>1, SumSteps
  <2> QED BY <2>2, <2>3 DEF R
<1>4. min \in Nat
  BY PduAssumption DEF WellFormed
<1>5. w = [v EXCEPT ![x] = val[x]] /\ v[x] = 0
  BY <1>1 DEF Partly
<1>6. p = [kind |-> k, length |-> min + a, val |-> v, list |-> <<>>, tlvs |-> <<>>,
           isDefault |-> FALSE]
  <2> SUFFICES ASSUME NEW u, u = p
               PROVE  u = [kind |-> k, length |-> min + a, val |-> v, list |-> <<>>,
                           tlvs |-> <<>>, isDefault |-> FALSE]
    OBVIOUS
  <2> HIDE DEF v, a, R, min
  <2> QED BY DEF PartlySet, WithVal, Blank, v, a, R, min
<1>7. q = [kind |-> k, length |-> min + b, val |-> w, list |-> <<>>, tlvs |-> <<>>,
           isDefault |-> FALSE]
  <2> SUFFICES ASSUME NEW u, u = q
               PROVE  u = [kind |-> k, length |-> min + b, val |-> w, list |-> <<>>,
                           tlvs |-> <<>>, isDefault |-> FALSE]
    OBVIOUS
  <2> HIDE DEF w, b, min
  <2> QED BY DEF PartlySet, WithVal, Blank, w, b, min
<1>8. Right(p) /\ p.kind = k
  OBVIOUS
<1> HIDE DEF p, q, v, w, a, b, R, min
<1>9. min + a + val[x] - v[x] = min + b
  BY <1>2, <1>3, <1>4, <1>5
<1>10. SetLength(p, x, val[x]) = q
  <2> SUFFICES ASSUME NEW u, u = SetLength(p, x, val[x])
               PROVE  u = [kind |-> k, length |-> min + b, val |-> w, list |-> <<>>,
                           tlvs |-> <<>>, isDefault |-> FALSE]
    BY <1>7
  <2>1. p.kind = k /\ p.length = min + a /\ p.val = v
    BY <1>6
  <2> QED BY <1>5, <1>6, <1>9, <2>1 DEF SetLength
<1>11. Right(SetLength(p, x, val[x])) /\ SetLength(p, x, val[x]).kind = k
  <2>1. x \in Counted(p.kind) /\ Limited(p.kind, x, val[x])
    BY <1>1, <1>8 DEF Settable, Limited
  <2> QED BY <1>2, <1>8, <2>1, SetLengthRight
<1> QED BY <1>10, <1>11 DEF q

(* The constructor sets one member after the other. *)
LEMMA AllSet ==
  ASSUME NEW k \in Kinds, NEW val, Settable(k, val)
  PROVE  LET q == PartlySet(k, val, Counted(k))
         IN  Right(q) /\ q.kind = k
<1> DEFINE U == Counted(k)
           P == {S \in SUBSET U : Right(PartlySet(k, val, S)) /\ PartlySet(k, val, S).kind = k}
<1>1. IsFiniteSet(U)
  <2>1. U \in SUBSET Fields(k)
    BY DEF Fields
  <2> QED BY <2>1, FieldsFinite, FS_Subset
<1>2. {} \in P
  <2> DEFINE v == Partly(k, val, {})
  <2>1. v \in [Fields(k) -> Uint8] /\ \A f \in Counted(k) : v[f] = 0
    <3>1. 0 \in Uint8
      BY DEF Uint8
    <3>2. \A f \in Fields(k) : f \in Counted(k) => f \notin Layout[k].octets
      BY Members
    <3>3. \A f \in Counted(k) : f \in Fields(k)
      BY DEF Fields
    <3> QED BY <3>1, <3>2, <3>3 DEF Partly, Settable
  <2>2. SumFunctionOnSet(val, {}) = 0 /\ Layout[k].min \in Nat
    <3>1. IsFiniteSet(Fields(k)) /\ val \in [Fields(k) -> Nat]
      BY FieldsFinite DEF Uint8, Settable
    <3>2. SumFunctionOnSet(val, {}) = 0
      BY <3>1, SumSteps
    <3> QED BY <3>2, PduAssumption DEF WellFormed
  <2> HIDE DEF v
  <2>3. Layout[k].min + SumFunctionOnSet(val, {}) = Layout[k].min
    BY <2>2
  <2>4. PartlySet(k, val, {}) = Empty(k, v)
    BY <2>3 DEF PartlySet, Empty, v
  <2>5. Right(Empty(k, v)) /\ Empty(k, v).kind = k
    BY <2>1, EmptyRight
  <2> QED BY <2>4, <2>5
<1>3. ASSUME NEW S \in (SUBSET U) \ {{}}, \A x \in S : S \ {x} \in P
      PROVE  S \in P
  <2>1. PICK x \in S : TRUE
    BY <1>3
  <2>2. Right(PartlySet(k, val, S \ {x}))
        /\ PartlySet(k, val, S \ {x}).kind = k
    BY <1>3
  <2> QED BY <2>2, SetOneMore
<1> HIDE DEF P, U
<1>4. \A S \in SUBSET U : S \in P
  BY <1>1, <1>2, <1>3, EverySet
<1>5. U \in P
  BY <1>4
<1> QED BY <1>5 DEF P, U

(* What the types take fits an octet, with the NUL for a string. *)
LEMMA Limits ==
  ASSUME NEW k \in Kinds, NEW f
  PROVE  /\ LimitOf(k, f) \in Uint8
         /\ \A n \in Nat : n <= LimitOf(k, f) => n \in Uint8
         /\ f \in Layout[k].strings =>
              \A n \in Nat : n <= LimitOf(k, f) => n < MaxLength[f]
<1>1. \A g \in DOMAIN MaxLength : MaxLength[g] \in 6 .. 65
  BY DEF MaxLength
<1>2. LimitOf(k, f) \in 5 .. 64
      /\ (f \in DOMAIN MaxLength => LimitOf(k, f) = MaxLength[f] - 1)
  <2>1. CASE f \in DOMAIN MaxLength
    <3>1. LimitOf(k, f) = MaxLength[f] - 1
      BY <2>1 DEF LimitOf
    <3> QED BY <1>1, <2>1, <3>1
  <2>2. CASE f \notin DOMAIN MaxLength
    <3>1. AddressLength(k) \in {21, 65}
      BY DEF AddressLength, MaxLen, MaxDataSmLen
    <3> QED BY <2>2, <3>1 DEF LimitOf
  <2> QED BY <2>1, <2>2
<1>3. LimitOf(k, f) \in Uint8 /\ \A n \in Nat : n <= LimitOf(k, f)
        => n \in Uint8
  BY <1>2 DEF Uint8
<1>4. f \in Layout[k].strings => f \in DOMAIN MaxLength
  BY Members
<1> QED BY <1>1, <1>2, <1>3, <1>4

(* The constructor that takes every mandatory parameter. *)
LEMMA ConstructRight ==
  ASSUME NEW k \in Kinds, NEW n \in Nat, NEW t \in Uint8, NEW o \in Uint8,
         \A f \in Counted(k) \ Layout[k].text : n <= LimitOf(k, f)
  PROVE  LET q == Construct(k, n, t, o)
         IN  /\ Right(q) /\ q.kind = k
             /\ \A f \in Layout[k].octets : q.val[f] = o
             /\ q.tlvs = MandatoryTlvs(k)
<1> DEFINE c == Layout[k]
           val == [f \in Fields(k) |-> CASE f \in c.text   -> t
                                         [] f \in c.octets -> o
                                         [] OTHER          -> n]
           p == PartlySet(k, val, Counted(k))
           r == InsertAll(p, MandatoryTlvs(k))
<1>1. \A f \in Fields(k) :
        /\ f \in c.octets => val[f] = o /\ f \notin c.text
        /\ f \in c.strings => val[f] = n
        /\ val[f] \in Uint8
  <2> SUFFICES ASSUME NEW f \in Fields(k)
               PROVE  /\ f \in c.octets => val[f] = o /\ f \notin c.text
                      /\ f \in c.strings => val[f] = n
                      /\ val[f] \in Uint8
    OBVIOUS
  <2>1. f \in c.octets => f \notin c.text /\ val[f] = o
    BY Members
  <2>2. f \in c.strings => f \notin c.text /\ f \notin c.octets
    BY Members
  <2>3. CASE f \in c.text
    BY <2>1, <2>2, <2>3
  <2>4. CASE f \in c.octets
    BY <2>1, <2>2, <2>4
  <2>5. CASE f \notin c.text /\ f \notin c.octets
    <3>1. f \in Counted(k) \ c.text
      BY <2>5 DEF Fields
    <3>2. n \in Uint8
      BY <3>1, Limits
    <3>3. val[f] = n
      BY <2>5
    <3> QED BY <2>5, <3>2, <3>3
  <2> QED BY <2>3, <2>4, <2>5
<1>2. Settable(k, val)
  <2>1. \A f \in c.strings : f \in DOMAIN MaxLength /\ f \in Fields(k)
    BY Members DEF Fields
  <2>2. \A f \in c.strings : n < MaxLength[f]
    <3>1. \A f \in c.strings : f \in Counted(k) \ c.text
      BY Members DEF Counted
    <3> QED BY <3>1, Limits
  <2>3. val \in [Fields(k) -> Uint8]
    BY <1>1
  <2> HIDE DEF val
  <2> QED BY <1>1, <2>1, <2>2, <2>3 DEF Settable
<1> HIDE DEF val
<1>3. Right(p) /\ p.kind = k
  BY <1>2, AllSet
<1>4. Partly(k, val, Counted(k)) = val
  <2>1. \A f \in Fields(k) : f \in Counted(k) \/ f \in Layout[k].octets
    BY DEF Fields
  <2>2. val = [f \in Fields(k) |-> val[f]]
    BY DEF val
  <2> QED BY <2>1, <2>2 DEF Partly
<1>5. p = [Blank(k) EXCEPT !.val = val, !.length = @ + SumFunctionOnSet(val, Counted(k))]
  <2> DEFINE s == SumFunctionOnSet(val, Counted(k))
  <2>1. Blank(k).length = c.min
    BY DEF Blank
  <2>2. p = [Blank(k) EXCEPT !.val = val, !.length = c.min + s]
    BY <1>4 DEF PartlySet, WithVal
  <2> HIDE DEF s, p
  <2> QED BY <2>1, <2>2 DEF s
<1>6. Construct(k, n, t, o) = r
  BY <1>5 DEF Construct, val
<1>7. p.val = val /\ p.tlvs = <<>>
  BY <1>4 DEF PartlySet, WithVal, Blank
<1> HIDE DEF p
<1>8. OnlyTlvs(p, r) /\ r.tlvs = MandatoryTlvs(k)
  BY <1>3, <1>7, MandatoryAre, InsertAllRight
<1> HIDE DEF r
<1>9. \A f \in Layout[k].octets : val[f] = o
  BY <1>1 DEF Fields
<1> QED BY <1>3, <1>6, <1>7, <1>8, <1>9 DEF OnlyTlvs, SameMembers

(****************************************************************************)
(* The other side, and the PDU of an SMS.                                   *)
(****************************************************************************)

(* What decode makes of the frame of an object whose length is right. *)
Received(p) == Decode(p.kind, Encode(p))

(* The object on the other side is the one that was encoded, but for the
   flag that no frame carries. *)
LEMMA ReceivedIs ==
  ASSUME NEW p, Right(p)
  PROVE  /\ Received(p).ok \in BOOLEAN
         /\ Received(p).ok <=> CanDecode(p)
         /\ Received(p).ok =>
              /\ Received(p).pdu = WithFlag(p, FALSE)
              /\ \A flag : WithFlag(Received(p).pdu, flag) = WithFlag(p, flag)
              /\ WithFlag(Received(p).pdu, p.isDefault) = p
<1>1. Sound(p) /\ p \in Pdus /\ p.length = Len(Encode(p))
  BY RightIs DEF Right, Sound
<1>2. Received(p) = IF CanDecode(p) THEN Decoded(p) ELSE Refused
  BY <1>1, DecodeIs DEF Received
<1>3. Decoded(p) = [ok |-> TRUE, pdu |-> WithFlag(p, FALSE)]
  <2>1. [p EXCEPT !.length = Len(Encode(p)), !.isDefault = FALSE]
          = [kind |-> p.kind, length |-> p.length, val |-> p.val, list |-> p.list,
             tlvs |-> p.tlvs, isDefault |-> FALSE]
    BY <1>1, DecodedIs
  <2>2. WithFlag(p, FALSE)
          = [kind |-> p.kind, length |-> p.length, val |-> p.val, list |-> p.list,
             tlvs |-> p.tlvs, isDefault |-> FALSE]
    <3> SUFFICES ASSUME NEW u, u = WithFlag(p, FALSE)
                 PROVE  u = [kind |-> p.kind, length |-> p.length, val |-> p.val,
                             list |-> p.list, tlvs |-> p.tlvs, isDefault |-> FALSE]
      OBVIOUS
    <3> QED BY <1>1 DEF WithFlag, Pdus
  <2> QED BY <2>1, <2>2 DEF Decoded
<1>4. \A flag : WithFlag(WithFlag(p, FALSE), flag) = WithFlag(p, flag)
  <2> SUFFICES ASSUME NEW flag, NEW u, u = WithFlag(WithFlag(p, FALSE), flag),
                      NEW w, w = WithFlag(p, flag)
               PROVE  u = w
    OBVIOUS
  <2>1. u = [kind |-> p.kind, length |-> p.length, val |-> p.val, list |-> p.list,
             tlvs |-> p.tlvs, isDefault |-> flag]
    BY <1>1 DEF WithFlag, Pdus
  <2>2. w = [kind |-> p.kind, length |-> p.length, val |-> p.val, list |-> p.list,
             tlvs |-> p.tlvs, isDefault |-> flag]
    BY <1>1 DEF WithFlag, Pdus
  <2> QED BY <2>1, <2>2
<1>5. WithFlag(p, p.isDefault) = p
  <2> SUFFICES ASSUME NEW u, u = WithFlag(p, p.isDefault) PROVE u = p
    OBVIOUS
  <2> QED BY <1>1 DEF WithFlag, Pdus
<1>6. Refused.ok = FALSE
  BY DEF Refused
<1>7. CASE CanDecode(p)
  <2>1. Received(p) = [ok |-> TRUE, pdu |-> WithFlag(p, FALSE)]
    BY <1>2, <1>3, <1>7
  <2>2. Received(p).ok /\ Received(p).ok = TRUE
        /\ Received(p).pdu = WithFlag(p, FALSE)
    BY <2>1
  <2> QED BY <1>4, <1>5, <1>7, <2>2
<1>8. CASE ~ CanDecode(p)
  BY <1>2, <1>6, <1>8
<1> QED BY <1>7, <1>8

(* The lengths of the text TLVs, and the text of an SMS in one place, or none. *)
Payloads(p) ==
  {p.tlvs[i].len : i \in {j \in DOMAIN p.tlvs : p.tlvs[j].tag = message_payload}}
Once(p, n) ==
  \/ n = NoForm /\ p.val["short_message"] = 0 /\ Payloads(p) = {}
  \/ n # NoForm /\ p.val["short_message"] = n /\ Payloads(p) = {}
  \/ n # NoForm /\ p.val["short_message"] = 0 /\ Payloads(p) = {n}

(* The text TLVs of the four lists that SendSubmitSm can make. *)
LEMMA OnePayload ==
  ASSUME NEW p, NEW n, NEW m
  PROVE  /\ p.tlvs = <<>> => Payloads(p) = {}
         /\ p.tlvs = <<Tlv(message_payload, n)>> => Payloads(p) = {n}
         /\ p.tlvs = <<Tlv(dest_addr_subunit, m)>> => Payloads(p) = {}
         /\ p.tlvs = <<Tlv(message_payload, n), Tlv(dest_addr_subunit, m)>>
              => Payloads(p) = {n}
<1>1. ASSUME p.tlvs = <<>> PROVE Payloads(p) = {}
  BY <1>1 DEF Payloads
<1>2. ASSUME p.tlvs = <<Tlv(message_payload, n)>> PROVE Payloads(p) = {n}
  BY <1>2 DEF Payloads, Tlv
<1>3. ASSUME p.tlvs = <<Tlv(dest_addr_subunit, m)>> PROVE Payloads(p) = {}
  BY <1>3 DEF Payloads, Tlv, message_payload, dest_addr_subunit
<1>4. ASSUME p.tlvs = <<Tlv(message_payload, n), Tlv(dest_addr_subunit, m)>>
      PROVE  Payloads(p) = {n}
  BY <1>4 DEF Payloads, Tlv, message_payload, dest_addr_subunit
<1> QED BY <1>1, <1>2, <1>3, <1>4

(* A sequence of one, and one more. *)
LEMMA AppendToOne ==
  ASSUME NEW V, NEW x \in V, NEW y \in V
  PROVE  Append(<<x>>, y) = <<x, y>>
<1> DEFINE s == <<x>>
           q == Append(s, y)
           r == <<x, y>>
<1>1. s \in Seq(V) /\ Len(s) = 1 /\ s[1] = x
  OBVIOUS
<1> HIDE DEF s
<1>2. /\ q \in Seq(V) /\ Len(q) = Len(s) + 1
      /\ \A i \in 1 .. Len(s) : q[i] = s[i]
      /\ q[Len(s) + 1] = y
  <2>1. s \in Seq(V)
    BY <1>1
  <2> QED BY <2>1, AppendProperties
<1>3. r \in Seq(V) /\ Len(r) = 2 /\ r[1] = x /\ r[2] = y
  OBVIOUS
<1> HIDE DEF q, r
<1>4. \A i \in 1 .. Len(q) : q[i] = r[i]
  BY <1>1, <1>2, <1>3
<1>5. q = r
  BY <1>1, <1>2, <1>3, <1>4, SeqEqual
<1> QED BY <1>5 DEF q, r, s

(* A conversion gives a length of two octets, or fails. *)
LEMMA ConvertedIs ==
  ASSUME NEW text \in Texts, NEW coding \in Codings
  PROVE  Converted(text, coding) \in Uint16 \cup {NoForm}
<1>1. text.octets \in SmsLengths /\ text.ucs2 \in UcsLengths \cup {NoForm}
  BY DEF Texts
<1>2. text.octets \in Uint16 /\ text.ucs2 \in Uint16 \cup {NoForm}
  BY <1>1, PduAssumption
<1> QED BY <1>2 DEF Converted

(* The PDU of SendSubmitSm, step by step. *)
SubmitSm(n, coding) ==
  LET p == SetLength(SetLength(Default("submit_sm"), "source_addr", 4),
                     "destination_addr", 4)
      e == [p EXCEPT !.val["registered_delivery"] = 1,
                     !.val["data_coding"] = coding]
      q == IF n = NoForm THEN e ELSE SetText(e, n)
      subunit == Tlv(dest_addr_subunit, 1)
  IN  IF coding = Flash THEN InsertTlv(q, subunit) ELSE q

(* The PDU of an SMS is right, can be decoded and has the converted text once,
   or no text if the conversion failed. *)
LEMMA SubmitSmRight ==
  ASSUME NEW n \in Uint16 \cup {NoForm}, NEW coding \in Codings
  PROVE  LET q == SubmitSm(n, coding)
         IN  Right(q) /\ q.kind = "submit_sm" /\ CanDecode(q) /\ Once(q, n)
<1> DEFINE k == "submit_sm"
           c == Layout[k]
           a == Default(k)
           b == SetLength(a, "source_addr", 4)
           d == SetLength(b, "destination_addr", 4)
           e == WithOctet(d, "registered_delivery", 1)
           f == WithOctet(e, "data_coding", coding)
           g == IF n = NoForm THEN f ELSE SetText(f, n)
           t == Tlv(dest_addr_subunit, 1)
           h == SubmitSm(n, coding)
<1> HIDE DEF g, h
<1>1. /\ k \in Kinds /\ "source_addr" \in c.addresses
         /\ "destination_addr" \in c.addresses
      /\ "registered_delivery" \in c.octets /\ "data_coding" \in c.octets
      /\ "short_message" \in c.text
  BY PduAssumption
<1>2. /\ "source_addr" \in Counted(k) /\ "destination_addr" \in Counted(k)
      /\ "short_message" \in Counted(k)
      /\ "source_addr" \notin c.strings /\ "destination_addr" \notin c.strings
      /\ "short_message" \notin c.strings
      /\ \A x \in c.addresses : /\ x \in Fields(k) /\ x # "registered_delivery"
                                /\ x # "data_coding" /\ x # "short_message"
      /\ "short_message" \in Fields(k)
  BY <1>1, Members DEF Counted, Fields
<1>3. 1 \in Uint8 /\ 4 \in Uint8 /\ coding \in Uint8 /\ 1 \in Uint16
  BY DEF Uint8, Uint16, Codings, Unicode, Flash
<1>4. Right(a) /\ a.kind = k /\ a.val = [x \in Fields(k) |-> 0]
      /\ a.tlvs = <<>>
  BY <1>1, DefaultRight, MandatoryAre
<1> HIDE DEF a
<1>5. Right(b) /\ b.kind = k /\ b.val = [a.val EXCEPT !["source_addr"] = 4]
      /\ b.tlvs = <<>>
  <2>1. Limited(a.kind, "source_addr", 4) /\ "source_addr" \in Counted(a.kind)
    BY <1>2, <1>4 DEF Limited
  <2> QED BY <1>3, <1>4, <2>1, SetLengthRight
<1> HIDE DEF b
<1>6. Right(d) /\ d.kind = k
      /\ d.val = [b.val EXCEPT !["destination_addr"] = 4] /\ d.tlvs = <<>>
  <2>1. Limited(b.kind, "destination_addr", 4)
        /\ "destination_addr" \in Counted(b.kind)
    BY <1>2, <1>5 DEF Limited
  <2> QED BY <1>3, <1>5, <2>1, SetLengthRight
<1> HIDE DEF d
<1>7. Right(e) /\ e.kind = k
      /\ e.val = [d.val EXCEPT !["registered_delivery"] = 1] /\ e.tlvs = <<>>
  BY <1>1, <1>3, <1>6, WithOctetRight
<1> HIDE DEF e
<1>8. Right(f) /\ f.kind = k
      /\ f.val = [e.val EXCEPT !["data_coding"] = coding] /\ f.tlvs = <<>>
  <2>1. Right(e) /\ "data_coding" \in Layout[e.kind].octets /\ coding \in Uint8
    BY <1>1, <1>3, <1>7
  <2> QED BY <1>7, <2>1, WithOctetRight
<1>9. f = [d EXCEPT !.val["registered_delivery"] = 1, !.val["data_coding"] = coding]
  BY DEF WithOctet, e
<1> HIDE DEF f
<1>10. /\ f.val \in [Fields(k) -> Nat] /\ f.val["short_message"] = 0
       /\ \A x \in c.addresses : f.val[x] < MaxLen
  <2>1. /\ "source_addr" \in Fields(k) /\ "destination_addr" \in Fields(k)
        /\ "registered_delivery" \in Fields(k) /\ "data_coding" \in Fields(k)
    BY <1>1 DEF Fields, Counted
  <2>2. "short_message" \notin c.addresses /\ "short_message" \notin c.octets
    BY <1>1, Members
  <2>3. f.val \in [Fields(k) -> Nat]
    BY <1>8, SoundIs DEF Right, Uint8
  <2>4. b.val \in [Fields(k) -> Nat] /\ d.val \in [Fields(k) -> Nat]
        /\ e.val \in [Fields(k) -> Nat]
    BY <1>5, <1>6, <1>7, SoundIs DEF Right, Uint8
  <2>5. \A x \in Fields(k) :
          /\ a.val[x] = 0
          /\ b.val[x] = IF x = "source_addr" THEN 4 ELSE a.val[x]
          /\ d.val[x] = IF x = "destination_addr" THEN 4 ELSE b.val[x]
          /\ e.val[x] = IF x = "registered_delivery" THEN 1 ELSE d.val[x]
          /\ f.val[x] = IF x = "data_coding" THEN coding ELSE e.val[x]
    BY <1>4, <1>5, <1>6, <1>7, <1>8, <2>1, <2>4
  <2>6. f.val["short_message"] = 0
    BY <1>1, <1>2, <2>2, <2>5
  <2>7. ASSUME NEW x \in c.addresses PROVE f.val[x] < MaxLen
    BY <1>2, <2>5 DEF MaxLen
  <2> QED BY <2>3, <2>6, <2>7
<1>11. /\ Right(g) /\ g.kind = k /\ \A x \in c.addresses : g.val[x] < MaxLen
       /\ \/ n = NoForm /\ g.val["short_message"] = 0 /\ g.tlvs = <<>>
          \/ n # NoForm /\ g.val["short_message"] = n /\ g.tlvs = <<>>
          \/ /\ n # NoForm /\ g.val["short_message"] = 0
             /\ n \in Uint16 /\ g.tlvs = <<Tlv(message_payload, n)>>
  <2>0. CASE n = NoForm
    <3>1. g = f
      BY <2>0 DEF g
    <3> QED BY <1>8, <1>10, <2>0, <3>1
  <2>1. CASE n \in Uint16 /\ n < 256
    <3>1. n \in Uint8 /\ n % 256 = n /\ n # NoForm
      BY <2>1 DEF Uint8, Uint16, NoForm
    <3>2. g = SetLength(f, "short_message", n)
      BY <2>1, <3>1 DEF SetText, g
    <3>3. Limited(f.kind, "short_message", n)
          /\ "short_message" \in Counted(f.kind)
      BY <1>2, <1>8 DEF Limited
    <3>4. /\ Right(g) /\ g.kind = k /\ g.tlvs = <<>>
          /\ g.val = [f.val EXCEPT !["short_message"] = n]
      BY <1>8, <3>1, <3>2, <3>3, SetLengthRight
    <3>5. g.val["short_message"] = n
          /\ \A x \in c.addresses : g.val[x] = f.val[x]
      BY <1>2, <1>10, <3>4
    <3> QED BY <1>10, <3>1, <3>4, <3>5
  <2>2. CASE n \in Uint16 /\ ~ (n < 256)
    <3>0. n # NoForm
      BY <2>2 DEF Uint16, NoForm
    <3>1. Tlv(message_payload, n) \in TlvSet
      BY <2>2, MandatoryAre DEF Tlv, TlvSet
    <3>2. g = InsertTlv(f, Tlv(message_payload, n))
      BY <2>2, <3>0 DEF SetText, g
    <3>3. OnlyTlvs(f, g) /\ g.tlvs = Append(f.tlvs, Tlv(message_payload, n))
      BY <1>8, <3>1, <3>2, InsertTlvRight
    <3>4. Append(<<>>, Tlv(message_payload, n)) = <<Tlv(message_payload, n)>>
      OBVIOUS
    <3> QED BY <1>8, <1>10, <2>2, <3>0, <3>3, <3>4 DEF OnlyTlvs, SameMembers
  <2> QED BY <2>0, <2>1, <2>2
<1>12. h = IF coding = Flash THEN InsertTlv(g, t) ELSE g
  BY <1>9 DEF SubmitSm, d, b, a, g, h
<1>13. t \in TlvSet
  BY <1>3, MandatoryAre DEF Tlv, TlvSet
<1>14. /\ Right(h) /\ h.kind = k /\ h.val = g.val
       /\ h.tlvs = g.tlvs \/ h.tlvs = Append(g.tlvs, t)
  <2>1. CASE coding = Flash
    BY <1>11, <1>12, <1>13, <2>1, InsertTlvRight DEF OnlyTlvs, SameMembers
  <2>2. CASE coding # Flash
    BY <1>11, <1>12, <2>2
  <2> QED BY <2>1, <2>2
<1>15. Once(h, n)
  <2>1. Append(<<>>, t) = <<t>>
    OBVIOUS
  <2>2. Append(<<Tlv(message_payload, n)>>, t) = <<Tlv(message_payload, n), t>>
    <3> DEFINE V == {Tlv(message_payload, n), t}
    <3>1. Tlv(message_payload, n) \in V /\ t \in V
      OBVIOUS
    <3> HIDE DEF V, t
    <3> QED BY <3>1, AppendToOne
  <2>3. \/ /\ h.tlvs \in {<<>>, <<t>>}
           /\ IF n = NoForm THEN h.val["short_message"] = 0
              ELSE h.val["short_message"] = n
        \/ /\ n # NoForm /\ h.val["short_message"] = 0
           /\ h.tlvs \in {<<Tlv(message_payload, n)>>,
                          <<Tlv(message_payload, n), t>>}
    <3> HIDE DEF t
    <3> QED BY <1>11, <1>14, <2>1, <2>2
  <2>4. /\ h.tlvs = <<>> => Payloads(h) = {}
        /\ h.tlvs = <<Tlv(message_payload, n)>> => Payloads(h) = {n}
        /\ h.tlvs = <<t>> => Payloads(h) = {}
        /\ h.tlvs = <<Tlv(message_payload, n), t>> => Payloads(h) = {n}
    BY OnePayload
  <2> HIDE DEF t
  <2> QED BY <2>3, <2>4 DEF Once
<1>16. CanDecode(h)
  <2>1. RequiredTags(k) = {}
    BY DEF RequiredTags
  <2> QED BY <1>11, <1>14, <2>1 DEF CanDecode
<1> QED BY <1>14, <1>15, <1>16 DEF h

(****************************************************************************)
(* The inductive invariant.                                                 *)
(****************************************************************************)

(* The inductive invariant. *)
Switches(p) == \A f \in Layout[p.kind].octets : p.val[f] \in {0, 1}
PduInvariant ==
  /\ meddled \in BOOLEAN
  /\ sms \in [text : Texts, coding : Codings] \cup {None}
  /\ calls \in 0 .. MaxCalls
  /\ Exists => Right(pdu) /\ (sms = None => Switches(pdu))
  /\ sms # None => /\ Exists /\ pdu.kind = "submit_sm" /\ CanDecode(pdu)
                   /\ Once(pdu, Converted(sms.text, sms.coding))

(* An object is not None. *)
LEMMA NotNone ==
  ASSUME NEW p, Right(p)
  PROVE  p # None
<1>1. p \in Pdus
  BY DEF Right, Sound
<1>2. "length" \in DOMAIN p /\ "length" \notin DOMAIN None
  BY <1>1 DEF Pdus, None
<1> QED BY <1>2

(* None is not an SMS. *)
LEMMA NotAnSms == None \notin [text : Texts, coding : Codings]
<1> SUFFICES ASSUME NEW s \in [text : Texts, coding : Codings] PROVE s # None
  OBVIOUS
<1>1. "text" \in DOMAIN s /\ "text" \notin DOMAIN None
  BY DEF None
<1> QED BY <1>1

(* The invariant holds before there is an object. *)
LEMMA PduInit == Init => PduInvariant
<1> SUFFICES ASSUME Init PROVE PduInvariant
  OBVIOUS
<1>1. 0 \in 0 .. MaxCalls
  BY PduAssumption
<1> QED BY <1>1 DEF Init, PduInvariant, Exists

(* A call leaves a PDU whose length is right and whose octets are switches. *)
LEMMA CallKeeps ==
  ASSUME PduInvariant, NEW q, Call(q), meddled' \in BOOLEAN, Exists,
         Right(pdu) => Right(q) /\ (Switches(pdu) => Switches(q))
  PROVE  PduInvariant'
<1>1. pdu' = q /\ sms' = None /\ sms = None /\ calls' \in 0 .. MaxCalls
  BY PduAssumption DEF Call, PduInvariant
<1>2. Right(pdu) /\ Switches(pdu)
  BY <1>1 DEF PduInvariant
<1>3. Right(pdu') /\ Switches(pdu')
  BY <1>1, <1>2
<1> QED BY <1>1, <1>3 DEF PduInvariant

(* A call about TLVs leaves the octets alone. *)
LEMMA KeptSwitches ==
  ASSUME NEW p, NEW q, Kept(p, q), Switches(p)
  PROVE  Switches(q)
BY DEF Kept, SameMembers, Switches

(* A constructor that makes a right object keeps the invariant. *)
LEMMA CreateKeeps ==
  ASSUME PduInvariant, NEW q, Create(q), Right(q),
         \/ sms' = None /\ Switches(q)
         \/ /\ sms' \in [text : Texts, coding : Codings]
            /\ q.kind = "submit_sm" /\ CanDecode(q)
            /\ Once(q, Converted(sms'.text, sms'.coding))
  PROVE  PduInvariant'
<1>1. pdu' = q /\ meddled' = FALSE /\ calls' = 0 /\ 0 \in 0 .. MaxCalls
  BY PduAssumption DEF Create
<1>2. q # None
  BY NotNone
<1>3. Exists'
  BY <1>1, <1>2 DEF Exists, None
<1>4. None \notin [text : Texts, coding : Codings]
  BY NotAnSms
<1>5. Right(pdu') /\ (sms' = None => Switches(pdu'))
  BY <1>1, <1>4
<1>6. sms' # None => /\ pdu'.kind = "submit_sm" /\ CanDecode(pdu')
                          /\ Once(pdu', Converted(sms'.text, sms'.coding))
  BY <1>1
<1> QED BY <1>1, <1>3, <1>5, <1>6 DEF PduInvariant

(* The default constructor keeps it. *)
LEMMA DefaultKeeps ==
  ASSUME PduInvariant, NEW k \in Kinds, DefaultConstructor(k)
  PROVE  PduInvariant'
<1> DEFINE q == Default(k)
<1>1. Create(q) /\ sms' = None
  BY DEF DefaultConstructor
<1>2. Right(q) /\ q.kind = k /\ q.val = [f \in Fields(k) |-> 0]
  BY DefaultRight
<1> HIDE DEF q
<1>3. Switches(q)
  BY <1>2 DEF Switches, Fields
<1> QED BY <1>1, <1>2, <1>3, CreateKeeps

(* The constructor with the mandatory parameters keeps it. *)
LEMMA ConstructKeeps ==
  ASSUME PduInvariant, NEW k \in Kinds, NEW n \in Lengths, NEW t \in TextLengths,
         MandatoryConstructor(k, n, t, 1)
  PROVE  PduInvariant'
<1> DEFINE q == Construct(k, n, t, 1)
<1>1. Create(q) /\ sms' = None
  BY DEF MandatoryConstructor
<1>2. Right(q) /\ q.kind = k /\ \A f \in Layout[k].octets : q.val[f] = 1
  <2>1. n \in Nat /\ t \in Uint8 /\ 1 \in Uint8
    BY PduAssumption DEF Uint8
  <2>2. \A f \in Counted(k) \ Layout[k].text : n <= LimitOf(k, f)
    BY DEF MandatoryConstructor
  <2> QED BY <2>1, <2>2, ConstructRight
<1> HIDE DEF q
<1>3. Switches(q)
  BY <1>2 DEF Switches
<1> QED BY <1>1, <1>2, <1>3, CreateKeeps

(* The setters of strings, addresses and texts keep it. *)
LEMMA SetMemberKeeps ==
  ASSUME PduInvariant, Exists, NEW f \in Counted(pdu.kind), SetMember(f)
  PROVE  PduInvariant'
<1> DEFINE k == pdu.kind
<1>1. PICK n \in SetterLengths(k, f) : Call(SetLength(pdu, f, n))
      /\ meddled' = meddled
  BY DEF SetMember
<1>2. Right(pdu) /\ k \in Kinds
  BY SoundIs DEF PduInvariant, Right
<1>3. n \in Uint8 /\ Limited(k, f, n)
  <2>1. TextLengths \subseteq Uint8 /\ Lengths \subseteq Nat
    BY PduAssumption
  <2>2. f \in Layout[k].strings => f \notin Layout[k].text
    BY <1>2, Members
  <2>3. CASE f \in Layout[k].text
    <3>1. n \in TextLengths
      BY <2>3 DEF SetterLengths
    <3> QED BY <2>1, <2>2, <2>3, <3>1 DEF Limited
  <2>4. CASE f \notin Layout[k].text
    <3>1. LimitOf(k, f) \in Nat
      BY <1>2, Limits DEF Uint8
    <3>2. n \in Nat /\ n <= LimitOf(k, f)
      <4>1. n \in {m \in Lengths : m <= LimitOf(k, f)} \/ n = LimitOf(k, f)
        BY <2>4 DEF SetterLengths
      <4>2. CASE n \in {m \in Lengths : m <= LimitOf(k, f)}
        BY <2>1, <4>2
      <4>3. CASE n = LimitOf(k, f)
        BY <3>1, <4>3
      <4> QED BY <4>1, <4>2, <4>3
    <3> QED BY <1>2, <3>2, Limits DEF Limited
  <2> QED BY <2>3, <2>4
<1> DEFINE q == SetLength(pdu, f, n)
<1>4. Right(q) /\ q.kind = k /\ q.val = [pdu.val EXCEPT ![f] = n]
  BY <1>2, <1>3, SetLengthRight
<1> HIDE DEF q
<1>5. Switches(pdu) => Switches(q)
  <2>1. \A g \in Layout[k].octets : g # f /\ g \in Fields(k)
    BY <1>2, Members
  <2>2. pdu.val \in [Fields(k) -> Uint8]
    BY <1>2, SoundIs DEF Right
  <2>3. \A g \in Layout[k].octets : q.val[g] = pdu.val[g]
    BY <1>4, <2>1, <2>2
  <2> QED BY <1>4, <2>3 DEF Switches
<1>6. meddled' \in BOOLEAN /\ Call(q)
  BY <1>1 DEF PduInvariant, q
<1> QED BY <1>4, <1>5, <1>6, CallKeeps

(* The setters of octets keep it. *)
LEMMA SetOctetKeeps ==
  ASSUME PduInvariant, Exists, NEW f \in Layout[pdu.kind].octets, SetOctet(f)
  PROVE  PduInvariant'
<1> DEFINE k == pdu.kind
           n == 1 - pdu.val[f]
           q == WithOctet(pdu, f, n)
<1>1. Call(q) /\ meddled' = meddled
  BY DEF SetOctet, WithOctet
<1>2. Right(pdu) /\ Switches(pdu) /\ k \in Kinds
  BY <1>1, SoundIs DEF PduInvariant, Right, Call
<1>3. n \in Uint8 /\ n \in {0, 1}
  BY <1>2 DEF Switches, Uint8
<1> HIDE DEF n
<1>4. Right(q) /\ q.kind = k /\ q.val = [pdu.val EXCEPT ![f] = n]
  BY <1>2, <1>3, WithOctetRight
<1> HIDE DEF q
<1>5. Switches(q)
  <2>1. \A g \in Layout[k].octets : g \in Fields(k)
    BY <1>2, Members
  <2>2. pdu.val \in [Fields(k) -> Uint8]
    BY <1>2, SoundIs DEF Right
  <2>3. \A g \in Layout[k].octets : q.val[g] = IF g = f THEN n ELSE pdu.val[g]
    BY <1>4, <2>1, <2>2
  <2> QED BY <1>2, <1>3, <1>4, <2>3 DEF Switches
<1>6. meddled' \in BOOLEAN
  BY <1>1 DEF PduInvariant
<1> QED BY <1>1, <1>4, <1>5, <1>6, CallKeeps

(* add() of a list keeps it; a submit_sm has no list. *)
LEMMA AddToListKeeps ==
  ASSUME PduInvariant, NEW flag \in {"sme", "list", "unsuccess"}, NEW n \in Lengths,
         AddToList(flag, n)
  PROVE  PduInvariant'
<1> DEFINE e == Entry(flag, n)
           q == AddEntry(pdu, e)
<1>1. Exists /\ e.flag \in EntryFlags(pdu.kind) /\ pdu' = q
      /\ meddled' = meddled /\ sms' = sms /\ calls' = calls
  BY DEF AddToList, Entry
<1>2. Right(pdu)
  BY <1>1 DEF PduInvariant
<1>3. e \in EntrySet
  <2>1. n \in Nat /\ (flag # "list" => n < MaxLen)
    BY PduAssumption DEF AddToList
  <2> QED BY <2>1 DEF Entry, EntrySet
<1> HIDE DEF e
<1>4. Right(q) /\ q.kind = pdu.kind /\ q.val = pdu.val
  BY <1>1, <1>2, <1>3, AddEntryRight
<1> HIDE DEF q
<1>5. sms = None
  <2>1. EntryFlags("submit_sm") = {}
    BY DEF EntryFlags
  <2> QED BY <1>1, <2>1 DEF PduInvariant
<1>6. Switches(pdu')
  BY <1>1, <1>4, <1>5 DEF PduInvariant, Switches
<1> QED BY <1>1, <1>4, <1>5, <1>6 DEF PduInvariant

(* insert_tlv keeps it. *)
LEMMA InsertKeeps ==
  ASSUME PduInvariant, NEW tag \in Uint16, NEW n \in TlvLengths, Insert(Tlv(tag, n))
  PROVE  PduInvariant'
<1> DEFINE t == Tlv(tag, n)
           q == InsertTlv(pdu, t)
<1>1. Exists /\ Call(q) /\ meddled' \in BOOLEAN
  BY DEF Insert, PduInvariant
<1>2. t \in TlvSet
  <2>1. n \in Uint16
    BY PduAssumption DEF Uint16
  <2> QED BY <2>1 DEF Tlv, TlvSet
<1>3. Right(pdu)
  BY <1>1 DEF PduInvariant
<1> HIDE DEF t
<1>4. OnlyTlvs(pdu, q)
  BY <1>2, <1>3, InsertTlvRight
<1> HIDE DEF q
<1>5. Right(q) /\ (Switches(pdu) => Switches(q))
  BY <1>4, KeptSwitches DEF OnlyTlvs, Kept
<1> QED BY <1>1, <1>5, CallKeeps

(* remove_tlv keeps it. *)
LEMMA RemoveKeeps ==
  ASSUME PduInvariant, NEW tag, RemoveAll(tag)
  PROVE  PduInvariant'
<1> DEFINE q == RemoveTlv(pdu, tag)
<1>1. Exists /\ Call(q) /\ meddled' \in BOOLEAN
  BY DEF RemoveAll, PduInvariant
<1>3. Right(pdu)
  BY <1>1 DEF PduInvariant
<1>4. OnlyTlvs(pdu, q)
  BY <1>3, RemoveTlvRight
<1> HIDE DEF q
<1>5. Right(q) /\ (Switches(pdu) => Switches(q))
  BY <1>4, KeptSwitches DEF OnlyTlvs, Kept
<1> QED BY <1>1, <1>5, CallKeeps

(* broadcast_area_identifier(p) keeps it. *)
LEMMA SetAreaKeeps ==
  ASSUME PduInvariant, NEW n \in TlvLengths, SetAreaIdentifier(n + 1)
  PROVE  PduInvariant'
<1> DEFINE m == n + 1
           q == AreaIdentifier(pdu, m)
<1>1. Exists /\ Call(q) /\ meddled' \in BOOLEAN
  BY DEF SetAreaIdentifier, PduInvariant
<1>2. m \in Uint16
  BY PduAssumption
<1>3. Right(pdu)
  BY <1>1 DEF PduInvariant
<1> HIDE DEF m
<1>4. Kept(pdu, q)
  BY <1>2, <1>3, AreaIdentifierRight
<1> HIDE DEF q
<1>5. Right(q) /\ (Switches(pdu) => Switches(q))
  BY <1>4, KeptSwitches DEF Kept
<1> QED BY <1>1, <1>5, CallKeeps

(* The setters of the other mandatory TLVs keep it. *)
LEMMA SetMandatoryKeeps ==
  ASSUME PduInvariant, NEW i \in 2 .. 4, SetMandatoryTlv(i)
  PROVE  PduInvariant'
<1> DEFINE q == SetMandatory(pdu, i)
<1>1. Exists /\ Call(q) /\ meddled' \in BOOLEAN
      /\ i \in 2 .. Len(MandatoryTlvs(pdu.kind))
  BY DEF SetMandatoryTlv, PduInvariant
<1>2. i \in 1 .. Len(MandatoryTlvs(pdu.kind))
  BY <1>1
<1>3. Right(pdu)
  BY <1>1 DEF PduInvariant
<1>4. Kept(pdu, q)
  BY <1>2, <1>3, SetMandatoryRight
<1> HIDE DEF q
<1>5. Right(q) /\ (Switches(pdu) => Switches(q))
  BY <1>4, KeptSwitches DEF Kept
<1> QED BY <1>1, <1>5, CallKeeps

(* Esme::SendSubmitSm keeps it. *)
LEMMA SendSubmitSmKeeps ==
  ASSUME PduInvariant, NEW text \in Texts, NEW coding \in Codings,
         SendSubmitSm(text, coding)
  PROVE  PduInvariant'
<1> DEFINE n == Converted(text, coding)
           q == SubmitSm(n, coding)
<1>1. Create(q) /\ sms' = [text |-> text, coding |-> coding]
  BY DEF SendSubmitSm, SubmitSm
<1> HIDE DEF n
<1>2. Right(q) /\ q.kind = "submit_sm" /\ CanDecode(q) /\ Once(q, n)
  BY ConvertedIs, SubmitSmRight DEF n
<1> HIDE DEF q
<1>3. /\ sms' \in [text : Texts, coding : Codings]
      /\ Once(q, Converted(sms'.text, sms'.coding))
  BY <1>1, <1>2 DEF n
<1> QED BY <1>1, <1>2, <1>3, CreateKeeps

(* The constructor from a buffer keeps it. *)
LEMMA ReceiveKeeps ==
  ASSUME PduInvariant, Receive
  PROVE  PduInvariant'
<1>1. Exists /\ Received(pdu).ok /\ meddled' = meddled /\ sms' = sms
      /\ calls' = calls
  BY DEF Receive, Received
<1>2. PICK flag \in BOOLEAN : pdu' = WithFlag(Received(pdu).pdu, flag)
  BY DEF Receive, Received, WithFlag
<1>3. Right(pdu)
  BY <1>1 DEF PduInvariant
<1>4. pdu' = WithFlag(pdu, flag)
  BY <1>1, <1>2, <1>3, ReceivedIs
<1>5. Kept(pdu, pdu') /\ pdu'.tlvs = pdu.tlvs
  BY <1>3, <1>4, WithFlagRight
<1>6. Right(pdu') /\ (Switches(pdu) => Switches(pdu'))
  BY <1>5, KeptSwitches DEF Kept
<1>7. pdu' # None
  BY <1>6, NotNone
<1>8. pdu'.kind = pdu.kind /\ pdu'.val = pdu.val
  BY <1>5 DEF Kept, SameMembers
<1>9. /\ CanDecode(pdu) => CanDecode(pdu')
      /\ \A n : Once(pdu, n) => Once(pdu', n)
  BY <1>1, <1>5, <1>8 DEF CanDecode, Once, Payloads
<1>10. Exists' /\ meddled' \in BOOLEAN
       /\ sms' \in [text : Texts, coding : Codings] \cup {None}
          /\ calls' \in 0 .. MaxCalls
  BY <1>1, <1>7 DEF Exists, None, PduInvariant
<1>11. sms' = None => Switches(pdu')
  BY <1>1, <1>6 DEF PduInvariant
<1>12. sms' # None => /\ pdu'.kind = "submit_sm" /\ CanDecode(pdu')
                          /\ Once(pdu', Converted(sms'.text, sms'.coding))
  BY <1>1, <1>8, <1>9 DEF PduInvariant
<1> QED BY <1>6, <1>10, <1>11, <1>12 DEF PduInvariant

(* The destructor keeps it. *)
LEMMA DestroyKeeps ==
  ASSUME PduInvariant, Destroy
  PROVE  PduInvariant'
<1>1. pdu' = None /\ meddled' = FALSE /\ sms' = None /\ calls' = 0
      /\ 0 \in 0 .. MaxCalls
  BY PduAssumption DEF Destroy
<1> QED BY <1>1 DEF PduInvariant, Exists, None

(* Every call keeps it. *)
LEMMA PduNext == PduInvariant /\ [Next]_vars => PduInvariant'
<1> SUFFICES ASSUME PduInvariant, [Next]_vars PROVE PduInvariant'
  OBVIOUS
<1>1. CASE UNCHANGED vars
  BY <1>1 DEF vars, PduInvariant, Exists, None
<1>2. ASSUME NEW k \in Kinds, DefaultConstructor(k) PROVE PduInvariant'
  BY <1>2, DefaultKeeps
<1>3. ASSUME NEW k \in Kinds, NEW n \in Lengths, NEW t \in TextLengths,
             MandatoryConstructor(k, n, t, 1)
      PROVE  PduInvariant'
  BY <1>3, ConstructKeeps
<1>4. ASSUME Exists, NEW f \in Counted(pdu.kind), SetMember(f) PROVE PduInvariant'
  BY <1>4, SetMemberKeeps
<1>5. ASSUME Exists, NEW f \in Layout[pdu.kind].octets, SetOctet(f) PROVE PduInvariant'
  BY <1>5, SetOctetKeeps
<1>6. ASSUME NEW flag \in {"sme", "list", "unsuccess"}, NEW n \in Lengths, AddToList(flag, n)
      PROVE  PduInvariant'
  BY <1>6, AddToListKeeps
<1>7. ASSUME Exists, NEW tag \in MandatoryTags(pdu.kind) \cup {OptionalTag}, NEW n \in TlvLengths,
             Insert(Tlv(tag, n)) \/ RemoveAll(tag)
      PROVE  PduInvariant'
  <2>1. tag \in Uint16
    BY MandatoryAre DEF OptionalTag
  <2> QED BY <1>7, <2>1, InsertKeeps, RemoveKeeps
<1>8. ASSUME NEW n \in TlvLengths, SetAreaIdentifier(n + 1) PROVE PduInvariant'
  BY <1>8, SetAreaKeeps
<1>9. ASSUME NEW i \in 2 .. 4, SetMandatoryTlv(i) PROVE PduInvariant'
  BY <1>9, SetMandatoryKeeps
<1>10. ASSUME NEW text \in Texts, NEW coding \in Codings, SendSubmitSm(text, coding)
       PROVE  PduInvariant'
  BY <1>10, SendSubmitSmKeeps
<1>11. CASE Receive
  BY <1>11, ReceiveKeeps
<1>12. CASE Destroy
  BY <1>12, DestroyKeeps
<1> QED BY <1>1, <1>2, <1>3, <1>4, <1>5, <1>6, <1>7, <1>8, <1>9, <1>10,
           <1>11, <1>12 DEF Next

(* At any time command_length is what encode writes, the members are within the
   limits of their types, and a PDU built for an SMS can be decoded and has
   its converted text once. *)
THEOREM PduInvariance == Spec => []PduInvariant
BY PduInit, PduNext, PTL DEF Spec

(****************************************************************************)
(* The properties.                                                          *)
(****************************************************************************)

(* The object has the members of its class, and a list no more entries than its
   count octet can say, after any sequence of calls. *)
THEOREM TypeCorrect == Spec => []TypeOK
<1>1. PduInvariant => TypeOK
  <2> SUFFICES ASSUME PduInvariant PROVE TypeOK
    OBVIOUS
  <2>1. CASE ~ Exists
    BY <2>1 DEF PduInvariant, TypeOK
  <2>2. CASE Exists
    <3>1. Right(pdu) /\ Sound(pdu) /\ pdu \in Pdus
      BY <2>2 DEF PduInvariant, Right, Sound
    <3>2. /\ pdu.kind \in Kinds /\ pdu.val \in [Fields(pdu.kind) -> Uint8]
          /\ pdu.list \in Seq(EntrySet) /\ pdu.tlvs \in Seq(TlvSet)
             /\ pdu.isDefault \in BOOLEAN
          /\ EntriesOf(pdu.kind, pdu.list) /\ Len(pdu.list) <= ListLimit
      BY <3>1, SoundIs
    <3>3. pdu.length \in Nat
      <4> DEFINE x == FieldsOctets(pdu)
                 y == TlvOctets(pdu.tlvs)
      <4>1. x \in Nat /\ y \in Nat /\ pdu.length = 16 + x + y
        BY <3>1, <3>2, FieldFramesAre, TlvFramesAre DEF Right
      <4> HIDE DEF x, y
      <4> QED BY <4>1
    <3>4. pdu.val \in [Fields(pdu.kind) -> Nat]
      BY <3>2 DEF Uint8
    <3>5. \A i \in DOMAIN pdu.list :
            pdu.list[i].flag \in EntryFlags(pdu.kind)
            /\ pdu.list[i].len \in Nat
      <4>1. DOMAIN pdu.list = 1 .. Len(pdu.list)
            /\ \A i \in 1 .. Len(pdu.list) : pdu.list[i] \in EntrySet
        BY <3>2
      <4>2. \A e \in EntrySet : e.len \in Nat
        BY DEF EntrySet
      <4> QED BY <3>2, <4>1, <4>2 DEF EntriesOf
    <3>6. \A i \in DOMAIN pdu.tlvs : pdu.tlvs[i] \in [tag : Nat, len : Nat]
      <4>1. DOMAIN pdu.tlvs = 1 .. Len(pdu.tlvs)
            /\ \A i \in 1 .. Len(pdu.tlvs) : pdu.tlvs[i] \in TlvSet
        BY <3>2
      <4>2. \A t \in TlvSet : t \in [tag : Nat, len : Nat]
        BY DEF TlvSet, Uint16
      <4> QED BY <4>1, <4>2
    <3>7. /\ meddled \in BOOLEAN
             /\ sms \in [text : Texts, coding : Codings] \cup {None}
          /\ calls \in 0 .. MaxCalls
      BY DEF PduInvariant
    <3> QED BY <3>2, <3>3, <3>4, <3>5, <3>6, <3>7 DEF TypeOK
  <2> QED BY <2>1, <2>2
<1> QED BY <1>1, PduInvariance, PTL

(* encode() writes as many octets as it has allocated, whatever constructors,
   setters and TLV operations were called before, in any order. *)
THEOREM LengthIsRight == Spec => []LengthIsEncoded
<1>1. PduInvariant => LengthIsEncoded
  <2> SUFFICES ASSUME PduInvariant, Exists PROVE Len(Encode(pdu)) = pdu.length
    BY DEF LengthIsEncoded
  <2>1. Right(pdu) /\ Sound(pdu)
    BY DEF PduInvariant, Right
  <2> QED BY <2>1, RightIs
<1> QED BY <1>1, PduInvariance, PTL

(* A frame is refused if and only if a required TLV is missing or an address is
   longer than MaxLen; otherwise decode() returns the object that was encoded. *)
THEOREM DecodeUndoesEncode == Spec => []RoundTrip
<1>1. PduInvariant => RoundTrip
  <2> SUFFICES ASSUME PduInvariant PROVE RoundTrip
    OBVIOUS
  <2>1. CASE ~ Exists
    BY <2>1 DEF RoundTrip
  <2>2. CASE Exists
    <3>1. Right(pdu)
      BY <2>2 DEF PduInvariant
    <3>2. /\ Received(pdu).ok \in BOOLEAN
          /\ Received(pdu).ok <=> CanDecode(pdu)
          /\ Received(pdu).ok
               => WithFlag(Received(pdu).pdu, pdu.isDefault) = pdu
      BY <3>1, ReceivedIs
    <3>3. Decodable <=> CanDecode(pdu)
      BY DEF Decodable, CanDecode
    <3> HIDE DEF Decodable
    <3> QED BY <3>2, <3>3 DEF RoundTrip, Received, WithFlag
  <2> QED BY <2>1, <2>2
<1> QED BY <1>1, PduInvariance, PTL

(* The text of an SMS arrives once and whole, in short_message or in
   message_payload, a unicode text as its UCS2 form; of a unicode text without
   such a form, or with more than 256 characters, nothing arrives. *)
THEOREM TextArrives == Spec => []TextArrivesOnce
<1>1. PduInvariant => TextArrivesOnce
  <2> SUFFICES ASSUME PduInvariant PROVE TextArrivesOnce
    OBVIOUS
  <2>1. CASE sms = None
    BY <2>1 DEF TextArrivesOnce
  <2>2. CASE sms # None
    <3> DEFINE n == Converted(sms.text, sms.coding)
    <3>2. Right(pdu) /\ pdu.kind = "submit_sm" /\ CanDecode(pdu)
          /\ Once(pdu, n)
      BY <2>2 DEF PduInvariant
    <3> HIDE DEF n
    <3> DEFINE got == Received(pdu).pdu
    <3>3. got = WithFlag(pdu, FALSE)
      BY <3>2, ReceivedIs
    <3>4. got.tlvs = pdu.tlvs /\ got.val = pdu.val
      BY <3>2, <3>3, WithFlagRight DEF Kept, SameMembers
    <3>5. Decode("submit_sm", Encode(pdu)).pdu = got
      BY <3>2 DEF Received
    <3> HIDE DEF got
    <3>6. Once(got, n)
      BY <3>2, <3>4 DEF Once, Payloads
    <3> DEFINE ucs2 == sms.text.ucs2
               unicode == sms.coding = Unicode
               length == IF unicode THEN ucs2 ELSE sms.text.octets
               lost == unicode /\ (ucs2 = NoForm \/ ucs2 > 2 * 256)
    <3>7. n = IF lost THEN NoForm ELSE length
      <4>1. sms \in [text : Texts, coding : Codings]
        BY <2>2 DEF PduInvariant
      <4>2. ucs2 \in Int /\ sms.text.octets \in Nat
        BY <4>1, PduAssumption DEF Texts, Uint16, NoForm
      <4> QED BY <4>2 DEF n, Converted, NoForm, UcsRoom
    <3>8. ~ lost => length # NoForm
      <4>1. sms.text.octets \in Nat
        BY <2>2, PduAssumption DEF PduInvariant, Texts, Uint16
      <4> QED BY <4>1 DEF NoForm
    <3>9. IF lost THEN got.val["short_message"] = 0 /\ Payloads(got) = {}
          ELSE \/ got.val["short_message"] = length /\ Payloads(got) = {}
               \/ got.val["short_message"] = 0 /\ Payloads(got) = {length}
      <4> HIDE DEF lost, length
      <4> QED BY <3>6, <3>7, <3>8 DEF Once
    <3> QED BY <3>5, <3>9 DEF TextArrivesOnce, Payloads
  <2> QED BY <2>1, <2>2
<1> QED BY <1>1, PduInvariance, PTL

(****************************************************************************)
(* Mandatory TLVs: taking TLVs out of a list.                               *)
(****************************************************************************)

(* Where the TLVs of a tag are. *)
At(l, tag) == {j \in 1 .. Len(l) : l[j].tag = tag}
Single(l, tag) == \A x, y \in At(l, tag) : x = y
Before(l, s, u) == \A x \in At(l, s), y \in At(l, u) : x < y

(* r is l without the TLVs of a tag: m tells where each was. *)
Thinned(l, r, tag, m) ==
  /\ m \in [1 .. Len(r) -> 1 .. Len(l)]
  /\ \A i \in 1 .. Len(r) : r[i] = l[m[i]] /\ r[i].tag # tag
  /\ \A i, j \in 1 .. Len(r) : i < j => m[i] < m[j]
  /\ \A x \in 1 .. Len(l) : l[x].tag # tag => \E i \in 1 .. Len(r) : m[i] = x

(* A TLV more at the end of both. *)
LEMMA ThinnedMore ==
  ASSUME NEW l \in Seq(TlvSet), NEW r \in Seq(TlvSet), NEW tag, NEW t \in TlvSet,
         NEW m, Thinned(l, r, tag, m)
  PROVE  IF t.tag = tag THEN Thinned(Append(l, t), r, tag, m)
         ELSE \E h : Thinned(Append(l, t), Append(r, t), tag, h)
<1> DEFINE a == Append(l, t)
           b == Append(r, t)
           n == Len(l)
           c == Len(r)
<1>1. /\ n \in Nat /\ c \in Nat
      /\ Len(a) = n + 1 /\ a[n + 1] = t /\ \A i \in 1 .. n : a[i] = l[i]
      /\ Len(b) = c + 1 /\ b[c + 1] = t /\ \A i \in 1 .. c : b[i] = r[i]
  BY AppendProperties, LenProperties
<1> HIDE DEF a, b
<1>2. /\ m \in [1 .. c -> 1 .. n]
      /\ \A i \in 1 .. c : r[i] = l[m[i]] /\ r[i].tag # tag
      /\ \A i, j \in 1 .. c : i < j => m[i] < m[j]
      /\ \A x \in 1 .. n : l[x].tag # tag => \E i \in 1 .. c : m[i] = x
  BY DEF Thinned
<1> HIDE DEF n, c
<1>3. \A x \in 1 .. n + 1 : x \in 1 .. n \/ x = n + 1
  BY <1>1
<1>4. \A i \in 1 .. c + 1 : i \in 1 .. c \/ i = c + 1
  BY <1>1
<1>5. CASE t.tag = tag
  <2>1. m \in [1 .. c -> 1 .. n + 1]
    <3>1. \A x \in 1 .. n : x \in 1 .. n + 1
      BY <1>1
    <3> QED BY <1>2, <3>1
  <2>2. \A i \in 1 .. c : r[i] = a[m[i]] /\ r[i].tag # tag
    BY <1>1, <1>2
  <2>3. ASSUME NEW x \in 1 .. n + 1, a[x].tag # tag
        PROVE  \E i \in 1 .. c : m[i] = x
    <3>1. x \in 1 .. n
      BY <1>1, <1>3, <1>5, <2>3
    <3> QED BY <1>1, <1>2, <2>3, <3>1
  <2>4. Thinned(a, r, tag, m)
    BY <1>1, <1>2, <2>1, <2>2, <2>3 DEF Thinned, c
  <2> QED BY <1>5, <2>4 DEF a
<1>6. CASE t.tag # tag
  <2> DEFINE h == [i \in 1 .. c + 1 |-> IF i = c + 1 THEN n + 1 ELSE m[i]]
  <2>1. /\ h[c + 1] = n + 1
        /\ \A i \in 1 .. c : h[i] = m[i] /\ h[i] \in 1 .. n
    BY <1>1, <1>2
  <2>2. h \in [1 .. c + 1 -> 1 .. n + 1]
    <3>1. n + 1 \in 1 .. n + 1 /\ \A x \in 1 .. n : x \in 1 .. n + 1
      BY <1>1
    <3> QED BY <1>2, <1>4, <3>1
  <2> HIDE DEF h
  <2>3. ASSUME NEW i \in 1 .. c + 1 PROVE b[i] = a[h[i]] /\ b[i].tag # tag
    <3>1. CASE i \in 1 .. c
      <4>1. b[i] = r[i] /\ h[i] = m[i] /\ r[i] = l[m[i]] /\ r[i].tag # tag
        BY <1>1, <1>2, <2>1, <3>1
      <4>2. a[h[i]] = l[h[i]]
        BY <1>1, <2>1, <3>1
      <4> QED BY <4>1, <4>2
    <3>2. CASE i = c + 1
      BY <1>1, <1>6, <2>1, <3>2
    <3> QED BY <1>4, <3>1, <3>2
  <2>4. ASSUME NEW i \in 1 .. c + 1, NEW j \in 1 .. c + 1, i < j
        PROVE  h[i] < h[j]
    <3>1. i \in 1 .. c
      BY <1>1, <2>4
    <3>2. CASE j \in 1 .. c
      BY <1>2, <2>1, <2>4, <3>1, <3>2
    <3>3. CASE j = c + 1
      <4>1. h[i] \in 1 .. n
        BY <2>1, <3>1
      <4> QED BY <1>1, <2>1, <3>3, <4>1
    <3> QED BY <1>4, <3>2, <3>3
  <2>5. ASSUME NEW x \in 1 .. n + 1, a[x].tag # tag
        PROVE  \E i \in 1 .. c + 1 : h[i] = x
    <3>1. CASE x \in 1 .. n
      <4>1. PICK i \in 1 .. c : m[i] = x
        BY <1>1, <1>2, <2>5, <3>1
      <4>2. i \in 1 .. c + 1
        BY <1>1
      <4> QED BY <2>1, <4>1, <4>2
    <3>2. CASE x = n + 1
      <4>1. c + 1 \in 1 .. c + 1
        BY <1>1
      <4> QED BY <2>1, <3>2, <4>1
    <3> QED BY <1>3, <3>1, <3>2
  <2>6. Thinned(a, b, tag, h)
    BY <1>1, <2>2, <2>3, <2>4, <2>5 DEF Thinned
  <2> QED BY <1>6, <2>6 DEF a, b
<1> QED BY <1>5, <1>6

(* remove_tlv leaves the others in their order. *)
LEMMA RemovedIs ==
  ASSUME NEW p \in Pdus, NEW tag
  PROVE  \E m : Thinned(p.tlvs, RemoveTlv(p, tag).tlvs, tag, m)
<1> DEFINE tlvs == p.tlvs
           n == Len(tlvs)
<1>1. tlvs \in Seq(TlvSet)
  BY DEF Pdus
<1>2. n \in Nat /\ \A i \in 1 .. n : tlvs[i] \in TlvSet
  BY <1>1, LenProperties
<1>3. PICK g : /\ g[0] = [p EXCEPT !.tlvs = <<>>] /\ g[n] = RemoveTlv(p, tag)
               /\ \A i \in 1 .. n :
                    g[i - 1] \in Pdus /\ g[i] = Visit(tag, g[i - 1], tlvs[i])
  BY RemoveSteps
<1> HIDE DEF tlvs
<1> DEFINE S == {i \in 0 .. n : \E m : Thinned(SubSeq(tlvs, 1, i), g[i].tlvs, tag, m)}
<1>4. 0 \in S
  <2>1. SubSeq(tlvs, 1, 0) = <<>> /\ g[0].tlvs = <<>>
    BY <1>3, SubSeqEmpty DEF Pdus
  <2>2. Thinned(<<>>, <<>>, tag, <<>>)
    <3>1. Len(<<>>) = 0 /\ 1 .. 0 = {} /\ <<>> \in [{} -> {}]
      OBVIOUS
    <3> QED BY <3>1 DEF Thinned
  <2>3. \E m : Thinned(SubSeq(tlvs, 1, 0), g[0].tlvs, tag, m)
    <3> HIDE DEF Thinned
    <3> QED BY <2>1, <2>2
  <2>4. 0 \in 0 .. n
    BY <1>2
  <2> QED BY <2>3, <2>4
<1>5. ASSUME NEW i \in 1 .. n, i - 1 \in S PROVE i \in S
  <2> DEFINE q == g[i - 1]
             r == g[i]
             t == tlvs[i]
             l == SubSeq(tlvs, 1, i - 1)
  <2>1. i \in 0 .. n /\ t \in TlvSet /\ q \in Pdus /\ r = Visit(tag, q, t)
    BY <1>2, <1>3
  <2>2. r.tlvs = IF t.tag = tag THEN q.tlvs ELSE Append(q.tlvs, t)
    <3> HIDE DEF q, r, t
    <3> QED BY <2>1, VisitIs
  <2>3. q.tlvs \in Seq(TlvSet)
    BY <2>1 DEF Pdus
  <2>4. l \in Seq(TlvSet)
    <3>1. 1 \in Int /\ i - 1 \in Int
          /\ \A h \in 1 .. i - 1 : tlvs[h] \in TlvSet
      BY <1>2
    <3> QED BY <3>1, SubSeqProperties
  <2>5. SubSeq(tlvs, 1, i) = Append(l, t)
    <3>1. 1 \in 1 .. n /\ i \in 1 .. n
      BY <1>2
    <3>2. SubSeq(tlvs, 1, i) = l \o <<t>>
      BY <1>1, <3>1, SubSeqRecursiveSecond
    <3> QED BY <2>1, <2>4, <3>2, AppendIsConcat
  <2>6. PICK m : Thinned(l, q.tlvs, tag, m)
    BY <1>5
  <2> HIDE DEF q, r, t, l
  <2>7. \E h : Thinned(Append(l, t), r.tlvs, tag, h)
    BY <2>1, <2>2, <2>3, <2>4, <2>6, ThinnedMore
  <2> QED BY <2>1, <2>5, <2>7 DEF r
<1>6. \A i \in 0 .. n : i \in S
  <2> HIDE DEF S
  <2> QED BY <1>2, <1>4, <1>5, UpTo
<1>7. SubSeq(tlvs, 1, n) = tlvs
  BY <1>1, SubSeqFull
<1>8. n \in S
  <2> HIDE DEF S
  <2> QED BY <1>2, <1>6
<1>9. \E m : Thinned(tlvs, g[n].tlvs, tag, m)
  BY <1>7, <1>8
<1> QED BY <1>3, <1>9 DEF tlvs

(* So what was in order still is. *)
LEMMA ThinnedKeeps ==
  ASSUME NEW l \in Seq(TlvSet), NEW r \in Seq(TlvSet), NEW tag, NEW m,
         Thinned(l, r, tag, m)
  PROVE  /\ At(r, tag) = {}
         /\ \A s : s # tag /\ At(l, s) # {} => At(r, s) # {}
         /\ \A s : Single(l, s) => Single(r, s)
         /\ \A s, u : Before(l, s, u) => Before(r, s, u)
<1>1. Len(l) \in Nat /\ Len(r) \in Nat
  BY LenProperties
<1>2. At(r, tag) = {}
  BY DEF Thinned, At
<1>3. \A s : \A x \in At(r, s) : m[x] \in At(l, s)
  BY DEF Thinned, At
<1>4. ASSUME NEW x \in 1 .. Len(r), NEW y \in 1 .. Len(r)
      PROVE  /\ m[x] < m[y] => x < y
             /\ m[x] = m[y] => x = y
  <2>1. m[x] \in Int /\ m[y] \in Int /\ x \in Int /\ y \in Int
    <3>1. m[x] \in 1 .. Len(l) /\ m[y] \in 1 .. Len(l)
      BY DEF Thinned
    <3> QED BY <1>1, <3>1
  <2>2. (x < y => m[x] < m[y]) /\ (y < x => m[y] < m[x])
    BY DEF Thinned
  <2> QED BY <2>1, <2>2
<1>5. ASSUME NEW s, s # tag, At(l, s) # {} PROVE At(r, s) # {}
  <2>1. PICK x \in 1 .. Len(l) : l[x].tag = s
    BY <1>5 DEF At
  <2>2. PICK i \in 1 .. Len(r) : m[i] = x
    BY <1>5, <2>1 DEF Thinned
  <2>3. r[i].tag = s
    BY <2>1, <2>2 DEF Thinned
  <2> QED BY <2>3 DEF At
<1>6. ASSUME NEW s, Single(l, s) PROVE Single(r, s)
  <2> SUFFICES ASSUME NEW x \in At(r, s), NEW y \in At(r, s) PROVE x = y
    BY DEF Single
  <2>1. m[x] = m[y]
    BY <1>3, <1>6 DEF Single
  <2> QED BY <1>4, <2>1 DEF At
<1>7. ASSUME NEW s, NEW u, Before(l, s, u) PROVE Before(r, s, u)
  <2> SUFFICES ASSUME NEW x \in At(r, s), NEW y \in At(r, u) PROVE x < y
    BY DEF Before
  <2>1. m[x] < m[y]
    BY <1>3, <1>7 DEF Before
  <2> QED BY <1>4, <2>1 DEF At
<1> QED BY <1>2, <1>5, <1>6, <1>7

(****************************************************************************)
(* Mandatory TLVs: putting one into a list.                                 *)
(****************************************************************************)

(* InsertAt: what was in front stays, what was behind moves by one. *)
LEMMA InsertAtIs ==
  ASSUME NEW s \in Seq(TlvSet), NEW k \in 1 .. Len(s) + 1, NEW t \in TlvSet
  PROVE  LET q == InsertAt(s, k, t)
         IN  /\ q \in Seq(TlvSet) /\ Len(q) = Len(s) + 1
             /\ q[k] = t
             /\ \A j \in 1 .. Len(s) : IF j < k THEN q[j] = s[j] ELSE q[j + 1] = s[j]
<1> DEFINE u == SubSeq(s, 1, k - 1)
           v == SubSeq(s, k, Len(s))
           w == <<t>>
           n == Len(s)
<1>1. n \in Nat /\ k \in Nat /\ k >= 1 /\ k <= n + 1
      /\ \A j \in 1 .. n : s[j] \in TlvSet
  BY LenProperties
<1>2. w \in Seq(TlvSet) /\ Len(w) = 1 /\ w[1] = t
  OBVIOUS
<1>3. u \in Seq(TlvSet) /\ Len(u) = k - 1 /\ \A j \in 1 .. k - 1 : u[j] = s[j]
  <2>1. 1 \in Int /\ k - 1 \in Int /\ \A j \in 1 .. k - 1 : s[j] \in TlvSet
    BY <1>1
  <2>2. (k - 1) - 1 + 1 = k - 1 /\ \A j \in 1 .. k - 1 : 1 + j - 1 = j
    BY <1>1
  <2>3. /\ u \in Seq(TlvSet)
           /\ Len(u) = IF 1 <= k - 1 THEN (k - 1) - 1 + 1 ELSE 0
        /\ \A j \in 1 .. (k - 1) - 1 + 1 : u[j] = s[1 + j - 1]
    BY <2>1, SubSeqProperties
  <2> HIDE DEF u
  <2> QED BY <1>1, <2>2, <2>3
<1>4. /\ v \in Seq(TlvSet) /\ Len(v) = n - k + 1
      /\ \A j \in 1 .. n - k + 1 : v[j] = s[k + j - 1]
  <2>1. k \in Int /\ n \in Int /\ \A j \in k .. n : s[j] \in TlvSet
    BY <1>1
  <2>2. /\ v \in Seq(TlvSet) /\ Len(v) = IF k <= n THEN n - k + 1 ELSE 0
        /\ \A j \in 1 .. n - k + 1 : v[j] = s[k + j - 1]
    BY <2>1, SubSeqProperties
  <2>3. ~ (k <= n) => n - k + 1 = 0
    BY <1>1
  <2> HIDE DEF v
  <2> QED BY <2>2, <2>3
<1>5. InsertAt(s, k, t) = u \o w \o v
  BY DEF InsertAt
<1> HIDE DEF u, v, w
<1> DEFINE a == u \o w
           q == a \o v
<1>6. /\ a \in Seq(TlvSet) /\ Len(a) = k
      /\ a[k] = t /\ \A j \in 1 .. k - 1 : a[j] = s[j]
  <2>1. /\ a \in Seq(TlvSet) /\ Len(a) = Len(u) + Len(w)
        /\ \A j \in 1 .. Len(u) + Len(w) :
             a[j] = IF j <= Len(u) THEN u[j] ELSE w[j - Len(u)]
    BY <1>2, <1>3, ConcatProperties
  <2> HIDE DEF a
  <2>2. Len(u) + Len(w) = k /\ k \in 1 .. k /\ ~ (k <= k - 1)
        /\ k - (k - 1) = 1
    BY <1>1, <1>2, <1>3
  <2>3. \A j \in 1 .. k - 1 : j \in 1 .. k /\ j <= k - 1
    BY <1>1
  <2> QED BY <1>2, <1>3, <2>1, <2>2, <2>3
<1> HIDE DEF a
<1>7. /\ q \in Seq(TlvSet) /\ Len(q) = Len(a) + Len(v)
      /\ \A j \in 1 .. Len(a) + Len(v) : q[j] = IF j <= Len(a) THEN a[j] ELSE v[j - Len(a)]
  BY <1>4, <1>6, ConcatProperties
<1> HIDE DEF q
<1>8. Len(a) + Len(v) = n + 1 /\ k \in 1 .. n + 1 /\ k <= k
  BY <1>1, <1>4, <1>6
<1>9. ASSUME NEW j \in 1 .. n
      PROVE  IF j < k THEN q[j] = s[j] ELSE q[j + 1] = s[j]
  <2>1. CASE j < k
    <3>1. j \in 1 .. n + 1 /\ j <= k /\ j \in 1 .. k - 1
      BY <1>1, <2>1
    <3> QED BY <1>6, <1>7, <1>8, <2>1, <3>1
  <2>2. CASE ~ (j < k)
    <3>1. /\ j + 1 \in 1 .. n + 1 /\ ~ (j + 1 <= k)
          /\ (j + 1) - k \in 1 .. n - k + 1 /\ k + ((j + 1) - k) - 1 = j
      BY <1>1, <2>2
    <3>2. q[j + 1] = v[(j + 1) - k]
      BY <1>6, <1>7, <1>8, <3>1
    <3>3. v[(j + 1) - k] = s[j]
      BY <1>4, <3>1
    <3> QED BY <2>2, <3>2, <3>3
  <2> QED BY <2>1, <2>2
<1>10. q[k] = t
  BY <1>6, <1>7, <1>8
<1>11. InsertAt(s, k, t) = q
  BY <1>5 DEF q, a
<1> QED BY <1>7, <1>8, <1>9, <1>10, <1>11

(* Where a TLV is after an insertion at k. *)
Moved(k, x) == IF x < k THEN x ELSE x + 1

(* Every TLV is where it was or one further, and the new one at k. *)
LEMMA InsertedWhere ==
  ASSUME NEW s \in Seq(TlvSet), NEW k \in 1 .. Len(s) + 1, NEW t \in TlvSet
  PROVE  LET q == InsertAt(s, k, t)
         IN  /\ q \in Seq(TlvSet)
             /\ k \in At(q, t.tag)
             /\ \A tag : \A x \in At(s, tag) : Moved(k, x) \in At(q, tag)
             /\ \A tag : \A y \in At(q, tag) :
                  (y = k /\ tag = t.tag) \/ \E x \in At(s, tag) : y = Moved(k, x)
<1> DEFINE q == InsertAt(s, k, t)
           n == Len(s)
<1>1. n \in Nat
  BY LenProperties
<1>2. /\ q \in Seq(TlvSet) /\ Len(q) = n + 1 /\ q[k] = t
      /\ \A j \in 1 .. n : IF j < k THEN q[j] = s[j] ELSE q[j + 1] = s[j]
  BY InsertAtIs
<1> HIDE DEF q
<1>3. k \in At(q, t.tag)
  BY <1>1, <1>2 DEF At
<1>4. ASSUME NEW tag, NEW x \in At(s, tag)
      PROVE  Moved(k, x) \in At(q, tag)
  <2>1. x \in 1 .. n /\ s[x].tag = tag
    BY DEF At
  <2>2. x \in 1 .. n + 1 /\ x + 1 \in 1 .. n + 1
    BY <1>1, <2>1
  <2>3. CASE x < k
    BY <1>2, <2>1, <2>2, <2>3 DEF At, Moved
  <2>4. CASE ~ (x < k)
    BY <1>2, <2>1, <2>2, <2>4 DEF At, Moved
  <2> QED BY <2>3, <2>4
<1>5. ASSUME NEW tag, NEW y \in At(q, tag)
      PROVE  (y = k /\ tag = t.tag) \/ \E x \in At(s, tag) : y = Moved(k, x)
  <2>1. y \in 1 .. n + 1 /\ q[y].tag = tag /\ k \in 1 .. n + 1
    BY <1>2 DEF At
  <2>2. CASE y = k
    BY <1>2, <2>1, <2>2
  <2>3. CASE y < k
    <3>1. y \in 1 .. n
      BY <1>1, <2>1, <2>3
    <3>2. y \in At(s, tag)
      BY <1>2, <2>1, <2>3, <3>1 DEF At
    <3> QED BY <2>3, <3>2 DEF Moved
  <2>4. CASE y > k
    <3>1. y - 1 \in 1 .. n /\ ~ (y - 1 < k) /\ (y - 1) + 1 = y
      BY <1>1, <2>1, <2>4
    <3>2. y - 1 \in At(s, tag)
      BY <1>2, <2>1, <3>1 DEF At
    <3> QED BY <3>1, <3>2 DEF Moved
  <2>5. y = k \/ y < k \/ y > k
    BY <1>1, <2>1
  <2> QED BY <2>2, <2>3, <2>4, <2>5
<1> QED BY <1>2, <1>3, <1>4, <1>5 DEF q

(* All mandatory TLVs of ts are in l, each but the first once, in this order. *)
Ordered(l, ts) ==
  /\ \A i \in 2 .. Len(ts) : Single(l, ts[i].tag)
  /\ \A i, j \in 1 .. Len(ts) : i < j => Before(l, ts[i].tag, ts[j].tag)
InOrder(l, ts) == Ordered(l, ts)
/\ \A i \in 1 .. Len(ts) : At(l, ts[i].tag) # {}

Distinct(ts) == \A i, j \in 1 .. Len(ts) : ts[i].tag = ts[j].tag => i = j

(* They are in order after the i-th is inserted at a place behind those before it
   and in front of those after it. *)
LEMMA InsertedInOrder ==
  ASSUME NEW s \in Seq(TlvSet), NEW k \in 1 .. Len(s) + 1, NEW ts \in Seq(TlvSet),
         Distinct(ts), NEW i \in 1 .. Len(ts), NEW t \in TlvSet, t.tag = ts[i].tag,
         Ordered(s, ts),
         \A j \in 1 .. Len(ts) : j # i => At(s, ts[j].tag) # {},
         i = 1 \/ At(s, t.tag) = {},
         \A j \in 1 .. Len(ts) : \A x \in At(s, ts[j].tag) :
           IF j <= i THEN x < k ELSE x >= k
  PROVE  InOrder(InsertAt(s, k, t), ts)
<1> DEFINE q == InsertAt(s, k, t)
           n == Len(ts)
<1>1. /\ k \in At(q, t.tag)
      /\ \A tag : \A x \in At(s, tag) : Moved(k, x) \in At(q, tag)
      /\ \A tag : \A y \in At(q, tag) :
           (y = k /\ tag = t.tag) \/ \E x \in At(s, tag) : y = Moved(k, x)
  BY InsertedWhere
<1> HIDE DEF q
<1>2. n \in Nat /\ k \in Int
  BY LenProperties
<1>3. \A tag : \A x \in At(s, tag) : x \in Int
  BY DEF At
<1>4. \A x, y \in Int : x < y => Moved(k, x) < Moved(k, y)
  BY <1>2 DEF Moved
<1>5. ASSUME NEW j \in 1 .. n PROVE At(q, ts[j].tag) # {}
  <2>1. CASE j = i
    BY <1>1, <2>1
  <2>2. CASE j # i
    <3>1. PICK x : x \in At(s, ts[j].tag)
      BY <2>2
    <3> QED BY <1>1, <3>1
  <2> QED BY <2>1, <2>2
<1>6. ASSUME NEW j \in 2 .. n PROVE Single(q, ts[j].tag)
  <2> SUFFICES ASSUME NEW x \in At(q, ts[j].tag), NEW y \in At(q, ts[j].tag)
               PROVE  x = y
    BY DEF Single
  <2>0. j \in 1 .. n /\ j # 1
    BY <1>2
  <2>1. CASE j = i
    <3>1. At(s, t.tag) = {}
      BY <2>0, <2>1
    <3> QED BY <1>1, <2>1, <3>1
  <2>2. CASE j # i
    <3>1. ts[j].tag # t.tag
      BY <2>0, <2>2 DEF Distinct
    <3>2. PICK a \in At(s, ts[j].tag) : x = Moved(k, a)
      BY <1>1, <3>1
    <3>3. PICK b \in At(s, ts[j].tag) : y = Moved(k, b)
      BY <1>1, <3>1
    <3>4. a = b
      BY DEF Ordered, Single
    <3> QED BY <3>2, <3>3, <3>4
  <2> QED BY <2>1, <2>2
<1>7. ASSUME NEW a \in 1 .. n, NEW b \in 1 .. n, a < b
      PROVE  Before(q, ts[a].tag, ts[b].tag)
  <2> SUFFICES ASSUME NEW x \in At(q, ts[a].tag), NEW y \in At(q, ts[b].tag)
               PROVE  x < y
    BY DEF Before
  <2>0. i \in Int /\ a \in Int /\ b \in Int
    OBVIOUS
  <2>1. CASE x = k /\ a = i
    <3>1. ts[b].tag # t.tag
      BY <1>7, <2>0, <2>1 DEF Distinct
    <3>2. PICK z \in At(s, ts[b].tag) : y = Moved(k, z)
      BY <1>1, <3>1
    <3>3. z >= k /\ z \in Int
      BY <1>3, <1>7, <2>0, <2>1
    <3> QED BY <1>2, <2>1, <3>2, <3>3 DEF Moved
  <2>2. CASE y = k /\ b = i
    <3>1. ts[a].tag # t.tag
      BY <1>7, <2>0, <2>2 DEF Distinct
    <3>2. PICK z \in At(s, ts[a].tag) : x = Moved(k, z)
      BY <1>1, <3>1
    <3>3. a <= i
      BY <1>7, <2>0, <2>2
    <3>4. z < k /\ z \in Int
      BY <1>3, <3>3
    <3>5. x = z
      BY <3>2, <3>4 DEF Moved
    <3> QED BY <2>2, <3>4, <3>5
  <2>3. CASE ~ (x = k /\ a = i) /\ ~ (y = k /\ b = i)
    <3>1. PICK u \in At(s, ts[a].tag) : x = Moved(k, u)
      BY <1>1, <2>3 DEF Distinct
    <3>2. PICK v \in At(s, ts[b].tag) : y = Moved(k, v)
      BY <1>1, <2>3 DEF Distinct
    <3>3. u < v
      BY <1>7 DEF Ordered, Before
    <3> QED BY <1>3, <1>4, <3>1, <3>2, <3>3
  <2> QED BY <2>1, <2>2, <2>3
<1> QED BY <1>5, <1>6, <1>7 DEF InOrder, Ordered, q

(****************************************************************************)
(* Mandatory TLVs: what the operations do.                                  *)
(****************************************************************************)

(* The first and the last TLV of a tag that is in the list. *)
LEMMA FirstAndLast ==
  ASSUME NEW s \in Seq(TlvSet), NEW tag, At(s, tag) # {}
  PROVE  /\ FirstOf(s, tag) \in At(s, tag)
         /\ \A x \in At(s, tag) : FirstOf(s, tag) <= x
         /\ LastOf(s, tag) \in At(s, tag)
         /\ \A x \in At(s, tag) : x <= LastOf(s, tag)
<1> DEFINE I == {i \in 1 .. Len(s) : s[i].tag = tag}
<1>1. Len(s) \in Nat /\ I = At(s, tag) /\ I # {} /\ I \in SUBSET Nat
  BY LenProperties DEF At
<1>2. FirstOf(s, tag) = Min(I) /\ LastOf(s, tag) = Max(I)
  BY <1>1 DEF FirstOf, LastOf, SelectInSeq, SelectLastInSeq
<1>3. Min(I) \in I /\ \A x \in I : Min(I) <= x
  <2> SUFFICES \E x \in I : \A y \in I : x <= y
    BY DEF Min
  <2> HIDE DEF I
  <2> QED BY <1>1, LeastElement
<1>4. Max(I) \in I /\ \A x \in I : x <= Max(I)
  <2> DEFINE J == {Len(s) - i : i \in I}
  <2>1. J \in SUBSET Nat /\ J # {}
    BY <1>1
  <2>2. PICK m \in J : \A n \in J : m <= n
    <3> HIDE DEF J
    <3> QED BY <2>1, LeastElement
  <2>3. PICK x \in I : m = Len(s) - x
    OBVIOUS
  <2>4. \A y \in I : Len(s) - x <= Len(s) - y
    BY <2>2, <2>3
  <2> HIDE DEF I, J
  <2>5. x \in I /\ \A y \in I : x >= y
    BY <1>1, <2>4
  <2>6. \A z \in I : (\A y \in I : z >= y) => \A y \in I : y <= z
    BY <1>1
  <2>7. Max(I) \in I /\ \A y \in I : Max(I) >= y
    BY <2>5 DEF Max
  <2> QED BY <2>6, <2>7
<1> QED BY <1>1, <1>2, <1>3, <1>4

(* insert_after_tlv and insert_before_tlv, when the tag they look for is there. *)
LEMMA InsertedNextTo ==
  ASSUME NEW p \in Pdus, NEW t, NEW tag, At(p.tlvs, tag) # {}
  PROVE  /\ InsertAfterTlv(p, t, tag).tlvs = InsertAt(p.tlvs, LastOf(p.tlvs, tag) + 1, t)
         /\ InsertBeforeTlv(p, t, tag).tlvs = InsertAt(p.tlvs, FirstOf(p.tlvs, tag), t)
<1> DEFINE i == FirstOf(p.tlvs, tag)
           j == LastOf(p.tlvs, tag)
<1>1. i # 0 /\ j # 0
  <2>1. p.tlvs \in Seq(TlvSet)
    BY DEF Pdus
  <2>2. i \in At(p.tlvs, tag) /\ j \in At(p.tlvs, tag)
    BY <2>1, FirstAndLast
  <2> HIDE DEF i, j
  <2> QED BY <2>1, <2>2, LenProperties DEF At
<1>2. InsertAfterTlv(p, t, tag) = IF j = 0 THEN p ELSE Inserted(p, j + 1, t)
  BY DEF InsertAfterTlv, LastOf, Inserted
<1>3. InsertBeforeTlv(p, t, tag) = IF i = 0 THEN p ELSE Inserted(p, i, t)
  BY DEF InsertBeforeTlv, FirstOf, Inserted
<1> HIDE DEF i, j
<1>4. \A k : Inserted(p, k, t).tlvs = InsertAt(p.tlvs, k, t)
  BY DEF Inserted, Pdus
<1> QED BY <1>1, <1>2, <1>3, <1>4 DEF i, j

(* The mandatory TLVs of a class have different tags, the area identifier comes
   first, and the text of an SMS is none of them. *)
LEMMA MandatoryLists ==
  ASSUME NEW k
  PROVE  /\ MandatoryTlvs(k) \in Seq(TlvSet) /\ Distinct(MandatoryTlvs(k))
         /\ MandatoryTags(k) = {MandatoryTlvs(k)[i].tag : i \in 1 .. Len(MandatoryTlvs(k))}
         /\ MandatoryTlvs(k) # <<>> =>
              /\ 2 \in 1 .. Len(MandatoryTlvs(k))
              /\ MandatoryTlvs(k)[1].tag = broadcast_area_identifier
         /\ message_payload \notin MandatoryTags(k)
<1> DEFINE ts == MandatoryTlvs(k)
<1>1. ts \in Seq(TlvSet)
  BY MandatoryAre
<1>2. DOMAIN ts = 1 .. Len(ts)
  BY <1>1
<1>3. MandatoryTags(k) = {ts[i].tag : i \in 1 .. Len(ts)}
  <2> HIDE DEF ts
  <2> QED BY <1>2 DEF MandatoryTags, Range, ts
<1>4. CASE k = "broadcast_sm"
  <2>1. ts = <<Tlv(1542, 1), Tlv(1537, 3), Tlv(1540, 2), Tlv(1541, 3)>>
    BY <1>4 DEF MandatoryTlvs, broadcast_area_identifier,
       broadcast_content_type,
       broadcast_rep_num, broadcast_frequency_interval
  <2>2. /\ Len(ts) = 4 /\ ts[1].tag = 1542 /\ ts[2].tag = 1537
        /\ ts[3].tag = 1540 /\ ts[4].tag = 1541
    BY <2>1 DEF Tlv
  <2> HIDE DEF ts
  <2>3. \A i \in 1 .. 4 : i = 1 \/ i = 2 \/ i = 3 \/ i = 4
    OBVIOUS
  <2>4. Distinct(ts)
    BY <2>2, <2>3 DEF Distinct
  <2>5. message_payload \notin MandatoryTags(k)
    BY <1>3, <2>2, <2>3 DEF message_payload
  <2> QED BY <1>1, <1>3, <2>2, <2>4, <2>5 DEF ts, broadcast_area_identifier
<1>5. CASE k = "query_broadcast_sm_resp"
  <2>1. ts = <<Tlv(1542, 1), Tlv(1544, 1)>>
    BY <1>5 DEF MandatoryTlvs, broadcast_area_identifier,
       broadcast_area_success
  <2>2. Len(ts) = 2 /\ ts[1].tag = 1542 /\ ts[2].tag = 1544
    BY <2>1 DEF Tlv
  <2> HIDE DEF ts
  <2>3. \A i \in 1 .. 2 : i = 1 \/ i = 2
    OBVIOUS
  <2>4. Distinct(ts)
    BY <2>2, <2>3 DEF Distinct
  <2>5. message_payload \notin MandatoryTags(k)
    BY <1>3, <2>2, <2>3 DEF message_payload
  <2> QED BY <1>1, <1>3, <2>2, <2>4, <2>5 DEF ts, broadcast_area_identifier
<1>6. CASE k # "broadcast_sm" /\ k # "query_broadcast_sm_resp"
  <2>1. ts = <<>>
    BY <1>6 DEF MandatoryTlvs
  <2>2. \A i \in 1 .. Len(ts) : FALSE
    BY <2>1
  <2> HIDE DEF ts
  <2>3. Distinct(ts)
    BY <2>2 DEF Distinct
  <2>4. message_payload \notin MandatoryTags(k)
    BY <1>3, <2>2
  <2> QED BY <1>1, <1>3, <2>1, <2>3, <2>4 DEF ts
<1> QED BY <1>4, <1>5, <1>6

(* A constructor starts in order. *)
LEMMA StartsInOrder ==
  ASSUME NEW k
  PROVE  InOrder(MandatoryTlvs(k), MandatoryTlvs(k))
<1> DEFINE ts == MandatoryTlvs(k)
<1>1. ts \in Seq(TlvSet) /\ Distinct(ts) /\ Len(ts) \in Nat
  BY MandatoryLists, LenProperties
<1> HIDE DEF ts
<1>2. \A i \in 1 .. Len(ts) : At(ts, ts[i].tag) = {i}
  BY <1>1 DEF At, Distinct
<1>3. \A i \in 2 .. Len(ts) : i \in 1 .. Len(ts)
  BY <1>1
<1> QED BY <1>2, <1>3 DEF InOrder, Ordered, Single, Before, ts

(* remove_tlv of a TLV that is not mandatory. *)
LEMMA RemovedInOrder ==
  ASSUME NEW p \in Pdus, NEW tag, NEW ts \in Seq(TlvSet), Ordered(p.tlvs, ts)
  PROVE  LET r == RemoveTlv(p, tag)
         IN  r \in Pdus =>
               /\ Ordered(r.tlvs, ts) /\ At(r.tlvs, tag) = {}
               /\ \A s : s # tag /\ At(p.tlvs, s) # {} => At(r.tlvs, s) # {}
<1> DEFINE r == RemoveTlv(p, tag)
<1> SUFFICES ASSUME r \in Pdus
             PROVE  /\ Ordered(r.tlvs, ts) /\ At(r.tlvs, tag) = {}
                    /\ \A s : s # tag /\ At(p.tlvs, s) # {}
                         => At(r.tlvs, s) # {}
  OBVIOUS
<1>1. PICK m : Thinned(p.tlvs, r.tlvs, tag, m)
  BY RemovedIs
<1>2. p.tlvs \in Seq(TlvSet) /\ r.tlvs \in Seq(TlvSet)
  BY DEF Pdus
<1> HIDE DEF r
<1>3. /\ At(r.tlvs, tag) = {}
      /\ \A s : s # tag /\ At(p.tlvs, s) # {} => At(r.tlvs, s) # {}
      /\ \A s : Single(p.tlvs, s) => Single(r.tlvs, s)
      /\ \A s, u : Before(p.tlvs, s, u) => Before(r.tlvs, s, u)
  BY <1>1, <1>2, ThinnedKeeps
<1> QED BY <1>3 DEF Ordered

(****************************************************************************)
(* Mandatory TLVs: setters and insert_tlv.                                  *)
(****************************************************************************)

(* broadcast_area_identifier(p) puts the new one in front of what the standard
   lists next, whether the default one was removed or not. *)
LEMMA AreaInOrder ==
  ASSUME NEW p, Right(p), NEW n \in Uint16, MandatoryTags(p.kind) # {},
         InOrder(p.tlvs, MandatoryTlvs(p.kind))
  PROVE  InOrder(AreaIdentifier(p, n).tlvs, MandatoryTlvs(p.kind))
<1> DEFINE ts == MandatoryTlvs(p.kind)
           r == RemoveTlv(p, broadcast_area_identifier)
           q == IF p.isDefault THEN WithFlag(r, FALSE) ELSE p
           t == Tlv(broadcast_area_identifier, n)
           next == ts[2].tag
           k == FirstOf(q.tlvs, next)
<1>1. t \in TlvSet /\ t.tag = broadcast_area_identifier
  BY MandatoryAre DEF Tlv, TlvSet
<1>2. /\ ts \in Seq(TlvSet) /\ Distinct(ts) /\ 2 \in 1 .. Len(ts)
         /\ 1 \in 1 .. Len(ts)
      /\ ts[1].tag = t.tag /\ Len(ts) \in Nat
  <2>1. ts # <<>>
    <3>1. ts = <<>> => MandatoryTags(p.kind) = {}
      BY DEF MandatoryTags, Range
    <3> QED BY <3>1
  <2>2. /\ ts \in Seq(TlvSet) /\ Distinct(ts) /\ 2 \in 1 .. Len(ts)
        /\ ts[1].tag = t.tag
    BY <1>1, <2>1, MandatoryLists
  <2> HIDE DEF ts
  <2>3. Len(ts) \in Nat
    BY <2>2, LenProperties
  <2> QED BY <2>2, <2>3
<1>3. AreaIdentifier(p, n) = InsertBeforeTlv(q, t, next)
  BY DEF AreaIdentifier, WithFlag
<1> HIDE DEF ts, t
<1>4. p \in Pdus /\ r \in Pdus /\ q \in Pdus
      /\ (p.isDefault => q.tlvs = r.tlvs) /\ (~ p.isDefault => q = p)
  <2>1. OnlyTlvs(p, r)
    BY RemoveTlvRight
  <2> HIDE DEF r
  <2>2. Right(r) /\ p \in Pdus
    BY <2>1 DEF OnlyTlvs, Right, Sound
  <2>3. Right(WithFlag(r, FALSE)) /\ WithFlag(r, FALSE).tlvs = r.tlvs
    BY <2>2, WithFlagRight DEF Kept
  <2> QED BY <2>2, <2>3 DEF Right, Sound
<1>5. Ordered(q.tlvs, ts) /\ \A j \in 1 .. Len(ts) : j # 1
        => At(q.tlvs, ts[j].tag) # {}
  <2>1. InOrder(p.tlvs, ts)
    BY DEF ts
  <2>2. Ordered(p.tlvs, ts)
        /\ \A j \in 1 .. Len(ts) : At(p.tlvs, ts[j].tag) # {}
    BY <2>1 DEF InOrder
  <2>3. \A j \in 1 .. Len(ts) : j # 1 => ts[j].tag # broadcast_area_identifier
    BY <1>1, <1>2 DEF Distinct
  <2>4. /\ Ordered(r.tlvs, ts)
        /\ \A s : s # broadcast_area_identifier /\ At(p.tlvs, s) # {}
             => At(r.tlvs, s) # {}
    BY <1>2, <1>4, <2>2, RemovedInOrder
  <2> HIDE DEF r, q
  <2>5. \A j \in 1 .. Len(ts) : j # 1 => At(r.tlvs, ts[j].tag) # {}
    BY <2>2, <2>3, <2>4
  <2>6. CASE p.isDefault
    BY <1>4, <2>4, <2>5, <2>6
  <2>7. CASE ~ p.isDefault
    BY <1>4, <2>2, <2>7
  <2> QED BY <2>6, <2>7
<1> HIDE DEF r, q
<1>6. q.tlvs \in Seq(TlvSet) /\ Len(q.tlvs) \in Nat
  BY <1>4, LenProperties DEF Pdus
<1>7. At(q.tlvs, next) # {}
  BY <1>2, <1>5
<1>8. k \in At(q.tlvs, next) /\ \A x \in At(q.tlvs, next) : k <= x
  BY <1>6, <1>7, FirstAndLast
<1>9. InsertBeforeTlv(q, t, next).tlvs = InsertAt(q.tlvs, k, t)
  BY <1>4, <1>7, InsertedNextTo
<1>10. k \in 1 .. Len(q.tlvs) + 1 /\ k \in Int
  BY <1>6, <1>8 DEF At
<1>11. ASSUME NEW j \in 1 .. Len(ts), NEW x \in At(q.tlvs, ts[j].tag)
       PROVE  IF j <= 1 THEN x < k ELSE x >= k
  <2>0. x \in Int /\ j \in Int
    BY DEF At
  <2> HIDE DEF k
  <2>1. CASE j = 1
    <3>1. Before(q.tlvs, ts[1].tag, ts[2].tag)
      BY <1>2, <1>5 DEF Ordered
    <3>2. x < k
      BY <1>8, <2>1, <3>1 DEF Before
    <3> QED BY <2>1, <3>2
  <2>2. CASE j = 2
    BY <1>8, <1>10, <2>0, <2>2
  <2>3. CASE j > 2
    <3>1. Before(q.tlvs, ts[2].tag, ts[j].tag)
      BY <1>2, <1>5, <2>0, <2>3 DEF Ordered
    <3>2. k < x
      BY <1>8, <3>1 DEF Before
    <3>3. ~ (j <= 1) /\ x >= k
      BY <1>10, <2>0, <2>3, <3>2
    <3> QED BY <3>3
  <2>4. j = 1 \/ j = 2 \/ j > 2
    BY <2>0
  <2> QED BY <2>1, <2>2, <2>3, <2>4
<1> HIDE DEF k, next
<1>12. InOrder(InsertAt(q.tlvs, k, t), ts)
  BY <1>1, <1>2, <1>5, <1>6, <1>10, <1>11, InsertedInOrder
<1> QED BY <1>3, <1>9, <1>12 DEF ts

(* The other setters put the new one behind what the standard lists before it. *)
LEMMA SetMandatoryInOrder ==
  ASSUME NEW p, Right(p), NEW i \in 2 .. Len(MandatoryTlvs(p.kind)),
         InOrder(p.tlvs, MandatoryTlvs(p.kind))
  PROVE  InOrder(SetMandatory(p, i).tlvs, MandatoryTlvs(p.kind))
<1> DEFINE ts == MandatoryTlvs(p.kind)
           t == ts[i]
           q == RemoveTlv(p, t.tag)
           tag == ts[i - 1].tag
           j == LastOf(q.tlvs, tag)
           k == j + 1
<1>1. SetMandatory(p, i) = InsertAfterTlv(q, t, tag)
  BY DEF SetMandatory
<1>2. ts \in Seq(TlvSet) /\ Distinct(ts) /\ InOrder(p.tlvs, ts)
      /\ i \in 2 .. Len(ts)
  BY MandatoryLists
<1> HIDE DEF ts
<1>3. Len(ts) \in Nat /\ i \in 1 .. Len(ts) /\ i - 1 \in 1 .. Len(ts)
      /\ i \in Int /\ i # 1
  BY <1>2, LenProperties
<1>4. t \in TlvSet
  BY <1>2, <1>3
<1>5. p \in Pdus /\ q \in Pdus
  <2>1. OnlyTlvs(p, q)
    BY RemoveTlvRight
  <2> HIDE DEF q
  <2> QED BY <2>1 DEF OnlyTlvs, Right, Sound
<1>6. /\ Ordered(q.tlvs, ts) /\ At(q.tlvs, t.tag) = {}
      /\ \A h \in 1 .. Len(ts) : h # i => At(q.tlvs, ts[h].tag) # {}
  <2>1. Ordered(p.tlvs, ts)
        /\ \A h \in 1 .. Len(ts) : At(p.tlvs, ts[h].tag) # {}
    BY <1>2 DEF InOrder
  <2>2. \A h \in 1 .. Len(ts) : h # i => ts[h].tag # t.tag
    BY <1>2, <1>3 DEF Distinct
  <2>3. /\ Ordered(q.tlvs, ts) /\ At(q.tlvs, t.tag) = {}
        /\ \A s : s # t.tag /\ At(p.tlvs, s) # {} => At(q.tlvs, s) # {}
    BY <1>2, <1>5, <2>1, RemovedInOrder
  <2> QED BY <2>1, <2>2, <2>3
<1> HIDE DEF q
<1>7. q.tlvs \in Seq(TlvSet) /\ Len(q.tlvs) \in Nat
  BY <1>5, LenProperties DEF Pdus
<1>8. At(q.tlvs, tag) # {}
  <2>1. i - 1 # i
    BY <1>3
  <2> QED BY <1>3, <1>6, <2>1
<1>9. j \in At(q.tlvs, tag) /\ \A x \in At(q.tlvs, tag) : x <= j
  BY <1>7, <1>8, FirstAndLast
<1>10. InsertAfterTlv(q, t, tag).tlvs = InsertAt(q.tlvs, k, t)
  BY <1>5, <1>8, InsertedNextTo
<1>11. j \in Int /\ k \in 1 .. Len(q.tlvs) + 1 /\ k \in Int /\ k = j + 1
  BY <1>7, <1>9 DEF At
<1>12. ASSUME NEW h \in 1 .. Len(ts), NEW x \in At(q.tlvs, ts[h].tag)
       PROVE  IF h <= i THEN x < k ELSE x >= k
  <2>0. x \in Int /\ h \in Int
    BY DEF At
  <2> HIDE DEF j, k
  <2>1. CASE h < i - 1
    <3>1. Before(q.tlvs, ts[h].tag, ts[i - 1].tag)
      BY <1>3, <1>6, <2>1 DEF Ordered
    <3>2. x < j
      BY <1>9, <3>1 DEF Before
    <3>3. x < k /\ h <= i
      BY <1>3, <1>11, <2>0, <2>1, <3>2
    <3> QED BY <3>3
  <2>2. CASE h = i - 1
    <3>1. x <= j
      BY <1>9, <2>2
    <3>2. x < k /\ h <= i
      BY <1>3, <1>11, <2>0, <2>2, <3>1
    <3> QED BY <3>2
  <2>3. CASE h = i
    BY <1>6, <2>3
  <2>4. CASE h > i
    <3>1. Before(q.tlvs, ts[i - 1].tag, ts[h].tag)
      BY <1>3, <1>6, <2>0, <2>4 DEF Ordered
    <3>2. j < x
      BY <1>9, <3>1 DEF Before
    <3>3. x >= k /\ ~ (h <= i)
      BY <1>3, <1>11, <2>0, <2>4, <3>2
    <3> QED BY <3>3
  <2>5. h < i - 1 \/ h = i - 1 \/ h = i \/ h > i
    BY <1>3, <2>0
  <2> QED BY <2>1, <2>2, <2>3, <2>4, <2>5
<1> HIDE DEF j, k, tag
<1>13. InOrder(InsertAt(q.tlvs, k, t), ts)
  BY <1>2, <1>3, <1>4, <1>6, <1>7, <1>11, <1>12, InsertedInOrder
<1> QED BY <1>1, <1>10, <1>13 DEF ts

(* insert_tlv of a TLV that is not mandatory. *)
LEMMA AppendedInOrder ==
  ASSUME NEW s \in Seq(TlvSet), NEW t \in TlvSet, NEW ts \in Seq(TlvSet),
         InOrder(s, ts), \A i \in 1 .. Len(ts) : ts[i].tag # t.tag
  PROVE  InOrder(Append(s, t), ts)
<1>1. \A tag : tag # t.tag => At(Append(s, t), tag) = At(s, tag)
  <2> DEFINE a == Append(s, t)
  <2>1. /\ Len(a) = Len(s) + 1 /\ a[Len(s) + 1] = t
        /\ \A i \in 1 .. Len(s) : a[i] = s[i]
    BY AppendProperties
  <2> HIDE DEF a
  <2>2. Len(s) \in Nat
    BY LenProperties
  <2>3. \A x \in 1 .. Len(s) + 1 : x \in 1 .. Len(s) \/ x = Len(s) + 1
    BY <2>2
  <2>4. \A x \in 1 .. Len(s) : x \in 1 .. Len(s) + 1
    BY <2>2
  <2> QED BY <2>1, <2>3, <2>4 DEF At, a
<1>2. \A i \in 2 .. Len(ts) : i \in 1 .. Len(ts)
  BY LenProperties
<1> HIDE DEF At
<1>3. \A i \in 1 .. Len(ts) : At(Append(s, t), ts[i].tag) = At(s, ts[i].tag)
  BY <1>1
<1> QED BY <1>2, <1>3 DEF InOrder, Ordered, Single, Before

(****************************************************************************)
(* Mandatory TLVs: in the order of the standard.                            *)
(****************************************************************************)

(* What PduInvariant does not say: the mandatory TLVs are in order. *)
StandsInOrder(p) == InOrder(p.tlvs, MandatoryTlvs(p.kind))
OrderInvariant == Exists /\ ~ meddled => StandsInOrder(pdu)

(* The constructors put the mandatory TLVs in order. *)
LEMMA MadeInOrder ==
  ASSUME NEW k \in Kinds, \/ DefaultConstructor(k)
                          \/ \E n \in Lengths, t \in TextLengths :
                               MandatoryConstructor(k, n, t, 1)
  PROVE  OrderInvariant'
<1>1. StandsInOrder(pdu')
  <2>1. CASE DefaultConstructor(k)
    <3>1. pdu' = Default(k)
      BY <2>1 DEF DefaultConstructor, Create
    <3>2. pdu'.kind = k /\ pdu'.tlvs = MandatoryTlvs(k)
      BY <3>1, DefaultRight
    <3> QED BY <3>2, StartsInOrder DEF StandsInOrder
  <2>2. ASSUME NEW n \in Lengths, NEW t \in TextLengths, MandatoryConstructor(k, n, t, 1)
        PROVE  StandsInOrder(pdu')
    <3>1. pdu' = Construct(k, n, t, 1)
      BY <2>2 DEF MandatoryConstructor, Create
    <3>2. n \in Nat /\ t \in Uint8 /\ 1 \in Uint8
      BY PduAssumption DEF Uint8
    <3>3. \A f \in Counted(k) \ Layout[k].text : n <= LimitOf(k, f)
      BY <2>2 DEF MandatoryConstructor
    <3>4. pdu'.kind = k /\ pdu'.tlvs = MandatoryTlvs(k)
      BY <3>1, <3>2, <3>3, ConstructRight
    <3> QED BY <3>4, StartsInOrder DEF StandsInOrder
  <2> QED BY <2>1, <2>2
<1> QED BY <1>1 DEF OrderInvariant

(* A submit_sm has no mandatory TLVs. *)
LEMMA SmsInOrder ==
  ASSUME NEW text \in Texts, NEW coding \in Codings, SendSubmitSm(text, coding)
  PROVE  OrderInvariant'
<1>1. pdu' = SubmitSm(Converted(text, coding), coding)
  BY DEF SendSubmitSm, Create, SubmitSm
<1>2. pdu'.kind = "submit_sm"
  BY <1>1, ConvertedIs, SubmitSmRight
<1>3. MandatoryTlvs("submit_sm") = <<>> /\ Len(<<>>) = 0 /\ 1 .. 0 = {}
      /\ 2 .. 0 = {}
  BY DEF MandatoryTlvs
<1>4. StandsInOrder(pdu')
  BY <1>2, <1>3 DEF StandsInOrder, InOrder, Ordered
<1> QED BY <1>4 DEF OrderInvariant

(* Whoever leaves the class and the TLVs alone, leaves their order. *)
LEMMA SameOrder ==
  ASSUME OrderInvariant, Exists, meddled' = meddled,
         pdu'.kind = pdu.kind, pdu'.tlvs = pdu.tlvs
  PROVE  OrderInvariant'
BY DEF OrderInvariant, StandsInOrder

(* The setters, add() of a list and the constructor from a buffer do. *)
LEMMA MembersInOrder ==
  ASSUME PduInvariant, OrderInvariant, Exists,
         \/ \E f \in Counted(pdu.kind) : SetMember(f)
         \/ \E f \in Layout[pdu.kind].octets : SetOctet(f)
         \/ \E flag \in {"sme", "list", "unsuccess"}, n \in Lengths : AddToList(flag, n)
         \/ Receive
  PROVE  OrderInvariant'
<1>0. Right(pdu)
  BY DEF PduInvariant
<1>1. ASSUME NEW f \in Counted(pdu.kind), SetMember(f)
      PROVE  OrderInvariant'
  <2>1. PICK n \in SetterLengths(pdu.kind, f) :
          pdu' = SetLength(pdu, f, n) /\ meddled' = meddled
    BY <1>1 DEF SetMember, Call
  <2>2. pdu'.kind = pdu.kind /\ pdu'.tlvs = pdu.tlvs
    <3>1. pdu \in Pdus
      BY <1>0 DEF Right, Sound
    <3> QED BY <2>1, <3>1 DEF SetLength, Pdus
  <2> QED BY <2>1, <2>2, SameOrder
<1>2. ASSUME NEW f \in Layout[pdu.kind].octets, SetOctet(f)
      PROVE  OrderInvariant'
  <2>1. pdu' = WithOctet(pdu, f, 1 - pdu.val[f]) /\ meddled' = meddled
    BY <1>2 DEF SetOctet, Call, WithOctet
  <2>2. pdu'.kind = pdu.kind /\ pdu'.tlvs = pdu.tlvs
    <3>1. pdu \in Pdus
      BY <1>0 DEF Right, Sound
    <3> QED BY <2>1, <3>1 DEF WithOctet, Pdus
  <2> QED BY <2>1, <2>2, SameOrder
<1>3. ASSUME NEW flag \in {"sme", "list", "unsuccess"}, NEW n \in Lengths, AddToList(flag, n)
      PROVE  OrderInvariant'
  <2> DEFINE e == Entry(flag, n)
  <2>1. pdu' = AddEntry(pdu, e) /\ meddled' = meddled
        /\ e.flag \in EntryFlags(pdu.kind)
    BY <1>3 DEF AddToList, Entry
  <2>2. e \in EntrySet
    <3>1. n \in Nat /\ (flag # "list" => n < MaxLen)
      BY <1>3, PduAssumption DEF AddToList
    <3> QED BY <3>1 DEF Entry, EntrySet
  <2> HIDE DEF e
  <2>3. pdu'.kind = pdu.kind /\ pdu'.tlvs = pdu.tlvs
    BY <1>0, <2>1, <2>2, AddEntryRight
  <2> QED BY <2>1, <2>3, SameOrder
<1>4. CASE Receive
  <2>1. Received(pdu).ok /\ meddled' = meddled
    BY <1>4 DEF Receive, Received
  <2>2. PICK flag \in BOOLEAN : pdu' = WithFlag(Received(pdu).pdu, flag)
    BY <1>4 DEF Receive, Received, WithFlag
  <2>3. pdu' = WithFlag(pdu, flag)
    BY <1>0, <2>1, <2>2, ReceivedIs
  <2>4. pdu'.kind = pdu.kind /\ pdu'.tlvs = pdu.tlvs
    BY <1>0, <2>3, WithFlagRight DEF Kept, SameMembers
  <2> QED BY <2>1, <2>4, SameOrder
<1> QED BY <1>1, <1>2, <1>3, <1>4

(* insert_tlv and remove_tlv of a tag that is not mandatory. *)
LEMMA ByHandInOrder ==
  ASSUME PduInvariant, OrderInvariant, NEW tag \in Uint16, NEW n \in TlvLengths,
         Insert(Tlv(tag, n)) \/ RemoveAll(tag)
  PROVE  OrderInvariant'
<1> DEFINE ts == MandatoryTlvs(pdu.kind)
           t == Tlv(tag, n)
<1>1. Exists /\ Right(pdu) /\ pdu \in Pdus
  <2>1. Exists
    BY DEF Insert, RemoveAll
  <2> QED BY <2>1 DEF PduInvariant, Right, Sound
<1>2. meddled' = (meddled \/ tag \in MandatoryTags(pdu.kind))
  BY DEF Insert, RemoveAll, Tlv
<1>3. t \in TlvSet /\ t.tag = tag
  <2>1. n \in Uint16
    BY PduAssumption DEF Uint16
  <2> QED BY <2>1 DEF Tlv, TlvSet
<1>4. ts \in Seq(TlvSet)
      /\ MandatoryTags(pdu.kind) = {ts[i].tag : i \in 1 .. Len(ts)}
  BY MandatoryLists
<1>5. pdu.tlvs \in Seq(TlvSet)
  BY <1>1 DEF Pdus
<1> SUFFICES ASSUME ~ meddled' PROVE StandsInOrder(pdu')
  BY DEF OrderInvariant
<1>6. ~ meddled /\ \A i \in 1 .. Len(ts) : ts[i].tag # tag
  BY <1>2, <1>4
<1>7. InOrder(pdu.tlvs, ts)
  BY <1>1, <1>6 DEF OrderInvariant, StandsInOrder
<1> HIDE DEF ts
<1>8. CASE Insert(t)
  <2> DEFINE q == InsertTlv(pdu, t)
  <2>1. pdu' = q
    BY <1>8 DEF Insert, Call
  <2> HIDE DEF t
  <2>2. OnlyTlvs(pdu, q) /\ q.tlvs = Append(pdu.tlvs, t)
    BY <1>1, <1>3, InsertTlvRight
  <2> HIDE DEF q
  <2>3. q.kind = pdu.kind
    BY <2>2 DEF OnlyTlvs, SameMembers
  <2>4. InOrder(Append(pdu.tlvs, t), ts)
    BY <1>3, <1>4, <1>5, <1>6, <1>7, AppendedInOrder
  <2> QED BY <2>1, <2>2, <2>3, <2>4 DEF StandsInOrder, ts
<1>9. CASE RemoveAll(tag)
  <2> DEFINE q == RemoveTlv(pdu, tag)
  <2>1. pdu' = q
    BY <1>9 DEF RemoveAll, Call
  <2>2. OnlyTlvs(pdu, q)
    BY <1>1, RemoveTlvRight
  <2>3. Ordered(pdu.tlvs, ts)
        /\ \A i \in 1 .. Len(ts) : At(pdu.tlvs, ts[i].tag) # {}
    BY <1>7 DEF InOrder
  <2>4. q \in Pdus /\ q.kind = pdu.kind
    <3> HIDE DEF q
    <3> QED BY <2>2 DEF OnlyTlvs, SameMembers, Right, Sound
  <2>5. /\ Ordered(q.tlvs, ts)
        /\ \A s : s # tag /\ At(pdu.tlvs, s) # {} => At(q.tlvs, s) # {}
    BY <1>1, <1>4, <2>3, <2>4, RemovedInOrder
  <2> HIDE DEF q
  <2>6. InOrder(q.tlvs, ts)
    BY <1>6, <2>3, <2>5 DEF InOrder
  <2> QED BY <2>1, <2>4, <2>6 DEF StandsInOrder, ts
<1> QED BY <1>8, <1>9

(* The setters of the mandatory TLVs. *)
LEMMA SettersInOrder ==
  ASSUME PduInvariant, OrderInvariant,
         \/ \E n \in TlvLengths : SetAreaIdentifier(n + 1)
         \/ \E i \in 2 .. 4 : SetMandatoryTlv(i)
  PROVE  OrderInvariant'
<1>1. Exists /\ Right(pdu) /\ meddled' = meddled
  <2>1. Exists /\ meddled' = meddled
    BY DEF SetAreaIdentifier, SetMandatoryTlv
  <2> QED BY <2>1 DEF PduInvariant
<1> SUFFICES ASSUME ~ meddled' PROVE StandsInOrder(pdu')
  BY DEF OrderInvariant
<1>2. InOrder(pdu.tlvs, MandatoryTlvs(pdu.kind))
  BY <1>1 DEF OrderInvariant, StandsInOrder
<1>3. ASSUME NEW n \in TlvLengths, SetAreaIdentifier(n + 1)
      PROVE  StandsInOrder(pdu')
  <2> DEFINE m == n + 1
             q == AreaIdentifier(pdu, m)
  <2>1. m \in Uint16 /\ pdu' = q /\ MandatoryTags(pdu.kind) # {}
    BY <1>3, PduAssumption DEF SetAreaIdentifier, Call
  <2> HIDE DEF m
  <2>2. Kept(pdu, q)
    BY <1>1, <2>1, AreaIdentifierRight
  <2>3. InOrder(q.tlvs, MandatoryTlvs(pdu.kind))
    BY <1>1, <1>2, <2>1, AreaInOrder
  <2> HIDE DEF q
  <2> QED BY <2>1, <2>2, <2>3 DEF Kept, SameMembers, StandsInOrder
<1>4. ASSUME NEW i \in 2 .. 4, SetMandatoryTlv(i)
      PROVE  StandsInOrder(pdu')
  <2> DEFINE q == SetMandatory(pdu, i)
  <2>1. pdu' = q /\ i \in 2 .. Len(MandatoryTlvs(pdu.kind))
    BY <1>4 DEF SetMandatoryTlv, Call
  <2>2. i \in 1 .. Len(MandatoryTlvs(pdu.kind))
    BY <2>1
  <2>3. Kept(pdu, q)
    BY <1>1, <2>2, SetMandatoryRight
  <2>4. InOrder(q.tlvs, MandatoryTlvs(pdu.kind))
    BY <1>1, <1>2, <2>1, SetMandatoryInOrder
  <2> HIDE DEF q
  <2> QED BY <2>1, <2>3, <2>4 DEF Kept, SameMembers, StandsInOrder
<1> QED BY <1>3, <1>4

(* Every call leaves them in order. *)
LEMMA OrderNext == PduInvariant /\ OrderInvariant /\ [Next]_vars
  => OrderInvariant'
<1> SUFFICES ASSUME PduInvariant, OrderInvariant, [Next]_vars PROVE OrderInvariant'
  OBVIOUS
<1>1. CASE UNCHANGED vars
  BY <1>1 DEF vars, OrderInvariant, StandsInOrder, Exists, None
<1>2. ASSUME NEW k \in Kinds, DefaultConstructor(k) PROVE OrderInvariant'
  BY <1>2, MadeInOrder
<1>3. ASSUME NEW k \in Kinds, NEW n \in Lengths, NEW t \in TextLengths,
             MandatoryConstructor(k, n, t, 1)
      PROVE  OrderInvariant'
  BY <1>3, MadeInOrder
<1>4. ASSUME Exists, NEW f \in Counted(pdu.kind), SetMember(f) PROVE OrderInvariant'
  BY <1>4, MembersInOrder
<1>5. ASSUME Exists, NEW f \in Layout[pdu.kind].octets, SetOctet(f) PROVE OrderInvariant'
  BY <1>5, MembersInOrder
<1>6. ASSUME NEW flag \in {"sme", "list", "unsuccess"}, NEW n \in Lengths, AddToList(flag, n)
      PROVE  OrderInvariant'
  <2>1. Exists
    BY <1>6 DEF AddToList
  <2> QED BY <1>6, <2>1, MembersInOrder
<1>7. ASSUME Exists, NEW tag \in MandatoryTags(pdu.kind) \cup {OptionalTag}, NEW n \in TlvLengths,
             Insert(Tlv(tag, n)) \/ RemoveAll(tag)
      PROVE  OrderInvariant'
  <2>1. tag \in Uint16
    BY MandatoryAre DEF OptionalTag
  <2> QED BY <1>7, <2>1, ByHandInOrder
<1>8. ASSUME NEW n \in TlvLengths, SetAreaIdentifier(n + 1) PROVE OrderInvariant'
  BY <1>8, SettersInOrder
<1>9. ASSUME NEW i \in 2 .. 4, SetMandatoryTlv(i) PROVE OrderInvariant'
  BY <1>9, SettersInOrder
<1>10. ASSUME NEW text \in Texts, NEW coding \in Codings, SendSubmitSm(text, coding)
       PROVE  OrderInvariant'
  BY <1>10, SmsInOrder
<1>11. CASE Receive
  <2>1. Exists
    BY <1>11 DEF Receive
  <2> QED BY <1>11, <2>1, MembersInOrder
<1>12. CASE Destroy
  BY <1>12 DEF Destroy, OrderInvariant, Exists, None
<1> QED BY <1>1, <1>2, <1>3, <1>4, <1>5, <1>6, <1>7, <1>8, <1>9, <1>10,
           <1>11, <1>12 DEF Next

(* The mandatory TLVs are all there in the order of the standard, each but the
   area identifier once, however the setters are called, unless one of them is
   inserted or removed by hand. *)
THEOREM MandatoryStayInOrder == Spec => []MandatoryInOrder
<1>1. Init => OrderInvariant
  BY DEF Init, OrderInvariant, Exists
<1>2. PduInvariant /\ OrderInvariant => MandatoryInOrder
  <2> SUFFICES ASSUME PduInvariant, OrderInvariant, Exists, ~ meddled
               PROVE  MandatoryInOrder
    BY DEF MandatoryInOrder
  <2> DEFINE ts == MandatoryTlvs(pdu.kind)
             tags == [i \in DOMAIN ts |-> ts[i].tag]
             at(i) == {j \in DOMAIN pdu.tlvs : pdu.tlvs[j].tag = tags[i]}
  <2>1. ts \in Seq(TlvSet) /\ DOMAIN ts = 1 .. Len(ts) /\ Len(ts) \in Nat
    BY MandatoryLists, LenProperties
  <2>2. DOMAIN pdu.tlvs = 1 .. Len(pdu.tlvs)
    <3>1. pdu.tlvs \in Seq(TlvSet)
      BY DEF PduInvariant, Right, Sound, Pdus
    <3> QED BY <3>1
  <2>3. InOrder(pdu.tlvs, ts)
    BY DEF OrderInvariant, StandsInOrder
  <2> HIDE DEF ts
  <2>4. DOMAIN tags = 1 .. Len(ts)
        /\ \A i \in 1 .. Len(ts) : at(i) = At(pdu.tlvs, ts[i].tag)
    BY <2>1, <2>2 DEF At
  <2> HIDE DEF tags, at
  <2>5. ASSUME NEW i \in 1 .. Len(ts)
        PROVE  at(i) # {} /\ (i > 1 => Cardinality(at(i)) = 1)
    <3>1. at(i) # {}
      BY <2>3, <2>4 DEF InOrder
    <3>2. ASSUME i > 1 PROVE Cardinality(at(i)) = 1
      <4>1. i \in 2 .. Len(ts)
        BY <2>1, <3>2
      <4>2. Single(pdu.tlvs, ts[i].tag)
        BY <2>3, <4>1 DEF InOrder, Ordered
      <4>3. PICK x : x \in at(i)
        BY <3>1
      <4>4. at(i) = {x}
        BY <2>4, <4>2, <4>3 DEF Single
      <4> QED BY <4>4, FS_Singleton
    <3> QED BY <3>1, <3>2
  <2>6. ASSUME NEW i \in 1 .. Len(ts), NEW j \in 1 .. Len(ts), i < j
        PROVE  \A x \in at(i), y \in at(j) : x < y
    BY <2>3, <2>4, <2>6 DEF InOrder, Ordered, Before
  <2>7. /\ \A i \in DOMAIN tags : at(i) # {}
           /\ (i > 1 => Cardinality(at(i)) = 1)
        /\ \A i, j \in DOMAIN tags : i < j
             => \A x \in at(i), y \in at(j) : x < y
    BY <2>4, <2>5, <2>6
  <2> QED BY <2>7 DEF MandatoryInOrder, tags, at, ts
<1>3. PduInvariant /\ PduInvariant' /\ OrderInvariant /\ [Next]_vars
        => OrderInvariant'
  BY OrderNext
<1> QED BY <1>1, <1>2, <1>3, PduInvariance, PTL DEF Spec

(****************************************************************************)
(* Cut frames: what a cut leaves of a frame.                                *)
(****************************************************************************)

(* c is a frame cut short: from the fifth octet on it is as b, and b has the
   octets s.  Then c has them too or ends within them. *)
LEMMA WholeOrCut ==
  ASSUME NEW b \in Seq(Nat), NEW c \in Seq(Nat), Len(c) <= Len(b),
         \A i \in 5 .. Len(c) : c[i] = b[i],
         NEW off \in Nat, off >= 4, off <= Len(c), NEW s \in Seq(Nat), Written(b, off, s)
  PROVE  /\ off + Len(s) <= Len(c) => Written(c, off, s)
         /\ ~ (off + Len(s) <= Len(c)) => CutShort(c, off, s)
<1>1. Len(b) \in Nat /\ Len(c) \in Nat /\ Len(s) \in Nat
  BY LenProperties
<1>2. ASSUME NEW i \in 1 .. Len(s), off + i <= Len(c)
      PROVE  c[off + i] = s[i]
  <2>1. off + i \in 5 .. Len(c)
    BY <1>1, <1>2
  <2>2. c[off + i] = b[off + i] /\ b[off + i] = s[i]
    BY <2>1 DEF Written
  <2> QED BY <2>2
<1>3. CASE off + Len(s) <= Len(c)
  <2>1. \A i \in 1 .. Len(s) : off + i <= Len(c)
    BY <1>1, <1>3
  <2> QED BY <1>2, <1>3, <2>1 DEF Written
<1>4. CASE ~ (off + Len(s) <= Len(c))
  <2>1. Len(c) < off + Len(s)
    BY <1>1, <1>4
  <2> QED BY <1>2, <1>4, <2>1 DEF CutShort
<1> QED BY <1>3, <1>4

(* The frame that is left of b after n octets. *)
LEMMA CutFrameIs ==
  ASSUME NEW b \in Seq(Nat), NEW n \in 4 .. Len(b)
  PROVE  /\ CutFrame(b, n) \in Seq(Nat) /\ Len(CutFrame(b, n)) = n
         /\ \A i \in 5 .. n : CutFrame(b, n)[i] = b[i]
<1> DEFINE w == Word(n)
           s == SubSeq(b, 5, n)
           c == w \o s
<1>1. w \in Seq(Nat) /\ Len(w) = 4
  BY WordIs
<1>2. n \in Int /\ 5 \in Int /\ \A i \in 5 .. n : b[i] \in Nat
  OBVIOUS
<1>3. s \in Seq(Nat) /\ Len(s) = (IF 5 <= n THEN n - 5 + 1 ELSE 0)
      /\ \A i \in 1 .. n - 5 + 1 : s[i] = b[5 + i - 1]
  BY <1>2, SubSeqProperties
<1> HIDE DEF w, s
<1>4. /\ c \in Seq(Nat) /\ Len(c) = Len(w) + Len(s)
      /\ \A i \in 1 .. Len(w) + Len(s) : c[i] = IF i <= Len(w) THEN w[i] ELSE s[i - Len(w)]
  BY <1>1, <1>3, ConcatProperties
<1> HIDE DEF c
<1>5. Len(s) = n - 4 /\ Len(c) = n
  BY <1>1, <1>3, <1>4
<1>6. ASSUME NEW i \in 5 .. n PROVE c[i] = b[i]
  <2>1. /\ i \in 1 .. Len(w) + Len(s) /\ ~ (i <= Len(w)) /\ i - Len(w) = i - 4
        /\ i - 4 \in 1 .. n - 5 + 1 /\ 5 + (i - 4) - 1 = i
    BY <1>1, <1>5
  <2>2. c[i] = s[i - 4]
    BY <1>4, <2>1
  <2>3. s[i - 4] = b[i]
    BY <1>3, <2>1
  <2> QED BY <2>2, <2>3
<1> QED BY <1>4, <1>5, <1>6 DEF CutFrame, c, w, s

(* What the first i TLVs take is where the next one begins. *)
LEMMA SumIsAt ==
  ASSUME NEW tlvs \in Seq(TlvSet), NEW at, TlvsLaid(tlvs, at)
  PROVE  \A i \in 0 .. Len(tlvs) :
           SumFunctionOnSet([h \in DOMAIN tlvs |-> Octets(tlvs[h])], 1 .. i) = at[i]
<1> DEFINE n == Len(tlvs)
           U == 1 .. n
           f == [h \in U |-> Octets(tlvs[h])]
           S == {i \in 0 .. n : SumFunctionOnSet(f, 1 .. i) = at[i]}
<1>1. n \in Nat /\ DOMAIN tlvs = U /\ \A i \in U : tlvs[i] \in TlvSet
  OBVIOUS
<1>2. \A i \in U : Octets(tlvs[i]) \in Nat
  BY <1>1, TlvIs
<1>3. f \in [U -> Nat] /\ IsFiniteSet(U)
  BY <1>1, <1>2, FS_Interval
<1>4. \A i \in U : f[i] = Octets(tlvs[i])
  OBVIOUS
<1>5. /\ at[0] = 0 /\ \A i \in 0 .. n : at[i] \in Nat
      /\ \A i \in 1 .. n : at[i] = at[i - 1] + Octets(tlvs[i])
  BY DEF TlvsLaid
<1> HIDE DEF f
<1>6. /\ SumFunctionOnSet(f, {}) = 0
      /\ \A T \in SUBSET U : \A x \in T :
           SumFunctionOnSet(f, T) = f[x] + SumFunctionOnSet(f, T \ {x})
  <2> HIDE DEF U
  <2> QED BY <1>3, SumSteps
<1>7. 0 \in S
  <2>1. 1 .. 0 = {} /\ 0 \in 0 .. n
    BY <1>1
  <2> QED BY <1>5, <1>6, <2>1
<1>8. ASSUME NEW i \in 1 .. n, i - 1 \in S
      PROVE  i \in S
  <2>1. /\ i \in 0 .. n /\ i \in 1 .. i /\ 1 .. i \in SUBSET U
        /\ (1 .. i) \ {i} = 1 .. i - 1
    BY <1>1
  <2>2. SumFunctionOnSet(f, 1 .. i) = f[i] + SumFunctionOnSet(f, (1 .. i) \ {i})
    BY <1>6, <2>1
  <2>3. SumFunctionOnSet(f, 1 .. i - 1) = at[i - 1]
    BY <1>8
  <2>4. f[i] = Octets(tlvs[i]) /\ Octets(tlvs[i]) \in Nat
        /\ at[i] = at[i - 1] + Octets(tlvs[i])
    BY <1>2, <1>4, <1>5
  <2>5. at[i - 1] \in Nat
    BY <1>1, <1>5
  <2>6. Octets(tlvs[i]) + at[i - 1] = at[i - 1] + Octets(tlvs[i])
    <3> DEFINE x == at[i - 1]
               y == Octets(tlvs[i])
    <3>1. x \in Nat /\ y \in Nat
      BY <2>4, <2>5
    <3> HIDE DEF x, y
    <3> QED BY <3>1 DEF x, y
  <2> QED BY <2>1, <2>2, <2>3, <2>4, <2>6
<1>9. \A i \in 0 .. n : i \in S
  <2> HIDE DEF S
  <2> QED BY <1>1, <1>7, <1>8, UpTo
<1> QED BY <1>1, <1>9 DEF f

(* The TLVs lie in the order of their offsets. *)
LEMMA TlvsInOrder ==
  ASSUME NEW tlvs \in Seq(TlvSet), NEW at, TlvsLaid(tlvs, at)
  PROVE  \A h \in 0 .. Len(tlvs) : \A i \in 0 .. h : at[i] <= at[h]
<1> DEFINE n == Len(tlvs)
           S == {h \in 0 .. n : \A i \in 0 .. h : at[i] <= at[h]}
<1>1. n \in Nat /\ at[0] = 0 /\ \A i \in 0 .. n : at[i] \in Nat
  BY DEF TlvsLaid
<1>2. \A i \in 1 .. n : at[i - 1] < at[i]
  BY TlvsGrow
<1> HIDE DEF n
<1>3. 0 \in S
  <2>1. 0 \in 0 .. n /\ \A i \in 0 .. 0 : i = 0
    BY <1>1
  <2> QED BY <1>1, <2>1
<1>4. ASSUME NEW h \in 1 .. n, h - 1 \in S
      PROVE  h \in S
  <2>1. h \in 0 .. n /\ h - 1 \in 0 .. n
    BY <1>1
  <2>2. ASSUME NEW i \in 0 .. h PROVE at[i] <= at[h]
    <3>1. i = h \/ i \in 0 .. h - 1
      OBVIOUS
    <3>2. i \in 0 .. n
      BY <1>1, <2>1
    <3>3. at[i] \in Nat /\ at[h] \in Nat /\ at[h - 1] \in Nat
          /\ at[h - 1] < at[h]
      BY <1>1, <1>2, <2>1, <3>2
    <3>4. CASE i = h
      BY <3>3, <3>4
    <3>5. CASE i \in 0 .. h - 1
      <4>1. at[i] <= at[h - 1]
        BY <1>4, <3>5
      <4> DEFINE x == at[i]
                 y == at[h - 1]
                 z == at[h]
      <4>2. x \in Nat /\ y \in Nat /\ z \in Nat /\ x <= y /\ y < z
        BY <3>3, <4>1
      <4>3. x <= z
        <5> HIDE DEF x, y, z
        <5> QED BY <4>2
      <4> QED BY <4>3
    <3> QED BY <3>1, <3>4, <3>5
  <2> QED BY <2>1, <2>2
<1>5. \A h \in 0 .. n : h \in S
  <2> HIDE DEF S
  <2> QED BY <1>1, <1>3, <1>4, UpTo
<1> QED BY <1>5 DEF n

(* A frame of n octets, at least the members, has the first j TLVs and not the
   one after them. *)
LEMMA FirstTlvs ==
  ASSUME NEW tlvs \in Seq(TlvSet), NEW at, TlvsLaid(tlvs, at), NEW body \in Nat,
         NEW n \in Nat, body <= n, n < body + at[Len(tlvs)]
  PROVE  \E j \in 1 .. Len(tlvs) :
           /\ body + at[j - 1] <= n /\ n < body + at[j]
           /\ \A i \in 1 .. Len(tlvs) : body + at[i] <= n <=> i \in 1 .. j - 1
<1> DEFINE N == Len(tlvs)
           J == {i \in 1 .. N : n < body + at[i]}
<1>1. /\ N \in Nat /\ DOMAIN tlvs = 1 .. N /\ at[0] = 0
      /\ \A i \in 0 .. N : at[i] \in Nat
      /\ \A h \in 0 .. N : \A i \in 0 .. h : at[i] <= at[h]
  <2>1. N \in Nat /\ DOMAIN tlvs = 1 .. N
    OBVIOUS
  <2>2. at[0] = 0 /\ \A i \in 0 .. N : at[i] \in Nat
    BY DEF TlvsLaid
  <2>3. \A h \in 0 .. N : \A i \in 0 .. h : at[i] <= at[h]
    BY TlvsInOrder
  <2> QED BY <2>1, <2>2, <2>3
<1>2. n < body + at[N]
  OBVIOUS
<1> HIDE DEF N
<1>3. N \in J
  <2>1. N # 0
    BY <1>1, <1>2
  <2> QED BY <1>1, <1>2, <2>1
<1>4. PICK j \in J : \A i \in J : j <= i
  <2>1. J \in SUBSET Nat
    BY <1>1
  <2>2. J # {}
    BY <1>3
  <2> HIDE DEF J
  <2> QED BY <2>1, <2>2, LeastElement
<1>5. j \in 1 .. N /\ n < body + at[j] /\ j - 1 \in 0 .. N
  BY <1>1
<1>6. ASSUME NEW i \in 0 .. j - 1 PROVE body + at[i] <= n
  <2>1. i \in 0 .. N /\ ~ (j <= i) /\ (i = 0 \/ i \in 1 .. N)
    BY <1>1, <1>5
  <2>2. i \notin J /\ at[i] \in Nat
    BY <1>1, <1>4, <2>1
  <2>3. CASE i = 0
    BY <1>1, <2>3
  <2>4. CASE i \in 1 .. N
    BY <2>2, <2>4
  <2> QED BY <2>1, <2>3, <2>4
<1>7. ASSUME NEW i \in 1 .. N, ~ (i \in 1 .. j - 1) PROVE ~ (body + at[i] <= n)
  <2>1. j \in 0 .. i /\ i \in 0 .. N /\ j \in 0 .. N
    BY <1>1, <1>5, <1>7
  <2>2. at[j] <= at[i] /\ at[i] \in Nat /\ at[j] \in Nat
    BY <1>1, <2>1
  <2> DEFINE x == at[i]
             y == at[j]
  <2>3. x \in Nat /\ y \in Nat /\ y <= x /\ n < body + y
    BY <1>5, <2>2
  <2>4. ~ (body + x <= n)
    <3> HIDE DEF x, y
    <3> QED BY <2>3
  <2> QED BY <2>4
<1>8. \A i \in 1 .. N : body + at[i] <= n <=> i \in 1 .. j - 1
  <2>1. \A i \in 1 .. j - 1 : i \in 0 .. j - 1
    OBVIOUS
  <2> QED BY <1>6, <1>7, <2>1
<1>9. body + at[j - 1] <= n
  <2>1. j - 1 \in 0 .. j - 1
    BY <1>5
  <2> QED BY <1>6, <2>1
<1> QED BY <1>5, <1>8, <1>9 DEF N

(****************************************************************************)
(* Cut frames: the header and the members.                                  *)
(****************************************************************************)

(* What CutsAreRefused says of n: the cut falls between two TLVs of p, or
   before the first, and the required TLVs are before it. *)
CutBetween(p, n) ==
  LET octets == [i \in DOMAIN p.tlvs |-> Octets(p.tlvs[i])]
      tlvOctets(S) == SumFunctionOnSet(octets, S)
      body == Len(Encode(p)) - tlvOctets(DOMAIN p.tlvs)
      first == {i \in DOMAIN p.tlvs : body + tlvOctets(1 .. i) <= n}
  IN  /\ n >= body /\ n = body + tlvOctets(first)
      /\ RequiredTags(p.kind) \subseteq {p.tlvs[i].tag : i \in first}

(* The same with the offsets of the TLVs. *)
LEMMA CutBetweenIs ==
  ASSUME NEW p, Sound(p), NEW at, TlvsLaid(p.tlvs, at), at[Len(p.tlvs)] = TlvOctets(p.tlvs),
         NEW n \in Nat, n < Len(Encode(p)), NEW j \in 1 .. Len(p.tlvs),
         \A i \in 1 .. Len(p.tlvs) :
           (16 + FieldsOctets(p)) + at[i] <= n <=> i \in 1 .. j - 1,
         n >= 16 + FieldsOctets(p)
  PROVE  CutBetween(p, n) <=>
           /\ n = (16 + FieldsOctets(p)) + at[j - 1]
           /\ RequiredTags(p.kind) \subseteq {p.tlvs[i].tag : i \in 1 .. j - 1}
<1> DEFINE tlvs == p.tlvs
           N == Len(tlvs)
           octets == [i \in DOMAIN tlvs |-> Octets(tlvs[i])]
           body == 16 + FieldsOctets(p)
           first == {i \in DOMAIN tlvs : (Len(Encode(p)) - SumFunctionOnSet(octets, DOMAIN tlvs))
                                           + SumFunctionOnSet(octets, 1 .. i) <= n}
<1>1. tlvs \in Seq(TlvSet) /\ N \in Nat /\ DOMAIN tlvs = 1 .. N
  BY SoundIs
<1>2. \A i \in 0 .. N : SumFunctionOnSet(octets, 1 .. i) = at[i]
  BY <1>1, SumIsAt
<1>3. Len(Encode(p)) = body + TlvOctets(tlvs) /\ FieldsOctets(p) \in Nat
      /\ TlvOctets(tlvs) \in Nat
  BY <1>1, EncodeIs, FieldFramesAre, TlvFramesAre
<1>4. Len(Encode(p)) - SumFunctionOnSet(octets, DOMAIN tlvs) = body
  <2>1. SumFunctionOnSet(octets, DOMAIN tlvs) = TlvOctets(tlvs)
    BY <1>1, <1>2
  <2> DEFINE x == FieldsOctets(p)
             y == TlvOctets(tlvs)
  <2>2. x \in Nat /\ y \in Nat /\ Len(Encode(p)) = (16 + x) + y
    BY <1>3
  <2>3. ((16 + x) + y) - y = 16 + x
    <3> HIDE DEF x, y
    <3> QED BY <2>2
  <2> QED BY <2>1, <2>2, <2>3
<1> HIDE DEF octets
<1>5. first = 1 .. j - 1
  <2>1. \A i \in DOMAIN tlvs : i \in 0 .. N
    BY <1>1
  <2>2. \A i \in DOMAIN tlvs : SumFunctionOnSet(octets, 1 .. i) = at[i]
    BY <1>2, <2>1
  <2>3. \A i \in DOMAIN tlvs : i \in first <=> body + at[i] <= n
    BY <1>4, <2>2
  <2>4. \A i \in 1 .. N : body + at[i] <= n <=> i \in 1 .. j - 1
    OBVIOUS
  <2>5. \A i \in 1 .. j - 1 : i \in 1 .. N
    BY <1>1
  <2>6. \A i \in first : i \in DOMAIN tlvs
    OBVIOUS
  <2> HIDE DEF first, body, N, tlvs
  <2> QED BY <1>1, <2>3, <2>4, <2>5, <2>6
<1>6. SumFunctionOnSet(octets, first) = at[j - 1]
  <2>1. j - 1 \in 0 .. N
    BY <1>1
  <2> QED BY <1>2, <1>5, <2>1
<1>7. CutBetween(p, n) <=>
        /\ n >= body /\ n = body + SumFunctionOnSet(octets, first)
        /\ RequiredTags(p.kind) \subseteq {tlvs[i].tag : i \in first}
  BY <1>4 DEF CutBetween, octets
<1> HIDE DEF first, body
<1> QED BY <1>5, <1>6, <1>7 DEF body

(* A frame that ends within the header or the members is refused. *)
LEMMA CutBody ==
  ASSUME NEW p, Sound(p), CanDecode(p), NEW n \in 4 .. Len(Encode(p)),
         n < 16 + FieldsOctets(p)
  PROVE  Decode(p.kind, CutFrame(Encode(p), n)) = Refused
<1> DEFINE k == p.kind
           b == Encode(p)
           c == CutFrame(b, n)
           t == FlattenSeq(FieldFrames(p))
<1>1. /\ b \in Seq(Nat) /\ Written(b, 16, t) /\ Len(t) = FieldsOctets(p)
      /\ t \in Seq(Nat) /\ FieldsOctets(p) \in Nat
  BY EncodeIs, FieldFramesAre DEF FieldsOctets
<1>2. Len(b) \in Nat /\ n <= Len(b) /\ n \in Nat
  BY <1>1, LenProperties
<1>3. c \in Seq(Nat) /\ Len(c) = n /\ \A i \in 5 .. n : c[i] = b[i]
  <2> HIDE DEF b
  <2>1. n \in 4 .. Len(b)
    BY DEF b
  <2> QED BY <1>1, <2>1, CutFrameIs
<1>4. CASE n < 16
  BY <1>3, <1>4 DEF Decode
<1>5. CASE ~ (n < 16)
  <2>1. CutShort(c, 16, t)
    <3> HIDE DEF b, c, t
    <3>1. Len(c) <= Len(b) /\ \A i \in 5 .. Len(c) : c[i] = b[i]
      BY <1>2, <1>3
    <3>2. 16 \in Nat /\ 16 >= 4 /\ 16 <= Len(c) /\ ~ (16 + Len(t) <= Len(c))
      BY <1>1, <1>2, <1>3, <1>5
    <3>3. b \in Seq(Nat) /\ c \in Seq(Nat) /\ t \in Seq(Nat)
          /\ Written(b, 16, t)
      BY <1>1, <1>3
    <3> QED BY <3>1, <3>2, <3>3, WholeOrCut
  <2>2. \A f \in Layout[k].addresses : ~ TooLong(p, f)
    <3>1. \A f \in Layout[k].addresses : p.val[f] < MaxLen /\ p.val[f] \in Nat
      <4>1. Layout[k].addresses \subseteq Fields(k)
        BY DEF Fields, Counted
      <4> QED BY <4>1, SoundIs DEF CanDecode
    <3> QED BY <3>1 DEF TooLong, MaxLen
  <2> HIDE DEF c, k
  <2>3. DecodeFields(k, c) = Refused
    BY <1>3, <2>1, <2>2, FieldsCut DEF k
  <2>4. Decode(k, c) = Finish(Refused, c)
    BY <1>3, <1>5, <2>3 DEF Decode
  <2> QED BY <2>4 DEF Finish, Refused, k, c
<1> QED BY <1>4, <1>5

(* decode has the members of such a frame, then comes what is left of the TLVs. *)
LEMMA CutTlvs ==
  ASSUME NEW p, Sound(p), CanDecode(p), NEW n \in 4 .. Len(Encode(p)),
         n >= 16 + FieldsOctets(p)
  PROVE  Decode(p.kind, CutFrame(Encode(p), n)) =
           WithTlvs(PduTaken(p.kind, n, p.val, p.list),
                    TlvsAt(CutFrame(Encode(p), n), 16 + FieldsOctets(p)))
<1> DEFINE k == p.kind
           b == Encode(p)
           c == CutFrame(b, n)
           t == FlattenSeq(FieldFrames(p))
           o == 16 + FieldsOctets(p)
<1>1. /\ b \in Seq(Nat) /\ Written(b, 16, t) /\ Len(t) = FieldsOctets(p)
      /\ t \in Seq(Nat) /\ FieldsOctets(p) \in Nat
  BY EncodeIs, FieldFramesAre DEF FieldsOctets
<1>2. Len(b) \in Nat /\ n <= Len(b) /\ n \in Nat
  BY <1>1, LenProperties
<1>3. c \in Seq(Nat) /\ Len(c) = n /\ \A i \in 5 .. n : c[i] = b[i]
  <2> HIDE DEF b
  <2>1. n \in 4 .. Len(b)
    BY DEF b
  <2> QED BY <1>1, <2>1, CutFrameIs
<1>4. Written(c, 16, t)
  <2> HIDE DEF b, c, t
  <2>1. Len(c) <= Len(b) /\ \A i \in 5 .. Len(c) : c[i] = b[i]
    BY <1>2, <1>3
  <2>2. 16 \in Nat /\ 16 >= 4 /\ 16 <= Len(c) /\ 16 + Len(t) <= Len(c)
    BY <1>1, <1>2, <1>3
  <2>3. b \in Seq(Nat) /\ c \in Seq(Nat) /\ t \in Seq(Nat) /\ Written(b, 16, t)
    BY <1>1, <1>3
  <2> QED BY <2>1, <2>2, <2>3, WholeOrCut
<1>5. ~ \E f \in Layout[k].addresses : TooLong(p, f)
  <2>1. \A f \in Layout[k].addresses : p.val[f] < MaxLen /\ p.val[f] \in Nat
    <3>1. Layout[k].addresses \subseteq Fields(k)
      BY DEF Fields, Counted
    <3> QED BY <3>1, SoundIs DEF CanDecode
  <2> QED BY <2>1 DEF TooLong, MaxLen
<1> DEFINE r == FieldsTaken(k, n, o, p.val, p.list)
<1>6. r.ok /\ r.off = o /\ r.pdu = PduTaken(k, n, p.val, p.list)
  BY DEF FieldsTaken
<1>7. ~ (n < 16)
  BY <1>1, <1>2
<1> HIDE DEF c, k, r, o
<1>8. DecodeFields(k, c) = r
  BY <1>3, <1>4, <1>5, FieldsWhole DEF k, r, o
<1>9. Decode(k, c) = Finish(r, c)
  BY <1>3, <1>7, <1>8 DEF Decode
<1>10. Finish(r, c) = WithTlvs(PduTaken(k, n, p.val, p.list), TlvsAt(c, o))
  BY <1>6 DEF Finish
<1> QED BY <1>9, <1>10 DEF c, k, o

(****************************************************************************)
(* Cut frames: the TLVs.                                                    *)
(****************************************************************************)

(* decode_tlvs of a frame that ends after its members: the TLVs before the end
   or, if the end is not between two TLVs, a refusal. *)
LEMMA TlvsOfCut ==
  ASSUME NEW p, Sound(p), NEW at,
         LaidOut(TlvFrames(p.tlvs), FlattenSeq(TlvFrames(p.tlvs)), at), TlvsLaid(p.tlvs, at),
         NEW n \in 4 .. Len(Encode(p)), NEW j \in 1 .. Len(p.tlvs),
         (16 + FieldsOctets(p)) + at[j - 1] <= n, n < (16 + FieldsOctets(p)) + at[j]
  PROVE  TlvsAt(CutFrame(Encode(p), n), 16 + FieldsOctets(p)) =
           IF n = (16 + FieldsOctets(p)) + at[j - 1]
           THEN TlvsTaken(n, SubSeq(p.tlvs, 1, j - 1)) ELSE Refused
<1> DEFINE tlvs == p.tlvs
           N == Len(tlvs)
           ss == TlvFrames(tlvs)
           s == FlattenSeq(ss)
           b == Encode(p)
           c == CutFrame(b, n)
           o == 16 + FieldsOctets(p)
           h == j - 1
<1>1. /\ tlvs \in Seq(TlvSet) /\ N \in Nat
      /\ ss \in Seq(Seq(Nat)) /\ Len(ss) = N /\ s \in Seq(Nat)
      /\ \A i \in 1 .. N : tlvs[i] \in TlvSet /\ ss[i] = EncodedTlv(tlvs[i])
  <2>1. tlvs \in Seq(TlvSet)
    BY SoundIs
  <2>2. ss \in Seq(Seq(Nat)) /\ Len(ss) = N
        /\ \A i \in 1 .. N : ss[i] = EncodedTlv(tlvs[i])
    BY <2>1, TlvFramesAre
  <2>3. s \in Seq(Nat)
    BY <2>2, Flattened
  <2> QED BY <2>1, <2>2, <2>3, SMTT(30)
<1>2. b \in Seq(Nat) /\ Written(b, o, s) /\ FieldsOctets(p) \in Nat
      /\ o \in Nat /\ o >= 4
  BY EncodeIs, FieldFramesAre
<1>3. c \in Seq(Nat) /\ Len(c) = n /\ \A i \in 5 .. n : c[i] = b[i]
  <2> HIDE DEF b
  <2>1. n \in 4 .. Len(b)
    BY DEF b
  <2> QED BY <1>2, <2>1, CutFrameIs
<1>4. Len(b) \in Nat /\ n \in Nat /\ n <= Len(b)
  BY <1>2, LenProperties
<1>5. \A i \in 1 .. N : Written(b, o + at[i - 1], EncodedTlv(tlvs[i]))
  <2> HIDE DEF ss, s, b, o
  <2>1. LaidOut(ss, s, at)
    BY DEF ss, s
  <2> QED BY <1>1, <1>2, <2>1, WrittenPieces
<1>6. /\ h \in 0 .. N /\ j \in 1 .. N /\ \A i \in 1 .. h : i \in 1 .. N
         /\ i \in 0 .. h
      /\ \A i \in 0 .. N : at[i] \in Nat
      /\ \A i \in 1 .. N : at[i] = at[i - 1] + Octets(tlvs[i])
      /\ o + at[h] <= n /\ n < o + at[j]
  BY <1>1 DEF TlvsLaid
<1>7. \A i \in 1 .. N : /\ EncodedTlv(tlvs[i]) \in Seq(Nat)
                        /\ Len(EncodedTlv(tlvs[i])) = Octets(tlvs[i])
                        /\ Octets(tlvs[i]) \in Nat
  BY <1>1, TlvIs
<1>a. TlvsLaid(tlvs, at) /\ \A i \in 0 .. h : at[i] <= at[h]
  <2>1. TlvsLaid(tlvs, at)
    OBVIOUS
  <2> HIDE DEF h, N
  <2> QED BY <1>1, <1>6, <2>1, TlvsInOrder DEF N
<1> HIDE DEF tlvs, N, ss, s, b, c, o, h
<1>b. ASSUME NEW i \in 1 .. N, o + at[i - 1] <= n
      PROVE  /\ o + at[i] <= n
                  => Written(c, o + at[i - 1], EncodedTlv(tlvs[i]))
             /\ n < o + at[i]
                  => CutShort(c, o + at[i - 1], EncodedTlv(tlvs[i]))
  <2> DEFINE t == EncodedTlv(tlvs[i])
             x == at[i - 1]
             y == Octets(tlvs[i])
             off == o + x
  <2>1. x \in Nat /\ y \in Nat /\ at[i] = x + y /\ Len(t) = y /\ t \in Seq(Nat)
    <3>1. i - 1 \in 0 .. N
      BY <1>1
    <3> QED BY <1>6, <1>7, <3>1
  <2>2. Written(b, off, t)
    BY <1>5
  <2>3. off <= n
    BY <1>b
  <2> HIDE DEF x, y, t
  <2>4. off \in Nat /\ off >= 4 /\ o + (x + y) = off + y
    BY <1>2, <2>1
  <2>5. n < o + (x + y) => ~ (off + y <= n)
    BY <1>2, <1>4, <2>1
  <2> HIDE DEF off
  <2>6. Len(c) <= Len(b) /\ off <= Len(c) /\ \A e \in 5 .. Len(c) : c[e] = b[e]
    BY <1>3, <1>4, <2>3
  <2>7. /\ off + Len(t) <= Len(c) => Written(c, off, t)
        /\ ~ (off + Len(t) <= Len(c)) => CutShort(c, off, t)
    BY <1>2, <1>3, <2>1, <2>2, <2>4, <2>6, WholeOrCut
  <2> QED BY <1>3, <2>1, <2>4, <2>5, <2>7 DEF off, t, x
<1>8. ASSUME NEW i \in 1 .. h
      PROVE  Written(c, o + at[i - 1], EncodedTlv(tlvs[i]))
  <2>1. i \in 1 .. N /\ i \in 0 .. N /\ i - 1 \in 0 .. h /\ i - 1 \in 0 .. N
    BY <1>6, <1>1
  <2>2. at[i] <= at[h] /\ at[i - 1] <= at[h]
    BY <1>6, <1>a, <2>1
  <2> DEFINE x == at[i - 1]
             y == at[i]
             z == at[h]
  <2>3. x \in Nat /\ y \in Nat /\ z \in Nat /\ x <= z /\ y <= z /\ o + z <= n
    BY <1>6, <2>1, <2>2
  <2>4. o + x <= n /\ o + y <= n
    <3> HIDE DEF x, y, z
    <3> QED BY <1>2, <1>4, <2>3
  <2> QED BY <1>b, <2>1, <2>4
<1>9. CASE n = o + at[h]
  <2>1. o + at[h] = Len(c)
    BY <1>3, <1>9
  <2>2. TlvsAt(c, o) = TlvsTaken(Len(c), SubSeq(tlvs, 1, h))
    <3>1. h \in 0 .. Len(tlvs)
      BY <1>6 DEF N
    <3> QED BY <1>1, <1>2, <1>3, <1>8, <1>a, <2>1, <3>1, TlvsAtEnd
  <2> QED BY <1>3, <1>9, <2>2 DEF h, o, c, b, tlvs
<1>10. CASE ~ (n = o + at[h])
  <2>1. o + at[h] < Len(c)
    <3> DEFINE z == at[h]
    <3>1. z \in Nat /\ o + z <= n /\ n # o + z
      BY <1>6, <1>10
    <3> HIDE DEF z
    <3>2. o + z < n
      BY <1>2, <1>4, <3>1
    <3> QED BY <1>3, <3>2 DEF z
  <2>2. CutShort(c, o + at[j - 1], EncodedTlv(tlvs[j]))
    BY <1>6, <1>b DEF h
  <2>3. TlvsAt(c, o) = Refused
    <3>1. j \in 1 .. Len(tlvs) /\ o + at[j - 1] < Len(c)
      BY <1>6, <2>1 DEF N, h
    <3>2. \A i \in 1 .. j - 1 : Written(c, o + at[i - 1], EncodedTlv(tlvs[i]))
      BY <1>8 DEF h
    <3> QED BY <1>1, <1>2, <1>3, <1>a, <2>2, <3>1, <3>2, TlvsAtCut
  <2> QED BY <1>10, <2>3 DEF h, o, c, b, tlvs
<1> QED BY <1>9, <1>10

(* What a cut frame of a decodable object decodes to. *)
LEMMA CutIs ==
  ASSUME NEW p, Sound(p), CanDecode(p), NEW n \in 4 .. Len(Encode(p)) - 1
  PROVE  Decode(p.kind, CutFrame(Encode(p), n)).ok <=> CutBetween(p, n)
<1> DEFINE tlvs == p.tlvs
           N == Len(tlvs)
           b == Encode(p)
           c == CutFrame(b, n)
           body == 16 + FieldsOctets(p)
<1>1. /\ tlvs \in Seq(TlvSet) /\ N \in Nat /\ DOMAIN tlvs = 1 .. N
      /\ FieldsOctets(p) \in Nat /\ TlvOctets(tlvs) \in Nat
      /\ Len(b) = body + TlvOctets(tlvs) /\ Len(b) \in Nat /\ body \in Nat
  <2>1. tlvs \in Seq(TlvSet)
    BY SoundIs
  <2>2. FieldsOctets(p) \in Nat /\ TlvOctets(tlvs) \in Nat
    BY <2>1, FieldFramesAre, TlvFramesAre
  <2>3. b \in Seq(Nat) /\ Len(b) = body + TlvOctets(tlvs)
    BY EncodeIs
  <2> HIDE DEF b
  <2> QED BY <2>1, <2>2, <2>3, SMTT(30)
<1>2. n \in Nat /\ n < Len(b) /\ n \in 4 .. Len(b)
  <2> HIDE DEF b
  <2>1. n \in 4 .. Len(b) - 1
    BY DEF b
  <2> QED BY <1>1, <2>1
<1>3. PICK at : /\ LaidOut(TlvFrames(tlvs), FlattenSeq(TlvFrames(tlvs)), at)
                /\ TlvsLaid(tlvs, at) /\ at[N] = TlvOctets(tlvs)
  BY <1>1, TlvsLaidOut
<1>4. ~ Refused.ok
  BY DEF Refused
<1>5. CASE n < body
  <2>1. Decode(p.kind, c) = Refused
    BY <1>2, <1>5, CutBody
  <2>2. ~ CutBetween(p, n)
    <3> DEFINE octets == [i \in DOMAIN tlvs |-> Octets(tlvs[i])]
    <3>1. SumFunctionOnSet(octets, 1 .. N) = at[N]
      <4>1. tlvs \in Seq(TlvSet) /\ TlvsLaid(tlvs, at)
        BY <1>1, <1>3
      <4>2. N \in 0 .. N
        BY <1>1
      <4> HIDE DEF tlvs
      <4>3. \A i \in 0 .. Len(tlvs) :
              SumFunctionOnSet([h \in DOMAIN tlvs |-> Octets(tlvs[h])], 1 .. i) = at[i]
        BY <4>1, SumIsAt
      <4> QED BY <4>2, <4>3
    <3>2. SumFunctionOnSet(octets, DOMAIN tlvs) = TlvOctets(tlvs)
      BY <1>1, <1>3, <3>1
    <3> DEFINE x == TlvOctets(tlvs)
               l == Len(b)
    <3>3. x \in Nat /\ l = body + x /\ ~ (n >= l - x)
      <4>1. x \in Nat /\ l = body + x
        BY <1>1
      <4> HIDE DEF x, l, body
      <4> QED BY <1>1, <1>2, <1>5, <4>1
    <3> QED BY <3>2, <3>3 DEF CutBetween
  <2> QED BY <1>4, <2>1, <2>2
<1>6. CASE ~ (n < body)
  <2>1. n >= body /\ body <= n /\ n < body + at[N]
    <3> DEFINE x == TlvOctets(tlvs)
               l == Len(b)
    <3>1. x \in Nat /\ l = body + x /\ n < l /\ at[N] = x
      BY <1>1, <1>2, <1>3
    <3> HIDE DEF x, l, body
    <3> QED BY <1>1, <1>2, <1>6, <3>1
  <2>2. PICK j \in 1 .. N :
          /\ body + at[j - 1] <= n /\ n < body + at[j]
          /\ \A i \in 1 .. N : body + at[i] <= n <=> i \in 1 .. j - 1
    <3>1. tlvs \in Seq(TlvSet) /\ TlvsLaid(tlvs, at) /\ body \in Nat
          /\ n \in Nat
          /\ body <= n /\ n < body + at[Len(tlvs)]
      BY <1>1, <1>2, <1>3, <2>1
    <3> HIDE DEF body, tlvs
    <3> QED BY <3>1, FirstTlvs
  <2> DEFINE l == SubSeq(tlvs, 1, j - 1)
             q == PduTaken(p.kind, n, p.val, p.list)
             tags == {tlvs[i].tag : i \in 1 .. j - 1}
  <2>3. CutBetween(p, n) <=> n = body + at[j - 1]
        /\ RequiredTags(p.kind) \subseteq tags
    <3>1. /\ TlvsLaid(p.tlvs, at) /\ at[Len(p.tlvs)] = TlvOctets(p.tlvs)
          /\ n \in Nat /\ n < Len(Encode(p)) /\ j \in 1 .. Len(p.tlvs)
          /\ \A i \in 1 .. Len(p.tlvs) :
               (16 + FieldsOctets(p)) + at[i] <= n <=> i \in 1 .. j - 1
          /\ n >= 16 + FieldsOctets(p)
      BY <1>2, <1>3, <2>1, <2>2
    <3>2. CutBetween(p, n) <=>
            /\ n = (16 + FieldsOctets(p)) + at[j - 1]
            /\ RequiredTags(p.kind) \subseteq {p.tlvs[i].tag : i \in 1 .. j - 1}
      BY <3>1, CutBetweenIs
    <3> QED BY <3>2
  <2>4. Decode(p.kind, c) = WithTlvs(q, TlvsAt(c, body))
    BY <1>2, <2>1, CutTlvs
  <2>5. TlvsAt(c, body) = IF n = body + at[j - 1] THEN TlvsTaken(n, l) ELSE Refused
    BY <1>2, <1>3, <2>2, TlvsOfCut
  <2>6. {t.tag : t \in Range(l)} = tags
    <3>1. /\ Len(l) = j - 1 /\ l \in Seq(TlvSet)
             /\ \A i \in 1 .. j - 1 : l[i] = tlvs[i]
      <4>1. \A i \in 1 .. j - 1 : tlvs[i] \in TlvSet
        BY <1>1
      <4>2. 1 \in Int /\ j - 1 \in Int
            /\ (IF 1 <= j - 1 THEN j - 1 - 1 + 1 ELSE 0) = j - 1
            /\ \A i \in 1 .. j - 1 : i \in 1 .. j - 1 - 1 + 1 /\ 1 + i - 1 = i
        BY <1>1
      <4>3. /\ l \in Seq(TlvSet)
               /\ Len(l) = (IF 1 <= j - 1 THEN j - 1 - 1 + 1 ELSE 0)
            /\ \A i \in 1 .. j - 1 - 1 + 1 : l[i] = tlvs[1 + i - 1]
        BY <4>1, <4>2, SubSeqProperties
      <4> QED BY <4>2, <4>3
    <3>2. DOMAIN l = 1 .. j - 1
      BY <3>1
    <3> HIDE DEF l
    <3> QED BY <3>1, <3>2 DEF Range
  <2> HIDE DEF l, tags, c, body
  <2>7. q.kind = p.kind
    BY DEF PduTaken
  <2> HIDE DEF q
  <2>8. CASE n = body + at[j - 1]
    <3> DEFINE r == TlvsTaken(n, l)
    <3>1. r.ok /\ r.tlvs = l
      BY DEF TlvsTaken
    <3>2. Decode(p.kind, c) = WithTlvs(q, r)
      BY <2>4, <2>5, <2>8
    <3> HIDE DEF r
    <3>3. WithTlvs(q, r) = IF RequiredTags(p.kind) \subseteq tags
                           THEN [ok |-> TRUE, pdu |-> [q EXCEPT !.tlvs = r.tlvs]] ELSE Refused
      BY <2>6, <2>7, <3>1 DEF WithTlvs
    <3>4. WithTlvs(q, r).ok <=> RequiredTags(p.kind) \subseteq tags
      BY <1>4, <3>3
    <3> QED BY <2>3, <2>8, <3>2, <3>4 DEF c
  <2>9. CASE ~ (n = body + at[j - 1])
    <3>1. Decode(p.kind, c) = WithTlvs(q, Refused)
      BY <2>4, <2>5, <2>9
    <3>2. WithTlvs(q, Refused) = Refused
      BY <1>4 DEF WithTlvs
    <3> QED BY <1>4, <2>3, <2>9, <3>1, <3>2 DEF c
  <2> QED BY <2>8, <2>9
<1> QED BY <1>5, <1>6

(* decode() takes a frame that is cut short if and only if the cut falls
   between two TLVs and leaves the required ones: no check is missing and none
   is too strict. *)
THEOREM CutsRefused == Spec => []CutsAreRefused
<1>1. PduInvariant => CutsAreRefused
  <2> SUFFICES ASSUME PduInvariant, Exists, Decodable PROVE CutsAreRefused
    BY DEF CutsAreRefused
  <2>1. Sound(pdu) /\ CanDecode(pdu)
    BY DEF PduInvariant, Right, Decodable, CanDecode
  <2>2. \A n \in 4 .. Len(Encode(pdu)) - 1 :
          Decode(pdu.kind, CutFrame(Encode(pdu), n)).ok <=> CutBetween(pdu, n)
    BY <2>1, CutIs
  <2> QED BY <2>2 DEF CutsAreRefused, CutBetween
<1> QED BY <1>1, PduInvariance, PTL
=============================================================================
