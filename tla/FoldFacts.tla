------------------------------ MODULE FoldFacts ------------------------------
(***************************************************************************)
(* Facts about FoldLeft, the loop of most of the text utilities, for any   *)
(* step Op of the loop, with what the step reads besides in a context.     *)
(* The proofs about a loop take an instance of this module with its step:  *)
(* FoldTrace gives the values the loop goes through.                       *)
(* Each instance brings all that this module extends, so it extends next   *)
(* to nothing: Fold is what FoldLeft of SequencesExt is defined to be, and *)
(* the facts about numbers are those that TextsProofs proves as Smallest.  *)
(***************************************************************************)
EXTENDS Integers, Sequences, Folds

CONSTANT Op(_, _, _)  \* context, value so far, next element

Largest(t) == CHOOSE n \in t : \A y \in t : n >= y

Fold(ctx, base, s) ==
  MapThenFoldSet(LAMBDA x, a : Op(ctx, a, x), base, LAMBDA i : s[i], Largest, DOMAIN s)

(* A largest element is the one that Largest chooses. *)
LEMMA LargestIs ==
  ASSUME NEW t \in SUBSET Int, NEW n \in t, \A y \in t : n >= y
  PROVE  Largest(t) = n
<1>1. \A x \in t : (\A y \in t : x >= y) => x = n
  OBVIOUS
<1> QED BY <1>1 DEF Largest

(* Induction over the numbers up to n, if sets of numbers have smallest ones. *)
LEMMA UpTo ==
  ASSUME \A N \in SUBSET Nat : N # {} => \E k \in N : \A m \in N : k <= m,
         NEW n \in Nat, NEW G, 0 \in G, \A k \in 0..(n - 1) : k \in G => k + 1 \in G
  PROVE  \A k \in 0..n : k \in G
<1> DEFINE T == {k \in 0..n : k \notin G}
<1>1. SUFFICES ASSUME T # {} PROVE FALSE
  OBVIOUS
<1>2. T \in SUBSET Nat
  OBVIOUS
<1>3. PICK k \in T : \A m \in T : k <= m
  <2> HIDE DEF T
  <2> QED BY <1>1, <1>2
<1>4. k # 0 /\ k - 1 \in 0..(n - 1) /\ k - 1 \in 0..n /\ k - 1 \notin T
  BY <1>3
<1>5. k - 1 \in G
  BY <1>4
<1> QED BY <1>3, <1>4, <1>5

(* The values of the sets of positions, of which FoldLeft takes the largest first. *)
Rec(ctx, g, s, base, D) ==
  g = [t \in SUBSET D |-> IF t = {} THEN base ELSE Op(ctx, g[t \ {Largest(t)}], s[Largest(t)])]

(* A loop gives the last of such values.                                   *)
LEMMA FoldIsRec ==
  ASSUME NEW ctx, NEW s, NEW base
  PROVE Fold(ctx, base, s) = (CHOOSE g : Rec(ctx, g, s, base, DOMAIN s))[DOMAIN s]
BY DEF Fold, MapThenFoldSet, Rec

(* There are such values, and so FoldLeft chooses some. *)
LEMMA RecExists ==
  ASSUME \A N \in SUBSET Nat : N # {} => \E k \in N : \A m \in N : k <= m,
         NEW n \in Nat, NEW ctx, NEW s, NEW base
  PROVE  \E g : Rec(ctx, g, s, base, 1..n)
<1> DEFINE G == {m \in 0..n : \E g : Rec(ctx, g, s, base, 1..m)}
<1>1. 0 \in G
  <2> DEFINE g == [t \in SUBSET (1..0) |-> base]
  <2>1. Rec(ctx, g, s, base, 1..0)
    <3>1. \A t \in SUBSET (1..0) : t = {}
      OBVIOUS
    <3> QED BY <3>1 DEF Rec
  <2> HIDE DEF g
  <2> QED BY <2>1
<1>2. ASSUME NEW m \in 0..(n - 1), m \in G PROVE m + 1 \in G
  <2>1. PICK g : Rec(ctx, g, s, base, 1..m)
    BY <1>2
  <2> DEFINE h == [t \in SUBSET (1..(m + 1)) |-> IF m + 1 \in t THEN Op(ctx, g[t \ {m + 1}], s[m + 1]) ELSE g[t]]
             r(t) == IF t = {} THEN base ELSE Op(ctx, h[t \ {Largest(t)}], s[Largest(t)])
  <2>2. ASSUME NEW t \in SUBSET (1..(m + 1)) PROVE h[t] = r(t)
    <3>1. CASE m + 1 \in t
      <4>1. Largest(t) = m + 1
        <5>1. \A y \in t : m + 1 >= y
          OBVIOUS
        <5> QED BY <3>1, <5>1, LargestIs
      <4>2. t \ {m + 1} \in SUBSET (1..(m + 1)) /\ m + 1 \notin t \ {m + 1}
        OBVIOUS
      <4>3. h[t \ {m + 1}] = g[t \ {m + 1}]
        BY <4>2
      <4>4. h[t] = Op(ctx, g[t \ {m + 1}], s[m + 1])
        BY <3>1
      <4> HIDE DEF h
      <4> QED BY <3>1, <4>1, <4>3, <4>4
    <3>2. CASE m + 1 \notin t /\ t # {}
      <4>1. t \in SUBSET (1..m)
        BY <3>2
      <4>2. h[t] = g[t]
        BY <3>2
      <4>3. g[t] = Op(ctx, g[t \ {Largest(t)}], s[Largest(t)])
        BY <2>1, <3>2, <4>1 DEF Rec
      <4>4. t \ {Largest(t)} \in SUBSET (1..(m + 1)) /\ m + 1 \notin t \ {Largest(t)}
        BY <3>2
      <4>5. h[t \ {Largest(t)}] = g[t \ {Largest(t)}]
        BY <4>4
      <4> HIDE DEF h
      <4> QED BY <3>2, <4>2, <4>3, <4>5
    <3>3. CASE t = {}
      <4>1. h[t] = g[t] /\ t \in SUBSET (1..m)
        BY <3>3
      <4>2. g[t] = base
        BY <2>1, <3>3, <4>1 DEF Rec
      <4> HIDE DEF h
      <4> QED BY <3>3, <4>1, <4>2
    <3> QED BY <3>1, <3>2, <3>3
  <2>3. h = [t \in SUBSET (1..(m + 1)) |-> h[t]]
    OBVIOUS
  <2>4. Rec(ctx, h, s, base, 1..(m + 1))
    <3> HIDE DEF h
    <3>1. h = [t \in SUBSET (1..(m + 1)) |-> r(t)]
      BY <2>2, <2>3
    <3> QED BY <3>1 DEF Rec
  <2> HIDE DEF h
  <2> QED BY <2>4
<1>3. \A m \in 0..n : m \in G
  <2> HIDE DEF G
  <2> QED BY <1>1, <1>2, UpTo
<1> QED BY <1>3

(* f are the values a loop goes through: it begins with base, each step    *)
(* takes the next element, and the last value is what FoldLeft gives.      *)
IsTrace(f, ctx, base, s) ==
  /\ f[0] = base
  /\ \A k \in 1..Len(s) : f[k] = Op(ctx, f[k - 1], s[k])
  /\ f[Len(s)] = Fold(ctx, base, s)

Trace(ctx, base, s) == CHOOSE f : IsTrace(f, ctx, base, s)

(* Every loop goes through such values. *)
THEOREM FoldTrace ==
  ASSUME \A N \in SUBSET Nat : N # {} => \E k \in N : \A m \in N : k <= m,
         NEW ctx, NEW S, NEW s \in Seq(S), NEW base
  PROVE  IsTrace(Trace(ctx, base, s), ctx, base, s)
<1> DEFINE n == Len(s)
           g == CHOOSE h : Rec(ctx, h, s, base, 1..n)
           f == [k \in 0..n |-> g[1..k]]
<1>1. n \in Nat /\ DOMAIN s = 1..n
  OBVIOUS
<1>2. Rec(ctx, g, s, base, 1..n)
  <2> HIDE DEF n
  <2>1. \E h : Rec(ctx, h, s, base, 1..n)
    BY <1>1, RecExists
  <2> QED BY <2>1
<1>3. Fold(ctx, base, s) = g[1..n]
  BY <1>1, FoldIsRec
<1> HIDE DEF g, n
<1>4. g[{}] = base
  BY <1>2 DEF Rec
<1>5. ASSUME NEW k \in 1..n PROVE g[1..k] = Op(ctx, g[1..(k - 1)], s[k])
  <2>1. 1..k \in SUBSET (1..n) /\ k \in 1..k /\ k \in Nat /\ 1..k # {}
    BY <1>1
  <2>2. Largest(1..k) = k
    <3>1. 1..k \in SUBSET Int /\ \A y \in 1..k : k >= y
      OBVIOUS
    <3> QED BY <2>1, <3>1, LargestIs
  <2>3. (1..k) \ {k} = 1..(k - 1)
    BY <2>1
  <2>4. g[1..k] = Op(ctx, g[(1..k) \ {Largest(1..k)}], s[Largest(1..k)])
    BY <1>2, <2>1 DEF Rec
  <2> QED BY <2>2, <2>3, <2>4
<1>6. f[0] = base
  BY <1>1, <1>4
<1>7. \A k \in 1..n : f[k] = Op(ctx, f[k - 1], s[k])
  BY <1>1, <1>5
<1>8. f[n] = Fold(ctx, base, s)
  BY <1>1, <1>3
<1> HIDE DEF f
<1>9. IsTrace(f, ctx, base, s)
  BY <1>6, <1>7, <1>8 DEF n, IsTrace
<1> QED BY <1>9 DEF Trace
=============================================================================
