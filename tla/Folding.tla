------------------------------- MODULE Folding -------------------------------
(***************************************************************************)
(* What a fold over a sequence computes, for one operator.  A module that  *)
(* folds with an operator of its own takes these theorems by INSTANCE with *)
(* that operator for Op.                                                   *)
(***************************************************************************)
EXTENDS Integers, Sequences, Folds, WellFoundedInduction, TLAPS

CONSTANT Op(_, _)

(* FoldLeft(Op, base, s), by its definition: each INSTANCE would bring all   *)
(* of SequencesExt along.                                                    *)
Greatest(p) == CHOOSE x \in p : \A y \in p : x >= y

Fold(base, s) ==
  MapThenFoldSet(LAMBDA x, y : Op(y, x), base, LAMBDA i : s[i],
                 LAMBDA p : Greatest(p), DOMAIN s)

(* The least-number principle, by the well-foundedness of the naturals.      *)
LEMMA LeastOfNaturals ==
  ASSUME NEW T, T \subseteq Nat, T # {}
  PROVE  \E x \in T : \A y \in T : x <= y
<1> DEFINE R == OpToRel(<, Nat)
<1>1. IsWellFoundedOn(R, Nat)
  BY NatLessThanWellFounded, Zenon
<1>2. \A y, x \in Nat : y < x => <<y, x>> \in R
  BY DEF OpToRel
<1> HIDE DEF R
<1>3. PICK x \in T : \A y \in T : <<y, x>> \notin R
  BY <1>1, WFMin
<1>4. ASSUME NEW y \in T PROVE x <= y
  <2>1. x \in Nat /\ y \in Nat /\ ~(y < x)
    BY <1>2, <1>3
  <2> QED BY <2>1
<1> QED BY <1>4

(* A property of no steps that every step keeps holds after all of them.     *)
LEMMA Inductive ==
  ASSUME NEW n \in Nat, NEW T, T \subseteq 0..n, 0 \in T,
         \A k \in 1..n : k - 1 \in T => k \in T
  PROVE  T = 0..n
<1> DEFINE U == (0..n) \ T
<1> SUFFICES ASSUME U # {} PROVE FALSE
  OBVIOUS
<1>1. U \subseteq Nat
  OBVIOUS
<1>2. PICK k \in U : \A j \in U : k <= j
  BY <1>1, LeastOfNaturals
<1>3. k \in 1..n /\ k - 1 \in 0..n /\ ~(k <= k - 1)
  OBVIOUS
<1>4. k - 1 \notin U
  <2> HIDE DEF U
  <2> QED BY <1>2, <1>3
<1> QED BY <1>3, <1>4

-----------------------------------------------------------------------------
(***************************************************************************)
(* A fold: a function of sets of positions, the last position first.       *)
(***************************************************************************)
Iter(f, base, s, n) ==
  f = [p \in SUBSET (1..n) |->
         IF p = {} THEN base ELSE Op(f[p \ {Greatest(p)}], s[Greatest(p)])]

LEMMA GreatestIs ==
  ASSUME NEW n \in Nat, NEW p \in SUBSET (1..n), n \in p
  PROVE  Greatest(p) = n
<1>1. \A y \in p : n >= y
  OBVIOUS
<1>2. \A x \in p : (\A y \in p : x >= y) => x = n
  BY <1>1
<1> QED BY <1>1, <1>2 DEF Greatest

LEMMA IterExists ==
  ASSUME NEW base, NEW s, NEW n \in Nat
  PROVE  \E f : Iter(f, base, s, n)
<1> DEFINE T == {k \in Nat : \A f : ~Iter(f, base, s, k)}
<1> HIDE DEF Iter
<1> SUFFICES ASSUME T # {} PROVE FALSE
  OBVIOUS
<1>1. PICK k \in T : \A m \in T : k <= m
  BY LeastOfNaturals
<1>2. k \in Nat /\ \A f : ~Iter(f, base, s, k)
  OBVIOUS
<1>3. CASE k = 0
  <2> DEFINE f == [p \in SUBSET (1..0) |-> base]
  <2>1. \A p \in SUBSET (1..0) : p = {}
    OBVIOUS
  <2>2. f = [p \in SUBSET (1..0) |->
               IF p = {} THEN base ELSE Op(f[p \ {Greatest(p)}], s[Greatest(p)])]
    BY <2>1
  <2>3. Iter(f, base, s, 0)
    BY <2>2 DEF Iter
  <2> QED BY <1>2, <1>3, <2>3
<1>4. CASE k # 0
  <2>1. k - 1 \in Nat /\ ~(k <= k - 1)
    BY <1>2, <1>4
  <2>2. k - 1 \notin T
    <3> HIDE DEF T
    <3> QED BY <1>1, <2>1
  <2>3. PICK f : Iter(f, base, s, k - 1)
    BY <2>1, <2>2
  <2> DEFINE g == [p \in SUBSET (1..k) |->
                     IF k \in p THEN Op(f[p \ {k}], s[k]) ELSE f[p]]
             h == [p \in SUBSET (1..k) |->
                     IF p = {} THEN base ELSE Op(g[p \ {Greatest(p)}], s[Greatest(p)])]
  <2>4. ASSUME NEW p \in SUBSET (1..k) PROVE g[p] = h[p]
    <3>1. CASE k \in p
      <4>1. Greatest(p) = k
        BY <1>2, <3>1, GreatestIs
      <4>2. p \ {k} \in SUBSET (1..k) /\ k \notin p \ {k}
        OBVIOUS
      <4>3. g[p \ {k}] = f[p \ {k}]
        BY <4>2
      <4>4. g[p] = Op(f[p \ {k}], s[k])
        BY <3>1
      <4>5. h[p] = Op(g[p \ {k}], s[k])
        <5>1. p # {}
          BY <3>1
        <5>2. h[p] = Op(g[p \ {Greatest(p)}], s[Greatest(p)])
          BY <5>1
        <5> HIDE DEF g, h
        <5> QED BY <4>1, <5>2
      <4> HIDE DEF g, h
      <4> QED BY <4>3, <4>4, <4>5
    <3>2. CASE k \notin p
      <4>1. p \in SUBSET (1..(k - 1))
        BY <1>2, <3>2
      <4>2. f[p] = IF p = {} THEN base ELSE Op(f[p \ {Greatest(p)}], s[Greatest(p)])
        BY <2>3, <4>1 DEF Iter
      <4>3. g[p] = f[p]
        BY <3>2
      <4>4. p \ {Greatest(p)} \in SUBSET (1..k) /\ k \notin p \ {Greatest(p)}
        BY <3>2
      <4>5. g[p \ {Greatest(p)}] = f[p \ {Greatest(p)}]
        BY <4>4
      <4>6. h[p] = IF p = {} THEN base ELSE Op(g[p \ {Greatest(p)}], s[Greatest(p)])
        OBVIOUS
      <4> HIDE DEF g, h
      <4> QED BY <4>2, <4>3, <4>5, <4>6
    <3> QED BY <3>1, <3>2
  <2>5. g = h
    <3>1. DOMAIN g = SUBSET (1..k) /\ DOMAIN h = SUBSET (1..k)
      OBVIOUS
    <3>2. g = [p \in SUBSET (1..k) |-> g[p]] /\ h = [p \in SUBSET (1..k) |-> h[p]]
      OBVIOUS
    <3> HIDE DEF g, h
    <3> QED BY <2>4, <3>1, <3>2
  <2>6. Iter(g, base, s, k)
    BY <2>5 DEF Iter
  <2> QED BY <1>2, <2>6
<1> QED BY <1>3, <1>4

LEMMA FoldIs ==
  ASSUME NEW base, NEW s, NEW n \in Nat, DOMAIN s = 1..n
  PROVE  \E f : Iter(f, base, s, n) /\ Fold(base, s) = f[1..n]
<1>1. Fold(base, s) = (CHOOSE f : Iter(f, base, s, n))[1..n]
  BY DEF Fold, MapThenFoldSet, Greatest, Iter
<1>2. Iter(CHOOSE f : Iter(f, base, s, n), base, s, n)
  <2> HIDE DEF Iter
  <2> QED BY IterExists
<1> QED BY <1>1, <1>2

-----------------------------------------------------------------------------
(***************************************************************************)
(* The values that a fold goes through.                                    *)
(***************************************************************************)
Passes(g, base, s, n) ==
  /\ g[0] = base
  /\ \A k \in 1..n : g[k] = Op(g[k - 1], s[k])

LEMMA FoldPasses ==
  ASSUME NEW base, NEW s, NEW n \in Nat, DOMAIN s = 1..n
  PROVE  \E g : Passes(g, base, s, n) /\ g[n] = Fold(base, s)
<1>1. PICK f : Iter(f, base, s, n) /\ Fold(base, s) = f[1..n]
  BY FoldIs
<1> DEFINE g == [k \in 0..n |-> f[1..k]]
<1>2. g[0] = base
  <2>1. 1..0 = {} /\ {} \in SUBSET (1..n) /\ 0 \in 0..n
    OBVIOUS
  <2>2. f[{}] = base
    BY <1>1, <2>1 DEF Iter
  <2> QED BY <2>1, <2>2
<1>3. ASSUME NEW k \in 1..n PROVE g[k] = Op(g[k - 1], s[k])
  <2> HIDE DEF g
  <2>1. /\ 1..k \in SUBSET (1..n) /\ 1..k # {} /\ k \in 1..k /\ k \in Nat
        /\ (1..k) \ {k} = 1..(k - 1)
        /\ k \in 0..n /\ k - 1 \in 0..n
    <3>1. k \in Nat /\ 1 <= k /\ k <= n
      OBVIOUS
    <3>2. k \in 1..k /\ k \in 0..n /\ k - 1 \in 0..n
      BY <3>1
    <3>3. (1..k) \ {k} = 1..(k - 1)
      BY <3>1
    <3>4. 1..k \in SUBSET (1..n)
      BY <3>1
    <3> QED BY <3>1, <3>2, <3>3, <3>4
  <2>2. Greatest(1..k) = k
    BY <2>1, GreatestIs
  <2>3. f[1..k] = Op(f[(1..k) \ {Greatest(1..k)}], s[Greatest(1..k)])
    BY <1>1, <2>1 DEF Iter
  <2>4. f[1..k] = Op(f[1..(k - 1)], s[k])
    BY <2>1, <2>2, <2>3
  <2> QED BY <2>1, <2>4 DEF g
<1>4. n \in 0..n
  OBVIOUS
<1>5. g[n] = Fold(base, s)
  BY <1>1, <1>4
<1> HIDE DEF g
<1> QED BY <1>2, <1>3, <1>5 DEF Passes

LEMMA PassesAgree ==
  ASSUME NEW n \in Nat, NEW base, NEW s, NEW t, \A i \in 1..n : s[i] = t[i],
         NEW g, Passes(g, base, s, n), NEW h, Passes(h, base, t, n)
  PROVE  g[n] = h[n]
<1> DEFINE T == {k \in 0..n : g[k] = h[k]}
<1>1. T \subseteq 0..n /\ 0 \in T
  BY DEF Passes
<1>2. ASSUME NEW k \in 1..n, k - 1 \in T PROVE k \in T
  <2>1. g[k] = Op(g[k - 1], s[k]) /\ h[k] = Op(h[k - 1], t[k]) /\ s[k] = t[k]
    BY DEF Passes
  <2>2. k \in 0..n /\ g[k - 1] = h[k - 1]
    BY <1>2
  <2> QED BY <2>1, <2>2
<1> HIDE DEF T
<1>3. T = 0..n
  BY <1>1, <1>2, Inductive
<1>4. n \in 0..n
  OBVIOUS
<1> QED BY <1>3, <1>4 DEF T

THEOREM FoldSteps ==
  ASSUME NEW S, NEW base, NEW s \in Seq(S)
  PROVE  \E g : /\ g[0] = base /\ g[Len(s)] = Fold(base, s)
                /\ \A k \in 1..Len(s) : g[k] = Op(g[k - 1], s[k])
<1>1. Len(s) \in Nat /\ DOMAIN s = 1..Len(s)
  OBVIOUS
<1>2. PICK g : Passes(g, base, s, Len(s)) /\ g[Len(s)] = Fold(base, s)
  BY <1>1, FoldPasses
<1> QED BY <1>2 DEF Passes

THEOREM FoldEmpty ==
  ASSUME NEW base
  PROVE  Fold(base, <<>>) = base
<1>1. DOMAIN <<>> = 1..0
  OBVIOUS
<1>2. PICK g : Passes(g, base, <<>>, 0) /\ g[0] = Fold(base, <<>>)
  BY <1>1, FoldPasses
<1> QED BY <1>2 DEF Passes

(* A fold goes on from where the fold over a first part ended.               *)
THEOREM FoldAppend ==
  ASSUME NEW S, NEW base, NEW s \in Seq(S), NEW e \in S
  PROVE  Fold(base, Append(s, e)) = Op(Fold(base, s), e)
<1> DEFINE t == Append(s, e)
           n == Len(s)
           m == n + 1
<1>1. /\ n \in Nat /\ m \in Nat /\ DOMAIN s = 1..n /\ DOMAIN t = 1..m
      /\ \A i \in 1..n : t[i] = s[i]
      /\ t[m] = e
  OBVIOUS
<1>2. m \in 1..m /\ m - 1 = n /\ 1..n \subseteq 1..m
  OBVIOUS
<1> HIDE DEF t, n, m
<1>3. PICK g : Passes(g, base, t, m) /\ g[m] = Fold(base, t)
  BY <1>1, FoldPasses
<1>4. PICK h : Passes(h, base, s, n) /\ h[n] = Fold(base, s)
  BY <1>1, FoldPasses
<1>5. Passes(g, base, t, n)
  BY <1>2, <1>3 DEF Passes
<1>6. g[n] = h[n]
  BY <1>1, <1>4, <1>5, PassesAgree
<1>7. g[m] = Op(g[n], e)
  <2>1. g[m] = Op(g[m - 1], t[m])
    BY <1>2, <1>3 DEF Passes
  <2> QED BY <1>1, <1>2, <2>1
<1>8. Fold(base, t) = Op(Fold(base, s), e)
  BY <1>3, <1>4, <1>6, <1>7
<1> QED BY <1>8 DEF t

THEOREM FoldConcat ==
  ASSUME NEW S, NEW base, NEW s \in Seq(S), NEW t \in Seq(S)
  PROVE  Fold(base, s \o t) = Fold(Fold(base, s), t)
<1> DEFINE u == s \o t
           n == Len(s)
           m == Len(t)
           b == Fold(base, s)
<1>1. /\ n \in Nat /\ m \in Nat /\ n + m \in Nat
      /\ DOMAIN s = 1..n /\ DOMAIN t = 1..m /\ DOMAIN u = 1..(n + m)
      /\ \A i \in 1..n : u[i] = s[i]
      /\ \A i \in 1..m : u[n + i] = t[i]
  OBVIOUS
<1> HIDE DEF u, n, m, b
<1>2. PICK g : Passes(g, base, u, n + m) /\ g[n + m] = Fold(base, u)
  BY <1>1, FoldPasses
<1>3. g[n] = b
  <2>1. PICK h : Passes(h, base, s, n) /\ h[n] = b
    BY <1>1, FoldPasses DEF b
  <2>2. 1..n \subseteq 1..(n + m)
    BY <1>1
  <2>3. Passes(g, base, u, n)
    BY <1>2, <2>2 DEF Passes
  <2> QED BY <1>1, <2>1, <2>3, PassesAgree
<1> DEFINE h == [k \in 0..m |-> g[n + k]]
<1>4. Passes(h, b, t, m)
  <2>1. 0 \in 0..m /\ n + 0 = n
    BY <1>1
  <2>2. h[0] = b
    BY <1>3, <2>1
  <2>3. ASSUME NEW k \in 1..m PROVE h[k] = Op(h[k - 1], t[k])
    <3>1. /\ n + k \in 1..(n + m) /\ (n + k) - 1 = n + (k - 1)
          /\ k \in 0..m /\ k - 1 \in 0..m
      BY <1>1
    <3>2. g[n + k] = Op(g[(n + k) - 1], u[n + k])
      BY <1>2, <3>1 DEF Passes
    <3>3. g[n + k] = Op(g[n + (k - 1)], t[k])
      BY <1>1, <3>1, <3>2
    <3> QED BY <3>1, <3>3
  <2> HIDE DEF h
  <2> QED BY <2>2, <2>3 DEF Passes
<1>5. PICK f : Passes(f, b, t, m) /\ f[m] = Fold(b, t)
  BY <1>1, FoldPasses
<1>6. h[m] = f[m]
  <2> HIDE DEF h
  <2> QED BY <1>1, <1>4, <1>5, PassesAgree
<1>7. h[m] = g[n + m]
  <2>1. m \in 0..m
    BY <1>1
  <2> QED BY <2>1
<1>8. Fold(base, u) = Fold(b, t)
  <2> HIDE DEF h
  <2> QED BY <1>2, <1>5, <1>6, <1>7
<1> QED BY <1>8 DEF u, b

(* What every step of a fold keeps, the fold keeps.                          *)
THEOREM FoldTyped ==
  ASSUME NEW S, NEW A, NEW base \in A, NEW s \in Seq(S),
         \A a \in A, e \in S : Op(a, e) \in A
  PROVE  Fold(base, s) \in A
<1> DEFINE n == Len(s)
<1>1. n \in Nat /\ DOMAIN s = 1..n /\ \A i \in 1..n : s[i] \in S
  OBVIOUS
<1> HIDE DEF n
<1>2. PICK g : Passes(g, base, s, n) /\ g[n] = Fold(base, s)
  BY <1>1, FoldPasses
<1> DEFINE T == {k \in 0..n : g[k] \in A}
<1>3. T \subseteq 0..n /\ 0 \in T
  BY <1>1, <1>2 DEF Passes
<1>4. ASSUME NEW k \in 1..n, k - 1 \in T PROVE k \in T
  <2>1. g[k] = Op(g[k - 1], s[k]) /\ s[k] \in S
    BY <1>1, <1>2 DEF Passes
  <2>2. k \in 0..n /\ g[k - 1] \in A
    BY <1>1, <1>4
  <2> QED BY <2>1, <2>2
<1> HIDE DEF T
<1>5. T = 0..n
  BY <1>1, <1>3, <1>4, Inductive
<1>6. n \in 0..n
  BY <1>1
<1> QED BY <1>2, <1>5, <1>6 DEF T
=============================================================================
