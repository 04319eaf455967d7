------------------------- MODULE EmbedRequestsProofs -------------------------
(***************************************************************************)
(* Theorems about EmbedRequests, for every set of requests, settings and   *)
(* limits, and for every reply.                                            *)
(***************************************************************************)
EXTENDS EmbedRequests, SequenceTheorems, FiniteSetTheorems, TLAPS

-----------------------------------------------------------------------------
(***************************************************************************)
(* Numbers.                                                                *)
(***************************************************************************)
(* The least-number principle, by the well-foundedness of finite sets.       *)
LEMMA LeastOfNaturals ==
  ASSUME NEW T, T \subseteq Nat, T # {}
  PROVE  \E x \in T : \A y \in T : x <= y
<1> DEFINE F == {0..x : x \in T}
<1>1. F \subseteq FiniteSubsetsOf(Nat)
  <2> SUFFICES ASSUME NEW x \in T PROVE 0..x \in FiniteSubsetsOf(Nat)
    OBVIOUS
  <2>1. 0..x \subseteq Nat /\ IsFiniteSet(0..x)
    BY FS_Interval
  <2> QED BY <2>1 DEF FiniteSubsetsOf
<1>2. F # {}
  OBVIOUS
<1> HIDE DEF F
<1>3. PICK m \in F : \A l \in F : <<l, m>> \notin StrictSubsetOrdering(Nat)
  BY <1>1, <1>2, FS_StrictSubsetOrderingWellFounded, WFMin
<1>4. PICK x \in T : m = 0..x
  BY DEF F
<1>5. ASSUME NEW y \in T, y < x PROVE FALSE
  <2>1. 0..y \in F
    BY DEF F
  <2>2. 0..y \subseteq 0..x /\ 0..y # 0..x /\ 0..x \subseteq Nat
    BY <1>5
  <2> QED BY <1>3, <1>4, <2>1, <2>2 DEF StrictSubsetOrdering
<1> QED BY <1>5

LEMMA MinOf ==
  ASSUME NEW T, T \subseteq Nat, T # {}
  PROVE  Min(T) \in T /\ \A y \in T : Min(T) <= y
BY LeastOfNaturals DEF Min

LEMMA MinOfTwo ==
  ASSUME NEW a \in Nat, NEW b \in Nat
  PROVE  Min({a, b}) = IF a <= b THEN a ELSE b
<1>1. Min({a, b}) \in {a, b} /\ \A y \in {a, b} : Min({a, b}) <= y
  <2>1. {a, b} \subseteq Nat /\ {a, b} # {}
    OBVIOUS
  <2> QED BY <2>1, MinOf
<1> QED BY <1>1

LEMMA MaxOf ==
  ASSUME NEW n \in Nat, NEW T, T \subseteq 1..n, T # {}
  PROVE  Max(T) \in T /\ \A y \in T : y <= Max(T)
<1> DEFINE U == {n - x : x \in T}
<1>1. U \subseteq Nat
  OBVIOUS
<1>2. U # {}
  OBVIOUS
<1>3. PICK u \in U : \A v \in U : u <= v
  BY <1>1, <1>2, LeastOfNaturals
<1>4. PICK x \in T : u = n - x
  OBVIOUS
<1>5. ASSUME NEW y \in T PROVE x >= y
  <2>1. n - x <= n - y
    BY <1>3, <1>4
  <2> QED BY <2>1
<1>6. \E z \in T : \A y \in T : z >= y
  BY <1>5
<1>7. Max(T) \in T /\ \A y \in T : Max(T) >= y
  BY <1>6 DEF Max
<1> QED BY <1>7

(***************************************************************************)
(* A finite set of numbers in order.                                       *)
(***************************************************************************)
Ascends(f, S) ==
  /\ f \in Seq(S) /\ \A i \in S : \E n \in 1..Len(f) : f[n] = i
  /\ \A m, n \in 1..Len(f) : m < n => f[m] < f[n]

LEMMA InOrderAscends ==
  ASSUME NEW N \in Nat, NEW S, S \subseteq 1..N
  PROVE  Ascends(InOrder(S), S)
<1> DEFINE Upto(i) == {j \in S : j <= i}
           card == Cardinality(S)
           rank == [i \in S |-> Cardinality(Upto(i))]
<1>1. IsFiniteSet(S) /\ card \in Nat
  <2>1. IsFiniteSet(1..N) /\ S \in SUBSET (1..N)
    BY FS_Interval
  <2> QED BY <2>1, FS_Subset, FS_CardinalityType
<1>2. ASSUME NEW i \in S
      PROVE  IsFiniteSet(Upto(i)) /\ Cardinality(Upto(i)) \in 1..card
  <2>1. IsFiniteSet(Upto(i)) /\ Cardinality(Upto(i)) <= card
    BY <1>1, FS_Subset
  <2>2. Cardinality(Upto(i)) \in Nat /\ i \in Upto(i)
    BY <2>1, FS_CardinalityType
  <2>3. Cardinality(Upto(i)) # 0
    BY <2>1, <2>2, FS_EmptySet
  <2> QED BY <1>1, <2>1, <2>2, <2>3
<1>3. ASSUME NEW i \in S, NEW j \in S, i < j
      PROVE  rank[i] < rank[j]
  <2>1. Upto(i) \in SUBSET Upto(j) /\ j \in Upto(j) /\ j \notin Upto(i)
    <3>1. i \in Int /\ j \in Int /\ \A k \in S : k \in Int
      OBVIOUS
    <3>2. \A k \in S : k <= i => k <= j
      BY <1>3, <3>1
    <3>3. j <= j /\ ~(j <= i)
      BY <1>3, <3>1
    <3> QED BY <3>2, <3>3
  <2> HIDE DEF Upto
  <2>2. Cardinality(Upto(i)) <= Cardinality(Upto(j))
        /\ Cardinality(Upto(i)) # Cardinality(Upto(j))
    <3>1. IsFiniteSet(Upto(j))
      BY <1>2
    <3>2. Upto(j) # Upto(i)
      BY <2>1
    <3> QED BY <2>1, <3>1, <3>2, FS_Subset
  <2>3. Cardinality(Upto(i)) \in 1..card /\ Cardinality(Upto(j)) \in 1..card
    BY <1>2
  <2> QED BY <2>2, <2>3
<1>4. rank \in [S -> 1..card]
  BY <1>2
<1> HIDE DEF rank
<1>5. rank \in Injection(S, 1..card)
  <2>1. \A i, j \in S : rank[i] = rank[j] => i = j
    <3> SUFFICES ASSUME NEW i \in S, NEW j \in S, i # j PROVE rank[i] # rank[j]
      OBVIOUS
    <3>1. i < j \/ j < i
      OBVIOUS
    <3>2. rank[i] \in Nat /\ rank[j] \in Nat
      BY <1>4
    <3> QED BY <1>3, <3>1, <3>2
  <2> QED BY <1>4, <2>1 DEF Injection, IsInjective
<1>6. rank \in Surjection(S, 1..card)
  <2>1. IsFiniteSet(1..card) /\ Cardinality(1..card) = card
    BY <1>1, FS_Interval
  <2> QED BY <1>5, <2>1, FS_Injection
<1>7. \A n \in 1..card : \E i \in S : Cardinality({j \in S : j <= i}) = n
  BY <1>6 DEF Surjection, rank
<1> DEFINE f == InOrder(S)
<1>8. DOMAIN f = 1..card /\ \A n \in 1..card : f[n] \in S /\ Cardinality({j \in S : j <= f[n]}) = n
  BY <1>7 DEF InOrder
<1>9. \A n \in 1..card : f[n] \in S /\ rank[f[n]] = n
  BY <1>8 DEF rank
<1>10. f \in Seq(S) /\ Len(f) = card
  <2>1. f = [n \in 1..card |-> f[n]]
    BY DEF InOrder
  <2> HIDE DEF f, card
  <2>2. f \in [1..card -> S]
    BY <1>9, <2>1
  <2> QED BY <1>1, <2>2
<1> HIDE DEF f, card
<1>11. ASSUME NEW i \in S PROVE \E n \in 1..card : f[n] = i
  <2>1. rank[i] \in 1..card /\ f[rank[i]] \in S /\ rank[f[rank[i]]] = rank[i]
    BY <1>4, <1>9
  <2>2. f[rank[i]] = i
    BY <1>5, <2>1 DEF Injection, IsInjective
  <2> QED BY <2>1, <2>2
<1>12. ASSUME NEW m \in 1..card, NEW n \in 1..card, m < n PROVE f[m] < f[n]
  <2>1. f[m] \in 1..N /\ f[n] \in 1..N /\ rank[f[m]] = m /\ rank[f[n]] = n
    BY <1>9
  <2>2. f[m] # f[n] /\ ~(f[n] < f[m])
    BY <1>3, <1>9, <1>12, <2>1
  <2> QED BY <2>1, <2>2
<1> QED BY <1>10, <1>11, <1>12 DEF f, Ascends

(* There is one such sequence.                                               *)
LEMMA AscendsOnce ==
  ASSUME NEW S, S \subseteq Nat, NEW f, Ascends(f, S), NEW g, Ascends(g, S)
  PROVE  f = g
<1>1. /\ f \in Seq(S) /\ g \in Seq(S) /\ Len(f) \in Nat /\ Len(g) \in Nat
      /\ \A n \in 1..Len(f) : f[n] \in S
      /\ \A n \in 1..Len(g) : g[n] \in S
  BY DEF Ascends
<1>2. ASSUME NEW u, Ascends(u, S), NEW v, Ascends(v, S),
             NEW n \in 1..Len(u), \A m \in 1..(n - 1) : m \in 1..Len(v) /\ u[m] = v[m]
      PROVE  n \in 1..Len(v) /\ v[n] <= u[n]
  <2>1. u[n] \in S
    BY <1>2 DEF Ascends
  <2>2. PICK k \in 1..Len(v) : v[k] = u[n]
    BY <1>2, <2>1 DEF Ascends
  <2>3. Len(u) \in Nat /\ Len(v) \in Nat
    BY <1>2 DEF Ascends
  <2>4. ~(k < n)
    <3> SUFFICES ASSUME k < n PROVE FALSE
      OBVIOUS
    <3>1. k \in 1..(n - 1) /\ k \in 1..Len(u) /\ u[k] = v[k]
      BY <1>2, <2>3
    <3>2. u[k] < u[n]
      BY <1>2, <3>1 DEF Ascends
    <3>3. u[n] \in Nat
      BY <2>1
    <3> QED BY <2>2, <3>1, <3>2, <3>3
  <2>5. n \in 1..Len(v) /\ (n = k \/ n < k)
    BY <2>3, <2>4
  <2>6. n < k => v[n] < v[k]
    BY <1>2, <2>5 DEF Ascends
  <2>7. v[n] \in Nat /\ v[k] \in Nat
    <3>1. v \in Seq(S)
      BY <1>2 DEF Ascends
    <3>2. v[n] \in S /\ v[k] \in S
      BY <2>5, <3>1, ElementOfSeq
    <3> QED BY <3>2
  <2> QED BY <2>2, <2>5, <2>6, <2>7
<1> DEFINE Bad == {n \in Nat : n \in 1..Len(f) /\ ~(n \in 1..Len(g) /\ f[n] = g[n])}
           Dab == {n \in Nat : n \in 1..Len(g) /\ ~(n \in 1..Len(f) /\ f[n] = g[n])}
<1>3. Bad \cup Dab = {}
  <2> SUFFICES ASSUME Bad \cup Dab # {} PROVE FALSE
    OBVIOUS
  <2>1. Bad \cup Dab \subseteq Nat
    OBVIOUS
  <2>2. PICK n \in Bad \cup Dab : \A m \in Bad \cup Dab : n <= m
    BY <2>1, LeastOfNaturals
  <2>3. \A m \in 1..(n - 1) :
          (m \in 1..Len(f) <=> m \in 1..Len(g)) /\ (m \in 1..Len(f) => f[m] = g[m])
    <3> SUFFICES ASSUME NEW m \in 1..(n - 1)
                 PROVE  m \notin Bad \cup Dab
      OBVIOUS
    <3> HIDE DEF Bad, Dab
    <3>1. n \in Nat
      BY <2>1
    <3> QED BY <2>2, <3>1
  <2>4. n \in 1..Len(f) => n \in 1..Len(g) /\ g[n] <= f[n]
    <3> SUFFICES ASSUME n \in 1..Len(f) PROVE n \in 1..Len(g) /\ g[n] <= f[n]
      OBVIOUS
    <3>1. \A m \in 1..(n - 1) : m \in 1..Len(g) /\ f[m] = g[m]
      BY <1>1, <2>3
    <3> QED BY <1>2, <3>1
  <2>5. n \in 1..Len(g) => n \in 1..Len(f) /\ f[n] <= g[n]
    <3> SUFFICES ASSUME n \in 1..Len(g) PROVE n \in 1..Len(f) /\ f[n] <= g[n]
      OBVIOUS
    <3>1. \A m \in 1..(n - 1) : m \in 1..Len(f) /\ g[m] = f[m]
      BY <1>1, <2>3
    <3> QED BY <1>2, <3>1
  <2>6. n \in 1..Len(f) \/ n \in 1..Len(g)
    OBVIOUS
  <2>7. n \in 1..Len(f) /\ n \in 1..Len(g) /\ f[n] \in Nat /\ g[n] \in Nat
    BY <1>1, <2>4, <2>5, <2>6
  <2> QED BY <2>4, <2>5, <2>7
<1>4. \A n \in Nat : n \in 1..Len(f) <=> n \in 1..Len(g)
  BY <1>3
<1>5. Len(f) = Len(g)
  <2>1. Len(f) <= Len(g)
    BY <1>1, <1>4
  <2>2. Len(g) <= Len(f)
    BY <1>1, <1>4
  <2> QED BY <1>1, <2>1, <2>2
<1>6. \A n \in 1..Len(f) : f[n] = g[n]
  BY <1>1, <1>3
<1> QED BY <1>1, <1>5, <1>6, SeqEqual

-----------------------------------------------------------------------------
(***************************************************************************)
(* Texts.  A normalised text is its own normal form, and folding commutes  *)
(* with normalising: so what a provider is asked to embed has the          *)
(* canonical form of what the caller wrote.                                *)
(***************************************************************************)
(* Every token there is, and those that may stand between two NULs.          *)
Token ==
  STRING \cup {NUL, Space, "kit", "image", "#", "/", "@", "foundry:", "openai:",
               "/models/embeddings?api-version=", "/openai/v1/embeddings",
               "search_document", "/v1/projects/", "/locations/",
               "/publishers/google/models", "https://aiplatform.googleapis.com",
               "https://aiplatform.", ".rep.googleapis.com", Version}
Clean == Token \ {NUL}

Word(t, i) == t[i] \notin Blank
Kept(t) ==
  {i \in 1..Len(t) : \/ Word(t, i)
                     \/ i > 1 /\ Word(t, i - 1) /\ \E j \in i..Len(t) : Word(t, j)}
FoldedAll(t) == [i \in 1..Len(t) |-> Folded(t[i])]

Picks(u, t, at) ==
  /\ Len(u) = Len(at)
  /\ \A n \in 1..Len(at) : u[n] = IF Word(t, at[n]) THEN t[at[n]] ELSE Space

LEMMA NormalizedIs ==
  ASSUME NEW Z, Space \in Z, NEW t \in Seq(Z), NEW at, Ascends(at, Kept(t))
  PROVE  Normalized(t) \in Seq(Z) /\ Picks(Normalized(t), t, at)
<1>1. Len(t) \in Nat /\ \A i \in 1..Len(t) : t[i] \in Z
  OBVIOUS
<1>2. Kept(t) \subseteq 1..Len(t)
  BY DEF Kept
<1>3. Ascends(InOrder(Kept(t)), Kept(t))
  BY <1>1, <1>2, InOrderAscends
<1>4. at = InOrder(Kept(t))
  <2>1. Kept(t) \subseteq Nat
    BY <1>2
  <2> QED BY <1>3, <2>1, AscendsOnce
<1>5. Normalized(t) = [n \in 1..Len(at) |-> IF Word(t, at[n]) THEN t[at[n]] ELSE Space]
  <2>1. Kept(t) = {i \in 1..Len(t) :
                 \/ t[i] \notin Blank
                 \/ i > 1 /\ t[i - 1] \notin Blank /\ \E j \in i..Len(t) : t[j] \notin Blank}
    BY DEF Kept, Word
  <2> QED BY <1>4, <2>1 DEF Normalized, Word
<1>6. Len(at) \in Nat /\ \A n \in 1..Len(at) : at[n] \in 1..Len(t)
  BY <1>2 DEF Ascends
<1>7. \A n \in 1..Len(at) : (IF Word(t, at[n]) THEN t[at[n]] ELSE Space) \in Z
  BY <1>1, <1>6
<1> HIDE DEF Word
<1>8. Normalized(t) \in [1..Len(at) -> Z] /\ Len(Normalized(t)) = Len(at)
  BY <1>5, <1>6, <1>7
<1> QED BY <1>5, <1>6, <1>8 DEF Picks

LEMMA FoldedTyped ==
  ASSUME NEW c
  PROVE  /\ Folded(c) \in Blank <=> c \in Blank
         /\ Folded(Space) = Space
         /\ c \in Token => Folded(c) \in Token
         /\ c \in Clean => Folded(c) \in Clean
<1>1. Space \notin DOMAIN Fold /\ Space \in Blank
  BY FoldAssumption
<1>2. c \in DOMAIN Fold => (Fold[c] \in Blank <=> c \in Blank) /\ Fold[c] \in Clean
  BY FoldAssumption DEF Clean, Token
<1>3. Clean \subseteq Token
  BY DEF Clean
<1> QED BY <1>1, <1>2, <1>3 DEF Folded

LEMMA SpaceIsClean == Space \in Clean /\ Space \in Token /\ Clean \subseteq Token
BY DEF Clean, Token, Space, NUL

LEMMA FoldCommutes ==
  ASSUME NEW t \in Seq(Token)
  PROVE  Normalized(FoldedAll(t)) = FoldedAll(Normalized(t))
<1> DEFINE f == FoldedAll(t)
           at == InOrder(Kept(t))
<1>1. Len(t) \in Nat /\ \A i \in 1..Len(t) : t[i] \in Token
  OBVIOUS
<1>2. f \in Seq(Token) /\ Len(f) = Len(t) /\ \A i \in 1..Len(t) : f[i] = Folded(t[i])
  BY <1>1, FoldedTyped DEF FoldedAll
<1> HIDE DEF f
<1>3. \A i \in 1..Len(t) : Word(f, i) <=> Word(t, i)
  BY <1>2, FoldedTyped DEF Word
<1>4. Kept(f) = Kept(t)
  <2> SUFFICES ASSUME NEW i \in 1..Len(t) PROVE i \in Kept(f) <=> i \in Kept(t)
    BY <1>2 DEF Kept
  <2>1. i > 1 => i - 1 \in 1..Len(t)
    BY <1>1
  <2>2. \A j \in i..Len(t) : j \in 1..Len(t)
    BY <1>1
  <2> QED BY <1>2, <1>3, <2>1, <2>2 DEF Kept
<1>5. Ascends(at, Kept(t))
  <2>1. Kept(t) \subseteq 1..Len(t)
    BY DEF Kept
  <2> QED BY <1>1, <2>1, InOrderAscends
<1> HIDE DEF at
<1>6. /\ Normalized(t) \in Seq(Token) /\ Picks(Normalized(t), t, at)
      /\ Normalized(f) \in Seq(Token) /\ Picks(Normalized(f), f, at)
  BY <1>2, <1>4, <1>5, SpaceIsClean, NormalizedIs
<1>7. Len(at) \in Nat /\ \A n \in 1..Len(at) : at[n] \in 1..Len(t)
  BY <1>5 DEF Ascends, Kept
<1> DEFINE g == FoldedAll(Normalized(t))
<1>8. /\ g \in Seq(Token) /\ Len(g) = Len(at)
      /\ \A n \in 1..Len(at) : g[n] = Folded(Normalized(t)[n])
  BY <1>6, FoldedTyped DEF FoldedAll, Picks
<1> HIDE DEF g
<1>9. \A n \in 1..Len(at) : Normalized(f)[n] = g[n]
  <2> SUFFICES ASSUME NEW n \in 1..Len(at) PROVE Normalized(f)[n] = g[n]
    OBVIOUS
  <2>1. at[n] \in 1..Len(t)
    BY <1>7
  <2> QED BY <1>2, <1>3, <1>6, <1>8, <2>1, FoldedTyped DEF Picks
<1>10. Len(Normalized(f)) = Len(g)
  BY <1>6, <1>8 DEF Picks
<1>11. Normalized(f) = g
  <2>1. \A n \in 1..Len(Normalized(f)) : Normalized(f)[n] = g[n]
    BY <1>6, <1>9 DEF Picks
  <2> QED BY <1>6, <1>8, <1>10, <2>1, SeqEqual
<1> QED BY <1>11 DEF f, g

LEMMA NormalizedIsNormal ==
  ASSUME NEW t \in Seq(Token)
  PROVE  Normalized(Normalized(t)) = Normalized(t)
<1> DEFINE at == InOrder(Kept(t))
           u == Normalized(t)
           id == [n \in 1..Len(u) |-> n]
<1>1. Len(t) \in Nat
  OBVIOUS
<1>2. Ascends(at, Kept(t))
  <2>1. Kept(t) \subseteq 1..Len(t)
    BY DEF Kept
  <2> QED BY <1>1, <2>1, InOrderAscends
<1> HIDE DEF at
<1>3. u \in Seq(Token) /\ Picks(u, t, at)
  BY <1>2, SpaceIsClean, NormalizedIs
<1>4. /\ Len(at) \in Nat /\ Len(u) = Len(at)
      /\ \A n \in 1..Len(at) : at[n] \in Kept(t) /\ at[n] \in 1..Len(t)
      /\ \A i \in Kept(t) : \E n \in 1..Len(at) : at[n] = i
      /\ \A m, n \in 1..Len(at) : m < n => at[m] < at[n]
  BY <1>2, <1>3 DEF Ascends, Picks, Kept
<1> HIDE DEF u
<1>5. \A n \in 1..Len(at) : Word(u, n) <=> Word(t, at[n])
  BY <1>3, <1>4, FoldAssumption DEF Picks, Word
<1>6. \A n \in 1..Len(at) : ~Word(u, n) => u[n] = Space
  BY <1>3, <1>4, <1>5 DEF Picks
\* nothing between two neighbours is kept
<1>7. ASSUME NEW n \in 1..Len(at), NEW i \in Kept(t), i < at[n]
      PROVE  \E m \in 1..(n - 1) : at[m] = i
  <2>1. PICK m \in 1..Len(at) : at[m] = i
    BY <1>4
  <2>2. ~(n < m) /\ n # m
    BY <1>4, <1>7, <2>1
  <2> QED BY <1>4, <2>1, <2>2
<1>8. Kept(u) = 1..Len(u)
  <2> SUFFICES ASSUME NEW n \in 1..Len(at), ~Word(u, n)
               PROVE  n > 1 /\ Word(u, n - 1) /\ \E j \in n..Len(at) : Word(u, j)
    BY <1>4 DEF Kept
  <2> DEFINE i == at[n]
  <2>1. i \in Kept(t) /\ ~Word(t, i)
    BY <1>4, <1>5
  <2>2. /\ i \in 1..Len(t) /\ i > 1 /\ Word(t, i - 1) /\ i - 1 \in 1..Len(t)
    BY <1>1, <2>1 DEF Kept
  <2>3. PICK j \in i..Len(t) : Word(t, j)
    BY <2>1 DEF Kept
  <2> HIDE DEF i
  <2>4. i - 1 \in Kept(t) /\ j \in Kept(t) /\ i < j
    BY <1>1, <2>1, <2>2, <2>3 DEF Kept
  <2>5. PICK m \in 1..(n - 1) : at[m] = i - 1
    BY <1>7, <2>2, <2>4 DEF i
  <2>6. n - 1 = m
    <3> SUFFICES ASSUME m < n - 1 PROVE FALSE
      BY <2>5
    <3>1. m + 1 \in 1..Len(at) /\ m \in 1..Len(at) /\ m < m + 1 /\ m + 1 < n
      BY <1>4, <2>5
    <3>2. at[m] < at[m + 1] /\ at[m + 1] < at[n]
      BY <1>4, <3>1
    <3>3. at[m + 1] \in Int
      BY <1>4, <3>1
    <3> QED BY <2>2, <2>5, <3>2, <3>3 DEF i
  <2>7. n > 1 /\ n - 1 \in 1..Len(at) /\ at[n - 1] = i - 1
    BY <1>4, <2>5, <2>6
  <2>8. Word(u, n - 1)
    BY <1>5, <2>2, <2>7
  <2>9. PICK k \in 1..Len(at) : at[k] = j
    BY <1>4, <2>4
  <2>10. ~(k < n)
    <3>1. k < n => at[k] < at[n]
      BY <1>4
    <3> QED BY <2>2, <2>4, <2>9, <3>1 DEF i
  <2>11. k \in n..Len(at) /\ Word(u, k)
    BY <1>4, <1>5, <2>3, <2>9, <2>10
  <2> QED BY <2>7, <2>8, <2>11
<1>9. Ascends(id, Kept(u))
  <2>1. id \in Seq(1..Len(u)) /\ Len(id) = Len(u)
    BY <1>4
  <2> QED BY <1>4, <1>8, <2>1 DEF Ascends
<1> DEFINE v == Normalized(u)
<1>10. v \in Seq(Token) /\ Picks(v, u, id)
  BY <1>3, <1>9, SpaceIsClean, NormalizedIs
<1>11. Len(v) = Len(u) /\ \A n \in 1..Len(u) : v[n] = u[n]
  <2>1. Len(id) = Len(u) /\ \A n \in 1..Len(u) : id[n] = n
    BY <1>4
  <2> HIDE DEF id
  <2> QED BY <1>4, <1>6, <1>10, <2>1 DEF Picks
<1> HIDE DEF v
<1>12. v = u
  BY <1>3, <1>10, <1>11, SeqEqual
<1> QED BY <1>12 DEF v, u

(* The provider's form of a text has the canonical form of the text.         *)
LEMMA AskedMeansTheSame ==
  ASSUME NEW t \in Seq(Token)
  PROVE  Canonical(Normalized(t)) = Canonical(t)
<1>1. FoldedAll(t) \in Seq(Token)
  <2>1. Len(t) \in Nat /\ \A i \in 1..Len(t) : t[i] \in Token
    OBVIOUS
  <2> QED BY <2>1, FoldedTyped DEF FoldedAll
<1>2. Normalized(FoldedAll(Normalized(t))) = Normalized(FoldedAll(t))
  BY <1>1, FoldCommutes, NormalizedIsNormal
<1>3. \A x : Canonical(x) = TrimmedEnd(Normalized(FoldedAll(x)))
  BY DEF Canonical, FoldedAll
<1> QED BY <1>2, <1>3

LEMMA CanonicalTyped ==
  ASSUME NEW Z, Space \in Z, \A c \in Z : Folded(c) \in Z, NEW t \in Seq(Z)
  PROVE  Canonical(t) \in Seq(Z)
<1>1. FoldedAll(t) \in Seq(Z)
  <2>1. Len(t) \in Nat /\ \A i \in 1..Len(t) : t[i] \in Z
    OBVIOUS
  <2> QED BY <2>1 DEF FoldedAll
<1> DEFINE f == FoldedAll(t)
<1>2. Ascends(InOrder(Kept(f)), Kept(f))
  <2>1. Len(f) \in Nat /\ Kept(f) \subseteq 1..Len(f)
    BY <1>1 DEF Kept
  <2> QED BY <2>1, InOrderAscends
<1>3. Normalized(f) \in Seq(Z)
  BY <1>1, <1>2, NormalizedIs
<1> DEFINE u == Normalized(f)
           I == {i \in 1..Len(u) : u[i] \notin Stop \cup Blank}
           n == IF I # {} THEN Max(I) ELSE 0
<1>4. Canonical(t) = SubSeq(u, 1, n)
  BY DEF Canonical, FoldedAll, TrimmedEnd, SelectLastInSeq
<1> HIDE DEF u
<1>5. Len(u) \in Nat /\ \A i \in 1..Len(u) : u[i] \in Z
  BY <1>3 DEF u
<1>6. n \in 0..Len(u)
  <2>1. CASE I = {}
    BY <1>5, <2>1
  <2>2. CASE I # {}
    <3>1. I \subseteq 1..Len(u)
      OBVIOUS
    <3> HIDE DEF I
    <3>2. Max(I) \in 1..Len(u)
      BY <1>5, <2>2, <3>1, MaxOf
    <3> QED BY <2>2, <3>2
  <2> QED BY <2>1, <2>2
<1> HIDE DEF n
<1>7. \A i \in 1..n : u[i] \in Z
  BY <1>5, <1>6
<1> QED BY <1>4, <1>6, <1>7, SubSeqProperties

-----------------------------------------------------------------------------
(***************************************************************************)
(* Sequences.                                                              *)
(***************************************************************************)
LEMMA SubSeqTyped ==
  ASSUME NEW Z, NEW t \in Seq(Z), NEW m \in Nat \ {0}, NEW n \in Int, n <= Len(t)
  PROVE  SubSeq(t, m, n) \in Seq(Z)
<1>1. \A i \in m..n : t[i] \in Z
  OBVIOUS
<1> QED BY <1>1, SubSeqProperties

LEMMA PartsTyped ==
  ASSUME NEW Z, NEW t \in Seq(Z), NEW x
  PROVE  Before(t, x) \in Seq(Z) /\ After(t, x) \in Seq(Z)
<1> DEFINE I == {i \in 1..Len(t) : t[i] = x}
<1>1. FirstOf(t, x) = IF I # {} THEN Min(I) ELSE 0
  BY DEF FirstOf, SelectInSeq
<1>2. I \subseteq 1..Len(t) /\ I \subseteq Nat /\ Len(t) \in Nat
  OBVIOUS
<1> HIDE DEF I
<1>3. I # {} => Min(I) \in 1..Len(t)
  BY <1>2, MinOf
<1>4. FirstOf(t, x) \in 0..Len(t)
  BY <1>1, <1>2, <1>3
<1> QED BY <1>2, <1>4, SubSeqTyped DEF Before, After

(* The concatenation of sequences is one.                                    *)
LEMMA FlattenTyped ==
  ASSUME NEW Z, NEW s \in Seq(Seq(Z))
  PROVE  FlattenSeq(s) \in Seq(Z)
<1> DEFINE N == Len(s)
           Flat(f, n) == f = [i \in 1..n |-> IF i = 1 THEN s[i] ELSE f[i - 1] \o s[i]]
<1>1. N \in Nat /\ \A i \in 1..N : s[i] \in Seq(Z)
  OBVIOUS
<1> HIDE DEF N
<1>2. ASSUME NEW n \in 0..N, NEW f, Flat(f, n)
      PROVE  \A i \in 1..n : f[i] \in Seq(Z)
  <2> DEFINE T == {i \in 1..n : f[i] \notin Seq(Z)}
  <2> SUFFICES ASSUME T # {} PROVE FALSE
    OBVIOUS
  <2>1. T \subseteq Nat
    OBVIOUS
  <2>2. PICK i \in T : \A j \in T : i <= j
    BY <2>1, LeastOfNaturals
  <2>3. i \in 1..n /\ f[i] \notin Seq(Z) /\ i \in 1..N
    BY <1>1
  <2>4. f[i] = IF i = 1 THEN s[i] ELSE f[i - 1] \o s[i]
    BY <1>2, <2>3
  <2>5. i # 1
    BY <1>1, <2>3, <2>4
  <2>6. i - 1 \in 1..n /\ i - 1 \notin T
    <3>1. i - 1 \in 1..n /\ ~(i <= i - 1)
      BY <2>3, <2>5
    <3> HIDE DEF T
    <3> QED BY <2>2, <3>1
  <2>7. f[i - 1] \in Seq(Z) /\ s[i] \in Seq(Z)
    BY <1>1, <2>3, <2>6
  <2>8. f[i - 1] \o s[i] \in Seq(Z)
    BY <2>7, ConcatProperties
  <2> QED BY <2>3, <2>4, <2>5, <2>8
<1>3. \A n \in 0..N : \E f : Flat(f, n)
  <2> DEFINE T == {n \in 0..N : \A f : ~Flat(f, n)}
  <2> HIDE DEF Flat
  <2> SUFFICES ASSUME T # {} PROVE FALSE
    OBVIOUS
  <2>1. T \subseteq Nat
    BY <1>1
  <2>2. PICK n \in T : \A m \in T : n <= m
    BY <2>1, LeastOfNaturals
  <2>3. n \in 0..N /\ n \in Nat /\ \A f : ~Flat(f, n)
    BY <1>1
  <2>4. CASE n = 0
    <3>1. Flat([i \in 1..0 |-> 0], 0)
      BY DEF Flat
    <3> QED BY <2>3, <2>4, <3>1
  <2>5. CASE n # 0
    <3>1. n - 1 \in 0..N /\ ~(n <= n - 1)
      BY <1>1, <2>3, <2>5
    <3>2. n - 1 \notin T
      <4> HIDE DEF T
      <4> QED BY <2>2, <3>1
    <3>3. PICK f : Flat(f, n - 1)
      BY <3>1, <3>2
    <3> DEFINE last == IF n = 1 THEN s[n] ELSE f[n - 1] \o s[n]
               g == [i \in 1..n |-> IF i = n THEN last ELSE f[i]]
               h == [i \in 1..n |-> IF i = 1 THEN s[i] ELSE g[i - 1] \o s[i]]
    <3> HIDE DEF last
    <3>4. \A i \in 1..n : g[i] = h[i]
      <4> SUFFICES ASSUME NEW i \in 1..n PROVE g[i] = h[i]
        OBVIOUS
      <4>1. CASE i = n
        <5>1. n # 1 => g[n - 1] = f[n - 1]
          BY <2>3, <2>5
        <5> QED BY <2>3, <4>1, <5>1 DEF last
      <4>2. CASE i # n
        <5>1. i \in 1..(n - 1) /\ (i # 1 => i - 1 \in 1..n /\ i - 1 # n)
          BY <2>3, <4>2
        <5>2. f[i] = IF i = 1 THEN s[i] ELSE f[i - 1] \o s[i]
          BY <3>3, <5>1 DEF Flat
        <5>3. g[i] = f[i] /\ (i # 1 => g[i - 1] = f[i - 1])
          BY <4>2, <5>1
        <5> QED BY <5>2, <5>3
      <4> QED BY <4>1, <4>2
    <3>5. g = h
      <4>1. DOMAIN g = 1..n /\ DOMAIN h = 1..n
        OBVIOUS
      <4> QED BY <3>4, <4>1
    <3>6. Flat(g, n)
      BY <3>5 DEF Flat
    <3> QED BY <2>3, <3>6
  <2> QED BY <2>4, <2>5
<1>4. N # 0 => FlattenSeq(s) = (CHOOSE f : Flat(f, N))[N]
  BY DEF FlattenSeq, N
<1>5. N = 0 => FlattenSeq(s) = s /\ s = <<>>
  BY DEF FlattenSeq, N
<1> HIDE DEF Flat
<1>6. N # 0 => FlattenSeq(s) \in Seq(Z)
  <2> SUFFICES ASSUME N # 0 PROVE FlattenSeq(s) \in Seq(Z)
    OBVIOUS
  <2>1. N \in 0..N /\ N \in 1..N
    BY <1>1
  <2>2. Flat(CHOOSE f : Flat(f, N), N)
    BY <1>3, <2>1
  <2> QED BY <1>2, <1>4, <2>1, <2>2
<1> QED BY <1>5, <1>6

(* Equations of concatenations are easier to match under a name.             *)
Join(a, b) == a \o b

LEMMA Joined ==
  ASSUME NEW a \in Seq(Token), NEW b \in Seq(Token)
  PROVE  Join(a, b) \in Seq(Token) /\ Len(Join(a, b)) = Len(a) + Len(b)
BY ConcatProperties DEF Join

LEMMA JoinLeft ==
  ASSUME NEW a \in Seq(Token), NEW b \in Seq(Token), NEW n \in 1..Len(a)
  PROVE  Join(a, b)[n] = a[n] /\ n \in 1..Len(Join(a, b))
<1>1. Len(a) \in Nat /\ Len(b) \in Nat
  OBVIOUS
<1>2. n \in 1..(Len(a) + Len(b)) /\ n <= Len(a)
  BY <1>1
<1> QED BY <1>2, Joined, ConcatProperties DEF Join

LEMMA JoinRight ==
  ASSUME NEW a \in Seq(Token), NEW b \in Seq(Token), NEW n \in 1..Len(b)
  PROVE  Join(a, b)[Len(a) + n] = b[n]
<1>1. Len(a) \in Nat /\ Len(b) \in Nat
  OBVIOUS
<1> DEFINE k == Len(a) + n
<1>2. k \in 1..(Len(a) + Len(b)) /\ ~(k <= Len(a)) /\ k - Len(a) = n
  BY <1>1
<1> HIDE DEF k
<1>3. (a \o b)[k] = b[k - Len(a)]
  BY <1>2, ConcatProperties
<1> QED BY <1>2, <1>3 DEF k, Join

LEMMA JoinsAssociate ==
  ASSUME NEW a \in Seq(Token), NEW b \in Seq(Token), NEW c \in Seq(Token)
  PROVE  Join(a, Join(b, c)) = Join(Join(a, b), c)
BY ConcatAssociative DEF Join

LEMMA CancelTails ==
  ASSUME NEW a \in Seq(Token), NEW b \in Seq(Token), NEW c \in Seq(Token),
         NEW d \in Seq(Token), Join(a, c) = Join(b, d), Len(c) = Len(d) \/ Len(a) = Len(b)
  PROVE  a = b /\ c = d
<1>1. Len(Join(a, c)) = Len(a) + Len(c) /\ Len(Join(b, d)) = Len(b) + Len(d)
  BY Joined
<1>2. Len(a) = Len(b) /\ Len(c) = Len(d)
  <2>1. Len(a) \in Nat /\ Len(b) \in Nat /\ Len(c) \in Nat /\ Len(d) \in Nat
    OBVIOUS
  <2>2. Len(a) + Len(c) = Len(b) + Len(d)
    BY <1>1
  <2> QED BY <2>1, <2>2
<1>3. \A n \in 1..Len(a) : a[n] = b[n]
  <2> TAKE n \in 1..Len(a)
  <2>1. Join(a, c)[n] = a[n]
    BY JoinLeft
  <2>2. Join(b, d)[n] = b[n]
    BY <1>2, JoinLeft
  <2> QED BY <2>1, <2>2
<1>4. \A n \in 1..Len(c) : c[n] = d[n]
  <2> TAKE n \in 1..Len(c)
  <2>1. Join(a, c)[Len(a) + n] = c[n]
    BY JoinRight
  <2>2. Join(b, d)[Len(b) + n] = d[n]
    BY <1>2, JoinRight
  <2> QED BY <1>2, <2>1, <2>2
<1> QED BY <1>2, <1>3, <1>4, SeqEqual

(* A string with a NUL and a string after it.                                *)
Marked(u, t) == u \o <<NUL>> \o t

(* What follows the last NUL of a string is told by the string.              *)
LEMMA NotShorter ==
  ASSUME NEW u \in Seq(Token), NEW v \in Seq(Token), NEW a \in Seq(Clean),
         NEW b \in Seq(Clean), Marked(u, a) = Marked(v, b)
  PROVE  ~(Len(u) < Len(v))
<1> SUFFICES ASSUME Len(u) < Len(v) PROVE FALSE
  OBVIOUS
<1>1. a \in Seq(Token) /\ b \in Seq(Token) /\ <<NUL>> \in Seq(Token)
      /\ Len(<<NUL>>) = 1 /\ <<NUL>>[1] = NUL
  <2>1. NUL \in Token
    BY DEF Token
  <2>2. Clean \subseteq Token
    BY DEF Clean
  <2> QED BY <2>1, <2>2, SeqMonotonic
<1> DEFINE x == u \o <<NUL>>
           y == v \o <<NUL>>
           k == Len(v) + 1
<1>2. /\ x \in Seq(Token) /\ Len(x) = Len(u) + 1
      /\ y \in Seq(Token) /\ Len(y) = Len(v) + 1 /\ y[k] = NUL
  <2>1. y[k] = IF k <= Len(v) THEN v[k] ELSE <<NUL>>[k - Len(v)]
    BY <1>1, ConcatProperties
  <2> QED BY <1>1, <2>1, ConcatProperties
<1>3. Len(u) \in Nat /\ Len(v) \in Nat /\ Len(a) \in Nat /\ Len(b) \in Nat
  OBVIOUS
<1> HIDE DEF x, y, k
<1>4. Len(x) + Len(a) = Len(y) + Len(b)
  <2>1. Len(x \o a) = Len(x) + Len(a) /\ Len(y \o b) = Len(y) + Len(b)
    BY <1>1, <1>2, ConcatProperties
  <2> QED BY <2>1 DEF Marked, x, y
<1>5. (y \o b)[k] = NUL
  <2>1. k \in 1..(Len(y) + Len(b)) /\ k <= Len(y)
    BY <1>2, <1>3 DEF k
  <2> QED BY <1>1, <1>2, <2>1, ConcatProperties
<1>6. k - Len(x) \in 1..Len(a) /\ (x \o a)[k] = a[k - Len(x)]
  <2>1. k \in 1..(Len(x) + Len(a)) /\ ~(k <= Len(x)) /\ k - Len(x) \in 1..Len(a)
    BY <1>2, <1>3, <1>4 DEF k
  <2> QED BY <1>1, <1>2, <2>1, ConcatProperties
<1>7. a[k - Len(x)] \in Clean
  BY <1>6, ElementOfSeq
<1>8. x \o a = y \o b
  BY DEF Marked, x, y
<1> QED BY <1>5, <1>6, <1>7, <1>8 DEF Clean

LEMMA SplitAtLastNul ==
  ASSUME NEW u \in Seq(Token), NEW v \in Seq(Token), NEW a \in Seq(Clean),
         NEW b \in Seq(Clean), Marked(u, a) = Marked(v, b)
  PROVE  u = v /\ a = b
<1>1. a \in Seq(Token) /\ b \in Seq(Token) /\ <<NUL>> \in Seq(Token)
      /\ Len(<<NUL>>) = 1 /\ <<NUL>>[1] = NUL
  <2>1. NUL \in Token
    BY DEF Token
  <2>2. Clean \subseteq Token
    BY DEF Clean
  <2> QED BY <2>1, <2>2, SeqMonotonic
<1>2. Len(u) = Len(v)
  <2>1. ~(Len(u) < Len(v)) /\ ~(Len(v) < Len(u))
    BY NotShorter
  <2>2. Len(u) \in Nat /\ Len(v) \in Nat
    OBVIOUS
  <2> QED BY <2>1, <2>2
<1> DEFINE x == u \o <<NUL>>
           y == v \o <<NUL>>
<1>3. x \in Seq(Token) /\ y \in Seq(Token) /\ Len(x) = Len(u) + 1 /\ Len(y) = Len(v) + 1
  BY <1>1, ConcatProperties
<1> HIDE DEF x, y
<1>4. x = y /\ a = b
  <2>1. Join(x, a) = Join(y, b)
    BY DEF Marked, Join, x, y
  <2>2. Len(x) = Len(y)
    BY <1>2, <1>3
  <2> QED BY <1>1, <1>3, <2>1, <2>2, CancelTails
<1> QED BY <1>1, <1>4, ConcatSimplifications DEF x, y

-----------------------------------------------------------------------------
(***************************************************************************)
(* Calls.  All of a call but its address is told by the provider and the   *)
(* name of the model.                                                      *)
(***************************************************************************)
LEMMA ConfigTyped ==
  ASSUME NEW raw \in Settings
  PROVE  /\ \A s \in {"openai", "mistral", "gemini", "huggingface", "azure_version",
                      "region", "bedrock_template", "location", "vertex_template"} :
              Config(raw)[s] \in Seq(Clean)
         /\ \A s \in Optional : Config(raw)[s] \subseteq Seq(Clean)
<1>1. Seq(STRING \ {NUL}) \subseteq Seq(Clean)
  <2>1. STRING \ {NUL} \subseteq Clean
    BY DEF Clean, Token
  <2> QED BY <2>1, SeqMonotonic
<1>2. \A s \in DOMAIN Default : EnvOrDefault(raw, s) \in Seq(Clean)
  BY <1>1, DefaultAssumption, SettingsAssumption DEF EnvOrDefault
<1>3. \A s : OptionalEnv(raw, s) \subseteq Seq(Clean)
  BY <1>1, SettingsAssumption DEF OptionalEnv
<1>4. \A s \in {"openai", "mistral", "gemini", "huggingface", "azure_version",
                "region", "bedrock_template", "location", "vertex_template"} :
        s \in DOMAIN Default /\ s \notin Optional
  BY DefaultAssumption DEF Optional
<1>5. \A s \in DOMAIN Default \cup Optional :
        Config(raw)[s] = IF s \in Optional THEN OptionalEnv(raw, s) ELSE EnvOrDefault(raw, s)
  BY DEF Config
<1> QED BY <1>2, <1>3, <1>4, <1>5

LEMMA QualifiedTyped ==
  ASSUME NEW m \in Seq(Clean), NEW q \in Qualified(m)
  PROVE  /\ q.head \in Seq(Clean) /\ q.qual \subseteq Seq(Clean)
         /\ \A o \in Qualified(m) : o = q
<1>1. Before(m, "#") \in Seq(Clean) /\ After(m, "#") \in Seq(Clean)
  BY PartsTyped
<1>2. CASE ~Contains(m, "#")
  <2>1. Qualified(m) = {[head |-> m, qual |-> {}]}
    BY <1>2 DEF Qualified
  <2> QED BY <2>1
<1>3. CASE Contains(m, "#")
  <2>1. /\ Qualified(m) \subseteq {[head |-> Before(m, "#"), qual |-> {After(m, "#")}]}
    BY <1>3 DEF Qualified
  <2>2. q.head = Before(m, "#") /\ q.qual = {After(m, "#")}
    BY <2>1
  <2> QED BY <1>1, <2>1, <2>2
<1> QED BY <1>2, <1>3

LEMMA SuffixTyped ==
  ASSUME NEW qual, qual \subseteq Seq(Clean)
  PROVE  Suffix(qual) \in Seq(Clean)
<1>1. CASE qual = {}
  BY <1>1 DEF Suffix
<1>2. CASE qual # {}
  <2> DEFINE q == CHOOSE q \in qual : TRUE
  <2>1. q \in Seq(Clean)
    BY <1>2
  <2> HIDE DEF q
  <2>2. "#" \in Clean
    BY DEF Clean, Token, NUL
  <2>3. <<"#">> \o q \in Seq(Clean)
    BY <2>1, <2>2, ConcatProperties
  <2> QED BY <1>2, <2>3 DEF Suffix, q
<1> QED BY <1>1, <1>2

LEMMA Joins ==
  ASSUME NEW Z, NEW a \in Seq(Z), NEW b \in Seq(Z)
  PROVE  a \o b \in Seq(Z)
BY ConcatProperties

LEMMA HeadOf ==
  ASSUME NEW Z, NEW a \in Seq(Z), NEW b \in Seq(Z), a # <<>>
  PROVE  a \o b # <<>> /\ Head(a \o b) = Head(a)
<1>1. Len(a) \in Nat \ {0} /\ Len(b) \in Nat
  BY EmptySeq
<1>2. 1 \in 1..(Len(a) + Len(b)) /\ 1 <= Len(a)
  BY <1>1
<1>3. Len(a \o b) = Len(a) + Len(b) /\ (a \o b)[1] = a[1] /\ a \o b \in Seq(Z)
  BY <1>2, ConcatProperties
<1>4. a \o b # <<>>
  BY <1>1, <1>3
<1> QED BY <1>3, <1>4

LEMMA LiteralsAreClean ==
  /\ <<"#">> \in Seq(Clean) /\ <<"/">> \in Seq(Clean) /\ <<"@">> \in Seq(Clean)
  /\ <<"foundry:">> \in Seq(Clean) /\ <<"openai:">> \in Seq(Clean)
  /\ <<"/models/embeddings?api-version=">> \in Seq(Clean)
  /\ <<"/openai/v1/embeddings">> \in Seq(Clean) /\ <<"search_document">> \in Seq(Clean)
  /\ <<"/v1/projects/">> \in Seq(Clean) /\ <<"/locations/">> \in Seq(Clean)
  /\ <<"/publishers/google/models">> \in Seq(Clean)
  /\ <<"https://aiplatform.googleapis.com">> \in Seq(Clean)
  /\ <<"https://aiplatform.">> \in Seq(Clean) /\ <<".rep.googleapis.com">> \in Seq(Clean)
<1>1. {"#", "/", "@", "foundry:", "openai:", "/models/embeddings?api-version=",
       "/openai/v1/embeddings", "search_document", "/v1/projects/", "/locations/",
       "/publishers/google/models", "https://aiplatform.googleapis.com",
       "https://aiplatform.", ".rep.googleapis.com"} \subseteq Clean
  BY DEF Clean, Token, NUL
<1> QED BY <1>1

(* Azure.                                                                    *)
LEMMA AzurePartsTyped ==
  ASSUME NEW m \in Seq(Clean), NEW p \in AzureParts(m)
  PROVE  /\ p.deployment \in Seq(Clean) /\ p.qual \subseteq Seq(Clean)
         /\ p.foundry \in BOOLEAN /\ \A o \in AzureParts(m) : o = p
<1> DEFINE foundry(q) == q.head # <<>> /\ Head(q.head) = "foundry:"
           part(q) == [foundry |-> foundry(q),
                       deployment |-> IF foundry(q) THEN Tail(q.head) ELSE q.head,
                       qual |-> q.qual]
<1>1. PICK q \in Qualified(m) : p = part(q)
  BY DEF AzureParts
<1>2. q.head \in Seq(Clean) /\ q.qual \subseteq Seq(Clean) /\ \A o \in Qualified(m) : o = q
  BY QualifiedTyped
<1>3. \A o \in AzureParts(m) : \E x \in Qualified(m) : o = part(x)
  BY DEF AzureParts
<1>4. q.head # <<>> => Tail(q.head) \in Seq(Clean)
  BY <1>2, HeadTailProperties
<1>5. part(q).deployment \in Seq(Clean)
  BY <1>2, <1>4
<1>6. part(q).qual = q.qual /\ part(q).foundry \in BOOLEAN
  OBVIOUS
<1> HIDE DEF part
<1> QED BY <1>1, <1>2, <1>3, <1>5, <1>6

LEMMA AzureTold ==
  ASSUME NEW raw \in Settings, NEW m \in Seq(Clean),
         NEW r \in AzureResolve(Config(raw), m)
  PROVE  /\ r.base \in Seq(Token) /\ r.canonical \in Seq(Clean)
         /\ \E p \in AzureParts(m) :
              /\ r.id = p.deployment /\ (p.foundry => r.qual = p.qual)
              /\ Head(r.canonical) = "foundry:" <=> p.foundry
<1> DEFINE g == Config(raw)
<1>1. /\ g.azure_version \in Seq(Clean)
      /\ g.azure_foundry \subseteq Seq(Clean) /\ g.azure_openai \subseteq Seq(Clean)
  BY ConfigTyped DEF Optional
<1> HIDE DEF g
<1>2. PICK p \in AzureParts(m) :
        r \in IF p.foundry THEN AzureFoundry(g, p) ELSE AzureOpenAi(g, p)
  BY DEF AzureResolve, g
<1>3. p.deployment \in Seq(Clean) /\ p.qual \subseteq Seq(Clean) /\ p.foundry \in BOOLEAN
  BY AzurePartsTyped
<1>4. Seq(Clean) \subseteq Seq(Token)
  BY SpaceIsClean, SeqMonotonic
<1>5. CASE p.foundry
  <2> DEFINE name == ((<<"foundry:">> \o p.deployment) \o <<"@">>) \o g.azure_version
             canonical == name \o Suffix(p.qual)
             base(b) == (b \o <<"/models/embeddings?api-version=">>) \o g.azure_version
  <2>1. PICK b \in g.azure_foundry : r = Resolved(base(b), canonical, p.deployment, p.qual)
    BY <1>2, <1>5 DEF AzureFoundry
  <2>2. base(b) \in Seq(Clean)
    BY <1>1, LiteralsAreClean, Joins
  <2>3. <<"foundry:">> \o p.deployment \in Seq(Clean)
    BY <1>3, LiteralsAreClean, Joins
  <2>4. name \in Seq(Clean)
    BY <1>1, <2>3, LiteralsAreClean, Joins
  <2>5. canonical \in Seq(Clean)
    BY <1>3, <2>4, SuffixTyped, Joins
  <2>6. Head(canonical) = "foundry:"
    <3> DEFINE d == <<"foundry:">> \o p.deployment
               e == d \o <<"@">>
    <3>1. <<"foundry:">> # <<>> /\ Head(<<"foundry:">>) = "foundry:"
      OBVIOUS
    <3>2. d # <<>> /\ Head(d) = "foundry:"
      BY <1>3, <3>1, LiteralsAreClean, HeadOf
    <3> HIDE DEF d
    <3>3. e # <<>> /\ Head(e) = "foundry:" /\ e \in Seq(Clean)
      <4>1. d \in Seq(Clean)
        BY <2>3 DEF d
      <4> QED BY <3>2, <4>1, LiteralsAreClean, HeadOf, Joins
    <3> HIDE DEF e
    <3>4. name = e \o g.azure_version
      BY DEF d, e
    <3>5. name # <<>> /\ Head(name) = "foundry:"
      BY <1>1, <3>3, <3>4, HeadOf
    <3> HIDE DEF name
    <3> QED BY <1>3, <2>4, <3>5, SuffixTyped, HeadOf
  <2> HIDE DEF base, canonical
  <2> QED BY <1>4, <1>5, <2>1, <2>2, <2>5, <2>6 DEF Resolved
<1>6. CASE ~p.foundry
  <2> DEFINE canonical == <<"openai:">> \o p.deployment
             base(b) == b \o <<"/openai/v1/embeddings">>
  <2>1. PICK b \in g.azure_openai : r = Resolved(base(b), canonical, p.deployment, {})
    BY <1>2, <1>6 DEF AzureOpenAi
  <2>2. base(b) \in Seq(Clean)
    BY <1>1, LiteralsAreClean, Joins
  <2>3. canonical \in Seq(Clean)
    BY <1>3, LiteralsAreClean, Joins
  <2>4. Head(canonical) = "openai:"
    <3>1. <<"openai:">> # <<>> /\ Head(<<"openai:">>) = "openai:"
      OBVIOUS
    <3> QED BY <1>3, <3>1, LiteralsAreClean, HeadOf
  <2> HIDE DEF base, canonical
  <2> QED BY <1>4, <1>6, <2>1, <2>2, <2>3, <2>4 DEF Resolved
<1> QED BY <1>3, <1>5, <1>6

(* Bedrock.                                                                  *)
BedrockId(q) == IF Contains(q.head, "/") THEN After(q.head, "/") ELSE q.head
BedrockQual(q) ==
  IF Head(BedrockId(q)) \notin CohereModels THEN {}
  ELSE IF q.qual = {} THEN DefaultInputType ELSE q.qual

LEMMA FilledTyped ==
  ASSUME NEW Z, NEW t \in Seq(Z), NEW place, NEW v \in Seq(Z)
  PROVE  Filled(t, place, v) \in Seq(Z)
<1> DEFINE s == [i \in 1..Len(t) |-> IF t[i] = place THEN v ELSE <<t[i]>>]
<1>1. Len(t) \in Nat /\ \A i \in 1..Len(t) : t[i] \in Z
  OBVIOUS
<1>2. \A i \in 1..Len(t) : <<t[i]>> \in Seq(Z)
  BY <1>1
<1>3. s \in Seq(Seq(Z))
  BY <1>1, <1>2
<1> HIDE DEF s
<1>4. FlattenSeq(s) \in Seq(Z)
  BY <1>3, FlattenTyped
<1> QED BY <1>4 DEF Filled, s

LEMMA BedrockTold ==
  ASSUME NEW raw \in Settings, NEW m \in Seq(Clean),
         NEW r \in BedrockResolve(Config(raw), m)
  PROVE  /\ r.base \in Seq(Token) /\ r.canonical \in Seq(Clean)
         /\ \E q \in Qualified(m) : r.id = BedrockId(q) /\ r.qual = BedrockQual(q)
<1> DEFINE g == Config(raw)
<1>1. g.region \in Seq(Clean) /\ g.bedrock_template \in Seq(Clean)
  BY ConfigTyped
<1> HIDE DEF g
<1> DEFINE region(q) == IF Contains(q.head, "/") THEN Before(q.head, "/") ELSE g.region
           part(q) == [region |-> region(q), id |-> BedrockId(q), qual |-> q.qual]
           qual(p) == IF Head(p.id) \notin CohereModels THEN {}
                      ELSE IF p.qual = {} THEN DefaultInputType ELSE p.qual
           base(p) == Filled(g.bedrock_template, "{region}", p.region)
           canonical(p) == ((p.region \o <<"/">>) \o p.id) \o Suffix(qual(p))
<1>2. PICK p \in BedrockParts(g, m) : r = Resolved(base(p), canonical(p), p.id, qual(p))
  BY DEF BedrockResolve, g
<1>3. PICK q \in Qualified(m) : p = part(q)
  BY DEF BedrockParts, BedrockId
<1>4. q.head \in Seq(Clean) /\ q.qual \subseteq Seq(Clean)
  BY QualifiedTyped
<1>5. BedrockId(q) \in Seq(Clean) /\ region(q) \in Seq(Clean)
  BY <1>1, <1>4, PartsTyped DEF BedrockId
<1>6. BedrockQual(q) \subseteq Seq(Clean)
  BY <1>4, LiteralsAreClean DEF BedrockQual, DefaultInputType
<1>7. p.region = region(q) /\ p.id = BedrockId(q) /\ qual(p) = BedrockQual(q)
  BY <1>3 DEF BedrockQual
<1> HIDE DEF region, part, qual
<1>8. base(p) \in Seq(Clean)
  BY <1>1, <1>5, <1>7, FilledTyped
<1>9. canonical(p) \in Seq(Clean)
  <2>1. p.region \o <<"/">> \in Seq(Clean)
    BY <1>5, <1>7, LiteralsAreClean, Joins
  <2>2. (p.region \o <<"/">>) \o p.id \in Seq(Clean)
    BY <1>5, <1>7, <2>1, Joins
  <2>3. Suffix(qual(p)) \in Seq(Clean)
    BY <1>6, <1>7, SuffixTyped
  <2> QED BY <2>2, <2>3, Joins
<1>10. Seq(Clean) \subseteq Seq(Token)
  BY SpaceIsClean, SeqMonotonic
<1> HIDE DEF base, canonical
<1> QED BY <1>2, <1>7, <1>8, <1>9, <1>10 DEF Resolved

(* Vertex.                                                                   *)
VertexId(q) ==
  IF Cardinality({i \in 1..Len(q.head) : q.head[i] = "/"}) = 0 THEN q.head
  ELSE After(After(q.head, "/"), "/")

LEMMA VertexTold ==
  ASSUME NEW raw \in Settings, NEW m \in Seq(Clean),
         NEW r \in VertexResolve(Config(raw), m)
  PROVE  /\ r.base \in Seq(Token) /\ r.canonical \in Seq(Clean)
         /\ \E q \in Qualified(m) : r.id = VertexId(q) /\ r.qual = q.qual
<1> DEFINE g == Config(raw)
<1>1. /\ g.location \in Seq(Clean) /\ g.vertex_template \in Seq(Clean)
      /\ g.vertex_project \subseteq Seq(Clean)
  BY ConfigTyped DEF Optional
<1> HIDE DEF g
<1> DEFINE canonical(p) ==
             ((((p.location \o <<"/">>) \o p.project) \o <<"/">>) \o p.id) \o Suffix(p.qual)
           base(p) ==
             (((VertexHost(g, p.location) \o <<"/v1/projects/">>) \o p.project)
               \o <<"/locations/">>) \o p.location
           full(p) == base(p) \o <<"/publishers/google/models">>
<1>2. PICK p \in VertexParts(g, m) : r = Resolved(full(p), canonical(p), p.id, p.qual)
  BY DEF VertexResolve, g
<1>3. \E q \in Qualified(m) :
        /\ p.location \in Seq(Clean) /\ p.project \in Seq(Clean) /\ p.id \in Seq(Clean)
        /\ p.id = VertexId(q) /\ p.qual = q.qual /\ p.qual \subseteq Seq(Clean)
  <2> DEFINE slashes(h) == Cardinality({i \in 1..Len(h) : h[i] = "/"})
             short(q) == {[location |-> g.location, project |-> o, id |-> q.head, qual |-> q.qual]
                             : o \in g.vertex_project}
             long(q) == {[location |-> Before(q.head, "/"),
                          project |-> Before(After(q.head, "/"), "/"),
                          id |-> After(After(q.head, "/"), "/"), qual |-> q.qual]}
             split(q) == CASE slashes(q.head) = 0 -> short(q)
                           [] slashes(q.head) = 2 -> long(q)
                           [] OTHER -> {}
  <2>1. PICK q \in Qualified(m) : p \in split(q)
    BY DEF VertexParts
  <2>2. q.head \in Seq(Clean) /\ q.qual \subseteq Seq(Clean)
    BY QualifiedTyped
  <2>3. /\ Before(q.head, "/") \in Seq(Clean) /\ After(q.head, "/") \in Seq(Clean)
        /\ Before(After(q.head, "/"), "/") \in Seq(Clean)
        /\ After(After(q.head, "/"), "/") \in Seq(Clean)
    BY <2>2, PartsTyped
  <2>4. CASE slashes(q.head) = 0
    <3>1. p \in short(q) /\ VertexId(q) = q.head
      BY <2>1, <2>4 DEF VertexId
    <3> QED BY <1>1, <2>2, <3>1
  <2>5. CASE slashes(q.head) # 0
    <3>1. VertexId(q) = After(After(q.head, "/"), "/")
      BY <2>5 DEF VertexId
    <3> HIDE DEF slashes
    <3>2. p \in long(q)
      BY <2>1, <2>5
    <3> QED BY <2>2, <2>3, <3>1, <3>2
  <2> QED BY <2>4, <2>5
<1>4. VertexHost(g, p.location) \in Seq(Clean)
  <2>1. Filled(g.vertex_template, "{location}", p.location) \in Seq(Clean)
    BY <1>1, <1>3, FilledTyped
  <2>2. <<"https://aiplatform.">> \o p.location \o <<".rep.googleapis.com">> \in Seq(Clean)
    BY <1>3, LiteralsAreClean, Joins
  <2> QED BY <2>1, <2>2, LiteralsAreClean DEF VertexHost
<1>5. full(p) \in Seq(Clean)
  <2>1. VertexHost(g, p.location) \o <<"/v1/projects/">> \in Seq(Clean)
    BY <1>4, LiteralsAreClean, Joins
  <2>2. (VertexHost(g, p.location) \o <<"/v1/projects/">>) \o p.project \in Seq(Clean)
    BY <1>3, <2>1, Joins
  <2>3. ((VertexHost(g, p.location) \o <<"/v1/projects/">>) \o p.project)
          \o <<"/locations/">> \in Seq(Clean)
    BY <2>2, LiteralsAreClean, Joins
  <2>4. base(p) \in Seq(Clean)
    BY <1>3, <2>3, Joins
  <2> HIDE DEF base
  <2> QED BY <2>4, LiteralsAreClean, Joins
<1>6. canonical(p) \in Seq(Clean)
  <2>1. p.location \o <<"/">> \in Seq(Clean)
    BY <1>3, LiteralsAreClean, Joins
  <2>2. (p.location \o <<"/">>) \o p.project \in Seq(Clean)
    BY <1>3, <2>1, Joins
  <2>3. ((p.location \o <<"/">>) \o p.project) \o <<"/">> \in Seq(Clean)
    BY <2>2, LiteralsAreClean, Joins
  <2>4. (((p.location \o <<"/">>) \o p.project) \o <<"/">>) \o p.id \in Seq(Clean)
    BY <1>3, <2>3, Joins
  <2>5. Suffix(p.qual) \in Seq(Clean)
    BY <1>3, SuffixTyped
  <2> QED BY <2>4, <2>5, Joins
<1>7. Seq(Clean) \subseteq Seq(Token)
  BY SpaceIsClean, SeqMonotonic
<1> HIDE DEF full, canonical
<1> QED BY <1>2, <1>3, <1>5, <1>6, <1>7 DEF Resolved

(* The shape of a call.                                                      *)
Wires == {"unchecked", "checked", "counted", "single"}

CallOf(wire, r) ==
  [scope |-> CloudScope(r), url |-> wire.url, model |-> wire.model, qual |-> wire.qual,
   wire |-> wire.wire, batch |-> wire.batch, retries |-> MaxRetries]

LEMMA CallIs ==
  ASSUME NEW g, NEW provider, NEW m, NEW c \in Call(g, provider, m)
  PROVE  /\ provider \in {"openai", "mistral", "gemini", "huggingface",
                           "azure", "bedrock", "vertexai"}
         /\ provider = "openai" => c \in OpenAiCall(g, m)
         /\ provider = "mistral" => c \in MistralCall(g, m)
         /\ provider = "gemini" => c \in GeminiCall(g, m)
         /\ provider = "huggingface" => c \in HuggingFaceCall(g, m)
         /\ provider = "azure" => \E r \in AzureResolve(g, m) : c = CallOf(AzureWire(r), r)
         /\ provider = "bedrock" => \E r \in BedrockResolve(g, m) : c = CallOf(BedrockWire(r), r)
         /\ provider = "vertexai" => \E r \in VertexResolve(g, m) : c = CallOf(VertexWire(r), r)
<1>1. ASSUME NEW w, c \in CloudCall(w) PROVE \E r \in DOMAIN w : c = CallOf(w[r], r)
  BY <1>1 DEF CloudCall, CallOf
<1>2. CASE provider \in {"openai", "mistral", "gemini", "huggingface"}
  BY <1>2 DEF Call
<1>3. CASE provider = "azure"
  <2> DEFINE w == [r \in AzureResolve(g, m) |-> AzureWire(r)]
  <2>1. c \in CloudCall(w)
    BY <1>3 DEF Call
  <2>2. DOMAIN w = AzureResolve(g, m) /\ \A r \in AzureResolve(g, m) : w[r] = AzureWire(r)
    OBVIOUS
  <2> HIDE DEF w
  <2>3. PICK r \in AzureResolve(g, m) : c = CallOf(w[r], r)
    BY <1>1, <2>1, <2>2
  <2> QED BY <1>3, <2>2, <2>3
<1>4. CASE provider = "bedrock"
  <2> DEFINE w == [r \in BedrockResolve(g, m) |-> BedrockWire(r)]
  <2>1. c \in CloudCall(w)
    BY <1>4 DEF Call
  <2>2. DOMAIN w = BedrockResolve(g, m) /\ \A r \in BedrockResolve(g, m) : w[r] = BedrockWire(r)
    OBVIOUS
  <2> HIDE DEF w
  <2>3. PICK r \in BedrockResolve(g, m) : c = CallOf(w[r], r)
    BY <1>1, <2>1, <2>2
  <2> QED BY <1>4, <2>2, <2>3
<1>5. CASE provider = "vertexai"
  <2> DEFINE w == [r \in VertexResolve(g, m) |-> VertexWire(r)]
  <2>1. c \in CloudCall(w)
    BY <1>5 DEF Call
  <2>2. DOMAIN w = VertexResolve(g, m) /\ \A r \in VertexResolve(g, m) : w[r] = VertexWire(r)
    OBVIOUS
  <2> HIDE DEF w
  <2>3. PICK r \in VertexResolve(g, m) : c = CallOf(w[r], r)
    BY <1>1, <2>1, <2>2
  <2> QED BY <1>5, <2>2, <2>3
<1>6. provider \in {"openai", "mistral", "gemini", "huggingface", "azure", "bedrock", "vertexai"}
  <2> SUFFICES ASSUME provider \notin {"openai", "mistral", "gemini", "huggingface",
                                       "azure", "bedrock", "vertexai"}
               PROVE  FALSE
    OBVIOUS
  <2>1. Call(g, provider, m) = {}
    BY DEF Call
  <2> QED BY <2>1
<1> QED BY <1>2, <1>3, <1>4, <1>5, <1>6

LEMMA CallTyped ==
  ASSUME NEW g, NEW provider, NEW m, NEW c \in Call(g, provider, m)
  PROVE  c.batch \in Nat /\ c.retries \in Nat /\ c.wire \in Wires
<1>1. \A b, u, x, w : w \in Wires => \A f \in Fixed(b, u, x, w) :
        f.batch \in Nat /\ f.retries \in Nat /\ f.wire \in Wires
  BY LimitsAssumption DEF Fixed
<1>2. \A r : /\ AzureWire(r).batch \in Nat /\ AzureWire(r).wire \in Wires
             /\ BedrockWire(r).batch \in Nat /\ BedrockWire(r).wire \in Wires
             /\ VertexWire(r).batch \in Nat /\ VertexWire(r).wire \in Wires
  <2> TAKE r
  <2>1. AzureWire(r).batch \in Nat /\ AzureWire(r).wire \in Wires
    BY LimitsAssumption DEF AzureWire, AzureOpenAiWire, AzureFoundryWire, Strategy, Wires
  <2>2. BedrockWire(r).batch \in Nat /\ BedrockWire(r).wire \in Wires
    BY LimitsAssumption DEF BedrockWire, TitanWire, CohereWire, Strategy, Wires
  <2>3. VertexWire(r).batch \in Nat /\ VertexWire(r).wire \in Wires
    BY LimitsAssumption DEF VertexWire, VertexLimit, Strategy, Wires
  <2> QED BY <2>1, <2>2, <2>3
<1>3. \A w, r : w.batch \in Nat /\ w.wire \in Wires =>
        CallOf(w, r).batch \in Nat /\ CallOf(w, r).retries \in Nat /\ CallOf(w, r).wire \in Wires
  BY LimitsAssumption DEF CallOf
<1>4. CASE provider \in {"openai", "mistral", "gemini", "huggingface"}
  <2>1. \E b, u, x : \E w \in Wires : c \in Fixed(b, u, x, w)
    BY <1>4, CallIs DEF OpenAiCall, MistralCall, GeminiCall, HuggingFaceCall, Wires
  <2> QED BY <1>1, <2>1
<1>5. CASE provider \in {"azure", "bedrock", "vertexai"}
  BY <1>2, <1>3, <1>5, CallIs
<1> QED BY <1>4, <1>5, CallIs

LEMMA ScopeTold ==
  ASSUME NEW r, r.base \in Seq(Token), r.canonical \in Seq(Clean)
  PROVE  /\ CloudScope(r) \in Seq(Token)
         /\ \A s : s.base \in Seq(Token) /\ s.canonical \in Seq(Clean)
                   /\ CloudScope(r) = CloudScope(s) => r.base = s.base
<1>1. <<NUL>> \in Seq(Token) /\ <<NUL, "kit">> \in Seq(Token)
  <2>1. {NUL, "kit"} \subseteq Token
    BY DEF Token
  <2> QED BY <2>1
<1>2. Seq(Clean) \subseteq Seq(Token)
  BY SpaceIsClean, SeqMonotonic
<1> DEFINE front(x) == (x.base \o <<NUL>>) \o x.canonical
<1>3. ASSUME NEW x, x.base \in Seq(Token), x.canonical \in Seq(Clean)
      PROVE  front(x) \in Seq(Token) /\ CloudScope(x) = front(x) \o <<NUL, "kit">>
  <2>1. x.base \o <<NUL>> \in Seq(Token)
    BY <1>1, <1>3, Joins
  <2>2. front(x) \in Seq(Token)
    BY <1>2, <1>3, <2>1, Joins
  <2> QED BY <2>2 DEF CloudScope
<1> HIDE DEF front
<1>4. CloudScope(r) \in Seq(Token)
  <2>1. front(r) \in Seq(Token) /\ CloudScope(r) = front(r) \o <<NUL, "kit">>
    BY <1>3
  <2> QED BY <1>1, <2>1, Joins
<1>5. ASSUME NEW s, s.base \in Seq(Token), s.canonical \in Seq(Clean),
             CloudScope(r) = CloudScope(s)
      PROVE  r.base = s.base
  <2>1. front(r) \o <<NUL, "kit">> = front(s) \o <<NUL, "kit">>
    BY <1>3, <1>5
  <2>2. front(r) = front(s)
    BY <1>1, <1>3, <1>5, <2>1, ConcatSimplifications
  <2>3. Marked(r.base, r.canonical) = Marked(s.base, s.canonical)
    BY <2>2 DEF front, Marked
  <2> QED BY <1>5, <2>3, SplitAtLastNul
<1> QED BY <1>4, <1>5

LEMMA ScopeTyped ==
  ASSUME NEW raw \in Settings, NEW provider, NEW m \in Seq(Clean),
         NEW c \in Call(Config(raw), provider, m)
  PROVE  /\ c.scope \in Seq(Token)
         /\ provider = "gemini" => c.scope \in Seq(Clean)
<1>1. Seq(Clean) \subseteq Seq(Token)
  BY SpaceIsClean, SeqMonotonic
<1> DEFINE g == Config(raw)
<1>2. /\ g.openai \in Seq(Clean) /\ g.mistral \in Seq(Clean) /\ g.gemini \in Seq(Clean)
      /\ g.huggingface \in Seq(Clean)
  BY ConfigTyped
<1> HIDE DEF g
<1>3. c \in Call(g, provider, m)
  BY DEF g
<1>4. CASE provider \in {"openai", "mistral", "gemini", "huggingface"}
  <2>1. \A b, u, x, w : \A f \in Fixed(b, u, x, w) : f.scope = b
    BY DEF Fixed
  <2>2. c.scope \in {g.openai, g.mistral, g.gemini, g.huggingface}
    BY <1>3, <1>4, <2>1, CallIs DEF OpenAiCall, MistralCall, GeminiCall, HuggingFaceCall
  <2> QED BY <1>1, <1>2, <2>2
<1>5. CASE provider \in {"azure", "bedrock", "vertexai"}
  <2>1. \A w, r : CallOf(w, r).scope = CloudScope(r)
    BY DEF CallOf
  <2>2. PICK r \in AzureResolve(g, m) \cup BedrockResolve(g, m) \cup VertexResolve(g, m) :
          c.scope = CloudScope(r)
    BY <1>3, <1>5, <2>1, CallIs
  <2>3. r.base \in Seq(Token) /\ r.canonical \in Seq(Clean)
    BY AzureTold, BedrockTold, VertexTold DEF g
  <2> QED BY <1>5, <2>2, <2>3, ScopeTold
<1> QED BY <1>3, <1>4, <1>5, CallIs

(* A provider's cache scope tells what its adapter asks of the upstream for a  *)
(* model: configurations that differ in it "MUST return different strings"     *)
(* (ports lib.rs, cache_scope).                                                *)
THEOREM ScopeTellsTheCall ==
  ASSUME NEW raw \in Settings, NEW raw2 \in Settings, NEW provider, NEW m \in Seq(Clean),
         NEW c \in Call(Config(raw), provider, m), NEW d \in Call(Config(raw2), provider, m),
         c.scope = d.scope
  PROVE  c = d
<1> DEFINE g == Config(raw)
           h == Config(raw2)
<1>1. c \in Call(g, provider, m) /\ d \in Call(h, provider, m)
  OBVIOUS
<1>2. \A w, r : CallOf(w, r).scope = CloudScope(r)
  BY DEF CallOf
<1> HIDE DEF g, h
<1>3. CASE provider = "openai"
  <2>1. c \in OpenAiCall(g, m) /\ d \in OpenAiCall(h, m)
    BY <1>1, <1>3, CallIs
  <2>2. c.scope = g.openai /\ d.scope = h.openai
    BY <2>1 DEF OpenAiCall, Fixed
  <2>3. OpenAiCall(g, m) = OpenAiCall(h, m)
    BY <2>2 DEF OpenAiCall
  <2> QED BY <2>1, <2>3 DEF OpenAiCall, Fixed
<1>4. CASE provider = "mistral"
  <2>1. c \in MistralCall(g, m) /\ d \in MistralCall(h, m)
    BY <1>1, <1>4, CallIs
  <2>2. c.scope = g.mistral /\ d.scope = h.mistral
    BY <2>1 DEF MistralCall, Fixed
  <2>3. MistralCall(g, m) = MistralCall(h, m)
    BY <2>2 DEF MistralCall
  <2> QED BY <2>1, <2>3 DEF MistralCall, Fixed
<1>5. CASE provider = "gemini"
  <2>1. c \in GeminiCall(g, m) /\ d \in GeminiCall(h, m)
    BY <1>1, <1>5, CallIs
  <2>2. c.scope = g.gemini /\ d.scope = h.gemini
    BY <2>1 DEF GeminiCall, Fixed
  <2>3. GeminiCall(g, m) = GeminiCall(h, m)
    BY <2>2 DEF GeminiCall
  <2> QED BY <2>1, <2>3 DEF GeminiCall, Fixed
<1>6. CASE provider = "huggingface"
  <2>1. c \in HuggingFaceCall(g, m) /\ d \in HuggingFaceCall(h, m)
    BY <1>1, <1>6, CallIs
  <2>2. c.scope = g.huggingface /\ d.scope = h.huggingface
    BY <2>1 DEF HuggingFaceCall, Fixed
  <2>3. HuggingFaceCall(g, m) = HuggingFaceCall(h, m)
    BY <2>2 DEF HuggingFaceCall
  <2> QED BY <2>1, <2>3 DEF HuggingFaceCall, Fixed
<1>7. CASE provider = "azure"
  <2>1. PICK r \in AzureResolve(g, m) : c = CallOf(AzureWire(r), r)
    BY <1>1, <1>7, CallIs
  <2>2. PICK s \in AzureResolve(h, m) : d = CallOf(AzureWire(s), s)
    BY <1>1, <1>7, CallIs
  <2>3. r.base \in Seq(Token) /\ r.canonical \in Seq(Clean)
        /\ s.base \in Seq(Token) /\ s.canonical \in Seq(Clean)
    BY AzureTold DEF g, h
  <2>4. CloudScope(r) = CloudScope(s)
    BY <1>2, <2>1, <2>2
  <2>5. r.base = s.base
    BY <2>3, <2>4, ScopeTold
  <2>6. PICK p \in AzureParts(m) :
          /\ r.id = p.deployment /\ (p.foundry => r.qual = p.qual)
          /\ Head(r.canonical) = "foundry:" <=> p.foundry
    BY AzureTold DEF g
  <2>7. PICK o \in AzureParts(m) :
          /\ s.id = o.deployment /\ (o.foundry => s.qual = o.qual)
          /\ Head(s.canonical) = "foundry:" <=> o.foundry
    BY AzureTold DEF h
  <2>8. o = p
    BY AzurePartsTyped
  <2>9. AzureWire(r) = AzureWire(s)
    BY <2>5, <2>6, <2>7, <2>8, AzurePartsTyped
    DEF AzureWire, AzureFoundryWire, AzureOpenAiWire
  <2> QED BY <2>1, <2>2, <2>4, <2>9 DEF CallOf
<1>8. CASE provider = "bedrock"
  <2>1. PICK r \in BedrockResolve(g, m) : c = CallOf(BedrockWire(r), r)
    BY <1>1, <1>8, CallIs
  <2>2. PICK s \in BedrockResolve(h, m) : d = CallOf(BedrockWire(s), s)
    BY <1>1, <1>8, CallIs
  <2>3. r.base \in Seq(Token) /\ r.canonical \in Seq(Clean)
        /\ s.base \in Seq(Token) /\ s.canonical \in Seq(Clean)
    BY BedrockTold DEF g, h
  <2>4. CloudScope(r) = CloudScope(s)
    BY <1>2, <2>1, <2>2
  <2>5. r.base = s.base
    BY <2>3, <2>4, ScopeTold
  <2>6. PICK q \in Qualified(m) : r.id = BedrockId(q) /\ r.qual = BedrockQual(q)
    BY BedrockTold DEF g
  <2>7. PICK o \in Qualified(m) : s.id = BedrockId(o) /\ s.qual = BedrockQual(o)
    BY BedrockTold DEF h
  <2>8. o = q
    BY QualifiedTyped
  <2>9. BedrockWire(r) = BedrockWire(s)
    BY <2>5, <2>6, <2>7, <2>8 DEF BedrockWire, TitanWire, CohereWire, Invoke
  <2> QED BY <2>1, <2>2, <2>4, <2>9 DEF CallOf
<1>9. CASE provider = "vertexai"
  <2>1. PICK r \in VertexResolve(g, m) : c = CallOf(VertexWire(r), r)
    BY <1>1, <1>9, CallIs
  <2>2. PICK s \in VertexResolve(h, m) : d = CallOf(VertexWire(s), s)
    BY <1>1, <1>9, CallIs
  <2>3. r.base \in Seq(Token) /\ r.canonical \in Seq(Clean)
        /\ s.base \in Seq(Token) /\ s.canonical \in Seq(Clean)
    BY VertexTold DEF g, h
  <2>4. CloudScope(r) = CloudScope(s)
    BY <1>2, <2>1, <2>2
  <2>5. r.base = s.base
    BY <2>3, <2>4, ScopeTold
  <2>6. PICK q \in Qualified(m) : r.id = VertexId(q) /\ r.qual = q.qual
    BY VertexTold DEF g
  <2>7. PICK o \in Qualified(m) : s.id = VertexId(o) /\ s.qual = o.qual
    BY VertexTold DEF h
  <2>8. o = q
    BY QualifiedTyped
  <2>9. VertexWire(r) = VertexWire(s)
    BY <2>5, <2>6, <2>7, <2>8 DEF VertexWire, VertexLimit
  <2> QED BY <2>1, <2>2, <2>4, <2>9 DEF CallOf
<1> QED BY <1>1, <1>3, <1>4, <1>5, <1>6, <1>7, <1>8, <1>9, CallIs

-----------------------------------------------------------------------------
(***************************************************************************)
(* Keys.                                                                   *)
(***************************************************************************)
LEMMA ShortTuples ==
  ASSUME NEW a, NEW b, NEW c, NEW d
  PROVE  /\ <<a, b>> \o <<c>> = <<a, b, c>>
         /\ <<a>> \o <<b, c>> = <<a, b, c>>
         /\ <<a, b, c>> \o <<d>> = <<a, b, c, d>>
<1> DEFINE S == {a, b, c, d}
<1>1. /\ <<a>> \in Seq(S) /\ <<c>> \in Seq(S) /\ <<d>> \in Seq(S)
      /\ <<a, b>> \in Seq(S) /\ <<b, c>> \in Seq(S)
      /\ <<a, b, c>> \in Seq(S) /\ <<a, b, c, d>> \in Seq(S)
  OBVIOUS
<1> HIDE DEF S
<1>2. <<a, b>> \o <<c>> = <<a, b, c>>
  <2> DEFINE x == <<a, b>> \o <<c>>
  <2>1. x \in Seq(S) /\ Len(x) = 3 /\ x[1] = a /\ x[2] = b /\ x[3] = c
    BY <1>1, ConcatProperties
  <2> HIDE DEF x
  <2>2. x = <<a, b, c>>
    BY <1>1, <2>1, SeqEqual
  <2> QED BY <2>2 DEF x
<1>3. <<a>> \o <<b, c>> = <<a, b, c>>
  <2> DEFINE x == <<a>> \o <<b, c>>
  <2>1. x \in Seq(S) /\ Len(x) = 3 /\ x[1] = a /\ x[2] = b /\ x[3] = c
    BY <1>1, ConcatProperties
  <2> HIDE DEF x
  <2>2. x = <<a, b, c>>
    BY <1>1, <2>1, SeqEqual
  <2> QED BY <2>2 DEF x
<1>4. <<a, b, c>> \o <<d>> = <<a, b, c, d>>
  <2> DEFINE x == <<a, b, c>> \o <<d>>
  <2>1. x \in Seq(S) /\ Len(x) = 4 /\ x[1] = a /\ x[2] = b /\ x[3] = c /\ x[4] = d
    BY <1>1, ConcatProperties
  <2> HIDE DEF x
  <2>2. x = <<a, b, c, d>>
    BY <1>1, <2>1, SeqEqual
  <2> QED BY <2>2 DEF x
<1> QED BY <1>2, <1>3, <1>4

(* What a key is made of.                                                    *)
Parts ==
  [owner : Token, provider : Token, scope : Seq(Token), model : Seq(Clean)]

PrefixOf(k) == KeyPrefix(k.owner, k.provider, k.scope, k.model, Version)

\* the pieces of a prefix
Two(k) == <<k.owner, NUL, k.provider, NUL>>
Sep == <<NUL>>
Opening(k) == Join(Join(Join(Two(k), k.scope), Sep), k.model)
Ending == <<NUL, Version>>
ImageMark(mime) == <<"image", NUL, mime>>

LEMMA PiecesTyped ==
  /\ Sep \in Seq(Token) /\ Len(Sep) = 1
  /\ Ending \in Seq(Token) /\ Len(Ending) = 2 /\ Ending[1] = NUL
  /\ \A k \in Parts : /\ Two(k) \in Seq(Token) /\ Len(Two(k)) = 4 /\ Two(k)[3] = k.provider
                      /\ k.scope \in Seq(Token) /\ k.model \in Seq(Token)
  /\ \A mime \in Token :
       ImageMark(mime) \in Seq(Token) /\ Len(ImageMark(mime)) = 3 /\ ImageMark(mime)[3] = mime
<1>1. NUL \in Token /\ Version \in Token /\ "image" \in Token
  BY DEF Token
<1>2. Sep \in Seq(Token) /\ Len(Sep) = 1
  BY <1>1 DEF Sep
<1>3. Ending \in Seq(Token) /\ Len(Ending) = 2 /\ Ending[1] = NUL
  BY <1>1 DEF Ending
<1>4. ASSUME NEW k \in Parts
      PROVE  /\ Two(k) \in Seq(Token) /\ Len(Two(k)) = 4 /\ Two(k)[3] = k.provider
             /\ k.scope \in Seq(Token) /\ k.model \in Seq(Token)
  <2>1. k.owner \in Token /\ k.provider \in Token
    BY DEF Parts
  <2>2. Two(k) \in Seq(Token) /\ Len(Two(k)) = 4 /\ Two(k)[3] = k.provider
    BY <1>1, <2>1 DEF Two
  <2>3. k.scope \in Seq(Token) /\ k.model \in Seq(Clean)
    BY DEF Parts
  <2>4. k.model \in Seq(Token)
    BY <2>3, SpaceIsClean, SeqMonotonic
  <2> QED BY <2>2, <2>3, <2>4
<1>5. ASSUME NEW mime \in Token
      PROVE  ImageMark(mime) \in Seq(Token) /\ Len(ImageMark(mime)) = 3
             /\ ImageMark(mime)[3] = mime
  BY <1>1 DEF ImageMark
<1> QED BY <1>2, <1>3, <1>4, <1>5

LEMMA OpeningTyped ==
  ASSUME NEW k \in Parts
  PROVE  /\ Opening(k) \in Seq(Token) /\ Len(Opening(k)) >= 5 /\ Opening(k)[3] = k.provider
         /\ Join(Two(k), k.scope) \in Seq(Token)
         /\ Opening(k) = Marked(Join(Two(k), k.scope), k.model)
<1> DEFINE h == Two(k)
           b == Join(h, k.scope)
           w == Join(b, Sep)
           y == Join(w, k.model)
<1>1. h \in Seq(Token) /\ Len(h) = 4 /\ h[3] = k.provider
  BY PiecesTyped
<1>2. k.scope \in Seq(Token) /\ k.model \in Seq(Token) /\ Sep \in Seq(Token) /\ Len(Sep) = 1
  BY PiecesTyped
<1>3. y = Opening(k)
  BY DEF Opening
<1> HIDE DEF h, y
<1>4. b \in Seq(Token) /\ Len(b) = Len(h) + Len(k.scope)
  BY <1>1, <1>2, Joined
<1>5. b[3] = h[3] /\ 3 \in 1..Len(b)
  <2>1. 3 \in 1..Len(h)
    BY <1>1
  <2> QED BY <1>1, <1>2, <2>1, JoinLeft
<1>6. Len(h) = 4 /\ Len(Sep) = 1 /\ Len(k.scope) \in Nat /\ Len(k.model) \in Nat
  BY <1>1, <1>2
<1> HIDE DEF b
<1>7. w \in Seq(Token) /\ Len(w) = Len(b) + Len(Sep)
  BY <1>2, <1>4, Joined
<1>8. w[3] = b[3] /\ 3 \in 1..Len(w)
  BY <1>2, <1>4, <1>5, JoinLeft
<1> HIDE DEF w
<1>9. y \in Seq(Token) /\ Len(y) = Len(w) + Len(k.model)
  BY <1>2, <1>7, Joined DEF y
<1>10. y[3] = w[3]
  BY <1>2, <1>7, <1>8, JoinLeft DEF y
<1>11. Len(y) >= 5
  <2>1. Len(y) = ((Len(h) + Len(k.scope)) + Len(Sep)) + Len(k.model)
    BY <1>4, <1>7, <1>9
  <2> DEFINE s == Len(k.scope)
             m == Len(k.model)
  <2>2. s \in Nat /\ m \in Nat /\ Len(y) = ((4 + s) + 1) + m
    BY <1>6, <2>1
  <2> HIDE DEF s, m
  <2>3. ((4 + s) + 1) + m >= 5
    BY <2>2
  <2> QED BY <2>2, <2>3
<1>12. y = Marked(b, k.model)
  BY DEF y, w, Marked, Join, Sep
<1> QED BY <1>1, <1>3, <1>4, <1>5, <1>8, <1>9, <1>10, <1>11, <1>12 DEF b, h

LEMMA OpeningTold ==
  ASSUME NEW k \in Parts, NEW l \in Parts, Opening(k) = Opening(l)
  PROVE  k.provider = l.provider /\ k.scope = l.scope /\ k.model = l.model
<1> DEFINE a == Join(Two(k), k.scope)
           b == Join(Two(l), l.scope)
<1>1. a \in Seq(Token) /\ Opening(k) = Marked(a, k.model) /\ k.model \in Seq(Clean)
  BY OpeningTyped DEF Parts
<1>2. b \in Seq(Token) /\ Opening(l) = Marked(b, l.model) /\ l.model \in Seq(Clean)
  BY OpeningTyped DEF Parts
<1> HIDE DEF a, b
<1>3. a = b /\ k.model = l.model
  BY <1>1, <1>2, SplitAtLastNul
<1>4. Two(k) \in Seq(Token) /\ Two(l) \in Seq(Token) /\ Len(Two(k)) = Len(Two(l))
      /\ k.scope \in Seq(Token) /\ l.scope \in Seq(Token)
  BY PiecesTyped
<1>5. Two(k) = Two(l) /\ k.scope = l.scope
  BY <1>3, <1>4, CancelTails DEF a, b
<1> QED BY <1>3, <1>5, PiecesTyped

LEMMA PrefixIs ==
  ASSUME NEW k \in Parts
  PROVE  /\ PrefixOf(k) \in Seq(Token) /\ Join(Opening(k), Ending) \in Seq(Token)
         /\ \A t : TextKey(PrefixOf(k), t) = Marked(Join(Opening(k), Ending), t)
<1> DEFINE x == Opening(k)
           y == Join(x, Ending)
<1>1. x \in Seq(Token) /\ Ending \in Seq(Token) /\ Sep \in Seq(Token)
  BY OpeningTyped, PiecesTyped
<1>2. Join(Ending, Sep) = <<NUL, Version, NUL>>
  BY ShortTuples DEF Join, Ending, Sep
<1>3. PrefixOf(k) = Join(x, Join(Ending, Sep))
  BY <1>2 DEF PrefixOf, KeyPrefix, Opening, Join, Two, Sep
<1> HIDE DEF x
<1>4. Join(x, Join(Ending, Sep)) = Join(y, Sep)
  BY <1>1, JoinsAssociate
<1>5. y \in Seq(Token)
  BY <1>1, Joined
<1> HIDE DEF y
<1>6. Join(y, Sep) \in Seq(Token)
  BY <1>1, <1>5, Joined
<1>7. \A t : TextKey(Join(y, Sep), t) = Marked(y, t)
  BY DEF TextKey, Marked, Join, Sep
<1> QED BY <1>3, <1>4, <1>5, <1>6, <1>7 DEF x, y

LEMMA PrefixTold ==
  ASSUME NEW k \in Parts, NEW l \in Parts,
         Join(Opening(k), Ending) = Join(Opening(l), Ending)
  PROVE  k.provider = l.provider /\ k.scope = l.scope /\ k.model = l.model
<1>1. Opening(k) \in Seq(Token) /\ Opening(l) \in Seq(Token) /\ Ending \in Seq(Token)
  BY OpeningTyped, PiecesTyped
<1>2. Opening(k) = Opening(l)
  BY <1>1, CancelTails
<1> QED BY <1>2, OpeningTold

(* A text's key tells everything that went into it.                          *)
LEMMA TextKeysTell ==
  ASSUME NEW k \in Parts, NEW l \in Parts, NEW t \in Seq(Clean), NEW u \in Seq(Clean),
         TextKey(PrefixOf(k), t) = TextKey(PrefixOf(l), u)
  PROVE  k.provider = l.provider /\ k.scope = l.scope /\ k.model = l.model /\ t = u
<1> DEFINE a == Join(Opening(k), Ending)
           b == Join(Opening(l), Ending)
<1>1. a \in Seq(Token) /\ b \in Seq(Token) /\ Marked(a, t) = Marked(b, u)
  BY PrefixIs
<1> HIDE DEF a, b
<1>2. a = b /\ t = u
  BY <1>1, SplitAtLastNul
<1> QED BY <1>2, PrefixTold DEF a, b

LEMMA ImageKeyIs ==
  ASSUME NEW k \in Parts, NEW mime \in Token
  PROVE  /\ Join(PrefixOf(k), ImageMark(mime)) \in Seq(Token)
         /\ \A data : ImageKey(PrefixOf(k), mime, data)
                        = Marked(Join(PrefixOf(k), ImageMark(mime)), data)
<1> DEFINE x == PrefixOf(k)
<1>1. x \in Seq(Token) /\ Sep \in Seq(Token) /\ ImageMark(mime) \in Seq(Token)
  BY PrefixIs, PiecesTyped
<1>2. Join(ImageMark(mime), Sep) = <<"image", NUL, mime, NUL>>
  BY ShortTuples DEF Join, ImageMark, Sep
<1> HIDE DEF x
<1>3. \A data : ImageKey(x, mime, data) = Join(x, Join(ImageMark(mime), Sep)) \o data
  BY <1>2 DEF ImageKey, Join
<1>4. Join(x, Join(ImageMark(mime), Sep)) = Join(Join(x, ImageMark(mime)), Sep)
  BY <1>1, JoinsAssociate
<1>5. Join(x, ImageMark(mime)) \in Seq(Token)
  BY <1>1, Joined
<1> DEFINE y == Join(x, ImageMark(mime))
<1> HIDE DEF y
<1>6. \A data : Join(y, Sep) \o data = Marked(y, data)
  BY DEF Marked, Join, Sep
<1> QED BY <1>3, <1>4, <1>5, <1>6 DEF x, y

(* So does an image's.                                                       *)
LEMMA ImageKeysTell ==
  ASSUME NEW k \in Parts, NEW l \in Parts, NEW t \in Seq(Clean), NEW u \in Seq(Clean),
         NEW mime \in Token, NEW mime2 \in Token,
         ImageKey(PrefixOf(k), mime, t) = ImageKey(PrefixOf(l), mime2, u)
  PROVE  /\ k.provider = l.provider /\ k.scope = l.scope /\ k.model = l.model
         /\ mime = mime2 /\ t = u
<1> DEFINE a == Join(PrefixOf(k), ImageMark(mime))
           b == Join(PrefixOf(l), ImageMark(mime2))
<1>1. a \in Seq(Token) /\ b \in Seq(Token) /\ Marked(a, t) = Marked(b, u)
  BY ImageKeyIs
<1> HIDE DEF a, b
<1>2. a = b /\ t = u
  BY <1>1, SplitAtLastNul
<1>3. /\ PrefixOf(k) \in Seq(Token) /\ PrefixOf(l) \in Seq(Token)
      /\ ImageMark(mime) \in Seq(Token) /\ ImageMark(mime2) \in Seq(Token)
      /\ Len(ImageMark(mime)) = Len(ImageMark(mime2))
  BY PrefixIs, PiecesTyped
<1>4. PrefixOf(k) = PrefixOf(l) /\ ImageMark(mime) = ImageMark(mime2)
  BY <1>2, <1>3, CancelTails DEF a, b
<1>5. TextKey(PrefixOf(k), t) = TextKey(PrefixOf(l), t)
  BY <1>4
<1> QED BY <1>2, <1>4, <1>5, TextKeysTell, PiecesTyped

(* A string that ends in a NUL and a token is no clean address.              *)
LEMMA NoRoom ==
  ASSUME NEW k \in Parts, NEW l \in Parts,
         Join(Two(k), k.scope) = Join(Opening(l), Ending)
  PROVE  k.provider = l.provider /\ k.scope \notin Seq(Clean)
<1> DEFINE h == Two(k)
           y == Opening(l)
           n == Len(k.scope) - 1
<1>1. /\ Ending \in Seq(Token) /\ Len(Ending) = 2 /\ Ending[1] = NUL
      /\ h \in Seq(Token) /\ Len(h) = 4 /\ h[3] = k.provider /\ k.scope \in Seq(Token)
  BY PiecesTyped
<1>2. y \in Seq(Token) /\ Len(y) >= 5 /\ y[3] = l.provider
  BY OpeningTyped
<1> HIDE DEF y, h
<1>3. Join(h, k.scope) = Join(y, Ending)
  BY DEF h, y
<1>4. Len(h) + Len(k.scope) = Len(y) + Len(Ending)
  <2>1. Len(Join(h, k.scope)) = Len(h) + Len(k.scope)
    BY <1>1, Joined
  <2>2. Len(Join(y, Ending)) = Len(y) + Len(Ending)
    BY <1>1, <1>2, Joined
  <2> QED BY <1>3, <2>1, <2>2
<1>5. Len(k.scope) \in Nat /\ Len(y) \in Nat
  BY <1>1, <1>2
<1>6. k.provider = l.provider
  <2>1. 3 \in 1..Len(h) /\ 3 \in 1..Len(y)
    BY <1>1, <1>2, <1>5
  <2>2. Join(h, k.scope)[3] = h[3]
    BY <1>1, <2>1, JoinLeft
  <2>3. Join(y, Ending)[3] = y[3]
    BY <1>1, <1>2, <2>1, JoinLeft
  <2> QED BY <1>1, <1>2, <1>3, <2>2, <2>3
<1>7. n \in 1..Len(k.scope) /\ Len(h) + n = Len(y) + 1
  BY <1>1, <1>2, <1>4, <1>5
<1> HIDE DEF n
<1>8. k.scope[n] = NUL
  <2>1. Join(h, k.scope)[Len(h) + n] = k.scope[n]
    BY <1>1, <1>7, JoinRight
  <2>2. 1 \in 1..Len(Ending)
    BY <1>1
  <2>3. Join(y, Ending)[Len(y) + 1] = Ending[1]
    BY <1>1, <1>2, <2>2, JoinRight
  <2> QED BY <1>1, <1>3, <1>7, <2>1, <2>3
<1>9. k.scope \notin Seq(Clean)
  <2> SUFFICES ASSUME k.scope \in Seq(Clean) PROVE FALSE
    OBVIOUS
  <2>1. k.scope[n] \in Clean
    BY <1>7, ElementOfSeq
  <2> QED BY <1>8, <2>1 DEF Clean
<1> QED BY <1>6, <1>9

(* No image has the key of a text, if the image route's provider has no NUL  *)
(* in its address.                                                           *)
LEMMA KindsApart ==
  ASSUME NEW k \in Parts, NEW l \in Parts, NEW t \in Seq(Clean), NEW u \in Seq(Clean),
         NEW mime \in Token, k.provider = l.provider => k.scope \in Seq(Clean)
  PROVE  TextKey(PrefixOf(k), t) # ImageKey(PrefixOf(l), mime, u)
<1> SUFFICES ASSUME TextKey(PrefixOf(k), t) = ImageKey(PrefixOf(l), mime, u)
             PROVE  FALSE
  OBVIOUS
<1> DEFINE x == Opening(k)
           a == Join(Two(k), k.scope)
           c == Join(Opening(l), Ending)
           xe == Join(x, Ending)
           p == PrefixOf(l)
           pm == Join(p, ImageMark(mime))
           i == <<"image">>
           e == <<NUL, mime>>
<1>1. /\ x \in Seq(Token) /\ a \in Seq(Token) /\ x = Marked(a, k.model)
      /\ k.model \in Seq(Clean)
  BY OpeningTyped DEF Parts
<1>2. /\ xe \in Seq(Token) /\ p \in Seq(Token) /\ c \in Seq(Token)
      /\ TextKey(PrefixOf(k), t) = Marked(xe, t)
  BY PrefixIs
<1>3. pm \in Seq(Token) /\ ImageKey(p, mime, u) = Marked(pm, u)
  BY ImageKeyIs
<1>4. /\ i \in Seq(Clean) /\ i \in Seq(Token) /\ e \in Seq(Token)
      /\ Ending \in Seq(Token) /\ Len(Ending) = Len(e)
  <2>1. NUL \in Token /\ "image" \in Token /\ "image" \in Clean
    BY DEF Token, Clean, NUL
  <2> QED BY <2>1, PiecesTyped
<1>5. Join(i, e) = ImageMark(mime)
  BY ShortTuples DEF Join, ImageMark
<1>6. Marked(xe, t) = Marked(pm, u)
  BY <1>2, <1>3
<1>7. Marked(c, i) = Join(p, i)
  <2>1. TextKey(p, i) = Marked(c, i)
    BY PrefixIs
  <2> QED BY <2>1 DEF TextKey, Join
<1> HIDE DEF x, a, c, xe, p, pm, i, e
<1>8. xe = pm
  BY <1>2, <1>3, <1>6, SplitAtLastNul
<1>9. Join(x, Ending) = Join(Join(p, i), e)
  <2>1. Join(x, Ending) = Join(p, Join(i, e))
    BY <1>5, <1>8 DEF xe, pm
  <2> QED BY <1>2, <1>4, <2>1, JoinsAssociate
<1>10. x = Join(p, i)
  <2>1. Join(p, i) \in Seq(Token)
    BY <1>2, <1>4, Joined
  <2> QED BY <1>1, <1>4, <1>9, <2>1, CancelTails
<1>11. a = c
  <2>1. Marked(a, k.model) = Marked(c, i)
    BY <1>1, <1>7, <1>10
  <2> QED BY <1>1, <1>2, <1>4, <2>1, SplitAtLastNul
<1>12. Join(Two(k), k.scope) = Join(Opening(l), Ending)
  BY <1>11 DEF a, c
<1> QED BY <1>12, NoRoom

-----------------------------------------------------------------------------
(***************************************************************************)
(* Lists of whatever they hold.                                            *)
(***************************************************************************)
List(s) == s \in Seq(ToSet(s))

LEMMA ListsAre ==
  ASSUME NEW Z, NEW s \in Seq(Z)
  PROVE  List(s) /\ Len(s) \in Nat /\ DOMAIN s = 1..Len(s)
<1>1. Len(s) \in Nat /\ DOMAIN s = 1..Len(s) /\ s \in [1..Len(s) -> Z]
  OBVIOUS
<1>2. \A n \in 1..Len(s) : s[n] \in ToSet(s)
  BY <1>1 DEF ToSet
<1>3. s \in [1..Len(s) -> ToSet(s)]
  BY <1>1, <1>2
<1> QED BY <1>1, <1>3, SeqDef DEF List

LEMMA ListIs ==
  ASSUME NEW s, List(s)
  PROVE  Len(s) \in Nat /\ DOMAIN s = 1..Len(s)
BY ListsAre DEF List

LEMMA ListBuilt ==
  ASSUME NEW n \in Nat, NEW f, f = [x \in 1..n |-> f[x]]
  PROVE  List(f) /\ Len(f) = n /\ DOMAIN f = 1..n
<1> DEFINE Z == {f[x] : x \in 1..n}
<1>1. f \in Seq(Z) /\ Len(f) = n /\ DOMAIN f = 1..n
  <2>1. f \in [1..n -> Z] /\ DOMAIN f = 1..n
    OBVIOUS
  <2> HIDE DEF Z
  <2>2. f \in Seq(Z)
    BY <2>1, SeqDef
  <2>3. Len(f) \in Nat /\ DOMAIN f = 1..Len(f)
    BY <2>2
  <2>4. Len(f) = n
    BY <2>1, <2>3
  <2> QED BY <2>1, <2>2, <2>4
<1> HIDE DEF Z
<1> QED BY <1>1, ListsAre

LEMMA ListJoined ==
  ASSUME NEW a, NEW b, List(a), List(b)
  PROVE  /\ List(Join(a, b)) /\ Len(Join(a, b)) = Len(a) + Len(b)
         /\ \A n \in 1..Len(a) : Join(a, b)[n] = a[n]
         /\ \A n \in 1..Len(b) : Join(a, b)[Len(a) + n] = b[n]
<1> DEFINE Z == ToSet(a) \cup ToSet(b)
<1>1. a \in Seq(Z) /\ b \in Seq(Z)
  <2>1. ToSet(a) \subseteq Z /\ ToSet(b) \subseteq Z
    OBVIOUS
  <2> HIDE DEF Z
  <2> QED BY <2>1, SeqMonotonic DEF List
<1> HIDE DEF Z
<1>2. Join(a, b) \in Seq(Z) /\ Len(Join(a, b)) = Len(a) + Len(b)
  BY <1>1, ConcatProperties DEF Join
<1>3. \A n \in 1..Len(a) : Join(a, b)[n] = a[n]
  BY <1>1, ConcatProperties DEF Join
<1>4. \A n \in 1..Len(b) : Join(a, b)[Len(a) + n] = b[n]
  BY <1>1, ConcatProperties DEF Join
<1> QED BY <1>2, <1>3, <1>4, ListsAre

LEMMA ListCut ==
  ASSUME NEW s, List(s), NEW m \in Nat, NEW n \in Nat, m <= n, n <= Len(s)
  PROVE  /\ List(SubSeq(s, m + 1, n)) /\ Len(SubSeq(s, m + 1, n)) = n - m
         /\ \A i \in 1..(n - m) : SubSeq(s, m + 1, n)[i] = s[m + i]
<1> DEFINE Z == ToSet(s)
<1>1. s \in Seq(Z)
  BY DEF List
<1> HIDE DEF Z
<1>2. \A i \in (m + 1)..n : s[i] \in Z
  BY <1>1
<1>3. /\ SubSeq(s, m + 1, n) \in Seq(Z) /\ Len(SubSeq(s, m + 1, n)) = n - m
      /\ \A i \in 1..(n - m) : SubSeq(s, m + 1, n)[i] = s[m + i]
  <2> DEFINE u == SubSeq(s, m + 1, n)
  <2>1. /\ u \in Seq(Z) /\ Len(u) = IF m + 1 <= n THEN n - (m + 1) + 1 ELSE 0
        /\ \A i \in 1..(n - (m + 1) + 1) : u[i] = s[(m + 1) + i - 1]
    BY <1>1, <1>2, SubSeqProperties
  <2> HIDE DEF u
  <2>2. Len(u) = n - m
    BY <2>1
  <2>3. ASSUME NEW i \in 1..(n - m) PROVE u[i] = s[m + i]
    <3>1. i \in 1..(n - (m + 1) + 1) /\ (m + 1) + i - 1 = m + i
      BY <2>3
    <3> QED BY <2>1, <3>1
  <2> QED BY <2>1, <2>2, <2>3 DEF u
<1> QED BY <1>3, ListsAre

-----------------------------------------------------------------------------
(***************************************************************************)
(* What a request asks for.                                                *)
(***************************************************************************)
LEMMA RequestTyped ==
  ASSUME NEW r \in Requests
  PROVE  /\ List(Items(r)) /\ Len(Items(r)) \in Nat
         /\ \A i \in 1..Len(Items(r)) : Items(r)[i] \in Seq(STRING)
         /\ r.kind \in {"text", "image"} /\ r.owner \in Token /\ r.provider \in Token
         /\ r.method \in {"POST", "DELETE"}
<1>1. CASE "one" \in DOMAIN r.input
  <2>1. r.input.one \in Seq(STRING)
    BY <1>1, RequestsAssumption
  <2>2. Items(r) \in Seq(Seq(STRING)) /\ Len(Items(r)) = 1 /\ Items(r)[1] = r.input.one
    BY <1>1, <2>1 DEF Items
  <2> QED BY <2>1, <2>2, ListsAre, RequestsAssumption DEF Token
<1>2. CASE "one" \notin DOMAIN r.input
  <2>1. Items(r) \in Seq(Seq(STRING))
    BY <1>2, RequestsAssumption DEF Items
  <2>2. \A i \in 1..Len(Items(r)) : Items(r)[i] \in Seq(STRING)
    BY <2>1
  <2> QED BY <2>1, <2>2, ListsAre, RequestsAssumption DEF Token
<1> QED BY <1>1, <1>2

LEMMA KeysAre ==
  ASSUME NEW r \in Requests, NEW c
  PROVE  /\ List(KeysOf(r, c)) /\ Len(KeysOf(r, c)) = Len(Items(r))
         /\ \A i \in 1..Len(Items(r)) :
              KeysOf(r, c)[i] =
                IF r.kind = "image"
                THEN ImageKey(Prefix(r, c), Image(Items(r)[i]).mime, Image(Items(r)[i]).data)
                ELSE TextKey(Prefix(r, c), Canonical(Items(r)[i]))
<1> DEFINE n == Len(Items(r))
           f == ImageKeys(r, c)
           g == TextKeys(r, c)
<1>1. n \in Nat
  BY RequestTyped
<1>2. f = [x \in 1..n |-> f[x]] /\ g = [x \in 1..n |-> g[x]]
  BY DEF ImageKeys, TextKeys
<1>3. \A i \in 1..n :
        /\ f[i] = ImageKey(Prefix(r, c), Image(Items(r)[i]).mime, Image(Items(r)[i]).data)
        /\ g[i] = TextKey(Prefix(r, c), Canonical(Items(r)[i]))
  BY DEF ImageKeys, TextKeys
<1> HIDE DEF f, g, n
<1>4. List(f) /\ Len(f) = n /\ List(g) /\ Len(g) = n
  BY <1>1, <1>2, ListBuilt
<1>5. KeysOf(r, c) = IF r.kind = "image" THEN f ELSE g
  BY DEF KeysOf, f, g
<1>6. CASE r.kind = "image"
  BY <1>3, <1>4, <1>5, <1>6 DEF n
<1>7. CASE r.kind # "image"
  BY <1>3, <1>4, <1>5, <1>7 DEF n
<1> QED BY <1>6, <1>7

(* What is to be fetched for a request: one text for every key that is not   *)
(* there, an input's own with that key.                                      *)
Fetches(j) ==
  /\ List(j.missing) /\ List(j.texts) /\ Len(j.texts) = Len(j.missing)
  /\ \A n \in 1..Len(j.missing) : \E i \in 1..Len(Items(j.req)) :
       j.missing[n] = j.keys[i] /\ j.texts[n] = Asked(j.req, Items(j.req)[i])
  /\ \A m, n \in 1..Len(j.missing) : j.missing[m] = j.missing[n] => m = n
  /\ \A i \in 1..Len(Items(j.req)) :
       j.hits[i] = {} => \E n \in 1..Len(j.missing) : j.missing[n] = j.keys[i]

LEMMA JobFetches ==
  ASSUME NEW r \in Requests, NEW c
  PROVE  LET j == Job(r, c) IN
         /\ j.req = r /\ j.call = c /\ j.keys = KeysOf(r, c) /\ Fetches(j)
         /\ \A n \in 1..Len(j.missing) : j.missing[n] \notin DOMAIN cache
         /\ \A i \in 1..Len(Items(r)) : \A v \in j.hits[i] :
              j.keys[i] \in DOMAIN cache /\ v = cache[j.keys[i]]
<1> DEFINE keys == KeysOf(r, c)
           F == Firsts(r, keys)
           at == InOrder(F)
           N == Len(Items(r))
           j == Job(r, c)
           missing == [n \in 1..Len(at) |-> keys[at[n]]]
           texts == [n \in 1..Len(at) |-> Asked(r, Items(r)[at[n]])]
           hits == [i \in 1..Len(keys) |->
                      IF keys[i] \in DOMAIN cache THEN {cache[keys[i]]} ELSE {}]
<1>1. List(keys) /\ Len(keys) = N /\ N \in Nat
  BY KeysAre, RequestTyped
<1>2. j.req = r /\ j.call = c /\ j.keys = keys /\ j.hits = hits
      /\ j.missing = missing /\ j.texts = texts
  BY DEF Job
<1> HIDE DEF j, keys
<1>3. F = {i \in 1..N : keys[i] \notin DOMAIN cache /\ \A o \in 1..(i - 1) : keys[o] # keys[i]}
  BY <1>1 DEF Firsts
<1> HIDE DEF F
<1>4. Ascends(at, F)
  <2>1. F \subseteq 1..N
    BY <1>3
  <2> QED BY <1>1, <2>1, InOrderAscends
<1> HIDE DEF at
<1>5. /\ Len(at) \in Nat /\ \A n \in 1..Len(at) : at[n] \in F
      /\ \A i \in F : \E n \in 1..Len(at) : at[n] = i
      /\ \A m, n \in 1..Len(at) : m < n => at[m] < at[n]
  BY <1>4 DEF Ascends
<1>6. /\ List(missing) /\ Len(missing) = Len(at)
      /\ \A n \in 1..Len(at) : missing[n] = keys[at[n]]
  <2>1. missing = [n \in 1..Len(at) |-> missing[n]]
    OBVIOUS
  <2>2. \A n \in 1..Len(at) : missing[n] = keys[at[n]]
    OBVIOUS
  <2> HIDE DEF missing
  <2> QED BY <1>5, <2>1, <2>2, ListBuilt
<1>7. /\ List(texts) /\ Len(texts) = Len(at)
      /\ \A n \in 1..Len(at) : texts[n] = Asked(r, Items(r)[at[n]])
  <2>1. texts = [n \in 1..Len(at) |-> texts[n]]
    OBVIOUS
  <2>2. \A n \in 1..Len(at) : texts[n] = Asked(r, Items(r)[at[n]])
    OBVIOUS
  <2> HIDE DEF texts
  <2> QED BY <1>5, <2>1, <2>2, ListBuilt
<1>8. \A i \in 1..N : hits[i] = IF keys[i] \in DOMAIN cache THEN {cache[keys[i]]} ELSE {}
  BY <1>1
<1> HIDE DEF missing, texts, hits
<1>9. \A n \in 1..Len(missing) : missing[n] \notin DOMAIN cache
  BY <1>3, <1>5, <1>6
<1>10. \A n \in 1..Len(missing) : \E i \in 1..N :
         missing[n] = keys[i] /\ texts[n] = Asked(r, Items(r)[i])
  BY <1>3, <1>5, <1>6, <1>7
<1>11. ASSUME NEW m \in 1..Len(missing), NEW n \in 1..Len(missing), missing[m] = missing[n], m < n
       PROVE  FALSE
  <2>1. at[m] \in 1..N /\ at[n] \in 1..N /\ at[m] < at[n] /\ keys[at[m]] = keys[at[n]]
    BY <1>3, <1>5, <1>6, <1>11
  <2>2. at[m] \in 1..(at[n] - 1)
    BY <1>1, <2>1
  <2>3. at[n] \in F
    BY <1>5, <1>6
  <2> QED BY <1>3, <2>1, <2>2, <2>3
<1>12. ASSUME NEW m \in 1..Len(missing), NEW n \in 1..Len(missing), missing[m] = missing[n]
       PROVE  m = n
  <2>1. m \in Nat /\ n \in Nat
    BY <1>5, <1>6
  <2>2. ~(m < n) /\ ~(n < m)
    BY <1>11, <1>12
  <2> QED BY <2>1, <2>2
<1>13. ASSUME NEW i \in 1..N, hits[i] = {}
       PROVE  \E n \in 1..Len(missing) : missing[n] = keys[i]
  <2>1. keys[i] \notin DOMAIN cache
    BY <1>8, <1>13
  <2> DEFINE T == {o \in 1..N : keys[o] = keys[i]}
  <2>2. T \subseteq Nat /\ T # {}
    BY <1>1
  <2>3. PICK m \in T : \A o \in T : m <= o
    BY <2>2, LeastOfNaturals
  <2>4. m \in 1..N /\ keys[m] = keys[i]
    BY <2>3
  <2>5. ASSUME NEW o \in 1..(m - 1), keys[o] = keys[m]
        PROVE  FALSE
    <3>1. o \in T /\ ~(m <= o)
      BY <1>1, <2>4, <2>5
    <3> QED BY <2>3, <3>1
  <2>6. m \in F
    BY <1>3, <2>1, <2>4, <2>5
  <2>7. PICK n \in 1..Len(at) : at[n] = m
    BY <1>5, <2>6
  <2> QED BY <1>6, <2>4, <2>7
<1>14. Fetches(j)
  BY <1>2, <1>6, <1>7, <1>10, <1>12, <1>13 DEF Fetches
<1>15. \A i \in 1..N : \A v \in hits[i] : keys[i] \in DOMAIN cache /\ v = cache[keys[i]]
  BY <1>8
<1> QED BY <1>2, <1>9, <1>14, <1>15 DEF keys, j

-----------------------------------------------------------------------------
(***************************************************************************)
(* Replies.                                                                *)
(***************************************************************************)
(* The vectors fetched so far are those of the texts sent so far.            *)
Fits ==
  /\ List(job.texts) /\ job.call.batch \in Nat /\ job.call.wire \in Wires
  /\ List(got) /\ asked \in 0..Len(job.texts)
  /\ Len(got) = IF job.call.wire = "unchecked" THEN Len(job.texts) ELSE asked
  /\ \A n \in 1..asked :
       \/ got[n] = Vector(job.call, job.texts[n])
       \/ garbled /\ job.call.wire = "unchecked"

LEMMA ChunkIs ==
  ASSUME Fits
  PROVE  /\ Len(Chunk) \in Nat /\ asked + Len(Chunk) <= Len(job.texts)
         /\ \A i \in 1..Len(Chunk) : Chunk[i] = job.texts[asked + i]
<1> DEFINE t == job.texts
           b == job.call.batch
           N == Len(job.texts)
           m == Min({asked + b, N})
<1>1. List(t) /\ N \in Nat /\ asked \in 0..N /\ b \in Nat /\ N = Len(t)
  BY ListIs DEF Fits
<1>2. Chunk = SubSeq(t, asked + 1, m)
  BY DEF Chunk
<1> HIDE DEF t, b, N
<1>3. m = IF asked + b <= N THEN asked + b ELSE N
  <2>1. asked + b \in Nat
    BY <1>1
  <2> QED BY <1>1, <2>1, MinOfTwo
<1> HIDE DEF m
<1>4. asked \in Nat /\ m \in Nat /\ asked <= m /\ m <= N
  BY <1>1, <1>3
<1>5. /\ Len(Chunk) = m - asked
      /\ \A i \in 1..(m - asked) : Chunk[i] = t[asked + i]
  BY <1>1, <1>2, <1>4, ListCut
<1> QED BY <1>4, <1>5 DEF t, N

(* The slot that an item of the reply fills.                                 *)
LEMMA LastIs ==
  ASSUME NEW k \in Nat, NEW reply \in [1..k -> Nat], NEW n
  PROVE  LET i == SelectLastInSeq(reply, LAMBDA x : Slot(x) = n) IN
         \/ i = 0 /\ \A o \in 1..k : Slot(reply[o]) # n
         \/ i \in 1..k /\ Slot(reply[i]) = n
<1> DEFINE I == {o \in 1..Len(reply) : Slot(reply[o]) = n}
           i == SelectLastInSeq(reply, LAMBDA x : Slot(x) = n)
<1>1. i = IF I # {} THEN Max(I) ELSE 0
  BY DEF SelectLastInSeq
<1>2. Len(reply) = k
  <2>1. reply \in Seq(Nat)
    BY SeqDef
  <2> QED BY <2>1
<1>3. I \subseteq 1..k /\ \A o \in 1..k : o \in I <=> Slot(reply[o]) = n
  BY <1>2
<1> HIDE DEF I, i
<1>4. \/ i = 0 /\ \A o \in 1..k : Slot(reply[o]) # n
      \/ i \in 1..k /\ Slot(reply[i]) = n
  <2>1. CASE I = {}
    BY <1>1, <1>3, <2>1
  <2>2. CASE I # {}
    <3>1. Max(I) \in I
      BY <1>3, <2>2, MaxOf
    <3> QED BY <1>1, <1>3, <2>2, <3>1
  <2> QED BY <2>1, <2>2
<1> QED BY <1>4 DEF i

(* What is taken of a reply fits as well.                                    *)
LEMMA TakenFits ==
  ASSUME Fits, NEW reply \in Replies(job.call.wire, Len(Chunk)), NEW vectors \in Taken(reply)
  PROVE  /\ List(vectors)
         /\ Len(vectors) = IF job.call.wire = "unchecked" THEN Len(job.texts)
                           ELSE asked + Len(Chunk)
         /\ \A n \in 1..(asked + Len(Chunk)) :
              \/ vectors[n] = Vector(job.call, job.texts[n])
              \/ /\ garbled \/ ~Pairs(reply, Len(Chunk))
                 /\ job.call.wire = "unchecked"
<1> DEFINE N == Len(job.texts)
           C == Len(Chunk)
           wire == job.call.wire
           text(n) == job.texts[n]
           right(n) == Vector(job.call, text(n))
<1>1. /\ N \in Nat /\ asked \in 0..N /\ List(got) /\ wire \in Wires
      /\ Len(got) = IF wire = "unchecked" THEN N ELSE asked
      /\ \A n \in 1..asked : got[n] = right(n) \/ (garbled /\ wire = "unchecked")
  BY ListIs DEF Fits
<1>2. C \in Nat /\ asked + C <= N /\ \A i \in 1..C : Chunk[i] = text(asked + i)
  BY ChunkIs
<1>3. reply \in Replies(wire, C) /\ vectors \in Taken(reply)
  OBVIOUS
<1>4. \A i \in 1..C : Embedding(i - 1) = right(asked + i)
  <2> TAKE i \in 1..C
  <2>1. i - 1 < C /\ (i - 1) + 1 = i
    BY <1>2
  <2>2. Embedding(i - 1) = Vector(job.call, Chunk[(i - 1) + 1])
    BY <2>1 DEF Embedding
  <2> QED BY <1>2, <2>1, <2>2
<1>5. (wire = "unchecked" => vectors \in AnyPlace(reply))
      /\ (wire = "checked" => vectors \in EveryPlaceOnce(reply))
      /\ (wire \in {"counted", "single"} => vectors \in AsMany(reply))
  BY <1>3 DEF Taken
<1>6. CASE wire = "unchecked"
  <2> DEFINE slot(n) == SelectLastInSeq(reply, LAMBDA x : Slot(x) = n)
  <2>1. PICK k \in 0..C : reply \in [1..k -> 0..C]
    BY <1>3, <1>6 DEF Replies
  <2>2. reply \in [1..k -> Nat] /\ k \in Nat
    BY <2>1, <1>2
  <2>3. vectors = [n \in 1..Len(got) |->
                     LET i == slot(n) IN IF i = 0 THEN got[n] ELSE Embedding(reply[i])]
    BY <1>5, <1>6 DEF AnyPlace
  <2>4. List(vectors) /\ Len(vectors) = N
    <3>1. vectors = [n \in 1..N |-> vectors[n]]
      BY <1>1, <1>6, <2>3
    <3> QED BY <1>1, <3>1, ListBuilt
  <2>5. ASSUME NEW n \in 1..(asked + C), ~garbled, Pairs(reply, C)
        PROVE  vectors[n] = right(n)
    <3>1. n \in 1..N /\ n \in Nat
      BY <1>1, <1>2
    <3>2. vectors[n] = IF slot(n) = 0 THEN got[n] ELSE Embedding(reply[slot(n)])
      BY <1>1, <1>6, <2>3, <3>1
    <3>3. \/ slot(n) = 0 /\ \A o \in 1..k : Slot(reply[o]) # n
          \/ slot(n) \in 1..k /\ Slot(reply[slot(n)]) = n
      BY <2>2, LastIs
    <3> HIDE DEF slot
    <3>4. CASE n <= asked
      <4>1. \A o \in 1..k : Slot(reply[o]) # n
        BY <1>1, <2>2, <3>1, <3>4 DEF Slot
      <4>2. slot(n) = 0
        BY <3>3, <4>1
      <4> QED BY <1>1, <2>5, <3>1, <3>2, <3>4, <4>2
    <3>5. CASE ~(n <= asked)
      <4>1. n - asked \in 1..C /\ n - asked - 1 \in 0..(C - 1) /\ asked + (n - asked) = n
        BY <1>1, <1>2, <3>1, <3>5
      <4>2. PICK o \in 1..k : reply[o] = n - asked - 1
        BY <2>2, <2>5, <4>1 DEF Pairs, ToSet
      <4>3. Slot(reply[o]) = n
        BY <1>1, <3>1, <4>2 DEF Slot
      <4>4. slot(n) \in 1..k /\ Slot(reply[slot(n)]) = n
        BY <3>3, <4>3
      <4>5. reply[slot(n)] = (n - asked) - 1
        <5>1. reply[slot(n)] \in Nat
          BY <2>2, <4>4
        <5> QED BY <1>1, <3>1, <4>4, <5>1 DEF Slot
      <4>6. slot(n) # 0
        BY <2>2, <4>4
      <4>7. Embedding((n - asked) - 1) = right(asked + (n - asked))
        BY <1>4, <4>1
      <4> QED BY <3>2, <4>1, <4>5, <4>6, <4>7
    <3> QED BY <3>4, <3>5
  <2> QED BY <1>6, <2>4, <2>5
<1>7. ASSUME NEW more, vectors = got \o more, List(more), Len(more) = C, wire # "unchecked",
             \A i \in 1..C : more[i] = right(asked + i)
      PROVE  /\ List(vectors) /\ Len(vectors) = asked + C
             /\ \A n \in 1..(asked + C) : vectors[n] = right(n)
  <2>1. /\ List(vectors) /\ Len(vectors) = asked + C
        /\ \A n \in 1..asked : vectors[n] = got[n]
        /\ \A n \in 1..C : vectors[asked + n] = more[n]
    <3>1. List(got) /\ List(more) /\ Len(got) = asked /\ Len(more) = C
      BY <1>1, <1>7
    <3> HIDE DEF C
    <3>2. /\ List(Join(got, more)) /\ Len(Join(got, more)) = Len(got) + Len(more)
          /\ \A n \in 1..Len(got) : Join(got, more)[n] = got[n]
          /\ \A n \in 1..Len(more) : Join(got, more)[Len(got) + n] = more[n]
      BY <3>1, ListJoined
    <3>3. vectors = Join(got, more)
      BY <1>7 DEF Join
    <3> QED BY <3>1, <3>2, <3>3
  <2>2. ASSUME NEW n \in 1..(asked + C) PROVE vectors[n] = right(n)
    <3>1. CASE n <= asked
      BY <1>1, <1>7, <2>1, <2>2, <3>1
    <3>2. CASE ~(n <= asked)
      <4>1. n - asked \in 1..C /\ asked + (n - asked) = n
        BY <1>1, <1>2, <2>2, <3>2
      <4>2. vectors[asked + (n - asked)] = more[n - asked]
            /\ more[n - asked] = right(asked + (n - asked))
        BY <1>7, <2>1, <4>1
      <4> QED BY <4>1, <4>2
    <3> QED BY <3>1, <3>2
  <2> QED BY <2>1, <2>2
<1>8. CASE wire = "checked"
  <2> DEFINE more == [n \in 1..C |-> Embedding(n - 1)]
  <2>1. vectors = got \o more
    BY <1>5, <1>8 DEF EveryPlaceOnce
  <2>2. more = [x \in 1..C |-> more[x]] /\ \A i \in 1..C : more[i] = right(asked + i)
    BY <1>4
  <2> HIDE DEF more
  <2>3. List(more) /\ Len(more) = C
    BY <1>2, <2>2, ListBuilt
  <2>4. /\ List(vectors) /\ Len(vectors) = asked + C
        /\ \A n \in 1..(asked + C) : vectors[n] = right(n)
    BY <1>7, <1>8, <2>1, <2>2, <2>3
  <2> QED BY <1>8, <2>4
<1>9. CASE wire \in {"counted", "single"}
  <2> DEFINE more == [n \in 1..Len(reply) |-> Embedding(reply[n])]
  <2>1. vectors = got \o more /\ Len(reply) = C
    BY <1>5, <1>9 DEF AsMany
  <2>2. \A n \in 1..C : reply[n] = n - 1
    <3>1. CASE wire = "counted"
      <4>1. PICK k \in 0..(C + 1) : reply = [i \in 1..k |-> i - 1]
        BY <1>3, <3>1 DEF Replies
      <4>2. k \in Nat /\ reply = [i \in 1..k |-> reply[i]]
        BY <1>2, <4>1
      <4>3. Len(reply) = k
        BY <4>2, ListBuilt
      <4> QED BY <2>1, <4>1, <4>3
    <3>2. CASE wire = "single"
      <4>1. reply = <<0>>
        BY <1>3, <3>2 DEF Replies
      <4>2. Len(reply) = 1 /\ reply[1] = 0
        BY <4>1
      <4> QED BY <2>1, <4>2
    <3> QED BY <1>9, <3>1, <3>2
  <2>3. more = [x \in 1..C |-> more[x]] /\ \A i \in 1..C : more[i] = Embedding(reply[i])
    BY <2>1
  <2> HIDE DEF more
  <2>4. \A i \in 1..C : more[i] = right(asked + i)
    BY <1>4, <2>2, <2>3
  <2>5. List(more) /\ Len(more) = C
    BY <1>2, <2>3, ListBuilt
  <2>6. wire # "unchecked"
    BY <1>9
  <2>7. /\ List(vectors) /\ Len(vectors) = asked + C
        /\ \A n \in 1..(asked + C) : vectors[n] = right(n)
    BY <1>7, <2>1, <2>4, <2>5, <2>6
  <2> QED BY <2>6, <2>7
<1> QED BY <1>1, <1>6, <1>8, <1>9 DEF Wires

-----------------------------------------------------------------------------
(***************************************************************************)
(* The inductive invariant.                                                *)
(***************************************************************************)
Configured == \E raw \in Settings : cfg = Config(raw)

Counted ==
  /\ phase \in Phases /\ left \in 0..MaxRequests /\ asked \in Nat
  /\ usage \in 0..TokenMax /\ billed \in Nat /\ garbled \in BOOLEAN
  /\ phase \in {"call", "store", "answered"} /\ job.req.provider \in Cloud
       => usage = Min({billed, TokenMax})

\* the request at work and what it is fetching
AtWork ==
  /\ job.req \in Requests /\ Admitted(job.req)
  /\ job.call \in Call(cfg, job.req.provider, job.req.model)
  /\ job.keys = KeysOf(job.req, job.call)
  /\ Fetches(job) /\ Fits

Fetching ==
  /\ phase \in {"call", "store"} => AtWork
  /\ phase = "call" =>
       /\ asked < Len(job.texts) /\ tries \in Nat /\ tries <= job.call.retries /\ done = 0
       /\ \A n \in 1..Len(job.missing) : job.missing[n] \notin DOMAIN cache
  /\ phase = "store" =>
       /\ asked = Len(job.texts) /\ done \in Nat /\ done < Len(job.texts)
       /\ \A n \in 1..done :
            job.missing[n] \in DOMAIN cache /\ cache[job.missing[n]] = got[n]

Deleting ==
  /\ phase \in {"delete", "deleted"} =>
       job.req \in Requests /\ job.keys = KeysOf(job.req, job.call)
  /\ phase = "delete" =>
       /\ done \in Nat /\ done < Len(job.keys)
       /\ \A n \in 1..done : job.keys[n] \notin DOMAIN cache
  /\ phase = "deleted" =>
       \A n \in 1..Len(job.keys) : job.keys[n] \notin DOMAIN cache

Inv == Configured /\ Counted /\ Fetching /\ Deleting

LEMMA NoneFetched ==
  ASSUME NEW n \in Nat, NEW v
  PROVE  /\ List(<<>>) /\ Len(<<>>) = 0
         /\ List([i \in 1..n |-> v]) /\ Len([i \in 1..n |-> v]) = n
<1> DEFINE f == [i \in 1..n |-> v]
<1>1. f = [i \in 1..n |-> f[i]]
  OBVIOUS
<1> HIDE DEF f
<1>2. List(f) /\ Len(f) = n
  BY <1>1, ListBuilt
<1>3. <<>> \in Seq({}) /\ Len(<<>>) = 0
  OBVIOUS
<1>4. List(<<>>)
  BY <1>3, ListsAre
<1> QED BY <1>2, <1>3, <1>4 DEF f

LEMMA InitKeeps == Init => Inv
<1> SUFFICES ASSUME Init PROVE Inv
  OBVIOUS
<1>1. Configured
  BY DEF Init, Configured
<1>2. /\ phase = "idle" /\ left = MaxRequests /\ asked = 0 /\ usage = 0 /\ billed = 0
      /\ garbled = FALSE
  BY DEF Init
<1>3. Counted
  <2>1. garbled \in BOOLEAN
    BY <1>2
  <2>2. phase \in Phases /\ phase \notin {"call", "store", "answered"}
    BY <1>2 DEF Phases
  <2>3. left \in 0..MaxRequests /\ asked \in Nat /\ usage \in 0..TokenMax /\ billed \in Nat
    BY <1>2, BoundsAssumption
  <2> QED BY <2>1, <2>2, <2>3 DEF Counted
<1>4. Fetching
  BY <1>2 DEF Fetching
<1>5. Deleting
  BY <1>2 DEF Deleting
<1> QED BY <1>1, <1>3, <1>4, <1>5 DEF Inv

LEMMA RestartKeeps ==
  ASSUME Inv, NEW s \in Settings, Restart(s)
  PROVE  Inv'
<1>1. /\ phase' = "idle" /\ left' = left /\ asked' = 0 /\ usage' = 0 /\ billed' = 0
      /\ garbled' = garbled /\ cfg' = Config(s)
  BY DEF Restart
<1>2. Configured'
  BY <1>1 DEF Configured
<1>3. Counted'
  BY <1>1, BoundsAssumption DEF Inv, Counted, Phases
<1>4. Fetching'
  BY <1>1 DEF Fetching
<1>5. Deleting'
  BY <1>1 DEF Deleting
<1> QED BY <1>2, <1>3, <1>4, <1>5 DEF Inv

(* A step that only ends the request.                                        *)
LEMMA EndKeeps ==
  ASSUME Inv, phase' \in {"failed", "panicked"},
         UNCHANGED <<cfg, cache, left, job, fetch, done, answer>>
  PROVE  Inv'
<1>1. /\ cfg' = cfg /\ left' = left /\ asked' = asked /\ usage' = usage /\ billed' = billed
      /\ garbled' = garbled
  BY DEF fetch
<1>2. Configured'
  BY <1>1 DEF Inv, Configured
<1>3. Counted'
  BY <1>1 DEF Inv, Counted, Phases
<1>4. Fetching'
  BY DEF Fetching
<1>5. Deleting'
  BY DEF Deleting
<1> QED BY <1>2, <1>3, <1>4, <1>5 DEF Inv

LEMMA StutterKeeps ==
  ASSUME Inv, UNCHANGED vars
  PROVE  Inv'
BY DEF Inv, Configured, Counted, Fetching, AtWork, Fits, Deleting, vars, fetch

LEMMA RetryKeeps ==
  ASSUME Inv, ChunkRetried
  PROVE  Inv'
<1>1. /\ phase = "call" /\ phase' = "call" /\ tries < job.call.retries /\ tries' = tries + 1
      /\ UNCHANGED <<cfg, cache, left, job, got, asked, usage, billed, garbled, done, answer>>
  BY DEF ChunkRetried
<1>2. Configured' /\ Counted'
  BY <1>1 DEF Inv, Configured, Counted
<1>3. AtWork'
  BY <1>1 DEF Inv, Fetching, AtWork, Fits
<1>4. job.call.retries \in Nat
  BY <1>1, CallTyped DEF Inv, Fetching, AtWork
<1>5. Fetching'
  BY <1>1, <1>3, <1>4 DEF Inv, Fetching
<1>6. Deleting'
  BY <1>1 DEF Deleting
<1> QED BY <1>2, <1>5, <1>6 DEF Inv

LEMMA ReceiveKeeps ==
  ASSUME Inv, NEW r \in Requests, Receive(r)
  PROVE  Inv'
<1>1. /\ left > 0 /\ left' = left - 1 /\ asked' = 0 /\ tries' = 0 /\ usage' = 0 /\ billed' = 0
      /\ cfg' = cfg /\ cache' = cache /\ garbled' = garbled
  BY DEF Receive
<1>2. Configured'
  BY <1>1 DEF Inv, Configured
<1>3. phase' \in Phases => Counted'
  <2>1. Min({0, TokenMax}) = 0
    BY BoundsAssumption, MinOfTwo
  <2>2. left' \in 0..MaxRequests
    BY <1>1, BoundsAssumption DEF Inv, Counted
  <2> QED BY <1>1, <2>1, <2>2, BoundsAssumption DEF Inv, Counted
<1>4. CASE phase' \notin {"call", "store", "delete", "deleted"} /\ phase' \in Phases
  <2>1. Fetching' /\ Deleting'
    BY <1>4 DEF Fetching, Deleting
  <2> QED BY <1>2, <1>3, <1>4, <2>1 DEF Inv
<1>5. CASE Refuse
  BY <1>4, <1>5 DEF Refuse, Phases
<1>6. ASSUME NEW c \in Call(cfg, r.provider, r.model), Admitted(r), Embed(r, c)
      PROVE  Inv'
  <2> DEFINE j == Job(r, c)
             N == Len(j.texts)
  <2>1. job' = j /\ done' = 0
        /\ got' = (IF c.wire = "unchecked" THEN [n \in 1..N |-> Unfilled] ELSE <<>>)
    BY <1>6 DEF Embed
  <2>2. \/ phase' = "answered"
        \/ phase' = "call" /\ j.missing # <<>>
    BY <1>6 DEF Embed
  <2>3. /\ j.req = r /\ j.call = c /\ j.keys = KeysOf(r, c) /\ Fetches(j)
        /\ \A n \in 1..Len(j.missing) : j.missing[n] \notin DOMAIN cache
    BY JobFetches
  <2> HIDE DEF j
  <2>4. /\ List(j.missing) /\ List(j.texts) /\ N = Len(j.missing) /\ N \in Nat
    BY <2>3, ListIs DEF Fetches
  <2>5. CASE phase' = "answered"
    BY <1>4, <2>5 DEF Phases
  <2>6. CASE phase' = "call" /\ j.missing # <<>>
    <3>1. N > 0
      <4>1. j.missing \in Seq(ToSet(j.missing))
        BY <2>4 DEF List
      <4>2. Len(j.missing) # 0
        BY <2>6, <4>1, EmptySeq
      <4> QED BY <2>4, <4>2
    <3>2. c.batch \in Nat /\ c.retries \in Nat /\ c.wire \in Wires
      BY CallTyped
    <3>3. List(got') /\ Len(got') = IF c.wire = "unchecked" THEN N ELSE 0
      BY <2>1, <2>4, NoneFetched
    <3> HIDE DEF N
    <3>4. Fits'
      BY <1>1, <2>1, <2>3, <2>4, <3>2, <3>3 DEF Fits, N
    <3>5. AtWork'
      BY <1>1, <1>6, <2>1, <2>3, <3>4 DEF AtWork
    <3>6. Fetching'
      BY <1>1, <2>1, <2>3, <2>4, <2>6, <3>1, <3>2, <3>5 DEF Fetching, N
    <3>7. Deleting'
      BY <2>6 DEF Deleting
    <3> QED BY <1>2, <1>3, <2>6, <3>6, <3>7 DEF Inv, Phases
  <2> QED BY <2>2, <2>5, <2>6
<1>7. ASSUME NEW c \in Call(cfg, r.provider, r.model), Delete(r, c)
      PROVE  Inv'
  <2> DEFINE keys == KeysOf(r, c)
             j == [req |-> r, call |-> c, keys |-> keys]
  <2>1. job' = j /\ done' = 0 /\ phase' = IF keys = <<>> THEN "deleted" ELSE "delete"
    BY <1>7 DEF Delete, DeleteKeys, DeleteImageKeys, KeysOf, TextKeys, ImageKeys
  <2>2. j.req = r /\ j.call = c /\ j.keys = keys
    OBVIOUS
  <2>3. List(keys)
    BY KeysAre
  <2> HIDE DEF j, keys
  <2>4. keys \in Seq(ToSet(keys)) /\ Len(keys) \in Nat
    BY <2>3, ListIs DEF List
  <2>5. IF keys = <<>> THEN Len(keys) = 0 ELSE Len(keys) > 0
    BY <2>4, EmptySeq
  <2>6. Deleting'
    <3>1. (job.req \in Requests /\ job.keys = KeysOf(job.req, job.call))'
      BY <2>1, <2>2 DEF keys
    <3> QED BY <2>1, <2>2, <2>4, <2>5, <3>1 DEF Deleting
  <2>7. Fetching'
    BY <2>1 DEF Fetching
  <2> QED BY <1>2, <1>3, <2>1, <2>6, <2>7 DEF Inv, Phases
<1> QED BY <1>5, <1>6, <1>7 DEF Receive

(* What a reply makes of the counts: the cloud driver's never wraps.         *)
LEMMA TotalIs ==
  ASSUME NEW t \in Nat, Counted, phase = "call"
  PROVE  /\ Total(usage + t) \in 0..TokenMax
         /\ job.req.provider \in Cloud => Total(usage + t) = Min({billed + t, TokenMax})
<1>1. usage \in Nat /\ usage <= TokenMax /\ billed \in Nat /\ TokenMax \in Nat
  BY BoundsAssumption DEF Counted
<1>2. CASE job.req.provider \in Cloud
  <2>1. usage = IF billed <= TokenMax THEN billed ELSE TokenMax
    BY <1>1, <1>2, MinOfTwo DEF Counted
  <2>2. Total(usage + t) = IF usage + t <= TokenMax THEN usage + t ELSE TokenMax
    <3>1. Total(usage + t) = Min({usage + t, TokenMax})
      BY <1>2 DEF Total
    <3>2. usage + t \in Nat
      BY <1>1
    <3> QED BY <1>1, <3>1, <3>2, MinOfTwo
  <2>3. Min({billed + t, TokenMax}) = IF billed + t <= TokenMax THEN billed + t ELSE TokenMax
    BY <1>1, MinOfTwo
  <2> HIDE DEF Total
  <2> QED BY <1>1, <2>1, <2>2, <2>3
<1>3. CASE job.req.provider \notin Cloud
  <2>1. Total(usage + t) = (usage + t) % (TokenMax + 1)
    BY <1>3 DEF Total
  <2>2. usage + t \in Nat /\ TokenMax + 1 \in Nat \ {0}
    BY <1>1
  <2>3. \A a \in Nat, b \in Nat \ {0} : a % b \in 0..(b - 1)
    OBVIOUS
  <2>4. (usage + t) % (TokenMax + 1) \in 0..((TokenMax + 1) - 1)
    BY <2>2, <2>3
  <2> QED BY <1>1, <1>3, <2>1, <2>4
<1> QED BY <1>2, <1>3

LEMMA AnsweredKeeps ==
  ASSUME Inv, phase = "call", NEW reply \in Replies(job.call.wire, Len(Chunk)),
         NEW t \in Reported, ChunkAnswered(reply, t)
  PROVE  Inv'
<1> DEFINE C == Len(Chunk)
           N == Len(job.texts)
<1>1. PICK vectors \in Taken(reply) :
        /\ got' = vectors
        /\ \/ asked + C < N /\ phase' = "call" /\ UNCHANGED cache
           \/ ~(asked + C < N) /\ phase' = "store"
  BY DEF ChunkAnswered
<1>2. /\ asked' = asked + C /\ tries' = 0 /\ usage' = Total(usage + t) /\ billed' = billed + t
      /\ garbled' = (garbled \/ ~Pairs(reply, C))
      /\ UNCHANGED <<cfg, left, job, done, answer>>
  BY DEF ChunkAnswered
<1>3. AtWork /\ Fits /\ done = 0
  BY DEF Inv, Fetching, AtWork
<1>4. C \in Nat /\ asked + C <= N /\ N \in Nat /\ asked \in 0..N
  BY <1>3, ChunkIs, ListIs DEF Fits
<1>5. t \in Nat
  <2>1. Reported \in {{0}, TokenCounts}
    BY DEF Reported
  <2>2. Reported \subseteq Nat
    BY <2>1, BoundsAssumption
  <2> QED BY <2>2
<1>6. /\ List(vectors)
      /\ Len(vectors) = IF job.call.wire = "unchecked" THEN N ELSE asked + C
      /\ \A n \in 1..(asked + C) :
           \/ vectors[n] = Vector(job.call, job.texts[n])
           \/ (garbled \/ ~Pairs(reply, C)) /\ job.call.wire = "unchecked"
  BY <1>3, TakenFits
<1> HIDE DEF C, N
<1>7. Configured'
  BY <1>2 DEF Inv, Configured
<1>8. Counted'
  <2>1. phase' \in Phases
    BY <1>1 DEF Phases
  <2>2. left' \in 0..MaxRequests /\ asked' \in Nat /\ billed' \in Nat
    BY <1>2, <1>4, <1>5 DEF Inv, Counted
  <2>3. garbled' \in BOOLEAN
    BY <1>2
  <2>4. usage' \in 0..TokenMax /\ (job.req.provider \in Cloud => usage' = Min({billed', TokenMax}))
    BY <1>2, <1>5, TotalIs DEF Inv
  <2> QED BY <1>2, <2>1, <2>2, <2>3, <2>4 DEF Counted
<1>9. Fits'
  <2>1. List(job'.texts) /\ job'.call.batch \in Nat /\ job'.call.wire \in Wires /\ List(got')
    BY <1>1, <1>2, <1>3, <1>6 DEF Fits
  <2>2. asked' \in 0..Len(job'.texts)
    BY <1>2, <1>4 DEF N
  <2>3. Len(got') = IF job'.call.wire = "unchecked" THEN Len(job'.texts) ELSE asked'
    BY <1>1, <1>2, <1>6 DEF N
  <2>4. \A n \in 1..asked' :
           \/ got'[n] = Vector(job'.call, job'.texts[n])
           \/ garbled' /\ job'.call.wire = "unchecked"
    BY <1>1, <1>2, <1>6
  <2> QED BY <2>1, <2>2, <2>3, <2>4 DEF Fits
<1>10. AtWork'
  BY <1>2, <1>3, <1>9 DEF AtWork
<1>11. job'.call.retries \in Nat
  BY <1>2, <1>3, CallTyped DEF AtWork
<1>12. CASE asked + C < N /\ phase' = "call" /\ UNCHANGED cache
  <2>1. Fetching'
    BY <1>2, <1>3, <1>10, <1>11, <1>12 DEF Inv, Fetching, N
  <2>2. Deleting'
    BY <1>12 DEF Deleting
  <2> QED BY <1>7, <1>8, <2>1, <2>2 DEF Inv
<1>13. CASE ~(asked + C < N) /\ phase' = "store"
  <2>1. asked' = Len(job'.texts) /\ done' = 0 /\ 0 < Len(job'.texts)
    <3>1. asked < N
      BY DEF Inv, Fetching, N
    <3> QED BY <1>2, <1>3, <1>4, <1>13, <3>1 DEF N
  <2>2. Fetching'
    BY <1>10, <1>13, <2>1 DEF Fetching
  <2>3. Deleting'
    BY <1>13 DEF Deleting
  <2> QED BY <1>7, <1>8, <2>2, <2>3 DEF Inv
<1> QED BY <1>1, <1>12, <1>13

(* Every vector fetched has a key to be stored under.                        *)
LEMMA StoredSlot ==
  ASSUME Inv, phase = "store"
  PROVE  /\ Len(job.missing) = Len(job.texts) /\ Len(got) = Len(job.texts)
         /\ Len(job.texts) \in Nat /\ done \in Nat /\ done + 1 \in 1..Len(job.texts)
         /\ asked = Len(job.texts)
<1>1. AtWork /\ asked = Len(job.texts) /\ done \in Nat /\ done < Len(job.texts)
  BY DEF Inv, Fetching
<1>2. /\ List(job.texts) /\ Len(job.missing) = Len(job.texts)
      /\ Len(got) = IF job.call.wire = "unchecked" THEN Len(job.texts) ELSE asked
  BY <1>1 DEF AtWork, Fetches, Fits
<1>3. Len(job.texts) \in Nat
  BY <1>2, ListIs
<1> QED BY <1>1, <1>2, <1>3

LEMMA StoreKeeps ==
  ASSUME Inv, StoreKey
  PROVE  Inv'
<1> DEFINE n == done + 1
           N == Len(job.texts)
           k == job.missing[n]
<1>1. /\ phase = "store" /\ cache' = Put(k, got[n]) /\ done' = n
      /\ UNCHANGED <<cfg, left, job, got, asked, tries, usage, billed, garbled>>
  BY DEF StoreKey, Step, fetch
<1>2. phase' = IF n = N THEN "answered" ELSE "store"
  BY <1>1, StoredSlot DEF StoreKey, Step
<1>3. n \in 1..N /\ N \in Nat /\ done \in Nat /\ Len(job.missing) = N /\ asked = N
  BY <1>1, StoredSlot
<1>4. AtWork /\ \A m \in 1..done : job.missing[m] \in DOMAIN cache /\ cache[job.missing[m]] = got[m]
  BY <1>1 DEF Inv, Fetching
<1>5. \A m \in 1..N : job.missing[m] = k => m = n
  BY <1>3, <1>4 DEF AtWork, Fetches
<1> HIDE DEF N, k
<1>6. /\ DOMAIN cache' = DOMAIN cache \cup {k} /\ cache'[k] = got[n]
      /\ \A x \in DOMAIN cache : x # k => cache'[x] = cache[x]
  <2> DEFINE v == got[n]
  <2>1. cache' = Put(k, v)
    BY <1>1
  <2> HIDE DEF v
  <2>2. /\ DOMAIN Put(k, v) = DOMAIN cache \cup {k} /\ Put(k, v)[k] = v
        /\ \A x \in DOMAIN cache : x # k => Put(k, v)[x] = cache[x]
    BY DEF Put
  <2> QED BY <2>1, <2>2 DEF v
<1>7. \A m \in 1..n : job.missing[m] \in DOMAIN cache' /\ cache'[job.missing[m]] = got[m]
  <2> TAKE m \in 1..n
  <2>1. CASE m = n
    BY <1>6, <2>1 DEF k
  <2>2. CASE m # n
    <3>1. m \in 1..done /\ m \in 1..N
      BY <1>3, <2>2
    <3> QED BY <1>4, <1>5, <1>6, <2>2, <3>1
  <2> QED BY <2>1, <2>2
<1> HIDE DEF n
<1>8. Configured' /\ Counted'
  BY <1>1, <1>2 DEF Inv, Configured, Counted, Phases
<1>9. AtWork'
  BY <1>1, <1>4 DEF AtWork, Fits
<1>10. Fetching'
  BY <1>1, <1>2, <1>3, <1>7, <1>9 DEF Fetching, N
<1>11. Deleting'
  BY <1>2 DEF Deleting
<1> QED BY <1>8, <1>10, <1>11 DEF Inv

LEMMA DeleteKeeps ==
  ASSUME Inv, DeleteKey
  PROVE  Inv'
<1> DEFINE n == done + 1
           N == Len(job.keys)
           k == job.keys[n]
<1>1. /\ phase = "delete" /\ DOMAIN cache' = DOMAIN cache \ {k} /\ done' = n
      /\ phase' = (IF n = N THEN "deleted" ELSE "delete")
      /\ UNCHANGED <<cfg, left, job, got, asked, tries, usage, billed, garbled>>
  BY DEF DeleteKey, Step, fetch
<1>2. /\ job.req \in Requests /\ job.keys = KeysOf(job.req, job.call) /\ done \in Nat /\ done < N
      /\ \A m \in 1..done : job.keys[m] \notin DOMAIN cache
  BY <1>1 DEF Inv, Deleting
<1>3. N \in Nat
  BY <1>2, KeysAre, ListIs
<1>4. \A m \in 1..n : job.keys[m] \notin DOMAIN cache'
  <2> TAKE m \in 1..n
  <2>1. CASE m = n
    BY <1>1, <2>1
  <2>2. CASE m # n
    <3>1. m \in 1..done
      BY <1>2, <2>2
    <3> QED BY <1>1, <1>2, <3>1
  <2> QED BY <2>1, <2>2
<1>5. n \in Nat /\ n <= N
  BY <1>2, <1>3
<1> HIDE DEF n, N, k
<1>6. Configured' /\ Counted'
  BY <1>1 DEF Inv, Configured, Counted, Phases
<1>7. Fetching'
  BY <1>1 DEF Fetching
<1>8. Deleting'
  BY <1>1, <1>2, <1>3, <1>4, <1>5 DEF Deleting, N
<1> QED BY <1>6, <1>7, <1>8 DEF Inv

LEMMA NextKeeps == Inv /\ [Next]_vars => Inv'
<1> SUFFICES ASSUME Inv, [Next]_vars PROVE Inv'
  OBVIOUS
<1>1. ASSUME NEW r \in Requests, Receive(r) PROVE Inv'
  BY <1>1, ReceiveKeeps
<1>2. ASSUME phase = "call", NEW reply \in Replies(job.call.wire, Len(Chunk)),
             NEW t \in Reported, ChunkAnswered(reply, t)
      PROVE  Inv'
  BY <1>2, AnsweredKeeps
<1>3. ASSUME NEW reply, ChunkRejected(reply) PROVE Inv'
  <2>1. /\ phase' \in {"failed", "panicked"}
        /\ UNCHANGED <<cfg, cache, left, job, fetch, done, answer>>
    BY <1>3 DEF ChunkRejected
  <2> QED BY <2>1, EndKeeps
<1>4. CASE ChunkRetried
  BY <1>4, RetryKeeps
<1>5. CASE ChunkFails
  BY <1>5, EndKeeps DEF ChunkFails
<1>6. CASE StoreKey
  BY <1>6, StoreKeeps
<1>7. CASE DeleteKey
  BY <1>7, DeleteKeeps
<1>8. CASE StoreFails
  BY <1>8, EndKeeps DEF StoreFails
<1>9. ASSUME NEW s \in Settings, Restart(s) PROVE Inv'
  BY <1>9, RestartKeeps
<1>10. CASE UNCHANGED vars
  BY <1>10, StutterKeeps
<1> QED BY <1>1, <1>2, <1>3, <1>4, <1>5, <1>6, <1>7, <1>8, <1>9, <1>10 DEF Next

(* The invariant above holds of every behaviour.                             *)
THEOREM Invariant == Spec => []Inv
BY InitKeeps, NextKeeps, PTL DEF Spec

(* Types; while a request is at work every missing key has one text and is    *)
(* sent once, and what was stored is in the cache (embed_batch).              *)
THEOREM TypeCorrect == Spec => []TypeOK
<1>1. ASSUME Inv PROVE TypeOK
  <2>1. /\ phase \in Phases /\ left \in 0..MaxRequests
        /\ usage \in 0..TokenMax /\ billed \in Nat /\ garbled \in BOOLEAN
    BY <1>1 DEF Inv, Counted
  <2>2. phase = "store" => /\ Len(got) = Len(job.texts) /\ asked = Len(got)
                           /\ done < Len(got) /\ asked <= Len(job.texts)
                           /\ \A n \in 1..done : cache[job.missing[n]] = got[n]
    <3>1. CASE phase = "store"
      <4>1. \A n \in 1..done : cache[job.missing[n]] = got[n]
        BY <1>1, <3>1 DEF Inv, Fetching
      <4>2. /\ Len(got) = Len(job.texts) /\ asked = Len(job.texts)
            /\ Len(job.texts) \in Nat /\ done \in Nat /\ done + 1 \in 1..Len(job.texts)
        BY <1>1, <3>1, StoredSlot
      <4> QED BY <4>1, <4>2
    <3> QED BY <3>1
  <2>3. phase = "call" => /\ asked < Len(job.texts) /\ tries <= job.call.retries
                          /\ asked <= Len(job.texts)
                          /\ IsInjective(job.missing)
                          /\ ToSet(job.missing) \cap DOMAIN cache = {}
    <3>1. CASE phase = "call"
      <4>1. /\ AtWork /\ asked < Len(job.texts) /\ tries <= job.call.retries
            /\ \A n \in 1..Len(job.missing) : job.missing[n] \notin DOMAIN cache
        BY <1>1, <3>1 DEF Inv, Fetching
      <4>2. /\ List(job.missing) /\ asked \in 0..Len(job.texts)
            /\ \A m, n \in 1..Len(job.missing) : job.missing[m] = job.missing[n] => m = n
        BY <4>1 DEF AtWork, Fetches, Fits
      <4>3. DOMAIN job.missing = 1..Len(job.missing)
        BY <4>2, ListIs
      <4>4. IsInjective(job.missing)
        BY <4>2, <4>3 DEF IsInjective
      <4>5. ToSet(job.missing) \cap DOMAIN cache = {}
        BY <4>1, <4>3 DEF ToSet
      <4>6. asked <= Len(job.texts)
        BY <4>2
      <4> QED BY <4>1, <4>4, <4>5, <4>6
    <3> QED BY <3>1
  <2>4. phase = "delete" => \A n \in 1..done : job.keys[n] \notin DOMAIN cache
    BY <1>1 DEF Inv, Deleting
  <2> QED BY <2>1, <2>2, <2>3, <2>4 DEF TypeOK
<1> QED BY <1>1, Invariant, PTL

(* What delete_batch derives for itself and evicts is what embed_batch would  *)
(* look up: after a DELETE nothing of it is left to hit.                       *)
THEOREM DeletedIsGone == Spec => []DeleteEvictsWhatPostHits
<1>1. ASSUME Inv PROVE DeleteEvictsWhatPostHits
  <2> SUFFICES ASSUME phase = "deleted"
               PROVE  ToSet(KeysOf(job.req, job.call)) \cap DOMAIN cache = {}
    BY DEF DeleteEvictsWhatPostHits
  <2>1. /\ job.req \in Requests /\ job.keys = KeysOf(job.req, job.call)
        /\ \A n \in 1..Len(job.keys) : job.keys[n] \notin DOMAIN cache
    BY <1>1 DEF Inv, Deleting
  <2>2. DOMAIN job.keys = 1..Len(job.keys)
    BY <2>1, KeysAre, ListIs
  <2> QED BY <2>1, <2>2 DEF ToSet
<1> QED BY <1>1, Invariant, PTL

(* The usage of a cloud provider's answer is what was billed, or the counter's *)
(* largest value: the driver's sums never wrap.                                *)
THEOREM UsageSaturates == Spec => []UsageNeverUnderstated
<1>1. ASSUME Inv PROVE UsageNeverUnderstated
  BY <1>1 DEF Inv, Counted, UsageNeverUnderstated
<1> QED BY <1>1, Invariant, PTL

-----------------------------------------------------------------------------
(***************************************************************************)
(* Keys that are equal are of requests that mean the same.  The separators *)
(* of a key keep its parts apart only as long as no part holds one.        *)
(***************************************************************************)
NoNul ==
  \A r \in Requests :
    /\ r.model \in Seq(STRING \ {NUL})
    /\ \A i \in 1..Len(Items(r)) : Items(r)[i] \in Seq(STRING \ {NUL})

LEMMA NoNulIsClean ==
  ASSUME NoNul, NEW r \in Requests
  PROVE  /\ r.model \in Seq(Clean)
         /\ \A i \in 1..Len(Items(r)) : Items(r)[i] \in Seq(Clean) /\ Items(r)[i] \in Seq(Token)
<1>1. STRING \ {NUL} \subseteq Clean /\ Clean \subseteq Token
  BY DEF Clean, Token
<1>2. Seq(STRING \ {NUL}) \subseteq Seq(Clean) /\ Seq(Clean) \subseteq Seq(Token)
  BY <1>1, SeqMonotonic
<1> QED BY <1>2 DEF NoNul

PartsOf(r, c) == [owner |-> r.owner, provider |-> r.provider, scope |-> c.scope, model |-> r.model]

LEMMA PartsOfIs ==
  ASSUME NoNul, NEW raw \in Settings, NEW r \in Requests,
         NEW c \in Call(Config(raw), r.provider, r.model)
  PROVE  LET k == PartsOf(r, c) IN
         /\ k \in Parts /\ Prefix(r, c) = PrefixOf(k) /\ k.provider = r.provider
         /\ k.scope = c.scope /\ k.model = r.model
         /\ r.provider = "gemini" => k.scope \in Seq(Clean)
<1>1. r.model \in Seq(Clean) /\ r.owner \in Token /\ r.provider \in Token
  BY NoNulIsClean, RequestTyped
<1>2. c.scope \in Seq(Token) /\ (r.provider = "gemini" => c.scope \in Seq(Clean))
  BY <1>1, ScopeTyped
<1>3. PartsOf(r, c) \in Parts
  BY <1>1, <1>2 DEF PartsOf, Parts
<1>4. Prefix(r, c) = PrefixOf(PartsOf(r, c))
  BY DEF Prefix, PrefixOf, PartsOf
<1>5. /\ PartsOf(r, c).provider = r.provider /\ PartsOf(r, c).scope = c.scope
      /\ PartsOf(r, c).model = r.model
  BY DEF PartsOf
<1> QED BY <1>2, <1>3, <1>4, <1>5

LEMMA ImageIs ==
  ASSUME NEW t \in Seq(Clean), DataUri(t) # {}
  PROVE  /\ Len(t) >= 3 /\ t[1] = "data:" /\ t[3] = ";base64,"
         /\ Image(t).mime = t[2] /\ Image(t).data = SubSeq(t, 4, Len(t))
         /\ Image(t).mime \in Token /\ Image(t).data \in Seq(Clean)
<1> DEFINE image == [mime |-> t[2], data |-> SubSeq(t, 4, Len(t))]
<1>1. /\ Len(t) >= 3 /\ t[1] = "data:" /\ t[3] = ";base64," /\ DataUri(t) = {image}
  BY DEF DataUri
<1>2. image.mime = t[2] /\ image.data = SubSeq(t, 4, Len(t))
  OBVIOUS
<1> HIDE DEF image
<1>3. Image(t) = image
  BY <1>1 DEF Image
<1>4. t[2] \in Clean /\ t[2] \in Token
  <2>1. 2 \in 1..Len(t)
    <3>1. Len(t) \in Nat
      BY ListsAre
    <3>2. Len(t) >= 3
      BY <1>1
    <3> QED BY <3>1, <3>2
  <2> QED BY <2>1, SpaceIsClean, ElementOfSeq
<1>5. SubSeq(t, 4, Len(t)) \in Seq(Clean)
  BY SubSeqTyped
<1> QED BY <1>1, <1>2, <1>3, <1>4, <1>5

LEMMA RestIs ==
  ASSUME NEW t \in Seq(Clean), Len(t) >= 3
  PROVE  /\ Len(t) \in Nat /\ Len(SubSeq(t, 4, Len(t))) = Len(t) - 3
         /\ \A i \in 1..(Len(t) - 3) : SubSeq(t, 4, Len(t))[i] = t[3 + i]
<1> DEFINE m == 3
           n == Len(t)
<1>1. List(t) /\ m \in Nat /\ n \in Nat /\ m <= n /\ n <= Len(t) /\ m + 1 = 4
  BY ListsAre
<1> HIDE DEF m, n
<1>2. /\ Len(SubSeq(t, m + 1, n)) = n - m
      /\ \A i \in 1..(n - m) : SubSeq(t, m + 1, n)[i] = t[m + i]
  BY <1>1, ListCut
<1> QED BY <1>1, <1>2 DEF m, n

LEMMA ImagesTold ==
  ASSUME NEW t \in Seq(Clean), NEW u \in Seq(Clean), DataUri(t) # {}, DataUri(u) # {},
         Image(t).mime = Image(u).mime, Image(t).data = Image(u).data
  PROVE  t = u
<1>1. /\ Len(t) >= 3 /\ t[1] = "data:" /\ t[3] = ";base64,"
      /\ Image(t).mime = t[2] /\ Image(t).data = SubSeq(t, 4, Len(t))
  BY ImageIs
<1>2. /\ Len(u) >= 3 /\ u[1] = "data:" /\ u[3] = ";base64,"
      /\ Image(u).mime = u[2] /\ Image(u).data = SubSeq(u, 4, Len(u))
  BY ImageIs
<1> DEFINE x == SubSeq(t, 4, Len(t))
           y == SubSeq(u, 4, Len(u))
<1>3. /\ Len(t) \in Nat /\ Len(x) = Len(t) - 3 /\ \A i \in 1..(Len(t) - 3) : x[i] = t[3 + i]
      /\ Len(u) \in Nat /\ Len(y) = Len(u) - 3 /\ \A i \in 1..(Len(u) - 3) : y[i] = u[3 + i]
  BY <1>1, <1>2, RestIs
<1>4. x = y
  BY <1>1, <1>2
<1> HIDE DEF x, y
<1>5. Len(t) = Len(u)
  BY <1>3, <1>4
<1>6. ASSUME NEW n \in 1..Len(t) PROVE t[n] = u[n]
  <2>1. CASE n \in {1, 2, 3}
    BY <1>1, <1>2, <2>1
  <2>2. CASE n \notin {1, 2, 3}
    <3>1. n - 3 \in 1..(Len(t) - 3) /\ 3 + (n - 3) = n
      BY <1>3, <2>2
    <3>2. t[3 + (n - 3)] = u[3 + (n - 3)]
      BY <1>3, <1>4, <1>5, <3>1
    <3> QED BY <3>1, <3>2
  <2> QED BY <2>1, <2>2
<1> QED BY <1>5, <1>6, SeqEqual

SameMeaning(kind, t, u) == IF kind = "image" THEN t = u ELSE Canonical(t) = Canonical(u)

(* Two admitted inputs with one cache key, text or image, under any settings,  *)
(* ask the same of the same upstream and mean the same (CacheKey::derive,      *)
(* derive_image).                                                              *)
THEOREM KeysTellApart ==
  ASSUME NoNul, NEW raw \in Settings, NEW raw2 \in Settings, NEW r \in Requests,
         NEW q \in Requests, NEW c \in Call(Config(raw), r.provider, r.model),
         NEW d \in Call(Config(raw2), q.provider, q.model), Admitted(r), Admitted(q),
         NEW i \in 1..Len(Items(r)), NEW o \in 1..Len(Items(q)),
         KeysOf(r, c)[i] = KeysOf(q, d)[o]
  PROVE  c = d /\ r.kind = q.kind /\ SameMeaning(r.kind, Items(r)[i], Items(q)[o])
<1> DEFINE k == PartsOf(r, c)
           l == PartsOf(q, d)
           t == Items(r)[i]
           u == Items(q)[o]
<1>1. /\ k \in Parts /\ Prefix(r, c) = PrefixOf(k) /\ k.provider = r.provider
      /\ k.scope = c.scope /\ k.model = r.model
      /\ r.provider = "gemini" => k.scope \in Seq(Clean)
  BY PartsOfIs
<1>2. /\ l \in Parts /\ Prefix(q, d) = PrefixOf(l) /\ l.provider = q.provider
      /\ l.scope = d.scope /\ l.model = q.model
      /\ q.provider = "gemini" => l.scope \in Seq(Clean)
  BY PartsOfIs
<1>3. t \in Seq(Clean) /\ u \in Seq(Clean) /\ r.model \in Seq(Clean)
  BY NoNulIsClean
<1>4. Canonical(t) \in Seq(Clean) /\ Canonical(u) \in Seq(Clean)
  BY <1>3, SpaceIsClean, FoldedTyped, CanonicalTyped
<1>5. /\ r.kind \in {"text", "image"} /\ q.kind \in {"text", "image"}
      /\ r.kind = "image" => r.provider = "gemini" /\ DataUri(t) # {}
      /\ q.kind = "image" => q.provider = "gemini" /\ DataUri(u) # {}
  BY RequestTyped DEF Admitted
<1>6. r.kind # "image" => KeysOf(r, c)[i] = TextKey(PrefixOf(k), Canonical(t))
  BY <1>1, KeysAre
<1>7. q.kind # "image" => KeysOf(q, d)[o] = TextKey(PrefixOf(l), Canonical(u))
  BY <1>2, KeysAre
<1>8. r.kind = "image" => KeysOf(r, c)[i] = ImageKey(PrefixOf(k), Image(t).mime, Image(t).data)
  BY <1>1, KeysAre
<1>9. q.kind = "image" => KeysOf(q, d)[o] = ImageKey(PrefixOf(l), Image(u).mime, Image(u).data)
  BY <1>2, KeysAre
<1> HIDE DEF k, l, t, u
<1>10. ASSUME k.provider = l.provider, k.scope = l.scope, k.model = l.model
       PROVE  c = d
  <2>1. q.provider = r.provider /\ q.model = r.model /\ c.scope = d.scope
    BY <1>1, <1>2, <1>10
  <2>2. d \in Call(Config(raw2), r.provider, r.model)
    BY <2>1
  <2> QED BY <1>3, <2>1, <2>2, ScopeTellsTheCall
<1>11. CASE r.kind # "image" /\ q.kind # "image"
  <2>1. TextKey(PrefixOf(k), Canonical(t)) = TextKey(PrefixOf(l), Canonical(u))
    BY <1>6, <1>7, <1>11
  <2>2. /\ k.provider = l.provider /\ k.scope = l.scope /\ k.model = l.model
        /\ Canonical(t) = Canonical(u)
    BY <1>1, <1>2, <1>4, <2>1, TextKeysTell
  <2> QED BY <1>5, <1>10, <1>11, <2>2 DEF SameMeaning, t, u
<1>12. CASE r.kind = "image" /\ q.kind = "image"
  <2>1. /\ Image(t).mime \in Token /\ Image(t).data \in Seq(Clean)
        /\ Image(u).mime \in Token /\ Image(u).data \in Seq(Clean)
    BY <1>3, <1>5, <1>12, ImageIs
  <2>2. ImageKey(PrefixOf(k), Image(t).mime, Image(t).data)
          = ImageKey(PrefixOf(l), Image(u).mime, Image(u).data)
    BY <1>8, <1>9, <1>12
  <2>3. /\ k.provider = l.provider /\ k.scope = l.scope /\ k.model = l.model
        /\ Image(t).mime = Image(u).mime /\ Image(t).data = Image(u).data
    BY <1>1, <1>2, <2>1, <2>2, ImageKeysTell
  <2>4. t = u
    BY <1>3, <1>5, <1>12, <2>3, ImagesTold
  <2> QED BY <1>10, <1>12, <2>3, <2>4 DEF SameMeaning, t, u
<1>13. CASE r.kind # "image" /\ q.kind = "image"
  <2>1. Image(u).mime \in Token /\ Image(u).data \in Seq(Clean)
    BY <1>3, <1>5, <1>13, ImageIs
  <2>2. k.provider = l.provider => k.scope \in Seq(Clean)
    BY <1>1, <1>2, <1>5, <1>13
  <2>3. TextKey(PrefixOf(k), Canonical(t)) # ImageKey(PrefixOf(l), Image(u).mime, Image(u).data)
    BY <1>1, <1>2, <1>4, <2>1, <2>2, KindsApart
  <2> QED BY <1>6, <1>9, <1>13, <2>3
<1>14. CASE r.kind = "image" /\ q.kind # "image"
  <2>1. Image(t).mime \in Token /\ Image(t).data \in Seq(Clean)
    BY <1>3, <1>5, <1>14, ImageIs
  <2>2. l.provider = k.provider => l.scope \in Seq(Clean)
    BY <1>1, <1>2, <1>5, <1>14
  <2>3. TextKey(PrefixOf(l), Canonical(u)) # ImageKey(PrefixOf(k), Image(t).mime, Image(t).data)
    BY <1>1, <1>2, <1>4, <2>1, <2>2, KindsApart
  <2> QED BY <1>7, <1>8, <1>14, <2>3
<1> QED BY <1>11, <1>12, <1>13, <1>14

-----------------------------------------------------------------------------
(***************************************************************************)
(* What vectors tell.                                                      *)
(***************************************************************************)
\* v tells what item asks of c, or a reply was taken that paired nothing
Right(v, c, kind, item, g) == Tells(v, kind, c, item) \/ (g /\ c.wire = "unchecked")

\* v is what some request under some settings stored under the key k
Stored(k, v, g) ==
  \E raw \in Settings, q \in Requests :
    \E c \in Call(Config(raw), q.provider, q.model), o \in 1..Len(Items(q)) :
      Admitted(q) /\ k = KeysOf(q, c)[o] /\ Right(v, c, q.kind, Items(q)[o], g)

Known(j, raw) ==
  /\ j.req \in Requests /\ Admitted(j.req)
  /\ j.call \in Call(Config(raw), j.req.provider, j.req.model)
  /\ j.keys = KeysOf(j.req, j.call) /\ Fetches(j)

LEMMA StillRight ==
  ASSUME NEW g, NEW h, g => h
  PROVE  /\ \A v, c, kind, item : Right(v, c, kind, item, g) => Right(v, c, kind, item, h)
         /\ \A k, v : Stored(k, v, g) => Stored(k, v, h)
<1>1. \A v, c, kind, item : Right(v, c, kind, item, g) => Right(v, c, kind, item, h)
  BY DEF Right
<1>2. ASSUME NEW k, NEW v, Stored(k, v, g) PROVE Stored(k, v, h)
  BY <1>1, <1>2 DEF Stored
<1> QED BY <1>1, <1>2

LEMMA SameTells ==
  ASSUME NEW v, NEW c, NEW kind, NEW t, NEW u, NEW g, Right(v, c, kind, t, g),
         SameMeaning(kind, u, t)
  PROVE  Right(v, c, kind, u, g)
BY DEF Right, Tells, SameMeaning

(* Whoever stored a vector under the key of an input, it is the input's.     *)
LEMMA StoredTells ==
  ASSUME NoNul, NEW raw \in Settings, NEW r \in Requests, Admitted(r),
         NEW c \in Call(Config(raw), r.provider, r.model), NEW i \in 1..Len(Items(r)),
         NEW k, k = KeysOf(r, c)[i], NEW v, NEW g, Stored(k, v, g)
  PROVE  Right(v, c, r.kind, Items(r)[i], g)
<1>1. PICK raw2 \in Settings, q \in Requests :
        \E d \in Call(Config(raw2), q.provider, q.model), o \in 1..Len(Items(q)) :
          Admitted(q) /\ k = KeysOf(q, d)[o] /\ Right(v, d, q.kind, Items(q)[o], g)
  BY DEF Stored
<1>2. PICK d \in Call(Config(raw2), q.provider, q.model), o \in 1..Len(Items(q)) :
        Admitted(q) /\ k = KeysOf(q, d)[o] /\ Right(v, d, q.kind, Items(q)[o], g)
  BY <1>1
<1>3. c = d /\ r.kind = q.kind /\ SameMeaning(r.kind, Items(r)[i], Items(q)[o])
  <2>1. KeysOf(r, c)[i] = KeysOf(q, d)[o] /\ Admitted(q)
    BY <1>2
  <2> QED BY <2>1, KeysTellApart
<1> QED BY <1>2, <1>3, SameTells

LEMMA FetchedTells ==
  ASSUME NoNul, NEW raw \in Settings, NEW j, Known(j, raw), NEW n \in 1..Len(j.missing),
         NEW i \in 1..Len(Items(j.req)), j.keys[i] = j.missing[n], NEW g, NEW v,
         v = Vector(j.call, j.texts[n]) \/ (g /\ j.call.wire = "unchecked")
  PROVE  Right(v, j.call, j.req.kind, Items(j.req)[i], g)
<1> DEFINE r == j.req
           c == j.call
<1>1. r \in Requests /\ Admitted(r) /\ c \in Call(Config(raw), r.provider, r.model)
      /\ j.keys = KeysOf(r, c)
  BY DEF Known
<1>2. PICK o \in 1..Len(Items(r)) :
        j.missing[n] = j.keys[o] /\ j.texts[n] = Asked(r, Items(r)[o])
  BY DEF Known, Fetches
<1>3. KeysOf(r, c)[i] = KeysOf(r, c)[o]
  BY <1>1, <1>2
<1>4. SameMeaning(r.kind, Items(r)[i], Items(r)[o])
  BY <1>1, <1>3, KeysTellApart
<1>5. Items(r)[o] \in Seq(Token)
  BY <1>1, NoNulIsClean
<1> HIDE DEF r, c
<1>6. ASSUME v = Vector(c, j.texts[n]) PROVE Tells(v, r.kind, c, Items(r)[o])
  <2>1. v.url = c.url /\ v.model = c.model /\ v.qual = c.qual /\ v.of = Asked(r, Items(r)[o])
    BY <1>2, <1>6 DEF Vector
  <2>2. Canonical(Normalized(Items(r)[o])) = Canonical(Items(r)[o])
    BY <1>5, AskedMeansTheSame
  <2> QED BY <2>1, <2>2 DEF Tells, Asked
<1>7. Right(v, c, r.kind, Items(r)[o], g)
  BY <1>6 DEF Right, c
<1> QED BY <1>4, <1>7, SameTells DEF r, c

LEMMA FetchedStored ==
  ASSUME NoNul, NEW raw \in Settings, NEW j, Known(j, raw), NEW n \in 1..Len(j.missing),
         NEW g, NEW v, v = Vector(j.call, j.texts[n]) \/ (g /\ j.call.wire = "unchecked"),
         NEW k, k = j.missing[n]
  PROVE  Stored(k, v, g)
<1>1. PICK o \in 1..Len(Items(j.req)) : j.missing[n] = j.keys[o]
  BY DEF Known, Fetches
<1>2. Right(v, j.call, j.req.kind, Items(j.req)[o], g)
  BY <1>1, FetchedTells
<1> QED BY <1>1, <1>2 DEF Known, Stored

LEMMA FirstIs ==
  ASSUME NEW s, List(s), NEW k, \E n \in 1..Len(s) : s[n] = k
  PROVE  LET n == SelectInSeq(s, LAMBDA x : x = k) IN n \in 1..Len(s) /\ s[n] = k
<1> DEFINE I == {n \in 1..Len(s) : s[n] = k}
           m == SelectInSeq(s, LAMBDA x : x = k)
<1>1. m = IF I # {} THEN Min(I) ELSE 0
  BY DEF SelectInSeq
<1>2. I # {} /\ I \subseteq Nat /\ \A n \in I : n \in 1..Len(s) /\ s[n] = k
  OBVIOUS
<1> HIDE DEF I, m
<1>3. m \in I
  BY <1>1, <1>2, MinOf
<1>4. m \in 1..Len(s) /\ s[m] = k
  BY <1>2, <1>3
<1> QED BY <1>4 DEF m

(* Hits and fetched vectors are put where they belong.                       *)
LEMMA ResultsTell ==
  ASSUME NoNul, NEW raw \in Settings, NEW j, Known(j, raw), NEW vectors, NEW g,
         \A n \in 1..Len(j.missing) :
           vectors[n] = Vector(j.call, j.texts[n]) \/ (g /\ j.call.wire = "unchecked"),
         \A i \in 1..Len(Items(j.req)) : \A v \in j.hits[i] :
           Right(v, j.call, j.req.kind, Items(j.req)[i], g)
  PROVE  /\ Len(Results(j, vectors)) = Len(Items(j.req))
         /\ \A i \in 1..Len(Items(j.req)) :
              Right(Results(j, vectors)[i], j.call, j.req.kind, Items(j.req)[i], g)
<1> DEFINE N == Len(Items(j.req))
           at(i) == SelectInSeq(j.missing, LAMBDA k : k = j.keys[i])
           f == Results(j, vectors)
<1>1. Len(j.keys) = N /\ N \in Nat /\ List(j.missing)
  BY KeysAre, RequestTyped DEF Known, Fetches
<1>2. f = [i \in 1..N |-> IF j.hits[i] # {} THEN CHOOSE v \in j.hits[i] : TRUE ELSE vectors[at(i)]]
  BY <1>1 DEF Results
<1>3. Len(f) = N
  <2>1. f = [i \in 1..N |-> f[i]]
    BY <1>2
  <2> HIDE DEF f, N
  <2> QED BY <1>1, <2>1, ListBuilt
<1>4. ASSUME NEW i \in 1..N PROVE Right(f[i], j.call, j.req.kind, Items(j.req)[i], g)
  <2>1. CASE j.hits[i] # {}
    <3>1. f[i] \in j.hits[i]
      BY <1>2, <2>1
    <3> QED BY <3>1
  <2>2. CASE j.hits[i] = {}
    <3>1. f[i] = vectors[at(i)]
      BY <1>2, <2>2
    <3>2. \E n \in 1..Len(j.missing) : j.missing[n] = j.keys[i]
      BY <2>2 DEF Known, Fetches
    <3>3. at(i) \in 1..Len(j.missing) /\ j.missing[at(i)] = j.keys[i]
      BY <1>1, <3>2, FirstIs
    <3> DEFINE n == at(i)
    <3>4. /\ n \in 1..Len(j.missing) /\ j.missing[n] = j.keys[i] /\ f[i] = vectors[n]
          /\ vectors[n] = Vector(j.call, j.texts[n]) \/ (g /\ j.call.wire = "unchecked")
      BY <3>1, <3>3
    <3> HIDE DEF n, f
    <3> QED BY <3>4, FetchedTells
  <2> QED BY <2>1, <2>2
<1> QED BY <1>3, <1>4

-----------------------------------------------------------------------------
(* The invariant behind the answers: every vector in the cache was stored    *)
(* for a request that it tells the truth to.                                 *)
CacheTells == \A k \in DOMAIN cache : Stored(k, cache[k], garbled)

HitsTell ==
  phase \in {"call", "store"} =>
    \A i \in 1..Len(Items(job.req)) : \A v \in job.hits[i] :
      Right(v, job.call, job.req.kind, Items(job.req)[i], garbled)

Telling == CacheTells /\ HitsTell /\ AnswersTellTheirInputs

LEMMA KnownAtWork ==
  ASSUME Inv, phase \in {"call", "store"}
  PROVE  \E raw \in Settings : Known(job, raw)
<1>1. PICK raw \in Settings : cfg = Config(raw)
  BY DEF Inv, Configured
<1>2. AtWork
  BY DEF Inv, Fetching
<1> QED BY <1>1, <1>2 DEF AtWork, Known

LEMMA ReceiveTells ==
  ASSUME NoNul, Inv, Telling, NEW r \in Requests, Receive(r)
  PROVE  Telling'
<1>1. cache' = cache /\ garbled' = garbled /\ cfg' = cfg
  BY DEF Receive
<1>2. CacheTells'
  BY <1>1 DEF Telling, CacheTells
<1>3. CASE phase' \notin {"call", "store", "answered"}
  BY <1>2, <1>3 DEF Telling, HitsTell, AnswersTellTheirInputs
<1>4. ASSUME NEW c \in Call(cfg, r.provider, r.model), Admitted(r), Embed(r, c)
      PROVE  Telling'
  <2>1. PICK raw \in Settings : cfg = Config(raw)
    BY DEF Inv, Configured
  <2> DEFINE j == Job(r, c)
  <2>2. /\ job' = j
        /\ \/ j.missing = <<>> /\ phase' = "answered" /\ answer' = Results(j, <<>>)
           \/ phase' = "call"
    BY <1>4 DEF Embed
  <2>3. /\ j.req = r /\ j.call = c /\ j.keys = KeysOf(r, c) /\ Fetches(j)
        /\ \A i \in 1..Len(Items(r)) : \A v \in j.hits[i] :
             j.keys[i] \in DOMAIN cache /\ v = cache[j.keys[i]]
    BY JobFetches
  <2> HIDE DEF j
  <2>4. Known(j, raw)
    BY <1>4, <2>1, <2>3 DEF Known
  <2>5. ASSUME NEW i \in 1..Len(Items(r)), NEW v \in j.hits[i]
        PROVE  Right(v, c, r.kind, Items(r)[i], garbled)
    <3> DEFINE k == j.keys[i]
    <3>1. k = KeysOf(r, c)[i] /\ Stored(k, v, garbled)
      BY <2>3, <2>5 DEF Telling, CacheTells
    <3> HIDE DEF k
    <3> QED BY <1>4, <2>1, <3>1, StoredTells
  <2>6. HitsTell'
    BY <1>1, <2>2, <2>3, <2>5 DEF HitsTell
  <2>7. AnswersTellTheirInputs'
    <3>1. CASE phase' = "call"
      BY <3>1 DEF AnswersTellTheirInputs
    <3>2. CASE j.missing = <<>> /\ answer' = Results(j, <<>>)
      <4>1. 1..Len(j.missing) = {}
        BY <3>2
      <4>2. /\ Len(Results(j, <<>>)) = Len(Items(r))
            /\ \A i \in 1..Len(Items(r)) :
                 Right(Results(j, <<>>)[i], c, r.kind, Items(r)[i], garbled)
        BY <2>3, <2>4, <2>5, <4>1, ResultsTell
      <4> QED BY <1>1, <2>2, <2>3, <3>2, <4>2 DEF AnswersTellTheirInputs, Right
    <3> QED BY <2>2, <3>1, <3>2
  <2> QED BY <1>2, <2>6, <2>7 DEF Telling
<1>5. CASE Refuse
  BY <1>3, <1>5 DEF Refuse
<1>6. ASSUME NEW c, Delete(r, c) PROVE Telling'
  BY <1>3, <1>6 DEF Delete
<1> QED BY <1>4, <1>5, <1>6 DEF Receive

LEMMA ReplyTells ==
  ASSUME NoNul, Inv, Inv', Telling, phase = "call", NEW reply, NEW t, ChunkAnswered(reply, t)
  PROVE  Telling'
<1>1. job' = job /\ (garbled => garbled') /\ phase' \in {"call", "store"}
  BY DEF ChunkAnswered
<1>2. \/ cache' = cache
      \/ /\ Len(job.texts) = 1 /\ phase' = "store"
         /\ cache' = Put(job.missing[1], got'[1])
  BY DEF ChunkAnswered
<1>3. \A k \in DOMAIN cache : Stored(k, cache[k], garbled')
  BY <1>1, StillRight DEF Telling, CacheTells
<1>4. CacheTells'
  <2>1. CASE cache' = cache
    BY <1>3, <2>1 DEF CacheTells
  <2>2. CASE /\ Len(job.texts) = 1 /\ phase' = "store"
             /\ cache' = Put(job.missing[1], got'[1])
    <3>1. PICK raw \in Settings : Known(job, raw)
      BY KnownAtWork
    <3>2. /\ 1 \in 1..Len(job.missing)
          /\ \/ got'[1] = Vector(job.call, job.texts[1])
             \/ garbled' /\ job.call.wire = "unchecked"
      <4>1. Fits' /\ asked' = Len(job'.texts) /\ Fetches(job)
        BY <2>2, <3>1 DEF Inv, Fetching, AtWork, Known
      <4>2. 1 \in 1..asked' /\ Len(job.missing) = 1
        BY <1>1, <2>2, <4>1 DEF Fetches
      <4> QED BY <1>1, <4>1, <4>2 DEF Fits
    <3> DEFINE k == job.missing[1]
               v == got'[1]
    <3>3. Stored(k, v, garbled')
      BY <3>1, <3>2, FetchedStored
    <3>4. cache' = [x \in DOMAIN cache \cup {k} |-> IF x = k THEN v ELSE cache[x]]
      BY <2>2 DEF Put
    <3> HIDE DEF k, v
    <3> QED BY <1>3, <3>3, <3>4 DEF CacheTells
  <2> QED BY <1>2, <2>1, <2>2
<1>5. HitsTell'
  <2>1. ASSUME NEW i \in 1..Len(Items(job.req)), NEW v \in job.hits[i]
        PROVE  Right(v, job.call, job.req.kind, Items(job.req)[i], garbled')
    <3>1. Right(v, job.call, job.req.kind, Items(job.req)[i], garbled)
      BY DEF Telling, HitsTell
    <3> QED BY <1>1, <3>1, StillRight
  <2> QED BY <1>1, <2>1 DEF HitsTell
<1>6. AnswersTellTheirInputs'
  BY <1>1 DEF AnswersTellTheirInputs
<1> QED BY <1>4, <1>5, <1>6 DEF Telling

LEMMA StoreTells ==
  ASSUME NoNul, Inv, Telling, StoreKey
  PROVE  Telling'
<1>1. /\ phase = "store" /\ job' = job /\ garbled' = garbled
      /\ cache' = Put(job.missing[done + 1], got[done + 1])
  BY DEF StoreKey, fetch
<1>2. \/ phase' = "answered" /\ answer' = Results(job, got)
      \/ phase' = "store"
  BY <1>1 DEF StoreKey, Step
<1>3. PICK raw \in Settings : Known(job, raw)
  BY <1>1, KnownAtWork
<1>4. /\ done + 1 \in 1..Len(job.missing)
      /\ \A n \in 1..Len(job.missing) :
           got[n] = Vector(job.call, job.texts[n]) \/ (garbled /\ job.call.wire = "unchecked")
  <2>1. Fits
    BY <1>1 DEF Inv, Fetching, AtWork
  <2>2. Len(job.missing) = asked /\ done + 1 \in 1..Len(job.missing)
    BY <1>1, StoredSlot
  <2> QED BY <2>1, <2>2 DEF Fits
<1>5. CacheTells'
  <2> DEFINE n == done + 1
             k == job.missing[n]
             v == got[n]
  <2>1. cache' = [x \in DOMAIN cache \cup {k} |-> IF x = k THEN v ELSE cache[x]]
    BY <1>1 DEF Put
  <2>2. /\ n \in 1..Len(job.missing) /\ k = job.missing[n]
        /\ v = Vector(job.call, job.texts[n]) \/ (garbled /\ job.call.wire = "unchecked")
    BY <1>4
  <2> HIDE DEF n, k, v
  <2>3. Stored(k, v, garbled)
    BY <1>3, <2>2, FetchedStored
  <2> QED BY <1>1, <2>1, <2>3 DEF Telling, CacheTells
<1>6. HitsTell'
  BY <1>1, <1>2 DEF Telling, HitsTell
<1>7. AnswersTellTheirInputs'
  <2>1. \A i \in 1..Len(Items(job.req)) : \A v \in job.hits[i] :
          Right(v, job.call, job.req.kind, Items(job.req)[i], garbled)
    BY <1>1 DEF Telling, HitsTell
  <2>2. /\ Len(Results(job, got)) = Len(Items(job.req))
        /\ \A i \in 1..Len(Items(job.req)) :
             Right(Results(job, got)[i], job.call, job.req.kind, Items(job.req)[i], garbled)
    BY <1>3, <1>4, <2>1, ResultsTell
  <2>3. CASE phase' = "store"
    BY <2>3 DEF AnswersTellTheirInputs
  <2>4. CASE phase' = "answered" /\ answer' = Results(job, got)
    BY <1>1, <2>2, <2>4 DEF AnswersTellTheirInputs, Right
  <2> QED BY <1>2, <2>3, <2>4
<1> QED BY <1>5, <1>6, <1>7 DEF Telling

(* The steps that store and answer nothing.                                  *)
LEMMA OtherTells ==
  ASSUME Telling, garbled' = garbled, phase' # "answered",
         \A k \in DOMAIN cache' : k \in DOMAIN cache /\ cache'[k] = cache[k],
         phase' \in {"call", "store"} => phase \in {"call", "store"} /\ job' = job
  PROVE  Telling'
<1>1. CacheTells'
  BY DEF Telling, CacheTells
<1>2. HitsTell'
  BY DEF Telling, HitsTell
<1>3. AnswersTellTheirInputs'
  BY DEF AnswersTellTheirInputs
<1> QED BY <1>1, <1>2, <1>3 DEF Telling

LEMMA NextTells == NoNul /\ Inv /\ Inv' /\ Telling /\ [Next]_vars => Telling'
<1> SUFFICES ASSUME NoNul, Inv, Inv', Telling, [Next]_vars PROVE Telling'
  OBVIOUS
<1>1. ASSUME NEW r \in Requests, Receive(r) PROVE Telling'
  BY <1>1, ReceiveTells
<1>2. ASSUME phase = "call", NEW reply, NEW t, ChunkAnswered(reply, t) PROVE Telling'
  BY <1>2, ReplyTells
<1>3. ASSUME NEW reply, ChunkRejected(reply) PROVE Telling'
  BY <1>3, OtherTells DEF ChunkRejected, fetch
<1>4. CASE ChunkRetried
  BY <1>4, OtherTells DEF ChunkRetried
<1>5. CASE ChunkFails
  BY <1>5, OtherTells DEF ChunkFails, fetch
<1>6. CASE StoreKey
  BY <1>6, StoreTells
<1>7. CASE DeleteKey
  BY <1>7, OtherTells DEF DeleteKey, Step, fetch
<1>8. CASE StoreFails
  BY <1>8, OtherTells DEF StoreFails, fetch
<1>9. ASSUME NEW s \in Settings, Restart(s) PROVE Telling'
  BY <1>9, OtherTells DEF Restart
<1>10. CASE UNCHANGED vars
  BY <1>10 DEF Telling, CacheTells, HitsTell, AnswersTellTheirInputs, vars, fetch
<1> QED BY <1>1, <1>2, <1>3, <1>4, <1>5, <1>6, <1>7, <1>8, <1>9, <1>10 DEF Next

(* Each input of an answered request has the vector its own upstream, model    *)
(* and qualifier give for a text of its meaning, whatever was stored before    *)
(* under other settings, and whatever hits, duplicates and chunks embed_batch  *)
(* mixes; OpenAI's and Mistral's adapters as long as replies pair texts and    *)
(* vectors.                                                                    *)
THEOREM AnswersTell == ASSUME NoNul PROVE Spec => []AnswersTellTheirInputs
<1>1. Init => Telling
  <2> SUFFICES ASSUME Init PROVE Telling
    OBVIOUS
  <2>1. DOMAIN cache = {} /\ phase = "idle"
    BY DEF Init
  <2> QED BY <2>1 DEF Telling, CacheTells, HitsTell, AnswersTellTheirInputs
<1>2. Inv /\ Inv' /\ Telling /\ [Next]_vars => Telling'
  BY NextTells
<1>3. Telling => AnswersTellTheirInputs
  BY DEF Telling
<1> QED BY <1>1, <1>2, <1>3, Invariant, PTL DEF Spec
=============================================================================
