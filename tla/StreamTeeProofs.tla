--------------------------- MODULE StreamTeeProofs ---------------------------
(***************************************************************************)
(* Theorems about StreamTee, for every set of scripts and plain bodies     *)
(* that the assumptions of StreamTee admit, wherever reads end.            *)
(***************************************************************************)
EXTENDS StreamTee, SequenceTheorems, FiniteSetTheorems, TLAPS

Join(a, b) == a \o b

(* The folds of Sse and StreamTee.                                           *)
Joins == INSTANCE Folding WITH Op <- Join
Cuts == INSTANCE Folding WITH Op <- CutAgain
Splits == INSTANCE Folding WITH Op <- SplitAgain
Ingests == INSTANCE Folding WITH Op <- Ingest
Deltas == INSTANCE Folding WITH Op <- IngestChoice
Tools == INSTANCE Folding WITH Op <- IngestTool

(* The prefixes of a sequence.                                               *)
LEMMA PrefixSteps ==
  ASSUME NEW S, NEW s \in Seq(S)
  PROVE  /\ Len(s) \in Nat /\ SubSeq(s, 1, Len(s)) = s /\ SubSeq(s, 1, 0) = <<>>
         /\ \A k \in 1..Len(s) :
              /\ SubSeq(s, 1, k - 1) \in Seq(S) /\ s[k] \in S
              /\ SubSeq(s, 1, k) = Append(SubSeq(s, 1, k - 1), s[k])
<1>1. Len(s) \in Nat /\ SubSeq(s, 1, Len(s)) = s /\ SubSeq(s, 1, 0) = <<>>
  <2>1. Len(s) \in Nat
    OBVIOUS
  <2> QED BY <2>1, SubSeqFull, SubSeqEmpty
<1>2. ASSUME NEW k \in 1..Len(s)
      PROVE  /\ SubSeq(s, 1, k - 1) \in Seq(S) /\ s[k] \in S
             /\ SubSeq(s, 1, k) = Append(SubSeq(s, 1, k - 1), s[k])
  <2> DEFINE u == SubSeq(s, 1, k - 1)
  <2>1. \A j \in 1..Len(s) : s[j] \in S
    OBVIOUS
  <2>2. k - 1 \in Int /\ 1 \in Int /\ (\A j \in 1..(k - 1) : s[j] \in S) /\ s[k] \in S
    BY <1>1, <2>1
  <2>3. u \in Seq(S)
    BY <2>2, SubSeqProperties
  <2>4. SubSeq(s, 1, k) = u \o <<s[k]>>
    <3>1. 1 \in 1..Len(s) /\ k \in 1..Len(s)
      BY <1>1
    <3> QED BY <3>1, SubSeqRecursiveSecond
  <2> HIDE DEF u
  <2>5. SubSeq(s, 1, k) = Append(u, s[k])
    BY <2>2, <2>3, <2>4, AppendIsConcat
  <2> QED BY <2>2, <2>3, <2>5 DEF u
<1> QED BY <1>1, <1>2

-----------------------------------------------------------------------------
(***************************************************************************)
(* Sequences of sequences.                                                 *)
(***************************************************************************)
LEMMA FlattenIsFold ==
  ASSUME NEW Z, NEW s \in Seq(Seq(Z))
  PROVE  FlattenSeq(s) = Joins!Fold(<<>>, s)
<1> DEFINE N == Len(s)
           Flat(f) == f = [i \in 1..N |-> IF i = 1 THEN s[i] ELSE f[i - 1] \o s[i]]
<1>1. N \in Nat /\ \A i \in 1..N : s[i] \in Seq(Z)
  OBVIOUS
<1>2. PICK g : /\ g[0] = <<>> /\ g[N] = Joins!Fold(<<>>, s)
               /\ \A k \in 1..N : g[k] = Join(g[k - 1], s[k])
  BY Joins!FoldSteps
<1>3. N # 0 => FlattenSeq(s) = (CHOOSE f : Flat(f))[N]
  BY DEF FlattenSeq
<1>4. N = 0 => FlattenSeq(s) = <<>>
  BY DEF FlattenSeq
<1> HIDE DEF N
<1>5. ASSUME NEW i \in 1..N
      PROVE  g[i] = IF i = 1 THEN s[i] ELSE g[i - 1] \o s[i]
  <2>1. g[i] = g[i - 1] \o s[i]
    BY <1>2 DEF Join
  <2>2. i = 1 => g[i] = s[i]
    <3> SUFFICES ASSUME i = 1 PROVE g[i] = s[i]
      OBVIOUS
    <3>1. i - 1 = 0 /\ s[i] \in Seq(Z)
      BY <1>1
    <3>2. g[i] = <<>> \o s[i]
      BY <1>2, <2>1, <3>1
    <3> QED BY <3>1, <3>2, ConcatEmptySeq
  <2> QED BY <2>1, <2>2
<1>6. Flat([i \in 1..N |-> g[i]])
  <2> DEFINE f == [i \in 1..N |-> g[i]]
             h == [i \in 1..N |-> IF i = 1 THEN s[i] ELSE f[i - 1] \o s[i]]
  <2>1. ASSUME NEW i \in 1..N PROVE f[i] = h[i]
    <3>1. i # 1 => i - 1 \in 1..N
      BY <1>1
    <3>2. i # 1 => f[i - 1] = g[i - 1]
      BY <3>1
    <3> QED BY <1>5, <3>2
  <2>2. f = h
    BY <2>1
  <2> QED BY <2>2
<1>7. ASSUME NEW f, Flat(f), N # 0
      PROVE  f[N] = g[N]
  <2> DEFINE T == {k \in 0..N : k # 0 => f[k] = g[k]}
  <2>1. T \subseteq 0..N /\ 0 \in T
    BY <1>1
  <2>2. ASSUME NEW k \in 1..N, k - 1 \in T PROVE k \in T
    <3>1. f[k] = IF k = 1 THEN s[k] ELSE f[k - 1] \o s[k]
      BY <1>7
    <3>2. k # 1 => f[k - 1] = g[k - 1]
      BY <1>1, <2>2
    <3>3. f[k] = g[k]
      BY <1>5, <3>1, <3>2
    <3> QED BY <1>1, <3>3
  <2> HIDE DEF T
  <2>3. T = 0..N
    BY <1>1, <2>1, <2>2, Joins!Inductive
  <2>4. N \in T
    BY <1>1, <2>3
  <2> QED BY <1>7, <2>4 DEF T
<1> HIDE DEF Flat
<1>8. Flat(CHOOSE f : Flat(f))
  BY <1>6
<1>9. N # 0 => FlattenSeq(s) = g[N]
  BY <1>3, <1>7, <1>8
<1> QED BY <1>2, <1>4, <1>9

LEMMA Flattened ==
  ASSUME NEW Z
  PROVE  /\ FlattenSeq(<<>>) = <<>>
         /\ \A s \in Seq(Seq(Z)) : FlattenSeq(s) \in Seq(Z)
         /\ \A s \in Seq(Seq(Z)), x \in Seq(Z) :
              FlattenSeq(Append(s, x)) = FlattenSeq(s) \o x
<1>1. <<>> \in Seq(Seq(Z)) /\ <<>> \in Seq(Z)
  BY EmptySeq
<1>2. FlattenSeq(<<>>) = <<>>
  BY <1>1, FlattenIsFold, Joins!FoldEmpty
<1>3. ASSUME NEW s \in Seq(Seq(Z)) PROVE FlattenSeq(s) \in Seq(Z)
  <2>1. \A a \in Seq(Z), e \in Seq(Z) : Join(a, e) \in Seq(Z)
    BY ConcatProperties DEF Join
  <2>2. Joins!Fold(<<>>, s) \in Seq(Z)
    BY <1>1, <2>1, Joins!FoldTyped
  <2> QED BY <2>2, FlattenIsFold
<1>4. ASSUME NEW s \in Seq(Seq(Z)), NEW x \in Seq(Z)
      PROVE  FlattenSeq(Append(s, x)) = FlattenSeq(s) \o x
  <2> DEFINE t == Append(s, x)
  <2>1. t \in Seq(Seq(Z))
    BY AppendProperties
  <2>2. Joins!Fold(<<>>, t) = Join(Joins!Fold(<<>>, s), x)
    BY Joins!FoldAppend
  <2> HIDE DEF t
  <2>3. FlattenSeq(t) = Join(FlattenSeq(s), x)
    BY <2>1, <2>2, FlattenIsFold
  <2> QED BY <2>3 DEF t, Join
<1> QED BY <1>2, <1>3, <1>4

LEMMA JoinsAssociate ==
  ASSUME NEW Z, NEW a \in Seq(Z), NEW b \in Seq(Z), NEW c \in Seq(Z)
  PROVE  Join(Join(a, b), c) = Join(a, Join(b, c))
BY ConcatAssociative DEF Join

LEMMA FlattenOne ==
  ASSUME NEW Z, NEW x \in Seq(Z)
  PROVE  FlattenSeq(<<x>>) = x
<1>1. <<>> \in Seq(Seq(Z)) /\ Append(<<>>, x) = <<x>>
  OBVIOUS
<1>2. FlattenSeq(Append(<<>>, x)) = FlattenSeq(<<>>) \o x
  BY <1>1, Flattened
<1> QED BY <1>1, <1>2, Flattened, ConcatEmptySeq

LEMMA FlattenConcat ==
  ASSUME NEW Z, NEW s \in Seq(Seq(Z)), NEW t \in Seq(Seq(Z))
  PROVE  FlattenSeq(s \o t) = FlattenSeq(s) \o FlattenSeq(t)
<1>0. /\ Len(t) \in Nat /\ SubSeq(t, 1, Len(t)) = t /\ SubSeq(t, 1, 0) = <<>>
      /\ \A k \in 1..Len(t) :
           /\ SubSeq(t, 1, k - 1) \in Seq(Seq(Z)) /\ t[k] \in Seq(Z)
           /\ SubSeq(t, 1, k) = Append(SubSeq(t, 1, k - 1), t[k])
  BY PrefixSteps
<1> DEFINE P(k) == SubSeq(t, 1, k)
           T == {k \in 0..Len(t) : FlattenSeq(s \o P(k)) = FlattenSeq(s) \o FlattenSeq(P(k))}
<1> HIDE DEF P
<1>1. 0 \in T
  <2>1. P(0) = <<>> /\ s \o <<>> = s /\ FlattenSeq(s) \o <<>> = FlattenSeq(s)
    BY <1>0, Flattened, ConcatEmptySeq DEF P
  <2>2. FlattenSeq(<<>>) = <<>>
    BY Flattened
  <2>3. FlattenSeq(s \o P(0)) = FlattenSeq(s) \o FlattenSeq(P(0))
    BY <2>1, <2>2
  <2> QED BY <1>0, <2>3
<1>2. ASSUME NEW k \in 1..Len(t), k - 1 \in T PROVE k \in T
  <2> DEFINE u == P(k - 1)
             x == t[k]
  <2>1. u \in Seq(Seq(Z)) /\ x \in Seq(Z) /\ P(k) = Append(u, x)
    BY <1>0 DEF P
  <2>2. FlattenSeq(s \o u) = FlattenSeq(s) \o FlattenSeq(u)
    BY <1>2
  <2> HIDE DEF u, x
  <2>3. s \o Append(u, x) = Append(s \o u, x) /\ s \o u \in Seq(Seq(Z))
    <3> DEFINE v == <<x>>
    <3>1. s \o u \in Seq(Seq(Z)) /\ v \in Seq(Seq(Z))
      BY <2>1, ConcatProperties
    <3>2. Append(u, x) = u \o v /\ Append(s \o u, x) = (s \o u) \o v
      BY <2>1, <3>1, AppendIsConcat
    <3> HIDE DEF v
    <3>3. Join(Join(s, u), v) = Join(s, Join(u, v))
      BY <2>1, <3>1, JoinsAssociate
    <3> QED BY <3>1, <3>2, <3>3 DEF Join
  <2>4. FlattenSeq(Append(s \o u, x)) = FlattenSeq(s \o u) \o x
        /\ FlattenSeq(Append(u, x)) = FlattenSeq(u) \o x
    BY <2>1, <2>3, Flattened
  <2>5. (FlattenSeq(s) \o FlattenSeq(u)) \o x = FlattenSeq(s) \o (FlattenSeq(u) \o x)
    <3> DEFINE a == FlattenSeq(s)
               b == FlattenSeq(u)
    <3>1. a \in Seq(Z) /\ b \in Seq(Z)
      BY <2>1, Flattened
    <3> HIDE DEF a, b
    <3>2. Join(Join(a, b), x) = Join(a, Join(b, x))
      BY <2>1, <3>1, JoinsAssociate
    <3> QED BY <3>2 DEF a, b, Join
  <2>6. FlattenSeq(s \o P(k)) = FlattenSeq(s) \o FlattenSeq(P(k))
    BY <2>1, <2>2, <2>3, <2>4, <2>5
  <2> QED BY <1>0, <2>6
<1>3. T \subseteq 0..Len(t)
  OBVIOUS
<1>4. T = 0..Len(t)
  <2> HIDE DEF T
  <2> QED BY <1>0, <1>1, <1>2, <1>3, Joins!Inductive
<1>5. Len(t) \in T
  BY <1>0, <1>4
<1> QED BY <1>0, <1>5 DEF P

(* A sequence is not longer than what its parts add up to, if none is empty. *)
LEMMA FlattenLen ==
  ASSUME NEW Z, NEW t \in Seq(Seq(Z)), \A i \in 1..Len(t) : t[i] # <<>>
  PROVE  Len(t) <= Len(FlattenSeq(t))
<1>0. /\ Len(t) \in Nat /\ SubSeq(t, 1, Len(t)) = t /\ SubSeq(t, 1, 0) = <<>>
      /\ \A k \in 1..Len(t) :
           /\ SubSeq(t, 1, k - 1) \in Seq(Seq(Z)) /\ t[k] \in Seq(Z)
           /\ SubSeq(t, 1, k) = Append(SubSeq(t, 1, k - 1), t[k])
  BY PrefixSteps
<1> DEFINE F(k) == FlattenSeq(SubSeq(t, 1, k))
           T == {k \in 0..Len(t) : k <= Len(F(k))}
<1>1. ASSUME NEW k \in 1..Len(t) PROVE Len(F(k)) = Len(F(k - 1)) + Len(t[k]) /\ Len(t[k]) > 0
                                         /\ Len(F(k - 1)) \in Nat
  <2> DEFINE u == SubSeq(t, 1, k - 1)
             x == t[k]
  <2>1. u \in Seq(Seq(Z)) /\ x \in Seq(Z) /\ SubSeq(t, 1, k) = Append(u, x)
    BY <1>0
  <2>2. x # <<>>
    OBVIOUS
  <2> HIDE DEF u, x
  <2>3. FlattenSeq(Append(u, x)) = FlattenSeq(u) \o x /\ FlattenSeq(u) \in Seq(Z)
    BY <2>1, Flattened
  <2>4. Len(FlattenSeq(u) \o x) = Len(FlattenSeq(u)) + Len(x)
    BY <2>1, <2>3, ConcatProperties
  <2>5. Len(x) > 0 /\ Len(FlattenSeq(u)) \in Nat
    BY <2>1, <2>2, <2>3, EmptySeq, LenProperties
  <2> QED BY <2>1, <2>3, <2>4, <2>5 DEF u, x
<1>2. 0 \in T
  BY <1>0, Flattened, EmptySeq
<1> HIDE DEF F
<1>3. ASSUME NEW k \in 1..Len(t), k - 1 \in T PROVE k \in T
  <2>1. Len(t[k]) \in Nat
    BY <1>0, LenProperties
  <2> QED BY <1>0, <1>1, <1>3, <2>1
<1>4. T \subseteq 0..Len(t)
  OBVIOUS
<1>5. T = 0..Len(t)
  <2> HIDE DEF T
  <2> QED BY <1>0, <1>2, <1>3, <1>4, Joins!Inductive
<1>6. Len(t) \in T
  BY <1>0, <1>5
<1> QED BY <1>0, <1>6 DEF F

(* Slices of a sequence, and of what its parts add up to.                    *)
LEMMA Slice ==
  ASSUME NEW S, NEW t \in Seq(S), NEW n \in 0..Len(t), NEW m \in n..Len(t)
  PROVE  /\ SubSeq(t, n + 1, m) \in Seq(S)
         /\ Len(SubSeq(t, n + 1, m)) = m - n
         /\ \A i \in 1..(m - n) : SubSeq(t, n + 1, m)[i] = t[n + i]
<1> DEFINE a == n + 1
<1>1. a \in Int /\ m \in Int /\ Len(t) \in Nat /\ n \in Nat /\ n <= m /\ m <= Len(t)
  OBVIOUS
<1>2. \A i \in a..m : t[i] \in S
  BY <1>1
<1>3. m - a + 1 = m - n /\ (IF a <= m THEN m - a + 1 ELSE 0) = m - n
      /\ \A i \in 1..(m - n) : a + i - 1 = n + i
  BY <1>1
<1> HIDE DEF a
<1>4. /\ SubSeq(t, a, m) \in Seq(S)
      /\ Len(SubSeq(t, a, m)) = IF a <= m THEN m - a + 1 ELSE 0
      /\ \A i \in 1..(m - a + 1) : SubSeq(t, a, m)[i] = t[a + i - 1]
  BY <1>1, <1>2, SubSeqProperties
<1>5. /\ SubSeq(t, a, m) \in Seq(S)
      /\ Len(SubSeq(t, a, m)) = m - n
      /\ \A i \in 1..(m - n) : SubSeq(t, a, m)[i] = t[n + i]
  BY <1>3, <1>4
<1> QED BY <1>5 DEF a

LEMMA SlicesJoin ==
  ASSUME NEW S, NEW t \in Seq(S), NEW n \in 0..Len(t), NEW k \in n..Len(t),
         NEW m \in k..Len(t)
  PROVE  SubSeq(t, n + 1, m) = SubSeq(t, n + 1, k) \o SubSeq(t, k + 1, m)
<1> DEFINE a == n + 1
<1>1. a \in 1..(Len(t) + 1) /\ k \in (a - 1)..Len(t) /\ m \in k..Len(t)
  OBVIOUS
<1> HIDE DEF a
<1>2. SubSeq(t, a, k) \o SubSeq(t, k + 1, m) = SubSeq(t, a, m)
  BY <1>1, ConcatAdjacentSubSeq
<1> QED BY <1>2 DEF a

LEMMA Middle ==
  ASSUME NEW Z, NEW a \in Seq(Z), NEW b \in Seq(Z), NEW c \in Seq(Z)
  PROVE  SubSeq((a \o b) \o c, Len(a) + 1, Len(a) + Len(b)) = b
<1> DEFINE d == (a \o b) \o c
           n == Len(a)
           m == Len(a) + Len(b)
           e == SubSeq(d, n + 1, m)
<1>1. Len(a) \in Nat /\ Len(b) \in Nat /\ Len(c) \in Nat
  BY LenProperties
<1>2. a \o b \in Seq(Z) /\ Len(a \o b) = m
      /\ \A i \in 1..m : (a \o b)[i] = IF i <= n THEN a[i] ELSE b[i - n]
  BY ConcatProperties
<1>3. d \in Seq(Z) /\ Len(d) = m + Len(c)
      /\ \A i \in 1..(m + Len(c)) : d[i] = IF i <= m THEN (a \o b)[i] ELSE c[i - m]
  BY <1>2, ConcatProperties
<1>4. n \in 0..Len(d) /\ m \in n..Len(d)
  BY <1>1, <1>3
<1> HIDE DEF d
<1>5. e \in Seq(Z) /\ Len(e) = m - n /\ \A i \in 1..(m - n) : e[i] = d[n + i]
  BY <1>3, <1>4, Slice
<1> HIDE DEF e
<1>6. Len(e) = Len(b)
  BY <1>1, <1>5
<1>7. ASSUME NEW i \in 1..Len(b) PROVE e[i] = b[i]
  <2>1. n + i \in 1..m /\ n + i \in 1..(m + Len(c)) /\ ~(n + i <= n) /\ n + i <= m /\ (n + i) - n = i
    BY <1>1
  <2>2. e[i] = d[n + i] /\ d[n + i] = (a \o b)[n + i]
    BY <1>1, <1>3, <1>5, <2>1
  <2> QED BY <1>2, <2>1, <2>2
<1>8. e = b
  BY <1>5, <1>6, <1>7, SeqEqual
<1> QED BY <1>8 DEF d, e

(* Where the n-th part ends.                                                 *)
EndOf(t, n) == Len(FlattenSeq(SubSeq(t, 1, n)))

LEMMA FlattenSlice ==
  ASSUME NEW Z, NEW t \in Seq(Seq(Z)), NEW n \in 0..Len(t), NEW m \in n..Len(t)
  PROVE  /\ EndOf(t, n) \in Nat /\ EndOf(t, m) \in Nat
         /\ EndOf(t, n) <= EndOf(t, m) /\ EndOf(t, m) <= Len(FlattenSeq(t))
         /\ FlattenSeq(SubSeq(t, n + 1, m))
              = SubSeq(FlattenSeq(t), EndOf(t, n) + 1, EndOf(t, m))
         /\ Len(FlattenSeq(SubSeq(t, n + 1, m))) = EndOf(t, m) - EndOf(t, n)
         /\ SubSeq(t, 1, m) = SubSeq(t, 1, n) \o SubSeq(t, n + 1, m)
         /\ SubSeq(t, 1, n) \in Seq(Seq(Z)) /\ SubSeq(t, n + 1, m) \in Seq(Seq(Z))
<1> DEFINE a == SubSeq(t, 0 + 1, n)
           b == SubSeq(t, n + 1, m)
           c == SubSeq(t, m + 1, Len(t))
<1>1. Len(t) \in Nat /\ n \in Nat /\ m \in 0..Len(t) /\ 0 \in 0..Len(t) /\ n \in 0..Len(t)
      /\ Len(t) \in m..Len(t)
  OBVIOUS
<1>2. a \in Seq(Seq(Z)) /\ b \in Seq(Seq(Z)) /\ c \in Seq(Seq(Z))
  BY <1>1, Slice
<1>3. SubSeq(t, 0 + 1, m) = a \o b
  BY <1>1, SlicesJoin
<1>4. SubSeq(t, 0 + 1, Len(t)) = SubSeq(t, 0 + 1, m) \o c
  BY <1>1, SlicesJoin
<1>5. SubSeq(t, 1, Len(t)) = t /\ 0 + 1 = 1
  BY SubSeqFull
<1>6. SubSeq(t, 1, n) = a /\ SubSeq(t, 1, m) = a \o b /\ t = (a \o b) \o c
      /\ SubSeq(t, n + 1, m) = b
  BY <1>3, <1>4, <1>5
<1> HIDE DEF a, b, c
<1> DEFINE A == FlattenSeq(a)
           B == FlattenSeq(b)
           C == FlattenSeq(c)
<1>7. A \in Seq(Z) /\ B \in Seq(Z) /\ C \in Seq(Z)
  BY <1>2, Flattened
<1>8. FlattenSeq(a \o b) = A \o B
  BY <1>2, FlattenConcat
<1>9. a \o b \in Seq(Seq(Z))
  BY <1>2, ConcatProperties
<1>10. FlattenSeq(t) = (A \o B) \o C
  BY <1>2, <1>6, <1>8, <1>9, FlattenConcat
<1> HIDE DEF A, B, C
<1>11. A \o B \in Seq(Z) /\ Len(A \o B) = Len(A) + Len(B) /\ Len(A) \in Nat /\ Len(B) \in Nat
  BY <1>7, ConcatProperties, LenProperties
<1>12. Len((A \o B) \o C) = Len(A \o B) + Len(C) /\ Len(C) \in Nat
  BY <1>7, <1>11, ConcatProperties, LenProperties
<1>13. EndOf(t, n) = Len(A) /\ EndOf(t, m) = Len(A) + Len(B)
  BY <1>6, <1>8, <1>11 DEF EndOf, A
<1>14. SubSeq((A \o B) \o C, Len(A) + 1, Len(A) + Len(B)) = B
  BY <1>7, Middle
<1>15. FlattenSeq(SubSeq(t, n + 1, m)) = B
  BY <1>6 DEF B
<1>16. EndOf(t, n) \in Nat /\ EndOf(t, m) \in Nat /\ EndOf(t, n) <= EndOf(t, m)
       /\ EndOf(t, m) <= Len(FlattenSeq(t)) /\ Len(B) = EndOf(t, m) - EndOf(t, n)
  BY <1>10, <1>11, <1>12, <1>13
<1> QED BY <1>2, <1>6, <1>10, <1>13, <1>14, <1>15, <1>16

LEMMA FlattenEnds ==
  ASSUME NEW Z, NEW t \in Seq(Seq(Z))
  PROVE  EndOf(t, 0) = 0 /\ EndOf(t, Len(t)) = Len(FlattenSeq(t))
<1>1. SubSeq(t, 1, 0) = <<>> /\ SubSeq(t, 1, Len(t)) = t
  BY SubSeqFull, SubSeqEmpty
<1> QED BY <1>1, Flattened, EmptySeq DEF EndOf

(* One more part.                                                            *)
LEMMA FlattenPart ==
  ASSUME NEW Z, NEW t \in Seq(Seq(Z)), NEW n \in 0..(Len(t) - 1)
  PROVE  /\ EndOf(t, n) \in Nat
         /\ t[n + 1] \in Seq(Z)
         /\ EndOf(t, n + 1) = EndOf(t, n) + Len(t[n + 1])
         /\ EndOf(t, n + 1) <= Len(FlattenSeq(t))
         /\ t[n + 1] = SubSeq(FlattenSeq(t), EndOf(t, n) + 1, EndOf(t, n + 1))
<1> DEFINE m == n + 1
<1>1. Len(t) \in Nat /\ n \in 0..Len(t) /\ m \in n..Len(t) /\ m \in 1..Len(t) /\ m \in m..Len(t)
  OBVIOUS
<1>2. t[m] \in Seq(Z)
  BY <1>1
<1>3. SubSeq(t, m, m) = <<t[m]>>
  <2>1. SubSeq(t, n + 1, m) \in Seq(Seq(Z)) /\ Len(SubSeq(t, n + 1, m)) = m - n
        /\ \A i \in 1..(m - n) : SubSeq(t, n + 1, m)[i] = t[n + i]
    BY <1>1, Slice
  <2>2. SubSeq(t, m, m) \in Seq(Seq(Z)) /\ Len(SubSeq(t, m, m)) = 1 /\ SubSeq(t, m, m)[1] = t[m]
    BY <2>1
  <2>3. <<t[m]>> \in Seq(Seq(Z)) /\ Len(<<t[m]>>) = 1 /\ <<t[m]>>[1] = t[m]
    BY <1>2
  <2> DEFINE y == SubSeq(t, m, m)
             z == <<t[m]>>
  <2>4. y \in Seq(Seq(Z)) /\ z \in Seq(Seq(Z)) /\ Len(y) = 1 /\ Len(z) = 1 /\ y[1] = z[1]
    BY <2>2, <2>3
  <2> HIDE DEF y, z
  <2>5. Len(y) = Len(z) /\ \A i \in 1..Len(y) : y[i] = z[i]
    BY <2>4
  <2>6. y = z
    BY <2>4, <2>5, SeqEqual
  <2> QED BY <2>6 DEF y, z
<1>4. FlattenSeq(SubSeq(t, n + 1, m)) = t[m]
  BY <1>2, <1>3, FlattenOne
<1>5. /\ EndOf(t, n) \in Nat /\ EndOf(t, m) \in Nat
      /\ EndOf(t, m) <= Len(FlattenSeq(t))
      /\ FlattenSeq(SubSeq(t, n + 1, m)) = SubSeq(FlattenSeq(t), EndOf(t, n) + 1, EndOf(t, m))
      /\ Len(FlattenSeq(SubSeq(t, n + 1, m))) = EndOf(t, m) - EndOf(t, n)
  BY <1>1, FlattenSlice
<1> HIDE DEF m
<1>6. Len(t[m]) = EndOf(t, m) - EndOf(t, n)
      /\ t[m] = SubSeq(FlattenSeq(t), EndOf(t, n) + 1, EndOf(t, m))
  BY <1>4, <1>5
<1>7. EndOf(t, m) = EndOf(t, n) + Len(t[m])
  BY <1>5, <1>6
<1> QED BY <1>2, <1>5, <1>6, <1>7 DEF m

-----------------------------------------------------------------------------
(***************************************************************************)
(* Bytes, blank lines and whole frames.                                    *)
(***************************************************************************)
Names == DOMAIN Kind
Byte == {LF, CR} \cup {Half(e, n) : e \in Names, n \in {1, 2}}
Bytes == Seq(Byte)

LEMMA ByteFacts ==
  /\ LF \in Byte /\ CR \in Byte /\ LF # CR
  /\ LF.b # "half" /\ CR.b # "half"
  /\ \A e \in Names, n \in {1, 2} :
       /\ Half(e, n) \in Byte /\ Half(e, n).b = "half" /\ Half(e, n).of = e
       /\ Half(e, n) # LF /\ Half(e, n) # CR
       /\ \A g \in Names, m \in {1, 2} : Half(e, n) = Half(g, m) => e = g /\ n = m
  /\ \A x \in Byte : x.b = "half" => x.of \in Names /\ x \in {Half(x.of, 1), Half(x.of, 2)}
<1>1. LF # CR /\ LF.b # "half" /\ CR.b # "half"
  BY DEF LF, CR
<1>2. ASSUME NEW e \in Names, NEW n \in {1, 2}
      PROVE  Half(e, n).b = "half" /\ Half(e, n).of = e /\ Half(e, n).part = n
  BY DEF Half
<1>3. ASSUME NEW x \in Byte, x.b = "half"
      PROVE  x.of \in Names /\ x \in {Half(x.of, 1), Half(x.of, 2)}
  BY <1>1, <1>2, <1>3 DEF Byte
<1> QED BY <1>1, <1>2, <1>3 DEF Byte

(* The n-th byte of a frame of event e that ends like a frame of k bytes.    *)
FrameAt(e, k, n) ==
  IF n = 1 THEN Half(e, 1) ELSE IF n = 2 THEN Half(e, 2)
  ELSE IF k = 6 /\ n \in {3, 5} THEN CR ELSE LF

IsFrame(f, e) ==
  f \in Bytes /\ Len(f) \in {4, 6} /\ \A n \in 1..Len(f) : f[n] = FrameAt(e, Len(f), n)

WholeFrames == {Payload(e) \o end : e \in Names, end \in {Unix, Dos}}

LEMMA PayloadFacts ==
  ASSUME NEW e \in Names
  PROVE  Payload(e) \in Bytes /\ Len(Payload(e)) = 2
         /\ Payload(e)[1] = Half(e, 1) /\ Payload(e)[2] = Half(e, 2)
BY ByteFacts DEF Payload, Bytes

LEMMA EndFacts ==
  /\ Unix \in Bytes /\ Len(Unix) = 2 /\ Unix[1] = LF /\ Unix[2] = LF
  /\ Dos \in Bytes /\ Len(Dos) = 4 /\ Dos[1] = CR /\ Dos[2] = LF /\ Dos[3] = CR /\ Dos[4] = LF
BY ByteFacts DEF Unix, Dos, Bytes

LEMMA FrameIs ==
  ASSUME NEW e \in Names, NEW end \in {Unix, Dos}
  PROVE  IsFrame(Payload(e) \o end, e) /\ Len(Payload(e) \o end) = 2 + Len(end)
<1> DEFINE h == Payload(e)
           f == h \o end
<1>1. h \in Bytes /\ end \in Bytes /\ Len(h) = 2 /\ Len(end) \in {2, 4}
  BY PayloadFacts, EndFacts
<1>2. f \in Bytes /\ Len(f) = Len(h) + Len(end)
      /\ \A i \in 1..(Len(h) + Len(end)) : f[i] = IF i <= Len(h) THEN h[i] ELSE end[i - Len(h)]
  BY <1>1, ConcatProperties DEF Bytes
<1> SUFFICES IsFrame(f, e) /\ Len(f) = 2 + Len(end)
  OBVIOUS
<1> HIDE DEF f
<1>3. Len(f) = 2 + Len(end)
      /\ \A i \in 1..Len(f) : f[i] = IF i <= 2 THEN h[i] ELSE end[i - 2]
  BY <1>1, <1>2
<1>4. f[1] = Half(e, 1) /\ f[2] = Half(e, 2)
  BY <1>1, <1>3, PayloadFacts
<1>5. CASE end = Unix
  <2>1. Len(f) = 4 /\ f[3] = LF /\ f[4] = LF
    BY <1>3, <1>5, EndFacts
  <2>2. \A n \in 1..4 : n \in {1, 2, 3, 4}
    OBVIOUS
  <2>3. \A n \in 1..4 : f[n] = FrameAt(e, 4, n)
    BY <1>4, <2>1, <2>2 DEF FrameAt
  <2> QED BY <1>2, <1>3, <2>1, <2>3 DEF IsFrame
<1>6. CASE end = Dos
  <2>1. Len(f) = 6 /\ f[3] = CR /\ f[4] = LF /\ f[5] = CR /\ f[6] = LF
    BY <1>3, <1>6, EndFacts
  <2>2. \A n \in 1..6 : n \in {1, 2, 3, 4, 5, 6}
    OBVIOUS
  <2>3. \A n \in 1..6 : f[n] = FrameAt(e, 6, n)
    BY <1>4, <2>1, <2>2 DEF FrameAt
  <2> QED BY <1>2, <1>3, <2>1, <2>3 DEF IsFrame
<1> QED BY <1>5, <1>6

LEMMA WholeFrameIs ==
  ASSUME NEW f \in WholeFrames
  PROVE  \E e \in Names : IsFrame(f, e)
<1>1. PICK e \in Names, end \in {Unix, Dos} : f = Payload(e) \o end
  BY DEF WholeFrames
<1> QED BY <1>1, FrameIs

(* What may be left of a frame in the buffer.                                *)
Rests ==
  {r \in Bytes : \E f \in WholeFrames :
                   Len(r) < Len(f) /\ \A n \in 1..Len(r) : r[n] = f[n]}

LEMMA RestIs ==
  ASSUME NEW r \in Rests
  PROVE  /\ r \in Bytes
         /\ \E e \in Names, k \in {4, 6} :
              Len(r) < k /\ \A n \in 1..Len(r) : r[n] = FrameAt(e, k, n)
<1>1. PICK f \in WholeFrames : Len(r) < Len(f) /\ \A n \in 1..Len(r) : r[n] = f[n]
  BY DEF Rests
<1>2. PICK e \in Names : IsFrame(f, e)
  BY WholeFrameIs
<1>3. Len(f) \in {4, 6} /\ \A n \in 1..Len(f) : f[n] = FrameAt(e, Len(f), n)
  BY <1>2 DEF IsFrame
<1>4. r \in Bytes /\ Len(r) \in Nat
  BY DEF Rests, Bytes
<1>5. \A n \in 1..Len(r) : n \in 1..Len(f)
  BY <1>1, <1>3, <1>4
<1> QED BY <1>1, <1>3, <1>4, <1>5

LEMMA AtIs ==
  ASSUME NEW u \in Bytes
  PROVE  /\ At(u, Unix) = {i \in 1..(Len(u) - 1) : u[i] = LF /\ u[i + 1] = LF}
         /\ At(u, Dos) = {i \in 1..(Len(u) - 3) :
                            u[i] = CR /\ u[i + 1] = LF /\ u[i + 2] = CR /\ u[i + 3] = LF}
<1>1. Len(u) \in Nat /\ \A i \in 1..Len(u) : u[i] \in Byte
  BY DEF Bytes
<1>2. ASSUME NEW i \in 1..(Len(u) - 1)
      PROVE  SubSeq(u, i, i + 1) = Unix <=> u[i] = LF /\ u[i + 1] = LF
  <2> DEFINE m == i + 1
             v == SubSeq(u, i, m)
  <2>1. i \in Int /\ m \in Int /\ i <= m /\ m - i + 1 = 2 /\ \A j \in i..m : u[j] \in Byte
    BY <1>1
  <2>2. v \in Bytes /\ Len(v) = 2 /\ \A j \in 1..2 : v[j] = u[i + j - 1]
    <3> HIDE DEF m
    <3> QED BY <2>1, SubSeqProperties DEF Bytes
  <2> HIDE DEF v
  <2>3. v[1] = u[i] /\ v[2] = u[i + 1]
    BY <1>1, <2>2
  <2>4. v[1] = LF /\ v[2] = LF => v = Unix
    <3> SUFFICES ASSUME v[1] = LF, v[2] = LF PROVE v = Unix
      OBVIOUS
    <3>1. Len(v) = Len(Unix) /\ \A j \in 1..Len(v) : v[j] = Unix[j]
      BY <2>2, EndFacts
    <3> QED BY <2>2, <3>1, EndFacts, SeqEqual DEF Bytes
  <2> QED BY <2>3, <2>4, EndFacts DEF v
<1>3. ASSUME NEW i \in 1..(Len(u) - 3)
      PROVE  SubSeq(u, i, i + 3) = Dos
               <=> u[i] = CR /\ u[i + 1] = LF /\ u[i + 2] = CR /\ u[i + 3] = LF
  <2> DEFINE m == i + 3
             v == SubSeq(u, i, m)
  <2>1. i \in Int /\ m \in Int /\ i <= m /\ m - i + 1 = 4 /\ \A j \in i..m : u[j] \in Byte
    BY <1>1
  <2>2. v \in Bytes /\ Len(v) = 4 /\ \A j \in 1..4 : v[j] = u[i + j - 1]
    <3> HIDE DEF m
    <3> QED BY <2>1, SubSeqProperties DEF Bytes
  <2> HIDE DEF v
  <2>3. v[1] = u[i] /\ v[2] = u[i + 1] /\ v[3] = u[i + 2] /\ v[4] = u[i + 3]
    BY <1>1, <2>2
  <2>4. v[1] = CR /\ v[2] = LF /\ v[3] = CR /\ v[4] = LF => v = Dos
    <3> SUFFICES ASSUME v[1] = CR, v[2] = LF, v[3] = CR, v[4] = LF PROVE v = Dos
      OBVIOUS
    <3>1. Len(v) = Len(Dos) /\ \A j \in 1..Len(v) : v[j] = Dos[j]
      BY <2>2, EndFacts
    <3> QED BY <2>2, <3>1, EndFacts, SeqEqual DEF Bytes
  <2> QED BY <2>3, <2>4, EndFacts DEF v
<1>4. \A i : i + Len(Unix) - 1 = i + 2 - 1
  BY EndFacts
<1>5. At(u, Unix) = {i \in 1..(Len(u) - 1) : SubSeq(u, i, i + 1) = Unix}
  <2>1. Len(u) - 2 + 1 = Len(u) - 1 /\ \A i \in 1..(Len(u) - 1) : i + 2 - 1 = i + 1
    BY <1>1
  <2>2. At(u, Unix) = {i \in 1..(Len(u) - 2 + 1) : SubSeq(u, i, i + 2 - 1) = Unix}
    BY EndFacts DEF At
  <2> QED BY <2>1, <2>2
<1>6. At(u, Dos) = {i \in 1..(Len(u) - 3) : SubSeq(u, i, i + 3) = Dos}
  <2>1. Len(u) - 4 + 1 = Len(u) - 3 /\ \A i \in 1..(Len(u) - 3) : i + 4 - 1 = i + 3
    BY <1>1
  <2>2. At(u, Dos) = {i \in 1..(Len(u) - 4 + 1) : SubSeq(u, i, i + 4 - 1) = Dos}
    BY EndFacts DEF At
  <2> QED BY <2>1, <2>2
<1> QED BY <1>2, <1>3, <1>5, <1>6

LEMMA BoundariesIn ==
  ASSUME NEW u \in Bytes
  PROVE  \A x \in Boundaries(u) : \/ x[1] \in At(u, Unix) /\ x[2] = 2
                                  \/ x[1] \in At(u, Dos) /\ x[2] = 4
BY DEF Boundaries

LEMMA FirstBoundary ==
  ASSUME NEW u \in Bytes, NEW f, NEW e \in Names, IsFrame(f, e), Len(f) <= Len(u),
         \A n \in 1..Len(f) : u[n] = f[n]
  PROVE  Boundaries(u) # {} /\ FindBoundary(u)[1] + FindBoundary(u)[2] - 1 = Len(f)
<1>1. Len(u) \in Nat /\ Len(f) \in {4, 6}
      /\ \A n \in 1..Len(f) : n \in 1..Len(u) /\ u[n] = FrameAt(e, Len(f), n)
  BY DEF Bytes, IsFrame
<1>2. u[1] = Half(e, 1) /\ u[2] = Half(e, 2)
  BY <1>1 DEF FrameAt
<1>3. \A i \in At(u, Unix) \cup At(u, Dos) : i \in Int /\ i >= 3
  BY <1>1, <1>2, AtIs, ByteFacts
<1>4. CASE Len(f) = 4
  <2>1. u[3] = LF /\ u[4] = LF
    BY <1>1, <1>4 DEF FrameAt
  <2>2. 3 \in At(u, Unix) /\ 3 \notin At(u, Dos)
    BY <1>1, <1>4, <2>1, AtIs, ByteFacts
  <2>3. <<3, 2>> \in Boundaries(u) /\ \A y \in Boundaries(u) : <<3, 2>>[1] <= y[1]
    BY <1>3, <2>2, BoundariesIn DEF Boundaries
  <2>4. FindBoundary(u) \in Boundaries(u) /\ FindBoundary(u)[1] <= 3
    BY <2>3 DEF FindBoundary
  <2>5. FindBoundary(u)[1] = 3 /\ FindBoundary(u)[2] = 2
    BY <1>3, <2>2, <2>4, BoundariesIn
  <2> QED BY <1>4, <2>3, <2>5
<1>5. CASE Len(f) = 6
  <2>1. u[3] = CR /\ u[4] = LF /\ u[5] = CR /\ u[6] = LF
    BY <1>1, <1>5 DEF FrameAt
  <2>2. 3 \in At(u, Dos) /\ 3 \notin At(u, Unix)
    BY <1>1, <1>5, <2>1, AtIs, ByteFacts
  <2>3. <<3, 4>> \in Boundaries(u) /\ \A y \in Boundaries(u) : <<3, 4>>[1] <= y[1]
    BY <1>3, <2>2, BoundariesIn DEF Boundaries
  <2>4. FindBoundary(u) \in Boundaries(u) /\ FindBoundary(u)[1] <= 3
    BY <2>3 DEF FindBoundary
  <2>5. FindBoundary(u)[1] = 3 /\ FindBoundary(u)[2] = 4
    BY <1>3, <2>2, <2>4, BoundariesIn
  <2> QED BY <1>5, <2>3, <2>5
<1> QED BY <1>1, <1>4, <1>5

LEMMA NoBoundary ==
  ASSUME NEW r \in Rests
  PROVE  Boundaries(r) = {}
<1>1. PICK e \in Names, k \in {4, 6} :
        Len(r) < k /\ \A n \in 1..Len(r) : r[n] = FrameAt(e, k, n)
  BY RestIs
<1>2. r \in Bytes /\ Len(r) \in Nat
  BY RestIs DEF Bytes
<1>3. ASSUME NEW i \in At(r, Unix) PROVE FALSE
  <2>1. i \in 1..(Len(r) - 1) /\ r[i] = LF /\ r[i + 1] = LF
    BY <1>2, AtIs
  <2>2. i \in 1..4 /\ i + 1 < k /\ FrameAt(e, k, i) = LF /\ FrameAt(e, k, i + 1) = LF
    BY <1>1, <1>2, <2>1
  <2>3. i \in {1, 2, 3, 4} /\ (k = 4 => i \in {1, 2})
    BY <1>1, <2>2
  <2> QED BY <1>1, <2>2, <2>3, ByteFacts DEF FrameAt
<1>4. ASSUME NEW i \in At(r, Dos) PROVE FALSE
  <2>1. i \in 1..(Len(r) - 3) /\ r[i] = CR
    BY <1>2, AtIs
  <2>2. i \in 1..2 /\ FrameAt(e, k, i) = CR
    BY <1>1, <1>2, <2>1
  <2>3. i \in {1, 2}
    BY <2>2
  <2> QED BY <2>2, <2>3, ByteFacts DEF FrameAt
<1> QED BY <1>3, <1>4 DEF Boundaries

(* The two parts of a concatenation.                                         *)
LEMMA ConcatParts ==
  ASSUME NEW Z, NEW a \in Seq(Z), NEW b \in Seq(Z)
  PROVE  /\ a \o b \in Seq(Z) /\ Len(a \o b) = Len(a) + Len(b)
         /\ SubSeq(a \o b, 1, Len(a)) = a
         /\ SubSeq(a \o b, Len(a) + 1, Len(a \o b)) = b
         /\ \A i \in 1..Len(a) : (a \o b)[i] = a[i]
         /\ \A i \in 1..Len(b) : (a \o b)[Len(a) + i] = b[i]
<1> DEFINE d == a \o b
           n == Len(a)
           x == SubSeq(d, 0 + 1, n)
           y == SubSeq(d, n + 1, Len(d))
<1>1. Len(a) \in Nat /\ Len(b) \in Nat
  BY LenProperties
<1>2. d \in Seq(Z) /\ Len(d) = Len(a) + Len(b)
      /\ \A i \in 1..(Len(a) + Len(b)) : d[i] = IF i <= Len(a) THEN a[i] ELSE b[i - Len(a)]
  BY ConcatProperties
<1> SUFFICES /\ Len(d) = Len(a) + Len(b) /\ x = a /\ y = b
             /\ \A i \in 1..Len(a) : d[i] = a[i]
             /\ \A i \in 1..Len(b) : d[Len(a) + i] = b[i]
  BY <1>2
<1> HIDE DEF d
<1>3. \A i \in 1..Len(a) : d[i] = a[i]
  BY <1>1, <1>2
<1>4. ASSUME NEW i \in 1..Len(b) PROVE d[Len(a) + i] = b[i]
  <2>1. Len(a) + i \in 1..(Len(a) + Len(b)) /\ ~(Len(a) + i <= Len(a)) /\ (Len(a) + i) - Len(a) = i
    BY <1>1
  <2> QED BY <1>2, <2>1
<1>5. 0 \in 0..Len(d) /\ n \in 0..Len(d) /\ Len(d) \in n..Len(d) /\ n \in 0..n
  BY <1>1, <1>2
<1>6. x \in Seq(Z) /\ Len(x) = n - 0 /\ \A i \in 1..(n - 0) : x[i] = d[0 + i]
  BY <1>2, <1>5, Slice
<1>7. y \in Seq(Z) /\ Len(y) = Len(d) - n /\ \A i \in 1..(Len(d) - n) : y[i] = d[n + i]
  BY <1>2, <1>5, Slice
<1> HIDE DEF x, y
<1>8. Len(x) = Len(a) /\ \A i \in 1..Len(x) : x[i] = a[i]
  BY <1>1, <1>3, <1>6
<1>9. Len(y) = Len(b) /\ \A i \in 1..Len(y) : y[i] = b[i]
  BY <1>1, <1>2, <1>4, <1>7
<1>10. x = a /\ y = b
  BY <1>6, <1>7, <1>8, <1>9, SeqEqual
<1> QED BY <1>2, <1>3, <1>4, <1>10

-----------------------------------------------------------------------------
(***************************************************************************)
(* The parser cuts whole frames and leaves the rest.                       *)
(***************************************************************************)
LEMMA CutAgainIs ==
  ASSUME NEW c, NEW byte
  PROVE  CutAgain(c, byte) = CutOne(c)
BY DEF CutAgain

LEMMA SplitAgainIs ==
  ASSUME NEW c, NEW byte
  PROVE  SplitAgain(c, byte) = SplitOne(c)
BY DEF SplitAgain

State(frames, left) == [frames |-> frames, buf |-> left]

LEMMA CutsFrame ==
  ASSUME NEW frames, NEW f \in WholeFrames, NEW t \in Bytes
  PROVE  CutOne(State(frames, f \o t)) = State(Append(frames, f), t)
<1> DEFINE u == f \o t
<1>1. PICK e \in Names : IsFrame(f, e)
  BY WholeFrameIs
<1>2. f \in Bytes /\ Len(f) \in {4, 6}
  BY <1>1 DEF IsFrame
<1>3. /\ u \in Bytes /\ Len(u) = Len(f) + Len(t)
      /\ SubSeq(u, 1, Len(f)) = f
      /\ SubSeq(u, Len(f) + 1, Len(u)) = t
      /\ \A n \in 1..Len(f) : u[n] = f[n]
  BY <1>2, ConcatParts DEF Bytes
<1> HIDE DEF u
<1>4. Len(t) \in Nat /\ Len(f) <= Len(u)
  BY <1>2, <1>3, LenProperties DEF Bytes
<1>5. Boundaries(u) # {} /\ FindBoundary(u)[1] + FindBoundary(u)[2] - 1 = Len(f)
  BY <1>1, <1>3, <1>4, FirstBoundary
<1>6. State(frames, u).buf = u /\ State(frames, u).frames = frames
  BY DEF State
<1>7. CutOne(State(frames, u)) = Split(State(frames, u), Len(f))
  BY <1>5, <1>6 DEF CutOne
<1>8. Split(State(frames, u), Len(f)) = State(Append(frames, f), t)
  BY <1>3, <1>6 DEF Split, State
<1> QED BY <1>7, <1>8 DEF u

LEMMA CutsNoRest ==
  ASSUME NEW frames, NEW r \in Rests
  PROVE  CutOne(State(frames, r)) = State(frames, r)
<1>1. State(frames, r).buf = r
  BY DEF State
<1> QED BY <1>1, NoBoundary DEF CutOne

LEMMA FramesAreBytes ==
  /\ WholeFrames \subseteq Bytes
  /\ Seq(WholeFrames) \subseteq Seq(Bytes)
  /\ \A f \in WholeFrames : f # <<>>
  /\ \A V \in Seq(WholeFrames) : FlattenSeq(V) \in Bytes /\ Len(V) <= Len(FlattenSeq(V))
<1>1. WholeFrames \subseteq Bytes /\ \A f \in WholeFrames : f # <<>>
  BY WholeFrameIs, EmptySeq DEF IsFrame, Bytes
<1>2. Seq(WholeFrames) \subseteq Seq(Bytes)
  BY <1>1, SeqMonotonic
<1>3. ASSUME NEW V \in Seq(WholeFrames)
      PROVE  FlattenSeq(V) \in Bytes /\ Len(V) <= Len(FlattenSeq(V))
  <2>1. V \in Seq(Seq(Byte))
    BY <1>2 DEF Bytes
  <2>2. \A i \in 1..Len(V) : V[i] # <<>>
    BY <1>1, ElementOfSeq
  <2> QED BY <2>1, <2>2, Flattened, FlattenLen DEF Bytes
<1> QED BY <1>1, <1>2, <1>3

LEMMA CutOfFlat ==
  ASSUME NEW V \in Seq(WholeFrames), NEW r \in Rests
  PROVE  Cut(FlattenSeq(V) \o r) = State(V, r)
<1> DEFINE u == FlattenSeq(V) \o r
           N == Len(u)
           Left(k) == FlattenSeq(SubSeq(V, k + 1, Len(V))) \o r
           After(k) == IF k <= Len(V) THEN State(SubSeq(V, 1, k), Left(k)) ELSE State(V, r)
<1>1. V \in Seq(Bytes) /\ FlattenSeq(V) \in Bytes /\ r \in Bytes /\ Len(V) <= Len(FlattenSeq(V))
      /\ Len(V) \in Nat
  BY FramesAreBytes, RestIs, LenProperties
<1>2. u \in Seq(Byte) /\ N \in Nat /\ Len(V) <= N
  <2>1. u \in Seq(Byte) /\ N = Len(FlattenSeq(V)) + Len(r)
    BY <1>1, ConcatProperties DEF Bytes
  <2>2. Len(r) \in Nat /\ Len(FlattenSeq(V)) \in Nat
    BY <1>1, LenProperties DEF Bytes
  <2> QED BY <1>1, <2>1, <2>2
<1>3. Cut(u) = Cuts!Fold(State(<<>>, u), u)
  BY DEF Cut, Cuts!Fold, FoldLeft, MapThenFoldSet, Cuts!MapThenFoldSet,
         Max, Cuts!Greatest, State
<1> HIDE DEF u, N
<1>4. PICK g : /\ g[0] = State(<<>>, u) /\ g[N] = Cuts!Fold(State(<<>>, u), u)
               /\ \A k \in 1..N : g[k] = CutAgain(g[k - 1], u[k])
  <2> DEFINE base == State(<<>>, u)
  <2> HIDE DEF base
  <2>1. \E g : /\ g[0] = base /\ g[Len(u)] = Cuts!Fold(base, u)
               /\ \A k \in 1..Len(u) : g[k] = CutAgain(g[k - 1], u[k])
    BY <1>2, Cuts!FoldSteps
  <2> QED BY <2>1 DEF N, base
<1> DEFINE T == {k \in 0..N : g[k] = After(k)}
<1>5. Left(Len(V)) = r
  <2>1. SubSeq(V, Len(V) + 1, Len(V)) = <<>>
    BY <1>1, SubSeqEmpty
  <2>2. FlattenSeq(<<>>) = <<>> /\ <<>> \o r = r
    BY <1>1, Flattened, ConcatEmptySeq DEF Bytes
  <2> QED BY <2>1, <2>2
<1>6. 0 \in T
  <2>1. SubSeq(V, 0 + 1, Len(V)) = V /\ SubSeq(V, 1, 0) = <<>>
    BY SubSeqFull, SubSeqEmpty
  <2>2. Left(0) = u
    BY <2>1 DEF u
  <2>3. 0 <= Len(V) /\ 0 \in 0..N
    BY <1>1, <1>2
  <2> HIDE DEF Left
  <2>4. After(0) = State(<<>>, u)
    BY <2>1, <2>2, <2>3
  <2> QED BY <1>4, <2>3, <2>4
<1>7. ASSUME NEW k \in 1..N, k - 1 \in T PROVE k \in T
  <2>1. g[k] = CutOne(After(k - 1)) /\ k \in Nat /\ k - 1 \in Nat
    <3>1. g[k] = CutAgain(g[k - 1], u[k]) /\ g[k - 1] = After(k - 1)
      BY <1>4, <1>7
    <3> HIDE DEF After
    <3> QED BY <1>2, <3>1, CutAgainIs
  <2>2. CASE k <= Len(V)
    <3>1. k \in 1..Len(V) /\ k - 1 <= Len(V) /\ (k - 1) + 1 = k /\ Len(V) \in k..Len(V)
      BY <1>1, <2>1, <2>2
    <3> DEFINE f == V[k]
               w == SubSeq(V, k + 1, Len(V))
               before == SubSeq(V, 1, k - 1)
    <3>2. f \in WholeFrames /\ before \in Seq(WholeFrames) /\ SubSeq(V, 1, k) = Append(before, f)
      BY <3>1, PrefixSteps
    <3>3. w \in Seq(WholeFrames)
      <4>1. k \in 0..Len(V)
        BY <1>1, <3>1
      <4> QED BY <3>1, <4>1, Slice
    <3>4. SubSeq(V, k, Len(V)) = <<f>> \o w
      BY <3>1, SubSeqRecursiveFirst
    <3>5. Left(k - 1) = (f \o FlattenSeq(w)) \o r
      <4>1. Left(k - 1) = FlattenSeq(<<f>> \o w) \o r
        BY <3>1, <3>4
      <4> HIDE DEF f, w
      <4>2. f \in Seq(Byte) /\ w \in Seq(Seq(Byte)) /\ <<f>> \in Seq(Seq(Byte))
        BY <3>2, <3>3, FramesAreBytes DEF Bytes
      <4>3. FlattenSeq(<<f>> \o w) = FlattenSeq(<<f>>) \o FlattenSeq(w)
        BY <4>2, FlattenConcat
      <4>4. FlattenSeq(<<f>>) = f
        BY <4>2, FlattenOne
      <4> QED BY <4>1, <4>3, <4>4
    <3>6. Left(k) = FlattenSeq(w) \o r
      OBVIOUS
    <3> HIDE DEF f, w, before, Left
    <3>7. f \in Seq(Byte) /\ FlattenSeq(w) \in Seq(Byte) /\ r \in Seq(Byte)
      BY <1>1, <3>2, <3>3, FramesAreBytes DEF Bytes
    <3>8. Left(k - 1) = f \o Left(k) /\ Left(k) \in Bytes
      <4> DEFINE z == FlattenSeq(w)
      <4>1. z \in Seq(Byte)
        BY <3>7
      <4> HIDE DEF z
      <4>2. Join(Join(f, z), r) = Join(f, Join(z, r))
        BY <3>7, <4>1, JoinsAssociate
      <4>3. z \o r \in Seq(Byte)
        BY <3>7, <4>1, ConcatProperties
      <4> QED BY <3>5, <3>6, <4>2, <4>3 DEF z, Join, Bytes
    <3>9. After(k - 1) = State(before, f \o Left(k))
      BY <3>1, <3>8 DEF before
    <3>10. CutOne(State(before, f \o Left(k))) = State(Append(before, f), Left(k))
      BY <3>2, <3>8, CutsFrame
    <3>11. After(k) = State(Append(before, f), Left(k))
      BY <2>2, <3>2
    <3> HIDE DEF After
    <3>12. g[k] = After(k)
      BY <2>1, <3>9, <3>10, <3>11
    <3> QED BY <1>2, <3>12
  <2>3. CASE ~(k <= Len(V))
    <3>1. After(k - 1) = State(V, r)
      <4>1. CASE k - 1 <= Len(V)
        <5>1. k - 1 = Len(V)
          BY <1>1, <2>1, <2>3, <4>1
        <5>2. SubSeq(V, 1, Len(V)) = V
          BY SubSeqFull
        <5> HIDE DEF Left
        <5> QED BY <1>5, <4>1, <5>1, <5>2
      <4>2. CASE ~(k - 1 <= Len(V))
        BY <4>2
      <4> QED BY <4>1, <4>2
    <3>2. CutOne(State(V, r)) = State(V, r)
      BY CutsNoRest
    <3>3. After(k) = State(V, r)
      BY <2>3
    <3> HIDE DEF After
    <3>4. g[k] = After(k)
      BY <2>1, <3>1, <3>2, <3>3
    <3> QED BY <1>2, <3>4
  <2> QED BY <2>2, <2>3
<1>8. T \subseteq 0..N
  OBVIOUS
<1>9. T = 0..N
  <2> HIDE DEF T
  <2> QED BY <1>2, <1>6, <1>7, <1>8, Joins!Inductive
<1>10. N \in T
  BY <1>2, <1>9
<1>11. After(N) = State(V, r)
  <2>1. CASE N <= Len(V)
    <3>1. N = Len(V)
      BY <1>1, <1>2, <2>1
    <3>2. SubSeq(V, 1, Len(V)) = V
      BY SubSeqFull
    <3> HIDE DEF Left
    <3> QED BY <1>5, <2>1, <3>1, <3>2
  <2>2. CASE ~(N <= Len(V))
    BY <2>2
  <2> QED BY <2>1, <2>2
<1> HIDE DEF After
<1> QED BY <1>3, <1>4, <1>10, <1>11 DEF u

-----------------------------------------------------------------------------
(***************************************************************************)
(* What frames say.                                                        *)
(***************************************************************************)
Speech ==
  {Event("data", c) : c \in Chunks} \cup {Event(is, None) : is \in {"done", "bad", "none"}}

LEMMA SaysSpeech ==
  ASSUME NEW e \in Names
  PROVE  Says(e) \in Speech
BY EventsAssumption DEF Says, Speech, Names, Event

(* A prefix of a frame of e.                                                 *)
IsRest(r, e) ==
  /\ r \in Bytes
  /\ \E k \in {4, 6} : Len(r) < k /\ \A n \in 1..Len(r) : r[n] = FrameAt(e, k, n)

HalvesOf(u) == {i \in 1..Len(u) : u[i].b = "half"}

LEMMA FrameBytesAre ==
  ASSUME NEW e \in Names, NEW k \in {4, 6}, NEW n \in 1..6
  PROVE  /\ n > 2 => FrameAt(e, k, n).b # "half"
         /\ FrameAt(e, k, 1) = Half(e, 1) /\ FrameAt(e, k, 2) = Half(e, 2)
BY ByteFacts DEF FrameAt

LEMMA MinMaxOfTwo ==
  /\ Min({1, 2}) = 1 /\ Max({1, 2}) = 2
  /\ Min({1}) = 1 /\ Max({1}) = 1
BY DEF Min, Max

LEMMA ParsesLine ==
  ASSUME NEW u, NEW e \in Names, HalvesOf(u) = {1, 2},
         u[1] = Half(e, 1), u[2] = Half(e, 2)
  PROVE  Parse(u) = Says(e)
<1>1. u[1].of = e /\ u[2].of = e
  BY ByteFacts
<1>2. CASE Kind[e] = "none"
  <2>1. \A i \in HalvesOf(u) : Kind[u[i].of] = "none"
    BY <1>1, <1>2
  <2>2. Parse(u) = Event("none", None)
    BY <2>1 DEF Parse, HalvesOf
  <2>3. Says(e) = Event("none", None)
    BY <1>2 DEF Says
  <2> QED BY <2>2, <2>3
<1>3. CASE Kind[e] # "none"
  <2>1. ~\A i \in HalvesOf(u) : Kind[u[i].of] = "none"
    BY <1>1, <1>3
  <2>2. Parse(u) = Says(e)
    BY <1>1, <2>1, MinMaxOfTwo DEF Parse, HalvesOf
  <2> QED BY <2>2
<1> QED BY <1>2, <1>3

LEMMA ParsesHalf ==
  ASSUME NEW u, NEW e \in Names, HalvesOf(u) = {1}, u[1] = Half(e, 1)
  PROVE  Parse(u) \in {Says(e), Event("bad", None)}
<1>1. u[1].of = e /\ Half(e, 1) # Half(e, 2)
  BY ByteFacts
<1>2. CASE Kind[e] = "none"
  <2>1. \A i \in HalvesOf(u) : Kind[u[i].of] = "none"
    BY <1>1, <1>2
  <2>2. Parse(u) = Event("none", None)
    BY <2>1 DEF Parse, HalvesOf
  <2>3. Says(e) = Event("none", None)
    BY <1>2 DEF Says
  <2> QED BY <2>2, <2>3
<1>3. CASE Kind[e] # "none"
  <2>1. ~\A i \in HalvesOf(u) : Kind[u[i].of] = "none"
    BY <1>1, <1>3
  <2>2. Parse(u) = Event("bad", None)
    BY <1>1, <2>1, MinMaxOfTwo DEF Parse, HalvesOf
  <2> QED BY <2>2
<1> QED BY <1>2, <1>3

LEMMA ParsesFrame ==
  ASSUME NEW f, NEW e \in Names, IsFrame(f, e)
  PROVE  Parse(f) = Says(e)
<1>1. Len(f) \in {4, 6} /\ \A n \in 1..Len(f) : f[n] = FrameAt(e, Len(f), n)
  BY DEF IsFrame
<1>2. f[1] = Half(e, 1) /\ f[2] = Half(e, 2) /\ 1 \in 1..Len(f) /\ 2 \in 1..Len(f)
  BY <1>1 DEF FrameAt
<1>3. HalvesOf(f) = {1, 2}
  <2>1. ASSUME NEW n \in HalvesOf(f) PROVE n \in {1, 2}
    <3>1. n \in 1..Len(f) /\ n \in 1..6 /\ FrameAt(e, Len(f), n).b = "half"
      BY <1>1, <2>1 DEF HalvesOf
    <3>2. ~(n > 2)
      BY <1>1, <3>1, FrameBytesAre
    <3> QED BY <3>1, <3>2
  <2>2. 1 \in HalvesOf(f) /\ 2 \in HalvesOf(f)
    BY <1>2, ByteFacts DEF HalvesOf
  <2> QED BY <2>1, <2>2
<1> QED BY <1>2, <1>3, ParsesLine

LEMMA ParsesRest ==
  ASSUME NEW r, NEW e \in Names, IsRest(r, e), r # <<>>
  PROVE  /\ Parse(r) = Says(e) \/ (Len(r) = 1 /\ Parse(r) = Event("bad", None))
         /\ Trailing(r) = <<r>>
         /\ Len(r) \in 1..5
         /\ r[1] = Half(e, 1)
         /\ Len(r) # 1 => r[2] = Half(e, 2)
         /\ \A n \in 1..Len(r) : r[n].b = "half" => n \in {1, 2}
<1>1. PICK k \in {4, 6} : Len(r) < k /\ \A n \in 1..Len(r) : r[n] = FrameAt(e, k, n)
  BY DEF IsRest
<1>2. Len(r) \in 1..5
  <2>1. Len(r) \in Nat \ {0}
    BY EmptySeq DEF IsRest, Bytes
  <2> DEFINE m == Len(r)
  <2>2. m \in Nat /\ m # 0 /\ m < k
    BY <1>1, <2>1
  <2> HIDE DEF m
  <2>3. m \in 1..5
    BY <2>2
  <2> QED BY <2>3 DEF m
<1>3. r[1] = Half(e, 1) /\ (Len(r) # 1 => r[2] = Half(e, 2))
  BY <1>1, <1>2 DEF FrameAt
<1>4. ASSUME NEW n \in 1..Len(r), r[n].b = "half" PROVE n \in {1, 2}
  <2>1. n \in 1..6 /\ FrameAt(e, k, n).b = "half"
    BY <1>1, <1>2, <1>4
  <2>2. ~(n > 2)
    BY <2>1, FrameBytesAre
  <2> QED BY <1>2, <2>1, <2>2
<1>5. Trailing(r) = <<r>>
  <2>1. 1 \in 1..Len(r) /\ r[1].b = "half"
    BY <1>2, <1>3, ByteFacts
  <2> QED BY <2>1 DEF Trailing
<1>6. CASE Len(r) = 1
  <2>1. HalvesOf(r) = {1}
    BY <1>3, <1>6, ByteFacts DEF HalvesOf
  <2>2. Parse(r) \in {Says(e), Event("bad", None)}
    BY <1>3, <2>1, ParsesHalf
  <2> QED BY <1>2, <1>3, <1>4, <1>5, <1>6, <2>2
<1>7. CASE Len(r) # 1
  <2>1. HalvesOf(r) = {1, 2}
    <3>1. 1 \in HalvesOf(r) /\ 2 \in HalvesOf(r)
      BY <1>2, <1>3, <1>7, ByteFacts DEF HalvesOf
    <3> QED BY <1>4, <3>1 DEF HalvesOf
  <2>2. Parse(r) = Says(e)
    BY <1>3, <1>7, <2>1, ParsesLine
  <2> QED BY <1>2, <1>3, <1>4, <1>5, <1>7, <2>2
<1> QED BY <1>6, <1>7

LEMMA RestOfSome ==
  ASSUME NEW r \in Rests
  PROVE  \E e \in Names : IsRest(r, e)
BY RestIs DEF IsRest

LEMMA RestOf ==
  ASSUME NEW f \in WholeFrames, NEW e \in Names, IsFrame(f, e), NEW r \in Bytes,
         Len(r) < Len(f), \A n \in 1..Len(r) : r[n] = f[n]
  PROVE  r \in Rests /\ IsRest(r, e)
<1>1. r \in Rests
  BY DEF Rests
<1>2. Len(f) \in {4, 6} /\ (\A n \in 1..Len(f) : f[n] = FrameAt(e, Len(f), n)) /\ Len(r) \in Nat
  BY LenProperties DEF IsFrame, Bytes
<1>3. \A n \in 1..Len(r) : n \in 1..Len(f)
  BY <1>2
<1>4. \A n \in 1..Len(r) : r[n] = FrameAt(e, Len(f), n)
  BY <1>2, <1>3
<1> QED BY <1>1, <1>2, <1>4 DEF IsRest

LEMMA EventsTyped ==
  ASSUME NEW V \in Seq(WholeFrames)
  PROVE  Events(V) \in Seq(Speech)
<1>1. \A i \in 1..Len(V) : Parse(V[i]) \in Speech
  BY WholeFrameIs, ParsesFrame, ElementOfSeq, SaysSpeech
<1>2. Len(V) \in Nat
  BY LenProperties
<1> QED BY <1>1, <1>2 DEF Events

LEMMA EventsConcat ==
  ASSUME NEW Z, NEW a \in Seq(Z), NEW b \in Seq(Z)
  PROVE  Events(a \o b) = Events(a) \o Events(b)
<1> DEFINE P == {Parse(z) : z \in Z}
           x == Events(a \o b)
           y == Events(a) \o Events(b)
<1>1. Len(a) \in Nat /\ Len(b) \in Nat /\ (\A i \in 1..Len(a) : a[i] \in Z)
      /\ (\A i \in 1..Len(b) : b[i] \in Z)
  BY LenProperties, ElementOfSeq
<1>2. /\ Events(a) \in Seq(P) /\ Len(Events(a)) = Len(a)
      /\ \A i \in 1..Len(a) : Events(a)[i] = Parse(a[i])
  BY <1>1 DEF Events
<1>3. /\ Events(b) \in Seq(P) /\ Len(Events(b)) = Len(b)
      /\ \A i \in 1..Len(b) : Events(b)[i] = Parse(b[i])
  BY <1>1 DEF Events
<1>4. /\ a \o b \in Seq(Z) /\ Len(a \o b) = Len(a) + Len(b)
      /\ \A i \in 1..(Len(a) + Len(b)) : (a \o b)[i] = IF i <= Len(a) THEN a[i] ELSE b[i - Len(a)]
  BY ConcatProperties
<1>5. \A i \in 1..(Len(a) + Len(b)) : (a \o b)[i] \in Z
  BY <1>4, ElementOfSeq
<1>6. /\ x \in Seq(P) /\ Len(x) = Len(a) + Len(b)
      /\ \A i \in 1..(Len(a) + Len(b)) : x[i] = Parse((a \o b)[i])
  <2>1. Events(a \o b) = [i \in 1..(Len(a) + Len(b)) |-> Parse((a \o b)[i])]
    BY <1>4 DEF Events
  <2> DEFINE d == a \o b
             N == Len(a) + Len(b)
  <2>2. N \in Nat /\ \A i \in 1..N : Parse(d[i]) \in P
    BY <1>1, <1>5
  <2>3. x = [i \in 1..N |-> Parse(d[i])]
    BY <2>1
  <2> HIDE DEF d, N, x, P
  <2>4. x \in Seq(P) /\ Len(x) = N /\ \A i \in 1..N : x[i] = Parse(d[i])
    BY <2>2, <2>3
  <2> QED BY <2>4 DEF d, N
<1> DEFINE c == Events(a)
           d == Events(b)
<1>7. /\ y \in Seq(P) /\ Len(y) = Len(a) + Len(b)
      /\ \A i \in 1..(Len(a) + Len(b)) : y[i] = IF i <= Len(a) THEN c[i] ELSE d[i - Len(a)]
  <2>0. c \in Seq(P) /\ d \in Seq(P) /\ Len(c) = Len(a) /\ Len(d) = Len(b)
    BY <1>2, <1>3
  <2> HIDE DEF c, d, P
  <2>1. /\ c \o d \in Seq(P) /\ Len(c \o d) = Len(c) + Len(d)
        /\ \A i \in 1..(Len(c) + Len(d)) :
             (c \o d)[i] = IF i <= Len(c) THEN c[i] ELSE d[i - Len(c)]
    BY <2>0, ConcatProperties
  <2>2. y = c \o d
    BY DEF c, d
  <2> HIDE DEF y
  <2> QED BY <2>0, <2>1, <2>2
<1> HIDE DEF x, y, c, d, P
<1>8. ASSUME NEW i \in 1..(Len(a) + Len(b)) PROVE x[i] = y[i]
  <2>1. CASE i <= Len(a)
    <3>1. i \in 1..Len(a)
      BY <1>1, <2>1
    <3> QED BY <1>2, <1>4, <1>6, <1>7, <2>1, <3>1 DEF c
  <2>2. CASE ~(i <= Len(a))
    <3>1. i - Len(a) \in 1..Len(b)
      BY <1>1, <2>2
    <3> QED BY <1>3, <1>4, <1>6, <1>7, <2>2, <3>1 DEF d
  <2> QED BY <2>1, <2>2
<1>9. x = y
  BY <1>6, <1>7, <1>8, SeqEqual
<1> QED BY <1>9 DEF x, y

-----------------------------------------------------------------------------
(***************************************************************************)
(* The assembler.                                                          *)
(***************************************************************************)
Calls == [name : STRING \cup {None}, args : Seq(STRING)]
Answers == [content : Seq(STRING), finished : BOOLEAN, tools : Seq(Calls)]
Assembled ==
  [done : BOOLEAN, error : BOOLEAN, bad : BOOLEAN, usage : Nat, choices : Seq(Answers)]

LEMMA WidenedIs ==
  ASSUME NEW S, NEW s \in Seq(S), NEW n \in Nat \ {0}, NEW blank \in S
  PROVE  /\ Widened(s, n, blank) \in Seq(S)
         /\ n \in 1..Len(Widened(s, n, blank))
         /\ Widened(s, n, blank)[n] \in S
         /\ Len(s) = n - 1 => Widened(s, n, blank) = Append(s, blank)
<1>1. Len(s) \in Nat
  BY LenProperties
<1>2. CASE Len(s) >= n
  BY <1>1, <1>2, ElementOfSeq DEF Widened
<1>3. CASE ~(Len(s) >= n)
  <2> DEFINE k == n - Len(s)
             t == [i \in 1..k |-> blank]
             w == s \o t
  <2>1. k \in Nat \ {0} /\ Len(s) + k = n
    BY <1>1, <1>3
  <2>2. t \in Seq(S) /\ Len(t) = k
    <3> HIDE DEF k
    <3> QED BY <2>1
  <2>3. w \in Seq(S) /\ Len(w) = Len(s) + Len(t)
    <3> HIDE DEF t
    <3> QED BY <2>2, ConcatProperties
  <2>4. Widened(s, n, blank) = w
    BY <1>3 DEF Widened
  <2>5. ASSUME Len(s) = n - 1 PROVE w = Append(s, blank)
    <3>1. k = 1
      BY <1>1, <2>5
    <3>2. t = <<blank>>
      <4> HIDE DEF k
      <4> QED BY <3>1
    <3> HIDE DEF t
    <3> QED BY <3>2, AppendIsConcat
  <2> HIDE DEF w, t, k
  <2>6. n \in 1..Len(w)
    BY <1>1, <2>1, <2>2, <2>3
  <2> QED BY <2>3, <2>4, <2>5, <2>6, ElementOfSeq
<1> QED BY <1>2, <1>3

LEMMA ToolTyped ==
  ASSUME NEW tools \in Seq(Calls), NEW t \in CallDeltas
  PROVE  IngestTool(tools, t) \in Seq(Calls)
<1> DEFINE k == IF t.index = None THEN 1 ELSE t.index + 1
           w == Widened(tools, k, NoTool)
           new == [name |-> IF w[k].name = None THEN t.name ELSE w[k].name,
                   args |-> w[k].args \o t.args]
<1>1. k \in Nat \ {0}
  BY DEF CallDeltas
<1>2. NoTool \in Calls
  BY EmptySeq DEF NoTool, Calls
<1> HIDE DEF k
<1>3. w \in Seq(Calls) /\ k \in 1..Len(w) /\ w[k] \in Calls
  BY <1>1, <1>2, WidenedIs
<1>4. IngestTool(tools, t) = [w EXCEPT ![k] = new]
  BY DEF IngestTool, k
<1> HIDE DEF w
<1>5. w[k].args \o t.args \in Seq(STRING)
  <2>1. w[k].args \in Seq(STRING) /\ t.args \in Seq(STRING)
    BY <1>3 DEF Calls, CallDeltas
  <2> QED BY <2>1, ConcatProperties
<1>6. new \in Calls
  BY <1>3, <1>5 DEF Calls, CallDeltas
<1> HIDE DEF new
<1> QED BY <1>3, <1>4, <1>6, ExceptSeq

ToolsOf(tools, ts) == FoldLeft(IngestTool, tools, ts)

LEMMA ToolsFold ==
  ASSUME NEW tools, NEW ts
  PROVE  ToolsOf(tools, ts) = Tools!Fold(tools, ts)
BY DEF ToolsOf, Tools!Fold, FoldLeft, MapThenFoldSet, Tools!MapThenFoldSet,
       Max, Tools!Greatest

LEMMA ToolsTyped ==
  ASSUME NEW tools \in Seq(Calls), NEW ts \in Seq(CallDeltas)
  PROVE  ToolsOf(tools, ts) \in Seq(Calls)
<1>1. \A a \in Seq(Calls), e \in CallDeltas : IngestTool(a, e) \in Seq(Calls)
  BY ToolTyped
<1>2. Tools!Fold(tools, ts) \in Seq(Calls)
  BY <1>1, Tools!FoldTyped
<1> QED BY <1>2, ToolsFold

(* A choice, once there is room for it.                                      *)
Heard(old, c) ==
  [content |-> old.content \o c.content,
   finished |-> old.finished \/ c.finish,
   tools |-> ToolsOf(old.tools, c.tools)]

LEMMA HeardTyped ==
  ASSUME NEW old \in Answers, NEW c \in ChoiceDeltas
  PROVE  Heard(old, c) \in Answers
<1>1. old.content \in Seq(STRING) /\ c.content \in Seq(STRING)
      /\ old.tools \in Seq(Calls) /\ c.tools \in Seq(CallDeltas)
      /\ old.finished \in BOOLEAN /\ c.finish \in BOOLEAN
  BY DEF Answers, ChoiceDeltas
<1>2. old.content \o c.content \in Seq(STRING)
  BY <1>1, ConcatProperties
<1>3. ToolsOf(old.tools, c.tools) \in Seq(Calls)
  BY <1>1, ToolsTyped
<1>4. (old.finished \/ c.finish) \in BOOLEAN
  OBVIOUS
<1> QED BY <1>2, <1>3, <1>4 DEF Heard, Answers

LEMMA NoChoiceTyped == NoChoice \in Answers
BY EmptySeq DEF NoChoice, Answers

LEMMA ChoiceIs ==
  ASSUME NEW choices \in Seq(Answers), NEW c \in ChoiceDeltas
  PROVE  /\ IngestChoice(choices, c)
              = [Widened(choices, c.index + 1, NoChoice) EXCEPT ![c.index + 1] =
                   Heard(Widened(choices, c.index + 1, NoChoice)[c.index + 1], c)]
         /\ IngestChoice(choices, c) \in Seq(Answers)
<1> DEFINE k == c.index + 1
           w == Widened(choices, k, NoChoice)
<1>1. k \in Nat \ {0}
  BY DEF ChoiceDeltas
<1>2. IngestChoice(choices, c) = [w EXCEPT ![k] = Heard(w[k], c)]
  BY DEF IngestChoice, Heard, ToolsOf
<1> HIDE DEF k
<1>3. w \in Seq(Answers) /\ k \in 1..Len(w) /\ w[k] \in Answers
  BY <1>1, NoChoiceTyped, WidenedIs
<1> HIDE DEF w
<1>4. Heard(w[k], c) \in Answers
  BY <1>3, HeardTyped
<1>5. [w EXCEPT ![k] = Heard(w[k], c)] \in Seq(Answers)
  BY <1>3, <1>4, ExceptSeq
<1> QED BY <1>2, <1>5 DEF w, k

ChoicesOf(choices, cs) == FoldLeft(IngestChoice, choices, cs)

LEMMA ChoicesFold ==
  ASSUME NEW choices, NEW cs
  PROVE  ChoicesOf(choices, cs) = Deltas!Fold(choices, cs)
BY DEF ChoicesOf, Deltas!Fold, FoldLeft, MapThenFoldSet, Deltas!MapThenFoldSet, Max, Deltas!Greatest

LEMMA ChoicesTyped ==
  ASSUME NEW choices \in Seq(Answers), NEW cs \in Seq(ChoiceDeltas)
  PROVE  ChoicesOf(choices, cs) \in Seq(Answers)
<1>1. \A a \in Seq(Answers), e \in ChoiceDeltas : IngestChoice(a, e) \in Seq(Answers)
  BY ChoiceIs
<1>2. Deltas!Fold(choices, cs) \in Seq(Answers)
  BY <1>1, Deltas!FoldTyped
<1> QED BY <1>2, ChoicesFold

LEMMA NoChoicesHeard ==
  ASSUME NEW choices
  PROVE  ChoicesOf(choices, <<>>) = choices
<1>1. Deltas!Fold(choices, <<>>) = choices
  BY Deltas!FoldEmpty
<1> QED BY <1>1, ChoicesFold

LEMMA IngestIs ==
  ASSUME NEW acc \in Assembled, NEW ev \in Speech
  PROVE  /\ Ingest(acc, ev) \in Assembled
         /\ acc.done => Ingest(acc, ev).done
         /\ acc.error => Ingest(acc, ev).error
         /\ acc.bad => Ingest(acc, ev).bad
         /\ ev.is = "none" => Ingest(acc, ev) = acc
         /\ ev.is = "done" => Ingest(acc, ev) = [acc EXCEPT !.done = TRUE]
         /\ ev.is = "bad" => Ingest(acc, ev) = [acc EXCEPT !.bad = TRUE]
         /\ ev.is = "data" /\ ev.chunk.error => Ingest(acc, ev) = [acc EXCEPT !.error = TRUE]
         /\ ev.is = "data" /\ ~ev.chunk.error =>
              \E n \in Nat : Ingest(acc, ev) =
                [acc EXCEPT !.usage = n, !.choices = ChoicesOf(@, ev.chunk.choices)]
<1>1. CASE ev.is = "data" /\ ~ev.chunk.error
  <2>1. ev.chunk \in Chunks
    BY <1>1 DEF Speech, Event
  <2> DEFINE n == IF ev.chunk.usage \in {None, 0} THEN acc.usage ELSE ev.chunk.usage
             cs == ChoicesOf(acc.choices, ev.chunk.choices)
  <2>2. n \in Nat
    BY <2>1 DEF Chunks, Assembled
  <2>3. cs \in Seq(Answers)
    BY <2>1, ChoicesTyped DEF Chunks, Assembled
  <2>4. Ingest(acc, ev) = [acc EXCEPT !.usage = n, !.choices = cs]
    BY <1>1 DEF Ingest, ChoicesOf
  <2> HIDE DEF n, cs
  <2>5. [acc EXCEPT !.usage = n, !.choices = cs] \in Assembled
    BY <2>2, <2>3 DEF Assembled
  <2>6. /\ [acc EXCEPT !.usage = n, !.choices = cs].done = acc.done
        /\ [acc EXCEPT !.usage = n, !.choices = cs].error = acc.error
        /\ [acc EXCEPT !.usage = n, !.choices = cs].bad = acc.bad
    BY DEF Assembled
  <2>7. \E m \in Nat : Ingest(acc, ev) =
          [acc EXCEPT !.usage = m, !.choices = ChoicesOf(@, ev.chunk.choices)]
    BY <2>2, <2>4 DEF cs
  <2> QED BY <1>1, <2>4, <2>5, <2>6, <2>7
<1>2. CASE ev.is = "data" /\ ev.chunk.error
  <2>1. Ingest(acc, ev) = [acc EXCEPT !.error = TRUE]
    BY <1>2 DEF Ingest
  <2> QED BY <1>2, <2>1 DEF Assembled
<1>3. CASE ev.is = "none"
  <2>1. Ingest(acc, ev) = acc
    BY <1>3 DEF Ingest
  <2> QED BY <1>3, <2>1
<1>4. CASE ev.is = "done"
  <2>1. Ingest(acc, ev) = [acc EXCEPT !.done = TRUE]
    BY <1>4 DEF Ingest
  <2> QED BY <1>4, <2>1 DEF Assembled
<1>5. CASE ev.is = "bad"
  <2>1. Ingest(acc, ev) = [acc EXCEPT !.bad = TRUE]
    BY <1>5 DEF Ingest
  <2> QED BY <1>5, <2>1 DEF Assembled
<1>6. ev.is \in {"data", "none", "done", "bad"}
  BY DEF Speech, Event
<1> QED BY <1>1, <1>2, <1>3, <1>4, <1>5, <1>6

Ingested(acc, evs) == FoldLeft(Ingest, acc, evs)

LEMMA IngestedFold ==
  ASSUME NEW acc, NEW evs
  PROVE  Ingested(acc, evs) = Ingests!Fold(acc, evs)
BY DEF Ingested, Ingests!Fold, FoldLeft, MapThenFoldSet, Ingests!MapThenFoldSet, Max, Ingests!Greatest

LEMMA IngestedIs ==
  /\ \A acc : Ingested(acc, <<>>) = acc
  /\ \A acc \in Assembled, evs \in Seq(Speech) : Ingested(acc, evs) \in Assembled
  /\ \A acc \in Assembled, evs \in Seq(Speech), ev \in Speech :
       Ingested(acc, Append(evs, ev)) = Ingest(Ingested(acc, evs), ev)
  /\ \A acc \in Assembled, s \in Seq(Speech), t \in Seq(Speech) :
       Ingested(acc, s \o t) = Ingested(Ingested(acc, s), t)
  /\ \A acc \in Assembled, ev \in Speech : Ingested(acc, <<ev>>) = Ingest(acc, ev)
<1>1. \A acc : Ingested(acc, <<>>) = acc
  BY IngestedFold, Ingests!FoldEmpty
<1>2. ASSUME NEW acc \in Assembled, NEW evs \in Seq(Speech)
      PROVE  Ingested(acc, evs) \in Assembled
  <2>1. \A a \in Assembled, e \in Speech : Ingest(a, e) \in Assembled
    BY IngestIs
  <2>2. Ingests!Fold(acc, evs) \in Assembled
    BY <2>1, Ingests!FoldTyped
  <2> QED BY <2>2, IngestedFold
<1>3. ASSUME NEW acc \in Assembled, NEW evs \in Seq(Speech), NEW ev \in Speech
      PROVE  Ingested(acc, Append(evs, ev)) = Ingest(Ingested(acc, evs), ev)
  <2>1. Ingests!Fold(acc, Append(evs, ev)) = Ingest(Ingests!Fold(acc, evs), ev)
    BY Ingests!FoldAppend
  <2> QED BY <2>1, IngestedFold
<1>4. ASSUME NEW acc \in Assembled, NEW s \in Seq(Speech), NEW t \in Seq(Speech)
      PROVE  Ingested(acc, s \o t) = Ingested(Ingested(acc, s), t)
  <2>1. Ingests!Fold(acc, s \o t) = Ingests!Fold(Ingests!Fold(acc, s), t)
    BY Ingests!FoldConcat
  <2> QED BY <2>1, IngestedFold
<1>5. ASSUME NEW acc \in Assembled, NEW ev \in Speech
      PROVE  Ingested(acc, <<ev>>) = Ingest(acc, ev)
  <2>1. <<>> \in Seq(Speech) /\ Append(<<>>, ev) = <<ev>>
    OBVIOUS
  <2> QED BY <1>1, <1>3, <2>1
<1> QED BY <1>1, <1>2, <1>3, <1>4, <1>5

LEMMA NoDeltasTyped == NoDeltas \in Assembled
BY EmptySeq DEF NoDeltas, Assembled

(* Usage aside, the same answer, or none because of an error.                *)
Alike(a, b) ==
  \/ b.error
  \/ a.done = b.done /\ a.error = b.error /\ a.bad = b.bad /\ a.choices = b.choices

LEMMA IngestAlike ==
  ASSUME NEW a \in Assembled, NEW b \in Assembled, Alike(a, b), NEW ev \in Speech
  PROVE  /\ Alike(Ingest(a, ev), Ingest(b, ev))
         /\ IsUsageOnly(ev) => Alike(a, Ingest(b, ev))
<1>1. CASE b.error
  BY <1>1, IngestIs DEF Alike
<1>2. CASE ~b.error
  <2>0. a.done = b.done /\ a.error = b.error /\ a.bad = b.bad /\ a.choices = b.choices
    BY <1>2 DEF Alike
  <2>1. Alike(Ingest(a, ev), Ingest(b, ev))
    <3>1. CASE ev.is = "data" /\ ~ev.chunk.error
      <4>1. PICK n \in Nat : Ingest(a, ev) =
              [a EXCEPT !.usage = n, !.choices = ChoicesOf(@, ev.chunk.choices)]
        BY <3>1, IngestIs
      <4>2. PICK m \in Nat : Ingest(b, ev) =
              [b EXCEPT !.usage = m, !.choices = ChoicesOf(@, ev.chunk.choices)]
        BY <3>1, IngestIs
      <4> QED BY <2>0, <4>1, <4>2 DEF Alike, Assembled
    <3>2. CASE ~(ev.is = "data" /\ ~ev.chunk.error)
      <4>1. CASE ev.is = "data" /\ ev.chunk.error
        <5>1. Ingest(b, ev) = [b EXCEPT !.error = TRUE]
          BY <4>1, IngestIs
        <5> QED BY <5>1 DEF Alike, Assembled
      <4>2. CASE ev.is = "none"
        <5>1. Ingest(a, ev) = a /\ Ingest(b, ev) = b
          BY <4>2, IngestIs
        <5> QED BY <2>0, <5>1 DEF Alike
      <4>3. CASE ev.is = "done"
        <5>1. Ingest(a, ev) = [a EXCEPT !.done = TRUE] /\ Ingest(b, ev) = [b EXCEPT !.done = TRUE]
          BY <4>3, IngestIs
        <5> QED BY <2>0, <5>1 DEF Alike, Assembled
      <4>4. CASE ev.is = "bad"
        <5>1. Ingest(a, ev) = [a EXCEPT !.bad = TRUE] /\ Ingest(b, ev) = [b EXCEPT !.bad = TRUE]
          BY <4>4, IngestIs
        <5> QED BY <2>0, <5>1 DEF Alike, Assembled
      <4>5. ev.is \in {"data", "none", "done", "bad"}
        BY DEF Speech, Event
      <4> QED BY <3>2, <4>1, <4>2, <4>3, <4>4, <4>5
    <3> QED BY <3>1, <3>2
  <2>2. ASSUME IsUsageOnly(ev) PROVE Alike(a, Ingest(b, ev))
    <3>1. ev.is = "data" /\ ev.chunk.choices = <<>>
      BY <2>2 DEF IsUsageOnly
    <3>2. CASE ev.chunk.error
      <4>1. Ingest(b, ev) = [b EXCEPT !.error = TRUE]
        BY <3>1, <3>2, IngestIs
      <4> QED BY <4>1 DEF Alike, Assembled
    <3>3. CASE ~ev.chunk.error
      <4>1. PICK m \in Nat : Ingest(b, ev) =
              [b EXCEPT !.usage = m, !.choices = ChoicesOf(@, ev.chunk.choices)]
        BY <3>1, <3>3, IngestIs
      <4>2. ChoicesOf(b.choices, ev.chunk.choices) = b.choices
        BY <3>1, NoChoicesHeard
      <4> QED BY <2>0, <4>1, <4>2 DEF Alike, Assembled
    <3> QED BY <3>2, <3>3
  <2> QED BY <2>1, <2>2
<1> QED BY <1>1, <1>2

-----------------------------------------------------------------------------
(***************************************************************************)
(* A provider's stream, part by part.                                      *)
(***************************************************************************)
Parts(s) == [i \in 1..Len(s) |-> FrameBytes(s[i])]

Terminated(s, n) == \A i \in 1..n : s[i].end # <<>>

LEMMA ScriptIs ==
  ASSUME NEW s \in Scripts
  PROVE  /\ Len(s) \in Nat
         /\ \A i \in 1..Len(s) : s[i].ev \in Names /\ s[i].end \in {Unix, Dos, <<>>}
         /\ \A i \in 1..Len(s) : s[i].end = <<>> => i = Len(s)
<1>1. s \in Seq([ev : DOMAIN Kind, end : {Unix, Dos, <<>>}])
      /\ \A i \in 1..(Len(s) - 1) : s[i].end # <<>>
  BY ScriptsAssumption
<1> DEFINE S == [ev : DOMAIN Kind, end : {Unix, Dos, <<>>}]
<1>2. Len(s) \in Nat /\ \A i \in 1..Len(s) : s[i] \in S
  <2> HIDE DEF S
  <2>1. s \in Seq(S)
    BY <1>1 DEF S
  <2> QED BY <2>1, LenProperties, ElementOfSeq
<1>3. \A i \in 1..Len(s) : i \in 1..(Len(s) - 1) \/ i = Len(s)
  BY <1>2
<1> QED BY <1>1, <1>2, <1>3 DEF Names

LEMMA WholeFrame ==
  ASSUME NEW e \in Names, NEW end \in {Unix, Dos}
  PROVE  Payload(e) \o end \in WholeFrames
BY DEF WholeFrames

LEMMA PartIs ==
  ASSUME NEW s \in Scripts, NEW i \in 1..Len(s)
  PROVE  /\ s[i].ev \in Names
         /\ Parts(s)[i] = Payload(s[i].ev) \o s[i].end
         /\ s[i].end # <<>> => Parts(s)[i] \in WholeFrames /\ IsFrame(Parts(s)[i], s[i].ev)
         /\ s[i].end = <<>> => Parts(s)[i] = Payload(s[i].ev) /\ i = Len(s)
         /\ Parts(s)[i] \in Bytes
<1>1. s[i].ev \in Names /\ s[i].end \in {Unix, Dos, <<>>} /\ (s[i].end = <<>> => i = Len(s))
  BY ScriptIs
<1>2. Parts(s)[i] = Payload(s[i].ev) \o s[i].end
  BY DEF Parts, FrameBytes
<1>3. CASE s[i].end # <<>>
  <2>1. Parts(s)[i] \in WholeFrames
    BY <1>1, <1>2, <1>3, WholeFrame
  <2>2. IsFrame(Parts(s)[i], s[i].ev)
    BY <1>1, <1>2, <1>3, FrameIs
  <2> QED BY <1>1, <1>2, <1>3, <2>1, <2>2, FramesAreBytes
<1>4. CASE s[i].end = <<>>
  <2> DEFINE h == Payload(s[i].ev)
  <2>1. h \in Seq(Byte)
    BY <1>1, PayloadFacts DEF Bytes
  <2> HIDE DEF h
  <2>2. h \o <<>> = h
    BY <2>1, ConcatEmptySeq
  <2>3. Parts(s)[i] = Payload(s[i].ev)
    BY <1>2, <1>4, <2>2 DEF h
  <2> QED BY <1>1, <1>2, <1>4, <2>1, <2>3 DEF Bytes, h
<1> QED BY <1>3, <1>4

LEMMA PartsTyped ==
  ASSUME NEW s \in Scripts
  PROVE  /\ Parts(s) \in Seq(Seq(Byte)) /\ Len(Parts(s)) = Len(s)
         /\ ScriptBytes(s) = FlattenSeq(Parts(s)) /\ ScriptBytes(s) \in Seq(Byte)
<1>1. Len(s) \in Nat /\ \A i \in 1..Len(s) : Parts(s)[i] \in Seq(Byte)
  BY ScriptIs, PartIs DEF Bytes
<1>2. Parts(s) \in Seq(Seq(Byte)) /\ Len(Parts(s)) = Len(s)
  BY <1>1 DEF Parts
<1> QED BY <1>2, Flattened DEF ScriptBytes, Parts

LEMMA EmptyRest == <<>> \in Rests
<1>1. DoneEvent \in Names
  BY ScriptsAssumption DEF Names
<1>2. Payload(DoneEvent) \o Unix \in WholeFrames
  BY <1>1 DEF WholeFrames
<1>3. Len(Payload(DoneEvent) \o Unix) > 0
  BY <1>1, FrameIs DEF IsFrame
<1>4. <<>> \in Bytes /\ Len(<<>>) = 0 /\ \A n : n \notin 1..0
  BY EmptySeq DEF Bytes
<1> QED BY <1>2, <1>3, <1>4 DEF Rests

(* What is held of a stream of which n frames are taken.                     *)
Held(s, n, r) ==
  /\ r \in Rests
  /\ r # <<>> => n < Len(s) /\ IsRest(r, s[n + 1].ev)
  /\ n < Len(s) => Len(r) < Len(Parts(s)[n + 1]) \/ s[n + 1].end = <<>>

LEMMA LargestOf ==
  ASSUME NEW N \in Nat, NEW M, M \subseteq 0..N, M # {}
  PROVE  \E m \in M : \A k \in M : k <= m
<1> DEFINE U == {N - k : k \in M}
<1>1. U \subseteq Nat /\ U # {}
  <2>1. \A k \in M : N - k \in Nat
    OBVIOUS
  <2>2. PICK k \in M : TRUE
    OBVIOUS
  <2>3. N - k \in U
    OBVIOUS
  <2> QED BY <2>1, <2>3
<1>2. PICK x \in U : \A y \in U : x <= y
  <2> HIDE DEF U
  <2> QED BY <1>1, Joins!LeastOfNaturals
<1>3. PICK m \in M : x = N - m
  OBVIOUS
<1>4. ASSUME NEW k \in M PROVE k <= m
  <2>1. N - k \in U
    OBVIOUS
  <2>2. N - m <= N - k
    <3> HIDE DEF U
    <3> QED BY <1>2, <1>3, <2>1
  <2>3. k \in Int /\ m \in Int
    OBVIOUS
  <2> HIDE DEF U
  <2> QED BY <2>2, <2>3
<1> QED BY <1>4

(* However much has been read, it is so many frames and a rest.              *)
LEMMA Place ==
  ASSUME NEW s \in Scripts, NEW n \in 0..Len(s), Terminated(s, n), NEW p \in Nat,
         EndOf(Parts(s), n) <= p, p <= Len(ScriptBytes(s))
  PROVE  \E m \in n..Len(s) :
           /\ Terminated(s, m)
           /\ EndOf(Parts(s), m) \in Nat /\ EndOf(Parts(s), m) <= p
           /\ Held(s, m, SubSeq(ScriptBytes(s), EndOf(Parts(s), m) + 1, p))
<1> DEFINE t == Parts(s)
           B == ScriptBytes(s)
           M == {k \in n..Len(s) : Terminated(s, k) /\ EndOf(t, k) <= p}
<1>1. /\ Len(s) \in Nat /\ n \in Nat
      /\ t \in Seq(Seq(Byte)) /\ Len(t) = Len(s) /\ B = FlattenSeq(t) /\ B \in Seq(Byte)
  BY ScriptIs, PartsTyped
<1>2. PICK m \in M : \A k \in M : k <= m
  <2>1. M \subseteq 0..Len(s)
    BY <1>1
  <2>2. n \in M
    BY <1>1
  <2> HIDE DEF M
  <2> QED BY <1>1, <2>1, <2>2, LargestOf
<1>3. m \in n..Len(s) /\ m \in Nat /\ m <= Len(s) /\ Terminated(s, m) /\ EndOf(t, m) <= p
  BY <1>1
<1> DEFINE a == EndOf(t, m)
           r == SubSeq(B, a + 1, p)
<1> HIDE DEF t, B
<1>4. a \in Nat /\ a <= Len(FlattenSeq(t))
  <2>1. m \in 0..Len(t) /\ m \in m..Len(t)
    BY <1>1, <1>3
  <2> QED BY <1>1, <2>1, FlattenSlice
<1>5. /\ r \in Seq(Byte) /\ Len(r) = p - a
      /\ \A i \in 1..(p - a) : r[i] = B[a + i]
  <2>1. a \in 0..Len(B) /\ p \in a..Len(B)
    BY <1>1, <1>3, <1>4 DEF B
  <2> HIDE DEF a
  <2> QED BY <1>1, <2>1, Slice
<1> SUFFICES Held(s, m, r)
  BY <1>3, <1>4 DEF t, B
<1> HIDE DEF r
<1>6. CASE m = Len(s)
  <2>1. a = Len(B)
    BY <1>1, <1>6, FlattenEnds
  <2>2. Len(r) = 0
    BY <1>3, <1>4, <1>5, <2>1 DEF B
  <2>3. r = <<>>
    BY <1>5, <2>2, EmptySeq
  <2> QED BY <1>6, <2>3, EmptyRest, <1>1 DEF Held
<1>7. CASE m # Len(s)
  <2>1. m \in 0..(Len(t) - 1) /\ m + 1 \in 1..Len(s) /\ m < Len(s) /\ m + 1 \in n..Len(s)
    BY <1>1, <1>3, <1>7
  <2> DEFINE f == t[m + 1]
             e == s[m + 1].ev
             b == EndOf(t, m + 1)
  <2>2. /\ f \in Seq(Byte) /\ b = a + Len(f) /\ b <= Len(B)
        /\ f = SubSeq(B, a + 1, b)
    BY <1>1, <2>1, FlattenPart
  <2>3. /\ e \in Names
        /\ f = Payload(e) \o s[m + 1].end
        /\ s[m + 1].end # <<>> => f \in WholeFrames /\ IsFrame(f, e)
        /\ s[m + 1].end = <<>> => f = Payload(e) /\ m + 1 = Len(s)
    BY <2>1, PartIs DEF t
  <2> HIDE DEF f, e, b
  <2> DEFINE l == Len(f)
             c == Len(B)
             d == Len(r)
  <2>4. a \in Nat /\ l \in Nat /\ b = a + l /\ b <= c /\ a <= c /\ d = p - a /\ a <= p /\ p <= c
        /\ c \in Nat /\ a <= b /\ b \in Nat
    <3>1. l \in Nat /\ c \in Nat
      BY <1>1, <2>2, LenProperties
    <3>2. a \in Nat /\ a <= c /\ a <= p /\ p <= c /\ d = p - a /\ b = a + l /\ b <= c
      BY <1>1, <1>3, <1>4, <1>5, <2>2 DEF B
    <3> HIDE DEF a, l, c, d
    <3> QED BY <3>1, <3>2
  <2>5. \A i \in 1..Len(f) : f[i] = B[a + i]
    <3>1. a \in 0..Len(B) /\ b \in a..Len(B) /\ b - a = Len(f)
      <4>1. a \in 0..c /\ b \in a..c /\ b - a = l
        <5> HIDE DEF a, c, l
        <5> QED BY <2>4
      <4> QED BY <4>1
    <3> DEFINE g == SubSeq(B, a + 1, b)
    <3>2. \A i \in 1..(b - a) : g[i] = B[a + i]
      <4> HIDE DEF a
      <4> QED BY <1>1, <3>1, Slice
    <3> HIDE DEF g
    <3> QED BY <2>2, <3>1, <3>2 DEF g
  <2>6. CASE s[m + 1].end # <<>>
    <3>1. p < b
      <4>1. SUFFICES ASSUME ~(p < b) PROVE FALSE
        OBVIOUS
      <4>2. b <= p
        <5> HIDE DEF a, c, l
        <5> QED BY <2>4, <4>1
      <4>3. Terminated(s, m + 1)
        BY <1>3, <2>6 DEF Terminated
      <4>4. m + 1 \in M
        BY <2>1, <4>2, <4>3 DEF b
      <4>5. ~(m + 1 <= m)
        BY <1>3
      <4> HIDE DEF M
      <4> QED BY <1>2, <4>4, <4>5
    <3>2. Len(r) < Len(f) /\ \A i \in 1..Len(r) : i \in 1..Len(f) /\ i \in 1..(p - a)
      <4>1. d < l /\ d = p - a /\ \A i \in 1..d : i \in 1..l
        <5> HIDE DEF a, c, l, d
        <5> QED BY <2>4, <3>1
      <4> QED BY <4>1
    <3>3. \A i \in 1..Len(r) : r[i] = f[i]
      BY <1>5, <2>5, <3>2
    <3>4. r \in Rests /\ IsRest(r, e)
      BY <1>5, <2>3, <2>6, <3>2, <3>3, RestOf DEF Bytes
    <3> QED BY <2>1, <3>2, <3>4 DEF Held, e, f, t
  <2>7. CASE s[m + 1].end = <<>>
    <3> DEFINE g == Payload(e) \o Unix
    <3>1. g \in WholeFrames /\ IsFrame(g, e) /\ Len(g) = 4
      <4>1. e \in Names /\ Unix \in {Unix, Dos}
        BY <2>3
      <4>2. g \in WholeFrames
        BY <4>1, WholeFrame
      <4>3. IsFrame(g, e) /\ Len(g) = 2 + Len(Unix)
        BY <4>1, FrameIs
      <4>4. 2 + Len(Unix) = 4
        BY EndFacts
      <4> QED BY <4>2, <4>3, <4>4
    <3>2. Len(f) = 2 /\ \A i \in 1..2 : g[i] = f[i]
      <4> DEFINE h == Payload(e)
      <4>1. h \in Seq(Byte) /\ Unix \in Seq(Byte) /\ Len(h) = 2
        BY <2>3, PayloadFacts, EndFacts DEF Bytes
      <4>2. f = h
        BY <2>3, <2>7
      <4> HIDE DEF h
      <4>3. \A i \in 1..Len(h) : (h \o Unix)[i] = h[i]
        BY <4>1, ConcatParts
      <4> QED BY <4>1, <4>2, <4>3 DEF h
    <3> HIDE DEF g
    <3>3. b = Len(B)
      BY <1>1, <2>3, <2>7, FlattenEnds DEF b
    <3>4. Len(r) <= 2 /\ \A i \in 1..Len(r) : i \in 1..2 /\ i \in 1..(p - a)
      <4>1. d <= 2 /\ d = p - a /\ \A i \in 1..d : i \in 1..2
        <5>1. l = 2 /\ b = c
          BY <3>2, <3>3
        <5> HIDE DEF a, c, l, d
        <5> QED BY <2>4, <5>1
      <4> QED BY <4>1
    <3>5. \A i \in 1..Len(r) : r[i] = g[i]
      BY <1>5, <2>5, <3>2, <3>4
    <3>6. Len(r) < Len(g)
      BY <1>5, <3>1, <3>4, LenProperties
    <3>7. r \in Rests /\ IsRest(r, e)
      BY <1>5, <2>3, <3>1, <3>5, <3>6, RestOf DEF Bytes
    <3> QED BY <2>1, <2>7, <3>7 DEF Held, e
  <2> QED BY <2>6, <2>7
<1> QED BY <1>6, <1>7

(* What a client sees of frames, and what n frames of a stream say.          *)
Hidden(inj, frame) == inj /\ IsUsageOnly(Parse(frame))
Seen(inj, t) == [i \in 1..Len(t) |-> IF Hidden(inj, t[i]) THEN <<>> ELSE t[i]]
SeenOf(s, inj, n) == FlattenSeq(SubSeq(Seen(inj, Parts(s)), 1, n))
AsmOf(s, n) == Ingested(NoDeltas, Events(SubSeq(Parts(s), 1, n)))

LEMMA SeenSlice ==
  ASSUME NEW inj, NEW t \in Seq(Seq(Byte)), NEW n \in 0..Len(t), NEW m \in n..Len(t)
  PROVE  /\ Seen(inj, t) \in Seq(Seq(Byte)) /\ Len(Seen(inj, t)) = Len(t)
         /\ Seen(inj, SubSeq(t, n + 1, m)) = SubSeq(Seen(inj, t), n + 1, m)
<1> DEFINE a == SubSeq(t, n + 1, m)
           x == Seen(inj, t)
           y == Seen(inj, a)
           z == SubSeq(x, n + 1, m)
           k == m - n
<1>1. Len(t) \in Nat /\ n \in Nat /\ k \in Nat /\ \A i \in 1..Len(t) : t[i] \in Seq(Byte)
  BY LenProperties, ElementOfSeq
<1>2. a \in Seq(Seq(Byte)) /\ Len(a) = k /\ \A i \in 1..k : a[i] = t[n + i]
  BY Slice
<1>3. <<>> \in Seq(Byte)
  BY EmptySeq
<1>4. x \in Seq(Seq(Byte)) /\ Len(x) = Len(t)
      /\ \A i \in 1..Len(t) : x[i] = IF Hidden(inj, t[i]) THEN <<>> ELSE t[i]
  BY <1>1, <1>3 DEF Seen
<1> HIDE DEF a
<1>5. \A i \in 1..Len(a) : a[i] \in Seq(Byte)
  BY <1>2, ElementOfSeq
<1>6. y \in Seq(Seq(Byte)) /\ Len(y) = k
      /\ \A i \in 1..k : y[i] = IF Hidden(inj, a[i]) THEN <<>> ELSE a[i]
  BY <1>1, <1>2, <1>3, <1>5 DEF Seen
<1> HIDE DEF x, y
<1>7. z \in Seq(Seq(Byte)) /\ Len(z) = k /\ \A i \in 1..k : z[i] = x[n + i]
  <2>1. n \in 0..Len(x) /\ m \in n..Len(x)
    BY <1>4
  <2> QED BY <1>4, <2>1, Slice
<1> HIDE DEF z
<1>8. \A i \in 1..k : n + i \in 1..Len(t)
  BY <1>1
<1>9. \A i \in 1..k : y[i] = z[i]
  BY <1>2, <1>4, <1>6, <1>7, <1>8
<1> HIDE DEF k
<1>10. y = z
  BY <1>6, <1>7, <1>9, SeqEqual
<1> QED BY <1>4, <1>10 DEF a, x, y, z

LEMMA FramesSlice ==
  ASSUME NEW s \in Scripts, NEW n \in 0..Len(s), NEW m \in n..Len(s), Terminated(s, m)
  PROVE  /\ SubSeq(Parts(s), n + 1, m) \in Seq(WholeFrames)
         /\ SubSeq(Parts(s), 1, m) \in Seq(WholeFrames)
<1>0. Len(s) \in Nat /\ n \in Nat /\ m \in Nat
  BY ScriptIs
<1>1. ASSUME NEW i \in 1..m PROVE Parts(s)[i] \in WholeFrames
  <2>1. i \in 1..Len(s) /\ s[i].end # <<>>
    BY <1>0 DEF Terminated
  <2> QED BY <2>1, PartIs
<1> DEFINE k == n + 1
<1>2. k \in Int /\ m \in Int /\ 1 \in Int /\ \A i \in k..m : Parts(s)[i] \in WholeFrames
  BY <1>0, <1>1
<1> HIDE DEF k
<1>3. SubSeq(Parts(s), k, m) \in Seq(WholeFrames) /\ SubSeq(Parts(s), 1, m) \in Seq(WholeFrames)
  BY <1>1, <1>2, SubSeqProperties
<1> QED BY <1>3 DEF k

LEMMA MoreFrames ==
  ASSUME NEW s \in Scripts, NEW inj, NEW n \in 0..Len(s), NEW m \in n..Len(s),
         Terminated(s, m)
  PROVE  /\ AsmOf(s, m) = Ingested(AsmOf(s, n), Events(SubSeq(Parts(s), n + 1, m)))
         /\ SeenOf(s, inj, m)
              = SeenOf(s, inj, n) \o FlattenSeq(Seen(inj, SubSeq(Parts(s), n + 1, m)))
         /\ AsmOf(s, m) \in Assembled
         /\ SeenOf(s, inj, m) \in Bytes
<1> DEFINE t == Parts(s)
           x == Seen(inj, t)
           F == SubSeq(t, n + 1, m)
           before == SubSeq(t, 1, n)
           all == SubSeq(t, 1, m)
<1>0. Len(s) \in Nat /\ n \in Nat /\ m \in 0..Len(s) /\ m \in m..Len(s) /\ n \in 0..Len(s)
      /\ n \in n..Len(s)
  BY ScriptIs
<1>1. t \in Seq(Seq(Byte)) /\ Len(t) = Len(s)
  BY PartsTyped
<1>2. F \in Seq(WholeFrames) /\ all \in Seq(WholeFrames)
  BY FramesSlice
<1>3. before \in Seq(WholeFrames)
  <2>1. Terminated(s, n)
    BY <1>0 DEF Terminated
  <2> QED BY <1>0, <2>1, FramesSlice
<1> HIDE DEF t
<1>4. all = before \o F
  <2>1. n \in 0..Len(t) /\ m \in n..Len(t)
    BY <1>0, <1>1
  <2> QED BY <1>1, <2>1, FlattenSlice
<1> HIDE DEF F, before, all
<1>5. Events(all) = Events(before) \o Events(F)
  BY <1>2, <1>3, <1>4, EventsConcat
<1>6. Events(before) \in Seq(Speech) /\ Events(F) \in Seq(Speech) /\ Events(all) \in Seq(Speech)
  BY <1>2, <1>3, EventsTyped
<1> DEFINE E == Events(before)
           G == Events(F)
<1>7. Ingested(NoDeltas, E \o G) = Ingested(Ingested(NoDeltas, E), G)
      /\ Ingested(NoDeltas, Events(all)) \in Assembled
  <2> HIDE DEF E, G
  <2> QED BY <1>6, IngestedIs, NoDeltasTyped DEF E, G
<1>8. AsmOf(s, m) = Ingested(AsmOf(s, n), Events(F)) /\ AsmOf(s, m) \in Assembled
  BY <1>5, <1>7 DEF AsmOf, all, before, t
<1>9. x \in Seq(Seq(Byte)) /\ Len(x) = Len(s) /\ Seen(inj, F) = SubSeq(x, n + 1, m)
  BY <1>1, SeenSlice DEF F
<1> HIDE DEF x
<1>10. /\ SubSeq(x, 1, m) = SubSeq(x, 1, n) \o SubSeq(x, n + 1, m)
       /\ SubSeq(x, 1, n) \in Seq(Seq(Byte)) /\ SubSeq(x, n + 1, m) \in Seq(Seq(Byte))
  <2>1. n \in 0..Len(x) /\ m \in n..Len(x)
    BY <1>0, <1>9
  <2> QED BY <1>9, <2>1, FlattenSlice
<1> DEFINE b == SubSeq(x, 1, n)
           c == SubSeq(x, n + 1, m)
<1>11. FlattenSeq(b \o c) = FlattenSeq(b) \o FlattenSeq(c) /\ FlattenSeq(b) \in Seq(Byte)
       /\ FlattenSeq(c) \in Seq(Byte)
  <2>1. b \in Seq(Seq(Byte)) /\ c \in Seq(Seq(Byte))
    BY <1>10
  <2> HIDE DEF b, c
  <2> QED BY <2>1, FlattenConcat, Flattened
<1>12. SeenOf(s, inj, m) = SeenOf(s, inj, n) \o FlattenSeq(Seen(inj, F))
  BY <1>9, <1>10, <1>11 DEF SeenOf, x, t
<1>13. SeenOf(s, inj, m) \in Bytes
  <2>1. SeenOf(s, inj, m) = FlattenSeq(b) \o FlattenSeq(c)
    BY <1>10, <1>11 DEF SeenOf, x, t
  <2> HIDE DEF b, c
  <2> QED BY <1>11, <2>1, ConcatProperties DEF Bytes
<1> QED BY <1>8, <1>12, <1>13 DEF F, t

LEMMA NoFrames ==
  ASSUME NEW s \in Scripts, NEW inj
  PROVE  /\ AsmOf(s, 0) = NoDeltas /\ SeenOf(s, inj, 0) = <<>> /\ EndOf(Parts(s), 0) = 0
         /\ Terminated(s, 0) /\ Held(s, 0, <<>>) /\ 0 \in 0..Len(s)
<1>1. Len(s) \in Nat
  BY ScriptIs
<1>2. \A t : SubSeq(t, 1, 0) = <<>>
  BY SubSeqEmpty
<1>3. Events(<<>>) = <<>>
  BY DEF Events
<1>4. AsmOf(s, 0) = NoDeltas
  BY <1>2, <1>3, IngestedIs DEF AsmOf
<1>5. SeenOf(s, inj, 0) = <<>> /\ EndOf(Parts(s), 0) = 0
  BY <1>2, Flattened, EmptySeq DEF SeenOf, EndOf
<1>6. Held(s, 0, <<>>)
  <2>1. ASSUME 0 < Len(s) PROVE Len(<<>>) < Len(Parts(s)[0 + 1]) \/ s[0 + 1].end = <<>>
    <3>1. 1 \in 1..Len(s) /\ 0 + 1 = 1
      BY <1>1, <2>1
    <3>2. CASE s[1].end # <<>>
      <4> DEFINE k == Len(Parts(s)[1])
                 z == Len(<<>>)
      <4>1. k \in {4, 6}
        BY <3>1, <3>2, PartIs DEF IsFrame
      <4>2. z = 0
        BY EmptySeq
      <4> HIDE DEF k, z
      <4>3. z < k
        BY <4>1, <4>2
      <4>4. Len(<<>>) < Len(Parts(s)[1])
        BY <4>3 DEF k, z
      <4> QED BY <3>1, <4>4
    <3> QED BY <3>1, <3>2
  <2> QED BY <2>1, EmptyRest DEF Held
<1> QED BY <1>1, <1>4, <1>5, <1>6 DEF Terminated

(* What a read makes of what was held and the bytes it brings.               *)
LEMMA ReadCuts ==
  ASSUME NEW s \in Scripts, NEW n \in 0..Len(s), Terminated(s, n), NEW p \in Nat, NEW q \in Nat,
         EndOf(Parts(s), n) <= p, p <= q, q <= Len(ScriptBytes(s))
  PROVE  \E m \in n..Len(s) :
           LET r == SubSeq(ScriptBytes(s), EndOf(Parts(s), m) + 1, q)
           IN  /\ Terminated(s, m) /\ EndOf(Parts(s), m) \in Nat /\ EndOf(Parts(s), m) <= q
               /\ Held(s, m, r)
               /\ Cut(SubSeq(ScriptBytes(s), EndOf(Parts(s), n) + 1, p)
                      \o SubSeq(ScriptBytes(s), p + 1, q))
                    = State(SubSeq(Parts(s), n + 1, m), r)
<1> DEFINE t == Parts(s)
           B == ScriptBytes(s)
<1>0. t \in Seq(Seq(Byte)) /\ Len(t) = Len(s) /\ B = FlattenSeq(t) /\ B \in Seq(Byte)
      /\ Len(B) \in Nat /\ Len(s) \in Nat
  BY PartsTyped, LenProperties, ScriptIs
<1>1. EndOf(t, n) <= q
  <2>1. EndOf(t, n) \in Nat
    <3>1. n \in n..Len(t) /\ n \in 0..Len(t)
      BY <1>0
    <3> HIDE DEF t
    <3> QED BY <1>0, <3>1, FlattenSlice
  <2> DEFINE a == EndOf(t, n)
  <2>2. a \in Nat /\ a <= p
    BY <2>1
  <2> HIDE DEF a
  <2>3. a <= q
    BY <2>2
  <2> QED BY <2>3 DEF a
<1>2. PICK m \in n..Len(s) :
           /\ Terminated(s, m)
           /\ EndOf(t, m) \in Nat /\ EndOf(t, m) <= q
           /\ Held(s, m, SubSeq(B, EndOf(t, m) + 1, q))
  BY <1>1, Place
<1> DEFINE a == EndOf(t, n)
           b == EndOf(t, m)
           r == SubSeq(B, b + 1, q)
           F == SubSeq(t, n + 1, m)
<1>3. F \in Seq(WholeFrames)
  BY <1>2, FramesSlice
<1>4. a \in Nat /\ b \in Nat /\ a <= b /\ b <= Len(B) /\ FlattenSeq(F) = SubSeq(B, a + 1, b)
  <2> HIDE DEF t
  <2> QED BY <1>0, FlattenSlice
<1>5. SubSeq(B, a + 1, q) = SubSeq(B, a + 1, p) \o SubSeq(B, p + 1, q)
  <2>1. a \in 0..Len(B) /\ p \in a..Len(B) /\ q \in p..Len(B)
    <3>1. a <= p /\ p <= q /\ q <= Len(B)
      OBVIOUS
    <3> HIDE DEF a, B
    <3> QED BY <1>0, <1>4, <3>1
  <2> HIDE DEF a, B
  <2> QED BY <1>0, <2>1, SlicesJoin
<1>6. SubSeq(B, a + 1, q) = SubSeq(B, a + 1, b) \o r
  <2>1. a \in 0..Len(B) /\ b \in a..Len(B) /\ q \in b..Len(B)
    <3>1. b <= q /\ q <= Len(B)
      BY <1>2
    <3> HIDE DEF a, b, B
    <3> QED BY <1>0, <1>4, <3>1
  <2> HIDE DEF a, b, B
  <2> QED BY <1>0, <2>1, SlicesJoin
<1>7. Cut(FlattenSeq(F) \o r) = State(F, r)
  <2>1. r \in Rests
    BY <1>2 DEF Held
  <2> HIDE DEF F, r
  <2> QED BY <1>3, <2>1, CutOfFlat
<1>8. Cut(SubSeq(B, a + 1, p) \o SubSeq(B, p + 1, q)) = State(F, r)
  <2> HIDE DEF a, b, B, F
  <2> QED BY <1>4, <1>5, <1>6, <1>7
<1> QED BY <1>2, <1>8

(* Hiding usage frames leaves whole frames and the same answer.              *)
LEMMA SeenIs ==
  ASSUME NEW s \in Scripts, NEW inj, NEW n \in 0..Len(s), Terminated(s, n)
  PROVE  \E V \in Seq(WholeFrames) :
           /\ FlattenSeq(V) = SeenOf(s, inj, n)
           /\ \A i \in 1..Len(V) : ~Hidden(inj, V[i])
           /\ Alike(Ingested(NoDeltas, Events(V)), AsmOf(s, n))
<1> DEFINE Good(k, V) == /\ FlattenSeq(V) = SeenOf(s, inj, k)
                         /\ \A i \in 1..Len(V) : ~Hidden(inj, V[i])
                         /\ Alike(Ingested(NoDeltas, Events(V)), AsmOf(s, k))
           T == {k \in 0..n : \E V \in Seq(WholeFrames) : Good(k, V)}
<1>0. Len(s) \in Nat /\ n \in Nat
  BY ScriptIs
<1>1. 0 \in T
  <2>1. <<>> \in Seq(WholeFrames) /\ Len(<<>>) = 0 /\ Events(<<>>) = <<>>
    BY EmptySeq DEF Events
  <2>2. Good(0, <<>>)
    BY <2>1, NoFrames, Flattened, IngestedIs DEF Alike
  <2>3. \E V \in Seq(WholeFrames) : Good(0, V)
    <3> HIDE DEF Good
    <3> QED BY <2>1, <2>2
  <2>4. 0 \in 0..n
    BY <1>0
  <2> HIDE DEF Good
  <2> QED BY <2>3, <2>4
<1>2. ASSUME NEW k \in 1..n, k - 1 \in T PROVE k \in T
  <2> DEFINE j == k - 1
             f == Parts(s)[k]
             ev == Parse(f)
  <2>1. PICK V \in Seq(WholeFrames) : Good(j, V)
    BY <1>2
  <2>2. k \in 1..Len(s) /\ j \in 0..Len(s) /\ k \in j..Len(s) /\ j + 1 = k /\ Terminated(s, k)
    BY <1>0 DEF Terminated
  <2>3. f \in WholeFrames /\ ev \in Speech /\ f \in Seq(Byte)
    <3>1. s[k].end # <<>>
      BY <2>2 DEF Terminated
    <3>2. f \in WholeFrames /\ IsFrame(f, s[k].ev) /\ s[k].ev \in Names
      BY <2>2, <3>1, PartIs
    <3> QED BY <3>2, ParsesFrame, SaysSpeech, FramesAreBytes DEF Bytes
  <2>4. SubSeq(Parts(s), j + 1, k) = <<f>>
    <3>1. SubSeq(Parts(s), j + 1, k) \in Seq(Seq(Byte)) /\ Len(SubSeq(Parts(s), j + 1, k)) = k - j
          /\ \A i \in 1..(k - j) : SubSeq(Parts(s), j + 1, k)[i] = Parts(s)[j + i]
      <4> DEFINE t == Parts(s)
      <4>1. t \in Seq(Seq(Byte)) /\ Len(t) = Len(s)
        BY PartsTyped
      <4> HIDE DEF j, t
      <4>2. j \in 0..Len(t) /\ k \in j..Len(t)
        BY <2>2, <4>1
      <4>3. SubSeq(t, j + 1, k) \in Seq(Seq(Byte)) /\ Len(SubSeq(t, j + 1, k)) = k - j
            /\ \A i \in 1..(k - j) : SubSeq(t, j + 1, k)[i] = t[j + i]
        BY <4>1, <4>2, Slice
      <4> QED BY <4>3 DEF t
    <3> DEFINE y == SubSeq(Parts(s), j + 1, k)
               z == <<f>>
    <3>2. y \in Seq(Seq(Byte)) /\ z \in Seq(Seq(Byte)) /\ Len(y) = 1 /\ Len(z) = 1 /\ y[1] = z[1]
      BY <2>3, <3>1
    <3> HIDE DEF y, z
    <3>3. Len(y) = Len(z) /\ \A i \in 1..Len(y) : y[i] = z[i]
      BY <3>2
    <3>4. y = z
      BY <3>2, <3>3, SeqEqual
    <3> QED BY <3>4 DEF y, z
  <2> DEFINE acc == AsmOf(s, j)
             here0 == SeenOf(s, inj, j)
             mine == Ingested(NoDeltas, Events(V))
  <2>5. /\ AsmOf(s, k) = Ingested(acc, Events(<<f>>))
        /\ SeenOf(s, inj, k) = here0 \o FlattenSeq(Seen(inj, <<f>>))
        /\ here0 \in Bytes /\ acc \in Assembled
    <3>1. Terminated(s, j) /\ j \in j..Len(s)
      BY <1>0, <2>2 DEF Terminated
    <3> HIDE DEF j, f
    <3> QED BY <2>2, <2>4, <3>1, MoreFrames
  <2>6. AsmOf(s, k) = Ingest(acc, ev)
    <3>1. Events(<<f>>) = <<ev>>
      BY DEF Events
    <3> HIDE DEF f, ev, acc
    <3> QED BY <2>3, <2>5, <3>1, IngestedIs
  <2>7. Events(V) \in Seq(Speech) /\ mine \in Assembled /\ Alike(mine, acc)
    BY <2>1, EventsTyped, IngestedIs, NoDeltasTyped
  <2>8. CASE Hidden(inj, f)
    <3>1. Seen(inj, <<f>>) = <<(<<>>)>>
      BY <2>8 DEF Seen
    <3>2. <<>> \in Seq(Byte) /\ FlattenSeq(<<(<<>>)>>) = <<>>
      <4> DEFINE x == <<>>
      <4>1. x \in Seq(Byte)
        BY EmptySeq
      <4> HIDE DEF x
      <4>2. FlattenSeq(<<x>>) = x
        BY <4>1, FlattenOne
      <4> QED BY <4>1, <4>2 DEF x
    <3>3. SeenOf(s, inj, k) = here0
      <4>1. SeenOf(s, inj, k) = here0 \o <<>>
        BY <2>5, <3>1, <3>2
      <4> HIDE DEF here0
      <4> QED BY <2>5, <4>1, ConcatEmptySeq DEF Bytes
    <3>4. Alike(mine, AsmOf(s, k))
      <4>1. IsUsageOnly(ev)
        BY <2>8 DEF Hidden
      <4> HIDE DEF mine, acc, ev
      <4> QED BY <2>3, <2>5, <2>6, <2>7, <4>1, IngestAlike
    <3>5. Good(k, V)
      BY <2>1, <3>3, <3>4
    <3> QED BY <3>5
  <2>9. CASE ~Hidden(inj, f)
    <3> DEFINE W == Append(V, f)
    <3>1. Seen(inj, <<f>>) = <<f>> /\ FlattenSeq(<<f>>) = f
      <4>1. Seen(inj, <<f>>) = <<f>>
        BY <2>9 DEF Seen
      <4> HIDE DEF f
      <4> QED BY <2>3, <4>1, FlattenOne
    <3>2. /\ W \in Seq(WholeFrames) /\ Len(W) = Len(V) + 1
          /\ \A i \in 1..Len(V) : W[i] = V[i]
          /\ W[Len(V) + 1] = f
      BY <2>3, AppendProperties
    <3>3. FlattenSeq(W) = SeenOf(s, inj, k)
      <4>1. V \in Seq(Seq(Byte)) /\ f \in Seq(Byte)
        BY <2>3, FramesAreBytes DEF Bytes
      <4>2. FlattenSeq(V) = here0
        BY <2>1
      <4> HIDE DEF f
      <4>3. FlattenSeq(W) = FlattenSeq(V) \o f
        BY <4>1, Flattened
      <4> QED BY <2>5, <3>1, <4>2, <4>3
    <3>4. \A i \in 1..Len(W) : ~Hidden(inj, W[i])
      <4>1. Len(V) \in Nat /\ \A i \in 1..Len(V) : ~Hidden(inj, V[i])
        BY <2>1, LenProperties
      <4> HIDE DEF W, f
      <4>2. \A i \in 1..(Len(V) + 1) : i \in 1..Len(V) \/ i = Len(V) + 1
        BY <4>1
      <4> QED BY <2>9, <3>2, <4>1, <4>2
    <3>5. Events(W) = Append(Events(V), ev)
      <4> DEFINE o == <<f>>
      <4>1. W = V \o o /\ Events(o) = <<ev>> /\ o \in Seq(WholeFrames)
        <5>1. Events(o) = <<ev>> /\ o \in Seq(WholeFrames)
          BY <2>3 DEF Events
        <5> HIDE DEF f
        <5> QED BY <2>3, <5>1, AppendIsConcat
      <4> HIDE DEF W, o, ev
      <4>2. Events(V \o o) = Events(V) \o Events(o)
        BY <4>1, EventsConcat
      <4> QED BY <2>3, <2>7, <4>1, <4>2, AppendIsConcat
    <3>6. Ingested(NoDeltas, Events(W)) = Ingest(mine, ev)
      <4> HIDE DEF W, ev
      <4> QED BY <2>3, <2>7, <3>5, IngestedIs, NoDeltasTyped
    <3>7. Alike(Ingest(mine, ev), Ingest(acc, ev))
      <4> HIDE DEF mine, acc, ev
      <4> QED BY <2>3, <2>5, <2>7, IngestAlike
    <3>8. Good(k, W)
      <4> HIDE DEF W
      <4> QED BY <2>6, <3>3, <3>4, <3>6, <3>7
    <3> HIDE DEF W, Good
    <3> QED BY <3>2, <3>8
  <2> QED BY <2>8, <2>9
<1>3. T \subseteq 0..n
  OBVIOUS
<1>4. T = 0..n
  <2> HIDE DEF T
  <2> QED BY <1>0, <1>1, <1>2, <1>3, Joins!Inductive
<1>5. n \in T
  <2> HIDE DEF T
  <2> QED BY <1>0, <1>4
<1> QED BY <1>5

-----------------------------------------------------------------------------
(***************************************************************************)
(* The tee's inductive invariant.                                          *)
(***************************************************************************)
(* While the tee reads, it has taken n frames and holds the bytes after them.*)
Reading(s, inj, p, left, raw, acc) ==
  \E n \in 0..Len(s) :
    /\ Terminated(s, n)
    /\ EndOf(Parts(s), n) <= p
    /\ left = SubSeq(ScriptBytes(s), EndOf(Parts(s), n) + 1, p)
    /\ Held(s, n, left)
    /\ raw = SeenOf(s, inj, n)
    /\ acc = AsmOf(s, n)

(* Afterwards it has taken what was left as well.                            *)
Ended(s, inj, raw, acc) ==
  \E n \in 0..Len(s), r \in Rests :
    /\ Terminated(s, n)
    /\ Held(s, n, r)
    /\ raw = SeenOf(s, inj, n) \o r
    /\ acc = Ingested(AsmOf(s, n), Events(Trailing(r)))

(* Whole frames that are no hidden usage, and a part of a frame.             *)
CleanBytes(inj, bytes) ==
  \E V \in Seq(WholeFrames), r \in Rests :
    /\ \A i \in 1..Len(V) : ~Hidden(inj, V[i])
    /\ bytes = FlattenSeq(V) \o r

CellWell(s, inj, record) ==
  \/ record = None
  \/ \E body \in PlainBodies : record = PlainRecord(body)
  \/ \E raw \in Bytes, acc \in Assembled :
       Ended(s, inj, raw, acc) /\ Complete(acc) /\ record = StreamedRecord(raw, Body(acc))

TeeTypes ==
  /\ script \in Scripts /\ injected \in BOOLEAN
  /\ here \in BOOLEAN /\ broken \in BOOLEAN /\ plain \in BOOLEAN
  /\ phase \in {"open", "flush", "store", "over"}
  /\ pos \in 0..Len(ScriptBytes(script))
  /\ phase # "open" /\ ~broken => pos = Len(ScriptBytes(script))

TeeTaken ==
  /\ phase \in {"open", "flush"} => Reading(script, injected, pos, buf, capture, asm)
  /\ phase \in {"store", "over"} => buf = <<>> /\ Ended(script, injected, capture, asm)
  /\ phase = "store" => Complete(asm)

TeeSent == (here => sent = capture) /\ CleanBytes(injected, sent)

TeeInv == TeeTypes /\ TeeTaken /\ TeeSent /\ CellWell(script, injected, cell)

LEMMA TrailingIs ==
  ASSUME NEW r \in Rests
  PROVE  FlattenSeq(Trailing(r)) = r /\ Events(Trailing(r)) \in Seq(Speech)
<1>1. CASE r = <<>>
  <2>1. Trailing(r) = <<>>
    BY <1>1, EmptySeq DEF Trailing
  <2>2. Events(<<>>) = <<>> /\ <<>> \in Seq(Speech)
    BY DEF Events
  <2> QED BY <1>1, <2>1, <2>2, Flattened
<1>2. CASE r # <<>>
  <2>1. PICK e \in Names : IsRest(r, e)
    BY RestOfSome
  <2>2. Trailing(r) = <<r>> /\ Parse(r) \in {Says(e), Event("bad", None)}
    BY <1>2, <2>1, ParsesRest
  <2>3. r \in Seq(Byte)
    BY RestIs DEF Bytes
  <2>4. FlattenSeq(<<r>>) = r
    BY <2>3, FlattenOne
  <2>5. Parse(r) \in Speech
    BY <2>2, SaysSpeech DEF Speech
  <2>6. Events(<<r>>) = <<Parse(r)>>
    BY DEF Events
  <2>7. <<Parse(r)>> \in Seq(Speech)
    BY <2>5
  <2> QED BY <2>2, <2>4, <2>6, <2>7
<1> QED BY <1>1, <1>2

LEMMA FramesTaken ==
  ASSUME NEW s \in Scripts, NEW inj, NEW n \in 0..Len(s), Terminated(s, n)
  PROVE  SeenOf(s, inj, n) \in Bytes /\ AsmOf(s, n) \in Assembled
<1>1. n \in n..Len(s)
  BY ScriptIs
<1> QED BY <1>1, MoreFrames

LEMMA SeenIsClean ==
  ASSUME NEW s \in Scripts, NEW inj, NEW n \in 0..Len(s), Terminated(s, n)
  PROVE  /\ CleanBytes(inj, SeenOf(s, inj, n))
         /\ \A r \in Rests : CleanBytes(inj, SeenOf(s, inj, n) \o r)
<1>1. PICK V \in Seq(WholeFrames) :
           FlattenSeq(V) = SeenOf(s, inj, n) /\ \A i \in 1..Len(V) : ~Hidden(inj, V[i])
  BY SeenIs
<1>2. \A r \in Rests : CleanBytes(inj, SeenOf(s, inj, n) \o r)
  BY <1>1 DEF CleanBytes
<1>3. SeenOf(s, inj, n) \in Bytes
  BY FramesTaken
<1> DEFINE x == SeenOf(s, inj, n)
<1>4. x \o <<>> = x
  <2> HIDE DEF x
  <2> QED BY <1>3, ConcatEmptySeq DEF x, Bytes
<1>5. CleanBytes(inj, x \o <<>>)
  BY <1>2, EmptyRest
<1> QED BY <1>2, <1>4, <1>5

LEMMA EndedIs ==
  ASSUME NEW s \in Scripts, NEW inj, NEW raw, NEW acc, Ended(s, inj, raw, acc)
  PROVE  raw \in Bytes /\ acc \in Assembled /\ CleanBytes(inj, raw)
<1>1. PICK n \in 0..Len(s), r \in Rests :
           /\ Terminated(s, n)
           /\ Held(s, n, r)
           /\ raw = SeenOf(s, inj, n) \o r
           /\ acc = Ingested(AsmOf(s, n), Events(Trailing(r)))
  BY DEF Ended
<1>2. SeenOf(s, inj, n) \in Bytes /\ AsmOf(s, n) \in Assembled
  BY <1>1, FramesTaken
<1>3. r \in Bytes /\ Events(Trailing(r)) \in Seq(Speech)
  BY RestIs, TrailingIs
<1>4. raw \in Bytes
  <2> DEFINE x == SeenOf(s, inj, n)
  <2> HIDE DEF x
  <2> QED BY <1>1, <1>2, <1>3, ConcatProperties DEF x, Bytes
<1>5. acc \in Assembled
  BY <1>1, <1>2, <1>3, IngestedIs
<1>6. CleanBytes(inj, raw)
  BY <1>1, SeenIsClean
<1> QED BY <1>4, <1>5, <1>6

(* The operators of StreamTee that read its variables, as functions of them. *)
LEMMA ShownIs == \A t : Shown(t) = Seen(injected, t)
BY DEF Shown, Seen, Withheld, Hidden

LEMMA WholeIs ==
  ASSUME script \in Scripts, NEW n \in 0..Len(script)
  PROVE  /\ Len(Whole(n)) = EndOf(Parts(script), n)
         /\ Visible(n) = SeenOf(script, injected, n)
         /\ n < Len(script) => Frame(n + 1) = Parts(script)[n + 1]
<1> DEFINE t == Parts(script)
           x == Seen(injected, t)
<1>1. Len(script) \in Nat /\ n \in Nat
  BY ScriptIs
<1>2. t \in Seq(Seq(Byte)) /\ Len(t) = Len(script)
      /\ \A i \in 1..Len(script) : t[i] = Frame(i)
  BY PartsTyped DEF Parts, Frame
<1>3. n \in 0..Len(t) /\ 0 \in 0..Len(t) /\ n \in n..Len(t)
  BY <1>1, <1>2
<1>4. x \in Seq(Seq(Byte)) /\ Len(x) = Len(t)
      /\ \A i \in 1..Len(script) : x[i] = IF Withheld(Frame(i)) THEN <<>> ELSE Frame(i)
  <2>1. x \in Seq(Seq(Byte)) /\ Len(x) = Len(t)
    <3> HIDE DEF t
    <3> QED BY <1>2, <1>3, SeenSlice DEF x
  <2>2. \A i \in 1..Len(t) : x[i] = IF Hidden(injected, t[i]) THEN <<>> ELSE t[i]
    BY DEF Seen
  <2> QED BY <1>2, <2>1, <2>2 DEF Hidden, Withheld
<1> DEFINE y == [i \in 1..n |-> Frame(i)]
           z == [i \in 1..n |-> IF Withheld(Frame(i)) THEN <<>> ELSE Frame(i)]
           a == SubSeq(t, 1, n)
           b == SubSeq(x, 1, n)
<1>5. \A i \in 1..n : i \in 1..Len(script)
  BY <1>1
<1> HIDE DEF t, x
<1>6. a = y
  <2>1. a \in Seq(Seq(Byte)) /\ Len(a) = n /\ \A i \in 1..n : a[i] = t[i]
    <3>1. SubSeq(t, 0 + 1, n) \in Seq(Seq(Byte)) /\ Len(SubSeq(t, 0 + 1, n)) = n - 0
          /\ \A i \in 1..(n - 0) : SubSeq(t, 0 + 1, n)[i] = t[0 + i]
      BY <1>2, <1>3, Slice
    <3>2. 0 + 1 = 1 /\ n - 0 = n /\ \A i \in 1..n : 0 + i = i
      BY <1>1
    <3> QED BY <3>1, <3>2
  <2>2. \A i \in 1..n : t[i] \in Seq(Byte)
    BY <1>2, <1>5, ElementOfSeq
  <2>3. y \in Seq(Seq(Byte)) /\ Len(y) = n /\ \A i \in 1..n : y[i] = t[i]
    <3>1. \A i \in 1..n : y[i] = t[i]
      BY <1>2, <1>5
    <3>2. y = [i \in 1..n |-> y[i]]
      OBVIOUS
    <3> HIDE DEF y
    <3>3. y \in [1..n -> Seq(Byte)]
      BY <2>2, <3>1, <3>2
    <3>4. y \in Seq(Seq(Byte)) /\ Len(y) = n
      BY <1>1, <3>3
    <3> QED BY <3>1, <3>4
  <2> HIDE DEF a, y
  <2> QED BY <2>1, <2>3, SeqEqual
<1>7. b = z
  <2>1. b \in Seq(Seq(Byte)) /\ Len(b) = n /\ \A i \in 1..n : b[i] = x[i]
    <3>1. n \in 0..Len(x) /\ 0 \in 0..Len(x) /\ n \in 0..Len(x)
      BY <1>3, <1>4
    <3>2. SubSeq(x, 0 + 1, n) \in Seq(Seq(Byte)) /\ Len(SubSeq(x, 0 + 1, n)) = n - 0
          /\ \A i \in 1..(n - 0) : SubSeq(x, 0 + 1, n)[i] = x[0 + i]
      BY <1>4, <3>1, Slice
    <3>3. 0 + 1 = 1 /\ n - 0 = n /\ \A i \in 1..n : 0 + i = i
      BY <1>1
    <3> QED BY <3>2, <3>3
  <2>2. \A i \in 1..n : x[i] \in Seq(Byte)
    BY <1>2, <1>4, <1>5, ElementOfSeq
  <2>3. z \in Seq(Seq(Byte)) /\ Len(z) = n /\ \A i \in 1..n : z[i] = x[i]
    <3>1. \A i \in 1..n : z[i] = x[i]
      BY <1>4, <1>5
    <3>2. z = [i \in 1..n |-> z[i]]
      OBVIOUS
    <3> HIDE DEF z
    <3>3. z \in [1..n -> Seq(Byte)]
      BY <2>2, <3>1, <3>2
    <3>4. z \in Seq(Seq(Byte)) /\ Len(z) = n
      BY <1>1, <3>3
    <3> QED BY <3>1, <3>4
  <2> HIDE DEF b, z
  <2> QED BY <2>1, <2>3, SeqEqual
<1>8. Len(Whole(n)) = EndOf(t, n)
  BY <1>6 DEF Whole, EndOf
<1>9. Visible(n) = SeenOf(script, injected, n)
  BY <1>7 DEF Visible, SeenOf, x, t
<1>10. n < Len(script) => Frame(n + 1) = t[n + 1]
  BY <1>1, <1>2
<1> QED BY <1>8, <1>9, <1>10 DEF t

(***************************************************************************)
(* Every step keeps it.                                                    *)
(***************************************************************************)
LEMMA TeeInit == Init => TeeInv
<1> SUFFICES ASSUME Init PROVE TeeInv
  OBVIOUS
<1>1. script \in Scripts /\ pos = 0 /\ buf = <<>> /\ asm = NoDeltas /\ capture = <<>> /\ sent = <<>>
      /\ phase = "open" /\ cell = None
  BY DEF Init
<1> DEFINE B == ScriptBytes(script)
<1>2. Len(B) \in Nat /\ B \in Seq(Byte)
  BY <1>1, PartsTyped, LenProperties
<1>3. AsmOf(script, 0) = NoDeltas /\ SeenOf(script, injected, 0) = <<>>
      /\ EndOf(Parts(script), 0) = 0 /\ Terminated(script, 0) /\ Held(script, 0, <<>>)
      /\ 0 \in 0..Len(script)
  BY <1>1, NoFrames
<1>4. TeeTypes
  <2> HIDE DEF B
  <2>1. pos \in 0..Len(B) /\ phase = "open"
    BY <1>1, <1>2
  <2> QED BY <2>1 DEF TeeTypes, Init, B
<1>5. TeeTaken
  <2>1. SubSeq(B, 0 + 1, 0) = <<>>
    BY SubSeqEmpty
  <2>2. Reading(script, injected, 0, <<>>, <<>>, NoDeltas)
    <3>1. 0 <= 0
      OBVIOUS
    <3> QED BY <1>3, <2>1, <3>1 DEF Reading
  <2> QED BY <1>1, <2>2 DEF TeeTaken
<1>6. TeeSent
  <2>1. CleanBytes(injected, <<>>)
    BY <1>1, <1>3, SeenIsClean
  <2> QED BY <1>1, <2>1 DEF TeeSent
<1>7. CellWell(script, injected, cell)
  BY <1>1 DEF CellWell
<1> QED BY <1>4, <1>5, <1>6, <1>7 DEF TeeInv

LEMMA TeeReads == TeeInv /\ Read => TeeInv'
<1> SUFFICES ASSUME TeeInv, Read PROVE TeeInv'
  OBVIOUS
<1> DEFINE B == ScriptBytes(script)
           t == Parts(script)
<1>1. script \in Scripts /\ pos \in 0..Len(B) /\ phase = "open"
  BY DEF TeeInv, TeeTypes, Read
<1>2. Len(B) \in Nat /\ B \in Seq(Byte)
  BY <1>1, PartsTyped, LenProperties
<1>3. PICK k \in 0..Len(script) :
           /\ Terminated(script, k)
           /\ EndOf(t, k) <= pos
           /\ buf = SubSeq(B, EndOf(t, k) + 1, pos)
           /\ Held(script, k, buf)
           /\ capture = SeenOf(script, injected, k)
           /\ asm = AsmOf(script, k)
  BY <1>1 DEF TeeInv, TeeTaken, Reading
<1>4. PICK n \in 1..(Len(B) - pos) :
         \E cut \in {Cut(buf \o SubSeq(B, pos + 1, pos + n))} :
           /\ pos' = pos + n
           /\ buf' = cut.buf
           /\ asm' = FoldLeft(Ingest, asm, Events(cut.frames))
           /\ Forward(FlattenSeq(Shown(cut.frames)))
  BY DEF Read
<1> DEFINE q == pos + n
<1>5. q \in Nat /\ pos \in Nat /\ pos <= q /\ q <= Len(B) /\ q \in 0..Len(B)
  <2> HIDE DEF B
  <2> QED BY <1>1, <1>2
<1> HIDE DEF q
<1>6. PICK m \in k..Len(script) :
           /\ Terminated(script, m) /\ EndOf(t, m) \in Nat /\ EndOf(t, m) <= q
           /\ Held(script, m, SubSeq(B, EndOf(t, m) + 1, q))
           /\ Cut(SubSeq(B, EndOf(t, k) + 1, pos) \o SubSeq(B, pos + 1, q))
                = State(SubSeq(t, k + 1, m), SubSeq(B, EndOf(t, m) + 1, q))
  BY <1>1, <1>3, <1>5, ReadCuts
<1> DEFINE F == SubSeq(t, k + 1, m)
           r == SubSeq(B, EndOf(t, m) + 1, q)
<1>7. /\ pos' = q /\ buf' = r
      /\ asm' = FoldLeft(Ingest, asm, Events(F))
      /\ Forward(FlattenSeq(Shown(F)))
  <2>1. Cut(buf \o SubSeq(B, pos + 1, pos + n)) = State(F, r)
    BY <1>3, <1>6 DEF q
  <2>2. State(F, r).frames = F /\ State(F, r).buf = r
    BY DEF State
  <2> HIDE DEF B, F, r
  <2> QED BY <1>4, <2>1, <2>2 DEF q
<1>8. asm' = AsmOf(script, m) /\ capture' = SeenOf(script, injected, m)
      /\ sent' = IF here THEN capture' ELSE sent
  <2>1. /\ AsmOf(script, m) = Ingested(AsmOf(script, k), Events(F))
        /\ SeenOf(script, injected, m) = SeenOf(script, injected, k) \o FlattenSeq(Seen(injected, F))
    BY <1>1, <1>6, MoreFrames
  <2>2. Shown(F) = Seen(injected, F)
    BY ShownIs
  <2>3. here => sent = capture
    BY DEF TeeInv, TeeSent
  <2> HIDE DEF F
  <2> QED BY <1>3, <1>7, <2>1, <2>2, <2>3 DEF Forward, Ingested
<1>9. /\ script' = script /\ injected' = injected /\ here' = here /\ broken' = broken
      /\ phase' = phase /\ cell' = cell /\ plain' = plain
  BY DEF Read
<1>10. m \in 0..Len(script)
  BY <1>1, ScriptIs
<1>11. TeeTypes'
  <2>1. pos' \in 0..Len(ScriptBytes(script'))
    BY <1>5, <1>7, <1>9
  <2> QED BY <1>1, <1>9, <2>1 DEF TeeInv, TeeTypes
<1>12. TeeTaken'
  <2>1. Reading(script, injected, q, r, capture', asm')
    BY <1>6, <1>8, <1>10 DEF Reading
  <2> HIDE DEF r
  <2>2. Reading(script', injected', pos', buf', capture', asm')
    BY <1>7, <1>9, <2>1
  <2>3. phase' = "open"
    BY <1>1, <1>9
  <2> QED BY <2>2, <2>3 DEF TeeTaken
<1>13. TeeSent'
  <2>1. CleanBytes(injected, capture')
    BY <1>1, <1>6, <1>8, <1>10, SeenIsClean
  <2>2. CleanBytes(injected, sent)
    BY DEF TeeInv, TeeSent
  <2>3. CleanBytes(injected', sent')
    BY <1>8, <1>9, <2>1, <2>2
  <2> QED BY <1>8, <1>9, <2>3 DEF TeeSent
<1>14. CellWell(script', injected', cell')
  BY <1>9 DEF TeeInv
<1> QED BY <1>11, <1>12, <1>13, <1>14 DEF TeeInv

LEMMA TeeFlushes == TeeInv /\ Flush => TeeInv'
<1> SUFFICES ASSUME TeeInv, Flush PROVE TeeInv'
  OBVIOUS
<1> DEFINE t == Parts(script)
           last == Trailing(buf)
           all == FoldLeft(Ingest, asm, Events(last))
<1>1. script \in Scripts /\ phase = "flush"
  BY DEF TeeInv, TeeTypes, Flush
<1>2. PICK k \in 0..Len(script) :
           /\ Terminated(script, k)
           /\ Held(script, k, buf)
           /\ capture = SeenOf(script, injected, k)
           /\ asm = AsmOf(script, k)
  BY <1>1 DEF TeeInv, TeeTaken, Reading
<1>3. buf \in Rests
  BY <1>2 DEF Held
<1>4. FlattenSeq(last) = buf
  BY <1>3, TrailingIs
<1>5. /\ buf' = <<>> /\ asm' = all
      /\ Forward(FlattenSeq(last))
      /\ phase' = IF Complete(all) THEN "store" ELSE "over"
      /\ script' = script /\ injected' = injected /\ pos' = pos /\ broken' = broken
      /\ here' = here /\ cell' = cell /\ plain' = plain
  BY DEF Flush, upstream
<1>6. all = Ingested(asm, Events(last))
  BY DEF Ingested
<1> HIDE DEF all, last
<1>7. capture' = capture \o buf /\ sent' = IF here THEN capture' ELSE sent
  <2>1. here => sent = capture
    BY DEF TeeInv, TeeSent
  <2> QED BY <1>4, <1>5, <2>1 DEF Forward
<1>8. Ended(script, injected, capture', all)
  <2>1. capture' = SeenOf(script, injected, k) \o buf
    BY <1>2, <1>7
  <2>2. all = Ingested(AsmOf(script, k), Events(Trailing(buf)))
    BY <1>2, <1>6 DEF last
  <2> QED BY <1>2, <1>3, <2>1, <2>2 DEF Ended
<1>9. phase' \in {"store", "over"} /\ (phase' = "store" => Complete(all))
  BY <1>5
<1>10. TeeTypes'
  BY <1>1, <1>5, <1>9 DEF TeeInv, TeeTypes
<1>11. TeeTaken'
  <2>1. Ended(script', injected', capture', asm') /\ buf' = <<>>
    BY <1>5, <1>8
  <2>2. phase' = "store" => Complete(asm)'
    <3>1. phase' = "store" => Complete(asm')
      BY <1>5, <1>9
    <3>2. Complete(asm)' <=> Complete(asm')
      BY DEF Complete, HasPayload, AllFinished
    <3> QED BY <3>1, <3>2
  <2> QED BY <1>9, <2>1, <2>2 DEF TeeTaken
<1>12. TeeSent'
  <2>1. CleanBytes(injected, capture')
    BY <1>1, <1>2, <1>3, <1>7, SeenIsClean
  <2>2. CleanBytes(injected, sent)
    BY DEF TeeInv, TeeSent
  <2>3. CleanBytes(injected', sent')
    BY <1>5, <1>7, <2>1, <2>2
  <2> QED BY <1>5, <1>7, <2>3 DEF TeeSent
<1>13. CellWell(script', injected', cell')
  BY <1>5 DEF TeeInv
<1> QED BY <1>10, <1>11, <1>12, <1>13 DEF TeeInv

LEMMA TeeStops == TeeInv /\ (StreamEnds \/ StreamBreaks) => TeeInv'
<1> SUFFICES ASSUME TeeInv, StreamEnds \/ StreamBreaks PROVE TeeInv'
  OBVIOUS
<1>1. /\ phase = "open" /\ phase' = "flush"
      /\ script' = script /\ injected' = injected /\ pos' = pos /\ buf' = buf /\ asm' = asm
      /\ capture' = capture /\ sent' = sent /\ here' = here /\ cell' = cell /\ plain' = plain
      /\ \/ pos = Len(ScriptBytes(script)) /\ broken' = broken
         \/ broken' = TRUE
  BY DEF StreamEnds, StreamBreaks, upstream, taken
<1>2. TeeTypes'
  BY <1>1 DEF TeeInv, TeeTypes
<1>3. TeeTaken'
  <2>1. Reading(script, injected, pos, buf, capture, asm)
    BY <1>1 DEF TeeInv, TeeTaken
  <2>2. Reading(script', injected', pos', buf', capture', asm')
    BY <1>1, <2>1
  <2> QED BY <1>1, <2>2 DEF TeeTaken
<1>4. TeeSent'
  BY <1>1 DEF TeeInv, TeeSent
<1>5. CellWell(script', injected', cell')
  BY <1>1 DEF TeeInv
<1> QED BY <1>2, <1>3, <1>4, <1>5 DEF TeeInv

LEMMA TeePuts == TeeInv /\ (Put \/ PutFails) => TeeInv'
<1> SUFFICES ASSUME TeeInv, Put \/ PutFails PROVE TeeInv'
  OBVIOUS
<1>1. /\ phase = "store" /\ phase' = "over"
      /\ script' = script /\ injected' = injected /\ pos' = pos /\ buf' = buf /\ asm' = asm
      /\ broken' = broken
      /\ capture' = capture /\ sent' = sent /\ here' = here /\ plain' = plain
      /\ cell' \in {cell, StreamedRecord(capture, Body(asm))}
  BY DEF Put, PutFails, upstream, taken
<1>2. script \in Scripts /\ buf = <<>> /\ Ended(script, injected, capture, asm) /\ Complete(asm)
  BY <1>1 DEF TeeInv, TeeTypes, TeeTaken
<1>3. TeeTypes'
  BY <1>1 DEF TeeInv, TeeTypes
<1>4. TeeTaken'
  <2>1. Ended(script', injected', capture', asm') /\ buf' = <<>>
    BY <1>1, <1>2
  <2> QED BY <1>1, <2>1 DEF TeeTaken
<1>5. TeeSent'
  BY <1>1 DEF TeeInv, TeeSent
<1>6. CellWell(script', injected', cell')
  <2>1. capture \in Bytes /\ asm \in Assembled
    BY <1>2, EndedIs
  <2>2. CellWell(script, injected, StreamedRecord(capture, Body(asm)))
    BY <1>2, <2>1 DEF CellWell
  <2>3. CellWell(script, injected, cell)
    BY DEF TeeInv
  <2>4. CellWell(script, injected, cell')
    BY <1>1, <2>2, <2>3
  <2> QED BY <1>1, <2>4
<1> QED BY <1>3, <1>4, <1>5, <1>6 DEF TeeInv

LEMMA TeeBesides == TeeInv /\ (ClientLeaves \/ PlainWriteBack \/ UNCHANGED vars) => TeeInv'
<1> SUFFICES ASSUME TeeInv, ClientLeaves \/ PlainWriteBack \/ UNCHANGED vars PROVE TeeInv'
  OBVIOUS
<1>1. /\ phase' = phase /\ script' = script /\ injected' = injected /\ pos' = pos
      /\ buf' = buf /\ asm' = asm /\ broken' = broken /\ capture' = capture /\ sent' = sent
      /\ here' \in {here, FALSE} /\ plain' \in {plain, FALSE}
      /\ cell' = cell \/ \E body \in PlainBodies : cell' = PlainRecord(body)
  BY DEF ClientLeaves, PlainWriteBack, vars, upstream, taken
<1>2. TeeTypes'
  BY <1>1 DEF TeeInv, TeeTypes
<1>3. TeeTaken'
  <2>1. Complete(asm)' <=> Complete(asm)
    BY <1>1 DEF Complete, HasPayload, AllFinished
  <2>2. phase \in {"open", "flush"} => Reading(script', injected', pos', buf', capture', asm')
    BY <1>1 DEF TeeInv, TeeTaken
  <2>3. phase \in {"store", "over"} => buf = <<>> /\ Ended(script', injected', capture', asm')
    BY <1>1 DEF TeeInv, TeeTaken
  <2>4. phase = "store" => Complete(asm)
    BY DEF TeeInv, TeeTaken
  <2> QED BY <1>1, <2>1, <2>2, <2>3, <2>4 DEF TeeTaken
<1>4. TeeSent'
  <2>1. here' => here
    BY <1>1 DEF TeeInv, TeeTypes
  <2>2. CleanBytes(injected', sent') /\ (here => sent' = capture')
    BY <1>1 DEF TeeInv, TeeSent
  <2> QED BY <2>1, <2>2 DEF TeeSent
<1>5. CellWell(script', injected', cell')
  <2>1. CellWell(script, injected, cell')
    BY <1>1 DEF TeeInv, CellWell
  <2> QED BY <1>1, <2>1
<1> QED BY <1>2, <1>3, <1>4, <1>5 DEF TeeInv

LEMMA TeeSteps == Init /\ [][Next]_vars => []TeeInv
<1>1. TeeInv /\ [Next]_vars => TeeInv'
  BY TeeReads, TeeFlushes, TeeStops, TeePuts, TeeBesides DEF Next, TeeStep
<1> QED BY <1>1, TeeInit, PTL

LEMMA TeeAlways == Spec => []TeeInv
BY TeeSteps, PTL DEF Spec

(***************************************************************************)
(* Typed, and: who ends has read everything or met a broken connection,    *)
(* and a client that stays is sent what is captured.                       *)
(***************************************************************************)
THEOREM TypeCorrect == Spec => []TypeOK
<1>1. TeeInv => TypeOK
  <2> SUFFICES ASSUME TeeInv PROVE Len(buf) <= pos
    BY DEF TeeInv, TeeTypes, TeeSent, TypeOK
  <2> DEFINE B == ScriptBytes(script)
  <2>1. script \in Scripts /\ pos \in 0..Len(B) /\ phase \in {"open", "flush", "store", "over"}
    BY DEF TeeInv, TeeTypes
  <2>2. Len(B) \in Nat /\ B \in Seq(Byte)
    BY <2>1, PartsTyped, LenProperties
  <2>3. CASE phase \in {"store", "over"}
    <3>1. buf = <<>>
      BY <2>3 DEF TeeInv, TeeTaken
    <3> HIDE DEF B
    <3>2. pos \in Nat
      BY <2>1, <2>2
    <3> QED BY <3>1, <3>2, EmptySeq
  <2>4. CASE phase \in {"open", "flush"}
    <3>1. PICK n \in 0..Len(script) :
            /\ Terminated(script, n)
            /\ EndOf(Parts(script), n) <= pos
            /\ buf = SubSeq(B, EndOf(Parts(script), n) + 1, pos)
      BY <2>4 DEF TeeInv, TeeTaken, Reading
    <3> DEFINE a == EndOf(Parts(script), n)
    <3>2. a \in Nat
      <4> DEFINE t == Parts(script)
      <4>1. t \in Seq(Seq(Byte)) /\ n \in 0..Len(t) /\ n \in n..Len(t)
        BY <2>1, PartsTyped, ScriptIs
      <4> HIDE DEF t
      <4>2. EndOf(t, n) \in Nat
        BY <4>1, FlattenSlice
      <4> QED BY <4>2 DEF t
    <3> HIDE DEF a, B
    <3>3. a \in 0..Len(B) /\ pos \in a..Len(B)
      BY <2>1, <2>2, <3>1, <3>2 DEF a, B
    <3>4. Len(SubSeq(B, a + 1, pos)) = pos - a
      BY <2>2, <3>3, Slice
    <3>5. Len(buf) = pos - a
      BY <3>1, <3>4 DEF a, B
    <3> QED BY <2>2, <3>2, <3>3, <3>5
  <2> QED BY <2>1, <2>3, <2>4
<1> QED BY <1>1, TeeAlways, PTL

(***************************************************************************)
(* Wherever reads end, the tee captures the provider's bytes frame by      *)
(* frame, without the injected usage, and holds what is left.              *)
(***************************************************************************)
THEOREM ReadsDoNotMatter == Spec => []CaptureIgnoresReads
<1>1. TeeInv => CaptureIgnoresReads
  <2> SUFFICES ASSUME TeeInv, phase = "open"
               PROVE  \E n \in 0..Len(script) :
                        /\ Len(Whole(n)) + Len(buf) = pos
                        /\ n < Len(script) =>
                             Len(buf) < Len(Frame(n + 1)) \/ script[n + 1].end = <<>>
                        /\ capture = Visible(n)
                        /\ buf = SubSeq(ScriptBytes(script), Len(Whole(n)) + 1, pos)
    BY DEF CaptureIgnoresReads
  <2> DEFINE B == ScriptBytes(script)
  <2>1. script \in Scripts /\ pos \in 0..Len(B)
    BY DEF TeeInv, TeeTypes
  <2>2. Len(B) \in Nat /\ B \in Seq(Byte)
    BY <2>1, PartsTyped, LenProperties
  <2>3. PICK n \in 0..Len(script) :
          /\ Terminated(script, n)
          /\ EndOf(Parts(script), n) <= pos
          /\ buf = SubSeq(B, EndOf(Parts(script), n) + 1, pos)
          /\ Held(script, n, buf)
          /\ capture = SeenOf(script, injected, n)
    BY DEF TeeInv, TeeTaken, Reading
  <2> DEFINE a == EndOf(Parts(script), n)
  <2>4. a \in Nat
    <3> DEFINE t == Parts(script)
    <3>1. t \in Seq(Seq(Byte)) /\ n \in 0..Len(t) /\ n \in n..Len(t)
      BY <2>1, PartsTyped, ScriptIs
    <3> HIDE DEF t
    <3>2. EndOf(t, n) \in Nat
      BY <3>1, FlattenSlice
    <3> QED BY <3>2 DEF t
  <2>5. a + Len(buf) = pos
    <3> HIDE DEF a, B
    <3>1. a \in 0..Len(B) /\ pos \in a..Len(B)
      BY <2>1, <2>2, <2>3, <2>4 DEF a, B
    <3>2. Len(SubSeq(B, a + 1, pos)) = pos - a
      BY <2>2, <3>1, Slice
    <3>3. Len(buf) = pos - a
      BY <2>3, <3>2 DEF a, B
    <3> QED BY <2>2, <2>4, <3>1, <3>3
  <2>6. Len(Whole(n)) = a /\ capture = Visible(n)
        /\ (n < Len(script) => Frame(n + 1) = Parts(script)[n + 1])
    BY <2>1, <2>3, WholeIs
  <2>7. n < Len(script) => Len(buf) < Len(Frame(n + 1)) \/ script[n + 1].end = <<>>
    BY <2>3, <2>6 DEF Held
  <2>8. buf = SubSeq(B, Len(Whole(n)) + 1, pos)
    BY <2>3, <2>6
  <2>9. Len(Whole(n)) + Len(buf) = pos
    BY <2>5, <2>6
  <2> QED BY <2>6, <2>7, <2>8, <2>9
<1> QED BY <1>1, TeeAlways, PTL

(***************************************************************************)
(* No usage frame reaches a client that did not ask for usage.             *)
(***************************************************************************)
THEOREM UsageStaysHidden == Spec => []InjectedUsageIsHidden
<1>1. TeeInv => InjectedUsageIsHidden
  <2> SUFFICES ASSUME TeeInv PROVE InjectedUsageIsHidden
    OBVIOUS
  <2>1. PICK V \in Seq(WholeFrames), r \in Rests :
          /\ \A i \in 1..Len(V) : ~Hidden(injected, V[i])
          /\ sent = FlattenSeq(V) \o r
    BY DEF TeeInv, TeeSent, CleanBytes
  <2>2. Cut(sent) = State(V, r)
    BY <2>1, CutOfFlat
  <2>3. Cut(sent).frames = V
    BY <2>2 DEF State
  <2> QED BY <2>1, <2>3 DEF InjectedUsageIsHidden, Withheld, Hidden
<1> QED BY <1>1, TeeAlways, PTL

-----------------------------------------------------------------------------
(***************************************************************************)
(* What the frames of a stream say.                                        *)
(***************************************************************************)
Spoken(s, n) == [i \in 1..n |-> Says(s[i].ev)]

LEMMA ParsesPayload ==
  ASSUME NEW e \in Names
  PROVE  Parse(Payload(e)) = Says(e)
<1> DEFINE p == Payload(e)
<1>1. p \in Bytes /\ Len(p) = 2 /\ p[1] = Half(e, 1) /\ p[2] = Half(e, 2)
  BY PayloadFacts
<1> HIDE DEF p
<1>2. HalvesOf(p) = {1, 2}
  <2>1. Half(e, 1).b = "half" /\ Half(e, 2).b = "half"
    BY DEF Half
  <2> QED BY <1>1, <2>1 DEF HalvesOf
<1>3. Parse(p) = Says(e)
  BY <1>1, <1>2, ParsesLine
<1> QED BY <1>3 DEF p

LEMMA SpokenIs ==
  ASSUME NEW s \in Scripts, NEW n \in 0..Len(s)
  PROVE  /\ Spoken(s, n) \in Seq(Speech)
         /\ Said(s, n) = Ingested(NoDeltas, Spoken(s, n))
         /\ Said(s, n) \in Assembled
<1>1. Len(s) \in Nat /\ n \in Nat /\ \A i \in 1..n : i \in 1..Len(s)
  BY ScriptIs
<1>2. ASSUME NEW i \in 1..n
      PROVE  Says(s[i].ev) \in Speech /\ Parse(Payload(s[i].ev)) = Says(s[i].ev)
  <2>1. s[i].ev \in Names
    BY <1>1, ScriptIs
  <2> QED BY <2>1, SaysSpeech, ParsesPayload
<1>3. Spoken(s, n) \in Seq(Speech)
  <2>1. Spoken(s, n) \in [1..n -> Speech]
    BY <1>2 DEF Spoken
  <2> HIDE DEF Spoken
  <2> QED BY <1>1, <2>1
<1>4. [i \in 1..n |-> Parse(Payload(s[i].ev))] = Spoken(s, n)
  BY <1>2 DEF Spoken
<1>5. Said(s, n) = Ingested(NoDeltas, Spoken(s, n))
  BY <1>4 DEF Said, Assemble, Ingested
<1>6. Said(s, n) \in Assembled
  BY <1>3, <1>5, IngestedIs, NoDeltasTyped
<1> QED BY <1>3, <1>5, <1>6

LEMMA SaidNext ==
  ASSUME NEW s \in Scripts, NEW n \in 0..(Len(s) - 1)
  PROVE  /\ Said(s, n + 1) = Ingest(Said(s, n), Says(s[n + 1].ev))
         /\ Says(s[n + 1].ev) \in Speech /\ s[n + 1].ev \in Names
<1> DEFINE m == n + 1
           ev == Says(s[m].ev)
           a == Spoken(s, n)
           b == Spoken(s, m)
<1>1. Len(s) \in Nat /\ n \in Nat /\ m \in 1..Len(s) /\ n \in 0..Len(s) /\ m \in 0..Len(s)
      /\ m - 1 = n /\ m \in Nat
  BY ScriptIs
<1>2. s[m].ev \in Names
  BY <1>1, ScriptIs
<1>3. ev \in Speech
  BY <1>2, SaysSpeech
<1>4. a \in Seq(Speech) /\ b \in Seq(Speech) /\ Len(a) = n /\ Len(b) = m
      /\ (\A i \in 1..n : b[i] = a[i]) /\ b[m] = ev
  <2>1. a \in Seq(Speech) /\ b \in Seq(Speech)
    BY <1>1, SpokenIs
  <2>2. Len(a) = n /\ Len(b) = m
    BY <1>1 DEF Spoken
  <2>3. \A i \in 1..n : i \in 1..m
    BY <1>1
  <2>4. (\A i \in 1..n : b[i] = a[i]) /\ b[m] = ev
    BY <1>1, <2>3 DEF Spoken
  <2> QED BY <2>1, <2>2, <2>4
<1> HIDE DEF ev, a, b
<1>5. b = Append(a, ev)
  <2> DEFINE c == Append(a, ev)
  <2>1. c \in Seq(Speech) /\ Len(c) = n + 1 /\ (\A i \in 1..n : c[i] = a[i]) /\ c[n + 1] = ev
    BY <1>3, <1>4, AppendProperties
  <2>2. \A i \in 1..m : i \in 1..n \/ i = m
    BY <1>1
  <2> HIDE DEF c
  <2>3. Len(c) = m /\ c[m] = ev
    BY <2>1
  <2> HIDE DEF m
  <2>4. \A i \in 1..Len(b) : b[i] = c[i]
    BY <1>4, <2>1, <2>2, <2>3
  <2>5. b = c
    BY <1>4, <2>1, <2>3, <2>4, SeqEqual
  <2> QED BY <2>5 DEF c
<1>6. Ingested(NoDeltas, b) = Ingest(Ingested(NoDeltas, a), ev)
  BY <1>3, <1>4, <1>5, IngestedIs, NoDeltasTyped
<1>7. Said(s, m) = Ingest(Said(s, n), ev)
  <2>1. Said(s, m) = Ingested(NoDeltas, b) /\ Said(s, n) = Ingested(NoDeltas, a)
    BY <1>1, SpokenIs DEF a, b
  <2> QED BY <1>6, <2>1
<1> QED BY <1>2, <1>3, <1>7 DEF ev

(* Frames that end say what their payloads say.                              *)
LEMMA FramesSay ==
  ASSUME NEW s \in Scripts, NEW n \in 0..Len(s), Terminated(s, n)
  PROVE  AsmOf(s, n) = Said(s, n)
<1> DEFINE t == Parts(s)
           F == SubSeq(t, 1, n)
<1>1. Len(s) \in Nat /\ n \in Nat /\ t \in Seq(Seq(Byte)) /\ Len(t) = Len(s)
      /\ 0 \in 0..Len(t) /\ n \in 0..Len(t)
  BY ScriptIs, PartsTyped
<1>2. Len(F) = n /\ \A i \in 1..n : F[i] = t[i]
  <2> HIDE DEF t
  <2>1. Len(SubSeq(t, 0 + 1, n)) = n - 0
        /\ \A i \in 1..(n - 0) : SubSeq(t, 0 + 1, n)[i] = t[0 + i]
    BY <1>1, Slice
  <2>2. 0 + 1 = 1 /\ n - 0 = n /\ \A i \in 1..n : 0 + i = i
    BY <1>1
  <2> QED BY <2>1, <2>2
<1>3. ASSUME NEW i \in 1..n PROVE Parse(F[i]) = Says(s[i].ev)
  <2>1. i \in 1..Len(s) /\ s[i].end # <<>>
    BY <1>1 DEF Terminated
  <2>2. IsFrame(t[i], s[i].ev) /\ s[i].ev \in Names
    BY <2>1, PartIs
  <2> QED BY <1>2, <2>2, ParsesFrame
<1> HIDE DEF F
<1>4. Events(F) = Spoken(s, n)
  BY <1>2, <1>3 DEF Events, Spoken
<1> QED BY <1>4, SpokenIs DEF AsmOf, F

(* What adds nothing.                                                        *)
SameAnswer(a, b) == a.choices = b.choices /\ a.error = b.error /\ a.bad = b.bad

LEMMA AddsNothing ==
  ASSUME NEW acc \in Assembled, NEW ev \in Speech, ~Adds(ev)
  PROVE  SameAnswer(Ingest(acc, ev), acc)
<1>1. ev.is # "bad" /\ (ev.is = "data" => ~ev.chunk.error /\ ev.chunk.choices = <<>>)
  BY DEF Adds
<1>2. ev.is \in {"none", "done", "bad", "data"}
  BY DEF Speech, Event
<1>3. CASE ev.is = "none"
  <2>1. Ingest(acc, ev) = acc
    BY <1>3, IngestIs
  <2> QED BY <2>1 DEF SameAnswer
<1>4. CASE ev.is = "done"
  <2>1. Ingest(acc, ev) = [acc EXCEPT !.done = TRUE]
    BY <1>4, IngestIs
  <2> QED BY <2>1 DEF SameAnswer, Assembled
<1>5. CASE ev.is = "data"
  <2>1. PICK n \in Nat : Ingest(acc, ev) =
                [acc EXCEPT !.usage = n, !.choices = ChoicesOf(@, ev.chunk.choices)]
    BY <1>1, <1>5, IngestIs
  <2>2. ChoicesOf(acc.choices, <<>>) = acc.choices
    BY NoChoicesHeard
  <2>3. Ingest(acc, ev) = [acc EXCEPT !.usage = n, !.choices = acc.choices]
    BY <1>1, <1>5, <2>1, <2>2
  <2> QED BY <2>3 DEF SameAnswer, Assembled
<1> QED BY <1>1, <1>2, <1>3, <1>4, <1>5

(* What a stream says once it has said all, it says to the end.              *)
LEMMA QuietToTheEnd ==
  ASSUME NEW s \in Scripts, NEW n \in 0..Len(s), Said(s, n).done \/ AllFinished(Said(s, n))
  PROVE  SameAnswer(Said(s, Len(s)), Said(s, n))
<1> DEFINE N == Len(s) - n
           T == {k \in 0..N : SameAnswer(Said(s, n + k), Said(s, n))}
<1>1. Len(s) \in Nat /\ n \in Nat /\ N \in Nat /\ n + N = Len(s) /\ n + 0 = n
  BY ScriptIs
<1>2. \A i \in (n + 1)..Len(s) : ~Adds(Parse(Payload(s[i].ev)))
  BY QuietAssumption
<1>3. 0 \in T
  BY <1>1 DEF SameAnswer
<1>4. ASSUME NEW k \in 1..N, k - 1 \in T PROVE k \in T
  <2> DEFINE j == n + (k - 1)
             i == n + k
  <2>1. j \in 0..(Len(s) - 1) /\ j + 1 = i /\ i \in (n + 1)..Len(s) /\ j \in 0..Len(s)
    BY <1>1
  <2>2. SameAnswer(Said(s, j), Said(s, n))
    BY <1>4
  <2> HIDE DEF j, i
  <2>3. /\ Said(s, i) = Ingest(Said(s, j), Says(s[i].ev))
        /\ Says(s[i].ev) \in Speech /\ s[i].ev \in Names
    <3>1. /\ Said(s, j + 1) = Ingest(Said(s, j), Says(s[j + 1].ev))
          /\ Says(s[j + 1].ev) \in Speech /\ s[j + 1].ev \in Names
      BY <2>1, SaidNext
    <3> QED BY <2>1, <3>1
  <2>4. ~Adds(Says(s[i].ev))
    BY <1>2, <2>1, <2>3, ParsesPayload
  <2>5. Said(s, j) \in Assembled
    BY <2>1, SpokenIs
  <2>6. SameAnswer(Said(s, i), Said(s, j))
    BY <2>3, <2>4, <2>5, AddsNothing
  <2>7. SameAnswer(Said(s, i), Said(s, n))
    BY <2>2, <2>6 DEF SameAnswer
  <2> QED BY <2>7 DEF i
<1>5. T \subseteq 0..N
  OBVIOUS
<1>6. T = 0..N
  <2> HIDE DEF T, N
  <2> QED BY <1>1, <1>3, <1>4, <1>5, Joins!Inductive
<1>7. N \in T
  <2>1. N \in 0..N
    BY <1>1
  <2> HIDE DEF T, N
  <2> QED BY <1>6, <2>1
<1>8. SameAnswer(Said(s, n + N), Said(s, n))
  BY <1>7
<1> QED BY <1>1, <1>8

(* A complete answer is the provider's.                                      *)
LEMMA CompleteIsWhole ==
  ASSUME NEW s \in Scripts, NEW inj, NEW raw, NEW acc, Ended(s, inj, raw, acc), Complete(acc)
  PROVE  LET whole == Said(s, Len(s))
         IN  ~whole.error /\ ~whole.bad /\ acc.choices = whole.choices
<1>1. PICK n \in 0..Len(s), r \in Rests :
           /\ Terminated(s, n)
           /\ Held(s, n, r)
           /\ acc = Ingested(AsmOf(s, n), Events(Trailing(r)))
  BY DEF Ended
<1>2. Said(s, n) \in Assembled /\ AsmOf(s, n) = Said(s, n)
  BY <1>1, SpokenIs, FramesSay
<1>3. \E m \in 0..Len(s) : acc = Said(s, m)
  <2>1. CASE r = <<>>
    <3>1. Trailing(r) = <<>>
      BY <2>1, EmptySeq DEF Trailing
    <3>2. Events(<<>>) = <<>>
      BY DEF Events
    <3>3. acc = Said(s, n)
      BY <1>1, <1>2, <3>1, <3>2, IngestedIs
    <3> QED BY <3>3
  <2>2. CASE r # <<>>
    <3> DEFINE m == n + 1
               e == s[m].ev
    <3>1. n < Len(s) /\ IsRest(r, e)
      BY <1>1, <2>2 DEF Held
    <3>2. n \in 0..(Len(s) - 1) /\ m \in 0..Len(s)
      BY <3>1, ScriptIs
    <3>3. Said(s, m) = Ingest(Said(s, n), Says(e)) /\ Says(e) \in Speech /\ e \in Names
      BY <3>2, SaidNext
    <3> HIDE DEF m, e
    <3>4. (Parse(r) = Says(e) \/ Parse(r) = Event("bad", None)) /\ Trailing(r) = <<r>>
      BY <2>2, <3>1, <3>3, ParsesRest
    <3> DEFINE ev == Parse(r)
    <3>5. Events(<<r>>) = <<ev>>
      BY DEF Events
    <3>6. ev \in Speech
      BY <3>3, <3>4 DEF Speech
    <3>7. acc = Ingest(Said(s, n), ev)
      <4>1. acc = Ingested(Said(s, n), <<ev>>)
        BY <1>1, <1>2, <3>4, <3>5
      <4> HIDE DEF ev
      <4> QED BY <1>2, <3>6, <4>1, IngestedIs
    <3>8. ev # Event("bad", None)
      <4> SUFFICES ASSUME ev = Event("bad", None) PROVE FALSE
        OBVIOUS
      <4>1. ev.is = "bad"
        BY DEF Event
      <4> HIDE DEF ev
      <4>2. acc = [Said(s, n) EXCEPT !.bad = TRUE]
        BY <1>2, <3>6, <3>7, <4>1, IngestIs
      <4>3. acc.bad = TRUE
        BY <1>2, <4>2 DEF Assembled
      <4> QED BY <4>3 DEF Complete
    <3>9. acc = Said(s, m)
      BY <3>3, <3>4, <3>7, <3>8
    <3> QED BY <3>2, <3>9
  <2> QED BY <2>1, <2>2
<1>4. PICK m \in 0..Len(s) : acc = Said(s, m)
  BY <1>3
<1>5. ~acc.error /\ ~acc.bad /\ (acc.done \/ AllFinished(acc))
  BY DEF Complete
<1>6. SameAnswer(Said(s, Len(s)), Said(s, m))
  BY <1>4, <1>5, QuietToTheEnd
<1> QED BY <1>4, <1>5, <1>6 DEF SameAnswer

(***************************************************************************)
(* What the tee stores is the answer that the provider gives to the end,   *)
(* wherever the connection broke.                                          *)
(***************************************************************************)
THEOREM StoredIsWhole == Spec => []StoredAnswerIsWhole
<1>1. TeeInv => StoredAnswerIsWhole
  <2> DEFINE whole == Said(script, Len(script))
  <2> SUFFICES ASSUME TeeInv, cell # None, cell.streamed
               PROVE  /\ ~whole.error /\ ~whole.bad
                      /\ Meaning(cell.body.choices) = Meaning(Body(whole).choices)
    BY DEF StoredAnswerIsWhole
  <2>1. \A body \in PlainBodies : cell # PlainRecord(body)
    BY DEF PlainRecord
  <2>2. PICK raw \in Bytes, acc \in Assembled :
           /\ Ended(script, injected, raw, acc) /\ Complete(acc)
           /\ cell = StreamedRecord(raw, Body(acc))
    BY <2>1 DEF TeeInv, CellWell
  <2>3. ~whole.error /\ ~whole.bad /\ acc.choices = whole.choices
    BY <2>2, CompleteIsWhole DEF TeeInv, TeeTypes
  <2>4. cell.body = Body(acc)
    BY <2>2 DEF StreamedRecord
  <2> HIDE DEF whole
  <2>5. Body(acc).choices = Body(whole).choices
    BY <2>3 DEF Body
  <2> QED BY <2>3, <2>4, <2>5
<1> QED BY <1>1, TeeAlways, PTL

-----------------------------------------------------------------------------
(***************************************************************************)
(* The replay of a stream: where its bytes end, and where they hold a      *)
(* [DONE].                                                                 *)
(***************************************************************************)
LEMMA SuffixIs ==
  ASSUME NEW Z, NEW a \in Seq(Z), NEW b \in Seq(Z), IsSuffix(a, b)
  PROVE  /\ Len(a) <= Len(b)
         /\ \A i \in 1..Len(a) : a[i] = b[Len(b) - Len(a) + i]
<1> DEFINE n == Len(a)
           m == Len(b)
           ra == Reverse(a)
           rb == Reverse(b)
<1>1. n \in Nat /\ m \in Nat
  BY LenProperties
<1>2. ra \in Seq(Z) /\ Len(ra) = n /\ \A i \in 1..n : ra[i] = a[(n - i) + 1]
  <2>1. \A i \in 1..n : (n - i) + 1 \in 1..n
    BY <1>1
  <2>2. \A i \in 1..n : a[i] \in Z
    OBVIOUS
  <2>3. ra \in [1..n -> Z]
    BY <2>1, <2>2 DEF Reverse
  <2>4. \A i \in 1..n : ra[i] = a[(n - i) + 1]
    BY DEF Reverse
  <2> HIDE DEF ra, n
  <2> QED BY <1>1, <2>3, <2>4
<1>3. rb \in Seq(Z) /\ Len(rb) = m /\ \A i \in 1..m : rb[i] = b[(m - i) + 1]
  <2>1. \A i \in 1..m : (m - i) + 1 \in 1..m
    BY <1>1
  <2>2. \A i \in 1..m : b[i] \in Z
    OBVIOUS
  <2>3. rb \in [1..m -> Z]
    BY <2>1, <2>2 DEF Reverse
  <2>4. \A i \in 1..m : rb[i] = b[(m - i) + 1]
    BY DEF Reverse
  <2> HIDE DEF rb, m
  <2> QED BY <1>1, <2>3, <2>4
<1>4. Len(ra) <= Len(rb) /\ SubSeq(ra, 1, Len(ra)) = SubSeq(rb, 1, Len(ra))
  BY DEF IsSuffix, IsPrefix
<1> HIDE DEF ra, rb
<1>5. n <= m /\ SubSeq(ra, 1, n) = SubSeq(rb, 1, n)
  BY <1>2, <1>3, <1>4
<1> HIDE DEF n, m
<1>6. \A i \in 1..n : ra[i] = rb[i]
  <2>1. /\ \A i \in 1..(n - 0) : SubSeq(ra, 0 + 1, n)[i] = ra[0 + i]
        /\ \A i \in 1..(n - 0) : SubSeq(rb, 0 + 1, n)[i] = rb[0 + i]
    <3>1. 0 \in 0..Len(ra) /\ n \in 0..Len(ra) /\ 0 \in 0..Len(rb) /\ n \in 0..Len(rb)
      BY <1>1, <1>2, <1>3, <1>5
    <3> QED BY <1>2, <1>3, <3>1, Slice
  <2>2. 0 + 1 = 1 /\ n - 0 = n /\ \A i \in 1..n : 0 + i = i
    BY <1>1
  <2> QED BY <1>5, <2>1, <2>2
<1>7. ASSUME NEW i \in 1..n PROVE a[i] = b[m - n + i]
  <2> DEFINE j == (n - i) + 1
  <2>1. j \in 1..n /\ j \in 1..m /\ (n - j) + 1 = i /\ (m - j) + 1 = m - n + i
    BY <1>1, <1>5
  <2> HIDE DEF j
  <2>2. ra[j] = a[i] /\ rb[j] = b[m - n + i]
    BY <1>2, <1>3, <2>1
  <2> QED BY <1>6, <2>1, <2>2
<1> QED BY <1>5, <1>7 DEF n, m

LEMMA SeqOver ==
  ASSUME NEW Z, NEW s \in Seq(Z), NEW S, \A n \in 1..Len(s) : s[n] \in S
  PROVE  s \in Seq(S)
<1>1. Len(s) \in Nat /\ s \in [1..Len(s) -> Z]
  BY LenProperties
<1>2. s \in [1..Len(s) -> S]
  BY <1>1
<1> QED BY <1>1, <1>2

(* A frame in which the end of a [DONE] occurs says it.                      *)
DoneEnd == Half(DoneEvent, 2)

LEMMA DoneEventIs == DoneEvent \in Names /\ Says(DoneEvent).is = "done" /\ Says(DoneEvent) \in Speech
<1>1. DoneEvent \in Names /\ Kind[DoneEvent] = "done"
  BY ScriptsAssumption DEF Names
<1>2. Says(DoneEvent).is = "done"
  BY <1>1 DEF Says, Event
<1> QED BY <1>1, <1>2, SaysSpeech

LEMMA DoneInFrame ==
  ASSUME NEW f \in WholeFrames, NEW n \in 1..Len(f), f[n] = DoneEnd
  PROVE  Parse(f) = Says(DoneEvent)
<1>1. PICK e \in Names : IsFrame(f, e)
  BY WholeFrameIs
<1>2. Len(f) \in {4, 6} /\ f[n] = FrameAt(e, Len(f), n) /\ n \in 1..6
  BY <1>1 DEF IsFrame
<1>3. DoneEnd.b = "half"
  BY DEF DoneEnd, Half
<1>4. n \in {1, 2}
  <2>1. ~(n > 2)
    BY <1>2, <1>3, FrameBytesAre
  <2> QED BY <1>2, <2>1
<1>5. \E p \in {1, 2} : DoneEnd = Half(e, p)
  BY <1>2, <1>4 DEF FrameAt
<1>6. e = DoneEvent
  BY <1>5, ByteFacts, DoneEventIs DEF DoneEnd
<1> QED BY <1>1, <1>6, ParsesFrame

LEMMA DoneInRest ==
  ASSUME NEW r \in Rests, NEW n \in 1..Len(r), r[n] = DoneEnd
  PROVE  Parse(r) = Says(DoneEvent) /\ Trailing(r) = <<r>>
<1>1. PICK e \in Names : IsRest(r, e)
  BY RestOfSome
<1>2. r # <<>>
  BY EmptySeq
<1>3. /\ Parse(r) = Says(e) \/ (Len(r) = 1 /\ Parse(r) = Event("bad", None))
      /\ Trailing(r) = <<r>>
      /\ Len(r) \in 1..5
      /\ r[1] = Half(e, 1)
      /\ Len(r) # 1 => r[2] = Half(e, 2)
      /\ \A i \in 1..Len(r) : r[i].b = "half" => i \in {1, 2}
  BY <1>1, <1>2, ParsesRest
<1>4. DoneEnd.b = "half"
  BY DEF DoneEnd, Half
<1>5. n \in {1, 2}
  BY <1>3, <1>4
<1>6. n # 1
  <2>1. Half(e, 1) # DoneEnd
    BY DoneEventIs, ByteFacts DEF DoneEnd
  <2> QED BY <1>3, <2>1
<1>7. Len(r) # 1 /\ DoneEnd = Half(e, 2)
  BY <1>3, <1>5, <1>6
<1>8. e = DoneEvent
  BY <1>7, ByteFacts, DoneEventIs DEF DoneEnd
<1> QED BY <1>3, <1>7, <1>8

LEMMA DoneSticks ==
  ASSUME NEW acc \in Assembled, acc.done, NEW evs \in Seq(Speech)
  PROVE  Ingested(acc, evs).done
<1> DEFINE A == {a \in Assembled : a.done}
<1>1. acc \in A
  OBVIOUS
<1>2. \A a \in A, ev \in Speech : Ingest(a, ev) \in A
  BY IngestIs
<1> HIDE DEF A
<1>3. Ingests!Fold(acc, evs) \in A
  BY <1>1, <1>2, Ingests!FoldTyped
<1> QED BY <1>3, IngestedFold DEF A

LEMMA DoneSaid ==
  ASSUME NEW evs \in Seq(Speech), NEW k \in 1..Len(evs), evs[k] = Says(DoneEvent)
  PROVE  Ingested(NoDeltas, evs).done
<1> DEFINE a == SubSeq(evs, 1, k - 1)
           b == SubSeq(evs, 1, k)
           c == SubSeq(evs, k + 1, Len(evs))
           ev == evs[k]
<1>1. Len(evs) \in Nat /\ SubSeq(evs, 1, Len(evs)) = evs
      /\ a \in Seq(Speech) /\ ev \in Speech /\ b = Append(a, ev)
  BY PrefixSteps
<1>2. evs = b \o c /\ c \in Seq(Speech)
  <2>1. 0 \in 0..Len(evs) /\ k \in 0..Len(evs) /\ Len(evs) \in k..Len(evs) /\ 0 + 1 = 1
    BY <1>1
  <2>2. SubSeq(evs, 0 + 1, Len(evs)) = SubSeq(evs, 0 + 1, k) \o c
    BY <2>1, SlicesJoin
  <2>3. c \in Seq(Speech)
    BY <2>1, Slice
  <2> QED BY <1>1, <2>1, <2>2, <2>3
<1>3. ev.is = "done"
  BY DoneEventIs
<1> HIDE DEF a, b, c, ev
<1>4. b \in Seq(Speech)
  BY <1>1, AppendProperties
<1> DEFINE x == Ingested(NoDeltas, a)
           y == Ingested(NoDeltas, b)
<1>5. x \in Assembled /\ y \in Assembled /\ y = Ingest(x, ev)
  BY <1>1, <1>4, IngestedIs, NoDeltasTyped
<1>6. Ingested(NoDeltas, evs) = Ingested(y, c)
  BY <1>2, <1>4, IngestedIs, NoDeltasTyped
<1> HIDE DEF x, y
<1>7. y.done
  <2>1. y = [x EXCEPT !.done = TRUE]
    BY <1>1, <1>3, <1>5, IngestIs
  <2> QED BY <1>5, <2>1 DEF Assembled
<1> QED BY <1>2, <1>5, <1>6, <1>7, DoneSticks

(* What frames and a rest of one tell.                                       *)
Retold(V, r) == Ingested(Ingested(NoDeltas, Events(V)), Events(Trailing(r)))

LEMMA DoneInBytes ==
  ASSUME NEW V \in Seq(WholeFrames), NEW r \in Rests,
         NEW i \in 1..Len(FlattenSeq(V) \o r), (FlattenSeq(V) \o r)[i] = DoneEnd
  PROVE  Retold(V, r).done
<1> DEFINE flat == FlattenSeq(V)
           mine == Ingested(NoDeltas, Events(V))
<1>1. flat \in Bytes /\ r \in Bytes /\ V \in Seq(Seq(Byte)) /\ Events(V) \in Seq(Speech)
      /\ Events(Trailing(r)) \in Seq(Speech)
  BY FramesAreBytes, RestIs, EventsTyped, TrailingIs DEF Bytes
<1>2. mine \in Assembled
  BY <1>1, IngestedIs, NoDeltasTyped
<1>3. /\ Len(flat) \in Nat /\ Len(r) \in Nat
      /\ Len(flat \o r) = Len(flat) + Len(r)
      /\ \A j \in 1..(Len(flat) + Len(r)) :
           (flat \o r)[j] = IF j <= Len(flat) THEN flat[j] ELSE r[j - Len(flat)]
  <2> HIDE DEF flat
  <2> QED BY <1>1, ConcatProperties, LenProperties DEF Bytes
<1>4. CASE \E j \in 1..Len(flat) : flat[j] = DoneEnd
  <2> DEFINE S == {x \in Byte : \E k \in 1..Len(V) : \E n \in 1..Len(V[k]) : x = V[k][n]}
  <2>1. ASSUME NEW k \in 1..Len(V) PROVE V[k] \in Seq(S)
    <3> DEFINE f == V[k]
    <3>1. f \in Seq(Byte)
      BY <1>1, ElementOfSeq
    <3>2. \A n \in 1..Len(f) : f[n] \in S
      <4>1. \A n \in 1..Len(f) : f[n] \in Byte
        <5> HIDE DEF f
        <5> QED BY <3>1, ElementOfSeq
      <4> QED BY <4>1
    <3> HIDE DEF f, S
    <3>3. f \in Seq(S)
      BY <3>1, <3>2, SeqOver
    <3> QED BY <3>3 DEF f
  <2> HIDE DEF S
  <2>2. V \in Seq(Seq(S))
    BY <2>1, SeqOver
  <2>3. flat \in Seq(S)
    BY <2>2, Flattened
  <2>4. DoneEnd \in S
    <3> HIDE DEF flat
    <3> QED BY <1>4, <2>3, ElementOfSeq
  <2>5. PICK k \in 1..Len(V) : \E n \in 1..Len(V[k]) : DoneEnd = V[k][n]
    BY <2>4 DEF S
  <2>6. V[k] \in WholeFrames
    BY ElementOfSeq
  <2>7. Parse(V[k]) = Says(DoneEvent)
    BY <2>5, <2>6, DoneInFrame
  <2>8. Len(Events(V)) = Len(V) /\ Events(V)[k] = Says(DoneEvent)
    <3>1. Len(V) \in Nat
      BY LenProperties
    <3> QED BY <2>7, <3>1 DEF Events
  <2>9. mine.done
    <3> DEFINE evs == Events(V)
    <3>1. evs \in Seq(Speech) /\ k \in 1..Len(evs) /\ evs[k] = Says(DoneEvent)
      BY <1>1, <2>8
    <3> HIDE DEF evs
    <3>2. Ingested(NoDeltas, evs).done
      BY <3>1, DoneSaid
    <3> QED BY <3>2 DEF evs
  <2> HIDE DEF mine
  <2>10. Ingested(mine, Events(Trailing(r))).done
    BY <1>1, <1>2, <2>9, DoneSticks
  <2> QED BY <2>10 DEF Retold, mine
<1>5. CASE ~\E j \in 1..Len(flat) : flat[j] = DoneEnd
  <2> HIDE DEF flat, mine
  <2>1. i \in 1..(Len(flat) + Len(r)) /\ (flat \o r)[i] = DoneEnd
    BY <1>3 DEF flat
  <2>2. ~(i <= Len(flat))
    BY <1>3, <1>5, <2>1
  <2>3. i - Len(flat) \in 1..Len(r) /\ r[i - Len(flat)] = DoneEnd
    BY <1>3, <2>1, <2>2
  <2>4. Parse(r) = Says(DoneEvent) /\ Trailing(r) = <<r>>
    BY <2>3, DoneInRest
  <2>5. Events(<<r>>) = <<Parse(r)>>
    BY DEF Events
  <2> DEFINE ev == Says(DoneEvent)
  <2>6. Events(Trailing(r)) = <<ev>>
    BY <2>4, <2>5
  <2>7. ev \in Speech /\ ev.is = "done"
    BY DoneEventIs
  <2> HIDE DEF ev
  <2>8. Retold(V, r) = Ingested(mine, <<ev>>)
    BY <2>6 DEF Retold, mine
  <2>9. Retold(V, r) = Ingest(mine, ev)
    BY <1>2, <2>7, <2>8, IngestedIs
  <2>10. Retold(V, r) = [mine EXCEPT !.done = TRUE]
    BY <1>2, <2>7, <2>9, IngestIs
  <2> QED BY <1>2, <2>10 DEF Assembled
<1> QED BY <1>4, <1>5

(***************************************************************************)
(* What replay_body splits at "\n\n" alone, it splits after line feeds.    *)
(***************************************************************************)
EndsDone(u) ==
  Len(u) >= 2 /\ u[Len(u) - 1] = Half(DoneEvent, 1) /\ u[Len(u)] = DoneEnd

SplitStates(S, raw) ==
  {c \in [frames : Seq(Seq(S)), buf : Seq(S)] : EndsDone(raw) => EndsDone(c.buf)}

LEMMA SplitStateIs ==
  ASSUME NEW S, NEW raw
  PROVE  /\ \A frames \in Seq(Seq(S)), u \in Seq(S) :
              (EndsDone(raw) => EndsDone(u)) => State(frames, u) \in SplitStates(S, raw)
         /\ \A c \in SplitStates(S, raw) : \E frames \in Seq(Seq(S)), u \in Seq(S) :
              (EndsDone(raw) => EndsDone(u)) /\ c = State(frames, u)
<1>1. ASSUME NEW frames \in Seq(Seq(S)), NEW u \in Seq(S), EndsDone(raw) => EndsDone(u)
      PROVE  State(frames, u) \in SplitStates(S, raw)
  <2>1. State(frames, u).buf = u /\ State(frames, u) \in [frames : Seq(Seq(S)), buf : Seq(S)]
    BY DEF State
  <2> QED BY <1>1, <2>1 DEF SplitStates
<1>2. ASSUME NEW c \in SplitStates(S, raw)
      PROVE  \E frames \in Seq(Seq(S)), u \in Seq(S) :
               (EndsDone(raw) => EndsDone(u)) /\ c = State(frames, u)
  <2>1. c \in [frames : Seq(Seq(S)), buf : Seq(S)] /\ (EndsDone(raw) => EndsDone(c.buf))
    BY DEF SplitStates
  <2>2. c = State(c.frames, c.buf) /\ c.frames \in Seq(Seq(S)) /\ c.buf \in Seq(S)
    BY <2>1 DEF State
  <2> QED BY <2>1, <2>2
<1> QED BY <1>1, <1>2

LEMMA SplitOneIs ==
  ASSUME NEW u \in Bytes, NEW frames
  PROVE  \/ SplitOne(State(frames, u)) = State(frames, u)
         \/ \E end \in 2..Len(u) :
              /\ u[end] = LF /\ u[end - 1] = LF
              /\ SplitOne(State(frames, u))
                   = State(Append(frames, SubSeq(u, 1, end)), SubSeq(u, end + 1, Len(u)))
<1> DEFINE c == State(frames, u)
           T == At(u, Unix)
<1>1. c.frames = frames /\ c.buf = u
  BY DEF State
<1>2. T = {i \in 1..(Len(u) - 1) : u[i] = LF /\ u[i + 1] = LF} /\ Len(u) \in Nat
  BY AtIs, LenProperties DEF Bytes
<1> HIDE DEF T, c
<1>3. CASE T = {}
  BY <1>1, <1>3 DEF SplitOne, T, c
<1>4. CASE T # {}
  <2> DEFINE m == Min(T)
             end == m + 1
  <2>1. T \subseteq Nat
    BY <1>2
  <2>2. m \in T
    <3>1. \E x \in T : \A y \in T : x <= y
      BY <1>4, <2>1, Joins!LeastOfNaturals
    <3> QED BY <3>1 DEF Min
  <2>3. SplitOne(c) = Split(c, end)
    BY <1>1, <1>4 DEF SplitOne, T
  <2> HIDE DEF m
  <2>4. end \in 2..Len(u) /\ u[end] = LF /\ end - 1 = m /\ u[m] = LF
    BY <1>2, <2>2
  <2> HIDE DEF end
  <2>5. Split(c, end) = State(Append(frames, SubSeq(u, 1, end)), SubSeq(u, end + 1, Len(u)))
    BY <1>1 DEF Split, State
  <2> QED BY <2>3, <2>4, <2>5 DEF c
<1> QED BY <1>3, <1>4

LEMMA SplitKeeps ==
  ASSUME NEW S, S \subseteq Byte, NEW raw, NEW c \in SplitStates(S, raw)
  PROVE  SplitOne(c) \in SplitStates(S, raw)
<1>1. PICK frames \in Seq(Seq(S)), u \in Seq(S) :
         (EndsDone(raw) => EndsDone(u)) /\ c = State(frames, u)
  BY SplitStateIs
<1>2. u \in Bytes /\ Len(u) \in Nat
  <2>1. \A n \in 1..Len(u) : u[n] \in Byte
    BY ElementOfSeq
  <2> QED BY <2>1, SeqOver, LenProperties DEF Bytes
<1>3. CASE SplitOne(c) = c
  BY <1>3
<1>4. CASE SplitOne(c) # c
  <2>1. PICK end \in 2..Len(u) :
          /\ u[end] = LF /\ u[end - 1] = LF
          /\ SplitOne(c) = State(Append(frames, SubSeq(u, 1, end)), SubSeq(u, end + 1, Len(u)))
    BY <1>1, <1>2, <1>4, SplitOneIs
  <2> DEFINE f == SubSeq(u, 1, end)
             v == SubSeq(u, end + 1, Len(u))
  <2>2. end \in Nat /\ end \in 0..Len(u) /\ Len(u) \in end..Len(u) /\ 0 \in 0..Len(u)
        /\ 0 + 1 = 1 /\ end - 0 = end
    BY <1>2
  <2>3. f \in Seq(S)
    <3>1. SubSeq(u, 0 + 1, end) \in Seq(S)
      BY <2>2, Slice
    <3> QED BY <2>2, <3>1
  <2>4. v \in Seq(S) /\ Len(v) = Len(u) - end
        /\ \A i \in 1..(Len(u) - end) : v[i] = u[end + i]
    BY <2>2, Slice
  <2> HIDE DEF f, v
  <2>5. Append(frames, f) \in Seq(Seq(S))
    BY <2>3, AppendProperties
  <2>6. ASSUME EndsDone(u) PROVE EndsDone(v)
    <3> DEFINE n == Len(u)
    <3>1. n \in Nat /\ n >= 2 /\ u[n - 1] = Half(DoneEvent, 1) /\ u[n] = DoneEnd
      BY <1>2, <2>6 DEF EndsDone
    <3>2. Half(DoneEvent, 1) # LF /\ DoneEnd # LF
      BY DoneEventIs, ByteFacts DEF DoneEnd
    <3>3. end # n /\ end # n - 1
      BY <2>1, <3>1, <3>2
    <3>4. end \in 2..n
      OBVIOUS
    <3> HIDE DEF n
    <3>5. n - end \in Nat /\ n - end >= 2 /\ (n - end) - 1 \in 1..(n - end)
          /\ n - end \in 1..(n - end)
          /\ end + (n - end) = n /\ end + ((n - end) - 1) = n - 1
      BY <3>1, <3>3, <3>4
    <3>6. Len(v) = n - end /\ v[n - end] = DoneEnd /\ v[(n - end) - 1] = Half(DoneEvent, 1)
      BY <2>4, <3>1, <3>5 DEF n
    <3> QED BY <3>5, <3>6 DEF EndsDone
  <2>7. SplitOne(c) = State(Append(frames, f), v)
    BY <2>1 DEF f, v
  <2>8. EndsDone(raw) => EndsDone(v)
    BY <1>1, <2>6
  <2> DEFINE g == Append(frames, f)
  <2> HIDE DEF g
  <2>9. State(g, v) \in SplitStates(S, raw)
    BY <2>4, <2>5, <2>8, SplitStateIs DEF g
  <2> QED BY <2>7, <2>9 DEF g
<1> QED BY <1>3, <1>4

LEMMA SplitFramesAre ==
  ASSUME NEW S, S \subseteq Byte, NEW raw \in Seq(S)
  PROVE  /\ SplitFrames(raw) \in Seq(Seq(S))
         /\ EndsDone(raw) => SplitFrames(raw) # <<>> /\ EndsDone(Last(SplitFrames(raw)))
<1> DEFINE all == FoldLeft(SplitAgain, [frames |-> <<>>, buf |-> raw], raw)
           A == SplitStates(S, raw)
<1>1. all = Splits!Fold(State(<<>>, raw), raw)
  BY DEF State, Splits!Fold, FoldLeft, MapThenFoldSet, Splits!MapThenFoldSet,
         Max, Splits!Greatest
<1>2. State(<<>>, raw) \in A
  <2> DEFINE none == <<>>
  <2>1. none \in Seq(Seq(S))
    BY EmptySeq
  <2> HIDE DEF none
  <2>2. State(none, raw) \in SplitStates(S, raw)
    BY <2>1, SplitStateIs
  <2> QED BY <2>2 DEF none
<1>3. \A c \in A, byte \in S : SplitAgain(c, byte) \in A
  <2> SUFFICES ASSUME NEW c \in A, NEW byte \in S PROVE SplitAgain(c, byte) \in A
    OBVIOUS
  <2>1. SplitOne(c) \in A
    BY SplitKeeps
  <2>2. SplitAgain(c, byte) = SplitOne(c)
    BY SplitAgainIs
  <2> QED BY <2>1, <2>2
<1> HIDE DEF A
<1>4. all \in A
  BY <1>1, <1>2, <1>3, Splits!FoldTyped
<1>5. SplitFrames(raw) = IF all.buf = <<>> THEN all.frames ELSE Append(all.frames, all.buf)
  BY DEF SplitFrames
<1> HIDE DEF all
<1>6. PICK frames \in Seq(Seq(S)), u \in Seq(S) :
         (EndsDone(raw) => EndsDone(u)) /\ all = State(frames, u)
  BY <1>4, SplitStateIs DEF A
<1>7. all.frames = frames /\ all.buf = u
  BY <1>6 DEF State
<1>8. CASE u = <<>>
  <2>1. ~EndsDone(u)
    <3>1. Len(<<>>) = 0
      BY EmptySeq
    <3> QED BY <1>8, <3>1 DEF EndsDone
  <2> QED BY <1>5, <1>6, <1>7, <1>8, <2>1
<1>9. CASE u # <<>>
  <2> DEFINE w == Append(frames, u)
  <2>1. w \in Seq(Seq(S)) /\ Len(w) = Len(frames) + 1 /\ w[Len(frames) + 1] = u
        /\ Len(frames) \in Nat
    BY AppendProperties, LenProperties
  <2> HIDE DEF w
  <2>2. w # <<>> /\ Last(w) = u
    <3>1. Len(w) # 0
      BY <2>1
    <3> QED BY <2>1, <3>1, EmptySeq DEF Last
  <2>3. SplitFrames(raw) = w
    BY <1>5, <1>7, <1>9 DEF w
  <2> QED BY <1>6, <2>1, <2>2, <2>3
<1> QED BY <1>8, <1>9

(* The test of replay_body, whether the last frame holds a [DONE].           *)
HoldsDone(frames) ==
  frames # <<>> /\ \E i \in 1..(Len(Last(frames)) - 1) :
                     SubSeq(Last(frames), i, i + 1) = Payload(DoneEvent)

LEMMA TwoBytes ==
  ASSUME NEW S, NEW x \in Seq(S), NEW i \in 1..(Len(x) - 1)
  PROVE  /\ SubSeq(x, i, i + 1) \in Seq(S) /\ Len(SubSeq(x, i, i + 1)) = 2
         /\ SubSeq(x, i, i + 1)[1] = x[i] /\ SubSeq(x, i, i + 1)[2] = x[i + 1]
         /\ i + 1 \in 1..Len(x)
<1> DEFINE n == i - 1
           m == i + 1
<1>1. Len(x) \in Nat
  BY LenProperties
<1>2. n \in 0..Len(x) /\ m \in n..Len(x) /\ m - n = 2 /\ n + 1 = i /\ n + 2 = m /\ m \in 1..Len(x)
  BY <1>1
<1>3. 1 \in 1..2 /\ 2 \in 1..2
  OBVIOUS
<1> HIDE DEF n, m
<1>4. SubSeq(x, n + 1, m) \in Seq(S) /\ Len(SubSeq(x, n + 1, m)) = m - n
      /\ \A j \in 1..(m - n) : SubSeq(x, n + 1, m)[j] = x[n + j]
  BY <1>2, Slice
<1>5. SubSeq(x, i, m) \in Seq(S) /\ Len(SubSeq(x, i, m)) = 2
      /\ SubSeq(x, i, m)[1] = x[i] /\ SubSeq(x, i, m)[2] = x[m]
  BY <1>2, <1>3, <1>4
<1> QED BY <1>2, <1>5 DEF m

LEMMA HoldsDoneIs ==
  ASSUME NEW raw \in Bytes
  PROVE  /\ HoldsDone(SplitFrames(raw)) => \E i \in 1..Len(raw) : raw[i] = DoneEnd
         /\ EndsDone(raw) => HoldsDone(SplitFrames(raw))
<1> DEFINE frames == SplitFrames(raw)
           x == Last(frames)
           p == Payload(DoneEvent)
<1>1. p \in Bytes /\ Len(p) = 2 /\ p[1] = Half(DoneEvent, 1) /\ p[2] = DoneEnd
  BY DoneEventIs, PayloadFacts DEF DoneEnd
<1>2. ASSUME HoldsDone(frames) PROVE \E i \in 1..Len(raw) : raw[i] = DoneEnd
  <2> DEFINE S == {b \in Byte : \E i \in 1..Len(raw) : b = raw[i]}
  <2>1. raw \in Seq(S)
    <3>1. \A i \in 1..Len(raw) : raw[i] \in S
      BY ElementOfSeq DEF Bytes
    <3> HIDE DEF S
    <3> QED BY <3>1, SeqOver DEF Bytes
  <2>2. S \subseteq Byte
    OBVIOUS
  <2> HIDE DEF S
  <2>3. frames \in Seq(Seq(S))
    BY <2>1, <2>2, SplitFramesAre
  <2>4. frames # <<>> /\ \E i \in 1..(Len(x) - 1) : SubSeq(x, i, i + 1) = p
    BY <1>2 DEF HoldsDone
  <2> HIDE DEF frames
  <2>5. x \in Seq(S)
    <3> DEFINE n == Len(frames)
    <3>1. n \in Nat /\ n # 0
      BY <2>3, <2>4, EmptySeq, LenProperties
    <3>2. n \in 1..n
      BY <3>1
    <3>3. frames[n] \in Seq(S)
      BY <2>3, <3>2, ElementOfSeq
    <3> QED BY <3>3 DEF Last
  <2> HIDE DEF x, p
  <2>6. PICK i \in 1..(Len(x) - 1) : SubSeq(x, i, i + 1) = p
    BY <2>4
  <2>7. p[2] = x[i + 1] /\ i + 1 \in 1..Len(x)
    BY <2>5, <2>6, TwoBytes
  <2>8. DoneEnd \in S
    BY <1>1, <2>5, <2>7, ElementOfSeq
  <2> QED BY <2>8 DEF S
<1>3. ASSUME EndsDone(raw) PROVE HoldsDone(frames)
  <2>1. frames \in Seq(Seq(Byte)) /\ frames # <<>> /\ EndsDone(x)
    BY <1>3, SplitFramesAre DEF Bytes
  <2>2. x \in Seq(Byte)
    <3> DEFINE n == Len(frames)
    <3> HIDE DEF frames
    <3>1. n \in Nat /\ n # 0
      BY <2>1, EmptySeq, LenProperties
    <3>2. n \in 1..n
      BY <3>1
    <3>3. frames[n] \in Seq(Byte)
      BY <2>1, <3>2, ElementOfSeq
    <3> QED BY <3>3 DEF Last
  <2> DEFINE i == Len(x) - 1
             y == SubSeq(x, i, i + 1)
  <2> HIDE DEF x, p
  <2>3. Len(x) \in Nat /\ Len(x) >= 2 /\ x[i] = Half(DoneEvent, 1) /\ x[Len(x)] = DoneEnd
    BY <2>1, <2>2, LenProperties DEF EndsDone
  <2>4. i \in 1..(Len(x) - 1) /\ i + 1 = Len(x)
    BY <2>3
  <2> HIDE DEF i
  <2>5. y \in Seq(Byte) /\ Len(y) = 2 /\ y[1] = x[i] /\ y[2] = x[i + 1]
    BY <2>2, <2>4, TwoBytes
  <2> HIDE DEF y
  <2>6. \A j \in 1..Len(y) : y[j] = p[j]
    BY <1>1, <2>3, <2>4, <2>5
  <2>7. y = p
    BY <1>1, <2>5, <2>6, SeqEqual DEF Bytes
  <2>8. \E j \in 1..(Len(x) - 1) : SubSeq(x, j, j + 1) = p
    BY <2>4, <2>7 DEF y
  <2> QED BY <2>1, <2>8 DEF HoldsDone, x, p
<1> QED BY <1>2, <1>3

(* Bytes that end in a blank line, or in [DONE], end a frame or are that.    *)
LEMMA RestEndsClean ==
  ASSUME NEW flat \in Bytes, NEW r \in Rests, r # <<>>,
         NEW end \in {Unix, Dos, Payload(DoneEvent)}, IsSuffix(end, flat \o r)
  PROVE  EndsDone(flat \o r) /\ r[Len(r)] = DoneEnd
<1> DEFINE raw == flat \o r
           n == Len(r)
           m == Len(flat)
           k == Len(end)
           D == Payload(DoneEvent)
<1>1. PICK e \in Names : IsRest(r, e)
  BY RestOfSome
<1>2. n \in 1..5
  BY <1>1, ParsesRest
<1>3. PICK size \in {4, 6} : n < size /\ \A i \in 1..n : r[i] = FrameAt(e, size, i)
  BY <1>1 DEF IsRest
<1>4. r \in Seq(Byte) /\ flat \in Seq(Byte) /\ m \in Nat
  BY RestIs, LenProperties DEF Bytes
<1>5. raw \in Seq(Byte) /\ Len(raw) = m + n /\ \A i \in 1..n : raw[m + i] = r[i]
  BY <1>4, ConcatParts
<1>6. D \in Seq(Byte) /\ Len(D) = 2 /\ D[1] = Half(DoneEvent, 1) /\ D[2] = DoneEnd
  BY DoneEventIs, PayloadFacts DEF DoneEnd, Bytes
<1>7. Unix \in Seq(Byte) /\ Len(Unix) = 2 /\ Unix[1] = LF /\ Unix[2] = LF
      /\ Dos \in Seq(Byte) /\ Len(Dos) = 4 /\ Dos[3] = CR /\ Dos[4] = LF /\ Dos[2] = LF /\ Dos[1] = CR
  BY EndFacts DEF Bytes
<1> HIDE DEF raw, D
<1>8. end \in Seq(Byte) /\ k \in {2, 4}
  BY <1>6, <1>7 DEF D
<1>9. k <= Len(raw) /\ \A i \in 1..k : end[i] = raw[Len(raw) - k + i]
  BY <1>5, <1>8, SuffixIs DEF raw
<1> HIDE DEF n, m, k
<1>10. /\ end[k] = r[n]
       /\ n >= 2 => end[k - 1] = r[n - 1]
       /\ n >= 3 /\ k = 4 => end[2] = r[n - 2]
  <2>1. k \in 1..k /\ (m + n) - k + k = m + n /\ n \in 1..n
    BY <1>2, <1>4, <1>8
  <2>2. end[k] = r[n]
    BY <1>5, <1>9, <2>1
  <2>3. ASSUME n >= 2 PROVE end[k - 1] = r[n - 1]
    <3>1. k - 1 \in 1..k /\ (m + n) - k + (k - 1) = m + (n - 1) /\ n - 1 \in 1..n
      BY <1>2, <1>4, <1>8, <2>3
    <3> QED BY <1>5, <1>9, <3>1
  <2>4. ASSUME n >= 3, k = 4 PROVE end[2] = r[n - 2]
    <3>1. 2 \in 1..k /\ (m + n) - k + 2 = m + (n - 2) /\ n - 2 \in 1..n
      BY <1>2, <1>4, <1>8, <2>4
    <3> QED BY <1>5, <1>9, <3>1
  <2> QED BY <2>2, <2>3, <2>4
<1>11. /\ LF # CR
       /\ \A p \in {1, 2} : Half(e, p) # LF /\ Half(e, p) # CR
       /\ DoneEnd # LF /\ DoneEnd # CR /\ DoneEnd # Half(e, 1)
       /\ Half(DoneEvent, 1) # LF /\ Half(DoneEvent, 1) # CR
  BY ByteFacts, DoneEventIs DEF DoneEnd
<1>12. \A i \in 1..n :
         r[i] = IF i = 1 THEN Half(e, 1) ELSE IF i = 2 THEN Half(e, 2)
                ELSE FrameAt(e, size, i)
  BY <1>3 DEF FrameAt
<1>13. /\ n >= 3 => r[3] = IF size = 4 THEN LF ELSE CR
       /\ n >= 4 => size = 6 /\ r[4] = LF
       /\ n >= 5 => r[5] = CR
  <2>1. n >= 3 => r[3] = FrameAt(e, size, 3)
    BY <1>2, <1>3
  <2>2. n >= 4 => size = 6 /\ r[4] = FrameAt(e, size, 4)
    BY <1>2, <1>3
  <2>3. n >= 5 => size = 6 /\ r[5] = FrameAt(e, size, 5)
    BY <1>2, <1>3
  <2>4. FrameAt(e, 4, 3) = LF /\ FrameAt(e, 6, 3) = CR /\ FrameAt(e, 6, 4) = LF
        /\ FrameAt(e, 6, 5) = CR
    BY DEF FrameAt
  <2> QED BY <2>1, <2>2, <2>3, <2>4
<1>14. r[1] = Half(e, 1) /\ (n >= 2 => r[2] = Half(e, 2))
  BY <1>2, <1>12
<1>15. end # Unix
  <2> SUFFICES ASSUME end = Unix PROVE FALSE
    OBVIOUS
  <2>1. k = 2 /\ end[k] = LF /\ (n >= 2 => r[n - 1] = LF) /\ r[n] = LF
    BY <1>7, <1>10 DEF k
  <2>2. CASE n = 1
    BY <1>11, <1>14, <2>1, <2>2
  <2>3. CASE n = 2
    BY <1>11, <1>14, <2>1, <2>3
  <2>4. CASE n = 3
    BY <1>11, <1>14, <2>1, <2>4
  <2>5. CASE n = 4
    BY <1>11, <1>13, <2>1, <2>5
  <2>6. CASE n = 5
    BY <1>11, <1>13, <2>1, <2>6
  <2> QED BY <1>2, <2>2, <2>3, <2>4, <2>5, <2>6
<1>16. end # Dos
  <2> SUFFICES ASSUME end = Dos PROVE FALSE
    OBVIOUS
  <2>1. k = 4 /\ r[n] = LF /\ (n >= 2 => r[n - 1] = CR) /\ (n >= 3 => r[n - 2] = LF)
    BY <1>7, <1>10 DEF k
  <2>2. CASE n = 1
    BY <1>11, <1>14, <2>1, <2>2
  <2>3. CASE n = 2
    BY <1>11, <1>14, <2>1, <2>3
  <2>4. CASE n = 3
    BY <1>11, <1>14, <2>1, <2>4
  <2>5. CASE n = 4
    BY <1>11, <1>14, <2>1, <2>5
  <2>6. CASE n = 5
    BY <1>11, <1>13, <2>1, <2>6
  <2> QED BY <1>2, <2>2, <2>3, <2>4, <2>5, <2>6
<1>17. end = D
  BY <1>15, <1>16 DEF D
<1>18. k = 2 /\ r[n] = DoneEnd
  BY <1>6, <1>10, <1>17 DEF k
<1>19. k <= m + n /\ raw[(m + n) - 1] = Half(DoneEvent, 1) /\ raw[m + n] = DoneEnd
  <2>1. 1 \in 1..k /\ 2 \in 1..k /\ (m + n) - k + 1 = (m + n) - 1 /\ (m + n) - k + 2 = m + n
    BY <1>2, <1>4, <1>18
  <2> QED BY <1>5, <1>6, <1>9, <1>17, <2>1
<1>20. EndsDone(raw)
  <2>1. m + n >= 2
    BY <1>2, <1>4, <1>18, <1>19
  <2> QED BY <1>5, <1>19, <2>1 DEF EndsDone
<1> QED BY <1>18, <1>20 DEF raw, n

LEMMA EmptyTrailing == Trailing(<<>>) = <<>> /\ Events(<<>>) = <<>>
BY EmptySeq DEF Trailing, Events

LEMMA TrailingFrames ==
  ASSUME NEW r \in Rests
  PROVE  (IF r = <<>> THEN <<>> ELSE <<r>>) = Trailing(r)
<1>1. CASE r = <<>>
  BY <1>1, EmptyTrailing
<1>2. CASE r # <<>>
  <2>1. PICK e \in Names : IsRest(r, e)
    BY RestOfSome
  <2> QED BY <1>2, <2>1, ParsesRest
<1> QED BY <1>1, <1>2

(* A replay tells what the tee heard, and ends it.                           *)
LEMMA StreamRetold ==
  ASSUME NEW s \in Scripts, NEW inj, NEW raw, NEW acc,
         Ended(s, inj, raw, acc), Complete(acc),
         NEW body, EndsClean(StreamedRecord(raw, body))
  PROVE  LET told == Told(StreamedRecord(raw, body))
         IN  ~told.bad /\ ~told.error /\ told.done /\ told.choices = acc.choices
<1> DEFINE record == StreamedRecord(raw, body)
           frames == SplitFrames(raw)
<1>1. PICK n \in 0..Len(s), r \in Rests :
           /\ Terminated(s, n)
           /\ raw = SeenOf(s, inj, n) \o r
           /\ acc = Ingested(AsmOf(s, n), Events(Trailing(r)))
  BY DEF Ended
<1>2. PICK V \in Seq(WholeFrames) :
           /\ FlattenSeq(V) = SeenOf(s, inj, n)
           /\ Alike(Ingested(NoDeltas, Events(V)), AsmOf(s, n))
  BY <1>1, SeenIs
<1> DEFINE flat == FlattenSeq(V)
           mine == Ingested(NoDeltas, Events(V))
           last == Events(Trailing(r))
<1>3. flat \in Bytes /\ r \in Bytes /\ last \in Seq(Speech) /\ Events(V) \in Seq(Speech)
      /\ AsmOf(s, n) \in Assembled
  BY <1>1, FramesAreBytes, RestIs, TrailingIs, EventsTyped, FramesTaken
<1>4. mine \in Assembled
  BY <1>3, IngestedIs, NoDeltasTyped
<1>5. raw = flat \o r /\ raw \in Bytes
  <2>1. raw = flat \o r
    BY <1>1, <1>2
  <2> HIDE DEF flat
  <2> QED BY <1>3, <2>1, ConcatProperties DEF Bytes
<1>6. record.streamed /\ record.raw = raw
  BY DEF StreamedRecord
<1>7. ~acc.error /\ ~acc.bad
  BY DEF Complete
<1>8. CASE HoldsDone(frames)
  <2>1. Replay(record)
          = Events(Cut(raw).frames \o (IF Cut(raw).buf = <<>> THEN <<>> ELSE <<Cut(raw).buf>>))
    <3> HIDE DEF record
    <3> QED BY <1>6, <1>8 DEF Replay, HoldsDone
  <2>2. Cut(raw) = State(V, r)
    <3>1. Cut(flat \o r) = State(V, r)
      BY CutOfFlat
    <3> HIDE DEF flat
    <3> QED BY <1>5, <3>1
  <2>3. Cut(raw).frames = V /\ Cut(raw).buf = r
    BY <2>2 DEF State
  <2> DEFINE tail == Trailing(r)
  <2>4. Replay(record) = Events(V \o tail)
    BY <2>1, <2>3, TrailingFrames
  <2>5. Events(V \o tail) = Events(V) \o Events(tail)
    <3>1. tail \in Seq(Bytes) /\ V \in Seq(Bytes)
      <4>1. CASE r = <<>>
        <5>1. <<>> \in Seq(Bytes)
          BY EmptySeq
        <5> QED BY <4>1, <5>1, EmptyTrailing, FramesAreBytes
      <4>2. CASE r # <<>>
        <5>1. tail = <<r>>
          BY <4>2, TrailingFrames
        <5>2. <<r>> \in Seq(Bytes)
          BY <1>3
        <5> QED BY <5>1, <5>2, FramesAreBytes
      <4> QED BY <4>1, <4>2
    <3> HIDE DEF tail
    <3> QED BY <3>1, EventsConcat
  <2>6. Told(record) = Retold(V, r)
    <3> DEFINE E == Events(V)
    <3>1. Told(record) = Ingested(NoDeltas, E \o last)
      BY <2>4, <2>5 DEF Told, Assemble, Ingested
    <3>2. Ingested(NoDeltas, E \o last) = Ingested(Ingested(NoDeltas, E), last)
      <4>1. E \in Seq(Speech)
        BY <1>3
      <4> HIDE DEF E, last
      <4> QED BY <1>3, <4>1, IngestedIs, NoDeltasTyped
    <3> QED BY <3>1, <3>2 DEF Retold
  <2>7. Retold(V, r).done
    <3>1. PICK i \in 1..Len(raw) : raw[i] = DoneEnd
      BY <1>5, <1>8, HoldsDoneIs
    <3>2. \E j \in 1..Len(flat \o r) : (flat \o r)[j] = DoneEnd
      <4> HIDE DEF flat
      <4> QED BY <1>5, <3>1
    <3> QED BY <3>2, DoneInBytes
  <2>8. Alike(Retold(V, r), acc)
    <3>1. CASE r = <<>>
      <4>1. last = <<>>
        BY <3>1, EmptyTrailing
      <4>2. Retold(V, r) = mine /\ acc = AsmOf(s, n)
        BY <1>1, <4>1, IngestedIs DEF Retold
      <4> QED BY <1>2, <4>2
    <3>2. CASE r # <<>>
      <4> DEFINE ev == Parse(r)
                 b == AsmOf(s, n)
      <4>1. last = <<ev>>
        <5>1. Trailing(r) = <<r>>
          BY <3>2, TrailingFrames
        <5>2. Events(<<r>>) = <<ev>>
          BY DEF Events
        <5> QED BY <5>1, <5>2
      <4>2. ev \in Speech
        <5>1. last[1] = ev /\ 1 \in 1..Len(last)
          BY <4>1
        <5> HIDE DEF last, ev
        <5>2. last[1] \in Speech
          BY <1>3, <5>1, ElementOfSeq
        <5> QED BY <5>1, <5>2
      <4>3. Retold(V, r) = Ingested(mine, <<ev>>) /\ acc = Ingested(b, <<ev>>)
        BY <1>1, <4>1 DEF Retold
      <4>4. Alike(mine, b) /\ b \in Assembled
        BY <1>2, <1>3
      <4> HIDE DEF mine, b, ev
      <4>5. Retold(V, r) = Ingest(mine, ev) /\ acc = Ingest(b, ev)
        BY <1>4, <4>2, <4>3, <4>4, IngestedIs
      <4> QED BY <1>4, <4>2, <4>4, <4>5, IngestAlike
    <3> QED BY <3>1, <3>2
  <2> HIDE DEF record
  <2> QED BY <1>7, <2>6, <2>7, <2>8 DEF Alike, record
<1>9. CASE ~HoldsDone(frames)
  <2>1. r = <<>>
    <3> SUFFICES ASSUME r # <<>> PROVE FALSE
      OBVIOUS
    <3>1. raw # <<>>
      <4> HIDE DEF flat
      <4>1. Len(raw) = Len(flat) + Len(r) /\ Len(r) # 0 /\ Len(flat) \in Nat /\ Len(r) \in Nat
        BY <1>3, <1>5, ConcatProperties, LenProperties, EmptySeq DEF Bytes
      <4>2. Len(raw) # 0
        BY <4>1
      <4> QED BY <4>2, EmptySeq
    <3>2. PICK end \in {Unix, Dos, Payload(DoneEvent)} : IsSuffix(end, raw)
      <4> HIDE DEF record
      <4>1. EndsClean(record)
        BY DEF record
      <4> QED BY <1>6, <3>1, <4>1 DEF EndsClean
    <3>3. EndsDone(raw)
      <4> HIDE DEF flat
      <4>1. IsSuffix(end, flat \o r)
        BY <1>5, <3>2
      <4> QED BY <1>3, <1>5, <4>1, RestEndsClean
    <3> QED BY <1>5, <1>9, <3>3, HoldsDoneIs
  <2> DEFINE f == Payload(DoneEvent) \o Unix
             bytes == raw \o Payload(DoneEvent) \o Unix
             W == Append(V, f)
             ev == Says(DoneEvent)
  <2>2. Replay(record)
          = Events(Cut(bytes).frames \o (IF Cut(bytes).buf = <<>> THEN <<>> ELSE <<Cut(bytes).buf>>))
    <3> HIDE DEF record
    <3> QED BY <1>6, <1>9 DEF Replay, HoldsDone
  <2>3. f \in WholeFrames /\ Parse(f) = ev /\ f \in Seq(Byte)
    <3>1. f \in WholeFrames /\ IsFrame(f, DoneEvent)
      BY DoneEventIs, WholeFrame, FrameIs
    <3> QED BY <3>1, DoneEventIs, ParsesFrame, FramesAreBytes DEF Bytes
  <2>4. bytes = flat \o f
    <3> DEFINE a == Payload(DoneEvent)
    <3>1. a \in Seq(Byte) /\ Unix \in Seq(Byte) /\ flat \in Seq(Byte)
      BY <1>3, DoneEventIs, PayloadFacts, EndFacts DEF Bytes
    <3>2. raw = flat
      <4> HIDE DEF flat
      <4>1. flat \o <<>> = flat
        BY <3>1, ConcatEmptySeq
      <4> QED BY <1>5, <2>1, <4>1
    <3> HIDE DEF a, flat
    <3>3. Join(Join(flat, a), Unix) = Join(flat, Join(a, Unix))
      BY <3>1, JoinsAssociate
    <3> QED BY <3>2, <3>3 DEF Join, a
  <2> HIDE DEF f
  <2>5. W \in Seq(WholeFrames)
    BY <2>3, AppendProperties
  <2>6. FlattenSeq(W) = flat \o f
    <3>1. V \in Seq(Seq(Byte))
      BY FramesAreBytes DEF Bytes
    <3> QED BY <2>3, <3>1, Flattened
  <2>7. Cut(bytes) = State(W, <<>>)
    <3> DEFINE w == FlattenSeq(W)
    <3>1. w \in Bytes
      BY <2>5, FramesAreBytes
    <3>2. Cut(w \o <<>>) = State(W, <<>>)
      <4> HIDE DEF W
      <4> QED BY <2>5, EmptyRest, CutOfFlat
    <3>3. bytes = w
      BY <2>4, <2>6
    <3> HIDE DEF w, bytes
    <3>4. w \o <<>> = w
      BY <3>1, ConcatEmptySeq DEF Bytes
    <3> QED BY <3>2, <3>3, <3>4
  <2> HIDE DEF bytes
  <2>8. Cut(bytes).frames = W /\ Cut(bytes).buf = <<>>
    BY <2>7 DEF State
  <2>9. Replay(record) = Events(W)
    <3> HIDE DEF W, record
    <3>1. W \o <<>> = W
      BY <2>5, ConcatEmptySeq
    <3> QED BY <2>2, <2>8, <3>1
  <2> DEFINE E == Events(V)
  <2>10. Events(W) = Append(E, ev)
    <3> DEFINE o == <<f>>
    <3>1. o \in Seq(WholeFrames) /\ W = V \o o
      <4>1. o \in Seq(WholeFrames)
        BY <2>3
      <4> QED BY <2>3, <4>1, AppendIsConcat
    <3>2. Events(o) = <<ev>>
      <4>1. Events(<<f>>) = <<Parse(f)>>
        BY DEF Events
      <4> QED BY <2>3, <4>1
    <3> HIDE DEF o, W, ev
    <3>3. Events(V \o o) = Events(V) \o Events(o)
      BY <3>1, EventsConcat
    <3>4. E \in Seq(Speech) /\ ev \in Speech
      BY <1>3, DoneEventIs DEF ev
    <3> HIDE DEF E
    <3>5. Append(E, ev) = E \o <<ev>>
      BY <3>4, AppendIsConcat
    <3> QED BY <3>1, <3>2, <3>3, <3>5 DEF E
  <2>11. Told(record) = Ingest(mine, ev)
    <3>1. Told(record) = Ingested(NoDeltas, Append(E, ev))
      BY <2>9, <2>10 DEF Told, Assemble, Ingested
    <3>2. E \in Seq(Speech) /\ ev \in Speech
      BY <1>3, DoneEventIs
    <3>3. mine = Ingested(NoDeltas, E)
      OBVIOUS
    <3> HIDE DEF E, ev, mine, record
    <3> QED BY <3>1, <3>2, <3>3, IngestedIs, NoDeltasTyped
  <2>12. acc = AsmOf(s, n)
    BY <1>1, <2>1, EmptyTrailing, IngestedIs
  <2>13. Alike(mine, acc)
    BY <1>2, <2>12
  <2>14. ev \in Speech /\ ev.is = "done"
    BY DoneEventIs
  <2> HIDE DEF mine, ev, record
  <2>15. Told(record) = [mine EXCEPT !.done = TRUE]
    BY <1>4, <2>11, <2>14, IngestIs
  <2>16. mine.error = acc.error /\ mine.bad = acc.bad /\ mine.choices = acc.choices
    BY <1>7, <2>13 DEF Alike
  <2>17. Told(record).done /\ Told(record).error = mine.error /\ Told(record).bad = mine.bad
         /\ Told(record).choices = mine.choices
    BY <1>4, <2>15 DEF Assembled
  <2> QED BY <1>7, <2>16, <2>17 DEF record
<1> QED BY <1>8, <1>9

-----------------------------------------------------------------------------
(***************************************************************************)
(* The replay of a plain response.                                         *)
(***************************************************************************)
LEMMA AppendExcept ==
  ASSUME NEW S, NEW s \in Seq(S), NEW a \in S, NEW b \in S, NEW n, n = Len(s) + 1
  PROVE  [Append(s, a) EXCEPT ![n] = b] = Append(s, b)
<1> DEFINE x == Append(s, a)
           y == Append(s, b)
           z == [x EXCEPT ![n] = b]
<1>1. Len(s) \in Nat
  BY LenProperties
<1>2. x \in Seq(S) /\ Len(x) = Len(s) + 1 /\ (\A i \in 1..Len(s) : x[i] = s[i])
  BY AppendProperties
<1>3. y \in Seq(S) /\ Len(y) = Len(s) + 1 /\ (\A i \in 1..Len(s) : y[i] = s[i]) /\ y[Len(s) + 1] = b
  BY AppendProperties
<1>4. n \in 1..Len(x)
  BY <1>1, <1>2
<1> HIDE DEF x, y
<1>5. z \in Seq(S) /\ Len(z) = Len(x) /\ \A i \in 1..Len(x) : z[i] = IF i = n THEN b ELSE x[i]
  BY <1>2, <1>4, ExceptSeq
<1> HIDE DEF z
<1>6. ASSUME NEW i \in 1..Len(z) PROVE z[i] = y[i]
  <2>1. i \in 1..Len(s) \/ i = n
    BY <1>1, <1>2, <1>5
  <2>2. i \in 1..Len(s) => i # n
    BY <1>1
  <2> QED BY <1>2, <1>3, <1>5, <2>1, <2>2
<1>7. Len(z) = Len(y)
  BY <1>2, <1>3, <1>5
<1>8. z = y
  BY <1>3, <1>5, <1>6, <1>7, SeqEqual
<1> QED BY <1>8 DEF x, y, z

LEMMA OneMore ==
  ASSUME NEW S, NEW k \in Nat \ {0}, NEW f, \A i \in 1..k : f[i] \in S
  PROVE  /\ [i \in 1..(k - 1) |-> f[i]] \in Seq(S)
         /\ Len([i \in 1..(k - 1) |-> f[i]]) = k - 1
         /\ [i \in 1..k |-> f[i]] = Append([i \in 1..(k - 1) |-> f[i]], f[k])
<1> DEFINE a == [i \in 1..(k - 1) |-> f[i]]
           b == [i \in 1..k |-> f[i]]
           c == Append(a, f[k])
           n == k - 1
<1>1. n \in Nat /\ n + 1 = k /\ k \in 1..k /\ \A i \in 1..n : i \in 1..k
  OBVIOUS
<1>2. a \in Seq(S) /\ Len(a) = n /\ \A i \in 1..n : a[i] = f[i]
  <2>1. a \in [1..n -> S] /\ \A i \in 1..n : a[i] = f[i]
    BY <1>1
  <2> HIDE DEF a, n
  <2> QED BY <1>1, <2>1
<1>3. b \in Seq(S) /\ Len(b) = k /\ \A i \in 1..k : b[i] = f[i]
  <2>1. b \in [1..k -> S] /\ \A i \in 1..k : b[i] = f[i]
    OBVIOUS
  <2> HIDE DEF b
  <2> QED BY <2>1
<1> HIDE DEF a, b, n
<1>4. c \in Seq(S) /\ Len(c) = k /\ (\A i \in 1..n : c[i] = a[i]) /\ c[k] = f[k]
  BY <1>1, <1>2, AppendProperties
<1> HIDE DEF c
<1>5. ASSUME NEW i \in 1..Len(b) PROVE b[i] = c[i]
  <2>1. i \in 1..n \/ i = k
    BY <1>1, <1>3
  <2> QED BY <1>2, <1>3, <1>4, <2>1
<1>6. b = c
  BY <1>3, <1>4, <1>5, SeqEqual
<1> QED BY <1>2, <1>6 DEF a, b, c, n

BodyChoices == [content : Seq(STRING), finished : BOOLEAN, tools : Seq(CallDeltas)]

(* Calls that clients put where the body has them.                           *)
InOrder(ts) == \A j \in 1..Len(ts) : ts[j].index = j - 1 \/ (ts[j].index = None /\ j = 1)

CallOf(t) == [name |-> t.name, args |-> t.args]
CallsOf(ts) == [j \in 1..Len(ts) |-> CallOf(ts[j])]
AnswerOf(c) == [content |-> c.content, finished |-> c.finished, tools |-> CallsOf(c.tools)]

LEMMA CallTyped ==
  ASSUME NEW t \in CallDeltas
  PROVE  CallOf(t) \in Calls
BY DEF CallOf, Calls, CallDeltas

LEMMA ToolInOrder ==
  ASSUME NEW tools \in Seq(Calls), NEW t \in CallDeltas, NEW k \in Nat \ {0}, Len(tools) = k - 1,
         t.index = k - 1 \/ (t.index = None /\ k = 1)
  PROVE  IngestTool(tools, t) = Append(tools, CallOf(t))
<1> DEFINE p == IF t.index = None THEN 1 ELSE t.index + 1
           w == Widened(tools, k, NoTool)
           new == [name |-> IF w[k].name = None THEN t.name ELSE w[k].name,
                   args |-> w[k].args \o t.args]
<1>1. p = k
  BY EventsAssumption
<1>2. NoTool \in Calls
  BY EmptySeq DEF NoTool, Calls
<1>3. IngestTool(tools, t) = [w EXCEPT ![k] = new]
  <2> HIDE DEF w
  <2> QED BY <1>1 DEF IngestTool, w
<1>4. w = Append(tools, NoTool)
  BY <1>2, WidenedIs
<1>5. w[k] = NoTool
  <2>1. Len(tools) + 1 = k
    OBVIOUS
  <2>2. Append(tools, NoTool)[Len(tools) + 1] = NoTool
    BY <1>2, AppendProperties
  <2> QED BY <1>4, <2>1, <2>2
<1> HIDE DEF w, p
<1>6. new = CallOf(t)
  <2>1. t.args \in Seq(STRING) /\ NoTool.name = None /\ NoTool.args = <<>>
    BY DEF CallDeltas, NoTool
  <2>2. <<>> \o t.args = t.args
    BY <2>1, ConcatEmptySeq
  <2> QED BY <1>5, <2>1, <2>2 DEF CallOf
<1> HIDE DEF new
<1>7. k = Len(tools) + 1
  OBVIOUS
<1> QED BY <1>2, <1>3, <1>4, <1>6, <1>7, CallTyped, AppendExcept

LEMMA ToolsInOrder ==
  ASSUME NEW ts \in Seq(CallDeltas), InOrder(ts)
  PROVE  ToolsOf(<<>>, ts) = CallsOf(ts)
<1> DEFINE N == Len(ts)
           f == CallsOf(ts)
           P(k) == [j \in 1..k |-> f[j]]
<1>1. N \in Nat /\ \A i \in 1..N : ts[i] \in CallDeltas
  OBVIOUS
<1>2. PICK g : /\ g[0] = <<>> /\ g[N] = Tools!Fold(<<>>, ts)
               /\ \A k \in 1..N : g[k] = IngestTool(g[k - 1], ts[k])
  BY Tools!FoldSteps
<1>3. \A i \in 1..N : f[i] = CallOf(ts[i]) /\ f[i] \in Calls
  BY <1>1, CallTyped DEF CallsOf
<1>4. f = P(N)
  BY DEF CallsOf
<1> DEFINE T == {k \in 0..N : g[k] = P(k)}
<1>5. 0 \in T
  <2>1. P(0) = <<>>
    OBVIOUS
  <2> HIDE DEF P
  <2> QED BY <1>1, <1>2, <2>1
<1>6. ASSUME NEW k \in 1..N, k - 1 \in T PROVE k \in T
  <2>1. k \in Nat \ {0} /\ \A i \in 1..k : f[i] \in Calls
    BY <1>1, <1>3
  <2> HIDE DEF f
  <2>2. P(k - 1) \in Seq(Calls) /\ Len(P(k - 1)) = k - 1 /\ P(k) = Append(P(k - 1), f[k])
    BY <2>1, OneMore
  <2>3. g[k - 1] = P(k - 1)
    BY <1>6
  <2> HIDE DEF P
  <2>4. ts[k].index = k - 1 \/ (ts[k].index = None /\ k = 1)
    BY DEF InOrder
  <2> DEFINE t == ts[k]
             tools == P(k - 1)
  <2>5. t \in CallDeltas /\ (t.index = k - 1 \/ (t.index = None /\ k = 1)) /\ tools \in Seq(Calls)
        /\ Len(tools) = k - 1
    BY <1>1, <2>2, <2>4
  <2> HIDE DEF t, tools
  <2>6. IngestTool(tools, t) = Append(tools, CallOf(t))
    BY <2>1, <2>5, ToolInOrder
  <2>7. g[k] = P(k)
    BY <1>2, <1>3, <2>2, <2>3, <2>6 DEF t, tools
  <2> QED BY <1>1, <2>7
<1>7. T \subseteq 0..N
  OBVIOUS
<1>8. T = 0..N
  <2> HIDE DEF T, N
  <2> QED BY <1>1, <1>5, <1>6, <1>7, Joins!Inductive
<1>9. N \in T
  <2>1. N \in 0..N
    BY <1>1
  <2> HIDE DEF T, N
  <2> QED BY <1>8, <2>1
<1>10. g[N] = f
  <2>1. g[N] = P(N)
    BY <1>9
  <2> HIDE DEF P, f
  <2> QED BY <1>4, <2>1
<1> QED BY <1>2, <1>10, ToolsFold

(* The two chunks of a choice.                                               *)
ChunkOf(choices, usage) ==
  Event("data", [error |-> FALSE, usage |-> usage, choices |-> choices])
DeltaOf(i, content, tools, finish) ==
  [index |-> i - 1, content |-> content, tools |-> tools, finish |-> finish]
PairOf(c, i) ==
  <<ChunkOf(<<DeltaOf(i, c.content, c.tools, FALSE)>>, None),
    ChunkOf(<<DeltaOf(i, <<>>, <<>>, c.finished)>>, None)>>

LEMMA RechunkIs ==
  ASSUME NEW body
  PROVE  Rechunk(body)
           = FlattenSeq([i \in 1..Len(body.choices) |-> PairOf(body.choices[i], i)])
             \o <<ChunkOf(<<>>, body.usage), Event("done", None)>>
BY DEF Rechunk, PairOf, DeltaOf, ChunkOf

LEMMA OneDelta ==
  ASSUME NEW choices \in Seq(Answers), NEW d \in ChoiceDeltas
  PROVE  ChoicesOf(choices, <<d>>) = IngestChoice(choices, d)
<1> DEFINE none == <<>>
<1>1. none \in Seq(ChoiceDeltas) /\ Append(none, d) = <<d>>
  OBVIOUS
<1> HIDE DEF none
<1>2. Deltas!Fold(choices, Append(none, d)) = IngestChoice(Deltas!Fold(choices, none), d)
  <2>1. none \in Seq(ChoiceDeltas)
    BY <1>1
  <2> QED BY ONLY <2>1, d \in ChoiceDeltas, Deltas!FoldAppend
<1>3. Deltas!Fold(choices, none) = choices
  BY Deltas!FoldEmpty DEF none
<1> QED BY <1>1, <1>2, <1>3, ChoicesFold

LEMMA ChunkHeard ==
  ASSUME NEW x \in Assembled, NEW ds \in Seq(ChoiceDeltas), NEW usage \in Nat \cup {None}
  PROVE  LET y == Ingest(x, ChunkOf(ds, usage))
         IN  /\ ChunkOf(ds, usage) \in Speech
             /\ y \in Assembled /\ y.error = x.error /\ y.bad = x.bad
             /\ y.choices = ChoicesOf(x.choices, ds)
<1> DEFINE ev == ChunkOf(ds, usage)
           chunk == [error |-> FALSE, usage |-> usage, choices |-> ds]
           y == Ingest(x, ev)
           cs == ChoicesOf(x.choices, ds)
<1>1. chunk \in Chunks
  BY DEF Chunks
<1>2. ev = Event("data", chunk)
  BY DEF ChunkOf
<1>3. chunk.error = FALSE /\ chunk.choices = ds
  OBVIOUS
<1> HIDE DEF chunk, ev
<1>4. ev \in Speech
  BY <1>1, <1>2 DEF Speech
<1>5. ev.is = "data" /\ ~ev.chunk.error /\ ev.chunk.choices = ds
  BY <1>2, <1>3 DEF Event
<1>6. PICK n \in Nat : y = [x EXCEPT !.usage = n, !.choices = ChoicesOf(@, ev.chunk.choices)]
  BY <1>4, <1>5, IngestIs
<1>7. y = [x EXCEPT !.usage = n, !.choices = cs]
  BY <1>5, <1>6
<1>8. y \in Assembled
  BY <1>4, IngestIs
<1> HIDE DEF y, cs
<1>9. y.error = x.error /\ y.bad = x.bad /\ y.choices = cs
  BY <1>7 DEF Assembled
<1> QED BY <1>4, <1>8, <1>9 DEF y, cs, ev

LEMMA PairHeard ==
  ASSUME NEW x \in Assembled, NEW c \in BodyChoices, InOrder(c.tools),
         NEW k \in Nat \ {0}, Len(x.choices) = k - 1
  PROVE  /\ PairOf(c, k) \in Seq(Speech)
         /\ Ingested(x, PairOf(c, k)) \in Assembled
         /\ Ingested(x, PairOf(c, k)).error = x.error /\ Ingested(x, PairOf(c, k)).bad = x.bad
         /\ Ingested(x, PairOf(c, k)).choices = Append(x.choices, AnswerOf(c))
<1> DEFINE d1 == DeltaOf(k, c.content, c.tools, FALSE)
           d2 == DeltaOf(k, <<>>, <<>>, c.finished)
           c1 == ChunkOf(<<d1>>, None)
           c2 == ChunkOf(<<d2>>, None)
           y == Ingest(x, c1)
           z == Ingest(y, c2)
           ch == x.choices
           h1 == [content |-> c.content, finished |-> FALSE, tools |-> CallsOf(c.tools)]
           h2 == AnswerOf(c)
<1>1. c.content \in Seq(STRING) /\ c.tools \in Seq(CallDeltas) /\ c.finished \in BOOLEAN
  BY DEF BodyChoices
<1>2. d1 \in ChoiceDeltas /\ d1.index + 1 = k /\ d1.content = c.content /\ d1.tools = c.tools
      /\ d1.finish = FALSE
  <2>1. k - 1 \in Nat /\ (k - 1) + 1 = k
    OBVIOUS
  <2> QED BY <1>1, <2>1 DEF ChoiceDeltas, DeltaOf
<1>3. d2 \in ChoiceDeltas /\ d2.index + 1 = k /\ d2.content = <<>> /\ d2.tools = <<>>
      /\ d2.finish = c.finished
  <2>1. k - 1 \in Nat /\ (k - 1) + 1 = k
    OBVIOUS
  <2>2. <<>> \in Seq(STRING) /\ <<>> \in Seq(CallDeltas)
    BY EmptySeq
  <2> QED BY <1>1, <2>1, <2>2 DEF ChoiceDeltas, DeltaOf
<1>4. CallsOf(c.tools) \in Seq(Calls) /\ ToolsOf(<<>>, c.tools) = CallsOf(c.tools)
  <2>1. ToolsOf(<<>>, c.tools) = CallsOf(c.tools)
    BY <1>1, ToolsInOrder
  <2>2. <<>> \in Seq(Calls)
    BY EmptySeq
  <2>3. ToolsOf(<<>>, c.tools) \in Seq(Calls)
    BY <1>1, <2>2, ToolsTyped
  <2> QED BY <2>1, <2>3
<1>5. PairOf(c, k) = <<c1, c2>>
  BY DEF PairOf
<1>6. ch \in Seq(Answers) /\ Len(ch) + 1 = k /\ Len(ch) = k - 1
  <2>1. ch \in Seq(Answers)
    BY DEF Assembled
  <2> QED BY <2>1
<1>7. h1 \in Answers /\ h2 \in Answers /\ NoChoice \in Answers
  BY <1>1, <1>4, NoChoiceTyped DEF Answers, AnswerOf
<1> HIDE DEF d1, d2
<1>8. <<d1>> \in Seq(ChoiceDeltas) /\ <<d2>> \in Seq(ChoiceDeltas)
  BY <1>2, <1>3
<1>9. c1 \in Speech /\ y \in Assembled /\ y.error = x.error /\ y.bad = x.bad
      /\ y.choices = IngestChoice(ch, d1)
  <2>1. /\ c1 \in Speech /\ y \in Assembled /\ y.error = x.error /\ y.bad = x.bad
        /\ y.choices = ChoicesOf(ch, <<d1>>)
    BY <1>8, ChunkHeard
  <2> QED BY <1>2, <1>6, <2>1, OneDelta
<1> HIDE DEF y, c1, ch
<1>10. IngestChoice(ch, d1) = Append(ch, h1)
  <2> DEFINE w == Widened(ch, k, NoChoice)
  <2>1. IngestChoice(ch, d1) = [w EXCEPT ![k] = Heard(w[k], d1)]
    <3>1. IngestChoice(ch, d1)
            = [Widened(ch, d1.index + 1, NoChoice) EXCEPT ![d1.index + 1] =
                 Heard(Widened(ch, d1.index + 1, NoChoice)[d1.index + 1], d1)]
      BY <1>2, <1>6, ChoiceIs
    <3> QED BY <1>2, <3>1
  <2>2. w = Append(ch, NoChoice)
    BY <1>6, <1>7, WidenedIs
  <2>3. w[k] = NoChoice
    <3>1. Append(ch, NoChoice)[Len(ch) + 1] = NoChoice
      BY <1>6, <1>7, AppendProperties
    <3> QED BY <1>6, <2>2, <3>1
  <2> HIDE DEF w
  <2>4. Heard(NoChoice, d1) = h1
    <3>1. <<>> \o c.content = c.content
      BY <1>1, ConcatEmptySeq
    <3>2. NoChoice.content = <<>> /\ NoChoice.finished = FALSE /\ NoChoice.tools = <<>>
      BY DEF NoChoice
    <3>3. (NoChoice.finished \/ d1.finish) = FALSE
      BY <1>2, <3>2
    <3>4. NoChoice.content \o d1.content = c.content /\ ToolsOf(NoChoice.tools, d1.tools) = CallsOf(c.tools)
      BY <1>2, <1>4, <3>1, <3>2
    <3> QED BY <3>3, <3>4 DEF Heard
  <2> HIDE DEF h1
  <2> QED BY <1>6, <1>7, <2>1, <2>2, <2>3, <2>4, AppendExcept
<1> DEFINE ch2 == Append(ch, h1)
<1>11. ch2 \in Seq(Answers) /\ Len(ch2) = k /\ ch2[k] = h1
  <2> HIDE DEF h1
  <2> QED BY <1>6, <1>7, AppendProperties
<1>12. y.choices = ch2
  BY <1>9, <1>10
<1> HIDE DEF ch2
<1>13. c2 \in Speech /\ z \in Assembled /\ z.error = x.error /\ z.bad = x.bad
      /\ z.choices = IngestChoice(ch2, d2)
  <2>1. /\ c2 \in Speech /\ z \in Assembled /\ z.error = y.error /\ z.bad = y.bad
        /\ z.choices = ChoicesOf(y.choices, <<d2>>)
    BY <1>8, <1>9, ChunkHeard
  <2> QED BY <1>3, <1>9, <1>11, <1>12, <2>1, OneDelta
<1> HIDE DEF z, c2
<1>14. IngestChoice(ch2, d2) = Append(ch, h2)
  <2>1. Widened(ch2, k, NoChoice) = ch2
    <3>1. Len(ch2) >= k
      BY <1>11
    <3> QED BY <3>1 DEF Widened
  <2>2. IngestChoice(ch2, d2) = [ch2 EXCEPT ![k] = Heard(ch2[k], d2)]
    <3>1. IngestChoice(ch2, d2)
            = [Widened(ch2, d2.index + 1, NoChoice) EXCEPT ![d2.index + 1] =
                 Heard(Widened(ch2, d2.index + 1, NoChoice)[d2.index + 1], d2)]
      BY <1>3, <1>11, ChoiceIs
    <3> QED BY <1>3, <2>1, <3>1
  <2>3. Heard(h1, d2) = h2
    <3>1. c.content \o <<>> = c.content
      BY <1>1, ConcatEmptySeq
    <3>2. h1.content = c.content /\ h1.finished = FALSE /\ h1.tools = CallsOf(c.tools)
      OBVIOUS
    <3>3. ToolsOf(CallsOf(c.tools), <<>>) = CallsOf(c.tools)
      <4>1. Tools!Fold(CallsOf(c.tools), <<>>) = CallsOf(c.tools)
        BY Tools!FoldEmpty
      <4> QED BY <4>1, ToolsFold
    <3> HIDE DEF h1
    <3>4. (h1.finished \/ d2.finish) = c.finished
      BY <1>1, <1>3, <3>2
    <3>5. h1.content \o d2.content = c.content /\ ToolsOf(h1.tools, d2.tools) = CallsOf(c.tools)
      BY <1>3, <3>1, <3>2, <3>3
    <3> QED BY <3>4, <3>5 DEF Heard, AnswerOf
  <2> HIDE DEF h1, h2
  <2>4. [Append(ch, h1) EXCEPT ![k] = h2] = Append(ch, h2)
    BY <1>6, <1>7, AppendExcept
  <2> QED BY <1>11, <2>2, <2>3, <2>4 DEF ch2
<1>15. <<c1, c2>> \in Seq(Speech)
  BY <1>9, <1>13
<1>16. Ingested(x, <<c1, c2>>) = z
  <2> DEFINE o == <<c1>>
  <2>1. o \in Seq(Speech) /\ <<c1, c2>> = Append(o, c2)
    BY <1>9
  <2>2. Ingested(x, o) = y
    BY <1>9, IngestedIs DEF y
  <2> HIDE DEF o
  <2>3. Ingested(x, Append(o, c2)) = Ingest(Ingested(x, o), c2)
    BY <1>13, <2>1, IngestedIs
  <2> QED BY <2>1, <2>2, <2>3 DEF z
<1> QED BY <1>5, <1>13, <1>14, <1>15, <1>16 DEF ch

(* All chunks of a body, its usage and [DONE].                               *)
LEMMA PairsHeard ==
  ASSUME NEW cs \in Seq(BodyChoices), \A i \in 1..Len(cs) : InOrder(cs[i].tools)
  PROVE  LET pairs == FlattenSeq([i \in 1..Len(cs) |-> PairOf(cs[i], i)])
             x == Ingested(NoDeltas, pairs)
         IN  /\ pairs \in Seq(Speech) /\ x \in Assembled /\ ~x.error /\ ~x.bad
             /\ x.choices = [i \in 1..Len(cs) |-> AnswerOf(cs[i])]
<1> DEFINE N == Len(cs)
           t == [i \in 1..N |-> PairOf(cs[i], i)]
           f == [i \in 1..N |-> AnswerOf(cs[i])]
           X(k) == Ingested(NoDeltas, FlattenSeq(SubSeq(t, 1, k)))
           A(k) == [i \in 1..k |-> f[i]]
           Well(k) == /\ X(k) \in Assembled /\ ~X(k).error /\ ~X(k).bad
                      /\ X(k).choices = A(k)
           T == {k \in 0..N : Well(k)}
<1>1. N \in Nat /\ \A i \in 1..N : cs[i] \in BodyChoices /\ InOrder(cs[i].tools)
  OBVIOUS
<1>2. ASSUME NEW i \in 1..N PROVE PairOf(cs[i], i) \in Seq(Speech) /\ AnswerOf(cs[i]) \in Answers
  <2> DEFINE c == cs[i]
  <2>1. c \in BodyChoices /\ i \in Nat \ {0}
    BY <1>1
  <2> HIDE DEF c
  <2>2. c.content \in Seq(STRING) /\ c.tools \in Seq(CallDeltas) /\ c.finished \in BOOLEAN
    BY <2>1 DEF BodyChoices
  <2>3. AnswerOf(c) \in Answers
    <3>1. \A j \in 1..Len(c.tools) : CallOf(c.tools[j]) \in Calls
      <4>1. \A j \in 1..Len(c.tools) : c.tools[j] \in CallDeltas
        BY <2>2, ElementOfSeq
      <4> QED BY <4>1, CallTyped
    <3>2. Len(c.tools) \in Nat
      BY <2>2, LenProperties
    <3>3. CallsOf(c.tools) \in [1..Len(c.tools) -> Calls]
      BY <3>1 DEF CallsOf
    <3> HIDE DEF CallsOf
    <3>4. CallsOf(c.tools) \in Seq(Calls)
      BY <3>2, <3>3
    <3> QED BY <2>2, <3>4 DEF Answers, AnswerOf
  <2>4. PairOf(c, i) \in Seq(Speech)
    <3> DEFINE d1 == DeltaOf(i, c.content, c.tools, FALSE)
               d2 == DeltaOf(i, <<>>, <<>>, c.finished)
    <3>1. d1 \in ChoiceDeltas
      BY <2>1, <2>2 DEF ChoiceDeltas, DeltaOf
    <3>2. d2 \in ChoiceDeltas
      <4>1. <<>> \in Seq(STRING) /\ <<>> \in Seq(CallDeltas)
        BY EmptySeq
      <4> QED BY <2>1, <2>2, <4>1 DEF ChoiceDeltas, DeltaOf
    <3> DEFINE c1 == ChunkOf(<<d1>>, None)
               c2 == ChunkOf(<<d2>>, None)
    <3>3. PairOf(c, i) = <<c1, c2>>
      BY DEF PairOf
    <3> HIDE DEF d1, d2
    <3>4. <<d1>> \in Seq(ChoiceDeltas) /\ <<d2>> \in Seq(ChoiceDeltas)
      BY <3>1, <3>2
    <3>5. c1 \in Speech /\ c2 \in Speech
      BY <3>4, NoDeltasTyped, ChunkHeard
    <3> HIDE DEF c1, c2
    <3> QED BY <3>3, <3>5
  <2> QED BY <2>3, <2>4 DEF c
<1>3. t \in Seq(Seq(Speech)) /\ Len(t) = N /\ \A i \in 1..N : t[i] = PairOf(cs[i], i)
  <2>1. t \in [1..N -> Seq(Speech)] /\ \A i \in 1..N : t[i] = PairOf(cs[i], i)
    BY <1>2
  <2> HIDE DEF t, N
  <2> QED BY <1>1, <2>1
<1>4. \A i \in 1..N : f[i] = AnswerOf(cs[i]) /\ f[i] \in Answers
  BY <1>2
<1>5. f = A(N)
  OBVIOUS
<1> HIDE DEF t, f
<1>6. /\ SubSeq(t, 1, Len(t)) = t /\ SubSeq(t, 1, 0) = <<>>
      /\ \A k \in 1..Len(t) :
           /\ SubSeq(t, 1, k - 1) \in Seq(Seq(Speech)) /\ t[k] \in Seq(Speech)
           /\ SubSeq(t, 1, k) = Append(SubSeq(t, 1, k - 1), t[k])
  BY <1>3, PrefixSteps
<1>7. 0 \in T
  <2>1. X(0) = NoDeltas
    BY <1>6, Flattened, IngestedIs
  <2>2. A(0) = <<>>
    OBVIOUS
  <2>3. NoDeltas.error = FALSE /\ NoDeltas.bad = FALSE /\ NoDeltas.choices = <<>>
    BY DEF NoDeltas
  <2> HIDE DEF X, A
  <2>4. Well(0)
    BY <2>1, <2>2, <2>3, NoDeltasTyped
  <2> QED BY <1>1, <2>4
<1>8. ASSUME NEW k \in 1..N, k - 1 \in T PROVE k \in T
  <2>1. Well(k - 1)
    BY <1>8
  <2> DEFINE x == X(k - 1)
             flat == FlattenSeq(SubSeq(t, 1, k - 1))
             c == cs[k]
             p == PairOf(c, k)
             before == A(k - 1)
  <2>2. x \in Assembled /\ ~x.error /\ ~x.bad /\ x.choices = before
    BY <2>1
  <2>3. flat \in Seq(Speech) /\ p \in Seq(Speech) /\ FlattenSeq(SubSeq(t, 1, k)) = flat \o p
    <3> DEFINE u == SubSeq(t, 1, k - 1)
               v == t[k]
    <3>1. u \in Seq(Seq(Speech)) /\ v \in Seq(Speech) /\ SubSeq(t, 1, k) = Append(u, v) /\ v = p
      BY <1>3, <1>6
    <3> HIDE DEF u, v, p
    <3>2. FlattenSeq(Append(u, v)) = FlattenSeq(u) \o v /\ FlattenSeq(u) \in Seq(Speech)
      BY <3>1, Flattened
    <3> QED BY <3>1, <3>2 DEF u
  <2>4. X(k) = Ingested(x, p)
    <3>1. x = Ingested(NoDeltas, flat)
      OBVIOUS
    <3>2. X(k) = Ingested(NoDeltas, flat \o p)
      BY <2>3
    <3> HIDE DEF X, x, flat, p
    <3> QED BY <2>3, <3>1, <3>2, IngestedIs, NoDeltasTyped
  <2>5. before \in Seq(Answers) /\ Len(before) = k - 1 /\ A(k) = Append(before, f[k])
    <3>1. k \in Nat \ {0} /\ \A i \in 1..k : f[i] \in Answers
      BY <1>1, <1>4
    <3> QED BY <3>1, OneMore
  <2>6. c \in BodyChoices /\ InOrder(c.tools) /\ k \in Nat \ {0} /\ f[k] = AnswerOf(c)
    BY <1>1, <1>4
  <2> HIDE DEF X, A, x, before, c
  <2>7. /\ Ingested(x, p) \in Assembled
        /\ Ingested(x, p).error = x.error /\ Ingested(x, p).bad = x.bad
        /\ Ingested(x, p).choices = Append(x.choices, AnswerOf(c))
    BY <2>2, <2>5, <2>6, PairHeard
  <2>8. Well(k)
    BY <2>2, <2>4, <2>5, <2>6, <2>7
  <2> QED BY <1>1, <2>8
<1>9. T \subseteq 0..N
  OBVIOUS
<1>10. T = 0..N
  <2> HIDE DEF T, N
  <2> QED BY <1>1, <1>7, <1>8, <1>9, Joins!Inductive
<1>11. Well(N)
  <2>1. N \in 0..N
    BY <1>1
  <2>2. N \in T
    <3> HIDE DEF T, N
    <3> QED BY <1>10, <2>1
  <2> QED BY <2>2
<1>12. SubSeq(t, 1, N) = t
  BY <1>3, <1>6
<1>13. FlattenSeq(t) \in Seq(Speech)
  BY <1>3, Flattened
<1> DEFINE z == Ingested(NoDeltas, FlattenSeq(t))
<1>14. X(N) = z
  BY <1>12
<1> HIDE DEF X, A, z
<1>15. z \in Assembled /\ ~z.error /\ ~z.bad /\ z.choices = f
  BY <1>5, <1>11, <1>14
<1> QED BY <1>13, <1>15 DEF z, t, f

LEMMA BodyRetold ==
  ASSUME NEW body, body.choices \in Seq(BodyChoices), body.usage \in Nat,
         \A i \in 1..Len(body.choices) : InOrder(body.choices[i].tools)
  PROVE  LET told == Assemble(Rechunk(body))
         IN  /\ ~told.bad /\ ~told.error /\ told.done
             /\ told.choices = [i \in 1..Len(body.choices) |-> AnswerOf(body.choices[i])]
<1> DEFINE pairs == FlattenSeq([i \in 1..Len(body.choices) |-> PairOf(body.choices[i], i)])
           x == Ingested(NoDeltas, pairs)
           c == ChunkOf(<<>>, body.usage)
           d == Event("done", None)
           answers == [i \in 1..Len(body.choices) |-> AnswerOf(body.choices[i])]
           told == Assemble(Rechunk(body))
           y == Ingest(x, c)
<1>1. pairs \in Seq(Speech) /\ x \in Assembled /\ ~x.error /\ ~x.bad /\ x.choices = answers
  BY PairsHeard
<1>2. Rechunk(body) = pairs \o <<c, d>>
  BY RechunkIs
<1>3. d \in Speech /\ d.is = "done"
  BY DEF Speech, Event
<1> HIDE DEF pairs, answers
<1>4. c \in Speech /\ y \in Assembled /\ y.error = x.error /\ y.bad = x.bad
      /\ y.choices = x.choices
  <2> DEFINE none == <<>>
  <2>1. none \in Seq(ChoiceDeltas) /\ body.usage \in Nat \cup {None}
    BY EmptySeq
  <2>2. ChoicesOf(x.choices, none) = x.choices
    BY NoChoicesHeard
  <2> HIDE DEF x
  <2>3. c = ChunkOf(none, body.usage)
    OBVIOUS
  <2> HIDE DEF none, c
  <2>4. /\ c \in Speech /\ y \in Assembled /\ y.error = x.error /\ y.bad = x.bad
        /\ y.choices = ChoicesOf(x.choices, none)
    BY <1>1, <2>1, <2>3, ChunkHeard
  <2> QED BY <2>2, <2>4
<1> DEFINE u == Append(pairs, c)
<1>5. pairs \o <<c, d>> = Append(u, d) /\ u \in Seq(Speech)
  <2> HIDE DEF c, d
  <2>1. u = pairs \o <<c>> /\ <<c>> \in Seq(Speech) /\ <<d>> \in Seq(Speech)
        /\ <<c, d>> = <<c>> \o <<d>> /\ u \in Seq(Speech)
    <3>1. u = pairs \o <<c>> /\ u \in Seq(Speech)
      BY <1>1, <1>4, AppendIsConcat, AppendProperties
    <3>2. <<c>> \in Seq(Speech) /\ <<d>> \in Seq(Speech)
      BY <1>3, <1>4
    <3>3. <<c, d>> = <<c>> \o <<d>>
      <4> DEFINE o == <<c>>
      <4>1. o \in Seq(Speech) /\ <<c, d>> = Append(o, d)
        BY <1>4
      <4> HIDE DEF o
      <4>2. Append(o, d) = o \o <<d>>
        BY <1>3, <4>1, AppendIsConcat
      <4> QED BY <4>1, <4>2 DEF o
    <3> QED BY <3>1, <3>2, <3>3
  <2> DEFINE p == <<c>>
             q == <<d>>
  <2>2. Append(u, d) = u \o q
    BY <1>3, <2>1, AppendIsConcat
  <2>3. p \in Seq(Speech) /\ q \in Seq(Speech) /\ u = pairs \o p /\ <<c, d>> = p \o q
    BY <2>1
  <2> HIDE DEF p, q
  <2>4. Join(Join(pairs, p), q) = Join(pairs, Join(p, q))
    BY <1>1, <2>3, JoinsAssociate
  <2> QED BY <2>1, <2>2, <2>3, <2>4 DEF Join
<1>6. told = Ingested(NoDeltas, Append(u, d))
  BY <1>2, <1>5 DEF Assemble, Ingested
<1> HIDE DEF told, c, d
<1>7. Ingested(NoDeltas, u) = y
  BY <1>1, <1>4, IngestedIs, NoDeltasTyped
<1> HIDE DEF u, x, y
<1>8. told = Ingest(y, d)
  BY <1>3, <1>5, <1>6, <1>7, IngestedIs, NoDeltasTyped
<1>9. told = [y EXCEPT !.done = TRUE]
  BY <1>3, <1>4, <1>8, IngestIs
<1>10. told.done /\ told.error = y.error /\ told.bad = y.bad /\ told.choices = y.choices
  BY <1>4, <1>9 DEF Assembled
<1>11. ~told.bad /\ ~told.error /\ told.done /\ told.choices = answers
  BY <1>1, <1>4, <1>10
<1> QED BY <1>11 DEF answers, told

(* Whichever record it is, its replay is faithful.                           *)
LEMMA PlainIsFaithful ==
  ASSUME NEW body \in PlainBodies, ~Unnumbered(PlainRecord(body))
  PROVE  ReplayIsFaithful(PlainRecord(body))
<1> DEFINE record == PlainRecord(body)
           cs == body.choices
           told == Told(record)
<1>1. record.body = body /\ ~record.streamed
  BY DEF PlainRecord
<1>2. body \in [usage : Nat,
                choices : Seq([content : Seq(STRING), finished : BOOLEAN, tools : Seq(CallDeltas)])]
      /\ \A i \in 1..Len(cs) :
           LET tools == cs[i].tools
           IN  \/ \A j \in 1..Len(tools) : tools[j].index = None
               \/ \A j \in 1..Len(tools) : tools[j].index = j - 1
  BY BodiesAssumption
<1>3. cs \in Seq(BodyChoices) /\ body.usage \in Nat
  BY <1>2 DEF BodyChoices
<1>4. ASSUME NEW i \in 1..Len(cs) PROVE InOrder(cs[i].tools)
  <2> DEFINE ts == cs[i].tools
  <2>1. ~(Len(ts) > 1 /\ \E j \in 1..Len(ts) : ts[j].index = None)
    BY <1>1 DEF Unnumbered
  <2>2. (\A j \in 1..Len(ts) : ts[j].index = None) \/ (\A j \in 1..Len(ts) : ts[j].index = j - 1)
    BY <1>2
  <2>3. Len(ts) \in Nat
    <3>1. cs[i] \in BodyChoices
      BY <1>3, ElementOfSeq
    <3>2. ts \in Seq(CallDeltas)
      BY <3>1 DEF BodyChoices
    <3> QED BY <3>2, LenProperties
  <2> HIDE DEF ts
  <2>4. ASSUME NEW j \in 1..Len(ts) PROVE ts[j].index = j - 1 \/ (ts[j].index = None /\ j = 1)
    <3>1. CASE ts[j].index = None
      <4>1. ~(Len(ts) > 1)
        BY <2>1, <3>1
      <4>2. j = 1
        BY <2>3, <4>1
      <4> QED BY <3>1, <4>2
    <3>2. CASE ts[j].index # None
      BY <2>2, <3>2
    <3> QED BY <3>1, <3>2
  <2>5. InOrder(ts)
    BY <2>4 DEF InOrder
  <2> QED BY <2>5 DEF ts
<1>5. told = Assemble(Rechunk(body))
  <2> HIDE DEF record
  <2> QED BY <1>1 DEF Told, Replay
<1>6. /\ ~told.bad /\ ~told.error /\ told.done
      /\ told.choices = [i \in 1..Len(cs) |-> AnswerOf(cs[i])]
  BY <1>3, <1>4, <1>5, BodyRetold
<1> HIDE DEF told
<1>7. Meaning(told.choices) = Meaning(cs)
  <2> DEFINE a == told.choices
             M(c) == <<c.content, c.finished,
                       [j \in 1..Len(c.tools) |-> <<c.tools[j].name, c.tools[j].args>>]>>
  <2>1. Len(a) = Len(cs) /\ \A i \in 1..Len(cs) : a[i] = AnswerOf(cs[i])
    <3>1. Len(cs) \in Nat
      BY <1>3, LenProperties
    <3> QED BY <1>6, <3>1
  <2>2. ASSUME NEW i \in 1..Len(cs) PROVE M(a[i]) = M(cs[i])
    <3> DEFINE c == cs[i]
               h == AnswerOf(c)
    <3>1. c.tools \in Seq(CallDeltas)
      <4>1. c \in BodyChoices
        BY <1>3, ElementOfSeq
      <4> QED BY <4>1 DEF BodyChoices
    <3>2. h.content = c.content /\ h.finished = c.finished /\ h.tools = CallsOf(c.tools)
      BY DEF AnswerOf
    <3> DEFINE ts == c.tools
               hs == CallsOf(ts)
    <3>3. Len(hs) = Len(ts) /\ \A j \in 1..Len(ts) : hs[j].name = ts[j].name /\ hs[j].args = ts[j].args
      <4>1. Len(ts) \in Nat
        BY <3>1, LenProperties
      <4>2. Len(hs) = Len(ts)
        BY <4>1 DEF CallsOf
      <4>3. \A j \in 1..Len(ts) : hs[j] = CallOf(ts[j])
        BY DEF CallsOf
      <4>4. \A x : CallOf(x).name = x.name /\ CallOf(x).args = x.args
        BY DEF CallOf
      <4> HIDE DEF hs, ts
      <4> QED BY <4>2, <4>3, <4>4
    <3> HIDE DEF hs, ts, h, c
    <3>4. [j \in 1..Len(hs) |-> <<hs[j].name, hs[j].args>>]
            = [j \in 1..Len(ts) |-> <<ts[j].name, ts[j].args>>]
      BY <3>3
    <3>5. M(h) = M(c)
      BY <3>2, <3>4 DEF hs, ts
    <3> QED BY <2>1, <3>5 DEF h, c
  <2>3. Meaning(a) = [i \in 1..Len(a) |-> M(a[i])] /\ Meaning(cs) = [i \in 1..Len(cs) |-> M(cs[i])]
    BY DEF Meaning
  <2> HIDE DEF M, a, cs
  <2>4. [i \in 1..Len(a) |-> M(a[i])] = [i \in 1..Len(cs) |-> M(cs[i])]
    BY <2>1, <2>2
  <2> QED BY <2>3, <2>4 DEF a
<1> QED BY <1>1, <1>6, <1>7 DEF ReplayIsFaithful, told

LEMMA StreamIsFaithful ==
  ASSUME NEW s \in Scripts, NEW inj, NEW raw, NEW acc \in Assembled,
         Ended(s, inj, raw, acc), Complete(acc), EndsClean(StreamedRecord(raw, Body(acc)))
  PROVE  ReplayIsFaithful(StreamedRecord(raw, Body(acc)))
<1> DEFINE record == StreamedRecord(raw, Body(acc))
           told == Told(record)
           b == Body(acc).choices
           a == acc.choices
           M(c) == <<c.content, c.finished,
                     [j \in 1..Len(c.tools) |-> <<c.tools[j].name, c.tools[j].args>>]>>
<1>1. ~told.bad /\ ~told.error /\ told.done /\ told.choices = a
  BY StreamRetold
<1>2. record.body.choices = b
  BY DEF StreamedRecord
<1> HIDE DEF told, record
<1>3. a \in Seq(Answers) /\ Len(a) \in Nat
  <2>1. a \in Seq(Answers)
    BY DEF Assembled
  <2> QED BY <2>1, LenProperties
<1>4. /\ Len(b) = Len(a)
      /\ \A i \in 1..Len(a) :
           /\ b[i].content = a[i].content /\ b[i].finished = a[i].finished
           /\ b[i].tools = [j \in 1..Len(a[i].tools) |->
                              [index |-> j - 1, name |-> a[i].tools[j].name,
                               args |-> a[i].tools[j].args]]
  <2> DEFINE of(c) == [content |-> c.content, finished |-> c.finished,
                       tools |-> [j \in 1..Len(c.tools) |->
                                    [index |-> j - 1, name |-> c.tools[j].name,
                                     args |-> c.tools[j].args]]]
  <2>1. b = [i \in 1..Len(a) |-> of(a[i])]
    BY DEF Body
  <2> HIDE DEF a, b
  <2>2. Len(b) = Len(a) /\ \A i \in 1..Len(a) : b[i] = of(a[i])
    <3> HIDE DEF of
    <3> QED BY <1>3, <2>1
  <2>3. ASSUME NEW c
        PROVE  /\ of(c).content = c.content /\ of(c).finished = c.finished
               /\ of(c).tools = [j \in 1..Len(c.tools) |->
                                   [index |-> j - 1, name |-> c.tools[j].name,
                                    args |-> c.tools[j].args]]
    OBVIOUS
  <2> HIDE DEF of
  <2> QED BY <2>2, <2>3
<1>5. ASSUME NEW i \in 1..Len(a) PROVE M(b[i]) = M(a[i])
  <2> DEFINE ts == a[i].tools
             hs == b[i].tools
  <2>1. Len(ts) \in Nat
    <3>1. a[i] \in Answers
      BY <1>3, ElementOfSeq
    <3>2. ts \in Seq(Calls)
      BY <3>1 DEF Answers
    <3> QED BY <3>2, LenProperties
  <2>2. hs = [j \in 1..Len(ts) |-> [index |-> j - 1, name |-> ts[j].name, args |-> ts[j].args]]
    BY <1>4
  <2>3. b[i].content = a[i].content /\ b[i].finished = a[i].finished
    BY <1>4
  <2> HIDE DEF hs, ts, a, b
  <2>4. Len(hs) = Len(ts) /\ \A j \in 1..Len(ts) : hs[j].name = ts[j].name /\ hs[j].args = ts[j].args
    BY <2>1, <2>2
  <2>5. [j \in 1..Len(hs) |-> <<hs[j].name, hs[j].args>>]
          = [j \in 1..Len(ts) |-> <<ts[j].name, ts[j].args>>]
    BY <2>4
  <2> QED BY <2>3, <2>5 DEF hs, ts
<1>6. Meaning(a) = Meaning(b)
  <2>1. Meaning(a) = [i \in 1..Len(a) |-> M(a[i])] /\ Meaning(b) = [i \in 1..Len(b) |-> M(b[i])]
    BY DEF Meaning
  <2> HIDE DEF M, a, b
  <2>2. [i \in 1..Len(a) |-> M(a[i])] = [i \in 1..Len(b) |-> M(b[i])]
    BY <1>4, <1>5
  <2> QED BY <2>1, <2>2
<1> HIDE DEF a, b
<1> QED BY <1>1, <1>2, <1>6 DEF ReplayIsFaithful, told, record

(***************************************************************************)
(* Whichever record is left, its replay tells the answer it holds and ends *)
(* it.                                                                     *)
(***************************************************************************)
THEOREM ReplayTells == Spec => []ReplayTellsTheAnswer
<1>1. TeeInv => ReplayTellsTheAnswer
  <2> SUFFICES ASSUME TeeInv, cell # None, ~Unnumbered(cell), EndsClean(cell)
               PROVE  ReplayIsFaithful(cell)
    BY DEF ReplayTellsTheAnswer
  <2>1. CASE \E body \in PlainBodies : cell = PlainRecord(body)
    BY <2>1, PlainIsFaithful
  <2>2. CASE \E raw \in Bytes, acc \in Assembled :
               /\ Ended(script, injected, raw, acc) /\ Complete(acc)
               /\ cell = StreamedRecord(raw, Body(acc))
    <3>1. script \in Scripts
      BY DEF TeeInv, TeeTypes
    <3> QED BY <2>2, <3>1, StreamIsFaithful
  <2> QED BY <2>1, <2>2 DEF TeeInv, CellWell
<1> QED BY <1>1, TeeAlways, PTL
=============================================================================
