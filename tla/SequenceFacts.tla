--------------------------- MODULE SequenceFacts ---------------------------
(***************************************************************************)
(* Facts about flattened sequences and about functions that are defined by  *)
(* recursion over an interval, which the proofs about the other modules      *)
(* need.  Each is shown with the least counterexample it could have, since   *)
(* a set of natural numbers that is not empty has a least element.           *)
(***************************************************************************)
EXTENDS Naturals, Sequences, SequencesExt, WellFoundedInduction, TLAPS

\* A set of natural numbers that is not empty has a least element.
LEMMA LeastNatural ==
    ASSUME NEW S, S \subseteq Nat, S # {}
    PROVE  \E n \in S : \A m \in S : n <= m
<1> DEFINE R == {p \in Nat \X Nat : p[1] < p[2]}
<1>1. IsWellFoundedOn(R, Nat)
  BY NatLessThanWellFounded DEF OpToRel
<1> HIDE DEF R
<1>2. PICK n \in S : \A m \in S : ~ (<<m, n>> \in R)
  BY <1>1, WFMin
<1>3. \A m \in S : ~ (m < n)
  BY <1>2 DEF R
<1>4. QED
  BY <1>3

\* The function that FlattenSeq defines: f[i] flattens the first i sequences.
Flattens(f, ss, n) == f = [i \in 1..n |-> IF i = 1 THEN ss[i] ELSE f[i - 1] \o ss[i]]

\* The recursive definition has a solution.
LEMMA FlatteningExists ==
    ASSUME NEW ss, NEW N \in Nat, N >= 1
    PROVE  \E f : Flattens(f, ss, N)
<1> DEFINE Can(n) == \E f : Flattens(f, ss, n)
           Bad == {n \in Nat \ {0} : ~ Can(n)}
<1>1. Can(1)
  <2> DEFINE f == [i \in 1..1 |-> ss[i]]
  <2>1. f = [i \in 1..1 |-> IF i = 1 THEN ss[i] ELSE f[i - 1] \o ss[i]]
    OBVIOUS
  <2>2. QED
    BY <2>1 DEF Flattens
<1>2. ASSUME NEW n \in Nat \ {0}, Can(n) PROVE Can(n + 1)
  <2>1. PICK g : Flattens(g, ss, n)
    BY <1>2
  <2> DEFINE f == [i \in 1..n + 1 |-> IF i = n + 1 THEN g[n] \o ss[n + 1] ELSE g[i]]
  <2>2. \A i \in 1..n : g[i] = IF i = 1 THEN ss[i] ELSE g[i - 1] \o ss[i]
    BY <2>1 DEF Flattens
  <2>3. \A i \in 1..n + 1 : f[i] = IF i = 1 THEN ss[i] ELSE f[i - 1] \o ss[i]
    <3>1. \A i \in 1..n : f[i] = g[i]
      <4>1. \A i \in 1..n : i \in 1..n + 1 /\ i # n + 1
        OBVIOUS
      <4>2. QED
        BY <4>1
    <3>2. f[n + 1] = g[n] \o ss[n + 1] /\ n + 1 # 1
      <4>1. n + 1 \in 1..n + 1 /\ n + 1 # 1
        OBVIOUS
      <4>2. QED
        BY <4>1
    <3>3. ASSUME NEW i \in 1..n PROVE f[i] = IF i = 1 THEN ss[i] ELSE f[i - 1] \o ss[i]
      <4>1. i # 1 => i - 1 \in 1..n
        OBVIOUS
      <4> HIDE DEF f
      <4>2. QED
        BY <2>2, <3>1, <4>1
    <3>4. f[n + 1] = IF n + 1 = 1 THEN ss[n + 1] ELSE f[n + 1 - 1] \o ss[n + 1]
      <4>1. n + 1 - 1 = n /\ n \in 1..n
        OBVIOUS
      <4> HIDE DEF f
      <4>2. QED
        BY <3>1, <3>2, <4>1
    <3> HIDE DEF f
    <3>5. QED
      BY <3>3, <3>4
  <2>4. f = [i \in 1..n + 1 |-> f[i]]
    OBVIOUS
  <2> HIDE DEF f
  <2>5. f = [i \in 1..n + 1 |-> IF i = 1 THEN ss[i] ELSE f[i - 1] \o ss[i]]
    BY <2>3, <2>4
  <2>6. QED
    BY <2>5 DEF Flattens
<1> HIDE DEF Can
<1>3. Bad = {}
  <2>1. SUFFICES ASSUME Bad # {} PROVE FALSE
    OBVIOUS
  <2>2. PICK n \in Bad : \A m \in Bad : n <= m
    BY <2>1, LeastNatural
  <2>3. n # 1
    BY <1>1, <2>2
  <2>4. n - 1 \in Nat \ {0} /\ n - 1 \notin Bad /\ n - 1 + 1 = n
    BY <2>2, <2>3
  <2>5. Can(n)
    BY <1>2, <2>4
  <2>6. QED
    BY <2>2, <2>5
<1>4. QED
  BY <1>3 DEF Can

\* FlattenSeq puts the sequences together one after the other.
LEMMA FlattenIs ==
    ASSUME NEW S, NEW ss \in Seq(Seq(S)), ss # <<>>
    PROVE  \E f : /\ f[1] = ss[1]
                  /\ \A n \in 1..Len(ss) - 1 : f[n + 1] = f[n] \o ss[n + 1]
                  /\ FlattenSeq(ss) = f[Len(ss)]
<1> DEFINE N == Len(ss)
           f == CHOOSE g : g = [i \in 1..Len(ss) |-> IF i = 1 THEN ss[i] ELSE g[i - 1] \o ss[i]]
<1>1. N # 0 /\ N \in Nat /\ N >= 1
  OBVIOUS
<1>2. FlattenSeq(ss) = f[Len(ss)]
  BY <1>1 DEF FlattenSeq
<1>3. PICK h : Flattens(h, ss, Len(ss))
  BY <1>1, FlatteningExists
<1>4. h = [i \in 1..Len(ss) |-> IF i = 1 THEN ss[i] ELSE h[i - 1] \o ss[i]]
  BY <1>3 DEF Flattens
<1>5. f = [i \in 1..Len(ss) |-> IF i = 1 THEN ss[i] ELSE f[i - 1] \o ss[i]]
  BY <1>4
<1> HIDE DEF f
<1>6. \A i \in 1..N : f[i] = IF i = 1 THEN ss[i] ELSE f[i - 1] \o ss[i]
  BY <1>5
<1> HIDE DEF N
<1>7. f[1] = ss[1]
  BY <1>1, <1>6
<1>8. ASSUME NEW n \in 1..N - 1
      PROVE  f[n + 1] = f[n] \o ss[n + 1]
  <2>1. n + 1 \in 1..N /\ n + 1 # 1 /\ (n + 1) - 1 = n
    BY <1>1
  <2>2. f[n + 1] = f[(n + 1) - 1] \o ss[n + 1]
    BY <1>6, <2>1
  <2>3. QED
    BY <2>1, <2>2
<1>9. QED
  BY <1>2, <1>7, <1>8 DEF N

\* Two sequences put together have the elements of both.
LEMMA ConcatFacts ==
    ASSUME NEW S, NEW a \in Seq(S), NEW b \in Seq(S)
    PROVE  a \o b \in Seq(S) /\ Range(a \o b) = Range(a) \cup Range(b)
<1> DEFINE c == a \o b
<1>1. /\ Len(a) \in Nat /\ Len(b) \in Nat /\ DOMAIN a = 1..Len(a) /\ DOMAIN b = 1..Len(b)
      /\ c \in Seq(S) /\ DOMAIN c = 1..Len(a) + Len(b)
      /\ \A i \in 1..Len(a) + Len(b) : c[i] = IF i <= Len(a) THEN a[i] ELSE b[i - Len(a)]
  OBVIOUS
<1> HIDE DEF c
<1>2. ASSUME NEW i \in DOMAIN b PROVE b[i] \in Range(c)
  <2>1. i + Len(a) \in DOMAIN c /\ ~ (i + Len(a) <= Len(a)) /\ i + Len(a) - Len(a) = i
    BY <1>1
  <2>2. c[i + Len(a)] = b[i]
    BY <1>1, <2>1
  <2>3. QED
    BY <2>1, <2>2 DEF Range
<1>3. ASSUME NEW i \in DOMAIN a PROVE a[i] \in Range(c)
  <2>1. i \in DOMAIN c /\ c[i] = a[i]
    BY <1>1
  <2>2. QED
    BY <2>1 DEF Range
<1>4. ASSUME NEW i \in DOMAIN c PROVE c[i] \in Range(a) \cup Range(b)
  <2>1. CASE i <= Len(a)
    <3>1. i \in DOMAIN a /\ c[i] = a[i]
      BY <1>1, <2>1
    <3>2. QED
      BY <3>1 DEF Range
  <2>2. CASE ~ (i <= Len(a))
    <3>1. i - Len(a) \in DOMAIN b /\ c[i] = b[i - Len(a)]
      BY <1>1, <2>2
    <3>2. QED
      BY <3>1 DEF Range
  <2>3. QED
    BY <2>1, <2>2
<1>5. Range(c) = Range(a) \cup Range(b)
  BY <1>2, <1>3, <1>4 DEF Range
<1>6. QED
  BY <1>1, <1>5 DEF c

\* The elements of a sequence are in the set it is made of.
LEMMA ElementsOfSeq ==
    ASSUME NEW S, NEW q \in Seq(S)
    PROVE  Range(q) \subseteq S /\ DOMAIN q = 1..Len(q) /\ Len(q) \in Nat
<1>1. DOMAIN q = 1..Len(q) /\ Len(q) \in Nat
  OBVIOUS
<1>2. Range(q) \subseteq S
  BY <1>1 DEF Range
<1>3. QED
  BY <1>1, <1>2

\* Nothing flattens to nothing.
LEMMA EmptyFlattens == FlattenSeq(<<>>) = <<>>
  BY DEF FlattenSeq

\* Flattening collects the elements of the sequences.
LEMMA FlattenFacts ==
    ASSUME NEW S, NEW ss \in Seq(Seq(S))
    PROVE  /\ FlattenSeq(ss) \in Seq(S)
           /\ Range(FlattenSeq(ss)) = UNION {Range(ss[i]) : i \in DOMAIN ss}
<1>1. CASE ss = <<>>
  <2>1. FlattenSeq(ss) = <<>> /\ DOMAIN ss = {}
    BY <1>1, EmptyFlattens
  <2>2. QED
    BY <2>1 DEF Range
<1>2. CASE ss # <<>>
  <2> DEFINE N == Len(ss)
             All(n) == UNION {Range(ss[i]) : i \in 1..n}
  <2>1. PICK f : /\ f[1] = ss[1]
                 /\ \A n \in 1..N - 1 : f[n + 1] = f[n] \o ss[n + 1]
                 /\ FlattenSeq(ss) = f[N]
    BY <1>2, FlattenIs
  <2>2. N \in Nat /\ N >= 1 /\ DOMAIN ss = 1..N /\ \A i \in 1..N : ss[i] \in Seq(S)
    BY <1>2
  <2> HIDE DEF N
  <2> DEFINE Good(n) == f[n] \in Seq(S) /\ Range(f[n]) = All(n)
             Bad == {n \in 1..N : ~ Good(n)}
  <2>3. Good(1)
    <3>1. f[1] \in Seq(S) /\ 1..1 = {1}
      BY <2>1, <2>2
    <3>2. All(1) = Range(ss[1])
      BY <3>1
    <3>3. QED
      BY <2>1, <3>1, <3>2
  <2>4. ASSUME NEW n \in 1..N - 1, Good(n) PROVE Good(n + 1)
    <3>1. n + 1 \in 1..N /\ 1..n + 1 = 1..n \cup {n + 1}
      BY <2>2
    <3>2. All(n + 1) = All(n) \cup Range(ss[n + 1])
      BY <3>1
    <3>3. f[n + 1] = f[n] \o ss[n + 1] /\ f[n] \in Seq(S) /\ ss[n + 1] \in Seq(S)
      BY <2>1, <2>2, <2>4, <3>1
    <3>4. f[n + 1] \in Seq(S) /\ Range(f[n + 1]) = Range(f[n]) \cup Range(ss[n + 1])
      BY <3>3, ConcatFacts
    <3>5. Range(f[n]) = All(n)
      BY <2>4
    <3> HIDE DEF All
    <3>6. QED
      BY <3>2, <3>4, <3>5
  <2> HIDE DEF Good
  <2>5. Bad = {}
    <3>1. SUFFICES ASSUME Bad # {} PROVE FALSE
      OBVIOUS
    <3>2. Bad \subseteq Nat
      BY <2>2
    <3>3. PICK n \in Bad : \A m \in Bad : n <= m
      BY <3>1, <3>2, LeastNatural
    <3>4. n # 1
      BY <2>3, <3>3
    <3>5. n - 1 \in 1..N - 1 /\ n - 1 \in 1..N /\ n - 1 \notin Bad /\ (n - 1) + 1 = n
      BY <2>2, <3>3, <3>4
    <3>6. Good(n)
      BY <2>4, <3>5
    <3>7. QED
      BY <3>3, <3>6
  <2>6. Good(N)
    BY <2>2, <2>5
  <2>7. QED
    BY <2>1, <2>2, <2>6 DEF Good
<1>3. QED
  BY <1>1, <1>2

\* If only the last of the sequences has elements it is all that is left.
LEMMA FlattenLast ==
    ASSUME NEW S, NEW ss \in Seq(Seq(S)), ss # <<>>,
           \A i \in 1..Len(ss) - 1 : ss[i] = <<>>
    PROVE  FlattenSeq(ss) = ss[Len(ss)]
<1> DEFINE N == Len(ss)
<1>1. PICK f : /\ f[1] = ss[1]
               /\ \A n \in 1..N - 1 : f[n + 1] = f[n] \o ss[n + 1]
               /\ FlattenSeq(ss) = f[N]
  BY FlattenIs
<1>2. /\ N \in Nat /\ N >= 1 /\ \A i \in 1..N : ss[i] \in Seq(S)
      /\ \A i \in 1..N - 1 : ss[i] = <<>>
  OBVIOUS
<1> HIDE DEF N
<1> DEFINE Bad == {n \in 1..N : f[n] # ss[n]}
<1>3. ASSUME NEW n \in 1..N - 1, f[n] = ss[n] PROVE f[n + 1] = ss[n + 1]
  <2>1. n + 1 \in 1..N
    BY <1>2
  <2>2. f[n + 1] = f[n] \o ss[n + 1]
    BY <1>1
  <2>3. f[n] = <<>>
    BY <1>2, <1>3
  <2>4. ss[n + 1] \in Seq(S)
    BY <1>2, <2>1
  <2>5. <<>> \o ss[n + 1] = ss[n + 1]
    BY <2>4
  <2>6. QED
    BY <2>2, <2>3, <2>5
<1>4. Bad = {}
  <2>1. SUFFICES ASSUME Bad # {} PROVE FALSE
    OBVIOUS
  <2>2. Bad \subseteq Nat
    BY <1>2
  <2>3. PICK n \in Bad : \A m \in Bad : n <= m
    BY <2>1, <2>2, LeastNatural
  <2>4. n # 1
    BY <1>1, <2>3
  <2>5. n - 1 \in 1..N - 1 /\ n - 1 \in 1..N /\ n - 1 \notin Bad /\ (n - 1) + 1 = n
    BY <1>2, <2>3, <2>4
  <2>6. f[n] = ss[n]
    BY <1>3, <2>5
  <2>7. QED
    BY <2>3, <2>6
<1>5. QED
  BY <1>1, <1>2, <1>4 DEF N
=============================================================================
