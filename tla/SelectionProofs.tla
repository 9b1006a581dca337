--------------------------- MODULE SelectionProofs ---------------------------
(***************************************************************************)
(* Induction over the naturals, for sets of them, and with it what Only    *)
(* selects from a list: the proofs of several components rest on these     *)
(* lemmas.                                                                 *)
(***************************************************************************)
EXTENDS Selection, WellFoundedInduction, SequenceTheorems, TLAPS

LEMMA NatWF == IsWellFoundedOn({ss \in Nat \X Nat : ss[1] < ss[2]}, Nat)
  BY NatLessThanWellFounded, Zenon DEF OpToRel

LEMMA LeastNat ==
  ASSUME NEW T, T \subseteq Nat, T # {}
  PROVE  \E x \in T : \A y \in T : x <= y
<1> DEFINE R == {ss \in Nat \X Nat : ss[1] < ss[2]}
<1>1. PICK x \in T : \A y \in T : ~ (<<y, x>> \in R)
  <2>1. IsWellFoundedOn(R, Nat)
    BY NatWF
  <2> HIDE DEF R
  <2> QED BY <2>1, WFMin
<1>2. \A y \in T : ~(y < x)
  BY <1>1
<1> QED BY <1>2

LEMMA NatInd ==
  ASSUME NEW T, 0 \in T, \A n \in Nat : n \in T => n + 1 \in T
  PROVE  \A n \in Nat : n \in T
<1> DEFINE B == {n \in Nat : n \notin T}
<1> SUFFICES ASSUME B # {} PROVE FALSE
  OBVIOUS
<1>1. PICK x \in B : \A y \in B : x <= y
  BY LeastNat
<1>2. x # 0 /\ x - 1 \in Nat /\ x - 1 \in T
  BY <1>1
<1> QED BY <1>1, <1>2

-----------------------------------------------------------------------------
(* The elements taken from the first n of a list.                          *)

Taking(h, s, set, n) ==
  h = [k \in 0..n |-> IF k = 0 THEN <<>>
                      ELSE IF s[k] \in set THEN Append(h[k - 1], s[k]) ELSE h[k - 1] ]

LEMMA TakingFacts ==
  ASSUME NEW h, NEW s, NEW set, NEW n \in Nat, Taking(h, s, set, n)
  PROVE  /\ h[0] = <<>>
         /\ \A k \in 0..(n - 1) :
              h[k + 1] = IF s[k + 1] \in set THEN Append(h[k], s[k + 1]) ELSE h[k]
<1>1. \A k \in 0..n : h[k] = IF k = 0 THEN <<>>
                             ELSE IF s[k] \in set THEN Append(h[k - 1], s[k]) ELSE h[k - 1]
  BY DEF Taking
<1>2. 0 \in 0..n
  OBVIOUS
<1>3. ASSUME NEW k \in 0..(n - 1)
      PROVE  h[k + 1] = IF s[k + 1] \in set THEN Append(h[k], s[k + 1]) ELSE h[k]
  <2>1. k + 1 \in 0..n /\ k + 1 # 0 /\ (k + 1) - 1 = k
    OBVIOUS
  <2> QED BY <1>1, <2>1
<1> QED BY <1>1, <1>2, <1>3

LEMMA TakingExists ==
  ASSUME NEW s, NEW set, NEW n \in Nat
  PROVE  \E h : Taking(h, s, set, n)
<1> DEFINE T == {m \in Nat : \E h : Taking(h, s, set, m)}
<1>1. 0 \in T
  <2>1. PICK h : h = [k \in 0..0 |-> <<>>]
    OBVIOUS
  <2>2. Taking(h, s, set, 0)
    BY <2>1 DEF Taking
  <2> QED BY <2>2
<1>2. ASSUME NEW m \in Nat, m \in T PROVE m + 1 \in T
  <2>1. PICK h : Taking(h, s, set, m)
    BY <1>2
  <2>2. PICK e : e = IF s[m + 1] \in set THEN Append(h[m], s[m + 1]) ELSE h[m]
    OBVIOUS
  <2>3. PICK g : g = [k \in 0..(m + 1) |-> IF k = m + 1 THEN e ELSE h[k] ]
    OBVIOUS
  <2>4. ASSUME NEW k \in 0..(m + 1)
        PROVE  g[k] = IF k = 0 THEN <<>>
                      ELSE IF s[k] \in set THEN Append(g[k - 1], s[k]) ELSE g[k - 1]
    <3>1. CASE k = 0
      <4>1. g[0] = h[0] /\ h[0] = <<>>
        BY <2>1, <2>3, TakingFacts
      <4> QED BY <3>1, <4>1
    <3>2. CASE k = m + 1
      <4>1. k - 1 = m /\ g[k - 1] = h[m] /\ g[k] = e /\ k # 0
        BY <2>3, <3>2
      <4> QED BY <2>2, <3>2, <4>1
    <3>3. CASE k # 0 /\ k # m + 1
      <4>1. PICK j \in 0..(m - 1) : k = j + 1
        BY <3>3
      <4>2. g[k] = h[j + 1] /\ g[k - 1] = h[j] /\ k - 1 = j
        BY <2>3, <4>1
      <4>3. h[j + 1] = IF s[j + 1] \in set THEN Append(h[j], s[j + 1]) ELSE h[j]
        BY <2>1, TakingFacts
      <4> QED BY <3>3, <4>1, <4>2, <4>3
    <3> QED BY <3>1, <3>2, <3>3
  <2>5. Taking(g, s, set, m + 1)
    BY <2>3, <2>4 DEF Taking
  <2> QED BY <2>5
<1> HIDE DEF T
<1>3. n \in T
  BY <1>1, <1>2, NatInd
<1> QED BY <1>3 DEF T

\* Lists that agree as far as n are taken from in the same way.
LEMMA TakingSame ==
  ASSUME NEW h, NEW s, NEW set, NEW m \in Nat, Taking(h, s, set, m),
         NEW g, NEW t, NEW n \in Nat, Taking(g, t, set, n), n <= m,
         \A k \in 1..n : s[k] = t[k]
  PROVE  \A k \in 0..n : h[k] = g[k]
<1> DEFINE T == {k \in Nat : k <= n => h[k] = g[k]}
<1>1. 0 \in T
  BY TakingFacts
<1>2. ASSUME NEW k \in Nat, k \in T, k + 1 <= n PROVE h[k + 1] = g[k + 1]
  <2>1. k \in 0..(n - 1) /\ k \in 0..(m - 1) /\ s[k + 1] = t[k + 1] /\ h[k] = g[k]
    BY <1>2
  <2>2. h[k + 1] = IF s[k + 1] \in set THEN Append(h[k], s[k + 1]) ELSE h[k]
    BY <2>1, TakingFacts
  <2>3. g[k + 1] = IF t[k + 1] \in set THEN Append(g[k], t[k + 1]) ELSE g[k]
    BY <2>1, TakingFacts
  <2> QED BY <2>1, <2>2, <2>3
<1>3. \A k \in Nat : k \in T => k + 1 \in T
  BY <1>2
<1> HIDE DEF T
<1>4. \A k \in Nat : k \in T
  BY <1>1, <1>3, NatInd
<1> QED BY <1>4 DEF T

LEMMA OnlyTaking ==
  ASSUME NEW s, NEW set, Len(s) \in Nat
  PROVE  \E h : Taking(h, s, set, Len(s)) /\ Only(s, set) = h[Len(s)]
<1> DEFINE taken == CHOOSE h : Taking(h, s, set, Len(s))
<1>1. Taking(taken, s, set, Len(s))
  <2>1. \E h : Taking(h, s, set, Len(s))
    BY TakingExists
  <2> QED BY <2>1, Zenon
<1>2. Only(s, set) = taken[Len(s)]
  BY Zenon DEF Only, Taking
<1> QED BY <1>1, <1>2

-----------------------------------------------------------------------------
(* What is selected.                                                       *)

LEMMA OnlyEmpty ==
  ASSUME NEW set
  PROVE  Only(<<>>, set) = <<>>
<1>1. PICK s : s = <<>> /\ Len(s) = 0
  OBVIOUS
<1>2. PICK h : Taking(h, s, set, Len(s)) /\ Only(s, set) = h[Len(s)]
  BY <1>1, OnlyTaking
<1> QED BY <1>1, <1>2, TakingFacts

LEMMA OnlyAppend ==
  ASSUME NEW S, NEW s \in Seq(S), NEW e \in S, NEW set
  PROVE  Only(Append(s, e), set) = IF e \in set THEN Append(Only(s, set), e) ELSE Only(s, set)
<1>1. PICK t : t = Append(s, e)
  OBVIOUS
<1>2. PICK n \in Nat : n = Len(s)
  OBVIOUS
<1>3. Len(t) = n + 1 /\ t[n + 1] = e /\ \A k \in 1..n : t[k] = s[k]
  BY <1>1, <1>2
<1>4. PICK h : Taking(h, t, set, n + 1) /\ Only(t, set) = h[n + 1]
  BY <1>3, OnlyTaking
<1>5. PICK g : Taking(g, s, set, n) /\ Only(s, set) = g[n]
  BY <1>2, OnlyTaking
<1>6. h[n] = g[n]
  <2>1. \A k \in 0..n : h[k] = g[k]
    BY <1>3, <1>4, <1>5, TakingSame
  <2> QED BY <2>1
<1>7. h[n + 1] = IF t[n + 1] \in set THEN Append(h[n], t[n + 1]) ELSE h[n]
  BY <1>4, TakingFacts
<1> QED BY <1>1, <1>3, <1>4, <1>5, <1>6, <1>7

\* Elements of the list that are in the set, and all of them.
LEMMA OnlyElements ==
  ASSUME NEW S, NEW s \in Seq(S), NEW set
  PROVE  /\ Only(s, set) \in Seq(S)
         /\ \A e : (\E i \in DOMAIN Only(s, set) : Only(s, set)[i] = e)
                     <=> e \in set /\ \E i \in DOMAIN s : s[i] = e
<1>1. PICK n \in Nat : n = Len(s)
  OBVIOUS
<1>2. PICK h : Taking(h, s, set, n) /\ Only(s, set) = h[n]
  BY <1>1, OnlyTaking
<1> DEFINE Right(k) == /\ h[k] \in Seq(S)
                       /\ \A e : (\E i \in DOMAIN h[k] : h[k][i] = e)
                                   <=> e \in set /\ \E i \in 1..k : s[i] = e
           T == {k \in Nat : k <= n => Right(k)}
<1>3. Right(0)
  <2>1. PICK u : u = h[0]
    OBVIOUS
  <2>2. u = <<>>
    BY <1>2, <2>1, TakingFacts
  <2>3. u \in Seq(S) /\ DOMAIN u = {}
    BY <2>2
  <2> QED BY <2>1, <2>3
<1>4. ASSUME NEW k \in Nat, Right(k), k + 1 <= n
      PROVE  Right(k + 1)
  <2>1. PICK t : t = h[k]
    OBVIOUS
  <2>2. PICK u : u = h[k + 1]
    OBVIOUS
  <2>3. /\ t \in Seq(S)
        /\ \A e : (\E i \in DOMAIN t : t[i] = e) <=> e \in set /\ \E i \in 1..k : s[i] = e
    BY <1>4, <2>1
  <2>4. u = IF s[k + 1] \in set THEN Append(t, s[k + 1]) ELSE t
    BY <1>2, <1>4, <2>1, <2>2, TakingFacts
  <2>5. k + 1 \in 1..(k + 1) /\ s[k + 1] \in S
        /\ \A i : i \in 1..(k + 1) <=> i \in 1..k \/ i = k + 1
    BY <1>1, <1>4
  <2>6. CASE s[k + 1] \in set
    <3>1. /\ u \in Seq(S) /\ DOMAIN u = DOMAIN t \union {Len(t) + 1}
          /\ u[Len(t) + 1] = s[k + 1] /\ \A i \in DOMAIN t : u[i] = t[i]
      BY <2>3, <2>4, <2>5, <2>6
    <3>2. \A e : (\E i \in DOMAIN u : u[i] = e) <=> (\E i \in DOMAIN t : t[i] = e) \/ e = s[k + 1]
      BY <3>1
    <3>3. \A e : (\E i \in 1..(k + 1) : s[i] = e) <=> (\E i \in 1..k : s[i] = e) \/ e = s[k + 1]
      BY <2>5
    <3> QED BY <2>2, <2>3, <2>6, <3>1, <3>2, <3>3
  <2>7. CASE s[k + 1] \notin set
    <3>1. u = t
      BY <2>4, <2>7
    <3>2. \A e : (\E i \in 1..(k + 1) : s[i] = e) <=> (\E i \in 1..k : s[i] = e) \/ e = s[k + 1]
      BY <2>5
    <3> QED BY <2>2, <2>3, <2>7, <3>1, <3>2
  <2> QED BY <2>6, <2>7
<1> HIDE DEF Right
<1>5. 0 \in T /\ \A k \in Nat : k \in T => k + 1 \in T
  BY <1>3, <1>4
<1> HIDE DEF T
<1>6. n \in T
  BY <1>5, NatInd
<1>7. Right(n)
  BY <1>6 DEF T
<1>8. DOMAIN s = 1..n
  BY <1>1
<1> QED BY <1>2, <1>7, <1>8 DEF Right

\* When one place of the list holds an element of the set.
LEMMA OnlyOne ==
  ASSUME NEW S, NEW s \in Seq(S), NEW set, NEW i \in DOMAIN s,
         \A j \in DOMAIN s : s[j] \in set <=> j = i
  PROVE  Only(s, set) = << s[i] >>
<1>1. PICK n \in Nat : n = Len(s)
  OBVIOUS
<1>2. PICK h : Taking(h, s, set, n) /\ Only(s, set) = h[n]
  BY <1>1, OnlyTaking
<1>3. i \in 1..n /\ s[i] \in S
  BY <1>1
<1> DEFINE T == {k \in Nat : k <= n => h[k] = IF k < i THEN <<>> ELSE << s[i] >>}
<1>4. 0 \in T
  BY <1>2, <1>3, TakingFacts
<1>5. ASSUME NEW k \in Nat, k \in T, k + 1 <= n
      PROVE  h[k + 1] = IF k + 1 < i THEN <<>> ELSE << s[i] >>
  <2>1. k \in 0..(n - 1) /\ k + 1 \in 1..n /\ h[k] = IF k < i THEN <<>> ELSE << s[i] >>
    BY <1>5
  <2>2. h[k + 1] = IF s[k + 1] \in set THEN Append(h[k], s[k + 1]) ELSE h[k]
    BY <1>2, <2>1, TakingFacts
  <2>3. CASE k + 1 = i
    <3>1. h[k] = <<>> /\ s[k + 1] \in set /\ ~(k + 1 < i)
      BY <1>1, <1>3, <2>1, <2>3
    <3>2. h[k + 1] = Append(<<>>, s[i])
      BY <2>2, <2>3, <3>1
    <3> QED BY <1>3, <3>1, <3>2
  <2>4. CASE k + 1 # i
    <3>1. s[k + 1] \notin set /\ (k < i <=> k + 1 < i)
      BY <1>1, <1>3, <2>1, <2>4
    <3> QED BY <2>1, <2>2, <3>1
  <2> QED BY <2>3, <2>4
<1>6. \A k \in Nat : k \in T => k + 1 \in T
  BY <1>5
<1> HIDE DEF T
<1>7. n \in T
  BY <1>4, <1>6, NatInd
<1>8. h[n] = IF n < i THEN <<>> ELSE << s[i] >>
  BY <1>7 DEF T
<1>9. ~(n < i)
  BY <1>3
<1> QED BY <1>2, <1>8, <1>9

-----------------------------------------------------------------------------
(* Pages of N rows.                                                        *)

\* L rows are on q pages: the last one holds some, and is full if N divides L.
LEMMA PagesOfRows ==
  ASSUME NEW N \in Nat \ {0}, NEW L \in Nat, NEW q, q = (L + N - 1) \div N
  PROVE  /\ q \in Nat /\ L <= q * N
         /\ L > 0 => q >= 1 /\ (q - 1) * N < L
         /\ L % N = 0 => L = q * N
<1>1. PICK a \in Nat : a = L + N - 1
  OBVIOUS
<1>2. q \in Nat /\ N * q <= a /\ a < N * q + N
  <2>1. N * (a \div N) <= a /\ a < N * (a \div N) + N /\ a \div N \in Nat
    OBVIOUS
  <2> QED BY <1>1, <2>1
<1>3. q * N = N * q /\ (q - 1) * N = N * q - N
  BY <1>2
<1>4. L <= q * N /\ (q - 1) * N < L
  BY <1>1, <1>2, <1>3
<1>5. L > 0 => q >= 1
  <2>1. ASSUME q = 0 PROVE N * q = 0
    BY <2>1
  <2> QED BY <1>1, <1>2, <2>1
<1>6. ASSUME L % N = 0 PROVE L = q * N
  <2>1. PICK r \in Nat : r = L \div N /\ L = N * r
    BY <1>6
  <2>2. N * r <= N * q /\ N * q < N * r + N
    BY <1>3, <1>4, <2>1
  <2>3. r <= q
    <3>1. ASSUME r >= q + 1 PROVE N * r >= N * q + N
      BY <1>2, <3>1
    <3> QED BY <1>2, <2>1, <2>2, <3>1
  <2>4. q <= r
    <3>1. ASSUME q >= r + 1 PROVE N * q >= N * r + N
      BY <1>2, <3>1
    <3> QED BY <1>2, <2>1, <2>2, <3>1
  <2>5. r = q
    BY <1>2, <2>1, <2>3, <2>4
  <2> QED BY <1>3, <2>1, <2>5
<1> QED BY <1>2, <1>4, <1>5, <1>6
=============================================================================
