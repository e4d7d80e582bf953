----------------------------- MODULE IterationProofs -----------------------------
(***************************************************************************)
(* Lemmas about what a loop computes: induction over a set of numbers, the *)
(* existence of a function defined by recursion, what a filter keeps of a  *)
(* sequence, and sums over finite sets.  Nothing here is about one module. *)
(***************************************************************************)
EXTENDS Filtering, Integers, SequenceTheorems, WellFoundedInduction, TLAPS,
        FiniteSetsExt, FiniteSetTheorems

\* A set of numbers that is not empty has a least one.
LEMMA Least ==
    ASSUME NEW S \in SUBSET Nat, S # {}
    PROVE  \E x \in S : \A y \in S : x <= y
<1>1. IsWellFoundedOn(OpToRel(<, Nat), Nat)
  BY NatLessThanWellFounded, Zenon
<1>2. PICK x \in S : \A y \in S : ~ (<<y, x>> \in OpToRel(<, Nat))
  BY <1>1, WFMin, Zenon
<1>3. \A y \in S : ~(y < x)
  BY <1>2 DEF OpToRel
<1> QED BY <1>3

\* A set that has zero, and with each number the next, has them all.
LEMMA Induction ==
    ASSUME NEW S, 0 \in S, \A n \in Nat : n \in S => n + 1 \in S
    PROVE  Nat \subseteq S
<1> SUFFICES ASSUME Nat \ S # {} PROVE FALSE
  OBVIOUS
<1>1. PICK x \in Nat \ S : \A y \in Nat \ S : x <= y
  BY Least
<1>2. x # 0 /\ x - 1 \in Nat
  BY <1>1
<1>3. x - 1 \in S
  BY <1>1, <1>2
<1>4. (x - 1) + 1 \in S
  BY <1>2, <1>3
<1> QED BY <1>1, <1>2, <1>4

\* A function that a step of S computes from its last value exists.
LEMMA Recursion ==
    ASSUME NEW S, NEW b \in S, NEW F \in [S -> S]
    PROVE  \E f \in [Nat -> S] : f[0] = b /\ \A n \in Nat : f[n + 1] = F[f[n]]
<1> DEFINE Steps(f, n) == /\ f[0] = b
                          /\ \A i \in 0..n : f[i] \in S
                          /\ \A i \in 0..n : i < n => f[i + 1] = F[f[i]]
           I == {n \in Nat : \E f : Steps(f, n)}
<1>1. 0 \in I
  <2>1. Steps([i \in 0..0 |-> b], 0)
    OBVIOUS
  <2> QED BY <2>1
<1>2. ASSUME NEW n \in Nat, n \in I PROVE n + 1 \in I
  <2>1. PICK f : Steps(f, n)
    BY <1>2
  <2> DEFINE g == [i \in 0..(n + 1) |-> IF i = n + 1 THEN F[f[n]] ELSE f[i]]
  <2>2. /\ \A i \in 0..n : g[i] = f[i]
        /\ g[n + 1] = F[f[n]]
    OBVIOUS
  <2>3. F[f[n]] \in S
    BY <2>1
  <2> HIDE DEF g
  <2>4. g[0] = b /\ \A i \in 0..(n + 1) : g[i] \in S
    BY <2>1, <2>2, <2>3
  <2>5. \A i \in 0..(n + 1) : i < n + 1 => g[i + 1] = F[g[i]]
    <3> SUFFICES ASSUME NEW i \in 0..(n + 1), i < n + 1 PROVE g[i + 1] = F[g[i]]
      OBVIOUS
    <3>1. CASE i = n
      BY <2>2, <3>1
    <3>2. CASE i # n
      <4>1. i \in 0..n /\ i + 1 \in 0..n /\ i < n
        BY <3>2
      <4> QED BY <2>1, <2>2, <4>1
    <3> QED BY <3>1, <3>2
  <2>6. Steps(g, n + 1)
    BY <2>4, <2>5
  <2> QED BY <2>6
<1>3. Nat \subseteq I
  <2> HIDE DEF I
  <2> QED BY <1>1, <1>2, Induction
<1> DEFINE G == [n \in Nat |-> CHOOSE f : Steps(f, n)]
           f == [n \in Nat |-> G[n][n]]
<1>4. \A n \in Nat : Steps(G[n], n)
  BY <1>3
<1> HIDE DEF G
<1>5. \A n \in Nat : G[n + 1][n] = G[n][n]
  <2> SUFFICES ASSUME NEW n \in Nat PROVE G[n + 1][n] = G[n][n]
    OBVIOUS
  <2> DEFINE J == {i \in Nat : i <= n => G[n + 1][i] = G[n][i]}
  <2>1. Steps(G[n], n) /\ Steps(G[n + 1], n + 1)
    BY <1>4
  <2>2. 0 \in J
    BY <2>1
  <2>3. ASSUME NEW i \in Nat, i \in J PROVE i + 1 \in J
    <3> SUFFICES ASSUME i + 1 <= n PROVE G[n + 1][i + 1] = G[n][i + 1]
      OBVIOUS
    <3>1. i \in 0..n /\ i < n /\ i \in 0..(n + 1) /\ i < n + 1 /\ i <= n
      OBVIOUS
    <3> QED BY <2>1, <2>3, <3>1
  <2>4. Nat \subseteq J
    <3> HIDE DEF J
    <3> QED BY <2>2, <2>3, Induction
  <2> QED BY <2>4
<1>6. f \in [Nat -> S]
  BY <1>4
<1>7. f[0] = b
  BY <1>4
<1>8. \A n \in Nat : f[n + 1] = F[f[n]]
  <2> SUFFICES ASSUME NEW n \in Nat PROVE f[n + 1] = F[f[n]]
    OBVIOUS
  <2>1. G[n + 1][n + 1] = F[G[n + 1][n]]
    BY <1>4
  <2> QED BY <1>5, <2>1
<1> QED BY <1>6, <1>7, <1>8

\* f is what the loop has kept of s after each of its first n steps.
Keeps(f, s, S, n) ==
    f = [i \in 0..n |->
           IF i = 0 THEN <<>>
           ELSE IF s[i] \in S THEN Append(f[i - 1], s[i]) ELSE f[i - 1]]

\* A loop of n steps has a history.
LEMMA KeepsExists ==
    ASSUME NEW s, NEW S
    PROVE  \A n \in Nat : \E f : Keeps(f, s, S, n)
<1> DEFINE I == {n \in Nat : \E f : Keeps(f, s, S, n)}
<1>1. 0 \in I
  <2>1. Keeps([i \in 0..0 |-> <<>>], s, S, 0)
    BY DEF Keeps
  <2> QED BY <2>1
<1>2. ASSUME NEW n \in Nat, n \in I PROVE n + 1 \in I
  <2>1. PICK f : Keeps(f, s, S, n)
    BY <1>2
  <2> DEFINE step(h, i) == IF s[i] \in S THEN Append(h[i - 1], s[i]) ELSE h[i - 1]
             g == [i \in 0..(n + 1) |-> IF i = n + 1 THEN step(f, n + 1) ELSE f[i]]
  <2>2. \A i \in 0..n : f[i] = IF i = 0 THEN <<>> ELSE step(f, i)
    BY <2>1 DEF Keeps
  <2>3. \A i \in 0..n : g[i] = f[i]
    OBVIOUS
  <2>4. g[n + 1] = step(f, n + 1)
    OBVIOUS
  <2>5. DOMAIN g = 0..(n + 1)
    OBVIOUS
  <2>6. g = [i \in 0..(n + 1) |-> g[i]]
    OBVIOUS
  <2> HIDE DEF g
  <2>7. ASSUME NEW i \in 0..(n + 1)
        PROVE  g[i] = IF i = 0 THEN <<>> ELSE step(g, i)
    <3>1. CASE i = n + 1
      <4>1. g[i - 1] = f[n]
        BY <2>3, <3>1
      <4> QED BY <2>4, <3>1, <4>1
    <3>2. CASE i # n + 1 /\ i # 0
      <4>1. i \in 0..n /\ i - 1 \in 0..n
        BY <3>2
      <4>2. g[i] = f[i] /\ g[i - 1] = f[i - 1]
        BY <2>3, <4>1
      <4> QED BY <2>2, <3>2, <4>1, <4>2
    <3>3. CASE i = 0
      BY <2>2, <2>3, <3>3
    <3> QED BY <3>1, <3>2, <3>3
  <2>8. [i \in 0..(n + 1) |-> g[i]] = [i \in 0..(n + 1) |-> IF i = 0 THEN <<>> ELSE step(g, i)]
    BY <2>7
  <2>9. Keeps(g, s, S, n + 1)
    BY <2>6, <2>8 DEF Keeps
  <2> QED BY <2>9
<1>3. Nat \subseteq I
  <2> HIDE DEF I
  <2> QED BY <1>1, <1>2, Induction
<1> QED BY <1>3

\* Among() is what the whole loop has kept.
LEMMA AmongKeeps ==
    ASSUME NEW s, Len(s) \in Nat, NEW S
    PROVE  \E f : Keeps(f, s, S, Len(s)) /\ Among(s, S) = f[Len(s)]
<1> DEFINE f == CHOOSE f : Keeps(f, s, S, Len(s))
<1>1. Keeps(f, s, S, Len(s))
  BY KeepsExists
<1>2. Among(s, S) = f[Len(s)]
  BY DEF Among, Keeps
<1> QED BY <1>1, <1>2

\* What it keeps of a sequence over T is a sequence over T, of elements of S.
LEMMA AmongType ==
    ASSUME NEW T, NEW s \in Seq(T), NEW S
    PROVE  Among(s, S) \in Seq(T \cap S)
<1>0. Len(s) \in Nat
  OBVIOUS
<1>1. PICK f : Keeps(f, s, S, Len(s)) /\ Among(s, S) = f[Len(s)]
  BY <1>0, AmongKeeps
<1>2. \A i \in 0..Len(s) : f[i] = IF i = 0 THEN <<>>
                                 ELSE IF s[i] \in S THEN Append(f[i - 1], s[i]) ELSE f[i - 1]
  BY <1>1 DEF Keeps
<1> DEFINE I == {n \in Nat : n <= Len(s) => f[n] \in Seq(T \cap S)}
<1>3. 0 \in I
  <2>1. f[0] = <<>>
    BY <1>0, <1>2
  <2>2. f[0] \in Seq(T \cap S)
    BY <2>1
  <2> QED BY <2>2
<1>4. ASSUME NEW n \in Nat, n \in I PROVE n + 1 \in I
  <2> SUFFICES ASSUME n + 1 <= Len(s) PROVE f[n + 1] \in Seq(T \cap S)
    OBVIOUS
  <2>1. n + 1 \in 1..Len(s) /\ n + 1 # 0 /\ (n + 1) - 1 = n
    BY <1>0
  <2>2. f[n] \in Seq(T \cap S) /\ s[n + 1] \in T
    BY <1>4, <2>1
  <2>3. f[n + 1] = IF s[n + 1] \in S THEN Append(f[n], s[n + 1]) ELSE f[n]
    BY <1>2, <2>1
  <2> QED BY <2>2, <2>3
<1>5. Nat \subseteq I
  <2> HIDE DEF I
  <2> QED BY <1>3, <1>4, Induction
<1>6. Len(s) \in I
  BY <1>0, <1>5
<1> QED BY <1>1, <1>6

\* It keeps nothing but elements of s, and each of those that are in S.
LEMMA AmongRange ==
    ASSUME NEW T, NEW s \in Seq(T), NEW S
    PROVE  {Among(s, S)[j] : j \in 1..Len(Among(s, S))} = {s[i] : i \in 1..Len(s)} \cap S
<1>0. Len(s) \in Nat
  OBVIOUS
<1>1. PICK f : Keeps(f, s, S, Len(s)) /\ Among(s, S) = f[Len(s)]
  BY <1>0, AmongKeeps
<1>2. \A i \in 0..Len(s) : f[i] = IF i = 0 THEN <<>>
                                 ELSE IF s[i] \in S THEN Append(f[i - 1], s[i]) ELSE f[i - 1]
  BY <1>1 DEF Keeps
<1> DEFINE I == {n \in Nat : n <= Len(s) =>
                   /\ f[n] \in Seq(T)
                   /\ {f[n][j] : j \in 1..Len(f[n])} = {s[i] : i \in 1..n} \cap S}
<1>3. 0 \in I
  <2>1. f[0] = <<>>
    BY <1>0, <1>2
  <2>2. f[0] \in Seq(T)
    BY <2>1
  <2>3. {f[0][j] : j \in 1..Len(f[0])} = {} /\ {s[i] : i \in 1..0} = {}
    BY <2>1
  <2> QED BY <2>2, <2>3
<1>4. ASSUME NEW n \in Nat, n \in I PROVE n + 1 \in I
  <2> SUFFICES ASSUME n + 1 <= Len(s)
               PROVE  /\ f[n + 1] \in Seq(T)
                      /\ {f[n + 1][j] : j \in 1..Len(f[n + 1])} = {s[i] : i \in 1..(n + 1)} \cap S
    <3>1. n + 1 \in Nat
      OBVIOUS
    <3> QED BY <3>1
  <2>1. n + 1 \in 1..Len(s) /\ n + 1 # 0 /\ (n + 1) - 1 = n
    BY <1>0
  <2>2. n <= Len(s) /\ s[n + 1] \in T
    <3>1. n <= Len(s)
      BY ONLY <1>0, <2>1, n \in Nat
    <3>2. s[n + 1] \in T
      BY <2>1
    <3> QED BY <3>1, <3>2
  <2>3. f[n + 1] = IF s[n + 1] \in S THEN Append(f[n], s[n + 1]) ELSE f[n]
    BY <1>2, <2>1
  <2>4. f[n] \in Seq(T) /\ {f[n][j] : j \in 1..Len(f[n])} = {s[i] : i \in 1..n} \cap S
    BY <1>4, <2>2, Zenon
  <2>5. {s[i] : i \in 1..(n + 1)} = {s[i] : i \in 1..n} \cup {s[n + 1]}
    <3>1. 1..(n + 1) = 1..n \cup {n + 1}
      BY ONLY n \in Nat
    <3> QED BY ONLY <3>1
  <2>6. CASE s[n + 1] \in S
    <3> DEFINE h == f[n]
               e == s[n + 1]
    <3> HIDE DEF h, e
    <3>1. h \in Seq(T) /\ e \in T
      BY <2>2, <2>4 DEF h, e
    <3>2. {Append(h, e)[j] : j \in 1..Len(Append(h, e))} = {h[j] : j \in 1..Len(h)} \cup {e}
      <4>1. Len(Append(h, e)) = Len(h) + 1 /\ Len(h) \in Nat
        BY <3>1
      <4>2. \A j \in 1..Len(h) : Append(h, e)[j] = h[j]
        BY <3>1
      <4>3. Append(h, e)[Len(h) + 1] = e
        BY <3>1
      <4> QED BY <4>1, <4>2, <4>3
    <3>3. f[n + 1] = Append(h, e)
      BY <2>3, <2>6 DEF h, e
    <3> QED BY <2>4, <2>5, <2>6, <3>1, <3>2, <3>3 DEF h, e
  <2>7. CASE s[n + 1] \notin S
    BY <2>2, <2>3, <2>4, <2>5, <2>7
  <2> QED BY <2>6, <2>7
<1>5. Nat \subseteq I
  <2> HIDE DEF I
  <2> QED BY <1>3, <1>4, Induction
<1>6. Len(s) \in I
  <2> HIDE DEF I
  <2> QED BY <1>0, <1>5
<1> QED BY <1>1, <1>6

\* Two loops over the same elements have kept the same.
LEMMA KeepsAgree ==
    ASSUME NEW s, NEW t, NEW S, NEW f, NEW g,
           Len(s) \in Nat, Len(t) \in Nat, Len(s) <= Len(t),
           Keeps(f, s, S, Len(s)), Keeps(g, t, S, Len(t)),
           \A i \in 1..Len(s) : s[i] = t[i]
    PROVE  f[Len(s)] = g[Len(s)]
<1> DEFINE m == Len(s)
           k == Len(t)
<1>0. m \in Nat /\ k \in Nat /\ m <= k
  OBVIOUS
<1> DEFINE I == {n \in Nat : n <= m => f[n] = g[n]}
<1>1. \A i \in 0..m : f[i] = IF i = 0 THEN <<>>
                            ELSE IF s[i] \in S THEN Append(f[i - 1], s[i]) ELSE f[i - 1]
  BY DEF Keeps
<1>2. \A i \in 0..k : g[i] = IF i = 0 THEN <<>>
                            ELSE IF t[i] \in S THEN Append(g[i - 1], t[i]) ELSE g[i - 1]
  BY DEF Keeps
<1> HIDE DEF m, k
<1>3. 0 \in I
  BY <1>0, <1>1, <1>2
<1>4. ASSUME NEW n \in Nat, n \in I PROVE n + 1 \in I
  <2> SUFFICES ASSUME n + 1 <= m PROVE f[n + 1] = g[n + 1]
    OBVIOUS
  <2>1. n + 1 \in 0..m /\ n + 1 \in 0..k /\ n + 1 # 0 /\ (n + 1) - 1 = n /\ n + 1 \in 1..m
    BY <1>0
  <2>2. f[n] = g[n] /\ s[n + 1] = t[n + 1]
    BY <1>4, <2>1 DEF m
  <2> QED BY <1>1, <1>2, <2>1, <2>2
<1>5. Nat \subseteq I
  <2> HIDE DEF I
  <2> QED BY <1>3, <1>4, Induction
<1> QED BY <1>0, <1>5 DEF m

\* One element more is kept at the end, if it is in S.
LEMMA AmongAppend ==
    ASSUME NEW T, NEW s \in Seq(T), NEW e \in T, NEW S
    PROVE  Among(Append(s, e), S) = IF e \in S THEN Append(Among(s, S), e) ELSE Among(s, S)
<1> DEFINE u == Append(s, e)
<1>0. /\ Len(s) \in Nat /\ Len(u) = Len(s) + 1 /\ u[Len(s) + 1] = e
      /\ \A i \in 1..Len(s) : s[i] = u[i]
  OBVIOUS
<1> HIDE DEF u
<1>1. PICK f : Keeps(f, s, S, Len(s)) /\ Among(s, S) = f[Len(s)]
  BY <1>0, AmongKeeps
<1>2. PICK g : Keeps(g, u, S, Len(u)) /\ Among(u, S) = g[Len(u)]
  BY <1>0, AmongKeeps
<1> DEFINE a == Len(s)
           b == Len(u)
<1>6. a \in Nat /\ b \in Nat /\ a <= b /\ b # 0 /\ b \in 0..b /\ b - 1 = a
  BY <1>0
<1>7. \A i \in 1..a : s[i] = u[i]
  BY <1>0
<1>8. Keeps(f, s, S, a) /\ Keeps(g, u, S, b)
  BY <1>1, <1>2
<1> HIDE DEF a, b
<1>3. f[a] = g[a]
  BY <1>6, <1>7, <1>8, KeepsAgree DEF a, b
<1>4. g[b] = IF u[b] \in S THEN Append(g[b - 1], u[b]) ELSE g[b - 1]
  <2>1. \A i \in 0..b : g[i] = IF i = 0 THEN <<>>
                             ELSE IF u[i] \in S THEN Append(g[i - 1], u[i]) ELSE g[i - 1]
    BY <1>8 DEF Keeps
  <2> QED BY <2>1, <1>6
<1>5. Among(u, S) = IF e \in S THEN Append(Among(s, S), e) ELSE Among(s, S)
  BY <1>0, <1>1, <1>2, <1>3, <1>4, <1>6 DEF a, b
<1> QED BY <1>5 DEF u

-------------------------------------------------------------------------------
(* The ends of a sequence.                                                 *)

\* t is what s has after its first k elements.
Suffix(t, s, k) ==
    /\ k \in 0..Len(s)
    /\ Len(t) = Len(s) - k
    /\ \A i \in 1..Len(t) : t[i] = s[i + k]

\* What SubSeq() takes from a place to the end.
LEMMA SubSeqSuffix ==
    ASSUME NEW T, NEW s \in Seq(T), NEW k \in 0..Len(s)
    PROVE  SubSeq(s, k + 1, Len(s)) \in Seq(T) /\ Suffix(SubSeq(s, k + 1, Len(s)), s, k)
<1> DEFINE n == Len(s)
           t == SubSeq(s, k + 1, n)
<1>0. n \in Nat /\ k \in Int /\ k >= 0 /\ k <= n /\ k + 1 \in Int
  OBVIOUS
<1>1. \A i \in (k + 1)..n : s[i] \in T
  BY <1>0
<1> HIDE DEF n
<1>2. /\ t \in Seq(T)
      /\ Len(t) = IF k + 1 <= n THEN n - (k + 1) + 1 ELSE 0
      /\ \A i \in 1..(n - (k + 1) + 1) : t[i] = s[(k + 1) + i - 1]
  BY <1>0, <1>1, SubSeqProperties
<1>3. Len(t) = n - k
  BY <1>0, <1>2
<1>4. \A i \in 1..Len(t) : t[i] = s[i + k]
  <2> HIDE DEF t
  <2>1. \A i \in 1..Len(t) : i \in 1..(n - (k + 1) + 1) /\ (k + 1) + i - 1 = i + k
    BY <1>0, <1>3
  <2> QED BY <1>2, <2>1
<1> QED BY <1>0, <1>2, <1>3, <1>4 DEF Suffix, n

\* There is one end of a length.
LEMMA SuffixUnique ==
    ASSUME NEW T, NEW s \in Seq(T), NEW t \in Seq(T), NEW u \in Seq(T), NEW k,
           Suffix(t, s, k), Suffix(u, s, k)
    PROVE  t = u
  BY DEF Suffix

\* The end of the end is an end.
LEMMA SuffixTrans ==
    ASSUME NEW T, NEW s \in Seq(T), NEW t \in Seq(T), NEW u \in Seq(T), NEW k, NEW m,
           Suffix(t, s, k), Suffix(u, t, m)
    PROVE  Suffix(u, s, k + m)
<1>1. /\ Len(s) \in Nat /\ Len(t) \in Nat /\ Len(u) \in Nat /\ k \in 0..Len(s) /\ m \in 0..Len(t)
      /\ Len(t) = Len(s) - k /\ Len(u) = Len(t) - m
  BY DEF Suffix
<1>2. ASSUME NEW i \in 1..Len(u) PROVE u[i] = s[i + (k + m)]
  <2>1. i + m \in 1..Len(t) /\ (i + m) + k = i + (k + m)
    BY <1>1
  <2>2. u[i] = t[i + m] /\ t[i + m] = s[(i + m) + k]
    BY <2>1 DEF Suffix
  <2> QED BY <2>1, <2>2
<1> QED BY <1>1, <1>2 DEF Suffix

\* Both grow by the same element.
LEMMA SuffixAppend ==
    ASSUME NEW T, NEW s \in Seq(T), NEW t \in Seq(T), NEW e \in T, NEW k, Suffix(t, s, k)
    PROVE  Suffix(Append(t, e), Append(s, e), k)
<1> DEFINE a == Append(t, e)
           b == Append(s, e)
<1>1. /\ Len(s) \in Nat /\ Len(t) \in Nat /\ k \in 0..Len(s) /\ Len(t) = Len(s) - k
  BY DEF Suffix
<1>2. /\ Len(a) = Len(t) + 1 /\ Len(b) = Len(s) + 1
      /\ \A i \in 1..Len(t) : a[i] = t[i]
      /\ \A i \in 1..Len(s) : b[i] = s[i]
      /\ a[Len(t) + 1] = e /\ b[Len(s) + 1] = e
  OBVIOUS
<1> HIDE DEF a, b
<1>3. ASSUME NEW i \in 1..Len(a) PROVE a[i] = b[i + k]
  <2>1. CASE i = Len(t) + 1
    BY <1>1, <1>2, <2>1
  <2>2. CASE i # Len(t) + 1
    <3>1. i \in 1..Len(t) /\ i + k \in 1..Len(s)
      BY <1>1, <1>2, <2>2
    <3> QED BY <1>2, <3>1 DEF Suffix
  <2> QED BY <2>1, <2>2
<1>4. k \in 0..Len(b) /\ Len(a) = Len(b) - k
  BY <1>1, <1>2
<1> QED BY <1>3, <1>4 DEF Suffix, a, b

\* Two ends of one sequence: the shorter is the end of the longer.
LEMMA SuffixBetween ==
    ASSUME NEW s, NEW t, NEW u, NEW k, NEW m,
           Len(s) \in Nat, Len(t) \in Nat, Len(u) \in Nat,
           Suffix(t, s, k), Suffix(u, s, m), k <= m
    PROVE  Suffix(u, t, m - k)
<1>1. /\ k \in 0..Len(s) /\ m \in 0..Len(s) /\ Len(t) = Len(s) - k /\ Len(u) = Len(s) - m
  BY DEF Suffix
<1>2. ASSUME NEW i \in 1..Len(u) PROVE u[i] = t[i + (m - k)]
  <2>1. i + (m - k) \in 1..Len(t) /\ (i + (m - k)) + k = i + m
    BY <1>1
  <2>2. u[i] = s[i + m] /\ t[i + (m - k)] = s[(i + (m - k)) + k]
    BY <2>1 DEF Suffix
  <2> QED BY <2>1, <2>2
<1>3. m - k \in 0..Len(t) /\ Len(u) = Len(t) - (m - k)
  BY <1>1
<1> QED BY <1>2, <1>3 DEF Suffix

-------------------------------------------------------------------------------
(* What is kept of a sequence, more.                                       *)

\* A loop over a set that has the elements after the first k, and no other, keeps those.
LEMMA AmongSuffix ==
    ASSUME NEW T, NEW s \in Seq(T), NEW S, NEW k \in 0..Len(s),
           \A i \in 1..Len(s) : s[i] \in S <=> i > k
    PROVE  Suffix(Among(s, S), s, k)
<1> DEFINE m == Len(s)
<1>0. m \in Nat /\ k \in 0..m
  OBVIOUS
<1>1. PICK f : Keeps(f, s, S, m) /\ Among(s, S) = f[m]
  BY <1>0, AmongKeeps
<1>2. \A i \in 0..m : f[i] = IF i = 0 THEN <<>>
                            ELSE IF s[i] \in S THEN Append(f[i - 1], s[i]) ELSE f[i - 1]
  BY <1>1 DEF Keeps
<1> DEFINE Kept(n) == /\ f[n] \in Seq(T)
                      /\ Len(f[n]) = IF n <= k THEN 0 ELSE n - k
                      /\ \A i \in 1..Len(f[n]) : f[n][i] = s[i + k]
           I == {n \in Nat : n <= m => Kept(n)}
<1>3. 0 \in I
  <2>1. f[0] = <<>>
    BY <1>0, <1>2
  <2>2. Kept(0)
    BY <1>0, <2>1
  <2> QED BY <2>2
<1>4. ASSUME NEW n \in Nat, n \in I PROVE n + 1 \in I
  <2> SUFFICES ASSUME n + 1 <= m PROVE Kept(n + 1)
    OBVIOUS
  <2>1. /\ n + 1 \in 1..m /\ n + 1 \in 0..m /\ n + 1 # 0 /\ (n + 1) - 1 = n
        /\ k \in Nat
    BY <1>0
  <2>2. Kept(n) /\ s[n + 1] \in T
    BY <1>4, <2>1
  <2>3. f[n + 1] = IF s[n + 1] \in S THEN Append(f[n], s[n + 1]) ELSE f[n]
    BY <1>2, <2>1
  <2>4. CASE n + 1 <= k
    <3>1. f[n + 1] = f[n]
      BY <2>1, <2>3, <2>4
    <3> QED BY <2>1, <2>2, <2>4, <3>1
  <2>5. CASE n + 1 > k
    <3> DEFINE h == f[n]
               e == s[n + 1]
    <3>1. f[n + 1] = Append(h, e)
      BY <2>1, <2>3, <2>5
    <3>2. Len(h) = n - k /\ \A i \in 1..Len(h) : h[i] = s[i + k]
      BY <2>1, <2>2, <2>5
    <3>6. h \in Seq(T) /\ e \in T
      BY <2>2
    <3> HIDE DEF h, e
    <3>3. /\ Append(h, e) \in Seq(T) /\ Len(Append(h, e)) = Len(h) + 1
          /\ \A i \in 1..Len(h) : Append(h, e)[i] = h[i]
          /\ Append(h, e)[Len(h) + 1] = e
      BY <3>6
    <3>4. ASSUME NEW i \in 1..(Len(h) + 1) PROVE Append(h, e)[i] = s[i + k]
      <4>1. CASE i = Len(h) + 1
        <5>1. i + k = n + 1
          BY <2>1, <3>2, <4>1
        <5> QED BY <3>3, <4>1, <5>1 DEF e
      <4>2. CASE i # Len(h) + 1
        BY <3>2, <3>3, <4>2
      <4> QED BY <4>1, <4>2
    <3>5. Len(h) + 1 = (n + 1) - k /\ ~(n + 1 <= k)
      BY <2>1, <2>5, <3>2
    <3> QED BY <3>1, <3>3, <3>4, <3>5 DEF h, e
  <2> QED BY <1>0, <2>1, <2>4, <2>5
<1>5. Nat \subseteq I
  <2> HIDE DEF I
  <2> QED BY <1>3, <1>4, Induction
<1>6. Kept(m)
  BY <1>0, <1>5
<1> HIDE DEF m
<1>7. Len(f[m]) = m - k
  BY <1>0, <1>6
<1> QED BY <1>0, <1>1, <1>6, <1>7 DEF Suffix, m

\* What a loop keeps depends on which of the elements the set has.
LEMMA AmongSame ==
    ASSUME NEW s, Len(s) \in Nat, NEW S, NEW R,
           \A i \in 1..Len(s) : s[i] \in S <=> s[i] \in R
    PROVE  Among(s, S) = Among(s, R)
<1> DEFINE m == Len(s)
<1>0. m \in Nat
  OBVIOUS
<1>1. PICK f : Keeps(f, s, S, m) /\ Among(s, S) = f[m]
  BY <1>0, AmongKeeps
<1>2. PICK g : Keeps(g, s, R, m) /\ Among(s, R) = g[m]
  BY <1>0, AmongKeeps
<1>3. \A i \in 0..m : f[i] = IF i = 0 THEN <<>>
                            ELSE IF s[i] \in S THEN Append(f[i - 1], s[i]) ELSE f[i - 1]
  BY <1>1 DEF Keeps
<1>4. \A i \in 0..m : g[i] = IF i = 0 THEN <<>>
                            ELSE IF s[i] \in R THEN Append(g[i - 1], s[i]) ELSE g[i - 1]
  BY <1>2 DEF Keeps
<1> DEFINE I == {n \in Nat : n <= m => f[n] = g[n]}
<1> HIDE DEF m
<1>5. 0 \in I
  BY <1>0, <1>3, <1>4
<1>6. ASSUME NEW n \in Nat, n \in I PROVE n + 1 \in I
  <2> SUFFICES ASSUME n + 1 <= m PROVE f[n + 1] = g[n + 1]
    OBVIOUS
  <2>1. n + 1 \in 0..m /\ n + 1 # 0 /\ (n + 1) - 1 = n /\ n + 1 \in 1..m
    BY <1>0
  <2>2. f[n] = g[n] /\ (s[n + 1] \in S <=> s[n + 1] \in R)
    BY <1>6, <2>1 DEF m
  <2> QED BY <1>3, <1>4, <2>1, <2>2
<1>7. Nat \subseteq I
  <2> HIDE DEF I
  <2> QED BY <1>5, <1>6, Induction
<1> QED BY <1>0, <1>1, <1>2, <1>7

\* Of nothing, nothing is kept.
LEMMA AmongNone ==
    ASSUME NEW S
    PROVE  Among(<<>>, S) = <<>>
<1>1. <<>> \in Seq({}) /\ Len(<<>>) = 0
  OBVIOUS
<1>2. Among(<<>>, S) \in Seq({} \cap S)
  BY <1>1, AmongType
<1> QED BY <1>2

-------------------------------------------------------------------------------
(* Sums over finite sets.                                                  *)

\* What MapThenSumSet adds up over S when it is given a function.
Total(f, S) == MapThenSumSet(LAMBDA q : f[q], S)

Some(s) == CHOOSE x \in s : TRUE

\* g is the function by which it does, over the subsets of S.
Adds(g, f, S) ==
    g = [s \in SUBSET S |-> IF s = {} THEN 0 ELSE f[Some(s)] + g[s \ {Some(s)}]]

\* Without one of its elements a set is smaller.
LEMMA RemoveSome ==
    ASSUME NEW s, IsFiniteSet(s), s # {}
    PROVE  /\ Some(s) \in s /\ IsFiniteSet(s \ {Some(s)})
           /\ Cardinality(s) \in Nat /\ Cardinality(s \ {Some(s)}) \in Nat
           /\ Cardinality(s) = Cardinality(s \ {Some(s)}) + 1
<1>1. Some(s) \in s
  BY DEF Some
<1>2. Cardinality(s) \in Nat /\ Cardinality(s \ {Some(s)}) \in Nat
  BY FS_RemoveElement, FS_CardinalityType
<1>3. /\ IsFiniteSet(s \ {Some(s)})
      /\ Cardinality(s \ {Some(s)}) = Cardinality(s) - 1
  BY <1>1, FS_RemoveElement
<1> QED BY <1>1, <1>2, <1>3

\* Adding the elements up, one after another, has a history.
LEMMA AddsExists ==
    ASSUME NEW f, NEW S, IsFiniteSet(S)
    PROVE  \E g : Adds(g, f, S)
<1> DEFINE Up(g, n) ==
             /\ g = [s \in SUBSET S |-> g[s]]
             /\ \A s \in SUBSET S : Cardinality(s) <= n =>
                  g[s] = IF s = {} THEN 0 ELSE f[Some(s)] + g[s \ {Some(s)}]
           I == {n \in Nat : \E g : Up(g, n)}
<1>0. \A s \in SUBSET S : IsFiniteSet(s) /\ Cardinality(s) \in Nat
  BY FS_Subset, FS_CardinalityType
<1>1. 0 \in I
  <2> DEFINE g == [s \in SUBSET S |-> 0]
  <2>1. \A s \in SUBSET S : Cardinality(s) <= 0 => s = {}
    BY <1>0, FS_EmptySet
  <2>2. Up(g, 0)
    BY <2>1
  <2> QED BY <2>2
<1>2. ASSUME NEW n \in Nat, n \in I PROVE n + 1 \in I
  <2>1. PICK g : Up(g, n)
    BY <1>2
  <2> DEFINE k == [s \in SUBSET S |-> IF Cardinality(s) <= n THEN g[s]
                                      ELSE f[Some(s)] + g[s \ {Some(s)}]]
  <2>2. ASSUME NEW s \in SUBSET S, Cardinality(s) <= n + 1
        PROVE  k[s] = IF s = {} THEN 0 ELSE f[Some(s)] + k[s \ {Some(s)}]
    <3>1. CASE s = {}
      <4>1. Cardinality(s) <= n
        BY <3>1, FS_EmptySet
      <4> QED BY <2>1, <3>1, <4>1
    <3>2. CASE s # {}
      <4>1. s \ {Some(s)} \in SUBSET S /\ Cardinality(s \ {Some(s)}) <= n
        BY <1>0, <2>2, <3>2, RemoveSome
      <4>2. k[s \ {Some(s)}] = g[s \ {Some(s)}]
        BY <4>1
      <4>3. k[s] = f[Some(s)] + g[s \ {Some(s)}]
        BY <2>1, <3>2
      <4> QED BY <3>2, <4>2, <4>3
    <3> QED BY <3>1, <3>2
  <2>3. k = [s \in SUBSET S |-> k[s]]
    OBVIOUS
  <2> HIDE DEF k
  <2>4. Up(k, n + 1)
    BY <2>2, <2>3
  <2>5. n + 1 \in Nat
    OBVIOUS
  <2> HIDE DEF Up
  <2> QED BY <2>4, <2>5
<1>3. Nat \subseteq I
  <2> HIDE DEF I
  <2> QED BY <1>1, <1>2, Induction
<1>4. Cardinality(S) \in Nat
  BY <1>0
<1>5. PICK g : Up(g, Cardinality(S))
  BY <1>3, <1>4
<1>6. \A s \in SUBSET S : Cardinality(s) <= Cardinality(S)
  BY FS_Subset
<1>7. Adds(g, f, S)
  BY <1>5, <1>6 DEF Adds
<1> QED BY <1>7

\* Two histories agree on what both have added up.
LEMMA AddsAgree ==
    ASSUME NEW f, NEW S, IsFiniteSet(S), NEW T \in SUBSET S, NEW g, NEW k,
           Adds(g, f, S), Adds(k, f, T)
    PROVE  g[T] = k[T]
<1> DEFINE I == {n \in Nat : \A s \in SUBSET T : Cardinality(s) = n => g[s] = k[s]}
<1>0. \A s \in SUBSET T : s \in SUBSET S /\ IsFiniteSet(s) /\ Cardinality(s) \in Nat
  BY FS_Subset, FS_CardinalityType
<1>1. \A s \in SUBSET T : /\ g[s] = IF s = {} THEN 0 ELSE f[Some(s)] + g[s \ {Some(s)}]
                          /\ k[s] = IF s = {} THEN 0 ELSE f[Some(s)] + k[s \ {Some(s)}]
  BY <1>0 DEF Adds
<1>2. 0 \in I
  <2>1. \A s \in SUBSET T : Cardinality(s) = 0 => s = {}
    BY <1>0, FS_EmptySet
  <2> QED BY <1>1, <2>1
<1>3. ASSUME NEW n \in Nat, n \in I PROVE n + 1 \in I
  <2> SUFFICES ASSUME NEW s \in SUBSET T, Cardinality(s) = n + 1 PROVE g[s] = k[s]
    OBVIOUS
  <2>1. s # {} /\ IsFiniteSet(s)
    BY <1>0, FS_EmptySet
  <2>2. s \ {Some(s)} \in SUBSET T /\ Cardinality(s \ {Some(s)}) = n
    BY <2>1, RemoveSome
  <2>3. g[s \ {Some(s)}] = k[s \ {Some(s)}]
    BY <1>3, <2>2
  <2> QED BY <1>1, <2>1, <2>3
<1>4. Nat \subseteq I
  <2> HIDE DEF I
  <2> QED BY <1>2, <1>3, Induction
<1> QED BY <1>0, <1>4

\* Total() is the sum at the end of a history.
LEMMA TotalAdds ==
    ASSUME NEW f, NEW S, IsFiniteSet(S)
    PROVE  \E g : Adds(g, f, S) /\ Total(f, S) = g[S]
<1> DEFINE g == CHOOSE g : Adds(g, f, S)
<1>1. Adds(g, f, S)
  BY AddsExists
<1>2. Total(f, S) = g[S]
  BY DEF Total, MapThenSumSet, MapThenFoldSet, Adds, Some
<1> QED BY <1>1, <1>2

\* One of the elements first, and the rest.
LEMMA TotalSome ==
    ASSUME NEW f, NEW S, IsFiniteSet(S)
    PROVE  Total(f, S) = IF S = {} THEN 0 ELSE f[Some(S)] + Total(f, S \ {Some(S)})
<1>1. PICK g : Adds(g, f, S) /\ Total(f, S) = g[S]
  BY TotalAdds
<1>2. g[S] = IF S = {} THEN 0 ELSE f[Some(S)] + g[S \ {Some(S)}]
  BY <1>1 DEF Adds
<1>3. S # {} => g[S \ {Some(S)}] = Total(f, S \ {Some(S)})
  <2> SUFFICES ASSUME S # {} PROVE g[S \ {Some(S)}] = Total(f, S \ {Some(S)})
    OBVIOUS
  <2>1. IsFiniteSet(S \ {Some(S)}) /\ S \ {Some(S)} \in SUBSET S
    BY RemoveSome
  <2>2. PICK k : Adds(k, f, S \ {Some(S)}) /\ Total(f, S \ {Some(S)}) = k[S \ {Some(S)}]
    BY <2>1, TotalAdds
  <2> QED BY <1>1, <2>1, <2>2, AddsAgree
<1> QED BY <1>1, <1>2, <1>3

\* A sum of numbers is one.
LEMMA TotalType ==
    ASSUME NEW S, IsFiniteSet(S), NEW f, \A x \in S : f[x] \in Int
    PROVE  Total(f, S) \in Int
<1> DEFINE I == {n \in Nat : \A s \in SUBSET S : Cardinality(s) = n => Total(f, s) \in Int}
<1>0. \A s \in SUBSET S : IsFiniteSet(s) /\ Cardinality(s) \in Nat
  BY FS_Subset, FS_CardinalityType
<1>1. 0 \in I
  <2>1. \A s \in SUBSET S : Cardinality(s) = 0 => s = {}
    BY <1>0, FS_EmptySet
  <2>2. Total(f, {}) = 0
    BY FS_EmptySet, TotalSome
  <2> QED BY <2>1, <2>2
<1>2. ASSUME NEW n \in Nat, n \in I PROVE n + 1 \in I
  <2> SUFFICES ASSUME NEW s \in SUBSET S, Cardinality(s) = n + 1 PROVE Total(f, s) \in Int
    OBVIOUS
  <2>1. s # {} /\ IsFiniteSet(s)
    BY <1>0, FS_EmptySet
  <2>2. s \ {Some(s)} \in SUBSET S /\ Cardinality(s \ {Some(s)}) = n /\ Some(s) \in S
    BY <2>1, RemoveSome
  <2>3. Total(f, s \ {Some(s)}) \in Int /\ f[Some(s)] \in Int
    BY <1>2, <2>2
  <2> QED BY <2>1, <2>3, TotalSome
<1>3. Nat \subseteq I
  <2> HIDE DEF I
  <2> QED BY <1>1, <1>2, Induction
<1> QED BY <1>0, <1>3

\* Any of the elements first, and the rest: the order does not matter.
LEMMA TotalRemove ==
    ASSUME NEW S, IsFiniteSet(S), NEW f, \A x \in S : f[x] \in Int, NEW x \in S
    PROVE  Total(f, S) = f[x] + Total(f, S \ {x})
<1> DEFINE I == {n \in Nat : \A s \in SUBSET S : Cardinality(s) = n =>
                   \A y \in s : Total(f, s) = f[y] + Total(f, s \ {y})}
<1>0. \A s \in SUBSET S : IsFiniteSet(s) /\ Cardinality(s) \in Nat
  BY FS_Subset, FS_CardinalityType
<1>1. 0 \in I
  <2>1. \A s \in SUBSET S : Cardinality(s) = 0 => s = {}
    BY <1>0, FS_EmptySet
  <2> QED BY <2>1
<1>2. ASSUME NEW n \in Nat, n \in I PROVE n + 1 \in I
  <2> SUFFICES ASSUME NEW s \in SUBSET S, Cardinality(s) = n + 1, NEW y \in s
               PROVE  Total(f, s) = f[y] + Total(f, s \ {y})
    OBVIOUS
  <2> DEFINE z == Some(s)
             r == (s \ {y}) \ {z}
  <2>1. s # {} /\ IsFiniteSet(s)
    BY <1>0
  <2>2. z \in s /\ Total(f, s) = f[z] + Total(f, s \ {z})
    BY <2>1, RemoveSome, TotalSome
  <2> HIDE DEF z
  <2>3. CASE y = z
    BY <2>2, <2>3
  <2>4. CASE y # z
    <3>1. /\ s \ {z} \in SUBSET S /\ y \in s \ {z}
          /\ s \ {y} \in SUBSET S /\ z \in s \ {y}
      BY <2>2, <2>4
    <3>2. Cardinality(s \ {z}) = n /\ Cardinality(s \ {y}) = n
      <4>1. Cardinality(s \ {z}) = Cardinality(s) - 1
        BY <2>1, <2>2, FS_RemoveElement
      <4>2. Cardinality(s \ {y}) = Cardinality(s) - 1
        BY <2>1, FS_RemoveElement
      <4> QED BY <4>1, <4>2
    <3>3. (s \ {z}) \ {y} = r
      OBVIOUS
    <3>4. Total(f, s \ {z}) = f[y] + Total(f, r) /\ Total(f, s \ {y}) = f[z] + Total(f, r)
      BY <1>2, <3>1, <3>2, <3>3
    <3>5. f[y] \in Int /\ f[z] \in Int /\ Total(f, r) \in Int
      <4>1. IsFiniteSet(r) /\ \A q \in r : f[q] \in Int
        BY <1>0
      <4> QED BY <2>2, <4>1, TotalType
    <3> HIDE DEF r
    <3> QED BY <2>2, <3>4, <3>5
  <2> QED BY <2>3, <2>4
<1>3. Nat \subseteq I
  <2> HIDE DEF I
  <2> QED BY <1>1, <1>2, Induction
<1> QED BY <1>0, <1>3

\* The elements of B, counted class by class: what is in one of the classes.
LEMMA TotalCounts ==
    ASSUME NEW B, IsFiniteSet(B), NEW S, IsFiniteSet(S), NEW C, NEW f, NEW U,
           \A q \in S : C[q] \in SUBSET B /\ f[q] = Cardinality(C[q]),
           \A q, r \in S : q # r => C[q] \cap C[r] = {},
           \A i : i \in U <=> \E q \in S : i \in C[q]
    PROVE  Total(f, S) = Cardinality(U)
<1> DEFINE Of(s) == {i \in B : \E q \in s : i \in C[q]}
           I == {n \in Nat : \A s \in SUBSET S : Cardinality(s) = n =>
                   Total(f, s) = Cardinality(Of(s))}
<1>1. \A s \in SUBSET S : IsFiniteSet(s) /\ Cardinality(s) \in Nat
  BY FS_Subset, FS_CardinalityType
<1>2. 0 \in I
  <2>1. \A s \in SUBSET S : Cardinality(s) = 0 => s = {}
    BY <1>1, FS_EmptySet
  <2>2. Of({}) = {} /\ Cardinality({}) = 0
    BY FS_EmptySet
  <2>3. Total(f, {}) = 0
    BY FS_EmptySet, TotalSome
  <2> QED BY <2>1, <2>2, <2>3
<1>3. ASSUME NEW n \in Nat, n \in I PROVE n + 1 \in I
  <2> SUFFICES ASSUME NEW s \in SUBSET S, Cardinality(s) = n + 1
               PROVE  Total(f, s) = Cardinality(Of(s))
    OBVIOUS
  <2> DEFINE x == Some(s)
             r == s \ {x}
  <2>1. s # {} /\ IsFiniteSet(s)
    BY <1>1, FS_EmptySet
  <2>2. x \in s /\ r \in SUBSET S /\ Cardinality(r) = n
    BY <2>1, RemoveSome
  <2>3. Total(f, s) = f[x] + Total(f, r)
    BY <2>1, TotalSome
  <2>4. Total(f, r) = Cardinality(Of(r)) /\ f[x] = Cardinality(C[x])
    BY <1>3, <2>2
  <2> HIDE DEF x
  <2>5. Of(s) = C[x] \cup Of(r) /\ C[x] \cap Of(r) = {}
    BY <2>2
  <2>6. IsFiniteSet(C[x]) /\ IsFiniteSet(Of(r))
    <3>1. C[x] \in SUBSET B /\ Of(r) \in SUBSET B
      BY <2>2
    <3> QED BY <3>1, FS_Subset
  <2> HIDE DEF r, Of
  <2>7. Cardinality(Of(s)) = Cardinality(C[x]) + Cardinality(Of(r)) - 0
    BY <2>5, <2>6, FS_Union, FS_EmptySet
  <2>8. Cardinality(C[x]) \in Nat /\ Cardinality(Of(r)) \in Nat
    BY <2>6, FS_CardinalityType
  <2> QED BY <2>3, <2>4, <2>7, <2>8
<1>4. Nat \subseteq I
  <2> HIDE DEF I
  <2> QED BY <1>2, <1>3, Induction
<1>5. Of(S) = U
  OBVIOUS
<1> QED BY <1>1, <1>4, <1>5

\* What two functions agree on, they add up to the same.
LEMMA TotalSame ==
    ASSUME NEW S, IsFiniteSet(S), NEW f, NEW g, \A x \in S : f[x] = g[x]
    PROVE  Total(f, S) = Total(g, S)
<1> DEFINE I == {n \in Nat : \A s \in SUBSET S : Cardinality(s) = n => Total(f, s) = Total(g, s)}
<1>0. \A s \in SUBSET S : IsFiniteSet(s) /\ Cardinality(s) \in Nat
  BY FS_Subset, FS_CardinalityType
<1>1. 0 \in I
  <2>1. \A s \in SUBSET S : Cardinality(s) = 0 => s = {}
    BY <1>0, FS_EmptySet
  <2>2. Total(f, {}) = 0 /\ Total(g, {}) = 0
    BY FS_EmptySet, TotalSome
  <2> QED BY <2>1, <2>2
<1>2. ASSUME NEW n \in Nat, n \in I PROVE n + 1 \in I
  <2> SUFFICES ASSUME NEW s \in SUBSET S, Cardinality(s) = n + 1
               PROVE  Total(f, s) = Total(g, s)
    OBVIOUS
  <2>1. s # {} /\ IsFiniteSet(s)
    BY <1>0, FS_EmptySet
  <2>2. Cardinality(s) = Cardinality(s \ {Some(s)}) + 1 /\ Some(s) \in s
    BY <2>1, RemoveSome
  <2>3. Cardinality(s \ {Some(s)}) \in Nat
    BY <2>1, RemoveSome
  <2>4. s \ {Some(s)} \in SUBSET S /\ Cardinality(s \ {Some(s)}) = n /\ Some(s) \in S
    BY <2>2, <2>3
  <2>5. Total(f, s \ {Some(s)}) = Total(g, s \ {Some(s)}) /\ f[Some(s)] = g[Some(s)]
    BY <1>2, <2>4
  <2>6. /\ Total(f, s) = f[Some(s)] + Total(f, s \ {Some(s)})
        /\ Total(g, s) = g[Some(s)] + Total(g, s \ {Some(s)})
    BY <2>1, TotalSome
  <2> QED BY <2>5, <2>6
<1>3. Nat \subseteq I
  <2> HIDE DEF I
  <2> QED BY <1>1, <1>2, Induction
<1> QED BY <1>0, <1>3

\* One element more.
LEMMA TotalAdd ==
    ASSUME NEW S, IsFiniteSet(S), NEW x, x \notin S,
           NEW f, \A y \in S \cup {x} : f[y] \in Int
    PROVE  Total(f, S \cup {x}) = Total(f, S) + f[x]
<1>1. IsFiniteSet(S \cup {x}) /\ x \in S \cup {x}
  BY FS_AddElement
<1>2. Total(f, S \cup {x}) = f[x] + Total(f, (S \cup {x}) \ {x})
  BY <1>1, TotalRemove
<1>3. (S \cup {x}) \ {x} = S
  OBVIOUS
<1>4. Total(f, S) \in Int /\ f[x] \in Int
  BY TotalType
<1>5. Total(f, S \cup {x}) = f[x] + Total(f, S)
  BY ONLY <1>2, <1>3
<1> QED BY ONLY <1>4, <1>5

\* When the value of one element changes, the sum changes by as much.
LEMMA TotalChange ==
    ASSUME NEW S, IsFiniteSet(S), NEW x \in S, NEW f, NEW g,
           \A y \in S : f[y] \in Int /\ g[y] \in Int,
           \A y \in S : y # x => f[y] = g[y]
    PROVE  Total(g, S) = Total(f, S) + (g[x] - f[x])
<1>1. IsFiniteSet(S \ {x})
  BY FS_RemoveElement
<1>2. Total(f, S \ {x}) = Total(g, S \ {x})
  BY <1>1, TotalSame
<1>3. Total(f, S \ {x}) \in Int
  BY <1>1, TotalType
<1>4. Total(f, S) = f[x] + Total(f, S \ {x}) /\ Total(g, S) = g[x] + Total(g, S \ {x})
  BY TotalRemove
<1>5. f[x] \in Int /\ g[x] \in Int
  OBVIOUS
<1> QED BY ONLY <1>2, <1>3, <1>4, <1>5

\* What is added up class by class is what is added up element by element.
LEMMA TotalByClass ==
    ASSUME NEW S, IsFiniteSet(S), NEW B, IsFiniteSet(B), NEW k \in [B -> S],
           NEW w, \A c \in S : w[c] \in Int,
           NEW f, \A c \in S : f[c] = Cardinality({q \in B : k[q] = c}) * w[c],
           NEW g, \A q \in B : g[q] = w[k[q]]
    PROVE  Total(f, S) = Total(g, B)
<1> DEFINE Of(s, c) == {q \in s : k[q] = c}
           F(s) == [c \in S |-> Cardinality(Of(s, c)) * w[c]]
           G == [q \in B |-> w[k[q]]]
           I == {n \in Nat : \A s \in SUBSET B : Cardinality(s) = n =>
                   Total(F(s), S) = Total(G, s)}
<1>0. \A s \in SUBSET B : IsFiniteSet(s) /\ Cardinality(s) \in Nat
  BY FS_Subset, FS_CardinalityType
<1>1. \A s \in SUBSET B : \A c \in S : Cardinality(Of(s, c)) \in Nat
  <2> SUFFICES ASSUME NEW s \in SUBSET B, NEW c \in S PROVE Cardinality(Of(s, c)) \in Nat
    OBVIOUS
  <2>1. Of(s, c) \in SUBSET B
    OBVIOUS
  <2> QED BY <1>0, <2>1
<1> HIDE DEF Of
<1>2. \A s \in SUBSET B : \A c \in S : F(s)[c] \in Int
  BY <1>1
<1>3. 0 \in I
  <2>1. \A s \in SUBSET B : Cardinality(s) = 0 => s = {}
    BY <1>0, FS_EmptySet
  <2>2. Total(G, {}) = 0
    BY FS_EmptySet, TotalSome
  <2>3. \A c \in S : Of({}, c) = {}
    BY DEF Of
  <2>4. \A c \in S : F({})[c] = 0
    <3> SUFFICES ASSUME NEW c \in S PROVE F({})[c] = 0
      OBVIOUS
    <3>1. F({})[c] = Cardinality(Of({}, c)) * w[c] /\ Cardinality(Of({}, c)) = 0
      BY <2>3, FS_EmptySet
    <3>2. w[c] \in Int
      OBVIOUS
    <3> HIDE DEF F
    <3> QED BY <3>1, <3>2
  <2>5. Total(F({}), S) = 0
    <3> DEFINE Z == [c \in S |-> 0]
               J == {n \in Nat : \A s \in SUBSET S : Cardinality(s) = n => Total(Z, s) = 0}
    <3>0. \A s \in SUBSET S : IsFiniteSet(s) /\ Cardinality(s) \in Nat
      BY FS_Subset, FS_CardinalityType
    <3>1. 0 \in J
      <4>1. \A s \in SUBSET S : Cardinality(s) = 0 => s = {}
        BY <3>0, FS_EmptySet
      <4>2. Total(Z, {}) = 0
        BY FS_EmptySet, TotalSome
      <4> QED BY <4>1, <4>2
    <3>2. ASSUME NEW n \in Nat, n \in J PROVE n + 1 \in J
      <4> SUFFICES ASSUME NEW s \in SUBSET S, Cardinality(s) = n + 1 PROVE Total(Z, s) = 0
        OBVIOUS
      <4>1. s # {} /\ IsFiniteSet(s)
        BY <3>0, FS_EmptySet
      <4>2. Cardinality(s) = Cardinality(s \ {Some(s)}) + 1 /\ Some(s) \in s
        BY <4>1, RemoveSome
      <4>3. Cardinality(s \ {Some(s)}) \in Nat
        BY <4>1, RemoveSome
      <4>4. s \ {Some(s)} \in SUBSET S /\ Cardinality(s \ {Some(s)}) = n /\ Some(s) \in S
        BY <4>2, <4>3
      <4>5. Total(Z, s) = Z[Some(s)] + Total(Z, s \ {Some(s)})
        BY <4>1, TotalSome
      <4>6. Total(Z, s \ {Some(s)}) = 0 /\ Z[Some(s)] = 0
        BY <3>2, <4>4
      <4> QED BY <4>5, <4>6
    <3>3. Nat \subseteq J
      <4> HIDE DEF J
      <4> QED BY <3>1, <3>2, Induction
    <3>4. Total(Z, S) = 0
      BY <3>0, <3>3
    <3>5. \A c \in S : F({})[c] = Z[c]
      BY <2>4
    <3> HIDE DEF F, Z
    <3> QED BY <3>4, <3>5, TotalSame
  <2> HIDE DEF F, G
  <2> QED BY <2>1, <2>2, <2>5
<1>4. ASSUME NEW n \in Nat, n \in I PROVE n + 1 \in I
  <2> SUFFICES ASSUME NEW s \in SUBSET B, Cardinality(s) = n + 1
               PROVE  Total(F(s), S) = Total(G, s)
    OBVIOUS
  <2> DEFINE x == Some(s)
             r == s \ {x}
  <2>1. s # {} /\ IsFiniteSet(s)
    BY <1>0, FS_EmptySet
  <2>2. r \in SUBSET B /\ Cardinality(r) = n /\ x \in s
    <3>1. Cardinality(r) \in Nat /\ Cardinality(s) = Cardinality(r) + 1 /\ x \in s
      BY ONLY <2>1, RemoveSome
    <3>2. Cardinality(r) = n
      BY ONLY <3>1, n \in Nat, Cardinality(s) = n + 1
    <3> QED BY <3>1, <3>2
  <2>3. Total(G, s) = G[x] + Total(G, r)
    BY <2>1, TotalSome
  <2>4. Total(F(r), S) = Total(G, r)
    BY <1>4, <2>2
  <2> HIDE DEF x
  <2>5. k[x] \in S /\ G[x] = w[k[x]] /\ G[x] \in Int
    BY <2>2
  <2>6. \A c \in S : c # k[x] => Of(s, c) = Of(r, c)
    BY DEF Of
  <2>7. Of(s, k[x]) = Of(r, k[x]) \cup {x} /\ x \notin Of(r, k[x])
    BY <2>2 DEF Of
  <2>8. Cardinality(Of(s, k[x])) = Cardinality(Of(r, k[x])) + 1
    <3>1. IsFiniteSet(Of(r, k[x]))
      <4>1. Of(r, k[x]) \in SUBSET B
        BY <2>2 DEF Of
      <4> QED BY <1>0, <4>1
    <3> QED BY <2>7, <3>1, FS_AddElement
  <2>9. F(s)[k[x]] = F(r)[k[x]] + w[k[x]]
    <3> DEFINE a == Cardinality(Of(r, k[x]))
    <3> DEFINE v == w[k[x]]
    <3>1. F(s)[k[x]] = (a + 1) * v /\ F(r)[k[x]] = a * v
      BY <2>5, <2>8
    <3>2. a \in Nat /\ v \in Int
      BY <1>1, <2>2, <2>5
    <3>3. \A m \in Nat, u \in Int : (m + 1) * u = m * u + u
      OBVIOUS
    <3> HIDE DEF a, v, F
    <3>4. (a + 1) * v = a * v + v
      BY ONLY <3>2, <3>3
    <3>5. F(s)[k[x]] = F(r)[k[x]] + v
      BY ONLY <3>1, <3>4
    <3> QED BY <3>5 DEF v
  <2>10. \A c \in S : c # k[x] => F(s)[c] = F(r)[c]
    BY <2>6
  <2>11. \A c \in S : F(r)[c] \in Int /\ F(s)[c] \in Int
    BY <1>2, <2>2
  <2> HIDE DEF F, r, G
  <2>12. Total(F(s), S) = Total(F(r), S) + (F(s)[k[x]] - F(r)[k[x]])
    BY <2>5, <2>10, <2>11, TotalChange
  <2>13. Total(F(r), S) \in Int
    BY <2>11, TotalType
  <2> QED BY <2>3, <2>4, <2>5, <2>9, <2>11, <2>12, <2>13
<1>5. Nat \subseteq I
  <2> HIDE DEF I
  <2> QED BY <1>3, <1>4, Induction
<1>6. Total(F(B), S) = Total(G, B)
  BY <1>0, <1>5
<1>7. Total(f, S) = Total(F(B), S)
  <2>1. \A c \in S : f[c] = F(B)[c]
    BY DEF Of
  <2> HIDE DEF F
  <2> QED BY <2>1, TotalSame
<1>8. Total(g, B) = Total(G, B)
  <2>1. \A q \in B : g[q] = G[q]
    OBVIOUS
  <2> HIDE DEF G
  <2> QED BY <2>1, TotalSame
<1> QED BY <1>6, <1>7, <1>8

\* f has the products of the deviations of a times u from b and of a times v from d,
\* g those of u and v.
Deviations(f, g, u, v, a, b, d, S) ==
    /\ \A i \in S : u[i] \in Int /\ v[i] \in Int
    /\ a \in Int /\ b \in Int /\ d \in Int
    /\ \A i \in S : f[i] = (a * u[i] - b) * (a * v[i] - d)
    /\ \A i \in S : g[i] = u[i] * v[i]

\* What is left of the sum of such products.
LEMMA TotalProducts ==
    ASSUME NEW f, NEW g, NEW u, NEW v, NEW a, NEW b, NEW d, NEW S, IsFiniteSet(S),
           Deviations(f, g, u, v, a, b, d, S)
    PROVE  Total(f, S) = a * a * Total(g, S) - a * d * Total(u, S)
                           - a * b * Total(v, S) + b * d * Cardinality(S)
<1> DEFINE P == [i \in S |-> (a * u[i] - b) * (a * v[i] - d)]
           Q == [i \in S |-> u[i] * v[i]]
           Left_(s) == Total(P, s)
           Right_(s) == a * a * Total(Q, s) - a * d * Total(u, s)
                          - a * b * Total(v, s) + b * d * Cardinality(s)
           I == {n \in Nat : \A s \in SUBSET S : Cardinality(s) = n => Left_(s) = Right_(s)}
<1> SUFFICES ASSUME \A i \in S : u[i] \in Int /\ v[i] \in Int,
                    a \in Int, b \in Int, d \in Int,
                    \A i \in S : f[i] = (a * u[i] - b) * (a * v[i] - d),
                    \A i \in S : g[i] = u[i] * v[i]
             PROVE  Total(f, S) = a * a * Total(g, S) - a * d * Total(u, S)
                                    - a * b * Total(v, S) + b * d * Cardinality(S)
  BY DEF Deviations
<1>0. \A s \in SUBSET S : IsFiniteSet(s) /\ Cardinality(s) \in Nat
  BY FS_Subset, FS_CardinalityType
<1>1. \A i \in S : Q[i] \in Int /\ P[i] \in Int
  OBVIOUS
<1>2. 0 \in I
  <2>1. \A s \in SUBSET S : Cardinality(s) = 0 => s = {}
    BY <1>0, FS_EmptySet
  <2>2. \A h : Total(h, {}) = 0
    BY FS_EmptySet, TotalSome
  <2>3. Left_({}) = 0
    BY <2>2
  <2>4. Right_({}) = a * a * 0 - a * d * 0 - a * b * 0 + b * d * 0
    BY <2>2, FS_EmptySet
  <2>5. a * a * 0 - a * d * 0 - a * b * 0 + b * d * 0 = 0
    OBVIOUS
  <2>6. Left_({}) = Right_({})
    BY <2>3, <2>4, <2>5
  <2> HIDE DEF Left_, Right_
  <2> QED BY <2>1, <2>6
<1>3. ASSUME NEW n \in Nat, n \in I PROVE n + 1 \in I
  <2> SUFFICES ASSUME NEW s \in SUBSET S, Cardinality(s) = n + 1 PROVE Left_(s) = Right_(s)
    OBVIOUS
  <2> DEFINE x == Some(s)
             r == s \ {x}
  <2>1. s # {} /\ IsFiniteSet(s)
    BY <1>0, FS_EmptySet
  <2>2. Cardinality(s) = Cardinality(r) + 1 /\ x \in s /\ Cardinality(r) \in Nat
    BY <2>1, RemoveSome
  <2>3. /\ Total(P, s) = P[x] + Total(P, r) /\ Total(Q, s) = Q[x] + Total(Q, r)
        /\ Total(u, s) = u[x] + Total(u, r) /\ Total(v, s) = v[x] + Total(v, r)
    <3> HIDE DEF P, Q
    <3> QED BY <2>1, TotalSome
  <2> HIDE DEF x
  <2>4. r \in SUBSET S /\ Cardinality(r) = n
    BY <2>2
  <2>5. Left_(r) = Right_(r)
    BY <1>3, <2>4
  <2>6. IsFiniteSet(r) /\ x \in S
    BY <1>0, <2>2, <2>4
  <2>7. Total(Q, r) \in Int /\ Total(u, r) \in Int /\ Total(v, r) \in Int
    <3>1. \A i \in r : Q[i] \in Int /\ u[i] \in Int /\ v[i] \in Int
      BY <1>1
    <3> HIDE DEF Q
    <3> QED BY <2>6, <3>1, TotalType
  <2> DEFINE p == u[x]
             q == v[x]
             tq == Total(Q, r)
             tu == Total(u, r)
             tv == Total(v, r)
             m == Cardinality(r)
  <2>8. P[x] = (a * p - b) * (a * q - d) /\ Q[x] = p * q
    BY <2>6
  <2>9. p \in Int /\ q \in Int /\ tq \in Int /\ tu \in Int /\ tv \in Int /\ m \in Int
    BY <2>2, <2>6, <2>7
  <2>10. /\ Left_(s) = (a * p - b) * (a * q - d) + Right_(r)
    BY <2>3, <2>5, <2>8
  <2>11. Right_(r) = a * a * tq - a * d * tu - a * b * tv + b * d * m
    OBVIOUS
  <2>12. Right_(s) = a * a * (p * q + tq) - a * d * (p + tu) - a * b * (q + tv) + b * d * (m + 1)
    BY <2>2, <2>3, <2>8
  <2> HIDE DEF Left_, Right_, p, q, tq, tu, tv, m, P, Q
  <2>13. (a * p - b) * (a * q - d) = a * a * (p * q) - a * d * p - a * b * q + b * d
    BY ONLY <2>9, a \in Int, b \in Int, d \in Int
  <2>14. a * a * (p * q + tq) = a * a * (p * q) + a * a * tq
    BY ONLY <2>9, a \in Int
  <2>15. a * d * (p + tu) = a * d * p + a * d * tu /\ a * b * (q + tv) = a * b * q + a * b * tv
    BY ONLY <2>9, a \in Int, b \in Int, d \in Int
  <2>16. b * d * (m + 1) = b * d * m + b * d
    BY ONLY <2>9, b \in Int, d \in Int
  <2> DEFINE k1 == a * a * (p * q)
             k2 == a * a * tq
             k3 == a * d * p
             k4 == a * d * tu
             k5 == a * b * q
             k6 == a * b * tv
             k7 == b * d * m
             k8 == b * d
  <2>17. /\ k1 \in Int /\ k2 \in Int /\ k3 \in Int /\ k4 \in Int
         /\ k5 \in Int /\ k6 \in Int /\ k7 \in Int /\ k8 \in Int
    BY ONLY <2>9, a \in Int, b \in Int, d \in Int
  <2>18. /\ Left_(s) = (k1 - k3 - k5 + k8) + (k2 - k4 - k6 + k7)
         /\ Right_(s) = (k1 + k2) - (k3 + k4) - (k5 + k6) + (k7 + k8)
    BY <2>10, <2>11, <2>12, <2>13, <2>14, <2>15, <2>16
  <2> HIDE DEF k1, k2, k3, k4, k5, k6, k7, k8
  <2> QED BY ONLY <2>17, <2>18
<1>4. Nat \subseteq I
  <2> HIDE DEF I
  <2> QED BY <1>2, <1>3, Induction
<1>5. Left_(S) = Right_(S)
  BY <1>0, <1>4
<1>6. Total(f, S) = Total(P, S) /\ Total(g, S) = Total(Q, S)
  <2>1. \A i \in S : f[i] = P[i] /\ g[i] = Q[i]
    OBVIOUS
  <2> HIDE DEF P, Q
  <2> QED BY <2>1, TotalSame
<1> QED BY <1>5, <1>6

\* Sets that a function puts in correspondence have as many elements.
LEMMA SameCardinality ==
    ASSUME NEW S, IsFiniteSet(S), NEW T, NEW f,
           \A x \in S : f[x] \in T,
           \A x, y \in S : f[x] = f[y] => x = y,
           \A z \in T : \E x \in S : f[x] = z
    PROVE  IsFiniteSet(T) /\ Cardinality(T) = Cardinality(S)
<1> DEFINE g == [x \in S |-> f[x]]
<1>1. g \in Bijection(S, T)
  BY DEF Bijection, Injection, Surjection, IsInjective
<1> HIDE DEF g
<1> QED BY <1>1, FS_Bijection DEF ExistsBijection

\* The places of a table that is kept row by row.
LEMMA RowMajor ==
    ASSUME NEW w \in Nat \ {0}, NEW h \in Nat \ {0}, NEW c \in 0..w - 1, NEW r \in 0..h - 1
    PROVE  /\ r * w + c \in 0..w * h - 1
           /\ (r * w + c) % w = c
           /\ (r * w + c) \div w = r
<1>1. r * w \in Int /\ w * h \in Int /\ r * w >= 0
  OBVIOUS
<1>2. r * w <= (h - 1) * w /\ (h - 1) * w = w * h - w
  OBVIOUS
<1>3. r * w + c \in 0..w * h - 1
  BY <1>1, <1>2
<1> DEFINE n == r * w + c
           d == n \div w
           m == n % w
<1>4. n \in Int /\ d \in Int /\ m \in 0..w - 1 /\ n = w * d + m
  BY <1>1
<1>5. n = r * w + c
  OBVIOUS
<1> HIDE DEF n, d, m
<1>6. (d - r) * w = c - m
  BY <1>4, <1>5
<1> DEFINE z == (d - r) * w
<1>7. z < w /\ z > -w /\ z \in Int
  BY <1>4, <1>6
<1>8. d - r < 1
  <2> SUFFICES ASSUME d - r >= 1 PROVE FALSE
    BY <1>4
  <2>1. z >= w
    BY <1>4
  <2> HIDE DEF z
  <2> QED BY <1>7, <2>1
<1>9. d - r > -1
  <2> SUFFICES ASSUME d - r <= -1 PROVE FALSE
    BY <1>4
  <2>1. z <= -w
    BY <1>4
  <2> HIDE DEF z
  <2> QED BY <1>7, <2>1
<1>10. d = r
  BY <1>4, <1>8, <1>9
<1>11. m = c
  BY <1>4, <1>5, <1>10
<1> QED BY <1>3, <1>10, <1>11 DEF n, d, m

\* A finite set of numbers without gaps is an interval.
LEMMA NoGaps ==
    ASSUME NEW T \in SUBSET Nat, IsFiniteSet(T), NEW a \in T, \A x \in T : a <= x,
           \A x, y \in T : \A z \in Nat : x <= z /\ z <= y => z \in T
    PROVE  T = a..a + Cardinality(T) - 1
<1> DEFINE n == Cardinality(T)
           Out == {z \in a..a + n : z \notin T}
<1>1. n \in Nat
  BY FS_CardinalityType
<1>2. a \in Nat
  OBVIOUS
<1>3. Out # {}
  <2> SUFFICES ASSUME a..a + n \subseteq T PROVE FALSE
    OBVIOUS
  <2>1. Cardinality(a..a + n) <= n
    BY FS_Subset
  <2>2. Cardinality(a..a + n) = n + 1
    <3> HIDE DEF n
    <3>1. a + n \in Int /\ ~(a > a + n) /\ (a + n) - a + 1 = n + 1
      BY <1>1, <1>2
    <3> QED BY <1>2, <3>1, FS_Interval
  <2> HIDE DEF n
  <2> QED BY <1>1, <2>1, <2>2
<1>4. Out \in SUBSET Nat
  BY <1>1, <1>2
<1>5. PICK b \in Out : \A z \in Out : b <= z
  BY <1>3, <1>4, Least
<1>6. b \in Nat /\ a < b /\ b \notin T /\ b <= a + n
  BY <1>1, <1>2, <1>5
<1>7. \A z \in T : z < b
  BY <1>2, <1>6
<1>8. \A z \in a..b - 1 : z \in T
  BY <1>1, <1>2, <1>5, <1>6
<1>9. T = a..b - 1
  <2>1. \A z \in T : z \in Nat /\ a <= z /\ z < b
    BY <1>7
  <2>2. \A z \in T : z \in a..b - 1
    BY ONLY <1>2, <1>6, <2>1
  <2> QED BY <1>8, <2>2
<1>10. n = b - a
  <2>1. b - 1 \in Int /\ ~(a > b - 1) /\ (b - 1) - a + 1 = b - a
    BY <1>2, <1>6
  <2> QED BY <1>2, <1>9, <2>1, FS_Interval
<1>11. a + n - 1 = b - 1
  BY <1>2, <1>6, <1>10
<1> HIDE DEF n
<1> QED BY <1>9, <1>11 DEF n
===============================================================================
