--------------------------- MODULE NetasciiProofs ---------------------------
(***************************************************************************)
(* Proofs about Netascii for every file, every size of a block and of a    *)
(* header.                                                                 *)
(***************************************************************************)
EXTENDS Netascii, ListProofs, WellFoundedInduction

-----------------------------------------------------------------------------
(* Induction: the provers cannot take a predicate as a parameter, a set of *)
(* numbers they can.                                                       *)

Below == {p \in Nat \X Nat : p[1] < p[2]}

\* A set of numbers that is not empty has a least element.
LEMMA Least ==
    ASSUME NEW T \in SUBSET Nat, T # {}
    PROVE  \E n \in T : \A m \in T : n <= m
<1>1. IsWellFoundedOn(Below, Nat)
  BY NatLessThanWellFounded DEF OpToRel, Below
<1>2. PICK n \in T : \A m \in T : ~ (<<m, n>> \in Below)
  BY <1>1, WFMin
<1>3. \A m \in T : m < n => <<m, n>> \in Below
  BY DEF Below
<1>4. \A m \in T : m \in Nat /\ n \in Nat /\ ~ (m < n)
  BY <1>2, <1>3
<1>5. QED
  BY <1>4

\* A set of numbers with 0, and with the successor of each of its elements, has all.
LEMMA Induction ==
    ASSUME NEW T \in SUBSET Nat, 0 \in T, \A n \in T : n + 1 \in T
    PROVE  T = Nat
<1> DEFINE U == Nat \ T
<1>1. SUFFICES ASSUME U # {} PROVE FALSE
  OBVIOUS
<1>2. U \in SUBSET Nat
  OBVIOUS
<1> HIDE DEF U
<1>3. PICK n \in U : \A m \in U : n <= m
  BY <1>1, <1>2, Least
<1>4. n \in Nat \ T /\ \A m \in Nat \ T : n <= m
  BY <1>3 DEF U
<1>5. n # 0 /\ n - 1 \in Nat
  BY <1>4
<1>6. n - 1 \in T
  BY <1>4, <1>5
<1>7. QED
  BY <1>4, <1>5, <1>6

-----------------------------------------------------------------------------
(* Flattening a sequence of sequences *)

\* The first n steps of FlattenSeq.
Flattens(f, s, n) ==
    f = [i \in 1..n |-> IF i = 1 THEN s[i] ELSE f[i - 1] \o s[i]]

\* They can be taken for every sequence.
LEMMA FlattenExists ==
    ASSUME NEW s, NEW n \in Nat
    PROVE  \E f : Flattens(f, s, n)
<1> DEFINE T == {k \in Nat : \E f : Flattens(f, s, k)}
<1>1. 0 \in T
  <2>1. Flattens([i \in 1..0 |-> s[i]], s, 0)
    BY DEF Flattens
  <2>2. QED
    BY <2>1
<1>2. ASSUME NEW k \in T PROVE k + 1 \in T
  <2>1. PICK f : Flattens(f, s, k)
    OBVIOUS
  <2> DEFINE g == [i \in 1..(k + 1) |->
                    IF i <= k THEN f[i] ELSE IF k = 0 THEN s[1] ELSE f[k] \o s[k + 1]]
  <2>2. k \in Nat
    OBVIOUS
  <2>3. ASSUME NEW i \in 1..(k + 1)
        PROVE  g[i] = IF i = 1 THEN s[i] ELSE g[i - 1] \o s[i]
    <3>1. CASE i <= k
      <4>1. i \in 1..k /\ g[i] = f[i] /\ (i # 1 => i - 1 \in 1..k /\ g[i - 1] = f[i - 1])
        BY <2>2, <3>1
      <4>2. f[i] = IF i = 1 THEN s[i] ELSE f[i - 1] \o s[i]
        BY <2>1, <4>1 DEF Flattens
      <4>3. QED
        BY <4>1, <4>2
    <3>2. CASE ~ (i <= k)
      <4>1. i = k + 1 /\ (k # 0 => i # 1 /\ i - 1 = k /\ k \in 1..(k + 1) /\ g[k] = f[k])
        BY <2>2, <3>2
      <4>2. g[i] = IF k = 0 THEN s[1] ELSE f[k] \o s[k + 1]
        BY <2>2, <3>2
      <4>3. QED
        BY <2>2, <4>1, <4>2
    <3>3. QED
      BY <3>1, <3>2
  <2>4. DOMAIN g = 1..(k + 1)
    OBVIOUS
  <2>5. g = [i \in 1..(k + 1) |-> IF i = 1 THEN s[i] ELSE g[i - 1] \o s[i]]
    BY <2>3
  <2> HIDE DEF g
  <2>6. Flattens(g, s, k + 1)
    BY <2>5 DEF Flattens
  <2>7. QED
    BY <2>2, <2>6
<1> HIDE DEF T
<1>3. T \in SUBSET Nat
  BY DEF T
<1>4. T = Nat
  BY <1>1, <1>2, <1>3, Induction
<1>5. QED
  BY <1>4 DEF T

Agree(f, g, n) == \A i \in 1..n : f[i] = g[i]

\* Two sequences that agree as far as the shorter one goes are flattened alike there.
LEMMA FlattensAgree ==
    ASSUME NEW s, NEW t, NEW n \in Nat, NEW m \in Nat, n <= m,
           Agree(s, t, n),
           NEW f, Flattens(f, s, n), NEW g, Flattens(g, t, m)
    PROVE  Agree(f, g, n)
<1> DEFINE T == {k \in Nat : k \in 1..n => f[k] = g[k]}
<1>1. 0 \in T
  OBVIOUS
<1>2. ASSUME NEW k \in T PROVE k + 1 \in T
  <2>1. SUFFICES ASSUME k + 1 \in 1..n PROVE f[k + 1] = g[k + 1]
    OBVIOUS
  <2>2. k \in Nat /\ k + 1 \in 1..m /\ (k + 1) - 1 = k
    BY <2>1
  <2>3. f[k + 1] = IF k + 1 = 1 THEN s[k + 1] ELSE f[k] \o s[k + 1]
    BY <2>1, <2>2 DEF Flattens
  <2>4. g[k + 1] = IF k + 1 = 1 THEN t[k + 1] ELSE g[k] \o t[k + 1]
    BY <2>1, <2>2 DEF Flattens
  <2>5. k + 1 # 1 => k \in 1..n
    BY <2>1, <2>2
  <2>6. k + 1 # 1 => f[k] = g[k]
    BY <2>5
  <2>7. s[k + 1] = t[k + 1]
    BY <2>1 DEF Agree
  <2>8. QED
    BY <2>3, <2>4, <2>6, <2>7
<1> HIDE DEF T
<1>3. T \in SUBSET Nat
  BY DEF T
<1>4. T = Nat
  BY <1>1, <1>2, <1>3, Induction
<1>5. QED
  BY <1>4 DEF T, Agree

\* FlattenSeq is the last step.
LEMMA FlattenLast ==
    ASSUME NEW s, Len(s) \in Nat, Len(s) # 0
    PROVE  \E f : Flattens(f, s, Len(s)) /\ FlattenSeq(s) = f[Len(s)]
<1> DEFINE Is(f) == f = [i \in 1..Len(s) |-> IF i = 1 THEN s[i] ELSE f[i - 1] \o s[i]]
<1>1. \E f : Is(f)
  BY FlattenExists DEF Flattens
<1>2. Is(CHOOSE f : Is(f))
  BY <1>1
<1>3. FlattenSeq(s) = (CHOOSE f : Is(f))[Len(s)]
  BY DEF FlattenSeq
<1> HIDE DEF Is
<1>4. Flattens(CHOOSE f : Is(f), s, Len(s))
  BY <1>2 DEF Is, Flattens
<1>5. QED
  BY <1>3, <1>4

\* One sequence more is one sequence behind the others.
LEMMA Flattening ==
    ASSUME NEW S
    PROVE  /\ FlattenSeq(<<>>) = <<>>
           /\ \A s \in Seq(Seq(S)), x \in Seq(S) :
                FlattenSeq(Append(s, x)) = FlattenSeq(s) \o x
           /\ \A s \in Seq(Seq(S)) : FlattenSeq(s) \in Seq(S)
<1>1. FlattenSeq(<<>>) = <<>>
  BY DEF FlattenSeq
<1>2. ASSUME NEW s \in Seq(Seq(S)), NEW x \in Seq(S)
      PROVE  FlattenSeq(Append(s, x)) = FlattenSeq(s) \o x
  <2> DEFINE t == Append(s, x)
             n == Len(s)
  <2>1. /\ n \in Nat /\ Len(t) = n + 1
        /\ \A i \in 1..n : t[i] = s[i]
        /\ t[n + 1] = x
    BY <1>2, Appending, Positions
  <2> HIDE DEF t, n
  <2>2. PICK g : Flattens(g, t, n + 1) /\ FlattenSeq(t) = g[n + 1]
    BY <2>1, FlattenLast
  <2>3. g[n + 1] = IF n + 1 = 1 THEN t[n + 1] ELSE g[n] \o t[n + 1]
    <3>1. n \in Nat
      BY <2>1
    <3>2. n + 1 \in 1..(n + 1) /\ (n + 1) - 1 = n
      BY <3>1
    <3>3. QED
      BY <2>2, <3>2 DEF Flattens
  <2>4. CASE n = 0
    <3>1. s = <<>>
      BY <2>4, Positions DEF n
    <3>2. FlattenSeq(s) \o x = x
      BY <3>1, <1>1, ConcatEmptySeq
    <3>3. QED
      BY <2>1, <2>2, <2>3, <2>4, <3>2 DEF t
  <2>5. CASE n # 0
    <3>1. PICK f : Flattens(f, s, n) /\ FlattenSeq(s) = f[n]
      BY <2>1, <2>5, FlattenLast DEF n
    <3>2. n \in 1..n /\ n <= n + 1 /\ n + 1 \in Nat
      BY <2>1, <2>5
    <3>3. Agree(f, g, n)
      <4>1. n \in Nat /\ Flattens(f, s, n) /\ Flattens(g, t, n + 1)
        BY <2>1, <2>2, <3>1
      <4>2. Agree(s, t, n)
        BY <2>1 DEF Agree
      <4>3. QED
        BY <4>1, <4>2, <3>2, FlattensAgree
    <3>4. f[n] = g[n] /\ n + 1 # 1
      BY <3>2, <3>3, <2>5, <2>1 DEF Agree
    <3>5. QED
      BY <3>1, <3>4, <2>1, <2>2, <2>3 DEF t
  <2>6. QED
    BY <2>4, <2>5
<1>3. ASSUME NEW s \in Seq(Seq(S)) PROVE FlattenSeq(s) \in Seq(S)
  <2> DEFINE n == Len(s)
  <2>1. n \in Nat /\ \A i \in 1..n : s[i] \in Seq(S)
    BY Positions
  <2> HIDE DEF n
  <2>2. CASE n = 0
    <3>1. s = <<>>
      BY <2>2, Positions DEF n
    <3>2. QED
      BY <3>1, <1>1, EmptySeq
  <2>3. CASE n # 0
    <3>1. PICK f : Flattens(f, s, n) /\ FlattenSeq(s) = f[n]
      BY <2>1, <2>3, FlattenLast DEF n
    <3> DEFINE T == {k \in Nat : k \in 1..n => f[k] \in Seq(S)}
    <3>2. 0 \in T
      OBVIOUS
    <3>3. ASSUME NEW k \in T PROVE k + 1 \in T
      <4>1. SUFFICES ASSUME k + 1 \in 1..n PROVE f[k + 1] \in Seq(S)
        OBVIOUS
      <4>2. f[k + 1] = IF k + 1 = 1 THEN s[k + 1] ELSE f[(k + 1) - 1] \o s[k + 1]
        BY <3>1, <4>1 DEF Flattens
      <4>3. k \in Nat /\ (k + 1) - 1 = k /\ (k + 1 # 1 => k \in 1..n)
        BY <4>1, <2>1
      <4>4. k + 1 # 1 => f[k] \in Seq(S)
        BY <4>3
      <4>5. s[k + 1] \in Seq(S)
        BY <4>1, <2>1
      <4>6. QED
        BY <4>2, <4>3, <4>4, <4>5, ConcatProperties
    <3> HIDE DEF T
    <3>4. T \in SUBSET Nat
      BY DEF T
    <3>5. T = Nat
      BY <3>2, <3>3, <3>4, Induction
    <3>6. n \in 1..n
      BY <2>1, <2>3
    <3>7. QED
      BY <3>1, <3>5, <3>6, <2>1 DEF T
  <2>4. QED
    BY <2>2, <2>3
<1>4. QED
  BY <1>1, <1>2, <1>3

\* The first i sequences, flattened.
Upto(s, i) == FlattenSeq([j \in 1..i |-> s[j]])

\* From one to the next.
LEMMA Steps ==
    ASSUME NEW S, NEW s \in Seq(Seq(S))
    PROVE  /\ Upto(s, 0) = <<>>
           /\ Upto(s, Len(s)) = FlattenSeq(s)
           /\ \A i \in 0..Len(s) : Upto(s, i) \in Seq(S) /\ Len(Upto(s, i)) \in Nat
           /\ \A i \in 1..Len(s) : Upto(s, i) = Upto(s, i - 1) \o s[i]
<1> DEFINE n == Len(s)
           First(i) == [j \in 1..i |-> s[j]]
<1>1. n \in Nat /\ DOMAIN s = 1..n /\ \A i \in 1..n : s[i] \in Seq(S)
  BY Positions
<1>2. s = [j \in 1..n |-> s[j]]
  BY <1>1
<1> HIDE DEF n
<1>3. \A i \in 0..n : First(i) \in Seq(Seq(S)) /\ Len(First(i)) = i
  <2> SUFFICES ASSUME NEW i \in 0..n
               PROVE First(i) \in Seq(Seq(S)) /\ Len(First(i)) = i
    OBVIOUS
  <2>1. i \in Nat /\ 1..i \subseteq 1..n
    BY <1>1
  <2>2. First(i) \in [1..i -> Seq(S)]
    BY <1>1, <2>1
  <2>3. QED
    BY <2>1, <2>2, IsASeq, LenProperties
<1>4. \A i \in 0..n : Upto(s, i) \in Seq(S)
  BY <1>3, Flattening DEF Upto
<1>5. Upto(s, 0) = <<>>
  <2>1. 0 \in 0..n
    BY <1>1
  <2>2. First(0) = <<>>
    BY <1>3, <2>1, EmptySeq
  <2>3. QED
    BY <2>2, Flattening DEF Upto
<1>6. ASSUME NEW i \in 1..n PROVE Upto(s, i) = Upto(s, i - 1) \o s[i]
  <2>1. i - 1 \in 0..n /\ i \in 0..n /\ (i - 1) + 1 = i /\ i \in Nat /\ i - 1 \in Nat
    BY <1>1
  <2>2. s[i] \in Seq(S)
    BY <1>1
  <2> DEFINE a == First(i - 1)
             b == First(i)
             c == Append(a, s[i])
  <2>3. a \in Seq(Seq(S)) /\ Len(a) = i - 1 /\ b \in Seq(Seq(S)) /\ Len(b) = i
    BY <2>1, <1>3
  <2>4. /\ \A j \in 1..(i - 1) : a[j] = s[j]
        /\ \A j \in 1..i : b[j] = s[j]
    OBVIOUS
  <2> HIDE DEF a, b
  <2>5. /\ c \in Seq(Seq(S)) /\ Len(c) = i
        /\ \A j \in 1..(i - 1) : c[j] = a[j]
        /\ c[i] = s[i]
    BY <2>1, <2>2, <2>3, Appending
  <2> HIDE DEF c
  <2>6. \A j \in 1..i : b[j] = c[j]
    <3>1. \A j \in 1..i : j \in 1..(i - 1) \/ j = i
      BY <2>1
    <3>2. QED
      BY <3>1, <2>4, <2>5
  <2>7. b = c
    BY <2>3, <2>5, <2>6, SeqEqual
  <2>8. FlattenSeq(Append(a, s[i])) = FlattenSeq(a) \o s[i]
    BY <2>2, <2>3, Flattening
  <2>9. QED
    BY <2>7, <2>8 DEF a, b, c, Upto
<1>7. Upto(s, n) = FlattenSeq(s)
  BY <1>2 DEF Upto
<1>8. \A i \in 0..n : Len(Upto(s, i)) \in Nat
  BY <1>4, Positions
<1>9. QED
  BY <1>4, <1>5, <1>6, <1>7, <1>8 DEF n

Begins(a, b) == Len(a) <= Len(b) /\ \A j \in 1..Len(a) : b[j] = a[j]

\* What more sequences add comes behind.
LEMMA Beginnings ==
    ASSUME NEW S, NEW s \in Seq(Seq(S)), NEW i \in 0..Len(s), NEW m \in i..Len(s)
    PROVE  Begins(Upto(s, i), Upto(s, m))
<1> DEFINE n == Len(s)
           T == {k \in Nat : i + k <= n => Begins(Upto(s, i), Upto(s, i + k))}
<1>1. n \in Nat /\ \A j \in 1..n : s[j] \in Seq(S)
  BY Positions
<1> HIDE DEF n
<1>2. i \in 0..n /\ m \in i..n
  BY DEF n
<1>3. \A j \in 0..n : Upto(s, j) \in Seq(S) /\ Len(Upto(s, j)) \in Nat
  BY Steps DEF n
<1>4. 0 \in T
  <2>1. i + 0 = i
    BY <1>1, <1>2
  <2>2. Begins(Upto(s, i), Upto(s, i))
    BY <1>2, <1>3 DEF Begins
  <2>3. QED
    BY <2>1, <2>2
<1>5. ASSUME NEW k \in T PROVE k + 1 \in T
  <2>1. SUFFICES ASSUME i + (k + 1) <= n PROVE Begins(Upto(s, i), Upto(s, i + (k + 1)))
    OBVIOUS
  <2>2. /\ k \in Nat /\ i + k \in 0..n /\ i + (k + 1) \in 1..n /\ i \in 0..n
        /\ (i + (k + 1)) - 1 = i + k
    BY <2>1, <1>1, <1>2
  <2>3. Begins(Upto(s, i), Upto(s, i + k))
    BY <2>2
  <2>4. Upto(s, i + (k + 1)) = Upto(s, i + k) \o s[i + (k + 1)]
    BY <2>2, Steps DEF n
  <2> DEFINE a == Upto(s, i)
             b == Upto(s, i + k)
             x == s[i + (k + 1)]
  <2>5. /\ a \in Seq(S) /\ b \in Seq(S) /\ x \in Seq(S)
        /\ Len(a) \in Nat /\ Len(b) \in Nat /\ Len(x) \in Nat
    BY <2>2, <1>1, <1>3, Positions
  <2>6. Len(a) <= Len(b) /\ \A j \in 1..Len(a) : b[j] = a[j]
    BY <2>3 DEF Begins
  <2> HIDE DEF a, b, x
  <2>7. /\ Len(b \o x) = Len(b) + Len(x)
        /\ \A j \in 1..(Len(b) + Len(x)) : j <= Len(b) => (b \o x)[j] = b[j]
    BY <2>5, ConcatProperties
  <2>8. \A j \in 1..Len(a) : j \in 1..(Len(b) + Len(x)) /\ j <= Len(b)
    BY <2>5, <2>6
  <2>9. Len(a) <= Len(b \o x) /\ \A j \in 1..Len(a) : (b \o x)[j] = a[j]
    BY <2>5, <2>6, <2>7, <2>8
  <2>10. QED
    BY <2>4, <2>9 DEF Begins, a, b, x
<1> HIDE DEF T
<1>6. T \in SUBSET Nat
  BY DEF T
<1>7. T = Nat
  BY <1>4, <1>5, <1>6, Induction
<1>8. PICK k \in Nat : i + k = m
  <2>1. m - i \in Nat /\ i + (m - i) = m
    BY <1>1, <1>2
  <2>2. QED
    BY <2>1
<1>9. i + k <= n
  BY <1>1, <1>2, <1>8
<1>10. Begins(Upto(s, i), Upto(s, i + k))
  BY <1>7, <1>9 DEF T
<1>11. QED
  BY <1>8, <1>10

\* Where the elements of each sequence are in the whole.
LEMMA Pieces ==
    ASSUME NEW S, NEW s \in Seq(Seq(S)), NEW i \in 1..Len(s)
    PROVE  /\ Len(Upto(s, i)) = Len(Upto(s, i - 1)) + Len(s[i])
           /\ Len(Upto(s, i)) <= Len(FlattenSeq(s))
           /\ \A j \in 1..Len(s[i]) : FlattenSeq(s)[Len(Upto(s, i - 1)) + j] = s[i][j]
<1> DEFINE n == Len(s)
           a == Upto(s, i - 1)
           b == Upto(s, i)
           x == s[i]
           f == FlattenSeq(s)
<1>1. n \in Nat /\ i - 1 \in 0..n /\ i \in 0..n /\ n \in i..n /\ x \in Seq(S)
  BY Positions
<1>2. /\ a \in Seq(S) /\ b \in Seq(S) /\ Len(a) \in Nat /\ Len(x) \in Nat
      /\ b = a \o x
  <2>1. Upto(s, i - 1) \in Seq(S) /\ Upto(s, i) \in Seq(S)
    BY <1>1, Steps
  <2>2. Upto(s, i) = Upto(s, i - 1) \o s[i]
    BY Steps
  <2>3. Len(Upto(s, i - 1)) \in Nat /\ Len(s[i]) \in Nat
    BY <2>1, <1>1, Positions
  <2>4. QED
    BY <2>1, <2>2, <2>3
<1>3. Begins(b, f)
  <2>1. Begins(Upto(s, i), Upto(s, Len(s)))
    <3>1. i \in 0..Len(s) /\ Len(s) \in i..Len(s)
      BY <1>1
    <3>2. QED
      BY <3>1, Beginnings
  <2>2. Upto(s, Len(s)) = FlattenSeq(s)
    BY Steps
  <2>3. QED
    BY <2>1, <2>2
<1> HIDE DEF a, b, x, f, n
<1>4. /\ Len(b) = Len(a) + Len(x)
      /\ \A j \in 1..(Len(a) + Len(x)) : b[j] = IF j <= Len(a) THEN a[j] ELSE x[j - Len(a)]
  BY <1>1, <1>2, ConcatProperties
<1>5. ASSUME NEW j \in 1..Len(x) PROVE f[Len(a) + j] = x[j]
  <2>1. /\ Len(a) + j \in 1..(Len(a) + Len(x)) /\ ~ (Len(a) + j <= Len(a))
        /\ (Len(a) + j) - Len(a) = j
    BY <1>2
  <2>2. b[Len(a) + j] = x[j]
    BY <2>1, <1>4
  <2>3. QED
    BY <2>1, <2>2, <1>3, <1>4 DEF Begins
<1>6. QED
  BY <1>3, <1>4, <1>5 DEF Begins, a, b, x, f

\* Every place of the whole is in one of them.
LEMMA Covering ==
    ASSUME NEW S, NEW s \in Seq(Seq(S)), NEW at \in Nat, at < Len(FlattenSeq(s))
    PROVE  \E i \in 1..Len(s) : Len(Upto(s, i - 1)) <= at /\ at < Len(Upto(s, i))
<1> DEFINE n == Len(s)
           T == {k \in 0..n : at < Len(Upto(s, k))}
<1>1. n \in Nat
  BY Positions
<1>2. n \in T
  <2>1. Upto(s, Len(s)) = FlattenSeq(s)
    BY Steps
  <2>2. QED
    BY <1>1, <2>1
<1>3. 0 \notin T
  <2>1. Upto(s, 0) = <<>>
    BY Steps
  <2>2. Len(Upto(s, 0)) = 0
    BY <2>1
  <2>3. QED
    BY <2>2
<1>4. \A k \in T : k \in Nat
  OBVIOUS
<1> HIDE DEF T
<1>5. PICK k \in T : \A m \in T : k <= m
  BY <1>2, <1>4, Least
<1>6. k \in 0..n /\ at < Len(Upto(s, k))
  BY DEF T
<1>7. k # 0
  BY <1>3
<1>8. k \in 1..n /\ k - 1 \in 0..n /\ ~ (k <= k - 1)
  BY <1>1, <1>6, <1>7
<1>9. k - 1 \notin T
  BY <1>5, <1>8
<1>10. Len(Upto(s, k - 1)) \in Nat
  BY <1>8, Steps
<1>11. Len(Upto(s, k - 1)) <= at
  BY <1>8, <1>9, <1>10 DEF T
<1>12. QED
  BY <1>6, <1>8, <1>11

-----------------------------------------------------------------------------
(* Decoding *)

\* The first n steps of Decoded.
Decodes(f, s, n) ==
    f = [i \in 0..n |-> IF i = 0 THEN <<>> ELSE Decode(f[i - 1], s[i])]

\* They can be taken for every sequence.
LEMMA DecodesExists ==
    ASSUME NEW s, NEW n \in Nat
    PROVE  \E f : Decodes(f, s, n)
<1> DEFINE T == {k \in Nat : \E f : Decodes(f, s, k)}
<1>1. 0 \in T
  <2>1. Decodes([i \in 0..0 |-> <<>>], s, 0)
    BY DEF Decodes
  <2>2. QED
    BY <2>1
<1>2. ASSUME NEW k \in T PROVE k + 1 \in T
  <2>1. PICK f : Decodes(f, s, k)
    OBVIOUS
  <2> DEFINE g == [i \in 0..(k + 1) |-> IF i <= k THEN f[i] ELSE Decode(f[k], s[k + 1])]
  <2>2. k \in Nat
    OBVIOUS
  <2>3. ASSUME NEW i \in 0..(k + 1)
        PROVE  g[i] = IF i = 0 THEN <<>> ELSE Decode(g[i - 1], s[i])
    <3>1. CASE i <= k
      <4>1. i \in 0..k /\ g[i] = f[i] /\ (i # 0 => i - 1 \in 0..k /\ g[i - 1] = f[i - 1])
        BY <2>2, <3>1
      <4>2. f[i] = IF i = 0 THEN <<>> ELSE Decode(f[i - 1], s[i])
        BY <2>1, <4>1 DEF Decodes
      <4>3. QED
        BY <4>1, <4>2
    <3>2. CASE ~ (i <= k)
      <4>1. i = k + 1 /\ i # 0 /\ i - 1 = k /\ k \in 0..(k + 1) /\ g[k] = f[k]
        BY <2>2, <3>2
      <4>2. g[i] = Decode(f[k], s[k + 1])
        BY <2>2, <3>2
      <4>3. QED
        BY <2>2, <4>1, <4>2
    <3>3. QED
      BY <3>1, <3>2
  <2>4. g = [i \in 0..(k + 1) |-> IF i = 0 THEN <<>> ELSE Decode(g[i - 1], s[i])]
    BY <2>3
  <2> HIDE DEF g
  <2>5. Decodes(g, s, k + 1)
    BY <2>4 DEF Decodes
  <2>6. QED
    BY <2>2, <2>5
<1> HIDE DEF T
<1>3. T \in SUBSET Nat
  BY DEF T
<1>4. T = Nat
  BY <1>1, <1>2, <1>3, Induction
<1>5. QED
  BY <1>4 DEF T

\* Two sequences that agree as far as the shorter one goes are decoded alike there.
LEMMA DecodesAgree ==
    ASSUME NEW s, NEW t, NEW n \in Nat, NEW m \in Nat, n <= m,
           Agree(s, t, n),
           NEW f, Decodes(f, s, n), NEW g, Decodes(g, t, m)
    PROVE  f[n] = g[n]
<1> DEFINE T == {k \in Nat : k <= n => f[k] = g[k]}
<1>1. 0 \in T
  <2>1. 0 \in 0..n /\ 0 \in 0..m
    OBVIOUS
  <2>2. QED
    BY <2>1 DEF Decodes
<1>2. ASSUME NEW k \in T PROVE k + 1 \in T
  <2>1. SUFFICES ASSUME k + 1 <= n PROVE f[k + 1] = g[k + 1]
    OBVIOUS
  <2>2. /\ k \in Nat /\ k + 1 \in 0..n /\ k + 1 \in 0..m /\ k + 1 \in 1..n
        /\ k + 1 # 0 /\ (k + 1) - 1 = k /\ k <= n
    BY <2>1
  <2>3. f[k + 1] = Decode(f[k], s[k + 1])
    BY <2>2 DEF Decodes
  <2>4. g[k + 1] = Decode(g[k], t[k + 1])
    BY <2>2 DEF Decodes
  <2>5. f[k] = g[k] /\ s[k + 1] = t[k + 1]
    BY <2>2 DEF Agree
  <2>6. QED
    BY <2>3, <2>4, <2>5
<1> HIDE DEF T
<1>3. T \in SUBSET Nat
  BY DEF T
<1>4. T = Nat
  BY <1>1, <1>2, <1>3, Induction
<1>5. QED
  BY <1>4 DEF T

\* Decoded is the last step.
LEMMA DecodedLast ==
    ASSUME NEW s, Len(s) \in Nat
    PROVE  \E f : Decodes(f, s, Len(s)) /\ Decoded(s) = f[Len(s)]
<1> DEFINE Is(f) == f = [i \in 0..Len(s) |-> IF i = 0 THEN <<>> ELSE Decode(f[i - 1], s[i])]
<1>1. \E f : Is(f)
  BY DecodesExists DEF Decodes
<1>2. Is(CHOOSE f : Is(f))
  BY <1>1
<1>3. Decoded(s) = (CHOOSE f : Is(f))[Len(s)]
  BY DEF Decoded
<1> HIDE DEF Is
<1>4. Decodes(CHOOSE f : Is(f), s, Len(s))
  BY <1>2 DEF Is, Decodes
<1>5. QED
  BY <1>3, <1>4

\* One byte more is decoded behind the others.
LEMMA Decoding ==
    /\ Decoded(<<>>) = <<>>
    /\ \A S : \A s \in Seq(S), x \in S : Decoded(Append(s, x)) = Decode(Decoded(s), x)
<1>1. Decoded(<<>>) = <<>>
  <2>1. Len(<<>>) = 0
    OBVIOUS
  <2>2. PICK f : Decodes(f, <<>>, 0) /\ Decoded(<<>>) = f[0]
    BY <2>1, DecodedLast
  <2>3. QED
    BY <2>2 DEF Decodes
<1>2. ASSUME NEW S, NEW s \in Seq(S), NEW x \in S
      PROVE  Decoded(Append(s, x)) = Decode(Decoded(s), x)
  <2> DEFINE t == Append(s, x)
             n == Len(s)
  <2>1. /\ n \in Nat /\ Len(t) = n + 1
        /\ \A i \in 1..n : t[i] = s[i]
        /\ t[n + 1] = x
    BY Appending, Positions
  <2> HIDE DEF t, n
  <2>2. PICK f : Decodes(f, s, n) /\ Decoded(s) = f[n]
    BY <2>1, DecodedLast DEF n
  <2>3. PICK g : Decodes(g, t, n + 1) /\ Decoded(t) = g[n + 1]
    BY <2>1, DecodedLast
  <2>4. Agree(s, t, n)
    BY <2>1 DEF Agree
  <2>5. n \in Nat /\ n + 1 \in Nat /\ n <= n + 1
    BY <2>1
  <2>6. f[n] = g[n]
    BY <2>2, <2>3, <2>4, <2>5, DecodesAgree
  <2>7. n + 1 \in 0..(n + 1) /\ n + 1 # 0 /\ (n + 1) - 1 = n
    BY <2>5
  <2>8. g[n + 1] = Decode(g[n], t[n + 1])
    BY <2>3, <2>7 DEF Decodes
  <2>9. QED
    BY <2>1, <2>2, <2>3, <2>6, <2>8 DEF t
<1>3. QED
  BY <1>1, <1>2

-----------------------------------------------------------------------------
(* Bytes, their places on the way, and what becomes of them *)

Octets == {"a", "CR", "LF", "NUL", "FF"}

\* What the bytes of the file become on the way, and in the server's file.
Codes(f) == [i \in DOMAIN f |-> Netascii(f[i])]
Parts(f) == [i \in DOMAIN f |-> Kept(f, i)]

\* How many bytes the first i become on the way.
Off(f, i) == Len(Upto(Codes(f), i))

LEMMA NetasciiTypes ==
    ASSUME NEW b \in Octets
    PROVE  /\ Netascii(b) \in Seq(Octets)
           /\ b \in {"CR", "LF"} =>
                /\ Len(Netascii(b)) = 2 /\ Netascii(b)[1] = "CR"
                /\ Netascii(b)[2] = IF b = "LF" THEN "LF" ELSE "NUL"
           /\ b \notin {"CR", "LF"} => Len(Netascii(b)) = 1 /\ Netascii(b)[1] = b
<1>1. CASE b = "LF"
  BY <1>1 DEF Netascii, Octets
<1>2. CASE b = "CR"
  BY <1>2 DEF Netascii, Octets
<1>3. CASE b \notin {"CR", "LF"}
  BY <1>3 DEF Netascii, Octets
<1>4. QED
  BY <1>1, <1>2, <1>3

\* The form of a file on the way, and of its first bytes.
LEMMA Coding ==
    ASSUME NEW f \in Seq(Octets)
    PROVE  /\ Codes(f) \in Seq(Seq(Octets)) /\ Len(Codes(f)) = Len(f)
           /\ \A i \in 1..Len(f) : Codes(f)[i] = Netascii(f[i])
           /\ Encoded(f) = FlattenSeq(Codes(f)) /\ Encoded(f) \in Seq(Octets)
           /\ \A i \in 0..Len(f) : Encoded(SubSeq(f, 1, i)) = Upto(Codes(f), i)
<1> DEFINE n == Len(f)
<1>1. DOMAIN f = 1..n /\ n \in Nat /\ \A i \in 1..n : f[i] \in Octets
  BY Positions
<1> HIDE DEF n
<1>2. /\ Codes(f) = [i \in 1..n |-> Netascii(f[i])]
      /\ \A i \in 1..n : Netascii(f[i]) \in Seq(Octets)
  BY <1>1, NetasciiTypes DEF Codes
<1>3. Codes(f) \in [1..n -> Seq(Octets)]
  BY <1>2
<1>4. Codes(f) \in Seq(Seq(Octets)) /\ Len(Codes(f)) = n
  BY <1>1, <1>3, IsASeq, LenProperties
<1>5. Encoded(f) = FlattenSeq(Codes(f))
  BY DEF Encoded, Codes
<1>6. Encoded(f) \in Seq(Octets)
  BY <1>4, <1>5, Flattening
<1>7. ASSUME NEW i \in 0..n PROVE Encoded(SubSeq(f, 1, i)) = Upto(Codes(f), i)
  <2> DEFINE g == SubSeq(f, 1, i)
  <2>1. i \in Nat /\ 1..i \subseteq 1..n
    BY <1>1
  <2>2. DOMAIN g = 1..i /\ \A j \in 1..i : g[j] = f[j]
    <3>1. \A j \in 1..i : f[j] \in Octets
      BY <1>1, <2>1
    <3>2. g \in Seq(Octets) /\ Len(g) = i /\ \A j \in 1..i : g[j] = f[j]
      BY <3>1, <2>1, SubSeqProperties
    <3>3. QED
      BY <3>2, Positions
  <2> HIDE DEF g
  <2>3. Codes(g) = [j \in 1..i |-> Codes(f)[j]]
    BY <2>1, <2>2, <1>2 DEF Codes
  <2>4. QED
    BY <2>3 DEF Encoded, Codes, Upto, g
<1>8. QED
  BY <1>2, <1>4, <1>5, <1>6, <1>7 DEF n

\* Where the bytes of the file are on the way.
LEMMA Places ==
    ASSUME NEW f \in Seq(Octets), NEW i \in 1..Len(f)
    PROVE  /\ Off(f, i - 1) \in Nat /\ Off(f, i) \in Nat
           /\ Place(f, i) = Off(f, i - 1) + 1
           /\ Off(f, i) <= Len(Encoded(f))
           /\ f[i] \in {"CR", "LF"} =>
                /\ Off(f, i) = Off(f, i - 1) + 2
                /\ Encoded(f)[Off(f, i - 1) + 1] = "CR"
                /\ Encoded(f)[Off(f, i - 1) + 2] = IF f[i] = "LF" THEN "LF" ELSE "NUL"
           /\ f[i] \notin {"CR", "LF"} =>
                /\ Off(f, i) = Off(f, i - 1) + 1
                /\ Encoded(f)[Off(f, i - 1) + 1] = f[i]
<1> DEFINE s == Codes(f)
           x == Netascii(f[i])
<1>1. /\ i \in 1..Len(f) /\ i - 1 \in 0..Len(f) /\ i \in 0..Len(f)
      /\ f[i] \in Octets
  BY Positions
<1>2. /\ s \in Seq(Seq(Octets)) /\ Len(s) = Len(f) /\ s[i] = x
      /\ Encoded(f) = FlattenSeq(s)
      /\ Encoded(SubSeq(f, 1, i - 1)) = Upto(s, i - 1)
  BY <1>1, Coding
<1>3. /\ x \in Seq(Octets)
      /\ f[i] \in {"CR", "LF"} =>
            Len(x) = 2 /\ x[1] = "CR" /\ x[2] = IF f[i] = "LF" THEN "LF" ELSE "NUL"
      /\ f[i] \notin {"CR", "LF"} => Len(x) = 1 /\ x[1] = f[i]
  BY <1>1, NetasciiTypes
<1> HIDE DEF s, x
<1>4. Len(Upto(s, i - 1)) \in Nat /\ Len(Upto(s, i)) \in Nat
  BY <1>1, <1>2, Steps
<1>5. /\ Len(Upto(s, i)) = Len(Upto(s, i - 1)) + Len(x)
      /\ Len(Upto(s, i)) <= Len(FlattenSeq(s))
      /\ \A j \in 1..Len(x) : FlattenSeq(s)[Len(Upto(s, i - 1)) + j] = x[j]
  <2>1. i \in 1..Len(s) /\ s[i] = x
    BY <1>1, <1>2
  <2>2. /\ Len(Upto(s, i)) = Len(Upto(s, i - 1)) + Len(s[i])
        /\ Len(Upto(s, i)) <= Len(FlattenSeq(s))
        /\ \A j \in 1..Len(s[i]) : FlattenSeq(s)[Len(Upto(s, i - 1)) + j] = s[i][j]
    BY <2>1, <1>2, Pieces
  <2>3. QED
    BY <2>1, <2>2
<1>6. Off(f, i) = Len(Upto(s, i)) /\ Off(f, i - 1) = Len(Upto(s, i - 1))
  BY DEF Off, s
<1>7. Place(f, i) = Off(f, i - 1) + 1
  BY <1>2, <1>6 DEF Place
<1>8. CASE f[i] \in {"CR", "LF"}
  <2>1. 1 \in 1..Len(x) /\ 2 \in 1..Len(x)
    BY <1>3, <1>8
  <2>2. QED
    BY <2>1, <1>2, <1>3, <1>4, <1>5, <1>6, <1>7, <1>8
<1>9. CASE f[i] \notin {"CR", "LF"}
  <2>1. 1 \in 1..Len(x)
    BY <1>3, <1>9
  <2>2. QED
    BY <2>1, <1>2, <1>3, <1>4, <1>5, <1>6, <1>7, <1>9
<1>10. QED
  BY <1>8, <1>9

\* What a byte of the file becomes in the server's file.
LEMMA Keeping ==
    ASSUME NEW f \in Seq(Octets)
    PROVE  /\ \A i \in 1..Len(f) : Kept(f, i) \in Seq(Octets)
           /\ Parts(f) \in Seq(Seq(Octets)) /\ Len(Parts(f)) = Len(f)
           /\ \A i \in 1..Len(f) : Parts(f)[i] = Kept(f, i)
           /\ FlattenSeq(Parts(f)) = FlattenSeq([i \in DOMAIN f |-> Kept(f, i)])
           /\ \A p : CutEnd(f, p) \in {<<>>, <<"LF">>, <<"CR">>}
<1>1. DOMAIN f = 1..Len(f) /\ Len(f) \in Nat /\ \A i \in 1..Len(f) : f[i] \in Octets
  BY Positions
<1>2. \A p : CutEnd(f, p) \in {<<>>, <<"LF">>, <<"CR">>}
  BY DEF CutEnd
<1>3. ASSUME NEW i \in 1..Len(f) PROVE Kept(f, i) \in Seq(Octets)
  <2>1. /\ <<"LF">> \in Seq(Octets) /\ <<"CR">> \in Seq(Octets) /\ <<"NUL">> \in Seq(Octets)
        /\ <<>> \in Seq(Octets) /\ <<f[i]>> \in Seq(Octets)
    BY <1>1 DEF Octets
  <2> DEFINE a == CutEnd(f, Place(f, i))
             b == <<IF f[i] = "LF" THEN "LF" ELSE "NUL">>
  <2>2. a \in Seq(Octets) /\ b \in Seq(Octets)
    BY <1>2, <2>1
  <2>3. a \o b \in Seq(Octets)
    BY <2>2, ConcatProperties
  <2>4. Kept(f, i) \in {a \o b, <<>>, <<f[i]>>}
    BY DEF Kept
  <2>5. QED
    BY <2>1, <2>3, <2>4
<1>4. Parts(f) = [i \in 1..Len(f) |-> Kept(f, i)]
  BY <1>1 DEF Parts
<1>5. Parts(f) \in [1..Len(f) -> Seq(Octets)]
  BY <1>3, <1>4
<1>6. Parts(f) \in Seq(Seq(Octets)) /\ Len(Parts(f)) = Len(f)
  BY <1>1, <1>5, IsASeq, LenProperties
<1>7. QED
  BY <1>2, <1>3, <1>4, <1>6 DEF Parts

\* The places of a block.
LEMMA InBlock ==
    ASSUME NEW b \in Nat, NEW from \in Nat, from = MAXBUFLEN * b, NEW p \in Nat \ {0}
    PROVE  /\ MAXBUFLEN \in Nat \ {0}
           /\ (p - 1) \div MAXBUFLEN = b <=> p \in (from + 1)..(from + MAXBUFLEN)
           /\ p \in (from + 1)..(from + MAXBUFLEN) =>
                    (p % MAXBUFLEN = 0 <=> p = from + MAXBUFLEN)
<1> DEFINE m == MAXBUFLEN
           q == (p - 1) \div m
           r == (p - 1) % m
<1>1. m \in Nat \ {0}
  BY NetasciiAssumption
<1>2. /\ q \in Nat /\ r \in 0..(m - 1) /\ p - 1 = m * q + r
      /\ \A c \in Nat, d \in 0..(m - 1) : p - 1 = m * c + d => q = c
  <2>1. p - 1 \in Nat
    OBVIOUS
  <2>2. QED
    BY <2>1, <1>1, Dividing
<1>3. \A c \in Nat, d \in 0..(m - 1) : p = m * c + d => p % m = d
  BY <1>1, Dividing
<1> HIDE DEF m, q, r
<1>4. q = b => p \in (from + 1)..(from + m)
  BY <1>1, <1>2 DEF m
<1>5. ASSUME p \in (from + 1)..(from + m) PROVE q = b
  <2>1. p - 1 - from \in 0..(m - 1) /\ p - 1 = from + (p - 1 - from)
    BY <1>1, <1>5
  <2>2. from = m * b
    BY DEF m
  <2>3. QED
    BY <1>2, <2>1, <2>2
<1>6. ASSUME p \in (from + 1)..(from + m) PROVE p % m = 0 <=> p = from + m
  <2>1. CASE p = from + m
    <3>1. p = m * (b + 1) + 0 /\ b + 1 \in Nat
      BY <1>1, <2>1 DEF m
    <3>2. QED
      BY <3>1, <1>1, <1>3, <2>1
  <2>2. CASE p # from + m
    <3>1. p - from \in 1..(m - 1) /\ p = from + (p - from)
      BY <1>1, <1>6, <2>2
    <3>2. from = m * b /\ p - from \in 0..(m - 1)
      BY <3>1 DEF m
    <3>3. p % m = p - from
      BY <3>1, <3>2, <1>3
    <3>4. QED
      BY <3>1, <3>3, <2>2
  <2>3. QED
    BY <2>1, <2>2
<1>7. QED
  BY <1>1, <1>4, <1>5, <1>6 DEF m, q

\* Where a block may start.
Boundary(from) == \E b \in Nat : from = MAXBUFLEN * b

LEMMA SameBlock ==
    ASSUME NEW from \in Nat, Boundary(from)
    PROVE  /\ MAXBUFLEN \in Nat \ {0}
           /\ \A p \in (from + 1)..(from + MAXBUFLEN) :
                /\ p % MAXBUFLEN = 0 <=> p = from + MAXBUFLEN
                /\ \A q \in Nat \ {0} :
                    (q - 1) \div MAXBUFLEN = (p - 1) \div MAXBUFLEN
                        <=> q \in (from + 1)..(from + MAXBUFLEN)
<1>1. PICK b \in Nat : from = MAXBUFLEN * b
  BY DEF Boundary
<1>2. \A p \in Nat \ {0} :
        /\ MAXBUFLEN \in Nat \ {0}
        /\ (p - 1) \div MAXBUFLEN = b <=> p \in (from + 1)..(from + MAXBUFLEN)
        /\ p \in (from + 1)..(from + MAXBUFLEN) =>
                (p % MAXBUFLEN = 0 <=> p = from + MAXBUFLEN)
  BY <1>1, InBlock
<1>3. MAXBUFLEN \in Nat \ {0}
  BY NetasciiAssumption
<1>4. \A p \in (from + 1)..(from + MAXBUFLEN) : p \in Nat \ {0}
  BY <1>3
<1>5. QED
  BY <1>2, <1>3, <1>4

-----------------------------------------------------------------------------
(* How far writing has come *)

\* Once it is done with the first n bytes, it has stored what becomes of the first bytes
\* of the file, and perhaps the first half of a line end that the end of a block cuts.
Halfway(f, i, n, s) ==
    /\ n = Off(f, i) + 1 /\ Cut(f, i + 1)
    /\ s = Upto(Parts(f), i) \o CutEnd(f, Place(f, i + 1))
Progress(f, n, s) ==
    \/ \E i \in 0..Len(f) : n = Off(f, i) /\ s = Upto(Parts(f), i)
    \/ \E i \in 0..(Len(f) - 1) : Halfway(f, i, n, s)

\* One sequence of bytes behind the other.
LEMMA Joining ==
    ASSUME NEW a \in Seq(Octets), NEW b \in Seq(Octets)
    PROVE  /\ a \o b \in Seq(Octets) /\ Len(a \o b) = Len(a) + Len(b)
           /\ \A j \in 1..(Len(a) + Len(b)) :
                (a \o b)[j] = IF j <= Len(a) THEN a[j] ELSE b[j - Len(a)]
  BY ConcatProperties

\* Joining under a name, which the provers leave unexpanded when they match.
Joined(a, b) == a \o b

LEMMA Regrouping ==
    ASSUME NEW a \in Seq(Octets), NEW b \in Seq(Octets), NEW c \in Seq(Octets)
    PROVE  Joined(Joined(a, b), c) = Joined(a, Joined(b, c))
  BY ConcatAssociative DEF Joined

\* From one byte of the file to the next.
LEMMA NextPart ==
    ASSUME NEW f \in Seq(Octets), NEW i \in 1..Len(f)
    PROVE  LET p == Place(f, i)
               u == Upto(Parts(f), i - 1)
               v == Upto(Parts(f), i)
               c == IF f[i] = "LF" THEN "LF" ELSE "NUL" IN
           /\ u \in Seq(Octets) /\ v \in Seq(Octets) /\ f[i] \in Octets
           /\ ~ Cut(f, i) /\ ~ Lost(f, p) => v = Append(u, f[i])
           /\ ~ Cut(f, i) /\ Lost(f, p) => v = u
           /\ Cut(f, i) => v = Append(u \o CutEnd(f, p), c) /\ u \o CutEnd(f, p) \in Seq(Octets)
<1> DEFINE p == Place(f, i)
           s == Parts(f)
           u == Upto(s, i - 1)
           v == Upto(s, i)
           c == IF f[i] = "LF" THEN "LF" ELSE "NUL"
           e == CutEnd(f, p)
<1>1. /\ s \in Seq(Seq(Octets)) /\ i \in 1..Len(s) /\ s[i] = Kept(f, i)
      /\ i - 1 \in 0..Len(s) /\ i \in 0..Len(s) /\ f[i] \in Octets
  <2>1. Parts(f) \in Seq(Seq(Octets)) /\ Len(Parts(f)) = Len(f) /\ Parts(f)[i] = Kept(f, i)
    BY Keeping
  <2>2. i \in 1..Len(f) /\ i - 1 \in 0..Len(f) /\ i \in 0..Len(f) /\ f[i] \in Octets
    BY Positions
  <2>3. QED
    BY <2>1, <2>2
<1> HIDE DEF s
<1>2. u \in Seq(Octets) /\ v \in Seq(Octets) /\ v = u \o Kept(f, i)
  BY <1>1, Steps
<1>3. c \in Octets
  BY DEF Octets
<1>4. e \in Seq(Octets)
  <2>1. <<>> \in Seq(Octets) /\ <<"LF">> \in Seq(Octets) /\ <<"CR">> \in Seq(Octets)
    BY DEF Octets
  <2>2. QED
    BY <2>1, Keeping
<1> HIDE DEF p, u, v, c, e
<1>5. ASSUME ~ Cut(f, i), ~ Lost(f, p) PROVE v = Append(u, f[i])
  <2>1. Kept(f, i) = <<f[i]>>
    BY <1>5 DEF Kept, p
  <2>2. QED
    BY <2>1, <1>1, <1>2, AppendIsConcat
<1>6. ASSUME ~ Cut(f, i), Lost(f, p) PROVE v = u
  <2>1. Kept(f, i) = <<>>
    BY <1>6 DEF Kept, p
  <2>2. QED
    BY <2>1, <1>2, ConcatEmptySeq
<1>7. ASSUME Cut(f, i) PROVE v = Append(u \o e, c) /\ u \o e \in Seq(Octets)
  <2>1. Kept(f, i) = e \o <<c>>
    BY <1>7 DEF Kept, p, e, c
  <2>2. u \o e \in Seq(Octets) /\ <<c>> \in Seq(Octets)
    BY <1>2, <1>3, <1>4, ConcatProperties
  <2>3. v = (u \o e) \o <<c>>
    <3> DEFINE d == <<c>>
    <3>1. u \in Seq(Octets) /\ e \in Seq(Octets) /\ d \in Seq(Octets)
      BY <2>2, <1>2, <1>4
    <3> HIDE DEF d
    <3>2. (u \o e) \o d = u \o (e \o d)
      <4>1. Joined(Joined(u, e), d) = Joined(u, Joined(e, d))
        BY <3>1, Regrouping
      <4>2. QED
        BY <4>1 DEF Joined
    <3>3. QED
      BY <3>2, <2>1, <1>2 DEF d
  <2>4. QED
    BY <2>2, <2>3, <1>3, AppendIsConcat
<1>8. QED
  BY <1>1, <1>2, <1>5, <1>6, <1>7 DEF p, s, u, v, c, e

\* Before the end there is a next byte.
LEMMA Ends ==
    ASSUME NEW f \in Seq(Octets)
    PROVE  /\ Len(f) \in Nat /\ Len(Encoded(f)) \in Nat
           /\ Off(f, 0) = 0 /\ Upto(Parts(f), 0) = <<>>
           /\ Off(f, Len(f)) = Len(Encoded(f))
           /\ Upto(Parts(f), Len(f)) = FlattenSeq([i \in DOMAIN f |-> Kept(f, i)])
           /\ \A i \in 0..Len(f) : Off(f, i) \in 0..Len(Encoded(f))
           /\ \A i \in 0..Len(f) : Off(f, i) < Len(Encoded(f)) => i + 1 \in 1..Len(f)
<1>1. /\ Len(f) \in Nat /\ Len(Encoded(f)) \in Nat
      /\ Codes(f) \in Seq(Seq(Octets)) /\ Len(Codes(f)) = Len(f)
      /\ Encoded(f) = FlattenSeq(Codes(f))
      /\ Parts(f) \in Seq(Seq(Octets)) /\ Len(Parts(f)) = Len(f)
  BY Coding, Keeping, Positions
<1>2. Off(f, 0) = 0
  <2>1. Upto(Codes(f), 0) = <<>>
    BY <1>1, Steps
  <2>2. QED
    BY <2>1 DEF Off
<1>3. Upto(Parts(f), 0) = <<>>
  BY <1>1, Steps
<1>4. Off(f, Len(f)) = Len(Encoded(f))
  <2>1. Upto(Codes(f), Len(Codes(f))) = FlattenSeq(Codes(f))
    BY <1>1, Steps
  <2>2. QED
    BY <2>1, <1>1 DEF Off
<1>5. Upto(Parts(f), Len(f)) = FlattenSeq([i \in DOMAIN f |-> Kept(f, i)])
  <2>1. Upto(Parts(f), Len(Parts(f))) = FlattenSeq(Parts(f))
    BY <1>1, Steps
  <2>2. QED
    BY <2>1, <1>1, Keeping
<1>6. ASSUME NEW i \in 0..Len(f) PROVE Off(f, i) \in 0..Len(Encoded(f))
  <2>1. CASE i = 0
    BY <2>1, <1>1, <1>2
  <2>2. CASE i # 0
    <3>1. i \in 1..Len(f)
      BY <2>2, <1>1
    <3>2. QED
      BY <3>1, <1>1, Places
  <2>3. QED
    BY <2>1, <2>2
<1>7. ASSUME NEW i \in 0..Len(f), Off(f, i) < Len(Encoded(f)) PROVE i + 1 \in 1..Len(f)
  <2>1. i # Len(f)
    BY <1>7, <1>4, <1>1
  <2>2. QED
    BY <2>1, <1>1
<1>8. QED
  BY <1>1, <1>2, <1>3, <1>4, <1>5, <1>6, <1>7

Whole(f, i, n, s) == n = Off(f, i) /\ s = Upto(Parts(f), i)

\* Behind a first half comes the second, at the beginning of a block.
LEMMA SecondHalf ==
    ASSUME NEW f \in Seq(Octets), NEW i \in 0..(Len(f) - 1), NEW n, NEW s, Halfway(f, i, n, s)
    PROVE  LET c == IF f[i + 1] = "LF" THEN "LF" ELSE "NUL" IN
           /\ i + 1 \in 1..Len(f) /\ n \in Nat \ {0} /\ n % MAXBUFLEN = 0
           /\ Encoded(f)[n + 1] = c /\ n + 1 <= Len(Encoded(f))
           /\ Whole(f, i + 1, n + 1, Append(s, c))
<1>1. i + 1 \in 1..Len(f) /\ (i + 1) - 1 = i /\ i \in Nat
  BY Positions
<1>2. f[i + 1] \in {"CR", "LF"} /\ Place(f, i + 1) % MAXBUFLEN = 0 /\ n = Off(f, i) + 1
  BY DEF Halfway, Cut
<1>3. /\ Off(f, i) \in Nat /\ Place(f, i + 1) = Off(f, i) + 1
      /\ Off(f, i + 1) <= Len(Encoded(f))
      /\ Off(f, i + 1) = Off(f, i) + 2
      /\ Encoded(f)[Off(f, i) + 2] = IF f[i + 1] = "LF" THEN "LF" ELSE "NUL"
  BY <1>1, <1>2, Places
<1>4. Upto(Parts(f), i + 1) = Append(s, IF f[i + 1] = "LF" THEN "LF" ELSE "NUL")
  BY <1>1, NextPart DEF Halfway
<1>5. n \in Nat \ {0} /\ n + 1 = Off(f, i) + 2
  BY <1>2, <1>3
<1>6. QED
  BY <1>1, <1>2, <1>3, <1>4, <1>5 DEF Whole

\* Where the two bytes of a line end are in a block of L bytes, k of them done.
LEMMA Room ==
    ASSUME NEW from \in Nat, NEW m \in Nat \ {0}, NEW L \in 0..m, NEW k \in 0..(L - 1),
           NEW n, n = from + k,
           NEW e \in Nat, from + L <= e, L < m => from + L = e
    PROVE  LET two == IF k + 2 < L THEN n + 2 ELSE from + L IN
           /\ n \in Nat /\ n < e /\ n + 1 \in (from + 1)..(from + m) /\ n + 1 <= from + L
           /\ n + 2 <= e /\ n + 1 # from + m => k + 1 < L /\ two = n + 2
           /\ n + 1 = from + m => L = m /\ k + 1 = L /\ n + 1 = from + L /\ two = n + 1
  OBVIOUS

\* The loop of write_data_to_file is in a block of L bytes, k of them done; c is the next
\* byte, d the one that follows it in the buffer.
InLoop(f, from, L, k, n, s, c, d) ==
    /\ from + L <= Len(Encoded(f))
    /\ L < MAXBUFLEN => from + L = Len(Encoded(f))
    /\ n = from + k /\ Progress(f, n, s)
    /\ \A q \in (from + 1)..n : Encoded(f)[q] # "FF"
    /\ c = Encoded(f)[n + 1] /\ c # "FF"
    /\ k + 1 < L => d = Encoded(f)[n + 2]
    /\ k + 1 = L /\ L = MAXBUFLEN => d = Encoded(f)[from + L - Header + 1]

\* What it does to this byte.
LEMMA Advancing ==
    ASSUME NEW f \in Seq(Octets), NEW from \in Nat, Boundary(from),
           NEW L \in 0..MAXBUFLEN, NEW k \in 0..(L - 1), NEW n, NEW s, NEW c, NEW d,
           InLoop(f, from, L, k, n, s, c, d)
    PROVE  LET two == IF k + 2 < L THEN n + 2 ELSE from + L IN
           /\ c = "CR" /\ d = "NUL" => Progress(f, two, Append(s, "CR"))
           /\ c = "CR" /\ d = "LF" => Progress(f, two, Append(s, "LF"))
           /\ c = "CR" /\ d \notin {"NUL", "LF"} => Progress(f, n + 1, Append(s, "CR"))
           /\ c # "CR" => Progress(f, n + 1, Append(s, c))
<1> USE DEF InLoop
<1> DEFINE two == IF k + 2 < L THEN n + 2 ELSE from + L
           E == Encoded(f)
           m == MAXBUFLEN
           Goal == /\ c = "CR" /\ d = "NUL" => Progress(f, two, Append(s, "CR"))
                   /\ c = "CR" /\ d = "LF" => Progress(f, two, Append(s, "LF"))
                   /\ c = "CR" /\ d \notin {"NUL", "LF"} => Progress(f, n + 1, Append(s, "CR"))
                   /\ c # "CR" => Progress(f, n + 1, Append(s, c))
<1>1. /\ m \in Nat \ {0} /\ L \in 0..m /\ k \in 0..(L - 1) /\ from \in Nat
      /\ n = from + k /\ n \in Nat /\ n + 1 \in Nat \ {0} /\ n + 1 \in (from + 1)..(from + m)
      /\ Len(E) \in Nat /\ n + 1 <= from + L /\ from + L <= Len(E) /\ n < Len(E)
      /\ L < m => from + L = Len(E)
      /\ Header \in 1..m
  BY Ends, NetasciiAssumption
<1>10. /\ n + 2 <= Len(E) /\ n + 1 # from + m => k + 1 < L /\ two = n + 2
       /\ n + 1 = from + m => L = m /\ k + 1 = L /\ n + 1 = from + L /\ two = n + 1
  BY <1>1, Room
<1>2. \A q \in (from + 1)..(from + m) :
        /\ q % m = 0 <=> q = from + m
        /\ \A r \in Nat \ {0} : (r - 1) \div m = (q - 1) \div m => r \in (from + 1)..(from + m)
  BY SameBlock
<1> HIDE DEF m
<1>3. PICK p \in Nat \ {0} : p = n + 1
  BY <1>1
<1>9. p \in (from + 1)..(from + m) /\ (p % m = 0 <=> p = from + m)
  BY <1>1, <1>2, <1>3
<1>4. ~ Lost(f, p)
  <2>1. ASSUME NEW q \in 1..p, E[q] = "FF", (q - 1) \div m = (p - 1) \div m
        PROVE  FALSE
    <3>1. q \in Nat \ {0}
      BY <1>3
    <3>2. q \in (from + 1)..(from + m)
      BY <2>1, <3>1, <1>2, <1>9
    <3>3. q \in (from + 1)..n \/ q = n + 1
      BY <3>2, <1>1, <1>3
    <3>4. QED
      BY <2>1, <3>3
  <2>2. QED
    BY <2>1 DEF Lost, m
<1> HIDE DEF E
<1>5. ASSUME NEW i \in 0..(Len(f) - 1), Halfway(f, i, n, s) PROVE Goal
  <2> DEFINE z == IF f[i + 1] = "LF" THEN "LF" ELSE "NUL"
  <2>1. E[n + 1] = z /\ i + 1 \in 0..Len(f) /\ Whole(f, i + 1, n + 1, Append(s, z))
    BY <1>5, SecondHalf DEF E
  <2>2. c = z /\ c # "CR"
    BY <2>1 DEF E
  <2>3. Progress(f, n + 1, Append(s, c))
    BY <2>1, <2>2 DEF Progress, Whole
  <2>4. QED
    BY <2>2, <2>3
<1>6. ASSUME NEW i \in 0..Len(f), Whole(f, i, n, s) PROVE Goal
  <2>1. n = Off(f, i) /\ i + 1 \in 1..Len(f) /\ (i + 1) - 1 = i /\ i \in Nat
    <3>1. n = Off(f, i) /\ Off(f, i) < Len(Encoded(f))
      BY <1>6, <1>1 DEF Whole, E
    <3>2. i + 1 \in 1..Len(f)
      BY <3>1, Ends
    <3>3. QED
      BY <3>1, <3>2, Ends
  <2>2. /\ Place(f, i + 1) = p
        /\ Off(f, i + 1) <= Len(E)
        /\ f[i + 1] \in {"CR", "LF"} =>
             /\ Off(f, i + 1) = n + 2 /\ E[n + 1] = "CR"
             /\ E[n + 2] = IF f[i + 1] = "LF" THEN "LF" ELSE "NUL"
        /\ f[i + 1] \notin {"CR", "LF"} => Off(f, i + 1) = n + 1 /\ E[n + 1] = f[i + 1]
    <3> DEFINE j == i + 1
    <3>1. j \in 1..Len(f) /\ j - 1 = i
      BY <2>1
    <3> HIDE DEF j
    <3>2. /\ Place(f, j) = Off(f, j - 1) + 1
          /\ Off(f, j) <= Len(Encoded(f))
          /\ f[j] \in {"CR", "LF"} =>
                /\ Off(f, j) = Off(f, j - 1) + 2
                /\ Encoded(f)[Off(f, j - 1) + 1] = "CR"
                /\ Encoded(f)[Off(f, j - 1) + 2] = IF f[j] = "LF" THEN "LF" ELSE "NUL"
          /\ f[j] \notin {"CR", "LF"} =>
                /\ Off(f, j) = Off(f, j - 1) + 1
                /\ Encoded(f)[Off(f, j - 1) + 1] = f[j]
      BY <3>1, Places
    <3>3. QED
      BY <3>1, <3>2, <2>1, <1>3 DEF E, j
  <2>3. c = E[n + 1]
    BY DEF E
  <2>4. Cut(f, i + 1) <=> f[i + 1] \in {"CR", "LF"} /\ n + 1 = from + m
    BY <2>2, <1>3, <1>9 DEF Cut, m
  <2>5. ~ Cut(f, i + 1) => Upto(Parts(f), i + 1) = Append(s, f[i + 1])
    BY <2>1, <2>2, <1>4, <1>6, NextPart DEF Whole
  <2> HIDE DEF two
  <2>6. i + 1 \in 0..Len(f)
    BY <2>1
  <2>7. CASE f[i + 1] \notin {"CR", "LF"}
    <3>1. c = f[i + 1] /\ c # "CR" /\ ~ Cut(f, i + 1) /\ Off(f, i + 1) = n + 1
      BY <2>2, <2>3, <2>4, <2>7
    <3>2. Progress(f, n + 1, Append(s, c))
      BY <3>1, <2>5, <2>6 DEF Progress
    <3>3. QED
      BY <3>1, <3>2
  <2>8. CASE f[i + 1] \in {"CR", "LF"} /\ ~ Cut(f, i + 1)
    <3>1. n + 2 <= Len(E) /\ n + 1 # from + m
      BY <2>2, <2>4, <2>8
    <3>2. k + 1 < L /\ two = n + 2
      BY <3>1, <1>10
    <3>3. /\ c = "CR" /\ Off(f, i + 1) = n + 2
          /\ d = IF f[i + 1] = "LF" THEN "LF" ELSE "NUL"
      BY <3>2, <2>2, <2>3, <2>8 DEF E
    <3>4. Progress(f, two, Append(s, f[i + 1]))
      BY <3>2, <3>3, <2>5, <2>6, <2>8 DEF Progress
    <3>5. f[i + 1] = IF d = "LF" THEN "LF" ELSE "CR"
      BY <3>3, <2>8
    <3>6. QED
      BY <3>3, <3>4, <3>5
  <2>9. CASE Cut(f, i + 1)
    <3>1. /\ c = "CR" /\ n + 1 = from + L /\ k + 1 = L /\ L = m /\ two = n + 1
      <4>1. c = "CR" /\ n + 1 = from + m
        BY <2>2, <2>3, <2>4, <2>9
      <4>2. QED
        BY <4>1, <1>10
    <3>2. d = E[from + L - Header + 1]
      BY <3>1 DEF E, m
    <3>3. from + L - Header + 1 = p - Header + 1
      <4>1. p = from + L
        BY <3>1, <1>3
      <4>2. Header \in Int
        BY <1>1
      <4>3. QED
        BY <4>1, <4>2
    <3>4. CutEnd(f, p) = IF d = "LF" THEN <<"LF">> ELSE <<"CR">>
      BY <3>2, <3>3, <1>4 DEF CutEnd, E
    <3>5. s \in Seq(Octets)
      BY <2>1, <1>6, NextPart DEF Whole
    <3>6. s \o CutEnd(f, p) = Append(s, IF d = "LF" THEN "LF" ELSE "CR")
      <4>1. "LF" \in Octets /\ "CR" \in Octets
        BY DEF Octets
      <4>2. s \o <<"LF">> = Append(s, "LF") /\ s \o <<"CR">> = Append(s, "CR")
        BY <4>1, <3>5, AppendIsConcat
      <4>3. QED
        BY <4>2, <3>4
    <3>7. Halfway(f, i, n + 1, Append(s, IF d = "LF" THEN "LF" ELSE "CR"))
      BY <3>6, <2>1, <2>2, <2>9, <1>6 DEF Halfway, Whole
    <3>8. i \in 0..(Len(f) - 1)
      BY <2>1, Ends
    <3>9. Progress(f, n + 1, Append(s, IF d = "LF" THEN "LF" ELSE "CR"))
      BY <3>7, <3>8 DEF Progress
    <3>10. QED
      BY <3>1, <3>9
  <2>10. QED
    BY <2>7, <2>8, <2>9
<1> HIDE DEF Goal
<1>7. Goal
  BY <1>5, <1>6 DEF Progress, Whole
<1>8. QED
  BY <1>7 DEF Goal

\* More bytes of the file, more bytes on the way.
LEMMA Grows ==
    ASSUME NEW f \in Seq(Octets), NEW i \in 0..Len(f), NEW j \in i..Len(f)
    PROVE  Off(f, i) <= Off(f, j)
<1>1. /\ Codes(f) \in Seq(Seq(Octets)) /\ i \in 0..Len(Codes(f)) /\ j \in i..Len(Codes(f))
  BY Coding
<1>2. Begins(Upto(Codes(f), i), Upto(Codes(f), j))
  BY <1>1, Beginnings
<1>3. QED
  BY <1>2 DEF Begins, Off

\* A byte 0xFF in a block: nothing of the rest of the block is stored.
LEMMA GivingUp ==
    ASSUME NEW f \in Seq(Octets), NEW from \in Nat, Boundary(from),
           NEW L \in 0..MAXBUFLEN, from + L <= Len(Encoded(f)),
           L < MAXBUFLEN => from + L = Len(Encoded(f)),
           NEW k \in 0..(L - 1), NEW n, n = from + k,
           NEW s, Progress(f, n, s), Encoded(f)[n + 1] = "FF"
    PROVE  Progress(f, from + L, s)
<1> DEFINE m == MAXBUFLEN
           E == Encoded(f)
           to == from + L
<1>1. m \in Nat \ {0} /\ Len(E) \in Nat
  BY Ends, NetasciiAssumption
<1>2. /\ to \in Nat /\ to <= Len(E) /\ to <= from + m /\ (L < m => to = Len(E))
      /\ n \in Nat /\ n < to /\ n + 1 \in Nat \ {0} /\ n + 1 \in (from + 1)..(from + m)
      /\ (to < Len(E) => to = from + m)
  BY <1>1
<1>17. to \in Nat
  BY <1>2
<1>3. \A q \in (from + 1)..(from + m) :
        /\ q % m = 0 <=> q = from + m
        /\ \A r \in Nat \ {0} : r \in (from + 1)..(from + m) =>
                (r - 1) \div m = (q - 1) \div m
  BY SameBlock
<1>16. Len(f) \in Nat /\ \A j \in 0..Len(f) : Off(f, j) \in Nat /\ j \in Nat
  <2>1. Len(f) \in Nat /\ Len(Encoded(f)) \in Nat
    BY Ends
  <2>2. \A j \in 0..Len(f) : Off(f, j) \in 0..Len(Encoded(f))
    BY Ends
  <2>3. QED
    BY <2>1, <2>2
<1> HIDE DEF m, E, to
<1>4. PICK p \in Nat \ {0} : p = n + 1 /\ E[p] = "FF"
  BY <1>2 DEF E
<1>5. ASSUME NEW r \in (n + 1)..to PROVE Lost(f, r)
  <2>1. r \in Nat \ {0} /\ r \in (from + 1)..(from + m) /\ p \in 1..r
        /\ p \in (from + 1)..(from + m)
    BY <1>1, <1>2, <1>4
  <2>2. (p - 1) \div m = (r - 1) \div m
    BY <2>1, <1>3
  <2>3. QED
    BY <2>1, <2>2, <1>4 DEF Lost, m, E
<1>6. ASSUME NEW i \in 0..(Len(f) - 1) PROVE ~ Halfway(f, i, n, s)
  <2>1. SUFFICES ASSUME Halfway(f, i, n, s) PROVE FALSE
    OBVIOUS
  <2>2. E[n + 1] = IF f[i + 1] = "LF" THEN "LF" ELSE "NUL"
    BY <2>1, SecondHalf DEF E
  <2>3. QED
    BY <2>2, <1>4
<1>7. PICK i \in 0..Len(f) : n = Off(f, i) /\ s = Upto(Parts(f), i)
  BY <1>6 DEF Progress
<1>8. ASSUME NEW j \in 1..Len(f), i <= j - 1, Off(f, j - 1) < to, Upto(Parts(f), j - 1) = s
      PROVE  /\ s \in Seq(Octets)
             /\ Off(f, j - 1) \in Nat /\ Off(f, j) \in Nat /\ Off(f, j - 1) < Off(f, j)
             /\ Off(f, j) <= to => Upto(Parts(f), j) = s
             /\ Off(f, j) > to /\ to < Len(E) => Halfway(f, j - 1, to, s)
  <2>1. j \in Nat /\ i \in Nat /\ j - 1 \in 0..Len(f) /\ j - 1 \in i..Len(f)
    BY <1>8, Ends
  <2>2. n <= Off(f, j - 1)
    BY <2>1, <1>7, Grows
  <2>3. /\ Off(f, j - 1) \in Nat /\ Off(f, j) \in Nat
        /\ Place(f, j) = Off(f, j - 1) + 1
        /\ f[j] \in {"CR", "LF"} => Off(f, j) = Off(f, j - 1) + 2
        /\ f[j] \notin {"CR", "LF"} => Off(f, j) = Off(f, j - 1) + 1
    BY Places
  <2>4. PICK r \in Nat \ {0} : r = Place(f, j)
    BY <2>3
  <2>5. r \in (n + 1)..to /\ r \in (from + 1)..(from + m)
    <3>1. PICK o \in Nat : o = Off(f, j - 1)
      BY <2>3
    <3>2. n <= o /\ o < to /\ r = o + 1
      BY <3>1, <2>2, <2>3, <2>4, <1>8
    <3>3. QED
      BY <3>2, <1>1, <1>2
  <2>6. Lost(f, Place(f, j)) /\ (r % m = 0 <=> r = from + m)
    BY <2>4, <2>5, <1>3, <1>5
  <2>7. s \in Seq(Octets)
    BY <1>8, NextPart
  <2>8. ASSUME Off(f, j) <= to PROVE Upto(Parts(f), j) = s
    <3>1. ~ Cut(f, j)
      <4>1. SUFFICES ASSUME f[j] \in {"CR", "LF"} PROVE Place(f, j) % m # 0
        BY DEF Cut, m
      <4>2. r < to /\ r < from + m
        <5>1. PICK o \in Nat : o = Off(f, j - 1)
          BY <2>3
        <5>2. o + 2 <= to /\ r = o + 1
          BY <5>1, <4>1, <2>3, <2>4, <2>8
        <5>3. QED
          BY <5>2, <1>1, <1>2
      <4>3. QED
        BY <4>2, <2>4, <2>6
    <3>2. QED
      BY <3>1, <2>6, <1>8, NextPart
  <2>9. ASSUME Off(f, j) > to, to < Len(E) PROVE Halfway(f, j - 1, to, s)
    <3>1. f[j] \in {"CR", "LF"} /\ r = to /\ to = from + m
      <4>1. PICK o \in Nat : o = Off(f, j - 1) /\ r = o + 1 /\ o < to
        BY <2>3, <2>4, <1>8
      <4>2. to = from + m
        BY <2>9, <1>2
      <4>3. f[j] \in {"CR", "LF"}
        <5>1. SUFFICES ASSUME f[j] \notin {"CR", "LF"} PROVE FALSE
          OBVIOUS
        <5>2. Off(f, j) = o + 1
          BY <5>1, <4>1, <2>3
        <5>3. o + 1 > to /\ to \in Nat
          BY <5>2, <2>9, <1>17
        <5>4. QED
          BY <5>3, <4>1
      <4>4. Off(f, j) = o + 2
        BY <4>1, <4>3, <2>3
      <4>5. r = to
        <5>1. o + 2 > to /\ to \in Nat
          BY <4>4, <2>9, <1>17
        <5>2. \A a, t \in Nat : a < t /\ a + 2 > t => a + 1 = t
          OBVIOUS
        <5>3. QED
          BY <5>1, <5>2, <4>1
      <4>6. QED
        BY <4>2, <4>3, <4>5
    <3>2. Cut(f, j)
      BY <3>1, <2>4, <2>6 DEF Cut, m
    <3>3. CutEnd(f, Place(f, j)) = <<>>
      BY <2>6 DEF CutEnd
    <3>4. s \o CutEnd(f, Place(f, j)) = s
      BY <3>3, <2>7, ConcatEmptySeq
    <3>5. (j - 1) + 1 = j /\ to = Off(f, j - 1) + 1
      BY <2>1, <2>3, <2>4, <3>1
    <3>6. QED
      BY <3>2, <3>4, <3>5, <1>8 DEF Halfway
  <2>10. Off(f, j - 1) \in Nat /\ Off(f, j) \in Nat /\ Off(f, j - 1) < Off(f, j)
    BY <2>3
  <2>11. QED
    BY <2>7, <2>8, <2>9, <2>10
<1> DEFINE T == {d \in Nat : i + d <= Len(f) /\ Off(f, i + d) <= to => Upto(Parts(f), i + d) = s}
<1>9. 0 \in T
  <2>1. i + 0 = i
    BY Ends
  <2>2. QED
    BY <2>1, <1>7
<1>10. ASSUME NEW d \in T PROVE d + 1 \in T
  <2> DEFINE j == i + (d + 1)
  <2>1. SUFFICES ASSUME j <= Len(f), Off(f, j) <= to PROVE Upto(Parts(f), j) = s
    OBVIOUS
  <2>2. d \in Nat /\ j \in 1..Len(f) /\ i + d = j - 1 /\ i <= j - 1 /\ j - 1 <= Len(f)
    BY <2>1, Ends
  <2> HIDE DEF j
  <2>3. Off(f, j - 1) < Off(f, j) /\ Off(f, j - 1) \in Nat /\ Off(f, j) \in Nat
    <3>1. /\ Off(f, j - 1) \in Nat
          /\ f[j] \in {"CR", "LF"} => Off(f, j) = Off(f, j - 1) + 2
          /\ f[j] \notin {"CR", "LF"} => Off(f, j) = Off(f, j - 1) + 1
      BY <2>2, Places
    <3>2. QED
      BY <3>1
  <2>4. Off(f, j - 1) < to
    <3>1. \A a, b \in Nat : a < b /\ b <= to => a < to
      BY <1>17
    <3>2. QED
      BY <3>1, <2>1, <2>3
  <2>5. Upto(Parts(f), j - 1) = s
    <3>1. Off(f, j - 1) <= to
      BY <2>3, <2>4, <1>17
    <3>2. Off(f, i + d) <= to /\ i + d <= Len(f)
      BY <3>1, <2>2
    <3>3. Upto(Parts(f), i + d) = s
      BY <3>2
    <3>4. QED
      BY <3>3, <2>2
  <2>6. QED
    BY <2>1, <2>2, <2>4, <2>5, <1>8
<1> HIDE DEF T
<1>11. T = Nat
  <2>1. T \in SUBSET Nat
    BY DEF T
  <2>2. QED
    BY <2>1, <1>9, <1>10, Induction
<1>12. ASSUME NEW j \in i..Len(f), Off(f, j) <= to PROVE Upto(Parts(f), j) = s
  <2>1. PICK d \in Nat : i + d = j
    <3>1. j - i \in Nat /\ i + (j - i) = j
      BY Ends
    <3>2. QED
      BY <3>1
  <2>2. i + d <= Len(f) /\ Off(f, i + d) <= to
    BY <2>1, <1>12, Ends
  <2>3. QED
    BY <2>1, <2>2, <1>11 DEF T
<1>13. CASE to = Len(E)
  <2>1. Len(f) \in i..Len(f) /\ Len(f) \in 0..Len(f) /\ Off(f, Len(f)) = to
    <3>1. Off(f, Len(f)) = to
      BY <1>13, Ends DEF E
    <3>2. QED
      BY <3>1, <1>16
  <2>2. Upto(Parts(f), Len(f)) = s
    BY <2>1, <1>2, <1>12
  <2>3. QED
    BY <2>1, <2>2 DEF Progress, to
<1>14. CASE to < Len(E)
  <2>1. PICK j \in 1..Len(f) : Off(f, j - 1) <= to /\ to < Off(f, j)
    <3>1. Codes(f) \in Seq(Seq(Octets)) /\ Len(Codes(f)) = Len(f) /\ E = FlattenSeq(Codes(f))
      BY Coding DEF E
    <3>2. \E j \in 1..Len(Codes(f)) :
            Len(Upto(Codes(f), j - 1)) <= to /\ to < Len(Upto(Codes(f), j))
      BY <3>1, <1>2, <1>14, Covering
    <3>3. QED
      BY <3>1, <3>2 DEF Off
  <2>2. /\ j \in Nat /\ i \in Nat /\ Len(f) \in Nat /\ j - 1 \in 0..Len(f) /\ j \in 0..Len(f)
        /\ Off(f, j) \in Nat /\ Off(f, j - 1) \in Nat
    BY Ends, Places
  <2>3. i <= j - 1
    <3>1. SUFFICES ASSUME j <= i PROVE FALSE
      BY <2>2
    <3>2. j \in 0..Len(f) /\ i \in j..Len(f)
      BY <3>1, <2>2
    <3>3. Off(f, j) <= n
      BY <3>2, <1>7, Grows
    <3>4. \A a, b, d \in Int : a <= b /\ b <= d => ~ d < a
      OBVIOUS
    <3>5. n \in Int /\ to \in Int /\ n <= to
      BY <1>2
    <3>6. QED
      BY <3>3, <3>5, <2>1, <2>2
  <2>4. j - 1 \in i..Len(f)
    BY <2>2, <2>3
  <2>5. Upto(Parts(f), j - 1) = s
    BY <2>1, <2>4, <1>12
  <2>6. CASE Off(f, j - 1) = to
    BY <2>2, <2>5, <2>6 DEF Progress, to
  <2>7. CASE Off(f, j - 1) < to
    <3>1. Halfway(f, j - 1, to, s)
      BY <2>1, <2>2, <2>3, <2>5, <2>7, <1>8, <1>14
    <3>2. j - 1 \in 0..(Len(f) - 1)
      BY <2>2
    <3>3. QED
      BY <3>1, <3>2 DEF Progress, to
  <2>8. Off(f, j - 1) = to \/ Off(f, j - 1) < to
    <3>1. to \in Nat
      BY <1>17
    <3>2. QED
      BY <3>1, <2>1, <2>2
  <2>9. QED
    BY <2>6, <2>7, <2>8
<1>15. QED
  BY <1>2, <1>13, <1>14, <1>1

-----------------------------------------------------------------------------
(* The inductive invariant *)

Typed ==
    /\ pc \in {"recv", "write", "read", "done"}
    /\ file \in Seq(Octets) /\ mode \in {"netascii", "octet"}
    /\ sent \in Nat /\ numbytes \in Nat
    /\ buf \in Seq(Octets) /\ stored \in Seq(Octets)
    /\ pos \in 0..Len(stored) /\ nextchar \in {None, "LF", "NUL"}
    /\ block \in Seq(Octets) /\ blocks \in Seq(Seq(Octets))

\* The payload in the buffer.
Size  == Len(buf) - 1
Start == sent - Size

\* Blocks are taken from the form on the way one after the other, all but the last full.
\* Behind a full one is the byte that a header earlier follows it in the packet.
Blocks ==
    /\ pc = "recv" => sent <= Len(Form) /\ Boundary(sent)
    /\ pc = "write" =>
        /\ Size \in 0..MAXBUFLEN /\ sent <= Len(Form)
        /\ Start \in Nat /\ Boundary(Start)
        /\ Size < MAXBUFLEN => sent = Len(Form)
        /\ \A j \in 1..Size : buf[j] = Form[Start + j]
        /\ Size = MAXBUFLEN => buf[Size + 1] = Form[sent - Header + 1]
        /\ mode = "octet" /\ numbytes < Size => numbytes = 0

\* The bytes on the way that write_data_to_file is done with.
At == IF pc = "write" /\ numbytes < Size THEN Start + numbytes ELSE sent

Writing == pc \in {"recv", "write"} =>
    IF mode = "netascii" THEN Progress(file, At, stored) ELSE stored = SubSeq(file, 1, At)

\* It has met no byte 0xFF in the block, and never stores one.
Clean == mode = "netascii" =>
    /\ pc = "write" => \A q \in (Start + 1)..At : Form[q] # "FF"
    /\ \A i \in 1..Len(stored) : stored[i] # "FF"

\* What was read so far is what getc returned, the pending character included.
Taken == FlattenSeq(blocks) \o block
Reading ==
    /\ pc \in {"recv", "write"} =>
        pos = 0 /\ nextchar = None /\ block = <<>> /\ blocks = <<>>
    /\ pc = "read" =>
        /\ Decoded(IF nextchar = None THEN Taken ELSE Append(Taken, nextchar))
                = SubSeq(stored, 1, pos)
        /\ \A i \in 1..pos : stored[i] # "FF"
        /\ Len(block) <= MAXBUFLEN
        /\ \A k \in 1..Len(blocks) : Len(blocks[k]) = MAXBUFLEN

IInv == Typed /\ Blocks /\ Writing /\ Clean /\ StoredExactly /\ Reading /\ ReadExactly

LEMMA Forms ==
    ASSUME Typed
    PROVE  /\ Form \in Seq(Octets) /\ Len(Form) \in Nat
           /\ \A j \in 1..Len(Form) : Form[j] \in Octets
           /\ mode = "netascii" => Form = Encoded(file)
           /\ mode # "netascii" => Form = file /\ mode = "octet"
<1>1. file \in Seq(Octets) /\ mode \in {"netascii", "octet"}
  BY DEF Typed
<1>2. Form \in Seq(Octets)
  BY <1>1, Coding DEF Form
<1>3. QED
  BY <1>1, <1>2, Positions DEF Form

LEMMA Starts == Init => IInv
<1> SUFFICES ASSUME Init PROVE IInv
  OBVIOUS
<1>1. /\ pc = "recv" /\ sent = 0 /\ buf = <<>> /\ numbytes = 0 /\ stored = <<>>
      /\ pos = 0 /\ nextchar = None /\ block = <<>> /\ blocks = <<>>
      /\ mode \in {"netascii", "octet"}
  BY DEF Init
<1>2. file \in Seq(Octets)
  <2>1. PICK n \in 0..MaxLen : file \in [1..n -> Bytes]
    BY DEF Init
  <2>2. Bytes \subseteq Octets /\ n \in Nat
    BY NetasciiAssumption DEF Octets
  <2>3. file \in [1..n -> Octets]
    BY <2>1, <2>2
  <2>4. QED
    BY <2>2, <2>3, IsASeq
<1>3. Len(<<>>) = 0 /\ <<>> \in Seq(Octets) /\ <<>> \in Seq(Seq(Octets))
  OBVIOUS
<1>4. Typed
  BY <1>1, <1>2, <1>3 DEF Typed
<1>5. Blocks
  <2>1. MAXBUFLEN \in Nat /\ 0 = MAXBUFLEN * 0
    BY NetasciiAssumption
  <2>2. Boundary(0)
    BY <2>1 DEF Boundary
  <2>3. 0 <= Len(Form)
    BY <1>4, Forms
  <2>4. QED
    BY <1>1, <2>2, <2>3 DEF Blocks
<1>6. Writing
  <2>1. At = 0
    BY <1>1 DEF At
  <2>2. CASE mode = "netascii"
    <3>1. Len(file) \in Nat /\ Off(file, 0) = 0 /\ Upto(Parts(file), 0) = <<>>
      BY <1>2, Ends
    <3>2. Progress(file, 0, <<>>)
      BY <3>1 DEF Progress
    <3>3. QED
      BY <3>2, <2>1, <2>2, <1>1 DEF Writing
  <2>3. CASE mode # "netascii"
    <3>1. SubSeq(file, 1, 0) = <<>>
      <4>1. /\ SubSeq(file, 1, 0) \in Seq(Octets)
            /\ Len(SubSeq(file, 1, 0)) = 0
        BY <1>2, SubSeqProperties
      <4>2. QED
        BY <4>1, EmptySeq
    <3>2. QED
      BY <3>1, <2>1, <2>3, <1>1 DEF Writing
  <2>4. QED
    BY <2>2, <2>3
<1>7. Clean /\ StoredExactly /\ Reading /\ ReadExactly
  BY <1>1, <1>3 DEF Clean, StoredExactly, Reading, ReadExactly
<1>8. QED
  BY <1>4, <1>5, <1>6, <1>7 DEF IInv

LEMMA Receives == ASSUME IInv, Receive PROVE IInv'
<1> DEFINE E == Form
           m == MAXBUFLEN
           hi == IF sent + m < Len(E) THEN sent + m ELSE Len(E)
           payload == SubSeq(E, sent + 1, hi)
<1>1. /\ Typed /\ Blocks /\ Writing /\ Clean /\ Reading
      /\ pc = "recv" /\ pc' = "write" /\ numbytes' = 0
      /\ file' = file /\ mode' = mode /\ stored' = stored /\ pos' = pos
      /\ nextchar' = nextchar /\ block' = block /\ blocks' = blocks
  BY DEF IInv, Receive, request, reading
<1>2. PICK b \in IF Len(payload) >= Header THEN {payload[Len(payload) - Header + 1]} ELSE Bytes :
        buf' = Append(payload, b) /\ sent' = sent + Len(payload)
  BY DEF Receive
<1>3. /\ E \in Seq(Octets) /\ Len(E) \in Nat /\ \A j \in 1..Len(E) : E[j] \in Octets
      /\ E' = E
  BY <1>1, Forms DEF Form
<1>4. /\ sent \in Nat /\ sent <= Len(E) /\ Boundary(sent)
      /\ m \in Nat \ {0} /\ Header \in 1..m
  BY <1>1, NetasciiAssumption DEF Typed, Blocks
<1> HIDE DEF E, m
<1>5. /\ hi \in Nat /\ sent <= hi /\ hi <= Len(E) /\ hi <= sent + m
      /\ hi < sent + m => hi = Len(E)
  BY <1>3, <1>4
<1> HIDE DEF hi
<1>6. /\ payload \in Seq(Octets) /\ Len(payload) = hi - sent
      /\ \A j \in 1..(hi - sent) : payload[j] = E[sent + j]
  <2>1. /\ sent + 1 \in Int /\ hi \in Int
        /\ \A j \in (sent + 1)..hi : E[j] \in Octets
    BY <1>3, <1>4, <1>5
  <2>2. /\ payload \in Seq(Octets)
        /\ Len(payload) = IF sent + 1 <= hi THEN hi - (sent + 1) + 1 ELSE 0
        /\ \A j \in 1..(hi - (sent + 1) + 1) : payload[j] = E[sent + 1 + j - 1]
    BY <2>1, SubSeqProperties
  <2> HIDE DEF payload
  <2>3. hi - (sent + 1) + 1 = hi - sent /\ \A j \in 1..(hi - sent) : sent + 1 + j - 1 = sent + j
    BY <1>4, <1>5
  <2>4. Len(payload) = hi - sent
    BY <2>2, <1>4, <1>5
  <2>5. QED
    BY <2>2, <2>3, <2>4
<1> HIDE DEF payload
<1>7. PICK L \in 0..m : L = hi - sent /\ Len(payload) = L
  BY <1>4, <1>5, <1>6
<1>8. /\ b \in Octets
      /\ L = m => b = E[hi - Header + 1]
  <2>1. CASE L >= Header
    <3>1. b = payload[L - Header + 1]
      BY <2>1, <1>2, <1>7
    <3>2. L - Header + 1 \in 1..L /\ sent + (L - Header + 1) = hi - Header + 1
      BY <2>1, <1>4, <1>5, <1>7
    <3>3. b = E[hi - Header + 1]
      BY <3>1, <3>2, <1>6, <1>7
    <3>4. hi - Header + 1 \in 1..Len(E)
      BY <3>2, <1>4, <1>5, <1>7
    <3>5. QED
      BY <3>3, <3>4, <1>3
  <2>2. CASE ~ (L >= Header)
    <3>1. b \in Bytes /\ L # m
      BY <2>2, <1>2, <1>4, <1>7
    <3>2. QED
      BY <3>1, NetasciiAssumption DEF Octets
  <2>3. QED
    BY <2>1, <2>2
<1>9. /\ buf' \in Seq(Octets) /\ Len(buf') = L + 1
      /\ \A j \in 1..L : buf'[j] = E[sent + j]
      /\ buf'[L + 1] = b
  BY <1>2, <1>6, <1>7, <1>8, Appending
<1>10. Size' = L /\ sent' = hi /\ Start' = sent
  <2>1. Size' = L
    BY <1>9 DEF Size
  <2>2. L = hi - sent /\ sent' = sent + L
    BY <1>2, <1>7
  <2>3. sent' = hi /\ hi - L = sent
    BY <2>2, <1>4, <1>5
  <2>4. QED
    BY <2>1, <2>3 DEF Start
<1>11. At' = sent /\ At = sent
  BY <1>1, <1>4, <1>5, <1>7, <1>10 DEF At
<1>12. Typed'
  BY <1>1, <1>5, <1>9, <1>10 DEF Typed
<1>13. Blocks'
  <2>1. L \in 0..m /\ hi <= Len(E) /\ (L < m => hi = Len(E))
    BY <1>4, <1>5, <1>7
  <2>2. QED
    BY <2>1, <1>1, <1>3, <1>4, <1>8, <1>9, <1>10 DEF Blocks, E, m
<1>14. Writing'
  <2>1. IF mode = "netascii" THEN Progress(file, sent, stored) ELSE stored = SubSeq(file, 1, sent)
    BY <1>1, <1>11 DEF Writing
  <2>2. QED
    BY <2>1, <1>1, <1>11 DEF Writing
<1>15. Clean'
  <2>1. \A q \in (Start' + 1)..At' : FALSE
    BY <1>4, <1>10, <1>11
  <2>2. QED
    BY <2>1, <1>1 DEF Clean
<1>16. StoredExactly' /\ Reading' /\ ReadExactly'
  BY <1>1 DEF StoredExactly, Reading, ReadExactly
<1>17. QED
  BY <1>12, <1>13, <1>14, <1>15, <1>16 DEF IInv

LEMMA Writes == ASSUME IInv, WriteByte PROVE IInv'
<1> DEFINE E == Encoded(file)
           c == buf[numbytes + 1]
           d == buf[numbytes + 2]
           m == MAXBUFLEN
<1>1. /\ Typed /\ Blocks /\ Writing /\ Clean /\ Reading
      /\ pc = "write" /\ pc' = "write" /\ mode = "netascii" /\ numbytes < Len(buf) - 1
      /\ file' = file /\ mode' = mode /\ sent' = sent /\ buf' = buf /\ pos' = pos
      /\ nextchar' = nextchar /\ block' = block /\ blocks' = blocks
      /\ c # "FF"
  BY DEF IInv, WriteByte, request, reading
<1>2. \/ c = "CR" /\ d = "NUL" /\ stored' = Append(stored, "CR") /\ numbytes' = numbytes + 2
      \/ c = "CR" /\ d = "LF" /\ stored' = Append(stored, "LF") /\ numbytes' = numbytes + 2
      \/ c = "CR" /\ d \notin {"NUL", "LF"} /\ stored' = Append(stored, "CR")
            /\ numbytes' = numbytes + 1
      \/ c # "CR" /\ stored' = Append(stored, c) /\ numbytes' = numbytes + 1
  BY DEF WriteByte, putc
<1>3. /\ file \in Seq(Octets) /\ stored \in Seq(Octets) /\ buf \in Seq(Octets)
      /\ numbytes \in Nat /\ sent \in Nat
      /\ Form = E /\ Form' = E /\ Len(E) \in Nat /\ \A j \in 1..Len(E) : E[j] \in Octets
      /\ Header \in 1..m /\ m \in Nat
  BY <1>1, Forms, NetasciiAssumption DEF Typed, Form
<1> HIDE DEF E, c, d, m
<1>4. PICK L \in 0..m : L = Size
  BY <1>1 DEF Blocks, m
<1>5. PICK from \in Nat : from = Start /\ Boundary(from)
  BY <1>1 DEF Blocks
<1>6. /\ from + L = sent /\ from + L <= Len(E) /\ (L < m => from + L = Len(E))
      /\ \A j \in 1..L : buf[j] = E[from + j]
      /\ L = m => buf[L + 1] = E[from + L - Header + 1]
      /\ Len(buf) = L + 1
  <2>1. from + L = sent
    BY <1>3, <1>4, <1>5 DEF Start
  <2>2. Len(buf) = L + 1
    <3>1. Len(buf) \in Nat
      BY <1>3, Positions
    <3>2. QED
      BY <3>1, <1>4 DEF Size
  <2>3. QED
    BY <2>1, <2>2, <1>1, <1>3, <1>4, <1>5 DEF Blocks, m
<1>7. PICK k \in 0..(L - 1) : k = numbytes
  BY <1>1, <1>3, <1>4 DEF Size
<1>8. PICK n \in Nat : n = from + k /\ At = n
  BY <1>1, <1>4, <1>5, <1>7 DEF At
<1>9. Progress(file, n, stored) /\ \A q \in (from + 1)..n : E[q] # "FF"
  BY <1>1, <1>3, <1>5, <1>8 DEF Writing, Clean
<1>10. c = E[n + 1] /\ n + 1 \in 1..Len(E) /\ c \in Octets
  <2>1. k + 1 \in 1..L /\ from + (k + 1) = n + 1
    BY <1>4, <1>7, <1>8
  <2>2. buf[k + 1] = E[from + (k + 1)]
    BY <2>1, <1>6
  <2>3. n + 1 \in 1..Len(E)
    BY <2>1, <1>3, <1>6
  <2>4. QED
    BY <2>1, <2>2, <2>3, <1>3, <1>7 DEF c
<1>11. k + 1 < L => d = E[n + 2]
  <2>1. SUFFICES ASSUME k + 1 < L PROVE d = E[n + 2]
    OBVIOUS
  <2>2. k + 2 \in 1..L /\ from + (k + 2) = n + 2
    BY <2>1, <1>4, <1>7, <1>8
  <2>3. buf[k + 2] = E[from + (k + 2)]
    BY <2>2, <1>6
  <2>4. QED
    BY <2>2, <2>3, <1>7 DEF d
<1>12. k + 1 = L /\ L = m => d = E[from + L - Header + 1]
  <2>1. k + 1 = L => k + 2 = L + 1
    BY <1>4, <1>7
  <2>2. QED
    BY <2>1, <1>6, <1>7 DEF d
<1> DEFINE two == IF k + 2 < L THEN n + 2 ELSE from + L
<1>13. /\ c = "CR" /\ d = "NUL" => Progress(file, two, Append(stored, "CR"))
       /\ c = "CR" /\ d = "LF" => Progress(file, two, Append(stored, "LF"))
       /\ c = "CR" /\ d \notin {"NUL", "LF"} => Progress(file, n + 1, Append(stored, "CR"))
       /\ c # "CR" => Progress(file, n + 1, Append(stored, c))
  <2>1. InLoop(file, from, L, k, n, stored, c, d)
    BY <1>1, <1>6, <1>8, <1>9, <1>10, <1>11, <1>12 DEF InLoop, E, m
  <2>2. file \in Seq(Octets) /\ Boundary(from) /\ L \in 0..MAXBUFLEN
    BY <1>3, <1>5 DEF m
  <2>3. QED
    BY <2>1, <2>2, Advancing
<1>14. Size' = L /\ Start' = from
  BY <1>1, <1>4, <1>5 DEF Size, Start
<1>15. At' = IF numbytes' < L THEN from + numbytes' ELSE from + L
  BY <1>1, <1>6, <1>14 DEF At
<1>16. /\ numbytes' = numbytes + 2 => At' = two
       /\ numbytes' = numbytes + 1 => At' = n + 1
  <2>1. numbytes' = numbytes + 2 => At' = two
    BY <1>4, <1>7, <1>8, <1>15
  <2>2. numbytes' = numbytes + 1 => At' = n + 1
    BY <1>4, <1>7, <1>8, <1>15
  <2>3. QED
    BY <2>1, <2>2
<1>17. PICK x \in Octets : stored' = Append(stored, x) /\ x # "FF"
  <2>1. "CR" \in Octets /\ "LF" \in Octets
    BY DEF Octets
  <2>2. QED
    BY <2>1, <1>1, <1>2, <1>10
<1>18. /\ stored' \in Seq(Octets) /\ Len(stored') = Len(stored) + 1 /\ Len(stored) \in Nat
       /\ \A i \in 1..Len(stored) : stored'[i] = stored[i]
       /\ stored'[Len(stored) + 1] = x
  BY <1>3, <1>17, Appending, Positions
<1>19. Typed'
  BY <1>1, <1>2, <1>3, <1>18 DEF Typed
<1>20. Blocks'
  <2>1. Size' = Size /\ Start' = Start /\ Form' = Form
    BY <1>3, <1>4, <1>5, <1>14
  <2>2. QED
    BY <2>1, <1>1 DEF Blocks
<1>21. Writing'
  BY <1>1, <1>2, <1>13, <1>16 DEF Writing
<1>22. Clean'
  <2>1. ASSUME NEW q \in (from + 1)..At' PROVE E[q] # "FF"
    <3>1. E[n + 1] # "FF"
      BY <1>1, <1>10
    <3>2. CASE numbytes' = numbytes + 1
      <4>1. q \in (from + 1)..n \/ q = n + 1
        BY <2>1, <3>2, <1>8, <1>16
      <4>2. QED
        BY <4>1, <3>1, <1>9
    <3>3. CASE numbytes' = numbytes + 2 /\ d \in {"NUL", "LF"}
      <4>1. q \in (from + 1)..n \/ q = n + 1 \/ (k + 1 < L /\ q = n + 2)
        BY <2>1, <3>3, <1>4, <1>7, <1>8, <1>16
      <4>2. QED
        BY <4>1, <3>1, <3>3, <1>9, <1>11
    <3>4. QED
      BY <3>2, <3>3, <1>2
  <2>2. \A i \in 1..Len(stored') : stored'[i] # "FF"
    <3>1. \A i \in 1..Len(stored') : i \in 1..Len(stored) \/ i = Len(stored) + 1
      BY <1>18
    <3>2. \A i \in 1..Len(stored) : stored[i] # "FF"
      BY <1>1 DEF Clean
    <3>3. QED
      BY <3>1, <3>2, <1>17, <1>18
  <2>3. QED
    BY <2>1, <2>2, <1>3, <1>14 DEF Clean
<1>23. StoredExactly' /\ Reading' /\ ReadExactly'
  BY <1>1 DEF StoredExactly, Reading, ReadExactly
<1>24. QED
  BY <1>19, <1>20, <1>21, <1>22, <1>23 DEF IInv

\* In octet mode a block is stored as it is.
LEMMA WritesBlock == ASSUME IInv, WriteBlock PROVE IInv'
<1>1. /\ Typed /\ Blocks /\ Writing /\ Clean /\ Reading
      /\ pc = "write" /\ pc' = "write" /\ mode = "octet" /\ numbytes < Len(buf) - 1
      /\ file' = file /\ mode' = mode /\ sent' = sent /\ buf' = buf /\ pos' = pos
      /\ nextchar' = nextchar /\ block' = block /\ blocks' = blocks
      /\ stored' = stored \o Front(buf) /\ numbytes' = Len(buf) - 1
  BY DEF IInv, WriteBlock, request, reading
<1>2. /\ file \in Seq(Octets) /\ stored \in Seq(Octets) /\ buf \in Seq(Octets)
      /\ numbytes \in Nat /\ sent \in Nat
      /\ Form = file /\ Form' = file /\ Len(file) \in Nat /\ Len(buf) \in Nat
      /\ \A j \in 1..Len(file) : file[j] \in Octets
      /\ \A j \in 1..Len(buf) : buf[j] \in Octets
  BY <1>1, Positions DEF Typed, Form
<1>3. PICK L \in Nat : L = Size /\ Len(buf) = L + 1
  BY <1>1, <1>2 DEF Blocks, Size
<1>4. PICK from \in Nat : from = Start
  BY <1>1 DEF Blocks
<1>5. /\ from + L = sent /\ from + L <= Len(file) /\ numbytes = 0 /\ 0 < L
      /\ \A j \in 1..L : buf[j] = file[from + j]
  <2>1. from + L = sent
    BY <1>2, <1>3, <1>4 DEF Start
  <2>2. QED
    BY <2>1, <1>1, <1>2, <1>3, <1>4 DEF Blocks
<1>6. At = from /\ At' = sent /\ Size' = Size /\ Start' = Start
  BY <1>1, <1>3, <1>4, <1>5 DEF At, Size, Start
<1>7. stored = SubSeq(file, 1, from)
  BY <1>1, <1>6 DEF Writing
<1>8. /\ Len(stored) = from
      /\ \A j \in 1..from : stored[j] = file[j]
  BY <1>2, <1>5, <1>7, SubSeqProperties
<1>9. /\ Front(buf) \in Seq(Octets) /\ Len(Front(buf)) = L
      /\ \A j \in 1..L : Front(buf)[j] = buf[j]
  <2>1. Front(buf) = SubSeq(buf, 1, L)
    BY <1>3 DEF Front
  <2>2. \A j \in 1..L : buf[j] \in Octets
    BY <1>2, <1>3
  <2>3. QED
    BY <2>1, <2>2, SubSeqProperties
<1> DEFINE a == stored
           b == Front(buf)
<1>10. /\ stored' \in Seq(Octets) /\ Len(stored') = from + L
       /\ \A j \in 1..(from + L) : stored'[j] = IF j <= from THEN a[j] ELSE b[j - from]
  <2>1. a \in Seq(Octets) /\ b \in Seq(Octets) /\ Len(a) = from /\ Len(b) = L
    BY <1>2, <1>8, <1>9
  <2>2. stored' = a \o b
    BY <1>1
  <2> HIDE DEF a, b
  <2>3. /\ a \o b \in Seq(Octets) /\ Len(a \o b) = Len(a) + Len(b)
        /\ \A j \in 1..(Len(a) + Len(b)) :
                (a \o b)[j] = IF j <= Len(a) THEN a[j] ELSE b[j - Len(a)]
    BY <2>1, Joining
  <2>4. QED
    BY <2>1, <2>2, <2>3
<1>11. /\ SubSeq(file, 1, from + L) \in Seq(Octets) /\ Len(SubSeq(file, 1, from + L)) = from + L
       /\ \A j \in 1..(from + L) : SubSeq(file, 1, from + L)[j] = file[j]
  <2>1. \A j \in 1..(from + L) : file[j] \in Octets
    BY <1>2, <1>5
  <2>2. QED
    BY <2>1, SubSeqProperties
<1>12. ASSUME NEW j \in 1..(from + L) PROVE stored'[j] = file[j]
  <2>1. CASE j <= from
    BY <2>1, <1>8, <1>10
  <2>2. CASE ~ (j <= from)
    <3>1. j - from \in 1..L /\ from + (j - from) = j
      BY <2>2
    <3>2. QED
      BY <3>1, <2>2, <1>5, <1>9, <1>10
  <2>3. QED
    BY <2>1, <2>2
<1>13. stored' = SubSeq(file, 1, sent)
  BY <1>5, <1>10, <1>11, <1>12, SeqEqual
<1>14. Len(stored) <= Len(stored')
  BY <1>8, <1>10
<1>15. Typed'
  <2>1. pos' = 0 /\ 0 \in 0..Len(stored')
    BY <1>1, <1>10 DEF Reading
  <2>2. QED
    BY <2>1, <1>1, <1>2, <1>10 DEF Typed
<1>16. Blocks'
  BY <1>1, <1>2, <1>6, <1>3 DEF Blocks
<1>17. Writing' /\ Clean'
  BY <1>1, <1>6, <1>13 DEF Writing, Clean
<1>18. StoredExactly' /\ Reading' /\ ReadExactly'
  BY <1>1 DEF StoredExactly, Reading, ReadExactly
<1>19. QED
  BY <1>15, <1>16, <1>17, <1>18 DEF IInv

\* With all bytes on the way done, the whole file is.
LEMMA AllDone ==
    ASSUME NEW f \in Seq(Octets), NEW s, Progress(f, Len(Encoded(f)), s)
    PROVE  s = FlattenSeq([i \in DOMAIN f |-> Kept(f, i)])
<1>1. Len(f) \in Nat /\ Len(Encoded(f)) \in Nat
  BY Ends
<1>2. ASSUME NEW i \in 0..(Len(f) - 1) PROVE ~ Halfway(f, i, Len(Encoded(f)), s)
  <2>1. SUFFICES ASSUME Halfway(f, i, Len(Encoded(f)), s) PROVE FALSE
    OBVIOUS
  <2>2. Len(Encoded(f)) + 1 <= Len(Encoded(f))
    BY <2>1, SecondHalf
  <2>3. QED
    BY <2>2, <1>1
<1>3. PICK i \in 0..Len(f) : Len(Encoded(f)) = Off(f, i) /\ s = Upto(Parts(f), i)
  BY <1>2 DEF Progress
<1>4. i = Len(f)
  <2>1. SUFFICES ASSUME i # Len(f) PROVE FALSE
    OBVIOUS
  <2>2. PICK j \in 1..Len(f) : j - 1 = i
    <3>1. i + 1 \in 1..Len(f) /\ (i + 1) - 1 = i
      BY <2>1, <1>1
    <3>2. QED
      BY <3>1
  <2>3. /\ Off(f, j - 1) \in Nat /\ Off(f, j) <= Len(Encoded(f))
        /\ f[j] \in {"CR", "LF"} => Off(f, j) = Off(f, j - 1) + 2
        /\ f[j] \notin {"CR", "LF"} => Off(f, j) = Off(f, j - 1) + 1
    BY Places
  <2>4. QED
    BY <2>2, <2>3, <1>1, <1>3
<1>5. QED
  BY <1>3, <1>4, Ends

\* No byte, nothing.
LEMMA NoneYet ==
    ASSUME NEW S, NEW s \in Seq(S)
    PROVE  SubSeq(s, 1, 0) = <<>>
<1>1. SubSeq(s, 1, 0) \in Seq(S) /\ Len(SubSeq(s, 1, 0)) = 0
  BY SubSeqProperties
<1>2. QED
  BY <1>1, EmptySeq

LEMMA Returns == ASSUME IInv, Written PROVE IInv'
<1> DEFINE m == MAXBUFLEN
<1>1. /\ Typed /\ Blocks /\ Writing /\ Clean /\ Reading
      /\ pc = "write" /\ pc' = (IF Size < m THEN "read" ELSE "recv")
      /\ numbytes >= Size \/ GivesUp
      /\ file' = file /\ mode' = mode /\ sent' = sent /\ buf' = buf /\ numbytes' = numbytes
      /\ stored' = stored /\ pos' = pos
      /\ nextchar' = nextchar /\ block' = block /\ blocks' = blocks
  BY DEF IInv, Written, request, reading, Size
<1>2. /\ file \in Seq(Octets) /\ mode \in {"netascii", "octet"} /\ stored \in Seq(Octets)
      /\ numbytes \in Nat /\ sent \in Nat /\ m \in Nat \ {0}
  BY <1>1, NetasciiAssumption DEF Typed
<1>3. Form' = Form /\ Size' = Size /\ Start' = Start
  BY <1>1 DEF Form, Size, Start
<1>4. PICK L \in 0..m : L = Size
  BY <1>1 DEF Blocks
<1>5. PICK from \in Nat : from = Start /\ Boundary(from) /\ from + L = sent
  <2>1. Start \in Nat /\ Boundary(Start)
    BY <1>1 DEF Blocks
  <2>2. Start + L = sent
    BY <1>2, <1>4 DEF Start
  <2>3. QED
    BY <2>1, <2>2
<1>6. /\ sent <= Len(Form) /\ (L < m => sent = Len(Form))
      /\ \A j \in 1..L : buf[j] = Form[from + j]
  BY <1>1, <1>4, <1>5 DEF Blocks, m
<1>7. IF mode = "netascii" THEN Progress(file, sent, stored) ELSE stored = SubSeq(file, 1, sent)
  <2>1. CASE ~ (numbytes < L)
    <3>1. At = sent
      BY <2>1, <1>4 DEF At
    <3>2. QED
      BY <3>1, <1>1 DEF Writing
  <2>2. CASE numbytes < L
    <3>1. mode = "netascii" /\ buf[numbytes + 1] = "FF" /\ At = from + numbytes
      BY <2>2, <1>1, <1>2, <1>4, <1>5 DEF GivesUp, At
    <3>2. PICK k \in 0..(L - 1) : k = numbytes
      BY <2>2, <1>2, <1>4
    <3>3. PICK n \in Nat : n = from + k /\ At = n
      BY <3>1, <3>2
    <3>4. Form = Encoded(file)
      BY <3>1 DEF Form
    <3>5. Encoded(file)[n + 1] = "FF"
      <4>1. k + 1 \in 1..L /\ from + (k + 1) = n + 1
        BY <1>4, <3>2, <3>3
      <4>2. buf[k + 1] = Form[from + (k + 1)]
        BY <4>1, <1>6
      <4>3. QED
        BY <4>1, <4>2, <3>1, <3>2, <3>4
    <3>6. Progress(file, n, stored)
      BY <3>1, <3>3, <1>1 DEF Writing
    <3>7. from + L <= Len(Encoded(file)) /\ (L < MAXBUFLEN => from + L = Len(Encoded(file)))
      BY <3>4, <1>5, <1>6 DEF m
    <3>8. Progress(file, from + L, stored)
      <4>1. L \in 0..MAXBUFLEN
        BY DEF m
      <4>2. QED
        BY <4>1, <3>3, <3>5, <3>6, <3>7, <1>2, <1>5, GivingUp
    <3>9. QED
      BY <3>1, <3>8, <1>5
  <2>3. QED
    BY <2>1, <2>2
<1>8. Typed'
  BY <1>1 DEF Typed
<1>9. ReadExactly' /\ pc' # "write" /\ At' = sent
  BY <1>1 DEF ReadExactly, At
<1>10. Clean'
  BY <1>1, <1>9 DEF Clean
<1>11. CASE L < m
  <2>1. pc' = "read"
    BY <1>1, <1>4, <1>11
  <2>2. Blocks' /\ Writing'
    BY <2>1 DEF Blocks, Writing
  <2>3. StoredExactly'
    <3>1. CASE mode = "netascii"
      <4>1. Progress(file, Len(Encoded(file)), stored)
        BY <3>1, <1>6, <1>7, <1>11 DEF Form
      <4>2. stored = FlattenSeq([i \in DOMAIN file |-> Kept(file, i)])
        BY <4>1, <1>2, AllDone
      <4>3. QED
        BY <4>2, <3>1, <1>1 DEF StoredExactly
    <3>2. CASE mode = "octet"
      <4>1. stored = SubSeq(file, 1, Len(file))
        BY <3>2, <1>6, <1>7, <1>11 DEF Form
      <4>2. stored = file
        BY <4>1, <1>2, SubSeqFull
      <4>3. QED
        BY <4>2, <3>2, <1>1 DEF StoredExactly
    <3>3. QED
      BY <3>1, <3>2, <1>2
  <2>4. Reading'
    <3>1. pos = 0 /\ nextchar = None /\ block = <<>> /\ blocks = <<>>
      BY <1>1 DEF Reading
    <3>2. Taken = <<>>
      <4>1. <<>> \in Seq(Octets) /\ FlattenSeq(<<>>) = <<>>
        BY Flattening
      <4>2. Taken = <<>> \o <<>>
        BY <3>1, <4>1 DEF Taken
      <4>3. QED
        BY <4>1, <4>2, ConcatEmptySeq
    <3>3. Taken' = Taken
      BY <1>1 DEF Taken
    <3>4. Decoded(Taken) = SubSeq(stored, 1, pos)
      BY <3>1, <3>2, <1>2, NoneYet, Decoding
    <3>5. Len(block) <= MAXBUFLEN /\ Len(blocks) = 0
      BY <3>1, <1>2
    <3>6. QED
      BY <3>1, <3>3, <3>4, <3>5, <2>1, <1>1 DEF Reading
  <2>5. QED
    BY <2>2, <2>3, <2>4, <1>8, <1>9, <1>10 DEF IInv
<1>12. CASE L = m
  <2>1. pc' = "recv"
    BY <1>1, <1>2, <1>4, <1>12
  <2>2. Boundary(sent)
    <3>1. PICK b \in Nat : from = m * b
      BY <1>5 DEF Boundary
    <3>2. sent = m * (b + 1) /\ b + 1 \in Nat
      BY <3>1, <1>2, <1>5, <1>12
    <3>3. QED
      BY <3>2 DEF Boundary
  <2>3. Blocks'
    BY <2>1, <2>2, <1>1, <1>3, <1>6 DEF Blocks
  <2>4. Writing'
    BY <1>1, <1>7, <1>9 DEF Writing
  <2>5. StoredExactly' /\ Reading'
    BY <2>1, <1>1 DEF StoredExactly, Reading
  <2>6. QED
    BY <2>3, <2>4, <2>5, <1>8, <1>9, <1>10 DEF IInv
<1>13. QED
  BY <1>2, <1>11, <1>12

\* The first bytes, and one more.
LEMMA OneMore ==
    ASSUME NEW S, NEW s \in Seq(S), NEW p \in 0..(Len(s) - 1)
    PROVE  /\ SubSeq(s, 1, p) \in Seq(S) /\ s[p + 1] \in S
           /\ SubSeq(s, 1, p + 1) = Append(SubSeq(s, 1, p), s[p + 1])
<1>1. Len(s) \in Nat /\ \A i \in 1..Len(s) : s[i] \in S
  BY Positions
<1>2. p \in Nat /\ p + 1 \in 1..Len(s) /\ \A i \in 1..(p + 1) : i \in 1..Len(s)
  BY <1>1
<1> DEFINE a == SubSeq(s, 1, p)
           b == SubSeq(s, 1, p + 1)
           c == Append(a, s[p + 1])
<1>3. /\ a \in Seq(S) /\ Len(a) = p /\ \A i \in 1..p : a[i] = s[i]
      /\ b \in Seq(S) /\ Len(b) = p + 1 /\ \A i \in 1..(p + 1) : b[i] = s[i]
  <2>1. \A i \in 1..p : s[i] \in S
    BY <1>1, <1>2
  <2>2. \A i \in 1..(p + 1) : s[i] \in S
    BY <1>1, <1>2
  <2>3. a \in Seq(S) /\ Len(a) = p /\ \A i \in 1..p : a[i] = s[i]
    BY <2>1, <1>2, SubSeqProperties
  <2>4. b \in Seq(S) /\ Len(b) = p + 1 /\ \A i \in 1..(p + 1) : b[i] = s[i]
    BY <2>2, <1>2, SubSeqProperties
  <2>5. QED
    BY <2>3, <2>4
<1>4. s[p + 1] \in S
  BY <1>1, <1>2
<1> HIDE DEF a, b
<1>5. /\ c \in Seq(S) /\ Len(c) = p + 1
      /\ \A i \in 1..p : c[i] = a[i]
      /\ c[p + 1] = s[p + 1]
  BY <1>3, <1>4, Appending
<1> HIDE DEF c
<1>6. ASSUME NEW i \in 1..(p + 1) PROVE b[i] = c[i]
  <2>1. b[i] = s[i]
    BY <1>3
  <2>2. CASE i \in 1..p
    BY <2>1, <2>2, <1>3, <1>5
  <2>3. CASE i = p + 1
    BY <2>1, <2>3, <1>5
  <2>4. QED
    BY <2>2, <2>3, <1>2
<1>7. b = c
  BY <1>3, <1>5, <1>6, SeqEqual
<1>8. QED
  BY <1>3, <1>4, <1>7 DEF a, b, c

\* A byte that is not of a pair is decoded as it is, a pair as the line end it stands for.
LEMMA Decodings ==
    ASSUME NEW s \in Seq(Octets)
    PROVE  /\ \A x \in Octets \ {"CR"} : Decode(s, x) = Append(s, x)
           /\ Decode(Decode(s, "CR"), "LF") = Append(s, "LF")
           /\ Decode(Decode(s, "CR"), "NUL") = Append(s, "CR")
<1>1. s # <<>> => Last(s) \in Octets
  <2>1. SUFFICES ASSUME s # <<>> PROVE s[Len(s)] \in Octets
    BY DEF Last
  <2>2. Len(s) \in 1..Len(s)
    BY <2>1, Positions
  <2>3. QED
    BY <2>2, Positions
<1>2. "pending" \notin Octets
  BY DEF Octets
<1>3. ~ (s # <<>> /\ Last(s) = "pending")
  BY <1>1, <1>2
<1>4. ASSUME NEW x \in Octets \ {"CR"} PROVE Decode(s, x) = Append(s, x)
  BY <1>3 DEF Decode
<1>5. Decode(s, "CR") = Append(s, "pending")
  BY <1>3 DEF Decode
<1> DEFINE t == Append(s, "pending")
           U == Octets \cup {"pending"}
<1>6. t # <<>> /\ Last(t) = "pending" /\ Front(t) = s
  <2>1. s \in Seq(U) /\ "pending" \in U
    <3>1. DOMAIN s = 1..Len(s) /\ Len(s) \in Nat /\ \A i \in 1..Len(s) : s[i] \in Octets
      BY Positions
    <3>2. s \in [1..Len(s) -> U]
      <4>1. s = [i \in 1..Len(s) |-> s[i]]
        BY <3>1
      <4>2. \A i \in 1..Len(s) : s[i] \in U
        BY <3>1
      <4>3. QED
        BY <4>1, <4>2
    <3>3. QED
      BY <3>1, <3>2, IsASeq
  <2> HIDE DEF U
  <2>2. /\ t \in Seq(U) /\ Len(t) = Len(s) + 1 /\ t # <<>>
        /\ \A i \in 1..Len(s) : t[i] = s[i]
        /\ t[Len(s) + 1] = "pending"
    BY <2>1, Appending
  <2>3. Len(s) \in Nat /\ s = SubSeq(s, 1, Len(s))
    BY <2>1, Positions, SubSeqFull
  <2> HIDE DEF t
  <2>4. Last(t) = "pending" /\ Front(t) = SubSeq(t, 1, Len(s))
    BY <2>2, <2>3 DEF Last, Front
  <2>5. SubSeq(t, 1, Len(s)) = s
    <3>1. \A i \in 1..Len(s) : t[i] \in U
      BY <2>2, <2>3, Positions
    <3>2. /\ SubSeq(t, 1, Len(s)) \in Seq(U) /\ Len(SubSeq(t, 1, Len(s))) = Len(s)
          /\ \A i \in 1..Len(s) : SubSeq(t, 1, Len(s))[i] = t[i]
      BY <3>1, <2>3, SubSeqProperties
    <3>3. \A i \in 1..Len(s) : SubSeq(t, 1, Len(s))[i] = s[i]
      BY <3>2, <2>2
    <3>4. QED
      BY <3>2, <3>3, <2>1, SeqEqual
  <2>6. QED
    BY <2>2, <2>4, <2>5
<1> HIDE DEF t
<1>7. Decode(t, "LF") = Append(s, "LF") /\ Decode(t, "NUL") = Append(s, "CR")
  BY <1>6 DEF Decode
<1>8. QED
  BY <1>4, <1>5, <1>7 DEF t

LEMMA Reads == ASSUME IInv, ReadByte PROVE IInv'
<1> DEFINE c == stored[pos + 1]
           D == SubSeq(stored, 1, pos)
<1>1. /\ Typed /\ Blocks /\ Writing /\ Clean /\ Reading /\ StoredExactly
      /\ pc = "read" /\ pc' = "read" /\ Len(block) < MAXBUFLEN
      /\ file' = file /\ mode' = mode /\ sent' = sent /\ buf' = buf /\ numbytes' = numbytes
      /\ stored' = stored /\ blocks' = blocks
  BY DEF IInv, ReadByte, request
<1>2. \/ nextchar # None /\ block' = Append(block, nextchar) /\ nextchar' = None
            /\ pos' = pos + 0
      \/ /\ nextchar = None /\ pos < Len(stored) /\ pos' = pos + 1
         /\ \/ c = "LF" /\ block' = Append(block, "CR") /\ nextchar' = "LF"
            \/ c = "CR" /\ block' = Append(block, "CR") /\ nextchar' = "NUL"
            \/ c \notin {"CR", "LF", "FF"} /\ block' = Append(block, c) /\ nextchar' = None
  BY DEF ReadByte, fill
<1>3. /\ stored \in Seq(Octets) /\ pos \in 0..Len(stored) /\ Len(stored) \in Nat
      /\ nextchar \in {None, "LF", "NUL"}
      /\ block \in Seq(Octets) /\ Len(block) \in Nat /\ blocks \in Seq(Seq(Octets))
      /\ "CR" \in Octets /\ "LF" \in Octets /\ "NUL" \in Octets
  BY <1>1, Positions DEF Typed, Octets
<1>4. /\ Decoded(IF nextchar = None THEN Taken ELSE Append(Taken, nextchar)) = D
      /\ \A i \in 1..pos : stored[i] # "FF"
      /\ Len(block) <= MAXBUFLEN
      /\ \A k \in 1..Len(blocks) : Len(blocks[k]) = MAXBUFLEN
  BY <1>1 DEF Reading
<1>5. FlattenSeq(blocks) \in Seq(Octets) /\ Taken \in Seq(Octets)
  <2>1. FlattenSeq(blocks) \in Seq(Octets)
    BY <1>3, Flattening
  <2>2. QED
    BY <2>1, <1>3, ConcatProperties DEF Taken
<1>6. ASSUME NEW x \in Octets, block' = Append(block, x)
      PROVE  /\ block' \in Seq(Octets) /\ Len(block') = Len(block) + 1
             /\ Taken' = Append(Taken, x) /\ Append(Taken, x) \in Seq(Octets)
  <2> DEFINE g == FlattenSeq(blocks)
  <2>1. block' \in Seq(Octets) /\ Len(block') = Len(block) + 1
    BY <1>3, <1>6, Appending
  <2>2. Taken' = g \o block'
    BY <1>1 DEF Taken
  <2>3. g \o Append(block, x) = Append(g \o block, x)
    <3> DEFINE y == <<x>>
    <3>1. /\ y \in Seq(Octets) /\ g \in Seq(Octets) /\ g \o block \in Seq(Octets)
          /\ block \in Seq(Octets)
      BY <1>3, <1>5 DEF Taken
    <3>2. Append(block, x) = block \o y /\ Append(g \o block, x) = (g \o block) \o y
      BY <3>1, <1>3, AppendIsConcat
    <3> HIDE DEF g, y
    <3>3. (g \o block) \o y = g \o (block \o y)
      <4>1. Joined(Joined(g, block), y) = Joined(g, Joined(block, y))
        BY <3>1, Regrouping
      <4>2. QED
        BY <4>1 DEF Joined
    <3>4. QED
      BY <3>2, <3>3
  <2>4. Append(Taken, x) \in Seq(Octets)
    BY <1>5, Appending
  <2>5. QED
    BY <2>1, <2>2, <2>3, <2>4, <1>6 DEF Taken
<1>7. PICK x \in Octets : block' = Append(block, x)
  BY <1>2, <1>3, OneMore
<1>8. D \in Seq(Octets)
  <2>1. \A i \in 1..pos : stored[i] \in Octets
    BY <1>3, Positions
  <2>2. QED
    BY <2>1, <1>3, SubSeqProperties
<1>9. pos < Len(stored) =>
        c \in Octets /\ SubSeq(stored, 1, pos + 1) = Append(D, c)
  <2>1. pos < Len(stored) => pos \in 0..(Len(stored) - 1)
    BY <1>3
  <2>2. QED
    BY <2>1, <1>3, OneMore
<1> HIDE DEF c, D
<1>10. /\ Decoded(IF nextchar' = None THEN Taken' ELSE Append(Taken', nextchar'))
            = SubSeq(stored, 1, pos')
       /\ \A i \in 1..pos' : stored[i] # "FF"
       /\ pos' \in 0..Len(stored) /\ nextchar' \in {None, "LF", "NUL"}
  <2>1. CASE nextchar # None /\ block' = Append(block, nextchar) /\ nextchar' = None
                /\ pos' = pos + 0
    <3>1. nextchar \in Octets /\ pos' = pos
      BY <2>1, <1>3
    <3>2. Taken' = Append(Taken, nextchar)
      BY <2>1, <3>1, <1>6
    <3>3. QED
      BY <2>1, <3>1, <3>2, <1>3, <1>4 DEF D
  <2>2. CASE /\ nextchar = None /\ pos < Len(stored) /\ pos' = pos + 1
             /\ \/ c = "LF" /\ block' = Append(block, "CR") /\ nextchar' = "LF"
                \/ c = "CR" /\ block' = Append(block, "CR") /\ nextchar' = "NUL"
                \/ c \notin {"CR", "LF", "FF"} /\ block' = Append(block, c) /\ nextchar' = None
    <3>1. Decoded(Taken) = D /\ SubSeq(stored, 1, pos') = Append(D, c)
      BY <2>2, <1>4, <1>9
    <3>2. c # "FF" /\ c \in Octets
      BY <2>2, <1>9
    <3>3. pos' \in 0..Len(stored) /\ \A i \in 1..pos' : stored[i] # "FF"
      <4>1. \A i \in 1..pos' : i \in 1..pos \/ i = pos + 1
        BY <2>2, <1>3
      <4>2. pos' \in 0..Len(stored)
        BY <2>2, <1>3
      <4>3. QED
        BY <4>1, <4>2, <3>2, <1>4 DEF c
    <3>4. CASE c \in {"LF", "CR"}
      <4>1. Taken' = Append(Taken, "CR") /\ Append(Taken, "CR") \in Seq(Octets)
        BY <3>4, <2>2, <1>3, <1>6
      <4>2. Decoded(Taken') = Decode(D, "CR")
        BY <4>1, <3>1, <1>3, <1>5, Decoding
      <4>3. nextchar' = (IF c = "LF" THEN "LF" ELSE "NUL") /\ nextchar' \in Octets
        BY <3>4, <2>2, <1>3
      <4>4. Decoded(Append(Taken', nextchar')) = Decode(Decode(D, "CR"), nextchar')
        BY <4>1, <4>2, <4>3, Decoding
      <4>5. Decode(Decode(D, "CR"), nextchar') = Append(D, c)
        BY <4>3, <3>4, <1>8, Decodings
      <4>6. nextchar' # None /\ nextchar' \in {None, "LF", "NUL"}
        BY <4>3 DEF None
      <4>7. QED
        BY <4>4, <4>5, <4>6, <3>1, <3>3
    <3>5. CASE c \notin {"LF", "CR"}
      <4>1. nextchar' = None /\ block' = Append(block, c)
        BY <3>5, <2>2
      <4>2. Taken' = Append(Taken, c)
        BY <4>1, <3>2, <1>6
      <4>3. Decoded(Taken') = Decode(D, c)
        BY <4>2, <3>1, <3>2, <1>5, Decoding
      <4>4. Decode(D, c) = Append(D, c)
        BY <3>2, <3>5, <1>8, Decodings
      <4>5. QED
        BY <4>1, <4>3, <4>4, <3>1, <3>3
    <3>6. QED
      BY <3>4, <3>5
  <2>3. QED
    BY <2>1, <2>2, <1>2
<1>11. block' \in Seq(Octets) /\ Len(block') <= MAXBUFLEN
  <2>1. block' \in Seq(Octets) /\ Len(block') = Len(block) + 1 /\ MAXBUFLEN \in Nat
    BY <1>6, <1>7, NetasciiAssumption
  <2>2. QED
    BY <2>1, <1>1, <1>3
<1>12. Typed'
  BY <1>1, <1>10, <1>11 DEF Typed
<1>13. Reading'
  BY <1>1, <1>4, <1>10, <1>11 DEF Reading
<1>14. Blocks' /\ Writing' /\ ReadExactly'
  BY <1>1 DEF Blocks, Writing, ReadExactly
<1>15. Clean'
  BY <1>1 DEF Clean
<1>16. StoredExactly'
  BY <1>1 DEF StoredExactly
<1>17. QED
  BY <1>12, <1>13, <1>14, <1>15, <1>16 DEF IInv

\* The first byte 0xFF of a file.
LEMMA FirstFF ==
    ASSUME NEW s \in Seq(Octets)
    PROVE  LET clean == SelectInSeq(s, LAMBDA b : b = "FF") IN
           /\ (\A i \in 1..Len(s) : s[i] # "FF") => clean = 0
           /\ \A p \in 0..(Len(s) - 1) :
                s[p + 1] = "FF" /\ (\A i \in 1..p : s[i] # "FF") => clean = p + 1
<1> DEFINE I == {i \in 1..Len(s) : s[i] = "FF"}
           clean == SelectInSeq(s, LAMBDA b : b = "FF")
<1>1. clean = IF I # {} THEN Min(I) ELSE 0
  BY DEF SelectInSeq
<1>2. Len(s) \in Nat
  BY Positions
<1>3. (\A i \in 1..Len(s) : s[i] # "FF") => clean = 0
  BY <1>1
<1>4. ASSUME NEW p \in 0..(Len(s) - 1), s[p + 1] = "FF", \A i \in 1..p : s[i] # "FF"
      PROVE  clean = p + 1
  <2>1. p + 1 \in I /\ p + 1 \in Nat
    BY <1>2, <1>4
  <2>2. ASSUME NEW i \in I PROVE i \in Nat /\ p + 1 <= i
    <3>1. i \in 1..Len(s) /\ ~ (i \in 1..p)
      BY <1>4
    <3>2. QED
      BY <3>1, <1>2
  <2> HIDE DEF I
  <2>3. Min(I) = CHOOSE x \in I : \A y \in I : x <= y
    BY DEF Min
  <2>4. \A y \in I : p + 1 <= y
    BY <2>2
  <2>5. \E x \in I : \A y \in I : x <= y
    BY <2>1, <2>4
  <2>6. Min(I) \in I /\ \A y \in I : Min(I) <= y
    BY <2>3, <2>5
  <2>7. Min(I) <= p + 1 /\ p + 1 <= Min(I) /\ Min(I) \in Nat
    BY <2>1, <2>2, <2>6
  <2>8. QED
    BY <1>1, <2>1, <2>7
<1>5. QED
  BY <1>3, <1>4

LEMMA Sends == ASSUME IInv, Send PROVE IInv'
<1> DEFINE m == MAXBUFLEN
<1>1. /\ Typed /\ Reading /\ StoredExactly /\ Clean /\ pc = "read"
      /\ Len(block) = m \/ AtEOF
      /\ blocks' = Append(blocks, block) /\ block' = <<>> /\ nextchar' = nextchar
      /\ pos' = IF Len(block) < m /\ pos < Len(stored) THEN pos + 1 ELSE pos
      /\ pc' = IF Len(block) < m THEN "done" ELSE "read"
      /\ file' = file /\ mode' = mode /\ sent' = sent /\ buf' = buf /\ numbytes' = numbytes
      /\ stored' = stored
  BY DEF IInv, Send, request, Pending
<1>2. /\ stored \in Seq(Octets) /\ pos \in 0..Len(stored) /\ Len(stored) \in Nat
      /\ block \in Seq(Octets) /\ Len(block) \in Nat
      /\ blocks \in Seq(Seq(Octets)) /\ Len(blocks) \in Nat
      /\ m \in Nat \ {0}
  BY <1>1, Positions, NetasciiAssumption DEF Typed
<1>3. /\ Decoded(IF nextchar = None THEN Taken ELSE Append(Taken, nextchar))
            = SubSeq(stored, 1, pos)
      /\ \A i \in 1..pos : stored[i] # "FF"
      /\ Len(block) <= m
      /\ \A k \in 1..Len(blocks) : Len(blocks[k]) = m
  BY <1>1 DEF Reading
<1>4. /\ blocks' \in Seq(Seq(Octets)) /\ Len(blocks') = Len(blocks) + 1
      /\ DOMAIN blocks' = 1..Len(blocks')
      /\ \A k \in 1..Len(blocks) : blocks'[k] = blocks[k]
      /\ blocks'[Len(blocks) + 1] = block
  <2> DEFINE T == Seq(Octets)
  <2>1. blocks \in Seq(T) /\ block \in T
    BY <1>2
  <2> HIDE DEF T
  <2>2. /\ Append(blocks, block) \in Seq(T) /\ Len(Append(blocks, block)) = Len(blocks) + 1
        /\ \A k \in 1..Len(blocks) : Append(blocks, block)[k] = blocks[k]
        /\ Append(blocks, block)[Len(blocks) + 1] = block
    BY <2>1, Appending
  <2>3. DOMAIN Append(blocks, block) = 1..Len(Append(blocks, block))
    BY <2>2, Positions
  <2>4. QED
    BY <2>2, <2>3, <1>1 DEF T
<1>5. FlattenSeq(blocks') = Taken /\ Taken \in Seq(Octets)
  <2>1. FlattenSeq(blocks) \in Seq(Octets)
    BY <1>2, Flattening
  <2>2. FlattenSeq(Append(blocks, block)) = FlattenSeq(blocks) \o block
    BY <1>2, Flattening
  <2>3. QED
    BY <2>1, <2>2, <1>1, <1>2, ConcatProperties DEF Taken
<1>6. block' \in Seq(Octets) /\ Len(block') = 0
  BY <1>1
<1>7. Typed'
  <2>1. pos' \in 0..Len(stored)
    BY <1>1, <1>2
  <2>2. QED
    BY <2>1, <1>1, <1>4, <1>6 DEF Typed
<1>8. Blocks' /\ Writing' /\ Clean' /\ StoredExactly'
  BY <1>1 DEF Blocks, Writing, Clean, StoredExactly
<1>9. CASE Len(block) = m
  <2>1. pc' = "read" /\ pos' = pos
    BY <1>1, <1>2, <1>9
  <2>2. Taken' = Taken
    <3>1. Taken' = FlattenSeq(blocks') \o <<>>
      BY <1>1 DEF Taken
    <3>2. QED
      BY <3>1, <1>5, ConcatEmptySeq
  <2>3. \A k \in 1..Len(blocks') : Len(blocks'[k]) = m
    <3>1. \A k \in 1..Len(blocks') : k \in 1..Len(blocks) \/ k = Len(blocks) + 1
      BY <1>2, <1>4
    <3>2. QED
      BY <3>1, <1>3, <1>4, <1>9
  <2>4. Len(block') <= m
    BY <1>2, <1>6
  <2>5. Reading'
    BY <2>1, <2>2, <2>3, <2>4, <1>1, <1>3 DEF Reading
  <2>6. ReadExactly'
    BY <2>1 DEF ReadExactly
  <2>7. QED
    BY <2>5, <2>6, <1>7, <1>8 DEF IInv
<1>10. CASE Len(block) < m
  <2>1. /\ pc' = "done" /\ nextchar = None
        /\ pos < Len(stored) => stored[pos + 1] = "FF"
    BY <1>1, <1>2, <1>10 DEF AtEOF
  <2> DEFINE clean == SelectInSeq(stored, LAMBDA b : b = "FF")
  <2>2. Decoded(FlattenSeq(blocks')) =
            IF clean = 0 THEN stored ELSE SubSeq(stored, 1, clean - 1)
    <3>1. Decoded(FlattenSeq(blocks')) = SubSeq(stored, 1, pos)
      BY <2>1, <1>3, <1>5
    <3>2. CASE pos = Len(stored)
      <4>1. clean = 0
        BY <3>2, <1>2, <1>3, FirstFF
      <4>2. SubSeq(stored, 1, Len(stored)) = stored
        BY <1>2, SubSeqFull
      <4>3. QED
        BY <4>1, <4>2, <3>1, <3>2
    <3>3. CASE pos # Len(stored)
      <4>1. pos \in 0..(Len(stored) - 1) /\ pos < Len(stored)
        BY <3>3, <1>2
      <4>2. clean = pos + 1
        BY <4>1, <2>1, <1>2, <1>3, FirstFF
      <4> HIDE DEF clean
      <4>3. clean # 0 /\ clean - 1 = pos
        BY <4>2, <1>2
      <4>4. QED
        BY <4>3, <3>1
    <3>4. QED
      BY <3>2, <3>3
  <2> HIDE DEF clean
  <2>3. ASSUME NEW k \in DOMAIN blocks' PROVE Len(blocks'[k]) = m <=> k < Len(blocks')
    <3>1. CASE k \in 1..Len(blocks)
      <4>1. Len(blocks'[k]) = m
        BY <3>1, <1>3, <1>4
      <4>2. k < Len(blocks')
        BY <3>1, <1>2, <1>4
      <4>3. QED
        BY <4>1, <4>2
    <3>2. CASE k = Len(blocks) + 1
      <4>1. ~ (k < Len(blocks')) /\ Len(blocks'[k]) # m
        BY <3>2, <1>2, <1>4, <1>10
      <4>2. QED
        BY <4>1
    <3>3. QED
      BY <3>1, <3>2, <1>2, <1>4
  <2>4. ReadExactly'
    <3>1. \A k \in DOMAIN blocks' : Len(blocks'[k]) = m <=> k < Len(blocks')
      BY <2>3
    <3>2. stored' = stored
      BY <1>1
    <3>3. QED
      BY <2>2, <3>1, <3>2 DEF ReadExactly, clean, SelectInSeq
  <2>5. Reading'
    BY <2>1 DEF Reading
  <2>6. QED
    BY <2>4, <2>5, <1>7, <1>8 DEF IInv
<1>11. QED
  BY <1>2, <1>3, <1>9, <1>10

\* The invariant holds.
LEMMA Invariance == Spec => []IInv
<1>1. ASSUME IInv, [Next]_vars PROVE IInv'
  <2>1. CASE Receive    BY <2>1, <1>1, Receives
  <2>2. CASE WriteByte  BY <2>2, <1>1, Writes
  <2>3. CASE WriteBlock BY <2>3, <1>1, WritesBlock
  <2>4. CASE Written    BY <2>4, <1>1, Returns
  <2>5. CASE ReadByte   BY <2>5, <1>1, Reads
  <2>6. CASE Send       BY <2>6, <1>1, Sends
  <2>7. CASE UNCHANGED vars
    <3>1. /\ pc' = pc /\ file' = file /\ mode' = mode /\ sent' = sent /\ buf' = buf
          /\ numbytes' = numbytes /\ stored' = stored /\ pos' = pos
          /\ nextchar' = nextchar /\ block' = block /\ blocks' = blocks
      BY <2>7 DEF vars
    <3>2. /\ Size' = Size /\ Start' = Start /\ Form' = Form /\ Taken' = Taken
      BY <3>1 DEF Size, Start, Form, Taken
    <3>3. At' = At
      BY <3>1, <3>2 DEF At
    <3>4. Typed' /\ Blocks' /\ Writing' /\ Clean'
      BY <3>1, <3>2, <3>3, <1>1 DEF IInv, Typed, Blocks, Writing, Clean
    <3>5. StoredExactly' /\ Reading' /\ ReadExactly'
      BY <3>1, <3>2, <1>1 DEF IInv, StoredExactly, Reading, ReadExactly, SelectInSeq
    <3>6. QED
      BY <3>4, <3>5 DEF IInv
  <2>8. QED
    BY <2>1, <2>2, <2>3, <2>4, <2>5, <2>6, <2>7, <1>1 DEF Next
<1>2. QED
  BY <1>1, Starts, PTL DEF Spec

-----------------------------------------------------------------------------
(* The round trip *)

\* Without a byte 0xFF in the file there is none on the way, and nothing is lost.
LEMMA NoneLost ==
    ASSUME NEW f \in Seq(Octets), \A i \in 1..Len(f) : f[i] # "FF", NEW i \in 1..Len(f)
    PROVE  ~ Lost(f, Place(f, i))
<1> DEFINE E == Encoded(f)
<1>1. Len(E) \in Nat /\ Codes(f) \in Seq(Seq(Octets)) /\ Len(Codes(f)) = Len(f)
      /\ E = FlattenSeq(Codes(f))
  BY Ends, Coding
<1>2. ASSUME NEW q \in 1..Len(E) PROVE E[q] # "FF"
  <2>1. PICK at \in Nat : at = q - 1 /\ at < Len(E)
    BY <1>1
  <2>2. PICK j \in 1..Len(f) : Off(f, j - 1) <= at /\ at < Off(f, j)
    <3>1. \E j \in 1..Len(Codes(f)) :
            Len(Upto(Codes(f), j - 1)) <= at /\ at < Len(Upto(Codes(f), j))
      BY <1>1, <2>1, Covering
    <3>2. QED
      BY <3>1, <1>1 DEF Off
  <2>3. /\ Off(f, j - 1) \in Nat
        /\ f[j] \in {"CR", "LF"} =>
             /\ Off(f, j) = Off(f, j - 1) + 2
             /\ E[Off(f, j - 1) + 1] = "CR"
             /\ E[Off(f, j - 1) + 2] = IF f[j] = "LF" THEN "LF" ELSE "NUL"
        /\ f[j] \notin {"CR", "LF"} =>
             Off(f, j) = Off(f, j - 1) + 1 /\ E[Off(f, j - 1) + 1] = f[j]
    BY Places
  <2> HIDE DEF E
  <2>4. PICK o \in Nat : o = Off(f, j - 1)
    BY <2>3
  <2>5. CASE f[j] \in {"CR", "LF"}
    <3>1. q = o + 1 \/ q = o + 2
      <4>1. o <= at /\ at < o + 2
        BY <2>2, <2>3, <2>4, <2>5
      <4>2. QED
        BY <4>1, <2>1
    <3>2. QED
      BY <3>1, <2>3, <2>4, <2>5
  <2>6. CASE f[j] \notin {"CR", "LF"}
    <3>1. q = o + 1
      <4>1. o <= at /\ at < o + 1
        BY <2>2, <2>3, <2>4, <2>6
      <4>2. QED
        BY <4>1, <2>1
    <3>2. QED
      BY <3>1, <2>3, <2>4, <2>6
  <2>7. QED
    BY <2>5, <2>6
<1> HIDE DEF E
<1>3. Place(f, i) \in Nat /\ Place(f, i) <= Len(E)
  <2>1. /\ Off(f, i - 1) \in Nat /\ Place(f, i) = Off(f, i - 1) + 1
        /\ Off(f, i) <= Len(Encoded(f))
        /\ f[i] \in {"CR", "LF"} => Off(f, i) = Off(f, i - 1) + 2
        /\ f[i] \notin {"CR", "LF"} => Off(f, i) = Off(f, i - 1) + 1
    BY Places
  <2>2. QED
    BY <2>1, <1>1 DEF E
<1>4. \A q \in 1..Place(f, i) : q \in 1..Len(E)
  BY <1>1, <1>3
<1>5. QED
  BY <1>2, <1>4 DEF Lost, E

\* Without one, and without a line end cut, the server's file is the client's.
LEMMA Unchanged ==
    ASSUME NEW f \in Seq(Octets), \A i \in 1..Len(f) : f[i] # "FF" /\ ~ Cut(f, i)
    PROVE  FlattenSeq([i \in DOMAIN f |-> Kept(f, i)]) = f
<1> DEFINE T == {k \in Nat : k <= Len(f) => Upto(Parts(f), k) = SubSeq(f, 1, k)}
<1>1. Len(f) \in Nat
  BY Positions
<1>2. 0 \in T
  BY Ends, NoneYet
<1>3. ASSUME NEW k \in T PROVE k + 1 \in T
  <2>1. SUFFICES ASSUME k + 1 <= Len(f)
                 PROVE Upto(Parts(f), k + 1) = SubSeq(f, 1, k + 1)
    OBVIOUS
  <2>2. /\ k \in 0..(Len(f) - 1) /\ k + 1 \in 1..Len(f) /\ (k + 1) - 1 = k /\ k <= Len(f)
    BY <2>1, <1>1
  <2>3. Upto(Parts(f), k) = SubSeq(f, 1, k)
    BY <2>2
  <2>4. ~ Lost(f, Place(f, k + 1)) /\ ~ Cut(f, k + 1)
    BY <2>2, NoneLost
  <2>5. Upto(Parts(f), k + 1) = Append(Upto(Parts(f), k), f[k + 1])
    BY <2>2, <2>4, NextPart
  <2>6. QED
    BY <2>2, <2>3, <2>5, OneMore
<1> HIDE DEF T
<1>4. T = Nat
  <2>1. T \in SUBSET Nat
    BY DEF T
  <2>2. QED
    BY <2>1, <1>2, <1>3, Induction
<1>5. Upto(Parts(f), Len(f)) = SubSeq(f, 1, Len(f))
  BY <1>1, <1>4 DEF T
<1>6. QED
  BY <1>5, Ends, SubSeqFull

\* A line end cut makes it longer.
LEMMA Longer ==
    ASSUME NEW f \in Seq(Octets), \A i \in 1..Len(f) : f[i] # "FF",
           NEW cut \in 1..Len(f), Cut(f, cut)
    PROVE  Len(FlattenSeq([i \in DOMAIN f |-> Kept(f, i)])) > Len(f)
<1> DEFINE size(k) == Len(Upto(Parts(f), k))
           T == {k \in Nat : k <= Len(f) => /\ size(k) \in Nat /\ size(k) >= k
                                            /\ k >= cut => size(k) > k}
<1>1. Len(f) \in Nat
  BY Positions
<1>2. 0 \in T
  <2>1. size(0) = 0
    <3>1. Upto(Parts(f), 0) = <<>>
      BY Ends
    <3>2. QED
      BY <3>1
  <2>2. QED
    BY <2>1
<1>3. ASSUME NEW k \in T PROVE k + 1 \in T
  <2> DEFINE u == Upto(Parts(f), k)
             v == Upto(Parts(f), k + 1)
             e == CutEnd(f, Place(f, k + 1))
             c == IF f[k + 1] = "LF" THEN "LF" ELSE "NUL"
  <2>1. SUFFICES ASSUME k + 1 <= Len(f)
                 PROVE  /\ Len(v) \in Nat /\ Len(v) >= k + 1
                        /\ k + 1 >= cut => Len(v) > k + 1
    OBVIOUS
  <2>2. /\ k \in Nat /\ k + 1 \in 1..Len(f) /\ (k + 1) - 1 = k
        /\ Len(u) \in Nat /\ Len(u) >= k
        /\ k >= cut => Len(u) > k
    BY <2>1, <1>1
  <2>3. ~ Lost(f, Place(f, k + 1))
    BY <2>2, NoneLost
  <2>4. /\ u \in Seq(Octets) /\ f[k + 1] \in Octets
        /\ ~ Cut(f, k + 1) => v = Append(u, f[k + 1])
        /\ Cut(f, k + 1) => v = Append(u \o e, c) /\ u \o e \in Seq(Octets)
    BY <2>2, <2>3, NextPart
  <2>5. e = <<"LF">> \/ e = <<"CR">>
    BY <2>3 DEF CutEnd
  <2>6. c \in Octets
    BY DEF Octets
  <2> HIDE DEF u, v, e, c
  <2>7. CASE ~ Cut(f, k + 1)
    <3>1. Len(v) = Len(u) + 1
      BY <2>7, <2>4, Appending
    <3>2. k + 1 >= cut => k >= cut
      <4>1. k + 1 # cut
        BY <2>7
      <4>2. QED
        BY <4>1, <2>2
    <3>3. QED
      BY <3>1, <3>2, <2>2
  <2>8. CASE Cut(f, k + 1)
    <3>1. Len(v) = Len(u \o e) + 1
      BY <2>8, <2>4, <2>6, Appending
    <3>2. Len(u \o e) = Len(u) + 1
      <4>1. "LF" \in Octets /\ "CR" \in Octets
        BY DEF Octets
      <4>2. \A x \in Octets : <<x>> \in Seq(Octets) /\ Len(<<x>>) = 1
        OBVIOUS
      <4>3. e \in Seq(Octets) /\ Len(e) = 1 /\ u \in Seq(Octets)
        BY <4>1, <4>2, <2>4, <2>5
      <4>4. Len(u \o e) = Len(u) + Len(e)
        BY <4>3, Joining
      <4>5. QED
        BY <4>3, <4>4
    <3>3. QED
      BY <3>1, <3>2, <2>2
  <2>9. QED
    BY <2>7, <2>8
<1> HIDE DEF T
<1>4. T = Nat
  <2>1. T \in SUBSET Nat
    BY DEF T
  <2>2. QED
    BY <2>1, <1>2, <1>3, Induction
<1>5. Len(f) >= cut
  BY <1>1
<1>6. Len(Upto(Parts(f), Len(f))) > Len(f)
  BY <1>1, <1>4, <1>5 DEF T
<1>7. QED
  BY <1>6, Ends

\* What comes back, with the two properties of the transfers.
LEMMA ComesBack ==
    ASSUME Typed, Clean, StoredExactly, ReadExactly
    PROVE  RoundTrip
<1> SUFFICES ASSUME pc = "done" PROVE RoundTrip
  BY DEF RoundTrip
<1> DEFINE R == Decoded(FlattenSeq(blocks))
           clean == SelectInSeq(stored, LAMBDA b : b = "FF")
<1>1. /\ file \in Seq(Octets) /\ stored \in Seq(Octets) /\ mode \in {"netascii", "octet"}
      /\ Len(file) \in Nat /\ DOMAIN file = 1..Len(file) /\ Len(stored) \in Nat
  BY Positions DEF Typed
<1>2. R = IF clean = 0 THEN stored ELSE SubSeq(stored, 1, clean - 1)
  BY DEF ReadExactly
<1>3. stored = IF mode = "octet" THEN file
               ELSE FlattenSeq([i \in DOMAIN file |-> Kept(file, i)])
  BY DEF StoredExactly
<1>4. (\A i \in 1..Len(stored) : stored[i] # "FF") => clean = 0
  BY <1>1, FirstFF
<1> HIDE DEF R, clean
<1>5. CASE mode = "octet"
  <2>1. CASE \A i \in 1..Len(file) : file[i] # "FF"
    <3>1. R = file
      BY <2>1, <1>2, <1>3, <1>4, <1>5
    <3>2. QED
      BY <3>1, <2>1, <1>1, <1>5 DEF RoundTrip, R
  <2>2. CASE ~ \A i \in 1..Len(file) : file[i] # "FF"
    <3> DEFINE I == {i \in 1..Len(file) : file[i] = "FF"}
    <3>1. I \in SUBSET Nat /\ I # {}
      BY <2>2
    <3>2. PICK n \in I : \A i \in I : n <= i
      BY <3>1, Least
    <3>3. n \in 1..Len(file) /\ file[n] = "FF" /\ \A i \in 1..(n - 1) : file[i] # "FF"
      BY <3>2, <1>1
    <3>4. PICK p \in 0..(Len(file) - 1) : p + 1 = n
      <4>1. n - 1 \in 0..(Len(file) - 1) /\ (n - 1) + 1 = n
        BY <3>3, <1>1
      <4>2. QED
        BY <4>1
    <3>5. clean = p + 1
      <4>1. stored = file /\ stored[p + 1] = "FF" /\ \A i \in 1..p : stored[i] # "FF"
        BY <3>3, <3>4, <1>1, <1>3, <1>5
      <4>2. QED
        BY <4>1, <1>1, FirstFF DEF clean
    <3>6. R = SubSeq(file, 1, p)
      BY <3>4, <3>5, <1>1, <1>2, <1>3, <1>5
    <3>7. Len(R) = p
      <4>1. p \in Nat /\ \A i \in 1..p : file[i] \in Octets
        BY <3>4, <1>1, Positions
      <4>2. QED
        BY <4>1, <3>6, SubSeqProperties
    <3>8. R # file
      BY <3>4, <3>7, <1>1
    <3>9. ~ \A i \in DOMAIN file : file[i] # "FF"
      BY <2>2, <1>1
    <3>10. QED
      BY <3>8, <3>9 DEF RoundTrip, R
  <2>3. QED
    BY <2>1, <2>2
<1>6. CASE mode = "netascii"
  <2>1. \A i \in 1..Len(stored) : stored[i] # "FF"
    BY <1>6 DEF Clean
  <2>2. R = stored /\ stored = FlattenSeq([i \in DOMAIN file |-> Kept(file, i)])
    BY <2>1, <1>2, <1>3, <1>4, <1>6
  <2>3. CASE ~ \A i \in 1..Len(file) : file[i] # "FF"
    <3>1. stored # file
      BY <2>1, <2>3
    <3>2. QED
      BY <3>1, <2>2, <2>3, <1>1 DEF RoundTrip, R
  <2>4. CASE \A i \in 1..Len(file) : file[i] # "FF" /\ ~ Cut(file, i)
    <3>1. stored = file
      BY <2>2, <2>4, <1>1, Unchanged
    <3>2. QED
      BY <3>1, <2>2, <2>4, <1>1 DEF RoundTrip, R
  <2>5. ASSUME \A i \in 1..Len(file) : file[i] # "FF",
               NEW cut \in 1..Len(file), Cut(file, cut)
        PROVE  RoundTrip
    <3>1. Len(stored) > Len(file)
      BY <2>2, <2>5, <1>1, Longer
    <3>2. stored # file
      BY <3>1, <1>1
    <3>3. QED
      BY <3>2, <2>2, <2>5, <1>1, <1>6 DEF RoundTrip, R
  <2>6. QED
    BY <2>3, <2>4, <2>5
<1>7. QED
  BY <1>1, <1>5, <1>6

-----------------------------------------------------------------------------
(* The theorems *)

\* When the write transfer is over, the server's file is what StoredExactly says: the
\* client's file, but for line ends cut by the end of a block and for what follows a byte
\* 0xFF in its block.
THEOREM StoredIsExact == Spec => []StoredExactly
<1>1. IInv => StoredExactly
  BY DEF IInv
<1>2. QED
  BY <1>1, Invariance, PTL

\* What is read back is what is stored, up to the first byte 0xFF, in full blocks and a
\* short one; no line end is lost where the end of a block cuts it.
THEOREM ReadIsExact == Spec => []ReadExactly
<1>1. IInv => ReadExactly
  BY DEF IInv
<1>2. QED
  BY <1>1, Invariance, PTL

\* A client that writes a file and reads it back in netascii gets its file exactly when it
\* holds no byte 0xFF and, written in netascii, no line end cut by the end of a block.
THEOREM RoundTripIsExact == Spec => []RoundTrip
<1>1. IInv => RoundTrip
  BY ComesBack DEF IInv
<1>2. QED
  BY <1>1, Invariance, PTL
=============================================================================
