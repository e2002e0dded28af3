----------------------------- MODULE ListProofs -----------------------------
(***************************************************************************)
(* Facts about sequences that the proofs share: the elements of a queue,   *)
(* of the packets in flight or of a linked list after an element is added, *)
(* taken off or unlinked, and the number of nodes of a list that holds     *)
(* none twice; and about quotients and remainders.                         *)
(***************************************************************************)
EXTENDS SequencesExt, Integers, FiniteSets, SequenceTheorems, FiniteSetTheorems, TLAPS

\* Quotient and remainder.
LEMMA Dividing ==
    ASSUME NEW x \in Nat, NEW m \in Nat \ {0}
    PROVE  /\ x \div m \in Nat /\ x % m \in 0..(m - 1)
           /\ x = m * (x \div m) + (x % m)
           /\ \A q \in Nat, r \in 0..(m - 1) : x = m * q + r => x \div m = q /\ x % m = r
<1>1. x \div m \in Nat /\ x % m \in 0..(m - 1)
  OBVIOUS
<1>2. x = m * (x \div m) + (x % m)
  OBVIOUS
<1>3. ASSUME NEW q \in Nat, NEW r \in 0..(m - 1), x = m * q + r
      PROVE  x \div m = q /\ x % m = r
  BY <1>3
<1>4. QED
  BY <1>1, <1>2, <1>3

\* The elements of a sequence, by position.
LEMMA Positions ==
    ASSUME NEW S, NEW s \in Seq(S)
    PROVE  /\ DOMAIN s = 1..Len(s) /\ Len(s) \in Nat
           /\ Range(s) \subseteq S
           /\ \A i \in 1..Len(s) : s[i] \in S /\ s[i] \in Range(s)
           /\ \A x \in Range(s) : \E i \in 1..Len(s) : s[i] = x
           /\ s = <<>> <=> Len(s) = 0
           /\ s = <<>> <=> Range(s) = {}
<1>1. DOMAIN s = 1..Len(s) /\ Len(s) \in Nat
  BY LenProperties
<1>2. \A i \in 1..Len(s) : s[i] \in S /\ s[i] \in Range(s)
  BY <1>1, ElementOfSeq DEF Range
<1>3. \A x \in Range(s) : \E i \in 1..Len(s) : s[i] = x
  BY <1>1 DEF Range
<1>4. s = <<>> <=> Len(s) = 0
  BY EmptySeq
<1>5. s = <<>> <=> Range(s) = {}
  <2>1. CASE Len(s) = 0
    BY <2>1, <1>1, <1>4 DEF Range
  <2>2. CASE Len(s) # 0
    <3>1. 1 \in 1..Len(s)
      BY <2>2, <1>1
    <3>2. QED
      BY <3>1, <1>2, <2>2, <1>4
  <2>3. QED
    BY <2>1, <2>2
<1>6. Range(s) \subseteq S
  BY <1>2, <1>3
<1>7. QED
  BY <1>1, <1>2, <1>3, <1>4, <1>5, <1>6

\* The two operators on the elements of a sequence are the same.
LEMMA SameRange == \A s : ToSet(s) = Range(s)
  BY DEF ToSet, Range

\* Adding an element behind the others.
LEMMA Appending ==
    ASSUME NEW S, NEW s \in Seq(S), NEW x \in S
    PROVE  /\ Append(s, x) \in Seq(S)
           /\ Len(Append(s, x)) = Len(s) + 1
           /\ \A i \in 1..Len(s) : Append(s, x)[i] = s[i]
           /\ Append(s, x)[Len(s) + 1] = x
           /\ Append(s, x) # <<>>
           /\ Range(Append(s, x)) = Range(s) \cup {x}
           /\ IsInjective(s) /\ x \notin Range(s) => IsInjective(Append(s, x))
<1> DEFINE t == Append(s, x)
<1>1. /\ t \in Seq(S) /\ Len(t) = Len(s) + 1
      /\ \A i \in 1..Len(s) : t[i] = s[i]
      /\ t[Len(s) + 1] = x
  BY AppendProperties
<1> HIDE DEF t
<1>2. /\ DOMAIN s = 1..Len(s) /\ Len(s) \in Nat
      /\ DOMAIN t = 1..Len(t)
  BY <1>1, Positions
<1>3. \A i \in 1..Len(t) : i \in 1..Len(s) \/ i = Len(s) + 1
  BY <1>1, <1>2
<1>4. \A i \in 1..(Len(s) + 1) : i \in 1..Len(t)
  BY <1>1
<1>5. Range(t) = Range(s) \cup {x}
  <2>1. Range(t) \subseteq Range(s) \cup {x}
    BY <1>1, <1>2, <1>3 DEF Range
  <2>2. Range(s) \subseteq Range(t)
    <3>1. \A i \in 1..Len(s) : i \in 1..Len(t)
      BY <1>1, <1>2
    <3>2. QED
      BY <3>1, <1>1, <1>2 DEF Range
  <2>3. x \in Range(t)
    <3>1. Len(s) + 1 \in 1..Len(t)
      BY <1>1, <1>2
    <3>2. QED
      BY <3>1, <1>1, <1>2 DEF Range
  <2>4. QED
    BY <2>1, <2>2, <2>3
<1>6. ASSUME IsInjective(s), x \notin Range(s) PROVE IsInjective(t)
  BY <1>6, <1>1, <1>2, <1>3 DEF IsInjective, Range
<1>7. t # <<>>
  BY <1>1, <1>2, EmptySeq
<1>8. QED
  BY <1>1, <1>5, <1>6, <1>7 DEF t

\* Taking the first element off.
LEMMA TakingOff ==
    ASSUME NEW S, NEW s \in Seq(S), s # <<>>
    PROVE  /\ Head(s) \in S /\ Head(s) \in Range(s) /\ Head(s) = s[1]
           /\ Tail(s) \in Seq(S)
           /\ Len(Tail(s)) = Len(s) - 1
           /\ \A i \in 1..(Len(s) - 1) : Tail(s)[i] = s[i + 1]
           /\ Range(s) = {Head(s)} \cup Range(Tail(s))
           /\ IsInjective(s) => Head(s) \notin Range(Tail(s)) /\ IsInjective(Tail(s))
<1> DEFINE t == Tail(s)
<1>1. /\ Len(s) \in Nat /\ Len(s) # 0 /\ DOMAIN s = 1..Len(s)
      /\ Head(s) = s[1]
  BY Positions, HeadTailProperties
<1>2. /\ t \in Seq(S) /\ Len(t) = Len(s) - 1
      /\ \A i \in 1..Len(t) : t[i] = s[i + 1]
  BY HeadTailProperties
<1> HIDE DEF t
<1>3. DOMAIN t = 1..Len(t) /\ 1 \in 1..Len(s)
  BY <1>1, <1>2, Positions
<1>4. Head(s) \in S /\ Head(s) \in Range(s)
  BY <1>1, <1>3, Positions
<1>5. \A i \in 1..Len(t) : i + 1 \in 1..Len(s) /\ i + 1 # 1 /\ i \in Nat
  BY <1>1, <1>2
<1>6. Range(s) = {Head(s)} \cup Range(t)
  <2>1. \A i \in 1..Len(s) : i = 1 \/ (i - 1 \in 1..Len(t) /\ (i - 1) + 1 = i)
    BY <1>1, <1>2
  <2>2. Range(s) \subseteq {Head(s)} \cup Range(t)
    <3>1. ASSUME NEW i \in 1..Len(s) PROVE s[i] \in {Head(s)} \cup Range(t)
      <4>1. CASE i = 1
        BY <4>1, <1>1
      <4>2. CASE i - 1 \in 1..Len(t) /\ (i - 1) + 1 = i
        <5>1. t[i - 1] = s[i]
          BY <4>2, <1>2
        <5>2. QED
          BY <5>1, <4>2, <1>3 DEF Range
      <4>3. QED
        BY <2>1, <4>1, <4>2
    <3>2. QED
      BY <3>1, <1>1 DEF Range
  <2>3. Range(t) \subseteq Range(s)
    BY <1>1, <1>2, <1>3, <1>5 DEF Range
  <2>4. QED
    BY <2>2, <2>3, <1>4
<1>7. ASSUME IsInjective(s) PROVE Head(s) \notin Range(t) /\ IsInjective(t)
  <2>1. \A i, j \in 1..Len(s) : s[i] = s[j] => i = j
    BY <1>7, <1>1 DEF IsInjective
  <2>2. ASSUME NEW i \in 1..Len(t) PROVE t[i] # Head(s)
    <3>1. i + 1 \in 1..Len(s) /\ i + 1 # 1 /\ t[i] = s[i + 1]
      BY <1>2, <1>5
    <3>2. QED
      BY <3>1, <2>1, <1>1, <1>3
  <2>3. ASSUME NEW i \in 1..Len(t), NEW j \in 1..Len(t), t[i] = t[j] PROVE i = j
    <3>1. i + 1 \in 1..Len(s) /\ j + 1 \in 1..Len(s) /\ s[i + 1] = s[j + 1]
      BY <1>2, <1>5, <2>3
    <3>2. i + 1 = j + 1
      BY <3>1, <2>1
    <3>3. QED
      BY <3>2
  <2>4. QED
    BY <2>2, <2>3, <1>3 DEF IsInjective, Range
<1>8. QED
  BY <1>1, <1>2, <1>4, <1>6, <1>7 DEF t

\* Taking the first k elements off.
LEMMA Dropping ==
    ASSUME NEW S, NEW s \in Seq(S), NEW k \in 0..Len(s)
    PROVE  LET t == SubSeq(s, k + 1, Len(s)) IN
           /\ t \in Seq(S) /\ Len(t) = Len(s) - k
           /\ \A i \in 1..(Len(s) - k) : t[i] = s[k + i]
           /\ t = <<>> <=> k = Len(s)
           /\ Range(t) \subseteq Range(s)
<1> DEFINE t == SubSeq(s, k + 1, Len(s))
<1>1. Len(s) \in Nat /\ DOMAIN s = 1..Len(s) /\ \A i \in 1..Len(s) : s[i] \in S
  BY Positions
<1>2. /\ k + 1 \in Int /\ Len(s) \in Int
      /\ \A i \in (k + 1)..Len(s) : s[i] \in S
  BY <1>1
<1>3. /\ t \in Seq(S)
      /\ Len(t) = IF k + 1 <= Len(s) THEN Len(s) - (k + 1) + 1 ELSE 0
      /\ \A i \in 1..(Len(s) - (k + 1) + 1) : t[i] = s[k + 1 + i - 1]
  BY <1>2, SubSeqProperties
<1> HIDE DEF t
<1> DEFINE n == Len(s)
<1>4. n \in Nat /\ k \in 0..n
  BY <1>1
<1>5. /\ Len(t) = IF k + 1 <= n THEN n - (k + 1) + 1 ELSE 0
      /\ \A i \in 1..(n - (k + 1) + 1) : t[i] = s[k + 1 + i - 1]
      /\ t = <<>> <=> Len(t) = 0
  BY <1>3, Positions
<1> HIDE DEF n
<1>6. /\ Len(t) = n - k
      /\ \A i \in 1..(n - k) : t[i] = s[k + i]
      /\ t = <<>> <=> k = n
  <2>1. k \in Nat /\ k <= n /\ n - (k + 1) + 1 = n - k
    BY <1>4
  <2>2. \A i \in 1..(n - k) : k + 1 + i - 1 = k + i
    BY <1>4
  <2>3. \A i \in 1..(n - k) : t[i] = s[k + i]
    BY <2>1, <2>2, <1>5
  <2>4. Len(t) = n - k
    BY <2>1, <1>4, <1>5
  <2>5. QED
    BY <2>1, <2>3, <2>4, <1>4, <1>5
<1>7. Range(t) \subseteq Range(s)
  <2>1. DOMAIN t = 1..(n - k)
    BY <1>3, <1>6, Positions
  <2>2. \A i \in 1..(n - k) : k + i \in 1..n
    BY <1>4
  <2>3. \A i \in 1..n : s[i] \in Range(s)
    BY Positions DEF n
  <2>4. QED
    BY <2>1, <2>2, <2>3, <1>6 DEF Range
<1>8. QED
  BY <1>3, <1>6, <1>7 DEF t, n

\* Removing the element at a position keeps the others, in their order.
LEMMA RemoveAtKeeps ==
    ASSUME NEW S, NEW ch \in Seq(S), NEW i \in DOMAIN ch
    PROVE  /\ RemoveAt(ch, i) \in Seq(S)
           /\ Len(RemoveAt(ch, i)) = Len(ch) - 1
           /\ \A j \in 1..(Len(ch) - 1) :
                RemoveAt(ch, i)[j] = IF j < i THEN ch[j] ELSE ch[j + 1]
           /\ Range(RemoveAt(ch, i)) \subseteq Range(ch)
<1> DEFINE a == SubSeq(ch, 1, i - 1)
           b == SubSeq(ch, i + 1, Len(ch))
<1>0. i \in 1..Len(ch) /\ Len(ch) \in Nat
  BY LenProperties
<1>1. /\ a \in Seq(S)
      /\ Len(a) = i - 1
      /\ \A j \in 1..(i - 1) : a[j] = ch[j]
  BY <1>0, SubSeqProperties
<1>2. /\ b \in Seq(S)
      /\ Len(b) = Len(ch) - i
      /\ \A j \in 1..(Len(ch) - i) : b[j] = ch[i + j]
  BY <1>0, SubSeqProperties
<1> DEFINE ab == a \o b
<1> HIDE DEF a, b
<1>3. /\ ab \in Seq(S)
      /\ Len(ab) = Len(ch) - 1
      /\ \A j \in 1..(Len(ch) - 1) :
            ab[j] = IF j <= i - 1 THEN a[j] ELSE b[j - (i - 1)]
  <2>1. /\ ab \in Seq(S)
        /\ Len(ab) = Len(a) + Len(b)
        /\ \A j \in 1..(Len(a) + Len(b)) :
              ab[j] = IF j <= Len(a) THEN a[j] ELSE b[j - Len(a)]
    BY <1>1, <1>2, ConcatProperties
  <2>2. Len(a) + Len(b) = Len(ch) - 1
    BY <1>0, <1>1, <1>2
  <2> HIDE DEF ab
  <2>3. QED
    BY <1>1, <2>1, <2>2
<1> HIDE DEF ab
<1>4. \A j \in 1..(Len(ch) - 1) :
         ab[j] = IF j < i THEN ch[j] ELSE ch[j + 1]
  <2> TAKE j \in 1..(Len(ch) - 1)
  <2>1. CASE j < i
    BY <2>1, <1>0, <1>1, <1>3
  <2>2. CASE ~ (j < i)
    <3>1. /\ j - (i - 1) \in 1..(Len(ch) - i)
          /\ i + (j - (i - 1)) = j + 1
          /\ ~ (j <= i - 1)
      BY <2>2, <1>0
    <3>2. QED
      BY <3>1, <2>2, <1>2, <1>3
  <2>3. QED
    BY <2>1, <2>2
<1>5. Range(ab) \subseteq Range(ch)
  <2> SUFFICES ASSUME NEW j \in 1..(Len(ch) - 1) PROVE ab[j] \in Range(ch)
    BY <1>3, LenProperties DEF Range
  <2>1. ab[j] = ch[j] \/ ab[j] = ch[j + 1]
    BY <1>4
  <2>2. j \in DOMAIN ch /\ j + 1 \in DOMAIN ch
    BY <1>0, LenProperties
  <2>3. QED
    BY <2>1, <2>2 DEF Range
<1>6. RemoveAt(ch, i) = ab
  BY DEF RemoveAt, ab, a, b
<1>7. QED
  BY <1>3, <1>4, <1>5, <1>6

\* What is left of a queue when elements are taken out and none overtakes another.
Thinned(left, ch) ==
    /\ \A j \in 1..Len(left) : \E a \in 1..Len(ch) : left[j] = ch[a]
    /\ \A j, k \in 1..Len(left) : j < k =>
            \E a, b \in 1..Len(ch) : a < b /\ left[j] = ch[a] /\ left[k] = ch[b]

\* Taking one packet out keeps the order of the others.
LEMMA RemovalThins ==
    ASSUME NEW S, NEW ch \in Seq(S), NEW i \in DOMAIN ch
    PROVE  Thinned(RemoveAt(ch, i), ch)
<1> DEFINE n == Len(ch)
           left == RemoveAt(ch, i)
           At(j) == IF j < i THEN j ELSE j + 1
<1>1. n \in Nat /\ i \in 1..n
  BY LenProperties
<1>2. Len(left) = n - 1 /\ \A j \in 1..(n - 1) : left[j] = IF j < i THEN ch[j] ELSE ch[j + 1]
  BY RemoveAtKeeps
<1> HIDE DEF left
<1>3. \A j \in 1..Len(left) : At(j) \in 1..n /\ left[j] = ch[At(j)]
  BY <1>1, <1>2
<1>4. \A j, k \in 1..Len(left) : j < k => At(j) < At(k)
  BY <1>1, <1>2
<1> HIDE DEF At
<1>5. QED
  BY <1>3, <1>4 DEF Thinned, left

\* A queue thins itself.
LEMMA SameThins ==
    ASSUME NEW S, NEW ch \in Seq(S)
    PROVE  Thinned(ch, ch)
  BY LenProperties DEF Thinned

\* What is put into a queue is behind the others, if there was room for it.
LEMMA Putting ==
    ASSUME NEW S, NEW ch \in Seq(S), NEW m \in S, NEW new,
           new = Append(ch, m) \/ new = ch
    PROVE  /\ new \in Seq(S)
           /\ Range(new) \subseteq Range(ch) \cup {m}
           /\ \A i \in 1..Len(new) : new[i] = m \/ (i \in 1..Len(ch) /\ new[i] = ch[i])
           /\ \A i, j \in 1..Len(new) : i < j => i \in 1..Len(ch) /\ new[i] = ch[i]
<1>1. Len(ch) \in Nat
  BY Positions
<1>2. CASE new = Append(ch, m)
  <2>1. /\ new \in Seq(S) /\ Len(new) = Len(ch) + 1
        /\ \A i \in 1..Len(ch) : new[i] = ch[i]
        /\ new[Len(ch) + 1] = m
        /\ Range(new) = Range(ch) \cup {m}
    BY <1>2, Appending
  <2>2. QED
    BY <1>1, <2>1
<1>3. CASE new = ch
  BY <1>1, <1>3
<1>4. QED
  BY <1>2, <1>3

\* What is taken out of a queue, at any place and perhaps left in it as well, was in it;
\* what is left was in it too, in this order.
LEMMA Taking ==
    ASSUME NEW S, NEW ch \in Seq(S), NEW i \in DOMAIN ch, NEW left,
           left = RemoveAt(ch, i) \/ left = ch
    PROVE  /\ ch[i] \in S /\ ch[i] \in Range(ch) /\ i \in 1..Len(ch)
           /\ left \in Seq(S) /\ Range(left) \subseteq Range(ch)
           /\ Thinned(left, ch)
<1>1. i \in 1..Len(ch) /\ ch[i] \in S /\ ch[i] \in Range(ch)
  BY Positions
<1>2. QED
  BY <1>1, RemoveAtKeeps, RemovalThins, SameThins

\* Unlinking an element of a list that holds none twice.
LEMMA Unlinking ==
    ASSUME NEW S, NEW s \in Seq(S), NEW e, IsInjective(s)
    PROVE  /\ RemoveFirst(s, e) \in Seq(S)
           /\ IsInjective(RemoveFirst(s, e))
           /\ Range(RemoveFirst(s, e)) = Range(s) \ {e}
<1>1. DOMAIN s = 1..Len(s) /\ Len(s) \in Nat
  BY Positions
<1>2. CASE \E i \in 1..Len(s) : s[i] = e
  <2> DEFINE I == {i \in 1..Len(s) : s[i] = e}
             t == RemoveAt(s, Min(I))
  <2>1. RemoveFirst(s, e) = t
    BY <1>2 DEF RemoveFirst, SelectInSeq
  <2>2. PICK i \in 1..Len(s) : s[i] = e
    BY <1>2
  <2>3. \A j \in 1..Len(s) : s[j] = e => j = i
    BY <2>2, <1>1 DEF IsInjective
  <2>4. I = {i}
    BY <2>2, <2>3
  <2>5. Min(I) = i
    BY <2>2, <2>4 DEF Min
  <2>6. /\ t \in Seq(S) /\ Len(t) = Len(s) - 1
        /\ \A j \in 1..(Len(s) - 1) : t[j] = IF j < i THEN s[j] ELSE s[j + 1]
        /\ Range(t) \subseteq Range(s)
    BY <2>2, <2>5, <1>1, RemoveAtKeeps
  <2> HIDE DEF t, I
  <2>7. DOMAIN t = 1..(Len(s) - 1)
    BY <2>6, Positions
  <2>8. IsInjective(t)
    <3> DEFINE at(j) == IF j < i THEN j ELSE j + 1
    <3>1. \A j \in 1..(Len(s) - 1) : at(j) \in 1..Len(s) /\ t[j] = s[at(j)]
      BY <2>6, <1>1
    <3>2. \A j, k \in 1..(Len(s) - 1) : at(j) = at(k) => j = k
      BY <1>1
    <3> HIDE DEF at
    <3>3. QED
      BY <3>1, <3>2, <2>7, <1>1 DEF IsInjective
  <2>9. e \notin Range(t)
    <3>1. ASSUME NEW j \in 1..(Len(s) - 1), t[j] = e PROVE FALSE
      <4>1. CASE j < i
        BY <4>1, <3>1, <2>3, <2>6, <1>1
      <4>2. CASE ~ (j < i)
        <5>1. j + 1 \in 1..Len(s) /\ s[j + 1] = e /\ j + 1 # i
          BY <4>2, <3>1, <2>2, <2>6, <1>1
        <5>2. QED
          BY <5>1, <2>3
      <4>3. QED
        BY <4>1, <4>2
    <3>2. QED
      BY <3>1, <2>7 DEF Range
  <2>10. ASSUME NEW x \in Range(s), x # e PROVE x \in Range(t)
    <3>1. PICK k \in 1..Len(s) : s[k] = x
      BY <1>1 DEF Range
    <3>2. k # i
      BY <3>1, <2>2, <2>10
    <3>3. CASE k < i
      <4>1. k \in 1..(Len(s) - 1) /\ t[k] = x
        BY <3>1, <3>3, <2>2, <2>6, <1>1
      <4>2. QED
        BY <4>1, <2>7 DEF Range
    <3>4. CASE k > i
      <4>1. k - 1 \in 1..(Len(s) - 1) /\ t[k - 1] = x
        BY <3>1, <3>4, <2>2, <2>6, <1>1
      <4>2. QED
        BY <4>1, <2>7 DEF Range
    <3>5. QED
      BY <3>2, <3>3, <3>4, <3>1, <2>2
  <2>11. Range(t) = Range(s) \ {e}
    BY <2>6, <2>9, <2>10
  <2>12. QED
    BY <2>1, <2>6, <2>8, <2>11
<1>3. CASE ~ \E i \in 1..Len(s) : s[i] = e
  <2>1. RemoveFirst(s, e) = s
    BY <1>3 DEF RemoveFirst
  <2>2. e \notin Range(s)
    BY <1>3, <1>1 DEF Range
  <2>3. QED
    BY <2>1, <2>2
<1>4. QED
  BY <1>2, <1>3

\* A list that holds nothing twice has as many nodes as it has elements.
LEMMA Counting ==
    ASSUME NEW S, NEW s \in Seq(S), IsInjective(s)
    PROVE  IsFiniteSet(Range(s)) /\ Cardinality(Range(s)) = Len(s)
<1>1. DOMAIN s = 1..Len(s) /\ Len(s) \in Nat
  BY Positions
<1>2. s \in [1..Len(s) -> Range(s)]
  BY <1>1, Positions, SeqOfRange
<1>3. s \in Bijection(1..Len(s), Range(s))
  BY <1>1, <1>2 DEF Bijection, Injection, Surjection, Range
<1>4. IsFiniteSet(1..Len(s)) /\ Cardinality(1..Len(s)) = Len(s)
  <2> DEFINE n == Len(s)
  <2>1. 1 \in Int /\ n \in Int /\ (IF 1 > n THEN 0 ELSE n - 1 + 1) = n
    BY <1>1
  <2> HIDE DEF n
  <2>2. IsFiniteSet(1..n) /\ Cardinality(1..n) = (IF 1 > n THEN 0 ELSE n - 1 + 1)
    BY <2>1, FS_Interval
  <2>3. QED
    BY <2>1, <2>2 DEF n
<1>5. ExistsBijection(1..Len(s), Range(s))
  BY <1>3 DEF ExistsBijection
<1>6. QED
  BY <1>4, <1>5, FS_Bijection
=============================================================================
