--------------------------- MODULE PanelTreeProofs ---------------------------
(***************************************************************************)
(* The tree of panels is a tree, whatever is split, closed and restored,   *)
(* and in whatever order the event loop deletes what was doomed.           *)
(***************************************************************************)
EXTENDS PanelTree, FiniteSetTheorems, WellFoundedInduction, TLAPS

-----------------------------------------------------------------------------
(* Sequences                                                                *)

\* Induction over the numbers, for a set of them.
LEMMA SetInduction ==
    ASSUME NEW S, 0 \in S, \A n \in Nat : n \in S => n + 1 \in S
    PROVE  Nat \subseteq S
<1>. DEFINE R == OpToRel(<, Nat)
<1>1. IsWellFoundedOn(R, Nat)
  BY NatLessThanWellFounded
<1>2. \A i, j \in Nat : i < j => <<i, j>> \in R
  BY DEF OpToRel
<1>. HIDE DEF R
<1>3. SUFFICES ASSUME Nat \ S # {} PROVE FALSE
  OBVIOUS
<1>4. PICK m \in Nat \ S : \A k \in Nat \ S : <<k, m>> \notin R
  <2>1. Nat \ S \subseteq Nat
    OBVIOUS
  <2>. QED
    BY <1>1, <1>3, <2>1, WFMin
<1>5. m # 0 /\ m - 1 \in Nat /\ m - 1 < m /\ m \in Nat /\ (m - 1) + 1 = m
  BY <1>4
<1>6. <<m - 1, m>> \in R
  BY <1>2, <1>5
<1>7. m - 1 \in S
  BY <1>4, <1>5, <1>6
<1>. QED
  BY <1>4, <1>5, <1>7

LEMMA PositionFound ==
    ASSUME NEW q, NEW x \in ToSet(q)
    PROVE  PositionIn(q, x) \in DOMAIN q /\ q[PositionIn(q, x)] = x
BY DEF PositionIn, ToSet

LEMMA ElementsOf ==
    ASSUME NEW T, NEW q \in Seq(T)
    PROVE  /\ ToSet(q) \subseteq T /\ Len(q) \in Nat /\ DOMAIN q = 1..Len(q)
           /\ q = <<>> <=> ToSet(q) = {}
           /\ Len(q) = 0 <=> q = <<>>
BY DEF ToSet

LEMMA Appended ==
    ASSUME NEW T, NEW q \in Seq(T), NEW e \in T
    PROVE  /\ Append(q, e) \in Seq(T) /\ Len(Append(q, e)) = Len(q) + 1
           /\ ToSet(Append(q, e)) = ToSet(q) \cup {e}
           /\ IsInjective(q) /\ e \notin ToSet(q) => IsInjective(Append(q, e))
<1>1. /\ Append(q, e) \in Seq(T) /\ Len(Append(q, e)) = Len(q) + 1
      /\ \A i \in 1..Len(q) : Append(q, e)[i] = q[i]
      /\ Append(q, e)[Len(q) + 1] = e
      /\ DOMAIN q = 1..Len(q) /\ Len(q) \in Nat
      /\ DOMAIN Append(q, e) = 1..(Len(q) + 1)
  OBVIOUS
<1>. DEFINE a == Append(q, e)
<1>. HIDE DEF a
<1>2. ToSet(a) = ToSet(q) \cup {e}
  BY <1>1 DEF ToSet, a
<1>3. IsInjective(q) /\ e \notin ToSet(q) => IsInjective(a)
  BY <1>1 DEF ToSet, IsInjective, a
<1>. QED
  BY <1>1, <1>2, <1>3 DEF a

LEMMA Replaced ==
    ASSUME NEW T, NEW q \in Seq(T), NEW i \in DOMAIN q, NEW e \in T, e \notin ToSet(q),
           IsInjective(q)
    PROVE  /\ [q EXCEPT ![i] = e] \in Seq(T) /\ Len([q EXCEPT ![i] = e]) = Len(q)
           /\ ToSet([q EXCEPT ![i] = e]) = (ToSet(q) \ {q[i]}) \cup {e}
           /\ IsInjective([q EXCEPT ![i] = e])
BY DEF ToSet, IsInjective

\* A part of a sequence.
LEMMA PartOf ==
    ASSUME NEW T, NEW q \in Seq(T), NEW i \in 1..(Len(q) + 1), NEW j \in 0..Len(q), i <= j + 1
    PROVE  /\ SubSeq(q, i, j) \in Seq(T) /\ Len(SubSeq(q, i, j)) = j - i + 1
           /\ \A x : x \in ToSet(SubSeq(q, i, j)) <=> \E k \in i..j : x = q[k]
           /\ IsInjective(q) => IsInjective(SubSeq(q, i, j))
<1>. DEFINE s == SubSeq(q, i, j)
<1>0. Len(q) \in Nat /\ DOMAIN q = 1..Len(q) /\ i \in Nat /\ j \in Nat /\ i >= 1 /\ j <= Len(q)
  OBVIOUS
<1>1. /\ s \in Seq(T) /\ Len(s) = j - i + 1
      /\ \A k \in 1..(j - i + 1) : s[k] = q[i + k - 1]
  OBVIOUS
<1>2. DOMAIN s = 1..(j - i + 1)
  BY <1>0, <1>1
<1>. HIDE DEF s
<1>3. \A x : x \in ToSet(s) <=> \E k \in i..j : x = q[k]
  <2>1. \A k \in 1..(j - i + 1) : i + k - 1 \in i..j
    BY <1>0
  <2>2. ASSUME NEW k \in i..j PROVE q[k] \in ToSet(s)
    <3>1. k - i + 1 \in 1..(j - i + 1) /\ i + (k - i + 1) - 1 = k
      BY <1>0
    <3>2. s[k - i + 1] = q[k]
      BY <1>1, <3>1
    <3>. QED
      BY <1>2, <3>1, <3>2 DEF ToSet
  <2>3. \A x : x \in ToSet(s) <=> \E k \in 1..(j - i + 1) : x = s[k]
    BY <1>2 DEF ToSet
  <2>. QED
    BY <1>1, <2>1, <2>2, <2>3
<1>4. ASSUME IsInjective(q) PROVE IsInjective(s)
  <2>1. SUFFICES ASSUME NEW a \in 1..(j - i + 1), NEW b \in 1..(j - i + 1), s[a] = s[b]
                 PROVE  a = b
    BY <1>2 DEF IsInjective
  <2>2. i + a - 1 \in 1..Len(q) /\ i + b - 1 \in 1..Len(q)
    BY <1>0
  <2>3. i + a - 1 = i + b - 1
    BY <1>0, <1>1, <1>4, <2>1, <2>2 DEF IsInjective
  <2>. QED
    BY <1>0, <2>3
<1>. QED
  BY <1>1, <1>3, <1>4 DEF s

LEMMA Joined ==
    ASSUME NEW T, NEW a \in Seq(T), NEW b \in Seq(T)
    PROVE  /\ a \o b \in Seq(T) /\ Len(a \o b) = Len(a) + Len(b)
           /\ ToSet(a \o b) = ToSet(a) \cup ToSet(b)
           /\ IsInjective(a) /\ IsInjective(b) /\ ToSet(a) \cap ToSet(b) = {}
                => IsInjective(a \o b)
<1>. DEFINE s == a \o b
<1>1. /\ s \in Seq(T) /\ Len(s) = Len(a) + Len(b)
      /\ \A k \in 1..Len(a) : s[k] = a[k]
      /\ \A k \in 1..Len(b) : s[Len(a) + k] = b[k]
  OBVIOUS
<1>2. /\ Len(a) \in Nat /\ Len(b) \in Nat /\ DOMAIN a = 1..Len(a) /\ DOMAIN b = 1..Len(b)
      /\ DOMAIN s = 1..(Len(a) + Len(b))
  BY <1>1
<1>. HIDE DEF s
<1>3. \A k \in DOMAIN s : (k \in DOMAIN a /\ s[k] = a[k])
                          \/ (k - Len(a) \in DOMAIN b /\ s[k] = b[k - Len(a)])
  <2>1. TAKE k \in DOMAIN s
  <2>2. CASE k <= Len(a)
    BY <1>1, <1>2, <2>2
  <2>3. CASE k > Len(a)
    <3>1. k - Len(a) \in 1..Len(b) /\ Len(a) + (k - Len(a)) = k
      BY <1>2, <2>3
    <3>2. s[Len(a) + (k - Len(a))] = b[k - Len(a)]
      BY <1>1, <3>1
    <3>. QED
      BY <1>2, <3>1, <3>2
  <2>. QED
    BY <1>2, <2>2, <2>3
<1>4. \A k \in DOMAIN a : k \in DOMAIN s /\ s[k] = a[k]
  BY <1>1, <1>2
<1>5. \A k \in DOMAIN b : Len(a) + k \in DOMAIN s /\ s[Len(a) + k] = b[k]
  BY <1>1, <1>2
<1>6. ToSet(s) = ToSet(a) \cup ToSet(b)
  BY <1>3, <1>4, <1>5 DEF ToSet
<1>7. ASSUME IsInjective(a), IsInjective(b), ToSet(a) \cap ToSet(b) = {}
      PROVE  IsInjective(s)
  <2>1. SUFFICES ASSUME NEW j \in DOMAIN s, NEW k \in DOMAIN s, s[j] = s[k] PROVE j = k
    BY DEF IsInjective
  <2>2. \A m \in DOMAIN a, n \in DOMAIN b : a[m] # b[n]
    BY <1>7 DEF ToSet
  <2>3. CASE j \in DOMAIN a /\ s[j] = a[j]
    BY <1>3, <1>7, <2>1, <2>2, <2>3 DEF IsInjective
  <2>4. CASE j - Len(a) \in DOMAIN b /\ s[j] = b[j - Len(a)]
    <3>1. k - Len(a) \in DOMAIN b /\ s[k] = b[k - Len(a)]
      BY <1>3, <2>1, <2>2, <2>4
    <3>2. j - Len(a) = k - Len(a)
      BY <1>7, <2>1, <2>4, <3>1 DEF IsInjective
    <3>. QED
      BY <1>2, <2>1, <3>2
  <2>. QED
    BY <1>3, <2>1, <2>3, <2>4
<1>. QED
  BY <1>1, <1>6, <1>7 DEF s

LEMMA Inserted ==
    ASSUME NEW T, NEW q \in Seq(T), NEW i \in 1..(Len(q) + 1), NEW e \in T, e \notin ToSet(q),
           IsInjective(q)
    PROVE  /\ InsertAt(q, i, e) \in Seq(T) /\ Len(InsertAt(q, i, e)) = Len(q) + 1
           /\ ToSet(InsertAt(q, i, e)) = ToSet(q) \cup {e}
           /\ IsInjective(InsertAt(q, i, e))
<1>. DEFINE a == SubSeq(q, 1, i - 1)
           b == SubSeq(q, i, Len(q))
           c == <<e>>
<1>0. Len(q) \in Nat /\ DOMAIN q = 1..Len(q) /\ i \in Nat /\ i >= 1 /\ i <= Len(q) + 1
      /\ i - 1 \in 0..Len(q) /\ Len(q) \in 0..Len(q) /\ 1 \in 1..(Len(q) + 1) /\ (i - 1) + 1 = i
  OBVIOUS
<1>1. a \in Seq(T) /\ Len(a) = (i - 1) - 1 + 1 /\ IsInjective(a)
      /\ \A x : x \in ToSet(a) <=> \E k \in 1..(i - 1) : x = q[k]
  <2>1. 1 \in 1..(Len(q) + 1) /\ i - 1 \in 0..Len(q) /\ 1 <= (i - 1) + 1
    BY <1>0
  <2>. QED
    BY <2>1, PartOf
<1>2. b \in Seq(T) /\ Len(b) = Len(q) - i + 1 /\ IsInjective(b)
      /\ \A x : x \in ToSet(b) <=> \E k \in i..Len(q) : x = q[k]
  BY <1>0, PartOf
<1>3. c \in Seq(T) /\ Len(c) = 1 /\ ToSet(c) = {e} /\ IsInjective(c)
  BY DEF ToSet, IsInjective
<1>4. InsertAt(q, i, e) = (a \o c) \o b
  BY DEF InsertAt
<1>5. ToSet(a) \cup ToSet(b) = ToSet(q)
  <2>1. \A k \in 1..Len(q) : k \in 1..(i - 1) \/ k \in i..Len(q)
    BY <1>0
  <2>2. \A k : k \in 1..(i - 1) \/ k \in i..Len(q) => k \in 1..Len(q)
    BY <1>0
  <2>3. \A x : x \in ToSet(q) <=> \E k \in 1..Len(q) : x = q[k]
    BY <1>0 DEF ToSet
  <2>. HIDE DEF a, b
  <2>. QED
    BY <1>1, <1>2, <2>1, <2>2, <2>3
<1>6. ToSet(a) \cap ToSet(b) = {}
  <2>1. \A j \in 1..(i - 1), k \in i..Len(q) : j \in DOMAIN q /\ k \in DOMAIN q /\ j # k
    BY <1>0
  <2>2. \A j \in 1..(i - 1), k \in i..Len(q) : q[j] # q[k]
    BY <2>1 DEF IsInjective
  <2>. HIDE DEF a, b
  <2>. QED
    BY <1>1, <1>2, <2>2
<1>. HIDE DEF a, b, c
<1>7. a \o c \in Seq(T) /\ Len(a \o c) = Len(a) + 1 /\ ToSet(a \o c) = ToSet(a) \cup {e} /\ IsInjective(a \o c)
  <2>1. a \in Seq(T) /\ c \in Seq(T) /\ ToSet(a) \cap ToSet(c) = {} /\ IsInjective(a) /\ IsInjective(c)
    BY <1>1, <1>3, <1>5
  <2>2. a \o c \in Seq(T) /\ Len(a \o c) = Len(a) + Len(c)
        /\ ToSet(a \o c) = ToSet(a) \cup ToSet(c) /\ IsInjective(a \o c)
    BY <2>1, Joined
  <2>. QED
    BY <1>3, <2>2
<1>8. /\ (a \o c) \o b \in Seq(T) /\ Len((a \o c) \o b) = Len(a \o c) + Len(b)
      /\ ToSet((a \o c) \o b) = ToSet(a \o c) \cup ToSet(b) /\ IsInjective((a \o c) \o b)
  <2>. DEFINE d == a \o c
  <2>1. d \in Seq(T) /\ b \in Seq(T) /\ ToSet(d) \cap ToSet(b) = {} /\ IsInjective(d) /\ IsInjective(b)
    BY <1>2, <1>5, <1>6, <1>7
  <2>. HIDE DEF d
  <2>2. /\ d \o b \in Seq(T) /\ Len(d \o b) = Len(d) + Len(b)
        /\ ToSet(d \o b) = ToSet(d) \cup ToSet(b) /\ IsInjective(d \o b)
    BY <2>1, Joined
  <2>. QED
    BY <2>2 DEF d
<1>9. Len(a \o c) + Len(b) = Len(q) + 1
  BY <1>0, <1>1, <1>2, <1>7
<1>. QED
  BY <1>4, <1>5, <1>7, <1>8, <1>9

LEMMA Removed ==
    ASSUME NEW T, NEW q \in Seq(T), NEW i \in DOMAIN q, IsInjective(q)
    PROVE  /\ RemoveAt(q, i) \in Seq(T) /\ Len(RemoveAt(q, i)) = Len(q) - 1
           /\ ToSet(RemoveAt(q, i)) = ToSet(q) \ {q[i]}
           /\ IsInjective(RemoveAt(q, i))
<1>. DEFINE a == SubSeq(q, 1, i - 1)
           b == SubSeq(q, i + 1, Len(q))
<1>0. Len(q) \in Nat /\ DOMAIN q = 1..Len(q) /\ i \in Nat /\ i >= 1 /\ i <= Len(q)
      /\ i - 1 \in 0..Len(q) /\ Len(q) \in 0..Len(q) /\ 1 \in 1..(Len(q) + 1) /\ (i - 1) + 1 = i
      /\ i + 1 \in 1..(Len(q) + 1) /\ i + 1 <= Len(q) + 1
  OBVIOUS
<1>1. a \in Seq(T) /\ Len(a) = (i - 1) - 1 + 1 /\ IsInjective(a)
      /\ \A x : x \in ToSet(a) <=> \E k \in 1..(i - 1) : x = q[k]
  <2>1. 1 \in 1..(Len(q) + 1) /\ i - 1 \in 0..Len(q) /\ 1 <= (i - 1) + 1
    BY <1>0
  <2>. QED
    BY <2>1, PartOf
<1>2. b \in Seq(T) /\ Len(b) = Len(q) - (i + 1) + 1 /\ IsInjective(b)
      /\ \A x : x \in ToSet(b) <=> \E k \in (i + 1)..Len(q) : x = q[k]
  <2>1. i + 1 \in 1..(Len(q) + 1) /\ Len(q) \in 0..Len(q) /\ i + 1 <= Len(q) + 1
    BY <1>0
  <2>. QED
    BY <2>1, PartOf
<1>3. RemoveAt(q, i) = a \o b
  BY DEF RemoveAt
<1>4. ToSet(a) \cup ToSet(b) = ToSet(q) \ {q[i]}
  <2>1. \A k \in 1..Len(q) : k # i <=> k \in 1..(i - 1) \/ k \in (i + 1)..Len(q)
    BY <1>0
  <2>2. \A k \in 1..Len(q) : q[k] = q[i] => k = i
    BY <1>0 DEF IsInjective
  <2>3. \A x : x \in ToSet(q) <=> \E k \in 1..Len(q) : x = q[k]
    BY <1>0 DEF ToSet
  <2>4. \A k : k \in 1..(i - 1) \/ k \in (i + 1)..Len(q) => k \in 1..Len(q)
    BY <1>0
  <2>. HIDE DEF a, b
  <2>. QED
    BY <1>1, <1>2, <2>1, <2>2, <2>3, <2>4
<1>5. ToSet(a) \cap ToSet(b) = {}
  <2>1. \A j \in 1..(i - 1), k \in (i + 1)..Len(q) : j \in DOMAIN q /\ k \in DOMAIN q /\ j # k
    BY <1>0
  <2>2. \A j \in 1..(i - 1), k \in (i + 1)..Len(q) : q[j] # q[k]
    BY <2>1 DEF IsInjective
  <2>. HIDE DEF a, b
  <2>. QED
    BY <1>1, <1>2, <2>2
<1>. HIDE DEF a, b
<1>6. a \o b \in Seq(T) /\ Len(a \o b) = Len(a) + Len(b) /\ ToSet(a \o b) = ToSet(a) \cup ToSet(b) /\ IsInjective(a \o b)
  <2>1. a \in Seq(T) /\ b \in Seq(T) /\ IsInjective(a) /\ IsInjective(b)
    BY <1>1, <1>2
  <2>. QED
    BY <1>5, <2>1, Joined
<1>7. Len(a) + Len(b) = Len(q) - 1
  <2>1. Len(a) = i - 1 /\ Len(b) = Len(q) - i
    <3>1. Len(a) = (i - 1) - 1 + 1
      BY <1>1
    <3>2. Len(b) = Len(q) - (i + 1) + 1
      BY <1>2
    <3>3. i \in Nat /\ Len(q) \in Nat
      BY <1>0
    <3>. QED
      BY <3>1, <3>2, <3>3
  <2>2. i \in Nat /\ Len(q) \in Nat
    BY <1>0
  <2>. QED
    BY <2>1, <2>2
<1>. QED
  BY <1>3, <1>4, <1>6, <1>7

\* What Outlasting leaves of a queue: the recursion ends at the whole queue, and what it
\* has after n events are those of the first n that are not about objects gone.
LEMMA Outlasted ==
    ASSUME NEW T, NEW q \in Seq(T), NEW gone
    PROVE  /\ Outlasting(q, gone) \in Seq(T)
           /\ ToSet(Outlasting(q, gone)) = ToSet(q) \ gone
           /\ IsInjective(q) => IsInjective(Outlasting(q, gone))
<1>. DEFINE N == Len(q)
            Turn(f, n) == IF n = 0 THEN <<>>
                          ELSE IF q[n] \in gone THEN f[n - 1] ELSE Append(f[n - 1], q[n])
            left[n \in 0..Len(q)] ==
                IF n = 0 THEN <<>>
                ELSE IF q[n] \in gone THEN left[n - 1] ELSE Append(left[n - 1], q[n])
<1>1. Outlasting(q, gone) = left[Len(q)]
  BY DEF Outlasting
<1>2. left = CHOOSE f : f = [n \in 0..N |-> Turn(f, n)]
  OBVIOUS
<1>3. N \in Nat /\ DOMAIN q = 1..N /\ \A n \in 1..N : q[n] \in T
  OBVIOUS
<1>. HIDE DEF left, N
<1>4. \E f : f = [n \in 0..N |-> Turn(f, n)]
  <2>. DEFINE S == {m \in Nat : m <= N =>
                       \E f \in [0..m -> Seq(T)] : \A n \in 0..m : f[n] = Turn(f, n)}
  <2>1. 0 \in S
    <3>. DEFINE f == [n \in 0..0 |-> <<>>]
    <3>1. f \in [0..0 -> Seq(T)] /\ \A n \in 0..0 : f[n] = Turn(f, n)
      OBVIOUS
    <3>. HIDE DEF f, Turn
    <3>. QED
      BY <3>1
  <2>2. ASSUME NEW m \in Nat, m \in S PROVE m + 1 \in S
    <3>1. SUFFICES ASSUME m + 1 <= N
                   PROVE  \E f \in [0..(m + 1) -> Seq(T)] : \A n \in 0..(m + 1) : f[n] = Turn(f, n)
      OBVIOUS
    <3>2. PICK f \in [0..m -> Seq(T)] : \A n \in 0..m : f[n] = Turn(f, n)
      BY <1>3, <2>2, <3>1
    <3>. DEFINE h == [n \in 0..(m + 1) |-> IF n = m + 1 THEN Turn(f, m + 1) ELSE f[n]]
    <3>3. Turn(f, m + 1) \in Seq(T)
      <4>1. f[(m + 1) - 1] \in Seq(T) /\ q[m + 1] \in T
        BY <1>3, <3>1
      <4>. QED
        BY <4>1
    <3>4. h \in [0..(m + 1) -> Seq(T)]
      <4>1. \A n \in 0..(m + 1) : n # m + 1 => n \in 0..m
        OBVIOUS
      <4>. HIDE DEF Turn
      <4>. QED
        BY <3>2, <3>3, <4>1
    <3>5. ASSUME NEW n \in 0..(m + 1) PROVE h[n] = Turn(h, n)
      <4>1. n # 0 => h[n - 1] = f[n - 1]
        <5>1. n # 0 => n - 1 \in 0..(m + 1) /\ n - 1 # m + 1
          OBVIOUS
        <5>. HIDE DEF Turn
        <5>. QED
          BY <5>1
      <4>2. Turn(h, n) = Turn(f, n)
        <5>. HIDE DEF h
        <5>. QED
          BY <4>1
      <4>3. n # m + 1 => n \in 0..m /\ h[n] = f[n]
        <5>. HIDE DEF Turn
        <5>. QED
          OBVIOUS
      <4>4. n = m + 1 => h[n] = Turn(f, m + 1)
        <5>. HIDE DEF Turn
        <5>. QED
          OBVIOUS
      <4>. HIDE DEF Turn, h
      <4>. QED
        BY <3>2, <4>2, <4>3, <4>4
    <3>. HIDE DEF h, Turn
    <3>. QED
      BY <3>4, <3>5
  <2>3. N \in S
    <3>. HIDE DEF S
    <3>. QED
      BY <1>3, <2>1, <2>2, SetInduction
  <2>4. PICK f \in [0..N -> Seq(T)] : \A n \in 0..N : f[n] = Turn(f, n)
    BY <1>3, <2>3
  <2>. HIDE DEF Turn
  <2>5. f = [n \in 0..N |-> Turn(f, n)]
    BY <2>4
  <2>. QED
    BY <2>5
<1>5. left = [n \in 0..N |-> Turn(left, n)]
  <2>. HIDE DEF Turn
  <2>. QED
    BY <1>2, <1>4
<1>6. \A n \in 0..N : left[n] = Turn(left, n)
  <2>. HIDE DEF Turn
  <2>. QED
    BY <1>5
<1>. DEFINE Kept(n) == /\ left[n] \in Seq(T)
                       /\ \A x : x \in ToSet(left[n]) <=> x \notin gone /\ \E k \in 1..n : x = q[k]
                       /\ IsInjective(q) => IsInjective(left[n])
            K == {n \in Nat : n <= N => Kept(n)}
<1>7. 0 \in K
  <2>1. left[0] = <<>>
    BY <1>3, <1>6
  <2>2. ToSet(<<>>) = {} /\ IsInjective(<<>>)
    BY DEF ToSet, IsInjective
  <2>3. \A k : k \notin 1..0
    OBVIOUS
  <2>4. <<>> \in Seq(T)
    OBVIOUS
  <2>5. Kept(0)
    BY <2>1, <2>2, <2>3, <2>4
  <2>. HIDE DEF Kept
  <2>. QED
    BY <2>5
<1>8. ASSUME NEW n \in Nat, n \in K PROVE n + 1 \in K
  <2>1. SUFFICES ASSUME n + 1 <= N PROVE Kept(n + 1)
    OBVIOUS
  <2>2. Kept(n) /\ n + 1 \in 1..N /\ n + 1 \in 0..N /\ (n + 1) - 1 = n /\ n + 1 # 0
    BY <1>3, <1>8, <2>1
  <2>3. \A k : k \in 1..(n + 1) <=> k \in 1..n \/ k = n + 1
    OBVIOUS
  <2>4. CASE q[n + 1] \in gone
    <3>1. left[n + 1] = left[n]
      BY <1>6, <2>2, <2>4
    <3>. QED
      BY <2>2, <2>3, <2>4, <3>1
  <2>5. CASE q[n + 1] \notin gone
    <3>1. left[n + 1] = Append(left[n], q[n + 1])
      BY <1>6, <2>2, <2>5
    <3>2. left[n] \in Seq(T) /\ q[n + 1] \in T
      BY <1>3, <2>2
    <3>3. left[n + 1] \in Seq(T) /\ ToSet(left[n + 1]) = ToSet(left[n]) \cup {q[n + 1]}
      BY <3>1, <3>2, Appended
    <3>4. ASSUME IsInjective(q) PROVE IsInjective(left[n + 1])
      <4>1. \A k \in 1..n : k \in DOMAIN q /\ n + 1 \in DOMAIN q /\ k # n + 1
        BY <1>3, <2>1
      <4>2. q[n + 1] \notin ToSet(left[n])
        BY <2>2, <3>4, <4>1 DEF IsInjective
      <4>. QED
        BY <2>2, <3>1, <3>2, <3>4, <4>2, Appended
    <3>. QED
      BY <2>2, <2>3, <2>5, <3>3, <3>4
  <2>. QED
    BY <2>4, <2>5
<1>. HIDE DEF K
<1>9. N \in K
  BY <1>3, <1>7, <1>8, SetInduction
<1>10. Kept(N)
  BY <1>3, <1>9 DEF K
<1>11. \A x : x \in ToSet(q) <=> \E k \in 1..N : x = q[k]
  BY <1>3 DEF ToSet
<1>. QED
  BY <1>1, <1>10, <1>11 DEF N

-----------------------------------------------------------------------------
(* What is below an object                                                  *)

\* Below is the least set that has x and the widgets of the layouts it has.  All that
\* follows is from these four facts.
LEMMA BelowHasItself ==
    ASSUME NEW t, NEW x PROVE x \in Below(t, x)
BY DEF Below

LEMMA BelowIsLeast ==
    ASSUME NEW t, NEW x, NEW S, x \in S, \A l \in S \cap Layouts : Widgets(t, l) \subseteq S
    PROVE  Below(t, x) \subseteq S
<1>1. LayoutsIn(t, x) \subseteq S
  <2>1. S \cap Layouts \in SUBSET Layouts
    OBVIOUS
  <2>. QED
    BY <2>1 DEF LayoutsIn
<1>2. LayoutsIn(t, x) \subseteq Layouts
  BY DEF LayoutsIn
<1>. QED
  BY <1>1, <1>2 DEF Below

LEMMA BelowIsClosed ==
    ASSUME NEW t, NEW x, NEW l \in Below(t, x) \cap Layouts
    PROVE  Widgets(t, l) \subseteq Below(t, x)
<1>1. l \in LayoutsIn(t, x)
  <2>1. SUFFICES ASSUME NEW S \in SUBSET Layouts, x \in Layouts => x \in S,
                        \A m \in S : Widgets(t, m) \cap Layouts \subseteq S
                 PROVE  l \in S
    BY DEF LayoutsIn
  <2>2. LayoutsIn(t, x) \subseteq S
    BY <2>1 DEF LayoutsIn
  <2>. QED
    BY <2>1, <2>2 DEF Below
<1>. QED
  BY <1>1 DEF Below

LEMMA BelowIsHeld ==
    ASSUME NEW t, NEW x, NEW y \in Below(t, x), y # x
    PROVE  \E l \in Below(t, x) \cap Layouts : y \in Widgets(t, l)
<1>. DEFINE S == {x} \cup {z \in Below(t, x) : \E l \in Below(t, x) \cap Layouts : z \in Widgets(t, l)}
<1>1. x \in S
  OBVIOUS
<1>2. ASSUME NEW l \in S \cap Layouts PROVE Widgets(t, l) \subseteq S
  <2>1. l \in Below(t, x) \cap Layouts
    BY <1>2, BelowHasItself
  <2>. QED
    BY <2>1, BelowIsClosed
<1>. HIDE DEF S
<1>3. Below(t, x) \subseteq S
  BY <1>1, <1>2, BelowIsLeast
<1>. QED
  BY <1>3 DEF S

LEMMA BelowIsTransitive ==
    ASSUME NEW t, NEW x, NEW y \in Below(t, x)
    PROVE  Below(t, y) \subseteq Below(t, x)
BY BelowIsClosed, BelowIsLeast

\* A wrapper has no widgets.
LEMMA BelowWrapper ==
    ASSUME NEW t, NEW x, x \notin Layouts
    PROVE  Below(t, x) = {x}
<1>. DEFINE S == {x}
<1>1. x \in S /\ \A l \in S \cap Layouts : Widgets(t, l) \subseteq S
  OBVIOUS
<1>. HIDE DEF S
<1>2. Below(t, x) \subseteq S
  BY <1>1, BelowIsLeast
<1>. QED
  BY <1>2, BelowHasItself DEF S

\* With fewer widgets there is less below.
LEMMA BelowGrows ==
    ASSUME NEW t, NEW u, \A l \in Layouts : Widgets(t, l) \subseteq Widgets(u, l), NEW x
    PROVE  Below(t, x) \subseteq Below(u, x)
<1>1. \A l \in Below(u, x) \cap Layouts : Widgets(t, l) \subseteq Below(u, x)
  BY BelowIsClosed
<1>. QED
  BY <1>1, BelowHasItself, BelowIsLeast

LEMMA BelowSame ==
    ASSUME NEW t, NEW u, \A l \in Layouts : Widgets(t, l) = Widgets(u, l), NEW x
    PROVE  Below(t, x) = Below(u, x)
BY BelowGrows

-----------------------------------------------------------------------------
(* The invariant                                                            *)

\* Every object there is, in the tree or not, is in at most one place, and knows it.
Structure(t) ==
    /\ t \in TreeType
    /\ Root \in t.alive /\ t.parentLayout[Root] = None /\ Root \notin ToSet(t.doomed)
    /\ \A l \in Layouts :
          /\ Root \notin Widgets(t, l)
          /\ Widgets(t, l) \subseteq t.alive
          /\ l \notin t.alive => t.widgets[l] = <<>>
          /\ IsInjective(t.widgets[l])
          /\ \A x \in Widgets(t, l) :
                IF x \in Layouts THEN t.parentLayout[x] = l ELSE t.splitBy[x] = l
    /\ \A l, m \in Layouts : l # m => Widgets(t, l) \cap Widgets(t, m) = {}
    /\ IsInjective(t.doomed) /\ ToSet(t.doomed) \subseteq t.alive

\* What is not in the tree, but for what is in "out", goes when the event loop has caught
\* up: a layout that was merged away, with the wrapper that is left in it, and a wrapper
\* that was replaced.
LooseLayouts(t, out) ==
    \A l \in (t.alive \cap Layouts) \ (InTree(t) \cup out) :
        l \in ToSet(t.doomed) /\ Widgets(t, l) \subseteq Wrappers /\ t.parentLayout[l] = None

LooseWrappers(t, out) ==
    \A w \in (t.alive \cap Wrappers) \ (InTree(t) \cup out) :
        w \in ToSet(t.doomed) \/ \E l \in Layouts \ InTree(t) : w \in Widgets(t, l)

\* What restores that failed have left holds nothing else, is held by nothing else and is
\* never deleted.
Apart(t, out) ==
    /\ out \subseteq t.alive /\ Root \notin out /\ ToSet(t.doomed) \cap out = {}
    /\ \A l \in Layouts :
          IF l \in out THEN Widgets(t, l) \subseteq out ELSE Widgets(t, l) \cap out = {}

Leftovers(t, out) == LooseLayouts(t, out) /\ LooseWrappers(t, out) /\ Apart(t, out)

\* What is in the tree leads to a wrapper: when it goes, there is one to use again.
\* Between two operations of a step this may not be so for a layout l.
FilledBut(t, l) ==
    /\ \A m \in (InTree(t) \cap Layouts) \ {Root, l} : Len(t.widgets[m]) >= 2
    /\ \A m \in InTree(t) \cap Layouts : Below(t, m) \cap Wrappers # {} \/ l \in Below(t, m)

Filled(t) ==
    /\ \A l \in (InTree(t) \cap Layouts) \ {Root} : Len(t.widgets[l]) >= 2
    /\ \A l \in InTree(t) \cap Layouts : Below(t, l) \cap Wrappers # {}

TreeInv(t, out) == Structure(t) /\ Leftovers(t, out) /\ Filled(t)

\* What the parts say of one layout, for the steps of the proofs.
LEMMA Fields ==
    ASSUME NEW t, t \in TreeType
    PROVE  /\ t.alive \subseteq Layouts \cup Wrappers
           /\ t.widgets \in [Layouts -> Seq(Layouts \cup Wrappers)]
           /\ t.parentLayout \in [Layouts -> Layouts \cup {None}]
           /\ t.orientation \in [Layouts -> Orientations \cup {None}]
           /\ t.panel \in [Wrappers -> Panels \cup {Empty}]
           /\ t.splitBy \in [Wrappers -> Layouts \cup {None}]
           /\ t.doomed \in Seq(Layouts \cup Wrappers)
           /\ \A l \in Layouts : t.widgets[l] \in Seq(Layouts \cup Wrappers)
           /\ t = [alive |-> t.alive, widgets |-> t.widgets, parentLayout |-> t.parentLayout,
                   orientation |-> t.orientation, panel |-> t.panel, splitBy |-> t.splitBy,
                   doomed |-> t.doomed]
BY DEF TreeType

LEMMA WidgetsOf ==
    ASSUME NEW t, t \in TreeType, NEW l \in Layouts
    PROVE  /\ Widgets(t, l) \subseteq Layouts \cup Wrappers
           /\ Len(t.widgets[l]) \in Nat /\ DOMAIN t.widgets[l] = 1..Len(t.widgets[l])
           /\ t.widgets[l] = <<>> <=> Widgets(t, l) = {}
           /\ Len(t.widgets[l]) = 0 <=> t.widgets[l] = <<>>
<1>. DEFINE q == t.widgets[l]
<1>1. q \in Seq(Layouts \cup Wrappers)
  BY Fields
<1>. HIDE DEF q
<1>2. /\ ToSet(q) \subseteq Layouts \cup Wrappers /\ Len(q) \in Nat /\ DOMAIN q = 1..Len(q)
      /\ (q = <<>> <=> ToSet(q) = {}) /\ (Len(q) = 0 <=> q = <<>>)
  BY <1>1, ElementsOf
<1>. QED
  BY <1>2 DEF Widgets, q

\* An object has one holder.
LEMMA OneHolder ==
    ASSUME NEW t, Structure(t), NEW l \in Layouts, NEW m \in Layouts,
           NEW x, x \in Widgets(t, l), x \in Widgets(t, m)
    PROVE  l = m
BY DEF Structure

\* A layout in the tree, but for the root, is in the layout that it has as its parent.
LEMMA Parents ==
    ASSUME NEW t, Structure(t), NEW x \in InTree(t), x # Root
    PROVE  \E l \in InTree(t) \cap Layouts :
              /\ x \in Widgets(t, l) /\ l \in t.alive
              /\ IF x \in Layouts THEN t.parentLayout[x] = l ELSE t.splitBy[x] = l
<1>1. PICK l \in InTree(t) \cap Layouts : x \in Widgets(t, l)
  BY BelowIsHeld DEF InTree
<1>2. l \in t.alive
  <2>1. t.widgets[l] # <<>>
    BY <1>1 DEF Widgets, ToSet
  <2>. QED
    BY <2>1 DEF Structure
<1>. QED
  BY <1>1, <1>2 DEF Structure

LEMMA RootIsThere ==
    ASSUME NEW t PROVE Root \in InTree(t) /\ Root \in InTree(t) \cap Layouts
BY BelowHasItself, TreeAssumption DEF InTree

LEMMA TreeIsAlive ==
    ASSUME NEW t, Structure(t) PROVE InTree(t) \subseteq t.alive
<1>1. \A l \in t.alive \cap Layouts : Widgets(t, l) \subseteq t.alive
  BY DEF Structure
<1>2. Root \in t.alive
  BY DEF Structure
<1>. QED
  BY <1>1, <1>2, BelowIsLeast DEF InTree

-----------------------------------------------------------------------------
(* The operations                                                           *)

LEMMA NewIsNew ==
    ASSUME NEW t, NEW kind, kind \ t.alive # {}
    PROVE  New(t, kind) \in kind \ t.alive
BY DEF New

\* The bound of the instance leaves new objects.
LEMMA RoomIsThere ==
    ASSUME NEW S, NEW T, IsFiniteSet(S)
    PROVE  /\ Cardinality(S \ T) >= 1 => S \ T # {}
           /\ Cardinality(S \ T) >= 2 => \A x : (S \ T) \ {x} # {}
<1>. DEFINE D == S \ T
<1>1. IsFiniteSet(D) /\ Cardinality(D) \in Nat
  BY FS_Subset, FS_CardinalityType
<1>2. D = {} => Cardinality(D) = 0
  BY FS_EmptySet
<1>3. ASSUME NEW x, D \ {x} = {} PROVE Cardinality(D) <= 1
  <2>1. CASE x \in D
    <3>1. D = {x}
      BY <1>3, <2>1
    <3>. QED
      BY <3>1, FS_Singleton
  <2>2. CASE x \notin D
    <3>1. D = {}
      BY <1>3, <2>2
    <3>. QED
      BY <1>2, <3>1
  <2>. QED
    BY <2>1, <2>2
<1>. HIDE DEF D
<1>4. Cardinality(D) >= 1 => D # {}
  BY <1>1, <1>2
<1>5. Cardinality(D) >= 2 => \A x : D \ {x} # {}
  BY <1>1, <1>3
<1>. QED
  BY <1>4, <1>5 DEF D

LEMMA DoomedLater ==
    ASSUME NEW t, Structure(t), NEW x \in t.alive, x # Root, NEW u, u = DeleteLater(t, x)
    PROVE  /\ Structure(u)
           /\ u.alive = t.alive /\ u.widgets = t.widgets /\ u.parentLayout = t.parentLayout
           /\ u.panel = t.panel
           /\ ToSet(u.doomed) = ToSet(t.doomed) \cup {x}
<1>1. CASE x \in ToSet(t.doomed)
  BY <1>1 DEF DeleteLater
<1>2. CASE x \notin ToSet(t.doomed)
  <2>1. u = [t EXCEPT !.doomed = Append(@, x)]
    BY <1>2 DEF DeleteLater
  <2>2. t \in TreeType
    BY DEF Structure
  <2>3. x \in Layouts \cup Wrappers /\ t.doomed \in Seq(Layouts \cup Wrappers) /\ IsInjective(t.doomed)
    BY <2>2, Fields DEF Structure
  <2>. DEFINE q == Append(t.doomed, x)
  <2>4. q \in Seq(Layouts \cup Wrappers) /\ ToSet(q) = ToSet(t.doomed) \cup {x} /\ IsInjective(q)
    BY <1>2, <2>3, Appended
  <2>. HIDE DEF q
  <2>5. u = [t EXCEPT !.doomed = q]
    BY <2>1 DEF q
  <2>6. /\ u \in TreeType /\ u.doomed = q
        /\ u.alive = t.alive /\ u.widgets = t.widgets /\ u.parentLayout = t.parentLayout
        /\ u.panel = t.panel /\ u.splitBy = t.splitBy
    BY <2>2, <2>4, <2>5 DEF TreeType
  <2>7. Structure(u)
    BY <2>4, <2>6 DEF Structure, Widgets
  <2>. QED
    BY <2>4, <2>6, <2>7
<1>. QED
  BY <1>1, <1>2

\* What restores have left stays where it is when it is not touched and not doomed.
LEMMA ApartKept ==
    ASSUME NEW t, NEW out, Apart(t, out), NEW u, t.alive \cap out \subseteq u.alive,
           ToSet(u.doomed) \cap out = {},
           \A l \in Layouts : IF l \in out THEN Widgets(u, l) \subseteq Widgets(t, l)
                             ELSE Widgets(u, l) \cap out \subseteq Widgets(t, l)
    PROVE  Apart(u, out)
BY DEF Apart

\* Nothing of it is in anything else.
LEMMA BelowIsApart ==
    ASSUME NEW t, NEW out, Apart(t, out), NEW x, x \notin out
    PROVE  Below(t, x) \cap out = {}
<1>. DEFINE S == Below(t, x) \ out
<1>1. x \in S
  BY BelowHasItself
<1>2. ASSUME NEW l \in S \cap Layouts PROVE Widgets(t, l) \subseteq S
  <2>1. Widgets(t, l) \subseteq Below(t, x)
    BY BelowIsClosed
  <2>. QED
    BY <2>1 DEF Apart
<1>. HIDE DEF S
<1>3. Below(t, x) \subseteq S
  BY <1>1, <1>2, BelowIsLeast
<1>. QED
  BY <1>3 DEF S

\* More that is doomed leaves nothing over.
LEMMA DoomedMore ==
    ASSUME NEW t, NEW out, NEW u, u.alive = t.alive, u.widgets = t.widgets, u.parentLayout = t.parentLayout,
           ToSet(t.doomed) \subseteq ToSet(u.doomed)
    PROVE  /\ \A x : Below(u, x) = Below(t, x)
           /\ InTree(u) = InTree(t)
           /\ Leftovers(t, out) /\ ToSet(u.doomed) \cap out = {} => Leftovers(u, out)
           /\ Filled(t) => Filled(u)
<1>1. \A l : Widgets(u, l) = Widgets(t, l)
  BY DEF Widgets
<1>2. \A x : Below(u, x) = Below(t, x)
  BY <1>1, BelowSame
<1>3. InTree(u) = InTree(t)
  BY <1>2 DEF InTree
<1>4. ASSUME Leftovers(t, out), ToSet(u.doomed) \cap out = {} PROVE Leftovers(u, out)
  <2>1. LooseLayouts(u, out) /\ LooseWrappers(u, out)
    BY <1>1, <1>3, <1>4 DEF Leftovers, LooseLayouts, LooseWrappers
  <2>2. Apart(u, out)
    BY <1>1, <1>4, ApartKept DEF Leftovers
  <2>. QED
    BY <2>1, <2>2 DEF Leftovers
<1>5. Filled(t) => Filled(u)
  BY <1>2, <1>3 DEF Filled
<1>. QED
  BY <1>2, <1>3, <1>4, <1>5

\* u is t with the new wrapper w in the layout l.
Inserts(t, l, w, p, u) ==
    /\ u.alive = t.alive \cup {w}
    /\ \A m \in Layouts : Widgets(u, m) = IF m = l THEN Widgets(t, l) \cup {w} ELSE Widgets(t, m)
    /\ \A m \in Layouts : Len(u.widgets[m]) = Len(t.widgets[m]) + (IF m = l THEN 1 ELSE 0)
    /\ u.parentLayout = t.parentLayout /\ u.doomed = t.doomed
    /\ u.panel = [t.panel EXCEPT ![w] = p]

LEMMA WidgetInserted ==
    ASSUME NEW t, Structure(t), NEW l \in t.alive \cap Layouts,
           NEW i \in 1..(Len(t.widgets[l]) + 1), NEW p \in Panels \cup {Empty},
           Wrappers \ t.alive # {}
    PROVE  /\ New(t, Wrappers) \in Wrappers \ t.alive
           /\ Structure(InsertWidget(t, l, i, p))
           /\ Inserts(t, l, New(t, Wrappers), p, InsertWidget(t, l, i, p))
<1>. DEFINE u == InsertWidget(t, l, i, p)
            w == New(t, Wrappers)
<1>01. u = InsertWidget(t, l, i, p) /\ w = New(t, Wrappers)
  OBVIOUS
<1>. HIDE DEF u, w
<1>. DEFINE Objects == Layouts \cup Wrappers
            q == InsertAt(t.widgets[l], i, w)
<1>0. t \in TreeType
  BY DEF Structure
<1>1. w \in Wrappers \ t.alive /\ w \notin Layouts /\ w # Root
  BY <1>01, NewIsNew, TreeAssumption
<1>2. \A m \in Layouts : w \notin Widgets(t, m)
  BY <1>1 DEF Structure
<1>3. /\ t.widgets[l] \in Seq(Objects) /\ IsInjective(t.widgets[l])
      /\ w \in Objects /\ w \notin ToSet(t.widgets[l])
  BY <1>0, <1>1, <1>2, Fields DEF Structure, Widgets
<1>4. /\ q \in Seq(Objects) /\ Len(q) = Len(t.widgets[l]) + 1
      /\ ToSet(q) = Widgets(t, l) \cup {w} /\ IsInjective(q)
  BY <1>3, Inserted DEF Widgets
<1>. HIDE DEF q
<1>5. u = [t EXCEPT !.alive = @ \cup {w}, !.panel[w] = p, !.splitBy[w] = l, !.widgets[l] = q]
  <2>1. u = [WrapPanel(t, w, l, p) EXCEPT !.widgets[l] = InsertAt(@, i, w)]
    BY <1>01 DEF InsertWidget
  <2>2. WrapPanel(t, w, l, p).widgets = t.widgets
    BY <1>0 DEF WrapPanel, TreeType
  <2>. QED
    BY <1>0, <2>1, <2>2 DEF WrapPanel, TreeType, q
<1>6. /\ u \in TreeType
      /\ u.alive = t.alive \cup {w}
      /\ u.widgets = [t.widgets EXCEPT ![l] = q]
      /\ u.splitBy = [t.splitBy EXCEPT ![w] = l]
      /\ u.panel = [t.panel EXCEPT ![w] = p]
      /\ u.parentLayout = t.parentLayout /\ u.doomed = t.doomed
  <2>1. u = [alive |-> t.alive \cup {w}, widgets |-> [t.widgets EXCEPT ![l] = q],
             parentLayout |-> t.parentLayout, orientation |-> t.orientation,
             panel |-> [t.panel EXCEPT ![w] = p], splitBy |-> [t.splitBy EXCEPT ![w] = l],
             doomed |-> t.doomed]
    BY <1>0, <1>5 DEF TreeType
  <2>2. t.alive \cup {w} \in SUBSET Objects
    BY <1>0, <1>1, Fields
  <2>3. [t.widgets EXCEPT ![l] = q] \in [Layouts -> Seq(Objects)]
    BY <1>0, <1>4, Fields
  <2>4. [t.panel EXCEPT ![w] = p] \in [Wrappers -> Panels \cup {Empty}]
    BY <1>0, <1>1, Fields
  <2>5. [t.splitBy EXCEPT ![w] = l] \in [Wrappers -> Layouts \cup {None}]
    BY <1>0, <1>1, Fields
  <2>6. u \in TreeType
    BY <1>0, <2>1, <2>2, <2>3, <2>4, <2>5, Fields DEF TreeType
  <2>. QED
    BY <2>1, <2>6
<1>7. \A m \in Layouts : u.widgets[m] = IF m = l THEN q ELSE t.widgets[m]
  BY <1>0, <1>6, Fields
<1>8. \A m \in Layouts : Widgets(u, m) = IF m = l THEN Widgets(t, l) \cup {w} ELSE Widgets(t, m)
  BY <1>4, <1>7 DEF Widgets
<1>9. \A m \in Layouts : Len(u.widgets[m]) = Len(t.widgets[m]) + (IF m = l THEN 1 ELSE 0)
  <2>1. TAKE m \in Layouts
  <2>2. Len(t.widgets[m]) \in Nat
    BY <1>0, WidgetsOf
  <2>3. CASE m = l
    BY <1>4, <1>7, <2>3
  <2>4. CASE m # l
    BY <1>7, <2>2, <2>4
  <2>. QED
    BY <2>3, <2>4
<1>10. \A v \in Wrappers : u.splitBy[v] = IF v = w THEN l ELSE t.splitBy[v]
  BY <1>0, <1>6, Fields
<1>11. ASSUME NEW m \in Layouts
       PROVE  /\ Root \notin Widgets(u, m)
              /\ Widgets(u, m) \subseteq u.alive
              /\ m \notin u.alive => u.widgets[m] = <<>>
              /\ IsInjective(u.widgets[m])
              /\ \A x \in Widgets(u, m) : IF x \in Layouts THEN u.parentLayout[x] = m ELSE u.splitBy[x] = m
  <2>1. /\ Root \notin Widgets(t, m) /\ Widgets(t, m) \subseteq t.alive
        /\ m \notin t.alive => t.widgets[m] = <<>>
        /\ IsInjective(t.widgets[m])
        /\ \A x \in Widgets(t, m) : IF x \in Layouts THEN t.parentLayout[x] = m ELSE t.splitBy[x] = m
    BY DEF Structure
  <2>2. \A x \in Widgets(t, m) : x \in Layouts \/ (x \in Wrappers /\ x # w)
    BY <1>0, <1>2, WidgetsOf
  <2>3. \A x \in Widgets(u, m) : IF x \in Layouts THEN u.parentLayout[x] = m ELSE u.splitBy[x] = m
    BY <1>1, <1>6, <1>8, <1>10, <2>1, <2>2
  <2>. QED
    BY <1>1, <1>4, <1>6, <1>7, <1>8, <2>1, <2>3
<1>12. \A m, n \in Layouts : m # n => Widgets(u, m) \cap Widgets(u, n) = {}
  BY <1>2, <1>8 DEF Structure
<1>13. Structure(u)
  BY <1>6, <1>11, <1>12 DEF Structure
<1>. QED
  BY <1>01, <1>1, <1>6, <1>8, <1>9, <1>13 DEF Inserts

\* What is below an object then, and what becomes of the rest of the invariant.
LEMMA BelowInserted ==
    ASSUME NEW t, NEW u, NEW l \in Layouts, NEW w, w \notin Layouts,
           \A m \in Layouts : Widgets(u, m) = IF m = l THEN Widgets(t, l) \cup {w} ELSE Widgets(t, m),
           NEW y
    PROVE  Below(u, y) = Below(t, y) \cup (IF l \in Below(t, y) THEN {w} ELSE {})
<1>. DEFINE S == Below(t, y) \cup (IF l \in Below(t, y) THEN {w} ELSE {})
<1>1. Below(t, y) \subseteq Below(u, y)
  BY BelowGrows
<1>2. l \in Below(t, y) => w \in Below(u, y)
  BY <1>1, BelowIsClosed
<1>3. y \in S
  BY BelowHasItself
<1>4. \A m \in S \cap Layouts : Widgets(u, m) \subseteq S
  BY BelowIsClosed
<1>5. S \subseteq Below(u, y)
  BY <1>1, <1>2
<1>. HIDE DEF S
<1>6. Below(u, y) \subseteq S
  BY <1>3, <1>4, BelowIsLeast
<1>. QED
  BY <1>5, <1>6 DEF S

LEMMA InsertedTree ==
    ASSUME NEW t, NEW u, NEW out, NEW l \in Layouts, NEW w \in Wrappers, NEW but,
           u.alive = t.alive \cup {w}, u.parentLayout = t.parentLayout, u.doomed = t.doomed,
           \A m \in Layouts : Widgets(u, m) = IF m = l THEN Widgets(t, l) \cup {w} ELSE Widgets(t, m),
           LooseLayouts(t, out), LooseWrappers(t, but)
    PROVE  /\ InTree(u) = InTree(t) \cup (IF l \in InTree(t) THEN {w} ELSE {})
           /\ LooseLayouts(u, out) /\ LooseWrappers(u, but)
<1>0. w \notin Layouts
  BY TreeAssumption
<1>1. InTree(u) = InTree(t) \cup (IF l \in InTree(t) THEN {w} ELSE {})
  BY <1>0, BelowInserted DEF InTree
<1>2. InTree(u) \cap Layouts = InTree(t) \cap Layouts /\ u.alive \cap Layouts = t.alive \cap Layouts
  BY <1>0, <1>1
<1>3. LooseLayouts(u, out)
  BY <1>1, <1>2 DEF LooseLayouts
<1>4. LooseWrappers(u, but)
  <2>1. SUFFICES ASSUME NEW v \in (u.alive \cap Wrappers) \ (InTree(u) \cup but)
                 PROVE  v \in ToSet(u.doomed) \/ \E m \in Layouts \ InTree(u) : v \in Widgets(u, m)
    BY DEF LooseWrappers
  <2>2. CASE v = w
    <3>1. l \notin InTree(t)
      BY <1>1, <2>1, <2>2
    <3>2. l \in Layouts \ InTree(u) /\ w \in Widgets(u, l)
      BY <1>2, <3>1
    <3>. QED
      BY <2>2, <3>2
  <2>3. CASE v # w
    <3>1. v \in (t.alive \cap Wrappers) \ (InTree(t) \cup but)
      BY <1>1, <2>1, <2>3
    <3>2. v \in ToSet(t.doomed) \/ \E m \in Layouts \ InTree(t) : v \in Widgets(t, m)
      BY <3>1 DEF LooseWrappers
    <3>. QED
      BY <1>2, <3>2
  <2>. QED
    BY <2>2, <2>3
<1>. QED
  BY <1>1, <1>3, <1>4

LEMMA InsertedLoose ==
    ASSUME NEW t, NEW u, NEW out, NEW l \in Layouts, NEW w \in Wrappers,
           u.alive = t.alive \cup {w}, u.parentLayout = t.parentLayout, u.doomed = t.doomed,
           \A m \in Layouts : Widgets(u, m) = IF m = l THEN Widgets(t, l) \cup {w} ELSE Widgets(t, m),
           LooseLayouts(t, out), LooseWrappers(t, out)
    PROVE  LooseLayouts(u, out) /\ LooseWrappers(u, out)
  BY InsertedTree

\* It makes a layout that was not filled so.
LEMMA InsertedFills ==
    ASSUME NEW t, NEW u, NEW l \in Layouts, NEW w \in Wrappers,
           \A m \in Layouts : Widgets(u, m) = IF m = l THEN Widgets(t, l) \cup {w} ELSE Widgets(t, m),
           \A m \in Layouts : Len(u.widgets[m]) = Len(t.widgets[m]) + (IF m = l THEN 1 ELSE 0),
           t \in TreeType, FilledBut(t, l),
           l \in InTree(t) \ {Root} => Len(t.widgets[l]) >= 1
    PROVE  Filled(u)
<1>0. w \notin Layouts
  BY TreeAssumption
<1>1. \A y : Below(u, y) = Below(t, y) \cup (IF l \in Below(t, y) THEN {w} ELSE {})
  BY <1>0, BelowInserted
<1>2. InTree(u) \cap Layouts = InTree(t) \cap Layouts
  BY <1>0, <1>1 DEF InTree
<1>3. ASSUME NEW m \in (InTree(u) \cap Layouts) \ {Root} PROVE Len(u.widgets[m]) >= 2
  <2>1. Len(t.widgets[m]) \in Nat /\ m \in (InTree(t) \cap Layouts) \ {Root}
    BY <1>2, WidgetsOf
  <2>2. CASE m = l
    <3>1. Len(t.widgets[m]) >= 1 /\ Len(u.widgets[m]) = Len(t.widgets[m]) + 1
      BY <2>1, <2>2
    <3>. QED
      BY <2>1, <3>1
  <2>3. CASE m # l
    <3>1. Len(t.widgets[m]) >= 2 /\ Len(u.widgets[m]) = Len(t.widgets[m]) + 0
      BY <2>1, <2>3 DEF FilledBut
    <3>. QED
      BY <2>1, <3>1
  <2>. QED
    BY <2>2, <2>3
<1>4. ASSUME NEW m \in InTree(u) \cap Layouts PROVE Below(u, m) \cap Wrappers # {}
  <2>1. Below(t, m) \cap Wrappers # {} \/ l \in Below(t, m)
    BY <1>2 DEF FilledBut
  <2>. QED
    BY <1>1, <2>1
<1>. QED
  BY <1>3, <1>4 DEF Filled

\* A layout that may still be short of widgets.
LEMMA InsertedBut ==
    ASSUME NEW t, NEW u, NEW l \in Layouts, NEW w \in Wrappers,
           \A m \in Layouts : Widgets(u, m) = IF m = l THEN Widgets(t, l) \cup {w} ELSE Widgets(t, m),
           \A m \in Layouts : Len(u.widgets[m]) = Len(t.widgets[m]) + (IF m = l THEN 1 ELSE 0),
           t \in TreeType, FilledBut(t, l)
    PROVE  FilledBut(u, l)
<1>0. w \notin Layouts
  BY TreeAssumption
<1>1. \A y : Below(u, y) = Below(t, y) \cup (IF l \in Below(t, y) THEN {w} ELSE {})
  BY <1>0, BelowInserted
<1>2. InTree(u) \cap Layouts = InTree(t) \cap Layouts
  BY <1>0, <1>1 DEF InTree
<1>3. ASSUME NEW m \in (InTree(u) \cap Layouts) \ {Root, l} PROVE Len(u.widgets[m]) >= 2
  <2>1. Len(t.widgets[m]) >= 2 /\ Len(t.widgets[m]) \in Nat /\ Len(u.widgets[m]) = Len(t.widgets[m]) + 0
    BY <1>2, WidgetsOf DEF FilledBut
  <2>. QED
    BY <2>1
<1>4. ASSUME NEW m \in InTree(u) \cap Layouts PROVE Below(u, m) \cap Wrappers # {} \/ l \in Below(u, m)
  <2>1. Below(t, m) \cap Wrappers # {} \/ l \in Below(t, m)
    BY <1>2 DEF FilledBut
  <2>. QED
    BY <1>1, <2>1
<1>. QED
  BY <1>3, <1>4 DEF FilledBut

\* All of the invariant, where there was one widget in the layout or none was needed.
LEMMA InsertedInv ==
    ASSUME NEW t, NEW out, Structure(t), Leftovers(t, out), NEW l \in t.alive \cap Layouts, l \notin out,
           FilledBut(t, l), l \in InTree(t) \ {Root} => Len(t.widgets[l]) >= 1,
           NEW i \in 1..(Len(t.widgets[l]) + 1), NEW p \in Panels \cup {Empty},
           Wrappers \ t.alive # {}
    PROVE  TreeInv(InsertWidget(t, l, i, p), out)
<1>. DEFINE u == InsertWidget(t, l, i, p)
            w == New(t, Wrappers)
<1>1. w \in Wrappers \ t.alive /\ Structure(u) /\ Inserts(t, l, w, p, u)
  BY WidgetInserted
<1>. HIDE DEF u, w
<1>2. /\ u.alive = t.alive \cup {w} /\ u.parentLayout = t.parentLayout /\ u.doomed = t.doomed
      /\ \A m \in Layouts : Widgets(u, m) = IF m = l THEN Widgets(t, l) \cup {w} ELSE Widgets(t, m)
      /\ \A m \in Layouts : Len(u.widgets[m]) = Len(t.widgets[m]) + (IF m = l THEN 1 ELSE 0)
  BY <1>1 DEF Inserts
<1>3. /\ LooseLayouts(t, out) /\ LooseWrappers(t, out) /\ Apart(t, out)
      /\ t \in TreeType /\ l \in Layouts /\ w \in Wrappers
  BY <1>1 DEF Leftovers, Structure
<1>4. LooseLayouts(u, out) /\ LooseWrappers(u, out)
  <2>1. /\ LooseLayouts(t, out) /\ LooseWrappers(t, out) /\ l \in Layouts /\ w \in Wrappers
        /\ u.alive = t.alive \cup {w} /\ u.parentLayout = t.parentLayout /\ u.doomed = t.doomed
        /\ \A m \in Layouts : Widgets(u, m) = IF m = l THEN Widgets(t, l) \cup {w} ELSE Widgets(t, m)
    BY <1>2, <1>3
  <2>. QED
    BY <2>1, InsertedLoose
<1>5. Filled(u)
  BY <1>2, <1>3, InsertedFills
<1>6. Apart(u, out)
  <2>1. w \notin out /\ ToSet(u.doomed) \cap out = {}
    BY <1>1, <1>2, <1>3 DEF Apart
  <2>. QED
    BY <1>2, <1>3, <2>1, ApartKept
<1>7. TreeInv(u, out)
  BY <1>1, <1>4, <1>5, <1>6 DEF TreeInv, Leftovers
<1>. QED
  BY <1>7 DEF u

-----------------------------------------------------------------------------
(* A deletion                                                               *)

\* What goes with x is in nothing that stays, but for x.
LEMMA GoneIsHeldByGone ==
    ASSUME NEW t, Structure(t), NEW x, NEW k \in Layouts, k \notin Below(t, x),
           NEW y, y \in Widgets(t, k), y \in Below(t, x)
    PROVE  y = x
<1>1. SUFFICES ASSUME y # x PROVE FALSE
  OBVIOUS
<1>2. PICK l \in Below(t, x) \cap Layouts : y \in Widgets(t, l)
  BY <1>1, BelowIsHeld
<1>3. l = k
  BY <1>2, OneHolder
<1>. QED
  BY <1>2, <1>3

\* Where x is held by nothing that stays, what stays has nothing of x in it.
LEMMA ApartFrom ==
    ASSUME NEW t, Structure(t), NEW x, NEW y, y \notin Below(t, x),
           \A l \in (Below(t, y) \ Below(t, x)) \cap Layouts : x \notin Widgets(t, l)
    PROVE  Below(t, y) \cap Below(t, x) = {}
<1>. DEFINE S == Below(t, y) \ Below(t, x)
<1>1. y \in S
  BY BelowHasItself
<1>2. ASSUME NEW l \in S \cap Layouts PROVE Widgets(t, l) \subseteq S
  <2>1. Widgets(t, l) \subseteq Below(t, y)
    BY BelowIsClosed
  <2>2. \A z \in Widgets(t, l) : z \in Below(t, x) => z = x
    BY GoneIsHeldByGone
  <2>. QED
    BY <2>1, <2>2
<1>. HIDE DEF S
<1>3. Below(t, y) \subseteq S
  BY <1>1, <1>2, BelowIsLeast
<1>. QED
  BY <1>3 DEF S

\* What is deleted is not in itself.
LEMMA HolderStays ==
    ASSUME NEW t, NEW out, Structure(t), Leftovers(t, out), NEW x \in ToSet(t.doomed)
    PROVE  /\ Root \notin Below(t, x)
           /\ \A l \in Layouts : x \in Widgets(t, l) => l \notin Below(t, x)
<1>1. Root \notin Below(t, x)
  <2>1. SUFFICES ASSUME Root \in Below(t, x) PROVE FALSE
    OBVIOUS
  <2>2. Root # x
    BY DEF Structure
  <2>3. \E l \in Layouts : Root \in Widgets(t, l)
    BY <2>1, <2>2, BelowIsHeld
  <2>. QED
    BY <2>3 DEF Structure
<1>2. ASSUME NEW l \in Layouts, x \in Widgets(t, l), l \in Below(t, x) PROVE FALSE
  <2>1. \A k \in Layouts : k \notin Below(t, x) => x \notin Widgets(t, k)
    BY <1>2, OneHolder
  <2>2. InTree(t) \cap Below(t, x) = {}
    BY <1>1, <2>1, ApartFrom DEF InTree
  <2>3. l \notin InTree(t) /\ l \in t.alive
    <3>1. t.widgets[l] # <<>>
      BY <1>2 DEF Widgets, ToSet
    <3>. QED
      BY <1>2, <2>2, <3>1 DEF Structure
  <2>4. x \in Wrappers
    <3>1. l \notin out
      BY <1>2 DEF Leftovers, Apart
    <3>. QED
      BY <1>2, <2>3, <3>1 DEF Leftovers, LooseLayouts
  <2>5. x \notin Layouts
    BY <2>4, TreeAssumption
  <2>6. Below(t, x) = {x}
    BY <2>5, BelowWrapper
  <2>. QED
    BY <1>2, <2>5, <2>6
<1>. QED
  BY <1>1, <1>2

\* u is t without x and what is below it.
Without(t, x, u) ==
    /\ u.alive = t.alive \ Below(t, x)
    /\ \A m \in Layouts : Widgets(u, m) = IF m \in Below(t, x) THEN {} ELSE Widgets(t, m) \ {x}
    /\ \A m \in Layouts \ Below(t, x) :
          /\ Len(u.widgets[m]) = Len(t.widgets[m]) - (IF x \in Widgets(t, m) THEN 1 ELSE 0)
          /\ u.parentLayout[m] = t.parentLayout[m]
    /\ \A w \in Wrappers \ Below(t, x) : u.panel[w] = t.panel[w]
    /\ ToSet(u.doomed) = ToSet(t.doomed) \ Below(t, x)

LEMMA Destroyed ==
    ASSUME NEW t, NEW out, Structure(t), Leftovers(t, out), NEW x \in ToSet(t.doomed)
    PROVE  Structure(Destroy(t, x)) /\ Without(t, x, Destroy(t, x))
<1>. DEFINE u == Destroy(t, x)
            gone == Below(t, x)
<1>01. u = Destroy(t, x) /\ gone = Below(t, x)
  OBVIOUS
<1>. HIDE DEF u, gone
<1>. DEFINE Objects == Layouts \cup Wrappers
            Left(m) == IF m \in gone THEN <<>>
                       ELSE IF x \in Widgets(t, m)
                       THEN RemoveAt(t.widgets[m], PositionIn(t.widgets[m], x))
                       ELSE t.widgets[m]
            queue == Outlasting(t.doomed, gone)
<1>0. t \in TreeType /\ Root \notin gone
  BY <1>01, HolderStays DEF Structure
<1>1. u = [alive |-> t.alive \ gone,
           widgets |-> [l \in Layouts |-> Left(l)],
           parentLayout |-> [l \in Layouts |-> IF l \in gone THEN None ELSE t.parentLayout[l]],
           orientation |-> [l \in Layouts |-> IF l \in gone THEN None ELSE t.orientation[l]],
           panel |-> [w \in Wrappers |-> IF w \in gone THEN Empty ELSE t.panel[w]],
           splitBy |-> [w \in Wrappers |-> IF w \in gone THEN None ELSE t.splitBy[w]],
           doomed |-> queue]
  BY <1>01 DEF Destroy
<1>2. ASSUME NEW m \in Layouts
      PROVE  /\ Left(m) \in Seq(Objects) /\ IsInjective(Left(m))
             /\ ToSet(Left(m)) = IF m \in gone THEN {} ELSE Widgets(t, m) \ {x}
             /\ m \notin gone => Len(Left(m)) = Len(t.widgets[m]) - (IF x \in Widgets(t, m) THEN 1 ELSE 0)
  <2>1. t.widgets[m] \in Seq(Objects) /\ IsInjective(t.widgets[m]) /\ Len(t.widgets[m]) \in Nat
    BY <1>0, Fields, WidgetsOf DEF Structure
  <2>2. CASE m \in gone
    BY <2>2 DEF ToSet, IsInjective
  <2>3. CASE m \notin gone /\ x \notin Widgets(t, m)
    BY <2>1, <2>3 DEF Widgets
  <2>4. CASE m \notin gone /\ x \in Widgets(t, m)
    <3>. DEFINE q == t.widgets[m]
                i == PositionIn(q, x)
    <3>1. i \in DOMAIN q /\ q[i] = x /\ q \in Seq(Objects) /\ IsInjective(q)
      BY <2>1, <2>4, PositionFound DEF Widgets
    <3>2. Left(m) = RemoveAt(q, i)
      BY <2>4
    <3>. HIDE DEF i, q, Left
    <3>3. /\ RemoveAt(q, i) \in Seq(Objects) /\ Len(RemoveAt(q, i)) = Len(q) - 1
          /\ ToSet(RemoveAt(q, i)) = ToSet(q) \ {x} /\ IsInjective(RemoveAt(q, i))
      BY <3>1, Removed
    <3>. QED
      BY <2>4, <3>2, <3>3 DEF Widgets, q
  <2>. QED
    BY <2>2, <2>3, <2>4
<1>3. /\ queue \in Seq(Objects) /\ ToSet(queue) = ToSet(t.doomed) \ gone /\ IsInjective(queue)
  <2>1. t.doomed \in Seq(Objects) /\ IsInjective(t.doomed)
    BY <1>0, Fields DEF Structure
  <2>. HIDE DEF Objects
  <2>. QED
    BY <2>1, Outlasted
<1>. HIDE DEF Left, queue
<1>4. u \in TreeType
  <2>1. t.alive \ gone \in SUBSET Objects
    BY <1>0, Fields
  <2>2. [l \in Layouts |-> Left(l)] \in [Layouts -> Seq(Objects)]
    BY <1>2
  <2>3. [l \in Layouts |-> IF l \in gone THEN None ELSE t.parentLayout[l]] \in [Layouts -> Layouts \cup {None}]
    BY <1>0, Fields
  <2>4. [l \in Layouts |-> IF l \in gone THEN None ELSE t.orientation[l]] \in [Layouts -> Orientations \cup {None}]
    BY <1>0, Fields
  <2>5. [w \in Wrappers |-> IF w \in gone THEN Empty ELSE t.panel[w]] \in [Wrappers -> Panels \cup {Empty}]
    BY <1>0, Fields
  <2>6. [w \in Wrappers |-> IF w \in gone THEN None ELSE t.splitBy[w]] \in [Wrappers -> Layouts \cup {None}]
    BY <1>0, Fields
  <2>. QED
    BY <1>1, <1>3, <2>1, <2>2, <2>3, <2>4, <2>5, <2>6 DEF TreeType
<1>5. /\ u.alive = t.alive \ gone /\ u.doomed = queue
      /\ \A m \in Layouts : u.widgets[m] = Left(m)
      /\ \A m \in Layouts : u.parentLayout[m] = IF m \in gone THEN None ELSE t.parentLayout[m]
      /\ \A w \in Wrappers : u.panel[w] = IF w \in gone THEN Empty ELSE t.panel[w]
      /\ \A w \in Wrappers : u.splitBy[w] = IF w \in gone THEN None ELSE t.splitBy[w]
  BY <1>1
<1>6. \A m \in Layouts : Widgets(u, m) = IF m \in gone THEN {} ELSE Widgets(t, m) \ {x}
  BY <1>2, <1>5 DEF Widgets
<1>7. \A m \in Layouts \ gone :
         Len(u.widgets[m]) = Len(t.widgets[m]) - (IF x \in Widgets(t, m) THEN 1 ELSE 0)
  BY <1>2, <1>5
<1>8. ASSUME NEW m \in Layouts
      PROVE  /\ Root \notin Widgets(u, m)
             /\ Widgets(u, m) \subseteq u.alive
             /\ m \notin u.alive => u.widgets[m] = <<>>
             /\ IsInjective(u.widgets[m])
             /\ \A y \in Widgets(u, m) : IF y \in Layouts THEN u.parentLayout[y] = m ELSE u.splitBy[y] = m
  <2>1. /\ Root \notin Widgets(t, m) /\ Widgets(t, m) \subseteq t.alive
        /\ m \notin t.alive => t.widgets[m] = <<>>
        /\ \A y \in Widgets(t, m) : IF y \in Layouts THEN t.parentLayout[y] = m ELSE t.splitBy[y] = m
        /\ Widgets(t, m) \subseteq Objects
    BY <1>0, WidgetsOf DEF Structure
  <2>2. \A y \in Widgets(u, m) : m \notin gone /\ y \in Widgets(t, m) /\ y \notin gone
    <3>1. SUFFICES ASSUME NEW y \in Widgets(u, m) PROVE m \notin gone /\ y \in Widgets(t, m) /\ y \notin gone
      OBVIOUS
    <3>2. m \notin gone /\ y \in Widgets(t, m) /\ y # x
      BY <1>6, <3>1
    <3>. QED
      BY <1>01, <3>2, GoneIsHeldByGone
  <2>3. m \notin u.alive => u.widgets[m] = <<>>
    <3>1. CASE m \in gone
      BY <1>5, <3>1 DEF Left
    <3>2. CASE m \notin gone
      <4>1. SUFFICES ASSUME m \notin u.alive PROVE u.widgets[m] = <<>>
        OBVIOUS
      <4>2. t.widgets[m] = <<>>
        BY <1>5, <2>1, <3>2, <4>1
      <4>3. x \notin Widgets(t, m)
        BY <4>2 DEF Widgets, ToSet
      <4>. QED
        BY <1>5, <3>2, <4>2, <4>3 DEF Left
    <3>. QED
      BY <3>1, <3>2
  <2>. QED
    BY <1>2, <1>5, <2>1, <2>2, <2>3
<1>9. \A m, n \in Layouts : m # n => Widgets(u, m) \cap Widgets(u, n) = {}
  BY <1>6 DEF Structure
<1>10. Structure(u)
  <2>1. /\ Root \in t.alive /\ t.parentLayout[Root] = None /\ Root \notin ToSet(t.doomed)
        /\ ToSet(t.doomed) \subseteq t.alive /\ Root \in Layouts
    BY TreeAssumption DEF Structure
  <2>2. /\ Root \in u.alive /\ u.parentLayout[Root] = None /\ Root \notin ToSet(u.doomed)
        /\ IsInjective(u.doomed) /\ ToSet(u.doomed) \subseteq u.alive
    BY <1>0, <1>3, <1>5, <2>1
  <2>. QED
    BY <1>4, <1>8, <1>9, <2>2 DEF Structure
<1>. QED
  BY <1>01, <1>3, <1>5, <1>6, <1>7, <1>10 DEF Without

\* What is below the rest is what was, less what is gone.
LEMMA BelowDestroyed ==
    ASSUME NEW t, NEW u, NEW x, Structure(t), NEW gone, gone = Below(t, x),
           \A m \in Layouts : Widgets(u, m) = IF m \in gone THEN {} ELSE Widgets(t, m) \ {x},
           NEW y, y \notin gone
    PROVE  Below(u, y) = Below(t, y) \ gone
<1>1. Below(u, y) \subseteq Below(t, y) \ gone
  <2>. DEFINE S == Below(t, y) \ gone
  <2>1. y \in S
    BY BelowHasItself
  <2>2. ASSUME NEW l \in S \cap Layouts PROVE Widgets(u, l) \subseteq S
    <3>1. Widgets(t, l) \subseteq Below(t, y)
      BY BelowIsClosed
    <3>2. \A z \in Widgets(t, l) : z \in gone => z = x
      BY GoneIsHeldByGone
    <3>. QED
      BY <3>1, <3>2
  <2>. HIDE DEF S
  <2>3. Below(u, y) \subseteq S
    BY <2>1, <2>2, BelowIsLeast
  <2>. QED
    BY <2>3 DEF S
<1>2. Below(t, y) \subseteq Below(u, y) \cup gone
  <2>. DEFINE S == Below(u, y) \cup gone
  <2>1. y \in S
    BY BelowHasItself
  <2>2. ASSUME NEW l \in S \cap Layouts PROVE Widgets(t, l) \subseteq S
    <3>1. CASE l \in gone
      BY <3>1, BelowIsClosed
    <3>2. CASE l \notin gone
      <4>1. Widgets(u, l) \subseteq Below(u, y)
        BY <2>2, <3>2, BelowIsClosed
      <4>2. Widgets(t, l) \subseteq Widgets(u, l) \cup {x} /\ x \in gone
        BY <3>2, BelowHasItself
      <4>. QED
        BY <4>1, <4>2
    <3>. QED
      BY <3>1, <3>2
  <2>. HIDE DEF S
  <2>3. Below(t, y) \subseteq S
    BY <2>1, <2>2, BelowIsLeast
  <2>. QED
    BY <2>3 DEF S
<1>. QED
  BY <1>1, <1>2

\* So what is left over, and what is filled, is still so, but for the holder of x.
LEMMA DestroyedRest ==
    ASSUME NEW t, NEW out, Structure(t), Leftovers(t, out), Filled(t), NEW x \in ToSet(t.doomed),
           NEW u, u = Destroy(t, x)
    PROVE  /\ InTree(u) = InTree(t) \ Below(t, x)
           /\ Leftovers(u, out)
           /\ \A l \in Layouts : x \in Widgets(t, l) => FilledBut(u, l)
           /\ (\A l \in Layouts : x \notin Widgets(t, l)) => Filled(u)
<1>. DEFINE gone == Below(t, x)
<1>0. Root \notin gone /\ t \in TreeType
  BY HolderStays DEF Structure
<1>1. /\ u.alive = t.alive \ gone
      /\ \A m \in Layouts : Widgets(u, m) = IF m \in gone THEN {} ELSE Widgets(t, m) \ {x}
      /\ \A m \in Layouts \ gone :
            /\ Len(u.widgets[m]) = Len(t.widgets[m]) - (IF x \in Widgets(t, m) THEN 1 ELSE 0)
            /\ u.parentLayout[m] = t.parentLayout[m]
      /\ ToSet(u.doomed) = ToSet(t.doomed) \ gone
  <2>1. Without(t, x, u)
    BY Destroyed
  <2>. QED
    BY <2>1 DEF Without
<1>2. \A y : y \notin gone => Below(u, y) = Below(t, y) \ gone
  BY <1>1, BelowDestroyed
<1>3. \A k \in Layouts : k \notin gone => \A y \in Widgets(t, k) : y \in gone => y = x
  BY GoneIsHeldByGone
<1>4. \A y : y \notin gone /\ (\A l \in (Below(t, y) \ gone) \cap Layouts : x \notin Widgets(t, l))
             => Below(t, y) \cap gone = {}
  BY ApartFrom
<1>. HIDE DEF gone
<1>5. InTree(u) = InTree(t) \ gone
  BY <1>0, <1>2 DEF InTree
<1>6. LooseLayouts(u, out)
  <2>1. SUFFICES ASSUME NEW l \in (u.alive \cap Layouts) \ (InTree(u) \cup out)
                 PROVE  l \in ToSet(u.doomed) /\ Widgets(u, l) \subseteq Wrappers /\ u.parentLayout[l] = None
    BY DEF LooseLayouts
  <2>2. l \in (t.alive \cap Layouts) \ (InTree(t) \cup out) /\ l \notin gone
    BY <1>1, <1>5, <2>1
  <2>3. l \in ToSet(t.doomed) /\ Widgets(t, l) \subseteq Wrappers /\ t.parentLayout[l] = None
    BY <2>2 DEF Leftovers, LooseLayouts
  <2>. QED
    BY <1>1, <2>2, <2>3
<1>7. LooseWrappers(u, out)
  <2>1. SUFFICES ASSUME NEW w \in (u.alive \cap Wrappers) \ (InTree(u) \cup out)
                 PROVE  w \in ToSet(u.doomed) \/ \E l \in Layouts \ InTree(u) : w \in Widgets(u, l)
    BY DEF LooseWrappers
  <2>2. w \in (t.alive \cap Wrappers) \ (InTree(t) \cup out) /\ w \notin gone
    BY <1>1, <1>5, <2>1
  <2>3. w \in ToSet(t.doomed) \/ \E l \in Layouts \ InTree(t) : w \in Widgets(t, l)
    BY <2>2 DEF Leftovers, LooseWrappers
  <2>4. CASE w \in ToSet(t.doomed)
    BY <1>1, <2>2, <2>4
  <2>5. ASSUME NEW l \in Layouts \ InTree(t), w \in Widgets(t, l) PROVE w \in Widgets(u, l) /\ l \in Layouts \ InTree(u)
    <3>1. l \notin gone
      BY <2>2, <2>5, BelowIsClosed DEF gone
    <3>2. w # x
      BY <2>2, BelowHasItself DEF gone
    <3>. QED
      BY <1>1, <1>5, <2>5, <3>1, <3>2
  <2>. QED
    BY <2>3, <2>4, <2>5
<1>10. Apart(u, out)
  <2>1. Apart(t, out) /\ gone \cap out = {}
    <3>1. Apart(t, out) /\ x \notin out
      BY DEF Leftovers, Apart
    <3>. QED
      BY <3>1, BelowIsApart DEF gone
  <2>2. t.alive \cap out \subseteq u.alive /\ ToSet(u.doomed) \cap out = {}
    BY <1>1, <2>1 DEF Apart
  <2>. QED
    BY <1>1, <2>1, <2>2, ApartKept
<1>8. ASSUME NEW l \in Layouts, x \in Widgets(t, l) PROVE FilledBut(u, l)
  <2>1. l \notin gone /\ \A k \in Layouts : x \in Widgets(t, k) => k = l
    BY <1>8, HolderStays, OneHolder DEF gone
  <2>2. ASSUME NEW m \in (InTree(u) \cap Layouts) \ {Root, l} PROVE Len(u.widgets[m]) >= 2
    <3>1. m \in (InTree(t) \cap Layouts) \ {Root} /\ m \notin gone /\ x \notin Widgets(t, m)
      BY <1>5, <2>1, <2>2
    <3>2. Len(t.widgets[m]) >= 2 /\ Len(t.widgets[m]) \in Nat /\ Len(u.widgets[m]) = Len(t.widgets[m]) - 0
      BY <1>0, <1>1, <3>1, WidgetsOf DEF Filled
    <3>. QED
      BY <3>2
  <2>3. ASSUME NEW m \in InTree(u) \cap Layouts, l \notin Below(u, m) PROVE Below(u, m) \cap Wrappers # {}
    <3>1. m \in InTree(t) \cap Layouts /\ m \notin gone
      BY <1>5, <2>3
    <3>2. Below(u, m) = Below(t, m) \ gone
      BY <1>2, <3>1
    <3>3. Below(t, m) \cap gone = {}
      BY <1>4, <2>1, <2>3, <3>1, <3>2
    <3>4. Below(t, m) \cap Wrappers # {}
      BY <3>1 DEF Filled
    <3>. QED
      BY <3>2, <3>3, <3>4
  <2>. QED
    BY <2>2, <2>3 DEF FilledBut
<1>9. ASSUME \A l \in Layouts : x \notin Widgets(t, l) PROVE Filled(u)
  <2>1. ASSUME NEW m \in (InTree(u) \cap Layouts) \ {Root} PROVE Len(u.widgets[m]) >= 2
    <3>1. m \in (InTree(t) \cap Layouts) \ {Root} /\ m \notin gone /\ x \notin Widgets(t, m)
      BY <1>5, <1>9, <2>1
    <3>2. Len(t.widgets[m]) >= 2 /\ Len(t.widgets[m]) \in Nat /\ Len(u.widgets[m]) = Len(t.widgets[m]) - 0
      BY <1>0, <1>1, <3>1, WidgetsOf DEF Filled
    <3>. QED
      BY <3>2
  <2>2. ASSUME NEW m \in InTree(u) \cap Layouts PROVE Below(u, m) \cap Wrappers # {}
    <3>1. m \in InTree(t) \cap Layouts /\ m \notin gone
      BY <1>5, <2>2
    <3>2. Below(u, m) = Below(t, m) \ gone
      BY <1>2, <3>1
    <3>3. Below(t, m) \cap gone = {}
      BY <1>4, <1>9, <3>1
    <3>4. Below(t, m) \cap Wrappers # {}
      BY <3>1 DEF Filled
    <3>. QED
      BY <3>2, <3>3, <3>4
  <2>. QED
    BY <2>1, <2>2 DEF Filled
<1>. QED
  BY <1>5, <1>6, <1>7, <1>8, <1>9, <1>10 DEF Leftovers, gone

-----------------------------------------------------------------------------
(* The child event                                                          *)

\* There are no cycles: the layout that holds an object of the tree is not below it.
LEMMA HolderIsAbove ==
    ASSUME NEW t, Structure(t), NEW x \in InTree(t), x # Root, NEW l \in Layouts, x \in Widgets(t, l)
    PROVE  Root \notin Below(t, x) /\ l \notin Below(t, x)
<1>1. Root \notin Below(t, x)
  <2>1. Root \in Below(t, x) => \E k \in Layouts : Root \in Widgets(t, k)
    BY BelowIsHeld
  <2>. QED
    BY <2>1 DEF Structure
<1>2. ASSUME l \in Below(t, x) PROVE FALSE
  <2>1. \A k \in Layouts : k \notin Below(t, x) => x \notin Widgets(t, k)
    BY <1>2, OneHolder
  <2>2. InTree(t) \cap Below(t, x) = {}
    BY <1>1, <2>1, ApartFrom DEF InTree
  <2>. QED
    BY <2>2, BelowHasItself
<1>. QED
  BY <1>1, <1>2

\* A layout that has widgets enough leads to a wrapper, as those do.
LEMMA FilledAgain ==
    ASSUME NEW t, Structure(t), NEW l \in Layouts, FilledBut(t, l),
           l \in InTree(t) => t.widgets[l] # <<>>,
           l \in InTree(t) \ {Root} => Len(t.widgets[l]) >= 2
    PROVE  Filled(t)
<1>0. t \in TreeType
  BY DEF Structure
<1>1. \A m \in (InTree(t) \cap Layouts) \ {Root} : Len(t.widgets[m]) >= 2
  BY DEF FilledBut
<1>2. ASSUME l \in InTree(t) PROVE Below(t, l) \cap Wrappers # {}
  <2>1. PICK y : y \in Widgets(t, l)
    <3>1. Widgets(t, l) # {}
      BY <1>0, <1>2, WidgetsOf
    <3>. QED
      BY <3>1
  <2>2. y \in InTree(t) /\ y \in Below(t, l) /\ y # Root /\ y \in Layouts \cup Wrappers
    <3>1. y \in InTree(t)
      BY <1>2, <2>1, BelowIsClosed DEF InTree
    <3>2. l \in Below(t, l)
      BY BelowHasItself
    <3>3. y \in Below(t, l)
      BY <2>1, <3>2, BelowIsClosed
    <3>4. y \in Layouts \cup Wrappers
      BY <1>0, <2>1, WidgetsOf
    <3>5. y # Root
      BY <2>1 DEF Structure
    <3>. QED
      BY <3>1, <3>3, <3>4, <3>5
  <2>3. CASE y \in Wrappers
    BY <2>2, <2>3
  <2>4. CASE y \in Layouts
    <3>1. l \notin Below(t, y)
      BY <2>1, <2>2, HolderIsAbove
    <3>2. Below(t, y) \cap Wrappers # {}
      BY <2>2, <2>4, <3>1 DEF FilledBut
    <3>3. Below(t, y) \subseteq Below(t, l)
      BY <2>2, BelowIsTransitive
    <3>. QED
      BY <3>2, <3>3
  <2>. QED
    BY <2>2, <2>3, <2>4
<1>3. ASSUME NEW m \in InTree(t) \cap Layouts PROVE Below(t, m) \cap Wrappers # {}
  <2>1. CASE l \in Below(t, m)
    <3>1. Below(t, m) \subseteq InTree(t) /\ Below(t, l) \subseteq Below(t, m)
      BY <2>1, BelowIsTransitive DEF InTree
    <3>. QED
      BY <1>2, <2>1, <3>1
  <2>2. CASE l \notin Below(t, m)
    BY <2>2 DEF FilledBut
  <2>. QED
    BY <2>1, <2>2
<1>. QED
  BY <1>1, <1>3 DEF Filled

\* The widget x of l has gone up to p, where y is in the place of l: x itself, when it
\* is a layout.
LEMMA BelowMerged ==
    ASSUME NEW t, Structure(t), NEW u, NEW l \in Layouts, NEW p \in Layouts, NEW x, NEW y,
           l \in Widgets(t, p), Widgets(t, l) = {x}, p \notin Below(t, l), x # l,
           IF x \in Layouts THEN y = x ELSE y \notin Layouts,
           Widgets(u, p) = (Widgets(t, p) \ {l}) \cup {y}, Widgets(u, l) \subseteq {x},
           \A k \in Layouts \ {l, p} : Widgets(u, k) = Widgets(t, k),
           NEW m \in Layouts, m # l
    PROVE  Below(u, m) = IF l \in Below(t, m) THEN (Below(t, m) \ {l, x}) \cup {y} ELSE Below(t, m)
<1>1. /\ p # l /\ y # l /\ x \in Below(t, l) /\ x # p
      /\ \A k \in Layouts : l \in Widgets(t, k) => k = p
      /\ \A k \in Layouts : x \in Widgets(t, k) => k = l
  <2>1. l \in Below(t, l)
    BY BelowHasItself
  <2>2. x \in Below(t, l)
    BY <2>1, BelowIsClosed
  <2>3. \A k \in Layouts : l \in Widgets(t, k) => k = p
    BY OneHolder
  <2>4. \A k \in Layouts : x \in Widgets(t, k) => k = l
    BY OneHolder
  <2>. QED
    BY <2>1, <2>2, <2>3, <2>4
<1>. DEFINE R == IF l \in Below(t, m) THEN (Below(t, m) \ {l, x}) \cup {y} ELSE Below(t, m)
<1>2. Below(u, m) \subseteq R
  <2>1. m \in R
    BY BelowHasItself
  <2>2. ASSUME NEW k \in R \cap Layouts PROVE Widgets(u, k) \subseteq R
    <3>1. l \in Below(t, m) => x \in Below(t, m)
      BY BelowIsClosed
    <3>2. k \in Below(t, m) /\ k # l
      BY <1>1, <2>2, <3>1
    <3>3. Widgets(t, k) \subseteq Below(t, m)
      BY <3>2, BelowIsClosed
    <3>4. CASE k = p
      BY <1>1, <3>3, <3>4
    <3>5. CASE k # p
      <4>1. Widgets(u, k) = Widgets(t, k) /\ l \notin Widgets(t, k) /\ x \notin Widgets(t, k)
        BY <1>1, <3>2, <3>5
      <4>. QED
        BY <3>3, <4>1
    <3>. QED
      BY <3>4, <3>5
  <2>. HIDE DEF R
  <2>. QED
    BY <2>1, <2>2, BelowIsLeast
<1>3. l \notin Below(u, m)
  <2>1. \A k \in Layouts : l \notin Widgets(u, k)
    BY <1>1
  <2>. QED
    BY <2>1, BelowIsHeld
<1>. DEFINE S == Below(u, m) \cup (IF p \in Below(u, m) THEN {l, x} ELSE {})
<1>4. Below(t, m) \subseteq S
  <2>1. m \in S
    BY BelowHasItself
  <2>2. ASSUME NEW k \in S \cap Layouts PROVE Widgets(t, k) \subseteq S
    <3>1. p \in Below(u, m) => y \in Below(u, m)
      BY BelowIsClosed
    <3>2. k = l => p \in Below(u, m)
      BY <1>3, <2>2
    <3>3. k # l => k \in Below(u, m)
      BY <2>2, <3>1
    <3>4. k # l => Widgets(u, k) \subseteq Below(u, m)
      BY <3>3, BelowIsClosed
    <3>5. CASE k = l
      BY <3>2, <3>5
    <3>6. CASE k = p
      BY <1>1, <3>3, <3>4, <3>6
    <3>7. CASE k # l /\ k # p
      BY <3>4, <3>7
    <3>. QED
      BY <3>5, <3>6, <3>7
  <2>. HIDE DEF S
  <2>. QED
    BY <2>1, <2>2, BelowIsLeast
<1>5. R \subseteq Below(u, m)
  <2>1. CASE p \in Below(u, m)
    <3>1. y \in Below(u, m)
      BY <2>1, BelowIsClosed
    <3>2. CASE l \in Below(t, m)
      BY <1>4, <3>1, <3>2
    <3>3. CASE l \notin Below(t, m)
      <4>1. p \in Below(t, m)
        BY <1>2, <2>1, <3>3
      <4>. QED
        BY <3>3, <4>1, BelowIsClosed
    <3>. QED
      BY <3>2, <3>3
  <2>2. CASE p \notin Below(u, m)
    <3>1. Below(t, m) \subseteq Below(u, m)
      BY <1>4, <2>2
    <3>2. l \notin Below(t, m)
      BY <1>3, <3>1
    <3>. QED
      BY <3>1, <3>2
  <2>. QED
    BY <2>1, <2>2
<1>. QED
  BY <1>2, <1>5

\* The widget that a layout is left with, and what takes the layout's place.
Remaining(t, l) == t.widgets[l][1]
InPlace(t, l) == IF Remaining(t, l) \in Wrappers THEN New(t, Wrappers) ELSE Remaining(t, l)

\* u is t with y in the place that l had in p, for the widget x of l.
Merges(t, l, p, x, y, u) ==
    /\ u.alive = t.alive \cup {y}
    /\ Widgets(u, p) = (Widgets(t, p) \ {l}) \cup {y}
    /\ Widgets(u, l) = {x} \ Layouts
    /\ \A k \in Layouts \ {l, p} : Widgets(u, k) = Widgets(t, k)
    /\ \A k \in Layouts \ {l} : Len(u.widgets[k]) = Len(t.widgets[k])
    /\ \A k \in Layouts :
          u.parentLayout[k] = IF k = l THEN None ELSE IF k = x THEN p ELSE t.parentLayout[k]
    /\ \A v \in Wrappers :
          u.panel[v] = IF v = x THEN Empty ELSE IF v = y THEN t.panel[x] ELSE t.panel[v]
    /\ ToSet(u.doomed) = ToSet(t.doomed) \cup {l}

\* What there is to merge.
LEMMA Mergeable ==
    ASSUME NEW t, Structure(t), NEW l \in InTree(t) \cap Layouts, l # Root,
           Len(t.widgets[l]) = 1, Wrappers \ t.alive # {},
           NEW p, p = t.parentLayout[l], NEW x, x = Remaining(t, l), NEW y, y = InPlace(t, l)
    PROVE  /\ p \in InTree(t) \cap Layouts /\ p \in t.alive
           /\ l \in Widgets(t, p) /\ l \in t.alive
           /\ Widgets(t, l) = {x} /\ x \in t.alive /\ x \in InTree(t) /\ x \in Layouts \cup Wrappers
           /\ p \notin Below(t, l) /\ p # l /\ x # l /\ x # p /\ x # Root
           /\ IF x \in Layouts THEN y = x ELSE x \in Wrappers /\ y \in Wrappers \ t.alive /\ y \notin Layouts
           /\ y \notin Widgets(t, p) /\ y # l
<1>0. t \in TreeType
  BY DEF Structure
<1>1. p \in InTree(t) \cap Layouts /\ l \in Widgets(t, p) /\ p \in t.alive
  BY Parents
<1>2. p \notin Below(t, l)
  BY <1>1, HolderIsAbove
<1>3. Widgets(t, l) = {x}
  <2>1. DOMAIN t.widgets[l] = 1..1
    BY <1>0, WidgetsOf
  <2>2. \A i \in 1..1 : i = 1
    OBVIOUS
  <2>3. 1 \in 1..1
    OBVIOUS
  <2>. QED
    BY <2>1, <2>2, <2>3 DEF Widgets, ToSet, Remaining
<1>4. x \in t.alive /\ x \in Layouts \cup Wrappers /\ l \in t.alive /\ x # Root
  BY <1>0, <1>1, <1>3, WidgetsOf DEF Structure
<1>5. x \in Below(t, l) /\ l \in Below(t, l) /\ x \in InTree(t)
  <2>1. l \in Below(t, l)
    BY BelowHasItself
  <2>2. x \in Below(t, l)
    BY <1>3, <2>1, BelowIsClosed
  <2>3. x \in InTree(t)
    BY <1>3, BelowIsClosed DEF InTree
  <2>. QED
    BY <2>1, <2>2, <2>3
<1>6. p # l /\ x # p
  BY <1>2, <1>5
<1>7. x # l
  BY <1>1, <1>3, <1>6, OneHolder
<1>8. IF x \in Layouts THEN y = x ELSE x \in Wrappers /\ y \in Wrappers \ t.alive /\ y \notin Layouts
  <2>1. New(t, Wrappers) \in Wrappers \ t.alive
    BY NewIsNew
  <2>. QED
    BY <1>4, <2>1, TreeAssumption DEF InPlace
<1>9. y \notin Widgets(t, p) /\ y # l
  <2>1. x \notin Widgets(t, p)
    BY <1>1, <1>3, <1>6, OneHolder
  <2>2. Widgets(t, p) \subseteq t.alive
    BY <1>1 DEF Structure
  <2>. QED
    BY <1>4, <1>7, <1>8, <2>1, <2>2
<1>. QED
  BY <1>1, <1>2, <1>3, <1>4, <1>5, <1>6, <1>7, <1>8, <1>9

LEMMA Merged ==
    ASSUME NEW t, Structure(t), NEW l \in InTree(t) \cap Layouts, l # Root,
           Len(t.widgets[l]) = 1, Wrappers \ t.alive # {}
    PROVE  /\ Structure(Merge(t, l))
           /\ Merges(t, l, t.parentLayout[l], Remaining(t, l), InPlace(t, l), Merge(t, l))
<1>. DEFINE Objects == Layouts \cup Wrappers
            p == t.parentLayout[l]
            x == Remaining(t, l)
            y == InPlace(t, l)
            w == New(t, Wrappers)
            q == [t.widgets[p] EXCEPT ![PositionIn(t.widgets[p], l)] = y]
            moved ==
                IF x \in Wrappers
                THEN [WrapPanel(t, w, p, t.panel[x]) EXCEPT !.panel[x] = Empty]
                ELSE [t EXCEPT !.parentLayout[x] = p, !.widgets[l] = <<>>]
            m == [moved EXCEPT !.widgets[p] = q, !.parentLayout[l] = None]
<1>0. t \in TreeType /\ None \notin Layouts
  BY TreeAssumption DEF Structure
<1>1. p = t.parentLayout[l] /\ x = Remaining(t, l) /\ y = InPlace(t, l)
  OBVIOUS
<1>2. y = IF x \in Wrappers THEN w ELSE x
  BY DEF InPlace
<1>3. Merge(t, l) = DeleteLater(m, l)
  <2>1. x = t.widgets[l][1]
    BY DEF Remaining
  <2>2. moved.widgets[p] = t.widgets[p]
    <3>1. p # l /\ p \in Layouts
      <4>. HIDE DEF p, x, y
      <4>. QED
        BY <1>1, Mergeable
    <3>2. x \in Wrappers => moved.widgets = t.widgets
      BY <1>0 DEF WrapPanel, TreeType
    <3>3. x \notin Wrappers => moved.widgets[p] = t.widgets[p]
      BY <1>0, <3>1 DEF TreeType
    <3>. QED
      BY <3>2, <3>3
  <2>3. Merge(t, l) = DeleteLater([moved EXCEPT !.widgets[p] = [@ EXCEPT ![PositionIn(@, l)] = IF x \in Wrappers THEN w ELSE x],
                                  !.parentLayout[l] = None], l)
    BY <2>1 DEF Merge
  <2>. QED
    BY <1>2, <2>2, <2>3
<1>. HIDE DEF m, moved, q, y, x, p
<1>4. /\ p \in InTree(t) \cap Layouts /\ p \in t.alive
      /\ l \in Widgets(t, p) /\ l \in t.alive
      /\ Widgets(t, l) = {x} /\ x \in t.alive /\ x \in InTree(t) /\ x \in Layouts \cup Wrappers
      /\ p \notin Below(t, l) /\ p # l /\ x # l /\ x # p /\ x # Root
      /\ IF x \in Layouts THEN y = x ELSE x \in Wrappers /\ y \in Wrappers \ t.alive /\ y \notin Layouts
      /\ y \notin Widgets(t, p) /\ y # l
  BY <1>1, Mergeable
<1>5. q \in Seq(Objects) /\ Len(q) = Len(t.widgets[p]) /\ IsInjective(q)
      /\ ToSet(q) = (Widgets(t, p) \ {l}) \cup {y}
  <2>. DEFINE s == t.widgets[p]
              i == PositionIn(s, l)
  <2>1. s \in Seq(Objects) /\ IsInjective(s) /\ y \in Objects /\ y \notin ToSet(s) /\ ToSet(s) = Widgets(t, p)
    BY <1>0, <1>4, Fields DEF Structure, Widgets
  <2>2. i \in DOMAIN s /\ s[i] = l
    BY <1>4, <2>1, PositionFound
  <2>3. q = [s EXCEPT ![i] = y]
    BY DEF q
  <2>. HIDE DEF s, i
  <2>4. /\ [s EXCEPT ![i] = y] \in Seq(Objects) /\ Len([s EXCEPT ![i] = y]) = Len(s)
        /\ ToSet([s EXCEPT ![i] = y]) = (ToSet(s) \ {s[i]}) \cup {y}
        /\ IsInjective([s EXCEPT ![i] = y])
    BY <2>1, <2>2, Replaced
  <2>. QED
    BY <2>1, <2>2, <2>3, <2>4 DEF s
<1>6. /\ m \in TreeType
      /\ m.alive = t.alive \cup {y}
      /\ \A k \in Layouts : m.widgets[k] = IF k = p THEN q ELSE IF k = l /\ x \in Layouts THEN <<>> ELSE t.widgets[k]
      /\ \A k \in Layouts : m.parentLayout[k] = IF k = l THEN None ELSE IF k = x THEN p ELSE t.parentLayout[k]
      /\ \A v \in Wrappers : m.panel[v] = IF v = x THEN Empty ELSE IF v = y THEN t.panel[x] ELSE t.panel[v]
      /\ \A v \in Wrappers : m.splitBy[v] = IF v = y THEN p ELSE t.splitBy[v]
      /\ m.doomed = t.doomed
  <2>1. CASE x \in Wrappers
    <3>1. x \notin Layouts /\ y = w /\ y \in Wrappers \ t.alive /\ x # y
      BY <1>2, <1>4, <2>1, TreeAssumption
    <3>. DEFINE a == t.alive \cup {y}
                b == [t.widgets EXCEPT ![p] = q]
                c == [t.parentLayout EXCEPT ![l] = None]
                d == [[t.panel EXCEPT ![y] = t.panel[x]] EXCEPT ![x] = Empty]
                e == [t.splitBy EXCEPT ![y] = p]
    <3>2. m = [alive |-> a, widgets |-> b, parentLayout |-> c, orientation |-> t.orientation,
               panel |-> d, splitBy |-> e, doomed |-> t.doomed]
      <4>1. t = [alive |-> t.alive, widgets |-> t.widgets, parentLayout |-> t.parentLayout,
                 orientation |-> t.orientation, panel |-> t.panel, splitBy |-> t.splitBy,
                 doomed |-> t.doomed]
        BY <1>0, Fields
      <4>2. moved = [alive |-> a, widgets |-> t.widgets, parentLayout |-> t.parentLayout,
                     orientation |-> t.orientation, panel |-> d, splitBy |-> e, doomed |-> t.doomed]
        BY <2>1, <3>1, <4>1 DEF moved, WrapPanel
      <4>. HIDE DEF moved
      <4>. DEFINE one == [moved EXCEPT !.widgets[p] = q]
      <4>3. one = [alive |-> a, widgets |-> b, parentLayout |-> t.parentLayout,
                   orientation |-> t.orientation, panel |-> d, splitBy |-> e, doomed |-> t.doomed]
        BY <4>2
      <4>4. m = [one EXCEPT !.parentLayout[l] = None]
        BY DEF m
      <4>. HIDE DEF one
      <4>. QED
        BY <4>3, <4>4
    <3>3. /\ a \in SUBSET Objects
          /\ b \in [Layouts -> Seq(Objects)] /\ \A k \in Layouts : b[k] = IF k = p THEN q ELSE t.widgets[k]
      BY <1>0, <1>4, <1>5, <3>1, Fields
    <3>4. /\ c \in [Layouts -> Layouts \cup {None}]
          /\ \A k \in Layouts : c[k] = IF k = l THEN None ELSE t.parentLayout[k]
      BY <1>0, Fields
    <3>5. /\ d \in [Wrappers -> Panels \cup {Empty}]
          /\ \A v \in Wrappers : d[v] = IF v = x THEN Empty ELSE IF v = y THEN t.panel[x] ELSE t.panel[v]
      BY <1>0, <2>1, <3>1, Fields
    <3>6. /\ e \in [Wrappers -> Layouts \cup {None}]
          /\ \A v \in Wrappers : e[v] = IF v = y THEN p ELSE t.splitBy[v]
      BY <1>0, <1>4, <3>1, Fields
    <3>. HIDE DEF a, b, c, d, e
    <3>7. m \in TreeType
      BY <1>0, <3>2, <3>3, <3>4, <3>5, <3>6, Fields DEF TreeType
    <3>8. /\ m.alive = a /\ m.widgets = b /\ m.parentLayout = c /\ m.panel = d /\ m.splitBy = e
          /\ m.doomed = t.doomed
      BY <3>2
    <3>. QED
      BY <3>1, <3>3, <3>4, <3>5, <3>6, <3>7, <3>8 DEF a
  <2>2. CASE x \notin Wrappers
    <3>1. x \in Layouts /\ y = x /\ x \in t.alive /\ \A v \in Wrappers : v # x
      BY <1>4, <2>2
    <3>. DEFINE b == [[t.widgets EXCEPT ![l] = <<>>] EXCEPT ![p] = q]
                c == [[t.parentLayout EXCEPT ![x] = p] EXCEPT ![l] = None]
    <3>2. m = [alive |-> t.alive, widgets |-> b, parentLayout |-> c, orientation |-> t.orientation,
               panel |-> t.panel, splitBy |-> t.splitBy, doomed |-> t.doomed]
      <4>1. t = [alive |-> t.alive, widgets |-> t.widgets, parentLayout |-> t.parentLayout,
                 orientation |-> t.orientation, panel |-> t.panel, splitBy |-> t.splitBy,
                 doomed |-> t.doomed]
        BY <1>0, Fields
      <4>2. moved = [alive |-> t.alive, widgets |-> [t.widgets EXCEPT ![l] = <<>>],
                     parentLayout |-> [t.parentLayout EXCEPT ![x] = p],
                     orientation |-> t.orientation, panel |-> t.panel, splitBy |-> t.splitBy,
                     doomed |-> t.doomed]
        BY <2>2, <4>1 DEF moved
      <4>. HIDE DEF moved
      <4>. DEFINE one == [moved EXCEPT !.widgets[p] = q]
      <4>3. one = [alive |-> t.alive, widgets |-> b, parentLayout |-> [t.parentLayout EXCEPT ![x] = p],
                   orientation |-> t.orientation, panel |-> t.panel, splitBy |-> t.splitBy, doomed |-> t.doomed]
        BY <4>2
      <4>4. m = [one EXCEPT !.parentLayout[l] = None]
        BY DEF m
      <4>. HIDE DEF one
      <4>. QED
        BY <4>3, <4>4
    <3>3. /\ b \in [Layouts -> Seq(Objects)]
          /\ \A k \in Layouts : b[k] = IF k = p THEN q ELSE IF k = l THEN <<>> ELSE t.widgets[k]
      <4>1. t.widgets \in [Layouts -> Seq(Objects)] /\ <<>> \in Seq(Objects) /\ p \in Layouts /\ p # l
        BY <1>0, <1>4, Fields
      <4>. HIDE DEF Objects
      <4>. QED
        BY <1>5, <4>1
    <3>4. /\ c \in [Layouts -> Layouts \cup {None}]
          /\ \A k \in Layouts : c[k] = IF k = l THEN None ELSE IF k = x THEN p ELSE t.parentLayout[k]
      BY <1>0, <1>4, <3>1, Fields
    <3>. HIDE DEF b, c
    <3>5. m \in TreeType
      BY <1>0, <3>2, <3>3, <3>4, Fields DEF TreeType
    <3>6. /\ m.alive = t.alive /\ m.widgets = b /\ m.parentLayout = c /\ m.panel = t.panel
          /\ m.splitBy = t.splitBy /\ m.doomed = t.doomed
      BY <3>2
    <3>. QED
      BY <3>1, <3>3, <3>4, <3>5, <3>6
  <2>. QED
    BY <2>1, <2>2
<1>. HIDE DEF Objects
<1>7. /\ Widgets(m, p) = (Widgets(t, p) \ {l}) \cup {y}
      /\ Widgets(m, l) = {x} \ Layouts
      /\ \A k \in Layouts \ {l, p} : Widgets(m, k) = Widgets(t, k)
      /\ \A k \in Layouts \ {l} : Len(m.widgets[k]) = Len(t.widgets[k])
  <2>1. Widgets(m, p) = (Widgets(t, p) \ {l}) \cup {y}
    BY <1>4, <1>5, <1>6 DEF Widgets
  <2>2. Widgets(m, l) = {x} \ Layouts
    <3>1. ToSet(<<>>) = {}
      BY DEF ToSet
    <3>2. x \in Layouts => m.widgets[l] = <<>>
      BY <1>4, <1>6
    <3>3. x \notin Layouts => m.widgets[l] = t.widgets[l]
      BY <1>4, <1>6
    <3>. QED
      BY <1>4, <3>1, <3>2, <3>3 DEF Widgets
  <2>3. \A k \in Layouts \ {l, p} : m.widgets[k] = t.widgets[k]
    BY <1>6
  <2>. QED
    BY <1>5, <1>6, <2>1, <2>2, <2>3 DEF Widgets
<1>8. ASSUME NEW k \in Layouts
      PROVE  /\ Root \notin Widgets(m, k)
             /\ Widgets(m, k) \subseteq m.alive
             /\ k \notin m.alive => m.widgets[k] = <<>>
             /\ IsInjective(m.widgets[k])
             /\ \A z \in Widgets(m, k) : IF z \in Layouts THEN m.parentLayout[z] = k ELSE m.splitBy[z] = k
  <2>1. /\ Root \notin Widgets(t, k) /\ Widgets(t, k) \subseteq t.alive
        /\ k \notin t.alive => t.widgets[k] = <<>>
        /\ IsInjective(t.widgets[k])
        /\ \A z \in Widgets(t, k) : IF z \in Layouts THEN t.parentLayout[z] = k ELSE t.splitBy[z] = k
        /\ Widgets(t, k) \subseteq Layouts \cup Wrappers
    BY <1>0, WidgetsOf DEF Structure
  <2>2. /\ \A z \in Layouts : l \in Widgets(t, z) => z = p
        /\ \A z \in Layouts : x \in Widgets(t, z) => z = l
    BY <1>4, OneHolder
  <2>3. y # Root
    <3>1. Root \in t.alive
      BY DEF Structure
    <3>. QED
      BY <1>4, <3>1
  <2>4. IsInjective(<<>>)
    BY DEF IsInjective
  <2>5. CASE k = p
    <3>1. ASSUME NEW z \in Widgets(m, k)
          PROVE  IF z \in Layouts THEN m.parentLayout[z] = k ELSE m.splitBy[z] = k
      <4>1. CASE z = y
        BY <1>4, <1>6, <2>5, <4>1
      <4>2. CASE z # y
        <5>1. z \in Widgets(t, k) /\ z # l /\ z # x
          BY <1>4, <1>7, <2>2, <2>5, <3>1, <4>2
        <5>. QED
          BY <1>6, <2>1, <4>2, <5>1
      <4>. QED
        BY <4>1, <4>2
    <3>. QED
      BY <1>4, <1>5, <1>6, <1>7, <2>1, <2>3, <2>5, <3>1
  <2>6. CASE k = l
    BY <1>4, <1>6, <1>7, <2>1, <2>4, <2>6
  <2>7. CASE k # l /\ k # p
    <3>1. m.widgets[k] = t.widgets[k] /\ Widgets(m, k) = Widgets(t, k)
      BY <1>6, <1>7, <2>7
    <3>2. ASSUME NEW z \in Widgets(m, k)
          PROVE  IF z \in Layouts THEN m.parentLayout[z] = k ELSE m.splitBy[z] = k
      <4>1. z \in Widgets(t, k) /\ z # l /\ z # x /\ z \in t.alive
        BY <2>1, <2>2, <2>7, <3>1, <3>2
      <4>2. z \notin Layouts => z # y
        BY <1>4, <4>1
      <4>. QED
        BY <1>6, <2>1, <4>1, <4>2
    <3>. QED
      BY <1>6, <2>1, <3>1, <3>2
  <2>. QED
    BY <2>5, <2>6, <2>7
<1>9. ASSUME NEW k \in Layouts, NEW n \in Layouts, k # n
      PROVE  Widgets(m, k) \cap Widgets(m, n) = {}
  <2>1. \A h \in Layouts : h # p /\ h # l => y \notin Widgets(t, h)
    <3>1. \A h \in Layouts : x \in Widgets(t, h) => h = l
      BY <1>4, OneHolder
    <3>2. \A h \in Layouts : Widgets(t, h) \subseteq t.alive
      BY DEF Structure
    <3>. QED
      BY <1>4, <3>1, <3>2
  <2>2. Widgets(t, k) \cap Widgets(t, n) = {}
    BY <1>9 DEF Structure
  <2>3. \A h \in Layouts : h # p => Widgets(m, h) \subseteq Widgets(t, h)
    BY <1>4, <1>7
  <2>4. \A h \in Layouts : h # p => y \notin Widgets(m, h)
    BY <1>4, <1>7, <2>1
  <2>. QED
    BY <1>7, <1>9, <2>2, <2>3, <2>4
<1>10. Structure(m)
  <2>1. /\ Root \in t.alive /\ t.parentLayout[Root] = None /\ Root \notin ToSet(t.doomed)
        /\ ToSet(t.doomed) \subseteq t.alive /\ Root \in Layouts /\ IsInjective(t.doomed)
    BY TreeAssumption DEF Structure
  <2>2. /\ Root \in m.alive /\ m.parentLayout[Root] = None /\ Root \notin ToSet(m.doomed)
        /\ IsInjective(m.doomed) /\ ToSet(m.doomed) \subseteq m.alive
    BY <1>4, <1>6, <2>1
  <2>. QED
    BY <1>6, <1>8, <1>9, <2>2 DEF Structure
<1>. DEFINE u == DeleteLater(m, l)
<1>11. l \in m.alive
  BY <1>4, <1>6
<1>12. /\ Structure(u)
       /\ u.alive = m.alive /\ u.widgets = m.widgets /\ u.parentLayout = m.parentLayout
       /\ u.panel = m.panel
       /\ ToSet(u.doomed) = ToSet(m.doomed) \cup {l}
  BY <1>10, <1>11, DoomedLater
<1>. HIDE DEF u
<1>13. Merges(t, l, p, x, y, u)
  <2>1. \A k : Widgets(u, k) = Widgets(m, k)
    BY <1>12 DEF Widgets
  <2>. QED
    BY <1>6, <1>7, <1>12, <2>1 DEF Merges
<1>. QED
  BY <1>1, <1>3, <1>12, <1>13 DEF u

\* What is left over then, and that the tree is filled.
LEMMA MergedInv ==
    ASSUME NEW t, NEW out, Structure(t), Leftovers(t, out), NEW l \in InTree(t) \cap Layouts, l # Root,
           FilledBut(t, l), Len(t.widgets[l]) = 1, Wrappers \ t.alive # {}
    PROVE  TreeInv(Merge(t, l), out)
<1>. DEFINE u == Merge(t, l)
            p == t.parentLayout[l]
            x == Remaining(t, l)
            y == InPlace(t, l)
<1>0. t \in TreeType
  BY DEF Structure
<1>1. Structure(u) /\ Merges(t, l, p, x, y, u)
  BY Merged
<1>2. p = t.parentLayout[l] /\ x = Remaining(t, l) /\ y = InPlace(t, l)
  OBVIOUS
<1>. HIDE DEF u, p, x, y
<1>3. /\ p \in InTree(t) \cap Layouts /\ p \in t.alive
      /\ l \in Widgets(t, p) /\ l \in t.alive
      /\ Widgets(t, l) = {x} /\ x \in t.alive /\ x \in InTree(t) /\ x \in Layouts \cup Wrappers
      /\ p \notin Below(t, l) /\ p # l /\ x # l /\ x # p /\ x # Root
      /\ IF x \in Layouts THEN y = x ELSE x \in Wrappers /\ y \in Wrappers \ t.alive /\ y \notin Layouts
      /\ y \notin Widgets(t, p) /\ y # l
  BY <1>2, Mergeable
<1>4. /\ u.alive = t.alive \cup {y}
      /\ Widgets(u, p) = (Widgets(t, p) \ {l}) \cup {y}
      /\ Widgets(u, l) = {x} \ Layouts
      /\ \A k \in Layouts \ {l, p} : Widgets(u, k) = Widgets(t, k)
      /\ \A k \in Layouts \ {l} : Len(u.widgets[k]) = Len(t.widgets[k])
      /\ \A k \in Layouts :
            u.parentLayout[k] = IF k = l THEN None ELSE IF k = x THEN p ELSE t.parentLayout[k]
      /\ ToSet(u.doomed) = ToSet(t.doomed) \cup {l}
  BY <1>1 DEF Merges
<1>5. \A m \in Layouts : m # l =>
          Below(u, m) = IF l \in Below(t, m) THEN (Below(t, m) \ {l, x}) \cup {y} ELSE Below(t, m)
  <2>1. /\ l \in Layouts /\ p \in Layouts /\ l \in Widgets(t, p) /\ Widgets(t, l) = {x}
        /\ p \notin Below(t, l) /\ x # l /\ IF x \in Layouts THEN y = x ELSE y \notin Layouts
        /\ Widgets(u, p) = (Widgets(t, p) \ {l}) \cup {y} /\ Widgets(u, l) \subseteq {x}
        /\ \A k \in Layouts \ {l, p} : Widgets(u, k) = Widgets(t, k)
    BY <1>3, <1>4
  <2>. QED
    BY <2>1, BelowMerged
<1>6. InTree(u) = (InTree(t) \ {l, x}) \cup {y}
  <2>1. l \in Below(t, Root) /\ Root \in Layouts /\ Root # l
    BY TreeAssumption DEF InTree
  <2>. QED
    BY <1>5, <2>1 DEF InTree
<1>7. LooseLayouts(u, out)
  <2>1. SUFFICES ASSUME NEW k \in (u.alive \cap Layouts) \ (InTree(u) \cup out)
                 PROVE  k \in ToSet(u.doomed) /\ Widgets(u, k) \subseteq Wrappers /\ u.parentLayout[k] = None
    BY DEF LooseLayouts
  <2>2. CASE k = l
    BY <1>3, <1>4, <2>2
  <2>3. CASE k # l
    <3>1. k # x /\ k # y /\ k \in (t.alive \cap Layouts) \ (InTree(t) \cup out) /\ k # p
      BY <1>3, <1>4, <1>6, <2>1, <2>3
    <3>2. k \in ToSet(t.doomed) /\ Widgets(t, k) \subseteq Wrappers /\ t.parentLayout[k] = None
      BY <3>1 DEF Leftovers, LooseLayouts
    <3>. QED
      BY <1>4, <2>3, <3>1, <3>2
  <2>. QED
    BY <2>2, <2>3
<1>8. LooseWrappers(u, out)
  <2>1. SUFFICES ASSUME NEW v \in (u.alive \cap Wrappers) \ (InTree(u) \cup out)
                 PROVE  v \in ToSet(u.doomed) \/ \E k \in Layouts \ InTree(u) : v \in Widgets(u, k)
    BY DEF LooseWrappers
  <2>2. v \in t.alive /\ v # y /\ v \notin Layouts
    BY <1>4, <1>6, <2>1, TreeAssumption
  <2>3. CASE v = x
    <3>1. l \in Layouts \ InTree(u) /\ v \in Widgets(u, l)
      BY <1>3, <1>4, <1>6, <2>2, <2>3
    <3>. QED
      BY <3>1
  <2>4. CASE v # x
    <3>1. v \in (t.alive \cap Wrappers) \ (InTree(t) \cup out)
      BY <1>3, <1>6, <2>1, <2>2, <2>4
    <3>2. v \in ToSet(t.doomed) \/ \E k \in Layouts \ InTree(t) : v \in Widgets(t, k)
      BY <3>1 DEF Leftovers, LooseWrappers
    <3>3. ASSUME NEW k \in Layouts \ InTree(t), v \in Widgets(t, k)
          PROVE  k \in Layouts \ InTree(u) /\ v \in Widgets(u, k)
      BY <1>3, <1>4, <1>6, <3>3
    <3>. QED
      BY <1>4, <3>2, <3>3
  <2>. QED
    BY <2>3, <2>4
<1>9. \A m \in InTree(u) \cap Layouts : m \in InTree(t) \cap Layouts /\ m # l
  BY <1>3, <1>6
<1>10. ASSUME NEW m \in (InTree(u) \cap Layouts) \ {Root} PROVE Len(u.widgets[m]) >= 2
  BY <1>4, <1>9 DEF FilledBut
<1>11. ASSUME NEW m \in InTree(u) \cap Layouts PROVE Below(u, m) \cap Wrappers # {}
  <2>1. m \in InTree(t) \cap Layouts /\ m # l
    BY <1>9
  <2>2. CASE l \notin Below(t, m)
    BY <1>5, <2>1, <2>2 DEF FilledBut
  <2>3. CASE l \in Below(t, m) /\ x \notin Layouts
    BY <1>3, <1>5, <2>1, <2>3
  <2>4. CASE l \in Below(t, m) /\ x \in Layouts
    <3>1. l \notin Below(t, x)
      BY <1>3, HolderIsAbove
    <3>2. Below(t, x) \cap Wrappers # {}
      BY <1>3, <2>4, <3>1 DEF FilledBut
    <3>3. x \in Below(t, m)
      BY <1>3, <2>4, BelowIsClosed
    <3>4. Below(t, x) \subseteq Below(t, m)
      BY <3>3, BelowIsTransitive
    <3>5. l \notin Wrappers /\ x \notin Wrappers
      BY <2>4, TreeAssumption
    <3>6. Below(u, m) = (Below(t, m) \ {l, x}) \cup {y}
      BY <1>5, <2>1, <2>4
    <3>. QED
      BY <3>2, <3>4, <3>5, <3>6
  <2>. QED
    BY <2>2, <2>3, <2>4
<1>12. Apart(u, out)
  <2>1. Apart(t, out) /\ Root \notin out
    BY DEF Leftovers, Apart
  <2>2. InTree(t) \cap out = {}
    BY <2>1, BelowIsApart DEF InTree
  <2>3. l \notin out /\ p \notin out /\ x \notin out /\ y \notin out
    BY <1>3, <2>1, <2>2 DEF Apart
  <2>4. ToSet(u.doomed) \cap out = {} /\ t.alive \cap out \subseteq u.alive
    BY <1>4, <2>1, <2>3 DEF Apart
  <2>5. ASSUME NEW k \in Layouts
        PROVE  IF k \in out THEN Widgets(u, k) \subseteq Widgets(t, k)
               ELSE Widgets(u, k) \cap out \subseteq Widgets(t, k)
    BY <1>4, <2>3
  <2>. QED
    BY <2>1, <2>4, <2>5, ApartKept
<1>13. TreeInv(u, out)
  BY <1>1, <1>7, <1>8, <1>10, <1>11, <1>12 DEF TreeInv, Leftovers, Filled
<1>. QED
  BY <1>13 DEF u

\* What the event does: of the four cases one cannot be.
LEMMA ChildRemovedIs ==
    ASSUME NEW t, NEW out, Structure(t), Leftovers(t, out), NEW l \in t.alive \cap Layouts, l \notin out,
           l \in InTree(t) \ {Root} => Len(t.widgets[l]) >= 1
    PROVE  \/ /\ ChildRemoved(t, l) = AddWidget(t, l, Empty)
              /\ Len(t.widgets[l]) + 1 \in 1..(Len(t.widgets[l]) + 1)
           \/ /\ ChildRemoved(t, l) = Merge(t, l)
              /\ l \in InTree(t) \cap Layouts /\ l # Root /\ Len(t.widgets[l]) = 1
           \/ /\ ChildRemoved(t, l) = t
              /\ l \in InTree(t) => t.widgets[l] # <<>>
              /\ l \in InTree(t) \ {Root} => Len(t.widgets[l]) >= 2
<1>. DEFINE n == Len(t.widgets[l])
<1>0. n \in Nat /\ t \in TreeType /\ None \notin Layouts /\ (n = 0 <=> t.widgets[l] = <<>>)
  <2>1. t \in TreeType
    BY DEF Structure
  <2>. QED
    BY <2>1, WidgetsOf, TreeAssumption
<1>1. l \in InTree(t) \ {Root} <=> t.parentLayout[l] # None
  <2>1. l \in InTree(t) \ {Root} => t.parentLayout[l] # None
    <3>1. SUFFICES ASSUME l \in InTree(t) \ {Root} PROVE t.parentLayout[l] # None
      OBVIOUS
    <3>2. l \in InTree(t) /\ l # Root
      BY <3>1
    <3>3. \E k \in InTree(t) \cap Layouts : t.parentLayout[l] = k
      BY <3>2, Parents
    <3>. QED
      BY <1>0, <3>3
  <2>2. l \notin InTree(t) => t.parentLayout[l] = None
    BY DEF Leftovers, LooseLayouts
  <2>3. t.parentLayout[Root] = None
    BY DEF Structure
  <2>. QED
    BY <2>1, <2>2, <2>3
<1>2. CASE n = 0 /\ t.parentLayout[l] = None
  <2>1. ChildRemoved(t, l) = AddWidget(t, l, Empty)
    BY <1>2 DEF ChildRemoved
  <2>2. n + 1 \in 1..(n + 1)
    BY <1>0
  <2>. QED
    BY <2>1, <2>2
<1>3. CASE n = 0 /\ t.parentLayout[l] # None
  BY <1>1, <1>3
<1>4. CASE n = 1 /\ t.parentLayout[l] # None
  <2>1. ChildRemoved(t, l) = Merge(t, l)
    BY <1>4 DEF ChildRemoved
  <2>. QED
    BY <1>1, <1>4, <2>1
<1>5. CASE n # 0 /\ (n = 1 => t.parentLayout[l] = None)
  <2>1. ChildRemoved(t, l) = t
    BY <1>5 DEF ChildRemoved
  <2>2. l \in InTree(t) => t.widgets[l] # <<>>
    BY <1>0, <1>5
  <2>3. l \in InTree(t) \ {Root} => n >= 2
    <3>. HIDE DEF n
    <3>1. l \in InTree(t) \ {Root} => n # 0 /\ n # 1
      BY <1>1, <1>5
    <3>. QED
      BY <1>0, <3>1
  <2>. QED
    BY <2>1, <2>2, <2>3
<1>. QED
  BY <1>0, <1>2, <1>3, <1>4, <1>5

\* The event restores the invariant after a widget of l was deleted.
LEMMA ChildRemovedInv ==
    ASSUME NEW t, NEW out, Structure(t), Leftovers(t, out), NEW l \in t.alive \cap Layouts, l \notin out,
           FilledBut(t, l), l \in InTree(t) \ {Root} => Len(t.widgets[l]) >= 1,
           Wrappers \ t.alive # {}
    PROVE  TreeInv(ChildRemoved(t, l), out)
<1>1. CASE /\ ChildRemoved(t, l) = AddWidget(t, l, Empty)
           /\ Len(t.widgets[l]) + 1 \in 1..(Len(t.widgets[l]) + 1)
  <2>1. TreeInv(InsertWidget(t, l, Len(t.widgets[l]) + 1, Empty), out)
    BY <1>1, InsertedInv
  <2>. QED
    BY <1>1, <2>1 DEF AddWidget
<1>2. CASE /\ ChildRemoved(t, l) = Merge(t, l)
           /\ l \in InTree(t) \cap Layouts /\ l # Root /\ Len(t.widgets[l]) = 1
  BY <1>2, MergedInv
<1>3. CASE /\ ChildRemoved(t, l) = t
           /\ l \in InTree(t) => t.widgets[l] # <<>>
           /\ l \in InTree(t) \ {Root} => Len(t.widgets[l]) >= 2
  <2>1. Filled(t)
    BY <1>3, FilledAgain
  <2>. QED
    BY <1>3, <2>1 DEF TreeInv
<1>. QED
  BY <1>1, <1>2, <1>3, ChildRemovedIs

\* There is a wrapper to use again when something is deleted from a layout.
LEMMA WrapperFreed ==
    ASSUME NEW t, NEW out, TreeInv(t, out), NEW x \in ToSet(t.doomed), NEW l \in Layouts, x \in Widgets(t, l)
    PROVE  Below(t, x) \cap Wrappers # {}
<1>0. Structure(t) /\ Leftovers(t, out) /\ Filled(t) /\ t \in TreeType
  BY DEF TreeInv, Structure
<1>1. x \in t.alive /\ x \in Layouts \cup Wrappers /\ x \in Below(t, x)
  BY <1>0, Fields, BelowHasItself DEF Structure
<1>2. CASE x \in Layouts
  <2>1. t.parentLayout[x] = l /\ l # None
    BY <1>0, <1>2, TreeAssumption DEF Structure
  <2>2. x \in InTree(t)
    <3>1. x \notin out
      BY <1>0 DEF Leftovers, Apart
    <3>. QED
      BY <1>0, <1>1, <1>2, <2>1, <3>1 DEF Leftovers, LooseLayouts
  <2>. QED
    BY <1>0, <1>2, <2>2 DEF Filled
<1>. QED
  BY <1>1, <1>2

\* What the event loop does with the object it deletes.
Deleted(t, x) ==
    IF Holders(t, x) = {} THEN Destroy(t, x)
    ELSE ChildRemoved(Destroy(t, x), CHOOSE l \in Holders(t, x) : TRUE)

\* Whether there is a child event or not, what it needs is there.
LEMMA DeletedIs ==
    ASSUME NEW t, NEW out, TreeInv(t, out), NEW x \in ToSet(t.doomed)
    PROVE  /\ Structure(Destroy(t, x)) /\ Leftovers(Destroy(t, x), out) /\ Without(t, x, Destroy(t, x))
           /\ InTree(Destroy(t, x)) = InTree(t) \ Below(t, x)
           /\ \/ Deleted(t, x) = Destroy(t, x) /\ Filled(Destroy(t, x))
              \/ \E l \in Destroy(t, x).alive \cap Layouts :
                    /\ l \notin out
                    /\ Deleted(t, x) = ChildRemoved(Destroy(t, x), l)
                    /\ FilledBut(Destroy(t, x), l)
                    /\ l \in InTree(Destroy(t, x)) \ {Root} => Len(Destroy(t, x).widgets[l]) >= 1
                    /\ Wrappers \ Destroy(t, x).alive # {}
<1>. DEFINE a == Destroy(t, x)
<1>0. Structure(t) /\ Leftovers(t, out) /\ Filled(t) /\ t \in TreeType
  BY DEF TreeInv, Structure
<1>1. Structure(a) /\ Without(t, x, a)
  BY <1>0, Destroyed
<1>2. /\ InTree(a) = InTree(t) \ Below(t, x) /\ Leftovers(a, out)
      /\ \A l \in Layouts : x \in Widgets(t, l) => FilledBut(a, l)
      /\ (\A l \in Layouts : x \notin Widgets(t, l)) => Filled(a)
  <2>1. a = Destroy(t, x)
    OBVIOUS
  <2>. HIDE DEF a
  <2>. QED
    BY <1>0, <2>1, DestroyedRest
<1>. HIDE DEF a
<1>3. ASSUME Holders(t, x) = {} PROVE Deleted(t, x) = a /\ Filled(a)
  <2>1. ASSUME NEW l \in Layouts, x \in Widgets(t, l) PROVE FALSE
    <3>1. t.widgets[l] # <<>>
      BY <2>1 DEF Widgets, ToSet
    <3>2. l \in t.alive
      BY <1>0, <3>1 DEF Structure
    <3>. QED
      BY <1>3, <2>1, <3>2 DEF Holders
  <2>2. Filled(a)
    BY <1>2, <2>1
  <2>. QED
    BY <1>3, <2>2 DEF Deleted, a
<1>4. ASSUME Holders(t, x) # {}
      PROVE  \E l \in a.alive \cap Layouts :
                /\ l \notin out
                /\ Deleted(t, x) = ChildRemoved(a, l)
                /\ FilledBut(a, l)
                /\ l \in InTree(a) \ {Root} => Len(a.widgets[l]) >= 1
                /\ Wrappers \ a.alive # {}
  <2>. DEFINE l == CHOOSE k \in Holders(t, x) : TRUE
  <2>1. l \in Holders(t, x)
    BY <1>4
  <2>2. Deleted(t, x) = ChildRemoved(a, l)
    BY <1>4 DEF Deleted, a
  <2>. HIDE DEF l
  <2>3. l \in t.alive \cap Layouts /\ x \in Widgets(t, l)
    BY <2>1 DEF Holders
  <2>4. l \notin Below(t, x)
    BY <1>0, <2>3, HolderStays
  <2>5. /\ l \in a.alive \cap Layouts
        /\ Len(a.widgets[l]) = Len(t.widgets[l]) - 1
        /\ a.alive = t.alive \ Below(t, x)
    BY <1>1, <2>3, <2>4 DEF Without
  <2>6. l \in InTree(a) \ {Root} => Len(a.widgets[l]) >= 1
    <3>1. SUFFICES ASSUME l \in InTree(a) \ {Root} PROVE Len(a.widgets[l]) >= 1
      OBVIOUS
    <3>2. Len(t.widgets[l]) >= 2 /\ Len(t.widgets[l]) \in Nat
      BY <1>0, <1>2, <2>3, <3>1, WidgetsOf DEF Filled
    <3>. QED
      BY <2>5, <3>2
  <2>7. Wrappers \ a.alive # {}
    <3>1. l \in Layouts /\ x \in Widgets(t, l)
      BY <2>3
    <3>2. Below(t, x) \cap Wrappers # {}
      BY <3>1, WrapperFreed
    <3>. QED
      BY <2>5, <3>2
  <2>8. FilledBut(a, l)
    BY <1>2, <2>3
  <2>9. l \notin out
    BY <1>0, <2>3 DEF Leftovers, Apart
  <2>. QED
    BY <2>2, <2>5, <2>6, <2>7, <2>8, <2>9
<1>. QED
  BY <1>1, <1>2, <1>3, <1>4 DEF a

LEMMA DeletedInv ==
    ASSUME NEW t, NEW out, TreeInv(t, out), NEW x \in ToSet(t.doomed)
    PROVE  TreeInv(Deleted(t, x), out)
<1>. DEFINE a == Destroy(t, x)
<1>1. /\ Structure(a) /\ Leftovers(a, out)
      /\ \/ Deleted(t, x) = a /\ Filled(a)
         \/ \E l \in a.alive \cap Layouts :
               /\ l \notin out
               /\ Deleted(t, x) = ChildRemoved(a, l)
               /\ FilledBut(a, l)
               /\ l \in InTree(a) \ {Root} => Len(a.widgets[l]) >= 1
               /\ Wrappers \ a.alive # {}
  BY DeletedIs
<1>. HIDE DEF a
<1>2. CASE Deleted(t, x) = a /\ Filled(a)
  BY <1>1, <1>2 DEF TreeInv
<1>3. ASSUME NEW l \in a.alive \cap Layouts, l \notin out, Deleted(t, x) = ChildRemoved(a, l), FilledBut(a, l),
             l \in InTree(a) \ {Root} => Len(a.widgets[l]) >= 1, Wrappers \ a.alive # {}
      PROVE  TreeInv(Deleted(t, x), out)
  <2>1. TreeInv(ChildRemoved(a, l), out)
    BY <1>1, <1>3, ChildRemovedInv
  <2>. QED
    BY <1>3, <2>1
<1>. QED
  BY <1>1, <1>2, <1>3

-----------------------------------------------------------------------------
(* What the user does                                                       *)

LEMMA PanelSelected ==
    ASSUME NEW t, NEW out, TreeInv(t, out), NEW w \in Wrappers, NEW p \in Panels
    PROVE  TreeInv([t EXCEPT !.panel[w] = p], out)
<1>. DEFINE u == [t EXCEPT !.panel[w] = p]
            d == [t.panel EXCEPT ![w] = p]
<1>0. Structure(t) /\ Leftovers(t, out) /\ Filled(t) /\ t \in TreeType
  BY DEF TreeInv, Structure
<1>1. d \in [Wrappers -> Panels \cup {Empty}]
  BY <1>0, Fields
<1>2. u = [t EXCEPT !.panel = d]
  OBVIOUS
<1>. HIDE DEF u, d
<1>3. /\ u \in TreeType
      /\ u.alive = t.alive /\ u.widgets = t.widgets /\ u.parentLayout = t.parentLayout
      /\ u.splitBy = t.splitBy /\ u.doomed = t.doomed
  <2>1. u = [alive |-> t.alive, widgets |-> t.widgets, parentLayout |-> t.parentLayout,
             orientation |-> t.orientation, panel |-> d, splitBy |-> t.splitBy,
             doomed |-> t.doomed]
    <3>1. t = [alive |-> t.alive, widgets |-> t.widgets, parentLayout |-> t.parentLayout,
               orientation |-> t.orientation, panel |-> t.panel, splitBy |-> t.splitBy,
               doomed |-> t.doomed]
      BY <1>0, Fields
    <3>. QED
      BY <1>2, <3>1
  <2>2. u \in TreeType
    BY <1>0, <1>1, <2>1, Fields DEF TreeType
  <2>. QED
    BY <2>1, <2>2
<1>4. Structure(u)
  <2>1. \A l : Widgets(u, l) = Widgets(t, l)
    BY <1>3 DEF Widgets
  <2>. QED
    BY <1>0, <1>3, <2>1 DEF Structure
<1>5. Leftovers(u, out) /\ Filled(u)
  <2>1. ToSet(t.doomed) \subseteq ToSet(u.doomed) /\ ToSet(u.doomed) \cap out = {}
    BY <1>0, <1>3 DEF Leftovers, Apart
  <2>. QED
    BY <1>0, <1>3, <2>1, DoomedMore
<1>6. TreeInv(u, out)
  BY <1>4, <1>5 DEF TreeInv
<1>. QED
  BY <1>6 DEF u

LEMMA DoomedInv ==
    ASSUME NEW t, NEW out, TreeInv(t, out), NEW x \in t.alive, x # Root, x \notin out
    PROVE  TreeInv(DeleteLater(t, x), out)
<1>. DEFINE u == DeleteLater(t, x)
<1>0. Structure(t) /\ Leftovers(t, out) /\ Filled(t)
  BY DEF TreeInv
<1>1. /\ Structure(u)
      /\ u.alive = t.alive /\ u.widgets = t.widgets /\ u.parentLayout = t.parentLayout
      /\ u.panel = t.panel
      /\ ToSet(u.doomed) = ToSet(t.doomed) \cup {x}
  BY <1>0, DoomedLater
<1>. HIDE DEF u
<1>2. ToSet(t.doomed) \subseteq ToSet(u.doomed) /\ ToSet(u.doomed) \cap out = {}
  BY <1>0, <1>1 DEF Leftovers, Apart
<1>3. Leftovers(u, out) /\ Filled(u)
  BY <1>0, <1>1, <1>2, DoomedMore
<1>4. TreeInv(u, out)
  BY <1>1, <1>3 DEF TreeInv
<1>. QED
  BY <1>4 DEF u

LEMMA FilledIsFilledBut ==
    ASSUME NEW t, Filled(t), NEW l PROVE FilledBut(t, l)
BY DEF Filled, FilledBut

\* The tree with a new layout in the place of a wrapper, before it has widgets.
Placed(t, w, o) ==
    LET l == t.splitBy[w]
        i == PositionIn(t.widgets[l], w)
        n == New(t, Layouts)
    IN  [NewLayout(t, n, l, o) EXCEPT
             !.widgets[l] = [@ EXCEPT ![i] = n], !.panel[w] = Empty]

Replaces(t, l, w, n, u) ==
    /\ u.alive = t.alive \cup {n}
    /\ Widgets(u, l) = (Widgets(t, l) \ {w}) \cup {n}
    /\ \A k \in Layouts \ {l} : Widgets(u, k) = Widgets(t, k)
    /\ \A k \in Layouts : Len(u.widgets[k]) = Len(t.widgets[k])
    /\ \A k \in Layouts : u.parentLayout[k] = IF k = n THEN l ELSE t.parentLayout[k]
    /\ \A v \in Wrappers : u.panel[v] = IF v = w THEN Empty ELSE t.panel[v]
    /\ u.doomed = t.doomed

LEMMA WrapperPlaced ==
    ASSUME NEW t, Structure(t), NEW w \in InTree(t) \cap Wrappers, NEW o \in Orientations,
           Layouts \ t.alive # {}
    PROVE  /\ t.splitBy[w] \in InTree(t) \cap Layouts /\ t.splitBy[w] \in t.alive
           /\ w \in Widgets(t, t.splitBy[w])
           /\ New(t, Layouts) \in Layouts \ t.alive
           /\ Structure(Placed(t, w, o))
           /\ Replaces(t, t.splitBy[w], w, New(t, Layouts), Placed(t, w, o))
<1>. DEFINE Objects == Layouts \cup Wrappers
            l == t.splitBy[w]
            n == New(t, Layouts)
            s == t.widgets[l]
            i == PositionIn(s, w)
            q == [s EXCEPT ![i] = n]
            u == Placed(t, w, o)
<1>0. t \in TreeType /\ w \notin Layouts /\ w # Root /\ None \notin Layouts
  BY TreeAssumption DEF Structure
<1>1. l \in InTree(t) \cap Layouts /\ w \in Widgets(t, l) /\ l \in t.alive
  BY <1>0, Parents
<1>2. n \in Layouts \ t.alive
  BY NewIsNew
<1>3. n # l /\ n # w /\ n # Root /\ n \notin Wrappers
  BY <1>0, <1>1, <1>2, TreeAssumption DEF Structure
<1>4. \A k \in Layouts : n \notin Widgets(t, k)
  BY <1>2 DEF Structure
<1>. HIDE DEF n, l
<1>5. q \in Seq(Objects) /\ Len(q) = Len(s) /\ IsInjective(q)
      /\ ToSet(q) = (Widgets(t, l) \ {w}) \cup {n}
  <2>1. s \in Seq(Objects) /\ IsInjective(s) /\ n \in Objects /\ n \notin ToSet(s) /\ ToSet(s) = Widgets(t, l)
    BY <1>0, <1>1, <1>2, <1>4, Fields DEF Structure, Widgets
  <2>2. i \in DOMAIN s /\ s[i] = w
    BY <1>1, <2>1, PositionFound
  <2>. HIDE DEF s, i
  <2>3. /\ [s EXCEPT ![i] = n] \in Seq(Objects) /\ Len([s EXCEPT ![i] = n]) = Len(s)
        /\ ToSet([s EXCEPT ![i] = n]) = (ToSet(s) \ {s[i]}) \cup {n}
        /\ IsInjective([s EXCEPT ![i] = n])
    BY <2>1, <2>2, Replaced
  <2>. QED
    BY <2>1, <2>2, <2>3
<1>. DEFINE a == t.alive \cup {n}
            b == [t.widgets EXCEPT ![l] = q]
            c == [t.parentLayout EXCEPT ![n] = l]
            e == [t.orientation EXCEPT ![n] = o]
            d == [t.panel EXCEPT ![w] = Empty]
<1>6. u = [alive |-> a, widgets |-> b, parentLayout |-> c, orientation |-> e,
           panel |-> d, splitBy |-> t.splitBy, doomed |-> t.doomed]
  <2>1. t = [alive |-> t.alive, widgets |-> t.widgets, parentLayout |-> t.parentLayout,
             orientation |-> t.orientation, panel |-> t.panel, splitBy |-> t.splitBy,
             doomed |-> t.doomed]
    BY <1>0, Fields
  <2>2. NewLayout(t, n, l, o) =
            [alive |-> a, widgets |-> t.widgets, parentLayout |-> c, orientation |-> e,
             panel |-> t.panel, splitBy |-> t.splitBy, doomed |-> t.doomed]
    <3>. DEFINE f == [t EXCEPT !.alive = a]
                g == [f EXCEPT !.parentLayout[n] = l]
    <3>1. f = [alive |-> a, widgets |-> t.widgets, parentLayout |-> t.parentLayout,
               orientation |-> t.orientation, panel |-> t.panel, splitBy |-> t.splitBy,
               doomed |-> t.doomed]
      BY <2>1
    <3>2. NewLayout(t, n, l, o) = [g EXCEPT !.orientation[n] = o]
      BY DEF NewLayout
    <3>. HIDE DEF f
    <3>3. g = [alive |-> a, widgets |-> t.widgets, parentLayout |-> c,
               orientation |-> t.orientation, panel |-> t.panel, splitBy |-> t.splitBy,
               doomed |-> t.doomed]
      BY <3>1
    <3>. HIDE DEF g
    <3>. QED
      BY <3>2, <3>3
  <2>3. u = [NewLayout(t, n, l, o) EXCEPT !.widgets[l] = [@ EXCEPT ![i] = n], !.panel[w] = Empty]
    BY DEF Placed, n, l
  <2>. HIDE DEF u
  <2>4. NewLayout(t, n, l, o).widgets[l] = s
    BY <2>2
  <2>5. u = [NewLayout(t, n, l, o) EXCEPT !.widgets[l] = q, !.panel[w] = Empty]
    BY <2>3, <2>4
  <2>. DEFINE one == [NewLayout(t, n, l, o) EXCEPT !.widgets[l] = q]
  <2>6. one = [alive |-> a, widgets |-> b, parentLayout |-> c, orientation |-> e,
               panel |-> t.panel, splitBy |-> t.splitBy, doomed |-> t.doomed]
    BY <2>2
  <2>7. u = [one EXCEPT !.panel[w] = Empty]
    BY <2>5
  <2>. HIDE DEF one
  <2>. QED
    BY <2>6, <2>7
<1>. HIDE DEF u, q
<1>7. a \in SUBSET Objects
  BY <1>0, <1>2, Fields
<1>8. b \in [Layouts -> Seq(Objects)] /\ \A k \in Layouts : b[k] = IF k = l THEN q ELSE t.widgets[k]
  <2>1. t.widgets \in [Layouts -> Seq(Objects)]
    BY <1>0, Fields
  <2>. HIDE DEF Objects
  <2>. QED
    BY <1>1, <1>5, <2>1
<1>9. c \in [Layouts -> Layouts \cup {None}] /\ \A k \in Layouts : c[k] = IF k = n THEN l ELSE t.parentLayout[k]
  BY <1>0, <1>1, <1>2, Fields
<1>10. e \in [Layouts -> Orientations \cup {None}]
  BY <1>0, <1>2, Fields
<1>11. d \in [Wrappers -> Panels \cup {Empty}] /\ \A v \in Wrappers : d[v] = IF v = w THEN Empty ELSE t.panel[v]
  BY <1>0, Fields
<1>. HIDE DEF a, b, c, d, e
<1>12. /\ u \in TreeType /\ u.alive = a /\ u.widgets = b /\ u.parentLayout = c /\ u.panel = d
       /\ u.splitBy = t.splitBy /\ u.doomed = t.doomed
  <2>1. u \in TreeType
    BY <1>0, <1>6, <1>7, <1>8, <1>9, <1>10, <1>11, Fields DEF TreeType
  <2>. QED
    BY <1>6, <2>1
<1>13. Replaces(t, l, w, n, u)
  <2>1. \A k \in Layouts \ {l} : u.widgets[k] = t.widgets[k]
    BY <1>8, <1>12
  <2>2. u.widgets[l] = q
    BY <1>1, <1>8, <1>12
  <2>. QED
    BY <1>1, <1>5, <1>9, <1>11, <1>12, <2>1, <2>2 DEF Replaces, Widgets, a
<1>14. /\ u.alive = t.alive \cup {n}
       /\ Widgets(u, l) = (Widgets(t, l) \ {w}) \cup {n}
       /\ \A k \in Layouts \ {l} : Widgets(u, k) = Widgets(t, k)
       /\ \A k \in Layouts : u.parentLayout[k] = IF k = n THEN l ELSE t.parentLayout[k]
  BY <1>13 DEF Replaces
<1>15. ASSUME NEW k \in Layouts
       PROVE  /\ Root \notin Widgets(u, k)
              /\ Widgets(u, k) \subseteq u.alive
              /\ k \notin u.alive => u.widgets[k] = <<>>
              /\ IsInjective(u.widgets[k])
              /\ \A z \in Widgets(u, k) : IF z \in Layouts THEN u.parentLayout[z] = k ELSE u.splitBy[z] = k
  <2>1. /\ Root \notin Widgets(t, k) /\ Widgets(t, k) \subseteq t.alive
        /\ k \notin t.alive => t.widgets[k] = <<>>
        /\ IsInjective(t.widgets[k])
        /\ \A z \in Widgets(t, k) : IF z \in Layouts THEN t.parentLayout[z] = k ELSE t.splitBy[z] = k
    BY DEF Structure
  <2>2. \A z \in Widgets(u, k) : IF z \in Layouts THEN u.parentLayout[z] = k ELSE u.splitBy[z] = k
    BY <1>2, <1>4, <1>12, <1>14, <2>1
  <2>3. CASE k = l
    BY <1>1, <1>3, <1>5, <1>8, <1>12, <1>14, <2>1, <2>2, <2>3
  <2>4. CASE k # l
    BY <1>8, <1>12, <1>14, <2>1, <2>2, <2>4
  <2>. QED
    BY <2>3, <2>4
<1>16. \A k, m \in Layouts : k # m => Widgets(u, k) \cap Widgets(u, m) = {}
  <2>1. \A k, m \in Layouts : k # m => Widgets(t, k) \cap Widgets(t, m) = {}
    BY DEF Structure
  <2>. QED
    BY <1>4, <1>14, <2>1
<1>17. Structure(u)
  <2>1. /\ Root \in t.alive /\ t.parentLayout[Root] = None /\ Root \notin ToSet(t.doomed)
        /\ ToSet(t.doomed) \subseteq t.alive /\ Root \in Layouts /\ IsInjective(t.doomed)
    BY TreeAssumption DEF Structure
  <2>2. /\ Root \in u.alive /\ u.parentLayout[Root] = None /\ Root \notin ToSet(u.doomed)
        /\ IsInjective(u.doomed) /\ ToSet(u.doomed) \subseteq u.alive
    BY <1>3, <1>12, <1>14, <2>1
  <2>. QED
    BY <1>12, <1>15, <1>16, <2>2 DEF Structure
<1>. QED
  BY <1>1, <1>2, <1>13, <1>17 DEF u, l, n

LEMMA BelowPlaced ==
    ASSUME NEW t, NEW u, NEW l \in Layouts, NEW w, w \notin Layouts, NEW n \in Layouts, n # l,
           w \in Widgets(t, l), \A k \in Layouts \ {l} : w \notin Widgets(t, k),
           Widgets(t, n) = {}, \A k \in Layouts : n \notin Widgets(t, k),
           Widgets(u, l) = (Widgets(t, l) \ {w}) \cup {n},
           \A k \in Layouts \ {l} : Widgets(u, k) = Widgets(t, k),
           NEW m \in Layouts, m # n
    PROVE  Below(u, m) = IF w \in Below(t, m) THEN (Below(t, m) \ {w}) \cup {n} ELSE Below(t, m)
<1>. DEFINE R == IF w \in Below(t, m) THEN (Below(t, m) \ {w}) \cup {n} ELSE Below(t, m)
            S == Below(u, m) \cup (IF l \in Below(u, m) THEN {w} ELSE {})
<1>1. Below(u, m) \subseteq R
  <2>1. m \in R
    BY BelowHasItself
  <2>2. ASSUME NEW k \in R \cap Layouts PROVE Widgets(u, k) \subseteq R
    <3>1. CASE k = n
      BY <3>1
    <3>2. CASE k # n
      <4>1. k \in Below(t, m)
        BY <2>2, <3>2
      <4>2. Widgets(t, k) \subseteq Below(t, m)
        BY <4>1, BelowIsClosed
      <4>3. CASE k = l
        BY <4>2, <4>3
      <4>4. CASE k # l
        BY <4>2, <4>4
      <4>. QED
        BY <4>3, <4>4
    <3>. QED
      BY <3>1, <3>2
  <2>. HIDE DEF R
  <2>. QED
    BY <2>1, <2>2, BelowIsLeast
<1>2. Below(t, m) \subseteq S
  <2>1. m \in S
    BY BelowHasItself
  <2>2. ASSUME NEW k \in S \cap Layouts PROVE Widgets(t, k) \subseteq S
    <3>1. k \in Below(u, m)
      BY <2>2
    <3>2. Widgets(u, k) \subseteq Below(u, m)
      BY <3>1, BelowIsClosed
    <3>3. CASE k = l
      BY <3>1, <3>2, <3>3
    <3>4. CASE k # l
      BY <3>2, <3>4
    <3>. QED
      BY <3>3, <3>4
  <2>. HIDE DEF S
  <2>. QED
    BY <2>1, <2>2, BelowIsLeast
<1>3. w \notin Below(u, m)
  <2>1. \A k \in Layouts : w \notin Widgets(u, k)
    OBVIOUS
  <2>. QED
    BY <2>1, BelowIsHeld
<1>4. R \subseteq Below(u, m)
  <2>1. CASE l \in Below(u, m)
    <3>1. n \in Below(u, m)
      BY <2>1, BelowIsClosed
    <3>2. CASE w \in Below(t, m)
      BY <1>2, <3>1, <3>2
    <3>3. CASE w \notin Below(t, m)
      BY <1>2, <3>3
    <3>. QED
      BY <3>2, <3>3
  <2>2. CASE l \notin Below(u, m)
    BY <1>2, <1>3, <2>2
  <2>. QED
    BY <2>1, <2>2
<1>. QED
  BY <1>1, <1>4

\* The trees t and u but for n, which stands in u where w stands in t.
OnlySwapped(t, u, w, n) ==
    \A m \in Layouts \ {n} :
       Below(u, m) = IF w \in Below(t, m) THEN (Below(t, m) \ {w}) \cup {n} ELSE Below(t, m)

\* The tree is filled again once the new layout has its two widgets.
LEMMA PlacedRest ==
    ASSUME NEW t, NEW out, TreeInv(t, out), NEW w \in InTree(t) \cap Wrappers,
           NEW l \in InTree(t) \cap Layouts, w \in Widgets(t, l), NEW n \in Layouts \ t.alive,
           NEW u, Structure(u), Replaces(t, l, w, n, u)
    PROVE  /\ InTree(u) = (InTree(t) \ {w}) \cup {n}
           /\ LooseLayouts(u, out) /\ LooseWrappers(u, {w} \cup out) /\ Apart(u, out)
           /\ FilledBut(u, n)
           /\ Widgets(u, n) = {}
           /\ OnlySwapped(t, u, w, n)
<1>0. Structure(t) /\ Leftovers(t, out) /\ Filled(t) /\ t \in TreeType /\ w \notin Layouts /\ Root \in Layouts
  BY TreeAssumption DEF TreeInv, Structure
<1>1. /\ u.alive = t.alive \cup {n}
      /\ Widgets(u, l) = (Widgets(t, l) \ {w}) \cup {n}
      /\ \A k \in Layouts \ {l} : Widgets(u, k) = Widgets(t, k)
      /\ \A k \in Layouts : Len(u.widgets[k]) = Len(t.widgets[k])
      /\ \A k \in Layouts : u.parentLayout[k] = IF k = n THEN l ELSE t.parentLayout[k]
      /\ u.doomed = t.doomed
  BY DEF Replaces
<1>2. /\ Widgets(t, n) = {} /\ \A k \in Layouts : n \notin Widgets(t, k)
      /\ \A k \in Layouts \ {l} : w \notin Widgets(t, k)
      /\ n # l /\ n # Root /\ n \notin InTree(t) /\ n \notin Wrappers
  <2>1. t.widgets[n] = <<>> /\ \A k \in Layouts : n \notin Widgets(t, k)
    BY <1>0 DEF Structure
  <2>2. Widgets(t, n) = {}
    BY <2>1 DEF Widgets, ToSet
  <2>3. n \notin InTree(t)
    BY <1>0, TreeIsAlive
  <2>4. \A k \in Layouts \ {l} : w \notin Widgets(t, k)
    BY <1>0, OneHolder
  <2>. QED
    BY <1>0, <2>1, <2>2, <2>3, <2>4, RootIsThere, TreeAssumption
<1>3. \A m \in Layouts \ {n} :
         Below(u, m) = IF w \in Below(t, m) THEN (Below(t, m) \ {w}) \cup {n} ELSE Below(t, m)
  BY <1>0, <1>1, <1>2, BelowPlaced
<1>4. InTree(u) = (InTree(t) \ {w}) \cup {n}
  BY <1>0, <1>2, <1>3 DEF InTree
<1>5. LooseLayouts(u, out)
  <2>1. SUFFICES ASSUME NEW k \in (u.alive \cap Layouts) \ (InTree(u) \cup out)
                 PROVE  k \in ToSet(u.doomed) /\ Widgets(u, k) \subseteq Wrappers /\ u.parentLayout[k] = None
    BY DEF LooseLayouts
  <2>2. k # n /\ k # l /\ k \in (t.alive \cap Layouts) \ (InTree(t) \cup out)
    BY <1>0, <1>1, <1>4, <2>1
  <2>3. k \in ToSet(t.doomed) /\ Widgets(t, k) \subseteq Wrappers /\ t.parentLayout[k] = None
    BY <1>0, <2>2 DEF Leftovers, LooseLayouts
  <2>. QED
    BY <1>1, <2>2, <2>3
<1>6. LooseWrappers(u, {w} \cup out)
  <2>1. SUFFICES ASSUME NEW v \in (u.alive \cap Wrappers) \ (InTree(u) \cup ({w} \cup out))
                 PROVE  v \in ToSet(u.doomed) \/ \E k \in Layouts \ InTree(u) : v \in Widgets(u, k)
    BY DEF LooseWrappers
  <2>2. v \in (t.alive \cap Wrappers) \ (InTree(t) \cup out)
    BY <1>1, <1>2, <1>4, <2>1
  <2>3. v \in ToSet(t.doomed) \/ \E k \in Layouts \ InTree(t) : v \in Widgets(t, k)
    BY <1>0, <2>2 DEF Leftovers, LooseWrappers
  <2>4. ASSUME NEW k \in Layouts \ InTree(t), v \in Widgets(t, k)
        PROVE  k \in Layouts \ InTree(u) /\ v \in Widgets(u, k)
    BY <1>1, <1>2, <1>4, <2>4
  <2>. QED
    BY <1>1, <2>3, <2>4
<1>7. FilledBut(u, n)
  <2>1. ASSUME NEW m \in (InTree(u) \cap Layouts) \ {Root, n} PROVE Len(u.widgets[m]) >= 2
    BY <1>0, <1>1, <1>4, <2>1 DEF Filled
  <2>2. ASSUME NEW m \in InTree(u) \cap Layouts PROVE Below(u, m) \cap Wrappers # {} \/ n \in Below(u, m)
    <3>1. CASE m = n
      BY <3>1, BelowHasItself
    <3>2. CASE m # n
      <4>1. Below(t, m) \cap Wrappers # {}
        BY <1>0, <1>4, <2>2, <3>2 DEF Filled
      <4>. QED
        BY <1>3, <2>2, <3>2, <4>1
    <3>. QED
      BY <3>1, <3>2
  <2>. QED
    BY <2>1, <2>2 DEF FilledBut
<1>8. Widgets(u, n) = {}
  BY <1>1, <1>2
<1>9. OnlySwapped(t, u, w, n)
  BY <1>3 DEF OnlySwapped
<1>10. Apart(u, out)
  <2>1. Apart(t, out) /\ Root \notin out
    BY <1>0 DEF Leftovers, Apart
  <2>2. InTree(t) \cap out = {}
    BY <2>1, BelowIsApart DEF InTree
  <2>3. l \notin out /\ n \notin out
    BY <2>1, <2>2 DEF Apart
  <2>4. ToSet(u.doomed) \cap out = {} /\ t.alive \cap out \subseteq u.alive
    BY <1>1, <2>1 DEF Apart
  <2>. QED
    BY <1>1, <2>1, <2>3, <2>4, ApartKept
<1>. QED
  BY <1>10, <1>9, <1>4, <1>5, <1>6, <1>7, <1>8

\* The two forms of a split.
SplitNextTo(t, w) ==
    InsertWidget(t, t.splitBy[w], PositionIn(t.widgets[t.splitBy[w]], w) + 1, Empty)

SplitInPlace(t, w, o) ==
    LET n == New(t, Layouts)
    IN  DeleteLater(AddWidget(AddWidget(Placed(t, w, o), n, t.panel[w]), n, Empty), w)

LEMMA SplitNextToInv ==
    ASSUME NEW t, NEW out, TreeInv(t, out), NEW w \in InTree(t) \cap Wrappers, Wrappers \ t.alive # {}
    PROVE  /\ t.splitBy[w] \in t.alive \cap Layouts /\ t.splitBy[w] \in InTree(t)
           /\ PositionIn(t.widgets[t.splitBy[w]], w) + 1 \in 1..(Len(t.widgets[t.splitBy[w]]) + 1)
           /\ TreeInv(SplitNextTo(t, w), out)
<1>. DEFINE l == t.splitBy[w]
            i == PositionIn(t.widgets[l], w)
<1>0. /\ Structure(t) /\ Leftovers(t, out) /\ Filled(t) /\ t \in TreeType
      /\ w # Root /\ w \notin Layouts
  BY TreeAssumption DEF TreeInv, Structure
<1>1. l \in InTree(t) \cap Layouts /\ l \in t.alive \cap Layouts /\ w \in Widgets(t, l)
  BY <1>0, Parents
<1>2. i \in DOMAIN t.widgets[l]
  BY <1>1, PositionFound DEF Widgets
<1>3. Len(t.widgets[l]) \in Nat /\ DOMAIN t.widgets[l] = 1..Len(t.widgets[l])
  BY <1>0, <1>1, WidgetsOf
<1>4. i + 1 \in 1..(Len(t.widgets[l]) + 1) /\ Len(t.widgets[l]) >= 1
  BY <1>2, <1>3
<1>5. FilledBut(t, l) /\ Empty \in Panels \cup {Empty}
  BY <1>0, FilledIsFilledBut
<1>7. l \notin out
  <2>1. Apart(t, out) /\ Root \notin out
    BY <1>0 DEF Leftovers, Apart
  <2>2. InTree(t) \cap out = {}
    BY <2>1, BelowIsApart DEF InTree
  <2>. QED
    BY <1>1, <2>2
<1>. HIDE DEF l, i
<1>6. TreeInv(InsertWidget(t, l, i + 1, Empty), out)
  BY <1>0, <1>1, <1>4, <1>5, <1>7, InsertedInv
<1>. QED
  BY <1>1, <1>4, <1>6 DEF SplitNextTo, l, i

\* The steps of the other: the new layout, its first widget with the panel, its second.
LEMMA SplitInPlaceSteps ==
    ASSUME NEW t, NEW out, TreeInv(t, out), NEW w \in InTree(t) \cap Wrappers, NEW o \in Orientations,
           Layouts \ t.alive # {}, Wrappers \ t.alive # {},
           \A v : (Wrappers \ t.alive) \ {v} # {},
           NEW n, n = New(t, Layouts), NEW a, a = Placed(t, w, o),
           NEW b, b = AddWidget(a, n, t.panel[w]), NEW c, c = AddWidget(b, n, Empty)
    PROVE  /\ n \in Layouts \ t.alive /\ Structure(a) /\ Replaces(t, t.splitBy[w], w, n, a)
           /\ t.splitBy[w] \in InTree(t) \cap Layouts /\ w \in Widgets(t, t.splitBy[w])
           /\ New(a, Wrappers) \in Wrappers \ t.alive /\ New(b, Wrappers) \in Wrappers \ b.alive
           /\ Structure(b) /\ Inserts(a, n, New(a, Wrappers), t.panel[w], b)
           /\ Structure(c) /\ Inserts(b, n, New(b, Wrappers), Empty, c)
<1>0. t \in TreeType /\ Structure(t) /\ t.panel[w] \in Panels \cup {Empty} /\ Empty \in Panels \cup {Empty}
  BY Fields DEF TreeInv, Structure
<1>1. /\ n \in Layouts \ t.alive /\ Structure(a) /\ Replaces(t, t.splitBy[w], w, n, a)
      /\ t.splitBy[w] \in InTree(t) \cap Layouts /\ w \in Widgets(t, t.splitBy[w])
  BY <1>0, WrapperPlaced
<1>2. a.alive = t.alive \cup {n} /\ n \notin Wrappers
  BY <1>1, TreeAssumption DEF Replaces
<1>3. n \in a.alive \cap Layouts /\ Wrappers \ a.alive # {}
  BY <1>1, <1>2
<1>4. Len(a.widgets[n]) + 1 \in 1..(Len(a.widgets[n]) + 1)
  <2>1. Len(a.widgets[n]) \in Nat
    BY <1>1, WidgetsOf DEF Structure
  <2>. QED
    BY <2>1
<1>5. /\ New(a, Wrappers) \in Wrappers \ a.alive
      /\ Structure(b) /\ Inserts(a, n, New(a, Wrappers), t.panel[w], b)
  BY <1>0, <1>1, <1>3, <1>4, WidgetInserted DEF AddWidget
<1>6. b.alive = a.alive \cup {New(a, Wrappers)}
  BY <1>5 DEF Inserts
<1>7. n \in b.alive \cap Layouts /\ Wrappers \ b.alive # {}
  BY <1>2, <1>3, <1>6
<1>8. Len(b.widgets[n]) + 1 \in 1..(Len(b.widgets[n]) + 1)
  <2>1. Len(b.widgets[n]) \in Nat
    BY <1>1, <1>5, WidgetsOf DEF Structure
  <2>. QED
    BY <2>1
<1>9. /\ New(b, Wrappers) \in Wrappers \ b.alive
      /\ Structure(c) /\ Inserts(b, n, New(b, Wrappers), Empty, c)
  BY <1>0, <1>5, <1>7, <1>8, WidgetInserted DEF AddWidget
<1>. QED
  BY <1>1, <1>2, <1>5, <1>9

LEMMA SplitInPlaceInv ==
    ASSUME NEW t, NEW out, TreeInv(t, out), NEW w \in InTree(t) \cap Wrappers, NEW o \in Orientations,
           Layouts \ t.alive # {}, Wrappers \ t.alive # {},
           \A v : (Wrappers \ t.alive) \ {v} # {}
    PROVE  TreeInv(SplitInPlace(t, w, o), out)
<1>. DEFINE n == New(t, Layouts)
            l == t.splitBy[w]
            a == Placed(t, w, o)
            b == AddWidget(a, n, t.panel[w])
            c == AddWidget(b, n, Empty)
            w1 == New(a, Wrappers)
            w2 == New(b, Wrappers)
            u == DeleteLater(c, w)
<1>1. /\ n \in Layouts \ t.alive /\ Structure(a) /\ Replaces(t, l, w, n, a)
      /\ l \in InTree(t) \cap Layouts /\ w \in Widgets(t, l)
      /\ w1 \in Wrappers \ t.alive /\ w2 \in Wrappers \ b.alive
      /\ Structure(b) /\ Inserts(a, n, w1, t.panel[w], b)
      /\ Structure(c) /\ Inserts(b, n, w2, Empty, c)
  <2>1. n = New(t, Layouts) /\ a = Placed(t, w, o) /\ b = AddWidget(a, n, t.panel[w]) /\ c = AddWidget(b, n, Empty)
    OBVIOUS
  <2>. HIDE DEF n, a, b, c
  <2>. QED
    BY <2>1, SplitInPlaceSteps
<1>2. u = SplitInPlace(t, w, o)
  BY DEF SplitInPlace
<1>3. l = t.splitBy[w]
  OBVIOUS
<1>. HIDE DEF n, l, a, b, c, w1, w2, u
<1>4. LooseLayouts(a, out) /\ LooseWrappers(a, {w} \cup out) /\ Apart(a, out) /\ FilledBut(a, n)
  <2>1. l \in InTree(t) \cap Layouts /\ n \in Layouts \ t.alive
    BY <1>1
  <2>2. w \in Widgets(t, l) /\ Structure(a) /\ Replaces(t, l, w, n, a)
    BY <1>1
  <2>. QED
    BY <2>1, <2>2, PlacedRest
<1>5. /\ b.alive = a.alive \cup {w1} /\ b.parentLayout = a.parentLayout /\ b.doomed = a.doomed
      /\ \A m \in Layouts : Widgets(b, m) = IF m = n THEN Widgets(a, n) \cup {w1} ELSE Widgets(a, m)
      /\ \A m \in Layouts : Len(b.widgets[m]) = Len(a.widgets[m]) + (IF m = n THEN 1 ELSE 0)
  BY <1>1 DEF Inserts
<1>6. /\ c.alive = b.alive \cup {w2} /\ c.parentLayout = b.parentLayout /\ c.doomed = b.doomed
      /\ \A m \in Layouts : Widgets(c, m) = IF m = n THEN Widgets(b, n) \cup {w2} ELSE Widgets(b, m)
      /\ \A m \in Layouts : Len(c.widgets[m]) = Len(b.widgets[m]) + (IF m = n THEN 1 ELSE 0)
  BY <1>1 DEF Inserts
<1>7. n \in Layouts /\ w1 \in Wrappers /\ w2 \in Wrappers /\ a \in TreeType /\ b \in TreeType
  BY <1>1 DEF Structure
<1>8. LooseLayouts(b, out) /\ LooseWrappers(b, {w} \cup out) /\ FilledBut(b, n)
  <2>1. LooseLayouts(b, out) /\ LooseWrappers(b, {w} \cup out)
    <3>1. /\ LooseLayouts(a, out) /\ LooseWrappers(a, {w} \cup out) /\ n \in Layouts /\ w1 \in Wrappers
          /\ b.alive = a.alive \cup {w1} /\ b.parentLayout = a.parentLayout /\ b.doomed = a.doomed
          /\ \A m \in Layouts : Widgets(b, m) = IF m = n THEN Widgets(a, n) \cup {w1} ELSE Widgets(a, m)
      BY <1>4, <1>5, <1>7
    <3>. QED
      BY <3>1, InsertedTree
  <2>2. FilledBut(b, n)
    BY <1>4, <1>5, <1>7, InsertedBut
  <2>. QED
    BY <2>1, <2>2
<1>9. Len(b.widgets[n]) >= 1
  <2>1. Len(a.widgets[n]) \in Nat /\ Len(b.widgets[n]) = Len(a.widgets[n]) + 1
    BY <1>5, <1>7, WidgetsOf
  <2>. QED
    BY <2>1
<1>10. LooseLayouts(c, out) /\ LooseWrappers(c, {w} \cup out) /\ Filled(c)
  <2>1. LooseLayouts(c, out) /\ LooseWrappers(c, {w} \cup out)
    BY <1>6, <1>7, <1>8, InsertedTree
  <2>2. Filled(c)
    BY <1>6, <1>7, <1>8, <1>9, InsertedFills
  <2>. QED
    BY <2>1, <2>2
<1>11. w \in c.alive /\ w # Root
  <2>1. w \in t.alive
    BY TreeIsAlive DEF TreeInv
  <2>2. a.alive = t.alive \cup {n}
    BY <1>1 DEF Replaces
  <2>. QED
    BY <1>5, <1>6, <2>1, <2>2, TreeAssumption
<1>12. /\ Structure(u)
       /\ u.alive = c.alive /\ u.widgets = c.widgets /\ u.parentLayout = c.parentLayout
       /\ ToSet(u.doomed) = ToSet(c.doomed) \cup {w}
  BY <1>1, <1>11, DoomedLater DEF u
<1>13. (\A x : Below(u, x) = Below(c, x)) /\ InTree(u) = InTree(c) /\ Filled(u)
  <2>1. ToSet(c.doomed) \subseteq ToSet(u.doomed)
    BY <1>12
  <2>. QED
    BY <1>10, <1>12, <2>1, DoomedMore
<1>14. \A k : Widgets(u, k) = Widgets(c, k)
  BY <1>12 DEF Widgets
<1>15. LooseLayouts(u, out)
  BY <1>10, <1>12, <1>13, <1>14 DEF LooseLayouts
<1>16. LooseWrappers(u, out)
  <2>1. SUFFICES ASSUME NEW v \in (u.alive \cap Wrappers) \ (InTree(u) \cup out)
                 PROVE  v \in ToSet(u.doomed) \/ \E k \in Layouts \ InTree(u) : v \in Widgets(u, k)
    BY DEF LooseWrappers
  <2>2. CASE v = w
    BY <1>12, <2>2
  <2>3. CASE v # w
    <3>1. v \in (c.alive \cap Wrappers) \ (InTree(c) \cup ({w} \cup out))
      BY <1>12, <1>13, <2>1, <2>3
    <3>2. v \in ToSet(c.doomed) \/ \E k \in Layouts \ InTree(c) : v \in Widgets(c, k)
      BY <1>10, <3>1 DEF LooseWrappers
    <3>. QED
      BY <1>12, <1>13, <1>14, <3>2
  <2>. QED
    BY <2>2, <2>3
<1>17. Apart(u, out)
  <2>1. w \notin out /\ w1 \notin out /\ w2 \notin out /\ n \notin out
    <3>1. Apart(t, out) /\ Root \notin out
      BY DEF TreeInv, Leftovers, Apart
    <3>2. InTree(t) \cap out = {}
      BY <3>1, BelowIsApart DEF InTree
    <3>3. out \subseteq a.alive /\ a.alive \subseteq b.alive /\ out \subseteq t.alive
      BY <1>4, <1>5, <3>1 DEF Apart
    <3>. QED
      BY <1>1, <3>2, <3>3
  <2>2. /\ ToSet(u.doomed) = ToSet(a.doomed) \cup {w}
        /\ a.alive \subseteq u.alive
        /\ \A k \in Layouts : Widgets(u, k) \subseteq Widgets(a, k) \cup {w1, w2}
        /\ \A k \in Layouts : k # n => Widgets(u, k) = Widgets(a, k)
    BY <1>5, <1>6, <1>12, <1>14
  <2>3. ToSet(u.doomed) \cap out = {}
    BY <1>4, <2>1, <2>2 DEF Apart
  <2>. QED
    BY <1>4, <2>1, <2>2, <2>3, ApartKept
<1>. QED
  BY <1>2, <1>12, <1>13, <1>15, <1>16, <1>17 DEF TreeInv, Leftovers

LEMMA PrefixOf ==
    ASSUME NEW T, NEW s \in Seq(T), NEW q \in Seq(T), IsPrefix(s, q)
    PROVE  ToSet(s) \subseteq ToSet(q)
<1>1. Len(s) \in Nat /\ Len(q) \in Nat /\ DOMAIN s = 1..Len(s) /\ DOMAIN q = 1..Len(q)
  OBVIOUS
<1>2. Len(s) <= Len(q) /\ SubSeq(s, 1, Len(s)) = SubSeq(q, 1, Len(s))
  BY DEF IsPrefix
<1>3. ASSUME NEW i \in 1..Len(s) PROVE i \in 1..Len(q) /\ s[i] = q[i]
  <2>1. SubSeq(s, 1, Len(s))[i] = s[i]
    BY <1>1, <1>3
  <2>2. SubSeq(q, 1, Len(s))[i] = q[i]
    BY <1>1, <1>2, <1>3
  <2>. QED
    BY <1>1, <1>2, <2>1, <2>2
<1>. QED
  BY <1>1, <1>3 DEF ToSet

\* A restored layout: what was there before is doomed, what is new is one tree.
LEMMA RestoredInv ==
    ASSUME NEW t, NEW out, Structure(t), Leftovers(t, out),
           \A m \in (InTree(t) \cap Layouts) \ {Root} :
               Len(t.widgets[m]) >= 2 /\ Below(t, m) \cap Wrappers # {},
           NEW u, Restored(t, u)
    PROVE  TreeInv(u, out \cup Stray(t, u))
<1>. DEFINE new == u.alive \ t.alive
            Added(l) == Widgets(u, l) \ (IF l = Root THEN Widgets(t, l) ELSE {})
<1>0. t \in TreeType /\ Root \in Layouts /\ Root \in t.alive /\ Root \in InTree(t)
  BY RootIsThere, TreeAssumption DEF Structure
<1>1. /\ u \in TreeType
      /\ t.alive \subseteq u.alive
      /\ IsPrefix(t.widgets[Root], u.widgets[Root]) /\ u.widgets[Root] # <<>>
      /\ \A l \in Layouts \ (new \cup {Root}) : u.widgets[l] = t.widgets[l]
      /\ \A l \in (new \cap Layouts) \cup {Root} :
            /\ IsInjective(u.widgets[l]) /\ Added(l) \subseteq new
            /\ \A x \in Added(l) :
                  /\ Holders(u, x) = {l}
                  /\ IF x \in Layouts THEN u.parentLayout[x] = l ELSE u.splitBy[x] = l
      /\ \A l \in new \cap InTree(u) \cap Layouts :
            Len(u.widgets[l]) >= 2 /\ Below(u, l) \cap Wrappers # {}
      /\ \A l \in Layouts \ new : u.parentLayout[l] = t.parentLayout[l]
      /\ \A w \in Wrappers \ new : u.panel[w] = t.panel[w] /\ u.splitBy[w] = t.splitBy[w]
      /\ IsPrefix(t.doomed, u.doomed) /\ IsInjective(u.doomed)
      /\ ToSet(u.doomed) = ToSet(t.doomed) \cup Widgets(t, Root)
  BY DEF Restored
<1>2. Widgets(t, Root) \subseteq Widgets(u, Root)
  <2>. DEFINE T == Layouts \cup Wrappers
              a == t.widgets[Root]
              b == u.widgets[Root]
  <2>1. a \in Seq(T) /\ b \in Seq(T) /\ IsPrefix(a, b)
    BY <1>0, <1>1, Fields
  <2>. HIDE DEF T, a, b
  <2>2. ToSet(a) \subseteq ToSet(b)
    BY <2>1, PrefixOf
  <2>. QED
    BY <2>2 DEF Widgets, a, b
<1>3. \A x : x \in new <=> x \in u.alive /\ x \notin t.alive
  OBVIOUS
<1>4. \A l \in Layouts \ (new \cup {Root}) : Widgets(u, l) = Widgets(t, l)
  BY <1>1 DEF Widgets
<1>5. \A l \in new \cap Layouts : t.widgets[l] = <<>> /\ Widgets(t, l) = {} /\ l # Root
  <2>1. \A l \in new \cap Layouts : t.widgets[l] = <<>>
    BY <1>3 DEF Structure
  <2>. QED
    BY <1>0, <1>3, <2>1 DEF Widgets, ToSet
<1>6. \A l : \A x : x \in Added(l) <=> x \in Widgets(u, l) /\ (l = Root => x \notin Widgets(t, l))
  OBVIOUS
<1>. HIDE DEF new, Added
<1>7. \A l \in Layouts : \A x \in Widgets(u, l) :
         \/ x \in Widgets(t, l) /\ l \notin new
         \/ x \in Added(l) /\ l \in (new \cap Layouts) \cup {Root}
  BY <1>4, <1>5, <1>6
<1>8. \A l \in Layouts : Widgets(t, l) \subseteq t.alive /\ Root \notin Widgets(t, l)
  BY DEF Structure
<1>9. \A l \in Layouts : Widgets(u, l) # {} => l \in u.alive
  <2>1. SUFFICES ASSUME NEW l \in Layouts, Widgets(u, l) # {}, l \notin u.alive PROVE FALSE
    OBVIOUS
  <2>2. l \notin new /\ l # Root /\ l \notin t.alive
    BY <1>0, <1>1, <1>3, <2>1
  <2>3. t.widgets[l] = <<>>
    BY <2>2 DEF Structure
  <2>4. Widgets(t, l) = {}
    BY <2>3 DEF Widgets, ToSet
  <2>. QED
    BY <1>4, <2>1, <2>2, <2>4
<1>10. ASSUME NEW l \in Layouts
       PROVE  /\ Root \notin Widgets(u, l)
              /\ Widgets(u, l) \subseteq u.alive
              /\ l \notin u.alive => u.widgets[l] = <<>>
              /\ IsInjective(u.widgets[l])
              /\ \A x \in Widgets(u, l) : IF x \in Layouts THEN u.parentLayout[x] = l ELSE u.splitBy[x] = l
  <2>1. /\ IsInjective(t.widgets[l])
        /\ \A x \in Widgets(t, l) : IF x \in Layouts THEN t.parentLayout[x] = l ELSE t.splitBy[x] = l
        /\ Widgets(t, l) \subseteq Layouts \cup Wrappers
    BY <1>0, WidgetsOf DEF Structure
  <2>2. ASSUME NEW x \in Widgets(u, l)
        PROVE  /\ x # Root /\ x \in u.alive
               /\ IF x \in Layouts THEN u.parentLayout[x] = l ELSE u.splitBy[x] = l
    <3>1. CASE x \in Widgets(t, l) /\ l \notin new
      <4>1. x \in t.alive /\ x \notin new /\ x # Root
        BY <1>3, <1>8, <3>1
      <4>. QED
        BY <1>1, <2>1, <3>1, <4>1
    <3>2. CASE x \in Added(l) /\ l \in (new \cap Layouts) \cup {Root}
      <4>1. x \in new
        BY <1>1, <3>2
      <4>. QED
        BY <1>0, <1>1, <1>3, <3>2, <4>1
    <3>. QED
      BY <1>7, <2>2, <3>1, <3>2
  <2>3. l \notin u.alive => u.widgets[l] = <<>>
    <3>1. l \notin u.alive => Widgets(u, l) = {}
      BY <1>9
    <3>. QED
      BY <1>1, <3>1, WidgetsOf
  <2>4. IsInjective(u.widgets[l])
    BY <1>1, <2>1
  <2>. QED
    BY <2>2, <2>3, <2>4
<1>11. ASSUME NEW l \in Layouts, NEW m \in Layouts, NEW x, x \in Widgets(u, l), x \in Widgets(u, m)
       PROVE  l = m
  <2>1. l \in u.alive /\ m \in u.alive
    BY <1>9, <1>11
  <2>2. l \in Holders(u, x) /\ m \in Holders(u, x)
    BY <1>11, <2>1 DEF Holders
  <2>3. CASE x \in Added(l) /\ l \in (new \cap Layouts) \cup {Root}
    BY <1>1, <2>2, <2>3
  <2>4. CASE x \in Added(m) /\ m \in (new \cap Layouts) \cup {Root}
    BY <1>1, <2>2, <2>4
  <2>5. CASE x \in Widgets(t, l) /\ x \in Widgets(t, m)
    BY <2>5, OneHolder
  <2>. QED
    BY <1>7, <1>11, <2>3, <2>4, <2>5
<1>12. Structure(u)
  <2>1. /\ t.parentLayout[Root] = None /\ Root \notin ToSet(t.doomed) /\ ToSet(t.doomed) \subseteq t.alive
    BY DEF Structure
  <2>2. /\ Root \in u.alive /\ u.parentLayout[Root] = None /\ Root \notin ToSet(u.doomed)
        /\ IsInjective(u.doomed) /\ ToSet(u.doomed) \subseteq u.alive
    BY <1>0, <1>1, <1>3, <1>8, <2>1
  <2>3. \A l, m \in Layouts : l # m => Widgets(u, l) \cap Widgets(u, m) = {}
    BY <1>11
  <2>. QED
    BY <1>1, <1>10, <2>2, <2>3 DEF Structure
<1>13. \A l \in Layouts : Widgets(t, l) \subseteq Widgets(u, l)
  BY <1>2, <1>4, <1>5
<1>14. \A x : Below(t, x) \subseteq Below(u, x)
  BY <1>13, BelowGrows
<1>15. InTree(t) \subseteq InTree(u) /\ InTree(u) \subseteq InTree(t) \cup new
  <2>1. InTree(t) \subseteq InTree(u)
    BY <1>14 DEF InTree
  <2>. DEFINE S == InTree(t) \cup new
  <2>2. Root \in S
    BY <1>0
  <2>3. ASSUME NEW l \in S \cap Layouts PROVE Widgets(u, l) \subseteq S
    <3>1. SUFFICES ASSUME NEW x \in Widgets(u, l) PROVE x \in S
      OBVIOUS
    <3>2. CASE x \in Added(l) /\ l \in (new \cap Layouts) \cup {Root}
      BY <1>1, <3>2
    <3>3. CASE x \in Widgets(t, l) /\ l \notin new
      <4>1. l \in Below(t, Root) \cap Layouts
        BY <2>3, <3>3 DEF InTree
      <4>. QED
        BY <3>3, <4>1, BelowIsClosed DEF InTree
    <3>. QED
      BY <1>7, <3>1, <3>2, <3>3
  <2>. HIDE DEF S
  <2>4. InTree(u) \subseteq S
    BY <2>2, <2>3, BelowIsLeast DEF InTree
  <2>. QED
    BY <2>1, <2>4 DEF S
<1>. DEFINE all == out \cup Stray(t, u)
<1>20. \A x : x \in all <=> x \in out \/ (x \in new /\ x \notin InTree(u))
  BY DEF Stray, new
<1>. HIDE DEF all
<1>16. LooseLayouts(u, all)
  <2>1. SUFFICES ASSUME NEW l \in (u.alive \cap Layouts) \ (InTree(u) \cup all)
                 PROVE  l \in ToSet(u.doomed) /\ Widgets(u, l) \subseteq Wrappers /\ u.parentLayout[l] = None
    BY DEF LooseLayouts
  <2>2. l \in (t.alive \cap Layouts) \ (InTree(t) \cup out) /\ l \notin new /\ l # Root
    BY <1>0, <1>3, <1>15, <1>20, <2>1
  <2>3. l \in ToSet(t.doomed) /\ Widgets(t, l) \subseteq Wrappers /\ t.parentLayout[l] = None
    BY <2>2 DEF Leftovers, LooseLayouts
  <2>. QED
    BY <1>1, <1>4, <2>2, <2>3
<1>17. LooseWrappers(u, all)
  <2>1. SUFFICES ASSUME NEW w \in (u.alive \cap Wrappers) \ (InTree(u) \cup all)
                 PROVE  w \in ToSet(u.doomed) \/ \E l \in Layouts \ InTree(u) : w \in Widgets(u, l)
    BY DEF LooseWrappers
  <2>2. w \in (t.alive \cap Wrappers) \ (InTree(t) \cup out)
    BY <1>3, <1>15, <1>20, <2>1
  <2>3. w \in ToSet(t.doomed) \/ \E l \in Layouts \ InTree(t) : w \in Widgets(t, l)
    BY <2>2 DEF Leftovers, LooseWrappers
  <2>4. ASSUME NEW l \in Layouts \ InTree(t), w \in Widgets(t, l)
        PROVE  l \in Layouts \ InTree(u) /\ w \in Widgets(u, l)
    <3>1. l \notin new
      BY <1>5, <2>4
    <3>2. l \notin InTree(u)
      BY <1>15, <2>4, <3>1
    <3>. QED
      BY <1>13, <2>4, <3>2
  <2>. QED
    BY <1>1, <2>3, <2>4
<1>18. ASSUME NEW m \in (InTree(u) \cap Layouts) \ {Root}
       PROVE  Len(u.widgets[m]) >= 2 /\ Below(u, m) \cap Wrappers # {}
  <2>1. CASE m \in new
    BY <1>1, <1>18, <2>1
  <2>2. CASE m \notin new
    <3>1. Len(t.widgets[m]) >= 2 /\ Below(t, m) \cap Wrappers # {} /\ u.widgets[m] = t.widgets[m]
      BY <1>1, <1>15, <1>18, <2>2
    <3>2. Below(t, m) \subseteq Below(u, m)
      BY <1>14
    <3>. QED
      BY <3>1, <3>2
  <2>. QED
    BY <2>1, <2>2
<1>19. Filled(u)
  <2>1. FilledBut(u, Root)
    BY <1>18, BelowHasItself DEF FilledBut
  <2>. QED
    BY <1>0, <1>1, <1>12, <2>1, FilledAgain
<1>21. Apart(t, out) /\ InTree(t) \cap out = {}
  <2>1. Apart(t, out) /\ Root \notin out
    BY DEF Leftovers, Apart
  <2>. QED
    BY <2>1, BelowIsApart DEF InTree
<1>22. ASSUME NEW x \in InTree(u), x # Root, NEW l \in Layouts, x \in Widgets(u, l)
       PROVE  l \in InTree(u)
  <2>1. PICK m \in InTree(u) \cap Layouts : x \in Widgets(u, m)
    BY <1>12, <1>22, Parents
  <2>. QED
    BY <1>11, <1>22, <2>1
<1>23. \A l \in InTree(u) \cap Layouts : Widgets(u, l) \subseteq InTree(u)
  BY BelowIsClosed DEF InTree
<1>24. ASSUME NEW l \in Layouts
       PROVE  IF l \in all THEN Widgets(u, l) \subseteq all ELSE Widgets(u, l) \cap all = {}
  <2>1. out \subseteq t.alive /\ (IF l \in out THEN Widgets(t, l) \subseteq out ELSE Widgets(t, l) \cap out = {})
    BY <1>21 DEF Apart
  <2>2. CASE l \in new
    <3>1. Widgets(u, l) \subseteq new
      BY <1>1, <1>5, <1>7, <2>2
    <3>2. l \notin out /\ \A x \in Widgets(u, l) : x \notin out /\ x # Root
      BY <1>0, <1>3, <2>1, <2>2, <3>1
    <3>3. CASE l \in InTree(u)
      BY <1>20, <1>23, <3>2, <3>3
    <3>4. CASE l \notin InTree(u)
      BY <1>20, <1>22, <2>2, <3>1, <3>2, <3>4
    <3>. QED
      BY <3>3, <3>4
  <2>3. CASE l = Root
    <3>1. Root \notin out /\ Root \in InTree(u) /\ Root \notin new
      BY <1>0, <1>3, <1>15, <1>21
    <3>2. \A x \in Widgets(u, Root) : x \in InTree(u) /\ x \notin out
      <4>1. \A x \in Widgets(u, Root) : x \in InTree(u)
        BY <1>0, <1>23, <3>1
      <4>2. ASSUME NEW x \in Widgets(u, Root) PROVE x \notin out
        BY <1>1, <1>3, <1>7, <2>1, <2>3, <3>1, <4>2
      <4>. QED
        BY <4>1, <4>2
    <3>. QED
      BY <1>20, <2>3, <3>1, <3>2
  <2>4. CASE l \notin new /\ l # Root
    <3>1. Widgets(u, l) = Widgets(t, l) /\ \A x \in Widgets(u, l) : x \notin new
      BY <1>3, <1>4, <1>8, <2>4
    <3>. QED
      BY <1>20, <2>1, <2>4, <3>1
  <2>. QED
    BY <2>2, <2>3, <2>4
<1>25. Apart(u, all)
  <2>1. out \subseteq t.alive /\ Root \notin out /\ ToSet(t.doomed) \cap out = {} /\ Widgets(t, Root) \cap out = {}
    BY <1>0, <1>21 DEF Apart
  <2>2. ToSet(t.doomed) \subseteq t.alive
    BY DEF Structure
  <2>3. all \subseteq u.alive /\ Root \notin all
    BY <1>0, <1>1, <1>3, <1>20, <2>1
  <2>4. ToSet(u.doomed) \cap all = {}
    BY <1>0, <1>1, <1>3, <1>8, <1>20, <2>1, <2>2
  <2>. QED
    BY <1>24, <2>3, <2>4 DEF Apart
<1>. QED
  BY <1>12, <1>16, <1>17, <1>19, <1>25 DEF TreeInv, Leftovers, all

\* The root before its first layout.
LEMMA BareIsSound ==
    /\ Structure(Bare) /\ Leftovers(Bare, {})
    /\ InTree(Bare) = {Root}
<1>1. /\ Bare.alive = {Root} /\ Bare.doomed = <<>>
      /\ \A l \in Layouts : Bare.widgets[l] = <<>> /\ Bare.parentLayout[l] = None
      /\ Root \in Layouts
  BY TreeAssumption DEF Bare
<1>2. Bare \in TreeType
  <2>1. <<>> \in Seq(Layouts \cup Wrappers)
    OBVIOUS
  <2>2. [l \in Layouts |-> IF l = Root THEN "Horizontal" ELSE None] \in [Layouts -> Orientations \cup {None}]
    BY DEF Orientations
  <2>. QED
    BY <1>1, <2>1, <2>2 DEF Bare, TreeType
<1>3. ToSet(<<>>) = {} /\ IsInjective(<<>>)
  BY DEF ToSet, IsInjective
<1>4. \A l \in Layouts : Widgets(Bare, l) = {}
  BY <1>1, <1>3 DEF Widgets
<1>5. Structure(Bare)
  BY <1>1, <1>2, <1>3, <1>4 DEF Structure
<1>6. InTree(Bare) = {Root}
  <2>. DEFINE S == {Root}
  <2>1. Root \in S /\ \A l \in S \cap Layouts : Widgets(Bare, l) \subseteq S
    BY <1>4
  <2>. HIDE DEF S
  <2>2. InTree(Bare) \subseteq S
    BY <2>1, BelowIsLeast DEF InTree
  <2>. QED
    BY <2>2, RootIsThere DEF S
<1>7. Leftovers(Bare, {})
  BY <1>1, <1>6, TreeAssumption DEF Leftovers, LooseLayouts, LooseWrappers, Apart
<1>. QED
  BY <1>5, <1>6, <1>7

-----------------------------------------------------------------------------
(* The theorems                                                             *)

LEMMA InitInv == TreeInit => TreeInv(tree, stranded)
<1>1. SUFFICES ASSUME Restored(Bare, tree), stranded = {} \cup Stray(Bare, tree)
               PROVE  TreeInv(tree, stranded)
  BY DEF TreeInit
<1>2. (InTree(Bare) \cap Layouts) \ {Root} = {}
  BY BareIsSound
<1>. QED
  BY <1>1, <1>2, BareIsSound, RestoredInv

\* A split makes objects that there is room for.
LEMMA SplitIs ==
    ASSUME TreeInv(tree, stranded), NEW w \in Shown, NEW o \in Orientations, Split(w, o)
    PROVE  /\ w \in InTree(tree) \cap Wrappers
           /\ Layouts \ tree.alive # {} /\ Wrappers \ tree.alive # {}
           /\ \A v : (Wrappers \ tree.alive) \ {v} # {}
           /\ tree' = SplitNextTo(tree, w) \/ tree' = SplitInPlace(tree, w, o)
<1>1. w \in InTree(tree) \cap Wrappers
  BY DEF Shown
<1>2. Cardinality(Wrappers \ tree.alive) >= 2 /\ Cardinality(Layouts \ tree.alive) >= 1
  BY DEF Split, RoomFor
<1>3. IsFiniteSet(Wrappers) /\ IsFiniteSet(Layouts)
  BY TreeAssumption
<1>4. Layouts \ tree.alive # {}
  BY <1>2, <1>3, RoomIsThere
<1>5. Wrappers \ tree.alive # {} /\ \A v : (Wrappers \ tree.alive) \ {v} # {}
  <2>1. \A v : (Wrappers \ tree.alive) \ {v} # {}
    BY <1>2, <1>3, RoomIsThere
  <2>. QED
    BY <2>1
<1>6. tree' = SplitNextTo(tree, w) \/ tree' = SplitInPlace(tree, w, o)
  BY DEF Split, SplitNextTo, SplitInPlace, Placed
<1>. QED
  BY <1>1, <1>4, <1>5, <1>6

LEMMA DeleteNextIs ==
    ASSUME tree \in TreeType, DeleteNext
    PROVE  \E x \in ToSet(tree.doomed) : tree' = Deleted(tree, x)
<1>1. tree.doomed \in Seq(Layouts \cup Wrappers) /\ tree.doomed # <<>>
  BY Fields DEF DeleteNext
<1>2. Head(tree.doomed) \in ToSet(tree.doomed)
  BY <1>1 DEF ToSet
<1>3. tree' = Deleted(tree, Head(tree.doomed))
  BY DEF DeleteNext, Deleted
<1>. QED
  BY <1>2, <1>3

LEMMA NextInv == TreeInv(tree, stranded) /\ [TreeNext]_treeVars => TreeInv(tree', stranded')
<1>1. SUFFICES ASSUME TreeInv(tree, stranded), [TreeNext]_treeVars PROVE TreeInv(tree', stranded')
  OBVIOUS
<1>2. Structure(tree) /\ Leftovers(tree, stranded) /\ Filled(tree) /\ tree \in TreeType
  BY <1>1 DEF TreeInv, Structure
<1>3. ASSUME NEW w \in Shown, NEW p \in Panels, SelectPanel(w, p) PROVE TreeInv(tree', stranded')
  <2>1. w \in Wrappers
    BY DEF Shown
  <2>. QED
    BY <1>1, <1>3, <2>1, PanelSelected DEF SelectPanel
<1>4. ASSUME NEW w \in Shown, NEW o \in Orientations, Split(w, o) PROVE TreeInv(tree', stranded')
  <2>1. stranded' = stranded
    BY <1>4 DEF Split
  <2>. QED
    BY <1>1, <1>4, <2>1, SplitIs, SplitNextToInv, SplitInPlaceInv
<1>5. ASSUME NEW w \in Shown, Close(w) PROVE TreeInv(tree', stranded')
  <2>1. w \in tree.alive /\ w # Root
    BY <1>2, TreeIsAlive, TreeAssumption DEF Shown
  <2>2. w \notin stranded
    <3>1. Apart(tree, stranded) /\ Root \notin stranded
      BY <1>2 DEF Leftovers, Apart
    <3>. QED
      BY <3>1, BelowIsApart DEF Shown, InTree
  <2>. QED
    BY <1>1, <1>5, <2>1, <2>2, DoomedInv DEF Close
<1>6. CASE Restore
  BY <1>2, <1>6, RestoredInv DEF Restore, Filled
<1>7. CASE DeleteNext
  <2>1. stranded' = stranded
    BY <1>7 DEF DeleteNext
  <2>. QED
    BY <1>1, <1>2, <1>7, <2>1, DeleteNextIs, DeletedInv
<1>8. CASE UNCHANGED treeVars
  BY <1>1, <1>8 DEF treeVars
<1>. QED
  BY <1>1, <1>3, <1>4, <1>5, <1>6, <1>7, <1>8 DEF TreeNext

\* The panels are a tree of objects that there are, each in one place and each knowing
\* which, beside which there is only what is about to be deleted and what nested layouts
\* that could not be restored have left, whose objects are in nothing of the tree and
\* hold nothing of it: whatever is split, closed and restored, and between any two of
\* the deletions that this leads to.
THEOREM TreeIsInvariant == TreeSpec => []TreeInv(tree, stranded)
<1>1. TreeInit => TreeInv(tree, stranded)
  BY InitInv
<1>2. TreeInv(tree, stranded) /\ [TreeNext]_treeVars => TreeInv(tree, stranded)'
  BY NextInv DEF TreeInv, Structure, Leftovers, Filled, LooseLayouts, LooseWrappers,
     Apart, InTree, Below, LayoutsIn, Widgets
<1>. QED
  BY <1>1, <1>2, PTL DEF TreeSpec

\* Deletions to come and half-merged layouts included, the tree is sound: what split()
\* and childEvent() assert of indexOf() holds when they are called.
THEOREM TreeIsAlwaysSound == TreeSpec => []TreeIsSound
<1>1. TreeInv(tree, stranded) => TreeIsSound
  <2>1. SUFFICES ASSUME TreeInv(tree, stranded) PROVE TreeIsSound
    OBVIOUS
  <2>2. Structure(tree)
    BY <2>1 DEF TreeInv
  <2>3. InTree(tree) \subseteq tree.alive /\ ToSet(tree.doomed) \subseteq tree.alive
    BY <2>2, TreeIsAlive DEF Structure
  <2>4. ASSUME NEW l \in InTree(tree) \cap Layouts
        PROVE  /\ IsInjective(tree.widgets[l])
               /\ \A x \in ToSet(tree.widgets[l]) :
                     /\ Holders(tree, x) = {l}
                     /\ IF x \in Layouts THEN tree.parentLayout[x] = l ELSE tree.splitBy[x] = l
    <3>1. SUFFICES ASSUME NEW x \in Widgets(tree, l)
                   PROVE  /\ Holders(tree, x) = {l}
                          /\ IF x \in Layouts THEN tree.parentLayout[x] = l ELSE tree.splitBy[x] = l
      BY <2>2 DEF Structure, Widgets
    <3>2. l \in Holders(tree, x)
      BY <2>3 DEF Holders
    <3>3. \A m \in Holders(tree, x) : m = l
      BY <2>2, OneHolder DEF Holders
    <3>. QED
      BY <2>2, <3>2, <3>3 DEF Structure
  <2>. QED
    BY <2>3, <2>4 DEF TreeIsSound
<1>. QED
  BY <1>1, TreeIsInvariant, PTL

\* When the event loop has caught up, no layout is idle and there is nothing but the
\* tree and what failed restores have left, whatever the order in which the deletions
\* went.
THEOREM NoLayoutStaysIdle == TreeSpec => []NoIdleLayout
<1>1. TreeInv(tree, stranded) => NoIdleLayout
  <2>1. SUFFICES ASSUME TreeInv(tree, stranded), tree.doomed = <<>>
                 PROVE  /\ tree.widgets[Root] # <<>>
                        /\ \A l \in InTree(tree) \cap Layouts : l # Root => Len(tree.widgets[l]) >= 2
                        /\ tree.alive = InTree(tree) \cup stranded
                        /\ InTree(tree) \cap stranded = {}
    BY DEF NoIdleLayout, AtRest
  <2>2. Structure(tree) /\ Leftovers(tree, stranded) /\ Filled(tree) /\ tree \in TreeType
    BY <2>1 DEF TreeInv, Structure
  <2>3. ToSet(tree.doomed) = {}
    BY <2>1 DEF ToSet
  <2>4. tree.widgets[Root] # <<>>
    <3>1. SUFFICES ASSUME tree.widgets[Root] = <<>> PROVE FALSE
      OBVIOUS
    <3>. DEFINE S == {Root}
    <3>2. Root \in S /\ \A l \in S \cap Layouts : Widgets(tree, l) \subseteq S
      BY <3>1 DEF Widgets, ToSet
    <3>. HIDE DEF S
    <3>3. InTree(tree) \subseteq S
      BY <3>2, BelowIsLeast DEF InTree
    <3>4. InTree(tree) \cap Wrappers # {}
      BY <2>2, RootIsThere DEF Filled, InTree
    <3>. QED
      BY <3>3, <3>4, TreeAssumption DEF S
  <2>7. Apart(tree, stranded) /\ stranded \subseteq tree.alive /\ Root \notin stranded
    BY <2>2 DEF Leftovers, Apart
  <2>5. ASSUME NEW x \in tree.alive, x \notin InTree(tree), x \notin stranded PROVE FALSE
    <3>1. \A l \in Layouts : l \in InTree(tree) \/ l \in stranded \/ l \notin tree.alive
      BY <2>2, <2>3 DEF Leftovers, LooseLayouts
    <3>2. x \in Wrappers
      BY <2>2, <2>5, <3>1, Fields
    <3>3. PICK l \in Layouts \ InTree(tree) : x \in Widgets(tree, l)
      BY <2>2, <2>3, <2>5, <3>2 DEF Leftovers, LooseWrappers
    <3>5. l \notin stranded
      BY <2>5, <2>7, <3>3 DEF Apart
    <3>4. tree.widgets[l] = <<>>
      BY <2>2, <3>1, <3>3, <3>5 DEF Structure
    <3>. QED
      BY <3>3, <3>4 DEF Widgets, ToSet
  <2>6. InTree(tree) \subseteq tree.alive
    BY <2>2, TreeIsAlive
  <2>8. InTree(tree) \cap stranded = {}
    BY <2>7, BelowIsApart DEF InTree
  <2>. QED
    BY <2>2, <2>4, <2>5, <2>6, <2>7, <2>8 DEF Filled
<1>. QED
  BY <1>1, TreeIsInvariant, PTL

-----------------------------------------------------------------------------
(* The panels                                                               *)

LEMMA AsMany ==
    ASSUME NEW A, NEW B, IsFiniteSet(A), IsFiniteSet(B), NEW x, NEW y, y \notin A,
           A \ {x} \subseteq B, x \in A => y \in B
    PROVE  Cardinality(B) >= Cardinality(A)
<1>1. CASE x \notin A
  <2>1. A \subseteq B
    BY <1>1
  <2>2. Cardinality(A) <= Cardinality(B) /\ Cardinality(A) \in Nat /\ Cardinality(B) \in Nat
    BY <2>1, FS_Subset, FS_CardinalityType
  <2>. QED
    BY <2>2
<1>2. CASE x \in A
  <2>. DEFINE C == A \ {x}
              D == C \cup {y}
  <2>1. IsFiniteSet(C) /\ Cardinality(C) = Cardinality(A) - 1
    BY <1>2, FS_RemoveElement
  <2>2. y \notin C
    OBVIOUS
  <2>. HIDE DEF C
  <2>3. IsFiniteSet(D) /\ Cardinality(D) = Cardinality(C) + 1
    BY <2>1, <2>2, FS_AddElement
  <2>4. D \subseteq B
    BY <1>2 DEF C
  <2>. HIDE DEF D
  <2>5. Cardinality(D) <= Cardinality(B)
    BY <2>4, FS_Subset
  <2>6. Cardinality(A) \in Nat /\ Cardinality(B) \in Nat
    BY FS_CardinalityType
  <2>. QED
    BY <2>1, <2>3, <2>5, <2>6
<1>. QED
  BY <1>1, <1>2

\* The panels that stay are where they were, but for that of x, which is in y.
Kept(t, u, x, y) ==
    /\ \A v \in (Staying(t) \cap Wrappers) \ {x} : v \in Staying(u) /\ u.panel[v] = t.panel[v]
    /\ y \notin Staying(t) \cap Wrappers
    /\ x \in Staying(t) \cap Wrappers => y \in Staying(u) \cap Wrappers /\ u.panel[y] = t.panel[x]

LEMMA HeldIsNumber == \A t, p : Held(t, p) \in Nat
<1>1. SUFFICES ASSUME NEW t, NEW p PROVE Held(t, p) \in Nat
  OBVIOUS
<1>. DEFINE A == {w \in Staying(t) \cap Wrappers : t.panel[w] = p}
<1>2. A \subseteq Wrappers /\ IsFiniteSet(Wrappers)
  BY TreeAssumption
<1>. HIDE DEF A
<1>3. Cardinality(A) \in Nat
  BY <1>2, FS_Subset, FS_CardinalityType
<1>. QED
  BY <1>3 DEF Held, A

LEMMA HeldStill ==
    ASSUME NEW t, NEW u, NEW x, NEW y, Kept(t, u, x, y), NEW p
    PROVE  Held(u, p) >= Held(t, p)
<1>. DEFINE A == {w \in Staying(t) \cap Wrappers : t.panel[w] = p}
            B == {w \in Staying(u) \cap Wrappers : u.panel[w] = p}
<1>1. /\ \A v \in (Staying(t) \cap Wrappers) \ {x} : v \in Staying(u) /\ u.panel[v] = t.panel[v]
      /\ y \notin Staying(t) \cap Wrappers
      /\ x \in Staying(t) \cap Wrappers => y \in Staying(u) \cap Wrappers /\ u.panel[y] = t.panel[x]
  BY DEF Kept
<1>2. A \ {x} \subseteq B /\ y \notin A /\ (x \in A => y \in B)
  BY <1>1
<1>3. A \subseteq Wrappers /\ B \subseteq Wrappers /\ IsFiniteSet(Wrappers)
  BY TreeAssumption
<1>. HIDE DEF A, B
<1>4. IsFiniteSet(A) /\ IsFiniteSet(B)
  BY <1>3, FS_Subset
<1>5. Cardinality(B) >= Cardinality(A)
  BY <1>2, <1>4, AsMany
<1>. QED
  BY <1>5 DEF Held, A, B

LEMMA StayingIs ==
    ASSUME NEW t, NEW v
    PROVE  v \in Staying(t) <=> v \in InTree(t) /\ \A d \in ToSet(t.doomed) : v \notin Below(t, d)
BY DEF Staying

LEMMA BelowIsAlive ==
    ASSUME NEW t, Structure(t), NEW x \in t.alive
    PROVE  Below(t, x) \subseteq t.alive
<1>1. \A l \in t.alive \cap Layouts : Widgets(t, l) \subseteq t.alive
  BY DEF Structure
<1>. QED
  BY <1>1, BelowIsLeast

LEMMA DestroyKeeps ==
    ASSUME NEW t, NEW out, TreeInv(t, out), NEW x \in ToSet(t.doomed), NEW a, Without(t, x, a),
           InTree(a) = InTree(t) \ Below(t, x)
    PROVE  Kept(t, a, Root, Root)
<1>0. Structure(t) /\ Root \notin Wrappers
  BY TreeAssumption DEF TreeInv
<1>1. /\ \A m \in Layouts : Widgets(a, m) = IF m \in Below(t, x) THEN {} ELSE Widgets(t, m) \ {x}
      /\ \A w \in Wrappers \ Below(t, x) : a.panel[w] = t.panel[w]
      /\ ToSet(a.doomed) = ToSet(t.doomed) \ Below(t, x)
  BY DEF Without
<1>2. ASSUME NEW v \in Staying(t) \cap Wrappers PROVE v \in Staying(a) /\ a.panel[v] = t.panel[v]
  <2>1. v \in InTree(t) /\ (\A d \in ToSet(t.doomed) : v \notin Below(t, d)) /\ v \notin Below(t, x)
    BY <1>2, StayingIs
  <2>2. ASSUME NEW d \in ToSet(a.doomed) PROVE v \notin Below(a, d)
    <3>1. d \in ToSet(t.doomed) /\ d \notin Below(t, x)
      BY <1>1, <2>2
    <3>2. Below(a, d) = Below(t, d) \ Below(t, x)
      BY <1>0, <1>1, <3>1, BelowDestroyed
    <3>. QED
      BY <2>1, <3>1, <3>2
  <2>3. v \in InTree(a)
    BY <2>1
  <2>. QED
    BY <1>1, <1>2, <2>1, <2>2, <2>3, StayingIs
<1>. QED
  BY <1>0, <1>2 DEF Kept

LEMMA InsertKeeps ==
    ASSUME NEW t, Structure(t), NEW l \in Layouts, NEW w \in Wrappers \ t.alive, NEW p, NEW u,
           Inserts(t, l, w, p, u)
    PROVE  Kept(t, u, Root, Root)
<1>0. Root \notin Wrappers /\ w \notin Layouts /\ t \in TreeType /\ ToSet(t.doomed) \subseteq t.alive
  BY TreeAssumption DEF Structure
<1>1. /\ \A m \in Layouts : Widgets(u, m) = IF m = l THEN Widgets(t, l) \cup {w} ELSE Widgets(t, m)
      /\ u.doomed = t.doomed /\ u.panel = [t.panel EXCEPT ![w] = p]
  BY DEF Inserts
<1>2. \A y : Below(u, y) = Below(t, y) \cup (IF l \in Below(t, y) THEN {w} ELSE {})
  BY <1>0, <1>1, BelowInserted
<1>3. ASSUME NEW v \in Staying(t) \cap Wrappers PROVE v \in Staying(u) /\ u.panel[v] = t.panel[v]
  <2>1. v \in InTree(t) /\ \A d \in ToSet(t.doomed) : v \notin Below(t, d)
    BY <1>3, StayingIs
  <2>2. v # w
    BY <2>1, TreeIsAlive
  <2>3. v \in InTree(u) /\ \A d \in ToSet(u.doomed) : v \notin Below(u, d)
    BY <1>1, <1>2, <2>1, <2>2 DEF InTree
  <2>4. u.panel[v] = t.panel[v]
    BY <1>0, <1>1, <2>2, Fields
  <2>. QED
    BY <2>3, <2>4, StayingIs
<1>. QED
  BY <1>0, <1>3 DEF Kept

LEMMA MergeKeeps ==
    ASSUME NEW t, Structure(t), NEW l \in InTree(t) \cap Layouts, l # Root,
           Len(t.widgets[l]) = 1, Wrappers \ t.alive # {}
    PROVE  Kept(t, Merge(t, l), Remaining(t, l), InPlace(t, l))
<1>. DEFINE u == Merge(t, l)
            p == t.parentLayout[l]
            x == Remaining(t, l)
            y == InPlace(t, l)
<1>1. Structure(u) /\ Merges(t, l, p, x, y, u)
  BY Merged
<1>2. p = t.parentLayout[l] /\ x = Remaining(t, l) /\ y = InPlace(t, l)
  OBVIOUS
<1>. HIDE DEF u, p, x, y
<1>3. /\ p \in InTree(t) \cap Layouts /\ p \in t.alive
      /\ l \in Widgets(t, p) /\ l \in t.alive
      /\ Widgets(t, l) = {x} /\ x \in t.alive /\ x \in InTree(t) /\ x \in Layouts \cup Wrappers
      /\ p \notin Below(t, l) /\ p # l /\ x # l /\ x # p /\ x # Root
      /\ IF x \in Layouts THEN y = x ELSE x \in Wrappers /\ y \in Wrappers \ t.alive /\ y \notin Layouts
      /\ y \notin Widgets(t, p) /\ y # l
  BY <1>2, Mergeable
<1>4. /\ Widgets(u, p) = (Widgets(t, p) \ {l}) \cup {y}
      /\ Widgets(u, l) = {x} \ Layouts
      /\ \A k \in Layouts \ {l, p} : Widgets(u, k) = Widgets(t, k)
      /\ \A v \in Wrappers :
            u.panel[v] = IF v = x THEN Empty ELSE IF v = y THEN t.panel[x] ELSE t.panel[v]
      /\ ToSet(u.doomed) = ToSet(t.doomed) \cup {l}
  BY <1>1 DEF Merges
<1>5. \A m \in Layouts : m # l =>
          Below(u, m) = IF l \in Below(t, m) THEN (Below(t, m) \ {l, x}) \cup {y} ELSE Below(t, m)
  <2>1. /\ l \in Layouts /\ p \in Layouts /\ l \in Widgets(t, p) /\ Widgets(t, l) = {x}
        /\ p \notin Below(t, l) /\ x # l /\ IF x \in Layouts THEN y = x ELSE y \notin Layouts
        /\ Widgets(u, p) = (Widgets(t, p) \ {l}) \cup {y} /\ Widgets(u, l) \subseteq {x}
        /\ \A k \in Layouts \ {l, p} : Widgets(u, k) = Widgets(t, k)
    BY <1>3, <1>4
  <2>. QED
    BY <2>1, BelowMerged
<1>6. InTree(u) = (InTree(t) \ {l, x}) \cup {y}
  <2>1. l \in Below(t, Root) /\ Root \in Layouts /\ Root # l
    BY TreeAssumption DEF InTree
  <2>. QED
    BY <1>5, <2>1 DEF InTree
<1>7. Below(u, l) \subseteq {l} \cup ({x} \ Layouts)
  <2>. DEFINE S == {l} \cup ({x} \ Layouts)
  <2>1. l \in S /\ \A k \in S \cap Layouts : Widgets(u, k) \subseteq S
    BY <1>4
  <2>. HIDE DEF S
  <2>2. Below(u, l) \subseteq S
    BY <2>1, BelowIsLeast
  <2>. QED
    BY <2>2 DEF S
<1>8. \A d : d \notin Layouts => Below(u, d) = {d} /\ Below(t, d) = {d}
  BY BelowWrapper
<1>9. ToSet(t.doomed) \subseteq t.alive /\ InTree(t) \subseteq t.alive
  BY TreeIsAlive DEF Structure
<1>10. \A v \in Wrappers : v \notin Layouts
  BY TreeAssumption
<1>11. ASSUME NEW v \in (Staying(t) \cap Wrappers) \ {x}
       PROVE  v \in Staying(u) /\ u.panel[v] = t.panel[v]
  <2>1. v \in InTree(t) /\ (\A d \in ToSet(t.doomed) : v \notin Below(t, d)) /\ v \notin Layouts
    BY <1>10, <1>11, StayingIs
  <2>2. v # y /\ v # l /\ v # x /\ v \in Wrappers
    BY <1>3, <1>9, <1>11, <2>1
  <2>3. ASSUME NEW d \in ToSet(u.doomed) PROVE v \notin Below(u, d)
    <3>1. CASE d = l
      BY <1>7, <2>2, <3>1
    <3>2. CASE d # l /\ d \in Layouts
      <4>1. v \notin Below(t, d)
        BY <1>4, <2>1, <2>3, <3>2
      <4>. QED
        BY <1>5, <2>2, <3>2, <4>1
    <3>3. CASE d # l /\ d \notin Layouts
      BY <1>4, <1>8, <2>1, <2>3, <3>3
    <3>. QED
      BY <3>1, <3>2, <3>3
  <2>4. v \in InTree(u)
    BY <1>6, <2>1, <2>2
  <2>5. u.panel[v] = t.panel[v]
    BY <1>4, <2>2
  <2>. QED
    BY <2>3, <2>4, <2>5, StayingIs
<1>12. ASSUME x \in Staying(t) \cap Wrappers
       PROVE  y \in Staying(u) \cap Wrappers /\ u.panel[y] = t.panel[x]
  <2>1. x \notin Layouts /\ x \in Wrappers /\ \A d \in ToSet(t.doomed) : x \notin Below(t, d)
    BY <1>10, <1>12, StayingIs
  <2>2. y \in Wrappers \ t.alive /\ y \notin Layouts /\ y # x /\ y # l
    BY <1>3, <2>1
  <2>3. ASSUME NEW d \in ToSet(u.doomed) PROVE y \notin Below(u, d)
    <3>1. CASE d = l
      BY <1>7, <2>2, <3>1
    <3>2. CASE d # l /\ d \in Layouts
      <4>1. d \in ToSet(t.doomed) /\ d \in t.alive /\ x \notin Below(t, d)
        BY <1>4, <1>9, <2>1, <2>3, <3>2
      <4>2. l \notin Below(t, d)
        <5>1. l \in Below(t, d) => Widgets(t, l) \subseteq Below(t, d)
          BY BelowIsClosed
        <5>. QED
          BY <1>3, <4>1, <5>1
      <4>3. Below(u, d) = Below(t, d)
        BY <1>5, <3>2, <4>2
      <4>4. Below(t, d) \subseteq t.alive
        BY <4>1, BelowIsAlive
      <4>. QED
        BY <2>2, <4>3, <4>4
    <3>3. CASE d # l /\ d \notin Layouts
      <4>1. d \in t.alive
        BY <1>4, <1>9, <2>3, <3>3
      <4>. QED
        BY <1>8, <2>2, <3>3, <4>1
    <3>. QED
      BY <3>1, <3>2, <3>3
  <2>4. y \in InTree(u)
    BY <1>6
  <2>5. u.panel[y] = t.panel[x]
    BY <1>4, <2>2
  <2>. QED
    BY <2>2, <2>3, <2>4, <2>5, StayingIs
<1>13. y \notin Staying(t) \cap Wrappers
  BY <1>3, <1>9, <1>10, StayingIs
<1>14. Kept(t, u, x, y)
  BY <1>11, <1>12, <1>13 DEF Kept
<1>. QED
  BY <1>2, <1>14 DEF u

\* No deletion loses a panel that stays.
LEMMA DeletedKeeps ==
    ASSUME NEW t, NEW out, TreeInv(t, out), NEW x \in ToSet(t.doomed), NEW p
    PROVE  Held(Deleted(t, x), p) >= Held(t, p)
<1>. DEFINE a == Destroy(t, x)
            u == Deleted(t, x)
<1>1. /\ Structure(a) /\ Leftovers(a, out) /\ Without(t, x, a)
      /\ InTree(a) = InTree(t) \ Below(t, x)
      /\ \/ u = a
         \/ \E l \in a.alive \cap Layouts :
               /\ l \notin out
               /\ u = ChildRemoved(a, l)
               /\ l \in InTree(a) \ {Root} => Len(a.widgets[l]) >= 1
               /\ Wrappers \ a.alive # {}
  BY DeletedIs
<1>. HIDE DEF a, u
<1>2. Held(a, p) >= Held(t, p)
  <2>1. Kept(t, a, Root, Root)
    BY <1>1, DestroyKeeps
  <2>. QED
    BY <2>1, HeldStill
<1>3. ASSUME NEW l \in a.alive \cap Layouts, l \notin out, u = ChildRemoved(a, l),
             l \in InTree(a) \ {Root} => Len(a.widgets[l]) >= 1, Wrappers \ a.alive # {}
      PROVE  Held(u, p) >= Held(a, p)
  <2>1. CASE /\ ChildRemoved(a, l) = AddWidget(a, l, Empty)
             /\ Len(a.widgets[l]) + 1 \in 1..(Len(a.widgets[l]) + 1)
    <3>. DEFINE w == New(a, Wrappers)
    <3>1. w \in Wrappers \ a.alive /\ Inserts(a, l, w, Empty, u)
      BY <1>1, <1>3, <2>1, WidgetInserted DEF AddWidget
    <3>. HIDE DEF w
    <3>2. Kept(a, u, Root, Root)
      BY <1>1, <3>1, InsertKeeps
    <3>. QED
      BY <3>2, HeldStill
  <2>2. CASE /\ ChildRemoved(a, l) = Merge(a, l)
             /\ l \in InTree(a) \cap Layouts /\ l # Root /\ Len(a.widgets[l]) = 1
    <3>1. Kept(a, Merge(a, l), Remaining(a, l), InPlace(a, l))
      BY <1>1, <1>3, <2>2, MergeKeeps
    <3>2. Held(Merge(a, l), p) >= Held(a, p)
      BY <3>1, HeldStill
    <3>. QED
      BY <1>3, <2>2, <3>2
  <2>3. CASE ChildRemoved(a, l) = a
    <3>1. Held(a, p) \in Nat
      BY HeldIsNumber
    <3>. QED
      BY <1>3, <2>3, <3>1
  <2>. QED
    BY <1>1, <1>3, <2>1, <2>2, <2>3, ChildRemovedIs
<1>4. Held(a, p) \in Nat /\ Held(t, p) \in Nat /\ Held(u, p) \in Nat
  BY HeldIsNumber
<1>5. u = a \/ Held(u, p) >= Held(a, p)
  BY <1>1, <1>3
<1>6. Held(u, p) >= Held(t, p)
  BY <1>2, <1>4, <1>5
<1>. QED
  BY <1>6 DEF u

LEMMA SplitNextToKeeps ==
    ASSUME NEW t, NEW out, TreeInv(t, out), NEW w \in InTree(t) \cap Wrappers, Wrappers \ t.alive # {}, NEW p
    PROVE  Held(SplitNextTo(t, w), p) >= Held(t, p)
<1>. DEFINE l == t.splitBy[w]
            i == PositionIn(t.widgets[l], w) + 1
            v == New(t, Wrappers)
            u == InsertWidget(t, l, i, Empty)
<1>1. l \in t.alive \cap Layouts /\ i \in 1..(Len(t.widgets[l]) + 1)
  BY SplitNextToInv
<1>2. u = InsertWidget(t, l, i, Empty) /\ v = New(t, Wrappers) /\ Structure(t) /\ Empty \in Panels \cup {Empty}
  BY DEF TreeInv
<1>3. u = SplitNextTo(t, w)
  BY DEF SplitNextTo
<1>. HIDE DEF l, i, v, u
<1>4. v \in Wrappers \ t.alive /\ Inserts(t, l, v, Empty, u)
  BY <1>1, <1>2, WidgetInserted
<1>5. Kept(t, u, Root, Root)
  BY <1>1, <1>2, <1>4, InsertKeeps
<1>. QED
  BY <1>3, <1>5, HeldStill

LEMMA SplitInPlaceKeeps ==
    ASSUME NEW t, NEW out, TreeInv(t, out), NEW w \in InTree(t) \cap Wrappers, NEW o \in Orientations,
           Layouts \ t.alive # {}, Wrappers \ t.alive # {},
           \A v : (Wrappers \ t.alive) \ {v} # {}, NEW p
    PROVE  Held(SplitInPlace(t, w, o), p) >= Held(t, p)
<1>. DEFINE n == New(t, Layouts)
            l == t.splitBy[w]
            a == Placed(t, w, o)
            b == AddWidget(a, n, t.panel[w])
            c == AddWidget(b, n, Empty)
            w1 == New(a, Wrappers)
            w2 == New(b, Wrappers)
            u == DeleteLater(c, w)
<1>1. /\ n \in Layouts \ t.alive /\ Structure(a) /\ Replaces(t, l, w, n, a)
      /\ l \in InTree(t) \cap Layouts /\ w \in Widgets(t, l)
      /\ w1 \in Wrappers \ t.alive /\ w2 \in Wrappers \ b.alive
      /\ Structure(b) /\ Inserts(a, n, w1, t.panel[w], b)
      /\ Structure(c) /\ Inserts(b, n, w2, Empty, c)
  <2>1. n = New(t, Layouts) /\ a = Placed(t, w, o) /\ b = AddWidget(a, n, t.panel[w]) /\ c = AddWidget(b, n, Empty)
    OBVIOUS
  <2>. HIDE DEF n, a, b, c
  <2>. QED
    BY <2>1, SplitInPlaceSteps
<1>2. u = SplitInPlace(t, w, o)
  BY DEF SplitInPlace
<1>. HIDE DEF n, l, a, b, c, w1, w2, u
<1>3. /\ Structure(t) /\ t \in TreeType /\ w \notin Layouts /\ n \notin Wrappers /\ w # Root /\ Root # n
      /\ Root \in Layouts /\ \A v \in Wrappers : v \notin Layouts
      /\ ToSet(t.doomed) \subseteq t.alive /\ InTree(t) \subseteq t.alive
  <2>1. Structure(t)
    BY DEF TreeInv
  <2>2. InTree(t) \subseteq t.alive
    BY <2>1, TreeIsAlive
  <2>. QED
    BY <1>1, <2>1, <2>2, TreeAssumption DEF Structure
<1>4. \A m \in Layouts \ {n} :
         Below(a, m) = IF w \in Below(t, m) THEN (Below(t, m) \ {w}) \cup {n} ELSE Below(t, m)
  <2>1. l \in InTree(t) \cap Layouts /\ n \in Layouts \ t.alive
    BY <1>1
  <2>2. w \in Widgets(t, l) /\ Structure(a) /\ Replaces(t, l, w, n, a)
    BY <1>1
  <2>3. OnlySwapped(t, a, w, n)
    BY <2>1, <2>2, PlacedRest
  <2>. QED
    BY <2>3 DEF OnlySwapped
<1>5. /\ a.alive = t.alive \cup {n} /\ a.doomed = t.doomed
      /\ \A v \in Wrappers : a.panel[v] = IF v = w THEN Empty ELSE t.panel[v]
  BY <1>1 DEF Replaces
<1>6. /\ b.alive = a.alive \cup {w1} /\ b.doomed = a.doomed /\ b.panel = [a.panel EXCEPT ![w1] = t.panel[w]]
      /\ \A m \in Layouts : Widgets(b, m) = IF m = n THEN Widgets(a, n) \cup {w1} ELSE Widgets(a, m)
  BY <1>1 DEF Inserts
<1>7. /\ c.alive = b.alive \cup {w2} /\ c.doomed = b.doomed /\ c.panel = [b.panel EXCEPT ![w2] = Empty]
      /\ \A m \in Layouts : Widgets(c, m) = IF m = n THEN Widgets(b, n) \cup {w2} ELSE Widgets(b, m)
  BY <1>1 DEF Inserts
<1>8. /\ w1 \in Wrappers /\ w1 \notin t.alive /\ w1 \notin Layouts /\ n \in Layouts
      /\ w2 \in Wrappers /\ w2 \notin t.alive /\ w2 # w1 /\ w2 \notin Layouts
  BY <1>1, <1>3, <1>5, <1>6
<1>9. \A y : Below(b, y) = Below(a, y) \cup (IF n \in Below(a, y) THEN {w1} ELSE {})
  <2>1. /\ n \in Layouts /\ w1 \notin Layouts
        /\ \A m \in Layouts : Widgets(b, m) = IF m = n THEN Widgets(a, n) \cup {w1} ELSE Widgets(a, m)
    BY <1>6, <1>8
  <2>. QED
    BY <2>1, BelowInserted
<1>10. \A y : Below(c, y) = Below(b, y) \cup (IF n \in Below(b, y) THEN {w2} ELSE {})
  <2>1. /\ n \in Layouts /\ w2 \notin Layouts
        /\ \A m \in Layouts : Widgets(c, m) = IF m = n THEN Widgets(b, n) \cup {w2} ELSE Widgets(b, m)
    BY <1>7, <1>8
  <2>. QED
    BY <2>1, BelowInserted
<1>11. \A v \in Wrappers : c.panel[v] = IF v = w2 THEN Empty ELSE IF v = w1 THEN t.panel[w]
                                        ELSE IF v = w THEN Empty ELSE t.panel[v]
  <2>1. a.panel \in [Wrappers -> Panels \cup {Empty}]
    BY <1>1, Fields DEF Structure
  <2>. QED
    BY <1>5, <1>6, <1>7, <1>8, <2>1
<1>12. /\ ToSet(u.doomed) = ToSet(t.doomed) \cup {w} /\ u.panel = c.panel
       /\ \A y : Below(u, y) = Below(c, y)
  <2>1. w \in c.alive
    BY <1>3, <1>5, <1>6, <1>7
  <2>2. /\ u.alive = c.alive /\ u.widgets = c.widgets /\ u.parentLayout = c.parentLayout
        /\ u.panel = c.panel
        /\ ToSet(u.doomed) = ToSet(c.doomed) \cup {w}
    <3>1. Structure(c) /\ w # Root
      BY <1>1, <1>3
    <3>2. u = DeleteLater(c, w)
      BY DEF u
    <3>. QED
      BY <2>1, <3>1, <3>2, DoomedLater
  <2>3. \A m \in Layouts : Widgets(u, m) = Widgets(c, m)
    BY <2>2 DEF Widgets
  <2>4. \A y : Below(u, y) = Below(c, y)
    BY <2>3, BelowSame
  <2>. QED
    BY <1>5, <1>6, <1>7, <2>2, <2>4
<1>13. \A d : d \notin Layouts => Below(u, d) = {d} /\ Below(t, d) = {d}
  BY BelowWrapper
<1>14. w \in Below(t, Root)
  BY DEF InTree
<1>15. n \in Below(a, Root) /\ Below(t, Root) \ {w} \subseteq Below(a, Root)
  BY <1>1, <1>3, <1>4, <1>14
<1>16. w1 \in InTree(u) /\ InTree(t) \ {w} \subseteq InTree(u)
  BY <1>9, <1>10, <1>12, <1>15 DEF InTree
\* What is below something doomed before: n and its widgets, where w was.
<1>17. \A d \in ToSet(t.doomed) \cap Layouts :
          \A v \in Below(u, d) : v \in Below(t, d) \ {w} \/ (v \in {n, w1, w2} /\ w \in Below(t, d))
  <2>1. SUFFICES ASSUME NEW d \in ToSet(t.doomed) \cap Layouts, NEW v \in Below(u, d)
                 PROVE  v \in Below(t, d) \ {w} \/ (v \in {n, w1, w2} /\ w \in Below(t, d))
    OBVIOUS
  <2>2. d \in Layouts \ {n} /\ d \in t.alive
    BY <1>1, <1>3, <2>1
  <2>3. Below(t, d) \subseteq t.alive
    BY <1>3, <2>2, BelowIsAlive
  <2>4. n \notin Below(t, d)
    BY <1>1, <2>3
  <2>. QED
    BY <1>4, <1>9, <1>10, <1>12, <2>1, <2>2, <2>4
<1>18. ASSUME NEW v \in (Staying(t) \cap Wrappers) \ {w}
       PROVE  v \in Staying(u) /\ u.panel[v] = t.panel[v]
  <2>1. v \in InTree(t) /\ (\A d \in ToSet(t.doomed) : v \notin Below(t, d)) /\ v \in Wrappers /\ v # w
    BY <1>18, StayingIs
  <2>2. v \in t.alive /\ v # w1 /\ v # w2 /\ v # n
    BY <1>3, <1>8, <2>1
  <2>3. ASSUME NEW d \in ToSet(u.doomed) PROVE v \notin Below(u, d)
    <3>1. CASE d = w
      BY <1>3, <1>13, <2>1, <3>1
    <3>2. CASE d # w /\ d \in Layouts
      BY <1>12, <1>17, <2>1, <2>2, <2>3, <3>2
    <3>3. CASE d # w /\ d \notin Layouts
      BY <1>12, <1>13, <2>1, <2>3, <3>3
    <3>. QED
      BY <3>1, <3>2, <3>3
  <2>4. u.panel[v] = t.panel[v]
    BY <1>11, <1>12, <2>1, <2>2
  <2>. QED
    BY <1>16, <2>1, <2>3, <2>4, StayingIs
<1>19. ASSUME w \in Staying(t) \cap Wrappers
       PROVE  w1 \in Staying(u) \cap Wrappers /\ u.panel[w1] = t.panel[w]
  <2>1. \A d \in ToSet(t.doomed) : w \notin Below(t, d)
    BY <1>19, StayingIs
  <2>2. ASSUME NEW d \in ToSet(u.doomed) PROVE w1 \notin Below(u, d)
    <3>1. CASE d = w
      <4>1. w \in t.alive
        BY <1>3
      <4>. QED
        BY <1>3, <1>8, <1>13, <3>1, <4>1
    <3>2. CASE d # w /\ d \in Layouts
      <4>1. d \in ToSet(t.doomed) /\ d \in t.alive
        BY <1>3, <1>12, <2>2, <3>2
      <4>2. Below(t, d) \subseteq t.alive
        BY <1>3, <4>1, BelowIsAlive
      <4>. QED
        BY <1>8, <1>17, <2>1, <3>2, <4>1, <4>2
    <3>3. CASE d # w /\ d \notin Layouts
      <4>1. d \in t.alive
        BY <1>3, <1>12, <2>2, <3>3
      <4>. QED
        BY <1>8, <1>13, <3>3, <4>1
    <3>. QED
      BY <3>1, <3>2, <3>3
  <2>3. u.panel[w1] = t.panel[w]
    BY <1>8, <1>11, <1>12
  <2>. QED
    BY <1>8, <1>16, <2>2, <2>3, StayingIs
<1>20. Kept(t, u, w, w1)
  <2>1. w1 \notin Staying(t)
    BY <1>3, <1>8, StayingIs
  <2>. QED
    BY <1>18, <1>19, <2>1 DEF Kept
<1>. QED
  BY <1>2, <1>20, HeldStill

\* Every panel that stays is still there after a split and after a deletion, with all
\* the merging that one leads to: its wrapper is not deleted before it is in another.
THEOREM PanelsAlwaysSurvive == TreeSpec => PanelsSurvive
<1>1. ASSUME TreeInv(tree, stranded), DeleteNext, NEW p PROVE Held(tree', p) >= Held(tree, p)
  <2>1. PICK x \in ToSet(tree.doomed) : tree' = Deleted(tree, x)
    BY <1>1, DeleteNextIs DEF TreeInv, Structure
  <2>2. Held(Deleted(tree, x), p) >= Held(tree, p)
    BY <1>1, DeletedKeeps
  <2>. QED
    BY <2>1, <2>2
<1>2. ASSUME TreeInv(tree, stranded), NEW w \in Shown, NEW o \in Orientations, Split(w, o), NEW p
      PROVE  Held(tree', p) >= Held(tree, p)
  <2>1. /\ w \in InTree(tree) \cap Wrappers
        /\ Layouts \ tree.alive # {} /\ Wrappers \ tree.alive # {}
        /\ \A v : (Wrappers \ tree.alive) \ {v} # {}
        /\ tree' = SplitNextTo(tree, w) \/ tree' = SplitInPlace(tree, w, o)
    BY <1>2, SplitIs
  <2>2. Held(SplitNextTo(tree, w), p) >= Held(tree, p)
    BY <1>2, <2>1, SplitNextToKeeps
  <2>3. Held(SplitInPlace(tree, w, o), p) >= Held(tree, p)
    BY <1>2, <2>1, SplitInPlaceKeeps
  <2>. QED
    BY <2>1, <2>2, <2>3
<1>3. TreeInv(tree, stranded) =>
        [DeleteNext \/ (\E w \in Shown, o \in Orientations : Split(w, o))
            => \A p \in Panels : Held(tree', p) >= Held(tree, p)]_tree
  BY <1>1, <1>2
<1>. QED
  BY <1>3, TreeIsInvariant, PTL DEF PanelsSurvive

=============================================================================
