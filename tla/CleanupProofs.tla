---------------------------- MODULE CleanupProofs ----------------------------
(***************************************************************************)
(* What is taught and saved is what the next engine knows: a line of the   *)
(* dictionary is read back as the lesson it was written for.               *)
(***************************************************************************)
EXTENDS Cleanup, FoldFacts

\* The provers do not know that a string that is written out is in STRING.
Chars == STRING \union Marks
Glyph == [w : Chars, cap : BOOLEAN]

----------------------------------------------------------------------------
(* Trimming.                                                               *)

Trimmed(t, drop) == Len(t) >= 1 /\ t[1].w \notin drop /\ t[Len(t)].w \notin drop

LEMMA TrimIs ==
    ASSUME NEW T, NEW s \in Seq(T), NEW drop, NEW a \in 1..Len(s), NEW b \in 1..Len(s),
           s[a].w \notin drop, s[b].w \notin drop,
           \A i \in 1..Len(s) : s[i].w \notin drop => a <= i /\ i <= b
    PROVE  Trim(s, drop) = SubSeq(s, a, b)
<1> DEFINE keep == {i \in DOMAIN s : s[i].w \notin drop}
<1>1. /\ a \in keep /\ b \in keep /\ keep \subseteq 1..b /\ keep \subseteq 1..Len(s)
      /\ \A i \in keep : a <= i
  OBVIOUS
<1>2. b \in Nat /\ Len(s) \in Nat
  OBVIOUS
<1>3. Trim(s, drop) = IF keep = {} THEN <<>> ELSE SubSeq(s, Min(keep), Max(keep))
  BY DEF Trim
<1> HIDE DEF keep
<1>4. Min(keep) = a /\ Max(keep) = b /\ keep # {}
  BY <1>1, <1>2, SmallestIs, LargestIs
<1> QED
  BY <1>3, <1>4

\* What is already trimmed stays as it is.
LEMMA TrimAgain ==
    ASSUME NEW T, NEW s \in Seq(T), NEW drop, Trimmed(s, drop)
    PROVE  Trim(s, drop) = s
<1>1. Len(s) \in Nat /\ 1 \in 1..Len(s) /\ Len(s) \in 1..Len(s) /\ SubSeq(s, 1, Len(s)) = s
  BY DEF Trimmed
<1>2. \A i \in 1..Len(s) : 1 <= i /\ i <= Len(s)
  OBVIOUS
<1>3. Trim(s, drop) = SubSeq(s, 1, Len(s))
  BY <1>1, <1>2, TrimIs DEF Trimmed
<1> QED
  BY <1>1, <1>3

LEMMA TrimTyped ==
    ASSUME NEW T, NEW s \in Seq(T), NEW drop
    PROVE  /\ Trim(s, drop) \in Seq(T)
           /\ Trim(s, drop) = <<>> \/ Trimmed(Trim(s, drop), drop)
           /\ \A i \in 1..Len(Trim(s, drop)) : \E j \in 1..Len(s) : Trim(s, drop)[i] = s[j]
<1> DEFINE keep == {i \in DOMAIN s : s[i].w \notin drop}
           t == SubSeq(s, Min(keep), Max(keep))
<1>1. keep \subseteq 1..Len(s) /\ Len(s) \in Nat
  OBVIOUS
<1>2. Trim(s, drop) = IF keep = {} THEN <<>> ELSE t
  BY DEF Trim
<1>3. CASE keep = {}
  <2>1. <<>> \in Seq(T) /\ Len(<<>>) = 0
    OBVIOUS
  <2> QED
    BY <1>2, <1>3, <2>1
<1>4. CASE keep # {}
  <2>1. Min(keep) \in keep /\ Max(keep) \in keep /\ Min(keep) <= Max(keep)
    <3> HIDE DEF keep
    <3> QED
      BY <1>1, <1>4, SmallestIn, LargestIn
  <2> DEFINE a == Min(keep)
             b == Max(keep)
  <2>2. a \in 1..Len(s) /\ b \in 1..Len(s) /\ a <= b /\ s[a].w \notin drop /\ s[b].w \notin drop
    BY <2>1
  <2> HIDE DEF keep, a, b
  <2>3. /\ SubSeq(s, a, b) \in Seq(T) /\ Len(SubSeq(s, a, b)) = b - a + 1
        /\ \A i \in 1..(b - a + 1) : SubSeq(s, a, b)[i] = s[a + i - 1] /\ a + i - 1 \in 1..Len(s)
    BY <1>1, <2>2
  <2>4. t = SubSeq(s, a, b) /\ Trim(s, drop) = t
    BY <1>2, <1>4 DEF a, b
  <2> HIDE DEF t
  <2>5. Len(t) >= 1 /\ t[1] = s[a] /\ t[Len(t)] = s[b]
    <3>1. /\ 1 \in 1..(b - a + 1) /\ b - a + 1 \in 1..(b - a + 1) /\ a + 1 - 1 = a
          /\ a + (b - a + 1) - 1 = b
      BY <2>2
    <3> QED
      BY <2>3, <2>4, <3>1
  <2>6. \A i \in 1..Len(t) : \E j \in 1..Len(s) : t[i] = s[j]
    BY <2>3, <2>4
  <2> QED
    BY <2>2, <2>3, <2>4, <2>5, <2>6 DEF Trimmed
<1> QED
  BY <1>3, <1>4

----------------------------------------------------------------------------
(* The two sides of a mapping.                                             *)

FirstArrow(s) == SelectInSeq(s, LAMBDA p : p = Arrow)

LEMMA FirstArrowIs ==
    ASSUME NEW T, NEW s \in Seq(T), HasArrow(s)
    PROVE  /\ FirstArrow(s) \in 1..Len(s) /\ s[FirstArrow(s)] = Arrow
           /\ \A i \in 1..(FirstArrow(s) - 1) : s[i] # Arrow
           /\ \A k \in 1..Len(s) : s[k] = Arrow /\ (\A i \in 1..(k - 1) : s[i] # Arrow) => FirstArrow(s) = k
<1> DEFINE I == {i \in 1..Len(s) : s[i] = Arrow}
<1>1. FirstArrow(s) = IF I # {} THEN Min(I) ELSE 0
  BY DEF FirstArrow, SelectInSeq
<1>2. I # {} /\ I \subseteq 1..Len(s) /\ Len(s) \in Nat
  BY DEF HasArrow, ToSet
<1>3. Min(I) \in I /\ \A y \in I : Min(I) <= y
  <2> HIDE DEF I
  <2> QED
    BY <1>2, SmallestIn
<1>4. FirstArrow(s) = Min(I)
  BY <1>1, <1>2
<1> DEFINE m == Min(I)
<1>5. m \in 1..Len(s) /\ s[m] = Arrow /\ \A i \in 1..Len(s) : s[i] = Arrow => m <= i
  BY <1>3
<1> HIDE DEF m
<1>6. \A i \in 1..(m - 1) : s[i] # Arrow
  BY <1>2, <1>5
<1>7. ASSUME NEW k \in 1..Len(s), s[k] = Arrow, \A i \in 1..(k - 1) : s[i] # Arrow PROVE m = k
  <2>1. m <= k /\ m \in Nat /\ k \in Nat /\ m >= 1
    BY <1>5, <1>7
  <2>2. ~(m < k)
    <3>1. m < k => m \in 1..(k - 1)
      BY <2>1
    <3> QED
      BY <1>5, <1>7, <3>1
  <2> QED
    BY <2>1, <2>2
<1> QED
  BY <1>4, <1>5, <1>6, <1>7 DEF m

LEMMA SidesTyped ==
    ASSUME NEW T, NEW s \in Seq(T), HasArrow(s)
    PROVE  /\ Before(s) \in Seq(T) /\ After(s) \in Seq(T)
           /\ Before(s) = <<>> \/ Trimmed(Before(s), Spaces)
           /\ After(s) = <<>> \/ Trimmed(After(s), Spaces)
<1> DEFINE k == FirstArrow(s)
           b == SubSeq(s, 1, k - 1)
           a == SubSeq(s, k + 1, Len(s))
<1>1. k \in 1..Len(s) /\ Len(s) \in Nat
  BY FirstArrowIs
<1>2. Before(s) = Trim(b, Spaces) /\ After(s) = Trim(a, Spaces)
  BY DEF Before, After, FirstArrow
<1> HIDE DEF k
<1>3. b \in Seq(T) /\ a \in Seq(T)
  BY <1>1
<1> HIDE DEF a, b
<1> QED
  BY <1>2, <1>3, TrimTyped

LEMMA Signs == /\ Space \in Glyph /\ Arrow \in Glyph /\ Space # Arrow /\ Space.w \in Spaces
               /\ Arrow.w \notin Spaces
<1>1. {" ", "=>"} \subseteq Chars
  BY DEF Chars, Marks
<1> QED
  BY <1>1 DEF Glyph, Space, Arrow, P, Spaces

\* Three signs between two sequences.
LEMMA Between ==
    ASSUME NEW T, NEW a, NEW c, NEW b, NEW n, NEW m, NEW v, NEW u,
           IsJoin(v, a, n, c, 3, T), IsJoin(u, v, n + 3, b, m, T)
    PROVE  /\ n \in Nat /\ m \in Nat /\ u \in Seq(T) /\ Len(u) = n + 3 + m
           /\ \A i \in 1..n : u[i] = a[i]
           /\ u[n + 1] = c[1] /\ u[n + 2] = c[2] /\ u[n + 3] = c[3]
           /\ \A i \in 1..m : u[n + 3 + i] = b[i]
<1>1. IsParts(v, a, n, c, 3, T) /\ IsParts(u, v, n + 3, b, m, T)
  BY JoinParts
<1>2. /\ n \in Nat /\ v \in Seq(T) /\ Len(v) = n + 3
      /\ \A i \in 1..n : v[i] = a[i]
      /\ \A i \in 1..3 : v[n + i] = c[i]
  BY <1>1 DEF IsParts
<1>3. /\ m \in Nat /\ u \in Seq(T) /\ Len(u) = n + 3 + m
      /\ \A i \in 1..(n + 3) : u[i] = v[i]
      /\ \A i \in 1..m : u[n + 3 + i] = b[i]
  BY <1>1 DEF IsParts
<1>4. /\ \A i \in 1..n : i \in 1..(n + 3)
      /\ n + 1 \in 1..(n + 3) /\ n + 2 \in 1..(n + 3) /\ n + 3 \in 1..(n + 3)
      /\ 1 \in 1..3 /\ 2 \in 1..3 /\ 3 \in 1..3
  BY <1>2
<1> QED
  BY <1>2, <1>3, <1>4
\* The parts of a line that was written.
IsLine(u, a, n, b, m) ==
    /\ a \in Seq(Glyph) /\ Len(a) = n /\ n \in Nat /\ Trimmed(a, Spaces) /\ Arrow \notin ToSet(a)
    /\ b \in Seq(Glyph) /\ Len(b) = m /\ m \in Nat /\ Trimmed(b, Spaces)
    /\ u \in Seq(Glyph) /\ Len(u) = n + 3 + m
    /\ \A i \in 1..n : u[i] = a[i]
    /\ u[n + 1] = Space /\ u[n + 2] = Arrow /\ u[n + 3] = Space
    /\ \A i \in 1..m : u[n + 3 + i] = b[i]

LEMMA LineWritten ==
    ASSUME NEW a \in Seq(Glyph), NEW b \in Seq(Glyph), Trimmed(a, Spaces), Trimmed(b, Spaces),
           Arrow \notin ToSet(a)
    PROVE  IsLine(a \o <<Space, Arrow, Space>> \o b, a, Len(a), b, Len(b))
<1> DEFINE c == <<Space, Arrow, Space>>
           v == a \o c
           u == v \o b
           n == Len(a)
           m == Len(b)
<1>1. c \in Seq(Glyph) /\ Len(c) = 3 /\ c[1] = Space /\ c[2] = Arrow /\ c[3] = Space
  <2>1. \A T : \A x, y \in T : <<x, y, x>> \in Seq(T)
    OBVIOUS
  <2> QED
    BY <2>1, Signs
<1> HIDE DEF c
<1>2. IsJoin(v, a, n, c, 3, Glyph)
  BY <1>1 DEF IsJoin
<1> HIDE DEF v
<1>3. v \in Seq(Glyph) /\ Len(v) = n + 3
  <2> HIDE DEF n
  <2> QED
    BY <1>2, JoinParts DEF IsParts
<1>4. IsJoin(u, v, n + 3, b, m, Glyph)
  BY <1>3, Zenon DEF IsJoin
<1> HIDE DEF u, n, m
<1>5. /\ n \in Nat /\ m \in Nat /\ u \in Seq(Glyph) /\ Len(u) = n + 3 + m
      /\ \A i \in 1..n : u[i] = a[i]
      /\ u[n + 1] = c[1] /\ u[n + 2] = c[2] /\ u[n + 3] = c[3]
      /\ \A i \in 1..m : u[n + 3 + i] = b[i]
  BY <1>2, <1>4, Between
<1>6. IsLine(u, a, n, b, m)
  BY <1>1, <1>5 DEF IsLine, n, m
<1> QED
  BY <1>6 DEF u, v, c, n, m

\* A line that was written is read as it was written.
LEMMA SidesOfLine ==
    ASSUME NEW a, NEW b, NEW u, NEW n, NEW m, IsLine(u, a, n, b, m)
    PROVE  /\ u \in Seq(Glyph) /\ Len(u) # 0 /\ u[1] = a[1]
           /\ Trim(u, Spaces) = u /\ HasArrow(u) /\ Before(u) = a /\ After(u) = b
<1> USE DEF IsLine
<1>0. a \in Seq(Glyph) /\ b \in Seq(Glyph) /\ Len(a) = n /\ Len(b) = m /\ Arrow \notin ToSet(a)
  OBVIOUS
<1>1. /\ n \in Nat /\ m \in Nat /\ n >= 1 /\ m >= 1
      /\ a[1].w \notin Spaces /\ a[n].w \notin Spaces /\ b[1].w \notin Spaces /\ b[m].w \notin Spaces
  BY DEF Trimmed
<1>2. /\ u \in Seq(Glyph) /\ Len(u) = n + 3 + m
      /\ \A i \in 1..n : u[i] = a[i]
      /\ u[n + 1] = Space /\ u[n + 2] = Arrow /\ u[n + 3] = Space
      /\ \A i \in 1..m : u[n + 3 + i] = b[i]
  OBVIOUS
<1> HIDE DEF IsLine
<1>3. Trim(u, Spaces) = u
  <2>1. 1 \in 1..n /\ m \in 1..m /\ Len(u) >= 1
    BY <1>1, <1>2
  <2>2. u[1] = a[1] /\ u[n + 3 + m] = b[m]
    BY <1>2, <2>1, Zenon
  <2>3. Trimmed(u, Spaces)
    BY <1>1, <1>2, <2>1, <2>2 DEF Trimmed
  <2> QED
    BY <1>2, <2>3, TrimAgain
<1>4. HasArrow(u)
  <2>1. n + 2 \in DOMAIN u /\ u[n + 2] = Arrow
    BY <1>1, <1>2
  <2> QED
    BY <2>1, Zenon DEF HasArrow, ToSet
<1>5. FirstArrow(u) = n + 2
  <2>1. n + 2 \in 1..Len(u) /\ (n + 2) - 1 = n + 1
    BY <1>1, <1>2
  <2>2. \A i \in 1..(n + 1) : u[i] # Arrow
    <3>1. \A i \in 1..n : a[i] # Arrow
      BY <1>0 DEF ToSet
    <3>2. \A i \in 1..(n + 1) : i \in 1..n \/ i = n + 1
      BY <1>1
    <3> QED
      BY <1>2, <3>1, <3>2, Signs
  <2> DEFINE k == n + 2
  <2>3. k \in 1..Len(u) /\ u[k] = Arrow /\ \A i \in 1..(k - 1) : u[i] # Arrow
    BY <1>2, <2>1, <2>2
  <2> HIDE DEF k
  <2>4. FirstArrow(u) = k
    BY <1>2, <1>4, <2>3, FirstArrowIs
  <2> QED
    BY <2>4 DEF k
<1>6. Before(u) = a
  <2> DEFINE s == SubSeq(u, 1, n + 1)
  <2>1. IsSlice(s, u, 1, n + 1, Glyph)
    BY <1>1, <1>2 DEF IsSlice
  <2>2. Before(u) = Trim(s, Spaces)
    <3>1. (n + 2) - 1 = n + 1
      BY <1>1
    <3> QED
      BY <1>5, <3>1 DEF Before, FirstArrow
  <2> HIDE DEF s
  <2>3. /\ s \in Seq(Glyph) /\ Len(s) = n + 1 /\ s[n + 1] = Space
        /\ \A i \in 1..n : s[i] = a[i]
    <3>1. s \in Seq(Glyph) /\ Len(s) = n + 1 /\ \A i \in 1..(n + 1) : s[i] = u[1 + i - 1]
      BY <2>1, SliceParts DEF IsStretch
    <3>2. /\ \A i \in 1..n : i \in 1..(n + 1) /\ 1 + i - 1 = i
          /\ n + 1 \in 1..(n + 1) /\ 1 + (n + 1) - 1 = n + 1
      BY <1>1
    <3> QED
      BY <1>2, <3>1, <3>2
  <2>4. Trim(s, Spaces) = SubSeq(s, 1, n)
    <3>1. 1 \in 1..n /\ n \in 1..n
      BY <1>1
    <3>2. 1 \in 1..Len(s) /\ n \in 1..Len(s) /\ s[1] = a[1] /\ s[n] = a[n]
      BY <1>1, <2>3, <3>1
    <3>3. \A i \in 1..Len(s) : s[i].w \notin Spaces => 1 <= i /\ i <= n
      <4>1. \A i \in 1..Len(s) : 1 <= i /\ (i <= n \/ i = n + 1)
        BY <1>1, <2>3
      <4> QED
        BY <2>3, <4>1, Signs
    <3> QED
      BY <1>1, <2>3, <3>2, <3>3, TrimIs
  <2>5. SubSeq(s, 1, n) = a
    <3> DEFINE q == SubSeq(s, 1, n)
    <3>1. 1 + n - 1 = n /\ 1 + n <= Len(s) + 1
      BY <1>1, <2>3
    <3>2. IsSlice(q, s, 1, n, Glyph)
      BY <1>1, <2>3, <3>1 DEF IsSlice
    <3> HIDE DEF q
    <3>3. q \in Seq(Glyph) /\ Len(q) = n /\ \A i \in 1..n : q[i] = s[1 + i - 1]
      BY <3>2, SliceParts DEF IsStretch
    <3>4. \A i \in 1..n : 1 + i - 1 = i
      BY <1>1
    <3>5. \A i \in 1..n : q[i] = a[i]
      BY <2>3, <3>3, <3>4
    <3>6. q = a
      BY <1>0, <3>3, <3>5, SeqEqual
    <3> QED
      BY <3>6 DEF q
  <2> QED
    BY <2>2, <2>4, <2>5
<1>7. After(u) = b
  <2> DEFINE s == SubSeq(u, n + 3, n + 3 + m)
  <2>1. IsSlice(s, u, n + 3, m + 1, Glyph)
    <3>1. /\ n + 3 \in Nat /\ m + 1 \in Nat /\ 1 <= n + 3 /\ n + 3 + (m + 1) <= Len(u) + 1
          /\ n + 3 + (m + 1) - 1 = n + 3 + m
      BY <1>1, <1>2
    <3> QED
      BY <1>2, <3>1, Zenon DEF IsSlice
  <2>2. After(u) = Trim(s, Spaces)
    <3>1. (n + 2) + 1 = n + 3
      BY <1>1
    <3> QED
      BY <1>2, <1>5, <3>1 DEF After, FirstArrow
  <2> HIDE DEF s
  <2>3. /\ s \in Seq(Glyph) /\ Len(s) = m + 1 /\ s[1] = Space
        /\ \A i \in 1..m : s[i + 1] = b[i]
    <3>1. /\ s \in Seq(Glyph) /\ Len(s) = m + 1
          /\ \A i \in 1..(m + 1) : s[i] = u[n + 3 + i - 1]
      BY <2>1, SliceParts DEF IsStretch
    <3>2. 1 \in 1..(m + 1) /\ n + 3 + 1 - 1 = n + 3
      BY <1>1
    <3>3. \A i \in 1..m : i + 1 \in 1..(m + 1) /\ n + 3 + (i + 1) - 1 = n + 3 + i
      BY <1>1
    <3>4. s[1] = Space
      BY <1>2, <3>1, <3>2
    <3> QED
      BY <1>2, <3>1, <3>3, <3>4
  <2>4. Trim(s, Spaces) = SubSeq(s, 2, m + 1)
    <3>1. 2 \in 1..Len(s) /\ m + 1 \in 1..Len(s) /\ s[2] = b[1] /\ s[m + 1] = b[m]
      <4>1. 1 \in 1..m /\ m \in 1..m /\ 1 + 1 = 2 /\ 2 \in 1..(m + 1) /\ m + 1 \in 1..(m + 1)
        BY <1>1
      <4>2. s[1 + 1] = b[1] /\ s[m + 1] = b[m]
        BY <2>3, <4>1
      <4> QED
        BY <2>3, <4>1, <4>2
    <3>2. \A i \in 1..Len(s) : s[i].w \notin Spaces => 2 <= i /\ i <= m + 1
      <4>1. \A i \in 1..Len(s) : i <= m + 1 /\ (2 <= i \/ i = 1)
        BY <1>1, <2>3
      <4> QED
        BY <2>3, <4>1, Signs
    <3> QED
      BY <1>1, <2>3, <3>1, <3>2, TrimIs
  <2>5. SubSeq(s, 2, m + 1) = b
    <3> DEFINE q == SubSeq(s, 2, m + 1)
    <3>1. IsSlice(q, s, 2, m, Glyph)
      <4>1. 2 + m - 1 = m + 1 /\ 2 + m <= Len(s) + 1 /\ 2 \in Nat /\ 1 <= 2
        BY <1>1, <2>3
      <4> QED
        BY <1>1, <2>3, <4>1, Zenon DEF IsSlice
    <3> HIDE DEF q
    <3>2. q \in Seq(Glyph) /\ Len(q) = m /\ \A i \in 1..m : q[i] = s[2 + i - 1]
      BY <3>1, SliceParts DEF IsStretch
    <3>3. \A i \in 1..m : 2 + i - 1 = i + 1
      BY <1>1
    <3>4. \A i \in 1..m : q[i] = b[i]
      BY <2>3, <3>2, <3>3
    <3>5. q = b
      BY <1>0, <3>2, <3>4, SeqEqual
    <3> QED
      BY <3>5 DEF q
  <2> QED
    BY <2>2, <2>4, <2>5
<1>8. Len(u) # 0 /\ u[1] = a[1]
  <2>1. 1 \in 1..n /\ n + 3 + m # 0
    BY <1>1
  <2> QED
    BY <1>2, <2>1
<1> QED
  BY <1>2, <1>3, <1>4, <1>6, <1>7, <1>8

----------------------------------------------------------------------------
(* Cutting a text up.                                                      *)

SplitStep(parts, x, p) ==
    IF x = p THEN Append(parts, <<>>) ELSE [parts EXCEPT ![Len(parts)] = Append(@, x)]

LEMMA SplitTyped ==
    \A T, p : << <<>> >> \in Seq(Seq(T)) /\ \A x \in Seq(Seq(T)), e \in T : SplitStep(x, e, p) \in Seq(Seq(T))
<1> SUFFICES ASSUME NEW T, NEW p
             PROVE  /\ << <<>> >> \in Seq(Seq(T))
                    /\ \A x \in Seq(Seq(T)), e \in T : SplitStep(x, e, p) \in Seq(Seq(T))
  OBVIOUS
<1> DEFINE S == Seq(T)
           none == <<>>
<1>1. none \in S /\ \A s \in S, e \in T : Append(s, e) \in S
  OBVIOUS
<1> HIDE DEF S, none
<1>2. <<none>> \in Seq(S) /\ \A x \in Seq(S) : Append(x, none) \in Seq(S)
  BY <1>1
<1>3. ASSUME NEW x \in Seq(S), NEW e \in T
      PROVE  [x EXCEPT ![Len(x)] = Append(@, e)] \in Seq(S)
  <2> DEFINE y == [x EXCEPT ![Len(x)] = Append(@, e)]
  <2>1. Len(x) \in Nat /\ \A i \in 1..Len(x) : x[i] \in S
    OBVIOUS
  <2>2. y = [i \in 1..Len(x) |-> IF i = Len(x) THEN Append(x[i], e) ELSE x[i]]
    <3>1. DOMAIN x = 1..Len(x)
      OBVIOUS
    <3>2. y = [i \in DOMAIN x |-> IF i = Len(x) THEN Append(x[Len(x)], e) ELSE x[i]]
      OBVIOUS
    <3> QED
      BY <3>1, <3>2, Zenon
  <2>3. \A i \in 1..Len(x) : (IF i = Len(x) THEN Append(x[i], e) ELSE x[i]) \in S
    BY <1>1, <2>1
  <2> HIDE DEF y
  <2>4. y \in Seq(S)
    BY <2>1, <2>2, <2>3
  <2> QED
    BY <2>4 DEF y
<1> QED
  BY <1>2, <1>3 DEF SplitStep, S, none

SplitTraced(g, s, T, p) ==
    /\ g[0] = << <<>> >> /\ g[Len(s)] = Split(s, p) /\ Split(s, p) \in Seq(Seq(T))
    /\ \A k \in 1..Len(s) : g[k] = SplitStep(g[k - 1], s[k], p)

LEMMA SplitTrace == \A T, p : \A s \in Seq(T) : \E g : SplitTraced(g, s, T, p)
<1> SUFFICES ASSUME NEW T, NEW p, NEW s \in Seq(T) PROVE \E g : SplitTraced(g, s, T, p)
  OBVIOUS
<1> DEFINE n == Len(s)
           X == Seq(Seq(T))
           G == [z \in X \X (1..n) |-> SplitStep(z[1], s[z[2]], p)]
           Step(it) == [t \in SUBSET (1..n) |->
                           IF t = {} THEN << <<>> >> ELSE SplitStep(it[t \ {Max(t)}], s[Max(t)], p)]
           table == CHOOSE it : it = Step(it)
<1>1. n \in Nat /\ DOMAIN s = 1..n /\ \A k \in 1..n : s[k] \in T
  OBVIOUS
<1>2. Split(s, p) = table[1..n]
  BY <1>1 DEF Split, SplitStep, FoldLeft, MapThenFoldSet
<1>3. << <<>> >> \in X /\ \A x \in X, e \in T : SplitStep(x, e, p) \in X
  BY SplitTyped
<1> HIDE DEF X
<1>4. IsStep(G, X, << <<>> >>, n)
  BY <1>1, <1>3 DEF IsStep
<1>5. \A x \in X, k \in 1..n : G[<<x, k>>] = SplitStep(x, s[k], p)
  OBVIOUS
<1> HIDE DEF G, n
<1>6. PICK it : IsTable(it, G, X, << <<>> >>, n)
  BY <1>4, Table
<1>7. it = Step(it)
  BY <1>5, <1>6 DEF IsTable
<1>8. table = Step(table)
  BY <1>7
<1> HIDE DEF table
<1>9. Tabulates(table, G, X, << <<>> >>, n)
  BY <1>5, <1>8 DEF Tabulates
<1>10. PICK g : IsTrace(g, G, X, << <<>> >>, n) /\ g[n] = table[1..n]
  BY <1>4, <1>9, TableTrace
<1>11. \A k \in 1..n : k - 1 \in 0..n
  BY <1>1
<1>12. ASSUME NEW k \in 1..n PROVE g[k] = SplitStep(g[k - 1], s[k], p)
  <2>1. g[k - 1] \in X /\ g[k] = G[<<g[k - 1], k>>]
    BY <1>10, <1>11 DEF IsTrace
  <2> QED
    BY <1>5, <2>1
<1>13. g[0] = << <<>> >> /\ g[n] \in X
  BY <1>1, <1>10 DEF IsTrace
<1> QED
  BY <1>2, <1>10, <1>12, <1>13 DEF n, X, SplitTraced

LEMMA SplitSnoc ==
    \A T, p : 
        /\ Split(<<>>, p) = << <<>> >>
        /\ \A s \in Seq(T), e \in T : Split(s, p) \in Seq(Seq(T))
              /\ Split(Append(s, e), p) = SplitStep(Split(s, p), e, p)
<1> SUFFICES ASSUME NEW T, NEW p
             PROVE  /\ Split(<<>>, p) = << <<>> >>
                    /\ \A s \in Seq(T), e \in T : Split(s, p) \in Seq(Seq(T))
                          /\ Split(Append(s, e), p) = SplitStep(Split(s, p), e, p)
  OBVIOUS
<1>1. Split(<<>>, p) = << <<>> >>
  <2> DEFINE none == <<>>
  <2>1. none \in Seq(T) /\ Len(none) = 0
    OBVIOUS
  <2> HIDE DEF none
  <2>2. PICK f : SplitTraced(f, none, T, p)
    BY <2>1, SplitTrace
  <2> QED
    BY <2>1, <2>2 DEF SplitTraced, none
<1>2. ASSUME NEW s \in Seq(T), NEW e \in T
      PROVE  Split(s, p) \in Seq(Seq(T)) /\ Split(Append(s, e), p) = SplitStep(Split(s, p), e, p)
  <2> DEFINE u == Append(s, e)
             n == Len(s)
  <2>1. /\ u \in Seq(T) /\ n \in Nat /\ Len(u) = n + 1 /\ u[n + 1] = e
        /\ \A k \in 1..n : u[k] = s[k]
    BY Extended
  <2>2. PICK g : SplitTraced(g, s, T, p)
    BY SplitTrace
  <2> HIDE DEF u
  <2>3. PICK h : SplitTraced(h, u, T, p)
    BY <2>1, SplitTrace
  <2> HIDE DEF n
  <2>4. g[n] = h[n]
    <3>1. g[0] = h[0] /\ \A k \in 1..n : g[k - 1] = h[k - 1] => g[k] = h[k]
      BY <2>1, <2>2, <2>3 DEF SplitTraced, n
    <3> QED
      BY <2>1, <3>1, TracesAgree
  <2>5. h[n + 1] = SplitStep(h[n], e, p)
    BY <2>1, <2>3 DEF SplitTraced
  <2> QED
    BY <2>1, <2>2, <2>3, <2>4, <2>5 DEF u, n, SplitTraced
<1> QED
  BY <1>1, <1>2

\* Without the mark there is one part.
LEMMA SplitWhole ==
    ASSUME NEW T, NEW p
    PROVE  \A s \in Seq(T) : p \notin ToSet(s) => Split(s, p) = <<s>>
<1> DEFINE R == {s \in Seq(T) : p \notin ToSet(s) => Split(s, p) = <<s>>}
<1>1. <<>> \in R
  <2> DEFINE none == <<>>
  <2>1. none \in Seq(T) /\ Split(none, p) = <<none>>
    BY SplitSnoc
  <2> QED
    BY <2>1, Zenon
<1>2. ASSUME NEW s \in Seq(T), NEW e \in T, s \in R PROVE Append(s, e) \in R
  <2> DEFINE u == Append(s, e)
  <2>1. u \in Seq(T) /\ Split(u, p) = SplitStep(Split(s, p), e, p)
    BY SplitSnoc
  <2>2. ToSet(u) = ToSet(s) \union {e}
    BY Members
  <2>3. p \notin ToSet(s) => Split(s, p) = <<s>>
    BY <1>2
  <2> HIDE DEF u
  <2>4. ASSUME p \notin ToSet(u) PROVE Split(u, p) = <<u>>
    <3>1. e # p /\ Split(s, p) = <<s>>
      BY <2>2, <2>3, <2>4
    <3>2. SplitStep(<<s>>, e, p) = <<Append(s, e)>>
      BY <3>1 DEF SplitStep
    <3> QED
      BY <2>1, <3>1, <3>2 DEF u
  <2> QED
    BY <2>1, <2>4, Zenon DEF u
<1>3. Seq(T) \subseteq R
  <2> HIDE DEF R
  <2> QED
    BY <1>1, <1>2, BuiltUp
<1> QED
  BY <1>3

----------------------------------------------------------------------------
(* The dictionary, line by line.                                           *)

Entries == {Entry(mis, term) : mis \in Seq(Glyph), term \in Seq(Glyph)}
Dictionaries == [replacements : Seq(Entries), hints : Seq(Seq(Glyph))]

MishearStep(all, part, term) ==
    IF Trim(part, Spaces) = <<>> THEN all ELSE Append(all, Entry(Trim(part, Spaces), term))

LEMMA EntryTyped == \A mis, term \in Seq(Glyph) : Entry(mis, term) \in Entries
BY DEF Entries

LEMMA MishearTyped ==
    \A all \in Seq(Entries), part \in Seq(Glyph), term \in Seq(Glyph) :
        MishearStep(all, part, term) \in Seq(Entries)
<1> SUFFICES ASSUME NEW all \in Seq(Entries), NEW part \in Seq(Glyph), NEW term \in Seq(Glyph)
             PROVE  MishearStep(all, part, term) \in Seq(Entries)
  OBVIOUS
<1>1. Trim(part, Spaces) \in Seq(Glyph)
  BY TrimTyped
<1>2. Entry(Trim(part, Spaces), term) \in Entries
  BY <1>1, EntryTyped
<1> QED
  BY <1>2 DEF MishearStep

MishearTraced(g, s, known, term) ==
    /\ g[0] = known /\ g[Len(s)] = Mishearings(known, term, s)
    /\ Mishearings(known, term, s) \in Seq(Entries)
    /\ \A k \in 1..Len(s) : g[k] = MishearStep(g[k - 1], s[k], term)

LEMMA MishearTrace ==
    \A known, term : known \in Seq(Entries) /\ term \in Seq(Glyph) =>
        \A s \in Seq(Seq(Glyph)) : \E g : MishearTraced(g, s, known, term)
<1> SUFFICES ASSUME NEW known, NEW term, known \in Seq(Entries) /\ term \in Seq(Glyph), NEW s \in Seq(Seq(Glyph))
             PROVE  \E g : MishearTraced(g, s, known, term)
  OBVIOUS
<1> DEFINE n == Len(s)
           X == Seq(Entries)
           G == [z \in X \X (1..n) |-> MishearStep(z[1], s[z[2]], term)]
           Step(it) == [t \in SUBSET (1..n) |->
                           IF t = {} THEN known ELSE MishearStep(it[t \ {Max(t)}], s[Max(t)], term)]
           table == CHOOSE it : it = Step(it)
<1>1. n \in Nat /\ DOMAIN s = 1..n /\ \A k \in 1..n : s[k] \in Seq(Glyph)
  OBVIOUS
<1>2. Mishearings(known, term, s) = table[1..n]
  BY <1>1 DEF Mishearings, MishearStep, FoldLeft, MapThenFoldSet
<1>3. known \in X /\ \A x \in X, e \in Seq(Glyph) : MishearStep(x, e, term) \in X
  BY MishearTyped
<1> HIDE DEF X
<1>4. IsStep(G, X, known, n)
  BY <1>1, <1>3 DEF IsStep
<1>5. \A x \in X, k \in 1..n : G[<<x, k>>] = MishearStep(x, s[k], term)
  OBVIOUS
<1> HIDE DEF G, n
<1>6. PICK it : IsTable(it, G, X, known, n)
  BY <1>4, Table
<1>7. it = Step(it)
  BY <1>5, <1>6 DEF IsTable
<1>8. table = Step(table)
  BY <1>7
<1> HIDE DEF table
<1>9. Tabulates(table, G, X, known, n)
  BY <1>5, <1>8 DEF Tabulates
<1>10. PICK g : IsTrace(g, G, X, known, n) /\ g[n] = table[1..n]
  BY <1>4, <1>9, TableTrace
<1>11. \A k \in 1..n : k - 1 \in 0..n
  BY <1>1
<1>12. ASSUME NEW k \in 1..n PROVE g[k] = MishearStep(g[k - 1], s[k], term)
  <2>1. g[k - 1] \in X /\ g[k] = G[<<g[k - 1], k>>]
    BY <1>10, <1>11 DEF IsTrace
  <2> QED
    BY <1>5, <2>1
<1>13. g[0] = known /\ g[n] \in X
  BY <1>1, <1>10 DEF IsTrace
<1> QED
  BY <1>2, <1>10, <1>12, <1>13 DEF n, X, MishearTraced

LEMMA MishearSnoc ==
    \A known, term : known \in Seq(Entries) /\ term \in Seq(Glyph) => 
        /\ Mishearings(known, term, <<>>) = known
        /\ \A s \in Seq(Seq(Glyph)), e \in Seq(Glyph) : Mishearings(known, term, s) \in Seq(Entries)
              /\ Mishearings(known, term, Append(s, e)) = MishearStep(Mishearings(known, term, s), e, term)
<1> SUFFICES ASSUME NEW known, NEW term, known \in Seq(Entries) /\ term \in Seq(Glyph)
             PROVE  /\ Mishearings(known, term, <<>>) = known
                    /\ \A s \in Seq(Seq(Glyph)), e \in Seq(Glyph) : Mishearings(known, term, s) \in Seq(Entries)
                          /\ Mishearings(known, term, Append(s, e)) = MishearStep(Mishearings(known, term, s), e, term)
  OBVIOUS
<1>1. Mishearings(known, term, <<>>) = known
  <2> DEFINE none == <<>>
  <2>1. none \in Seq(Seq(Glyph)) /\ Len(none) = 0
    OBVIOUS
  <2> HIDE DEF none
  <2>2. PICK f : MishearTraced(f, none, known, term)
    BY <2>1, MishearTrace
  <2> QED
    BY <2>1, <2>2 DEF MishearTraced, none
<1>2. ASSUME NEW s \in Seq(Seq(Glyph)), NEW e \in Seq(Glyph)
      PROVE  /\ Mishearings(known, term, s) \in Seq(Entries)
             /\ Mishearings(known, term, Append(s, e)) = MishearStep(Mishearings(known, term, s), e, term)
  <2> DEFINE u == Append(s, e)
             n == Len(s)
  <2>1. /\ u \in Seq(Seq(Glyph)) /\ n \in Nat /\ Len(u) = n + 1 /\ u[n + 1] = e
        /\ \A k \in 1..n : u[k] = s[k]
    BY Extended
  <2>2. PICK g : MishearTraced(g, s, known, term)
    BY MishearTrace
  <2> HIDE DEF u
  <2>3. PICK h : MishearTraced(h, u, known, term)
    BY <2>1, MishearTrace
  <2> HIDE DEF n
  <2>4. g[n] = h[n]
    <3>1. g[0] = h[0] /\ \A k \in 1..n : g[k - 1] = h[k - 1] => g[k] = h[k]
      BY <2>1, <2>2, <2>3 DEF MishearTraced, n
    <3> QED
      BY <2>1, <3>1, TracesAgree
  <2>5. h[n + 1] = MishearStep(h[n], e, term)
    BY <2>1, <2>3 DEF MishearTraced
  <2> QED
    BY <2>1, <2>2, <2>3, <2>4, <2>5 DEF u, n, MishearTraced
<1> QED
  BY <1>1, <1>2

LEMMA MishearOne ==
    ASSUME NEW known \in Seq(Entries), NEW term \in Seq(Glyph), NEW b \in Seq(Glyph), Trimmed(b, Spaces)
    PROVE  Mishearings(known, term, <<b>>) = Append(known, Entry(b, term))
<1> DEFINE S == Seq(Glyph)
           none == <<>>
<1>1. none \in Seq(S) /\ b \in S /\ Append(none, b) = <<b>>
  OBVIOUS
<1>2. Mishearings(known, term, none) = known
  BY MishearSnoc
<1>3. Mishearings(known, term, Append(none, b)) = MishearStep(Mishearings(known, term, none), b, term)
  BY <1>1, MishearSnoc
<1>4. Trim(b, Spaces) = b /\ b # <<>>
  <2>1. b # <<>>
    BY DEF Trimmed
  <2> QED
    BY <2>1, TrimAgain
<1> QED
  BY <1>1, <1>2, <1>3, <1>4 DEF MishearStep

LEMMA LoadTyped ==
    Empty \in Dictionaries /\ \A d \in Dictionaries, l \in Seq(Glyph) : LoadLine(d, l) \in Dictionaries
<1>1. Empty \in Dictionaries
  BY DEF Empty, Dictionaries
<1>2. ASSUME NEW d \in Dictionaries, NEW l \in Seq(Glyph) PROVE LoadLine(d, l) \in Dictionaries
  <2> DEFINE ln == Trim(l, Spaces)
             S == Seq(Glyph)
             D == [replacements : Seq(Entries), hints : Seq(S)]
  <2>0. \A R, H : \A r \in R, h \in H :
            [replacements |-> r, hints |-> h] \in [replacements : R, hints : H]
    OBVIOUS
  <2>1. ln \in S /\ D = Dictionaries
    BY TrimTyped DEF Dictionaries
  <2>2. CASE ln = <<>> \/ ln[1] = P("#")
    BY <2>2 DEF LoadLine
  <2> HIDE DEF ln, S
  <2>3. CASE ~(ln = <<>> \/ ln[1] = P("#")) /\ ~HasArrow(ln)
    <3>1. LoadLine(d, l) = [d EXCEPT !.hints = Append(@, ln)]
      BY <2>3 DEF LoadLine, ln
    <3>2. d.hints \in Seq(S) /\ d.replacements \in Seq(Entries)
      BY <2>1
    <3>3. Append(d.hints, ln) \in Seq(S)
      BY <2>1, <3>2
    <3>4. LoadLine(d, l) = [replacements |-> d.replacements, hints |-> Append(d.hints, ln)]
      BY <2>1, <3>1
    <3> QED
      BY <2>0, <2>1, <3>2, <3>3, <3>4, Zenon
  <2>4. CASE ~(ln = <<>> \/ ln[1] = P("#")) /\ HasArrow(ln)
    <3> DEFINE parts == Split(After(ln), Comma)
               known == Mishearings(d.replacements, Before(ln), parts)
    <3>1. Before(ln) \in Seq(Glyph) /\ After(ln) \in Seq(Glyph)
      BY <2>1, <2>4, SidesTyped DEF S
    <3>2. parts \in Seq(Seq(Glyph))
      <4>1. PICK g : SplitTraced(g, After(ln), Glyph, Comma)
        BY <3>1, SplitTrace
      <4> QED
        BY <4>1 DEF SplitTraced
    <3>3. d.replacements \in Seq(Entries) /\ d.hints \in Seq(S)
      BY <2>1
    <3> HIDE DEF parts
    <3>4. known \in Seq(Entries)
      BY <3>1, <3>2, <3>3, MishearSnoc
    <3>5. LoadLine(d, l) = [replacements |-> known, hints |-> Append(d.hints, Before(ln))]
      BY <2>4 DEF LoadLine, ln, parts
    <3> HIDE DEF known
    <3>6. Append(d.hints, Before(ln)) \in Seq(S)
      BY <3>1, <3>3 DEF S
    <3>7. [replacements |-> known, hints |-> Append(d.hints, Before(ln))]
            \in [replacements : Seq(Entries), hints : Seq(S)]
      BY <2>0, <3>4, <3>6, Zenon
    <3> QED
      BY <2>1, <3>5, <3>7, Zenon
  <2> QED
    BY <2>2, <2>3, <2>4
<1> QED
  BY <1>1, <1>2

LoadTraced(g, s) ==
    /\ g[0] = Empty /\ g[Len(s)] = Load(s) /\ Load(s) \in Dictionaries
    /\ \A k \in 1..Len(s) : g[k] = LoadLine(g[k - 1], s[k])

LEMMA LoadTrace == \A s \in Seq(Seq(Glyph)) : \E g : LoadTraced(g, s)
<1> SUFFICES ASSUME NEW s \in Seq(Seq(Glyph)) PROVE \E g : LoadTraced(g, s)
  OBVIOUS
<1> DEFINE n == Len(s)
           X == Dictionaries
           G == [z \in X \X (1..n) |-> LoadLine(z[1], s[z[2]])]
           Step(it) == [t \in SUBSET (1..n) |->
                           IF t = {} THEN Empty ELSE LoadLine(it[t \ {Max(t)}], s[Max(t)])]
           table == CHOOSE it : it = Step(it)
<1>1. n \in Nat /\ DOMAIN s = 1..n /\ \A k \in 1..n : s[k] \in Seq(Glyph)
  OBVIOUS
<1>2. Load(s) = table[1..n]
  BY <1>1 DEF Load, FoldLeft, MapThenFoldSet
<1>3. Empty \in X /\ \A x \in X, e \in Seq(Glyph) : LoadLine(x, e) \in X
  BY LoadTyped
<1> HIDE DEF X
<1>4. IsStep(G, X, Empty, n)
  BY <1>1, <1>3 DEF IsStep
<1>5. \A x \in X, k \in 1..n : G[<<x, k>>] = LoadLine(x, s[k])
  OBVIOUS
<1> HIDE DEF G, n
<1>6. PICK it : IsTable(it, G, X, Empty, n)
  BY <1>4, Table
<1>7. it = Step(it)
  BY <1>5, <1>6 DEF IsTable
<1>8. table = Step(table)
  BY <1>7
<1> HIDE DEF table
<1>9. Tabulates(table, G, X, Empty, n)
  BY <1>5, <1>8 DEF Tabulates
<1>10. PICK g : IsTrace(g, G, X, Empty, n) /\ g[n] = table[1..n]
  BY <1>4, <1>9, TableTrace
<1>11. \A k \in 1..n : k - 1 \in 0..n
  BY <1>1
<1>12. ASSUME NEW k \in 1..n PROVE g[k] = LoadLine(g[k - 1], s[k])
  <2>1. g[k - 1] \in X /\ g[k] = G[<<g[k - 1], k>>]
    BY <1>10, <1>11 DEF IsTrace
  <2> QED
    BY <1>5, <2>1
<1>13. g[0] = Empty /\ g[n] \in X
  BY <1>1, <1>10 DEF IsTrace
<1> QED
  BY <1>2, <1>10, <1>12, <1>13 DEF n, X, LoadTraced

LEMMA LoadSnoc ==
    
        /\ Load(<<>>) = Empty
        /\ \A s \in Seq(Seq(Glyph)), e \in Seq(Glyph) : Load(s) \in Dictionaries
              /\ Load(Append(s, e)) = LoadLine(Load(s), e)
<1> SUFFICES ASSUME TRUE
             PROVE  /\ Load(<<>>) = Empty
                    /\ \A s \in Seq(Seq(Glyph)), e \in Seq(Glyph) : Load(s) \in Dictionaries
                          /\ Load(Append(s, e)) = LoadLine(Load(s), e)
  OBVIOUS
<1>1. Load(<<>>) = Empty
  <2> DEFINE none == <<>>
  <2>1. none \in Seq(Seq(Glyph)) /\ Len(none) = 0
    OBVIOUS
  <2> HIDE DEF none
  <2>2. PICK f : LoadTraced(f, none)
    BY <2>1, LoadTrace
  <2> QED
    BY <2>1, <2>2 DEF LoadTraced, none
<1>2. ASSUME NEW s \in Seq(Seq(Glyph)), NEW e \in Seq(Glyph)
      PROVE  Load(s) \in Dictionaries /\ Load(Append(s, e)) = LoadLine(Load(s), e)
  <2> DEFINE u == Append(s, e)
             n == Len(s)
  <2>1. /\ u \in Seq(Seq(Glyph)) /\ n \in Nat /\ Len(u) = n + 1 /\ u[n + 1] = e
        /\ \A k \in 1..n : u[k] = s[k]
    BY Extended
  <2>2. PICK g : LoadTraced(g, s)
    BY LoadTrace
  <2> HIDE DEF u
  <2>3. PICK h : LoadTraced(h, u)
    BY <2>1, LoadTrace
  <2> HIDE DEF n
  <2>4. g[n] = h[n]
    <3>1. g[0] = h[0] /\ \A k \in 1..n : g[k - 1] = h[k - 1] => g[k] = h[k]
      BY <2>1, <2>2, <2>3 DEF LoadTraced, n
    <3> QED
      BY <2>1, <3>1, TracesAgree
  <2>5. h[n + 1] = LoadLine(h[n], e)
    BY <2>1, <2>3 DEF LoadTraced
  <2> QED
    BY <2>1, <2>2, <2>3, <2>4, <2>5 DEF u, n, LoadTraced
<1> QED
  BY <1>1, <1>2

----------------------------------------------------------------------------
(* What is taught and saved.                                               *)

\* A plain lesson is read back as the entry that learning it made.
LEMMA ReadBack ==
    ASSUME NEW m \in Seq(Glyph), Teachable(m), NEW d \in Dictionaries
    PROVE  /\ AppendedLine(m) \in Seq(Glyph) /\ Learn(d, m) \in Dictionaries
           /\ Learn(d, m).replacements = Append(d.replacements, Entry(Before(m), After(m)))
           /\ Plain(m) => LoadLine(d, AppendedLine(m)).replacements = Learn(d, m).replacements
<1> DEFINE a == After(m)
           b == Before(m)
           u == AppendedLine(m)
<1>1. /\ a \in Seq(Glyph) /\ b \in Seq(Glyph) /\ Trimmed(a, Spaces) /\ Trimmed(b, Spaces)
  BY SidesTyped DEF Teachable
<1>2. d.replacements \in Seq(Entries) /\ d.hints \in Seq(Seq(Glyph))
  BY DEF Dictionaries
<1>3. u = a \o <<Space, Arrow, Space>> \o b
  BY DEF AppendedLine
<1>4. Plain(m) <=> Comma \notin ToSet(b) /\ Arrow \notin ToSet(a) /\ a[1] # P("#")
  BY DEF Plain
<1>5. Learn(d, m) = [d EXCEPT !.replacements = Append(@, Entry(b, a))]
  BY DEF Learn
<1>6. Entry(b, a) \in Entries
  BY <1>1, EntryTyped
<1> HIDE DEF a, b
<1>7. u \in Seq(Glyph)
  <2>1. <<Space, Arrow, Space>> \in Seq(Glyph)
    <3>1. \A T : \A x, y \in T : <<x, y, x>> \in Seq(T)
      OBVIOUS
    <3> QED
      BY <3>1, Signs
  <2> DEFINE c == <<Space, Arrow, Space>>
             v == a \o c
  <2> HIDE DEF c
  <2>2. v \in Seq(Glyph)
    BY <1>1, <2>1 DEF c
  <2>3. u = v \o b
    BY <1>3 DEF c
  <2> HIDE DEF u, v
  <2> QED
    BY <1>1, <2>2, <2>3
<1> HIDE DEF u
<1>8. Append(d.replacements, Entry(b, a)) \in Seq(Entries)
  BY <1>2, <1>6
<1>9. Learn(d, m) \in Dictionaries /\ Learn(d, m).replacements = Append(d.replacements, Entry(b, a))
  <2> DEFINE r == Append(d.replacements, Entry(b, a))
  <2>1. Learn(d, m) = [replacements |-> r, hints |-> d.hints]
    BY <1>5 DEF Dictionaries
  <2> HIDE DEF r
  <2>2. \A R, H : \A x \in R, h \in H : [replacements |-> x, hints |-> h] \in [replacements : R, hints : H]
    OBVIOUS
  <2>3. r \in Seq(Entries)
    BY <1>8 DEF r
  <2>4. [replacements |-> r, hints |-> d.hints] \in [replacements : Seq(Entries), hints : Seq(Seq(Glyph))]
    BY <1>2, <2>2, <2>3, Zenon
  <2>5. [replacements |-> r, hints |-> d.hints].replacements = r
    OBVIOUS
  <2> QED
    BY <2>1, <2>4, <2>5, Zenon DEF r, Dictionaries
<1>10. ASSUME Plain(m) PROVE LoadLine(d, u).replacements = Append(d.replacements, Entry(b, a))
  <2>1. IsLine(u, a, Len(a), b, Len(b))
    BY <1>1, <1>3, <1>4, <1>10, LineWritten
  <2>2. /\ u \in Seq(Glyph) /\ Len(u) # 0 /\ u[1] = a[1]
        /\ Trim(u, Spaces) = u /\ HasArrow(u) /\ Before(u) = a /\ After(u) = b
    BY <2>1, SidesOfLine
  <2>3. u # <<>>
    BY <2>2
  <2>4. LoadLine(d, u).replacements = Mishearings(d.replacements, a, Split(b, Comma))
    <3>1. ~(u = <<>> \/ u[1] = P("#"))
      BY <1>4, <1>10, <2>2, <2>3
    <3>2. \A r, h : [replacements |-> r, hints |-> h].replacements = r
      OBVIOUS
    <3>3. LoadLine(d, u) = [replacements |-> Mishearings(d.replacements, a, Split(b, Comma)),
                            hints |-> Append(d.hints, a)]
      BY <2>2, <3>1, Zenon DEF LoadLine
    <3> QED
      BY <3>2, <3>3, Zenon
  <2>5. Split(b, Comma) = <<b>>
    BY <1>1, <1>4, <1>10, SplitWhole
  <2>6. Mishearings(d.replacements, a, <<b>>) = Append(d.replacements, Entry(b, a))
    BY <1>1, <1>2, MishearOne
  <2> QED
    BY <2>4, <2>5, <2>6, Zenon
<1> QED
  BY <1>7, <1>9, <1>10, Zenon DEF u, a, b

\* What LearnRoundTrip stands on: the file is text and the dictionary is one.
DictionaryInv ==
    /\ file \in Seq(Seq(Glyph))
    /\ dict \in Dictionaries
    /\ LearnRoundTrip

LEMMA Pieces == Lessons \subseteq Seq(Glyph) /\ FirstFile \in Seq(Seq(Glyph))
<1> DEFINE Piece == [w : STRING, cap : BOOLEAN]
<1>1. Piece \subseteq Glyph
  BY DEF Glyph, Chars
<1>2. Lessons \subseteq Seq(Piece) /\ FirstFile \in Seq(Seq(Piece))
  BY TextAssumption
<1> HIDE DEF Piece
<1>3. Seq(Piece) \subseteq Seq(Glyph)
  BY <1>1
<1> DEFINE S == Seq(Piece)
           U == Seq(Glyph)
<1>4. Seq(S) \subseteq Seq(U)
  <2> HIDE DEF S, U
  <2>1. S \subseteq U
    BY <1>3 DEF S, U
  <2> QED
    BY <2>1
<1> QED
  BY <1>2, <1>3, <1>4

LEMMA LoadsTyped == \A f \in Seq(Seq(Glyph)) : Load(f) \in Dictionaries
<1> SUFFICES ASSUME NEW f \in Seq(Seq(Glyph)) PROVE Load(f) \in Dictionaries
  OBVIOUS
<1>1. PICK g : LoadTraced(g, f)
  BY LoadTrace
<1> QED
  BY <1>1 DEF LoadTraced

LEMMA DictionaryInit == Init => DictionaryInv
BY Pieces, LoadsTyped DEF Init, DictionaryInv, LearnRoundTrip

LEMMA TeachKeeps ==
    ASSUME DictionaryInv, Teach
    PROVE  DictionaryInv'
<1>1. PICK m \in Lessons :
        IF Teachable(m)
        THEN /\ dict' = Learn(dict, m)
             /\ \E saved \in BOOLEAN :
                 /\ file' = IF saved THEN Append(file, AppendedLine(m)) ELSE file
                 /\ faithful' = (faithful /\ saved /\ Plain(m))
        ELSE UNCHANGED <<dict, file, faithful>>
  BY DEF Teach
<1>2. file \in Seq(Seq(Glyph)) /\ dict \in Dictionaries /\ LearnRoundTrip
  BY DEF DictionaryInv
<1>3. CASE ~Teachable(m)
  BY <1>1, <1>2, <1>3 DEF DictionaryInv, LearnRoundTrip
<1>4. CASE Teachable(m)
  <2>1. /\ dict' = Learn(dict, m)
        /\ \E saved \in BOOLEAN :
              /\ file' = IF saved THEN Append(file, AppendedLine(m)) ELSE file
              /\ faithful' = (faithful /\ saved /\ Plain(m))
    BY <1>1, <1>4, Zenon
  <2>2. m \in Seq(Glyph)
    BY Pieces
  <2>3. /\ AppendedLine(m) \in Seq(Glyph) /\ Learn(dict, m) \in Dictionaries
        /\ Learn(dict, m).replacements = Append(dict.replacements, Entry(Before(m), After(m)))
    BY <1>2, <1>4, <2>2, ReadBack
  <2> DEFINE S == Seq(Glyph)
             line == AppendedLine(m)
  <2>4. Append(file, line) \in Seq(S)
    <3> HIDE DEF line, S
    <3>1. file \in Seq(S) /\ line \in S
      BY <1>2, <2>3 DEF line, S
    <3> QED
      BY <3>1
  <2>5. file' \in Seq(S)
    BY <1>2, <2>1, <2>4
  <2>6. ASSUME faithful' PROVE Load(file').replacements = dict'.replacements
    <3>1. faithful /\ Plain(m) /\ file' = Append(file, line)
      BY <2>1, <2>6
    <3>2. Load(file).replacements = dict.replacements
      BY <1>2, <3>1 DEF LearnRoundTrip
    <3>3. Load(file) \in Dictionaries
      BY <1>2, LoadsTyped
    <3>4. Load(file') = LoadLine(Load(file), line)
      BY <1>2, <2>3, <3>1, LoadSnoc
    <3>5. /\ LoadLine(Load(file), line).replacements = Learn(Load(file), m).replacements
          /\ Learn(Load(file), m).replacements = Append(Load(file).replacements, Entry(Before(m), After(m)))
      BY <1>4, <2>2, <3>1, <3>3, ReadBack
    <3> QED
      BY <2>1, <2>3, <3>2, <3>4, <3>5, Zenon
  <2>7. dict' \in Dictionaries
    BY <2>1, <2>3, Zenon
  <2> QED
    BY <2>5, <2>6, <2>7 DEF DictionaryInv, LearnRoundTrip
<1> QED
  BY <1>3, <1>4

LEMMA DictionaryNext == DictionaryInv /\ [Next]_vars => DictionaryInv'
<1> SUFFICES ASSUME DictionaryInv, [Next]_vars PROVE DictionaryInv'
  OBVIOUS
<1>1. CASE Teach
  BY <1>1, TeachKeeps
<1>2. CASE Restart
  BY <1>2, LoadsTyped DEF Restart, DictionaryInv, LearnRoundTrip
<1>3. CASE Hear
  BY <1>3 DEF Hear, DictionaryInv, LearnRoundTrip
<1>4. CASE Transcribe
  BY <1>4 DEF Transcribe, DictionaryInv, LearnRoundTrip
<1>5. CASE NextUtterance
  BY <1>5 DEF NextUtterance, DictionaryInv, LearnRoundTrip
<1>6. CASE UNCHANGED vars
  BY <1>6 DEF vars, DictionaryInv, LearnRoundTrip
<1> QED
  BY <1>1, <1>2, <1>3, <1>4, <1>5, <1>6 DEF Next

\* However many lessons are taught, of whatever length, and however often the
\* engine is started again: a lesson that the file keeps and does not read
\* otherwise means to the next engine what it means to this one.
THEOREM LessonsSurvive == Spec => []LearnRoundTrip
<1>1. Init => DictionaryInv
  BY DictionaryInit
<1>2. DictionaryInv /\ [Next]_vars => DictionaryInv'
  BY DictionaryNext
<1>3. DictionaryInv => LearnRoundTrip
  BY DEF DictionaryInv
<1> QED
  BY <1>1, <1>2, <1>3, PTL DEF Spec
=============================================================================
