------------------------------ MODULE FoldFacts ------------------------------
(***************************************************************************)
(* Induction without an operator for a parameter, and what FoldLeft        *)
(* computes: a table over the subsets of the indices, of which only the    *)
(* entries of the initial intervals matter.                                *)
(***************************************************************************)
EXTENDS Integers, Lists, FiniteSetTheorems, SequenceTheorems,
        WellFoundedInduction, TLAPS

----------------------------------------------------------------------------
(* Induction.                                                              *)

LEMMA Minimal ==
    \A U : IsFiniteSet(U) => \A T \in SUBSET (SUBSET U) :
        T # {} => \E x \in T : \A y \in T : y \subseteq x => y = x
<1> SUFFICES ASSUME NEW U, IsFiniteSet(U), NEW T \in SUBSET (SUBSET U), T # {}
             PROVE  \E x \in T : \A y \in T : y \subseteq x => y = x
  OBVIOUS
<1>1. IsWellFoundedOn(StrictSubsetOrdering(U), FiniteSubsetsOf(U))
  BY FS_StrictSubsetOrderingWellFounded
<1>2. T \subseteq FiniteSubsetsOf(U)
  BY FS_Subset DEF FiniteSubsetsOf
<1>3. PICK x \in T : \A y \in T : ~(<<y, x>> \in StrictSubsetOrdering(U))
  BY <1>1, <1>2, WFMin
<1>4. ASSUME NEW y \in T, y \subseteq x, y # x PROVE FALSE
  <2>1. x \in SUBSET U /\ y \in SUBSET U
    OBVIOUS
  <2>2. <<y, x>> \in StrictSubsetOrdering(U)
    BY <1>4, <2>1 DEF StrictSubsetOrdering
  <2> QED
    BY <1>3, <2>2
<1> QED
  BY <1>4

(* Induction up to n, with a set for the property.                         *)
LEMMA UpTo ==
    ASSUME NEW n \in Nat, NEW S, 0 \in S, \A i \in 0..(n - 1) : i \in S => i + 1 \in S
    PROVE  0..n \subseteq S
<1> DEFINE T == {1..k : k \in {i \in 0..n : i \notin S}}
<1>1. SUFFICES ASSUME NEW i \in 0..n, i \notin S PROVE FALSE
  OBVIOUS
<1>2. IsFiniteSet(1..n)
  BY FS_Interval
<1>3. T \in SUBSET (SUBSET (1..n))
  OBVIOUS
<1>4. 1..i \in T
  BY <1>1
<1>5. PICK x \in T : \A y \in T : y \subseteq x => y = x
  <2>1. T # {}
    BY <1>4
  <2>2. \A V \in SUBSET (SUBSET (1..n)) : V # {} => \E x \in V : \A y \in V : y \subseteq x => y = x
    <3>1. \A U : IsFiniteSet(U) => \A V \in SUBSET (SUBSET U) :
            V # {} => \E x \in V : \A y \in V : y \subseteq x => y = x
      BY Minimal
    <3> DEFINE N == 1..n
    <3> HIDE DEF N
    <3>2. IsFiniteSet(N)
      BY <1>2 DEF N
    <3>3. \A V \in SUBSET (SUBSET N) : V # {} => \E x \in V : \A y \in V : y \subseteq x => y = x
      BY <3>1, <3>2
    <3> QED
      BY <3>3 DEF N
  <2> HIDE DEF T
  <2> QED
    BY <1>3, <2>1, <2>2
<1>6. PICK k \in 0..n : k \notin S /\ x = 1..k
  OBVIOUS
<1>7. k - 1 \in 0..(n - 1) /\ k - 1 \notin S
  BY <1>6
<1>8. 1..(k - 1) \in T /\ 1..(k - 1) \subseteq 1..k /\ k \in 1..k /\ k \notin 1..(k - 1)
  BY <1>7
<1> QED
  BY <1>5, <1>6, <1>8

----------------------------------------------------------------------------
(* The largest and the smallest element.                                   *)

LEMMA LargestIs ==
    ASSUME NEW s, NEW k \in Nat, s \subseteq 1..k, k \in s
    PROVE  Max(s) = k
<1>1. \A x \in s : (\A y \in s : x >= y) <=> x = k
  OBVIOUS
<1>2. \E x \in s : \A y \in s : x >= y
  BY <1>1
<1> QED
  BY <1>1, <1>2 DEF Max

LEMMA GreatestIn ==
    ASSUME NEW k \in Nat, NEW s, s \subseteq 1..k, s # {}
    PROVE  \E m \in s : \A j \in s : m >= j
<1> DEFINE S == {i \in Nat : s \cap 1..i = {} \/ \E m \in s : \A j \in s \cap 1..i : m >= j}
<1>1. 0 \in S
  OBVIOUS
<1>2. ASSUME NEW i \in 0..(k - 1), i \in S PROVE i + 1 \in S
  <2>1. CASE i + 1 \in s
    BY <1>2, <2>1
  <2>2. CASE i + 1 \notin s
    <3>1. s \cap 1..(i + 1) = s \cap 1..i
      BY <2>2
    <3> QED
      BY <1>2, <3>1
  <2> QED
    BY <2>1, <2>2
<1>3. k \in S
  <2>1. 0..k \subseteq S
    <3> HIDE DEF S
    <3> QED
      BY <1>1, <1>2, UpTo
  <2>2. k \in 0..k
    OBVIOUS
  <2> QED
    BY <2>1, <2>2
<1>4. s \cap 1..k = s
  OBVIOUS
<1> QED
  BY <1>3, <1>4

LEMMA LargestIn ==
    ASSUME NEW k \in Nat, NEW s, s \subseteq 1..k, s # {}
    PROVE  Max(s) \in s
<1>1. \E m \in s : \A j \in s : m >= j
  BY GreatestIn
<1> QED
  BY <1>1 DEF Max

LEMMA SmallestIs ==
    ASSUME NEW n \in Nat, NEW s, s \subseteq 1..n, NEW k \in s, \A y \in s : k <= y
    PROVE  Min(s) = k
<1>1. \A x \in s : (\A y \in s : x <= y) <=> x = k
  OBVIOUS
<1> QED
  BY <1>1 DEF Min

LEMMA SmallestIn ==
    ASSUME NEW k \in Nat, NEW s, s \subseteq 1..k, s # {}
    PROVE  Min(s) \in s /\ \A y \in s : Min(s) <= y
<1> DEFINE S == {i \in Nat : s \cap 1..i = {} \/ \E m \in s \cap 1..i : \A j \in s \cap 1..i : m <= j}
<1>1. 0 \in S
  OBVIOUS
<1>2. ASSUME NEW i \in 0..(k - 1), i \in S PROVE i + 1 \in S
  <2>1. CASE s \cap 1..i = {} /\ i + 1 \in s
    <3>1. s \cap 1..(i + 1) = {i + 1}
      BY <2>1
    <3> QED
      BY <3>1
  <2>2. CASE s \cap 1..i # {}
    <3>1. PICK m \in s \cap 1..i : \A j \in s \cap 1..i : m <= j
      BY <1>2, <2>2
    <3>2. m \in s \cap 1..(i + 1) /\ \A j \in s \cap 1..(i + 1) : m <= j
      BY <3>1
    <3> QED
      BY <3>2
  <2>3. CASE s \cap 1..i = {} /\ i + 1 \notin s
    BY <2>3
  <2> QED
    BY <2>1, <2>2, <2>3
<1>3. k \in S
  <2>1. 0..k \subseteq S
    <3> HIDE DEF S
    <3> QED
      BY <1>1, <1>2, UpTo
  <2>2. k \in 0..k
    OBVIOUS
  <2> QED
    BY <2>1, <2>2
<1>4. s \cap 1..k = s
  OBVIOUS
<1>5. \E m \in s : \A j \in s : m <= j
  BY <1>3, <1>4
<1> QED
  BY <1>5 DEF Min

----------------------------------------------------------------------------
(* Folds.  G is the fold's step as a function of what is accumulated and   *)
(* of an index.                                                            *)

\* A fold's step is typed; a table has it for every entry; what a fold computes
\* along the initial intervals is a trace of it.
IsStep(G, X, b, n) == n \in Nat /\ b \in X /\ G \in [X \X (1..n) -> X]
IsTable(it, G, X, b, n) ==
    /\ it = [s \in SUBSET (1..n) |-> it[s]]
    /\ it[{}] = b
    /\ \A s \in SUBSET (1..n) : s # {} =>
            /\ Max(s) \in 1..n /\ it[s \ {Max(s)}] \in X
            /\ it[s] = G[<<it[s \ {Max(s)}], Max(s)>>]
Tabulates(it, G, X, b, n) ==
    /\ it[{}] = b
    /\ \A s \in SUBSET (1..n) : s # {} /\ it[s \ {Max(s)}] \in X /\ Max(s) \in 1..n =>
            it[s] = G[<<it[s \ {Max(s)}], Max(s)>>]
IsTrace(g, G, X, b, n) ==
    /\ g \in [0..n -> X]
    /\ g[0] = b
    /\ \A k \in 1..n : g[k] = G[<<g[k - 1], k>>]

LEMMA Table == \A G, X, b, n : IsStep(G, X, b, n) => \E it : IsTable(it, G, X, b, n)
<1> SUFFICES ASSUME NEW G, NEW X, NEW b, NEW n, IsStep(G, X, b, n)
             PROVE  \E it : IsTable(it, G, X, b, n)
  OBVIOUS
<1> USE DEF IsStep
<1> DEFINE Good(k, it) == \A s \in SUBSET (1..k) :
              it[s] = IF s = {} THEN b ELSE G[<<it[s \ {Max(s)}], Max(s)>>]
           S == {k \in 0..n : \E it \in [SUBSET (1..k) -> X] : Good(k, it)}
<1>1. 0 \in S
  <2>1. [s \in SUBSET (1..0) |-> b] \in [SUBSET (1..0) -> X] /\ Good(0, [s \in SUBSET (1..0) |-> b])
    OBVIOUS
  <2>2. 0 \in 0..n
    OBVIOUS
  <2> HIDE DEF Good
  <2> QED
    BY <2>1, <2>2
<1>2. ASSUME NEW k \in 0..(n - 1), k \in S PROVE k + 1 \in S
  <2>0. k \in Nat /\ k + 1 \in Nat
    OBVIOUS
  <2>1. PICK old \in [SUBSET (1..k) -> X] : Good(k, old)
    BY <1>2
  <2> DEFINE it == [s \in SUBSET (1..(k + 1)) |->
                      IF k + 1 \in s THEN G[<<old[s \ {k + 1}], k + 1>>] ELSE old[s]]
  <2>2. \A s \in SUBSET (1..(k + 1)) :
            /\ k + 1 \notin s => s \in SUBSET (1..k)
            /\ s \ {k + 1} \in SUBSET (1..k)
    OBVIOUS
  <2>3. it \in [SUBSET (1..(k + 1)) -> X]
    <3>1. ASSUME NEW s \in SUBSET (1..(k + 1)) PROVE it[s] \in X
      <4>1. CASE k + 1 \in s
        <5>1. old[s \ {k + 1}] \in X /\ k + 1 \in 1..n
          BY <2>2
        <5> QED
          BY <4>1, <5>1
      <4>2. CASE k + 1 \notin s
        BY <4>2, <2>2
      <4> QED
        BY <4>1, <4>2
    <3> QED
      BY <3>1
  <2>4. Good(k + 1, it)
    <3>1. ASSUME NEW s \in SUBSET (1..(k + 1)), s # {}, k + 1 \in s
          PROVE  it[s] = G[<<it[s \ {Max(s)}], Max(s)>>]
      <4>1. Max(s) = k + 1
        BY <2>0, <3>1, LargestIs
      <4>2. s \ {k + 1} \in SUBSET (1..(k + 1)) /\ k + 1 \notin s \ {k + 1}
        OBVIOUS
      <4>3. it[s \ {k + 1}] = old[s \ {k + 1}]
        BY <4>2
      <4> QED
        BY <3>1, <4>1, <4>3
    <3>2. ASSUME NEW s \in SUBSET (1..(k + 1)), s # {}, k + 1 \notin s
          PROVE  it[s] = G[<<it[s \ {Max(s)}], Max(s)>>]
      <4>1. s \in SUBSET (1..k)
        BY <3>2, <2>2
      <4>2. Max(s) \in s
        BY <2>0, <3>2, <4>1, LargestIn
      <4>3. it[s] = old[s] /\ it[s \ {Max(s)}] = old[s \ {Max(s)}]
        BY <3>2, <4>1
      <4>4. old[s] = G[<<old[s \ {Max(s)}], Max(s)>>]
        BY <2>1, <3>2, <4>1
      <4> QED
        BY <4>3, <4>4
    <3>3. it[{}] = b
      BY <2>1
    <3> QED
      BY <3>1, <3>2, <3>3
  <2>5. k + 1 \in 0..n
    OBVIOUS
  <2> HIDE DEF Good
  <2> QED
    BY <2>3, <2>4, <2>5
<1>3. n \in S
  <2>1. n \in 0..n
    OBVIOUS
  <2> HIDE DEF S
  <2>2. 0..n \subseteq S
    BY <1>1, <1>2, UpTo
  <2> QED
    BY <2>1, <2>2
<1>4. PICK it \in [SUBSET (1..n) -> X] : Good(n, it)
  BY <1>3
<1>5. ASSUME NEW s \in SUBSET (1..n), s # {}
      PROVE  Max(s) \in 1..n /\ it[s \ {Max(s)}] \in X
  <2>1. n \in Nat /\ s \subseteq 1..n
    OBVIOUS
  <2>2. Max(s) \in s
    BY <1>5, <2>1, LargestIn
  <2>3. s \ {Max(s)} \in SUBSET (1..n)
    OBVIOUS
  <2> QED
    BY <2>1, <2>2, <2>3
<1>6. IsTable(it, G, X, b, n)
  BY <1>4, <1>5 DEF IsTable
<1> QED
  BY <1>6

\* What any table computes on the initial intervals, if it does what the step
\* does where the step is typed.
LEMMA TableTrace ==
    \A it, G, X, b, n : IsStep(G, X, b, n) /\ Tabulates(it, G, X, b, n) =>
        \E g : IsTrace(g, G, X, b, n) /\ g[n] = it[1..n]
<1> SUFFICES ASSUME NEW it, NEW G, NEW X, NEW b, NEW n,
                    IsStep(G, X, b, n), Tabulates(it, G, X, b, n)
             PROVE  \E g : IsTrace(g, G, X, b, n) /\ g[n] = it[1..n]
  OBVIOUS
<1> USE DEF IsStep, Tabulates
<1> DEFINE S == {k \in 0..n : it[1..k] \in X}
           g == [k \in 0..n |-> it[1..k]]
<1>1. 1..0 = {}
  OBVIOUS
<1>2. 0 \in S
  BY <1>1
<1>3. ASSUME NEW k \in 1..n, it[1..(k - 1)] \in X PROVE it[1..k] = G[<<it[1..(k - 1)], k>>]
  <2>1. k \in Nat /\ 1..k \in SUBSET (1..n) /\ 1..k # {} /\ k \in 1..k
    OBVIOUS
  <2>2. Max(1..k) = k
    BY <2>1, LargestIs
  <2>3. (1..k) \ {k} = 1..(k - 1)
    OBVIOUS
  <2> QED
    BY <1>3, <2>1, <2>2, <2>3
<1>4. ASSUME NEW k \in 0..(n - 1), k \in S PROVE k + 1 \in S
  <2>1. it[1..k] \in X /\ k + 1 \in 1..n /\ (k + 1) - 1 = k
    BY <1>4
  <2>2. it[1..(k + 1)] = G[<<it[1..k], k + 1>>]
    BY <1>3, <2>1
  <2> QED
    BY <2>1, <2>2
<1>5. \A k \in 0..n : it[1..k] \in X
  <2>1. 0..n \subseteq S
    <3> HIDE DEF S
    <3> QED
      BY <1>2, <1>4, UpTo
  <2> QED
    BY <2>1
<1>6. g \in [0..n -> X]
  BY <1>5
<1>7. \A k \in 1..n : k \in 0..n /\ k - 1 \in 0..n
  OBVIOUS
<1>8. \A k \in 1..n : g[k] = G[<<g[k - 1], k>>]
  BY <1>3, <1>5, <1>7
<1>9. g[0] = b /\ g[n] = it[1..n]
  BY <1>1
<1>10. IsTrace(g, G, X, b, n)
  BY <1>6, <1>8, <1>9 DEF IsTrace
<1> QED
  BY <1>9, <1>10

\* Two traces that start alike and step alike are alike.
LEMMA TracesAgree ==
    ASSUME NEW n \in Nat, NEW g, NEW h, g[0] = h[0],
           \A k \in 1..n : g[k - 1] = h[k - 1] => g[k] = h[k]
    PROVE  g[n] = h[n]
<1> DEFINE S == {k \in 0..n : g[k] = h[k]}
<1>1. 0 \in S
  OBVIOUS
<1>2. ASSUME NEW k \in 0..(n - 1), k \in S PROVE k + 1 \in S
  <2>1. k + 1 \in 1..n /\ (k + 1) - 1 = k
    OBVIOUS
  <2> QED
    BY <1>2, <2>1
<1>3. 0..n \subseteq S
  <2> HIDE DEF S
  <2> QED
    BY <1>1, <1>2, UpTo
<1>4. n \in 0..n
  OBVIOUS
<1> QED
  BY <1>3, <1>4

----------------------------------------------------------------------------
(* Sequences, built up at their end.                                       *)

LEMMA Extended ==
    ASSUME NEW T, NEW s \in Seq(T), NEW e \in T
    PROVE  /\ Append(s, e) \in Seq(T) /\ Len(s) \in Nat /\ Len(Append(s, e)) = Len(s) + 1
           /\ \A k \in 1..Len(s) : Append(s, e)[k] = s[k]
           /\ Append(s, e)[Len(s) + 1] = e
OBVIOUS

LEMMA Joined ==
    ASSUME NEW T, NEW a \in Seq(T), NEW b \in Seq(T)
    PROVE  /\ a \o b \in Seq(T) /\ Len(a \o b) = Len(a) + Len(b)
           /\ \A i \in 1..Len(a) : (a \o b)[i] = a[i]
           /\ \A i \in 1..Len(b) : (a \o b)[Len(a) + i] = b[i]
<1>1. Len(a) \in Nat /\ Len(b) \in Nat
  OBVIOUS
<1>2. a \o b \in Seq(T) /\ Len(a \o b) = Len(a) + Len(b)
  OBVIOUS
<1>3. \A i \in 1..Len(a) : (a \o b)[i] = a[i]
  OBVIOUS
<1>4. ASSUME NEW i \in 1..Len(b) PROVE (a \o b)[Len(a) + i] = b[i]
  <2>1. Len(a) + i \in 1..(Len(a) + Len(b)) /\ ~(Len(a) + i <= Len(a)) /\ (Len(a) + i) - Len(a) = i
    BY <1>1
  <2> QED
    BY <1>1, <2>1
<1> QED
  BY <1>2, <1>3, <1>4

LEMMA Sliced ==
    ASSUME NEW T, NEW s \in Seq(T), NEW k \in Nat, NEW n \in Nat, 1 <= k, k <= n + 1, n <= Len(s)
    PROVE  /\ SubSeq(s, k, n) \in Seq(T) /\ Len(SubSeq(s, k, n)) = n - k + 1
           /\ \A i \in 1..(n - k + 1) : SubSeq(s, k, n)[i] = s[k + i - 1]
<1>1. SubSeq(s, k, n) \in Seq(T)
  OBVIOUS
<1>2. Len(SubSeq(s, k, n)) = n - k + 1
  OBVIOUS
<1>3. \A i \in 1..(n - k + 1) : SubSeq(s, k, n)[i] = s[k + i - 1]
  OBVIOUS
<1> QED
  BY <1>1, <1>2, <1>3

\* u is a followed by b, of n and of m elements.
IsJoin(u, a, n, b, m, T) == a \in Seq(T) /\ b \in Seq(T) /\ n = Len(a) /\ m = Len(b) /\ u = a \o b
IsParts(u, a, n, b, m, T) ==
    /\ n \in Nat /\ m \in Nat /\ u \in Seq(T) /\ Len(u) = n + m
    /\ \A i \in 1..n : u[i] = a[i]
    /\ \A i \in 1..m : u[n + i] = b[i]
LEMMA JoinParts == \A u, a, n, b, m, T : IsJoin(u, a, n, b, m, T) => IsParts(u, a, n, b, m, T)
<1> SUFFICES ASSUME NEW T, NEW a \in Seq(T), NEW b \in Seq(T), NEW n, NEW m, NEW u,
                    n = Len(a), m = Len(b), u = a \o b
             PROVE  IsParts(u, a, n, b, m, T)
  BY DEF IsJoin
<1>1. /\ a \o b \in Seq(T) /\ Len(a \o b) = Len(a) + Len(b)
      /\ \A i \in 1..Len(a) : (a \o b)[i] = a[i]
      /\ \A i \in 1..Len(b) : (a \o b)[Len(a) + i] = b[i]
      /\ Len(a) \in Nat /\ Len(b) \in Nat
  BY Joined
<1> QED
  BY <1>1, Zenon DEF IsParts

\* u is the stretch of s of l elements from k on.
IsSlice(u, s, k, l, T) ==
    s \in Seq(T) /\ k \in Nat /\ l \in Nat /\ 1 <= k /\ k + l <= Len(s) + 1 /\ u = SubSeq(s, k, k + l - 1)
IsStretch(u, s, k, l, T) ==
    u \in Seq(T) /\ Len(u) = l /\ \A i \in 1..l : u[i] = s[k + i - 1]
LEMMA SliceParts == \A u, s, k, l, T : IsSlice(u, s, k, l, T) => IsStretch(u, s, k, l, T)
<1> SUFFICES ASSUME NEW T, NEW s \in Seq(T), NEW k \in Nat, NEW l \in Nat, NEW u,
                    1 <= k, k + l <= Len(s) + 1, u = SubSeq(s, k, k + l - 1)
             PROVE  IsStretch(u, s, k, l, T)
  BY DEF IsSlice
<1>1. /\ k + l - 1 \in Nat /\ k <= k + l - 1 + 1 /\ k + l - 1 <= Len(s) /\ k + l - 1 - k + 1 = l
  OBVIOUS
<1> DEFINE e == k + l - 1
<1>2. /\ SubSeq(s, k, e) \in Seq(T) /\ Len(SubSeq(s, k, e)) = e - k + 1
      /\ \A i \in 1..(e - k + 1) : SubSeq(s, k, e)[i] = s[k + i - 1]
  <2> HIDE DEF e
  <2>1. e \in Nat /\ k <= e + 1 /\ e <= Len(s)
    BY <1>1 DEF e
  <2> QED
    BY <2>1, Sliced
<1>3. e - k + 1 = l
  BY <1>1
<1> HIDE DEF e
<1>4. /\ SubSeq(s, k, e) \in Seq(T) /\ Len(SubSeq(s, k, e)) = l
      /\ \A i \in 1..l : SubSeq(s, k, e)[i] = s[k + i - 1]
  BY <1>2, <1>3, Zenon
<1> QED
  BY <1>4, Zenon DEF IsStretch, e

LEMMA Members ==
    ASSUME NEW T, NEW s \in Seq(T), NEW e \in T
    PROVE  /\ ToSet(<<>>) = {} /\ ToSet(s) \subseteq T /\ s \in Seq(ToSet(s))
           /\ ToSet(Append(s, e)) = ToSet(s) \union {e}
<1>1. /\ Append(s, e) \in Seq(T) /\ Len(s) \in Nat /\ Len(Append(s, e)) = Len(s) + 1
      /\ \A k \in 1..Len(s) : Append(s, e)[k] = s[k]
      /\ Append(s, e)[Len(s) + 1] = e
  BY Extended
<1> DEFINE u == Append(s, e)
<1>2. DOMAIN s = 1..Len(s) /\ DOMAIN u = 1..(Len(s) + 1)
  BY <1>1
<1> HIDE DEF u
<1>3. \A i \in DOMAIN u : i \in DOMAIN s \/ i = Len(s) + 1
  BY <1>1, <1>2
<1>4. ToSet(u) = ToSet(s) \union {e}
  <2>1. ToSet(u) \subseteq ToSet(s) \union {e}
    BY <1>1, <1>2, <1>3 DEF u, ToSet
  <2>2. ToSet(s) \subseteq ToSet(u)
    BY <1>1, <1>2 DEF u, ToSet
  <2>3. Len(s) + 1 \in DOMAIN u /\ u[Len(s) + 1] = e
    BY <1>1, <1>2 DEF u
  <2>4. e \in ToSet(u)
    BY <2>3, Zenon DEF ToSet
  <2> QED
    BY <2>1, <2>2, <2>4
<1>5. ToSet(<<>>) = {}
  BY DEF ToSet
<1>6. ToSet(s) \subseteq T
  BY DEF ToSet
<1>7. s \in Seq(ToSet(s))
  <2>1. \A i \in 1..Len(s) : s[i] \in ToSet(s)
    BY <1>2 DEF ToSet
  <2>2. s = [i \in 1..Len(s) |-> s[i]]
    BY <1>1, <1>2
  <2> QED
    BY <1>1, <2>1, <2>2
<1> QED
  BY <1>4, <1>5, <1>6, <1>7 DEF u

\* What holds of the empty sequence, and with a sequence of every longer one by
\* an element, holds of all of them.
LEMMA BuiltUp ==
    ASSUME NEW T, NEW S, <<>> \in S, \A s \in Seq(T), e \in T : s \in S => Append(s, e) \in S
    PROVE  Seq(T) \subseteq S
<1> SUFFICES ASSUME NEW s \in Seq(T) PROVE s \in S
  OBVIOUS
<1> DEFINE n == Len(s)
           R == {k \in 0..n : SubSeq(s, 1, k) \in S}
<1>1. n \in Nat /\ SubSeq(s, 1, n) = s /\ SubSeq(s, 1, 0) = <<>>
  OBVIOUS
<1>2. 0 \in R
  <2>1. 0 \in 0..n
    BY <1>1
  <2>2. SubSeq(s, 1, 0) \in S
    BY <1>1, Zenon
  <2> QED
    BY <2>1, <2>2, Zenon
<1>3. ASSUME NEW k \in 0..(n - 1), k \in R PROVE k + 1 \in R
  <2>1. SubSeq(s, 1, k) \in Seq(T) /\ s[k + 1] \in T /\ k + 1 \in 0..n
    OBVIOUS
  <2>2. SubSeq(s, 1, k + 1) = Append(SubSeq(s, 1, k), s[k + 1])
    <3> DEFINE u == SubSeq(s, 1, k)
               v == SubSeq(s, 1, k + 1)
               w == Append(u, s[k + 1])
    <3>1. k \in Nat /\ k + 1 <= Len(s) /\ Len(s) \in Nat
      OBVIOUS
    <3>2. u \in Seq(T) /\ Len(u) = k /\ \A i \in 1..k : u[i] = s[i]
      BY <3>1
    <3>3. v \in Seq(T) /\ Len(v) = k + 1 /\ \A i \in 1..(k + 1) : v[i] = s[i]
      BY <3>1
    <3> HIDE DEF u
    <3>4. /\ w \in Seq(T) /\ Len(w) = k + 1 /\ w[k + 1] = s[k + 1]
          /\ \A i \in 1..k : w[i] = u[i]
      BY <2>1, <3>1, <3>2
    <3> HIDE DEF v, w
    <3>5. \A i \in 1..(k + 1) : v[i] = w[i]
      BY <3>1, <3>2, <3>3, <3>4
    <3>6. v = w
      BY <3>3, <3>4, <3>5, SeqEqual
    <3> QED
      BY <3>6 DEF u, v, w
  <2>3. SubSeq(s, 1, k) \in S
    BY <1>3
  <2> QED
    BY <2>1, <2>2, <2>3
<1>4. 0..n \subseteq R
  <2> HIDE DEF R, n
  <2> QED
    BY <1>1, <1>2, <1>3, UpTo
<1>5. n \in R
  BY <1>1, <1>4
<1> QED
  BY <1>1, <1>5

----------------------------------------------------------------------------
(* Sequences that are put together.                                       *)

LEMMA AppendJoin ==
    \A T : \A a, b \in Seq(T), e \in T : /\ a \o Append(b, e) = Append(a \o b, e)
                                         /\ a \o b \in Seq(T) /\ a \o <<>> = a /\ <<>> \o a = a
<1> SUFFICES ASSUME NEW T, NEW a \in Seq(T), NEW b \in Seq(T), NEW e \in T
             PROVE  /\ a \o Append(b, e) = Append(a \o b, e)
                    /\ a \o b \in Seq(T) /\ a \o <<>> = a /\ <<>> \o a = a
  OBVIOUS
<1>1. a \o b \in Seq(T) /\ a \o <<>> = a /\ <<>> \o a = a
  OBVIOUS
<1> DEFINE u == a \o Append(b, e)
           v == Append(a \o b, e)
<1>2. u \in Seq(T) /\ v \in Seq(T) /\ Len(u) = Len(a) + Len(b) + 1 /\ Len(v) = Len(u)
  OBVIOUS
<1>3. \A i \in 1..Len(u) : u[i] = v[i]
  OBVIOUS
<1>4. u = v
  <2> HIDE DEF u, v
  <2> QED
    BY <1>2, <1>3, SeqEqual
<1> QED
  BY <1>1, <1>4

\* The last element, replaced.
LEMMA LastChanged ==
    \A T : \A s \in Seq(T), v \in T : s # <<>> =>
        \E f \in Seq(T) : /\ s = Append(f, s[Len(s)]) /\ [s EXCEPT ![Len(s)] = v] = Append(f, v)
                          /\ s[Len(s)] \in T /\ f = SubSeq(s, 1, Len(s) - 1)
<1> SUFFICES ASSUME NEW T, NEW s \in Seq(T), NEW v \in T, s # <<>>
             PROVE  \E f \in Seq(T) : /\ s = Append(f, s[Len(s)]) /\ [s EXCEPT ![Len(s)] = v] = Append(f, v)
                                      /\ s[Len(s)] \in T /\ f = SubSeq(s, 1, Len(s) - 1)
  OBVIOUS
<1> DEFINE n == Len(s) - 1
           f == SubSeq(s, 1, n)
           y == [s EXCEPT ![Len(s)] = v]
<1>1. n \in Nat /\ Len(s) = n + 1 /\ s[n + 1] \in T
  OBVIOUS
<1>2. f \in Seq(T) /\ Len(f) = n /\ \A i \in 1..n : f[i] = s[i]
  <2> HIDE DEF n
  <2> QED
    BY <1>1
<1>3. y \in Seq(T) /\ Len(y) = n + 1 /\ y[n + 1] = v /\ \A i \in 1..n : y[i] = s[i]
  <2>1. DOMAIN s = 1..(n + 1) /\ \A i \in 1..(n + 1) : s[i] \in T
    OBVIOUS
  <2>2. y = [i \in DOMAIN s |-> IF i = n + 1 THEN v ELSE s[i]]
    OBVIOUS
  <2>3. y = [i \in 1..(n + 1) |-> IF i = n + 1 THEN v ELSE s[i]]
    BY <2>1, <2>2, Zenon
  <2> HIDE DEF y, n
  <2> QED
    BY <1>1, <2>1, <2>3
<1> HIDE DEF n, f, y
<1>4. \A e \in T : /\ Append(f, e) \in Seq(T) /\ Len(Append(f, e)) = n + 1 /\ Append(f, e)[n + 1] = e
                   /\ \A i \in 1..n : Append(f, e)[i] = s[i]
  BY <1>1, <1>2
<1>5. \A i \in 1..(n + 1) : i \in 1..n \/ i = n + 1
  BY <1>1
<1>6. s = Append(f, s[n + 1])
  <2> DEFINE u == Append(f, s[n + 1])
  <2>1. u \in Seq(T) /\ Len(u) = n + 1 /\ u[n + 1] = s[n + 1] /\ \A i \in 1..n : u[i] = s[i]
    BY <1>1, <1>4
  <2> HIDE DEF u
  <2>2. \A i \in 1..Len(s) : s[i] = u[i]
    BY <1>1, <1>5, <2>1
  <2>3. s = u
    BY <1>1, <2>1, <2>2, SeqEqual
  <2> QED
    BY <2>3 DEF u
<1>7. y = Append(f, v)
  <2> DEFINE u == Append(f, v)
  <2>1. u \in Seq(T) /\ Len(u) = n + 1 /\ u[n + 1] = v /\ \A i \in 1..n : u[i] = s[i]
    BY <1>4
  <2> HIDE DEF u
  <2>2. \A i \in 1..Len(y) : y[i] = u[i]
    BY <1>3, <1>5, <2>1
  <2>3. y = u
    BY <1>3, <2>1, <2>2, SeqEqual
  <2> QED
    BY <2>3 DEF u
<1> QED
  BY <1>1, <1>2, <1>6, <1>7 DEF y, f, n

LEMMA AppendChanged ==
    \A T : \A f \in Seq(T), d, v \in T : \A s : s = Append(f, d) => [s EXCEPT ![Len(s)] = v] = Append(f, v)
<1> SUFFICES ASSUME NEW T, NEW f \in Seq(T), NEW d \in T, NEW v \in T, NEW s, s = Append(f, d)
             PROVE  [s EXCEPT ![Len(s)] = v] = Append(f, v)
  OBVIOUS
<1> DEFINE n == Len(f)
           y == [s EXCEPT ![Len(s)] = v]
           u == Append(f, v)
<1>1. n \in Nat /\ s \in Seq(T) /\ Len(s) = n + 1 /\ \A i \in 1..n : s[i] = f[i]
  OBVIOUS
<1>2. u \in Seq(T) /\ Len(u) = n + 1 /\ u[n + 1] = v /\ \A i \in 1..n : u[i] = f[i]
  OBVIOUS
<1>3. y \in Seq(T) /\ Len(y) = n + 1 /\ y[n + 1] = v /\ \A i \in 1..n : y[i] = s[i]
  <2>1. DOMAIN s = 1..(n + 1) /\ \A i \in 1..(n + 1) : s[i] \in T
    BY <1>1
  <2>2. y = [i \in DOMAIN s |-> IF i = n + 1 THEN v ELSE s[i]]
    BY <1>1
  <2>3. y = [i \in 1..(n + 1) |-> IF i = n + 1 THEN v ELSE s[i]]
    BY <2>1, <2>2, Zenon
  <2> HIDE DEF y, n
  <2> QED
    BY <1>1, <2>1, <2>3
<1> HIDE DEF n, y, u
<1>4. \A i \in 1..(n + 1) : i \in 1..n \/ i = n + 1
  BY <1>1
<1>5. \A i \in 1..Len(y) : y[i] = u[i]
  BY <1>1, <1>2, <1>3, <1>4
<1>6. y = u
  BY <1>2, <1>3, <1>5, SeqEqual
<1> QED
  BY <1>6 DEF y, u

\* One element longer.
LEMMA Longer ==
    ASSUME NEW T, NEW s \in Seq(T), NEW k \in 0..(Len(s) - 1)
    PROVE  /\ SubSeq(s, 1, k + 1) = Append(SubSeq(s, 1, k), s[k + 1])
           /\ SubSeq(s, 1, k) \in Seq(T) /\ s[k + 1] \in T
<1> DEFINE u == SubSeq(s, 1, k)
           v == SubSeq(s, 1, k + 1)
           w == Append(u, s[k + 1])
<1>1. k \in Nat /\ k + 1 <= Len(s) /\ Len(s) \in Nat /\ s[k + 1] \in T
  OBVIOUS
<1>2. u \in Seq(T) /\ Len(u) = k /\ \A i \in 1..k : u[i] = s[i]
  BY <1>1
<1>3. v \in Seq(T) /\ Len(v) = k + 1 /\ \A i \in 1..(k + 1) : v[i] = s[i]
  BY <1>1
<1> HIDE DEF u
<1>4. /\ w \in Seq(T) /\ Len(w) = k + 1 /\ w[k + 1] = s[k + 1]
      /\ \A i \in 1..k : w[i] = u[i]
  BY <1>1, <1>2
<1> HIDE DEF v, w
<1>5. \A i \in 1..(k + 1) : v[i] = w[i]
  BY <1>1, <1>2, <1>3, <1>4
<1>6. v = w
  BY <1>3, <1>4, <1>5, SeqEqual
<1> QED
  BY <1>1, <1>2, <1>6 DEF u, v, w

----------------------------------------------------------------------------
(* Keeping some elements of a sequence.                                    *)

KeepStep(kept, x, S) == IF x \in S THEN Append(kept, x) ELSE kept

LEMMA KeepTyped ==
    \A T, S : <<>> \in Seq(T) /\ \A x \in Seq(T), e \in T : KeepStep(x, e, S) \in Seq(T)
<1> SUFFICES ASSUME NEW T, NEW S
             PROVE  <<>> \in Seq(T) /\ \A x \in Seq(T), e \in T : KeepStep(x, e, S) \in Seq(T)
  OBVIOUS
<1> QED
  BY DEF KeepStep

KeepTraced(g, T, S, s) ==
    /\ g[0] = <<>> /\ g[Len(s)] = KeepIn(s, S) /\ KeepIn(s, S) \in Seq(T)
    /\ \A k \in 1..Len(s) : g[k] = KeepStep(g[k - 1], s[k], S)

LEMMA KeepTrace == \A T, S : \A s \in Seq(T) : \E g : KeepTraced(g, T, S, s)
<1> SUFFICES ASSUME NEW T, NEW S, NEW s \in Seq(T) PROVE \E g : KeepTraced(g, T, S, s)
  OBVIOUS
<1> DEFINE n == Len(s)
           X == Seq(T)
           G == [p \in X \X (1..n) |-> KeepStep(p[1], s[p[2]], S)]
           Step(it) == [t \in SUBSET (1..n) |->
                           IF t = {} THEN <<>> ELSE KeepStep(it[t \ {Max(t)}], s[Max(t)], S)]
           table == CHOOSE it : it = Step(it)
<1>1. n \in Nat /\ DOMAIN s = 1..n /\ \A k \in 1..n : s[k] \in T
  OBVIOUS
<1>3. KeepIn(s, S) = table[1..n]
  BY <1>1 DEF KeepIn, KeepStep, FoldLeft, MapThenFoldSet
<1>t. <<>> \in X /\ \A x \in X, e \in T : KeepStep(x, e, S) \in X
  BY KeepTyped
<1> HIDE DEF X
<1>2. IsStep(G, X, <<>>, n)
  BY <1>1, <1>t DEF IsStep
<1>4. \A x \in X, k \in 1..n : G[<<x, k>>] = KeepStep(x, s[k], S)
  OBVIOUS
<1> HIDE DEF G, n
<1>5. PICK it : IsTable(it, G, X, <<>>, n)
  BY <1>2, Table
<1>6. it = Step(it)
  BY <1>4, <1>5 DEF IsTable
<1>7. table = Step(table)
  BY <1>6
<1> HIDE DEF table
<1>8. Tabulates(table, G, X, <<>>, n)
  BY <1>4, <1>7 DEF Tabulates
<1>9. PICK g : IsTrace(g, G, X, <<>>, n) /\ g[n] = table[1..n]
  BY <1>2, <1>8, TableTrace
<1>10. \A k \in 1..n : k - 1 \in 0..n
  BY <1>1
<1>11. ASSUME NEW k \in 1..n PROVE g[k] = KeepStep(g[k - 1], s[k], S)
  <2>1. g[k - 1] \in X /\ g[k] = G[<<g[k - 1], k>>]
    BY <1>9, <1>10 DEF IsTrace
  <2> QED
    BY <1>4, <2>1
<1>12. g[0] = <<>> /\ g[n] \in X
  BY <1>1, <1>9 DEF IsTrace
<1> QED
  BY <1>3, <1>9, <1>11, <1>12 DEF n, X, KeepTraced

LEMMA KeepSnoc ==
    ASSUME NEW T, NEW S, NEW s \in Seq(T), NEW e \in T
    PROVE  /\ KeepIn(<<>>, S) = <<>> /\ KeepIn(s, S) \in Seq(T)
           /\ KeepIn(Append(s, e), S) = IF e \in S THEN Append(KeepIn(s, S), e) ELSE KeepIn(s, S)
<1> DEFINE u == Append(s, e)
           n == Len(s)
<1>1. /\ u \in Seq(T) /\ n \in Nat /\ Len(u) = n + 1 /\ u[n + 1] = e
      /\ \A k \in 1..n : u[k] = s[k]
  BY Extended
<1>2. PICK f : KeepTraced(f, T, S, <<>>)
  <2>1. <<>> \in Seq(T)
    OBVIOUS
  <2> QED
    BY <2>1, KeepTrace
<1>3. PICK g : KeepTraced(g, T, S, s)
  BY KeepTrace
<1> HIDE DEF u
<1>4. PICK h : KeepTraced(h, T, S, u)
  BY <1>1, KeepTrace
<1> HIDE DEF n
<1>5. g[n] = h[n]
  <2>1. g[0] = h[0] /\ \A k \in 1..n : g[k - 1] = h[k - 1] => g[k] = h[k]
    BY <1>1, <1>3, <1>4 DEF KeepTraced, n
  <2> QED
    BY <1>1, <2>1, TracesAgree
<1>6. h[n + 1] = KeepStep(h[n], e, S)
  BY <1>1, <1>4 DEF KeepTraced
<1>7. KeepIn(<<>>, S) = <<>>
  BY <1>2 DEF KeepTraced
<1> QED
  BY <1>1, <1>3, <1>4, <1>5, <1>6, <1>7 DEF u, n, KeepStep, KeepTraced

\* Only what is in the sequence matters.
LEMMA KeepLocal ==
    ASSUME NEW T, NEW s \in Seq(T), NEW S, NEW R, \A x \in ToSet(s) : x \in S <=> x \in R
    PROVE  KeepIn(s, S) = KeepIn(s, R)
<1> DEFINE n == Len(s)
<1>1. PICK g : KeepTraced(g, T, S, s)
  BY KeepTrace
<1>2. PICK h : KeepTraced(h, T, R, s)
  BY KeepTrace
<1>3. n \in Nat /\ \A k \in 1..n : s[k] \in S <=> s[k] \in R
  BY DEF ToSet
<1> HIDE DEF n
<1>4. g[0] = h[0] /\ \A k \in 1..n : g[k - 1] = h[k - 1] => g[k] = h[k]
  BY <1>1, <1>2, <1>3 DEF KeepTraced, KeepStep, n
<1>5. g[n] = h[n]
  BY <1>3, <1>4, TracesAgree
<1> QED
  BY <1>1, <1>2, <1>5 DEF KeepTraced, n

\* Nothing is added, and nothing in S is lost.
LEMMA KeepsMembers ==
    ASSUME NEW T, NEW S
    PROVE  \A s \in Seq(T) : /\ KeepIn(s, S) \in Seq(T) /\ Len(KeepIn(s, S)) <= Len(s)
                             /\ ToSet(KeepIn(s, S)) = ToSet(s) \cap S
<1> DEFINE R == {s \in Seq(T) : /\ KeepIn(s, S) \in Seq(T) /\ Len(KeepIn(s, S)) <= Len(s)
                               /\ ToSet(KeepIn(s, S)) = ToSet(s) \cap S}
<1>2. <<>> \in R
  <2>1. <<>> \in Seq(T) /\ ToSet(<<>>) = {} /\ Len(<<>>) = 0
    BY DEF ToSet
  <2>2. KeepIn(<<>>, S) = <<>>
    <3>1. PICK f : KeepTraced(f, T, S, <<>>)
      BY <2>1, KeepTrace
    <3> QED
      BY <2>1, <3>1 DEF KeepTraced
  <2>3. /\ KeepIn(<<>>, S) \in Seq(T) /\ Len(KeepIn(<<>>, S)) <= Len(<<>>)
        /\ ToSet(KeepIn(<<>>, S)) = ToSet(<<>>) \cap S
    <3> DEFINE e == <<>>
    <3>1. e \in Seq(T) /\ ToSet(e) = {} /\ Len(e) = 0 /\ KeepIn(e, S) = e
      BY <2>1, <2>2
    <3> HIDE DEF e
    <3>2. /\ KeepIn(e, S) \in Seq(T) /\ Len(KeepIn(e, S)) <= Len(e)
          /\ ToSet(KeepIn(e, S)) = ToSet(e) \cap S
      BY <3>1
    <3> QED
      BY <3>2 DEF e
  <2> QED
    BY <2>1, <2>3, Zenon
<1>3. ASSUME NEW s \in Seq(T), NEW e \in T, s \in R PROVE Append(s, e) \in R
  <2> DEFINE k == KeepIn(s, S)
             u == Append(s, e)
  <2>1. k \in Seq(T) /\ KeepIn(u, S) = IF e \in S THEN Append(k, e) ELSE k
    BY KeepSnoc
  <2>2. Len(k) <= Len(s) /\ ToSet(k) = ToSet(s) \cap S
    BY <1>3
  <2>3. u \in Seq(T) /\ Len(u) = Len(s) + 1 /\ Len(s) \in Nat
    BY Extended
  <2>4. ToSet(u) = ToSet(s) \union {e}
    BY Members
  <2> HIDE DEF u, k
  <2>5. /\ Append(k, e) \in Seq(T) /\ Len(Append(k, e)) = Len(k) + 1 /\ Len(k) \in Nat
        /\ ToSet(Append(k, e)) = ToSet(k) \union {e}
    BY <2>1, Extended, Members
  <2>6. /\ KeepIn(u, S) \in Seq(T) /\ Len(KeepIn(u, S)) <= Len(u)
        /\ ToSet(KeepIn(u, S)) = ToSet(u) \cap S
    BY <2>1, <2>2, <2>3, <2>4, <2>5
  <2> QED
    BY <2>3, <2>6 DEF u
<1>4. Seq(T) \subseteq R
  <2> HIDE DEF R
  <2> QED
    BY <1>2, <1>3, BuiltUp
<1> QED
  BY <1>4

\* Keeping everything.
LEMMA KeepAll == ASSUME NEW T, NEW S PROVE \A s \in Seq(T) : ToSet(s) \subseteq S => KeepIn(s, S) = s
<1> DEFINE R == {s \in Seq(T) : ToSet(s) \subseteq S => KeepIn(s, S) = s}
<1>1. <<>> \in R
  <2> DEFINE none == <<>>
  <2>1. PICK f : KeepTraced(f, T, S, none)
    <3>1. none \in Seq(T)
      OBVIOUS
    <3> QED
      BY <3>1, KeepTrace
  <2>2. none \in Seq(T) /\ Len(none) = 0
    OBVIOUS
  <2> HIDE DEF none
  <2>3. none \in R
    BY <2>1, <2>2 DEF KeepTraced, none
  <2> QED
    BY <2>3 DEF none
<1>2. ASSUME NEW s \in Seq(T), NEW e \in T, s \in R PROVE Append(s, e) \in R
  <2> DEFINE u == Append(s, e)
             k == KeepIn(s, S)
  <2>1. u \in Seq(T) /\ KeepIn(u, S) = IF e \in S THEN Append(k, e) ELSE k
    BY KeepSnoc
  <2>2. ToSet(u) = ToSet(s) \union {e}
    BY Members
  <2>3. ToSet(s) \subseteq S => k = s
    BY <1>2
  <2>4. ToSet(u) \subseteq S => KeepIn(u, S) = u
    <3> HIDE DEF k
    <3> QED
      BY <2>1, <2>2, <2>3
  <2> QED
    BY <2>1, <2>4
<1>3. Seq(T) \subseteq R
  <2> HIDE DEF R
  <2> QED
    BY <1>1, <1>2, BuiltUp
<1> QED
  BY <1>3
=============================================================================
