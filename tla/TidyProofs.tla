----------------------------- MODULE TidyProofs -----------------------------
(***************************************************************************)
(* No word is lost: whatever is said, the tidied text has the words that   *)
(* were heard but for the fillers and the set phrases that may go. And it  *)
(* closes its sentences once: tidied text ends with a terminator, and the  *)
(* tidying puts no second one behind it.                                   *)
(***************************************************************************)
EXTENDS CleanupProofs

----------------------------------------------------------------------------
(* The words of a text.                                                    *)

\* Capitals change no word.
LEMMA Forms ==
    \A e \in Glyph : /\ Lower(e) \in Glyph /\ Upper(e) \in Glyph
                     /\ IsWord(Upper(e)) <=> IsWord(e)
                     /\ Lower(Upper(e)) = Lower(e)
                     /\ Lower(e).w = e.w
BY DEF Glyph, Lower, Upper, IsWord

WordStep(words, p) == IF IsWord(p) THEN Append(words, Lower(p)) ELSE words

LEMMA WordTyped ==
    <<>> \in Seq(Glyph) /\ \A x \in Seq(Glyph), e \in Glyph : WordStep(x, e) \in Seq(Glyph)
<1> DEFINE S == Glyph
<1>1. \A e \in S : Lower(e) \in S
  BY Forms
<1> HIDE DEF S
<1>2. <<>> \in Seq(S) /\ \A x \in Seq(S), e \in S : WordStep(x, e) \in Seq(S)
  BY <1>1 DEF WordStep
<1> QED
  BY <1>2 DEF S

WordsOfTraced(g, s) ==
    /\ g[0] = <<>> /\ g[Len(s)] = WordsOf(s) /\ WordsOf(s) \in Seq(Glyph)
    /\ \A k \in 1..Len(s) : g[k] = WordStep(g[k - 1], s[k])

LEMMA WordsOfTrace == \A s \in Seq(Glyph) : \E g : WordsOfTraced(g, s)
<1> SUFFICES ASSUME NEW s \in Seq(Glyph) PROVE \E g : WordsOfTraced(g, s)
  OBVIOUS
<1> DEFINE n == Len(s)
           X == Seq(Glyph)
           G == [z \in X \X (1..n) |-> WordStep(z[1], s[z[2]])]
           Step(it) == [t \in SUBSET (1..n) |->
                           IF t = {} THEN <<>> ELSE WordStep(it[t \ {Max(t)}], s[Max(t)])]
           table == CHOOSE it : it = Step(it)
<1>1. n \in Nat /\ DOMAIN s = 1..n /\ \A k \in 1..n : s[k] \in Glyph
  OBVIOUS
<1>2. WordsOf(s) = table[1..n]
  BY <1>1 DEF WordsOf, WordStep, FoldLeft, MapThenFoldSet
<1>3. <<>> \in X /\ \A x \in X, e \in Glyph : WordStep(x, e) \in X
  BY WordTyped
<1> HIDE DEF X
<1>4. IsStep(G, X, <<>>, n)
  BY <1>1, <1>3 DEF IsStep
<1>5. \A x \in X, k \in 1..n : G[<<x, k>>] = WordStep(x, s[k])
  OBVIOUS
<1> HIDE DEF G, n
<1>6. PICK it : IsTable(it, G, X, <<>>, n)
  BY <1>4, Table
<1>7. it = Step(it)
  BY <1>5, <1>6 DEF IsTable
<1>8. table = Step(table)
  BY <1>7
<1> HIDE DEF table
<1>9. Tabulates(table, G, X, <<>>, n)
  BY <1>5, <1>8 DEF Tabulates
<1>10. PICK g : IsTrace(g, G, X, <<>>, n) /\ g[n] = table[1..n]
  BY <1>4, <1>9, TableTrace
<1>11. \A k \in 1..n : k - 1 \in 0..n
  BY <1>1
<1>12. ASSUME NEW k \in 1..n PROVE g[k] = WordStep(g[k - 1], s[k])
  <2>1. g[k - 1] \in X /\ g[k] = G[<<g[k - 1], k>>]
    BY <1>10, <1>11 DEF IsTrace
  <2> QED
    BY <1>5, <2>1
<1>13. g[0] = <<>> /\ g[n] \in X
  BY <1>1, <1>10 DEF IsTrace
<1> QED
  BY <1>2, <1>10, <1>12, <1>13 DEF n, X, WordsOfTraced

LEMMA WordsOfSnoc ==
    
        /\ WordsOf(<<>>) = <<>>
        /\ \A s \in Seq(Glyph), e \in Glyph : WordsOf(s) \in Seq(Glyph)
              /\ WordsOf(Append(s, e)) = WordStep(WordsOf(s), e)
<1> SUFFICES ASSUME TRUE
             PROVE  /\ WordsOf(<<>>) = <<>>
                    /\ \A s \in Seq(Glyph), e \in Glyph : WordsOf(s) \in Seq(Glyph)
                          /\ WordsOf(Append(s, e)) = WordStep(WordsOf(s), e)
  OBVIOUS
<1>1. WordsOf(<<>>) = <<>>
  <2> DEFINE none == <<>>
  <2>1. none \in Seq(Glyph) /\ Len(none) = 0
    OBVIOUS
  <2> HIDE DEF none
  <2>2. PICK f : WordsOfTraced(f, none)
    BY <2>1, WordsOfTrace
  <2> QED
    BY <2>1, <2>2 DEF WordsOfTraced, none
<1>2. ASSUME NEW s \in Seq(Glyph), NEW e \in Glyph
      PROVE  WordsOf(s) \in Seq(Glyph) /\ WordsOf(Append(s, e)) = WordStep(WordsOf(s), e)
  <2> DEFINE u == Append(s, e)
             n == Len(s)
  <2>1. /\ u \in Seq(Glyph) /\ n \in Nat /\ Len(u) = n + 1 /\ u[n + 1] = e
        /\ \A k \in 1..n : u[k] = s[k]
    BY Extended
  <2>2. PICK g : WordsOfTraced(g, s)
    BY WordsOfTrace
  <2> HIDE DEF u
  <2>3. PICK h : WordsOfTraced(h, u)
    BY <2>1, WordsOfTrace
  <2> HIDE DEF n
  <2>4. g[n] = h[n]
    <3>1. g[0] = h[0] /\ \A k \in 1..n : g[k - 1] = h[k - 1] => g[k] = h[k]
      BY <2>1, <2>2, <2>3 DEF WordsOfTraced, n
    <3> QED
      BY <2>1, <3>1, TracesAgree
  <2>5. h[n + 1] = WordStep(h[n], e)
    BY <2>1, <2>3 DEF WordsOfTraced
  <2> QED
    BY <2>1, <2>2, <2>3, <2>4, <2>5 DEF u, n, WordsOfTraced
<1> QED
  BY <1>1, <1>2

\* What follows a text adds its words.
LEMMA WordsJoin ==
    \A a, b \in Seq(Glyph) : WordsOf(a \o b) = WordsOf(a) \o WordsOf(b)
<1> SUFFICES ASSUME NEW a \in Seq(Glyph)
             PROVE  \A b \in Seq(Glyph) : WordsOf(a \o b) = WordsOf(a) \o WordsOf(b)
  OBVIOUS
<1> DEFINE R == {b \in Seq(Glyph) : WordsOf(a \o b) = WordsOf(a) \o WordsOf(b)}
<1>0. PICK e \in Glyph : TRUE
  BY Signs
<1>1. <<>> \in R
  <2> DEFINE none == <<>>
             w == WordsOf(a)
  <2>1. w \in Seq(Glyph)
    BY <1>0, WordsOfSnoc
  <2>2. none \in Seq(Glyph) /\ a \o none = a /\ WordsOf(none) = none
    BY WordsOfSnoc
  <2>3. w \o none = w
    <3> HIDE DEF w
    <3> QED
      BY <2>1
  <2> HIDE DEF none
  <2>4. WordsOf(a \o none) = w \o WordsOf(none)
    BY <2>2, <2>3, Zenon
  <2> QED
    BY <2>2, <2>4 DEF none
<1>2. ASSUME NEW b \in Seq(Glyph), NEW g \in Glyph, b \in R PROVE Append(b, g) \in R
  <2> DEFINE u == Append(b, g)
             c == a \o b
             wa == WordsOf(a)
             wb == WordsOf(b)
  <2>1. u \in Seq(Glyph) /\ c \in Seq(Glyph)
    OBVIOUS
  <2>2. a \o u = Append(c, g)
    BY AppendJoin
  <2>3. wa \in Seq(Glyph) /\ wb \in Seq(Glyph)
    BY WordsOfSnoc
  <2>4. WordsOf(u) = WordStep(wb, g)
    BY WordsOfSnoc
  <2>5. WordsOf(Append(c, g)) = WordStep(WordsOf(c), g)
    BY <2>1, WordsOfSnoc
  <2>6. WordsOf(c) = wa \o wb
    BY <1>2
  <2>7. WordStep(wa \o wb, g) = wa \o WordStep(wb, g)
    <3> HIDE DEF wa, wb
    <3>1. Lower(g) \in Glyph
      BY Forms
    <3>2. wa \o Append(wb, Lower(g)) = Append(wa \o wb, Lower(g))
      BY <2>3, <3>1, AppendJoin
    <3> QED
      BY <3>2 DEF WordStep
  <2>8. WordsOf(a \o u) = wa \o WordsOf(u)
    BY <2>2, <2>4, <2>5, <2>6, <2>7, Zenon
  <2> QED
    BY <2>1, <2>8
<1>3. Seq(Glyph) \subseteq R
  <2> HIDE DEF R
  <2> QED
    BY <1>1, <1>2, BuiltUp
<1> QED
  BY <1>3

\* Texts that agree piece by piece on what is a word have the same words.
SameForms(a, b) ==
    /\ Len(a) = Len(b)
    /\ \A i \in 1..Len(a) : /\ IsWord(a[i]) <=> IsWord(b[i])
                            /\ IsWord(a[i]) => Lower(a[i]) = Lower(b[i])
LEMMA SameWords == \A a, b \in Seq(Glyph) : SameForms(a, b) => WordsOf(a) = WordsOf(b)
<1> SUFFICES ASSUME NEW a \in Seq(Glyph), NEW b \in Seq(Glyph), SameForms(a, b)
             PROVE  WordsOf(a) = WordsOf(b)
  OBVIOUS
<1>1. PICK g : WordsOfTraced(g, a)
  BY WordsOfTrace
<1>2. PICK h : WordsOfTraced(h, b)
  BY WordsOfTrace
<1> DEFINE n == Len(a)
<1>3. n \in Nat /\ n = Len(b)
  BY DEF SameForms
<1>4. \A i \in 1..n : \A x : WordStep(x, a[i]) = WordStep(x, b[i])
  BY DEF WordStep, SameForms
<1> HIDE DEF n
<1>5. g[0] = h[0] /\ \A i \in 1..n : g[i - 1] = h[i - 1] => g[i] = h[i]
  BY <1>1, <1>2, <1>3, <1>4 DEF WordsOfTraced, n
<1>6. g[n] = h[n]
  BY <1>3, <1>5, TracesAgree
<1> QED
  BY <1>1, <1>2, <1>3, <1>6 DEF WordsOfTraced, n

LEMMA WordsOfTyped == \A s \in Seq(Glyph) : WordsOf(s) \in Seq(Glyph)
BY WordsOfTrace DEF WordsOfTraced

----------------------------------------------------------------------------
(* The words of a sequence of tokens.                                      *)

Tok == Seq(Glyph)
SayStep(words, t) == words \o WordsOf(t)

LEMMA SayTyped ==
    <<>> \in Seq(Glyph) /\ \A x \in Seq(Glyph), t \in Tok : SayStep(x, t) \in Seq(Glyph)
<1> SUFFICES ASSUME NEW x \in Seq(Glyph), NEW t \in Tok PROVE SayStep(x, t) \in Seq(Glyph)
  OBVIOUS
<1> DEFINE w == WordsOf(t)
<1>1. w \in Seq(Glyph)
  BY WordsOfTyped DEF Tok
<1> HIDE DEF w
<1>2. x \o w \in Seq(Glyph)
  BY <1>1
<1> QED
  BY <1>2 DEF SayStep, w

WordsTraced(g, s) ==
    /\ g[0] = <<>> /\ g[Len(s)] = Words(s) /\ Words(s) \in Seq(Glyph)
    /\ \A k \in 1..Len(s) : g[k] = SayStep(g[k - 1], s[k])

LEMMA WordsTrace == \A s \in Seq(Tok) : \E g : WordsTraced(g, s)
<1> SUFFICES ASSUME NEW s \in Seq(Tok) PROVE \E g : WordsTraced(g, s)
  OBVIOUS
<1> DEFINE n == Len(s)
           X == Seq(Glyph)
           G == [z \in X \X (1..n) |-> SayStep(z[1], s[z[2]])]
           Step(it) == [t \in SUBSET (1..n) |->
                           IF t = {} THEN <<>> ELSE SayStep(it[t \ {Max(t)}], s[Max(t)])]
           table == CHOOSE it : it = Step(it)
<1>1. n \in Nat /\ DOMAIN s = 1..n /\ \A k \in 1..n : s[k] \in Tok
  OBVIOUS
<1>2. Words(s) = table[1..n]
  BY <1>1 DEF Words, SayStep, FoldLeft, MapThenFoldSet
<1>3. <<>> \in X /\ \A x \in X, e \in Tok : SayStep(x, e) \in X
  BY SayTyped
<1> HIDE DEF X
<1>4. IsStep(G, X, <<>>, n)
  BY <1>1, <1>3 DEF IsStep
<1>5. \A x \in X, k \in 1..n : G[<<x, k>>] = SayStep(x, s[k])
  OBVIOUS
<1> HIDE DEF G, n
<1>6. PICK it : IsTable(it, G, X, <<>>, n)
  BY <1>4, Table
<1>7. it = Step(it)
  BY <1>5, <1>6 DEF IsTable
<1>8. table = Step(table)
  BY <1>7
<1> HIDE DEF table
<1>9. Tabulates(table, G, X, <<>>, n)
  BY <1>5, <1>8 DEF Tabulates
<1>10. PICK g : IsTrace(g, G, X, <<>>, n) /\ g[n] = table[1..n]
  BY <1>4, <1>9, TableTrace
<1>11. \A k \in 1..n : k - 1 \in 0..n
  BY <1>1
<1>12. ASSUME NEW k \in 1..n PROVE g[k] = SayStep(g[k - 1], s[k])
  <2>1. g[k - 1] \in X /\ g[k] = G[<<g[k - 1], k>>]
    BY <1>10, <1>11 DEF IsTrace
  <2> QED
    BY <1>5, <2>1
<1>13. g[0] = <<>> /\ g[n] \in X
  BY <1>1, <1>10 DEF IsTrace
<1> QED
  BY <1>2, <1>10, <1>12, <1>13 DEF n, X, WordsTraced

LEMMA WordsSnoc ==
    
        /\ Words(<<>>) = <<>>
        /\ \A s \in Seq(Tok), e \in Tok : Words(s) \in Seq(Glyph)
              /\ Words(Append(s, e)) = SayStep(Words(s), e)
<1> SUFFICES ASSUME TRUE
             PROVE  /\ Words(<<>>) = <<>>
                    /\ \A s \in Seq(Tok), e \in Tok : Words(s) \in Seq(Glyph)
                          /\ Words(Append(s, e)) = SayStep(Words(s), e)
  OBVIOUS
<1>1. Words(<<>>) = <<>>
  <2> DEFINE none == <<>>
  <2>1. none \in Seq(Tok) /\ Len(none) = 0
    OBVIOUS
  <2> HIDE DEF none
  <2>2. PICK f : WordsTraced(f, none)
    BY <2>1, WordsTrace
  <2> QED
    BY <2>1, <2>2 DEF WordsTraced, none
<1>2. ASSUME NEW s \in Seq(Tok), NEW e \in Tok
      PROVE  Words(s) \in Seq(Glyph) /\ Words(Append(s, e)) = SayStep(Words(s), e)
  <2> DEFINE u == Append(s, e)
             n == Len(s)
  <2>1. /\ u \in Seq(Tok) /\ n \in Nat /\ Len(u) = n + 1 /\ u[n + 1] = e
        /\ \A k \in 1..n : u[k] = s[k]
    BY Extended
  <2>2. PICK g : WordsTraced(g, s)
    BY WordsTrace
  <2> HIDE DEF u
  <2>3. PICK h : WordsTraced(h, u)
    BY <2>1, WordsTrace
  <2> HIDE DEF n
  <2>4. g[n] = h[n]
    <3>1. g[0] = h[0] /\ \A k \in 1..n : g[k - 1] = h[k - 1] => g[k] = h[k]
      BY <2>1, <2>2, <2>3 DEF WordsTraced, n
    <3> QED
      BY <2>1, <3>1, TracesAgree
  <2>5. h[n + 1] = SayStep(h[n], e)
    BY <2>1, <2>3 DEF WordsTraced
  <2> QED
    BY <2>1, <2>2, <2>3, <2>4, <2>5 DEF u, n, WordsTraced
<1> QED
  BY <1>1, <1>2

LEMMA WordsTyped == \A s \in Seq(Tok) : Words(s) \in Seq(Glyph)
BY WordsTrace DEF WordsTraced

\* Token by token.
SameSaying(a, b) == Len(a) = Len(b) /\ \A i \in 1..Len(a) : WordsOf(a[i]) = WordsOf(b[i])
LEMMA SameWordsAll == \A a, b \in Seq(Tok) : SameSaying(a, b) => Words(a) = Words(b)
<1> SUFFICES ASSUME NEW a \in Seq(Tok), NEW b \in Seq(Tok), SameSaying(a, b)
             PROVE  Words(a) = Words(b)
  OBVIOUS
<1>1. PICK g : WordsTraced(g, a)
  BY WordsTrace
<1>2. PICK h : WordsTraced(h, b)
  BY WordsTrace
<1> DEFINE n == Len(a)
<1>3. n \in Nat /\ n = Len(b)
  BY DEF SameSaying
<1>4. \A i \in 1..n : \A x : SayStep(x, a[i]) = SayStep(x, b[i])
  BY DEF SayStep, SameSaying
<1> HIDE DEF n
<1>5. g[0] = h[0] /\ \A i \in 1..n : g[i - 1] = h[i - 1] => g[i] = h[i]
  BY <1>1, <1>2, <1>3, <1>4 DEF WordsTraced, n
<1>6. g[n] = h[n]
  BY <1>3, <1>5, TracesAgree
<1> QED
  BY <1>1, <1>2, <1>3, <1>6 DEF WordsTraced, n

\* The last token, exchanged or lengthened.
LEMMA LastSaid ==
    \A ts \in Seq(Tok), t \in Tok : ts # <<>> =>
        \E x \in Seq(Glyph) : /\ Words(ts) = x \o WordsOf(ts[Len(ts)])
                              /\ Words([ts EXCEPT ![Len(ts)] = t]) = x \o WordsOf(t)
                              /\ [ts EXCEPT ![Len(ts)] = t] \in Seq(Tok)
<1> SUFFICES ASSUME NEW ts \in Seq(Tok), NEW t \in Tok, ts # <<>>
             PROVE  \E x \in Seq(Glyph) : /\ Words(ts) = x \o WordsOf(ts[Len(ts)])
                                          /\ Words([ts EXCEPT ![Len(ts)] = t]) = x \o WordsOf(t)
                                          /\ [ts EXCEPT ![Len(ts)] = t] \in Seq(Tok)
  OBVIOUS
<1> DEFINE l == ts[Len(ts)]
           y == [ts EXCEPT ![Len(ts)] = t]
<1>1. PICK f \in Seq(Tok) : ts = Append(f, l) /\ y = Append(f, t) /\ l \in Tok
  BY LastChanged
<1> HIDE DEF l, y
<1>2. Words(ts) = SayStep(Words(f), l) /\ Words(y) = SayStep(Words(f), t)
  <2>1. Words(Append(f, l)) = SayStep(Words(f), l) /\ Words(Append(f, t)) = SayStep(Words(f), t)
    BY <1>1, WordsSnoc
  <2> QED
    BY <1>1, <2>1, Zenon
<1>3. Words(f) \in Seq(Glyph)
  BY WordsTyped
<1>4. y \in Seq(Tok)
  BY <1>1
<1> QED
  BY <1>2, <1>3, <1>4, Zenon DEF SayStep, l, y

----------------------------------------------------------------------------
(* Tokens and back.                                                        *)

LEMMA SpaceIs == Space \in Glyph /\ ~IsWord(Space)
<1>1. ~IsWord(Space)
  BY DEF Space, P, IsWord, Marks
<1> QED
  BY <1>1, Signs

\* Cutting at spaces loses no word.
LEMMA SplitSaid ==
    \A s \in Seq(Glyph) : /\ Split(s, Space) \in Seq(Tok) /\ Split(s, Space) # <<>>
                          /\ Words(Split(s, Space)) = WordsOf(s)
<1> DEFINE R == {s \in Seq(Glyph) : /\ Split(s, Space) \in Seq(Tok) /\ Split(s, Space) # <<>>
                                    /\ Words(Split(s, Space)) = WordsOf(s)}
<1>1. <<>> \in R
  <2> DEFINE none == <<>>
  <2>1. none \in Seq(Glyph) /\ Split(none, Space) = <<none>> /\ none \in Tok
    BY SplitSnoc DEF Tok
  <2>2. <<none>> = Append(none, none) /\ <<none>> # <<>> /\ <<none>> \in Seq(Tok)
    BY <2>1
  <2>3. Words(none) = none /\ WordsOf(none) = none
    <3>1. PICK g : WordsTraced(g, none)
      <4>1. none \in Seq(Tok)
        OBVIOUS
      <4> QED
        BY <4>1, WordsTrace
    <3>2. PICK h : WordsOfTraced(h, none)
      BY <2>1, WordsOfTrace
    <3>3. Len(none) = 0
      OBVIOUS
    <3> HIDE DEF none
    <3> QED
      BY <3>1, <3>2, <3>3 DEF WordsTraced, WordsOfTraced, none
  <2>4. Words(<<none>>) = none
    <3>1. none \in Seq(Tok) /\ none \o none = none
      OBVIOUS
    <3> HIDE DEF none
    <3>2. Words(Append(none, none)) = SayStep(Words(none), none)
      BY <2>1, <3>1, WordsSnoc
    <3> QED
      BY <2>2, <2>3, <3>1, <3>2 DEF SayStep
  <2> HIDE DEF none
  <2>5. none \in R
    BY <2>1, <2>2, <2>3, <2>4, Zenon
  <2> QED
    BY <2>5 DEF none
<1>2. ASSUME NEW s \in Seq(Glyph), NEW e \in Glyph, s \in R PROVE Append(s, e) \in R
  <2> DEFINE u == Append(s, e)
             p == Split(s, Space)
             q == Split(u, Space)
             none == <<>>
  <2>1. u \in Seq(Glyph) /\ q = SplitStep(p, e, Space)
    BY SplitSnoc
  <2>2. p \in Seq(Tok) /\ p # none /\ Words(p) = WordsOf(s)
    BY <1>2
  <2>3. WordsOf(u) = WordStep(WordsOf(s), e)
    BY WordsOfSnoc
  <2> HIDE DEF u, p, q
  <2>4. none \in Tok
    BY DEF Tok
  <2>5. CASE e = Space
    <3>1. q = Append(p, none) /\ WordsOf(u) = Words(p)
      BY <2>1, <2>2, <2>3, <2>5, SpaceIs DEF SplitStep, WordStep
    <3>2. Words(Append(p, none)) = SayStep(Words(p), none)
      BY <2>2, <2>4, WordsSnoc
    <3>3. WordsOf(none) = none
      BY WordsOfSnoc, SpaceIs
    <3>4. SayStep(Words(p), none) = Words(p)
      <4>1. Words(p) \in Seq(Glyph)
        BY <2>2, WordsTyped
      <4>2. Words(p) \o none = Words(p)
        BY <4>1, AppendJoin, SpaceIs
      <4> QED
        BY <3>3, <4>2 DEF SayStep
    <3>5. q \in Seq(Tok) /\ q # none
      <4> HIDE DEF none
      <4>1. Append(p, none) \in Seq(Tok) /\ Append(p, none) # <<>>
        BY <2>2, <2>4
      <4> QED
        BY <3>1, <4>1 DEF none
    <3> QED
      BY <2>1, <3>1, <3>2, <3>4, <3>5 DEF u, q
  <2>6. CASE e # Space
    <3> DEFINE l == p[Len(p)]
               t == Append(l, e)
    <3>1. q = [p EXCEPT ![Len(p)] = t]
      BY <2>1, <2>6 DEF SplitStep
    <3>2. l \in Tok /\ t \in Tok
      <4>1. l \in Tok
        BY <2>2
      <4> HIDE DEF l
      <4> QED
        BY <4>1 DEF Tok
    <3> HIDE DEF t
    <3>3. PICK x \in Seq(Glyph) : /\ Words(p) = x \o WordsOf(l)
                                  /\ Words([p EXCEPT ![Len(p)] = t]) = x \o WordsOf(t)
                                  /\ [p EXCEPT ![Len(p)] = t] \in Seq(Tok)
      BY <2>2, <3>2, LastSaid
    <3>4. WordsOf(t) = WordStep(WordsOf(l), e) /\ WordsOf(l) \in Seq(Glyph)
      BY <3>2, WordsOfSnoc DEF Tok, t
    <3> HIDE DEF l
    <3>5. x \o WordStep(WordsOf(l), e) = WordStep(x \o WordsOf(l), e)
      <4>1. Lower(e) \in Glyph
        BY Forms
      <4>2. x \o Append(WordsOf(l), Lower(e)) = Append(x \o WordsOf(l), Lower(e))
        BY <3>4, <4>1, AppendJoin
      <4> QED
        BY <4>2 DEF WordStep
    <3>6. Words(q) = WordsOf(u)
      BY <2>2, <2>3, <3>1, <3>3, <3>4, <3>5, Zenon
    <3>7. q \in Seq(Tok)
      BY <3>1, <3>3
    <3>8. q # none
      <4>1. Len(q) = Len(p) /\ Len(p) # 0
        BY <2>2, <3>1
      <4> QED
        BY <4>1
    <3> QED
      BY <2>1, <3>6, <3>7, <3>8 DEF u, q
  <2> QED
    BY <2>5, <2>6
<1>3. Seq(Glyph) \subseteq R
  <2> HIDE DEF R
  <2> QED
    BY <1>1, <1>2, BuiltUp
<1> QED
  BY <1>3

\* Leaving out tokens without words loses none.
LEMMA KeepSaid ==
    ASSUME NEW S, \A t \in Tok : t \notin S => WordsOf(t) = <<>>
    PROVE  \A ts \in Seq(Tok) : Words(KeepIn(ts, S)) = Words(ts)
<1> DEFINE R == {ts \in Seq(Tok) : Words(KeepIn(ts, S)) = Words(ts)}
<1>1. <<>> \in R
  <2> DEFINE none == <<>>
  <2>1. none \in Seq(Tok) /\ none \in Tok
    BY DEF Tok
  <2>2. KeepIn(none, S) = none
    BY <2>1, KeepSnoc
  <2> QED
    BY <2>1, <2>2
<1>2. ASSUME NEW ts \in Seq(Tok), NEW t \in Tok, ts \in R PROVE Append(ts, t) \in R
  <2> DEFINE u == Append(ts, t)
             k == KeepIn(ts, S)
  <2>1. u \in Seq(Tok) /\ k \in Seq(Tok) /\ KeepIn(u, S) = IF t \in S THEN Append(k, t) ELSE k
    BY KeepSnoc
  <2>2. Words(k) = Words(ts)
    BY <1>2
  <2>3. Words(u) = SayStep(Words(ts), t) /\ Words(ts) \in Seq(Glyph)
    BY WordsSnoc
  <2> HIDE DEF u, k
  <2>4. CASE t \in S
    <3>1. Words(Append(k, t)) = SayStep(Words(k), t)
      BY <2>1, WordsSnoc
    <3> QED
      BY <2>1, <2>2, <2>3, <2>4, <3>1 DEF u
  <2>5. CASE t \notin S
    <3>1. WordsOf(t) = <<>>
      BY <2>5
    <3>2. Words(ts) \o <<>> = Words(ts)
      BY <2>3, AppendJoin, SpaceIs
    <3>3. Words(u) = Words(ts)
      BY <2>3, <3>1, <3>2 DEF SayStep
    <3> QED
      BY <2>1, <2>2, <2>5, <3>3 DEF u
  <2> QED
    BY <2>4, <2>5
<1>3. Seq(Tok) \subseteq R
  <2> HIDE DEF R
  <2> QED
    BY <1>1, <1>2, BuiltUp
<1> QED
  BY <1>3

LEMMA NoWords == Words(<<>>) = <<>> /\ WordsOf(<<>>) = <<>> /\ <<>> \in Tok
<1> DEFINE none == <<>>
<1>1. none \in Seq(Tok) /\ none \in Seq(Glyph) /\ Len(none) = 0
  OBVIOUS
<1> HIDE DEF none
<1>2. PICK g : WordsTraced(g, none)
  BY <1>1, WordsTrace
<1>3. PICK h : WordsOfTraced(h, none)
  BY <1>1, WordsOfTrace
<1> QED
  BY <1>1, <1>2, <1>3 DEF WordsTraced, WordsOfTraced, none, Tok

\* What the tokens of a text say is what the text says.
LEMMA TokensSaid ==
    \A s \in Seq(Glyph) : Tokens(s) \in Seq(Tok) /\ Words(Tokens(s)) = WordsOf(s)
<1> SUFFICES ASSUME NEW s \in Seq(Glyph) PROVE Tokens(s) \in Seq(Tok) /\ Words(Tokens(s)) = WordsOf(s)
  OBVIOUS
<1> DEFINE p == Split(s, Space)
           S == ToSet(p) \ {<<>>}
           R == Tok \ {<<>>}
<1>1. p \in Seq(Tok) /\ Words(p) = WordsOf(s)
  BY SplitSaid
<1>2. Tokens(s) = KeepIn(p, S)
  BY DEF Tokens
<1> HIDE DEF p
<1>3. KeepIn(p, S) = KeepIn(p, R)
  <2>1. \A x \in ToSet(p) : x \in S <=> x \in R
    BY <1>1 DEF ToSet
  <2> HIDE DEF S, R
  <2> QED
    BY <1>1, <2>1, KeepLocal
<1>4. \A t \in Tok : t \notin R => WordsOf(t) = <<>>
  BY NoWords
<1>5. Words(KeepIn(p, R)) = Words(p)
  <2> HIDE DEF R
  <2> QED
    BY <1>1, <1>4, KeepSaid
<1>6. KeepIn(p, R) \in Seq(Tok)
  BY <1>1, KeepsMembers
<1> QED
  BY <1>1, <1>2, <1>3, <1>5, <1>6

JoinStep(text, t) == IF text = <<>> THEN t ELSE text \o <<Space>> \o t

LEMMA JoinTyped == <<>> \in Tok /\ \A x, t \in Tok : JoinStep(x, t) \in Tok
<1> DEFINE one == <<Space>>
<1>1. one \in Tok
  BY SpaceIs DEF Tok
<1> HIDE DEF one
<1>2. \A x, t \in Tok : x \o one \o t \in Tok
  BY <1>1 DEF Tok
<1> QED
  BY <1>2, NoWords DEF JoinStep, one

JoinTraced(g, s) ==
    /\ g[0] = <<>> /\ g[Len(s)] = Join(s) /\ Join(s) \in Tok
    /\ \A k \in 1..Len(s) : g[k] = JoinStep(g[k - 1], s[k])

LEMMA JoinTrace == \A s \in Seq(Tok) : \E g : JoinTraced(g, s)
<1> SUFFICES ASSUME NEW s \in Seq(Tok) PROVE \E g : JoinTraced(g, s)
  OBVIOUS
<1> DEFINE n == Len(s)
           X == Tok
           G == [z \in X \X (1..n) |-> JoinStep(z[1], s[z[2]])]
           Step(it) == [t \in SUBSET (1..n) |->
                           IF t = {} THEN <<>> ELSE JoinStep(it[t \ {Max(t)}], s[Max(t)])]
           table == CHOOSE it : it = Step(it)
<1>1. n \in Nat /\ DOMAIN s = 1..n /\ \A k \in 1..n : s[k] \in Tok
  OBVIOUS
<1>2. Join(s) = table[1..n]
  BY <1>1 DEF Join, JoinStep, FoldLeft, MapThenFoldSet
<1>3. <<>> \in X /\ \A x \in X, e \in Tok : JoinStep(x, e) \in X
  BY JoinTyped
<1> HIDE DEF X
<1>4. IsStep(G, X, <<>>, n)
  BY <1>1, <1>3 DEF IsStep
<1>5. \A x \in X, k \in 1..n : G[<<x, k>>] = JoinStep(x, s[k])
  OBVIOUS
<1> HIDE DEF G, n
<1>6. PICK it : IsTable(it, G, X, <<>>, n)
  BY <1>4, Table
<1>7. it = Step(it)
  BY <1>5, <1>6 DEF IsTable
<1>8. table = Step(table)
  BY <1>7
<1> HIDE DEF table
<1>9. Tabulates(table, G, X, <<>>, n)
  BY <1>5, <1>8 DEF Tabulates
<1>10. PICK g : IsTrace(g, G, X, <<>>, n) /\ g[n] = table[1..n]
  BY <1>4, <1>9, TableTrace
<1>11. \A k \in 1..n : k - 1 \in 0..n
  BY <1>1
<1>12. ASSUME NEW k \in 1..n PROVE g[k] = JoinStep(g[k - 1], s[k])
  <2>1. g[k - 1] \in X /\ g[k] = G[<<g[k - 1], k>>]
    BY <1>10, <1>11 DEF IsTrace
  <2> QED
    BY <1>5, <2>1
<1>13. g[0] = <<>> /\ g[n] \in X
  BY <1>1, <1>10 DEF IsTrace
<1> QED
  BY <1>2, <1>10, <1>12, <1>13 DEF n, X, JoinTraced

LEMMA JoinSnoc ==
    
        /\ Join(<<>>) = <<>>
        /\ \A s \in Seq(Tok), e \in Tok : Join(s) \in Tok
              /\ Join(Append(s, e)) = JoinStep(Join(s), e)
<1> SUFFICES ASSUME TRUE
             PROVE  /\ Join(<<>>) = <<>>
                    /\ \A s \in Seq(Tok), e \in Tok : Join(s) \in Tok
                          /\ Join(Append(s, e)) = JoinStep(Join(s), e)
  OBVIOUS
<1>1. Join(<<>>) = <<>>
  <2> DEFINE none == <<>>
  <2>1. none \in Seq(Tok) /\ Len(none) = 0
    OBVIOUS
  <2> HIDE DEF none
  <2>2. PICK f : JoinTraced(f, none)
    BY <2>1, JoinTrace
  <2> QED
    BY <2>1, <2>2 DEF JoinTraced, none
<1>2. ASSUME NEW s \in Seq(Tok), NEW e \in Tok
      PROVE  Join(s) \in Tok /\ Join(Append(s, e)) = JoinStep(Join(s), e)
  <2> DEFINE u == Append(s, e)
             n == Len(s)
  <2>1. /\ u \in Seq(Tok) /\ n \in Nat /\ Len(u) = n + 1 /\ u[n + 1] = e
        /\ \A k \in 1..n : u[k] = s[k]
    BY Extended
  <2>2. PICK g : JoinTraced(g, s)
    BY JoinTrace
  <2> HIDE DEF u
  <2>3. PICK h : JoinTraced(h, u)
    BY <2>1, JoinTrace
  <2> HIDE DEF n
  <2>4. g[n] = h[n]
    <3>1. g[0] = h[0] /\ \A k \in 1..n : g[k - 1] = h[k - 1] => g[k] = h[k]
      BY <2>1, <2>2, <2>3 DEF JoinTraced, n
    <3> QED
      BY <2>1, <3>1, TracesAgree
  <2>5. h[n + 1] = JoinStep(h[n], e)
    BY <2>1, <2>3 DEF JoinTraced
  <2> QED
    BY <2>1, <2>2, <2>3, <2>4, <2>5 DEF u, n, JoinTraced
<1> QED
  BY <1>1, <1>2

\* Joining tokens says what they say.
LEMMA JoinSaid == \A ts \in Seq(Tok) : Join(ts) \in Tok /\ WordsOf(Join(ts)) = Words(ts)
<1> DEFINE R == {ts \in Seq(Tok) : WordsOf(Join(ts)) = Words(ts)}
<1>1. <<>> \in R
  <2>1. Join(<<>>) = <<>>
    BY JoinSnoc
  <2>2. <<>> \in Seq(Tok)
    OBVIOUS
  <2> QED
    BY <2>1, <2>2, NoWords
<1>2. ASSUME NEW ts \in Seq(Tok), NEW t \in Tok, ts \in R PROVE Append(ts, t) \in R
  <2> DEFINE u == Append(ts, t)
             x == Join(ts)
  <2>1. u \in Seq(Tok) /\ x \in Tok /\ Join(u) = JoinStep(x, t)
    BY JoinSnoc
  <2>2. WordsOf(x) = Words(ts) /\ Words(u) = SayStep(Words(ts), t)
    BY <1>2, WordsSnoc
  <2> HIDE DEF u, x
  <2>3. WordsOf(JoinStep(x, t)) = WordsOf(x) \o WordsOf(t)
    <3>1. WordsOf(x) \in Seq(Glyph) /\ WordsOf(t) \in Seq(Glyph)
      BY <2>1, WordsOfTyped DEF Tok
    <3>2. CASE x = <<>>
      <4>1. <<>> \o WordsOf(t) = WordsOf(t)
        BY <3>1, AppendJoin, SpaceIs
      <4> QED
        BY <3>2, <4>1, NoWords DEF JoinStep
    <3>3. CASE x # <<>>
      <4> DEFINE one == <<Space>>
                 none == <<>>
                 v == x \o one
      <4>1. one \in Tok /\ one = Append(none, Space)
        BY SpaceIs DEF Tok
      <4>2. WordsOf(one) = none
        <5>1. WordsOf(Append(none, Space)) = WordStep(WordsOf(none), Space)
          <6>1. none \in Seq(Glyph)
            OBVIOUS
          <6> QED
            BY <6>1, WordsOfSnoc, SpaceIs
        <5> QED
          BY <4>1, <5>1, NoWords, SpaceIs DEF WordStep
      <4> HIDE DEF one
      <4>3. v \in Tok /\ WordsOf(v) = WordsOf(x) \o WordsOf(one)
        BY <2>1, <4>1, WordsJoin, AppendJoin, SpaceIs DEF Tok
      <4>4. WordsOf(x) \o none = WordsOf(x)
        BY <3>1, AppendJoin, SpaceIs
      <4>5. JoinStep(x, t) = v \o t
        BY <3>3 DEF JoinStep, one
      <4> HIDE DEF v
      <4>6. WordsOf(v \o t) = WordsOf(v) \o WordsOf(t)
        BY <4>3, WordsJoin DEF Tok
      <4> QED
        BY <4>2, <4>3, <4>4, <4>5, <4>6
    <3> QED
      BY <3>2, <3>3
  <2> QED
    BY <2>1, <2>2, <2>3 DEF SayStep, u
<1>3. Seq(Tok) \subseteq R
  <2> HIDE DEF R
  <2> QED
    BY <1>1, <1>2, BuiltUp
<1>4. \A ts \in Seq(Tok) : Join(ts) \in Tok
  BY JoinTrace DEF JoinTraced
<1> QED
  BY <1>3, <1>4

----------------------------------------------------------------------------
(* Marks.                                                                  *)

\* What trim_end_matches leaves is a stretch from the beginning.
LEMMA TrimEndIs ==
    \A T : \A s \in Seq(T) : \A drop : \E m \in 0..Len(s) :
        /\ TrimEnd(s, drop) = SubSeq(s, 1, m)
        /\ m # 0 => s[m].w \notin drop
        /\ \A i \in (m + 1)..Len(s) : s[i].w \in drop
<1> SUFFICES ASSUME NEW T, NEW s \in Seq(T), NEW drop
             PROVE  \E m \in 0..Len(s) :
                       /\ TrimEnd(s, drop) = SubSeq(s, 1, m)
                       /\ m # 0 => s[m].w \notin drop
                       /\ \A i \in (m + 1)..Len(s) : s[i].w \in drop
  OBVIOUS
<1> DEFINE n == Len(s)
           keep == {i \in DOMAIN s : s[i].w \notin drop}
           all == {0} \union keep
           m == Max(all)
<1>1. n \in Nat /\ DOMAIN s = 1..n
  OBVIOUS
<1>2. keep \subseteq 1..n /\ \A i \in 1..n : i \in keep <=> s[i].w \notin drop
  OBVIOUS
<1>3. TrimEnd(s, drop) = SubSeq(s, 1, m)
  BY DEF TrimEnd
<1> HIDE DEF keep, n, m
<1>4. m \in all /\ \A i \in keep : i <= m
  <2>1. CASE keep = {}
    <3>1. \A x \in all : (\A y \in all : x >= y) <=> x = 0
      BY <2>1
    <3>2. \E x \in all : \A y \in all : x >= y
      BY <2>1
    <3> QED
      BY <2>1, <3>1, <3>2 DEF Max, m
  <2>2. CASE keep # {}
    <3>2. PICK x \in keep : \A y \in keep : x >= y
      BY <1>1, <1>2, <2>2, GreatestIn
    <3>3. x \in all /\ \A y \in all : x >= y
      BY <1>1, <1>2, <3>2
    <3>4. \A z \in all : (\A y \in all : z >= y) => z = x
      BY <1>1, <1>2, <3>2, <3>3
    <3>5. m = x
      BY <3>3, <3>4 DEF Max, m
    <3> QED
      BY <3>2, <3>5
  <2> QED
    BY <2>1, <2>2
<1>5. m \in 0..n
  BY <1>1, <1>2, <1>4
<1>6. m # 0 => s[m].w \notin drop
  BY <1>1, <1>2, <1>4, <1>5
<1>7. \A i \in (m + 1)..n : s[i].w \in drop
  BY <1>1, <1>2, <1>4, <1>5
<1> QED
  BY <1>3, <1>5, <1>6, <1>7 DEF n

\* A text of marks says nothing.
LEMMA MarksSaid == \A s \in Seq(Glyph) : (\A p \in ToSet(s) : ~IsWord(p)) => WordsOf(s) = <<>>
<1> DEFINE R == {s \in Seq(Glyph) : (\A p \in ToSet(s) : ~IsWord(p)) => WordsOf(s) = <<>>}
<1>1. <<>> \in R
  <2>1. <<>> \in Seq(Glyph)
    OBVIOUS
  <2> QED
    BY <2>1, NoWords
<1>2. ASSUME NEW s \in Seq(Glyph), NEW e \in Glyph, s \in R PROVE Append(s, e) \in R
  <2> DEFINE u == Append(s, e)
  <2>1. u \in Seq(Glyph) /\ WordsOf(u) = WordStep(WordsOf(s), e)
    BY WordsOfSnoc
  <2>2. ToSet(u) = ToSet(s) \union {e}
    BY Members
  <2> HIDE DEF u
  <2>3. (\A p \in ToSet(u) : ~IsWord(p)) => WordsOf(u) = <<>>
    BY <1>2, <2>1, <2>2 DEF WordStep
  <2> QED
    BY <2>1, <2>3 DEF u
<1>3. Seq(Glyph) \subseteq R
  <2> HIDE DEF R
  <2> QED
    BY <1>1, <1>2, BuiltUp
<1> QED
  BY <1>3

LEMMA MarkIs == \A m \in Marks : P(m) \in Glyph /\ ~IsWord(P(m)) /\ P(m).w = m
<1>1. \A m \in Marks : P(m).w = m /\ P(m) = [w |-> m, cap |-> FALSE]
  BY DEF P
<1>2. Marks \subseteq Chars
  BY DEF Chars
<1>3. \A C : \A m \in C : [w |-> m, cap |-> FALSE] \in [w : C, cap : BOOLEAN]
  OBVIOUS
<1>4. \A m \in Marks : [w |-> m, cap |-> FALSE] \in Glyph
  BY <1>2, <1>3 DEF Glyph
<1> HIDE DEF P
<1>5. \A m \in Marks : ~IsWord(P(m))
  BY <1>1 DEF IsWord
<1> QED
  BY <1>1, <1>4, <1>5, Zenon

\* A text with another mark at a mark's place.
LEMMA MarkChanged ==
    \A s \in Seq(Glyph), k \in Nat, e \in Glyph : k \in 1..Len(s) =>
        /\ [s EXCEPT ![k] = e] \in Seq(Glyph) /\ Len([s EXCEPT ![k] = e]) = Len(s)
        /\ [s EXCEPT ![k] = e][k] = e
        /\ \A i \in 1..Len(s) : i # k => [s EXCEPT ![k] = e][i] = s[i]
        /\ (IsWord(s[k]) <=> IsWord(e)) /\ (IsWord(e) => Lower(s[k]) = Lower(e)) =>
              WordsOf([s EXCEPT ![k] = e]) = WordsOf(s)
<1> SUFFICES ASSUME NEW s \in Seq(Glyph), NEW e \in Glyph, NEW k \in 1..Len(s)
             PROVE  /\ [s EXCEPT ![k] = e] \in Seq(Glyph) /\ Len([s EXCEPT ![k] = e]) = Len(s)
                    /\ [s EXCEPT ![k] = e][k] = e
                    /\ \A i \in 1..Len(s) : i # k => [s EXCEPT ![k] = e][i] = s[i]
                    /\ (IsWord(s[k]) <=> IsWord(e)) /\ (IsWord(e) => Lower(s[k]) = Lower(e)) =>
                          WordsOf([s EXCEPT ![k] = e]) = WordsOf(s)
  OBVIOUS
<1> DEFINE y == [s EXCEPT ![k] = e]
           n == Len(s)
           T == Glyph
<1>1. n \in Nat /\ DOMAIN s = 1..n /\ \A i \in 1..n : s[i] \in T
  OBVIOUS
<1>2. y = [i \in DOMAIN s |-> IF i = k THEN e ELSE s[i]]
  OBVIOUS
<1>3. y = [i \in 1..n |-> IF i = k THEN e ELSE s[i]]
  BY <1>1, <1>2, Zenon
<1> HIDE DEF y, n, T
<1>4. k \in 1..n /\ e \in T
  BY DEF n, T
<1>5. /\ y \in Seq(T) /\ Len(y) = n /\ y[k] = e
      /\ \A i \in 1..n : i # k => y[i] = s[i]
  BY <1>1, <1>3, <1>4
<1>6. ASSUME IsWord(s[k]) <=> IsWord(e), IsWord(e) => Lower(s[k]) = Lower(e)
      PROVE  WordsOf(y) = WordsOf(s)
  <2>1. SameForms(s, y)
    BY <1>5, <1>6 DEF SameForms, n
  <2> QED
    BY <1>5, <2>1, SameWords DEF T
<1> QED
  BY <1>5, <1>6 DEF y, n, T

\* Closing the sentence touches marks.
LEMMA ClosedSaid ==
    \A s \in Seq(Glyph) : CloseSentence(s) \in Seq(Glyph) /\ WordsOf(CloseSentence(s)) = WordsOf(s)
<1> SUFFICES ASSUME NEW s \in Seq(Glyph)
             PROVE  CloseSentence(s) \in Seq(Glyph) /\ WordsOf(CloseSentence(s)) = WordsOf(s)
  OBVIOUS
<1> DEFINE content == TrimEnd(s, Closers)
           stop == P(".")
           comma == P(",")
<1>1. PICK m \in 0..Len(s) : content = SubSeq(s, 1, m)
  BY TrimEndIs
<1>2. stop \in Glyph /\ comma \in Glyph /\ ~IsWord(stop) /\ ~IsWord(comma)
  <2>1. "." \in Marks /\ "," \in Marks
    BY DEF Marks, Terminators, Pauses
  <2> QED
    BY <2>1, MarkIs, Zenon
<1>3. CloseSentence(s) =
        IF content = <<>> THEN s
        ELSE IF Last(content) = comma THEN [s EXCEPT ![Len(content)] = stop]
        ELSE IF Last(content).w \in (Terminators \union {":", ";"}) THEN s
        ELSE Append(s, stop)
  BY DEF CloseSentence
<1>4. Len(content) = m /\ (content # <<>> => m \in 1..Len(s) /\ Last(content) = s[m])
  <2>1. Len(content) = m /\ \A i \in 1..m : content[i] = s[i]
    BY <1>1
  <2>2. content # <<>> => m # 0
    BY <1>1
  <2> HIDE DEF content
  <2> QED
    BY <2>1, <2>2 DEF Last
<1> HIDE DEF content, stop, comma
<1> DEFINE y == [s EXCEPT ![m] = stop]
           z == Append(s, stop)
<1>5. \/ CloseSentence(s) = s
      \/ CloseSentence(s) = z
      \/ content # <<>> /\ Last(content) = comma /\ CloseSentence(s) = y
  BY <1>3, <1>4, Zenon
<1>6. content # <<>> /\ Last(content) = comma => y \in Seq(Glyph) /\ WordsOf(y) = WordsOf(s)
  BY <1>2, <1>4, MarkChanged
<1>7. z \in Seq(Glyph) /\ WordsOf(z) = WordsOf(s)
  <2>1. WordsOf(z) = WordStep(WordsOf(s), stop)
    BY <1>2, WordsOfSnoc
  <2>2. z \in Seq(Glyph)
    BY <1>2
  <2> QED
    BY <1>2, <2>1, <2>2 DEF WordStep
<1> HIDE DEF y, z
<1> QED
  BY <1>5, <1>6, <1>7

\* A capital changes no word.
LEMMA CapitalSaid ==
    \A t \in Tok : CapitalizeFirst(t) \in Tok /\ WordsOf(CapitalizeFirst(t)) = WordsOf(t)
<1> SUFFICES ASSUME NEW t \in Tok
             PROVE  CapitalizeFirst(t) \in Tok /\ WordsOf(CapitalizeFirst(t)) = WordsOf(t)
  OBVIOUS
<1> DEFINE letters == {k \in DOMAIN t : IsLetters(t[k])}
           k == Min(letters)
           e == Upper(t[k])
<1>1. t \in Seq(Glyph) /\ Len(t) \in Nat /\ letters \subseteq 1..Len(t)
  BY DEF Tok
<1>2. CapitalizeFirst(t) = IF letters = {} THEN t ELSE [t EXCEPT ![k] = e]
  BY DEF CapitalizeFirst
<1> HIDE DEF letters
<1>3. CASE letters = {}
  BY <1>2, <1>3
<1>4. CASE letters # {}
  <2>1. k \in 1..Len(t) /\ k \in Nat
    <3> DEFINE n == Len(t)
    <3>1. n \in Nat /\ letters \subseteq 1..n
      BY <1>1
    <3> HIDE DEF n
    <3>2. k \in letters
      BY <1>4, <3>1, SmallestIn
    <3> HIDE DEF k
    <3>3. k \in 1..n
      BY <3>1, <3>2
    <3>4. k \in Nat
      BY <3>3
    <3> QED
      BY <3>3, <3>4 DEF n
  <2> HIDE DEF k
  <2>2. t[k] \in Glyph
    BY <1>1, <2>1
  <2>3. e \in Glyph /\ (IsWord(e) <=> IsWord(t[k])) /\ Lower(e) = Lower(t[k])
    BY <2>2, Forms
  <2> HIDE DEF e
  <2>4. [t EXCEPT ![k] = e] \in Seq(Glyph) /\ WordsOf([t EXCEPT ![k] = e]) = WordsOf(t)
    BY <1>1, <2>1, <2>3, MarkChanged
  <2> QED
    BY <1>2, <1>4, <2>4 DEF Tok
<1> QED
  BY <1>3, <1>4

LEMMA CapitalsSaid ==
    \A ts \in Seq(Tok) :
        CapitalizeSentences(ts) \in Seq(Tok) /\ Words(CapitalizeSentences(ts)) = Words(ts)
<1> SUFFICES ASSUME NEW ts \in Seq(Tok)
             PROVE  CapitalizeSentences(ts) \in Seq(Tok) /\ Words(CapitalizeSentences(ts)) = Words(ts)
  OBVIOUS
<1> DEFINE y == CapitalizeSentences(ts)
           n == Len(ts)
<1>1. n \in Nat /\ DOMAIN ts = 1..n /\ \A i \in 1..n : ts[i] \in Tok
  OBVIOUS
<1>2. DOMAIN y = 1..n /\ y = [i \in 1..n |-> y[i]]
  BY <1>1 DEF CapitalizeSentences
<1>3. \A i \in 1..n : y[i] = CapitalizeFirst(ts[i]) \/ y[i] = ts[i]
  BY <1>1 DEF CapitalizeSentences
<1> HIDE DEF y
<1>4. \A i \in 1..n : y[i] \in Tok /\ WordsOf(y[i]) = WordsOf(ts[i])
  BY <1>1, <1>3, CapitalSaid
<1>5. y \in Seq(Tok) /\ Len(y) = n
  BY <1>1, <1>2, <1>4
<1>6. SameSaying(ts, y)
  BY <1>4, <1>5 DEF SameSaying
<1>7. Words(ts) = Words(y)
  BY <1>5, <1>6, SameWordsAll
<1> QED
  BY <1>5, <1>7 DEF y

\* Punctuation that is handed back changes no word.
LEMMA HandedSaid ==
    \A ts \in Seq(Tok), marks \in Tok : WordsOf(marks) = <<>> /\ ts # <<>> =>
        /\ [ts EXCEPT ![Len(ts)] = @ \o marks] \in Seq(Tok)
        /\ Words([ts EXCEPT ![Len(ts)] = @ \o marks]) = Words(ts)
<1> SUFFICES ASSUME NEW ts \in Seq(Tok), NEW marks \in Tok, WordsOf(marks) = <<>>, ts # <<>>
             PROVE  /\ [ts EXCEPT ![Len(ts)] = @ \o marks] \in Seq(Tok)
                    /\ Words([ts EXCEPT ![Len(ts)] = @ \o marks]) = Words(ts)
  OBVIOUS
<1> DEFINE l == ts[Len(ts)]
           t == l \o marks
<1>1. l \in Tok
  OBVIOUS
<1>2. [ts EXCEPT ![Len(ts)] = @ \o marks] = [ts EXCEPT ![Len(ts)] = t]
  OBVIOUS
<1> HIDE DEF l
<1>3. t \in Tok /\ WordsOf(t) = WordsOf(l) \o WordsOf(marks)
  BY <1>1, WordsJoin, AppendJoin, SpaceIs DEF Tok
<1>4. WordsOf(l) \o <<>> = WordsOf(l)
  <2>1. WordsOf(l) \in Seq(Glyph)
    BY <1>1, WordsOfTyped DEF Tok
  <2> QED
    BY <2>1, AppendJoin, SpaceIs
<1>5. WordsOf(t) = WordsOf(l)
  BY <1>3, <1>4
<1> HIDE DEF t
<1>6. PICK x \in Seq(Glyph) : /\ Words(ts) = x \o WordsOf(l)
                              /\ Words([ts EXCEPT ![Len(ts)] = t]) = x \o WordsOf(t)
                              /\ [ts EXCEPT ![Len(ts)] = t] \in Seq(Tok)
  BY <1>3, LastSaid DEF l
<1> QED
  BY <1>2, <1>5, <1>6

EndsOf(t) == KeepIn(t, {p \in ToSet(t) : Ends(p)})
LEMMA EndsSaid == \A t \in Tok : EndsOf(t) \in Tok /\ WordsOf(EndsOf(t)) = <<>>
<1> SUFFICES ASSUME NEW t \in Tok PROVE EndsOf(t) \in Tok /\ WordsOf(EndsOf(t)) = <<>>
  OBVIOUS
<1> DEFINE S == {p \in ToSet(t) : Ends(p)}
           k == KeepIn(t, S)
<1>1. k \in Seq(Glyph) /\ ToSet(k) = ToSet(t) \cap S
  <2> HIDE DEF S
  <2> QED
    BY KeepsMembers DEF Tok
<1>2. \A p \in S : ~IsWord(p)
  BY DEF Ends, IsWord, Marks
<1> HIDE DEF S
<1>3. \A p \in ToSet(k) : ~IsWord(p)
  BY <1>1, <1>2
<1>4. WordsOf(k) = <<>>
  BY <1>1, <1>3, MarksSaid
<1>5. EndsOf(t) = k
  BY DEF EndsOf, S
<1> QED
  BY <1>1, <1>4, <1>5 DEF Tok

LEMMA HandBackSaid ==
    \A ts \in Seq(Tok), marks \in Tok : WordsOf(marks) = <<>> =>
        HandBack(ts, marks) \in Seq(Tok) /\ Words(HandBack(ts, marks)) = Words(ts)
BY HandedSaid DEF HandBack

----------------------------------------------------------------------------
(* What the tidying leaves out.                                            *)

Indices(s) == [i \in DOMAIN s |-> i]
LEMMA IndicesTyped ==
    \A T : \A s \in Seq(T) : Indices(s) \in Seq(DOMAIN s) /\ Len(Indices(s)) = Len(s)
<1> SUFFICES ASSUME NEW T, NEW s \in Seq(T)
             PROVE  Indices(s) \in Seq(DOMAIN s) /\ Len(Indices(s)) = Len(s)
  OBVIOUS
<1> DEFINE n == Len(s)
           D == DOMAIN s
<1>1. n \in Nat /\ D = 1..n
  OBVIOUS
<1>2. Indices(s) = [i \in 1..n |-> i]
  BY <1>1 DEF Indices
<1> HIDE DEF n, D
<1>3. [i \in 1..n |-> i] \in Seq(D) /\ Len([i \in 1..n |-> i]) = n
  BY <1>1
<1> QED
  BY <1>2, <1>3 DEF n, D

UnfillStep(h, words, i) ==
    IF Dropped(h, i) THEN HandBack(words, EndsOf(h[i])) ELSE Append(words, h[i])
UnfilledOver(h, s) == FoldLeft(LAMBDA words, i : UnfillStep(h, words, i), <<>>, s)
PickStep(h, kept, picked, i) == IF i \in kept THEN Append(picked, h[i]) ELSE picked
PickOver(h, kept, s) == FoldLeft(LAMBDA picked, i : PickStep(h, kept, picked, i), <<>>, s)

LEMMA UnfillTyped ==
    \A h : h \in Seq(Tok) =>
        /\ <<>> \in Seq(Tok)
        /\ \A x \in Seq(Tok), i \in DOMAIN h : UnfillStep(h, x, i) \in Seq(Tok)
<1> SUFFICES ASSUME NEW h \in Seq(Tok), NEW x \in Seq(Tok), NEW i \in DOMAIN h
             PROVE  UnfillStep(h, x, i) \in Seq(Tok)
  OBVIOUS
<1>1. h[i] \in Tok
  OBVIOUS
<1>2. HandBack(x, EndsOf(h[i])) \in Seq(Tok)
  BY <1>1, EndsSaid, HandBackSaid
<1>3. Append(x, h[i]) \in Seq(Tok)
  BY <1>1
<1> QED
  BY <1>2, <1>3 DEF UnfillStep

LEMMA PickTyped ==
    \A h, kept : h \in Seq(Tok) =>
        /\ <<>> \in Seq(Tok)
        /\ \A x \in Seq(Tok), i \in DOMAIN h : PickStep(h, kept, x, i) \in Seq(Tok)
BY DEF PickStep

UnfilledOverTraced(g, s, ts) ==
    /\ g[0] = <<>> /\ g[Len(s)] = UnfilledOver(ts, s) /\ UnfilledOver(ts, s) \in Seq(Tok)
    /\ \A k \in 1..Len(s) : g[k] = UnfillStep(ts, g[k - 1], s[k])

LEMMA UnfilledOverTrace ==
    \A ts : ts \in Seq(Tok) => \A s \in Seq(DOMAIN ts) : \E g : UnfilledOverTraced(g, s, ts)
<1> SUFFICES ASSUME NEW ts, ts \in Seq(Tok), NEW s \in Seq(DOMAIN ts)
             PROVE  \E g : UnfilledOverTraced(g, s, ts)
  OBVIOUS
<1> DEFINE n == Len(s)
           X == Seq(Tok)
           G == [z \in X \X (1..n) |-> UnfillStep(ts, z[1], s[z[2]])]
           Step(it) == [t \in SUBSET (1..n) |->
                           IF t = {} THEN <<>> ELSE UnfillStep(ts, it[t \ {Max(t)}], s[Max(t)])]
           table == CHOOSE it : it = Step(it)
<1>1. n \in Nat /\ DOMAIN s = 1..n /\ \A k \in 1..n : s[k] \in DOMAIN ts
  OBVIOUS
<1>2. UnfilledOver(ts, s) = table[1..n]
  BY <1>1 DEF UnfilledOver, FoldLeft, MapThenFoldSet
<1>3. <<>> \in X /\ \A x \in X, e \in DOMAIN ts : UnfillStep(ts, x, e) \in X
  BY UnfillTyped
<1> HIDE DEF X
<1>4. IsStep(G, X, <<>>, n)
  BY <1>1, <1>3 DEF IsStep
<1>5. \A x \in X, k \in 1..n : G[<<x, k>>] = UnfillStep(ts, x, s[k])
  OBVIOUS
<1> HIDE DEF G, n
<1>6. PICK it : IsTable(it, G, X, <<>>, n)
  BY <1>4, Table
<1>7. it = Step(it)
  BY <1>5, <1>6 DEF IsTable
<1>8. table = Step(table)
  BY <1>7
<1> HIDE DEF table
<1>9. Tabulates(table, G, X, <<>>, n)
  BY <1>5, <1>8 DEF Tabulates
<1>10. PICK g : IsTrace(g, G, X, <<>>, n) /\ g[n] = table[1..n]
  BY <1>4, <1>9, TableTrace
<1>11. \A k \in 1..n : k - 1 \in 0..n
  BY <1>1
<1>12. ASSUME NEW k \in 1..n PROVE g[k] = UnfillStep(ts, g[k - 1], s[k])
  <2>1. g[k - 1] \in X /\ g[k] = G[<<g[k - 1], k>>]
    BY <1>10, <1>11 DEF IsTrace
  <2> QED
    BY <1>5, <2>1
<1>13. g[0] = <<>> /\ g[n] \in X
  BY <1>1, <1>10 DEF IsTrace
<1> QED
  BY <1>2, <1>10, <1>12, <1>13 DEF n, X, UnfilledOverTraced

LEMMA UnfilledOverSnoc ==
    \A ts : ts \in Seq(Tok) => 
        /\ UnfilledOver(ts, <<>>) = <<>>
        /\ \A s \in Seq(DOMAIN ts), e \in DOMAIN ts : UnfilledOver(ts, s) \in Seq(Tok)
              /\ UnfilledOver(ts, Append(s, e)) = UnfillStep(ts, UnfilledOver(ts, s), e)
<1> SUFFICES ASSUME NEW ts, ts \in Seq(Tok)
             PROVE  /\ UnfilledOver(ts, <<>>) = <<>>
                    /\ \A s \in Seq(DOMAIN ts), e \in DOMAIN ts : UnfilledOver(ts, s) \in Seq(Tok)
                          /\ UnfilledOver(ts, Append(s, e)) = UnfillStep(ts, UnfilledOver(ts, s), e)
  OBVIOUS
<1>1. UnfilledOver(ts, <<>>) = <<>>
  <2> DEFINE none == <<>>
  <2>1. none \in Seq(DOMAIN ts) /\ Len(none) = 0
    OBVIOUS
  <2> HIDE DEF none
  <2>2. PICK f : UnfilledOverTraced(f, none, ts)
    BY <2>1, UnfilledOverTrace
  <2> QED
    BY <2>1, <2>2 DEF UnfilledOverTraced, none
<1>2. ASSUME NEW s \in Seq(DOMAIN ts), NEW e \in DOMAIN ts
      PROVE  /\ UnfilledOver(ts, s) \in Seq(Tok)
             /\ UnfilledOver(ts, Append(s, e)) = UnfillStep(ts, UnfilledOver(ts, s), e)
  <2> DEFINE u == Append(s, e)
             n == Len(s)
  <2>1. /\ u \in Seq(DOMAIN ts) /\ n \in Nat /\ Len(u) = n + 1 /\ u[n + 1] = e
        /\ \A k \in 1..n : u[k] = s[k]
    BY Extended
  <2>2. PICK g : UnfilledOverTraced(g, s, ts)
    BY UnfilledOverTrace
  <2> HIDE DEF u
  <2>3. PICK h : UnfilledOverTraced(h, u, ts)
    BY <2>1, UnfilledOverTrace
  <2> HIDE DEF n
  <2>4. g[n] = h[n]
    <3>1. g[0] = h[0] /\ \A k \in 1..n : g[k - 1] = h[k - 1] => g[k] = h[k]
      BY <2>1, <2>2, <2>3 DEF UnfilledOverTraced, n
    <3> QED
      BY <2>1, <3>1, TracesAgree
  <2>5. h[n + 1] = UnfillStep(ts, h[n], e)
    BY <2>1, <2>3 DEF UnfilledOverTraced
  <2> QED
    BY <2>1, <2>2, <2>3, <2>4, <2>5 DEF u, n, UnfilledOverTraced
<1> QED
  BY <1>1, <1>2

PickOverTraced(g, s, ts, kept) ==
    /\ g[0] = <<>> /\ g[Len(s)] = PickOver(ts, kept, s) /\ PickOver(ts, kept, s) \in Seq(Tok)
    /\ \A k \in 1..Len(s) : g[k] = PickStep(ts, kept, g[k - 1], s[k])

LEMMA PickOverTrace ==
    \A ts, kept : ts \in Seq(Tok) => \A s \in Seq(DOMAIN ts) : \E g : PickOverTraced(g, s, ts, kept)
<1> SUFFICES ASSUME NEW ts, NEW kept, ts \in Seq(Tok), NEW s \in Seq(DOMAIN ts)
             PROVE  \E g : PickOverTraced(g, s, ts, kept)
  OBVIOUS
<1> DEFINE n == Len(s)
           X == Seq(Tok)
           G == [z \in X \X (1..n) |-> PickStep(ts, kept, z[1], s[z[2]])]
           Step(it) == [t \in SUBSET (1..n) |->
                           IF t = {} THEN <<>> ELSE PickStep(ts, kept, it[t \ {Max(t)}], s[Max(t)])]
           table == CHOOSE it : it = Step(it)
<1>1. n \in Nat /\ DOMAIN s = 1..n /\ \A k \in 1..n : s[k] \in DOMAIN ts
  OBVIOUS
<1>2. PickOver(ts, kept, s) = table[1..n]
  BY <1>1 DEF PickOver, FoldLeft, MapThenFoldSet
<1>3. <<>> \in X /\ \A x \in X, e \in DOMAIN ts : PickStep(ts, kept, x, e) \in X
  BY PickTyped
<1> HIDE DEF X
<1>4. IsStep(G, X, <<>>, n)
  BY <1>1, <1>3 DEF IsStep
<1>5. \A x \in X, k \in 1..n : G[<<x, k>>] = PickStep(ts, kept, x, s[k])
  OBVIOUS
<1> HIDE DEF G, n
<1>6. PICK it : IsTable(it, G, X, <<>>, n)
  BY <1>4, Table
<1>7. it = Step(it)
  BY <1>5, <1>6 DEF IsTable
<1>8. table = Step(table)
  BY <1>7
<1> HIDE DEF table
<1>9. Tabulates(table, G, X, <<>>, n)
  BY <1>5, <1>8 DEF Tabulates
<1>10. PICK g : IsTrace(g, G, X, <<>>, n) /\ g[n] = table[1..n]
  BY <1>4, <1>9, TableTrace
<1>11. \A k \in 1..n : k - 1 \in 0..n
  BY <1>1
<1>12. ASSUME NEW k \in 1..n PROVE g[k] = PickStep(ts, kept, g[k - 1], s[k])
  <2>1. g[k - 1] \in X /\ g[k] = G[<<g[k - 1], k>>]
    BY <1>10, <1>11 DEF IsTrace
  <2> QED
    BY <1>5, <2>1
<1>13. g[0] = <<>> /\ g[n] \in X
  BY <1>1, <1>10 DEF IsTrace
<1> QED
  BY <1>2, <1>10, <1>12, <1>13 DEF n, X, PickOverTraced

LEMMA PickOverSnoc ==
    \A ts, kept : ts \in Seq(Tok) => 
        /\ PickOver(ts, kept, <<>>) = <<>>
        /\ \A s \in Seq(DOMAIN ts), e \in DOMAIN ts : PickOver(ts, kept, s) \in Seq(Tok)
              /\ PickOver(ts, kept, Append(s, e)) = PickStep(ts, kept, PickOver(ts, kept, s), e)
<1> SUFFICES ASSUME NEW ts, NEW kept, ts \in Seq(Tok)
             PROVE  /\ PickOver(ts, kept, <<>>) = <<>>
                    /\ \A s \in Seq(DOMAIN ts), e \in DOMAIN ts : PickOver(ts, kept, s) \in Seq(Tok)
                          /\ PickOver(ts, kept, Append(s, e)) = PickStep(ts, kept, PickOver(ts, kept, s), e)
  OBVIOUS
<1>1. PickOver(ts, kept, <<>>) = <<>>
  <2> DEFINE none == <<>>
  <2>1. none \in Seq(DOMAIN ts) /\ Len(none) = 0
    OBVIOUS
  <2> HIDE DEF none
  <2>2. PICK f : PickOverTraced(f, none, ts, kept)
    BY <2>1, PickOverTrace
  <2> QED
    BY <2>1, <2>2 DEF PickOverTraced, none
<1>2. ASSUME NEW s \in Seq(DOMAIN ts), NEW e \in DOMAIN ts
      PROVE  /\ PickOver(ts, kept, s) \in Seq(Tok)
             /\ PickOver(ts, kept, Append(s, e)) = PickStep(ts, kept, PickOver(ts, kept, s), e)
  <2> DEFINE u == Append(s, e)
             n == Len(s)
  <2>1. /\ u \in Seq(DOMAIN ts) /\ n \in Nat /\ Len(u) = n + 1 /\ u[n + 1] = e
        /\ \A k \in 1..n : u[k] = s[k]
    BY Extended
  <2>2. PICK g : PickOverTraced(g, s, ts, kept)
    BY PickOverTrace
  <2> HIDE DEF u
  <2>3. PICK h : PickOverTraced(h, u, ts, kept)
    BY <2>1, PickOverTrace
  <2> HIDE DEF n
  <2>4. g[n] = h[n]
    <3>1. g[0] = h[0] /\ \A k \in 1..n : g[k - 1] = h[k - 1] => g[k] = h[k]
      BY <2>1, <2>2, <2>3 DEF PickOverTraced, n
    <3> QED
      BY <2>1, <3>1, TracesAgree
  <2>5. h[n + 1] = PickStep(ts, kept, h[n], e)
    BY <2>1, <2>3 DEF PickOverTraced
  <2> QED
    BY <2>1, <2>2, <2>3, <2>4, <2>5 DEF u, n, PickOverTraced
<1> QED
  BY <1>1, <1>2

LEMMA OverIs ==
    \A h, kept : /\ Unfilled(h) = UnfilledOver(h, Indices(h))
                 /\ Pick(h, kept) = PickOver(h, kept, Indices(h))
<1>1. \A h : Unfilled(h) = UnfilledOver(h, Indices(h))
  BY DEF Unfilled, UnfilledOver, UnfillStep, Indices, EndsOf
<1>2. \A h, kept : Pick(h, kept) = PickOver(h, kept, Indices(h))
  BY DEF Pick, PickOver, PickStep, Indices
<1> QED
  BY <1>1, <1>2

\* What is not dropped is said.
LEMMA UnfilledSaid ==
    \A h \in Seq(Tok) : \A kept : (\A i \in DOMAIN h : i \in kept <=> ~Dropped(h, i)) =>
        /\ Unfilled(h) \in Seq(Tok) /\ Pick(h, kept) \in Seq(Tok)
        /\ Words(Unfilled(h)) = Words(Pick(h, kept))
<1> SUFFICES ASSUME NEW h \in Seq(Tok), NEW kept, \A i \in DOMAIN h : i \in kept <=> ~Dropped(h, i)
             PROVE  /\ Unfilled(h) \in Seq(Tok) /\ Pick(h, kept) \in Seq(Tok)
                    /\ Words(Unfilled(h)) = Words(Pick(h, kept))
  OBVIOUS
<1> DEFINE D == DOMAIN h
           R == {s \in Seq(D) : /\ UnfilledOver(h, s) \in Seq(Tok) /\ PickOver(h, kept, s) \in Seq(Tok)
                                /\ Words(UnfilledOver(h, s)) = Words(PickOver(h, kept, s))}
<1>1. <<>> \in R
  <2> DEFINE none == <<>>
  <2>1. /\ UnfilledOver(h, none) = none /\ PickOver(h, kept, none) = none /\ none \in Seq(D)
        /\ none \in Seq(Tok)
    BY UnfilledOverSnoc, PickOverSnoc
  <2> HIDE DEF none
  <2>2. none \in R
    BY <2>1
  <2> QED
    BY <2>2 DEF none
<1>2. ASSUME NEW s \in Seq(D), NEW i \in D, s \in R PROVE Append(s, i) \in R
  <2> DEFINE u == Append(s, i)
             x == UnfilledOver(h, s)
             y == PickOver(h, kept, s)
  <2>1. /\ u \in Seq(D) /\ UnfilledOver(h, u) = UnfillStep(h, x, i)
        /\ PickOver(h, kept, u) = PickStep(h, kept, y, i)
    <3>1. \A z \in Seq(D), e \in D :
              /\ UnfilledOver(h, Append(z, e)) = UnfillStep(h, UnfilledOver(h, z), e)
              /\ PickOver(h, kept, Append(z, e)) = PickStep(h, kept, PickOver(h, kept, z), e)
      BY UnfilledOverSnoc, PickOverSnoc
    <3>2. u \in Seq(D)
      OBVIOUS
    <3> HIDE DEF D
    <3> QED
      BY <3>1, <3>2
  <2>2. x \in Seq(Tok) /\ y \in Seq(Tok) /\ Words(x) = Words(y)
    BY <1>2
  <2>3. h[i] \in Tok
    OBVIOUS
  <2>4. i \in kept <=> ~Dropped(h, i)
    OBVIOUS
  <2> HIDE DEF u, x, y
  <2>5. UnfillStep(h, x, i) \in Seq(Tok) /\ PickStep(h, kept, y, i) \in Seq(Tok)
    BY <2>2, UnfillTyped, PickTyped
  <2>6. CASE Dropped(h, i)
    <3>1. Words(HandBack(x, EndsOf(h[i]))) = Words(x)
      BY <2>2, <2>3, EndsSaid, HandBackSaid
    <3>2. Words(UnfillStep(h, x, i)) = Words(PickStep(h, kept, y, i))
      BY <2>2, <2>4, <2>6, <3>1 DEF UnfillStep, PickStep
    <3> QED
      BY <2>1, <2>5, <3>2 DEF u
  <2>7. CASE ~Dropped(h, i)
    <3>1. Words(Append(x, h[i])) = Words(Append(y, h[i]))
      BY <2>2, <2>3, WordsSnoc
    <3>2. Words(UnfillStep(h, x, i)) = Words(PickStep(h, kept, y, i))
      BY <2>4, <2>7, <3>1 DEF UnfillStep, PickStep
    <3> QED
      BY <2>1, <2>5, <3>2 DEF u
  <2> QED
    BY <2>6, <2>7
<1>3. Seq(D) \subseteq R
  <2> HIDE DEF R, D
  <2> QED
    BY <1>1, <1>2, BuiltUp
<1>4. Indices(h) \in R
  BY <1>3, IndicesTyped
<1> QED
  BY <1>4, OverIs

\* Picking everything.
LEMMA PickAll == \A h \in Seq(Tok) : Pick(h, DOMAIN h) = h
<1> SUFFICES ASSUME NEW h \in Seq(Tok) PROVE Pick(h, DOMAIN h) = h
  OBVIOUS
<1> DEFINE D == DOMAIN h
           n == Len(h)
           s == Indices(h)
<1>1. s \in Seq(D) /\ Len(s) = n /\ n \in Nat /\ D = 1..n
  BY IndicesTyped
<1>2. PICK g : PickOverTraced(g, s, h, D)
  BY <1>1, PickOverTrace
<1> DEFINE S == {k \in 0..n : g[k] = SubSeq(h, 1, k)}
<1>3. 0 \in S
  <2>1. SubSeq(h, 1, 0) = <<>>
    OBVIOUS
  <2>2. g[0] = SubSeq(h, 1, 0)
    BY <1>2, <2>1, Zenon DEF PickOverTraced
  <2>3. 0 \in 0..n
    BY <1>1
  <2> QED
    BY <2>2, <2>3
<1>4. ASSUME NEW k \in 0..(n - 1), k \in S PROVE k + 1 \in S
  <2>1. k + 1 \in 1..n /\ (k + 1) - 1 = k /\ k + 1 \in D /\ k + 1 \in 0..n
    BY <1>1
  <2>2. s[k + 1] = k + 1
    BY <2>1 DEF Indices
  <2>3. g[k + 1] = Append(g[k], h[k + 1])
    BY <1>1, <1>2, <2>1, <2>2 DEF PickOverTraced, PickStep
  <2>4. SubSeq(h, 1, k + 1) = Append(SubSeq(h, 1, k), h[k + 1])
    BY Longer
  <2> QED
    BY <1>4, <2>1, <2>3, <2>4
<1>5. n \in S
  <2>1. 0..n \subseteq S
    <3> HIDE DEF S, n
    <3> QED
      BY <1>1, <1>3, <1>4, UpTo
  <2> QED
    BY <1>1, <2>1
<1>6. SubSeq(h, 1, n) = h
  OBVIOUS
<1> QED
  BY <1>1, <1>2, <1>5, <1>6, OverIs DEF PickOverTraced

\* What is dropped was a bare filler.
LEMMA DroppedBare ==
    ASSUME NEW h \in Seq(Tok), NEW i \in DOMAIN h, NEW kept, Dropped(h, i)
    PROVE  BareFiller(h, kept, i)
<1> DEFINE core == Trim(h[i], Marks)
<1>1. /\ FillerBody(h[i], i = 1 /\ InitialFillerAllowed(h))
      /\ ~HasNumber(h, i - 1) /\ ~HasNumber(h, i + 1)
  BY DEF Dropped
<1>2. /\ Len(core) = 1 /\ core[1].w \in Fillers
      /\ core[1].cap => i = 1 /\ InitialFillerAllowed(h)
  BY <1>1 DEF FillerBody
<1>3. BareFiller(h, kept, i) <=>
        /\ Len(core) = 1 /\ core[1].w \in Fillers
        /\ ~HasNumber(h, i - 1) /\ ~HasNumber(h, i + 1)
        /\ core[1].cap =>
            /\ kept \cap 1..(i - 1) = {}
            /\ \/ IsMark(Last(h[i]))
               \/ i < Len(h) /\ (StartsLower(h[i + 1]) \/ i + 1 \notin kept)
  BY DEF BareFiller
<1> HIDE DEF core
<1>4. ASSUME core[1].cap
      PROVE  /\ kept \cap 1..(i - 1) = {}
             /\ \/ IsMark(Last(h[i]))
                \/ i < Len(h) /\ (StartsLower(h[i + 1]) \/ i + 1 \notin kept)
  <2>1. i = 1 /\ InitialFillerAllowed(h)
    BY <1>2, <1>4
  <2>2. 1..(i - 1) = {}
    BY <2>1
  <2>3. \/ Last(h[1]).w \in Terminators \union Pauses
        \/ Len(h) > 1 /\ StartsLower(h[2])
    BY <2>1 DEF InitialFillerAllowed
  <2>4. CASE Last(h[1]).w \in Terminators \union Pauses
    <3>1. IsMark(Last(h[1]))
      BY <2>4 DEF IsMark, IsWord, Marks
    <3> QED
      BY <2>1, <2>2, <3>1
  <2>5. CASE Len(h) > 1 /\ StartsLower(h[2])
    <3>1. i < Len(h) /\ StartsLower(h[i + 1])
      BY <2>1, <2>5
    <3> QED
      BY <2>2, <3>1
  <2> QED
    BY <2>3, <2>4, <2>5
<1> QED
  BY <1>1, <1>2, <1>3, <1>4

\* The tidied text says what was not dropped.
LEMMA AutoSaid ==
    \A text \in Seq(Glyph) :
        AutoTidy(text) \in Seq(Glyph) /\ WordsOf(AutoTidy(text)) = Words(Unfilled(Tokens(text)))
<1> SUFFICES ASSUME NEW text \in Seq(Glyph)
             PROVE  /\ AutoTidy(text) \in Seq(Glyph)
                    /\ WordsOf(AutoTidy(text)) = Words(Unfilled(Tokens(text)))
  OBVIOUS
<1> DEFINE h == Tokens(text)
           words == Unfilled(h)
           joined == Join(words)
           closed == CloseSentence(joined)
           toks == Tokens(closed)
           caps == CapitalizeSentences(toks)
<1>1. AutoTidy(text) = IF words = <<>> THEN <<>> ELSE Join(caps)
  BY DEF AutoTidy
<1>2. h \in Seq(Tok)
  BY TokensSaid
<1> HIDE DEF h
<1>3. words \in Seq(Tok)
  <2> DEFINE kept == {i \in DOMAIN h : ~Dropped(h, i)}
  <2>1. \A i \in DOMAIN h : i \in kept <=> ~Dropped(h, i)
    OBVIOUS
  <2> HIDE DEF kept
  <2> QED
    BY <1>2, <2>1, UnfilledSaid
<1> HIDE DEF words
<1>4. joined \in Seq(Glyph) /\ WordsOf(joined) = Words(words)
  BY <1>3, JoinSaid DEF Tok
<1> HIDE DEF joined
<1>5. closed \in Seq(Glyph) /\ WordsOf(closed) = Words(words)
  BY <1>4, ClosedSaid
<1> HIDE DEF closed
<1>6. toks \in Seq(Tok) /\ Words(toks) = Words(words)
  BY <1>5, TokensSaid
<1> HIDE DEF toks
<1>7. caps \in Seq(Tok) /\ Words(caps) = Words(words)
  BY <1>6, CapitalsSaid
<1> HIDE DEF caps
<1>8. Join(caps) \in Seq(Glyph) /\ WordsOf(Join(caps)) = Words(words)
  BY <1>7, JoinSaid DEF Tok
<1>9. words = <<>> => Words(words) = <<>> /\ WordsOf(<<>>) = <<>> /\ <<>> \in Seq(Glyph)
  BY NoWords DEF Tok
<1> QED
  BY <1>1, <1>8, <1>9 DEF words, h

----------------------------------------------------------------------------
(* What is heard is text.                                                  *)

SayOn(toks, t) == toks \o t
LEMMA SayOnTyped == <<>> \in Seq(Tok) /\ \A x, t \in Seq(Tok) : SayOn(x, t) \in Seq(Tok)
BY DEF SayOn

SaidTraced(g, s) ==
    /\ g[0] = <<>> /\ g[Len(s)] = Said(s) /\ Said(s) \in Seq(Tok)
    /\ \A k \in 1..Len(s) : g[k] = SayOn(g[k - 1], s[k])

LEMMA SaidTrace == \A s \in Seq(Seq(Tok)) : \E g : SaidTraced(g, s)
<1> SUFFICES ASSUME NEW s \in Seq(Seq(Tok)) PROVE \E g : SaidTraced(g, s)
  OBVIOUS
<1> DEFINE n == Len(s)
           X == Seq(Tok)
           G == [z \in X \X (1..n) |-> SayOn(z[1], s[z[2]])]
           Step(it) == [t \in SUBSET (1..n) |->
                           IF t = {} THEN <<>> ELSE SayOn(it[t \ {Max(t)}], s[Max(t)])]
           table == CHOOSE it : it = Step(it)
<1>1. n \in Nat /\ DOMAIN s = 1..n /\ \A k \in 1..n : s[k] \in Seq(Tok)
  OBVIOUS
<1>2. Said(s) = table[1..n]
  BY <1>1 DEF Said, SayOn, FoldLeft, MapThenFoldSet
<1>3. <<>> \in X /\ \A x \in X, e \in Seq(Tok) : SayOn(x, e) \in X
  BY SayOnTyped
<1> HIDE DEF X
<1>4. IsStep(G, X, <<>>, n)
  BY <1>1, <1>3 DEF IsStep
<1>5. \A x \in X, k \in 1..n : G[<<x, k>>] = SayOn(x, s[k])
  OBVIOUS
<1> HIDE DEF G, n
<1>6. PICK it : IsTable(it, G, X, <<>>, n)
  BY <1>4, Table
<1>7. it = Step(it)
  BY <1>5, <1>6 DEF IsTable
<1>8. table = Step(table)
  BY <1>7
<1> HIDE DEF table
<1>9. Tabulates(table, G, X, <<>>, n)
  BY <1>5, <1>8 DEF Tabulates
<1>10. PICK g : IsTrace(g, G, X, <<>>, n) /\ g[n] = table[1..n]
  BY <1>4, <1>9, TableTrace
<1>11. \A k \in 1..n : k - 1 \in 0..n
  BY <1>1
<1>12. ASSUME NEW k \in 1..n PROVE g[k] = SayOn(g[k - 1], s[k])
  <2>1. g[k - 1] \in X /\ g[k] = G[<<g[k - 1], k>>]
    BY <1>10, <1>11 DEF IsTrace
  <2> QED
    BY <1>5, <2>1
<1>13. g[0] = <<>> /\ g[n] \in X
  BY <1>1, <1>10 DEF IsTrace
<1> QED
  BY <1>2, <1>10, <1>12, <1>13 DEF n, X, SaidTraced

ReplaceStep(text, entry, st, i) ==
    IF i < st.next THEN st
    ELSE IF MatchesAt(text, i, entry.mis)
    THEN [out |-> st.out \o entry.term, next |-> i + Len(entry.mis)]
    ELSE [out |-> Append(st.out, text[i]), next |-> i + 1]
Replacing == [out : Tok, next : Nat]
Start == [out |-> <<>>, next |-> 1]
ReplaceOver(text, entry, s) == FoldLeft(LAMBDA st, i : ReplaceStep(text, entry, st, i), Start, s)

LEMMA EntryIs == \A e \in Entries : e.term \in Tok /\ Len(e.mis) \in Nat
<1> SUFFICES ASSUME NEW mis \in Seq(Glyph), NEW term \in Seq(Glyph)
             PROVE  Entry(mis, term).term \in Tok /\ Len(Entry(mis, term).mis) \in Nat
  BY DEF Entries
<1> DEFINE l == LowerAll(mis)
           n == Len(mis)
<1>1. n \in Nat /\ DOMAIN mis = 1..n
  OBVIOUS
<1>2. l = [i \in 1..n |-> Lower(mis[i])]
  BY <1>1 DEF LowerAll
<1> HIDE DEF n
<1>3. Len(l) = n
  <2> HIDE DEF l
  <2> QED
    BY <1>1, <1>2
<1>4. Entry(mis, term) = [mis |-> l, term |-> term]
  BY DEF Entry
<1> HIDE DEF l
<1> QED
  BY <1>1, <1>3, <1>4 DEF Tok

LEMMA ReplaceTyped ==
    \A text, entry : text \in Tok /\ entry \in Entries =>
        /\ Start \in Replacing
        /\ \A x \in Replacing, i \in DOMAIN text : ReplaceStep(text, entry, x, i) \in Replacing
<1> SUFFICES ASSUME NEW text \in Tok, NEW entry \in Entries
             PROVE  /\ Start \in Replacing
                    /\ \A x \in Replacing, i \in DOMAIN text : ReplaceStep(text, entry, x, i) \in Replacing
  OBVIOUS
<1>1. \A o \in Tok, n \in Nat : [out |-> o, next |-> n] \in Replacing
  <2>1. \A A, B : \A o \in A, n \in B : [out |-> o, next |-> n] \in [out : A, next : B]
    OBVIOUS
  <2> QED
    BY <2>1, Zenon DEF Replacing
<1>2. \A x \in Replacing : x.out \in Tok
  BY DEF Replacing
<1>3. entry.term \in Tok /\ Len(entry.mis) \in Nat
  BY EntryIs
<1>4. text \in Seq(Glyph)
  BY DEF Tok
<1>5. \A i \in DOMAIN text : i \in Nat /\ text[i] \in Glyph
  BY <1>4
<1>6. \A x \in Replacing, i \in DOMAIN text :
        /\ x.out \o entry.term \in Tok /\ i + Len(entry.mis) \in Nat
        /\ Append(x.out, text[i]) \in Tok /\ i + 1 \in Nat
  <2> SUFFICES ASSUME NEW x \in Replacing, NEW i \in DOMAIN text
               PROVE  /\ x.out \o entry.term \in Tok /\ i + Len(entry.mis) \in Nat
                      /\ Append(x.out, text[i]) \in Tok /\ i + 1 \in Nat
    OBVIOUS
  <2> DEFINE o == x.out
             t == entry.term
             g == text[i]
  <2>1. o \in Seq(Glyph) /\ t \in Seq(Glyph) /\ g \in Glyph
    BY <1>2, <1>3, <1>5 DEF Tok
  <2>2. i + Len(entry.mis) \in Nat /\ i + 1 \in Nat
    BY <1>3, <1>5
  <2> HIDE DEF o, t, g
  <2>3. o \o t \in Seq(Glyph) /\ Append(o, g) \in Seq(Glyph)
    BY <2>1
  <2> QED
    BY <2>2, <2>3 DEF Tok, o, t, g
<1>7. Start \in Replacing
  <2>1. 1 \in Nat
    OBVIOUS
  <2> QED
    BY <1>1, <2>1, NoWords, Zenon DEF Start
<1>8. ASSUME NEW x \in Replacing, NEW i \in DOMAIN text
      PROVE  ReplaceStep(text, entry, x, i) \in Replacing
  <2>1. /\ [out |-> x.out \o entry.term, next |-> i + Len(entry.mis)] \in Replacing
        /\ [out |-> Append(x.out, text[i]), next |-> i + 1] \in Replacing
    BY <1>1, <1>6, Zenon
  <2> QED
    BY <2>1, Zenon DEF ReplaceStep
<1> QED
  BY <1>7, <1>8

ReplaceOverTraced(g, s, text, entry) ==
    /\ g[0] = Start /\ g[Len(s)] = ReplaceOver(text, entry, s)
    /\ ReplaceOver(text, entry, s) \in Replacing
    /\ \A k \in 1..Len(s) : g[k] = ReplaceStep(text, entry, g[k - 1], s[k])

LEMMA ReplaceOverTrace ==
    \A text, entry : text \in Tok /\ entry \in Entries =>
        \A s \in Seq(DOMAIN text) : \E g : ReplaceOverTraced(g, s, text, entry)
<1> SUFFICES ASSUME NEW text, NEW entry, text \in Tok /\ entry \in Entries, NEW s \in Seq(DOMAIN text)
             PROVE  \E g : ReplaceOverTraced(g, s, text, entry)
  OBVIOUS
<1> DEFINE n == Len(s)
           X == Replacing
           G == [z \in X \X (1..n) |-> ReplaceStep(text, entry, z[1], s[z[2]])]
           Step(it) == [t \in SUBSET (1..n) |->
                           IF t = {} THEN Start ELSE ReplaceStep(text, entry, it[t \ {Max(t)}], s[Max(t)])]
           table == CHOOSE it : it = Step(it)
<1>1. n \in Nat /\ DOMAIN s = 1..n /\ \A k \in 1..n : s[k] \in DOMAIN text
  OBVIOUS
<1>2. ReplaceOver(text, entry, s) = table[1..n]
  BY <1>1 DEF ReplaceOver, FoldLeft, MapThenFoldSet
<1>3. Start \in X /\ \A x \in X, e \in DOMAIN text : ReplaceStep(text, entry, x, e) \in X
  BY ReplaceTyped
<1> HIDE DEF X
<1>4. IsStep(G, X, Start, n)
  BY <1>1, <1>3 DEF IsStep
<1>5. \A x \in X, k \in 1..n : G[<<x, k>>] = ReplaceStep(text, entry, x, s[k])
  OBVIOUS
<1> HIDE DEF G, n
<1>6. PICK it : IsTable(it, G, X, Start, n)
  BY <1>4, Table
<1>7. it = Step(it)
  BY <1>5, <1>6 DEF IsTable
<1>8. table = Step(table)
  BY <1>7
<1> HIDE DEF table
<1>9. Tabulates(table, G, X, Start, n)
  BY <1>5, <1>8 DEF Tabulates
<1>10. PICK g : IsTrace(g, G, X, Start, n) /\ g[n] = table[1..n]
  BY <1>4, <1>9, TableTrace
<1>11. \A k \in 1..n : k - 1 \in 0..n
  BY <1>1
<1>12. ASSUME NEW k \in 1..n PROVE g[k] = ReplaceStep(text, entry, g[k - 1], s[k])
  <2>1. g[k - 1] \in X /\ g[k] = G[<<g[k - 1], k>>]
    BY <1>10, <1>11 DEF IsTrace
  <2> QED
    BY <1>5, <2>1
<1>13. g[0] = Start /\ g[n] \in X
  BY <1>1, <1>10 DEF IsTrace
<1> QED
  BY <1>2, <1>10, <1>12, <1>13 DEF n, X, ReplaceOverTraced

LEMMA ReplaceWordTyped == \A text \in Tok, entry \in Entries : ReplaceWord(text, entry) \in Tok
<1> SUFFICES ASSUME NEW text \in Tok, NEW entry \in Entries PROVE ReplaceWord(text, entry) \in Tok
  OBVIOUS
<1>1. ReplaceWord(text, entry) = ReplaceOver(text, entry, Indices(text)).out
  BY DEF ReplaceWord, ReplaceOver, ReplaceStep, Start, Indices
<1>2. Indices(text) \in Seq(DOMAIN text)
  BY IndicesTyped DEF Tok
<1>3. PICK g : ReplaceOverTraced(g, Indices(text), text, entry)
  BY <1>2, ReplaceOverTrace
<1>4. ReplaceOver(text, entry, Indices(text)) \in Replacing
  BY <1>3 DEF ReplaceOverTraced
<1> QED
  BY <1>1, <1>4 DEF Replacing

ApplyOver(text, s) == FoldLeft(LAMBDA t, entry : ReplaceWord(t, entry), text, s)
LEMMA ApplyStepTyped ==
    \A text : text \in Tok => text \in Tok /\ \A x \in Tok, e \in Entries : ReplaceWord(x, e) \in Tok
BY ReplaceWordTyped

ApplyOverTraced(g, s, text) ==
    /\ g[0] = text /\ g[Len(s)] = ApplyOver(text, s) /\ ApplyOver(text, s) \in Tok
    /\ \A k \in 1..Len(s) : g[k] = ReplaceWord(g[k - 1], s[k])

LEMMA ApplyOverTrace ==
    \A text : text \in Tok => \A s \in Seq(Entries) : \E g : ApplyOverTraced(g, s, text)
<1> SUFFICES ASSUME NEW text, text \in Tok, NEW s \in Seq(Entries)
             PROVE  \E g : ApplyOverTraced(g, s, text)
  OBVIOUS
<1> DEFINE n == Len(s)
           X == Tok
           G == [z \in X \X (1..n) |-> ReplaceWord(z[1], s[z[2]])]
           Step(it) == [t \in SUBSET (1..n) |->
                           IF t = {} THEN text ELSE ReplaceWord(it[t \ {Max(t)}], s[Max(t)])]
           table == CHOOSE it : it = Step(it)
<1>1. n \in Nat /\ DOMAIN s = 1..n /\ \A k \in 1..n : s[k] \in Entries
  OBVIOUS
<1>2. ApplyOver(text, s) = table[1..n]
  BY <1>1 DEF ApplyOver, FoldLeft, MapThenFoldSet
<1>3. text \in X /\ \A x \in X, e \in Entries : ReplaceWord(x, e) \in X
  BY ApplyStepTyped
<1> HIDE DEF X
<1>4. IsStep(G, X, text, n)
  BY <1>1, <1>3 DEF IsStep
<1>5. \A x \in X, k \in 1..n : G[<<x, k>>] = ReplaceWord(x, s[k])
  OBVIOUS
<1> HIDE DEF G, n
<1>6. PICK it : IsTable(it, G, X, text, n)
  BY <1>4, Table
<1>7. it = Step(it)
  BY <1>5, <1>6 DEF IsTable
<1>8. table = Step(table)
  BY <1>7
<1> HIDE DEF table
<1>9. Tabulates(table, G, X, text, n)
  BY <1>5, <1>8 DEF Tabulates
<1>10. PICK g : IsTrace(g, G, X, text, n) /\ g[n] = table[1..n]
  BY <1>4, <1>9, TableTrace
<1>11. \A k \in 1..n : k - 1 \in 0..n
  BY <1>1
<1>12. ASSUME NEW k \in 1..n PROVE g[k] = ReplaceWord(g[k - 1], s[k])
  <2>1. g[k - 1] \in X /\ g[k] = G[<<g[k - 1], k>>]
    BY <1>10, <1>11 DEF IsTrace
  <2> QED
    BY <1>5, <2>1
<1>13. g[0] = text /\ g[n] \in X
  BY <1>1, <1>10 DEF IsTrace
<1> QED
  BY <1>2, <1>10, <1>12, <1>13 DEF n, X, ApplyOverTraced

LEMMA ApplyTyped == \A d \in Dictionaries, text \in Tok : Apply(d, text) \in Tok
<1> SUFFICES ASSUME NEW d \in Dictionaries, NEW text \in Tok PROVE Apply(d, text) \in Tok
  OBVIOUS
<1>1. Apply(d, text) = ApplyOver(text, d.replacements)
  BY DEF Apply, ApplyOver, FoldLeft, MapThenFoldSet
<1>2. d.replacements \in Seq(Entries)
  BY DEF Dictionaries
<1>3. PICK g : ApplyOverTraced(g, d.replacements, text)
  BY <1>2, ApplyOverTrace
<1> QED
  BY <1>1, <1>3 DEF ApplyOverTraced

LEMMA HeardTyped ==
    ASSUME spoken \in Seq(Seq(Tok)), dict \in Dictionaries
    PROVE  Apply(dict, Join(Said(spoken))) \in Seq(Glyph)
<1>2. PICK g : SaidTraced(g, spoken)
  BY SaidTrace
<1>3. Said(spoken) \in Seq(Tok)
  BY <1>2 DEF SaidTraced
<1> QED
  BY <1>3, JoinSaid, ApplyTyped DEF Tok

----------------------------------------------------------------------------
(* What is typed.                                                          *)

SpeechInv ==
    /\ spoken \in Seq(Seq(Tok))
    /\ mode # "none" => /\ spoken # <<>>
                        /\ mode \in Modes
                        /\ typed = Reply(mode, Apply(dict, Join(Said(spoken))))

LEMMA Stretches == Vocabulary \subseteq Seq(Tok)
<1> DEFINE Piece == [w : STRING, cap : BOOLEAN]
<1>1. Piece \subseteq Glyph
  BY DEF Glyph, Chars
<1>2. Vocabulary \subseteq Seq(Seq(Piece))
  BY TextAssumption
<1> HIDE DEF Piece
<1>3. Seq(Piece) \subseteq Seq(Glyph)
  BY <1>1
<1> DEFINE S == Seq(Piece)
           U == Seq(Glyph)
<1>4. Seq(S) \subseteq Seq(U)
  <2> HIDE DEF S, U
  <2>1. S \subseteq U
    BY <1>3 DEF S, U
  <2> QED
    BY <2>1
<1> QED
  BY <1>2, <1>4 DEF Tok

LEMMA SpeechInit == Init => SpeechInv
<1> DEFINE S == Seq(Tok)
<1>1. <<>> \in Seq(S)
  <2> HIDE DEF S
  <2> QED
    OBVIOUS
<1> QED
  BY <1>1 DEF Init, SpeechInv

LEMMA SpeechNext == SpeechInv /\ [Next]_vars => SpeechInv'
<1> SUFFICES ASSUME SpeechInv, [Next]_vars PROVE SpeechInv'
  OBVIOUS
<1> DEFINE S == Seq(Tok)
<1>0. <<>> \in Seq(S) /\ spoken \in Seq(S)
  <2>1. spoken \in Seq(S)
    BY DEF SpeechInv
  <2> HIDE DEF S
  <2> QED
    BY <2>1
<1>1. CASE Teach
  BY <1>1 DEF Teach, SpeechInv
<1>2. CASE Restart
  BY <1>2 DEF Restart, SpeechInv
<1>3. CASE Hear
  <2>1. PICK t \in Vocabulary : spoken' = Append(spoken, t)
    BY <1>3 DEF Hear
  <2>2. t \in S
    BY Stretches
  <2>3. spoken' \in Seq(S)
    <3> HIDE DEF S
    <3> QED
      BY <1>0, <2>1, <2>2
  <2> QED
    BY <1>3, <2>3 DEF Hear, SpeechInv
<1>4. CASE Transcribe
  <2>1. PICK m \in Modes : mode' = m /\ typed' = Reply(m, Apply(dict, Join(Said(spoken))))
    BY <1>4 DEF Transcribe
  <2>2. spoken # <<>> /\ spoken' = spoken /\ dict' = dict
    BY <1>4 DEF Transcribe
  <2>4. typed' = Reply(mode', Apply(dict', Join(Said(spoken'))))
    BY <2>1, <2>2, Zenon
  <2> QED
    BY <1>0, <2>1, <2>2, <2>4, Zenon DEF SpeechInv
<1>5. CASE NextUtterance
  BY <1>0, <1>5 DEF NextUtterance, SpeechInv
<1>6. CASE UNCHANGED vars
  <2>1. UNCHANGED <<spoken, mode, typed, dict>>
    BY <1>6 DEF vars
  <2> QED
    BY <2>1 DEF SpeechInv
<1> QED
  BY <1>1, <1>2, <1>3, <1>4, <1>5, <1>6 DEF Next

\* Raw and auto.
LEMMA AutoOnlyFillers ==
    ASSUME SpeechInv, dict \in Dictionaries, mode \in {"raw", "auto"}
    PROVE  OnlyFillersGo
<1> DEFINE text == Apply(dict, Join(Said(spoken)))
           h == Tokens(text)
<1>1. text \in Seq(Glyph)
  BY HeardTyped DEF SpeechInv
<1>2. Heard = h /\ typed = Reply(mode, text)
  BY DEF Heard, SpeechInv
<1> HIDE DEF text
<1>3. h \in Seq(Tok) /\ Words(h) = WordsOf(text)
  BY <1>1, TokensSaid
<1> HIDE DEF h
<1>4. CASE mode = "raw"
  <2>1. typed = text
    BY <1>2, <1>4 DEF Reply
  <2>2. Words(Tokens(typed)) = Words(Pick(h, DOMAIN h))
    BY <1>3, <2>1, PickAll DEF h
  <2>3. DOMAIN h \in SUBSET DOMAIN h /\ DOMAIN h \ DOMAIN h = {}
    OBVIOUS
  <2> QED
    BY <1>2, <2>2, <2>3 DEF OnlyFillersGo
<1>5. CASE mode = "auto"
  <2> DEFINE kept == {i \in DOMAIN h : ~Dropped(h, i)}
  <2>1. typed = AutoTidy(text)
    BY <1>2, <1>5 DEF Reply
  <2>2. WordsOf(typed) = Words(Unfilled(h)) /\ typed \in Seq(Glyph)
    BY <1>1, <2>1, AutoSaid DEF h
  <2>3. Words(Unfilled(h)) = Words(Pick(h, kept))
    <3>1. \A i \in DOMAIN h : i \in kept <=> ~Dropped(h, i)
      OBVIOUS
    <3> HIDE DEF kept
    <3> QED
      BY <1>3, <3>1, UnfilledSaid
  <2>4. Words(Tokens(typed)) = Words(Pick(h, kept))
    BY <2>2, <2>3, TokensSaid
  <2>5. \A i \in DOMAIN h \ kept : BareFiller(h, kept, i)
    BY <1>3, DroppedBare
  <2>6. kept \in SUBSET DOMAIN h
    OBVIOUS
  <2> HIDE DEF kept
  <2>7. mode # "raw"
    BY <1>5
  <2> QED
    BY <1>2, <2>4, <2>5, <2>6, <2>7, Zenon DEF OnlyFillersGo
<1> QED
  BY <1>4, <1>5

----------------------------------------------------------------------------
(* Joined tokens are the tokens of the text.                               *)

NoSpace == Glyph \ {Space}
Bound == Seq(NoSpace) \ {<<>>}

LEMMA BoundIs ==
    Bound \subseteq Tok /\ Seq(NoSpace) \subseteq Tok /\ <<>> \in Seq(NoSpace) /\ <<>> \notin Bound
<1>1. NoSpace \subseteq Glyph
  BY DEF NoSpace
<1>2. Seq(NoSpace) \subseteq Seq(Glyph)
  BY <1>1
<1> QED
  BY <1>2 DEF Bound, Tok

\* The parts between spaces have none.
LEMMA SplitSpaceless ==
    \A s \in Seq(Glyph) : Split(s, Space) \in Seq(Seq(NoSpace)) /\ Split(s, Space) # <<>>
<1> DEFINE S == Seq(NoSpace)
           R == {s \in Seq(Glyph) : Split(s, Space) \in Seq(S)}
<1>1. <<>> \in R
  <2> DEFINE none == <<>>
  <2>1. Split(none, Space) = <<none>> /\ none \in S /\ none \in Seq(Glyph)
    BY SplitSnoc, BoundIs
  <2> HIDE DEF none, S
  <2>2. <<none>> \in Seq(S)
    BY <2>1
  <2>3. none \in R
    BY <2>1, <2>2
  <2> QED
    BY <2>3 DEF none
<1>2. ASSUME NEW s \in Seq(Glyph), NEW e \in Glyph, s \in R PROVE Append(s, e) \in R
  <2> DEFINE u == Append(s, e)
             p == Split(s, Space)
             none == <<>>
  <2>1. u \in Seq(Glyph) /\ Split(u, Space) = SplitStep(p, e, Space)
    BY SplitSnoc
  <2>2. p \in Seq(S)
    BY <1>2
  <2>3. p # none
    BY SplitSaid
  <2>4. none \in S
    BY BoundIs
  <2> HIDE DEF u, p, none
  <2>5. CASE e = Space
    <3>1. Append(p, none) \in Seq(S)
      <4> HIDE DEF S
      <4> QED
        BY <2>2, <2>4
    <3> QED
      BY <2>1, <2>5, <3>1 DEF SplitStep, u, none
  <2>6. CASE e # Space
    <3> DEFINE l == p[Len(p)]
               t == Append(l, e)
    <3>1. Split(u, Space) = [p EXCEPT ![Len(p)] = t]
      BY <2>1, <2>6 DEF SplitStep
    <3>2. l \in S
      <4> HIDE DEF S
      <4> QED
        BY <2>2, <2>3 DEF none
    <3>3. t \in S
      <4> HIDE DEF l
      <4>1. e \in NoSpace
        BY <2>6 DEF NoSpace
      <4> QED
        BY <3>2, <4>1
    <3> HIDE DEF t, S
    <3>4. PICK f \in Seq(S) : [p EXCEPT ![Len(p)] = t] = Append(f, t)
      BY <2>2, <2>3, <3>3, LastChanged DEF none
    <3>5. Append(f, t) \in Seq(S)
      BY <3>3
    <3> QED
      BY <2>1, <3>1, <3>4, <3>5 DEF u
  <2> QED
    BY <2>5, <2>6
<1>3. Seq(Glyph) \subseteq R
  <2> HIDE DEF R
  <2> QED
    BY <1>1, <1>2, BuiltUp
<1> QED
  BY <1>3, SplitSaid

LEMMA TokensBound == \A s \in Seq(Glyph) : Tokens(s) \in Seq(Bound)
<1> SUFFICES ASSUME NEW s \in Seq(Glyph) PROVE Tokens(s) \in Seq(Bound)
  OBVIOUS
<1> DEFINE T == Seq(NoSpace)
           p == Split(s, Space)
           S == ToSet(p) \ {<<>>}
           k == KeepIn(p, S)
<1>1. p \in Seq(T)
  BY SplitSpaceless
<1>2. Tokens(s) = k
  BY DEF Tokens
<1> HIDE DEF p
<1>3. S \subseteq Bound
  <2>1. ToSet(p) \subseteq T
    <3> HIDE DEF T
    <3> QED
      BY <1>1 DEF ToSet
  <2> QED
    BY <2>1 DEF Bound
<1> HIDE DEF S, T
<1>4. k \in Seq(T) /\ ToSet(k) \subseteq S
  BY <1>1, KeepsMembers
<1> HIDE DEF k
<1>5. k \in Seq(ToSet(k))
  <2>1. Len(k) \in Nat /\ DOMAIN k = 1..Len(k) /\ k = [i \in 1..Len(k) |-> k[i]]
    BY <1>4
  <2>2. \A i \in 1..Len(k) : k[i] \in ToSet(k)
    BY <2>1 DEF ToSet
  <2> QED
    BY <2>1, <2>2
<1>6. k \in Seq(Bound)
  BY <1>3, <1>4, <1>5
<1> QED
  BY <1>2, <1>6

LEMMA SplitStepLonger ==
    \A f \in Seq(Tok), d \in Tok, e \in Glyph : e # Space =>
        SplitStep(Append(f, d), e, Space) = Append(f, Append(d, e))
<1> SUFFICES ASSUME NEW f \in Seq(Tok), NEW d \in Tok, NEW e \in Glyph, e # Space
             PROVE  SplitStep(Append(f, d), e, Space) = Append(f, Append(d, e))
  OBVIOUS
<1> DEFINE s == Append(f, d)
           v == Append(d, e)
<1>1. v \in Tok
  BY DEF Tok
<1>2. s[Len(s)] = d
  OBVIOUS
<1>3. SplitStep(s, e, Space) = [s EXCEPT ![Len(s)] = Append(s[Len(s)], e)]
  BY DEF SplitStep
<1>4. SplitStep(s, e, Space) = [s EXCEPT ![Len(s)] = v]
  BY <1>2, <1>3, Zenon
<1>5. s = Append(f, d)
  OBVIOUS
<1> HIDE DEF s, v
<1>6. [s EXCEPT ![Len(s)] = v] = Append(f, v)
  BY <1>1, <1>5, AppendChanged
<1> QED
  BY <1>4, <1>6 DEF s, v

\* What has no space lengthens the last part.
LEMMA SplitLonger ==
    ASSUME NEW a \in Seq(Glyph), NEW f \in Seq(Tok), NEW l \in Tok, Split(a, Space) = Append(f, l)
    PROVE  \A t \in Seq(NoSpace) : Split(a \o t, Space) = Append(f, l \o t)
<1> DEFINE R == {t \in Seq(NoSpace) : Split(a \o t, Space) = Append(f, l \o t)}
<1>1. <<>> \in R
  <2>1. a \o <<>> = a /\ l \o <<>> = l
    BY AppendJoin, SpaceIs DEF Tok
  <2>2. Split(a \o <<>>, Space) = Append(f, l \o <<>>)
    BY <2>1, Zenon
  <2> QED
    BY <2>2, BoundIs
<1>2. ASSUME NEW t \in Seq(NoSpace), NEW e \in NoSpace, t \in R PROVE Append(t, e) \in R
  <2> DEFINE u == Append(t, e)
             c == a \o t
             d == l \o t
             p == Append(f, d)
  <2>1. e \in Glyph /\ e # Space /\ t \in Seq(Glyph) /\ u \in Seq(NoSpace)
    <3>1. t \in Seq(Glyph)
      BY BoundIs DEF Tok
    <3> QED
      BY <3>1 DEF NoSpace
  <2>2. a \o u = Append(c, e) /\ l \o u = Append(d, e) /\ c \in Seq(Glyph) /\ d \in Tok
    BY <2>1, AppendJoin DEF Tok
  <2>3. Split(c, Space) = p
    BY <1>2
  <2>4. Split(Append(c, e), Space) = SplitStep(p, e, Space)
    BY <2>1, <2>2, <2>3, SplitSnoc
  <2> HIDE DEF u, c, d
  <2>5. p \in Seq(Tok) /\ p # <<>> /\ Len(p) = Len(f) + 1 /\ p[Len(p)] = d
    BY <2>2
  <2>8. SplitStep(p, e, Space) = Append(f, Append(d, e))
    BY <2>1, <2>2, SplitStepLonger
  <2>9. Split(a \o u, Space) = Append(f, l \o u)
    BY <2>2, <2>4, <2>8, Zenon
  <2> QED
    BY <2>1, <2>9 DEF u
<1>3. Seq(NoSpace) \subseteq R
  <2> HIDE DEF R
  <2> QED
    BY <1>1, <1>2, BuiltUp
<1> QED
  BY <1>3

LEMMA SplitAfterSpace ==
    \A a \in Seq(Glyph), t \in Seq(NoSpace) :
        Split(a \o <<Space>> \o t, Space) = Append(Split(a, Space), t)
<1> SUFFICES ASSUME NEW a \in Seq(Glyph), NEW t \in Seq(NoSpace)
             PROVE  Split(a \o <<Space>> \o t, Space) = Append(Split(a, Space), t)
  OBVIOUS
<1> DEFINE none == <<>>
           f == Split(a, Space)
           b == Append(a, Space)
<1>1. a \o <<Space>> = b /\ b \in Seq(Glyph)
  BY SpaceIs
<1>2. f \in Seq(Tok)
  BY SplitSaid
<1>3. Split(b, Space) = SplitStep(f, Space, Space)
  BY SpaceIs, SplitSnoc
<1>4. Split(b, Space) = Append(f, none)
  BY <1>3 DEF SplitStep
<1>5. none \in Tok /\ none \o t = t
  BY NoWords
<1> HIDE DEF none, f, b
<1>6. Split(b \o t, Space) = Append(f, none \o t)
  BY <1>1, <1>2, <1>4, <1>5, SplitLonger
<1> QED
  BY <1>1, <1>5, <1>6 DEF f

LEMMA JoinedTokens == \A ts \in Seq(Bound) : Tokens(Join(ts)) = ts
<1> DEFINE none == <<>>
           R == {ts \in Seq(Bound) : ts # none => Join(ts) # none /\ Split(Join(ts), Space) = ts}
<1>0. Seq(Bound) \subseteq Seq(Tok)
  BY BoundIs
<1>1. <<>> \in R
  OBVIOUS
<1>2. ASSUME NEW ts \in Seq(Bound), NEW t \in Bound, ts \in R PROVE Append(ts, t) \in R
  <2> DEFINE u == Append(ts, t)
             x == Join(ts)
  <2>1. u \in Seq(Bound)
    OBVIOUS
  <2>2. t \in Tok /\ t \in Seq(NoSpace) /\ t # none
    BY BoundIs DEF Bound
  <2>3. ts \in Seq(Tok) /\ x \in Tok /\ Join(u) = JoinStep(x, t) /\ Join(none) = none
    BY <1>0, <2>2, JoinSnoc
  <2>4. CASE ts = none
    <3>1. Join(u) = t
      BY <2>3, <2>4 DEF JoinStep
    <3>2. Split(t, Space) = <<t>>
      <4>1. \A i \in DOMAIN t : t[i] \in NoSpace
        BY <2>2
      <4>2. Space \notin ToSet(t)
        BY <4>1 DEF ToSet, NoSpace
      <4>3. t \in Seq(Glyph)
        BY <2>2 DEF Tok
      <4> QED
        BY <4>2, <4>3, SplitWhole
    <3>3. u = <<t>>
      BY <2>4
    <3> HIDE DEF u, none
    <3>4. Join(u) # none /\ Split(Join(u), Space) = u
      BY <2>2, <3>1, <3>2, <3>3
    <3> QED
      BY <2>1, <3>4 DEF u
  <2>5. CASE ts # none
    <3>1. x # none /\ Split(x, Space) = ts
      BY <1>2, <2>5
    <3>2. Join(u) = x \o <<Space>> \o t
      BY <2>3, <3>1 DEF JoinStep
    <3> HIDE DEF x, u
    <3>3. Split(Join(u), Space) = Append(ts, t)
      BY <2>2, <2>3, <3>1, <3>2, SplitAfterSpace DEF Tok
    <3>4. Join(u) # none
      <4> DEFINE y == x \o <<Space>>
      <4>1. y \in Seq(Glyph) /\ Len(y) > 0
        BY <2>3, SpaceIs DEF Tok
      <4> HIDE DEF y
      <4>2. Len(y \o t) > 0
        BY <2>2, <4>1 DEF Tok
      <4>3. Join(u) = y \o t
        BY <3>2 DEF y
      <4> QED
        BY <4>2, <4>3
    <3> QED
      BY <2>1, <3>3, <3>4 DEF u
  <2> QED
    BY <2>4, <2>5
<1>3. Seq(Bound) \subseteq R
  <2> HIDE DEF R
  <2> QED
    BY <1>1, <1>2, BuiltUp
<1> SUFFICES ASSUME NEW ts \in Seq(Bound) PROVE Tokens(Join(ts)) = ts
  OBVIOUS
<1>4. CASE ts # none
  <2>1. Split(Join(ts), Space) = ts
    BY <1>3, <1>4
  <2>2. Tokens(Join(ts)) = KeepIn(ts, ToSet(ts) \ {<<>>})
    BY <2>1, Zenon DEF Tokens
  <2>3. ToSet(ts) \subseteq ToSet(ts) \ {<<>>}
    <3>1. ToSet(ts) \subseteq Bound
      BY DEF ToSet
    <3> QED
      BY <3>1, BoundIs
  <2>4. KeepIn(ts, ToSet(ts) \ {<<>>}) = ts
    BY <2>3, KeepAll
  <2> QED
    BY <2>2, <2>4
<1>5. CASE ts = none
  <2>1. Join(none) = none /\ none \in Seq(Tok) /\ none \in Tok /\ none \in Seq(Glyph)
    BY JoinSnoc, NoWords
  <2>2. Split(none, Space) = <<none>>
    BY SplitSnoc
  <2> DEFINE p == <<none>>
             S == ToSet(p) \ {none}
  <2>3. p = Append(none, none)
    OBVIOUS
  <2>4. ToSet(p) = {none}
    BY DEF ToSet
  <2>5. Tokens(none) = KeepIn(p, S)
    BY <2>2, Zenon DEF Tokens
  <2>6. none \notin S
    OBVIOUS
  <2> HIDE DEF S, p, none
  <2>7. KeepIn(none, S) = none
    BY <2>1, KeepSnoc DEF none
  <2>8. KeepIn(Append(none, none), S) = KeepIn(none, S)
    BY <2>1, <2>6, KeepSnoc
  <2> QED
    BY <1>5, <2>1, <2>3, <2>5, <2>7, <2>8
<1> QED
  BY <1>4, <1>5

----------------------------------------------------------------------------
(* A token and the punctuation that is handed to it.                       *)

Trailing == {p \in NoSpace : p.w \in Terminators \union Pauses}
LEMMA TrailingIs ==
    /\ Trailing \subseteq NoSpace /\ Seq(Trailing) \subseteq Seq(NoSpace) /\ Seq(Trailing) \subseteq Tok
    /\ \A p \in Trailing : p.w \in Marks /\ ~IsWord(p) /\ ~IsLetters(p)
<1>1. Trailing \subseteq NoSpace
  BY DEF Trailing
<1>2. Seq(Trailing) \subseteq Seq(NoSpace)
  BY <1>1
<1>3. \A p \in Trailing : p.w \in Marks
  BY DEF Trailing, Marks
<1> QED
  BY <1>1, <1>2, <1>3, BoundIs DEF IsWord, IsLetters

\* The punctuation at the end, and what stands before it.
SuffixFrom(t, m) ==
    /\ PunctSuffix(t) = SubSeq(t, m + 1, Len(t))
    /\ m # 0 => t[m].w \notin Terminators \union Pauses
    /\ \A i \in (m + 1)..Len(t) : t[i].w \in Terminators \union Pauses
LEMMA SuffixIs == \A T : \A t \in Seq(T) : \E m \in 0..Len(t) : SuffixFrom(t, m)
<1> SUFFICES ASSUME NEW T, NEW t \in Seq(T) PROVE \E m \in 0..Len(t) : SuffixFrom(t, m)
  OBVIOUS
<1> DEFINE drop == Terminators \union Pauses
<1>1. PICK m \in 0..Len(t) :
        /\ TrimEnd(t, drop) = SubSeq(t, 1, m)
        /\ m # 0 => t[m].w \notin drop
        /\ \A i \in (m + 1)..Len(t) : t[i].w \in drop
  BY TrimEndIs
<1>2. Len(SubSeq(t, 1, m)) = m
  OBVIOUS
<1>3. PunctSuffix(t) = SubSeq(t, m + 1, Len(t))
  BY <1>1, <1>2, Zenon DEF PunctSuffix
<1> QED
  BY <1>1, <1>3 DEF SuffixFrom

\* Its elements.
LEMMA SuffixElements ==
    ASSUME NEW T, NEW t \in Seq(T), NEW m \in 0..Len(t), SuffixFrom(t, m)
    PROVE  /\ PunctSuffix(t) \in Seq(T) /\ Len(PunctSuffix(t)) = Len(t) - m
           /\ \A i \in 1..(Len(t) - m) : PunctSuffix(t)[i] = t[m + i]
<1>1. m + 1 \in Nat /\ Len(t) \in Nat /\ 1 <= m + 1 /\ m + 1 <= Len(t) + 1 /\ Len(t) <= Len(t)
  OBVIOUS
<1>2. /\ SubSeq(t, m + 1, Len(t)) \in Seq(T) /\ Len(SubSeq(t, m + 1, Len(t))) = Len(t) - (m + 1) + 1
      /\ \A i \in 1..(Len(t) - (m + 1) + 1) : SubSeq(t, m + 1, Len(t))[i] = t[(m + 1) + i - 1]
  BY <1>1, Sliced
<1>3. Len(t) - (m + 1) + 1 = Len(t) - m /\ \A i \in 1..(Len(t) - m) : (m + 1) + i - 1 = m + i
  OBVIOUS
<1> DEFINE u == SubSeq(t, m + 1, Len(t))
<1>4. PunctSuffix(t) = u
  BY DEF SuffixFrom
<1> HIDE DEF u
<1> QED
  BY <1>2, <1>3, <1>4 DEF u

LEMMA SuffixTyped == \A t \in Seq(NoSpace) : PunctSuffix(t) \in Seq(Trailing)
<1> SUFFICES ASSUME NEW t \in Seq(NoSpace) PROVE PunctSuffix(t) \in Seq(Trailing)
  OBVIOUS
<1>1. PICK m \in 0..Len(t) : SuffixFrom(t, m)
  BY SuffixIs
<1> DEFINE u == PunctSuffix(t)
           n == Len(t) - m
<1>2. u \in Seq(NoSpace) /\ Len(u) = n /\ \A i \in 1..n : u[i] = t[m + i]
  BY <1>1, SuffixElements
<1>3. \A i \in 1..n : m + i \in (m + 1)..Len(t) /\ t[m + i] \in NoSpace
  OBVIOUS
<1>4. \A i \in 1..n : t[m + i] \in Trailing
  BY <1>1, <1>3 DEF SuffixFrom, Trailing
<1> HIDE DEF u, n
<1>5. \A i \in 1..Len(u) : u[i] \in Trailing
  BY <1>2, <1>4
<1>6. u = [i \in 1..Len(u) |-> u[i]] /\ Len(u) \in Nat
  BY <1>2
<1> QED
  BY <1>5, <1>6 DEF u

LEMMA NoSuffix ==
    \A T : \A t \in Seq(T) : PunctSuffix(t) = <<>> /\ t # <<>> =>
        t[Len(t)].w \notin Terminators \union Pauses
<1> SUFFICES ASSUME NEW T, NEW t \in Seq(T), PunctSuffix(t) = <<>>, t # <<>>
             PROVE  t[Len(t)].w \notin Terminators \union Pauses
  OBVIOUS
<1>1. PICK m \in 0..Len(t) : SuffixFrom(t, m)
  BY SuffixIs
<1>2. Len(PunctSuffix(t)) = Len(t) - m
  BY <1>1, SuffixElements
<1>3. m = Len(t) /\ m # 0
  <2>1. Len(<<>>) = 0
    OBVIOUS
  <2>2. Len(t) - m = 0
    BY <1>2, <2>1
  <2> QED
    BY <2>2
<1> QED
  BY <1>1, <1>3 DEF SuffixFrom

\* A token with marks stuck on.
Stuck(u, x, marks) == x \in Tok /\ marks \in Seq(Trailing) /\ u = x \o marks
LEMMA StuckIs ==
    ASSUME NEW u, NEW x, NEW marks, Stuck(u, x, marks)
    PROVE  /\ u \in Tok /\ Len(x) \in Nat /\ Len(marks) \in Nat /\ Len(u) = Len(x) + Len(marks)
           /\ \A i \in 1..Len(x) : u[i] = x[i]
           /\ \A i \in 1..Len(marks) : u[Len(x) + i] = marks[i] /\ marks[i] \in Trailing
           /\ \A i \in 1..Len(u) : \/ i \in 1..Len(x)
                                   \/ i - Len(x) \in 1..Len(marks) /\ u[i] = marks[i - Len(x)]
<1>1. IsJoin(u, x, Len(x), marks, Len(marks), Glyph)
  BY TrailingIs DEF IsJoin, Stuck, Tok
<1>2. IsParts(u, x, Len(x), marks, Len(marks), Glyph)
  BY <1>1, JoinParts
<1>3. \A i \in 1..Len(marks) : marks[i] \in Trailing
  BY DEF Stuck
<1> DEFINE n == Len(x)
           m == Len(marks)
<1>4. /\ u \in Tok /\ n \in Nat /\ m \in Nat /\ Len(u) = n + m
      /\ \A i \in 1..n : u[i] = x[i]
      /\ \A i \in 1..m : u[n + i] = marks[i]
  BY <1>2 DEF IsParts, Tok
<1> HIDE DEF n, m
<1>5. ASSUME NEW i \in 1..Len(u), i \notin 1..n PROVE i - n \in 1..m /\ u[i] = marks[i - n]
  <2>1. i - n \in 1..m /\ n + (i - n) = i
    BY <1>4, <1>5
  <2> QED
    BY <1>4, <2>1
<1> QED
  BY <1>3, <1>4, <1>5 DEF n, m

LEMMA StuckSaid == \A u, x, marks : Stuck(u, x, marks) => WordsOf(u) = WordsOf(x)
<1> SUFFICES ASSUME NEW u, NEW x, NEW marks, Stuck(u, x, marks) PROVE WordsOf(u) = WordsOf(x)
  OBVIOUS
<1>1. x \in Seq(Glyph) /\ marks \in Seq(Glyph) /\ u = x \o marks
  BY TrailingIs DEF Stuck, Tok
<1>2. \A p \in ToSet(marks) : ~IsWord(p)
  <2>1. \A i \in DOMAIN marks : marks[i] \in Trailing
    BY DEF Stuck
  <2> QED
    BY <2>1, TrailingIs DEF ToSet
<1>3. WordsOf(marks) = <<>>
  BY <1>1, <1>2, MarksSaid
<1>4. WordsOf(u) = WordsOf(x) \o WordsOf(marks) /\ WordsOf(x) \in Seq(Glyph)
  BY <1>1, WordsJoin, WordsOfTyped
<1>5. WordsOf(x) \o <<>> = WordsOf(x)
  BY <1>4, AppendJoin, SpaceIs
<1> QED
  BY <1>3, <1>4, <1>5

LEMMA StuckNumber ==
    \A u, x, marks : Stuck(u, x, marks) /\ (\E k \in DOMAIN x : IsNumber(x[k])) =>
        \E k \in DOMAIN u : IsNumber(u[k])
<1> SUFFICES ASSUME NEW u, NEW x, NEW marks, Stuck(u, x, marks), NEW k \in DOMAIN x, IsNumber(x[k])
             PROVE  \E j \in DOMAIN u : IsNumber(u[j])
  OBVIOUS
<1>1. /\ u \in Tok /\ Len(x) \in Nat /\ Len(marks) \in Nat /\ Len(u) = Len(x) + Len(marks)
      /\ \A i \in 1..Len(x) : u[i] = x[i]
  BY StuckIs
<1>2. k \in 1..Len(x)
  BY DEF Stuck, Tok
<1>3. k \in 1..Len(u) /\ u[k] = x[k]
  BY <1>1, <1>2
<1>4. k \in DOMAIN u
  BY <1>1, <1>3 DEF Tok
<1> QED
  BY <1>3, <1>4

LEMMA StuckLower == \A u, x, marks : Stuck(u, x, marks) /\ StartsLower(u) => StartsLower(x)
<1> SUFFICES ASSUME NEW u, NEW x, NEW marks, Stuck(u, x, marks), StartsLower(u) PROVE StartsLower(x)
  OBVIOUS
<1> DEFINE I == {i \in 1..Len(u) : IsLetters(u[i])}
           J == {i \in 1..Len(x) : IsLetters(x[i])}
<1>1. /\ Len(x) \in Nat /\ Len(marks) \in Nat /\ Len(u) = Len(x) + Len(marks)
      /\ \A i \in 1..Len(x) : u[i] = x[i]
      /\ \A i \in 1..Len(marks) : marks[i] \in Trailing
      /\ \A i \in 1..Len(u) : \/ i \in 1..Len(x)
                              \/ i - Len(x) \in 1..Len(marks) /\ u[i] = marks[i - Len(x)]
  BY StuckIs
<1>2. \A i \in 1..Len(u) : IsLetters(u[i]) => i \in 1..Len(x)
  BY <1>1, TrailingIs
<1>3. I = J
  <2>1. I \subseteq J
    BY <1>1, <1>2
  <2>2. J \subseteq I
    BY <1>1
  <2> QED
    BY <2>1, <2>2
<1>4. SelectInSeq(u, IsLetters) = IF I # {} THEN Min(I) ELSE 0
  BY DEF SelectInSeq
<1>5. SelectInSeq(x, IsLetters) = IF J # {} THEN Min(J) ELSE 0
  BY DEF SelectInSeq
<1> DEFINE f == SelectInSeq(u, IsLetters)
<1>6. f # 0 /\ ~u[f].cap
  BY DEF StartsLower
<1>7. J # {} /\ f = Min(J)
  BY <1>3, <1>4, <1>6
<1>8. f = SelectInSeq(x, IsLetters)
  <2> HIDE DEF I, J, f
  <2> QED
    BY <1>5, <1>7
<1> HIDE DEF I, f
<1>9. f \in 1..Len(x)
  <2> DEFINE n == Len(x)
  <2>1. n \in Nat /\ J \subseteq 1..n
    BY <1>1
  <2> HIDE DEF n, J
  <2>2. f \in J
    BY <1>7, <2>1, SmallestIn
  <2> QED
    BY <2>1, <2>2 DEF n
<1>10. ~x[f].cap
  BY <1>1, <1>6, <1>9
<1> QED
  BY <1>6, <1>8, <1>10 DEF StartsLower

LEMMA StuckTrim == \A u, x, marks : Stuck(u, x, marks) => Trim(u, Marks) = Trim(x, Marks)
<1> SUFFICES ASSUME NEW u, NEW x, NEW marks, Stuck(u, x, marks)
             PROVE  Trim(u, Marks) = Trim(x, Marks)
  OBVIOUS
<1> DEFINE I == {i \in DOMAIN u : u[i].w \notin Marks}
           J == {i \in DOMAIN x : x[i].w \notin Marks}
           n == Len(x)
<1>1. /\ u \in Tok /\ Len(x) \in Nat /\ Len(marks) \in Nat /\ Len(u) = Len(x) + Len(marks)
      /\ \A i \in 1..Len(x) : u[i] = x[i]
      /\ \A i \in 1..Len(marks) : marks[i] \in Trailing
      /\ \A i \in 1..Len(u) : \/ i \in 1..Len(x)
                              \/ i - Len(x) \in 1..Len(marks) /\ u[i] = marks[i - Len(x)]
  BY StuckIs
<1>2. DOMAIN u = 1..Len(u) /\ DOMAIN x = 1..Len(x) /\ x \in Tok
  BY <1>1 DEF Tok, Stuck
<1>3. I = J
  <2>1. \A i \in 1..Len(u) : u[i].w \notin Marks => i \in 1..Len(x)
    BY <1>1, TrailingIs
  <2>2. I \subseteq J
    BY <1>1, <1>2, <2>1
  <2>3. J \subseteq I
    BY <1>1, <1>2
  <2> QED
    BY <2>2, <2>3
<1>4. Trim(u, Marks) = IF I = {} THEN <<>> ELSE SubSeq(u, Min(I), Max(I))
  BY DEF Trim
<1>5. Trim(x, Marks) = IF J = {} THEN <<>> ELSE SubSeq(x, Min(J), Max(J))
  BY DEF Trim
<1>6. J \subseteq 1..n /\ n \in Nat
  BY <1>1, <1>2
<1> HIDE DEF I, J
<1>7. CASE J = {}
  BY <1>3, <1>4, <1>5, <1>7
<1>8. CASE J # {}
  <2> DEFINE a == Min(J)
             b == Max(J)
             s == SubSeq(u, a, b)
             t == SubSeq(x, a, b)
  <2>1. a \in 1..n /\ b \in 1..n /\ a <= b
    <3>1. a \in J /\ b \in J /\ \A y \in J : a <= y
      BY <1>6, <1>8, SmallestIn, LargestIn
    <3> QED
      BY <1>6, <3>1
  <2> HIDE DEF a, b
  <2>2. /\ u \in Seq(Glyph) /\ x \in Seq(Glyph) /\ b <= Len(u) /\ b <= Len(x) /\ a \in Nat /\ b \in Nat
        /\ 1 <= a /\ a <= b + 1
    BY <1>1, <1>2, <2>1 DEF Tok
  <2>3. /\ s \in Seq(Glyph) /\ Len(s) = b - a + 1 /\ \A i \in 1..(b - a + 1) : s[i] = u[a + i - 1]
        /\ t \in Seq(Glyph) /\ Len(t) = b - a + 1 /\ \A i \in 1..(b - a + 1) : t[i] = x[a + i - 1]
    BY <2>2, Sliced
  <2>4. \A i \in 1..(b - a + 1) : a + i - 1 \in 1..n
    BY <1>6, <2>1
  <2> HIDE DEF s, t
  <2>5. \A i \in 1..Len(s) : s[i] = t[i]
    BY <1>1, <2>3, <2>4
  <2>6. s = t
    BY <2>3, <2>5, SeqEqual
  <2> QED
    BY <1>3, <1>4, <1>5, <1>8, <2>6 DEF a, b, s, t
<1> QED
  BY <1>7, <1>8

\* A comma of a token that had none is one of those stuck on.
LEMMA StuckComma ==
    \A u, x, marks :
        Stuck(u, x, marks) /\ PunctSuffix(x) = <<>> /\ HasComma(u) => P(",") \in ToSet(marks)
<1> SUFFICES ASSUME NEW u, NEW x, NEW marks, Stuck(u, x, marks), PunctSuffix(x) = <<>>, HasComma(u)
             PROVE  P(",") \in ToSet(marks)
  OBVIOUS
<1> DEFINE drop == Terminators \union Pauses
           c == P(",")
<1>1. /\ u \in Tok /\ Len(x) \in Nat /\ Len(marks) \in Nat /\ Len(u) = Len(x) + Len(marks)
      /\ \A i \in 1..Len(x) : u[i] = x[i]
      /\ \A i \in 1..Len(u) : \/ i \in 1..Len(x)
                              \/ i - Len(x) \in 1..Len(marks) /\ u[i] = marks[i - Len(x)]
  BY StuckIs
<1>2. PICK m \in 0..Len(u) : SuffixFrom(u, m)
  BY <1>1, SuffixIs DEF Tok
<1> DEFINE s == PunctSuffix(u)
<1>3. /\ s \in Seq(Glyph) /\ Len(s) = Len(u) - m
      /\ \A i \in 1..(Len(u) - m) : s[i] = u[m + i]
  BY <1>1, <1>2, SuffixElements DEF Tok
<1>4. c \in ToSet(s)
  BY DEF HasComma
<1> HIDE DEF s, c
<1>5. PICK k \in 1..(Len(u) - m) : c = u[m + k]
  BY <1>3, <1>4 DEF ToSet
<1>6. m + k \in 1..Len(u) /\ m + k > m
  BY <1>1, <1>5
<1>7. m + k \notin 1..Len(x)
  <2>1. SUFFICES ASSUME m + k \in 1..Len(x) PROVE FALSE
    OBVIOUS
  <2>2. Len(x) \in (m + 1)..Len(u) /\ Len(x) \in 1..Len(x)
    BY <1>1, <1>6, <2>1
  <2>3. u[Len(x)].w \in drop
    BY <1>2, <2>2 DEF SuffixFrom
  <2>4. x # <<>>
    BY <2>2
  <2>5. x[Len(x)].w \notin drop
    BY <2>4, NoSuffix DEF Stuck, Tok
  <2> QED
    BY <1>1, <2>2, <2>3, <2>5
<1>8. m + k - Len(x) \in 1..Len(marks) /\ c = marks[m + k - Len(x)]
  BY <1>1, <1>5, <1>6, <1>7
<1>9. DOMAIN marks = 1..Len(marks)
  BY DEF Stuck
<1> QED
  BY <1>8, <1>9 DEF ToSet, c

\* A token that is one word of a set phrase.
PhraseWords == {"like", "you", "know", "i", "mean", "and", "stuff", "or", "whatever"}
LEMMA SaysWord ==
    \A s \in Seq(Glyph) : (\E i \in DOMAIN s : IsWord(s[i])) => WordsOf(s) # <<>>
<1> DEFINE R == {s \in Seq(Glyph) : (\E i \in DOMAIN s : IsWord(s[i])) => WordsOf(s) # <<>>}
<1>1. <<>> \in R
  OBVIOUS
<1>2. ASSUME NEW s \in Seq(Glyph), NEW e \in Glyph, s \in R PROVE Append(s, e) \in R
  <2> DEFINE u == Append(s, e)
             w == WordsOf(s)
  <2>1. u \in Seq(Glyph) /\ WordsOf(u) = WordStep(w, e) /\ w \in Seq(Glyph)
    BY WordsOfSnoc
  <2>2. DOMAIN u = 1..(Len(s) + 1) /\ DOMAIN s = 1..Len(s) /\ Len(s) \in Nat /\ u[Len(s) + 1] = e
        /\ \A k \in 1..Len(s) : u[k] = s[k]
    BY <2>1, Extended
  <2> HIDE DEF u, w
  <2>3. CASE IsWord(e)
    <3>1. WordsOf(u) = Append(w, Lower(e))
      BY <2>1, <2>3 DEF WordStep
    <3>2. Append(w, Lower(e)) # <<>>
      <4> DEFINE l == Lower(e)
      <4>1. l \in Glyph
        BY Forms
      <4> HIDE DEF l
      <4>2. Len(Append(w, l)) = Len(w) + 1 /\ Len(w) \in Nat
        BY <2>1, <4>1
      <4> QED
        BY <4>2 DEF l
    <3> QED
      BY <2>1, <3>1, <3>2 DEF u
  <2>4. CASE ~IsWord(e)
    <3>1. WordsOf(u) = w
      BY <2>1, <2>4 DEF WordStep
    <3>2. (\E i \in DOMAIN u : IsWord(u[i])) => \E i \in DOMAIN s : IsWord(s[i])
      BY <2>2, <2>4
    <3> QED
      BY <1>2, <2>1, <3>1, <3>2 DEF u, w
  <2> QED
    BY <2>3, <2>4
<1>3. Seq(Glyph) \subseteq R
  <2> HIDE DEF R
  <2> QED
    BY <1>1, <1>2, BuiltUp
<1> QED
  BY <1>3

LEMMA PhraseToken ==
    ASSUME NEW t \in Tok, NEW w \in PhraseWords, WordOf(t) = <<P(w)>>
    PROVE  /\ WordOf(t)[1].w = w /\ WordsOf(t) # <<>>
           /\ \A k \in DOMAIN t : ~IsNumber(t[k])
<1> DEFINE c == Trim(t, Marks)
           n == Len(c)
<1>0. t \in Seq(Glyph)
  BY DEF Tok
<1>1. WordOf(t)[1].w = w
  BY DEF P
<1>2. /\ c \in Seq(Glyph) /\ (c = <<>> \/ Trimmed(c, Marks))
      /\ \A i \in 1..Len(c) : \E j \in 1..Len(t) : c[i] = t[j]
  BY <1>0, TrimTyped
<1>3. DOMAIN c = 1..n /\ n \in Nat
  BY <1>2
<1>4. WordOf(t) = [i \in 1..n |-> Lower(c[i])]
  BY <1>3, Zenon DEF WordOf, LowerAll
<1>5. n = 1
  <2>1. Len(<<P(w)>>) = 1
    OBVIOUS
  <2>2. Len([i \in 1..n |-> Lower(c[i])]) = n
    <3> HIDE DEF n, c
    <3> QED
      BY <1>3
  <2> QED
    BY <1>4, <2>1, <2>2, Zenon
<1>6. Lower(c[1]).w = w
  BY <1>1, <1>4, <1>5
<1>7. c[1] \in Glyph /\ c[1].w = w /\ c[1].w \notin Marks
  <2>1. c # <<>>
    BY <1>5
  <2>2. c[1] \in Glyph /\ c[1].w \notin Marks
    BY <1>2, <1>5, <2>1 DEF Trimmed
  <2> QED
    BY <1>6, <2>2, Forms
<1>8. WordsOf(t) # <<>>
  <2>1. PICK j \in 1..Len(t) : c[1] = t[j]
    BY <1>2, <1>5
  <2>2. j \in DOMAIN t /\ IsWord(t[j])
    BY <1>0, <1>7, <2>1 DEF IsWord
  <2> QED
    BY <1>0, <2>2, SaysWord
<1>9. ASSUME NEW k \in DOMAIN t, IsNumber(t[k]) PROVE FALSE
  <2> DEFINE J == {i \in DOMAIN t : t[i].w \notin Marks}
             m == Len(t)
             a == Min(J)
             b == Max(J)
  <2>1. t[k].w \in Numbers /\ t[k].w \notin Marks
    BY <1>9 DEF IsNumber, Numbers, Marks, Terminators, Closers, Pauses
  <2>2. k \in J /\ J \subseteq 1..m /\ m \in Nat
    BY <1>0, <2>1
  <2>3. c = SubSeq(t, a, b)
    BY <2>2 DEF Trim
  <2> HIDE DEF J, m
  <2>4. a \in J /\ b \in J /\ a <= k
    BY <2>2, SmallestIn, LargestIn
  <2>5. k <= b
    <3>1. PICK x \in J : \A y \in J : x >= y
      BY <2>2, GreatestIn
    <3>2. \A z \in J : z <= b
      BY <2>2, <3>1 DEF Max
    <3> QED
      BY <2>2, <3>2
  <2> HIDE DEF a, b
  <2>6. a \in Nat /\ b \in Nat /\ 1 <= a /\ a <= b + 1 /\ b <= Len(t)
    BY <2>2, <2>4, <2>5 DEF m
  <2>7. Len(SubSeq(t, a, b)) = b - a + 1 /\ \A i \in 1..(b - a + 1) : SubSeq(t, a, b)[i] = t[a + i - 1]
    BY <1>0, <2>6, Sliced
  <2>8. b - a + 1 = 1
    BY <1>5, <2>3, <2>7
  <2>9. a = k /\ 1 \in 1..(b - a + 1) /\ a + 1 - 1 = k
    BY <2>2, <2>4, <2>5, <2>6, <2>8
  <2>10. c[1] = t[k]
    BY <2>3, <2>7, <2>9
  <2>11. w \in Numbers
    BY <1>7, <2>1, <2>10
  <2> QED
    BY <2>11 DEF PhraseWords, Numbers
<1> QED
  BY <1>1, <1>8, <1>9

----------------------------------------------------------------------------
(* Set phrases and what they leave behind.                                 *)

CommaBefore(words) == words = <<>> \/ HasComma(Last(words))
HandOver(words, marks) ==
    IF words = <<>> \/ PunctSuffix(Last(words)) # <<>> THEN words
    ELSE [words EXCEPT ![Len(words)] = @ \o marks]
PhraseOf(h, st, i) == CHOOSE q \in FillersAt(h, i, CommaBefore(st.out)) : TRUE
StripStep(h, st, i) ==
    IF i < st.next THEN st
    ELSE IF FillersAt(h, i, CommaBefore(st.out)) = {}
    THEN [out |-> Append(st.out, h[i]), next |-> i + 1]
    ELSE [out |-> HandOver(st.out, PunctSuffix(h[i + Len(PhraseOf(h, st, i)) - 1])),
          next |-> i + Len(PhraseOf(h, st, i))]
Stripping == [out : Seq(Bound), next : Nat]
StripOver(h, s) == FoldLeft(LAMBDA st, i : StripStep(h, st, i), Start, s)

LEMMA StripIs == \A h : StripDiscourse(h) = StripOver(h, Indices(h)).out
BY DEF StripDiscourse, StripOver, StripStep, PhraseOf, HandOver, CommaBefore, HasComma, Start, Indices,
   FoldLeft, MapThenFoldSet

\* What a phrase is.
LEMMA PhraseIs ==
    ASSUME NEW h, NEW i \in Nat, NEW comma, NEW p \in FillersAt(h, i, comma)
    PROVE  /\ Len(p) \in 1..2 /\ DOMAIN p = 1..Len(p) /\ \A k \in 1..Len(p) : p[k] \in PhraseWords
           /\ i + Len(p) - 1 <= Len(h)
           /\ \A k \in 1..Len(p) : /\ WordOf(h[i + k - 1]) = <<P(p[k])>>
                                   /\ k < Len(p) => PunctSuffix(h[i + k - 1]) = <<>>
           /\ \/ p \in Discourse /\ comma /\ HasComma(h[i + Len(p) - 1])
              \/ p \in VagueTrailers /\ (i + Len(p) - 1 = Len(h) \/ PunctSuffix(h[i + Len(p) - 1]) # <<>>)
<1>1. PhraseAt(h, i, p) /\ p \in Discourse \union VagueTrailers
  BY DEF FillersAt
<1>2. Len(p) \in 1..2 /\ DOMAIN p = 1..Len(p) /\ \A k \in 1..Len(p) : p[k] \in PhraseWords
  BY <1>1 DEF Discourse, VagueTrailers, PhraseWords
<1>3. \/ p \in Discourse /\ comma /\ HasComma(h[i + Len(p) - 1])
      \/ p \in VagueTrailers /\ (i + Len(p) - 1 = Len(h) \/ PunctSuffix(h[i + Len(p) - 1]) # <<>>)
  BY Zenon DEF FillersAt, HasComma
<1> QED
  BY <1>1, <1>2, <1>3 DEF PhraseAt

LEMMA HandOverTyped ==
    ASSUME NEW ws \in Seq(Bound), NEW marks \in Seq(Trailing)
    PROVE  /\ HandOver(ws, marks) \in Seq(Bound) /\ Len(HandOver(ws, marks)) = Len(ws)
           /\ \A k \in 1..Len(ws) : k < Len(ws) => HandOver(ws, marks)[k] = ws[k]
           /\ ws # <<>> =>
                 \/ HandOver(ws, marks) = ws
                 \/ PunctSuffix(ws[Len(ws)]) = <<>> /\ HandOver(ws, marks)[Len(ws)] = ws[Len(ws)] \o marks
<1> DEFINE l == ws[Len(ws)]
           v == l \o marks
           y == [ws EXCEPT ![Len(ws)] = v]
<1>1. HandOver(ws, marks) = IF ws = <<>> \/ PunctSuffix(l) # <<>> THEN ws ELSE y
  BY DEF HandOver, Last
<1>2. CASE ws = <<>>
  BY <1>1, <1>2
<1>3. CASE ws # <<>>
  <2>1. l \in Bound /\ Len(ws) \in 1..Len(ws)
    BY <1>3
  <2>2. v \in Bound
    <3>1. l \in Seq(NoSpace) /\ marks \in Seq(NoSpace) /\ l # <<>>
      BY <2>1, TrailingIs DEF Bound
    <3> HIDE DEF l
    <3>2. /\ l \o marks \in Seq(NoSpace) /\ Len(l \o marks) = Len(l) + Len(marks) /\ Len(l) > 0
          /\ Len(marks) \in Nat
      BY <3>1
    <3> QED
      BY <3>2 DEF Bound
  <2> HIDE DEF v
  <2>3. /\ y \in Seq(Bound) /\ Len(y) = Len(ws) /\ y[Len(ws)] = v
        /\ \A k \in 1..Len(ws) : k < Len(ws) => y[k] = ws[k]
    BY <2>1, <2>2
  <2> HIDE DEF y, l
  <2> QED
    BY <1>1, <1>3, <2>3 DEF l, v
<1> QED
  BY <1>2, <1>3

LEMMA StripTyped ==
    \A h : h \in Seq(Bound) =>
        /\ Start \in Stripping
        /\ \A x \in Stripping, i \in DOMAIN h : StripStep(h, x, i) \in Stripping
<1> SUFFICES ASSUME NEW h \in Seq(Bound)
             PROVE  /\ Start \in Stripping
                    /\ \A x \in Stripping, i \in DOMAIN h : StripStep(h, x, i) \in Stripping
  OBVIOUS
<1>1. \A o \in Seq(Bound), m \in Nat : [out |-> o, next |-> m] \in Stripping
  <2>1. \A A, B : \A o \in A, m \in B : [out |-> o, next |-> m] \in [out : A, next : B]
    OBVIOUS
  <2> QED
    BY <2>1, Zenon DEF Stripping
<1>2. Start \in Stripping
  <2>1. <<>> \in Seq(Bound) /\ 1 \in Nat
    OBVIOUS
  <2> QED
    BY <1>1, <2>1, Zenon DEF Start
<1>3. ASSUME NEW x \in Stripping, NEW i \in DOMAIN h PROVE StripStep(h, x, i) \in Stripping
  <2> DEFINE o == x.out
             ps == FillersAt(h, i, CommaBefore(x.out))
             p == PhraseOf(h, x, i)
  <2>1. o \in Seq(Bound) /\ i \in 1..Len(h) /\ i \in Nat /\ h[i] \in Bound
    BY DEF Stripping
  <2>2. Append(o, h[i]) \in Seq(Bound) /\ i + 1 \in Nat
    <3> HIDE DEF o
    <3> QED
      BY <2>1
  <2>3. ASSUME ps # {}
        PROVE  HandOver(o, PunctSuffix(h[i + Len(p) - 1])) \in Seq(Bound) /\ i + Len(p) \in Nat
    <3>1. p \in ps
      BY <2>3 DEF PhraseOf
    <3>2. Len(p) \in 1..2 /\ i + Len(p) - 1 <= Len(h)
      BY <2>1, <3>1, PhraseIs
    <3> HIDE DEF p, o
    <3>3. i + Len(p) - 1 \in 1..Len(h) /\ i + Len(p) \in Nat
      <4> DEFINE l == Len(p)
                 n == Len(h)
      <4>1. l \in 1..2 /\ i + l - 1 <= n /\ i \in 1..n /\ n \in Nat
        BY <2>1, <3>2
      <4> HIDE DEF l, n
      <4>2. i + l - 1 \in 1..n /\ i + l \in Nat
        BY <4>1
      <4> QED
        BY <4>2 DEF l, n
    <3>4. PunctSuffix(h[i + Len(p) - 1]) \in Seq(Trailing)
      <4>1. h[i + Len(p) - 1] \in Bound
        BY <3>3
      <4> QED
        BY <4>1, SuffixTyped DEF Bound
    <3> QED
      BY <2>1, <3>3, <3>4, HandOverTyped
  <2>4. /\ [out |-> Append(o, h[i]), next |-> i + 1] \in Stripping
        /\ ps # {} => [out |-> HandOver(o, PunctSuffix(h[i + Len(p) - 1])), next |-> i + Len(p)] \in Stripping
    BY <1>1, <2>2, <2>3, Zenon
  <2> QED
    BY <2>4, Zenon DEF StripStep
<1> QED
  BY <1>2, <1>3

StripOverTraced(g, s, ts) ==
    /\ g[0] = Start /\ g[Len(s)] = StripOver(ts, s) /\ StripOver(ts, s) \in Stripping
    /\ \A k \in 1..Len(s) : g[k] = StripStep(ts, g[k - 1], s[k])

LEMMA StripOverTrace ==
    \A ts : ts \in Seq(Bound) => \A s \in Seq(DOMAIN ts) : \E g : StripOverTraced(g, s, ts)
<1> SUFFICES ASSUME NEW ts, ts \in Seq(Bound), NEW s \in Seq(DOMAIN ts)
             PROVE  \E g : StripOverTraced(g, s, ts)
  OBVIOUS
<1> DEFINE n == Len(s)
           X == Stripping
           G == [z \in X \X (1..n) |-> StripStep(ts, z[1], s[z[2]])]
           Step(it) == [t \in SUBSET (1..n) |->
                           IF t = {} THEN Start ELSE StripStep(ts, it[t \ {Max(t)}], s[Max(t)])]
           table == CHOOSE it : it = Step(it)
<1>1. n \in Nat /\ DOMAIN s = 1..n /\ \A k \in 1..n : s[k] \in DOMAIN ts
  OBVIOUS
<1>2. StripOver(ts, s) = table[1..n]
  BY <1>1 DEF StripOver, FoldLeft, MapThenFoldSet
<1>3. Start \in X /\ \A x \in X, e \in DOMAIN ts : StripStep(ts, x, e) \in X
  BY StripTyped
<1> HIDE DEF X
<1>4. IsStep(G, X, Start, n)
  BY <1>1, <1>3 DEF IsStep
<1>5. \A x \in X, k \in 1..n : G[<<x, k>>] = StripStep(ts, x, s[k])
  OBVIOUS
<1> HIDE DEF G, n
<1>6. PICK it : IsTable(it, G, X, Start, n)
  BY <1>4, Table
<1>7. it = Step(it)
  BY <1>5, <1>6 DEF IsTable
<1>8. table = Step(table)
  BY <1>7
<1> HIDE DEF table
<1>9. Tabulates(table, G, X, Start, n)
  BY <1>5, <1>8 DEF Tabulates
<1>10. PICK g : IsTrace(g, G, X, Start, n) /\ g[n] = table[1..n]
  BY <1>4, <1>9, TableTrace
<1>11. \A k \in 1..n : k - 1 \in 0..n
  BY <1>1
<1>12. ASSUME NEW k \in 1..n PROVE g[k] = StripStep(ts, g[k - 1], s[k])
  <2>1. g[k - 1] \in X /\ g[k] = G[<<g[k - 1], k>>]
    BY <1>10, <1>11 DEF IsTrace
  <2> QED
    BY <1>5, <2>1
<1>13. g[0] = Start /\ g[n] \in X
  BY <1>1, <1>10 DEF IsTrace
<1> QED
  BY <1>2, <1>10, <1>12, <1>13 DEF n, X, StripOverTraced

\* The words that are out and the next place, step by step.
Skips(h, o, x, k) == k < x[k - 1] /\ o[k] = o[k - 1] /\ x[k] = x[k - 1]
Stays(h, o, x, k) ==
    /\ ~(k < x[k - 1]) /\ FillersAt(h, k, CommaBefore(o[k - 1])) = {}
    /\ o[k] = Append(o[k - 1], h[k]) /\ x[k] = k + 1
Goes(h, o, x, k, p) ==
    /\ ~(k < x[k - 1]) /\ p \in FillersAt(h, k, CommaBefore(o[k - 1]))
    /\ o[k] = HandOver(o[k - 1], PunctSuffix(h[k + Len(p) - 1])) /\ x[k] = k + Len(p)
StripRun(h, o, x) ==
    /\ h \in Seq(Bound) /\ Len(h) \in Nat
    /\ o[0] = <<>> /\ x[0] = 1 /\ StripDiscourse(h) = o[Len(h)]
    /\ \A k \in 1..Len(h) : Skips(h, o, x, k) \/ Stays(h, o, x, k) \/ \E p : Goes(h, o, x, k, p)

LEMMA StripTrace == \A h \in Seq(Bound) : \E o, x : StripRun(h, o, x)
<1> SUFFICES ASSUME NEW h \in Seq(Bound) PROVE \E o, x : StripRun(h, o, x)
  OBVIOUS
<1> DEFINE js == Indices(h)
           n == Len(h)
<1>1. js \in Seq(DOMAIN h) /\ Len(js) = n /\ n \in Nat /\ \A k \in 1..n : js[k] = k
  BY IndicesTyped DEF Indices
<1>2. StripDiscourse(h) = StripOver(h, js).out
  BY StripIs
<1> HIDE DEF js
<1>3. PICK g : StripOverTraced(g, js, h)
  BY <1>1, StripOverTrace
<1>4. /\ g[0] = Start /\ g[n] = StripOver(h, js)
      /\ \A k \in 1..n : g[k] = StripStep(h, g[k - 1], k)
  <2>1. /\ g[0] = Start /\ g[Len(js)] = StripOver(h, js)
        /\ \A k \in 1..Len(js) : g[k] = StripStep(h, g[k - 1], js[k])
    BY <1>3 DEF StripOverTraced
  <2> QED
    BY <1>1, <2>1
<1> HIDE DEF n
<1> DEFINE o == [k \in 0..n |-> g[k].out]
           x == [k \in 0..n |-> g[k].next]
<1>5. \A k \in 0..n : o[k] = g[k].out /\ x[k] = g[k].next
  OBVIOUS
<1> HIDE DEF o, x
<1>6. o[0] = <<>> /\ x[0] = 1 /\ StripDiscourse(h) = o[n]
  <2>1. 0 \in 0..n /\ n \in 0..n
    BY <1>1
  <2>2. o[0] = Start.out /\ x[0] = Start.next /\ o[n] = StripOver(h, js).out
    BY <1>4, <1>5, <2>1, Zenon
  <2> QED
    BY <1>2, <2>2 DEF Start
<1>7. ASSUME NEW k \in 1..n
      PROVE  Skips(h, o, x, k) \/ Stays(h, o, x, k) \/ \E p : Goes(h, o, x, k, p)
  <2> DEFINE st == g[k - 1]
             ps == FillersAt(h, k, CommaBefore(st.out))
             q == PhraseOf(h, st, k)
  <2>1. k \in 0..n /\ k - 1 \in 0..n
    BY <1>1
  <2>2. /\ o[k - 1] = st.out /\ x[k - 1] = st.next /\ o[k] = g[k].out /\ x[k] = g[k].next
        /\ g[k] = StripStep(h, st, k)
    BY <1>4, <1>5, <2>1
  <2> HIDE DEF st
  <2>3. CASE k < st.next
    <3>1. g[k] = st
      BY <2>2, <2>3 DEF StripStep
    <3> QED
      BY <2>2, <2>3, <3>1, Zenon DEF Skips
  <2>4. CASE ~(k < st.next) /\ ps = {}
    <3>1. g[k] = [out |-> Append(st.out, h[k]), next |-> k + 1]
      BY <2>2, <2>4, Zenon DEF StripStep
    <3>2. o[k] = Append(st.out, h[k]) /\ x[k] = k + 1
      BY <2>2, <3>1
    <3> QED
      BY <2>2, <2>4, <3>2, Zenon DEF Stays
  <2>5. CASE ~(k < st.next) /\ ps # {}
    <3>1. g[k] = [out |-> HandOver(st.out, PunctSuffix(h[k + Len(q) - 1])), next |-> k + Len(q)]
      BY <2>2, <2>5, Zenon DEF StripStep
    <3>2. o[k] = HandOver(st.out, PunctSuffix(h[k + Len(q) - 1])) /\ x[k] = k + Len(q)
      BY <2>2, <3>1
    <3>3. q \in ps
      BY <2>5 DEF PhraseOf
    <3>4. Goes(h, o, x, k, q)
      BY <2>2, <2>5, <3>2, <3>3, Zenon DEF Goes
    <3> QED
      BY <3>4
  <2> QED
    BY <2>3, <2>4, <2>5
<1> QED
  BY <1>1, <1>6, <1>7 DEF StripRun, n
LEMMA RunTyped ==
    ASSUME NEW h, NEW o, NEW x, StripRun(h, o, x)
    PROVE  \A k \in 0..Len(h) : o[k] \in Seq(Bound) /\ (x[k] = k + 1 \/ x[k] = k + 2)
<1> DEFINE n == Len(h)
           R == {k \in 0..n : o[k] \in Seq(Bound) /\ (x[k] = k + 1 \/ x[k] = k + 2)}
<1>1. n \in Nat /\ h \in Seq(Bound)
  BY DEF StripRun
<1>2. 0 \in R
  <2>1. o[0] = <<>> /\ x[0] = 1 /\ 0 \in 0..n
    BY <1>1 DEF StripRun
  <2>2. o[0] \in Seq(Bound)
    BY <2>1
  <2>3. x[0] = 0 + 1
    BY <2>1, SMT
  <2> QED
    BY <2>1, <2>2, <2>3, Zenon
<1>3. ASSUME NEW j \in 0..(n - 1), j \in R PROVE j + 1 \in R
  <2> DEFINE k == j + 1
  <2>1. k \in 1..n /\ k \in 0..n /\ k - 1 = j /\ k \in Nat
    BY <1>1
  <2>2. o[k - 1] \in Seq(Bound) /\ (x[k - 1] = k \/ x[k - 1] = k + 1)
    BY <1>3, <2>1
  <2>3. h[k] \in Bound
    BY <1>1, <2>1
  <2> HIDE DEF k
  <2>4. CASE Skips(h, o, x, k)
    <3>1. o[k] = o[k - 1] /\ x[k] = k + 1
      BY <2>1, <2>2, <2>4 DEF Skips
    <3> QED
      BY <2>1, <2>2, <3>1 DEF k
  <2>5. CASE Stays(h, o, x, k)
    <3>1. o[k] = Append(o[k - 1], h[k]) /\ x[k] = k + 1
      BY <2>5 DEF Stays
    <3>2. o[k] \in Seq(Bound)
      BY <2>2, <2>3, <3>1
    <3> QED
      BY <2>1, <3>1, <3>2 DEF k
  <2>6. ASSUME NEW p, Goes(h, o, x, k, p) PROVE k \in R
    <3> DEFINE marks == PunctSuffix(h[k + Len(p) - 1])
    <3>1. /\ p \in FillersAt(h, k, CommaBefore(o[k - 1])) /\ o[k] = HandOver(o[k - 1], marks)
          /\ x[k] = k + Len(p)
      BY <2>6 DEF Goes
    <3>2. Len(p) \in 1..2 /\ k + Len(p) - 1 <= n
      BY <2>1, <3>1, PhraseIs
    <3> DEFINE l == Len(p)
    <3>3. l \in 1..2 /\ k + l - 1 \in 1..n
      <4> HIDE DEF l, n
      <4>1. l \in 1..2 /\ k + l - 1 <= n
        BY <3>2 DEF l
      <4> QED
        BY <1>1, <2>1, <4>1
    <3>4. marks \in Seq(Trailing)
      <4>1. h[k + l - 1] \in Bound
        BY <1>1, <3>3
      <4> QED
        BY <4>1, SuffixTyped DEF Bound
    <3> HIDE DEF marks
    <3>5. o[k] \in Seq(Bound)
      BY <2>2, <3>1, <3>4, HandOverTyped
    <3>6. x[k] = k + 1 \/ x[k] = k + 2
      <4> HIDE DEF l
      <4>1. x[k] = k + l /\ (l = 1 \/ l = 2)
        BY <3>1, <3>3 DEF l
      <4> QED
        BY <4>1
    <3> QED
      BY <2>1, <3>5, <3>6
  <2>7. Skips(h, o, x, k) \/ Stays(h, o, x, k) \/ \E p : Goes(h, o, x, k, p)
    BY <2>1 DEF StripRun
  <2> QED
    BY <2>4, <2>5, <2>6, <2>7 DEF k
<1>4. 0..n \subseteq R
  <2> HIDE DEF R, n
  <2> QED
    BY <1>1, <1>2, <1>3, UpTo
<1> QED
  BY <1>4

\* A phrase that goes, from m to l.
Phrase(h, o, x, m, l, p) ==
    /\ m \in 1..Len(h) /\ l \in m..Len(h) /\ l = m + Len(p) - 1 /\ Goes(h, o, x, m, p)
    /\ x[m - 1] = m /\ x[m] = l + 1 /\ (l = m \/ l = m + 1)
    /\ o[m] = HandOver(o[m - 1], PunctSuffix(h[l])) /\ PunctSuffix(h[l]) \in Seq(Trailing)

LEMMA PhraseGoes ==
    ASSUME NEW h, NEW o, NEW x, StripRun(h, o, x), NEW m \in 1..Len(h), NEW p, Goes(h, o, x, m, p)
    PROVE  Phrase(h, o, x, m, m + Len(p) - 1, p)
<1> DEFINE n == Len(h)
           d == Len(p)
           l == m + d - 1
<1>1. n \in Nat /\ h \in Seq(Bound) /\ m \in Nat
  BY DEF StripRun
<1>2. p \in FillersAt(h, m, CommaBefore(o[m - 1])) /\ ~(m < x[m - 1]) /\ x[m] = m + d
  BY DEF Goes
<1>3. d \in 1..2 /\ m + d - 1 <= n
  BY <1>1, <1>2, PhraseIs
<1>4. m - 1 \in 0..n /\ (x[m - 1] = (m - 1) + 1 \/ x[m - 1] = (m - 1) + 2)
  <2>1. m - 1 \in 0..n
    BY <1>1
  <2> QED
    BY <2>1, RunTyped
<1>5. o[m] = HandOver(o[m - 1], PunctSuffix(h[l]))
  BY DEF Goes
<1> HIDE DEF d, n
<1>6. x[m - 1] = m /\ l \in m..n /\ (l = m \/ l = m + 1) /\ x[m] = l + 1
  BY <1>1, <1>2, <1>3, <1>4 DEF n
<1> HIDE DEF l
<1>7. l \in 1..n
  BY <1>1, <1>6
<1>8. PunctSuffix(h[l]) \in Seq(Trailing)
  <2>1. h[l] \in Bound
    BY <1>1, <1>7 DEF n
  <2> QED
    BY <2>1, SuffixTyped DEF Bound
<1> QED
  BY <1>1, <1>5, <1>6, <1>8 DEF n, l, d, Phrase

\* What does not stay is in a phrase.
LEMMA Going ==
    ASSUME NEW h, NEW o, NEW x, StripRun(h, o, x)
    PROVE  /\ \A k \in 1..Len(h) : ~Stays(h, o, x, k) =>
                 \E m, l, p : Phrase(h, o, x, m, l, p) /\ m <= k /\ k <= l
           /\ \A m, l, p : Phrase(h, o, x, m, l, p) => \A k \in m..l : ~Stays(h, o, x, k)
<1> DEFINE n == Len(h)
<1>1. n \in Nat
  BY DEF StripRun
<1>2. \A k \in 0..n : x[k] = k + 1 \/ x[k] = k + 2
  BY RunTyped
<1>3. \A k \in 1..n : Skips(h, o, x, k) \/ Stays(h, o, x, k) \/ \E p : Goes(h, o, x, k, p)
  BY DEF StripRun
<1>4. ASSUME NEW k \in 1..n, NEW p, Goes(h, o, x, k, p)
      PROVE  \E m, l, q : Phrase(h, o, x, m, l, q) /\ m <= k /\ k <= l
  <2> DEFINE l == k + Len(p) - 1
  <2>1. Phrase(h, o, x, k, l, p)
    BY <1>4, PhraseGoes
  <2> HIDE DEF l
  <2>2. k <= l
    BY <1>1, <2>1 DEF Phrase
  <2> QED
    BY <2>1, <2>2
<1>5. ASSUME NEW k \in 1..n, Skips(h, o, x, k)
      PROVE  \E m, l, q : Phrase(h, o, x, m, l, q) /\ m <= k /\ k <= l
  <2> DEFINE m == k - 1
  <2>1. m \in 0..n /\ k < x[m]
    BY <1>1, <1>5 DEF Skips
  <2>2. x[m] = m + 2
    BY <1>1, <1>2, <2>1
  <2>3. m # 0
    BY <2>2 DEF StripRun
  <2>4. m \in 1..n /\ m - 1 \in 0..n
    BY <1>1, <2>1, <2>3
  <2> HIDE DEF m
  <2>5. ~Skips(h, o, x, m) /\ ~Stays(h, o, x, m)
    <3>1. ~Stays(h, o, x, m)
      BY <2>2, <2>4 DEF Stays
    <3>2. x[m - 1] = (m - 1) + 1 \/ x[m - 1] = (m - 1) + 2
      BY <1>2, <2>4
    <3>3. ~Skips(h, o, x, m)
      BY <2>2, <2>4, <3>2 DEF Skips
    <3> QED
      BY <3>1, <3>3
  <2>6. PICK p : Goes(h, o, x, m, p)
    BY <1>3, <2>4, <2>5
  <2> DEFINE l == m + Len(p) - 1
  <2>7. Phrase(h, o, x, m, l, p)
    BY <2>4, <2>6, PhraseGoes
  <2> HIDE DEF l
  <2>8. x[m] = l + 1 /\ l \in m..n
    BY <2>7 DEF Phrase
  <2>9. m <= k /\ k <= l
    BY <1>1, <2>2, <2>4, <2>8 DEF m
  <2> QED
    BY <2>7, <2>9
<1>6. ASSUME NEW m, NEW l, NEW p, Phrase(h, o, x, m, l, p), NEW k \in m..l, Stays(h, o, x, k)
      PROVE  FALSE
  <2>1. /\ m \in 1..n /\ l \in m..n /\ x[m] = l + 1 /\ (l = m \/ l = m + 1)
        /\ p \in FillersAt(h, m, CommaBefore(o[m - 1]))
    BY <1>6 DEF Phrase, Goes
  <2>2. FillersAt(h, k, CommaBefore(o[k - 1])) = {} /\ ~(k < x[k - 1])
    BY <1>6 DEF Stays
  <2>3. k # m
    BY <2>1, <2>2
  <2>4. k = m + 1 /\ k - 1 = m /\ l = m + 1
    BY <1>1, <2>1, <2>3
  <2> QED
    BY <1>1, <2>1, <2>2, <2>4
<1> QED
  BY <1>3, <1>4, <1>5, <1>6
\* One step of the run, for an invariant of it.
Kind(h, o, x, k) ==
    \/ Stays(h, o, x, k) /\ o[k] = Append(o[k - 1], h[k])
    \/ ~Stays(h, o, x, k) /\ o[k] = o[k - 1]
    \/ \E l, p : Phrase(h, o, x, k, l, p) /\ ~Stays(h, o, x, k)
LEMMA Kinds ==
    ASSUME NEW h, NEW o, NEW x, StripRun(h, o, x), NEW k \in 1..Len(h)
    PROVE  Kind(h, o, x, k) /\ (o[k] = o[k - 1] => x[k] >= x[k - 1])
<1>1. Len(h) \in Nat
  BY DEF StripRun
<1>2. k - 1 \in 0..Len(h) /\ k \in 0..Len(h) /\ k \in Nat
  BY <1>1
<1>3. /\ x[k] = k + 1 \/ x[k] = k + 2
      /\ x[k - 1] = (k - 1) + 1 \/ x[k - 1] = (k - 1) + 2
  BY <1>2, RunTyped
<1>4. x[k] >= x[k - 1]
  BY <1>2, <1>3
<1>5. CASE Skips(h, o, x, k)
  <2>1. o[k] = o[k - 1] /\ k < x[k - 1]
    BY <1>5 DEF Skips
  <2> QED
    BY <1>4, <2>1 DEF Kind, Stays
<1>6. CASE Stays(h, o, x, k)
  BY <1>4, <1>6 DEF Kind, Stays
<1>7. ASSUME NEW p, Goes(h, o, x, k, p) PROVE Kind(h, o, x, k)
  <2> DEFINE l == k + Len(p) - 1
  <2>1. Phrase(h, o, x, k, l, p)
    BY <1>7, PhraseGoes
  <2>2. ~Stays(h, o, x, k)
    BY <1>7 DEF Goes, Stays
  <2> HIDE DEF l
  <2> QED
    BY <2>1, <2>2 DEF Kind
<1>8. Skips(h, o, x, k) \/ Stays(h, o, x, k) \/ \E p : Goes(h, o, x, k, p)
  BY DEF StripRun
<1> QED
  BY <1>4, <1>5, <1>6, <1>7, <1>8

\* A comma at the end of what is out was heard, and nothing that stays follows it.
Paused(h, o, x, k) ==
    /\ o[k] = <<>> => \A j \in 1..k : ~Stays(h, o, x, j)
    /\ o[k] # <<>> /\ HasComma(Last(o[k])) =>
          \E q \in 1..Len(h) : /\ q < x[k] /\ HasComma(h[q])
                               /\ \A j \in 1..k : q < j => ~Stays(h, o, x, j)
LEMMA Pausing ==
    ASSUME NEW h, NEW o, NEW x, StripRun(h, o, x)
    PROVE  \A k \in 0..Len(h) : Paused(h, o, x, k)
<1> DEFINE n == Len(h)
           R == {k \in 0..n : Paused(h, o, x, k)}
<1>1. n \in Nat /\ h \in Seq(Bound)
  BY DEF StripRun
<1>2. 0 \in R
  <2>1. o[0] = <<>> /\ 0 \in 0..n /\ \A j \in 1..0 : FALSE
    BY <1>1 DEF StripRun
  <2> QED
    BY <2>1 DEF Paused
<1>3. ASSUME NEW i \in 0..(n - 1), i \in R PROVE i + 1 \in R
  <2> DEFINE k == i + 1
  <2>1. k \in 1..n /\ k \in 0..n /\ k - 1 = i /\ k \in Nat /\ \A j \in 1..k : j = k \/ j \in 1..i
    BY <1>1
  <2>2. Paused(h, o, x, k - 1) /\ o[k - 1] \in Seq(Bound) /\ o[k] \in Seq(Bound) /\ h[k] \in Bound
    BY <1>1, <1>3, <2>1, RunTyped
  <2>3. Kind(h, o, x, k) /\ (o[k] = o[k - 1] => x[k] >= x[k - 1])
    BY <2>1, Kinds
  <2>4. /\ x[k] = k + 1 \/ x[k] = k + 2
        /\ x[k - 1] = k \/ x[k - 1] = k + 1
    <3>1. /\ x[k] = k + 1 \/ x[k] = k + 2
          /\ x[k - 1] = (k - 1) + 1 \/ x[k - 1] = (k - 1) + 2
      BY <1>1, <2>1, RunTyped
    <3> QED
      BY <2>1, <3>1
  <2> HIDE DEF k, n
  <2>5. ASSUME ~Stays(h, o, x, k), o[k] = o[k - 1] PROVE Paused(h, o, x, k)
    <3>1. \A q : q < x[k - 1] /\ q \in 1..n => q < x[k]
      BY <1>1, <2>3, <2>4, <2>5, <2>1
    <3> QED
      BY <2>1, <2>2, <2>5, <3>1 DEF Paused, n
  <2>6. ASSUME Stays(h, o, x, k) PROVE Paused(h, o, x, k)
    <3>1. o[k] = Append(o[k - 1], h[k]) /\ x[k] = k + 1
      BY <2>6 DEF Stays
    <3>2. o[k] # <<>> /\ Last(o[k]) = h[k]
      BY <2>2, <3>1 DEF Last
    <3>3. k < x[k] /\ \A j \in 1..k : ~(k < j)
      BY <2>1, <3>1
    <3> QED
      BY <2>1, <3>2, <3>3 DEF Paused, n
  <2>7. ASSUME NEW l, NEW p, Phrase(h, o, x, k, l, p), ~Stays(h, o, x, k) PROVE Paused(h, o, x, k)
    <3> DEFINE marks == PunctSuffix(h[l])
               ws == o[k - 1]
               t == ws[Len(ws)]
    <3>1. l \in k..n /\ x[k] = l + 1 /\ o[k] = HandOver(ws, marks) /\ marks \in Seq(Trailing)
      BY <2>7 DEF Phrase, n
    <3>0. ws \in Seq(Bound)
      BY <2>2
    <3> HIDE DEF marks, ws
    <3>2. /\ Len(o[k]) = Len(ws)
          /\ ws # <<>> =>
                 \/ o[k] = ws
                 \/ PunctSuffix(t) = <<>> /\ o[k][Len(ws)] = t \o marks
      BY <3>0, <3>1, HandOverTyped
    <3>3. CASE o[k] = ws
      BY <2>5, <2>7, <3>3 DEF ws
    <3>4. CASE o[k] # ws
      <4>1. ws # <<>> /\ o[k] # <<>>
        <5>1. ws \in Seq(Bound)
          BY <2>2 DEF ws
        <5>2. ws = <<>> => Len(o[k]) = 0
          BY <3>2
        <5> QED
          BY <2>2, <3>2, <3>4, <5>1, <5>2
      <4>2. PunctSuffix(t) = <<>> /\ Last(o[k]) = t \o marks
        BY <3>2, <3>4, <4>1 DEF Last
      <4>3. t \in Tok
        <5>1. ws \in Seq(Bound)
          BY <2>2 DEF ws
        <5>2. t \in Bound
          BY <4>1, <5>1
        <5> QED
          BY <5>2, BoundIs
      <4> HIDE DEF t
      <4>4. HasComma(Last(o[k])) => HasComma(h[l])
        <5>1. HasComma(Last(o[k])) => P(",") \in ToSet(marks)
          <6> DEFINE u == Last(o[k])
          <6>1. Stuck(u, t, marks)
            BY <3>1, <4>2, <4>3 DEF Stuck
          <6> HIDE DEF u
          <6>2. HasComma(u) => P(",") \in ToSet(marks)
            BY <4>2, <6>1, StuckComma
          <6> QED
            BY <6>2 DEF u
        <5> QED
          BY <5>1 DEF HasComma, marks
      <4>5. l \in 1..n /\ l < x[k] /\ \A j \in 1..k : ~(l < j)
        BY <1>1, <2>1, <3>1
      <4> QED
        BY <4>1, <4>4, <4>5 DEF Paused, n
    <3> QED
      BY <3>3, <3>4
  <2>8. Paused(h, o, x, k)
    <3>1. \/ Stays(h, o, x, k)
          \/ ~Stays(h, o, x, k) /\ o[k] = o[k - 1]
          \/ ~Stays(h, o, x, k) /\ \E l, p : Phrase(h, o, x, k, l, p)
      BY <2>3 DEF Kind
    <3>2. CASE ~Stays(h, o, x, k) /\ \E l, p : Phrase(h, o, x, k, l, p)
      <4>1. PICK l, p : Phrase(h, o, x, k, l, p)
        BY <3>2
      <4> QED
        BY <2>7, <3>2, <4>1
    <3>3. CASE ~Stays(h, o, x, k) /\ o[k] = o[k - 1]
      BY <2>5, <3>3
    <3> QED
      BY <2>6, <3>1, <3>2, <3>3
  <2> QED
    BY <2>1, <2>8 DEF k
<1>4. 0..n \subseteq R
  <2> HIDE DEF R, n
  <2> QED
    BY <1>1, <1>2, <1>3, UpTo
<1> QED
  BY <1>4

\* The tokens that are out: each that stays has a place of its own.
LEMMA Lengths ==
    ASSUME NEW h, NEW o, NEW x, StripRun(h, o, x), NEW k \in 1..Len(h)
    PROVE  /\ o[k] \in Seq(Bound) /\ o[k - 1] \in Seq(Bound) /\ h[k] \in Bound
           /\ Len(o[k]) \in Nat /\ Len(o[k - 1]) \in Nat
           /\ Stays(h, o, x, k) => Len(o[k]) = Len(o[k - 1]) + 1
           /\ ~Stays(h, o, x, k) => Len(o[k]) = Len(o[k - 1])
<1>1. Len(h) \in Nat /\ h \in Seq(Bound)
  BY DEF StripRun
<1>2. k - 1 \in 0..Len(h) /\ k \in 0..Len(h) /\ h[k] \in Bound
  BY <1>1
<1>3. o[k] \in Seq(Bound) /\ o[k - 1] \in Seq(Bound)
  BY <1>2, RunTyped
<1>4. Len(o[k]) \in Nat /\ Len(o[k - 1]) \in Nat
  BY <1>3
<1>5. Kind(h, o, x, k)
  BY Kinds
<1>6. ASSUME Stays(h, o, x, k) PROVE Len(o[k]) = Len(o[k - 1]) + 1
  <2>1. o[k] = Append(o[k - 1], h[k])
    BY <1>6 DEF Stays
  <2> DEFINE ws == o[k - 1]
  <2>2. ws \in Seq(Bound)
    BY <1>3
  <2> HIDE DEF ws
  <2>3. Len(Append(ws, h[k])) = Len(ws) + 1
    BY <1>2, <2>2
  <2> QED
    BY <2>1, <2>3 DEF ws
<1>7. ASSUME NEW l, NEW p, Phrase(h, o, x, k, l, p) PROVE Len(o[k]) = Len(o[k - 1])
  <2>1. o[k] = HandOver(o[k - 1], PunctSuffix(h[l])) /\ PunctSuffix(h[l]) \in Seq(Trailing)
    BY <1>7 DEF Phrase
  <2> QED
    BY <1>3, <2>1, HandOverTyped
<1>8. ASSUME ~Stays(h, o, x, k) PROVE Len(o[k]) = Len(o[k - 1])
  <2>1. \/ o[k] = o[k - 1]
        \/ \E l, p : Phrase(h, o, x, k, l, p)
    BY <1>5, <1>8 DEF Kind
  <2>2. CASE \E l, p : Phrase(h, o, x, k, l, p)
    <3>1. PICK l, p : Phrase(h, o, x, k, l, p)
      BY <2>2
    <3> QED
      BY <1>7, <3>1
  <2> QED
    BY <2>1, <2>2
<1> QED
  BY <1>2, <1>3, <1>4, <1>6, <1>8

LEMMA Grows ==
    ASSUME NEW h, NEW o, NEW x, StripRun(h, o, x)
    PROVE  \A k \in 0..Len(h) : /\ Len(o[k]) \in Nat
                                /\ \A j \in 0..k : Len(o[j]) <= Len(o[k])
                                /\ \A j \in 1..k : Stays(h, o, x, j) =>
                                     Len(o[j]) >= 1 /\ \A i \in 0..(j - 1) : Len(o[i]) < Len(o[j])
<1> DEFINE n == Len(h)
           L(k) == Len(o[k])
           R == {k \in 0..n : L(k) \in Nat /\ \A j \in 0..k : L(j) <= L(k)}
<1>1. n \in Nat
  BY DEF StripRun
<1>2. \A k \in 1..n : /\ L(k) \in Nat /\ L(k - 1) \in Nat
                      /\ Stays(h, o, x, k) => L(k) = L(k - 1) + 1
                      /\ L(k) = L(k - 1) \/ L(k) = L(k - 1) + 1
  BY Lengths
<1>3. 0 \in R
  <2>1. o[0] = <<>>
    BY DEF StripRun
  <2>2. L(0) = 0
    BY <2>1
  <2> HIDE DEF L
  <2> QED
    BY <1>1, <2>2
<1> HIDE DEF L
<1>4. ASSUME NEW i \in 0..(n - 1), i \in R PROVE i + 1 \in R
  <2>1. i + 1 \in 1..n /\ (i + 1) - 1 = i
    BY <1>1
  <2>2. L(i + 1) \in Nat /\ L(i) \in Nat /\ L(i) <= L(i + 1)
    <3>1. /\ L((i + 1) - 1) \in Nat /\ L(i + 1) \in Nat
          /\ (L(i + 1) = L((i + 1) - 1) \/ L(i + 1) = L((i + 1) - 1) + 1)
      BY <1>2, <2>1
    <3> QED
      BY <2>1, <3>1
  <2>3. ASSUME NEW j \in 0..(i + 1) PROVE L(j) <= L(i + 1)
    <3>1. CASE j = i + 1
      BY <2>2, <3>1
    <3>2. CASE j # i + 1
      <4>1. j \in 0..i
        BY <3>2, <1>1
      <4>2. L(j) <= L(i)
        BY <1>4, <4>1
      <4>3. L(j) \in Nat
        <5>1. j \in 1..n \/ j = 0
          BY <1>1, <4>1
        <5> QED
          BY <1>2, <1>3, <5>1
      <4> QED
        BY <2>2, <4>2, <4>3
    <3> QED
      BY <3>1, <3>2
  <2> QED
    BY <1>1, <2>1, <2>2, <2>3
<1>5. 0..n \subseteq R
  <2> HIDE DEF R, n
  <2> QED
    BY <1>1, <1>3, <1>4, UpTo
<1>6. ASSUME NEW k \in 0..n, NEW j \in 1..k, Stays(h, o, x, j)
      PROVE  L(j) >= 1 /\ \A i \in 0..(j - 1) : L(i) < L(j)
  <2>1. j \in 1..n /\ j - 1 \in 0..n
    BY <1>1
  <2>2. L(j) = L(j - 1) + 1 /\ L(j - 1) \in Nat
    BY <1>2, <1>6, <2>1
  <2>3. ASSUME NEW i \in 0..(j - 1) PROVE L(i) < L(j)
    <3>1. j - 1 \in R /\ i \in 0..n
      BY <1>1, <1>5, <2>1
    <3>2. L(i) <= L(j - 1) /\ L(i) \in Nat
      BY <1>5, <3>1
    <3> QED
      BY <2>2, <3>2
  <2> QED
    BY <2>2, <2>3
<1> QED
  BY <1>5, <1>6 DEF L

Placed(h, o, x, k, i) ==
    \E marks \in Seq(Trailing) :
        /\ Len(o[i]) \in 1..Len(o[k]) /\ o[k][Len(o[i])] = h[i] \o marks
        /\ marks # <<>> => i + 1 <= Len(h) /\ ~Stays(h, o, x, i + 1)
LEMMA Places ==
    ASSUME NEW h, NEW o, NEW x, StripRun(h, o, x)
    PROVE  \A k \in 0..Len(h) : \A i \in 1..k : Stays(h, o, x, i) => Placed(h, o, x, k, i)
<1> DEFINE n == Len(h)
           R == {k \in 0..n : \A i \in 1..k : Stays(h, o, x, i) => Placed(h, o, x, k, i)}
<1>1. n \in Nat
  BY DEF StripRun
<1>2. 0 \in R
  BY <1>1
<1>3. ASSUME NEW j \in 0..(n - 1), j \in R PROVE j + 1 \in R
  <2> DEFINE k == j + 1
             ws == o[k - 1]
  <2>1. /\ k \in 1..n /\ k \in 0..n /\ k - 1 = j /\ k \in Nat
        /\ \A i \in 1..k : i = k \/ (i \in 1..j /\ i \in 0..(k - 1))
    BY <1>1
  <2>2. /\ o[k] \in Seq(Bound) /\ ws \in Seq(Bound) /\ h[k] \in Bound /\ Len(o[k]) \in Nat
        /\ Len(ws) \in Nat
        /\ Stays(h, o, x, k) => Len(o[k]) = Len(ws) + 1
        /\ ~Stays(h, o, x, k) => Len(o[k]) = Len(ws)
    BY <2>1, Lengths
  <2>3. ASSUME NEW i \in 1..j, Stays(h, o, x, i)
        PROVE  \E marks \in Seq(Trailing) :
                  /\ Len(o[i]) \in 1..Len(ws) /\ ws[Len(o[i])] = h[i] \o marks
                  /\ marks # <<>> => i + 1 <= Len(h) /\ ~Stays(h, o, x, i + 1)
    BY <1>3, <2>1, <2>3 DEF Placed
  <2>4. Kind(h, o, x, k)
    BY <2>1, Kinds
  <2> HIDE DEF k, ws, n
  <2>5. ASSUME Stays(h, o, x, k), NEW i \in 1..k, Stays(h, o, x, i) PROVE Placed(h, o, x, k, i)
    <3>1. o[k] = Append(ws, h[k])
      BY <2>5 DEF Stays, ws
    <3>2. \A l \in 1..Len(ws) : o[k][l] = ws[l]
      BY <2>2, <3>1
    <3>3. o[k][Len(ws) + 1] = h[k]
      BY <2>2, <3>1
    <3>4. CASE i = k
      <4> DEFINE none == <<>>
      <4>1. none \in Seq(Trailing) /\ h[k] \o none = h[k]
        <5>1. h[k] \in Seq(NoSpace)
          BY <2>2 DEF Bound
        <5> QED
          BY <5>1
      <4>2. Len(o[i]) \in 1..Len(o[k]) /\ o[k][Len(o[i])] = h[i]
        BY <2>2, <2>5, <3>3, <3>4
      <4> QED
        BY <3>4, <4>1, <4>2 DEF Placed
    <3>5. CASE i # k
      <4>1. i \in 1..j
        BY <2>1, <3>5
      <4>2. PICK marks \in Seq(Trailing) :
                /\ Len(o[i]) \in 1..Len(ws) /\ ws[Len(o[i])] = h[i] \o marks
                /\ marks # <<>> => i + 1 <= Len(h) /\ ~Stays(h, o, x, i + 1)
        BY <2>3, <2>5, <4>1
      <4>3. Len(o[i]) \in 1..Len(o[k]) /\ o[k][Len(o[i])] = ws[Len(o[i])]
        <5>1. Len(ws) \in Nat /\ Len(o[k]) = Len(ws) + 1
          BY <2>2, <2>5
        <5>2. Len(o[i]) \in 1..Len(o[k])
          BY <4>2, <5>1
        <5> QED
          BY <3>2, <4>2, <5>2
      <4> QED
        BY <4>2, <4>3 DEF Placed
    <3> QED
      BY <3>4, <3>5
  <2>6. ASSUME ~Stays(h, o, x, k), NEW i \in 1..k, Stays(h, o, x, i) PROVE Placed(h, o, x, k, i)
    <3>1. i \in 1..j
      <4>1. i # k
        BY <2>6
      <4> QED
        BY <2>1, <4>1
    <3>2. PICK marks \in Seq(Trailing) :
                /\ Len(o[i]) \in 1..Len(ws) /\ ws[Len(o[i])] = h[i] \o marks
                /\ marks # <<>> => i + 1 <= Len(h) /\ ~Stays(h, o, x, i + 1)
      BY <2>3, <2>6, <3>1
    <3> DEFINE at == Len(o[i])
    <3>3. at \in 1..Len(o[k]) /\ at \in 1..Len(ws)
      BY <2>2, <2>6, <3>2
    <3>4. CASE o[k] = ws
      BY <3>2, <3>3, <3>4 DEF Placed
    <3>5. ASSUME NEW l, NEW p, Phrase(h, o, x, k, l, p) PROVE Placed(h, o, x, k, i)
      <4> DEFINE more == PunctSuffix(h[l])
                 t == ws[Len(ws)]
      <4>1. o[k] = HandOver(ws, more) /\ more \in Seq(Trailing)
        BY <3>5 DEF Phrase, ws
      <4> HIDE DEF more, at
      <4>2. /\ \A y \in 1..Len(ws) : y < Len(ws) => o[k][y] = ws[y]
            /\ ws # <<>> => o[k] = ws \/ o[k][Len(ws)] = t \o more
        BY <2>2, <4>1, HandOverTyped
      <4>3. CASE at < Len(ws)
        <5>1. o[k][at] = h[i] \o marks
          BY <3>2, <3>3, <4>2, <4>3 DEF at
        <5> QED
          BY <3>2, <3>3, <5>1 DEF Placed, at
      <4>4. CASE at = Len(ws) /\ o[k] # ws
        <5>1. ws # <<>>
          <6>1. Len(<<>>) = 0
            OBVIOUS
          <6> QED
            BY <3>3, <6>1
        <5>2. t = h[i] \o marks /\ o[k][at] = t \o more
          BY <3>2, <4>2, <4>4, <5>1 DEF at
        <5> HIDE DEF t
        <5>3. /\ h[i] \in Seq(Glyph) /\ marks \in Seq(Glyph) /\ more \in Seq(Glyph)
              /\ marks \o more \in Seq(Trailing)
          <6>1. h[i] \in Bound
            <7>1. h \in Seq(Bound) /\ i \in 1..n
              BY <1>1, <2>1, <3>1 DEF StripRun, n
            <7> QED
              BY <7>1 DEF n
          <6>2. h[i] \in Tok
            BY <6>1, BoundIs
          <6>3. marks \in Tok /\ more \in Tok
            BY <3>2, <4>1, TrailingIs
          <6>4. marks \o more \in Seq(Trailing)
            BY <3>2, <4>1
          <6> QED
            BY <6>2, <6>3, <6>4 DEF Tok
        <5>4. o[k][at] = h[i] \o (marks \o more)
          <6>1. (h[i] \o marks) \o more = h[i] \o (marks \o more)
            <7> DEFINE a == h[i]
                       T == Glyph
            <7>1. a \in Seq(T) /\ marks \in Seq(T) /\ more \in Seq(T)
              BY <5>3
            <7> HIDE DEF a, T
            <7>2. (a \o marks) \o more = a \o (marks \o more)
              BY <7>1, ConcatAssociative
            <7> QED
              BY <7>2 DEF a
          <6> QED
            BY <5>2, <6>1, Zenon
        <5>5. i + 1 <= Len(h) /\ ~Stays(h, o, x, i + 1)
          <6>1. i + 1 \in 1..n /\ k \in 1..n /\ i \in 1..n /\ i \in 0..n /\ i + 1 <= k
            BY <1>1, <2>1, <3>1
          <6>2. CASE i + 1 = k
            BY <2>6, <6>1, <6>2 DEF n
          <6>3. CASE i + 1 # k
            <7>1. i + 1 \in 1..(k - 1) /\ k - 1 \in 0..n /\ i \in 0..((i + 1) - 1)
              BY <1>1, <6>1, <6>3
            <7>2. Len(o[i + 1]) <= Len(ws)
              <8>1. i + 1 \in 0..(k - 1) /\ k - 1 \in 0..n
                BY <7>1
              <8> QED
                BY <8>1, Grows DEF n, ws
            <7>3. Stays(h, o, x, i + 1) => Len(o[i]) < Len(o[i + 1])
              BY <7>1, Grows DEF n
            <7>4. Len(o[i]) \in Nat /\ Len(o[i + 1]) \in Nat
              <8>1. i \in 0..n /\ i + 1 \in 0..n
                BY <6>1
              <8> QED
                BY <8>1, Grows DEF n
            <7>5. ~Stays(h, o, x, i + 1)
              BY <2>2, <4>4, <7>2, <7>3, <7>4 DEF at
            <7> QED
              BY <6>1, <7>5 DEF n
          <6> QED
            BY <6>2, <6>3
        <5> QED
          BY <3>3, <5>3, <5>4, <5>5 DEF Placed, at
      <4> QED
        BY <2>2, <3>3, <3>4, <4>3, <4>4
    <3>6. \/ o[k] = ws
          \/ \E l, p : Phrase(h, o, x, k, l, p)
      BY <2>4, <2>6 DEF Kind, ws
    <3>7. CASE \E l, p : Phrase(h, o, x, k, l, p)
      <4>1. PICK l, p : Phrase(h, o, x, k, l, p)
        BY <3>7
      <4> QED
        BY <3>5, <4>1
    <3> QED
      BY <3>4, <3>6, <3>7
  <2>7. \A i \in 1..k : Stays(h, o, x, i) => Placed(h, o, x, k, i)
    BY <2>5, <2>6
  <2> QED
    BY <2>1, <2>7 DEF k
<1>4. 0..n \subseteq R
  <2> HIDE DEF R, n
  <2> QED
    BY <1>1, <1>2, <1>3, UpTo
<1> QED
  BY <1>4

\* What stays is heard as it is, but for punctuation that was handed to it.
StaysAs(h, o, x, k, marks) ==
    /\ Len(o[k]) \in 1..Len(o[Len(h)]) /\ Stuck(o[Len(h)][Len(o[k])], h[k], marks)
    /\ marks # <<>> => k + 1 <= Len(h) /\ ~Stays(h, o, x, k + 1)
LEMMA HeardAs ==
    ASSUME NEW h, NEW o, NEW x, StripRun(h, o, x), NEW k \in 1..Len(h), Stays(h, o, x, k)
    PROVE  \E marks : StaysAs(h, o, x, k, marks)
<1>1. Len(h) \in Nat
  BY DEF StripRun
<1>2. Len(h) \in 0..Len(h)
  BY <1>1
<1>3. Placed(h, o, x, Len(h), k)
  BY <1>2, Places
<1>4. h[k] \in Tok
  <2>1. h[k] \in Bound
    BY Lengths
  <2> QED
    BY <2>1, BoundIs
<1>5. PICK marks \in Seq(Trailing) :
        /\ Len(o[k]) \in 1..Len(o[Len(h)]) /\ o[Len(h)][Len(o[k])] = h[k] \o marks
        /\ marks # <<>> => k + 1 <= Len(h) /\ ~Stays(h, o, x, k + 1)
  BY <1>3 DEF Placed
<1>6. Stuck(o[Len(h)][Len(o[k])], h[k], marks)
  BY <1>4, <1>5, Zenon DEF Stuck
<1> QED
  BY <1>5, <1>6, Zenon DEF StaysAs

PolishKept(h, o, x) == {k \in 1..Len(h) : Stays(h, o, x, k) /\ ~Dropped(o[Len(h)], Len(o[k]))}

LEMMA BothSaid ==
    \A a, b \in Seq(Tok), t, u \in Tok : Words(a) = Words(b) /\ WordsOf(t) = WordsOf(u) =>
        Words(Append(a, t)) = Words(Append(b, u))
<1> SUFFICES ASSUME NEW a \in Seq(Tok), NEW b \in Seq(Tok), NEW t \in Tok, NEW u \in Tok,
                    Words(a) = Words(b), WordsOf(t) = WordsOf(u)
             PROVE  Words(Append(a, t)) = Words(Append(b, u))
  OBVIOUS
<1>1. Words(Append(a, t)) = SayStep(Words(a), t) /\ Words(Append(b, u)) = SayStep(Words(b), u)
  BY WordsSnoc
<1> QED
  BY <1>1 DEF SayStep

\* Picking, step by step.
PickTrace(g, h, kept) ==
    /\ g[0] = <<>> /\ g[Len(h)] = Pick(h, kept)
    /\ \A k \in 1..Len(h) : g[k] = PickStep(h, kept, g[k - 1], k)
LEMMA PickTraces == \A h \in Seq(Tok) : \A kept : \E g : PickTrace(g, h, kept)
<1> SUFFICES ASSUME NEW h \in Seq(Tok), NEW kept PROVE \E g : PickTrace(g, h, kept)
  OBVIOUS
<1> DEFINE js == Indices(h)
           n == Len(h)
<1>1. js \in Seq(DOMAIN h) /\ Len(js) = n /\ \A k \in 1..n : js[k] = k
  BY IndicesTyped DEF Indices
<1>2. Pick(h, kept) = PickOver(h, kept, js)
  BY OverIs
<1> HIDE DEF js
<1>3. PICK g : PickOverTraced(g, js, h, kept)
  BY <1>1, PickOverTrace
<1>4. /\ g[0] = <<>> /\ g[Len(js)] = PickOver(h, kept, js)
      /\ \A k \in 1..Len(js) : g[k] = PickStep(h, kept, g[k - 1], js[k])
  BY <1>3 DEF PickOverTraced
<1>5. g[n] = Pick(h, kept) /\ \A k \in 1..n : g[k] = PickStep(h, kept, g[k - 1], k)
  BY <1>1, <1>2, <1>4
<1> QED
  BY <1>4, <1>5 DEF PickTrace

LEMMA PolishSaid ==
    ASSUME NEW h, NEW o, NEW x, StripRun(h, o, x)
    PROVE  Words(Pick(h, PolishKept(h, o, x))) = Words(Unfilled(o[Len(h)]))
<1> DEFINE n == Len(h)
           F == o[n]
           L(k) == Len(o[k])
           kept == PolishKept(h, o, x)
           left == {l \in DOMAIN F : ~Dropped(F, l)}
<1>1. n \in Nat /\ h \in Seq(Tok) /\ \A k \in 1..n : h[k] \in Tok
  <2>1. h \in Seq(Bound) /\ n \in Nat
    BY DEF StripRun
  <2>2. h \in Seq(Tok)
    BY <2>1, BoundIs
  <2> QED
    BY <2>1, <2>2
<1>2. F \in Seq(Tok) /\ DOMAIN F = 1..L(n) /\ \A l \in 1..L(n) : F[l] \in Tok
  <2>1. n \in 0..n
    BY <1>1
  <2>2. F \in Seq(Bound)
    BY <2>1, RunTyped
  <2> HIDE DEF F
  <2>3. F \in Seq(Tok)
    BY <2>2, BoundIs
  <2> QED
    BY <2>3 DEF F
<1>3. /\ \A k \in 0..n : L(k) \in Nat
      /\ \A k \in 1..n : Stays(h, o, x, k) => L(k) = L(k - 1) + 1
      /\ \A k \in 1..n : ~Stays(h, o, x, k) => L(k) = L(k - 1)
  BY Lengths, Grows
<1>4. \A k \in 1..n : Stays(h, o, x, k) => L(k) \in 1..L(n) /\ WordsOf(F[L(k)]) = WordsOf(h[k])
  <2> SUFFICES ASSUME NEW k \in 1..n, Stays(h, o, x, k)
               PROVE  L(k) \in 1..L(n) /\ WordsOf(F[L(k)]) = WordsOf(h[k])
    OBVIOUS
  <2>1. PICK marks : StaysAs(h, o, x, k, marks)
    BY HeardAs
  <2> QED
    BY <2>1, StuckSaid DEF StaysAs
<1>5. \A k \in 1..n : k \in kept <=> Stays(h, o, x, k) /\ L(k) \in left
  BY <1>2, <1>4 DEF PolishKept
<1>6. L(0) = 0
  BY DEF StripRun
<1>7. Words(Unfilled(F)) = Words(Pick(F, left))
  <2>1. \A l \in DOMAIN F : l \in left <=> ~Dropped(F, l)
    OBVIOUS
  <2> HIDE DEF left, F
  <2> QED
    BY <1>2, <2>1, UnfilledSaid
<1> HIDE DEF kept, left
<1>8. PICK g : PickTrace(g, h, kept)
  BY <1>1, PickTraces
<1>9. PICK f : PickTrace(f, F, left)
  BY <1>2, PickTraces
<1>10. \A k \in 1..n : g[k] = PickStep(h, kept, g[k - 1], k)
  BY <1>8 DEF PickTrace
<1>11. \A l \in 1..L(n) : f[l] = PickStep(F, left, f[l - 1], l)
  BY <1>9 DEF PickTrace
<1>12. g[0] = <<>> /\ f[0] = <<>> /\ g[n] = Pick(h, kept) /\ f[L(n)] = Pick(F, left)
  BY <1>8, <1>9 DEF PickTrace
<1> DEFINE R == {k \in 0..n : g[k] \in Seq(Tok) /\ f[L(k)] \in Seq(Tok) /\ Words(g[k]) = Words(f[L(k)])}
<1> HIDE DEF L, F
<1>13. 0 \in R
  <2> DEFINE none == <<>>
  <2>1. none \in Seq(Tok) /\ g[0] = none /\ f[0] = none
    BY <1>12
  <2> HIDE DEF none
  <2>2. f[L(0)] = none
    BY <1>6, <2>1
  <2>3. 0 \in 0..n
    BY <1>1
  <2> QED
    BY <2>1, <2>2, <2>3
<1>14. ASSUME NEW j \in 0..(n - 1), j \in R PROVE j + 1 \in R
  <2> DEFINE k == j + 1
             a == g[j]
             b == f[L(j)]
  <2>1. k \in 1..n /\ k \in 0..n /\ k - 1 = j
    BY <1>1
  <2>2. a \in Seq(Tok) /\ b \in Seq(Tok) /\ Words(a) = Words(b)
    BY <1>14
  <2>3. g[k] = PickStep(h, kept, a, k)
    BY <1>10, <2>1
  <2> HIDE DEF k, a, b, R
  <2>4. CASE ~Stays(h, o, x, k)
    <3>1. L(k) = L(j) /\ k \notin kept
      BY <1>3, <1>5, <2>1, <2>4
    <3>2. g[k] = a /\ f[L(k)] = b
      BY <2>3, <3>1 DEF PickStep, b
    <3> QED
      BY <2>1, <2>2, <3>2 DEF R, k
  <2>5. CASE Stays(h, o, x, k)
    <3>1. L(k) = L(j) + 1 /\ L(j) \in Nat /\ L(k) \in 1..L(n) /\ WordsOf(F[L(k)]) = WordsOf(h[k])
      <4>1. j \in 0..n
        BY <1>1
      <4> QED
        BY <1>3, <1>4, <2>1, <2>5, <4>1
    <3>2. L(k) - 1 = L(j)
      BY <3>1
    <3>3. f[L(k)] = PickStep(F, left, b, L(k))
      BY <1>11, <3>1, <3>2 DEF b
    <3>4. k \in kept <=> L(k) \in left
      BY <1>5, <2>1, <2>5
    <3> DEFINE t == h[k]
               u == F[L(k)]
    <3>5. t \in Tok /\ u \in Tok /\ WordsOf(t) = WordsOf(u)
      BY <1>1, <1>2, <2>1, <3>1
    <3>6. CASE k \notin kept
      <4>1. g[k] = a /\ f[L(k)] = b
        BY <2>3, <3>3, <3>4, <3>6 DEF PickStep
      <4> QED
        BY <2>1, <2>2, <4>1 DEF R, k
    <3>7. CASE k \in kept
      <4>1. g[k] = Append(a, t) /\ f[L(k)] = Append(b, u)
        BY <2>3, <3>3, <3>4, <3>7 DEF PickStep
      <4> HIDE DEF t, u
      <4>2. Append(a, t) \in Seq(Tok) /\ Append(b, u) \in Seq(Tok)
        BY <2>2, <3>5
      <4>3. Words(Append(a, t)) = Words(Append(b, u))
        BY <2>2, <3>5, BothSaid
      <4> QED
        BY <2>1, <4>1, <4>2, <4>3 DEF R, k
    <3> QED
      BY <3>6, <3>7
  <2> QED
    BY <2>4, <2>5 DEF k
<1>15. 0..n \subseteq R
  <2> HIDE DEF R, n
  <2> QED
    BY <1>1, <1>13, <1>14, UpTo
<1>16. Words(g[n]) = Words(f[L(n)])
  <2>1. n \in 0..n
    BY <1>1
  <2> QED
    BY <1>15, <2>1
<1> QED
  BY <1>7, <1>12, <1>16 DEF F, kept

\* The tokens of a phrase.
LEMMA PhraseSays ==
    ASSUME NEW h, NEW o, NEW x, StripRun(h, o, x), NEW m, NEW l, NEW p, Phrase(h, o, x, m, l, p)
    PROVE  /\ m \in Nat /\ l \in Nat /\ DOMAIN p = 1..Len(p) /\ Len(p) = l - m + 1
           /\ \A k \in m..l : /\ k \in 1..Len(h) /\ h[k] \in Tok /\ WordsOf(h[k]) # <<>>
                              /\ WordOf(h[k])[1].w = p[k - m + 1]
                              /\ k < l => PunctSuffix(h[k]) = <<>>
                              /\ \A j \in DOMAIN h[k] : ~IsNumber(h[k][j])
           /\ \/ p \in Discourse /\ CommaBefore(o[m - 1]) /\ HasComma(h[l])
              \/ p \in VagueTrailers /\ (l = Len(h) \/ PunctSuffix(h[l]) # <<>>)
<1> DEFINE n == Len(h)
           d == Len(p)
<1>1. n \in Nat /\ h \in Seq(Bound)
  BY DEF StripRun
<1>2. m \in 1..n /\ l \in m..n /\ l = m + d - 1 /\ p \in FillersAt(h, m, CommaBefore(o[m - 1]))
  BY DEF Phrase, Goes
<1>3. m \in Nat /\ l \in Nat
  BY <1>1, <1>2
<1>4. /\ d \in 1..2 /\ DOMAIN p = 1..d /\ \A k \in 1..d : p[k] \in PhraseWords
      /\ \A k \in 1..d : /\ WordOf(h[m + k - 1]) = <<P(p[k])>>
                         /\ k < d => PunctSuffix(h[m + k - 1]) = <<>>
      /\ \/ p \in Discourse /\ CommaBefore(o[m - 1]) /\ HasComma(h[m + d - 1])
         \/ p \in VagueTrailers /\ (m + d - 1 = n \/ PunctSuffix(h[m + d - 1]) # <<>>)
  BY <1>2, <1>3, PhraseIs
<1> HIDE DEF n, d
<1>5. d = l - m + 1
  BY <1>2, <1>3, <1>4
<1>6. ASSUME NEW k \in m..l
      PROVE  /\ k \in 1..n /\ h[k] \in Tok /\ WordsOf(h[k]) # <<>>
             /\ WordOf(h[k])[1].w = p[k - m + 1]
             /\ k < l => PunctSuffix(h[k]) = <<>>
             /\ \A j \in DOMAIN h[k] : ~IsNumber(h[k][j])
  <2> DEFINE i == k - m + 1
             w == p[i]
  <2>1. i \in 1..d /\ m + i - 1 = k /\ k \in 1..n /\ (k < l => i < d)
    BY <1>1, <1>2, <1>3, <1>5
  <2>2. w \in PhraseWords /\ WordOf(h[k]) = <<P(w)>> /\ (k < l => PunctSuffix(h[k]) = <<>>)
    BY <1>4, <2>1
  <2>3. h[k] \in Tok
    <3>1. h[k] \in Bound
      BY <1>1, <2>1 DEF n
    <3> QED
      BY <3>1, BoundIs
  <2> HIDE DEF i, w
  <2>4. WordOf(h[k])[1].w = w /\ WordsOf(h[k]) # <<>> /\ \A j \in DOMAIN h[k] : ~IsNumber(h[k][j])
    BY <2>2, <2>3, PhraseToken
  <2> QED
    BY <2>1, <2>2, <2>3, <2>4 DEF w, i
<1> QED
  BY <1>2, <1>3, <1>4, <1>5, <1>6 DEF n, d

\* What does not stay has no number.
LEMMA NoNumberGoes ==
    ASSUME NEW h, NEW o, NEW x, StripRun(h, o, x), NEW k \in 1..Len(h), ~Stays(h, o, x, k)
    PROVE  ~HasNumber(h, k)
<1>1. PICK m, l, p : Phrase(h, o, x, m, l, p) /\ m <= k /\ k <= l
  BY Going
<1>2. m \in Nat /\ l \in Nat /\ \A i \in m..l : \A j \in DOMAIN h[i] : ~IsNumber(h[i][j])
  BY <1>1, PhraseSays
<1>3. k \in m..l
  BY <1>1, <1>2
<1> QED
  BY <1>2, <1>3 DEF HasNumber

\* A number beside what stays is beside it in what is out.
LEMMA NumberStays ==
    ASSUME NEW h, NEW o, NEW x, StripRun(h, o, x),
           NEW k \in 1..Len(h), Stays(h, o, x, k), HasNumber(h, k)
    PROVE  HasNumber(o[Len(h)], Len(o[k]))
<1> DEFINE F == o[Len(h)]
           L == Len(o[k])
<1>1. PICK marks : StaysAs(h, o, x, k, marks)
  BY HeardAs
<1>2. L \in 1..Len(F) /\ Stuck(F[L], h[k], marks)
  BY <1>1 DEF StaysAs
<1>3. F \in Seq(Bound)
  <2>1. Len(h) \in 0..Len(h)
    BY DEF StripRun
  <2> QED
    BY <2>1, RunTyped
<1>4. L \in DOMAIN F
  BY <1>2, <1>3
<1>5. \E j \in DOMAIN h[k] : IsNumber(h[k][j])
  BY DEF HasNumber
<1> HIDE DEF F, L
<1>6. \E j \in DOMAIN F[L] : IsNumber(F[L][j])
  BY <1>2, <1>5, StuckNumber
<1> QED
  BY <1>4, <1>6 DEF HasNumber, F, L

LEMMA NoNumberBeside ==
    ASSUME NEW h, NEW o, NEW x, StripRun(h, o, x), NEW k \in 1..Len(h), Stays(h, o, x, k),
           ~HasNumber(o[Len(h)], Len(o[k]) - 1), ~HasNumber(o[Len(h)], Len(o[k]) + 1)
    PROVE  ~HasNumber(h, k - 1) /\ ~HasNumber(h, k + 1)
<1> DEFINE n == Len(h)
           L(i) == Len(o[i])
<1>1. n \in Nat /\ DOMAIN h = 1..n
  BY DEF StripRun
<1>2. /\ \A i \in 0..n : L(i) \in Nat
      /\ \A i \in 1..n : Stays(h, o, x, i) => L(i) = L(i - 1) + 1
  BY Lengths, Grows
<1>3. ASSUME HasNumber(h, k - 1) PROVE FALSE
  <2> DEFINE i == k - 1
  <2>1. i \in 1..n /\ i \in 0..n
    <3>1. i \in DOMAIN h
      BY <1>3 DEF HasNumber
    <3> QED
      BY <1>1, <3>1
  <2>2. Stays(h, o, x, i)
    BY <1>3, <2>1, NoNumberGoes
  <2>3. HasNumber(o[n], L(i))
    BY <1>3, <2>1, <2>2, NumberStays
  <2>4. L(i) = L(k) - 1
    <3>1. L(k) = L(k - 1) + 1 /\ L(i) \in Nat
      BY <1>2, <2>1
    <3> HIDE DEF L
    <3> QED
      BY <3>1
  <2> HIDE DEF i
  <2>5. HasNumber(o[n], L(k) - 1)
    BY <2>3, <2>4, Zenon
  <2> QED
    BY <2>5
<1>4. ASSUME HasNumber(h, k + 1) PROVE FALSE
  <2> DEFINE i == k + 1
  <2>1. i \in 1..n /\ i - 1 = k
    <3>1. i \in DOMAIN h
      BY <1>4 DEF HasNumber
    <3> QED
      BY <1>1, <3>1
  <2>2. Stays(h, o, x, i)
    BY <1>4, <2>1, NoNumberGoes
  <2>3. HasNumber(o[n], L(i))
    BY <1>4, <2>1, <2>2, NumberStays
  <2>4. L(i) = L(k) + 1
    <3>1. L(i) = L(i - 1) + 1
      BY <1>2, <2>1, <2>2
    <3> QED
      BY <2>1, <3>1
  <2> HIDE DEF i
  <2>5. HasNumber(o[n], L(k) + 1)
    BY <2>3, <2>4, Zenon
  <2> QED
    BY <2>5
<1> QED
  BY <1>3, <1>4

LEMMA PolishBare ==
    ASSUME NEW h, NEW o, NEW x, StripRun(h, o, x), NEW k \in 1..Len(h), Stays(h, o, x, k),
           Dropped(o[Len(h)], Len(o[k]))
    PROVE  BareFiller(h, PolishKept(h, o, x), k)
<1> DEFINE n == Len(h)
           F == o[n]
           L(i) == Len(o[i])
           kept == PolishKept(h, o, x)
           core == Trim(h[k], Marks)
<1>1. n \in Nat
  BY DEF StripRun
<1>2. PICK marks : StaysAs(h, o, x, k, marks)
  BY HeardAs
<1>3. /\ L(k) \in 1..L(n) /\ Stuck(F[L(k)], h[k], marks)
      /\ marks # <<>> => k + 1 <= n /\ ~Stays(h, o, x, k + 1)
  BY <1>2 DEF StaysAs
<1>4. Trim(F[L(k)], Marks) = core
  BY <1>3, StuckTrim
<1>5. /\ FillerBody(F[L(k)], L(k) = 1 /\ InitialFillerAllowed(F))
      /\ ~HasNumber(F, L(k) - 1) /\ ~HasNumber(F, L(k) + 1)
  BY DEF Dropped
<1>6. /\ Len(core) = 1 /\ core[1].w \in Fillers
      /\ core[1].cap => L(k) = 1 /\ InitialFillerAllowed(F)
  BY <1>4, <1>5 DEF FillerBody
<1>7. ~HasNumber(h, k - 1) /\ ~HasNumber(h, k + 1)
  BY <1>5, NoNumberBeside
<1>8. /\ \A i \in 0..n : L(i) \in Nat
      /\ \A i \in 1..n : Stays(h, o, x, i) => L(i) = L(i - 1) + 1
      /\ \A i \in 1..k : Stays(h, o, x, i) => L(i) >= 1 /\ \A j \in 0..(i - 1) : L(j) < L(i)
  <2>1. k \in 0..n
    BY <1>1
  <2> QED
    BY <2>1, Lengths, Grows
<1>9. \A i \in kept : i \in 1..n /\ Stays(h, o, x, i)
  BY DEF PolishKept
<1>10. BareFiller(h, kept, k) <=>
        /\ Len(core) = 1 /\ core[1].w \in Fillers
        /\ ~HasNumber(h, k - 1) /\ ~HasNumber(h, k + 1)
        /\ core[1].cap =>
            /\ kept \cap 1..(k - 1) = {}
            /\ \/ IsMark(Last(h[k]))
               \/ k < n /\ (StartsLower(h[k + 1]) \/ k + 1 \notin kept)
  BY DEF BareFiller
<1> HIDE DEF core, kept, L, F
<1>11. ASSUME core[1].cap
       PROVE  /\ kept \cap 1..(k - 1) = {}
              /\ \/ IsMark(Last(h[k]))
                 \/ k < n /\ (StartsLower(h[k + 1]) \/ k + 1 \notin kept)
  <2>1. L(k) = 1 /\ InitialFillerAllowed(F)
    BY <1>6, <1>11
  <2>2. ASSUME NEW i \in 1..(k - 1), i \in kept PROVE FALSE
    <3>1. i \in 1..k /\ i \in 0..(k - 1) /\ i \in 0..n /\ k \in 1..k
      BY <1>1
    <3>2. L(i) >= 1 /\ L(i) < L(k) /\ L(i) \in Nat
      BY <1>8, <1>9, <2>2, <3>1
    <3> QED
      BY <2>1, <3>2
  <2>3. \/ Last(F[1]).w \in Terminators \union Pauses
        \/ Len(F) > 1 /\ StartsLower(F[2])
    BY <2>1 DEF InitialFillerAllowed
  <2>4. CASE marks # <<>>
    <3>1. k < n /\ ~Stays(h, o, x, k + 1)
      BY <1>1, <1>3, <2>4
    <3> QED
      BY <1>9, <2>2, <3>1
  <2>5. CASE marks = <<>> /\ Last(F[1]).w \in Terminators \union Pauses
    <3>1. F[1] = h[k]
      <4>1. F[1] = h[k] \o <<>> /\ h[k] \in Seq(Glyph)
        BY <1>3, <2>1, <2>5 DEF Stuck, Tok
      <4> QED
        BY <4>1, AppendJoin, SpaceIs
    <3>2. IsMark(Last(h[k]))
      BY <2>5, <3>1 DEF IsMark, IsWord, Marks
    <3> QED
      BY <2>2, <3>2
  <2>6. CASE Len(F) > 1 /\ StartsLower(F[2])
    <3>1. k # n
      BY <2>1, <2>6 DEF L, F
    <3>2. k < n /\ k + 1 \in 1..n /\ (k + 1) - 1 = k
      BY <1>1, <3>1
    <3>3. ASSUME k + 1 \in kept PROVE StartsLower(h[k + 1])
      <4>1. Stays(h, o, x, k + 1)
        BY <1>9, <3>3
      <4>2. L(k + 1) = 2
        BY <1>8, <2>1, <3>2, <4>1
      <4>3. PICK ms : StaysAs(h, o, x, k + 1, ms)
        BY <3>2, <4>1, HeardAs
      <4>4. Stuck(F[L(k + 1)], h[k + 1], ms)
        BY <4>3 DEF StaysAs, F, L
      <4> QED
        BY <2>6, <4>2, <4>4, StuckLower
    <3> QED
      BY <2>2, <3>2, <3>3
  <2> QED
    BY <2>3, <2>4, <2>5, <2>6
<1>12. BareFiller(h, kept, k)
  BY <1>6, <1>7, <1>10, <1>11
<1> QED
  BY <1>12 DEF kept

LEMMA OneSaid == \A t \in Tok : Words(<<t>>) = WordsOf(t)
<1> SUFFICES ASSUME NEW t \in Tok PROVE Words(<<t>>) = WordsOf(t)
  OBVIOUS
<1> DEFINE none == <<>>
<1>1. none \in Seq(Tok) /\ <<t>> = Append(none, t)
  OBVIOUS
<1>2. Words(none) = none /\ WordsOf(t) \in Seq(Glyph)
  BY NoWords, WordsOfTyped DEF Tok
<1>3. none \o WordsOf(t) = WordsOf(t)
  BY <1>2, AppendJoin, SpaceIs
<1> HIDE DEF none
<1>4. Words(Append(none, t)) = SayStep(Words(none), t)
  BY <1>1, WordsSnoc
<1> QED
  BY <1>1, <1>2, <1>3, <1>4 DEF SayStep

\* An interruption follows a comma, or nothing that stays.
LEMMA Interrupts ==
    ASSUME NEW h, NEW o, NEW x, StripRun(h, o, x), NEW m, NEW l, NEW p, Phrase(h, o, x, m, l, p),
           CommaBefore(o[m - 1]), NEW kept, \A k \in kept : k \in 1..Len(h) /\ Stays(h, o, x, k)
    PROVE  \/ kept \cap 1..(m - 1) = {}
           \/ \E q \in Max(kept \cap 1..(m - 1))..(m - 1) : HasComma(h[q])
<1> DEFINE n == Len(h)
           before == kept \cap 1..(m - 1)
<1>1. n \in Nat /\ m \in 1..n /\ x[m - 1] = m
  BY DEF StripRun, Phrase
<1>2. m - 1 \in 0..n
  BY <1>1
<1>3. Paused(h, o, x, m - 1)
  BY <1>2, Pausing
<1>4. CASE o[m - 1] = <<>>
  BY <1>3, <1>4 DEF Paused
<1>5. CASE o[m - 1] # <<>> /\ before # {}
  <2>1. HasComma(Last(o[m - 1]))
    BY <1>5 DEF CommaBefore
  <2>2. PICK q \in 1..n : /\ q < m /\ HasComma(h[q])
                          /\ \A j \in 1..(m - 1) : q < j => ~Stays(h, o, x, j)
    BY <1>1, <1>3, <1>5, <2>1 DEF Paused
  <2>3. before \subseteq 1..(m - 1) /\ m - 1 \in Nat
    BY <1>1
  <2>4. Max(before) \in before
    <3> HIDE DEF before
    <3> QED
      BY <1>5, <2>3, LargestIn
  <2> DEFINE b == Max(before)
  <2>5. b \in 1..(m - 1) /\ Stays(h, o, x, b)
    BY <2>4
  <2> HIDE DEF b
  <2>6. b <= q /\ q <= m - 1
    BY <1>1, <2>2, <2>5
  <2>7. q \in b..(m - 1)
    BY <1>1, <2>5, <2>6
  <2> QED
    BY <2>2, <2>7 DEF b
<1> QED
  BY <1>4, <1>5

LEMMA PolishScaffolding ==
    ASSUME NEW h, NEW o, NEW x, StripRun(h, o, x), NEW i \in 1..Len(h), ~Stays(h, o, x, i),
           NEW kept, \A k \in kept : k \in 1..Len(h) /\ Stays(h, o, x, k)
    PROVE  Scaffolding(h, kept, i)
<1> DEFINE n == Len(h)
<1>1. n \in Nat
  BY DEF StripRun
<1>2. PICK m, l, p : Phrase(h, o, x, m, l, p) /\ m <= i /\ i <= l
  BY Going
<1>3. m \in 1..n /\ l \in m..n
  BY <1>2 DEF Phrase
<1>4. /\ m \in Nat /\ l \in Nat /\ DOMAIN p = 1..Len(p) /\ Len(p) = l - m + 1
      /\ \A k \in m..l : /\ k \in 1..n /\ h[k] \in Tok /\ WordsOf(h[k]) # <<>>
                         /\ WordOf(h[k])[1].w = p[k - m + 1]
                         /\ k < l => PunctSuffix(h[k]) = <<>>
      /\ \/ p \in Discourse /\ CommaBefore(o[m - 1]) /\ HasComma(h[l])
         \/ p \in VagueTrailers /\ (l = n \/ PunctSuffix(h[l]) # <<>>)
  BY <1>2, PhraseSays
<1>5. m \in 1..i /\ l \in i..n
  BY <1>2, <1>3, <1>4
<1> DEFINE phrase == [k \in 1..(l - m + 1) |-> WordOf(h[m + k - 1])[1].w]
           before == kept \cap 1..(m - 1)
<1>6. \A k \in m..l : k \notin kept /\ Words(<<h[k]>>) # <<>>
  <2>1. \A k \in m..l : ~Stays(h, o, x, k)
    BY <1>2, Going
  <2> QED
    BY <1>4, <2>1, OneSaid
<1>7. \A k \in m..(l - 1) : PunctSuffix(h[k]) = <<>>
  <2>1. \A k \in m..(l - 1) : k \in m..l /\ k < l
    BY <1>4
  <2> QED
    BY <1>4, <2>1
<1>8. phrase = p
  <2> DEFINE d == l - m + 1
  <2>1. \A k \in 1..d : m + k - 1 \in m..l /\ (m + k - 1) - m + 1 = k
    BY <1>4
  <2>2. \A k \in 1..d : WordOf(h[m + k - 1])[1].w = p[k]
    <3> SUFFICES ASSUME NEW k \in 1..d PROVE WordOf(h[m + k - 1])[1].w = p[k]
      OBVIOUS
    <3> DEFINE y == m + k - 1
    <3>1. y \in m..l /\ y - m + 1 = k
      BY <2>1
    <3> HIDE DEF y
    <3>2. WordOf(h[y])[1].w = p[y - m + 1]
      BY <1>4, <3>1
    <3> QED
      BY <3>1, <3>2 DEF y
  <2>3. DOMAIN p = 1..d /\ p = [k \in DOMAIN p |-> p[k]]
    <3>1. p = [k \in DOMAIN p |-> p[k]]
      BY <1>4 DEF Discourse, VagueTrailers
    <3> QED
      BY <1>4, <3>1
  <2> HIDE DEF d
  <2>4. p = [k \in 1..d |-> p[k]]
    BY <2>3, Zenon
  <2>5. [k \in 1..d |-> WordOf(h[m + k - 1])[1].w] = [k \in 1..d |-> p[k]]
    BY <2>2
  <2> QED
    BY <2>4, <2>5 DEF d
<1>9. \/ /\ p \in Discourse /\ HasComma(h[l])
         /\ before = {} \/ \E k \in Max(before)..(m - 1) : HasComma(h[k])
      \/ /\ p \in VagueTrailers
         /\ l = Len(h) \/ PunctSuffix(h[l]) # <<>>
  <2>1. CASE p \in Discourse /\ CommaBefore(o[m - 1]) /\ HasComma(h[l])
    <3>1. before = {} \/ \E k \in Max(before)..(m - 1) : HasComma(h[k])
      BY <1>2, <2>1, Interrupts
    <3> QED
      BY <2>1, <3>1
  <2>2. CASE p \in VagueTrailers /\ (l = n \/ PunctSuffix(h[l]) # <<>>)
    BY <2>2
  <2> QED
    BY <1>4, <2>1, <2>2
<1> HIDE DEF phrase, before
<1>10. \/ /\ phrase \in Discourse /\ HasComma(h[l])
          /\ before = {} \/ \E k \in Max(before)..(m - 1) : HasComma(h[k])
       \/ /\ phrase \in VagueTrailers
          /\ l = Len(h) \/ PunctSuffix(h[l]) # <<>>
  BY <1>8, <1>9, Zenon
<1> QED
  BY <1>5, <1>6, <1>7, <1>10 DEF Scaffolding, phrase, before

----------------------------------------------------------------------------
(* Polish, and all of it.                                                  *)

LEMMA PolishOnlyFillers ==
    ASSUME SpeechInv, dict \in Dictionaries, mode \in {"polish", "email"}
    PROVE  OnlyFillersGo
<1> DEFINE text == Apply(dict, Join(Said(spoken)))
           h == Tokens(text)
<1>1. text \in Seq(Glyph)
  BY HeardTyped DEF SpeechInv
<1>2. Heard = h /\ typed = PolishTidy(text)
  BY DEF Heard, SpeechInv, Reply
<1> HIDE DEF text
<1>3. h \in Seq(Bound)
  BY <1>1, TokensBound
<1>4. PICK o, x : StripRun(h, o, x)
  BY <1>3, StripTrace
<1> HIDE DEF h
<1> DEFINE n == Len(h)
           F == o[n]
           kept == PolishKept(h, o, x)
<1>5. n \in Nat /\ DOMAIN h = 1..n /\ n \in 0..n
  BY <1>3
<1>6. F \in Seq(Bound) /\ StripDiscourse(h) = F
  <2>1. F \in Seq(Bound)
    BY <1>4, <1>5, RunTyped
  <2> QED
    BY <1>4, <2>1 DEF StripRun
<1>7. typed \in Seq(Glyph) /\ WordsOf(typed) = Words(Unfilled(F))
  <2>1. F \in Seq(Tok)
    BY <1>6, BoundIs
  <2>2. typed = AutoTidy(Join(F))
    BY <1>2, <1>6 DEF PolishTidy, h
  <2>3. Join(F) \in Seq(Glyph) /\ Tokens(Join(F)) = F
    BY <1>6, <2>1, JoinSaid, JoinedTokens DEF Tok
  <2> QED
    BY <2>2, <2>3, AutoSaid
<1>8. Words(Tokens(typed)) = Words(Pick(h, kept))
  BY <1>4, <1>7, TokensSaid, PolishSaid
<1>9. \A k \in kept : k \in 1..n /\ Stays(h, o, x, k)
  BY DEF PolishKept
<1>10. kept \in SUBSET DOMAIN h
  BY <1>5, <1>9
<1>11. ASSUME NEW i \in DOMAIN h \ kept PROVE BareFiller(h, kept, i) \/ Scaffolding(h, kept, i)
  <2>1. i \in 1..n
    BY <1>5
  <2>2. CASE Stays(h, o, x, i)
    <3>1. Dropped(F, Len(o[i]))
      BY <1>11, <2>1, <2>2 DEF PolishKept
    <3> QED
      BY <1>4, <2>1, <2>2, <3>1, PolishBare
  <2>3. CASE ~Stays(h, o, x, i)
    <3> HIDE DEF kept
    <3> QED
      BY <1>4, <1>9, <2>1, <2>3, PolishScaffolding
  <2> QED
    BY <2>2, <2>3
<1> HIDE DEF kept
<1>12. mode # "raw" /\ mode \notin {"raw", "auto"}
  OBVIOUS
<1> QED
  BY <1>2, <1>8, <1>10, <1>11, <1>12, Zenon DEF OnlyFillersGo

(* Whatever is said, in whatever vocabulary and with whatever dictionary,  *)
(* the typed text has the words that were heard, in their order, but for   *)
(* the fillers and set phrases that may go.                                *)
THEOREM OnlyFillersAreDropped == Spec => []OnlyFillersGo
<1> DEFINE Inv == DictionaryInv /\ SpeechInv
<1>1. Init => Inv
  BY DictionaryInit, SpeechInit
<1>2. Inv /\ [Next]_vars => Inv'
  BY DictionaryNext, SpeechNext
<1>3. Inv => OnlyFillersGo
  <2> SUFFICES ASSUME Inv PROVE OnlyFillersGo
    OBVIOUS
  <2>1. dict \in Dictionaries
    BY DEF DictionaryInv
  <2>2. mode = "none" \/ mode \in {"raw", "auto"} \/ mode \in {"polish", "email"}
    BY DEF SpeechInv, Modes
  <2>3. CASE mode = "none"
    BY <2>3 DEF OnlyFillersGo
  <2>4. CASE mode \in {"raw", "auto"}
    BY <2>1, <2>4, AutoOnlyFillers
  <2>5. CASE mode \in {"polish", "email"}
    BY <2>1, <2>5, PolishOnlyFillers
  <2> QED
    BY <2>2, <2>3, <2>4, <2>5
<1> QED
  BY <1>1, <1>2, <1>3, PTL DEF Spec

----------------------------------------------------------------------------
(* Which marks stand together.                                             *)

\* q may stand behind p: a terminator is followed by no pause, and by another
\* terminator only if D has the pair.
Follows(p, q, D) == Ends(p) => q.w \notin Pauses /\ (Ends(q) => <<p.w, q.w>> \in D)
Joint(t, D) == \A k \in 1..(Len(t) - 1) : Follows(t[k], t[k + 1], D)

LEMMA MayFollow ==
    \A p, q, D : ~Ends(p) \/ q.w \notin Terminators \union Pauses => Follows(p, q, D)
BY DEF Follows, Ends

LEMMA JointSnoc ==
    \A D : \A s \in Tok, e \in Glyph :
        Joint(Append(s, e), D) <=> Joint(s, D) /\ (s # <<>> => Follows(s[Len(s)], e, D))
<1> SUFFICES ASSUME NEW D, NEW s \in Tok, NEW e \in Glyph
             PROVE  Joint(Append(s, e), D) <=> Joint(s, D) /\ (s # <<>> => Follows(s[Len(s)], e, D))
  OBVIOUS
<1> DEFINE u == Append(s, e)
           n == Len(s)
<1>1. n \in Nat /\ Len(u) = n + 1 /\ (\A k \in 1..n : u[k] = s[k]) /\ u[n + 1] = e
  BY Extended DEF Tok
<1>2. s # <<>> <=> n # 0
  BY DEF Tok
<1> HIDE DEF u, n
<1>3. ASSUME Joint(u, D) PROVE Joint(s, D) /\ (n # 0 => Follows(s[n], e, D))
  <2>1. \A k \in 1..n : Follows(u[k], u[k + 1], D)
    <3>1. (n + 1) - 1 = n
      BY <1>1
    <3> QED
      BY <1>1, <1>3, <3>1 DEF Joint
  <2>2. ASSUME NEW k \in 1..(n - 1) PROVE Follows(s[k], s[k + 1], D)
    <3>1. k \in 1..n /\ k + 1 \in 1..n
      BY <1>1
    <3> QED
      BY <1>1, <2>1, <3>1
  <2>3. ASSUME n # 0 PROVE Follows(s[n], e, D)
    <3>1. n \in 1..n
      BY <1>1, <2>3
    <3> QED
      BY <1>1, <2>1, <3>1
  <2> QED
    BY <2>2, <2>3 DEF Joint, n
<1>4. ASSUME Joint(s, D), n # 0 => Follows(s[n], e, D) PROVE Joint(u, D)
  <2>1. ASSUME NEW k \in 1..n PROVE Follows(u[k], u[k + 1], D)
    <3>1. CASE k = n
      <4>1. n # 0 /\ k + 1 = n + 1
        BY <1>1, <3>1
      <4> QED
        BY <1>1, <1>4, <3>1, <4>1
    <3>2. CASE k # n
      <4>1. k \in 1..(n - 1) /\ k + 1 \in 1..n
        BY <1>1, <3>2
      <4>2. Follows(s[k], s[k + 1], D)
        BY <1>4, <4>1 DEF Joint, n
      <4> QED
        BY <1>1, <4>1, <4>2
    <3> QED
      BY <3>1, <3>2
  <2>2. Len(u) - 1 = n
    BY <1>1
  <2> QED
    BY <2>1, <2>2 DEF Joint
<1> QED
  BY <1>2, <1>3, <1>4 DEF u, n

LEMMA JointJoin ==
    \A D : \A a, b \in Tok :
        Joint(a, D) /\ Joint(b, D) /\ (a # <<>> /\ b # <<>> => Follows(a[Len(a)], b[1], D)) =>
            Joint(a \o b, D)
<1> SUFFICES ASSUME NEW D, NEW a \in Tok, NEW b \in Tok, Joint(a, D), Joint(b, D),
                    a # <<>> /\ b # <<>> => Follows(a[Len(a)], b[1], D)
             PROVE  Joint(a \o b, D)
  OBVIOUS
<1> DEFINE u == a \o b
           n == Len(a)
           m == Len(b)
<1>1. /\ Len(u) = n + m /\ n \in Nat /\ m \in Nat
      /\ \A i \in 1..n : u[i] = a[i]
      /\ \A i \in 1..m : u[n + i] = b[i]
  BY Joined DEF Tok
<1>2. (n # 0 => a # <<>>) /\ (m # 0 => b # <<>>)
  BY DEF Tok
<1> HIDE DEF u
<1> SUFFICES ASSUME NEW k \in 1..(Len(u) - 1) PROVE Follows(u[k], u[k + 1], D)
  BY DEF Joint, u
<1>3. n # 0 /\ m # 0 => Follows(a[n], b[1], D)
  BY <1>2
<1>4. \A i \in 1..(n - 1) : Follows(a[i], a[i + 1], D)
  BY DEF Joint
<1>5. \A i \in 1..(m - 1) : Follows(b[i], b[i + 1], D)
  BY DEF Joint
<1> HIDE DEF n, m
<1>6. CASE k \in 1..(n - 1)
  <2>1. k \in 1..n /\ k + 1 \in 1..n
    BY <1>1, <1>6
  <2> QED
    BY <1>1, <1>4, <1>6, <2>1
<1>7. CASE k = n
  <2>1. n # 0 /\ m # 0 /\ n \in 1..n /\ 1 \in 1..m
    BY <1>1, <1>7
  <2> QED
    BY <1>1, <1>3, <1>7, <2>1
<1>8. CASE k > n
  <2> DEFINE i == k - n
  <2>1. i \in 1..(m - 1) /\ i \in 1..m /\ i + 1 \in 1..m /\ n + i = k /\ n + (i + 1) = k + 1
    BY <1>1, <1>8
  <2> HIDE DEF i
  <2>2. u[n + i] = b[i] /\ u[n + (i + 1)] = b[i + 1]
    BY <1>1, <2>1
  <2> QED
    BY <1>5, <2>1, <2>2
<1>9. k \in 1..(n - 1) \/ k = n \/ k > n
  BY <1>1
<1> QED
  BY <1>6, <1>7, <1>8, <1>9

\* Of the punctuation at the end.
LEMMA JointSuffix == \A D : \A t \in Tok : Joint(t, D) => Joint(PunctSuffix(t), D)
<1> SUFFICES ASSUME NEW D, NEW t \in Tok, Joint(t, D) PROVE Joint(PunctSuffix(t), D)
  OBVIOUS
<1>1. PICK m \in 0..Len(t) : SuffixFrom(t, m)
  BY SuffixIs DEF Tok
<1> DEFINE s == PunctSuffix(t)
           n == Len(t)
<1>2. Len(s) = n - m /\ n \in Nat /\ \A i \in 1..(n - m) : s[i] = t[m + i]
  BY <1>1, SuffixElements DEF Tok
<1> HIDE DEF s
<1> SUFFICES ASSUME NEW k \in 1..(Len(s) - 1) PROVE Follows(s[k], s[k + 1], D)
  BY DEF Joint, s
<1>3. k \in 1..(n - m) /\ k + 1 \in 1..(n - m) /\ m + k \in 1..(n - 1) /\ m + (k + 1) = (m + k) + 1
  BY <1>2
<1>4. s[k] = t[m + k] /\ s[k + 1] = t[(m + k) + 1]
  BY <1>2, <1>3
<1> QED
  BY <1>3, <1>4 DEF Joint

\* A text written with other capitals.
SameMarks(a, b) == a \in Tok /\ b \in Tok /\ Len(a) = Len(b) /\ \A k \in 1..Len(a) : a[k].w = b[k].w
LEMMA SameJoint == \A D, a, b : SameMarks(a, b) /\ Joint(a, D) => Joint(b, D)
<1> SUFFICES ASSUME NEW D, NEW a, NEW b, SameMarks(a, b), Joint(a, D),
                    NEW k \in 1..(Len(b) - 1)
             PROVE  Follows(b[k], b[k + 1], D)
  BY DEF Joint
<1>1. Len(a) = Len(b) /\ Len(b) \in Nat /\ \A i \in 1..Len(b) : a[i].w = b[i].w
  BY DEF SameMarks, Tok
<1>2. k \in 1..Len(b) /\ k + 1 \in 1..Len(b) /\ k \in 1..(Len(a) - 1)
  BY <1>1
<1>3. a[k].w = b[k].w /\ a[k + 1].w = b[k + 1].w /\ Follows(a[k], a[k + 1], D)
  BY <1>1, <1>2 DEF Joint
<1> QED
  BY <1>3 DEF Follows, Ends

\* Cutting at spaces puts no marks together.
LEMMA SplitJoint ==
    \A D : \A s \in Tok : Joint(s, D) =>
        \E f \in Seq({t \in Tok : Joint(t, D)}), l \in Tok :
            /\ Split(s, Space) = Append(f, l) /\ Joint(l, D)
            /\ l # <<>> => s # <<>> /\ l[Len(l)] = s[Len(s)]
<1> SUFFICES ASSUME NEW D
             PROVE  \A s \in Tok : Joint(s, D) =>
                        \E f \in Seq({t \in Tok : Joint(t, D)}), l \in Tok :
                            /\ Split(s, Space) = Append(f, l) /\ Joint(l, D)
                            /\ l # <<>> => s # <<>> /\ l[Len(l)] = s[Len(s)]
  OBVIOUS
<1> DEFINE J == {t \in Tok : Joint(t, D)}
           Cut(s, f, l) == /\ f \in Seq(J) /\ l \in J /\ Split(s, Space) = Append(f, l)
                           /\ l # <<>> => s # <<>> /\ l[Len(l)] = s[Len(s)]
           R == {s \in Tok : Joint(s, D) => \E f, l : Cut(s, f, l)}
           none == <<>>
<1>1. none \in Tok /\ Joint(none, D) /\ none \in J /\ J \subseteq Tok /\ none \in Seq(J)
  <2>1. none \in Tok /\ \A k \in 1..(Len(none) - 1) : FALSE
    BY DEF Tok
  <2>2. Joint(none, D)
    BY <2>1 DEF Joint
  <2> HIDE DEF none
  <2>3. <<>> \in Seq(J)
    OBVIOUS
  <2> QED
    BY <2>1, <2>2, <2>3 DEF none
<1>2. Seq(J) \subseteq Seq(Tok)
  BY <1>1
<1>3. <<>> \in R
  <2>1. Split(none, Space) = <<none>>
    BY SplitSnoc
  <2>2. <<none>> = Append(none, none)
    OBVIOUS
  <2> HIDE DEF J
  <2>3. Cut(none, none, none)
    BY <1>1, <2>1, <2>2, Zenon
  <2> QED
    BY <1>1, <2>3
<1>4. ASSUME NEW s \in Seq(Glyph), NEW e \in Glyph, s \in R PROVE Append(s, e) \in R
  <2> DEFINE u == Append(s, e)
  <2>1. u \in Tok /\ s \in Tok /\ Split(u, Space) = SplitStep(Split(s, Space), e, Space) /\ u # <<>>
    BY SplitSnoc DEF Tok
  <2>2. u[Len(u)] = e
    OBVIOUS
  <2> HIDE DEF u
  <2> SUFFICES ASSUME Joint(u, D) PROVE \E f, l : Cut(u, f, l)
    BY <2>1 DEF u
  <2>3. Joint(s, D) /\ (s # <<>> => Follows(s[Len(s)], e, D))
    BY <2>1, JointSnoc DEF u
  <2>4. PICK f, l : Cut(s, f, l)
    BY <1>4, <2>3
  <2>5. f \in Seq(J) /\ l \in J /\ Split(s, Space) = Append(f, l)
        /\ (l # <<>> => s # <<>> /\ l[Len(l)] = s[Len(s)])
    BY <2>4
  <2> DEFINE p == Append(f, l)
  <2>6. p \in Seq(J)
    BY <2>5
  <2>7. CASE e = Space
    <3>1. Split(u, Space) = Append(p, none)
      BY <2>1, <2>5, <2>7 DEF SplitStep
    <3> HIDE DEF p
    <3>2. Cut(u, p, none)
      BY <1>1, <2>6, <3>1
    <3> QED
      BY <3>2
  <2>8. CASE e # Space
    <3> DEFINE d == Append(l, e)
    <3>1. f \in Seq(Tok) /\ l \in Tok
      BY <1>1, <1>2, <2>5
    <3>2. Split(u, Space) = Append(f, d)
      BY <2>1, <2>5, <2>8, <3>1, SplitStepLonger
    <3>3. Joint(d, D)
      <4>1. l # <<>> => Follows(l[Len(l)], e, D)
        BY <2>3, <2>5
      <4> QED
        BY <2>5, <3>1, <4>1, JointSnoc
    <3>4. d \in Tok /\ d[Len(d)] = e
      BY <3>1 DEF Tok
    <3> HIDE DEF d
    <3>5. Cut(u, f, d)
      BY <2>1, <2>2, <2>5, <3>2, <3>3, <3>4
    <3> QED
      BY <3>5
  <2> QED
    BY <2>7, <2>8
<1>5. Seq(Glyph) \subseteq R
  <2> HIDE DEF R
  <2> QED
    BY <1>3, <1>4, BuiltUp
<1> SUFFICES ASSUME NEW s \in Tok, Joint(s, D)
             PROVE  \E f \in Seq(J), l \in Tok :
                        /\ Split(s, Space) = Append(f, l) /\ Joint(l, D)
                        /\ l # <<>> => s # <<>> /\ l[Len(l)] = s[Len(s)]
  OBVIOUS
<1>6. PICK f, l : Cut(s, f, l)
  BY <1>5 DEF Tok
<1> QED
  BY <1>6

LEMMA TokensJoint ==
    \A D : \A s \in Tok : Joint(s, D) => Tokens(s) \in Seq({t \in Tok : Joint(t, D)})
<1> SUFFICES ASSUME NEW D, NEW s \in Tok, Joint(s, D)
             PROVE  Tokens(s) \in Seq({t \in Tok : Joint(t, D)})
  OBVIOUS
<1> DEFINE J == {t \in Tok : Joint(t, D)}
           p == Split(s, Space)
           S == ToSet(p) \ {<<>>}
<1>1. PICK f \in Seq(J), l \in Tok : p = Append(f, l) /\ Joint(l, D)
  BY SplitJoint
<1>2. p \in Seq(J)
  <2>1. l \in J
    BY <1>1
  <2> HIDE DEF J, p
  <2> QED
    BY <1>1, <2>1
<1>3. Tokens(s) = KeepIn(p, S)
  BY DEF Tokens
<1> HIDE DEF J, p, S
<1> QED
  BY <1>2, <1>3, KeepsMembers DEF J

\* Joining puts a space between.
LEMMA GapLast == \A x \in Tok : (x \o <<Space>>)[Len(x \o <<Space>>)] = Space
<1> SUFFICES ASSUME NEW x \in Tok PROVE (x \o <<Space>>)[Len(x \o <<Space>>)] = Space
  OBVIOUS
<1> DEFINE gap == <<Space>>
           n == Len(x)
<1>1. gap \in Tok
  BY SpaceIs DEF Tok
<1>2. gap[1] = Space /\ Len(gap) = 1
  OBVIOUS
<1> HIDE DEF gap
<1>3. Len(x \o gap) = n + Len(gap) /\ n \in Nat /\ \A i \in 1..Len(gap) : (x \o gap)[n + i] = gap[i]
  BY <1>1, Joined DEF Tok
<1> HIDE DEF n
<1>4. Len(x \o gap) = n + 1 /\ (x \o gap)[n + 1] = Space
  <2>1. 1 \in 1..Len(gap)
    BY <1>2
  <2> QED
    BY <1>2, <1>3, <2>1
<1> QED
  BY <1>4 DEF gap
LEMMA JoinJoint ==
    \A D : \A ts \in Seq({t \in Tok : Joint(t, D)}) : Join(ts) \in Tok /\ Joint(Join(ts), D)
<1> SUFFICES ASSUME NEW D
             PROVE  \A ts \in Seq({t \in Tok : Joint(t, D)}) : Join(ts) \in Tok /\ Joint(Join(ts), D)
  OBVIOUS
<1> DEFINE J == {t \in Tok : Joint(t, D)}
           R == {ts \in Seq(J) : Join(ts) \in Tok /\ Joint(Join(ts), D)}
<1>1. J \subseteq Tok
  OBVIOUS
<1>2. Seq(J) \subseteq Seq(Tok)
  BY <1>1
<1>3. <<>> \in R
  <2> DEFINE none == <<>>
  <2>1. none \in Tok /\ \A k \in 1..(Len(none) - 1) : FALSE
    BY DEF Tok
  <2>2. Joint(none, D)
    BY <2>1 DEF Joint
  <2>3. Join(none) = none
    BY JoinSnoc
  <2>4. <<>> \in Seq(J)
    <3> HIDE DEF J
    <3> QED
      OBVIOUS
  <2> QED
    BY <2>1, <2>2, <2>3, <2>4
<1>4. ASSUME NEW ts \in Seq(J), NEW t \in J, ts \in R PROVE Append(ts, t) \in R
  <2> DEFINE x == Join(ts)
             u == Append(ts, t)
             gap == <<Space>>
  <2>1. ts \in Seq(Tok) /\ t \in Tok /\ Joint(t, D) /\ x \in Tok /\ Joint(x, D)
    BY <1>2, <1>4
  <2>2. Join(u) = JoinStep(x, t)
    BY <2>1, JoinSnoc
  <2>3. u \in Seq(J)
    <3> HIDE DEF J
    <3> QED
      OBVIOUS
  <2>4. gap \in Tok /\ gap[1] = Space /\ Len(gap) = 1 /\ gap # <<>>
    BY SpaceIs DEF Tok
  <2>5. Joint(gap, D)
    <3>1. \A k \in 1..(Len(gap) - 1) : FALSE
      BY <2>4
    <3> QED
      BY <3>1 DEF Joint
  <2>6. ~Ends(Space) /\ Space.w \notin Terminators \union Pauses
    BY DEF Space, P, Ends, Terminators, Pauses
  <2> HIDE DEF x, gap, u
  <2>7. x \o gap \in Tok /\ Joint(x \o gap, D)
    <3>1. x # <<>> => Follows(x[Len(x)], gap[1], D)
      BY <2>4, <2>6, MayFollow
    <3>2. x \o gap \in Tok
      BY <2>1, <2>4 DEF Tok
    <3> QED
      BY <2>1, <2>4, <2>5, <3>1, <3>2, JointJoin
  <2> DEFINE y == x \o gap
  <2>8. y[Len(y)] = Space
    <3> HIDE DEF y
    <3> QED
      BY <2>1, GapLast DEF y, gap
  <2>9. y \o t \in Tok /\ Joint(y \o t, D)
    <3> HIDE DEF y
    <3>1. Follows(y[Len(y)], t[1], D)
      BY <2>6, <2>8, MayFollow
    <3>2. y \in Tok /\ Joint(y, D)
      BY <2>7 DEF y
    <3>3. y \o t \in Tok
      BY <2>1, <3>2 DEF Tok
    <3> QED
      BY <2>1, <3>1, <3>2, <3>3, JointJoin
  <2>10. JoinStep(x, t) = IF x = <<>> THEN t ELSE y \o t
    BY DEF JoinStep, gap
  <2> HIDE DEF y
  <2>11. Join(u) \in Tok /\ Joint(Join(u), D)
    BY <2>1, <2>2, <2>9, <2>10
  <2> QED
    BY <2>3, <2>11 DEF u
<1>5. Seq(J) \subseteq R
  <2> HIDE DEF R, J
  <2> QED
    BY <1>3, <1>4, BuiltUp
<1> QED
  BY <1>5

\* Capitals change no mark.
LEMMA CapitalMarks == \A t \in Tok : SameMarks(t, CapitalizeFirst(t))
<1> SUFFICES ASSUME NEW t \in Tok PROVE SameMarks(t, CapitalizeFirst(t))
  OBVIOUS
<1> DEFINE letters == {k \in DOMAIN t : IsLetters(t[k])}
           k == Min(letters)
           e == Upper(t[k])
<1>1. t \in Seq(Glyph) /\ Len(t) \in Nat /\ letters \subseteq 1..Len(t)
  BY DEF Tok
<1>2. CapitalizeFirst(t) = IF letters = {} THEN t ELSE [t EXCEPT ![k] = e]
  BY DEF CapitalizeFirst
<1>3. CapitalizeFirst(t) \in Tok
  BY CapitalSaid
<1> HIDE DEF letters
<1>4. CASE letters = {}
  BY <1>2, <1>4 DEF SameMarks
<1>5. CASE letters # {}
  <2>1. k \in 1..Len(t) /\ k \in Nat
    <3> DEFINE n == Len(t)
    <3>1. n \in Nat /\ letters \subseteq 1..n
      BY <1>1
    <3> HIDE DEF n
    <3>2. k \in letters
      BY <1>5, <3>1, SmallestIn
    <3> HIDE DEF k
    <3>3. k \in 1..n
      BY <3>1, <3>2
    <3>4. k \in Nat
      BY <3>3
    <3> QED
      BY <3>3, <3>4 DEF n
  <2> HIDE DEF k
  <2>2. t[k] \in Glyph
    BY <1>1, <2>1
  <2>3. e \in Glyph /\ e.w = t[k].w
    <3>1. e \in Glyph
      BY <2>2, Forms
    <3>2. e.w = t[k].w
      BY <2>2 DEF Upper, Glyph
    <3> QED
      BY <3>1, <3>2
  <2> HIDE DEF e
  <2> DEFINE y == [t EXCEPT ![k] = e]
  <2>4. Len(y) = Len(t) /\ y[k] = e /\ \A i \in 1..Len(t) : i # k => y[i] = t[i]
    BY <1>1, <2>1, <2>3, MarkChanged
  <2>5. CapitalizeFirst(t) = y
    BY <1>2, <1>5
  <2> HIDE DEF y
  <2>6. \A i \in 1..Len(t) : t[i].w = y[i].w
    BY <2>3, <2>4
  <2> QED
    BY <1>3, <2>4, <2>5, <2>6 DEF SameMarks
<1> QED
  BY <1>4, <1>5

LEMMA CapitalsMarks ==
    \A ts \in Seq(Tok) : /\ Len(CapitalizeSentences(ts)) = Len(ts)
                         /\ \A i \in 1..Len(ts) : SameMarks(ts[i], CapitalizeSentences(ts)[i])
<1> SUFFICES ASSUME NEW ts \in Seq(Tok)
             PROVE  /\ Len(CapitalizeSentences(ts)) = Len(ts)
                    /\ \A i \in 1..Len(ts) : SameMarks(ts[i], CapitalizeSentences(ts)[i])
  OBVIOUS
<1> DEFINE y == CapitalizeSentences(ts)
           n == Len(ts)
<1>1. n \in Nat /\ DOMAIN ts = 1..n /\ \A i \in 1..n : ts[i] \in Tok
  OBVIOUS
<1>2. DOMAIN y = 1..n /\ \A i \in 1..n : y[i] = CapitalizeFirst(ts[i]) \/ y[i] = ts[i]
  BY <1>1 DEF CapitalizeSentences
<1>3. y \in Seq(Tok)
  BY CapitalsSaid
<1> HIDE DEF y
<1>4. Len(y) = n
  BY <1>1, <1>2, <1>3
<1>5. \A t \in Tok : SameMarks(t, t)
  BY DEF SameMarks
<1> QED
  BY <1>1, <1>2, <1>4, <1>5, CapitalMarks DEF y

----------------------------------------------------------------------------
(* How a text ends.                                                        *)

Stops == Terminators \union {":", ";"}
Stop(s) == \E m \in 1..Len(s) : s[m].w \in Stops /\ \A i \in (m + 1)..Len(s) : s[i].w \in Closers
Closing(s) == \A i \in 1..Len(s) : s[i].w \in Closers

LEMMA StopSnoc ==
    \A s \in Tok, e \in Glyph :
        Stop(Append(s, e)) <=> e.w \in Stops \/ (e.w \in Closers /\ Stop(s))
<1> SUFFICES ASSUME NEW s \in Tok, NEW e \in Glyph
             PROVE  Stop(Append(s, e)) <=> e.w \in Stops \/ (e.w \in Closers /\ Stop(s))
  OBVIOUS
<1> DEFINE u == Append(s, e)
           n == Len(s)
<1>1. n \in Nat /\ Len(u) = n + 1 /\ (\A k \in 1..n : u[k] = s[k]) /\ u[n + 1] = e
  BY Extended DEF Tok
<1> HIDE DEF u, n
<1>2. ASSUME Stop(u) PROVE e.w \in Stops \/ (e.w \in Closers /\ Stop(s))
  <2>1. PICK m \in 1..(n + 1) : u[m].w \in Stops /\ \A i \in (m + 1)..(n + 1) : u[i].w \in Closers
    BY <1>1, <1>2 DEF Stop
  <2>2. CASE m = n + 1
    BY <1>1, <2>1, <2>2
  <2>3. CASE m # n + 1
    <3>1. m \in 1..n /\ n + 1 \in (m + 1)..(n + 1) /\ (m + 1)..n \subseteq (m + 1)..(n + 1)
          /\ (m + 1)..n \subseteq 1..n
      BY <1>1, <2>3
    <3>2. e.w \in Closers /\ s[m].w \in Stops /\ \A i \in (m + 1)..n : s[i].w \in Closers
      BY <1>1, <2>1, <3>1
    <3> QED
      BY <3>1, <3>2 DEF Stop, n
  <2> QED
    BY <2>2, <2>3
<1>3. ASSUME e.w \in Stops PROVE Stop(u)
  <2>1. n + 1 \in 1..(n + 1) /\ ((n + 1) + 1)..(n + 1) = {}
    BY <1>1
  <2> QED
    BY <1>1, <1>3, <2>1 DEF Stop
<1>4. ASSUME e.w \in Closers, Stop(s) PROVE Stop(u)
  <2>1. PICK m \in 1..n : s[m].w \in Stops /\ \A i \in (m + 1)..n : s[i].w \in Closers
    BY <1>4 DEF Stop, n
  <2>2. m \in 1..(n + 1) /\ \A i \in (m + 1)..(n + 1) : i = n + 1 \/ (i \in (m + 1)..n /\ i \in 1..n)
    BY <1>1
  <2>3. u[m].w \in Stops /\ \A i \in (m + 1)..(n + 1) : u[i].w \in Closers
    BY <1>1, <1>4, <2>1, <2>2
  <2> QED
    BY <1>1, <2>2, <2>3 DEF Stop
<1> QED
  BY <1>2, <1>3, <1>4 DEF u

\* What stands before does not matter.
LEMMA StopJoin == \A a, b \in Tok : Stop(b) => Stop(a \o b)
<1> SUFFICES ASSUME NEW a \in Tok, NEW b \in Tok, Stop(b) PROVE Stop(a \o b)
  OBVIOUS
<1> DEFINE u == a \o b
           n == Len(a)
           l == Len(b)
<1>1. /\ Len(u) = n + l /\ n \in Nat /\ l \in Nat /\ \A i \in 1..l : u[n + i] = b[i]
  BY Joined DEF Tok
<1>2. PICK m \in 1..l : b[m].w \in Stops /\ \A i \in (m + 1)..l : b[i].w \in Closers
  BY DEF Stop
<1> HIDE DEF u, n, l
<1>3. n + m \in 1..(n + l) /\ u[n + m].w \in Stops
  BY <1>1, <1>2
<1>4. ASSUME NEW i \in ((n + m) + 1)..(n + l) PROVE u[i].w \in Closers
  <2>1. i - n \in (m + 1)..l /\ i - n \in 1..l /\ n + (i - n) = i
    BY <1>1
  <2> QED
    BY <1>1, <1>2, <2>1
<1> QED
  BY <1>1, <1>3, <1>4 DEF Stop, u

LEMMA SameStop == \A a, b : SameMarks(a, b) => (Stop(a) => Stop(b)) /\ (Closing(a) => Closing(b))
<1> SUFFICES ASSUME NEW a, NEW b, SameMarks(a, b)
             PROVE  (Stop(a) => Stop(b)) /\ (Closing(a) => Closing(b))
  OBVIOUS
<1>1. Len(a) = Len(b) /\ Len(b) \in Nat /\ \A i \in 1..Len(b) : a[i].w = b[i].w
  BY DEF SameMarks, Tok
<1>2. ASSUME Stop(a) PROVE Stop(b)
  <2>1. PICK m \in 1..Len(b) : a[m].w \in Stops /\ \A i \in (m + 1)..Len(b) : a[i].w \in Closers
    BY <1>1, <1>2 DEF Stop
  <2>2. \A i \in (m + 1)..Len(b) : i \in 1..Len(b)
    BY <1>1
  <2> QED
    BY <1>1, <2>1, <2>2 DEF Stop
<1> QED
  BY <1>1, <1>2 DEF Closing

LEMMA SplitStop ==
    \A s \in Tok : Stop(s) =>
        \E f \in Seq(Tok), l \in Tok : Split(s, Space) = Append(f, l) /\ Stop(l)
<1> DEFINE R == {s \in Tok : Stop(s) =>
                    \E f \in Seq(Tok), l \in Tok : Split(s, Space) = Append(f, l) /\ Stop(l)}
<1>1. <<>> \in R
  <2>1. <<>> \in Tok /\ 1..Len(<<>>) = {}
    BY DEF Tok
  <2> QED
    BY <2>1 DEF Stop
<1>2. ASSUME NEW s \in Seq(Glyph), NEW e \in Glyph, s \in R PROVE Append(s, e) \in R
  <2> DEFINE u == Append(s, e)
             p == Split(s, Space)
  <2>1. u \in Tok /\ s \in Tok /\ Split(u, Space) = SplitStep(p, e, Space)
        /\ p \in Seq(Tok) /\ p # <<>>
    BY SplitSnoc, SplitSaid DEF Tok
  <2> SUFFICES ASSUME Stop(u)
               PROVE  \E f \in Seq(Tok), l \in Tok : Split(u, Space) = Append(f, l) /\ Stop(l)
    BY <2>1
  <2>2. e.w \in Stops \/ (e.w \in Closers /\ Stop(s))
    BY <2>1, StopSnoc
  <2>3. e # Space
    <3>1. Space.w \notin Stops \union Closers
      BY DEF Space, P, Stops, Closers, Terminators
    <3> QED
      BY <2>2, <3>1
  <2> HIDE DEF u
  <2>4. PICK f \in Seq(Tok), l \in Tok : p = Append(f, l) /\ (Stop(s) => Stop(l))
    <3>1. CASE Stop(s)
      <4>1. \E f \in Seq(Tok), l \in Tok : p = Append(f, l) /\ Stop(l)
        BY <1>2, <3>1
      <4> QED
        BY <4>1
    <3>2. CASE ~Stop(s)
      <4> HIDE DEF p
      <4>1. \E f \in Seq(Tok) : p = Append(f, p[Len(p)]) /\ p[Len(p)] \in Tok
        <5>1. p[Len(p)] \in Tok
          BY <2>1
        <5> QED
          BY <2>1, <5>1, LastChanged
      <4> QED
        BY <3>2, <4>1
    <3> QED
      BY <3>1, <3>2
  <2> HIDE DEF p
  <2>5. Split(u, Space) = Append(f, Append(l, e))
    BY <2>1, <2>3, <2>4, SplitStepLonger
  <2>6. Stop(Append(l, e))
    BY <2>2, <2>4, StopSnoc
  <2>7. Append(l, e) \in Tok
    BY DEF Tok
  <2> QED
    BY <2>5, <2>6, <2>7
<1>3. Seq(Glyph) \subseteq R
  <2> HIDE DEF R
  <2> QED
    BY <1>1, <1>2, BuiltUp
<1> QED
  BY <1>3 DEF Tok

LEMMA TokensStop ==
    \A s \in Tok : Stop(s) => \E f \in Seq(Tok), l \in Tok : Tokens(s) = Append(f, l) /\ Stop(l)
<1> SUFFICES ASSUME NEW s \in Tok, Stop(s)
             PROVE  \E f \in Seq(Tok), l \in Tok : Tokens(s) = Append(f, l) /\ Stop(l)
  OBVIOUS
<1> DEFINE p == Split(s, Space)
           S == ToSet(p) \ {<<>>}
<1>1. PICK f \in Seq(Tok), l \in Tok : p = Append(f, l) /\ Stop(l)
  BY SplitStop
<1>2. Tokens(s) = KeepIn(p, S)
  BY DEF Tokens
<1>3. l # <<>>
  <2>1. 1..Len(<<>>) = {}
    OBVIOUS
  <2> QED
    BY <1>1, <2>1 DEF Stop
<1> HIDE DEF p
<1>4. l \in S
  <2>1. l \in ToSet(p)
    BY <1>1, Members
  <2> QED
    BY <1>3, <2>1
<1> HIDE DEF S
<1>5. KeepIn(p, S) = Append(KeepIn(f, S), l) /\ KeepIn(f, S) \in Seq(Tok)
  BY <1>1, <1>4, KeepSnoc
<1> QED
  BY <1>1, <1>2, <1>5

LEMMA JoinStop == \A f \in Seq(Tok), l \in Tok : Stop(l) => Stop(Join(Append(f, l)))
<1> SUFFICES ASSUME NEW f \in Seq(Tok), NEW l \in Tok, Stop(l) PROVE Stop(Join(Append(f, l)))
  OBVIOUS
<1> DEFINE gap == <<Space>>
           x == Join(f)
<1>1. Join(Append(f, l)) = JoinStep(x, l) /\ x \in Tok
  BY JoinSnoc
<1>2. gap \in Tok
  BY SpaceIs DEF Tok
<1> HIDE DEF x, gap
<1>3. x \o gap \in Tok
  BY <1>1, <1>2 DEF Tok
<1>4. Stop((x \o gap) \o l)
  BY <1>3, StopJoin
<1> QED
  BY <1>1, <1>4 DEF JoinStep, gap

\* A text of closing marks only is one token.
LEMMA ClosingTokens == \A s \in Tok : Closing(s) /\ s # <<>> => Tokens(s) = <<s>> /\ Join(<<s>>) = s
<1> SUFFICES ASSUME NEW s \in Tok, Closing(s), s # <<>> PROVE Tokens(s) = <<s>> /\ Join(<<s>>) = s
  OBVIOUS
<1>1. Space.w \notin Closers
  BY DEF Space, P, Closers
<1>2. s \in Seq(NoSpace)
  <2>1. Len(s) \in Nat /\ DOMAIN s = 1..Len(s) /\ s = [i \in 1..Len(s) |-> s[i]]
        /\ \A i \in 1..Len(s) : s[i] \in Glyph
    BY DEF Tok
  <2>2. \A i \in 1..Len(s) : s[i] \in NoSpace
    BY <1>1, <2>1 DEF Closing, NoSpace
  <2> QED
    BY <2>1, <2>2
<1>3. s \in Bound
  BY <1>2 DEF Bound
<1>4. Join(<<s>>) = s
  <2> DEFINE none == <<>>
  <2>1. <<s>> = Append(none, s) /\ none \in Seq(Tok) /\ Join(none) = <<>>
    BY JoinSnoc
  <2> HIDE DEF none
  <2>2. Join(Append(none, s)) = JoinStep(Join(none), s)
    BY <2>1, JoinSnoc
  <2> QED
    BY <2>1, <2>2 DEF JoinStep
<1>5. Tokens(Join(<<s>>)) = <<s>>
  <2>1. <<s>> \in Seq(Bound)
    BY <1>3
  <2> QED
    BY <2>1, JoinedTokens
<1> QED
  BY <1>4, <1>5

----------------------------------------------------------------------------
(* The end of the sentence.                                                *)

\* Where it is and what is done there.
ClosedAt(s, m) ==
    /\ m \in 0..Len(s) /\ \A i \in (m + 1)..Len(s) : s[i].w \in Closers
    /\ m = 0 => CloseSentence(s) = s
    /\ m # 0 =>
        /\ s[m].w \notin Closers
        /\ \/ s[m] = P(",") /\ CloseSentence(s) = [s EXCEPT ![m] = P(".")]
           \/ s[m].w \in Stops /\ CloseSentence(s) = s
           \/ s[m].w \notin Stops /\ CloseSentence(s) = Append(s, P("."))
LEMMA CloseIs == \A s \in Tok : \E m : ClosedAt(s, m)
<1> SUFFICES ASSUME NEW s \in Tok PROVE \E m : ClosedAt(s, m)
  OBVIOUS
<1> DEFINE content == TrimEnd(s, Closers)
           stop == P(".")
           comma == P(",")
<1>1. PICK m \in 0..Len(s) : /\ content = SubSeq(s, 1, m)
                             /\ m # 0 => s[m].w \notin Closers
                             /\ \A i \in (m + 1)..Len(s) : s[i].w \in Closers
  BY TrimEndIs DEF Tok
<1>2. CloseSentence(s) =
        IF content = <<>> THEN s
        ELSE IF Last(content) = comma THEN [s EXCEPT ![Len(content)] = stop]
        ELSE IF Last(content).w \in Stops THEN s
        ELSE Append(s, stop)
  BY DEF CloseSentence, Stops
<1>3. Len(content) = m /\ (content # <<>> <=> m # 0) /\ (m # 0 => Last(content) = s[m])
  <2>1. Len(content) = m /\ \A i \in 1..m : content[i] = s[i]
    BY <1>1 DEF Tok
  <2>2. content # <<>> <=> m # 0
    BY <1>1 DEF Tok
  <2> HIDE DEF content
  <2>3. m # 0 => m \in 1..m
    OBVIOUS
  <2> QED
    BY <2>1, <2>2, <2>3 DEF Last
<1> HIDE DEF content, stop, comma
<1>4. CASE m = 0
  <2>1. CloseSentence(s) = s
    BY <1>2, <1>3, <1>4
  <2> QED
    BY <1>1, <1>4, <2>1 DEF ClosedAt
<1>5. CASE m # 0
  <2>1. CloseSentence(s) = IF s[m] = comma THEN [s EXCEPT ![m] = stop]
                           ELSE IF s[m].w \in Stops THEN s ELSE Append(s, stop)
    BY <1>2, <1>3, <1>5, Zenon
  <2> DEFINE y == [s EXCEPT ![m] = stop]
             z == Append(s, stop)
  <2> HIDE DEF y, z
  <2>2. \/ s[m] = comma /\ CloseSentence(s) = y
        \/ s[m].w \in Stops /\ CloseSentence(s) = s
        \/ s[m].w \notin Stops /\ CloseSentence(s) = z
    BY <2>1 DEF y, z
  <2> QED
    BY <1>1, <1>5, <2>2, Zenon DEF ClosedAt, y, z, stop, comma
<1> QED
  BY <1>4, <1>5

LEMMA CloseStops ==
    \A s \in Tok : Stop(CloseSentence(s)) \/ (Closing(s) /\ CloseSentence(s) = s)
<1> SUFFICES ASSUME NEW s \in Tok
             PROVE  Stop(CloseSentence(s)) \/ (Closing(s) /\ CloseSentence(s) = s)
  OBVIOUS
<1>1. PICK m : ClosedAt(s, m)
  BY CloseIs
<1> DEFINE stop == P(".")
           n == Len(s)
<1>2. stop \in Glyph /\ stop.w \in Stops /\ n \in Nat
  <2>1. "." \in Marks
    BY DEF Marks, Terminators
  <2> QED
    BY <2>1, MarkIs DEF Stops, Terminators, P, Tok
<1>3. m \in 0..n /\ \A i \in (m + 1)..n : s[i].w \in Closers
  BY <1>1 DEF ClosedAt
<1>4. CASE m = 0
  <2>1. CloseSentence(s) = s
    BY <1>1, <1>4 DEF ClosedAt
  <2>2. Closing(s)
    BY <1>3, <1>4 DEF Closing
  <2> QED
    BY <2>1, <2>2
<1>5. CASE m # 0
  <2>1. m \in 1..n /\ m \in Nat
    BY <1>3, <1>5
  <2> DEFINE y == [s EXCEPT ![m] = stop]
             z == Append(s, stop)
  <2>2. \/ s[m] = P(",") /\ CloseSentence(s) = y
        \/ s[m].w \in Stops /\ CloseSentence(s) = s
        \/ s[m].w \notin Stops /\ CloseSentence(s) = z
    BY <1>1, <1>5 DEF ClosedAt
  <2>3. Len(y) = n /\ y[m] = stop /\ \A i \in 1..n : i # m => y[i] = s[i]
    BY <1>2, <2>1, MarkChanged DEF Tok
  <2>4. Stop(y)
    <3> HIDE DEF y, n, stop
    <3>1. \A i \in (m + 1)..n : i \in 1..n /\ i # m
      BY <1>2, <2>1
    <3>2. \A i \in (m + 1)..n : y[i].w \in Closers
      BY <1>3, <2>3, <3>1
    <3> QED
      BY <1>2, <2>1, <2>3, <3>2 DEF Stop
  <2>5. Stop(z)
    BY <1>2, StopSnoc
  <2>6. s[m].w \in Stops => Stop(s)
    BY <1>3, <2>1 DEF Stop
  <2> HIDE DEF y, z
  <2> QED
    BY <2>2, <2>4, <2>5, <2>6
<1> QED
  BY <1>3, <1>4, <1>5

LEMMA CloseJoint == \A D : \A s \in Tok : Joint(s, D) => Joint(CloseSentence(s), D)
<1> SUFFICES ASSUME NEW D, NEW s \in Tok, Joint(s, D) PROVE Joint(CloseSentence(s), D)
  OBVIOUS
<1>1. PICK m : ClosedAt(s, m)
  BY CloseIs
<1> DEFINE stop == P(".")
           comma == P(",")
           n == Len(s)
<1>2. stop \in Glyph /\ n \in Nat /\ comma.w \in Pauses
  <2>1. "." \in Marks
    BY DEF Marks, Terminators
  <2> QED
    BY <2>1, MarkIs DEF Pauses, P, Tok
<1>3. m \in 0..n /\ \A i \in (m + 1)..n : s[i].w \in Closers
  BY <1>1 DEF ClosedAt
<1>4. \A p : p.w \in Closers => ~Ends(p) /\ p.w \notin Terminators \union Pauses
  BY DEF Closers, Ends, Terminators, Pauses
<1>5. \A k \in 1..(n - 1) : Follows(s[k], s[k + 1], D)
  BY DEF Joint
<1>6. CASE m = 0
  BY <1>1, <1>6 DEF ClosedAt
<1>7. CASE m # 0
  <2>1. m \in 1..n /\ m \in Nat
    BY <1>3, <1>7
  <2> DEFINE y == [s EXCEPT ![m] = stop]
             z == Append(s, stop)
  <2>2. \/ s[m] = comma /\ CloseSentence(s) = y
        \/ s[m].w \in Stops /\ CloseSentence(s) = s
        \/ s[m].w \notin Stops /\ CloseSentence(s) = z
    BY <1>1, <1>7 DEF ClosedAt
  <2>3. Len(y) = n /\ y[m] = stop /\ \A i \in 1..n : i # m => y[i] = s[i]
    <3> HIDE DEF stop, comma
    <3> QED
      BY <1>2, <2>1, MarkChanged DEF Tok
  <2>4. CASE s[m] = comma /\ CloseSentence(s) = y
    <3> HIDE DEF y, n, stop, comma
    <3>1. ASSUME NEW k \in 1..(n - 1) PROVE Follows(y[k], y[k + 1], D)
      <4>1. k \in 1..n /\ k + 1 \in 1..n /\ Follows(s[k], s[k + 1], D)
        BY <1>2, <1>5
      <4>2. CASE k + 1 = m
        <5>1. s[k + 1].w \in Pauses /\ k # m
          BY <1>2, <2>4, <4>2, <4>1
        <5>2. ~Ends(s[k])
          BY <4>1, <5>1 DEF Follows
        <5>3. y[k] = s[k]
          BY <2>3, <4>1, <5>1
        <5> QED
          BY <5>2, <5>3, MayFollow
      <4>3. CASE k = m
        <5>1. k + 1 \in (m + 1)..n /\ k + 1 # m
          BY <1>2, <2>1, <4>1, <4>3
        <5>2. s[k + 1].w \notin Terminators \union Pauses
          BY <1>3, <1>4, <5>1
        <5>3. y[k + 1] = s[k + 1]
          BY <2>3, <4>1, <5>1
        <5> QED
          BY <5>2, <5>3, MayFollow
      <4>4. CASE k + 1 # m /\ k # m
        BY <2>3, <4>1, <4>4
      <4> QED
        BY <4>2, <4>3, <4>4
    <3> QED
      BY <2>3, <2>4, <3>1 DEF Joint
  <2>5. CASE s[m].w \in Stops /\ CloseSentence(s) = s
    BY <2>5
  <2>6. CASE s[m].w \notin Stops /\ CloseSentence(s) = z
    <3>1. ~Ends(s[n])
      <4>1. CASE m = n
        BY <2>6, <4>1 DEF Stops, Ends
      <4>2. CASE m # n
        <5>1. n \in (m + 1)..n
          <6> HIDE DEF n, y, z, stop, comma
          <6> QED
            BY <1>2, <2>1, <4>2
        <5> QED
          BY <1>3, <1>4, <5>1
      <4> QED
        BY <4>1, <4>2
    <3>2. Follows(s[n], stop, D)
      BY <3>1, MayFollow
    <3>3. Joint(z, D)
      <4> HIDE DEF stop
      <4> QED
        BY <1>2, <3>2, JointSnoc
    <3> QED
      BY <2>6, <3>3
  <2> HIDE DEF y, z
  <2> QED
    BY <2>2, <2>4, <2>5, <2>6
<1> QED
  BY <1>3, <1>6, <1>7

----------------------------------------------------------------------------
(* Fillers and phrases hand over what doubles nothing.                     *)

\* Nothing but terminators behind a terminator.
Behind(t) == \A k \in 1..(Len(t) - 1) : Ends(t[k]) => Ends(t[k + 1])
Enders == {p \in Glyph : Ends(p)}

LEMMA BehindSnoc ==
    \A s \in Tok, e \in Glyph :
        Behind(Append(s, e)) => Behind(s) /\ (s # <<>> /\ Ends(s[Len(s)]) => Ends(e))
<1> SUFFICES ASSUME NEW s \in Tok, NEW e \in Glyph, Behind(Append(s, e))
             PROVE  Behind(s) /\ (s # <<>> /\ Ends(s[Len(s)]) => Ends(e))
  OBVIOUS
<1> DEFINE u == Append(s, e)
           n == Len(s)
<1>1. n \in Nat /\ Len(u) = n + 1 /\ (\A k \in 1..n : u[k] = s[k]) /\ u[n + 1] = e
  BY Extended DEF Tok
<1>2. s # <<>> => n # 0
  BY DEF Tok
<1> HIDE DEF u, n
<1>3. \A k \in 1..n : Ends(u[k]) => Ends(u[k + 1])
  <2>1. (n + 1) - 1 = n
    BY <1>1
  <2> QED
    BY <1>1, <2>1 DEF Behind, u
<1>4. ASSUME NEW k \in 1..(n - 1) PROVE Ends(s[k]) => Ends(s[k + 1])
  <2>1. k \in 1..n /\ k + 1 \in 1..n
    BY <1>1
  <2> QED
    BY <1>1, <1>3, <2>1
<1>5. ASSUME n # 0 PROVE Ends(s[n]) => Ends(e)
  <2>1. n \in 1..n
    BY <1>1, <1>5
  <2> QED
    BY <1>1, <1>3, <2>1
<1> QED
  BY <1>2, <1>4, <1>5 DEF Behind, n

\* The terminators of such a token are its end.
LEMMA EndsTail ==
    \A t \in Tok : Behind(t) =>
        /\ KeepIn(t, Enders) \in Tok
        /\ KeepIn(t, Enders) # <<>> =>
              /\ t # <<>> /\ Ends(t[Len(t)])
              /\ KeepIn(t, Enders)[Len(KeepIn(t, Enders))] = t[Len(t)]
        /\ \A D : Joint(t, D) => Joint(KeepIn(t, Enders), D)
<1> DEFINE Good(t, k) == /\ k \in Tok
                         /\ k # <<>> => t # <<>> /\ Ends(t[Len(t)]) /\ k[Len(k)] = t[Len(t)]
                         /\ \A D : Joint(t, D) => Joint(k, D)
           R == {t \in Tok : Behind(t) => Good(t, KeepIn(t, Enders))}
<1>1. <<>> \in R
  <2> DEFINE none == <<>>
  <2>1. none \in Tok
    BY DEF Tok
  <2>2. KeepIn(none, Enders) = none
    <3>1. none \in Seq(Glyph) /\ Space \in Glyph
      BY SpaceIs
    <3> QED
      BY <3>1, KeepSnoc
  <2> HIDE DEF none
  <2>3. Good(none, none)
    BY <2>1 DEF none
  <2>4. none \in R
    BY <2>1, <2>2, <2>3
  <2> QED
    BY <2>4 DEF none
<1>2. ASSUME NEW t \in Seq(Glyph), NEW e \in Glyph, t \in R PROVE Append(t, e) \in R
  <2> DEFINE u == Append(t, e)
             k == KeepIn(t, Enders)
  <2>1. /\ KeepIn(u, Enders) = IF e \in Enders THEN Append(k, e) ELSE k
        /\ u \in Tok /\ t \in Tok /\ u # <<>>
    BY KeepSnoc DEF Tok
  <2>2. u[Len(u)] = e
    OBVIOUS
  <2> SUFFICES ASSUME Behind(u) PROVE Good(u, KeepIn(u, Enders))
    BY <2>1
  <2>3. Behind(t) /\ (t # <<>> /\ Ends(t[Len(t)]) => Ends(e))
    BY <2>1, BehindSnoc
  <2>4. Good(t, k)
    BY <1>2, <2>3
  <2>5. /\ k \in Tok
        /\ k # <<>> => t # <<>> /\ Ends(t[Len(t)]) /\ k[Len(k)] = t[Len(t)]
        /\ \A D : Joint(t, D) => Joint(k, D)
    BY <2>4
  <2>6. \A D : Joint(u, D) => Joint(t, D) /\ (t # <<>> => Follows(t[Len(t)], e, D))
    BY <2>1, JointSnoc
  <2> HIDE DEF u, k
  <2>7. CASE Ends(e)
    <3> DEFINE d == Append(k, e)
    <3>1. KeepIn(u, Enders) = d
      BY <2>1, <2>7 DEF Enders
    <3>2. d \in Tok /\ d[Len(d)] = e
      BY <2>5 DEF Tok
    <3>3. ASSUME NEW D, Joint(u, D) PROVE Joint(d, D)
      <4>1. k # <<>> => Follows(k[Len(k)], e, D)
        BY <2>5, <2>6, <3>3
      <4>2. Joint(k, D)
        BY <2>5, <2>6, <3>3
      <4> QED
        BY <2>5, <4>1, <4>2, JointSnoc
    <3> HIDE DEF d
    <3>4. Good(u, d)
      BY <2>1, <2>2, <2>7, <3>2, <3>3
    <3> QED
      BY <3>1, <3>4
  <2>8. CASE ~Ends(e)
    <3>1. KeepIn(u, Enders) = k
      BY <2>1, <2>8 DEF Enders
    <3>2. k = <<>>
      BY <2>3, <2>5, <2>8
    <3>3. \A D : Joint(u, D) => Joint(k, D)
      BY <2>5, <2>6
    <3>4. Good(u, k)
      BY <2>5, <3>2, <3>3
    <3> QED
      BY <3>1, <3>4
  <2> QED
    BY <2>7, <2>8
<1>3. Seq(Glyph) \subseteq R
  <2> HIDE DEF R
  <2> QED
    BY <1>1, <1>2, BuiltUp
<1> QED
  BY <1>3 DEF Tok

LEMMA EndsAre == \A t \in Tok : EndsOf(t) = KeepIn(t, Enders) /\ \A p \in ToSet(EndsOf(t)) : Ends(p)
<1> SUFFICES ASSUME NEW t \in Tok
             PROVE  EndsOf(t) = KeepIn(t, Enders) /\ \A p \in ToSet(EndsOf(t)) : Ends(p)
  OBVIOUS
<1> DEFINE S == {p \in ToSet(t) : Ends(p)}
<1>1. t \in Seq(Glyph) /\ ToSet(t) \subseteq Glyph
  BY DEF Tok, ToSet
<1>2. \A p \in ToSet(t) : p \in S <=> p \in Enders
  BY <1>1 DEF Enders
<1>3. EndsOf(t) = KeepIn(t, S)
  BY DEF EndsOf
<1>4. \A p \in S : Ends(p)
  OBVIOUS
<1> HIDE DEF S
<1>5. KeepIn(t, S) = KeepIn(t, Enders)
  BY <1>1, <1>2, KeepLocal
<1>6. ToSet(KeepIn(t, S)) = ToSet(t) \cap S
  BY <1>1, KeepsMembers
<1> QED
  BY <1>3, <1>4, <1>5, <1>6

\* A token without a terminator at its end has none.
LEMMA NoneBehind ==
    \A t \in Tok : Behind(t) /\ t # <<>> /\ ~Ends(t[Len(t)]) => \A k \in 1..Len(t) : ~Ends(t[k])
<1> SUFFICES ASSUME NEW t \in Tok, Behind(t), ~Ends(t[Len(t)]), NEW k \in 1..Len(t), Ends(t[k])
             PROVE  FALSE
  OBVIOUS
<1>1. KeepIn(t, Enders) = <<>>
  BY EndsTail
<1>2. ToSet(KeepIn(t, Enders)) = ToSet(t) \cap Enders
  BY KeepsMembers DEF Tok
<1>3. t[k] \in ToSet(t) \cap Enders
  BY DEF ToSet, Tok, Enders
<1>4. ToSet(<<>>) = {}
  BY DEF ToSet
<1> QED
  BY <1>1, <1>2, <1>3, <1>4

Fine(t, D) == Joint(t, D) /\ (FillerBody(t, TRUE) => Behind(t))
AllFine(ts, D) == \A i \in 1..Len(ts) : Fine(ts[i], D)

LEMMA OrdinaryFine ==
    \A D : \A t \in Tok : Ordinary(t) /\ Doubled(t) \subseteq D => Fine(t, D)
<1> SUFFICES ASSUME NEW D, NEW t \in Tok, Ordinary(t), Doubled(t) \subseteq D PROVE Fine(t, D)
  OBVIOUS
<1>1. \A k \in 1..(Len(t) - 1) : Ends(t[k]) /\ Ends(t[k + 1]) => <<t[k].w, t[k + 1].w>> \in D
  BY DEF Doubled
<1>2. Joint(t, D)
  BY <1>1 DEF Joint, Follows, Ordinary
<1>3. FillerBody(t, TRUE) => Behind(t)
  BY DEF Behind, Ordinary
<1> QED
  BY <1>2, <1>3 DEF Fine

\* Words handed over by the filler pass.
LEMMA UnfilledJoint ==
    \A D : \A h \in Seq(Tok) : AllFine(h, D) => Unfilled(h) \in Seq({t \in Tok : Joint(t, D)})
<1> SUFFICES ASSUME NEW D, NEW h \in Seq(Tok), AllFine(h, D)
             PROVE  Unfilled(h) \in Seq({t \in Tok : Joint(t, D)})
  OBVIOUS
<1> DEFINE J == {t \in Tok : Joint(t, D)}
           I == DOMAIN h
           R == {s \in Seq(I) : UnfilledOver(h, s) \in Seq(J)}
<1>1. J \subseteq Tok
  OBVIOUS
<1>2. <<>> \in R
  <2> DEFINE none == <<>>
  <2>1. UnfilledOver(h, none) = none /\ none \in Seq(I)
    BY UnfilledOverSnoc
  <2>2. none \in Seq(J)
    <3> HIDE DEF J
    <3> QED
      OBVIOUS
  <2> QED
    BY <2>1, <2>2
<1>3. ASSUME NEW s \in Seq(I), NEW i \in I, s \in R PROVE Append(s, i) \in R
  <2> DEFINE x == UnfilledOver(h, s)
             marks == EndsOf(h[i])
             v == Last(x) \o marks
             y == [x EXCEPT ![Len(x)] = v]
  <2>1. UnfilledOver(h, Append(s, i)) = UnfillStep(h, x, i) /\ x \in Seq(J) /\ Append(s, i) \in Seq(I)
    <3>1. \A z \in Seq(I), e \in I : UnfilledOver(h, Append(z, e)) = UnfillStep(h, UnfilledOver(h, z), e)
      BY UnfilledOverSnoc
    <3>2. Append(s, i) \in Seq(I)
      <4> HIDE DEF I
      <4> QED
        OBVIOUS
    <3> QED
      BY <1>3, <3>1, <3>2
  <2>2. h[i] \in Tok /\ Fine(h[i], D)
    BY DEF AllFine
  <2>3. h[i] \in J
    BY <2>2 DEF Fine
  <2> HIDE DEF x
  <2>4. CASE ~Dropped(h, i)
    <3>1. UnfillStep(h, x, i) = Append(x, h[i])
      BY <2>4 DEF UnfillStep
    <3>2. Append(x, h[i]) \in Seq(J)
      <4> HIDE DEF J
      <4> QED
        BY <2>1, <2>3
    <3> QED
      BY <2>1, <3>1, <3>2
  <2>5. CASE Dropped(h, i)
    <3>1. UnfillStep(h, x, i) = IF x = <<>> \/ marks = <<>> \/ Ends(Last(Last(x))) THEN x ELSE y
      <4>1. UnfillStep(h, x, i) = HandBack(x, marks)
        BY <2>5 DEF UnfillStep
      <4> HIDE DEF marks
      <4>2. HandBack(x, marks) = IF x = <<>> \/ marks = <<>> \/ Ends(Last(Last(x))) THEN x ELSE y
        BY DEF HandBack, Last
      <4> QED
        BY <4>1, <4>2
    <3>2. marks \in Tok /\ Joint(marks, D)
      <4>1. Behind(h[i])
        BY <2>2, <2>5 DEF Dropped, FillerBody, Fine
      <4> QED
        BY <2>2, <4>1, EndsAre, EndsTail DEF Fine
    <3>3. \A p \in ToSet(marks) : Ends(p)
      BY <2>2, EndsAre
    <3>4. CASE x # <<>> /\ marks # <<>> /\ ~Ends(Last(Last(x)))
      <4> DEFINE l == Last(x)
      <4>1. l \in Tok /\ Joint(l, D)
        <5>1. x[Len(x)] \in J
          <6> HIDE DEF J
          <6> QED
            BY <2>1, <3>4
        <5> QED
          BY <5>1 DEF Last
      <4> HIDE DEF marks, l
      <4>2. Follows(l[Len(l)], marks[1], D)
        <5>1. ~Ends(l[Len(l)])
          BY <3>4 DEF l, Last
        <5> QED
          BY <5>1, MayFollow
      <4>3. l \o marks \in Tok
        BY <3>2, <4>1 DEF Tok
      <4>4. v \in J
        BY <3>2, <4>1, <4>2, <4>3, JointJoin DEF l
      <4> HIDE DEF v, J
      <4>5. \E f \in Seq(J) : y = Append(f, v)
        BY <2>1, <3>4, <4>4, LastChanged
      <4>6. y \in Seq(J)
        <5> HIDE DEF y
        <5> QED
          BY <4>4, <4>5
      <4> QED
        BY <2>1, <3>1, <3>4, <4>6 DEF J, marks
    <3> QED
      BY <2>1, <3>1, <3>4
  <2> QED
    BY <2>4, <2>5
<1>4. Seq(I) \subseteq R
  <2> HIDE DEF R, I
  <2> QED
    BY <1>2, <1>3, BuiltUp
<1>5. Indices(h) \in R
  BY <1>4, IndicesTyped
<1> QED
  BY <1>5, OverIs

\* A word that gets the punctuation of a phrase had none.
LEMMA StuckFine ==
    \A D, l, t : l \in Bound /\ t \in Bound /\ PunctSuffix(l) = <<>> /\ Fine(l, D) /\ Fine(t, D) =>
        Fine(l \o PunctSuffix(t), D)
<1> SUFFICES ASSUME NEW D, NEW l, NEW t, l \in Bound, t \in Bound, PunctSuffix(l) = <<>>,
                    Fine(l, D), Fine(t, D)
             PROVE  Fine(l \o PunctSuffix(t), D)
  OBVIOUS
<1> DEFINE s == PunctSuffix(t)
           u == l \o s
           n == Len(l)
<1>1. s \in Seq(Trailing) /\ l \in Tok /\ t \in Tok /\ l # <<>>
  BY SuffixTyped, BoundIs DEF Bound
<1>2. Stuck(u, l, s)
  BY <1>1 DEF Stuck
<1>3. ~Ends(l[n])
  <2>1. l[n].w \notin Terminators \union Pauses
    BY <1>1, NoSuffix DEF Tok
  <2> QED
    BY <2>1 DEF Ends
<1>4. Joint(s, D) /\ s \in Tok
  BY <1>1, JointSuffix, TrailingIs DEF Fine
<1>5. u \in Tok
  BY <1>2, StuckIs
<1> HIDE DEF s
<1>6. Joint(u, D)
  <2>1. Follows(l[n], s[1], D)
    BY <1>3, MayFollow
  <2> QED
    BY <1>1, <1>4, <2>1, JointJoin DEF Fine
<1>7. ASSUME FillerBody(u, TRUE) PROVE Behind(u)
  <2>1. FillerBody(l, TRUE)
    BY <1>2, <1>7, StuckTrim DEF FillerBody
  <2>2. \A k \in 1..n : ~Ends(l[k])
    BY <1>1, <1>3, <2>1, NoneBehind DEF Fine
  <2>3. /\ n \in Nat /\ Len(s) \in Nat /\ Len(u) = n + Len(s)
        /\ \A i \in 1..n : u[i] = l[i]
        /\ \A i \in 1..Len(s) : u[n + i] = s[i] /\ s[i] \in Trailing
    BY <1>2, StuckIs
  <2> HIDE DEF u, n
  <2> SUFFICES ASSUME NEW k \in 1..(Len(u) - 1), Ends(u[k]) PROVE Ends(u[k + 1])
    BY DEF Behind
  <2>4. ~(k \in 1..n)
    BY <2>2, <2>3
  <2> DEFINE i == k - n
  <2>5. i \in 1..Len(s) /\ i + 1 \in 1..Len(s) /\ n + (i + 1) = k + 1
    BY <2>3, <2>4
  <2> HIDE DEF i
  <2>6. u[k + 1] \in Trailing
    BY <2>3, <2>5
  <2>7. Follows(u[k], u[k + 1], D)
    BY <1>6 DEF Joint
  <2> QED
    BY <2>6, <2>7 DEF Follows, Trailing, Ends
<1> QED
  BY <1>6, <1>7 DEF Fine, s

LEMMA StripFine == \A D : \A h \in Seq(Bound) : AllFine(h, D) => AllFine(StripDiscourse(h), D)
<1> SUFFICES ASSUME NEW D, NEW h \in Seq(Bound), AllFine(h, D) PROVE AllFine(StripDiscourse(h), D)
  OBVIOUS
<1>1. PICK o, x : StripRun(h, o, x)
  BY StripTrace
<1> DEFINE n == Len(h)
           R == {k \in 0..n : AllFine(o[k], D)}
<1>2. n \in Nat /\ o[0] = <<>> /\ StripDiscourse(h) = o[n]
  BY <1>1 DEF StripRun
<1>3. 0 \in R
  BY <1>2 DEF AllFine
<1>4. ASSUME NEW j \in 0..(n - 1), j \in R PROVE j + 1 \in R
  <2> DEFINE k == j + 1
             a == o[k - 1]
             b == o[k]
  <2>1. k \in 1..n /\ k \in 0..n /\ k - 1 = j /\ j \in 0..n
    BY <1>2
  <2> HIDE DEF k
  <2>2. a \in Seq(Bound) /\ b \in Seq(Bound) /\ AllFine(a, D)
    <3>1. a = o[j]
      BY <2>1
    <3> QED
      BY <1>1, <1>4, <2>1, <3>1, RunTyped
  <2>3. Kind(h, o, x, k)
    BY <1>1, <2>1, Kinds
  <2>4. CASE b = a
    BY <2>1, <2>2, <2>4 DEF k
  <2>5. CASE b = Append(a, h[k])
    <3>1. h[k] \in Bound /\ Fine(h[k], D)
      BY <2>1 DEF AllFine
    <3> HIDE DEF a, b
    <3>2. ASSUME NEW i \in 1..Len(b) PROVE Fine(b[i], D)
      <4>1. /\ Len(b) = Len(a) + 1 /\ Len(a) \in Nat
            /\ (\A q \in 1..Len(a) : b[q] = a[q]) /\ b[Len(a) + 1] = h[k]
        BY <2>2, <2>5, <3>1, Extended
      <4>2. i \in 1..Len(a) \/ i = Len(a) + 1
        BY <4>1
      <4> QED
        BY <2>2, <3>1, <4>1, <4>2 DEF AllFine
    <3>3. AllFine(b, D)
      BY <3>2 DEF AllFine
    <3> QED
      BY <2>1, <3>3 DEF b, k
  <2>6. ASSUME NEW l, NEW p, Phrase(h, o, x, k, l, p) PROVE AllFine(b, D)
    <3> DEFINE marks == PunctSuffix(h[l])
    <3>1. /\ l \in k..Len(h) /\ b = HandOver(a, marks) /\ marks \in Seq(Trailing)
      BY <2>6 DEF Phrase
    <3>2. h[l] \in Bound /\ Fine(h[l], D)
      <4>1. l \in 1..Len(h)
        BY <1>2, <2>1, <3>1
      <4> QED
        BY <4>1 DEF AllFine
    <3> HIDE DEF a, b, marks
    <3>3. /\ Len(b) = Len(a)
          /\ \A q \in 1..Len(a) : q < Len(a) => b[q] = a[q]
          /\ a # <<>> =>
                \/ b = a
                \/ PunctSuffix(a[Len(a)]) = <<>> /\ b[Len(a)] = a[Len(a)] \o marks
      BY <2>2, <3>1, HandOverTyped
    <3> SUFFICES ASSUME NEW i \in 1..Len(b) PROVE Fine(b[i], D)
      BY DEF AllFine
    <3>4. i \in 1..Len(a) /\ a # <<>> /\ Fine(a[i], D) /\ a[i] \in Bound
      BY <2>2, <3>3 DEF AllFine
    <3>5. CASE i < Len(a) \/ b = a
      BY <3>3, <3>4, <3>5
    <3>6. CASE ~(i < Len(a)) /\ b # a
      <4>1. i = Len(a)
        BY <2>2, <3>4, <3>6
      <4>2. PunctSuffix(a[i]) = <<>> /\ b[i] = a[i] \o marks
        BY <3>3, <3>4, <3>6, <4>1
      <4> QED
        BY <3>2, <3>4, <4>2, StuckFine DEF marks
    <3> QED
      BY <3>5, <3>6
  <2>7. b = a \/ b = Append(a, h[k]) \/ \E l, p : Phrase(h, o, x, k, l, p)
    BY <2>3, Zenon DEF Kind
  <2> QED
    BY <2>1, <2>4, <2>5, <2>6, <2>7 DEF k
<1>5. 0..n \subseteq R
  <2> HIDE DEF R, n
  <2> QED
    BY <1>2, <1>3, <1>4, UpTo
<1> QED
  BY <1>2, <1>5

----------------------------------------------------------------------------
(* The tidied text.                                                        *)

LEMMA AutoClosed ==
    \A text \in Tok :
        /\ AutoTidy(text) # <<>> => Stop(AutoTidy(text)) \/ Closing(AutoTidy(text))
        /\ \A D : AllFine(Tokens(text), D) => Joint(AutoTidy(text), D)
<1> SUFFICES ASSUME NEW text \in Tok
             PROVE  /\ AutoTidy(text) # <<>> => Stop(AutoTidy(text)) \/ Closing(AutoTidy(text))
                    /\ \A D : AllFine(Tokens(text), D) => Joint(AutoTidy(text), D)
  OBVIOUS
<1> DEFINE h == Tokens(text)
           words == Unfilled(h)
           joined == Join(words)
           closed == CloseSentence(joined)
           toks == Tokens(closed)
           caps == CapitalizeSentences(toks)
<1>1. AutoTidy(text) = IF words = <<>> THEN <<>> ELSE Join(caps)
  BY DEF AutoTidy
<1>2. h \in Seq(Tok)
  BY TokensSaid DEF Tok
<1> HIDE DEF h
<1>3. words \in Seq(Tok)
  <2> DEFINE kept == {i \in DOMAIN h : ~Dropped(h, i)}
  <2>1. \A i \in DOMAIN h : i \in kept <=> ~Dropped(h, i)
    OBVIOUS
  <2> HIDE DEF kept
  <2> QED
    BY <1>2, <2>1, UnfilledSaid
<1>4. \A D : AllFine(h, D) => words \in Seq({t \in Tok : Joint(t, D)})
  BY <1>2, UnfilledJoint
<1> HIDE DEF words
<1>5. joined \in Tok /\ \A D : AllFine(h, D) => Joint(joined, D)
  BY <1>3, <1>4, JoinSaid, JoinJoint
<1> HIDE DEF joined
<1>6. closed \in Tok /\ \A D : AllFine(h, D) => Joint(closed, D)
  BY <1>5, ClosedSaid, CloseJoint DEF Tok
<1>7. Stop(closed) \/ Closing(closed)
  BY <1>5, CloseStops
<1> HIDE DEF closed
<1>8. toks \in Seq(Tok) /\ \A D : AllFine(h, D) => toks \in Seq({t \in Tok : Joint(t, D)})
  BY <1>6, TokensSaid, TokensJoint DEF Tok
<1>9. \/ \E f \in Seq(Tok), l \in Tok : toks = Append(f, l) /\ Stop(l)
      \/ closed # <<>> /\ toks = <<closed>> /\ Closing(closed)
      \/ closed = <<>>
  BY <1>6, <1>7, TokensStop, ClosingTokens
<1>10. closed = <<>> => toks = <<>>
  <2> DEFINE none == <<>>
  <2>1. Tokens(none) = none
    <3>1. none \in Seq(Bound) /\ Join(none) = none
      BY JoinSnoc
    <3> HIDE DEF none
    <3> QED
      BY <3>1, JoinedTokens
  <2> QED
    BY <2>1
<1> HIDE DEF toks
<1>11. /\ caps \in Seq(Tok) /\ Len(caps) = Len(toks)
       /\ \A i \in 1..Len(toks) : SameMarks(toks[i], caps[i])
  BY <1>8, CapitalsSaid, CapitalsMarks
<1> HIDE DEF caps
<1>12. ASSUME NEW D, AllFine(h, D) PROVE Joint(Join(caps), D)
  <2> DEFINE J == {t \in Tok : Joint(t, D)}
  <2>1. \A i \in 1..Len(caps) : caps[i] \in J
    <3> SUFFICES ASSUME NEW i \in 1..Len(caps) PROVE caps[i] \in J
      OBVIOUS
    <3>1. caps[i] \in Tok
      BY <1>11
    <3>2. SameMarks(toks[i], caps[i])
      BY <1>11
    <3>3. Joint(toks[i], D)
      <4>1. toks \in Seq(J) /\ i \in 1..Len(toks)
        BY <1>8, <1>11, <1>12
      <4>2. toks[i] \in J
        <5> HIDE DEF J
        <5> QED
          BY <4>1
      <4> QED
        BY <4>2
    <3> QED
      BY <3>1, <3>2, <3>3, SameJoint
  <2> HIDE DEF J
  <2>2. caps \in Seq(J)
    BY <1>11, <2>1
  <2> QED
    BY <2>2, JoinJoint DEF J
<1>13. Join(caps) # <<>> => Stop(Join(caps)) \/ Closing(Join(caps))
  <2>1. ASSUME NEW f \in Seq(Tok), NEW l \in Tok, toks = Append(f, l), Stop(l) PROVE Stop(Join(caps))
    <3>1. Len(toks) \in Nat /\ Len(toks) # 0 /\ toks[Len(toks)] = l
      BY <2>1
    <3>2. caps # <<>> /\ Len(toks) \in 1..Len(toks) /\ caps[Len(caps)] \in Tok
      BY <1>11, <3>1
    <3> DEFINE d == caps[Len(caps)]
    <3>3. \E g \in Seq(Tok) : caps = Append(g, d)
      BY <1>11, <3>2, LastChanged
    <3>4. SameMarks(l, d)
      BY <1>11, <3>1, <3>2
    <3>5. Stop(d) /\ d \in Tok
      BY <2>1, <3>2, <3>4, SameStop
    <3> HIDE DEF d
    <3> QED
      BY <3>3, <3>5, JoinStop
  <2>2. ASSUME toks = <<closed>>, Closing(closed) PROVE Closing(Join(caps))
    <3>1. Len(toks) = 1 /\ toks[1] = closed /\ Len(caps) = 1
      BY <1>11, <2>2
    <3>2. SameMarks(closed, caps[1]) /\ caps = <<caps[1]>> /\ caps[1] \in Tok
      BY <1>11, <3>1
    <3> DEFINE d == caps[1]
    <3>3. Closing(d) /\ d \in Tok /\ caps = <<d>>
      BY <2>2, <3>2, SameStop
    <3> HIDE DEF d
    <3>4. Join(<<d>>) = d
      <4> DEFINE none == <<>>
      <4>1. <<d>> = Append(none, d) /\ none \in Seq(Tok) /\ Join(none) = <<>>
        BY JoinSnoc
      <4> HIDE DEF none
      <4>2. Join(Append(none, d)) = JoinStep(Join(none), d)
        BY <3>3, <4>1, JoinSnoc
      <4> QED
        BY <4>1, <4>2 DEF JoinStep
    <3> QED
      BY <3>3, <3>4
  <2>3. ASSUME toks = <<>> PROVE Join(caps) = <<>>
    <3>1. caps = <<>>
      BY <1>11, <2>3
    <3> QED
      BY <3>1, JoinSnoc
  <2> QED
    BY <1>9, <1>10, <2>1, <2>2, <2>3
<1>14. words = <<>> => \A D : Joint(AutoTidy(text), D)
  BY <1>1 DEF Joint
<1> QED
  BY <1>1, <1>12, <1>13, <1>14 DEF h

LEMMA PolishClosed ==
    \A text \in Tok :
        /\ PolishTidy(text) # <<>> => Stop(PolishTidy(text)) \/ Closing(PolishTidy(text))
        /\ \A D : AllFine(Tokens(text), D) => Joint(PolishTidy(text), D)
<1> SUFFICES ASSUME NEW text \in Tok
             PROVE  /\ PolishTidy(text) # <<>> => Stop(PolishTidy(text)) \/ Closing(PolishTidy(text))
                    /\ \A D : AllFine(Tokens(text), D) => Joint(PolishTidy(text), D)
  OBVIOUS
<1> DEFINE h == Tokens(text)
           F == StripDiscourse(h)
<1>1. h \in Seq(Bound)
  BY TokensBound DEF Tok
<1> HIDE DEF h
<1>2. F \in Seq(Bound)
  <2>1. PICK o, x : StripRun(h, o, x)
    BY <1>1, StripTrace
  <2>2. Len(h) \in 0..Len(h) /\ F = o[Len(h)]
    BY <1>1, <2>1 DEF StripRun
  <2> QED
    BY <2>1, <2>2, RunTyped
<1>3. \A D : AllFine(h, D) => AllFine(F, D)
  BY <1>1, StripFine
<1>4. PolishTidy(text) = AutoTidy(Join(F))
  BY DEF PolishTidy, h
<1> HIDE DEF F
<1>5. Join(F) \in Tok /\ Tokens(Join(F)) = F
  <2>1. F \in Seq(Tok)
    BY <1>2, BoundIs
  <2> QED
    BY <1>2, <2>1, JoinSaid, JoinedTokens
<1> QED
  BY <1>3, <1>4, <1>5, AutoClosed DEF h

LEMMA Closes ==
    ASSUME SpeechInv, dict \in Dictionaries
    PROVE  ClosedOnce
<1> DEFINE text == Apply(dict, Join(Said(spoken)))
           h == Tokens(text)
<1> SUFFICES ASSUME mode \in Modes \ {"raw"}, typed # <<>>
             PROVE  /\ LET content == TrimEnd(typed, Closers)
                       IN  content = <<>> \/ Last(content).w \in Terminators \union {":", ";"}
                    /\ (\A i \in DOMAIN Heard : Ordinary(Heard[i])) =>
                          Doubled(typed) \subseteq UNION {Doubled(Heard[i]) : i \in DOMAIN Heard}
  BY DEF ClosedOnce
<1>1. text \in Tok
  BY HeardTyped DEF SpeechInv, Tok
<1>2. Heard = h /\ (typed = AutoTidy(text) \/ typed = PolishTidy(text))
  BY DEF Heard, SpeechInv, Reply, Modes
<1> HIDE DEF text
<1>3. typed \in Tok /\ (Stop(typed) \/ Closing(typed)) /\ \A D : AllFine(h, D) => Joint(typed, D)
  <2>1. PolishTidy(text) \in Tok /\ AutoTidy(text) \in Tok
    <3>1. Join(StripDiscourse(Tokens(text))) \in Tok
      <4>1. Tokens(text) \in Seq(Bound)
        BY <1>1, TokensBound DEF Tok
      <4>2. PICK o, x : StripRun(Tokens(text), o, x)
        BY <4>1, StripTrace
      <4>3. StripDiscourse(Tokens(text)) \in Seq(Bound)
        <5> DEFINE n == Len(Tokens(text))
        <5>1. n \in 0..n /\ StripDiscourse(Tokens(text)) = o[n]
          BY <4>1, <4>2 DEF StripRun
        <5> HIDE DEF n
        <5> QED
          BY <4>2, <5>1, RunTyped DEF n
      <4>4. StripDiscourse(Tokens(text)) \in Seq(Tok)
        BY <4>3, BoundIs
      <4> QED
        BY <4>4, JoinSaid
    <3> QED
      BY <1>1, <3>1, AutoSaid DEF PolishTidy, Tok
  <2> QED
    BY <1>1, <1>2, <2>1, AutoClosed, PolishClosed DEF h
<1>4. h \in Seq(Tok)
  BY <1>1, TokensSaid DEF Tok
<1> HIDE DEF h
<1>5. LET content == TrimEnd(typed, Closers)
      IN  content = <<>> \/ Last(content).w \in Terminators \union {":", ";"}
  <2> DEFINE content == TrimEnd(typed, Closers)
             n == Len(typed)
  <2>1. PICK m \in 0..n : /\ content = SubSeq(typed, 1, m)
                          /\ m # 0 => typed[m].w \notin Closers
                          /\ \A i \in (m + 1)..n : typed[i].w \in Closers
    BY <1>3, TrimEndIs DEF Tok
  <2>2. n \in Nat
    BY <1>3 DEF Tok
  <2>3. Len(content) = m /\ (content = <<>> <=> m = 0) /\ (m # 0 => Last(content) = typed[m])
    <3>1. Len(content) = m /\ \A i \in 1..m : content[i] = typed[i]
      BY <1>3, <2>1 DEF Tok
    <3>2. content = <<>> <=> m = 0
      BY <1>3, <2>1 DEF Tok
    <3> HIDE DEF content
    <3>3. m # 0 => m \in 1..m
      OBVIOUS
    <3> QED
      BY <3>1, <3>2, <3>3 DEF Last
  <2>4. CASE Closing(typed)
    <3>1. m = 0
      <4> HIDE DEF content
      <4> QED
        BY <2>1, <2>2, <2>4 DEF Closing
    <3> QED
      BY <2>3, <3>1
  <2>5. CASE Stop(typed)
    <3>1. PICK q \in 1..n : typed[q].w \in Stops /\ \A i \in (q + 1)..n : typed[i].w \in Closers
      BY <2>5 DEF Stop
    <3>2. typed[q].w \notin Closers
      BY <3>1 DEF Stops, Closers, Terminators
    <3>3. m = q
      <4> HIDE DEF content, n
      <4>1. ~(q \in (m + 1)..n)
        BY <2>1, <3>2
      <4>2. ~(m # 0 /\ m \in (q + 1)..n)
        BY <2>1, <3>1
      <4> QED
        BY <2>2, <4>1, <4>2
    <3>4. typed[q].w \in Terminators \union {":", ";"}
      BY <3>1 DEF Stops
    <3>5. m # 0
      <4> HIDE DEF content, n
      <4> QED
        BY <2>2, <3>3
    <3>6. Last(content) = typed[m]
      <4> HIDE DEF content
      <4> QED
        BY <2>3, <3>5
    <3>7. Last(content).w \in Terminators \union {":", ";"}
      <4> HIDE DEF content
      <4> QED
        BY <3>3, <3>4, <3>6
    <3> QED
      BY <3>7
  <2> QED
    BY <1>3, <2>4, <2>5
<1>6. ASSUME \A i \in DOMAIN Heard : Ordinary(Heard[i])
      PROVE  Doubled(typed) \subseteq UNION {Doubled(Heard[i]) : i \in DOMAIN Heard}
  <2> DEFINE D == UNION {Doubled(h[i]) : i \in DOMAIN h}
  <2>1. AllFine(h, D)
    <3> SUFFICES ASSUME NEW i \in 1..Len(h) PROVE Fine(h[i], D)
      BY DEF AllFine
    <3>1. i \in DOMAIN h /\ h[i] \in Tok
      BY <1>4
    <3>2. Doubled(h[i]) \subseteq D /\ Ordinary(h[i])
      BY <1>2, <1>6, <3>1
    <3> HIDE DEF D
    <3> QED
      BY <3>1, <3>2, OrdinaryFine
  <2> HIDE DEF D
  <2>2. Joint(typed, D)
    BY <1>3, <2>1
  <2>3. Doubled(typed) \subseteq D
    BY <2>2 DEF Doubled, Joint, Follows
  <2> QED
    BY <1>2, <2>3 DEF D
<1> QED
  BY <1>5, <1>6

(* Whatever is said, what Auto and Polish type ends like a sentence, and   *)
(* handing punctuation over doubles none.                                  *)
THEOREM SentencesCloseOnce == Spec => []ClosedOnce
<1> DEFINE Inv == DictionaryInv /\ SpeechInv
<1>1. Init => Inv
  BY DictionaryInit, SpeechInit
<1>2. Inv /\ [Next]_vars => Inv'
  BY DictionaryNext, SpeechNext
<1>3. Inv => ClosedOnce
  BY Closes DEF DictionaryInv
<1> QED
  BY <1>1, <1>2, <1>3, PTL DEF Spec

=============================================================================
