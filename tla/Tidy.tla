-------------------------------- MODULE Tidy --------------------------------
(***************************************************************************)
(* The deterministic clean-up: auto_tidy drops bare fillers, closes the    *)
(* last sentence and capitalises; strip_discourse, which Polish runs       *)
(* before it, drops set phrases that commas set off.                       *)
(***************************************************************************)
EXTENDS Text

Fillers == {"um", "uh"}

\* A token that is a filler and nothing else, marks around it aside.
FillerAnyCase(tok, allowCapitalized) ==
    LET core == Trim(tok, Marks)
    IN  Len(core) = 1 /\ core[1].w \in Fillers
FillerBody(tok, allowCapitalized) ==
    LET core == Trim(tok, Marks)
    IN  Len(core) = 1 /\ core[1].w \in Fillers /\ (core[1].cap => allowCapitalized)

\* The first word is capitalised whatever it is; the shape of the utterance
\* decides.
StartsLower(tok) ==
    LET first == SelectInSeq(tok, IsLetters) IN first # 0 /\ ~tok[first].cap
InitialFillerAllowed(toks) ==
    \/ Last(toks[1]).w \in Terminators \union Pauses
    \/ Len(toks) > 1 /\ StartsLower(toks[2])

HasNumber(toks, i) == i \in DOMAIN toks /\ \E k \in DOMAIN toks[i] : IsNumber(toks[i][k])

\* A filler beside a number may be a unit.
Dropped(toks, i) ==
    /\ FillerBody(toks[i], i = 1 /\ InitialFillerAllowed(toks))
    /\ ~HasNumber(toks, i - 1) /\ ~HasNumber(toks, i + 1)

\* The terminators of a dropped filler go to the word before it, unless that has
\* one.
HandBackAlways(words, marks) ==
    IF words = <<>> \/ marks = <<>> THEN words
    ELSE [words EXCEPT ![Len(words)] = @ \o marks]
HandBack(words, marks) ==
    IF words = <<>> \/ marks = <<>> \/ Ends(Last(Last(words))) THEN words
    ELSE [words EXCEPT ![Len(words)] = @ \o marks]

Unfilled(toks) ==
    FoldLeft(LAMBDA words, i : IF Dropped(toks, i)
                               THEN HandBack(words, KeepIn(toks[i], {p \in ToSet(toks[i]) : Ends(p)}))
                               ELSE Append(words, toks[i]),
             <<>>, [i \in DOMAIN toks |-> i])

\* Judged on the last character that closes nothing: a comma becomes a full
\* stop, and without one a full stop is added, after the closers.
CloseSentence(text) ==
    LET content == TrimEnd(text, Closers)
    IN  IF content = <<>> THEN text
        ELSE IF Last(content) = P(",") THEN [text EXCEPT ![Len(content)] = P(".")]
        ELSE IF Last(content).w \in (Terminators \union {":", ";"}) THEN text
        ELSE Append(text, P("."))

\* Two dots or a number: a URL, a version, an abbreviation with inner dots.
IsStructuredToken(tok) ==
    \/ Len(SelectSeq(tok, LAMBDA p : p = P("."))) > 1
    \/ \E k \in DOMAIN tok : tok[k] = P(":") \/ IsNumber(tok[k])

EndsSentence(tok) ==
    LET trimmed == TrimEnd(tok, Closers)
        words == SelectSeq(trimmed, IsWord)
    IN  /\ trimmed # <<>> /\ Ends(Last(trimmed))
        /\ \/ Last(trimmed).w # "."
           \/ /\ ~IsStructuredToken(trimmed)
              /\ \/ Len(words) > 1
                 \/ Len(words) = 1 /\ words[1].w \notin Short

CapitalizeFirst(tok) ==
    LET letters == {k \in DOMAIN tok : IsLetters(tok[k])}
    IN  IF letters = {} THEN tok ELSE [tok EXCEPT ![Min(letters)] = Upper(@)]

CapitalizeSentences(toks) ==
    [i \in DOMAIN toks |->
        IF \/ \A j \in 1..(i - 1) : ~\E k \in DOMAIN toks[j] : IsWord(toks[j][k])
           \/ EndsSentence(toks[i - 1])
        THEN CapitalizeFirst(toks[i]) ELSE toks[i]]

AutoTidy(text) ==
    LET words == Unfilled(Tokens(text))
    IN  IF words = <<>> THEN <<>>
        ELSE Join(CapitalizeSentences(Tokens(CloseSentence(Join(words)))))

----------------------------------------------------------------------------
(* Polish.                                                                 *)

Discourse == {<<"like">>, <<"you", "know">>, <<"i", "mean">>}
VagueTrailers == {<<"and", "stuff">>, <<"or", "whatever">>}

PunctSuffix(tok) ==
    SubSeq(tok, Len(TrimEnd(tok, Terminators \union Pauses)) + 1, Len(tok))
WordOf(tok) == LowerAll(Trim(tok, Marks))

\* A phrase has no punctuation inside it.
PhraseAt(toks, i, phrase) ==
    /\ i + Len(phrase) - 1 <= Len(toks)
    /\ \A k \in DOMAIN phrase :
        /\ WordOf(toks[i + k - 1]) = <<P(phrase[k])>>
        /\ k < Len(phrase) => PunctSuffix(toks[i + k - 1]) = <<>>

\* The phrases that may go at i: a discourse marker between commas, a trailer at
\* the end or before punctuation.
FillersAt(toks, i, afterComma) ==
    {p \in Discourse : /\ afterComma /\ PhraseAt(toks, i, p)
                       /\ P(",") \in ToSet(PunctSuffix(toks[i + Len(p) - 1]))} \union
    {p \in VagueTrailers : /\ PhraseAt(toks, i, p)
                           /\ \/ i + Len(p) - 1 = Len(toks)
                              \/ PunctSuffix(toks[i + Len(p) - 1]) # <<>>}

\* The punctuation of a phrase goes to the word before it, unless that has some.
StripDiscourse(toks) ==
    LET at(st, i) ==
            LET comma == st.out = <<>> \/ P(",") \in ToSet(PunctSuffix(Last(st.out)))
                phrases == FillersAt(toks, i, comma)
                p == CHOOSE q \in phrases : TRUE
                marks == PunctSuffix(toks[i + Len(p) - 1])
            IN  IF i < st.next THEN st
                ELSE IF phrases = {} THEN [out |-> Append(st.out, toks[i]), next |-> i + 1]
                ELSE [out |-> IF st.out = <<>> \/ PunctSuffix(Last(st.out)) # <<>> THEN st.out
                              ELSE [st.out EXCEPT ![Len(st.out)] = @ \o marks],
                      next |-> i + Len(p)]
    IN  FoldLeft(at, [out |-> <<>>, next |-> 1], [i \in DOMAIN toks |-> i]).out

PolishTidy(text) == AutoTidy(Join(StripDiscourse(Tokens(text))))
=============================================================================
