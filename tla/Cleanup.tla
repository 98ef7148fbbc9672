------------------------------ MODULE Cleanup ------------------------------
(***************************************************************************)
(* What the native engine does with a transcript, utterance after          *)
(* utterance: the dictionary in every mode, then the tidying of the mode;  *)
(* and, between utterances, what the user teaches it and what is left of   *)
(* that when the engine is started again.                                  *)
(***************************************************************************)
EXTENDS Dictionary, Tidy

CONSTANTS
    Vocabulary, \* what may be spoken at a stretch: sequences of tokens
    Lessons,    \* the mappings that may be taught
    FirstFile,  \* the lines of dictionary.txt
    MaxWork     \* bound: stretches of an utterance and lessons before it

ASSUME TextAssumption ==
    LET Piece == [w : STRING, cap : BOOLEAN]
    IN  /\ Vocabulary \subseteq Seq(Seq(Piece))
        /\ Lessons \subseteq Seq(Piece) /\ FirstFile \in Seq(Seq(Piece))
ASSUME WorkAssumption == MaxWork \in Nat

VARIABLES
    file,      \* the lines of dictionary.txt
    dict,      \* the engine's dictionary
    spoken,    \* the stretches the recogniser hears
    mode,      \* the mode of the last request, "none" while the user speaks
    typed,     \* its reply
    taught,    \* history: how often a lesson was taught
    faithful   \* history: every lesson since the engine started was saved and is plain

vars == <<file, dict, spoken, mode, typed, taught, faithful>>

Modes == {"raw", "auto", "polish", "email"}

Init ==
    /\ file = FirstFile /\ dict = Load(FirstFile)
    /\ spoken = <<>> /\ mode = "none" /\ typed = <<>>
    /\ taught = 0 /\ faithful = TRUE

\* A lesson that means the same when it is read back: a comma separates what is
\* misheard, the first arrow ends the term, a leading hash is a comment.
Plain(mapping) ==
    /\ Comma \notin ToSet(Before(mapping))
    /\ Arrow \notin ToSet(After(mapping)) /\ After(mapping)[1] # P("#")

\* The file may not be written; the lesson then lasts as long as the engine.
Teach ==
    /\ spoken = <<>> /\ taught < MaxWork
    /\ \E m \in Lessons :
        IF Teachable(m)
        THEN /\ dict' = Learn(dict, m)
             /\ \E saved \in BOOLEAN :
                 /\ file' = IF saved THEN Append(file, AppendedLine(m)) ELSE file
                 /\ faithful' = (faithful /\ saved /\ Plain(m))
        ELSE UNCHANGED <<dict, file, faithful>>
    /\ taught' = taught + 1
    /\ UNCHANGED <<spoken, mode, typed>>

\* The engine is started again, by the client or with the program.
Restart ==
    /\ spoken = <<>>
    /\ dict' = Load(file) /\ faithful' = TRUE
    /\ UNCHANGED <<file, spoken, mode, typed, taught>>

Hear ==
    /\ mode = "none" /\ Len(spoken) + taught < MaxWork
    /\ \E t \in Vocabulary : spoken' = Append(spoken, t)
    /\ UNCHANGED <<file, dict, mode, typed, taught, faithful>>

Said(stretches) == FoldLeft(LAMBDA toks, t : toks \o t, <<>>, stretches)

\* transcribe: Email gets Polish, the strongest cleanup without a language model.
Reply(m, text) ==
    CASE m = "raw" -> text
      [] m = "auto" -> AutoTidy(text)
      [] OTHER -> PolishTidy(text)

Transcribe ==
    /\ mode = "none" /\ spoken # <<>>
    /\ \E m \in Modes :
        /\ mode' = m
        /\ typed' = Reply(m, Apply(dict, Join(Said(spoken))))
    /\ UNCHANGED <<file, dict, spoken, taught, faithful>>

NextUtterance ==
    /\ mode # "none"
    /\ spoken' = <<>> /\ mode' = "none" /\ typed' = <<>>
    /\ UNCHANGED <<file, dict, taught, faithful>>

Next == Teach \/ Restart \/ Hear \/ Transcribe \/ NextUtterance
Spec == Init /\ [][Next]_vars

----------------------------------------------------------------------------
(* What was taught and saved is what a new engine knows, in the same order *)
(* and with the same effect (learn writes the line the other way round).   *)
(* A lesson whose text the file format reads differently is left out.      *)
LearnRoundTrip == faithful => Load(file).replacements = dict.replacements

Heard == Tokens(Apply(dict, Join(Said(spoken))))
WordsOf(text) == FoldLeft(LAMBDA words, p : IF IsWord(p) THEN Append(words, Lower(p)) ELSE words,
                          <<>>, text)
Words(toks) == FoldLeft(LAMBDA words, t : words \o WordsOf(t), <<>>, toks)
Pick(s, kept) == FoldLeft(LAMBDA picked, i : IF i \in kept THEN Append(picked, s[i]) ELSE picked,
                          <<>>, [i \in DOMAIN s |-> i])

\* The word stands alone between words and spaces, beside no number, and in small
\* letters unless it begins the utterance and the next word goes as well, or is in
\* small letters, or a mark comes first.
BareFiller(h, kept, i) ==
    LET core == Trim(h[i], Marks)
    IN  /\ Len(core) = 1 /\ core[1].w \in Fillers
        /\ ~HasNumber(h, i - 1) /\ ~HasNumber(h, i + 1)
        /\ core[1].cap =>
            /\ kept \cap 1..(i - 1) = {}
            /\ \/ IsMark(Last(h[i]))
               \/ i < Len(h) /\ (StartsLower(h[i + 1]) \/ i + 1 \notin kept)

HasComma(tok) == P(",") \in ToSet(PunctSuffix(tok))

\* i is in a set phrase that is dropped whole, and that punctuation sets off: an
\* interruption on both sides, a trailer at its end.
Scaffolding(h, kept, i) ==
    \E from \in 1..i, to \in i..Len(h) :
        LET phrase == [k \in 1..(to - from + 1) |-> WordOf(h[from + k - 1])[1].w]
            before == kept \cap 1..(from - 1)
        IN  /\ \A k \in from..to : k \notin kept /\ Words(<<h[k]>>) # <<>>
            /\ \A k \in from..(to - 1) : PunctSuffix(h[k]) = <<>>
            /\ \/ /\ phrase \in Discourse /\ HasComma(h[to])
                  /\ before = {} \/ \E k \in Max(before)..(from - 1) : HasComma(h[k])
               \/ /\ phrase \in VagueTrailers
                  /\ to = Len(h) \/ PunctSuffix(h[to]) # <<>>

(* tidy.rs: "deleting or mangling a real word is far worse than leaving a   *)
(* filler in": whatever is typed has the words that were heard, in their   *)
(* order, but for bare fillers and, in Polish, phrases that punctuation    *)
(* sets off.  Raw has every word.                                          *)
OnlyFillersGo ==
    mode # "none" =>
        LET h == Heard IN \E kept \in SUBSET DOMAIN h :
            /\ Words(Tokens(typed)) = Words(Pick(h, kept))
            /\ \A i \in DOMAIN h \ kept :
                \/ mode # "raw" /\ BareFiller(h, kept, i)
                \/ mode \notin {"raw", "auto"} /\ Scaffolding(h, kept, i)

\* A token that does not doubt how it ends: no pause behind a terminator, and a
\* filler has its terminators at the end.
Ordinary(tok) ==
    \A k \in 1..(Len(tok) - 1) : Ends(tok[k]) =>
        /\ tok[k + 1].w \notin Pauses
        /\ FillerBody(tok, TRUE) => Ends(tok[k + 1])

(* A tidied text ends like a sentence, and punctuation that was handed from *)
(* a dropped word to the word before it doubles nothing: if all tokens were *)
(* ordinary, two terminators stand together only where they did in what    *)
(* was heard.                                                              *)
Doubled(text) == {<<text[k].w, text[k + 1].w>> :
                     k \in {j \in 1..(Len(text) - 1) : Ends(text[j]) /\ Ends(text[j + 1])}}
ClosedOnce ==
    mode \in Modes \ {"raw"} /\ typed # <<>> =>
        /\ LET content == TrimEnd(typed, Closers)
           IN  content = <<>> \/ Last(content).w \in Terminators \union {":", ";"}
        /\ (\A i \in DOMAIN Heard : Ordinary(Heard[i])) =>
              Doubled(typed) \subseteq UNION {Doubled(Heard[i]) : i \in DOMAIN Heard}
=============================================================================
