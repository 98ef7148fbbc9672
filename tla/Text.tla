-------------------------------- MODULE Text --------------------------------
(***************************************************************************)
(* Text as the clean-up code of nib-cleanup tells it apart: a sequence of  *)
(* pieces, each a maximal run of word characters or one mark.  A piece     *)
(* knows its lower-case form and whether it is written with a capital; a   *)
(* token is what stands between two spaces.                                *)
(***************************************************************************)
EXTENDS Naturals, Sequences, FiniteSets, SequencesExt, Lists

P(w) == [w |-> w, cap |-> FALSE]
Cap(w) == [w |-> w, cap |-> TRUE]

Terminators == {".", "!", "?"}
Closers == {"\"", ")"}
Pauses == {",", ";", ":"}
Marks == Terminators \union Closers \union Pauses \union {" ", "+", "#", "=>"}
Numbers == {"5"}
Short == {"um", "uh", "e", "g", "i", "5"} \* of two characters at most

Space == P(" ")
Spaces == {" "}
IsWord(p) == p.w \notin Marks
IsMark(p) == ~IsWord(p)
IsLetters(p) == IsWord(p) /\ p.w \notin Numbers
IsNumber(p) == p.w \in Numbers
Ends(p) == p.w \in Terminators

\* One character for one, so that indices into the two forms agree.
Lower(p) == [p EXCEPT !.cap = FALSE]
Upper(p) == IF IsLetters(p) THEN [p EXCEPT !.cap = TRUE] ELSE p
LowerAll(s) == [i \in DOMAIN s |-> Lower(s[i])]

\* trim_matches and trim_end_matches, of a set of marks.
Trim(s, drop) ==
    LET keep == {i \in DOMAIN s : s[i].w \notin drop}
    IN  IF keep = {} THEN <<>> ELSE SubSeq(s, Min(keep), Max(keep))
TrimEnd(s, drop) == SubSeq(s, 1, Max({0} \union {i \in DOMAIN s : s[i].w \notin drop}))

Split(s, p) ==
    FoldLeft(LAMBDA parts, x : IF x = p THEN Append(parts, <<>>)
                               ELSE [parts EXCEPT ![Len(parts)] = Append(@, x)],
             << <<>> >>, s)

Tokens(text) == LET parts == Split(text, Space) IN KeepIn(parts, ToSet(parts) \ {<<>>})
Join(toks) == FoldLeft(LAMBDA text, t : IF text = <<>> THEN t ELSE text \o <<Space>> \o t,
                       <<>>, toks)
=============================================================================
