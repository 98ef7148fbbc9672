----------------------------- MODULE Dictionary -----------------------------
(***************************************************************************)
(* The personal dictionary: how its file is read, how its replacements are *)
(* applied to a transcript, and what teaching it does.  Because a piece is *)
(* a whole run of word characters, a match of pieces has a word character  *)
(* for a neighbour only at an edge that is a mark.                         *)
(***************************************************************************)
EXTENDS Text

Arrow == P("=>")
Comma == P(",")
Empty == [replacements |-> <<>>, hints |-> <<>>]
Entry(mis, term) == [mis |-> LowerAll(mis), term |-> term]

\* split_once("=>"), both sides trimmed.
HasArrow(s) == Arrow \in ToSet(s)
Before(s) == Trim(SubSeq(s, 1, SelectInSeq(s, LAMBDA p : p = Arrow) - 1), Spaces)
After(s) == Trim(SubSeq(s, SelectInSeq(s, LAMBDA p : p = Arrow) + 1, Len(s)), Spaces)

\* Every part that is not blank is a mishearing of the term.
Mishearings(known, term, parts) ==
    FoldLeft(LAMBDA all, part : IF Trim(part, Spaces) = <<>> THEN all
                                ELSE Append(all, Entry(Trim(part, Spaces), term)),
             known, parts)

LoadLine(d, line) ==
    LET ln == Trim(line, Spaces)
    IN  IF ln = <<>> \/ ln[1] = P("#") THEN d
        ELSE IF ~HasArrow(ln) THEN [d EXCEPT !.hints = Append(@, ln)]
        ELSE [replacements |-> Mishearings(d.replacements, Before(ln), Split(After(ln), Comma)),
              hints |-> Append(d.hints, Before(ln))]

Load(lines) == FoldLeft(LoadLine, Empty, lines)

\* A match may not be glued to a word character on either side.
MatchesAt(text, i, mis) ==
    LET end == i + Len(mis) - 1
    IN  /\ end <= Len(text)
        /\ LowerAll(SubSeq(text, i, end)) = mis
        /\ i = 1 \/ IsMark(text[i - 1])
        /\ end = Len(text) \/ IsMark(text[end + 1])

\* One pass from the left, past what has been replaced.
ReplaceWord(text, entry) ==
    LET at(st, i) ==
            IF i < st.next THEN st
            ELSE IF MatchesAt(text, i, entry.mis)
            THEN [out |-> st.out \o entry.term, next |-> i + Len(entry.mis)]
            ELSE [out |-> Append(st.out, text[i]), next |-> i + 1]
    IN  FoldLeft(at, [out |-> <<>>, next |-> 1], [i \in DOMAIN text |-> i]).out

\* Every entry sees what the ones before it made of the text.
Apply(d, text) == FoldLeft(ReplaceWord, text, d.replacements)

\* Teaching: "misheard => correct" is live at once ...
Teachable(mapping) == HasArrow(mapping) /\ Before(mapping) # <<>> /\ After(mapping) # <<>>
Learn(d, mapping) ==
    [d EXCEPT !.replacements = Append(@, Entry(Before(mapping), After(mapping)))]
\* ... and is appended to the file the other way round.
LineAsTaught(mapping) == Before(mapping) \o <<Space, Arrow, Space>> \o After(mapping)
AppendedLine(mapping) == After(mapping) \o <<Space, Arrow, Space>> \o Before(mapping)
=============================================================================
