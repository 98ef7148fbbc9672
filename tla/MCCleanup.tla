----------------------------- MODULE MCCleanup -----------------------------
(* Stretches that the rules disagree about: fillers in both cases and with *)
(* punctuation, a number, set phrases with and without commas, an          *)
(* abbreviation, a closed quotation; and lessons the file reads otherwise. *)
EXTENDS Cleanup

T(w) == <<P(w)>>
MCVocabulary == {
    <<T("um")>>, <<<<Cap("um")>>>>, <<<<P("um"), P(",")>>>>, <<<<P("uh"), P("?"), P("!")>>>>,
    <<<<P("um"), P(".")>>>>, <<T("5")>>, <<T("cat")>>, <<<<Cap("cat"), P(".")>>>>,
    <<<<P("dog"), P(",")>>>>, <<<<P("dog"), P("."), P("\"")>>>>, <<<<P("e"), P("."), P("g"), P(".")>>>>,
    <<T("like")>>, <<<<P("like"), P(",")>>>>, <<T("you"), <<P("know"), P(",")>>>>,
    <<T("you"), T("know")>>, <<T("and"), T("stuff")>>, <<<<Cap("and")>>, <<P("stuff"), P(".")>>>>,
    <<T("and"), <<P("stuff"), P(".")>>>>}

Mapping(mis, correct) == mis \o <<Space, Arrow, Space>> \o correct
MCLessons == {
    Mapping(<<P("cat"), Space, P("dog")>>, <<Cap("kubectl")>>),
    Mapping(T("um"), <<P("cat"), P("+")>>),
    Mapping(<<P("cat"), P(","), P("dog")>>, T("like")),
    Mapping(T("like"), <<P("#"), P("tag")>>),
    Mapping(T("you"), <<>>)}
MCFile == << <<P("#"), P("stuff")>>, <<>>, T("sherpa"),
             <<P("know"), Space, Arrow, Space, P("no"), P(","), Space, P("kno"), P(",")>> >>
=============================================================================
