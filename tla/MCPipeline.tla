----------------------------- MODULE MCPipeline -----------------------------
(* Pipeline on a small desktop: an edit control and a password field of one *)
(* application, a terminal, a code editor with a password field of its own, *)
(* and a window that runs as administrator.                                 *)
EXTENDS Pipeline

CONSTANTS e1, pw, term, adm, box

MCControls == {e1, pw, term}
MCApp == (e1 :> "edit") @@ (pw :> "edit") @@ (term :> "term")

MCAdmin == {e1, adm}
MCAdminApp == (e1 :> "edit") @@ (adm :> "admin")

\* A password field of a code editor, beside an ordinary field.
MCCredential == {e1, box}
MCCredentialApp == (e1 :> "edit") @@ (box :> "code")
MCCredentialField == {box}
MCUtterance == {"utterance"}

\* A mode other than raw is selected, and the user moves on while the sidecar works.
MovingOnSpec ==
    /\ Init /\ mode # "raw" /\ focus = e1
    /\ [][Next /\ (focus' # focus => pc = "asr")]_vars

MCSendable == {"utterance", "cycle", "style", "learn", "email", "quit"}

MCLiteral == {"term", "code"}
MCPassword == {pw}
MCElevated == {adm}
=============================================================================
