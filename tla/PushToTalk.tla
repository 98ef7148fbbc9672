----------------------------- MODULE PushToTalk -----------------------------
(***************************************************************************)
(* What push-to-talk capture promises its user, with no ring buffer, no    *)
(* lock and no counters: the microphone produces a stream of samples, a    *)
(* hold of the keys selects a stretch of it, and every completed hold is   *)
(* handed over exactly once, in the order of release, with every sample    *)
(* heard from key-down to key-up and possibly some look-back before it; at *)
(* most the first Slack samples of a hold may be missing.                  *)
(* CaptureRing is shown to implement this specification.                   *)
(***************************************************************************)
EXTENDS Naturals, Sequences

CONSTANT Slack

VARIABLES
    heard,   \* number of samples the microphone has produced
    hold,    \* {} when no key is held, {n} for a hold that began after n samples
    holds,   \* completed holds, oldest first: [down, up] in samples
    audio    \* what was handed over for each hold, oldest first: a set of samples

vars == <<heard, hold, holds, audio>>

Init ==
    /\ heard = 0
    /\ hold = {}
    /\ holds = <<>>
    /\ audio = <<>>

\* The microphone delivers some samples.
Hear ==
    /\ heard' \in Nat /\ heard' >= heard
    /\ UNCHANGED <<hold, holds, audio>>

Press ==
    /\ hold = {}
    /\ hold' = {heard}
    /\ UNCHANGED <<heard, holds, audio>>

Release ==
    /\ \E d \in hold : holds' = Append(holds, [down |-> d, up |-> heard])
    /\ hold' = {}
    /\ UNCHANGED <<heard, audio>>

\* A hold can be abandoned; nothing is ever handed over for it.
Abandon ==
    /\ hold # {}
    /\ hold' = {}
    /\ UNCHANGED <<heard, holds, audio>>

\* The oldest hold not handed over yet is handed over, whole but for the slack.
HandOver ==
    /\ Len(audio) < Len(holds)
    /\ LET h == holds[Len(audio) + 1]
       IN  \E from \in 0..(h.down + Slack) : audio' = Append(audio, from..(h.up - 1))
    /\ UNCHANGED <<heard, hold, holds>>

Next == Hear \/ Press \/ Release \/ Abandon \/ HandOver

Spec == Init /\ [][Next]_vars

\* Every completed hold is eventually handed over.
FairSpec == Spec /\ WF_vars(HandOver)
=============================================================================
