--------------------------- MODULE SidecarService ---------------------------
(***************************************************************************)
(* What the pipeline counts on when it calls the speech sidecar: a call    *)
(* returns a whole reply to that very request or nothing, and the          *)
(* advertised LLM capability changes only inside a call.                   *)
(***************************************************************************)
EXTENDS Naturals, Sequences

VARIABLES
    up,       \* the sidecar has announced itself once
    calls,    \* number of calls made
    returns,  \* what each finished call returned: {its own number}, or {}
    hasLlm    \* Sidecar::has_llm

vars == <<up, calls, returns, hasLlm>>

Idle == calls = Len(returns)

Init ==
    /\ up = FALSE
    /\ calls = 0
    /\ returns = <<>>
    /\ hasLlm \in BOOLEAN

Start ==
    /\ ~up
    /\ up' = TRUE
    /\ hasLlm' \in BOOLEAN
    /\ UNCHANGED <<calls, returns>>

Call ==
    /\ up
    /\ Idle
    /\ calls' = calls + 1
    /\ UNCHANGED <<up, returns, hasLlm>>

\* A restart inside the call may change the capability.
Restart ==
    /\ ~Idle
    /\ hasLlm' \in BOOLEAN
    /\ UNCHANGED <<up, calls, returns>>

Return ==
    /\ ~Idle
    /\ \E r \in {{}, {calls}} : returns' = Append(returns, r)
    /\ UNCHANGED <<up, calls, hasLlm>>

Next == Start \/ Call \/ Restart \/ Return

Spec == Init /\ [][Next]_vars
=============================================================================
