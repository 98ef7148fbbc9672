------------------------------ MODULE Sidecar ------------------------------
(***************************************************************************)
(* The client side of crates/nib-asr and the line protocol it speaks with  *)
(* the sidecar process of crates/nib-asr-sidecar over two pipes: start-up  *)
(* with one retry, READY handshake, one request and one reply at a time,   *)
(* restart and replay when the process is found dead, and shutdown.        *)
(*                                                                         *)
(* The process may fail to load, die at any point, die in the middle of a  *)
(* line, print a line that is not UTF-8, or hang.  Every fault is paid     *)
(* for out of MaxFaults.                                                   *)
(***************************************************************************)
EXTENDS Naturals, Sequences, FiniteSets

CONSTANTS
    MaxCalls,   \* bound: requests in a run
    MaxFaults   \* bound: faults in a run

ASSUME SidecarBounds == MaxCalls \in Nat /\ MaxFaults \in Nat

VARIABLES
    \* The client: struct Sidecar and where its thread is.
    pc,        \* control point
    why,       \* who called spawn_proc: start-up, its retry, or restart
    caps,      \* Sidecar.caps contains "llm"
    tries,     \* try_request calls made for the current request
    kinds,     \* the requests made so far, "transcribe" or "learn"
    returns,   \* what each finished request returned: a set of request numbers
    \* The processes and the pipes of the current one.
    spawned,   \* processes spawned so far; the last one is `child`
    alive,     \* processes that exist
    phase,     \* what the current process is doing
    llm,       \* whether the current process loaded an LLM
    stdin,     \* lines it has not read
    stdout,    \* lines the client has not read
    \* The dictionary file and the fault budget.
    saved,     \* how often each learn request was appended
    faults

client == <<pc, why, caps, tries, kinds, returns>>
process == <<spawned, alive, phase, llm, stdin, stdout>>
vars == <<client, process, saved, faults>>

Calls == 1..MaxCalls

\* Lines on the child's stdin: a request by its number, or __quit__.
Quit == 0

\* Lines on its stdout.
Ready(c) == [line |-> "ready", caps |-> c]
Noise == [line |-> "noise"]
Reply(r) == [line |-> "reply", to |-> r]
Partial == [line |-> "partial"]
Garbled == [line |-> "garbled"]

Lines == {Ready(TRUE), Ready(FALSE), Noise, Partial, Garbled}
         \cup {Reply(r) : r \in Calls}

ChildAlive == spawned \in alive

TypeOK ==
    /\ pc \in {"spawn", "handshake", "waitExit", "idle", "await", "failed", "reap", "gone", "fatal"}
    /\ why \in {"first", "second", "restart"}
    /\ caps \in BOOLEAN
    /\ tries \in 0..2
    /\ kinds \in Seq({"transcribe", "learn"}) /\ Len(kinds) <= MaxCalls
    /\ returns \in Seq(SUBSET Calls)
    /\ spawned \in Nat
    /\ alive \subseteq 1..spawned
    /\ phase \in {"loading", "serving", "working", "replying", "wedged"}
    /\ llm \in BOOLEAN
    /\ stdin \in Seq(Calls \cup {Quit})
    /\ stdout \in Seq(Lines)
    /\ saved \in [Calls -> 0..2]
    /\ faults \in 0..MaxFaults

Init ==
    /\ pc = "spawn"
    /\ why = "first"
    /\ caps = FALSE
    /\ tries = 0
    /\ kinds = <<>>
    /\ returns = <<>>
    /\ spawned = 0
    /\ alive = {}
    /\ phase = "loading"
    /\ llm = FALSE
    /\ stdin = <<>>
    /\ stdout = <<>>
    /\ saved = [r \in Calls |-> 0]
    /\ faults = 0

Current == Len(kinds)

Fault == faults < MaxFaults /\ faults' = faults + 1

-----------------------------------------------------------------------------
(* The client.                                                             *)

\* What each caller of spawn_proc does with an Err.
SpawnFailed ==
    \/ /\ why = "first"
       /\ why' = "second" /\ pc' = "spawn"
       /\ UNCHANGED returns
    \/ /\ why = "second"
       /\ pc' = "fatal"
       /\ UNCHANGED <<why, returns>>
    \/ /\ why = "restart"
       /\ pc' = "idle"
       /\ returns' = Append(returns, {})
       /\ UNCHANGED why

\* spawn_proc: a new process on new pipes ...
Spawn ==
    /\ pc = "spawn"
    /\ spawned' = spawned + 1
    /\ alive' = alive \cup {spawned'}
    /\ phase' = "loading"
    /\ llm' = FALSE
    /\ stdin' = <<>>
    /\ stdout' = <<>>
    /\ pc' = "handshake"
    /\ UNCHANGED <<why, caps, tries, kinds, returns, saved, faults>>

\* ... or none: a missing file or DLL, or CreateProcess failed.
SpawnError ==
    /\ pc = "spawn"
    /\ Fault
    /\ SpawnFailed
    /\ UNCHANGED <<caps, tries, kinds, process, saved>>

\* The handshake skips every line that is not READY ...
HandshakeSkip ==
    /\ pc = "handshake"
    /\ stdout # <<>>
    /\ Head(stdout).line \notin {"ready", "garbled"}
    /\ stdout' = Tail(stdout)
    /\ UNCHANGED <<client, spawned, alive, phase, llm, stdin, saved, faults>>

\* writeln! on the current pipes: it fails once the process is gone.
Send(line) ==
    IF ChildAlive
    THEN stdin' = Append(stdin, line) /\ pc' = "await"
    ELSE stdin' = stdin /\ pc' = "failed"

\* Mutant: a restart adopts the process and keeps the old capabilities.
HandshakeReadyStaleCaps ==
    /\ pc = "handshake"
    /\ stdout # <<>>
    /\ Head(stdout).line = "ready"
    /\ stdout' = Tail(stdout)
    /\ IF why = "restart"
       THEN Send(Current) /\ tries' = 2 /\ UNCHANGED caps
       ELSE pc' = "idle" /\ caps' = Head(stdout).caps /\ UNCHANGED <<stdin, tries>>
    /\ UNCHANGED <<why, kinds, returns, spawned, alive, phase, llm, saved, faults>>

\* READY: adopt the process; a restart goes on to replay the request.
HandshakeReady ==
    /\ pc = "handshake"
    /\ stdout # <<>>
    /\ Head(stdout).line = "ready"
    /\ stdout' = Tail(stdout)
    /\ caps' = Head(stdout).caps
    /\ IF why = "restart"
       THEN Send(Current) /\ tries' = 2
       ELSE pc' = "idle" /\ UNCHANGED <<stdin, tries>>
    /\ UNCHANGED <<why, kinds, returns, spawned, alive, phase, llm, saved, faults>>

\* ... but takes a line it cannot decode for EOF.
HandshakeGarbled ==
    /\ pc = "handshake"
    /\ stdout # <<>>
    /\ Head(stdout).line = "garbled"
    /\ stdout' = Tail(stdout)
    /\ pc' = "waitExit"
    /\ UNCHANGED <<why, caps, tries, kinds, returns, spawned, alive, phase, llm, stdin,
                   saved, faults>>

\* EOF before READY: wait for the process to exit, then report.
HandshakeEof ==
    /\ pc = "waitExit" \/ (pc = "handshake" /\ stdout = <<>>)
    /\ ~ChildAlive
    /\ SpawnFailed
    /\ UNCHANGED <<caps, tries, kinds, process, saved, faults>>

\* transcribe or learn: write one line.
Request ==
    /\ pc = "idle"
    /\ Current < MaxCalls
    /\ \E k \in {"transcribe", "learn"} : kinds' = Append(kinds, k)
    /\ Send(Current + 1)
    /\ tries' = 1
    /\ UNCHANGED <<why, caps, returns, spawned, alive, phase, llm, stdout, saved, faults>>

\* Mutant: a line cut off by a crash counts as the reply (0: a fragment).
ReadFragment ==
    /\ pc = "await"
    /\ stdout # <<>>
    /\ Head(stdout).line \in {"reply", "partial"}
    /\ returns' = Append(returns, IF Head(stdout).line = "reply" THEN {Head(stdout).to} ELSE {0})
    /\ stdout' = Tail(stdout)
    /\ pc' = "idle"
    /\ UNCHANGED <<why, caps, tries, kinds, spawned, alive, phase, llm, stdin, saved, faults>>

\* Read one whole line back: it is the answer.
ReadReply ==
    /\ pc = "await"
    /\ stdout # <<>>
    /\ Head(stdout).line = "reply"
    /\ returns' = Append(returns, {Head(stdout).to})
    /\ stdout' = Tail(stdout)
    /\ pc' = "idle"
    /\ UNCHANGED <<why, caps, tries, kinds, spawned, alive, phase, llm, stdin, saved, faults>>

\* Mutant: a read of nothing is not taken for EOF.
ReadNothingNoEof ==
    /\ pc = "await"
    /\ stdout # <<>> /\ Head(stdout).line \in {"partial", "garbled"}
    /\ stdout' = Tail(stdout)
    /\ pc' = "failed"
    /\ UNCHANGED <<why, caps, tries, kinds, returns, spawned, alive, phase, llm, stdin,
                   saved, faults>>

\* EOF, a line without its newline, or invalid UTF-8.
ReadNothing ==
    /\ pc = "await"
    /\ \/ stdout = <<>> /\ ~ChildAlive
       \/ stdout # <<>> /\ Head(stdout).line \in {"partial", "garbled"}
    /\ stdout' = IF stdout = <<>> THEN <<>> ELSE Tail(stdout)
    /\ pc' = "failed"
    /\ UNCHANGED <<why, caps, tries, kinds, returns, spawned, alive, phase, llm, stdin,
                   saved, faults>>

\* Mutant: the process is taken for dead and is not killed.
RestartNoKill ==
    /\ pc = "failed" /\ tries = 1
    /\ why' = "restart" /\ pc' = "spawn"
    /\ UNCHANGED <<caps, tries, kinds, returns, process, saved, faults>>

\* Mutant: every failure restarts and replays.
RestartAlways ==
    /\ pc = "failed"
    /\ alive' = alive \ {spawned}
    /\ why' = "restart" /\ pc' = "spawn"
    /\ UNCHANGED <<caps, tries, kinds, returns, spawned, phase, llm, stdin, stdout,
                   saved, faults>>

\* request: after the first failure kill and reap the process, then spawn.
Restart ==
    /\ pc = "failed" /\ tries = 1
    /\ alive' = alive \ {spawned}
    /\ why' = "restart" /\ pc' = "spawn"
    /\ UNCHANGED <<caps, tries, kinds, returns, spawned, phase, llm, stdin, stdout,
                   saved, faults>>

\* After the second one give up; the next request starts over.
GiveUp ==
    /\ pc = "failed" /\ tries = 2
    /\ returns' = Append(returns, {})
    /\ pc' = "idle"
    /\ UNCHANGED <<why, caps, tries, kinds, process, saved, faults>>

\* Drop: ask the process to exit.
DropAsk ==
    /\ pc = "idle"
    /\ stdin' = IF ChildAlive THEN Append(stdin, Quit) ELSE stdin
    /\ pc' = "reap"
    /\ UNCHANGED <<why, caps, tries, kinds, returns, spawned, alive, phase, llm, stdout,
                   saved, faults>>

\* Within 300 ms it did, or it is killed.
DropDone ==
    /\ pc = "reap"
    /\ alive' = alive \ {spawned}
    /\ pc' = "gone"
    /\ UNCHANGED <<why, caps, tries, kinds, returns, spawned, phase, llm, stdin, stdout,
                   saved, faults>>

-----------------------------------------------------------------------------
(* The process.                                                            *)

\* Load the models, print READY with the capabilities; libraries may print
\* before that.
Load ==
    /\ ChildAlive /\ phase = "loading"
    /\ \E c \in BOOLEAN, before \in {<<>>, <<Noise>>, <<Garbled>>} :
         /\ before = <<Garbled>> => faults < MaxFaults
         /\ llm' = c
         /\ stdout' = stdout \o before \o <<Ready(c)>>
         /\ faults' = IF before = <<Garbled>> THEN faults + 1 ELSE faults
    /\ phase' = "serving"
    /\ UNCHANGED <<client, spawned, alive, stdin, saved>>

Serve ==
    /\ ChildAlive /\ phase = "serving"
    /\ stdin # <<>>
    /\ IF Head(stdin) = Quit
       THEN alive' = alive \ {spawned} /\ UNCHANGED phase
       ELSE phase' = "working" /\ UNCHANGED alive
    /\ UNCHANGED <<client, spawned, llm, stdin, stdout, saved, faults>>

\* Mutant: acknowledge without writing the file.
WorkUnsaved ==
    /\ ChildAlive /\ phase = "working"
    /\ phase' = "replying"
    /\ UNCHANGED <<client, spawned, alive, llm, stdin, stdout, saved, faults>>

\* Do the work: for a learn, append to the dictionary file before answering.
\* (An append the file system refuses is acknowledged as "session only": it is
\* no acknowledgement here.)
Work ==
    /\ ChildAlive /\ phase = "working"
    /\ saved' = IF kinds[Head(stdin)] = "learn"
                THEN [saved EXCEPT ![Head(stdin)] = @ + 1]
                ELSE saved
    /\ phase' = "replying"
    /\ UNCHANGED <<client, spawned, alive, llm, stdin, stdout, faults>>

Answer ==
    /\ ChildAlive /\ phase = "replying"
    /\ \/ stdout' = Append(stdout, Reply(Head(stdin))) /\ UNCHANGED faults
       \/ stdout' = Append(stdout, Garbled) /\ Fault
    /\ stdin' = Tail(stdin)
    /\ phase' = "serving"
    /\ UNCHANGED <<client, spawned, alive, llm, saved>>

\* Die at any point, possibly in the middle of the reply.  A READY that is cut
\* off, which the handshake accepts, is to the client a Load and then this.
Crash ==
    /\ ChildAlive
    /\ Fault
    /\ alive' = alive \ {spawned}
    /\ \/ UNCHANGED stdout
       \/ phase = "replying" /\ stdout' = Append(stdout, Partial)
    /\ UNCHANGED <<client, spawned, phase, llm, stdin, saved>>

\* Hang: nothing is read or written any more.
Wedge ==
    /\ ChildAlive /\ phase # "wedged"
    /\ Fault
    /\ phase' = "wedged"
    /\ UNCHANGED <<client, spawned, alive, llm, stdin, stdout, saved>>

-----------------------------------------------------------------------------
ClientStep ==
    \/ Spawn \/ SpawnError \/ HandshakeSkip \/ HandshakeReady
    \/ HandshakeGarbled \/ HandshakeEof
    \/ ReadReply \/ ReadNothing \/ Restart \/ GiveUp \/ DropDone

ProcessStep == Load \/ Serve \/ Work \/ Answer

Next == ClientStep \/ Request \/ DropAsk \/ ProcessStep \/ Crash \/ Wedge

Spec == Init /\ [][Next]_vars

(***************************************************************************)
(* The client's thread runs, and so does a process that has not died or    *)
(* hung.  Nothing forces a request, a shutdown or a fault.                 *)
(***************************************************************************)
FairSpec == Spec /\ WF_vars(ClientStep) /\ WF_vars(ProcessStep)

-----------------------------------------------------------------------------
(* Properties.                                                             *)

(***************************************************************************)
(* A restart leaves no second process behind, also when the first one was  *)
(* still alive, and after Drop there is none, hung or loading included     *)
(* (lib.rs: "relying on stdin-EOF alone leaves orphans").                  *)
(***************************************************************************)
NoStrayProcess ==
    /\ alive \subseteq {spawned}
    /\ pc \in {"gone", "fatal"} => alive = {}

(***************************************************************************)
(* While a process serves the client between requests, has_llm says what   *)
(* that very process advertised, across restarts.                          *)
(***************************************************************************)
CapsOfRunningProcess ==
    pc \in {"idle", "await"} /\ ChildAlive => caps = llm

(***************************************************************************)
(* A learned fix that was acknowledged is in the dictionary file, and the  *)
(* replay after a crash appends it at most a second time.                  *)
(***************************************************************************)
AckedLearnSaved ==
    \A r \in 1..Len(returns) :
        kinds[r] = "learn" /\ returns[r] # {} => saved[r] \in 1..2

(***************************************************************************)
(* A request returns, after at most one restart, unless the process hangs  *)
(* (there is no read timeout) or the restart waits for a process to exit   *)
(* that in turn waits for requests, having printed a line that is not      *)
(* UTF-8 before READY.                                                     *)
(***************************************************************************)
RequestReturns ==
    (Len(returns) < Len(kinds))
        ~> (Len(returns) = Len(kinds) \/ phase = "wedged" \/ pc = "waitExit")

(***************************************************************************)
(* The client implements SidecarService: every return is the whole reply   *)
(* to its own request, or nothing, and has_llm moves only inside a call.   *)
(***************************************************************************)
Service == INSTANCE SidecarService WITH
    up <- ~(why # "restart" /\ pc \in {"spawn", "handshake", "waitExit", "fatal"}),
    calls <- Len(kinds),
    returns <- returns,
    hasLlm <- caps

ImplementsService == Service!Spec
=============================================================================
