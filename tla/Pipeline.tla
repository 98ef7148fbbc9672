------------------------------ MODULE Pipeline ------------------------------
(***************************************************************************)
(* The dictation pipeline of crates/nib-pipeline: one thread that consumes *)
(* utterances and commands from one channel, probes the focused control,   *)
(* calls the sidecar, decides on a separating space and drives the route   *)
(* chain of nib-inject, while the user keeps typing, clicking and moving   *)
(* focus and the tray, console and hook keep sending messages.             *)
(*                                                                         *)
(* The sidecar is used through SidecarService: a call returns this         *)
(* request's reply or nothing and may change has_llm.  Text is abstracted  *)
(* to the number of its utterance and whether a space was put before it;   *)
(* a reply is trimmed by the client, so it neither starts nor ends in      *)
(* whitespace.                                                             *)
(***************************************************************************)
EXTENDS Naturals, Sequences, SequencesExt

CONSTANTS
    Controls,    \* controls that can have the focus
    App,         \* the executable each control belongs to
    Literal,     \* executables on LITERAL_EXES
    Password,    \* controls that are password fields
    Elevated,    \* controls of windows that run as administrator
    NoApp,       \* no executable: prev_target = None
    Sendable,    \* messages that are sent; a mode stands for SetMode
    MaxMessages, \* bound: messages sent in a run
    MaxActs      \* bound: user actions on keyboard, mouse and focus in a run

Modes == {"raw", "auto", "polish", "email"}

Messages == {"utterance", "cycle", "style", "learn", "quit"} \cup Modes

ASSUME ControlsAssumption ==
    /\ Sendable \subseteq Messages
    /\ Password \subseteq Controls
    /\ Elevated \subseteq Controls
    /\ DOMAIN App = Controls
    /\ \A c \in Controls : App[c] # NoApp
ASSUME PipelineBounds == MaxMessages \in Nat /\ MaxActs \in Nat

VARIABLES
    \* The channel and the thread.
    queue,       \* messages not received yet
    sent,        \* messages sent so far
    pc,          \* where the thread is
    mode,        \* Pipeline.mode
    shown,       \* shared_mode, read by tray and overlay
    llm,         \* sidecar.has_llm()
    \* One utterance.
    cur,         \* its number
    target,      \* the probed TargetProfile
    token,       \* the mode token sent to the sidecar
    reply,       \* what the sidecar call returned
    spaced,      \* apply_spacing put a space first
    typed,       \* the witness reading taken for it
    routes,      \* routes not tried yet
    wav,         \* the temporary file
    kept,        \* history: the last recording could not be removed
    told,        \* history: the password field UI Automation answered about, if it was one
    \* The memory between utterances.
    prevWord,    \* prev_ended_ws = Some(false); otherwise None
    prevTarget,  \* prev_target, the executable part of its key
    prevInput,   \* prev_input
    \* The desktop.
    focus,       \* the focused control
    witness,     \* user key-downs counted by the hook
    acts,        \* user actions so far
    behind,      \* controls whose caret is right behind our own last text
    unseen,      \* history: since the last insertion something neither key nor witness tells
    log          \* history: what became of each utterance that had a transcript

thread == <<pc, mode, shown, llm>>
locals == <<target, token, reply, spaced, typed, routes>>
utterance == <<cur, wav, kept, told, locals>>
memory == <<prevWord, prevTarget, prevInput>>
desktop == <<focus, witness, acts, behind, unseen>>
vars == <<queue, sent, thread, utterance, memory, desktop, log>>

Apps == {App[c] : c \in Controls} \cup {"unknown"}
Targets == [app : Apps \cup {NoApp}, remote : BOOLEAN, password : BOOLEAN, elevated : BOOLEAN]
Places == {"recv", "learn", "probeApp", "probeControl", "asr", "space", "inject", "stopped",
           "killed"}
Replies == {"text", "empty", "error", "none"}
Entries == [utt : Nat, token : Modes, reply : Replies, at : Controls,
            outcome : {"inserted", "refused", "kept"}, landed : BOOLEAN,
            sameApp : BOOLEAN, told : BOOLEAN, spaced : BOOLEAN, behind : BOOLEAN, touched : BOOLEAN, unseen : BOOLEAN]

TypeOK ==
    /\ queue \in Seq(Messages)
    /\ sent \in 0..MaxMessages
    /\ pc \in Places
    /\ mode \in Modes /\ shown \in Modes
    /\ llm \in BOOLEAN
    /\ cur \in Nat
    /\ target \in Targets
    /\ token \in Modes
    /\ reply \in Replies
    /\ spaced \in BOOLEAN
    /\ typed \in Nat /\ prevInput \in Nat /\ witness \in Nat
    /\ routes \in Seq({"paste", "pasteAlt", "unicode", "refuse"})
    /\ wav \in {"none", "partial", "whole"} /\ kept \in BOOLEAN
    /\ told \subseteq Password
    /\ prevWord \in BOOLEAN
    /\ prevTarget \in Apps \cup {NoApp}
    /\ focus \in Controls
    /\ acts \in 0..MaxActs
    /\ behind \subseteq Controls
    /\ unseen \in BOOLEAN
    /\ log \in Seq(Entries)

NoTarget == [app |-> NoApp, remote |-> FALSE, password |-> FALSE, elevated |-> FALSE]

\* The process is there.
Alive == pc \notin {"stopped", "killed"}

\* Mode::clamp_available.
Clamp(m, hasLlm) == IF m = "email" /\ ~hasLlm THEN "polish" ELSE m

\* Mutant: the next index, past the last mode.
NextAvailableNoWrap(m, hasLlm) ==
    CASE m = "raw" -> "auto"
      [] m = "auto" -> "polish"
      [] m = "polish" -> "email"
      [] m = "email" -> "mode 4"

\* Mode::next_available.
NextAvailable(m, hasLlm) ==
    CASE m = "raw" -> "auto"
      [] m = "auto" -> "polish"
      [] m = "polish" -> IF hasLlm THEN "email" ELSE "raw"
      [] m = "email" -> "raw"

Init ==
    /\ queue = <<>> /\ sent = 0
    /\ pc = "recv"
    /\ llm \in BOOLEAN
    /\ \E m \in Modes : mode = Clamp(m, llm)
    /\ shown = mode
    /\ target = NoTarget /\ token = "raw" /\ reply = "none" /\ spaced = FALSE
    /\ typed = 0 /\ routes = <<>> /\ cur = 0 /\ wav = "none"
    /\ kept = FALSE /\ told = {}
    /\ prevWord = FALSE /\ prevTarget = NoApp /\ prevInput = 0
    /\ focus \in Controls
    /\ witness = 0 /\ acts = 0 /\ behind = {} /\ unseen = FALSE
    /\ log = <<>>

-----------------------------------------------------------------------------
(* The senders and the user.                                               *)

\* Three threads append to one channel.  What is sent behind a Quit would never be
\* received and is left out.
SendOne(messages) ==
    /\ sent < MaxMessages
    /\ Alive /\ ~Contains(queue, "quit")
    /\ \E m \in messages \cap Sendable : queue' = Append(queue, m)
    /\ sent' = sent + 1
    /\ UNCHANGED <<thread, utterance, memory, desktop, log>>

\* The forwarder: the end of a hold, and two of the three chords.
HookSend == SendOne({"utterance", "cycle", "quit"})

\* A left click on the icon cycles; the menu names a mode, a style or Quit.
MenuCommands == Modes \cup {"style", "quit"}
TraySend == SendOne({"cycle"} \cup MenuCommands)

\* Lines typed into the console; any other line is passed over.
ConsoleSend == SendOne({"quit", "cycle", "learn"})

Send == HookSend \/ TraySend \/ ConsoleSend

\* The user does something between the witness reading and the keystrokes.
Racing == pc = "inject"

\* A key in the focused control: text or caret movement, counted by the hook.
TypeKey ==
    /\ Alive
    /\ acts < MaxActs /\ acts' = acts + 1
    /\ witness' = witness + 1
    /\ behind' = behind \ {focus}
    /\ unseen' = (unseen \/ Racing)
    /\ UNCHANGED <<queue, sent, thread, utterance, memory, focus, log>>

\* Focus moved with the keyboard.
FocusByKey ==
    /\ Alive
    /\ acts < MaxActs /\ acts' = acts + 1
    /\ witness' = witness + 1
    /\ \E c \in Controls \ {focus} : focus' = c
    /\ unseen' = (unseen \/ Racing)
    /\ UNCHANGED <<queue, sent, thread, utterance, memory, behind, log>>

\* A click moves the caret, the focus or both, and no key is pressed.  A key the
\* hook is not called for does no more.
Click ==
    /\ Alive
    /\ acts < MaxActs /\ acts' = acts + 1
    /\ \E c \in Controls : focus' = c /\ behind' = behind \ {c}
    /\ unseen' = TRUE
    /\ UNCHANGED <<queue, sent, thread, utterance, memory, witness, log>>

-----------------------------------------------------------------------------
(* Commands.                                                               *)

Receive(m) ==
    /\ pc = "recv"
    /\ queue # <<>> /\ Head(queue) = m
    /\ queue' = Tail(queue)

\* set_mode publishes what it sets.
SetMode(m) == mode' = m /\ shown' = m

RecvCycle ==
    /\ Receive("cycle")
    /\ SetMode(NextAvailable(mode, llm))
    /\ UNCHANGED <<sent, pc, llm, utterance, memory, desktop, log>>

\* Mutant: a requested mode is taken as it comes.
RecvSetUnclamped ==
    /\ \E m \in Modes : Receive(m) /\ SetMode(m)
    /\ UNCHANGED <<sent, pc, llm, utterance, memory, desktop, log>>

RecvSet ==
    /\ \E m \in Modes : Receive(m) /\ SetMode(Clamp(m, llm))
    /\ UNCHANGED <<sent, pc, llm, utterance, memory, desktop, log>>

RecvStyle ==
    /\ Receive("style")
    /\ UNCHANGED <<sent, thread, utterance, memory, desktop, log>>

\* on_learn calls the sidecar ...
RecvLearn ==
    /\ Receive("learn")
    /\ pc' = "learn"
    /\ UNCHANGED <<sent, mode, shown, llm, utterance, memory, desktop, log>>

\* ... and the call, which may restart the sidecar, returns.
Learned ==
    /\ pc = "learn"
    /\ pc' = "recv"
    /\ llm' \in BOOLEAN
    /\ UNCHANGED <<queue, sent, mode, shown, utterance, memory, desktop, log>>

\* Mutant: Quit is handled like a command.
RecvQuitIgnored ==
    /\ Receive("quit")
    /\ UNCHANGED <<sent, thread, utterance, memory, desktop, log>>

RecvQuit ==
    /\ Receive("quit")
    /\ pc' = "stopped"
    /\ UNCHANGED <<sent, mode, shown, llm, utterance, memory, desktop, log>>

-----------------------------------------------------------------------------
(* on_utterance.                                                           *)

\* It returns, and its locals are gone.
Return ==
    /\ pc' = "recv"
    /\ target' = NoTarget /\ token' = "raw" /\ reply' = "none" /\ spaced' = FALSE
    /\ typed' = 0 /\ routes' = <<>> /\ told' = {}

\* Too short, silent, or the file cannot be written: nothing more happens.  The
\* file has the same name every time.
RecvUtterance ==
    /\ Receive("utterance")
    /\ cur' = cur + 1
    /\ \/ pc' = "recv" /\ wav' \in {wav, "partial"} /\ kept' = (kept /\ wav' = wav)
       \/ pc' = "probeApp" /\ wav' = "whole" /\ kept' = FALSE
    /\ UNCHANGED <<sent, mode, shown, llm, told, locals, memory, desktop, log>>

\* foreground_exe: the name of a process that cannot be queried is empty.
ForegroundExe == {App[focus]} \cup (IF focus \in Elevated THEN {"unknown"} ELSE {})

\* UI Automation is asked on a thread of its own, which is given up after 150 ms;
\* no answer counts as no.
UiaIsPassword(answers) == answers /\ focus \in Password

\* A process of a higher integrity level may or may not be queried; one that
\* cannot be ranks above our own.
IntegrityKnown == IF focus \in Elevated THEN BOOLEAN ELSE {TRUE}
IsElevated(known) == known => focus \in Elevated

\* snapshot reads the executable and the kind of session first ...
ProbeApp ==
    /\ pc = "probeApp"
    /\ \E exe \in ForegroundExe, remote \in BOOLEAN :
         target' = [NoTarget EXCEPT !.app = exe, !.remote = remote]
    /\ pc' = "probeControl"
    /\ UNCHANGED <<queue, sent, mode, shown, llm, cur, token, reply, spaced, typed, routes, wav,
                   kept, told, memory, desktop, log>>

\* classify: terminals and editors, by their executable.
IsTerminal(t) == t.app \in Literal

\* effective_mode: verbatim there, whatever is selected.
Effective(t) == IF IsTerminal(t) THEN "raw" ELSE mode

\* ... then asks UI Automation and reads the integrity level.
ProbeControl ==
    /\ pc = "probeControl"
    /\ \E answers \in BOOLEAN, known \in IntegrityKnown :
         /\ target' = [target EXCEPT !.password = UiaIsPassword(answers),
                                     !.elevated = IsElevated(known)]
         /\ told' = {c \in Password : answers /\ c = focus}
    /\ token' = Effective(target)
    /\ pc' = "asr"
    /\ UNCHANGED <<queue, sent, mode, shown, llm, cur, reply, spaced, typed, routes, wav, kept,
                   memory, desktop, log>>

\* Mutant: only an empty reply is dropped.
UsableNonEmpty(answer) == answer \notin {"empty", "none"}

\* usable_transcript: neither nothing, nor silence, nor an __error__ line.
Usable(answer) == answer = "text"

\* Go on with a transcript; otherwise say why not and return.
Continue(answer) ==
    \/ /\ Usable(answer)
       /\ reply' = answer
       /\ pc' = "space"
       /\ UNCHANGED <<target, token, spaced, typed, routes, told>>
    \/ ~Usable(answer) /\ Return

\* Mutant: a failed call returns before the file is removed.
TranscribeLeak ==
    /\ pc = "asr"
    /\ llm' \in BOOLEAN
    /\ SetMode(Clamp(mode, llm'))
    /\ reply' \in Replies
    /\ \E answer \in Replies :
         /\ wav' = IF answer = "none" THEN wav ELSE "none"
         /\ Continue(answer)
    /\ UNCHANGED <<queue, sent, cur, kept, memory, desktop, log>>

\* remove_file, whose result is not looked at.
RemoveWav == \E removed \in BOOLEAN : wav' = (IF removed THEN "none" ELSE wav) /\ kept' = ~removed

\* The sidecar call returns; re-clamp the mode and remove the file first.
Transcribe ==
    /\ pc = "asr"
    /\ llm' \in BOOLEAN
    /\ SetMode(Clamp(mode, llm'))
    /\ RemoveWav
    /\ \E answer \in Replies : Continue(answer)
    /\ UNCHANGED <<queue, sent, cur, memory, desktop, log>>

\* Mutant: a remote session is looked at before the password flag.
RoutesRemoteFirst(t) ==
    CASE t.remote -> <<"unicode", "paste">>
      [] t.password -> <<"refuse">>
      [] IsTerminal(t) -> <<"paste", "pasteAlt", "unicode">>
      [] OTHER -> <<"paste", "unicode">>

\* default_routes.
Routes(t) ==
    CASE t.password -> <<"refuse">>
      [] ~t.password /\ t.remote -> <<"unicode", "paste">>
      [] ~t.password /\ ~t.remote /\ IsTerminal(t) -> <<"paste", "pasteAlt", "unicode">>
      [] OTHER -> <<"paste", "unicode">>

\* Mutant: the user's keystrokes are not looked at.
CarryBlind(reading) == prevTarget = target.app /\ prevWord

\* Mutant: the memory is dropped after every utterance.
CarryNothing(reading) == FALSE

\* carry_spacing: same target and no user key-down since the last insertion.
Carry(reading) == prevTarget = target.app /\ prevInput = reading /\ prevWord

\* Read the witness, decide on the space, set out on the routes.
Space ==
    /\ pc = "space"
    /\ typed' = witness
    /\ prevWord' = Carry(witness)
    /\ spaced' = prevWord'
    /\ routes' = Routes(target)
    /\ pc' = "inject"
    /\ UNCHANGED <<queue, sent, mode, shown, llm, cur, target, token, reply, wav, kept,
                   told, prevTarget, prevInput, desktop, log>>

\* What the log keeps of this utterance.
Entry(outcome, landed) ==
    [utt |-> cur, token |-> token, reply |-> reply, at |-> focus,
     outcome |-> outcome, landed |-> landed, sameApp |-> target.app = App[focus],
     told |-> focus \in told, spaced |-> spaced,
     behind |-> focus \in behind, touched |-> witness # prevInput, unseen |-> unseen]

\* Keystrokes go to whatever has the focus now; an elevated window gets none
\* and the injector does not notice.
Deliver ==
    /\ log' = Append(log, Entry("inserted", focus \notin Elevated))
    /\ behind' = IF focus \in Elevated THEN behind ELSE behind \cup {focus}

\* Mutant: the chain goes on after a route has inserted.
InjectAgain ==
    /\ pc = "inject" /\ routes # <<>>
    /\ Head(routes) # "refuse"
    /\ Deliver
    /\ routes' = Tail(routes)
    /\ pc' = IF Len(routes) = 1 THEN "recv" ELSE "inject"
    /\ UNCHANGED <<queue, sent, mode, shown, llm, cur, target, token, reply, spaced, typed, wav,
                   kept, told, memory, focus, witness, acts, unseen>>

\* A route inserts: remember the probed target, which need not be where the
\* text went, and the user keys counted before.
Inject ==
    /\ pc = "inject" /\ routes # <<>>
    /\ Head(routes) # "refuse"
    /\ Deliver
    /\ prevWord' = TRUE
    /\ prevTarget' = target.app
    /\ prevInput' = typed
    /\ unseen' = (App[focus] # target.app)
    /\ Return
    /\ UNCHANGED <<queue, sent, mode, shown, llm, cur, wav, kept, focus, witness, acts>>

\* The clipboard cannot be set: Blocked, next route.
Blocked ==
    /\ pc = "inject" /\ routes # <<>>
    /\ Head(routes) \in {"paste", "pasteAlt"}
    /\ routes' = Tail(routes)
    /\ UNCHANGED <<queue, sent, thread, cur, target, token, reply, spaced, typed, wav, kept,
                   told, memory, desktop, log>>

\* Refuse ends the chain, and so would running out of routes.
NotInserted ==
    /\ pc = "inject"
    /\ routes = <<>> \/ Head(routes) = "refuse"
    /\ log' = Append(log, Entry(IF routes = <<>> THEN "kept" ELSE "refused", FALSE))
    /\ Return
    /\ UNCHANGED <<queue, sent, mode, shown, llm, cur, wav, kept, memory, desktop>>

-----------------------------------------------------------------------------
\* The console is closed and the teardown takes longer than its handler waits, or
\* the process is ended from outside: nothing is left but its file.
ForcedExit ==
    /\ Alive
    /\ pc' = "killed"
    /\ queue' = <<>>
    /\ target' = NoTarget /\ token' = "raw" /\ reply' = "none" /\ spaced' = FALSE
    /\ typed' = 0 /\ routes' = <<>> /\ told' = {}
    /\ prevWord' = FALSE /\ prevTarget' = NoApp /\ prevInput' = 0
    /\ UNCHANGED <<sent, mode, shown, llm, cur, wav, kept, desktop, log>>

-----------------------------------------------------------------------------
User == TypeKey \/ FocusByKey \/ Click

Work ==
    \/ RecvCycle \/ RecvSet \/ RecvStyle \/ RecvLearn \/ RecvQuit \/ RecvUtterance
    \/ ProbeApp \/ ProbeControl \/ Space
    \/ Inject \/ Blocked \/ NotInserted

\* A sidecar call returns.
CallReturns == Transcribe \/ Learned

Next == Send \/ User \/ Work \/ CallReturns \/ ForcedExit

Spec == Init /\ [][Next]_vars

(***************************************************************************)
(* The pipeline thread runs.  A sidecar call reads a line without a time   *)
(* limit, so nothing makes it return; senders and user owe nothing.        *)
(***************************************************************************)
FairSpec == Spec /\ WF_vars(Work)

-----------------------------------------------------------------------------
(* What the pipeline promises.                                             *)

Logged == {log[i] : i \in DOMAIN log}

(***************************************************************************)
(* What is typed anywhere is the transcript of a call that succeeded,      *)
(* never silence or an __error__ line.  It lands in a password field only  *)
(* if UI Automation was asked about another control or gave no answer in   *)
(* time, and it lands in a terminal or an editor without having been asked *)
(* for verbatim only if that is not the executable the probe read -        *)
(* whatever mode was selected, whatever the session and wherever the focus *)
(* went since.                                                             *)
(***************************************************************************)
OnlyWhatMayBeTyped ==
    \A e \in Logged : e.outcome = "inserted" =>
        /\ e.reply = "text"
        /\ e.at \in Password => ~e.told
        /\ e.landed /\ App[e.at] \in Literal => e.token = "raw" \/ ~e.sameApp

(***************************************************************************)
(* An utterance is typed at most once, by one route, and in the order the  *)
(* keys were released, however many wait in the channel.                   *)
(***************************************************************************)
OrderKept == \A i, j \in DOMAIN log : i < j => log[i].utt < log[j].utt

(***************************************************************************)
(* carry_spacing's "a stray leading space": text goes in with a separating *)
(* space only right behind our own last text, unless the caret moved in a  *)
(* way the target key and the witness reading do not tell.                 *)
(***************************************************************************)
NoStraySpace ==
    \A e \in Logged : e.landed /\ e.spaced /\ ~e.unseen => e.behind

(***************************************************************************)
(* The other direction: text that lands right behind our own last text is  *)
(* separated from it, unless the user did something since.                 *)
(***************************************************************************)
NoGluedWords ==
    \A e \in Logged : e.landed /\ e.behind /\ ~e.unseen /\ ~e.touched => e.spaced

(***************************************************************************)
(* A whole recording is in the temporary directory only while its own      *)
(* utterance is probed and transcribed - however that ends, it is removed  *)
(* before the next message is taken - unless the system refused to remove  *)
(* it, or the process was ended in the middle.                             *)
(***************************************************************************)
WavGone == wav = "whole" => pc \in {"probeApp", "probeControl", "asr", "killed"} \/ kept

(***************************************************************************)
(* Whenever a mode is published, and whenever a transcription returns from *)
(* a sidecar that may have been restarted, tray and overlay show a mode    *)
(* the sidecar can serve.                                                  *)
(***************************************************************************)
PublishedModeServable ==
    [][shown' # shown \/ (pc = "asr" /\ pc' \in {"space", "recv"}) => (shown' = "email" => llm')]_vars

(***************************************************************************)
(* A Quit that was sent ends the thread, whatever is queued before it and  *)
(* wherever the utterance in work stands, if every sidecar call returns.   *)
(***************************************************************************)
Calling == pc \in {"asr", "learn"}
QuitStops == []<>~Calling => (("quit" \in ToSet(queue)) ~> ~Alive)

-----------------------------------------------------------------------------
(* What comments and documents say and the code does not do.               *)

(***************************************************************************)
(* The comment on re-clamping: "so the tray/overlay never keep showing a   *)
(* mode that's now a no-op".  A restart can also happen in on_learn.       *)
(***************************************************************************)
NeverShowNoOpMode == pc = "recv" => (shown = "email" => llm)

(***************************************************************************)
(* README: "Elevated window? You get "text kept, not inserted" - never a   *)
(* silently swallowed sentence": what is reported as inserted went in.     *)
(***************************************************************************)
NeverSwallowed == \A e \in Logged : e.outcome = "inserted" => e.landed

(***************************************************************************)
(* README: "if the focused control is a credential field, nothing is       *)
(* typed" and "Focused on a terminal or code editor? Dictation drops to    *)
(* verbatim automatically": said of the control that has the focus when    *)
(* the text goes in.                                                       *)
(***************************************************************************)
LandsAsPromised ==
    \A e \in Logged : e.landed =>
        /\ e.at \notin Password
        /\ App[e.at] \in Literal => e.token = "raw"
=============================================================================
