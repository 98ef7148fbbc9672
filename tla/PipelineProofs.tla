--------------------------- MODULE PipelineProofs ---------------------------
(***************************************************************************)
(* Proofs about the dictation pipeline for every desktop, every sequence   *)
(* of messages and everything the user does meanwhile.                     *)
(***************************************************************************)
EXTENDS Pipeline, TLAPS

----------------------------------------------------------------------------
(* Types.                                                                  *)

Outcomes == {"inserted", "refused", "kept"}

LEMMA EntryTyped ==
    ASSUME TypeOK, NEW outcome \in Outcomes, NEW landed \in BOOLEAN
    PROVE  Entry(outcome, landed) \in Entries
BY DEF TypeOK, Entry, Entries, Outcomes

\* What a step adds to the log.
LEMMA LogStep ==
    ASSUME TypeOK, Next
    PROVE  \/ UNCHANGED log
           \/ /\ pc = "inject" /\ pc' = "recv"
              /\ \E outcome \in Outcomes, landed \in BOOLEAN :
                    /\ log' = Append(log, Entry(outcome, landed))
                    /\ outcome = "inserted" => routes # <<>> /\ Head(routes) # "refuse"
                    /\ landed => focus \notin Elevated
<1>1. CASE Send
  BY <1>1 DEF Send, HookSend, TraySend, ConsoleSend, SendOne
<1>2. CASE User
  BY <1>2 DEF User, TypeKey, FocusByKey, Click
<1>3. CASE RecvCycle \/ RecvSet \/ RecvStyle \/ RecvLearn \/ Learned \/ RecvQuit \/ RecvUtterance
  BY <1>3 DEF RecvCycle, RecvSet, RecvStyle, RecvLearn, Learned, RecvQuit, RecvUtterance
<1>4. CASE ProbeApp \/ ProbeControl \/ Transcribe \/ Space \/ Blocked
  BY <1>4 DEF ProbeApp, ProbeControl, Transcribe, Space, Blocked
<1>7. CASE ForcedExit
  BY <1>7 DEF ForcedExit
<1>5. CASE Inject
  <2>1. log' = Append(log, Entry("inserted", focus \notin Elevated))
    BY <1>5 DEF Inject, Deliver
  <2>2. pc = "inject" /\ pc' = "recv" /\ routes # <<>> /\ Head(routes) # "refuse"
    BY <1>5 DEF Inject, Return
  <2> QED
    BY <2>1, <2>2 DEF Outcomes
<1>6. CASE NotInserted
  <2>1. \E o \in {"kept", "refused"} : log' = Append(log, Entry(o, FALSE))
    BY <1>6 DEF NotInserted
  <2>2. pc = "inject" /\ pc' = "recv"
    BY <1>6 DEF NotInserted, Return
  <2> QED
    BY <2>1, <2>2 DEF Outcomes
<1> QED
  BY <1>1, <1>2, <1>3, <1>4, <1>5, <1>6, <1>7 DEF Next, Work, CallReturns

LEMMA PlacesNamed ==
    /\ "recv" \in Places /\ "learn" \in Places /\ "probeApp" \in Places
    /\ "probeControl" \in Places /\ "asr" \in Places /\ "space" \in Places
    /\ "inject" \in Places /\ "stopped" \in Places /\ "killed" \in Places
BY DEF Places

\* The part of the state a step moves, type by type.
TypedChannel == queue \in Seq(Messages) /\ sent \in 0..MaxMessages
TypedMode == mode \in Modes /\ shown \in Modes /\ llm \in BOOLEAN
TypedUtterance ==
    /\ pc \in Places
    /\ cur \in Nat /\ target \in Targets /\ token \in Modes /\ reply \in Replies
    /\ spaced \in BOOLEAN /\ typed \in Nat
    /\ routes \in Seq({"paste", "pasteAlt", "unicode", "refuse"})
    /\ wav \in {"none", "partial", "whole"} /\ kept \in BOOLEAN
    /\ told \subseteq Password
    /\ prevWord \in BOOLEAN /\ prevTarget \in Apps \cup {NoApp} /\ prevInput \in Nat
TypedDesktop ==
    /\ focus \in Controls /\ witness \in Nat /\ acts \in 0..MaxActs
    /\ behind \subseteq Controls /\ unseen \in BOOLEAN

LEMMA TypeParts ==
    TypeOK <=> TypedChannel /\ TypedMode /\ TypedUtterance /\ TypedDesktop /\ log \in Seq(Entries)
BY DEF TypeOK, TypedChannel, TypedMode, TypedUtterance, TypedDesktop

(* Every variable keeps its type, the queue, the log and the memory of the *)
(* last insertion (Injected of the loop) included.                         *)
THEOREM TypeInvariant == Spec => []TypeOK
<1>1. Init => TypeOK
  <2>1. ASSUME Init PROVE mode \in Modes /\ shown \in Modes
    BY <2>1 DEF Init, Modes, Clamp
  <2>2. NoTarget \in Targets
    BY DEF NoTarget, Targets
  <2>3. Init => TypedChannel /\ TypedMode /\ log \in Seq(Entries)
    <3>1. Init => queue = <<>> /\ sent = 0 /\ llm \in BOOLEAN /\ log = <<>>
      BY DEF Init
    <3> QED
      BY <2>1, <3>1, PipelineBounds DEF TypedChannel, TypedMode
  <2>4. Init => TypedUtterance
    <3>1. Init => /\ pc = "recv" /\ cur = 0 /\ target = NoTarget /\ token = "raw" /\ reply = "none"
                  /\ spaced \in BOOLEAN /\ typed = 0 /\ routes = <<>> /\ wav = "none"
                  /\ kept = FALSE /\ told = {} /\ prevWord \in BOOLEAN /\ prevTarget = NoApp /\ prevInput = 0
      BY DEF Init
    <3> QED
      <4>1. "raw" \in Modes /\ "none" \in Replies
        BY DEF Modes, Replies
      <4>2. <<>> \in Seq({"paste", "pasteAlt", "unicode", "refuse"}) /\ 0 \in Nat /\ FALSE \in BOOLEAN
        OBVIOUS
      <4> QED
        BY <2>2, <3>1, <4>1, <4>2, PlacesNamed DEF TypedUtterance
  <2>5. Init => TypedDesktop
    <3>1. Init => /\ focus \in Controls
                  /\ witness = 0 /\ acts = 0 /\ behind = {} /\ unseen \in BOOLEAN
      BY DEF Init
    <3> QED
      BY <3>1, PipelineBounds DEF TypedDesktop
  <2> QED
    BY <2>3, <2>4, <2>5, TypeParts
<1>2. ASSUME TypeOK, Next PROVE TypeOK'
  <2>1. log' \in Seq(Entries)
    <3>1. log \in Seq(Entries)
      BY <1>2 DEF TypeOK
    <3>2. ASSUME NEW e \in Entries, log' = Append(log, e) PROVE log' \in Seq(Entries)
      BY <3>1, <3>2
    <3>3. \A o \in Outcomes, landed \in BOOLEAN : Entry(o, landed) \in Entries
      BY <1>2, EntryTyped
    <3> QED
      BY <1>2, <3>1, <3>2, <3>3, LogStep
  <2>0. NoTarget \in Targets /\ "raw" \in Modes /\ "none" \in Replies
        /\ <<>> \in Seq({"paste", "pasteAlt", "unicode", "refuse"})
    BY DEF NoTarget, Targets, Modes, Replies
  <2> USE TypeParts
  <2>2. TypedChannel'
    <3> USE DEF TypedChannel
    <3>1. CASE Send
      <4>1. sent < MaxMessages /\ sent' = sent + 1
        BY <3>1 DEF Send, HookSend, TraySend, ConsoleSend, SendOne
      <4>2. PICK m \in Messages : queue' = Append(queue, m)
        BY <3>1, ControlsAssumption DEF Send, HookSend, TraySend, ConsoleSend, SendOne
      <4> QED
        BY <1>2, <4>1, <4>2, PipelineBounds
    <3>2. CASE User
      BY <1>2, <3>2 DEF User, TypeKey, FocusByKey, Click
    <3>3. CASE RecvCycle \/ RecvSet \/ RecvStyle \/ RecvLearn \/ RecvQuit \/ RecvUtterance
      <4>1. queue # <<>> /\ queue' = Tail(queue) /\ sent' = sent
        BY <3>3 DEF RecvCycle, RecvSet, RecvStyle, RecvLearn, RecvQuit, RecvUtterance, Receive
      <4> QED
        BY <1>2, <4>1
    <3>4. CASE ProbeApp \/ ProbeControl \/ Transcribe \/ Space \/ Inject \/ Blocked \/ NotInserted
      BY <1>2, <3>4 DEF ProbeApp, ProbeControl, Transcribe, Space, Inject, Blocked, NotInserted
    <3>5. CASE Learned \/ ForcedExit
      <4>1. (queue' = queue \/ queue' = <<>>) /\ sent' = sent
        BY <3>5 DEF Learned, ForcedExit
      <4>2. <<>> \in Seq(Messages)
        OBVIOUS
      <4> QED
        BY <1>2, <4>1, <4>2
    <3> QED
      BY <1>2, <3>1, <3>2, <3>3, <3>4, <3>5 DEF Next, Work, CallReturns
  <2>3. TypedMode'
    <3> USE DEF TypedMode
    <3>1. CASE Send \/ User
      BY <1>2, <3>1 DEF Send, HookSend, TraySend, ConsoleSend, SendOne, User, TypeKey, FocusByKey,
                        Click, thread
    <3>2. CASE RecvCycle
      BY <1>2, <3>2 DEF RecvCycle, SetMode, NextAvailable, Modes
    <3>3. CASE RecvSet \/ Transcribe
      BY <1>2, <3>3 DEF RecvSet, Transcribe, SetMode, Clamp, Modes
    <3>4. CASE RecvStyle \/ RecvLearn \/ Learned \/ RecvQuit \/ RecvUtterance
      BY <1>2, <3>4 DEF RecvStyle, RecvLearn, Learned, RecvQuit, RecvUtterance, thread
    <3>5. CASE ProbeApp \/ ProbeControl \/ Space \/ Inject \/ Blocked \/ NotInserted \/ ForcedExit
      BY <1>2, <3>5 DEF ProbeApp, ProbeControl, Space, Inject, Blocked, NotInserted, ForcedExit,
                        thread
    <3> QED
      BY <1>2, <3>1, <3>2, <3>3, <3>4, <3>5 DEF Next, Work, CallReturns
  <2>4. TypedUtterance'
    <3> USE PlacesNamed DEF TypedUtterance
    <3>1. CASE Send \/ User
      BY <1>2, <3>1 DEF Send, HookSend, TraySend, ConsoleSend, SendOne, User, TypeKey, FocusByKey,
                        Click, thread, utterance, locals, memory
    <3>2. CASE RecvCycle \/ RecvSet \/ RecvStyle \/ RecvLearn \/ Learned \/ RecvQuit
      <4>1. UNCHANGED <<utterance, memory>> /\ pc' \in {pc, "learn", "recv", "stopped"}
        BY <3>2 DEF RecvCycle, RecvSet, RecvStyle, RecvLearn, Learned, RecvQuit, thread
      <4> QED
        BY <1>2, <4>1 DEF utterance, locals, memory
    <3>3. CASE RecvUtterance
      <4>1. /\ pc' \in {"recv", "probeApp"} /\ cur' = cur + 1
            /\ wav' \in {wav, "partial", "whole"}
            /\ UNCHANGED <<told, locals, memory>>
        BY <3>3 DEF RecvUtterance
      <4>2. kept' \in BOOLEAN
        BY <3>3 DEF RecvUtterance
      <4> QED
        BY <1>2, <4>1, <4>2 DEF locals, memory
    <3>4. CASE ProbeApp
      <4>1. target' \in Targets
        BY <1>2, <3>4 DEF ProbeApp, ForegroundExe, NoTarget, Targets, Apps, TypedDesktop
      <4> QED
        BY <1>2, <3>4, <4>1 DEF ProbeApp, memory
    <3>5. CASE ProbeControl
      <4>1. PICK p \in BOOLEAN, e \in BOOLEAN :
              target' = [target EXCEPT !.password = p, !.elevated = e]
        <5>1. \A known : IsElevated(known) \in BOOLEAN
          BY DEF IsElevated
        <5>2. \A answers : UiaIsPassword(answers) \in BOOLEAN
          BY DEF UiaIsPassword
        <5> QED
          BY <3>5, <5>1, <5>2 DEF ProbeControl
      <4>2. target' \in Targets
        BY <1>2, <4>1 DEF Targets
      <4> QED
        BY <1>2, <3>5, <4>2 DEF ProbeControl, memory, Effective, TypedMode, Modes
    <3>6. ASSUME Return, UNCHANGED memory, cur' = cur, wav' \in {wav, "none"},
                 kept' \in BOOLEAN
          PROVE TypedUtterance'
      BY <1>2, <2>0, <3>6 DEF Return, memory
    <3>7. CASE Transcribe
      <4>0. wav' \in {wav, "none"} /\ kept' \in BOOLEAN
        BY <3>7 DEF Transcribe, RemoveWav
      <4>1. CASE Return
        BY <3>6, <3>7, <4>0, <4>1 DEF Transcribe
      <4>2. CASE ~Return
        BY <1>2, <3>7, <4>0, <4>2 DEF Transcribe, Continue, Usable, memory, Replies
      <4> QED
        BY <4>1, <4>2
    <3>8. CASE Space
      <4>1. Routes(target) \in Seq({"paste", "pasteAlt", "unicode", "refuse"})
        <5> DEFINE R == {"paste", "pasteAlt", "unicode", "refuse"}
        <5>1. "paste" \in R /\ "pasteAlt" \in R /\ "unicode" \in R /\ "refuse" \in R
          OBVIOUS
        <5> HIDE DEF R
        <5>2. <<"refuse">> \in Seq(R) /\ <<"unicode", "paste">> \in Seq(R)
          BY <5>1
        <5>3. <<"paste", "unicode">> \in Seq(R) /\ <<"paste", "pasteAlt", "unicode">> \in Seq(R)
          BY <5>1
        <5>4. Routes(target) \in Seq(R)
          BY <5>2, <5>3 DEF Routes
        <5> QED
          BY <5>4 DEF R
      <4>2. Carry(witness) \in BOOLEAN
        BY <1>2 DEF Carry
      <4> QED
        BY <1>2, <3>8, <4>1, <4>2 DEF Space, TypedDesktop
    <3>9. CASE Inject
      <4>1. target.app \in Apps \cup {NoApp}
        BY <1>2 DEF Targets
      <4> QED
        BY <1>2, <2>0, <3>9, <4>1 DEF Inject, Return
    <3>10. CASE Blocked
      BY <1>2, <3>10 DEF Blocked, memory, thread
    <3>11. CASE NotInserted
      BY <1>2, <3>6, <3>11 DEF NotInserted
    <3>12. CASE ForcedExit
      BY <1>2, <2>0, <3>12 DEF ForcedExit
    <3> QED
      BY <1>2, <3>1, <3>2, <3>3, <3>4, <3>5, <3>7, <3>8, <3>9, <3>10, <3>11, <3>12
         DEF Next, Work, CallReturns
  <2>5. TypedDesktop'
    <3> USE DEF TypedDesktop
    <3>1. CASE Send
      BY <1>2, <3>1 DEF Send, HookSend, TraySend, ConsoleSend, SendOne, desktop
    <3>2. CASE User
      <4>1. acts' \in 0..MaxActs /\ witness' \in Nat
        BY <1>2, <3>2, PipelineBounds DEF User, TypeKey, FocusByKey, Click
      <4>2. focus' \in Controls /\ behind' \subseteq Controls
        BY <1>2, <3>2 DEF User, TypeKey, FocusByKey, Click
      <4>3. unseen' \in BOOLEAN
        BY <3>2 DEF User, TypeKey, FocusByKey, Click
      <4> QED
        BY <1>2, <4>1, <4>2, <4>3
    <3>3. CASE RecvCycle \/ RecvSet \/ RecvStyle \/ RecvLearn \/ Learned \/ RecvQuit \/ RecvUtterance
      BY <1>2, <3>3 DEF RecvCycle, RecvSet, RecvStyle, RecvLearn, Learned, RecvQuit, RecvUtterance, desktop
    <3>4. CASE ProbeApp \/ ProbeControl \/ Transcribe \/ Space \/ Blocked \/ NotInserted \/ ForcedExit
      BY <1>2, <3>4 DEF ProbeApp, ProbeControl, Transcribe, Space, Blocked, NotInserted, ForcedExit,
                        desktop
    <3>5. CASE Inject
      BY <1>2, <3>5 DEF Inject, Deliver
    <3> QED
      BY <1>2, <3>1, <3>2, <3>3, <3>4, <3>5 DEF Next, Work, CallReturns
  <2> QED
    BY <2>1, <2>2, <2>3, <2>4, <2>5
       DEF TypeOK, TypedChannel, TypedMode, TypedUtterance, TypedDesktop
<1>3. TypeOK /\ UNCHANGED vars => TypeOK'
  BY DEF vars, thread, utterance, locals, memory, desktop, TypeOK
<1> QED
  BY <1>1, <1>2, <1>3, PTL DEF Spec

----------------------------------------------------------------------------
(* The recording and the modes.                                            *)

(* A whole recording outlives its utterance only if it could not be        *)
(* removed, or the process was ended before on_utterance came to remove_file. *)
THEOREM RecordingsAreRemoved == Spec => []WavGone
<1>1. Init => WavGone
  BY DEF Init, WavGone
<1>2. ASSUME WavGone, [Next]_vars PROVE WavGone'
  <2> USE <1>2 DEF WavGone
  <2>1. CASE Send \/ User \/ UNCHANGED vars
    BY <2>1 DEF Send, HookSend, TraySend, ConsoleSend, SendOne, User, TypeKey, FocusByKey, Click,
                vars, thread, utterance
  <2>2. CASE RecvCycle \/ RecvSet \/ RecvStyle \/ RecvLearn \/ Learned \/ RecvQuit
    BY <2>2 DEF RecvCycle, RecvSet, RecvStyle, RecvLearn, Learned, RecvQuit, Receive, thread,
                utterance
  <2>3. CASE RecvUtterance
    BY <2>3 DEF RecvUtterance, Receive
  <2>4. CASE ProbeApp \/ ProbeControl
    BY <2>4 DEF ProbeApp, ProbeControl
  <2>5. CASE Transcribe
    BY <2>5 DEF Transcribe, RemoveWav
  <2>6. CASE Space \/ Inject \/ Blocked \/ NotInserted
    BY <2>6 DEF Space, Inject, Blocked, NotInserted, Return, thread
  <2>7. CASE ForcedExit
    BY <2>7 DEF ForcedExit
  <2> QED
    BY <2>1, <2>2, <2>3, <2>4, <2>5, <2>6, <2>7 DEF Next, Work, CallReturns
<1> QED
  BY <1>1, <1>2, PTL DEF Spec

(* What set_mode publishes, and what is shown when a transcription returns, *)
(* is a mode the sidecar can serve (clamp_available, next_available).      *)
THEOREM PublishedIsServable == Spec => PublishedModeServable
<1>1. ASSUME TypeOK, Next, shown' # shown \/ (pc = "asr" /\ pc' \in {"space", "recv"})
      PROVE  shown' = "email" => llm'
  <2>1. CASE Send \/ User
    BY <1>1, <2>1 DEF Send, HookSend, TraySend, ConsoleSend, SendOne, User, TypeKey, FocusByKey,
                      Click, thread
  <2>2. CASE RecvCycle
    <3>1. mode \in Modes
      BY <1>1 DEF TypeOK
    <3> QED
      BY <2>2, <3>1 DEF RecvCycle, SetMode, NextAvailable, Modes
  <2>3. CASE RecvSet \/ Transcribe
    BY <2>3 DEF RecvSet, Transcribe, SetMode, Clamp
  <2>4. CASE RecvStyle \/ RecvLearn \/ Learned \/ RecvQuit \/ RecvUtterance
    BY <1>1, <2>4 DEF RecvStyle, RecvLearn, Learned, RecvQuit, RecvUtterance, Receive, thread
  <2>5. CASE ProbeApp \/ ProbeControl \/ Space \/ Inject \/ Blocked \/ NotInserted \/ ForcedExit
    BY <1>1, <2>5 DEF ProbeApp, ProbeControl, Space, Inject, Blocked, NotInserted, ForcedExit, thread
  <2> QED
    BY <1>1, <2>1, <2>2, <2>3, <2>4, <2>5 DEF Next, Work, CallReturns
<1>2. TypeOK /\ [Next]_vars =>
        [shown' # shown \/ (pc = "asr" /\ pc' \in {"space", "recv"}) => (shown' = "email" => llm')]_vars
  BY <1>1
<1> QED
  BY <1>2, TypeInvariant, PTL DEF Spec, PublishedModeServable

----------------------------------------------------------------------------
(* The log.                                                                *)

LEMMA Appended ==
    ASSUME NEW S, NEW s \in Seq(S), NEW e
    PROVE  /\ DOMAIN Append(s, e) = DOMAIN s \cup {Len(s) + 1}
           /\ Append(s, e)[Len(s) + 1] = e
           /\ \A i \in DOMAIN s : Append(s, e)[i] = s[i] /\ i \in Nat /\ i < Len(s) + 1
OBVIOUS

\* A property of every entry survives if it holds of the new one.
LEMMA LoggedStep ==
    ASSUME TypeOK, Next
    PROVE  Logged' = Logged \/ \E outcome \in Outcomes, landed \in BOOLEAN :
                /\ pc = "inject"
                /\ Logged' = Logged \cup {Entry(outcome, landed)}
                /\ outcome = "inserted" => routes # <<>> /\ Head(routes) # "refuse"
                /\ landed => focus \notin Elevated
<1>1. CASE UNCHANGED log
  BY <1>1 DEF Logged
<1>2. ASSUME NEW e, log' = Append(log, e) PROVE Logged' = Logged \cup {e}
  <2>1. log \in Seq(Entries)
    BY DEF TypeOK
  <2>2. /\ DOMAIN log' = DOMAIN log \cup {Len(log) + 1} /\ log'[Len(log) + 1] = e
        /\ \A i \in DOMAIN log : log'[i] = log[i]
    BY <1>2, <2>1, Appended
  <2> QED
    BY <2>2 DEF Logged
<1> QED
  BY <1>1, <1>2, LogStep

\* What on_utterance has found out by the time it goes on.
Asked ==
    /\ pc \in {"asr", "space", "inject"} => (target.app \in Literal => token = "raw")
    /\ pc \in {"space", "inject"} => reply = "text"
    /\ pc \in {"asr", "space", "inject"} /\ told # {} => target.password
    /\ pc = "inject" /\ target.password => routes = <<"refuse">>

LEMMA AskedInvariant == Spec => []Asked
<1>1. Init => Asked
  BY DEF Init, Asked
<1>2. ASSUME TypeOK, Asked, [Next]_vars PROVE Asked'
  <2> USE <1>2 DEF Asked
  <2>1. CASE Send \/ User \/ UNCHANGED vars
    BY <2>1 DEF Send, HookSend, TraySend, ConsoleSend, SendOne, User, TypeKey, FocusByKey, Click,
                vars, thread, utterance, locals
  <2>2. CASE RecvCycle \/ RecvSet \/ RecvStyle \/ RecvLearn \/ Learned \/ RecvQuit \/ RecvUtterance
    <3>1. pc' \notin {"asr", "space", "inject"}
      BY <2>2 DEF RecvCycle, RecvSet, RecvStyle, RecvLearn, Learned, RecvQuit, RecvUtterance, Receive, thread
    <3> QED
      BY <3>1
  <2>3. CASE ProbeApp
    BY <2>3 DEF ProbeApp
  <2>4. CASE ProbeControl
    <3>1. target \in Targets
      BY DEF TypeOK
    <3>2. pc' = "asr" /\ target'.app = target.app /\ token' = Effective(target)
      BY <2>4, <3>1 DEF ProbeControl, Targets
    <3>3. told' # {} => target'.password
      <4>1. PICK answers \in BOOLEAN, known \in IntegrityKnown :
              /\ target' = [target EXCEPT !.password = UiaIsPassword(answers),
                                          !.elevated = IsElevated(known)]
              /\ told' = {c \in Password : answers /\ c = focus}
        BY <2>4 DEF ProbeControl
      <4>2. target'.password = UiaIsPassword(answers)
        BY <3>1, <4>1 DEF Targets
      <4> QED
        BY <4>1, <4>2 DEF UiaIsPassword
    <3> QED
      BY <3>2, <3>3 DEF Effective, IsTerminal
  <2>5. CASE Transcribe
    BY <2>5 DEF Transcribe, Continue, Usable, Return
  <2>6. CASE Space
    BY <2>6 DEF Space, Routes
  <2>7. CASE Inject \/ NotInserted
    BY <2>7 DEF Inject, NotInserted, Return
  <2>8. CASE Blocked
    BY <2>8 DEF Blocked, thread
  <2>9. CASE ForcedExit
    BY <2>9 DEF ForcedExit
  <2> QED
    BY <2>1, <2>2, <2>3, <2>4, <2>5, <2>6, <2>7, <2>8, <2>9 DEF Next, Work, CallReturns
<1> QED
  BY <1>1, <1>2, TypeInvariant, PTL DEF Spec

(* Only a transcript is typed, into a password field only unasked or       *)
(* unanswered, and verbatim into the terminal or editor the probe saw      *)
(* (snapshot, effective_mode, on_utterance, default_routes).               *)
THEOREM OnlyTranscripts == Spec => []OnlyWhatMayBeTyped
<1>1. Init => OnlyWhatMayBeTyped
  BY DEF Init, OnlyWhatMayBeTyped, Logged
<1>2. ASSUME TypeOK, Asked, OnlyWhatMayBeTyped, [Next]_vars PROVE OnlyWhatMayBeTyped'
  <2>1. CASE UNCHANGED vars
    BY <1>2, <2>1 DEF vars, OnlyWhatMayBeTyped, Logged
  <2>2. CASE Next
    <3>1. ASSUME NEW o \in Outcomes, NEW l, pc = "inject",
                 o = "inserted" => routes # <<>> /\ Head(routes) # "refuse"
          PROVE  LET e == Entry(o, l)
                 IN  e.outcome = "inserted" =>
                        /\ e.reply = "text"
                        /\ e.at \in Password => ~e.told
                        /\ e.landed /\ App[e.at] \in Literal => e.token = "raw" \/ ~e.sameApp
      <4>1. o = "inserted" => told = {}
        BY <1>2, <3>1 DEF Asked
      <4> QED
        BY <1>2, <3>1, <4>1 DEF Entry, Asked
    <3> QED
      BY <1>2, <2>2, <3>1, LoggedStep DEF OnlyWhatMayBeTyped
  <2> QED
    BY <1>2, <2>1, <2>2
<1> QED
  BY <1>1, <1>2, TypeInvariant, AskedInvariant, PTL DEF Spec

AtRest == {"recv", "learn", "stopped", "killed"}

\* Logged utterances are not above the current one, and below it while it is in work.
Ordered ==
    /\ OrderKept
    /\ \A i \in DOMAIN log : log[i].utt <= cur
    /\ pc \notin AtRest => \A i \in DOMAIN log : log[i].utt < cur

LEMMA CurStep ==
    ASSUME TypeOK, Next
    PROVE  \/ pc = "recv" /\ cur' = cur + 1
           \/ cur' = cur /\ (pc \in AtRest => pc' \in AtRest)
<1> USE DEF AtRest
<1>1. CASE Send \/ User
  BY <1>1 DEF Send, HookSend, TraySend, ConsoleSend, SendOne, User, TypeKey, FocusByKey, Click,
              thread, utterance
<1>2. CASE RecvCycle \/ RecvSet \/ RecvStyle \/ RecvLearn \/ Learned \/ RecvQuit
  BY <1>2 DEF RecvCycle, RecvSet, RecvStyle, RecvLearn, Learned, RecvQuit, thread, utterance
<1>3. CASE RecvUtterance
  BY <1>3 DEF RecvUtterance, Receive
<1>4. CASE ProbeApp \/ ProbeControl \/ Transcribe \/ Space \/ Inject \/ Blocked \/ NotInserted
  BY <1>4 DEF ProbeApp, ProbeControl, Transcribe, Space, Inject, Blocked, NotInserted
<1>5. CASE ForcedExit
  BY <1>5 DEF ForcedExit
<1> QED
  BY <1>1, <1>2, <1>3, <1>4, <1>5 DEF Next, Work, CallReturns

(* Every utterance is typed once at most, in the order of the channel, and *)
(* one route ends the chain (inject_with_fallback).                        *)
THEOREM OrderIsKept == Spec => []OrderKept
<1>1. Init => Ordered
  BY DEF Init, Ordered, OrderKept, AtRest
<1>2. ASSUME TypeOK, Ordered, [Next]_vars PROVE Ordered'
  <2>1. CASE UNCHANGED vars
    BY <1>2, <2>1 DEF vars, thread, utterance, Ordered, OrderKept
  <2>2. CASE Next
    <3>1. cur \in Nat /\ log \in Seq(Entries) /\ \A i \in DOMAIN log : log[i].utt \in Nat
      <4>1. cur \in Nat /\ log \in Seq(Entries)
        BY <1>2 DEF TypeOK
      <4>2. \A i \in DOMAIN log : log[i] \in Entries
        BY <4>1
      <4>3. \A e \in Entries : e.utt \in Nat
        BY DEF Entries
      <4> QED
        BY <4>1, <4>2, <4>3
    <3>2. CASE UNCHANGED log
      BY <1>2, <2>2, <3>1, <3>2, CurStep DEF AtRest, Ordered, OrderKept
    <3>3. CASE ~UNCHANGED log
      <4>1. PICK e : log' = Append(log, e) /\ e.utt = cur /\ pc = "inject" /\ pc' = "recv"
        BY <1>2, <2>2, <3>3, LogStep DEF Entry
      <4>2. /\ DOMAIN log' = DOMAIN log \cup {Len(log) + 1} /\ log'[Len(log) + 1] = e
            /\ \A i \in DOMAIN log : log'[i] = log[i] /\ i \in Nat /\ i < Len(log) + 1
        BY <3>1, <4>1, Appended
      <4>3. cur' = cur /\ \A i \in DOMAIN log : log[i].utt < cur
        BY <1>2, <2>2, <4>1, CurStep DEF AtRest, Ordered
      <4>4. OrderKept'
        <5>1. SUFFICES ASSUME NEW i \in DOMAIN log', NEW j \in DOMAIN log', i < j
                       PROVE  log'[i].utt < log'[j].utt
          BY DEF OrderKept
        <5>2. i \in DOMAIN log
          <6>1. Len(log) \in Nat
            BY <3>1
          <6> QED
            BY <4>2, <5>1, <6>1
        <5>3. CASE j \in DOMAIN log
          BY <1>2, <4>2, <5>1, <5>2, <5>3 DEF Ordered, OrderKept
        <5>4. CASE j = Len(log) + 1
          BY <4>1, <4>2, <4>3, <5>2, <5>4
        <5> QED
          BY <4>2, <5>3, <5>4
      <4>5. \A i \in DOMAIN log' : log'[i].utt <= cur'
        BY <3>1, <4>1, <4>2, <4>3
      <4> QED
        BY <4>1, <4>4, <4>5 DEF AtRest, Ordered
    <3> QED
      BY <3>2, <3>3
  <2> QED
    BY <1>2, <2>1, <2>2
<1>3. Ordered => OrderKept
  BY DEF Ordered
<1> QED
  BY <1>1, <1>2, <1>3, TypeInvariant, PTL DEF Spec

----------------------------------------------------------------------------
(* The separating space.                                                   *)

InWork == {"probeControl", "asr", "space", "inject"}

\* As long as the witness reads what it read before the last insertion, and
\* nothing happened that it does not tell: the probed target is the focused one,
\* and the memory says whether the caret is behind our own text.
Remembers ==
    ~unseen /\ witness = prevInput /\ pc # "killed" =>
        /\ pc \in InWork /\ focus \notin Elevated => target.app = App[focus]
        /\ prevWord => focus \in behind \cup Elevated
        /\ focus \in behind => prevWord /\ prevTarget = App[focus]

\* While the routes are tried: what the space was decided on still holds.
Decided ==
    pc = "inject" /\ ~unseen =>
        /\ spaced => focus \in behind \cup Elevated
        /\ focus \in behind /\ witness = prevInput => spaced

Placed ==
    /\ prevInput <= witness /\ typed <= witness
    /\ behind \cap Elevated = {}
    /\ Remembers /\ Decided

LEMMA PlacedInvariant == Spec => []Placed
<1>1. Init => Placed
  BY DEF Init, Placed, Remembers, Decided, InWork
<1>2. ASSUME TypeOK, Placed, [Next]_vars PROVE Placed'
  <2>1. /\ prevInput \in Nat /\ typed \in Nat /\ witness \in Nat /\ focus \in Controls
        /\ spaced \in BOOLEAN /\ prevWord \in BOOLEAN /\ unseen \in BOOLEAN /\ target \in Targets
    BY <1>2 DEF TypeOK
  <2> USE <1>2, <2>1 DEF Placed, Remembers, Decided, InWork
  <2>2. CASE Send \/ UNCHANGED vars
    <3>1. UNCHANGED <<pc, target, spaced, typed, memory, desktop>>
      BY <2>2 DEF Send, HookSend, TraySend, ConsoleSend, SendOne, vars, thread, utterance, locals
    <3> QED
      BY <3>1 DEF memory, desktop
  <2>3. CASE TypeKey \/ FocusByKey
    <3>1. /\ witness' = witness + 1 /\ behind' \subseteq behind
          /\ UNCHANGED <<pc, typed, spaced, prevInput>>
          /\ pc = "inject" => unseen'
      BY <2>3 DEF TypeKey, FocusByKey, Racing, thread, utterance, locals, memory
    <3> QED
      BY <3>1
  <2>4. CASE Click
    <3>1. unseen' /\ behind' \subseteq behind /\ UNCHANGED <<witness, typed, prevInput>>
      BY <2>4 DEF Click, utterance, locals, memory
    <3> QED
      BY <3>1
  <2>5. CASE RecvCycle \/ RecvSet \/ RecvStyle \/ RecvLearn \/ Learned \/ RecvQuit \/ RecvUtterance
    <3>1. UNCHANGED <<typed, memory, desktop>> /\ pc' \notin InWork /\ pc \in {"recv", "learn"}
      BY <2>5 DEF RecvCycle, RecvSet, RecvStyle, RecvLearn, Learned, RecvQuit, RecvUtterance, Receive,
                  thread, utterance, locals
    <3> QED
      BY <3>1 DEF memory, desktop
  <2>6. CASE ProbeApp
    <3>1. /\ UNCHANGED <<typed, memory, desktop>> /\ pc = "probeApp" /\ pc' = "probeControl"
          /\ \E exe \in ForegroundExe, remote \in BOOLEAN :
               target' = [NoTarget EXCEPT !.app = exe, !.remote = remote]
      BY <2>6 DEF ProbeApp
    <3>2. focus \notin Elevated => target'.app = App[focus]
      BY <3>1 DEF ForegroundExe, NoTarget
    <3> QED
      BY <3>1, <3>2 DEF memory, desktop
  <2>7. CASE ProbeControl
    <3>1. /\ UNCHANGED <<typed, memory, desktop>> /\ pc = "probeControl" /\ pc' = "asr"
          /\ target'.app = target.app
      BY <2>7 DEF ProbeControl, Targets
    <3> QED
      BY <3>1 DEF memory, desktop
  <2>8. CASE Transcribe
    <3>1. /\ UNCHANGED <<memory, desktop>> /\ pc = "asr" /\ typed' \in {typed, 0}
          /\ (pc' = "space" /\ target' = target) \/ pc' = "recv"
      BY <2>8 DEF Transcribe, Continue, Return
    <3> QED
      BY <3>1 DEF memory, desktop
  <2>9. CASE Space
    <3>1. /\ UNCHANGED <<target, prevTarget, prevInput, desktop>> /\ typed' = witness
          /\ pc = "space" /\ pc' = "inject" /\ spaced' = prevWord'
          /\ prevWord' = (prevTarget = target.app /\ prevInput = witness /\ prevWord)
      BY <2>9 DEF Space, Carry
    <3>2. focus \in behind /\ ~unseen /\ witness = prevInput => prevWord'
      BY <3>1
    <3>3. prevWord' /\ ~unseen => focus \in behind \cup Elevated
      BY <3>1
    <3> QED
      BY <3>1, <3>2, <3>3 DEF desktop
  <2>10. CASE Inject
    <3>1. /\ prevWord' = TRUE /\ prevTarget' = target.app /\ prevInput' = typed
          /\ typed' = 0 /\ pc' = "recv" /\ UNCHANGED <<focus, witness>>
          /\ behind' = (IF focus \in Elevated THEN behind ELSE behind \cup {focus})
          /\ unseen' = (App[focus] # target.app)
      BY <2>10 DEF Inject, Deliver, Return
    <3>2. focus' \in behind' \cup Elevated /\ behind' \cap Elevated = {}
      BY <3>1
    <3>3. ~unseen' => prevTarget' = App[focus']
      BY <3>1
    <3> QED
      BY <3>1, <3>2, <3>3
  <2>11. CASE Blocked
    <3>1. UNCHANGED <<pc, target, spaced, typed, memory, desktop>>
      BY <2>11 DEF Blocked, thread
    <3> QED
      BY <3>1 DEF memory, desktop
  <2>12. CASE NotInserted
    <3>1. UNCHANGED <<memory, desktop>> /\ typed' = 0 /\ pc = "inject" /\ pc' = "recv"
      BY <2>12 DEF NotInserted, Return
    <3> QED
      BY <3>1 DEF memory, desktop
  <2>13. CASE ForcedExit
    <3>1. /\ UNCHANGED desktop /\ typed' = 0 /\ prevInput' = 0 /\ pc' = "killed"
          /\ prevWord' = FALSE
      BY <2>13 DEF ForcedExit
    <3> QED
      BY <3>1 DEF desktop
  <2> QED
    BY <2>2, <2>3, <2>4, <2>5, <2>6, <2>7, <2>8, <2>9, <2>10, <2>11, <2>12, <2>13
       DEF Next, User, Work, CallReturns
<1> QED
  BY <1>1, <1>2, TypeInvariant, PTL DEF Spec

(* A space goes only behind our own text (carry_spacing).                  *)
THEOREM SpacesAreNotStray == Spec => []NoStraySpace
<1>1. Init => NoStraySpace
  BY DEF Init, NoStraySpace, Logged
<1>2. ASSUME TypeOK, Placed, NoStraySpace, [Next]_vars PROVE NoStraySpace'
  <2>1. CASE UNCHANGED vars
    BY <1>2, <2>1 DEF vars, NoStraySpace, Logged
  <2>2. CASE Next
    <3>1. ASSUME NEW o, NEW l, pc = "inject", l => focus \notin Elevated
          PROVE  LET e == Entry(o, l)
                 IN  e.landed /\ e.spaced /\ ~e.unseen => e.behind
      BY <1>2, <3>1 DEF Entry, Placed, Decided
    <3> QED
      BY <1>2, <2>2, <3>1, LoggedStep DEF NoStraySpace
  <2> QED
    BY <1>2, <2>1, <2>2
<1> QED
  BY <1>1, <1>2, TypeInvariant, PlacedInvariant, PTL DEF Spec

(* Text right behind our own is set off by a space (carry_spacing).        *)
THEOREM WordsAreNotGlued == Spec => []NoGluedWords
<1>1. Init => NoGluedWords
  BY DEF Init, NoGluedWords, Logged
<1>2. ASSUME TypeOK, Placed, NoGluedWords, [Next]_vars PROVE NoGluedWords'
  <2>1. CASE UNCHANGED vars
    BY <1>2, <2>1 DEF vars, NoGluedWords, Logged
  <2>2. CASE Next
    <3>1. ASSUME NEW o, NEW l, pc = "inject"
          PROVE  LET e == Entry(o, l)
                 IN  e.landed /\ e.behind /\ ~e.unseen /\ ~e.touched => e.spaced
      BY <1>2, <3>1 DEF Entry, Placed, Decided
    <3> QED
      BY <1>2, <2>2, <3>1, LoggedStep DEF NoGluedWords
  <2> QED
    BY <1>2, <2>1, <2>2
<1> QED
  BY <1>1, <1>2, TypeInvariant, PlacedInvariant, PTL DEF Spec
=============================================================================
