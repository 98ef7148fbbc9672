------------------------------ MODULE KeyHook ------------------------------
(***************************************************************************)
(* The low-level keyboard hook and the thread that forwards its events.    *)
(*                                                                         *)
(* Windows calls the hook before the event reaches any application.  The   *)
(* hook keeps its own idea of which modifiers are down (flag), heals it    *)
(* from the system's (GetAsyncKeyState), recognises the push-to-talk combo *)
(* and the chords, and decides per event whether to swallow it.  Key-downs *)
(* and key-ups are decided separately, an event may never reach the hook   *)
(* (the secure desktop, a hook time-out), and a swallowed key-down may or  *)
(* may not show in GetAsyncKeyState: the model takes both outcomes.        *)
(***************************************************************************)
EXTENDS Naturals, Sequences, FiniteSets, SequencesExt

CONSTANTS
    Keys,        \* the keys the system knows
    Touched,     \* bound: those the user touches
    Group,       \* the modifier group of each key: a member of Groups or Plain
    Ptt,         \* the modifier groups of the push-to-talk binding
    Chords,      \* the secondary chords, in the order the hook was given them
    StyleCount,  \* overlay styles
    MaxQueue     \* bound: what waits for the forwarder, and for the pipeline

Groups == {"ctrl", "alt", "shift", "win"}
Plain == "plain"

\* HotkeyEvent
PttDown == <<"down">>
PttUp == <<"up">>
Chord(i) == <<"chord", i>>

ASSUME GroupAssumption == Group \in [Keys -> Groups \union {Plain}]
ASSUME PttAssumption == Ptt \subseteq Groups
\* set_chord lets no chord through that lacks a modifier or a main key.
ASSUME ChordAssumption ==
    Chords \in Seq([mods : (SUBSET Groups) \ {{}}, key : {k \in Keys : Group[k] = Plain},
                    action : {"mode", "style", "quit"}])
ASSUME BoundAssumption == Touched \subseteq Keys /\ StyleCount \in Nat \ {0} /\ MaxQueue \in Nat

VARIABLES
    phys,      \* keys that are physically down
    os,        \* keys the system and the applications take to be down
    gesture,   \* Win went down alone: letting it go opens the Start menu
    flag,      \* CTRL, ALT, SHIFT, WIN: the groups the hook takes to be down
    armed,     \* CHORD_ARMED: chords that fired and whose key is not up yet
    recording, \* RECORDING
    winLeaked, \* WIN_LEAKED
    noted,     \* the input witness changed since the pipeline last read it
    events,    \* hook -> forwarder
    loaded,    \* the forwarder's copy of the style atom, {} outside CycleStyle
    listening, \* the overlay's atom
    hold,      \* begin_utterance was called and end_utterance was not
    style,     \* the style atom
    waiting,   \* PipeMsg: utterances and commands the pipeline has not taken
    \* history
    fresh,     \* the hook saw the last keyboard event and judged the combo
    lost,      \* keys whose key-up the hook never saw
    slipped,   \* Win keys held of which a key-down got past the hook
    fired      \* chords that fired since their key last went down

keyboard == <<phys, os, gesture, fresh, lost, slipped>>
hook == <<flag, armed, recording, winLeaked, noted, fired>>
forwarder == <<loaded, listening, hold, style>>
khvars == <<keyboard, hook, events, forwarder, waiting>>

KHTypeOK ==
    /\ phys \subseteq Keys /\ os \subseteq Keys /\ lost \subseteq Keys /\ slipped \subseteq Keys
    /\ flag \subseteq Groups
    /\ armed \subseteq DOMAIN Chords /\ fired \subseteq DOMAIN Chords
    /\ {gesture, recording, winLeaked, noted, listening, hold, fresh} \subseteq BOOLEAN
    /\ events \in Seq({PttDown, PttUp} \union {Chord(i) : i \in DOMAIN Chords})
    /\ loaded \subseteq 0..(StyleCount - 1) /\ style \in 0..(StyleCount - 1)
    /\ waiting \in Seq({"utterance", "mode", "quit"})

KHInit ==
    /\ phys = {} /\ os = {} /\ gesture = FALSE /\ fresh = TRUE /\ lost = {} /\ slipped = {}
    /\ flag = {} /\ armed = {} /\ recording = FALSE /\ winLeaked = FALSE
    /\ noted = FALSE /\ fired = {}
    /\ events = <<>> /\ waiting = <<>>
    /\ loaded = {} /\ listening = FALSE /\ hold = FALSE /\ style = 0

----------------------------------------------------------------------------
(* What the system and the applications see.                               *)

Down(g) == \E k \in os : Group[k] = g
ModsDown == {g \in Groups : Down(g)}

\* The Start menu opens on a Win that goes up with nothing pressed since it
\* went down; a repeat of Win itself does not count as a press.
GestureAfter(k, down) ==
    IF Group[k] = "win" THEN down /\ (gesture \/ ~Down("win")) ELSE gesture /\ ~down

Reaches(k, down) ==
    /\ os' = IF down THEN os \union {k} ELSE os \ {k}
    /\ gesture' = GestureAfter(k, down)

\* A swallowed event changes nothing; the dummy key sent to mask a leaked Win
\* is a press like any other.
Swallowed(masked) == os' = os /\ gesture' = (gesture /\ ~masked)

\* The groups GetAsyncKeyState may report as down: those that are, and any of
\* those whose key-down was swallowed while the key is still held.
AsyncDown ==
    {ModsDown \union s : s \in SUBSET {g \in Groups \ ModsDown : \E k \in phys : Group[k] = g}}

----------------------------------------------------------------------------
(* hook_proc                                                               *)

\* The modifier flags once the event is noted and the other groups healed.
\* Healing only clears.
Tracked(k, down) == IF down THEN flag \union {Group[k]} ELSE flag \ {Group[k]}
Unhealed(k, down, async) == IF Group[k] = Plain THEN flag ELSE Tracked(k, down)
Healed(k, down, async) ==
    LET set == IF Group[k] = Plain THEN flag ELSE Tracked(k, down)
    IN  {g \in set : g = Group[k] \/ g \in async}

Emit(e) == Len(events) < MaxQueue /\ events' = Append(events, e)

ChordHits(k, mods) == {i \in DOMAIN Chords : Chords[i].key = k /\ Chords[i].mods \subseteq mods}
\* The one-shot latch.
EveryRepeat(i) == TRUE
Fires(i) == i \notin armed

\* The main key of a chord whose modifiers are down: fire the first such chord
\* unless it already has, mask a leaked Win, swallow the key, and judge nothing
\* else.
FirstHit(i, k, mods) == i \in ChordHits(k, mods) /\ \A j \in ChordHits(k, mods) : i <= j
ChordKey(k, mods) ==
    /\ \E i \in DOMAIN Chords :
        /\ FirstHit(i, k, mods)
        /\ armed' = armed \union {i}
        /\ IF Fires(i) THEN Emit(Chord(i)) /\ fired' = fired \union {i}
                       ELSE UNCHANGED <<events, fired>>
    /\ flag' = mods
    /\ winLeaked' = FALSE
    /\ Swallowed(winLeaked)
    /\ UNCHANGED <<recording, noted>>

\* A key-up disarms every chord on that key, whatever modifiers are left.
DisarmWithMods(k, mods) ==
    {i \in armed : Chords[i].key # k \/ ~(Chords[i].mods \subseteq mods)}
StillArmed(k, mods) == {i \in armed : Chords[i].key # k}

Combo(mods) == Ptt # {} /\ Ptt \subseteq mods
SwallowLastUp(k, mods) == (Combo(mods) \/ recording) /\ Group[k] \in Ptt
PttKey(k, mods) == Combo(mods) /\ Group[k] \in Ptt
NoMask(starts) == FALSE
Masks(starts) == starts /\ winLeaked

\* Every other event: disarm chords, note typing, follow the combo's edges,
\* remember a Win that reached the system, swallow the combo's own modifiers.
OtherKey(k, down, mods) ==
    LET starts == Combo(mods) /\ ~recording
        ends == ~Combo(mods) /\ recording
    IN  /\ ~down \/ ChordHits(k, mods) = {}
        /\ flag' = mods
        /\ armed' = IF down THEN armed ELSE StillArmed(k, mods)
        /\ noted' = (noted \/ (down /\ Group[k] = Plain))
        /\ recording' = Combo(mods)
        /\ IF starts THEN Emit(PttDown) ELSE IF ends THEN Emit(PttUp) ELSE UNCHANGED events
        /\ winLeaked' = IF Group[k] = "win" /\ ~PttKey(k, mods) THEN down
                        ELSE winLeaked /\ ~starts
        /\ IF PttKey(k, mods) THEN Swallowed(Masks(starts)) ELSE Reaches(k, down)

HookProc(k, down) ==
    \E async \in AsyncDown :
        LET mods == Healed(k, down, async)
        IN  \/ down /\ ChordKey(k, mods) /\ fresh' = FALSE
            \/ /\ OtherKey(k, down, mods)
               /\ fired' = IF down THEN fired ELSE {i \in fired : Chords[i].key # k}
               /\ fresh' = TRUE

----------------------------------------------------------------------------
(* The user's keyboard.                                                    *)

Press(k) ==
    /\ k \notin phys
    /\ phys' = phys \union {k}
    /\ HookProc(k, TRUE)
    /\ UNCHANGED <<lost, slipped, forwarder, waiting>>

\* A held key repeats.
Repeat(k) ==
    /\ k \in phys
    /\ HookProc(k, TRUE)
    /\ UNCHANGED <<phys, lost, slipped, forwarder, waiting>>

Release(k) ==
    /\ k \in phys
    /\ phys' = phys \ {k}
    /\ lost' = lost \ {k}
    /\ slipped' = slipped \ {k}
    /\ HookProc(k, FALSE)
    /\ UNCHANGED <<forwarder, waiting>>

\* The hook is not called: the secure desktop is up, or the hook timed out.
MissedRelease(k) ==
    /\ k \in phys
    /\ phys' = phys \ {k}
    /\ Reaches(k, FALSE)
    /\ fired' = {i \in fired : Chords[i].key # k}
    /\ lost' = lost \union {k}
    /\ slipped' = slipped \ {k}
    /\ fresh' = FALSE
    /\ UNCHANGED <<flag, armed, recording, winLeaked, noted, events, forwarder, waiting>>

\* The same for a press, or for one of the repeats of a held key.
MissedDown(k) ==
    /\ phys' = phys \union {k}
    /\ Reaches(k, TRUE)
    /\ slipped' = slipped \union {x \in {k} : Group[x] = "win"}
    /\ fresh' = FALSE
    /\ UNCHANGED <<lost, hook, events, forwarder, waiting>>

----------------------------------------------------------------------------
(* hotkey_forwarder                                                        *)

Take(e) == events # <<>> /\ Head(events) = e /\ events' = Tail(events)

Send(m) == Len(waiting) < MaxQueue /\ waiting' = Append(waiting, m)

ForwardDown ==
    /\ Take(PttDown)
    /\ hold' = TRUE
    /\ listening' = TRUE
    /\ UNCHANGED <<keyboard, hook, loaded, style, waiting>>

ForwardUp ==
    /\ Take(PttUp)
    /\ listening' = FALSE
    /\ hold' = FALSE
    /\ Send("utterance")
    /\ UNCHANGED <<keyboard, hook, loaded, style>>

ForwardCommand ==
    /\ \E i \in DOMAIN Chords :
        /\ Chords[i].action \in {"mode", "quit"}
        /\ Take(Chord(i))
        /\ Send(Chords[i].action)
    /\ UNCHANGED <<keyboard, hook, forwarder>>

\* The style atom is read ...
CycleStyleUnwrapped ==
    /\ loaded = {}
    /\ \E i \in DOMAIN Chords :
        events # <<>> /\ Head(events) = Chord(i) /\ Chords[i].action = "style"
    /\ loaded' = {style + 1}
    /\ UNCHANGED <<keyboard, hook, events, listening, hold, style, waiting>>
CycleStyleLoad ==
    /\ loaded = {}
    /\ \E i \in DOMAIN Chords :
        events # <<>> /\ Head(events) = Chord(i) /\ Chords[i].action = "style"
    /\ loaded' = {(style + 1) % StyleCount}
    /\ UNCHANGED <<keyboard, hook, events, listening, hold, style, waiting>>

\* ... and written in a second step.
CycleStyleStore ==
    /\ loaded # {}
    /\ style' \in loaded
    /\ loaded' = {}
    /\ events' = Tail(events)
    /\ UNCHANGED <<keyboard, hook, listening, hold, waiting>>

Forwarder == ForwardDown \/ ForwardUp \/ ForwardCommand \/ CycleStyleLoad \/ CycleStyleStore
UserKey(k) == Press(k) \/ Repeat(k) \/ Release(k) \/ MissedRelease(k) \/ MissedDown(k)
=============================================================================
