---------------------------- MODULE DesktopProofs ----------------------------
(***************************************************************************)
(* Proofs about the keyboard hook and the injector for every keyboard,     *)
(* push-to-talk binding, list of chords and set of route chains.           *)
(***************************************************************************)
EXTENDS Desktop, TLAPS

----------------------------------------------------------------------------
(* The latches.                                                            *)

Latched ==
    /\ armed \subseteq DOMAIN Chords
    /\ LatchFollowsKey
    /\ fired \subseteq armed

LEMMA HookLatched ==
    ASSUME Latched, NEW k, NEW down \in BOOLEAN, HookProc(k, down),
           down => k \in phys', 
           ~down => lost' = lost \ {k} /\ phys' = phys \ {k},
           down => phys \subseteq phys' /\ lost' = lost
    PROVE  Latched'
<1>1. PICK async \in AsyncDown :
        \/ down /\ ChordKey(k, Healed(k, down, async))
        \/ /\ OtherKey(k, down, Healed(k, down, async))
           /\ fired' = IF down THEN fired ELSE {i \in fired : Chords[i].key # k}
  BY DEF HookProc
<1> DEFINE mods == Healed(k, down, async)
<1>2. CASE down /\ ChordKey(k, mods)
  <2>1. PICK i \in DOMAIN Chords :
          /\ FirstHit(i, k, mods)
          /\ armed' = armed \union {i}
          /\ fired' \subseteq fired \union {i}
    BY <1>2 DEF ChordKey
  <2>2. Chords[i].key = k
    BY <2>1 DEF FirstHit, ChordHits
  <2> QED
    BY <1>2, <2>1, <2>2 DEF Latched, LatchFollowsKey
<1>3. CASE OtherKey(k, down, mods) /\ fired' = IF down THEN fired ELSE {i \in fired : Chords[i].key # k}
  <2>1. armed' = IF down THEN armed ELSE {i \in armed : Chords[i].key # k}
    BY <1>3 DEF OtherKey, StillArmed
  <2>2. CASE down
    BY <1>3, <2>1, <2>2 DEF Latched, LatchFollowsKey
  <2>3. CASE ~down
    BY <1>3, <2>1, <2>3 DEF Latched, LatchFollowsKey
  <2> QED
    BY <2>2, <2>3
<1> QED
  BY <1>1, <1>2, <1>3

LEMMA UserLatched == ASSUME Latched, NEW k, UserKey(k) PROVE Latched'
<1>1. CASE Press(k)
  <2>1. phys' = phys \union {k} /\ lost' = lost /\ HookProc(k, TRUE)
    BY <1>1 DEF Press
  <2> QED
    BY <2>1, HookLatched
<1>2. CASE Repeat(k)
  <2>1. k \in phys /\ phys' = phys /\ lost' = lost /\ HookProc(k, TRUE)
    BY <1>2 DEF Repeat
  <2> QED
    BY <2>1, HookLatched
<1>3. CASE Release(k)
  <2>1. phys' = phys \ {k} /\ lost' = lost \ {k} /\ HookProc(k, FALSE)
    BY <1>3 DEF Release
  <2> QED
    BY <2>1, HookLatched
<1>4. CASE MissedRelease(k)
  <2>1. /\ phys' = phys \ {k} /\ lost' = lost \union {k} /\ armed' = armed
        /\ fired' \subseteq fired
    BY <1>4 DEF MissedRelease
  <2> QED
    BY <2>1 DEF Latched, LatchFollowsKey
<1>5. CASE MissedDown(k)
  <2>1. phys \subseteq phys' /\ lost' = lost /\ armed' = armed /\ fired' = fired
    BY <1>5 DEF MissedDown, hook
  <2> QED
    BY <2>1 DEF Latched, LatchFollowsKey
<1> QED
  BY <1>1, <1>2, <1>3, <1>4, <1>5 DEF UserKey

\* Nothing but a key of the user touches keys, latches and history.
LEMMA OthersKeepLatches ==
    ASSUME Next, ~Typing
    PROVE  UNCHANGED <<phys, lost, slipped, armed, fired, flag, recording, fresh>>
<1>1. CASE Forwarding
  BY <1>1 DEF Forwarding, Forwarder, ForwardDown, ForwardUp, ForwardCommand, CycleStyleLoad,
              CycleStyleStore, keyboard, hook
<1>2. CASE Injecting
  BY <1>2 DEF Injecting, InjectBegin, TakeOther, TypeUnicode, SaveClipboard, SetClipboard,
              SetClipboardFails, DecideKeys, SendKey, KeysSent, Restore, khvars, keyboard, hook
<1>3. CASE TargetReads \/ UserCopies \/ Tick
  BY <1>3 DEF TargetReads, UserCopies, Tick, khvars, keyboard, hook
<1> QED
  BY <1>1, <1>2, <1>3 DEF Next

LEMMA LatchedInvariant == Spec => []Latched
<1>1. Init => Latched
  BY DEF Init, KHInit, Latched, LatchFollowsKey
<1>2. ASSUME Latched, [Next]_vars PROVE Latched'
  <2>1. CASE Typing
    BY <1>2, <2>1, UserLatched DEF Typing
  <2>2. CASE Next /\ ~Typing
    BY <1>2, <2>2, OthersKeepLatches DEF Latched, LatchFollowsKey
  <2>3. CASE UNCHANGED vars
    BY <1>2, <2>3 DEF vars, khvars, keyboard, hook, Latched, LatchFollowsKey
  <2> QED
    BY <1>2, <2>1, <2>2, <2>3
<1> QED
  BY <1>1, <1>2, PTL DEF Spec

(* A latch never outlives its key, whatever is pressed, repeated, released *)
(* and missed (CHORD_ARMED in hook_proc).                                  *)
THEOREM LatchesFollowKeys == Spec => []LatchFollowsKey
<1>1. Latched => LatchFollowsKey
  BY DEF Latched
<1> QED
  BY <1>1, LatchedInvariant, PTL

----------------------------------------------------------------------------
(* The channel from the hook to the forwarder.                             *)

HotkeyEvents == {PttDown, PttUp} \union {Chord(i) : i \in DOMAIN Chords}

\* While the forwarder cycles the style, the event it does that for is still the
\* first in the channel.
Queued ==
    /\ events \in Seq(HotkeyEvents)
    /\ loaded # {} => /\ events # <<>>
                      /\ \E i \in DOMAIN Chords : Head(events) = Chord(i) /\ Chords[i].action = "style"

\* What one step does to the channel; a chord is sent only while it is not armed.
Sent(e) == events' = Append(events, e)
Channel ==
    \/ UNCHANGED events
    \/ events # <<>> /\ events' = Tail(events)
    \/ Sent(PttDown) \/ Sent(PttUp)
    \/ \E i \in DOMAIN Chords \ armed : Sent(Chord(i))

LEMMA HookChannel == ASSUME NEW k, NEW down \in BOOLEAN, HookProc(k, down) PROVE Channel
<1>1. PICK mods : (down /\ ChordKey(k, mods)) \/ OtherKey(k, down, mods)
  BY DEF HookProc
<1>2. CASE ChordKey(k, mods)
  BY <1>2 DEF ChordKey, Emit, Fires, Channel, Sent
<1>3. CASE OtherKey(k, down, mods)
  BY <1>3 DEF OtherKey, Emit, Channel, Sent
<1> QED
  BY <1>1, <1>2, <1>3

LEMMA StepChannel == ASSUME Queued, [Next]_vars PROVE Channel
<1>1. CASE Typing
  <2>1. PICK k \in Touched : UserKey(k)
    BY <1>1 DEF Typing
  <2>2. CASE MissedRelease(k) \/ MissedDown(k)
    BY <2>2 DEF MissedRelease, MissedDown, Channel
  <2>3. CASE \E down \in BOOLEAN : HookProc(k, down)
    BY <2>3, HookChannel
  <2> QED
    BY <2>1, <2>2, <2>3 DEF UserKey, Press, Repeat, Release
<1>2. CASE Forwarding
  BY <1>2 DEF Forwarding, Forwarder, ForwardDown, ForwardUp, ForwardCommand, CycleStyleLoad,
              CycleStyleStore, Take, Channel, Queued
<1>3. CASE Injecting
  BY <1>3 DEF Injecting, InjectBegin, TakeOther, TypeUnicode, SaveClipboard, SetClipboard,
              SetClipboardFails, DecideKeys, SendKey, KeysSent, Restore, khvars, Channel
<1>4. CASE TargetReads \/ UserCopies \/ Tick
  BY <1>4 DEF TargetReads, UserCopies, Tick, khvars, Channel
<1>5. CASE UNCHANGED vars
  BY <1>5 DEF vars, khvars, Channel
<1> QED
  BY <1>1, <1>2, <1>3, <1>4, <1>5 DEF Next

LEMMA EventsDiffer ==
    /\ PttDown # PttUp
    /\ \A i : Chord(i) # PttDown /\ Chord(i) # PttUp
    /\ \A i, j : Chord(i) = Chord(j) => i = j
<1>1. \A i : Len(Chord(i)) = 2 /\ Chord(i)[2] = i
  BY DEF Chord
<1>2. Len(PttDown) = 1 /\ Len(PttUp) = 1 /\ PttDown[1] # PttUp[1]
  BY DEF PttDown, PttUp
<1>3. \A i : Len(Chord(i)) # Len(PttDown) /\ Len(Chord(i)) # Len(PttUp)
  BY <1>1, <1>2
<1>4. \A i, j : Chord(i) = Chord(j) => i = j
  BY <1>1
<1> QED
  BY <1>2, <1>3, <1>4

LEMMA QueuedInvariant == Spec => []Queued
<1>1. Init => Queued
  BY DEF Init, KHInit, Queued
<1>2. ASSUME Queued, [Next]_vars PROVE Queued'
  <2>1. /\ Channel
        /\ {PttDown, PttUp} \subseteq HotkeyEvents /\ \A i \in DOMAIN Chords : Chord(i) \in HotkeyEvents
    BY <1>2, StepChannel DEF HotkeyEvents
  <2>2. events' \in Seq(HotkeyEvents)
    BY <1>2, <2>1 DEF Channel, Sent, Queued
  <2>3. ASSUME UNCHANGED events \/ \E e \in HotkeyEvents : Sent(e), UNCHANGED loaded
        PROVE  Queued'
    BY <1>2, <2>2, <2>3 DEF Sent, Queued
  <2>4. CASE Typing
    <3>1. PICK k \in Touched : UserKey(k)
      BY <2>4 DEF Typing
    <3>2. UNCHANGED loaded
      BY <3>1 DEF UserKey, Press, Repeat, Release, MissedRelease, MissedDown, forwarder
    <3>3. UNCHANGED events \/ \E e \in HotkeyEvents : Sent(e)
      <4>1. CASE MissedRelease(k) \/ MissedDown(k)
        BY <4>1 DEF MissedRelease, MissedDown
      <4>2. ASSUME NEW down \in BOOLEAN, HookProc(k, down)
            PROVE  UNCHANGED events \/ \E e \in HotkeyEvents : Sent(e)
        BY <2>1, <4>2 DEF HookProc, ChordKey, OtherKey, Emit, Sent
      <4> QED
        BY <3>1, <4>1, <4>2 DEF UserKey, Press, Repeat, Release
    <3> QED
      BY <2>3, <3>2, <3>3
  <2>5. CASE ForwardDown \/ ForwardUp \/ ForwardCommand
    <3>1. loaded = {}
      BY <1>2, <2>5, EventsDiffer DEF ForwardDown, ForwardUp, ForwardCommand, Take, Queued
    <3>2. UNCHANGED loaded
      BY <2>5 DEF ForwardDown, ForwardUp, ForwardCommand, forwarder
    <3> QED
      BY <2>2, <3>1, <3>2 DEF Queued
  <2>6. CASE CycleStyleLoad
    BY <1>2, <2>2, <2>6 DEF CycleStyleLoad, Queued
  <2>7. CASE CycleStyleStore
    BY <2>2, <2>7 DEF CycleStyleStore, Queued
  <2>8. CASE Injecting
    <3>1. UNCHANGED <<events, loaded>>
      BY <2>8 DEF Injecting, InjectBegin, TakeOther, TypeUnicode, SaveClipboard, SetClipboard,
                  SetClipboardFails, DecideKeys, SendKey, KeysSent, Restore, khvars, forwarder
    <3> QED
      BY <2>3, <3>1
  <2>9. CASE TargetReads \/ UserCopies \/ Tick \/ UNCHANGED vars
    <3>1. UNCHANGED <<events, loaded>>
      BY <2>9 DEF TargetReads, UserCopies, Tick, vars, khvars, forwarder
    <3> QED
      BY <2>3, <3>1
  <2> QED
    BY <1>2, <2>4, <2>5, <2>6, <2>7, <2>8, <2>9 DEF Next, Forwarding, Forwarder
<1> QED
  BY <1>1, <1>2, PTL DEF Spec

(* One press of a chord is one command, however long it repeats (the        *)
(* swap of CHORD_ARMED in hook_proc).                                       *)
THEOREM ChordsFireOnce == Spec => FiresOnce
<1>1. ASSUME Latched, Queued, [Next]_vars,
             NEW i \in DOMAIN Chords, i \in fired
      PROVE  events' # Append(events, Chord(i))
  <2>1. /\ Len(Append(events, Chord(i))) = Len(events) + 1
        /\ Append(events, Chord(i))[Len(events) + 1] = Chord(i)
        /\ Len(events) \in Nat
    BY <1>1 DEF Queued
  <2>2. ASSUME NEW e \in HotkeyEvents, Sent(e), events' = Append(events, Chord(i))
        PROVE  e = Chord(i)
    <3>1. Append(events, e)[Len(events) + 1] = e
      BY <1>1 DEF Queued
    <3> QED
      BY <2>1, <2>2, <3>1 DEF Sent
  <2>3. CASE UNCHANGED events
    BY <2>1, <2>3
  <2>4. CASE events # <<>> /\ events' = Tail(events)
    BY <1>1, <2>1, <2>4 DEF Queued
  <2>5. CASE Sent(PttDown) \/ Sent(PttUp)
    BY <2>2, <2>5, EventsDiffer DEF HotkeyEvents
  <2>6. CASE \E j \in DOMAIN Chords \ armed : Sent(Chord(j))
    BY <1>1, <2>2, <2>6, EventsDiffer DEF Latched, HotkeyEvents
  <2> QED
    BY <1>1, <2>3, <2>4, <2>5, <2>6, StepChannel DEF Channel
<1>2. Latched /\ Queued /\ [Next]_vars =>
        [\A i \in DOMAIN Chords : i \in fired => events' # Append(events, Chord(i))]_vars
  BY <1>1
<1> QED
  BY <1>2, LatchedInvariant, QueuedInvariant, PTL DEF Spec, FiresOnce

----------------------------------------------------------------------------
(* The keys.                                                               *)

OurKeys == {CtrlKey, ShiftKey}
Event == [key : {"V", "Insert"} \union OurKeys, down : BOOLEAN]
KeyDown(k) == [key |-> k, down |-> TRUE]
KeyUp(k) == [key |-> k, down |-> FALSE]
Owed(k) == \E i \in DOMAIN script : script[i] = KeyUp(k)
Balanced(s) ==
    \A i \in DOMAIN s : s[i].down => \E j \in DOMAIN s : i < j /\ s[j] = KeyUp(s[i].key)

\* Every key-down the injector has still to send is followed by its key-up, and
\* the system takes nothing to be down but what is held and what is owed.
NothingStuck ==
    /\ pc # "send" => script = <<>>
    /\ script \in Seq(Event) /\ Balanced(script)
    /\ \A k \in os : k \in phys \/ (k \in OurKeys /\ Owed(k))

\* A key-up is never swallowed: its own group is no longer in the combo.
LEMMA KeyUpReaches ==
    ASSUME NEW k \in Keys, HookProc(k, FALSE)
    PROVE  os' = os \ {k}
<1>1. PICK async \in AsyncDown : OtherKey(k, FALSE, Healed(k, FALSE, async))
  BY DEF HookProc
<1> DEFINE mods == Healed(k, FALSE, async)
<1>2. ~PttKey(k, mods)
  <2>1. Group[k] \notin mods \/ Group[k] = Plain
    BY DEF Healed, Tracked
  <2>2. Plain \notin Ptt
    BY PttAssumption DEF Groups, Plain
  <2> QED
    BY <2>1, <2>2 DEF PttKey, Combo
<1> HIDE DEF mods
<1> QED
  BY <1>1, <1>2 DEF OtherKey, Reaches, mods

LEMMA KeyDownKeeps ==
    ASSUME NEW k, HookProc(k, TRUE)
    PROVE  os' \subseteq os \union {k}
<1>1. PICK mods : ChordKey(k, mods) \/ OtherKey(k, TRUE, mods)
  BY DEF HookProc
<1> QED
  BY <1>1 DEF ChordKey, OtherKey, Swallowed, Reaches

LEMMA TailIsNext ==
    ASSUME NEW S, NEW s \in Seq(S), s # <<>>
    PROVE  /\ Len(s) \in Nat \ {0} /\ Head(s) = s[1] /\ s[1] \in S
           /\ Tail(s) \in Seq(S) /\ Len(Tail(s)) = Len(s) - 1
           /\ \A i \in 1..Len(s) - 1 : Tail(s)[i] = s[i + 1]
OBVIOUS

LEMMA Wrapped ==
    ASSUME NEW S, NEW a \in S, NEW b \in S, NEW c \in S, NEW d \in S
    PROVE  LET s == <<a>> \o <<b, c>> \o <<d>>
           IN  s \in Seq(S) /\ Len(s) = 4 /\ s[1] = a /\ s[2] = b /\ s[3] = c /\ s[4] = d
OBVIOUS

\* The injector's script: what it writes down ...
LEMMA PairBalanced ==
    ASSUME NEW v \in {"V", "Insert"}
    PROVE  DownUp(v) \in Seq(Event) /\ Balanced(DownUp(v))
<1> DEFINE b == KeyDown(v)
           c == KeyUp(v)
<1>1. b \in Event /\ c \in Event /\ b.key = v /\ ~c.down
  BY DEF Event, KeyDown, KeyUp
<1>2. DownUp(v) = <<b, c>> /\ c = KeyUp(b.key)
  BY <1>1 DEF DownUp, KeyDown, KeyUp
<1> HIDE DEF b, c
<1> QED
  BY <1>1, <1>2 DEF Balanced

LEMMA AroundBalanced ==
    ASSUME NEW k \in OurKeys, NEW v \in {"V", "Insert"}
    PROVE  Around(k, DownUp(v)) \in Seq(Event) /\ Balanced(Around(k, DownUp(v)))
<1> DEFINE a == KeyDown(k)
           b == KeyDown(v)
           c == KeyUp(v)
           d == KeyUp(k)
           s == <<a>> \o <<b, c>> \o <<d>>
<1>1. /\ a \in Event /\ b \in Event /\ c \in Event /\ d \in Event
      /\ a.key = k /\ b.key = v /\ ~c.down /\ ~d.down
  BY DEF Event, KeyDown, KeyUp
<1>2. Around(k, DownUp(v)) = s
  BY DEF Around, DownUp, KeyDown, KeyUp
<1>3. c = KeyUp(b.key) /\ d = KeyUp(a.key)
  BY <1>1
<1> HIDE DEF a, b, c, d
<1>4. s \in Seq(Event) /\ Len(s) = 4 /\ s[1] = a /\ s[2] = b /\ s[3] = c /\ s[4] = d
  BY <1>1, Wrapped
<1> HIDE DEF s
<1>5. Balanced(s)
  BY <1>1, <1>3, <1>4 DEF Balanced
<1> QED
  BY <1>2, <1>4, <1>5

LEMMA ScriptWritten ==
    ASSUME NothingStuck, DecideKeys
    PROVE  NothingStuck'
<1>1. script = <<>> /\ UNCHANGED <<os, phys>> /\ pc' = "send"
  BY DEF DecideKeys, NothingStuck, khvars, keyboard
<1>2. \E k \in OurKeys, v \in {"V", "Insert"} :
        script' = Around(k, DownUp(v)) \/ script' = DownUp(v)
  BY DEF DecideKeys, OurKeys
<1>3. script' \in Seq(Event) /\ Balanced(script')
  BY <1>2, PairBalanced, AroundBalanced
<1>4. \A x \in os' : x \in phys'
  BY <1>1 DEF NothingStuck, Owed
<1> QED
  BY <1>1, <1>3, <1>4 DEF NothingStuck, Event, OurKeys, Balanced, KeyUp

\* ... and what sending one key leaves.
LEMMA ScriptSent ==
    ASSUME NothingStuck, SendKey
    PROVE  NothingStuck'
<1> DEFINE e == Head(script)
<1>1. /\ pc = "send" /\ pc' = pc /\ phys' = phys /\ script # <<>> /\ script' = Tail(script)
      /\ os' = IF e.key \notin OurKeys THEN os
               ELSE IF e.down THEN os \union {e.key} ELSE os \ {e.key}
  BY DEF SendKey, OurKeys
<1>2. /\ DOMAIN script = 1..Len(script) /\ Len(script) \in Nat \ {0}
      /\ e = script[1] /\ e \in Event
      /\ DOMAIN script' = 1..Len(script') /\ Len(script') = Len(script) - 1
      /\ \A i \in 1..Len(script) - 1 : script'[i] = script[i + 1]
      /\ script' \in Seq(Event)
  <2>1. script \in Seq(Event)
    BY DEF NothingStuck, Event
  <2> HIDE DEF e
  <2> QED
    BY <1>1, <2>1, TailIsNext DEF e
<1>3. \A j \in DOMAIN script : j > 1 => j - 1 \in DOMAIN script' /\ script'[j - 1] = script[j]
  BY <1>2
<1>4. ASSUME NEW i \in DOMAIN script', script'[i].down
      PROVE  \E j \in DOMAIN script' : i < j /\ script'[j] = KeyUp(script'[i].key)
  <2>1. i + 1 \in DOMAIN script /\ script[i + 1] = script'[i]
    BY <1>2
  <2>2. PICK j \in DOMAIN script : i + 1 < j /\ script[j] = KeyUp(script[i + 1].key)
    BY <1>4, <2>1 DEF NothingStuck, Balanced
  <2>3. j - 1 \in DOMAIN script' /\ script'[j - 1] = script[j] /\ i < j - 1
    <3>1. i \in Nat /\ j \in Nat /\ j > 1 /\ i < j - 1
      BY <1>2, <2>2
    <3> QED
      BY <1>3, <2>2, <3>1
  <2> QED
    BY <2>1, <2>2, <2>3
<1>5. ASSUME NEW x \in os', x \notin phys'
      PROVE  x \in OurKeys /\ Owed(x)'
  <2>1. CASE x \in os
    <3>1. x \in OurKeys /\ Owed(x)
      BY <1>1, <1>5, <2>1 DEF NothingStuck
    <3>2. PICK i \in DOMAIN script : script[i] = KeyUp(x)
      BY <3>1 DEF Owed
    <3>3. i # 1
      BY <1>1, <1>2, <1>5, <3>1, <3>2 DEF KeyUp
    <3>4. i - 1 \in DOMAIN script' /\ script'[i - 1] = script[i]
      BY <1>2, <1>3, <3>3
    <3> QED
      BY <3>1, <3>2, <3>4 DEF Owed
  <2>2. CASE x \notin os
    <3>1. x = e.key /\ e.down /\ x \in OurKeys
      BY <1>1, <1>5, <2>2
    <3>2. PICK j \in DOMAIN script : 1 < j /\ script[j] = KeyUp(x)
      BY <1>2, <3>1 DEF NothingStuck, Balanced
    <3>3. j - 1 \in DOMAIN script' /\ script'[j - 1] = script[j]
      BY <1>3, <3>2
    <3> QED
      BY <3>1, <3>2, <3>3 DEF Owed
  <2> QED
    BY <2>1, <2>2
<1> QED
  BY <1>1, <1>2, <1>4, <1>5 DEF NothingStuck, OurKeys, Event, Balanced, KeyUp

LEMMA NothingStuckInvariant == Spec => []NothingStuck
<1>1. Init => NothingStuck
  BY DEF Init, KHInit, NothingStuck, Balanced
<1>2. ASSUME NothingStuck, [Next]_vars PROVE NothingStuck'
  <2>1. ASSUME UNCHANGED <<script, pc>>,
               \A k \in os' : k \in phys' \/ (k \in os /\ k \notin phys)
        PROVE  NothingStuck'
    BY <1>2, <2>1 DEF NothingStuck, Owed, OurKeys
  <2>2. CASE Typing
    <3>1. PICK k \in Keys : UserKey(k)
      BY <2>2, BoundAssumption DEF Typing
    <3>2. UNCHANGED <<script, pc>>
      BY <2>2 DEF Typing, injector
    <3>3. \A x \in os' : x \in phys' \/ (x \in os /\ x \notin phys)
      <4>1. CASE Press(k)
        <5>1. phys' = phys \union {k} /\ HookProc(k, TRUE)
          BY <4>1 DEF Press
        <5> QED
          BY <5>1, KeyDownKeeps
      <4>2. CASE Repeat(k)
        <5>1. k \in phys /\ phys' = phys /\ HookProc(k, TRUE)
          BY <4>2 DEF Repeat
        <5> QED
          BY <5>1, KeyDownKeeps
      <4>3. CASE Release(k)
        <5>1. phys' = phys \ {k} /\ HookProc(k, FALSE)
          BY <4>3 DEF Release
        <5> QED
          BY <5>1, KeyUpReaches
      <4>4. CASE MissedRelease(k) \/ MissedDown(k)
        BY <4>4 DEF MissedRelease, MissedDown, Reaches
      <4> QED
        BY <3>1, <4>1, <4>2, <4>3, <4>4 DEF UserKey
    <3> QED
      BY <2>1, <3>2, <3>3
  <2>3. CASE Forwarding
    <3>1. UNCHANGED <<os, phys, script, pc>>
      BY <2>3 DEF Forwarding, Forwarder, ForwardDown, ForwardUp, ForwardCommand, CycleStyleLoad,
                  CycleStyleStore, keyboard, injector
    <3> QED
      BY <2>1, <3>1
  <2>4. CASE InjectBegin \/ TypeUnicode \/ SaveClipboard \/ SetClipboard \/ SetClipboardFails \/ Restore
    <3>1. UNCHANGED <<os, phys, script>> /\ pc # "send" /\ pc' # "send"
      BY <2>4 DEF InjectBegin, TypeUnicode, SaveClipboard, SetClipboard, SetClipboardFails, Restore,
                  khvars, keyboard
    <3> QED
      BY <1>2, <3>1 DEF NothingStuck, Owed
  <2>5. CASE TakeOther \/ TargetReads \/ UserCopies \/ Tick \/ UNCHANGED vars
    <3>1. UNCHANGED <<os, phys, script, pc>>
      BY <2>5 DEF TakeOther, TargetReads, UserCopies, Tick, vars, khvars, keyboard, injector
    <3> QED
      BY <2>1, <3>1
  <2>6. CASE KeysSent
    <3>1. UNCHANGED <<os, phys, script>> /\ script = <<>>
      BY <2>6 DEF KeysSent, khvars, keyboard
    <3> QED
      BY <1>2, <3>1 DEF NothingStuck, Owed
  <2>7. CASE DecideKeys
    BY <1>2, <2>7, ScriptWritten
  <2>8. CASE SendKey
    BY <1>2, <2>8, ScriptSent
  <2> QED
    BY <1>2, <2>2, <2>3, <2>4, <2>5, <2>6, <2>7, <2>8 DEF Next, Injecting
<1> QED
  BY <1>1, <1>2, PTL DEF Spec

LEMMA OnlyHeldKeysAreDown == NothingStuck /\ pc # "send" => os \subseteq phys
BY DEF NothingStuck, Owed

(* With nothing held and nothing being sent every key is up, for every     *)
(* order of swallowed presses, passed releases and keys of our own         *)
(* (hook_proc's decision to swallow, send_vk).                             *)
THEOREM NoKeyIsStuck == Spec => []NoStuckKey
<1>1. NothingStuck => NoStuckKey
  BY OnlyHeldKeysAreDown DEF NoStuckKey
<1> QED
  BY <1>1, NothingStuckInvariant, PTL

(* When the hook judges a key it records only with the whole binding       *)
(* physically down, whatever it missed before (the healing of hook_proc).  *)
THEOREM HoldsNeedTheirKeys == Spec => HoldNeedsKeys
<1>1. ASSUME NothingStuck, [Next]_vars, phys' # phys, fresh', recording', pc # "send",
             NEW g \in Ptt
      PROVE  \E k \in phys' : Group[k] = g
  <2>1. Typing
    BY <1>1, OthersKeepLatches DEF vars, khvars, keyboard
  <2>2. PICK k \in Keys, down \in BOOLEAN :
          /\ HookProc(k, down)
          /\ phys' = IF down THEN phys \union {k} ELSE phys \ {k}
    BY <1>1, <2>1, BoundAssumption
       DEF Typing, UserKey, Press, Repeat, Release, MissedRelease, MissedDown
  <2>3. PICK async \in AsyncDown : /\ OtherKey(k, down, Healed(k, down, async))
                                  /\ fresh' = TRUE
    BY <1>1, <2>2 DEF HookProc
  <2>4. g \in Healed(k, down, async)
    BY <1>1, <2>3 DEF OtherKey, Combo
  <2>5. g \in async => \E x \in phys : Group[x] = g
    BY <1>1, OnlyHeldKeysAreDown DEF AsyncDown, ModsDown, Down
  <2>6. CASE g = Group[k]
    <3>1. g # Plain
      BY PttAssumption DEF Groups, Plain
    <3>2. down
      BY <2>4, <2>6, <3>1 DEF Healed, Tracked
    <3> QED
      BY <2>2, <2>6, <3>2
  <2>7. CASE g # Group[k]
    <3>1. PICK x \in phys : Group[x] = g
      BY <2>4, <2>5, <2>7 DEF Healed
    <3> QED
      BY <2>2, <2>7, <3>1
  <2> QED
    BY <2>6, <2>7
<1>2. NothingStuck /\ [Next]_vars =>
        [phys' # phys /\ fresh' /\ recording' /\ pc # "send" =>
            \A g \in Ptt : \E k \in phys' : Group[k] = g]_vars
  BY <1>1
<1> QED
  BY <1>2, NothingStuckInvariant, PTL DEF Spec, HoldNeedsKeys

----------------------------------------------------------------------------
(* The Start menu.                                                         *)

\* The combo of the hook's flags is what it last judged, and a Win that could still
\* open the Start menu is known to the hook, unless it got past it.
Masked ==
    /\ Combo(flag) => recording
    /\ gesture => winLeaked \/ SlippedWin
    /\ HoldMasksWin

LEMMA HookMasks ==
    ASSUME "win" \in Ptt, Masked, NEW k \in Keys, NEW down \in BOOLEAN, HookProc(k, down),
           slipped' = IF down THEN slipped ELSE slipped \ {k}
    PROVE  Masked'
<1>1. PICK async \in AsyncDown : \/ down /\ ChordKey(k, Healed(k, down, async))
                                \/ OtherKey(k, down, Healed(k, down, async))
  BY DEF HookProc
<1> DEFINE mods == Healed(k, down, async)
<1>2. mods \subseteq flag \union {Group[k]}
  BY DEF Healed, Tracked
<1>3. Plain \notin Ptt
  BY PttAssumption DEF Groups, Plain
<1>4. Combo(mods) /\ ~recording => PttKey(k, mods)
  BY <1>2 DEF Combo, PttKey, Masked
\* Letting a Win go ends the gesture: a key-up is never swallowed.
<1>7. SlippedWin => SlippedWin' \/ ~gesture'
  <2>1. CASE down \/ Group[k] # "win"
    BY <2>1 DEF SlippedWin
  <2>2. CASE ~down /\ Group[k] = "win"
    <3>1. ~PttKey(k, mods)
      BY <1>3, <2>2 DEF Healed, Tracked, PttKey, Combo, Plain
    <3>2. OtherKey(k, down, mods)
      BY <1>1, <2>2
    <3> HIDE DEF mods
    <3> QED
      BY <2>2, <3>1, <3>2 DEF OtherKey, Reaches, GestureAfter
  <2> QED
    BY <2>1, <2>2
<1>5. CASE ChordKey(k, mods) /\ down
  <2>1. CASE Group[k] = Plain
    <3>1. mods \subseteq flag
      BY <2>1 DEF Healed
    <3>2. /\ flag' = mods /\ recording' = recording
          /\ gesture' = (gesture /\ ~winLeaked)
      BY <1>5 DEF ChordKey, Swallowed
    <3>3. winLeaked' = FALSE
      BY <1>5 DEF ChordKey
    <3> QED
      BY <1>7, <3>1, <3>2, <3>3 DEF Masked, HoldMasksWin, Combo
  <2>2. CASE Group[k] # Plain
    <3>1. PICK i \in DOMAIN Chords : Chords[i].key = k
      BY <1>5 DEF ChordKey, FirstHit, ChordHits
    <3>2. Chords[i].key \in {x \in Keys : Group[x] = Plain}
      <4> DEFINE S == [mods : (SUBSET Groups) \ {{}}, key : {x \in Keys : Group[x] = Plain},
                       action : {"mode", "style", "quit"}]
      <4>1. Chords \in Seq(S)
        BY ChordAssumption
      <4> HIDE DEF S
      <4>2. Chords[i] \in S
        BY <4>1
      <4> QED
        BY <4>2 DEF S
    <3> QED
      BY <2>2, <3>1, <3>2
  <2> QED
    BY <2>1, <2>2
<1>6. CASE OtherKey(k, down, mods)
  <2> DEFINE starts == Combo(mods) /\ ~recording
  <2>1. /\ flag' = mods /\ recording' = Combo(mods)
        /\ winLeaked' = IF Group[k] = "win" /\ ~PttKey(k, mods) THEN down
                        ELSE winLeaked /\ ~starts
    BY <1>6 DEF OtherKey
  <2>2. CASE PttKey(k, mods)
    <3>1. gesture' = (gesture /\ ~(starts /\ winLeaked))
      BY <1>6, <2>2 DEF OtherKey, Swallowed, Masks
    <3> QED
      BY <1>7, <2>1, <2>2, <3>1 DEF Masked, HoldMasksWin, PttKey
  <2>3. CASE ~PttKey(k, mods)
    <3>1. gesture' = GestureAfter(k, down)
      BY <1>6, <2>3 DEF OtherKey, Reaches
    <3>2. CASE Group[k] = "win"
      BY <1>4, <1>7, <2>1, <2>3, <3>1, <3>2 DEF GestureAfter, Masked, HoldMasksWin, PttKey
    <3>3. CASE Group[k] # "win"
      BY <1>4, <1>7, <2>1, <2>3, <3>1, <3>3 DEF GestureAfter, Masked, HoldMasksWin
    <3> QED
      BY <3>2, <3>3
  <2> QED
    BY <2>2, <2>3
<1> QED
  BY <1>1, <1>5, <1>6

LEMMA MaskedInvariant == ASSUME "win" \in Ptt PROVE Spec => []Masked
<1>1. Init => Masked
  BY DEF Init, KHInit, Masked, HoldMasksWin, Combo
<1>2. ASSUME Masked, [Next]_vars PROVE Masked'
  <2>1. ASSUME UNCHANGED <<flag, recording, winLeaked>>,
               gesture' => SlippedWin' \/ (gesture /\ ~SlippedWin)
        PROVE  Masked'
    <3>1. Combo(flag)' = Combo(flag)
      BY <2>1 DEF Combo
    <3> QED
      BY <1>2, <2>1, <3>1 DEF Masked, HoldMasksWin
  <2>2. CASE Typing
    <3>1. PICK k \in Keys : UserKey(k)
      BY <2>2, BoundAssumption DEF Typing
    <3>2. CASE MissedRelease(k)
      <4>1. /\ gesture' = GestureAfter(k, FALSE) /\ slipped' = slipped \ {k}
            /\ UNCHANGED <<flag, recording, winLeaked>>
        BY <3>2 DEF MissedRelease, Reaches
      <4>2. gesture' => SlippedWin' \/ (gesture /\ ~SlippedWin)
        BY <4>1 DEF GestureAfter, SlippedWin
      <4> QED
        BY <2>1, <4>1, <4>2
    <3>3. CASE MissedDown(k)
      <4>1. /\ gesture' = GestureAfter(k, TRUE)
            /\ slipped' = slipped \union {x \in {k} : Group[x] = "win"}
            /\ UNCHANGED <<flag, recording, winLeaked>>
        BY <3>3 DEF MissedDown, Reaches, hook
      <4>2. gesture' => SlippedWin' \/ (gesture /\ ~SlippedWin)
        BY <4>1 DEF GestureAfter, SlippedWin
      <4> QED
        BY <2>1, <4>1, <4>2
    <3>4. CASE Press(k) \/ Repeat(k) \/ Release(k)
      <4>1. PICK down \in BOOLEAN :
              HookProc(k, down) /\ slipped' = IF down THEN slipped ELSE slipped \ {k}
        BY <3>4 DEF Press, Repeat, Release
      <4> QED
        BY <1>2, <4>1, HookMasks
    <3> QED
      BY <3>1, <3>2, <3>3, <3>4 DEF UserKey
  <2>3. CASE SendKey
    <3>1. UNCHANGED <<flag, recording, winLeaked, slipped>> /\ (gesture' => gesture)
      BY <2>3 DEF SendKey, hook
    <3> QED
      BY <2>1, <3>1 DEF SlippedWin
  <2>4. CASE Next /\ ~Typing /\ ~SendKey
    <3>1. UNCHANGED <<flag, recording, winLeaked, gesture, slipped>>
      <4>1. CASE Forwarding
        BY <4>1 DEF Forwarding, Forwarder, ForwardDown, ForwardUp, ForwardCommand, CycleStyleLoad,
                    CycleStyleStore, keyboard, hook
      <4>2. CASE Injecting
        BY <2>4, <4>2 DEF Injecting, InjectBegin, TakeOther, TypeUnicode, SaveClipboard,
                    SetClipboard, SetClipboardFails, DecideKeys, KeysSent, Restore, khvars,
                    keyboard, hook
      <4>3. CASE TargetReads \/ UserCopies \/ Tick
        BY <4>3 DEF TargetReads, UserCopies, Tick, khvars, keyboard, hook
      <4> QED
        BY <2>4, <4>1, <4>2, <4>3 DEF Next
    <3> QED
      BY <2>1, <3>1 DEF SlippedWin
  <2>5. CASE UNCHANGED vars
    BY <2>1, <2>5 DEF vars, khvars, keyboard, hook, SlippedWin
  <2> QED
    BY <1>2, <2>2, <2>3, <2>4, <2>5
<1> QED
  BY <1>1, <1>2, PTL DEF Spec

(* With Win in the binding no hold leaves a Start menu to open, unless a   *)
(* key-down of that Win got past the hook (WIN_LEAKED and the dummy key of *)
(* hook_proc).                                                             *)
THEOREM HoldsMaskWin == ASSUME "win" \in Ptt PROVE Spec => []HoldMasksWin
<1>1. Masked => HoldMasksWin
  BY DEF Masked
<1> QED
  BY <1>1, MaskedInvariant, PTL

----------------------------------------------------------------------------
(* Types.                                                                  *)

HookTypes ==
    /\ phys \subseteq Keys /\ os \subseteq Keys /\ lost \subseteq Keys /\ slipped \subseteq Keys
    /\ flag \subseteq Groups
    /\ gesture \in BOOLEAN /\ recording \in BOOLEAN /\ winLeaked \in BOOLEAN
    /\ noted \in BOOLEAN /\ fresh \in BOOLEAN

LEMMA HookTyped ==
    ASSUME HookTypes, NEW k \in Keys, NEW down \in BOOLEAN, HookProc(k, down)
    PROVE  /\ os' \subseteq Keys /\ flag' \subseteq Groups
           /\ gesture' \in BOOLEAN /\ recording' \in BOOLEAN /\ winLeaked' \in BOOLEAN
           /\ noted' \in BOOLEAN /\ fresh' \in BOOLEAN
<1>1. PICK async \in AsyncDown :
        \/ ChordKey(k, Healed(k, down, async)) /\ fresh' = FALSE
        \/ OtherKey(k, down, Healed(k, down, async)) /\ fresh' = TRUE
  BY DEF HookProc
<1> DEFINE mods == Healed(k, down, async)
<1>2. mods \subseteq Groups
  <2>1. Group[k] \in Groups \union {Plain}
    BY GroupAssumption
  <2> QED
    BY <2>1 DEF Healed, Tracked, HookTypes
<1> HIDE DEF mods
<1>3. CASE ChordKey(k, mods) /\ fresh' = FALSE
  <2>1. /\ flag' = mods /\ winLeaked' = FALSE /\ os' = os /\ gesture' = (gesture /\ ~winLeaked)
        /\ recording' = recording /\ noted' = noted
    BY <1>3 DEF ChordKey, Swallowed
  <2> QED
    BY <1>2, <1>3, <2>1 DEF HookTypes
<1>4. CASE OtherKey(k, down, mods) /\ fresh' = TRUE
  <2>1. /\ flag' = mods /\ noted' = (noted \/ (down /\ Group[k] = Plain))
        /\ recording' = Combo(mods)
    BY <1>4 DEF OtherKey
  <2>2. os' \subseteq Keys /\ gesture' \in BOOLEAN
    BY <1>4 DEF OtherKey, Swallowed, Reaches, GestureAfter, Masks, HookTypes
  <2>3. winLeaked' \in BOOLEAN
    BY <1>4 DEF OtherKey, HookTypes
  <2>4. recording' \in BOOLEAN
    BY <2>1 DEF Combo
  <2> QED
    BY <1>2, <1>4, <2>1, <2>2, <2>3, <2>4 DEF HookTypes
<1> QED
  BY <1>1, <1>3, <1>4 DEF mods

LEMMA HookTypesStep == ASSUME HookTypes, NothingStuck, [Next]_vars PROVE HookTypes'
<1>1. CASE Typing
  <2>1. PICK k \in Keys : UserKey(k)
    BY <1>1, BoundAssumption DEF Typing
  <2>2. CASE Press(k)
    <3>1. /\ phys' = phys \union {k} /\ lost' = lost /\ slipped' = slipped
          /\ HookProc(k, TRUE)
      BY <2>2 DEF Press
    <3> QED
      BY <3>1, HookTyped DEF HookTypes
  <2>3. CASE Repeat(k)
    <3>1. phys' = phys /\ lost' = lost /\ slipped' = slipped /\ HookProc(k, TRUE)
      BY <2>3 DEF Repeat
    <3> QED
      BY <3>1, HookTyped DEF HookTypes
  <2>4. CASE Release(k)
    <3>1. /\ phys' = phys \ {k} /\ lost' = lost \ {k} /\ slipped' = slipped \ {k}
          /\ HookProc(k, FALSE)
      BY <2>4 DEF Release
    <3> QED
      BY <3>1, HookTyped DEF HookTypes
  <2>5. CASE MissedRelease(k)
    BY <2>5 DEF MissedRelease, Reaches, GestureAfter, HookTypes
  <2>6. CASE MissedDown(k)
    <3>1. /\ phys' = phys \union {k} /\ os' = os \union {k} /\ gesture' \in BOOLEAN
          /\ slipped' \subseteq slipped \union {k} /\ fresh' = FALSE
          /\ UNCHANGED <<lost, flag, recording, winLeaked, noted>>
      BY <2>6 DEF MissedDown, Reaches, GestureAfter, HookTypes, hook
    <3> QED
      BY <3>1 DEF HookTypes
  <2> QED
    BY <2>1, <2>2, <2>3, <2>4, <2>5, <2>6 DEF UserKey
<1>2. CASE Forwarding \/ TargetReads \/ UserCopies \/ Tick \/ UNCHANGED vars
  <2>1. UNCHANGED <<keyboard, hook>>
    BY <1>2 DEF Forwarding, Forwarder, ForwardDown, ForwardUp, ForwardCommand, CycleStyleLoad,
                CycleStyleStore, TargetReads, UserCopies, Tick, vars, khvars
  <2> QED
    BY <2>1 DEF HookTypes, keyboard, hook
<1>3. CASE SendKey
  <2>1. Head(script) \in Event
    <3>1. script \in Seq(Event) /\ script # <<>>
      BY <1>3 DEF SendKey, NothingStuck, Event
    <3> QED
      BY <3>1, TailIsNext
  <2>2. os' \subseteq os \union OurKeys /\ gesture' = (gesture /\ ~Head(script).down)
        /\ UNCHANGED <<phys, fresh, lost, slipped, hook>>
    BY <1>3 DEF SendKey, OurKeys
  <2> QED
    BY <2>2, OwnKeysAssumption DEF HookTypes, hook, OurKeys
<1>4. CASE Injecting /\ ~SendKey
  <2>1. CASE InjectBegin
    BY <2>1 DEF InjectBegin, HookTypes, keyboard
  <2>2. CASE ~InjectBegin
    <3>1. UNCHANGED <<keyboard, hook>>
      BY <1>4, <2>2 DEF Injecting, TakeOther, TypeUnicode, SaveClipboard, SetClipboard,
                  SetClipboardFails, DecideKeys, KeysSent, Restore, khvars
    <3> QED
      BY <3>1 DEF HookTypes, keyboard, hook
  <2> QED
    BY <2>1, <2>2
<1> QED
  BY <1>1, <1>2, <1>3, <1>4 DEF Next

Requests == {"utterance", "mode", "quit"}
ForwarderTypes ==
    /\ loaded \subseteq 0..(StyleCount - 1) /\ style \in 0..(StyleCount - 1)
    /\ listening \in BOOLEAN /\ hold \in BOOLEAN
    /\ waiting \in Seq(Requests)

LEMMA ForwarderTypesStep == ASSUME ForwarderTypes, [Next]_vars PROVE ForwarderTypes'
<1> USE DEF ForwarderTypes
<1>1. CASE Typing \/ TargetReads \/ UserCopies \/ Tick \/ UNCHANGED vars
  <2>1. UNCHANGED <<forwarder, waiting>>
    BY <1>1 DEF Typing, UserKey, Press, Repeat, Release, MissedRelease, MissedDown, TargetReads,
                UserCopies, Tick, vars, khvars
  <2> QED
    BY <2>1 DEF forwarder
<1>2. CASE ForwardDown \/ ForwardUp
  <2>1. waiting' = waiting \/ waiting' = Append(waiting, "utterance")
    BY <1>2 DEF ForwardDown, ForwardUp, Send
  <2>2. "utterance" \in Requests
    BY DEF Requests
  <2>3. waiting' \in Seq(Requests)
    BY <2>1, <2>2
  <2> QED
    BY <1>2, <2>3 DEF ForwardDown, ForwardUp
<1>3. CASE ForwardCommand
  <2>1. PICK i \in DOMAIN Chords : Chords[i].action \in {"mode", "quit"} /\ Send(Chords[i].action)
    BY <1>3 DEF ForwardCommand
  <2>2. waiting' \in Seq(Requests)
    BY <2>1 DEF Send, Requests
  <2> QED
    BY <1>3, <2>2 DEF ForwardCommand, forwarder
<1>4. CASE CycleStyleLoad
  <2>1. (style + 1) % StyleCount \in 0..(StyleCount - 1)
    BY BoundAssumption
  <2> QED
    BY <1>4, <2>1 DEF CycleStyleLoad
<1>5. CASE CycleStyleStore
  BY <1>5 DEF CycleStyleStore
<1>6. CASE Injecting
  <2>1. UNCHANGED forwarder /\ (waiting' = waiting \/ (waiting # <<>> /\ waiting' = Tail(waiting)))
    BY <1>6 DEF Injecting, InjectBegin, TakeOther, TypeUnicode, SaveClipboard, SetClipboard,
                SetClipboardFails, DecideKeys, SendKey, KeysSent, Restore, khvars
  <2> QED
    BY <2>1 DEF forwarder
<1> QED
  BY <1>1, <1>2, <1>3, <1>4, <1>5, <1>6 DEF Next, Forwarding, Forwarder

\* The routes not tried yet are the end of a chain, and while the injector works
\* there is one; what it gives back it has saved.
Rest(s) == \E c \in Chains : \E i \in DOMAIN c : s = SubSeq(c, i, Len(c))
InjectorTypes ==
    /\ clip \in Clips /\ owner \in Owned
    /\ inserted \subseteq [for : 1..MaxPastes, got : Clips]
    /\ chain = <<>> \/ Rest(chain)
    /\ pc \in {"idle", "save", "set", "decide", "send", "restore"}
    /\ pc \in {"save", "set"} => chain # <<>>
    /\ pc # "idle" => pastes # 0
    /\ saved \in Clips \union {None}
    /\ pc = "restore" => saved # None
    /\ slept \in 0..Settle /\ due \subseteq 1..MaxPastes /\ age \in [1..MaxPastes -> 0..Lag]
    /\ copied \in 0..MaxPastes /\ failed \in BOOLEAN
    /\ pastes \in 0..MaxPastes /\ strokes \in 0..MaxStrokes

LEMMA ClipsNamed ==
    /\ Owned \subseteq Clips /\ Nothing \in Clips
    /\ Mine \in Owned /\ Newer \in Owned /\ Image \in Owned
    /\ \A n \in 1..MaxPastes : Said(n) \in Clips
BY DEF Clips, Owned

LEMMA ChainsAreSequences ==
    \A c \in Chains : c # <<>> /\ Len(c) \in Nat \ {0} /\ DOMAIN c = 1..Len(c)
                      /\ c \in Seq({"paste", "alt", "unicode"})
<1>1. \A S : \A c \in Seq(S) \ {<<>>} : c # <<>> /\ Len(c) \in Nat \ {0} /\ DOMAIN c = 1..Len(c)
  OBVIOUS
<1> QED
  BY <1>1, ChainAssumption

LEMMA WholeChain == \A c \in Chains : Rest(c)
<1> SUFFICES ASSUME NEW c \in Chains PROVE Rest(c)
  OBVIOUS
<1>1. c \in Seq({"paste", "alt", "unicode"}) /\ 1 \in DOMAIN c /\ Len(c) \in Nat \ {0}
  BY ChainsAreSequences
<1>2. c = SubSeq(c, 1, Len(c))
  BY <1>1
<1> QED
  BY <1>1, <1>2 DEF Rest

LEMMA TailOfRest == ASSUME Rest(chain) PROVE Tail(chain) = <<>> \/ Rest(Tail(chain))
<1>0. PICK c \in Chains : \E i \in DOMAIN c : chain = SubSeq(c, i, Len(c))
  BY DEF Rest
<1>1. PICK i \in DOMAIN c : chain = SubSeq(c, i, Len(c))
  BY <1>0
<1>2. c \in Seq({"paste", "alt", "unicode"}) /\ Len(c) \in Nat \ {0} /\ i \in 1..Len(c)
      /\ DOMAIN c = 1..Len(c)
  BY <1>1, ChainsAreSequences
<1>3. CASE i = Len(c)
  BY <1>1, <1>2, <1>3
<1>4. CASE i < Len(c)
  <2>1. Tail(chain) = SubSeq(c, i + 1, Len(c))
    BY <1>1, <1>2, <1>4
  <2>2. i + 1 \in DOMAIN c
    BY <1>2, <1>4
  <2> QED
    BY <2>1, <2>2, Zenon DEF Rest
<1> QED
  BY <1>2, <1>3, <1>4

LEMMA InjectorTypesStep == ASSUME InjectorTypes, [Next]_vars PROVE InjectorTypes'
<1> USE DEF InjectorTypes
<1>0. /\ MaxPastes \in Nat /\ MaxStrokes \in Nat /\ Lag \in Nat /\ Settle \in Nat
      /\ (pc # "idle" => pastes \in 1..MaxPastes /\ Said(pastes) \in Clips)
  BY PasteBoundAssumption, TimeAssumption, ClipsNamed
<1>1. CASE Typing
  <2>1. UNCHANGED injector /\ strokes < MaxStrokes /\ strokes' = strokes + 1
    BY <1>1 DEF Typing
  <2>2. strokes' \in 0..MaxStrokes
    BY <1>0, <2>1
  <2> QED
    BY <2>1, <2>2 DEF injector, timing, history, Rest
<1>2. CASE (Forwarding \/ TakeOther) /\ UNCHANGED strokes
  BY <1>2 DEF Forwarding, TakeOther, injector, timing, history, Rest
<1>3. CASE InjectBegin /\ UNCHANGED strokes
  <2>1. chain' \in Chains /\ chain' # <<>> /\ Rest(chain)'
    BY <1>3, ChainsAreSequences, WholeChain DEF InjectBegin, Rest
  <2>2. pastes' \in 1..MaxPastes /\ pc' = "save"
    BY <1>0, <1>3 DEF InjectBegin
  <2>3. UNCHANGED <<clip, saved, timing, history>>
    BY <1>3 DEF InjectBegin
  <2> QED
    BY <1>3, <2>1, <2>2, <2>3 DEF timing, history
<1>4. CASE TypeUnicode /\ UNCHANGED strokes
  <2>1. /\ inserted' = inserted \union {[for |-> pastes, got |-> Said(pastes)]}
        /\ pc' = "idle" /\ chain' = <<>>
        /\ UNCHANGED <<clip, saved, slept, due, age, pastes, owner, copied, failed>>
    BY <1>4 DEF TypeUnicode, timing
  <2>2. [for |-> pastes, got |-> Said(pastes)] \in [for : 1..MaxPastes, got : Clips]
    BY <1>0, <1>4 DEF TypeUnicode
  <2> QED
    BY <1>4, <2>1, <2>2
<1>5. CASE SaveClipboard /\ UNCHANGED strokes
  BY <1>5 DEF SaveClipboard, CanGet, timing, Rest
<1>6. CASE SetClipboard /\ UNCHANGED strokes
  BY <1>0, <1>6 DEF SetClipboard, SetTo, timing, history, Rest
<1>7. CASE SetClipboardFails /\ UNCHANGED strokes
  <2>1. chain' = Tail(chain) /\ Rest(chain) /\ chain # <<>>
    BY <1>7 DEF SetClipboardFails
  <2>2. chain' = <<>> \/ Rest(chain)'
    BY <2>1, TailOfRest DEF Rest
  <2>3. pc' = "save" => chain' # <<>>
    <3>1. chain \in Seq({"paste", "alt", "unicode"})
      <4>0. PICK c \in Chains : \E i \in DOMAIN c : chain = SubSeq(c, i, Len(c))
        BY <2>1 DEF Rest
      <4>1. PICK i \in DOMAIN c : chain = SubSeq(c, i, Len(c))
        BY <4>0
      <4>2. c \in Seq({"paste", "alt", "unicode"}) /\ i \in 1..Len(c)
        BY <4>1, ChainsAreSequences
      <4> QED
        BY <4>1, <4>2
    <3>2. Len(Tail(chain)) = Len(chain) - 1 /\ Len(chain) \in Nat
      BY <2>1, <3>1
    <3> QED
      BY <1>7, <2>1, <3>2 DEF SetClipboardFails
  <2> QED
    BY <1>7, <2>2, <2>3, ClipsNamed DEF SetClipboardFails, FailedSet, timing
<1>8. CASE (DecideKeys \/ KeysSent) /\ UNCHANGED strokes
  BY <1>8 DEF DecideKeys, KeysSent, timing, history, Rest
<1>9. CASE SendKey /\ UNCHANGED strokes
  <2>1. /\ due' \subseteq due \union {pastes} /\ pc = "send"
        /\ UNCHANGED <<clip, chain, pc, saved, slept, age, pastes, owner, inserted, copied, failed>>
    BY <1>9 DEF SendKey, history
  <2> QED
    BY <1>0, <1>9, <2>1 DEF Rest
<1>10. CASE Restore /\ UNCHANGED strokes
  <2>1. /\ clip' \in {clip, saved, Nothing} /\ (failed' = failed \/ failed' = TRUE)
        /\ saved # None /\ pc' = "idle" /\ chain' = <<>> /\ saved' = None /\ slept' = 0
        /\ UNCHANGED <<due, age, pastes, owner, inserted, copied>>
    BY <1>10 DEF Restore, SetTo, FailedSet
  <2>2. clip' \in Clips
    BY <2>1, ClipsNamed
  <2>3. failed' \in BOOLEAN
    BY <2>1
  <2>4. slept' \in 0..Settle /\ UNCHANGED strokes
    BY <1>0, <1>10, <2>1
  <2> QED
    BY <2>1, <2>2, <2>3, <2>4
<1>11. CASE TargetReads /\ UNCHANGED strokes
  <2>1. PICK n \in due :
          /\ inserted' = inserted \union {[for |-> n, got |-> clip]}
          /\ due' = due \ {n}
          /\ age' = [age EXCEPT ![n] = 0]
    BY <1>11 DEF TargetReads
  <2>2. inserted' \subseteq [for : 1..MaxPastes, got : Clips]
    BY <2>1
  <2>3. age' \in [1..MaxPastes -> 0..Lag]
    BY <1>0, <2>1
  <2> QED
    BY <1>11, <2>1, <2>2, <2>3 DEF TargetReads, Rest
<1>12. CASE UserCopies /\ UNCHANGED strokes
  <2>1. /\ clip' = Newer /\ owner' = Newer /\ copied' \in {copied, pastes}
        /\ UNCHANGED <<chain, pc, saved, timing, pastes, inserted, failed>>
    BY <1>12 DEF UserCopies
  <2>2. copied' \in 0..MaxPastes /\ Newer \in Clips \intersect Owned
    BY <2>1, ClipsNamed
  <2> QED
    BY <1>12, <2>1, <2>2 DEF timing, Rest
<1>13. CASE Tick /\ UNCHANGED strokes
  <2>1. age' \in [1..MaxPastes -> 0..Lag]
    <3>1. \A n \in due : age[n] + 1 \in 0..Lag
      BY <1>0, <1>13 DEF Tick
    <3>2. age' = [n \in 1..MaxPastes |-> IF n \in due THEN age[n] + 1 ELSE age[n]]
      BY <1>13 DEF Tick
    <3> QED
      BY <3>1, <3>2
  <2>2. slept' \in 0..Settle
    BY <1>0, <1>13 DEF Tick
  <2> QED
    BY <1>13, <2>1, <2>2 DEF Tick, history, Rest
<1>14. CASE UNCHANGED vars
  BY <1>14 DEF vars, injector, timing, history, Rest
<1> QED
  BY <1>1, <1>2, <1>3, <1>4, <1>5, <1>6, <1>7, <1>8, <1>9, <1>10, <1>11, <1>12, <1>13, <1>14
     DEF Next, Injecting

LEMMA InjectorTypesInvariant == Spec => []InjectorTypes
<1>1. Init => InjectorTypes
  <2>1. /\ 0 \in 0..MaxPastes /\ 0 \in 0..MaxStrokes /\ 0 \in 0..Settle
        /\ [n \in 1..MaxPastes |-> 0] \in [1..MaxPastes -> 0..Lag]
    BY PasteBoundAssumption, TimeAssumption
  <2>2. ASSUME Init
        PROVE  /\ pc = "idle" /\ saved = None /\ chain = <<>> /\ inserted = {}
               /\ slept = 0 /\ due = {} /\ age = [n \in 1..MaxPastes |-> 0]
               /\ copied = 0 /\ failed = FALSE /\ pastes = 0 /\ strokes = 0
               /\ clip \in Owned /\ owner = clip
    BY <2>2, ClipsNamed DEF Init
  <2> QED
    BY <2>1, <2>2, ClipsNamed DEF InjectorTypes
<1>2. InjectorTypes /\ [Next]_vars => InjectorTypes'
  BY InjectorTypesStep
<1> QED
  BY <1>1, <1>2, PTL DEF Spec

(* Every variable stays in its range, for every keyboard, list of chords    *)
(* and chains of routes: the hook and the forwarder agree on what an event  *)
(* is, the injector has a route to try as long as it works, and what it     *)
(* gives back is something it saved.                                        *)
THEOREM TypeInvariant == Spec => []TypeOK
<1>1. Init => HookTypes /\ ForwarderTypes
  <2>1. <<>> \in Seq(Requests) /\ {} \subseteq 0..(StyleCount - 1) /\ 0 \in 0..(StyleCount - 1)
    BY BoundAssumption
  <2>2. Init => HookTypes
    BY DEF Init, KHInit, HookTypes
  <2>3. Init => ForwarderTypes
    BY <2>1, Zenon DEF Init, KHInit, ForwarderTypes
  <2> QED
    BY <2>2, <2>3
<1>2. HookTypes /\ NothingStuck /\ [Next]_vars => HookTypes'
  BY HookTypesStep
<1>3. ForwarderTypes /\ [Next]_vars => ForwarderTypes'
  BY ForwarderTypesStep
<1>5. HookTypes /\ ForwarderTypes /\ InjectorTypes /\ NothingStuck /\ Latched /\ Queued => TypeOK
  <2> SUFFICES ASSUME HookTypes, ForwarderTypes, InjectorTypes, NothingStuck, Latched, Queued
               PROVE  TypeOK
    OBVIOUS
  <2>1. KHTypeOK
    BY DEF HookTypes, ForwarderTypes, Latched, Queued, KHTypeOK, HotkeyEvents, Requests
  <2>2. script \in Seq([key : {"V", "Insert", CtrlKey, ShiftKey}, down : BOOLEAN])
    <3>1. Event = [key : {"V", "Insert", CtrlKey, ShiftKey}, down : BOOLEAN]
      <4>1. {"V", "Insert"} \union OurKeys = {"V", "Insert", CtrlKey, ShiftKey}
        BY DEF OurKeys
      <4> QED
        BY <4>1 DEF Event
    <3> QED
      BY <3>1 DEF NothingStuck
  <2> QED
    BY <2>1, <2>2, Zenon DEF InjectorTypes, Rest, TypeOK
<1> QED
  BY <1>1, <1>2, <1>3, <1>5, InjectorTypesInvariant, NothingStuckInvariant, LatchedInvariant,
     QueuedInvariant, PTL DEF Spec
----------------------------------------------------------------------------
(* The clipboard.                                                          *)

\* What a target that still has to read would get, and had got, is the dictation
\* it was asked for or something newer; and the sleep of a paste ages whatever is
\* still due, so that nothing is left when it is over.
Fresh ==
    /\ \A r \in inserted : UpToDate(r.for, r.got)
    /\ \A n \in due : n <= pastes /\ UpToDate(n, clip)
    /\ pc \in {"decide", "send"} => UpToDate(pastes, clip)
Aged ==
    /\ pc # "restore" => slept = 0
    /\ pc = "restore" => \A n \in due : slept <= age[n]
Fed == copied <= pastes /\ Aged /\ (Lag < Settle => Fresh)

\* The user's text is on the clipboard or in the injector's hands.
Kept ==
    /\ pc # "idle" => pastes # 0
    /\ ~failed /\ copied = 0 /\ Text(owner) =>
        /\ pc \in {"idle", "save", "set"} => clip = owner
        /\ pc \in {"set", "decide", "send", "restore"} => saved = owner /\ saved # None

LEMMA ContentsNamed ==
    /\ \A n : Said(n).what = "said" /\ Said(n).utt = n
    /\ Mine # None /\ Newer # None /\ Image # None /\ Nothing # None
    /\ \A n : Said(n) # None
BY DEF Said, Mine, Newer, Image, Nothing, None, Content

\* What was up to date stays so: later failures and copies only excuse more.
LEMMA StaysUpToDate ==
    ASSUME NEW n \in Nat, NEW c, UpToDate(n, c), copied \in Nat, copied' \in Nat,
           copied <= copied', failed => failed'
    PROVE  UpToDate(n, c)'
BY DEF UpToDate, Newer, Content, Nothing

LEMMA AgedStep ==
    ASSUME InjectorTypes, copied <= pastes, Aged, [Next]_vars
    PROVE  Aged' /\ copied' <= pastes'
<1> USE DEF Aged
<1>0. /\ pastes \in Nat /\ copied \in Nat /\ slept \in Nat /\ due \subseteq 1..MaxPastes
      /\ \A n \in due : age[n] \in Nat
  BY DEF InjectorTypes
<1>1. CASE Typing \/ Forwarding \/ TakeOther \/ UNCHANGED vars
  BY <1>1 DEF Typing, Forwarding, TakeOther, vars, injector, timing, history
<1>2. CASE InjectBegin
  BY <1>0, <1>2 DEF InjectBegin, timing, history
<1>3. CASE TypeUnicode \/ SaveClipboard \/ SetClipboardFails
  BY <1>3 DEF TypeUnicode, SaveClipboard, SetClipboardFails, timing
<1>4. CASE SetClipboard \/ DecideKeys \/ SendKey
  BY <1>4 DEF SetClipboard, DecideKeys, SendKey, timing, history
<1>5. CASE KeysSent
  BY <1>0, <1>5 DEF KeysSent, timing, history
<1>6. CASE Restore
  BY <1>6 DEF Restore
<1>7. CASE TargetReads
  <2>1. PICK n \in due : due' = due \ {n} /\ age' = [age EXCEPT ![n] = 0]
    BY <1>7 DEF TargetReads
  <2>2. \A m \in due' : age'[m] = age[m]
    BY <2>1 DEF InjectorTypes
  <2> QED
    BY <1>7, <2>1, <2>2 DEF TargetReads
<1>8. CASE UserCopies
  BY <1>0, <1>8 DEF UserCopies, timing
<1>9. CASE Tick
  <2>1. \A n \in due : age'[n] = age[n] + 1
    BY <1>0, <1>9 DEF Tick
  <2>2. /\ slept' = IF pc = "restore" /\ slept < Settle THEN slept + 1 ELSE slept
        /\ UNCHANGED <<pc, due, pastes, copied>>
    BY <1>9 DEF Tick, history
  <2> QED
    BY <1>0, <2>1, <2>2
<1> QED
  BY <1>1, <1>2, <1>3, <1>4, <1>5, <1>6, <1>7, <1>8, <1>9 DEF Next, Injecting

\* At the restore nothing is due any more: what was due would be older than Lag.
LEMMA NothingDueAtRestore ==
    ASSUME InjectorTypes, Aged, Lag < Settle, Restore
    PROVE  due = {}
<1>1. ASSUME NEW n \in due PROVE FALSE
  <2>1. age[n] \in 0..Lag /\ slept <= age[n] /\ slept = Settle
    BY <1>1 DEF InjectorTypes, Aged, Restore
  <2> QED
    BY <2>1, TimeAssumption
<1> QED
  BY <1>1

LEMMA FreshStep ==
    ASSUME InjectorTypes, copied <= pastes, Aged, Lag < Settle, Fresh, [Next]_vars
    PROVE  Fresh'
<1>0. /\ pastes \in Nat /\ copied \in Nat /\ due \subseteq Nat
      /\ \A r \in inserted : r.for \in Nat
  BY DEF InjectorTypes
\* A step that only excuses more, inserts nothing and leaves the clipboard alone.
<1>a. ASSUME copied' \in Nat, copied <= copied', failed => failed', inserted' = inserted
      PROVE  \A r \in inserted' : UpToDate(r.for, r.got)'
  BY <1>0, <1>a, StaysUpToDate DEF Fresh
<1>b. ASSUME UNCHANGED <<clip, copied, failed, pastes>>, due' \subseteq due
      PROVE  \A n \in due' : n <= pastes' /\ UpToDate(n, clip)'
  BY <1>b DEF Fresh, UpToDate
<1>1. CASE Typing \/ Forwarding \/ TakeOther \/ UNCHANGED vars
  <2>1. UNCHANGED injector
    BY <1>1 DEF Typing, Forwarding, TakeOther, vars
  <2> QED
    BY <2>1 DEF injector, timing, history, Fresh, UpToDate
<1>2. CASE InjectBegin
  <2>1. /\ UNCHANGED <<clip, due, inserted, copied, failed>>
        /\ pc' = "save" /\ pastes' = pastes + 1
    BY <1>2 DEF InjectBegin, timing, history
  <2>2. \A n \in due' : n <= pastes' /\ UpToDate(n, clip)'
    <3>1. ASSUME NEW n \in due' PROVE n <= pastes'
      BY <1>0, <2>1, <3>1 DEF Fresh
    <3>2. ASSUME NEW n \in due' PROVE UpToDate(n, clip)'
      BY <2>1, <3>2 DEF Fresh, UpToDate
    <3> QED
      BY <3>1, <3>2
  <2>3. \A r \in inserted' : UpToDate(r.for, r.got)'
    BY <1>0, <1>a, <2>1
  <2> QED
    BY <2>1, <2>2, <2>3 DEF Fresh
<1>3. CASE TypeUnicode
  <2>1. /\ inserted' = inserted \union {[for |-> pastes, got |-> Said(pastes)]} /\ pc' = "idle"
        /\ UNCHANGED <<clip, due, pastes, copied, failed>>
    BY <1>3 DEF TypeUnicode, timing
  <2>2. UpToDate(pastes, Said(pastes))'
    BY <1>0, <2>1, ContentsNamed DEF UpToDate
  <2>3. \A r \in inserted : UpToDate(r.for, r.got)'
    BY <2>1 DEF Fresh, UpToDate
  <2>4. \A r \in inserted' : UpToDate(r.for, r.got)'
    BY <2>1, <2>2, <2>3
  <2> QED
    BY <1>b, <2>1, <2>4 DEF Fresh
<1>4. CASE SaveClipboard
  <2>1. /\ UNCHANGED <<clip, due, pastes, inserted, copied>> /\ pc' = "set"
        /\ (failed => failed')
    BY <1>4 DEF SaveClipboard, timing
  <2>2. \A n \in due' : n <= pastes' /\ UpToDate(n, clip)'
    BY <1>0, <2>1, StaysUpToDate DEF Fresh, UpToDate
  <2> QED
    BY <1>0, <1>a, <2>1, <2>2 DEF Fresh
<1>5. CASE SetClipboard
  <2>1. /\ clip' = Said(pastes) /\ pc' = "decide"
        /\ UNCHANGED <<due, pastes, inserted, copied, failed>>
    BY <1>5 DEF SetClipboard, SetTo, timing, history
  <2>2. \A n \in Nat : n <= pastes => UpToDate(n, clip)'
    BY <2>1, ContentsNamed DEF UpToDate
  <2> QED
    BY <1>0, <1>a, <2>1, <2>2 DEF Fresh
<1>6. CASE SetClipboardFails
  <2>1. /\ clip' \in {clip, Nothing} /\ failed' = TRUE /\ pc' \in {"save", "idle"}
        /\ UNCHANGED <<due, pastes, inserted, copied>>
    BY <1>6 DEF SetClipboardFails, FailedSet, timing
  <2>2. \A n \in due' : n <= pastes' /\ UpToDate(n, clip)'
    BY <2>1 DEF Fresh, UpToDate
  <2> QED
    BY <1>0, <1>a, <2>1, <2>2 DEF Fresh
<1>7. CASE DecideKeys
  <2>1. UNCHANGED <<clip, due, pastes, inserted, copied, failed>> /\ pc = "decide"
    BY <1>7 DEF DecideKeys, timing, history
  <2>2. UpToDate(pastes, clip)'
    BY <2>1 DEF Fresh, UpToDate
  <2> QED
    BY <1>0, <1>a, <1>b, <2>1, <2>2 DEF Fresh
<1>8. CASE SendKey
  <2>1. /\ UNCHANGED <<clip, pc, pastes, inserted, copied, failed>> /\ pc = "send"
        /\ due' \subseteq due \union {pastes}
    BY <1>8 DEF SendKey, history
  <2>2. UpToDate(pastes, clip)'
    BY <2>1 DEF Fresh, UpToDate
  <2>3. \A n \in due : n <= pastes' /\ UpToDate(n, clip)'
    BY <2>1 DEF Fresh, UpToDate
  <2>4. \A n \in due' : n <= pastes' /\ UpToDate(n, clip)'
    BY <1>0, <2>1, <2>2, <2>3
  <2> QED
    BY <1>0, <1>a, <2>1, <2>2, <2>4 DEF Fresh
<1>9. CASE KeysSent
  <2>1. UNCHANGED <<clip, due, pastes, inserted, copied, failed>> /\ pc' \in {"idle", "restore"}
    BY <1>9 DEF KeysSent, timing, history
  <2> QED
    BY <1>0, <1>a, <1>b, <2>1 DEF Fresh
<1>10. CASE Restore
  <2>1. /\ UNCHANGED <<due, inserted, copied>> /\ (failed => failed') /\ pc' = "idle"
    BY <1>10 DEF Restore
  <2>2. due' = {}
    BY <1>10, <2>1, NothingDueAtRestore
  <2> QED
    BY <1>0, <1>a, <2>1, <2>2 DEF Fresh
<1>11. CASE TargetReads
  <2>1. PICK n \in due :
          /\ inserted' = inserted \union {[for |-> n, got |-> clip]}
          /\ due' = due \ {n}
    BY <1>11 DEF TargetReads
  <2>2. UNCHANGED <<clip, pc, pastes, copied, failed>>
    BY <1>11 DEF TargetReads
  <2>3. UpToDate(n, clip)' /\ (\A r \in inserted : UpToDate(r.for, r.got)')
    BY <2>1, <2>2 DEF Fresh, UpToDate
  <2>4. \A r \in inserted' : UpToDate(r.for, r.got)'
    <3>1. ASSUME NEW r \in {[for |-> n, got |-> clip]} PROVE UpToDate(r.for, r.got)'
      BY <2>2, <2>3, <3>1 DEF UpToDate
    <3> QED
      BY <2>1, <2>3, <3>1
  <2>5. pc' \in {"decide", "send"} => UpToDate(pastes, clip)'
    BY <2>2 DEF Fresh, UpToDate
  <2> QED
    BY <1>b, <2>1, <2>2, <2>4, <2>5 DEF Fresh
<1>12. CASE UserCopies
  <2>1. /\ clip' = Newer /\ UNCHANGED <<pc, due, pastes, inserted, failed>>
        /\ copied' = IF pc # "idle" \/ due # {} THEN pastes ELSE copied
    BY <1>12 DEF UserCopies, timing
  <2>2. copied' \in Nat /\ copied <= copied'
    BY <1>0, <2>1
  <2>3. \A n \in due' : n <= pastes' /\ UpToDate(n, clip)'
    BY <2>1 DEF Fresh, UpToDate
  <2>4. pc' \in {"decide", "send"} => UpToDate(pastes, clip)'
    BY <1>0, <2>1 DEF UpToDate
  <2> QED
    BY <1>a, <2>1, <2>2, <2>3, <2>4 DEF Fresh
<1>13. CASE Tick
  <2>1. UNCHANGED <<clip, pc, due, pastes, inserted, copied, failed>>
    BY <1>13 DEF Tick, history
  <2> QED
    BY <2>1 DEF Fresh, UpToDate
<1> QED
  BY <1>1, <1>2, <1>3, <1>4, <1>5, <1>6, <1>7, <1>8, <1>9, <1>10, <1>11, <1>12, <1>13
     DEF Next, Injecting

LEMMA FedInvariant == Spec => []Fed
<1>1. Init => Fed
  BY DEF Init, Fed, Aged, Fresh
<1>2. InjectorTypes /\ Fed /\ [Next]_vars => Fed'
  BY AgedStep, FreshStep DEF Fed
<1> QED
  BY <1>1, <1>2, InjectorTypesInvariant, PTL DEF Spec

(* If targets read a paste sooner than clipboard_paste restores the        *)
(* clipboard, whatever a target inserts is the dictation it was asked to   *)
(* paste or newer, for every chain of routes, every failing clipboard call *)
(* and every copy of the user's (clipboard_paste).                         *)
THEOREM PastesAreFresh == Spec => []NeverStalePaste
<1>1. Fed => NeverStalePaste
  BY DEF Fed, Fresh, NeverStalePaste
<1> QED
  BY <1>1, FedInvariant, PTL

LEMMA KeptInvariant == Spec => []Kept
<1>1. Init => Kept
  BY DEF Init, Kept
<1>2. ASSUME Kept, owner # None, pastes \in Nat, [Next]_vars PROVE Kept'
  <2>1. CASE Typing \/ Forwarding \/ TakeOther \/ UNCHANGED vars
    <3>1. UNCHANGED injector
      BY <2>1 DEF Typing, Forwarding, TakeOther, vars
    <3> QED
      BY <1>2, <3>1 DEF injector, history, Kept, Text
  <2>2. CASE InjectBegin
    <3>1. pc = "idle" /\ pc' = "save" /\ pastes' # 0 /\ UNCHANGED <<clip, history>>
      BY <1>2, <2>2 DEF InjectBegin
    <3> QED
      BY <1>2, <3>1 DEF history, Kept, Text
  <2>3. CASE TypeUnicode
    BY <1>2, <2>3 DEF TypeUnicode, Kept, Text
  <2>4. CASE SaveClipboard
    BY <1>2, <2>4 DEF SaveClipboard, CanGet, Kept, Text
  <2>5. CASE SetClipboard
    BY <1>2, <2>5 DEF SetClipboard, history, Kept, Text
  <2>6. CASE SetClipboardFails
    BY <1>2, <2>6 DEF SetClipboardFails, Kept, Text
  <2>7. CASE DecideKeys
    BY <1>2, <2>7 DEF DecideKeys, history, Kept, Text
  <2>8. CASE SendKey
    BY <1>2, <2>8 DEF SendKey, history, Kept, Text
  <2>9. CASE KeysSent
    BY <1>2, <2>9 DEF KeysSent, history, Kept, Text
  <2>10. CASE Restore
    BY <1>2, <2>10 DEF Restore, SetTo, Kept, Text
  <2>11. CASE TargetReads
    BY <1>2, <2>11 DEF TargetReads, Kept, Text
  <2>12. CASE UserCopies
    BY <1>2, <2>12 DEF UserCopies, Kept, Text
  <2>13. CASE Tick
    BY <1>2, <2>13 DEF Tick, history, Kept, Text
  <2> QED
    BY <1>2, <2>1, <2>2, <2>3, <2>4, <2>5, <2>6, <2>7, <2>8, <2>9, <2>10, <2>11, <2>12, <2>13
       DEF Next, Injecting
<1>3. InjectorTypes => owner # None /\ pastes \in Nat
  BY ContentsNamed DEF InjectorTypes, Owned
<1> QED
  BY <1>1, <1>2, <1>3, InjectorTypesInvariant, PTL DEF Spec

(* Text the user copied is there again whenever the injector is done, for   *)
(* every chain of routes (clipboard_paste and the fallback over it).       *)
THEOREM ClipboardComesBack == Spec => []ClipboardGivenBack
<1>1. Kept => ClipboardGivenBack
  BY DEF Kept, ClipboardGivenBack
<1> QED
  BY <1>1, KeptInvariant, PTL

=============================================================================
