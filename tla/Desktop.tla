------------------------------ MODULE Desktop ------------------------------
(***************************************************************************)
(* The injector at work while the user keeps typing: the keyboard hook of  *)
(* KeyHook, the clipboard that every application shares, the keys the      *)
(* injector sends one by one, and a target that reads the clipboard when   *)
(* it comes round to the paste.  Time passes in an action of its own.      *)
(***************************************************************************)
EXTENDS KeyHook

CONSTANTS
    Chains,     \* the route chains default_routes hands out
    CtrlKey, ShiftKey, \* the keys send_vk(VK_CONTROL), send_vk(VK_SHIFT) stand for,
                       \* which are keys of the keyboard like any other
    Lag,        \* ticks within which a target has read the clipboard
    Settle,     \* ticks of the 150 ms that clipboard_paste sleeps
    MaxPastes,  \* bound: utterances injected
    MaxStrokes  \* bound: key events of the user

ASSUME ChainAssumption == Chains \subseteq Seq({"paste", "alt", "unicode"}) \ {<<>>}
ASSUME OwnKeysAssumption == {CtrlKey, ShiftKey} \subseteq Keys
ASSUME TimeAssumption == Lag \in Nat /\ Settle \in Nat
ASSUME PasteBoundAssumption == MaxPastes \in Nat /\ MaxStrokes \in Nat

\* What the clipboard can hold: the user's text, what the user copies later, the
\* text of one utterance, something that is not text, nothing.
Content(what, utt) == [what |-> what, utt |-> utt]
Mine == Content("mine", 0)
Newer == Content("newer", 0)
Image == Content("image", 0)
Nothing == Content("nothing", 0)
Said(utt) == Content("said", utt)
Owned == {Mine, Newer, Image}
Clips == Owned \union {Nothing} \union {Said(n) : n \in 1..MaxPastes}
None == Content("none", 0)

VARIABLES
    clip,      \* the clipboard
    chain,     \* routes not tried yet, the current one first
    pc,        \* where inject_with_fallback stands
    saved,     \* clipboard_paste's copy of the user's text
    script,    \* key events clipboard_paste has still to send
    slept,     \* ticks of its sleep that are over
    due,       \* utterances whose paste the target got and has not carried out yet
    age,       \* ticks since the target got each of them
    pastes,    \* utterances taken
    strokes,   \* key events so far
    \* history
    owner,     \* what the user last put on the clipboard
    inserted,  \* what the target inserted for each utterance
    copied,    \* the utterance during whose paste the user copied something, or 0
    failed     \* a clipboard call of the injector failed

timing == <<slept, due, age>>
history == <<owner, inserted, copied, failed>>
injector == <<clip, chain, pc, saved, script, timing, pastes, history>>
vars == <<khvars, injector, strokes>>

TypeOK ==
    /\ KHTypeOK
    /\ clip \in Clips /\ owner \in Owned
    /\ inserted \subseteq [for : 1..MaxPastes, got : Clips]
    /\ chain = <<>> \/ \E c \in Chains : \E i \in DOMAIN c : chain = SubSeq(c, i, Len(c))
    /\ pc \in {"idle", "save", "set", "decide", "send", "restore"}
    /\ saved \in Clips \union {None}
    /\ script \in Seq([key : {"V", "Insert", CtrlKey, ShiftKey}, down : BOOLEAN])
    /\ slept \in 0..Settle /\ due \subseteq 1..MaxPastes /\ age \in [1..MaxPastes -> 0..Lag]
    /\ copied \in 0..MaxPastes /\ failed \in BOOLEAN
    /\ pastes \in 0..MaxPastes /\ strokes \in 0..MaxStrokes

Init ==
    /\ KHInit
    /\ clip \in {Mine, Image} /\ owner = clip
    /\ chain = <<>> /\ pc = "idle" /\ saved = None /\ script = <<>>
    /\ slept = 0 /\ due = {} /\ age = [n \in 1..MaxPastes |-> 0]
    /\ pastes = 0 /\ strokes = 0
    /\ inserted = {} /\ copied = 0 /\ failed = FALSE

----------------------------------------------------------------------------
(* clipboard_get_text, clipboard_set_text: opening can fail five times in a *)
(* row, and setting can fail after the clipboard was emptied.              *)

Text(c) == c \notin {Image, Nothing}
CanGet(s) == s = (IF Text(clip) THEN clip ELSE None)
SetTo(t) == clip' = t
FailedSet == clip' \in {clip, Nothing}

----------------------------------------------------------------------------
(* inject_with_fallback over Win32Injector::inject                         *)

\* The next utterance, which may come while a slow target still has to read.
InjectBegin ==
    /\ pc = "idle" /\ pastes < MaxPastes
    /\ waiting # <<>> /\ Head(waiting) = "utterance"
    /\ waiting' = Tail(waiting)
    /\ chain' \in Chains
    /\ pc' = "save"
    /\ pastes' = pastes + 1
    /\ noted' = FALSE
    /\ UNCHANGED <<keyboard, flag, armed, recording, winLeaked, fired, events, forwarder>>
    /\ UNCHANGED <<clip, saved, script, timing, history>>

\* Commands, and utterances that come to nothing, leave the injector alone.
TakeOther ==
    /\ pc = "idle"
    /\ waiting # <<>>
    /\ waiting' = Tail(waiting)
    /\ UNCHANGED <<keyboard, hook, events, forwarder, injector>>

TypeUnicode ==
    /\ pc = "save" /\ Head(chain) = "unicode"
    /\ inserted' = inserted \union {[for |-> pastes, got |-> Said(pastes)]}
    /\ pc' = "idle" /\ chain' = <<>>
    /\ UNCHANGED <<khvars, clip, saved, script, timing, pastes, owner, copied, failed>>

SaveClipboard ==
    /\ pc = "save" /\ Head(chain) # "unicode"
    /\ \/ CanGet(saved') /\ failed' = failed
       \/ saved' = None /\ failed' = TRUE
    /\ pc' = "set"
    /\ UNCHANGED <<khvars, clip, chain, script, timing, pastes, owner, inserted, copied>>

\* Mutant: the user's text is saved when ours is already there.
SaveTooLate ==
    /\ pc = "set"
    /\ SetTo(Said(pastes)) /\ saved' = Said(pastes)
    /\ pc' = "decide"
    /\ UNCHANGED <<khvars, chain, script, timing, pastes, history>>

SetClipboard ==
    /\ pc = "set"
    /\ SetTo(Said(pastes))
    /\ pc' = "decide"
    /\ UNCHANGED <<khvars, chain, saved, script, timing, pastes, history>>

\* The text never got onto the clipboard: fall through to the next route.
SetClipboardFails ==
    /\ pc = "set"
    /\ FailedSet
    /\ failed' = TRUE
    /\ chain' = Tail(chain)
    /\ pc' = IF Len(chain) > 1 THEN "save" ELSE "idle"
    /\ saved' = None
    /\ UNCHANGED <<khvars, script, timing, pastes, owner, inserted, copied>>

DownUp(k) == <<[key |-> k, down |-> TRUE], [key |-> k, down |-> FALSE]>>
Around(k, s) == <<[key |-> k, down |-> TRUE]>> \o s \o <<[key |-> k, down |-> FALSE]>>

\* The Ctrl flag is read once; the keys follow.
DecideKeys ==
    /\ pc = "decide"
    /\ script' = IF Head(chain) = "alt" THEN Around(ShiftKey, DownUp("Insert"))
                 ELSE IF "ctrl" \in flag THEN DownUp("V") ELSE Around(CtrlKey, DownUp("V"))
    /\ pc' = "send"
    /\ UNCHANGED <<khvars, clip, chain, saved, timing, pastes, history>>

\* The target takes Ctrl+V and Shift+Insert for a paste, nothing else.
IsPaste(k) == \/ k = "V" /\ ModsDown = {"ctrl"}
              \/ k = "Insert" /\ ModsDown = {"shift"}

\* send_vk: the hook lets a tagged event pass untouched.
SendKey ==
    /\ pc = "send" /\ script # <<>>
    /\ LET e == Head(script)
       IN  /\ IF e.key \in {CtrlKey, ShiftKey}
              THEN os' = IF e.down THEN os \union {e.key} ELSE os \ {e.key}
              ELSE os' = os
           /\ gesture' = (gesture /\ ~e.down)
           /\ due' = due \union {n \in {pastes} : e.down /\ IsPaste(e.key)}
    /\ script' = Tail(script)
    /\ UNCHANGED <<phys, fresh, lost, slipped, hook, events, forwarder, waiting>>
    /\ UNCHANGED <<clip, chain, pc, saved, slept, age, pastes, history>>

KeysSent ==
    /\ pc = "send" /\ script = <<>>
    /\ pc' = IF saved = None THEN "idle" ELSE "restore"
    /\ chain' = IF saved = None THEN <<>> ELSE chain
    /\ UNCHANGED <<khvars, clip, saved, script, timing, pastes, history>>

\* Mutant: no sleep before the restore.
RestoreAtOnce ==
    /\ pc = "restore"
    /\ \/ SetTo(saved) /\ failed' = failed
       \/ FailedSet /\ failed' = TRUE
    /\ pc' = "idle" /\ chain' = <<>> /\ saved' = None /\ slept' = 0
    /\ UNCHANGED <<khvars, script, due, age, pastes, owner, inserted, copied>>

\* The sleep is over, and nobody looks whether the target has read.  Whether the
\* restore works is ignored.
Restore ==
    /\ pc = "restore" /\ slept = Settle
    /\ \/ SetTo(saved) /\ failed' = failed
       \/ FailedSet /\ failed' = TRUE
    /\ pc' = "idle" /\ chain' = <<>> /\ saved' = None /\ slept' = 0
    /\ UNCHANGED <<khvars, script, due, age, pastes, owner, inserted, copied>>

----------------------------------------------------------------------------
(* The target and the user.                                                *)

TargetReads ==
    /\ \E n \in due :
        /\ inserted' = inserted \union {[for |-> n, got |-> clip]}
        /\ due' = due \ {n}
        /\ age' = [age EXCEPT ![n] = 0]
    /\ UNCHANGED <<khvars, clip, chain, pc, saved, script, slept, pastes, owner, copied, failed>>

UserCopies ==
    /\ owner # Newer
    /\ clip' = Newer /\ owner' = Newer
    /\ copied' = IF pc # "idle" \/ due # {} THEN pastes ELSE copied
    /\ UNCHANGED <<khvars, chain, pc, saved, script, timing, pastes, inserted, failed>>

\* Time passes where it matters: no target takes longer than Lag, and sleep may
\* take longer than it was asked to.
Tick ==
    /\ pc = "restore" \/ due # {}
    /\ \A n \in due : age[n] < Lag
    /\ age' = [n \in 1..MaxPastes |-> IF n \in due THEN age[n] + 1 ELSE age[n]]
    /\ slept' = IF pc = "restore" /\ slept < Settle THEN slept + 1 ELSE slept
    /\ UNCHANGED <<khvars, clip, chain, pc, saved, script, due, pastes, history>>

Typing ==
    /\ strokes < MaxStrokes /\ strokes' = strokes + 1
    /\ \E k \in Touched : UserKey(k)
    /\ UNCHANGED injector
Forwarding == Forwarder /\ UNCHANGED injector
Injecting ==
    \/ InjectBegin \/ TakeOther \/ TypeUnicode \/ SaveClipboard \/ SetClipboard
    \/ SetClipboardFails \/ DecideKeys \/ SendKey \/ KeysSent \/ Restore

Next == \/ Typing
        \/ (Forwarding \/ Injecting \/ TargetReads \/ UserCopies \/ Tick) /\ UNCHANGED strokes

Spec == Init /\ [][Next]_vars

----------------------------------------------------------------------------
(* A hold never outlives the keys: when the hook judges a key going down or *)
(* up, it records only if every group of the binding is physically down,   *)
(* whatever key-ups it missed before and whatever it swallowed.  While the *)
(* injector holds a Ctrl of its own the healing can be deceived.           *)
HoldNeedsKeys ==
    [][phys' # phys /\ fresh' /\ recording' /\ pc # "send" =>
       \A g \in Ptt : \E k \in phys' : Group[k] = g]_vars

(* Swallowing key-downs, passing key-ups and sending keys of its own never *)
(* leaves a modifier stuck: with nothing held and nothing being sent, the  *)
(* system takes every key to be up.                                        *)
NoStuckKey == phys = {} /\ pc # "send" => os = {}

(* A latch never outlives its key: a chord is armed only while its main key *)
(* is down, except for a key whose key-up the hook never saw.              *)
LatchFollowsKey == \A i \in armed : Chords[i].key \in phys \union lost

(* One press of a chord, however long it repeats and whichever modifiers   *)
(* come and go meanwhile, is one command.                                  *)
FiresOnce ==
    [][\A i \in DOMAIN Chords : i \in fired => events' # Append(events, Chord(i))]_vars

(* While a hold records, letting Win go does not open the Start menu, in   *)
(* whichever order the keys of the binding went down and repeat, unless a  *)
(* key-down of that Win got past the hook.                                 *)
SlippedWin == \E k \in slipped : Group[k] = "win"
HoldMasksWin == recording => ~gesture \/ SlippedWin

(* A target that reads within the 150 ms never inserts anything older than *)
(* the dictation it was asked to paste - not what the user had on the      *)
(* clipboard, not the utterance before - whatever the next utterance does  *)
(* meanwhile.  It may get what the user copied during the paste, or        *)
(* nothing if a call of the injector failed after emptying the clipboard.  *)
UpToDate(n, c) ==
    \/ c.what = "said" /\ n <= c.utt
    \/ c = Newer /\ n <= copied
    \/ c = Nothing /\ failed
NeverStalePaste == Lag < Settle => \A r \in inserted : UpToDate(r.for, r.got)

(* Whatever the route, text the user had copied is on the clipboard again  *)
(* when the injector is done, unless a clipboard call failed or the user   *)
(* copied something meanwhile.                                             *)
ClipboardGivenBack == pc = "idle" /\ ~failed /\ copied = 0 /\ Text(owner) => clip = owner

(* inject.rs: "Ctrl already held -> bare V": V always finds Ctrl down.     *)
PasteFindsCtrl ==
    [][pc = "send" /\ script # <<>> /\ script' = Tail(script)
       /\ Head(script) = [key |-> "V", down |-> TRUE] => Down("ctrl")]_vars
=============================================================================
