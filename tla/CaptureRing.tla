---------------------------- MODULE CaptureRing ----------------------------
(***************************************************************************)
(* The look-back ring of crates/nib-audio and the three threads that share *)
(* it: the audio callback that pushes samples and trims, the hotkey        *)
(* forwarder that freezes the range of a hold at key-event time without    *)
(* taking the lock, and the pipeline thread that copies a frozen range out *)
(* under the lock, possibly long after the release.                        *)
(*                                                                         *)
(* One action is what one thread does between two points where the others  *)
(* can be seen to interleave: an access to an atomic, or a locked section. *)
(* A sample is its own absolute index, so the content of the ring is       *)
(* visible and `base = total - len` is checked instead of assumed.         *)
(***************************************************************************)
EXTENDS Naturals, Sequences, Functions

CONSTANTS
    Preroll,        \* length of the look-back, in samples
    Chunks,         \* sizes of one callback's chunk
    MaxTotal,       \* bound: samples the microphone produces in a run
    MaxHolds,       \* bound: key-downs in a run
    MaxSlip         \* most samples pushed between the load and the last store
                    \* of one begin_utterance

ASSUME PrerollAssumption == Preroll \in Nat
ASSUME ChunksAssumption == Chunks \subseteq Nat
ASSUME BoundsAssumption == MaxTotal \in Nat /\ MaxHolds \in Nat /\ MaxSlip \in Nat

VARIABLES
    buf,        \* Shared.buf, a sequence of absolute sample indices
    total,      \* Shared.total_samples
    recStart,   \* Shared.rec_start_abs
    recording,  \* Shared.recording
    pending,    \* Shared.pending
    cb,         \* where the callback is; it owns the lock unless "idle"
    fwd,        \* where the forwarder is
    start,      \* the forwarder's local in begin_utterance
    pipe,       \* where the pipeline thread is in take_raw
    released,   \* utterances sent on the channel so far
    delivered,  \* the samples copied out for each of them so far
    down,       \* history: samples heard when the current hold began
    slip,       \* history: samples pushed inside its begin_utterance
    presses     \* history: key-downs so far

ringVars == <<buf, total, recStart, recording, pending>>
histVars == <<down, slip, presses>>
vars == <<ringVars, cb, fwd, start, pipe, released, delivered, histVars>>

\* usize::saturating_sub
SatSub(a, b) == IF a >= b THEN a - b ELSE 0

LesserOf(a, b) == IF a <= b THEN a ELSE b
GreaterOf(a, b) == IF a >= b THEN a ELSE b

\* Absolute index of the oldest sample kept, as take_raw computes it.
Base == total - Len(buf)

Utterances == [start : Nat, end : Nat, down : Nat, slip : Nat]

TypeOK ==
    /\ buf \in Seq(Nat)
    /\ total \in Nat
    /\ recStart \in Nat
    /\ recording \in BOOLEAN
    /\ pending \in Nat
    /\ cb \in {"idle", "loadRecording", "loadPending"}
    /\ fwd \in {"idle", "begin", "held", "clear", "freeze"}
    /\ start \in Nat
    /\ pipe \in {"idle", "copied"}
    /\ released \in Seq(Utterances)
    /\ delivered \in Seq(Seq(Nat))
    /\ down \in Nat
    /\ slip \in Nat
    /\ presses \in Nat

Init ==
    /\ buf = <<>>
    /\ total = 0
    /\ recStart = 0
    /\ recording = FALSE
    /\ pending = 0
    /\ cb = "idle"
    /\ fwd = "idle"
    /\ start = 0
    /\ pipe = "idle"
    /\ released = <<>>
    /\ delivered = <<>>
    /\ down = 0
    /\ slip = 0
    /\ presses = 0

-----------------------------------------------------------------------------
(* The audio callback.                                                     *)

\* Lock, push every frame, add the count under the lock.
CbPush ==
    /\ cb = "idle"
    /\ \E n \in Chunks :
         /\ total + n <= MaxTotal
         /\ fwd = "begin" => slip + n <= MaxSlip
         /\ buf' = buf \o [i \in 1..n |-> total + i - 1]
         /\ total' = total + n
         /\ slip' = IF fwd = "begin" THEN slip + n ELSE slip
    /\ cb' = "loadRecording"
    /\ UNCHANGED <<recStart, recording, pending, fwd, start, pipe, released,
                   delivered, down, presses>>

\* trim_if_idle reads `recording` first; when it is set, the lock is released.
CbLoadRecording ==
    /\ cb = "loadRecording"
    /\ cb' = IF recording THEN "idle" ELSE "loadPending"
    /\ UNCHANGED <<ringVars, fwd, start, pipe, released, delivered, histVars>>

\* Mutant: the trim looks at `recording` alone.
TrimIgnoringPending == SubSeq(buf, SatSub(Len(buf), Preroll) + 1, Len(buf))

\* Mutant: the trim keeps the front of the ring instead of its end.
TrimNewest == IF pending = 0 THEN SubSeq(buf, 1, LesserOf(Preroll, Len(buf))) ELSE buf

\* ... then `pending`; with nothing pending the ring is cut back to the look-back.
TrimIfIdle ==
    IF pending = 0
    THEN SubSeq(buf, SatSub(Len(buf), Preroll) + 1, Len(buf))
    ELSE buf

CbLoadPending ==
    /\ cb = "loadPending"
    /\ buf' = TrimIfIdle
    /\ cb' = "idle"
    /\ UNCHANGED <<total, recStart, recording, pending, fwd, start, pipe,
                   released, delivered, histVars>>

-----------------------------------------------------------------------------
(* The hotkey forwarder: begin, end and cancel, none of which locks.       *)

\* PttDown: load total_samples ...
BeginLoad ==
    /\ fwd = "idle"
    /\ presses < MaxHolds
    /\ start' = SatSub(total, Preroll)
    /\ fwd' = "begin"
    /\ down' = total
    /\ slip' = 0
    /\ presses' = presses + 1
    /\ UNCHANGED <<ringVars, cb, pipe, released, delivered>>

\* Mutant: begin_utterance freezes the start and never raises the flag.
BeginStoreNoFlag ==
    /\ fwd = "begin"
    /\ recStart' = start
    /\ fwd' = "held"
    /\ UNCHANGED <<buf, total, recording, pending, cb, start, pipe, released,
                   delivered, histVars>>

\* ... store rec_start_abs and then `recording`; only the second is read by
\* another thread.
BeginStore ==
    /\ fwd = "begin"
    /\ recStart' = start
    /\ recording' = TRUE
    /\ fwd' = "held"
    /\ UNCHANGED <<buf, total, pending, cb, start, pipe, released, delivered,
                   histVars>>

\* Mutant: the release never counts as pending.
EndCountLost ==
    /\ fwd = "held"
    /\ fwd' = "clear"
    /\ UNCHANGED <<ringVars, cb, start, pipe, released, delivered, histVars>>

\* PttUp: count the utterance as pending before clearing `recording`.
EndCount ==
    /\ fwd = "held"
    /\ pending' = pending + 1
    /\ fwd' = "clear"
    /\ UNCHANGED <<buf, total, recStart, recording, cb, start, pipe, released,
                   delivered, histVars>>

EndClear ==
    /\ fwd = "clear"
    /\ recording' = FALSE
    /\ fwd' = "freeze"
    /\ UNCHANGED <<buf, total, recStart, pending, cb, start, pipe, released,
                   delivered, histVars>>

\* Freeze the range and send it to the pipeline.
EndFreeze ==
    /\ fwd = "freeze"
    /\ released' = Append(released, [start |-> recStart, end |-> total,
                                     down |-> down, slip |-> slip])
    /\ fwd' = "idle"
    /\ UNCHANGED <<ringVars, cb, start, pipe, delivered, histVars>>

\* Mutant: an abandoned hold is counted like a release.
CancelCounted ==
    /\ fwd = "held"
    /\ pending' = pending + 1
    /\ recording' = FALSE
    /\ fwd' = "idle"
    /\ UNCHANGED <<buf, total, recStart, cb, start, pipe, released, delivered,
                   histVars>>

\* Mutant: an abandoned hold leaves the flag raised.
CancelStuck ==
    /\ fwd = "held"
    /\ fwd' = "idle"
    /\ UNCHANGED <<ringVars, cb, start, pipe, released, delivered, histVars>>

\* Cancel: no range, nothing becomes pending.
Cancel ==
    /\ fwd = "held"
    /\ recording' = FALSE
    /\ fwd' = "idle"
    /\ UNCHANGED <<buf, total, recStart, pending, cb, start, pipe, released,
                   delivered, histVars>>

-----------------------------------------------------------------------------
(* The pipeline thread: take_raw on the oldest utterance of the channel.   *)

\* Mutant: the start is read from rec_start_abs when the copy is made.
SliceLiveStart(u) ==
    LET s == LesserOf(SatSub(recStart, Base), Len(buf))
        e == LesserOf(SatSub(u.end, Base), Len(buf))
    IN  SubSeq(buf, s + 1, GreaterOf(e, s))

\* Under the lock: map the frozen range into the ring, clamp it, copy it.
Slice(u) ==
    LET s == LesserOf(SatSub(u.start, Base), Len(buf))
        e == LesserOf(SatSub(u.end, Base), Len(buf))
    IN  SubSeq(buf, s + 1, GreaterOf(e, s))

TakeCopy ==
    /\ pipe = "idle"
    /\ cb = "idle"
    /\ Len(delivered) < Len(released)
    /\ delivered' = Append(delivered, Slice(released[Len(delivered) + 1]))
    /\ pipe' = "copied"
    /\ UNCHANGED <<ringVars, cb, fwd, start, released, histVars>>

\* After unlocking: let the callback trim again.
TakeRelease ==
    /\ pipe = "copied"
    /\ pending' = pending - 1
    /\ pipe' = "idle"
    /\ UNCHANGED <<buf, total, recStart, recording, cb, fwd, start, released,
                   delivered, histVars>>

-----------------------------------------------------------------------------
Callback == CbPush \/ CbLoadRecording \/ CbLoadPending
Forwarder == BeginLoad \/ BeginStore \/ EndCount \/ EndClear \/ EndFreeze \/ Cancel
Taker == TakeCopy \/ TakeRelease

Next == Callback \/ Forwarder \/ Taker

Spec == Init /\ [][Next]_vars

(***************************************************************************)
(* The device keeps calling back, a thread that is inside a function       *)
(* finishes it, and the pipeline comes back for the next utterance and     *)
(* gets the lock, which the callback gives up after every chunk.  Nothing  *)
(* makes the user press or release a key.                                  *)
(***************************************************************************)
FairSpec ==
    /\ Spec
    /\ WF_vars(Callback)
    /\ WF_vars(BeginStore) /\ WF_vars(EndClear) /\ WF_vars(EndFreeze)
    /\ SF_vars(TakeCopy) /\ WF_vars(TakeRelease)

-----------------------------------------------------------------------------
(* Properties.                                                             *)

\* s is a gap-free stretch of samples whose last one is just before hi.
Window(s, hi) ==
    /\ Len(s) <= hi
    /\ \A i \in 1..Len(s) : s[i] = hi - Len(s) + i - 1

\* Oldest sample the ring may have lost for a hold that began after d samples
\* with s more pushed inside begin_utterance.
Clip(d, s) == SatSub(d + s, Preroll)

(***************************************************************************)
(* The pending counter is exactly the number of utterances released or     *)
(* being released whose copy has not been given back: neither a cancel nor *)
(* a burst of taps leaks a hold on the ring or drops one early.            *)
(***************************************************************************)
PendingBalanced ==
    pending = (Len(released) - Len(delivered))
              + (IF fwd \in {"clear", "freeze"} THEN 1 ELSE 0)
              + (IF pipe = "copied" THEN 1 ELSE 0)

(***************************************************************************)
(* The comment on Shared: `base = total - buf.len()` is a stable mapping   *)
(* from absolute indices to ring offsets.  The ring holds the most recent  *)
(* samples, consecutive, and never less of them than the look-back.        *)
(***************************************************************************)
StableMapping ==
    /\ Window(buf, total)
    /\ Len(buf) >= LesserOf(total, Preroll)

(***************************************************************************)
(* "It never trims audio an un-taken utterance still needs", with the      *)
(* begin_utterance race made precise: for the hold in progress and for     *)
(* every utterance not copied yet, the ring still starts at or before the  *)
(* look-back point moved forward by what was pushed inside the race.       *)
(***************************************************************************)
LossBounded ==
    /\ fwd # "idle" => Base <= Clip(down, slip)
    /\ \A j \in Len(delivered) + 1 .. Len(released) :
         Base <= Clip(released[j].down, released[j].slip)

(***************************************************************************)
(* What a take hands over is a gap-free stretch that ends exactly at the   *)
(* frozen end, never reaches back before the frozen start, and starts no   *)
(* later than the bound above, whatever was pushed, begun or cancelled     *)
(* while the utterance waited for a busy pipeline.                         *)
(***************************************************************************)
DeliveredExact ==
    \A j \in 1..Len(delivered) :
        LET u == released[j]
            d == delivered[j]
        IN  /\ Window(d, u.end)
            /\ u.start <= u.end - Len(d)
            /\ u.end - Len(d) <= Clip(u.down, u.slip)

(***************************************************************************)
(* An utterance whose begin_utterance was not overtaken by more than the   *)
(* look-back is handed over with every sample from key-down to key-up.     *)
(***************************************************************************)
SpeechKept ==
    \A j \in 1..Len(delivered) :
        released[j].slip <= Preroll =>
            released[j].down .. (released[j].end - 1) \subseteq Range(delivered[j])

(***************************************************************************)
(* What the three threads know of each other, and of the history: the      *)
(* strengthening that makes the invariants above inductive.  A callback    *)
(* that read `recording` before begin_utterance raised it still owns the   *)
(* lock, so nothing was pushed since.                                      *)
(***************************************************************************)
ThreadsAgree ==
    /\ recording <=> fwd \in {"held", "clear"}
    /\ fwd = "begin" => start = SatSub(down, Preroll) /\ total = down + slip
    /\ fwd \in {"held", "clear", "freeze"} => recStart = SatSub(down, Preroll)
    /\ fwd = "held" /\ cb = "loadPending" => total = down + slip
    /\ fwd # "idle" => down + slip <= total
    /\ Len(delivered) <= Len(released)
    /\ \A j \in 1..Len(released) :
         /\ released[j].start = SatSub(released[j].down, Preroll)
         /\ released[j].down + released[j].slip <= released[j].end
         /\ released[j].end <= total

(***************************************************************************)
(* Once no key is held, the ring goes back to the look-back unless a key   *)
(* is pressed again: no history of holds and cancels makes it grow for     *)
(* good.                                                                   *)
(***************************************************************************)
RingShrinks == (fwd = "idle") ~> (Len(buf) <= Preroll \/ fwd # "idle")

(***************************************************************************)
(* Capture implements PushToTalk: every completed hold is handed over      *)
(* once, in order and eventually, complete from key-down to key-up but for *)
(* what begin_utterance slipped by more than the look-back.                *)
(***************************************************************************)
PTT == INSTANCE PushToTalk WITH
    Slack <- SatSub(MaxSlip, Preroll),
    heard <- total,
    hold <- IF fwd = "idle" THEN {} ELSE {down},
    holds <- [j \in 1..Len(released) |->
                [down |-> released[j].down, up |-> released[j].end]],
    audio <- [j \in 1..Len(delivered) |-> Range(delivered[j])]

Implements == PTT!FairSpec

(***************************************************************************)
(* PRIVACY.md: "The microphone is captured locally into a fixed-size       *)
(* in-memory ring buffer": at most the look-back and one callback's chunk. *)
(***************************************************************************)
FixedSizeRing == \A n \in Chunks : (\A m \in Chunks : m <= n) => Len(buf) <= Preroll + n
=============================================================================
