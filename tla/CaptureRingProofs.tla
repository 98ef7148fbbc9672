------------------------- MODULE CaptureRingProofs -------------------------
(***************************************************************************)
(* Proofs about CaptureRing for every look-back length, chunk size, bound  *)
(* and delay of begin_utterance.                                           *)
(***************************************************************************)
EXTENDS CaptureRing, SequenceTheorems, TLAPS

USE PrerollAssumption, ChunksAssumption, BoundsAssumption

\* What a cut of x samples down to at most p removes and leaves.
LEMMA CutSize ==
    ASSUME NEW x \in Nat, NEW p \in Nat
    PROVE  /\ SatSub(x, p) \in 0..x
           /\ x - SatSub(x, p) = LesserOf(x, p)
<1>1. SatSub(x, p) \in 0..x
  BY DEF SatSub
<1>2. x - SatSub(x, p) = LesserOf(x, p)
  BY DEF SatSub, LesserOf
<1> QED
  BY <1>1, <1>2

\* Pushing n samples onto a window that ends at t makes one that ends at t + n.
LEMMA WindowGrow ==
    ASSUME NEW s \in Seq(Nat), NEW t \in Nat, NEW n \in Nat, Window(s, t)
    PROVE  LET r == s \o [i \in 1..n |-> t + i - 1]
           IN  /\ r \in Seq(Nat)
               /\ Len(r) = Len(s) + n
               /\ Window(r, t + n)
<1> DEFINE c == [i \in 1..n |-> t + i - 1]
           r == s \o c
<1>1. c \in Seq(Nat) /\ Len(c) = n /\ \A i \in 1..n : c[i] = t + i - 1
  OBVIOUS
<1> HIDE DEF c
<1>2. /\ r \in Seq(Nat)
      /\ Len(r) = Len(s) + n
      /\ \A i \in 1..Len(s) + n : r[i] = IF i <= Len(s) THEN s[i] ELSE c[i - Len(s)]
  BY <1>1, ConcatProperties
<1> HIDE DEF r
<1>3. ASSUME NEW i \in 1..Len(r)
      PROVE  r[i] = (t + n) - Len(r) + i - 1
  <2>1. Len(s) \in Nat /\ i \in Nat /\ i <= Len(s) + n
    BY <1>2
  <2>2. CASE i <= Len(s)
    <3>1. i \in 1..Len(s) /\ i \in 1..Len(s) + n
      BY <2>1, <2>2
    <3>2. s[i] = t - Len(s) + i - 1
      BY <3>1 DEF Window
    <3>3. r[i] = s[i]
      BY <1>2, <2>2, <3>1
    <3> QED
      BY <1>2, <2>1, <3>2, <3>3
  <2>3. CASE i > Len(s)
    <3>1. i - Len(s) \in 1..n
      BY <2>1, <2>3
    <3>2. c[i - Len(s)] = t + (i - Len(s)) - 1
      BY <1>1, <3>1
    <3> QED
      BY <1>2, <2>1, <2>3, <3>2
  <2> QED
    BY <2>1, <2>2, <2>3
<1>4. Len(r) <= t + n
  BY <1>2 DEF Window
<1>5. Window(r, t + n)
  BY <1>3, <1>4 DEF Window
<1> QED
  BY <1>2, <1>5 DEF r, c

\* A subsequence of a window is a window that ends where the subsequence does.
LEMMA WindowCut ==
    ASSUME NEW s \in Seq(Nat), NEW t \in Nat, Window(s, t),
           NEW a \in 0..Len(s), NEW e \in a..Len(s)
    PROVE  /\ SubSeq(s, a + 1, e) \in Seq(Nat)
           /\ Len(SubSeq(s, a + 1, e)) = e - a
           /\ Window(SubSeq(s, a + 1, e), t - Len(s) + e)
<1>0. Len(s) \in Nat /\ a \in Nat /\ e \in Nat
  OBVIOUS
<1> DEFINE r == SubSeq(s, a + 1, e)
<1>1. \A i \in (a + 1)..e : s[i] \in Nat
  BY <1>0
<1>2. /\ r \in Seq(Nat)
      /\ Len(r) = e - a
      /\ \A i \in 1..e - a : r[i] = s[a + i]
  BY <1>0, <1>1, SubSeqProperties
<1> HIDE DEF r
<1>3. Window(r, t - Len(s) + e)
  BY <1>0, <1>2 DEF Window
<1> QED
  BY <1>2, <1>3 DEF r

-----------------------------------------------------------------------------
(* Types and the pending counter.                                          *)

\* The numbers every step computes with.
LEMMA Numbers ==
    ASSUME TypeOK
    PROVE  /\ Len(buf) \in Nat /\ Len(released) \in Nat /\ Len(delivered) \in Nat
           /\ pending \in Nat /\ total \in Nat /\ recStart \in Nat /\ start \in Nat
           /\ down \in Nat /\ slip \in Nat /\ Preroll \in Nat
<1>1. Len(buf) \in Nat
  BY DEF TypeOK
<1>2. Len(released) \in Nat
  BY DEF TypeOK
<1>3. Len(delivered) \in Nat
  BY DEF TypeOK
<1> QED
  BY <1>1, <1>2, <1>3 DEF TypeOK

Counted ==
    /\ TypeOK
    /\ PendingBalanced
    /\ Len(delivered) <= Len(released)

\* Slice always returns a stretch of the ring, whatever range it is given.
LEMMA SliceType ==
    ASSUME TypeOK, NEW u \in Utterances
    PROVE  Slice(u) \in Seq(Nat)
<1> DEFINE s == LesserOf(SatSub(u.start, Base), Len(buf))
           e == LesserOf(SatSub(u.end, Base), Len(buf))
<1>1. /\ Len(buf) \in Nat /\ total \in Nat
      /\ u.start \in Nat /\ u.end \in Nat
      /\ buf \in Seq(Nat)
  BY DEF TypeOK, Utterances
<1>2. s \in 0..Len(buf) /\ e \in 0..Len(buf)
  BY <1>1 DEF LesserOf, SatSub, Base
<1>3. \A i \in s + 1 .. GreaterOf(e, s) : buf[i] \in Nat
  BY <1>1, <1>2 DEF GreaterOf
<1>4. s + 1 \in Int /\ GreaterOf(e, s) \in Int
  BY <1>2 DEF GreaterOf
<1> HIDE DEF s, e
<1>5. SubSeq(buf, s + 1, GreaterOf(e, s)) \in Seq(Nat)
  BY <1>3, <1>4, SubSeqProperties
<1> QED
  BY <1>5 DEF Slice, s, e

\* The idle trim leaves a suffix of the ring, no shorter than the look-back
\* (or the whole ring when it is shorter than that).
LEMMA TrimWindow ==
    ASSUME TypeOK
    PROVE  /\ TrimIfIdle \in Seq(Nat)
           /\ Len(TrimIfIdle) = IF pending = 0 THEN LesserOf(Len(buf), Preroll)
                                 ELSE Len(buf)
           /\ Window(buf, total) => Window(TrimIfIdle, total)
<1>1. /\ Len(buf) \in Nat /\ buf \in Seq(Nat) /\ total \in Nat
      /\ \A i \in 1..Len(buf) : buf[i] \in Nat
  BY DEF TypeOK
<1>2. CASE pending # 0
  BY <1>1, <1>2 DEF TrimIfIdle
<1>3. CASE pending = 0
  <2> DEFINE a == SatSub(Len(buf), Preroll)
  <2>1. a \in 0..Len(buf) /\ Len(buf) - a = LesserOf(Len(buf), Preroll)
    BY <1>1, CutSize
  <2>2. TrimIfIdle = SubSeq(buf, a + 1, Len(buf))
    BY <1>3 DEF TrimIfIdle
  <2> HIDE DEF a
  <2>3. \A i \in (a + 1)..Len(buf) : buf[i] \in Nat
    BY <1>1, <2>1
  <2>4. /\ TrimIfIdle \in Seq(Nat)
        /\ Len(TrimIfIdle) = Len(buf) - a
    BY <1>1, <2>1, <2>2, <2>3, SubSeqProperties
  <2>5. ASSUME Window(buf, total) PROVE Window(TrimIfIdle, total)
    <3>1. Window(TrimIfIdle, total - Len(buf) + Len(buf))
      BY <1>1, <2>1, <2>2, <2>5, WindowCut
    <3>2. total - Len(buf) + Len(buf) = total
      BY <1>1
    <3> QED
      BY <3>1, <3>2
  <2> QED
    BY <1>3, <2>1, <2>4, <2>5
<1> QED
  BY <1>2, <1>3

LEMMA CountedInit == Init => Counted
<1> SUFFICES ASSUME Init PROVE Counted
  OBVIOUS
<1>1. Len(released) = 0 /\ Len(delivered) = 0
  BY DEF Init
<1>2. buf \in Seq(Nat) /\ released \in Seq(Utterances) /\ delivered \in Seq(Seq(Nat))
  BY EmptySeq DEF Init
<1>3. TypeOK
  BY <1>2 DEF Init, TypeOK
<1> QED
  BY <1>1, <1>3 DEF Init, Counted, PendingBalanced

LEMMA CountedStep == Counted /\ [Next]_vars => Counted'
<1> SUFFICES ASSUME Counted, [Next]_vars PROVE Counted'
  OBVIOUS
<1>0. /\ Len(released) \in Nat /\ Len(delivered) \in Nat
      /\ pending \in Nat /\ total \in Nat
  BY Numbers DEF Counted
<1> USE DEF Counted, PendingBalanced
<1>1. CASE CbPush
  <2>1. PICK n \in Chunks : /\ buf' = buf \o [i \in 1..n |-> total + i - 1]
                            /\ total' = total + n
                            /\ slip' = IF fwd = "begin" THEN slip + n ELSE slip
    BY <1>1 DEF CbPush
  <2>2. buf' \in Seq(Nat)
    <3>1. [i \in 1..n |-> total + i - 1] \in Seq(Nat)
      BY <1>0
    <3> QED
      BY <2>1, <3>1, ConcatProperties DEF TypeOK
  <2>3. total' \in Nat /\ slip' \in Nat
    BY <1>0, <2>1 DEF TypeOK
  <2>4. TypeOK'
    BY <1>1, <2>2, <2>3 DEF CbPush, TypeOK
  <2> QED
    BY <1>1, <2>4 DEF CbPush
<1>2. CASE CbLoadRecording
  BY <1>2 DEF CbLoadRecording, TypeOK, ringVars, histVars
<1>3. CASE CbLoadPending
  BY <1>3, TrimWindow DEF CbLoadPending, TypeOK, histVars
<1>4. CASE BeginLoad
  BY <1>4 DEF BeginLoad, TypeOK, ringVars, SatSub
<1>5. CASE BeginStore
  BY <1>5 DEF BeginStore, TypeOK, histVars
<1>6. CASE EndCount
  BY <1>0, <1>6 DEF EndCount, TypeOK, histVars
<1>7. CASE EndClear
  BY <1>7 DEF EndClear, TypeOK, histVars
<1>8. CASE EndFreeze
  <2> DEFINE u == [start |-> recStart, end |-> total, down |-> down, slip |-> slip]
  <2>1. u \in Utterances
    BY DEF TypeOK, Utterances
  <2> HIDE DEF u
  <2>2. released' = Append(released, u)
    BY <1>8 DEF EndFreeze, u
  <2>3. released' \in Seq(Utterances) /\ Len(released') = Len(released) + 1
    BY <2>1, <2>2 DEF TypeOK
  <2> QED
    BY <1>0, <1>8, <2>3 DEF EndFreeze, TypeOK, ringVars, histVars
<1>9. CASE Cancel
  BY <1>9 DEF Cancel, TypeOK, histVars
<1>10. CASE TakeCopy
  <2> DEFINE d == Slice(released[Len(delivered) + 1])
  <2>1. released[Len(delivered) + 1] \in Utterances
    BY <1>0, <1>10 DEF TakeCopy, TypeOK
  <2>2. d \in Seq(Nat)
    BY <2>1, SliceType
  <2>3. delivered' = Append(delivered, d)
    BY <1>10 DEF TakeCopy
  <2> HIDE DEF d
  <2>4. delivered' \in Seq(Seq(Nat)) /\ Len(delivered') = Len(delivered) + 1
    BY <2>2, <2>3 DEF TypeOK
  <2> QED
    BY <1>0, <1>10, <2>4 DEF TakeCopy, TypeOK, ringVars, histVars
<1>11. CASE TakeRelease
  BY <1>0, <1>11 DEF TakeRelease, TypeOK, histVars
<1>12. CASE UNCHANGED vars
  BY <1>12 DEF vars, ringVars, histVars, TypeOK
<1> QED
  BY <1>1, <1>2, <1>3, <1>4, <1>5, <1>6, <1>7, <1>8, <1>9, <1>10, <1>11, <1>12
     DEF Next, Callback, Forwarder, Taker

(***************************************************************************)
(* Every variable keeps its type: the ring, what was handed over, and the  *)
(* counters of the three threads (RingBuffer, CaptureController).          *)
(***************************************************************************)
THEOREM TypeInvariant == Spec => []TypeOK
<1>1. Counted => TypeOK
  BY DEF Counted
<1> QED
  BY <1>1, CountedInit, CountedStep, PTL DEF Spec

(***************************************************************************)
(* The pending counter stays exact: `fetch_sub` in take_raw never wraps    *)
(* below zero and no hold leaks.                                           *)
(***************************************************************************)
THEOREM PendingNeverLeaks == Spec => []PendingBalanced
<1>1. Counted => PendingBalanced
  BY DEF Counted
<1> QED
  BY <1>1, CountedInit, CountedStep, PTL DEF Spec

-----------------------------------------------------------------------------
(* The mapping from absolute indices to ring offsets.                      *)

LEMMA MappingStep == Counted /\ StableMapping /\ [Next]_vars => StableMapping'
<1> SUFFICES ASSUME Counted, StableMapping, [Next]_vars PROVE StableMapping'
  OBVIOUS
<1>0. /\ TypeOK /\ buf \in Seq(Nat)
      /\ Len(buf) \in Nat /\ total \in Nat /\ Preroll \in Nat
  BY Numbers DEF Counted, TypeOK
<1>1. CASE CbPush
  <2>1. PICK n \in Chunks : /\ buf' = buf \o [i \in 1..n |-> total + i - 1]
                            /\ total' = total + n
    BY <1>1 DEF CbPush
  <2>2. n \in Nat
    BY <2>1
  <2>3. Window(buf, total) /\ Len(buf) >= LesserOf(total, Preroll)
    BY DEF StableMapping
  <2>4. Len(buf') = Len(buf) + n /\ Window(buf', total + n)
    BY <1>0, <2>1, <2>2, <2>3, WindowGrow
  <2>5. Len(buf') >= LesserOf(total', Preroll)
    BY <1>0, <2>1, <2>2, <2>3, <2>4 DEF LesserOf
  <2> QED
    BY <2>1, <2>4, <2>5 DEF StableMapping, Window
<1>2. CASE CbLoadPending
  <2>1. buf' = TrimIfIdle /\ total' = total
    BY <1>2 DEF CbLoadPending
  <2>2. Window(buf', total)
    BY <1>0, <2>1, TrimWindow DEF StableMapping
  <2>3. Len(buf') >= LesserOf(total, Preroll)
    <3>1. Len(buf') = IF pending = 0 THEN LesserOf(Len(buf), Preroll) ELSE Len(buf)
      BY <1>0, <2>1, TrimWindow
    <3>2. Len(buf) >= LesserOf(total, Preroll) /\ Len(buf) <= total
      BY DEF StableMapping, Window
    <3> QED
      BY <1>0, <3>1, <3>2 DEF LesserOf
  <2> QED
    BY <2>1, <2>2, <2>3 DEF StableMapping, Window
<1>3. CASE UNCHANGED <<buf, total>>
  BY <1>3 DEF StableMapping, Window
<1> QED
  BY <1>1, <1>2, <1>3
     DEF Next, Callback, Forwarder, Taker, vars, ringVars, CbLoadRecording,
         BeginLoad, BeginStore, EndCount, EndClear, EndFreeze, Cancel,
         TakeCopy, TakeRelease

-----------------------------------------------------------------------------
(* What the forwarder and the callback know of each other.                 *)

LEMMA AgreeStep == Counted /\ ThreadsAgree /\ [Next]_vars => ThreadsAgree'
<1> SUFFICES ASSUME Counted, ThreadsAgree, [Next]_vars PROVE ThreadsAgree'
  OBVIOUS
<1>0. TypeOK /\ Len(delivered) <= Len(released)
  BY DEF Counted
<1>n. /\ Len(released) \in Nat /\ Len(delivered) \in Nat
      /\ total \in Nat /\ down \in Nat /\ slip \in Nat
      /\ \A j \in 1..Len(released) : released[j] \in Utterances
  BY <1>0, Numbers DEF TypeOK
<1> USE DEF ThreadsAgree
<1>1. CASE CbPush
  <2>1. PICK n \in Chunks : /\ total' = total + n
                            /\ slip' = IF fwd = "begin" THEN slip + n ELSE slip
    BY <1>1 DEF CbPush
  <2>2. n \in Nat
    BY <2>1
  <2>3. \A j \in 1..Len(released) : released[j].end <= total'
    BY <1>n, <2>1, <2>2 DEF Utterances
  <2> QED
    BY <1>1, <1>n, <2>1, <2>2, <2>3 DEF CbPush
<1>2. CASE CbLoadRecording
  BY <1>2, <1>n DEF CbLoadRecording, ringVars, histVars
<1>3. CASE CbLoadPending
  BY <1>3 DEF CbLoadPending, histVars
<1>4. CASE BeginLoad
  BY <1>4, <1>n DEF BeginLoad, ringVars
<1>5. CASE BeginStore
  BY <1>5, <1>n DEF BeginStore, histVars
<1>6. CASE EndCount
  BY <1>6 DEF EndCount, histVars
<1>7. CASE EndClear
  BY <1>7 DEF EndClear, histVars
<1>8. CASE EndFreeze
  <2> DEFINE u == [start |-> recStart, end |-> total, down |-> down, slip |-> slip]
  <2>1. /\ released' = Append(released, u)
        /\ fwd = "freeze" /\ fwd' = "idle"
        /\ UNCHANGED <<recording, total, delivered>>
    BY <1>8 DEF EndFreeze, ringVars
  <2>2. /\ u.start = SatSub(u.down, Preroll)
        /\ u.down + u.slip <= u.end
        /\ u.end <= total
    BY <1>n, <2>1
  <2> HIDE DEF u
  <2>3. /\ Len(released') = Len(released) + 1
        /\ \A j \in 1..Len(released) : released'[j] = released[j]
        /\ released'[Len(released) + 1] = u
    BY <1>0, <1>n, <2>1 DEF TypeOK
  <2>4. ASSUME NEW j \in 1..Len(released')
        PROVE  /\ released'[j].start = SatSub(released'[j].down, Preroll)
               /\ released'[j].down + released'[j].slip <= released'[j].end
               /\ released'[j].end <= total
    <3>1. CASE j = Len(released) + 1
      BY <2>2, <2>3, <3>1
    <3>2. CASE j \in 1..Len(released)
      BY <2>3, <3>2
    <3> QED
      BY <1>n, <2>3, <3>1, <3>2
  <2>5. Len(delivered) <= Len(released')
    BY <1>0, <1>n, <2>3
  <2> QED
    BY <2>1, <2>4, <2>5
<1>9. CASE Cancel
  BY <1>9 DEF Cancel, histVars
<1>10. CASE TakeCopy
  <2>1. Len(delivered') = Len(delivered) + 1
    BY <1>0, <1>10 DEF TakeCopy, TypeOK
  <2>2. Len(delivered') <= Len(released)
    BY <1>n, <1>10, <2>1 DEF TakeCopy
  <2> QED
    BY <1>10, <2>2 DEF TakeCopy, ringVars, histVars
<1>11. CASE TakeRelease
  BY <1>11 DEF TakeRelease, histVars
<1>12. CASE UNCHANGED vars
  BY <1>12 DEF vars, ringVars, histVars
<1> QED
  BY <1>1, <1>2, <1>3, <1>4, <1>5, <1>6, <1>7, <1>8, <1>9, <1>10, <1>11, <1>12
     DEF Next, Callback, Forwarder, Taker

-----------------------------------------------------------------------------
(* The loss bound.                                                         *)

\* Trimming to the look-back after t samples loses nothing a hold begun after
\* t samples may ask for.
LEMMA TrimPoint ==
    ASSUME NEW t \in Nat, NEW n \in Nat, NEW p \in Nat,
           n <= t, n >= LesserOf(t, p)
    PROVE  t - n <= SatSub(t, p)
BY DEF LesserOf, SatSub

LEMMA LossStep ==
    Counted /\ StableMapping /\ ThreadsAgree /\ LossBounded /\ [Next]_vars => LossBounded'
<1> SUFFICES ASSUME Counted, StableMapping, ThreadsAgree, LossBounded, [Next]_vars
             PROVE  LossBounded'
  OBVIOUS
<1>0. /\ TypeOK
      /\ Len(delivered) <= Len(released)
      /\ Len(buf) <= total
      /\ Len(buf) >= LesserOf(total, Preroll)
  BY DEF Counted, StableMapping, Window
<1>n. /\ Len(buf) \in Nat /\ Len(released) \in Nat /\ Len(delivered) \in Nat
      /\ pending \in Nat /\ total \in Nat /\ down \in Nat /\ slip \in Nat
      /\ Preroll \in Nat
  BY <1>0, Numbers
<1>1. CASE CbPush
  <2>1. PICK n \in Chunks : /\ buf' = buf \o [i \in 1..n |-> total + i - 1]
                            /\ total' = total + n
                            /\ slip' = IF fwd = "begin" THEN slip + n ELSE slip
    BY <1>1 DEF CbPush
  <2>2. n \in Nat
    BY <2>1
  <2>3. Len(buf') = Len(buf) + n
    BY <1>0, <2>1, <2>2, <1>n, WindowGrow DEF TypeOK, StableMapping
  <2>4. Base' = Base
    BY <1>n, <2>1, <2>2, <2>3 DEF Base
  <2>5. Clip(down, slip) <= Clip(down, slip')
    BY <1>n, <2>1, <2>2 DEF Clip, SatSub
  <2>6. UNCHANGED <<fwd, down, released, delivered>>
    BY <1>1 DEF CbPush
  <2>7. fwd # "idle" => Base' <= Clip(down, slip')
    <3>1. /\ Base \in Int /\ Clip(down, slip) \in Int
          /\ slip' \in Nat /\ Clip(down, slip') \in Int
      BY <1>n, <2>1, <2>2 DEF Base, Clip, SatSub
    <3>2. fwd # "idle" => Base <= Clip(down, slip)
      BY DEF LossBounded
    <3> QED
      BY <2>4, <2>5, <3>1, <3>2
  <2> QED
    BY <2>4, <2>6, <2>7 DEF LossBounded, Clip
<1>2. CASE CbLoadPending
  <2>1. /\ buf' = TrimIfIdle /\ cb = "loadPending"
        /\ UNCHANGED <<total, fwd, down, slip, released, delivered>>
    BY <1>2 DEF CbLoadPending, histVars
  <2>2. CASE pending # 0
    <3>1. buf' = buf
      BY <2>1, <2>2 DEF TrimIfIdle
    <3> QED
      BY <2>1, <3>1 DEF LossBounded, Base, Clip
  <2>3. CASE pending = 0
    <3>1. /\ Len(released) = Len(delivered)
          /\ fwd \in {"idle", "begin", "held"}
      <4>1. pending = (Len(released) - Len(delivered))
                      + (IF fwd \in {"clear", "freeze"} THEN 1 ELSE 0)
                      + (IF pipe = "copied" THEN 1 ELSE 0)
        BY DEF Counted, PendingBalanced
      <4> DEFINE c == IF fwd \in {"clear", "freeze"} THEN 1 ELSE 0
                 d == IF pipe = "copied" THEN 1 ELSE 0
      <4>c. c \in Nat /\ d \in Nat /\ (c = 0 => fwd \notin {"clear", "freeze"})
        OBVIOUS
      <4>2. Len(released) = Len(delivered) /\ c = 0
        <5> HIDE DEF c, d
        <5>1. pending = (Len(released) - Len(delivered)) + c + d
          BY <4>1 DEF c, d
        <5> QED
          BY <1>0, <1>n, <2>3, <4>c, <5>1
      <4> QED
        BY <1>0, <4>2, <4>c DEF TypeOK
    <3>2. fwd # "idle" => total = down + slip
      <4>1. fwd = "begin" => total = down + slip
        BY DEF ThreadsAgree
      <4>2. fwd = "held" => total = down + slip
        BY <2>1 DEF ThreadsAgree
      <4> QED
        BY <3>1, <4>1, <4>2
    <3>3. Len(buf') = LesserOf(Len(buf), Preroll)
      BY <1>0, <2>1, <2>3, TrimWindow
    <3>4. Len(buf') \in Nat /\ Len(buf') <= total /\ Len(buf') >= LesserOf(total, Preroll)
      BY <1>0, <1>n, <3>3 DEF LesserOf
    <3>5. total - Len(buf') <= SatSub(total, Preroll)
      BY <1>n, <3>4, TrimPoint
    <3>6. fwd # "idle" => Base' <= Clip(down, slip)
      BY <2>1, <3>2, <3>5 DEF Base, Clip
    <3>7. \A j \in Len(delivered) + 1 .. Len(released) : FALSE
      BY <1>n, <3>1
    <3> QED
      BY <2>1, <3>6, <3>7 DEF LossBounded, Clip
  <2> QED
    BY <2>2, <2>3
<1>3. CASE BeginLoad
  <2>1. /\ UNCHANGED <<buf, total, released, delivered>>
        /\ down' = total /\ slip' = 0
    BY <1>3 DEF BeginLoad, ringVars
  <2>2. total - Len(buf) <= SatSub(total, Preroll)
    BY <1>0, <1>n, TrimPoint
  <2>3. Base' <= Clip(down', slip')
    BY <1>n, <2>1, <2>2 DEF Base, Clip
  <2> QED
    BY <2>1, <2>3 DEF LossBounded, Base, Clip
<1>4. CASE EndFreeze
  <2> DEFINE u == [start |-> recStart, end |-> total, down |-> down, slip |-> slip]
  <2>1. /\ released' = Append(released, u)
        /\ fwd = "freeze" /\ fwd' = "idle"
        /\ UNCHANGED <<buf, total, delivered>>
    BY <1>4 DEF EndFreeze, ringVars
  <2>2. Base <= Clip(u.down, u.slip)
    BY <2>1 DEF LossBounded
  <2> HIDE DEF u
  <2>3. /\ Len(released') = Len(released) + 1
        /\ \A j \in 1..Len(released) : released'[j] = released[j]
        /\ released'[Len(released) + 1] = u
    BY <1>0, <1>n, <2>1 DEF TypeOK
  <2>4. ASSUME NEW j \in Len(delivered) + 1 .. Len(released')
        PROVE  Base <= Clip(released'[j].down, released'[j].slip)
    <3>1. CASE j = Len(released) + 1
      BY <2>2, <2>3, <3>1
    <3>2. CASE j # Len(released) + 1
      <4>1. j \in Len(delivered) + 1 .. Len(released) /\ j \in 1..Len(released)
        BY <1>n, <2>3, <3>2
      <4> QED
        BY <2>3, <4>1 DEF LossBounded
    <3> QED
      BY <3>1, <3>2
  <2>5. Base' = Base
    BY <2>1 DEF Base
  <2> QED
    BY <2>1, <2>4, <2>5 DEF LossBounded, Clip
<1>5. CASE TakeCopy
  <2>1. /\ Len(delivered') = Len(delivered) + 1
        /\ UNCHANGED <<buf, total, fwd, down, slip, released>>
    BY <1>0, <1>5 DEF TakeCopy, TypeOK, ringVars, histVars
  <2>2. \A j \in Len(delivered') + 1 .. Len(released) :
            j \in Len(delivered) + 1 .. Len(released)
    BY <1>n, <2>1
  <2>3. Base' = Base
    BY <2>1 DEF Base
  <2> QED
    BY <2>1, <2>2, <2>3 DEF LossBounded, Clip
<1>6. CASE Cancel \/ BeginStore \/ EndCount \/ EndClear
  <2>1. /\ UNCHANGED <<buf, total, released, delivered, down, slip>>
        /\ fwd # "idle"
    BY <1>6 DEF Cancel, BeginStore, EndCount, EndClear, histVars
  <2> QED
    BY <2>1 DEF LossBounded, Base, Clip
<1>7. CASE CbLoadRecording \/ TakeRelease \/ UNCHANGED vars
  BY <1>7 DEF CbLoadRecording, TakeRelease, vars, ringVars, histVars,
              LossBounded, Base, Clip
<1> QED
  BY <1>1, <1>2, <1>3, <1>4, <1>5, <1>6, <1>7 DEF Next, Callback, Forwarder, Taker

-----------------------------------------------------------------------------
(* What is handed over.                                                    *)

\* A slice of a range the ring still covers up to its end is the window that
\* ends there and starts at the frozen start or at the oldest sample kept.
LEMMA SliceWindow ==
    ASSUME TypeOK, Window(buf, total), NEW u \in Utterances,
           u.start <= u.end, Base <= u.end, u.end <= total
    PROVE  /\ Slice(u) \in Seq(Nat)
           /\ Len(Slice(u)) = u.end - GreaterOf(u.start, Base)
           /\ Window(Slice(u), u.end)
<1> DEFINE s == LesserOf(SatSub(u.start, Base), Len(buf))
           e == LesserOf(SatSub(u.end, Base), Len(buf))
<1>1. /\ Len(buf) \in Nat /\ total \in Nat /\ Len(buf) <= total
      /\ u.start \in Nat /\ u.end \in Nat
      /\ buf \in Seq(Nat) /\ Base \in Nat /\ Base + Len(buf) = total
  BY Numbers DEF TypeOK, Utterances, Window, Base
<1>2. s = GreaterOf(u.start, Base) - Base /\ s \in 0..Len(buf)
  BY <1>1 DEF LesserOf, SatSub, GreaterOf
<1>3. e = u.end - Base /\ e \in s..Len(buf)
  BY <1>1 DEF LesserOf, SatSub
<1>4. GreaterOf(e, s) = e
  BY <1>1, <1>2, <1>3 DEF GreaterOf
<1> HIDE DEF s, e
<1>5. Slice(u) = SubSeq(buf, s + 1, e)
  BY <1>4 DEF Slice, s, e
<1>6. /\ Slice(u) \in Seq(Nat) /\ Len(Slice(u)) = e - s
      /\ Window(Slice(u), total - Len(buf) + e)
  <2>1. /\ SubSeq(buf, s + 1, e) \in Seq(Nat)
        /\ Len(SubSeq(buf, s + 1, e)) = e - s
        /\ Window(SubSeq(buf, s + 1, e), total - Len(buf) + e)
    BY <1>1, <1>2, <1>3, WindowCut
  <2> QED
    BY <1>5, <2>1
<1>7. total - Len(buf) + e = u.end
  BY <1>1, <1>3
<1>8. e - s = u.end - GreaterOf(u.start, Base)
  BY <1>1, <1>2, <1>3 DEF GreaterOf
<1> QED
  BY <1>6, <1>7, <1>8

LEMMA DeliveredStep ==
    Counted /\ StableMapping /\ ThreadsAgree /\ LossBounded /\ DeliveredExact /\ [Next]_vars
        => DeliveredExact'
<1> SUFFICES ASSUME Counted, StableMapping, ThreadsAgree, LossBounded,
                    DeliveredExact, [Next]_vars
             PROVE  DeliveredExact'
  OBVIOUS
<1>0. TypeOK /\ Len(delivered) <= Len(released) /\ Window(buf, total)
  BY DEF Counted, StableMapping
<1>n. /\ Len(released) \in Nat /\ Len(delivered) \in Nat
      /\ total \in Nat /\ Len(buf) \in Nat /\ Preroll \in Nat
      /\ released \in Seq(Utterances) /\ delivered \in Seq(Seq(Nat))
  BY <1>0, Numbers DEF TypeOK
<1>1. CASE TakeCopy
  <2> DEFINE m == Len(delivered) + 1
             u == released[m]
             d == Slice(u)
  <2>1. /\ released' = released
        /\ delivered' = Append(delivered, d)
        /\ m \in 1..Len(released)
    BY <1>n, <1>1 DEF TakeCopy
  <2>2. /\ u \in Utterances
        /\ u.start = SatSub(u.down, Preroll)
        /\ u.down + u.slip <= u.end
        /\ u.end <= total
    BY <1>n, <2>1 DEF ThreadsAgree
  <2>3. Base <= Clip(u.down, u.slip)
    BY <1>n, <2>1 DEF LossBounded
  <2> HIDE DEF u
  <2>4. /\ u.start \in Nat /\ u.end \in Nat /\ u.down \in Nat /\ u.slip \in Nat
        /\ Base \in Nat
    BY <1>0, <1>n, <2>2 DEF Utterances, Base, Window
  <2>5. /\ u.start <= Clip(u.down, u.slip)
        /\ Clip(u.down, u.slip) <= u.end
        /\ Clip(u.down, u.slip) \in Nat
    BY <1>n, <2>2, <2>4 DEF Clip, SatSub
  <2>6. /\ d \in Seq(Nat)
        /\ Len(d) = u.end - GreaterOf(u.start, Base)
        /\ Window(d, u.end)
    BY <1>0, <2>2, <2>3, <2>4, <2>5, SliceWindow
  <2> HIDE DEF d
  <2>7. /\ u.start <= u.end - Len(d)
        /\ u.end - Len(d) <= Clip(u.down, u.slip)
    BY <2>3, <2>4, <2>5, <2>6 DEF GreaterOf
  <2>8. /\ Len(delivered') = m
        /\ \A j \in 1..Len(delivered) : delivered'[j] = delivered[j]
        /\ delivered'[m] = d
    BY <1>n, <2>1, <2>6
  <2>9. ASSUME NEW j \in 1..Len(delivered')
        PROVE  /\ Window(delivered'[j], released[j].end)
               /\ released[j].start <= released[j].end - Len(delivered'[j])
               /\ released[j].end - Len(delivered'[j])
                     <= Clip(released[j].down, released[j].slip)
    <3>1. CASE j = m
      BY <2>6, <2>7, <2>8, <3>1 DEF u
    <3>2. CASE j # m
      <4>1. j \in 1..Len(delivered) /\ delivered'[j] = delivered[j]
        BY <1>n, <2>8, <3>2
      <4> QED
        BY <4>1 DEF DeliveredExact
    <3> QED
      BY <3>1, <3>2
  <2> QED
    BY <2>1, <2>9 DEF DeliveredExact, Window, Clip
<1>2. CASE EndFreeze
  <2> DEFINE u == [start |-> recStart, end |-> total, down |-> down, slip |-> slip]
  <2>1. released' = Append(released, u) /\ delivered' = delivered
    BY <1>2 DEF EndFreeze
  <2> HIDE DEF u
  <2>2. \A j \in 1..Len(delivered) : released'[j] = released[j]
    BY <1>0, <1>n, <2>1
  <2> QED
    BY <2>1, <2>2 DEF DeliveredExact, Window, Clip
<1>3. CASE UNCHANGED <<released, delivered>>
  BY <1>3 DEF DeliveredExact, Window, Clip
<1> QED
  BY <1>1, <1>2, <1>3
     DEF Next, Callback, Forwarder, Taker, vars, CbPush, CbLoadRecording,
         CbLoadPending, BeginLoad, BeginStore, EndCount, EndClear, Cancel, TakeRelease

-----------------------------------------------------------------------------
(* The inductive invariant and its consequences.                           *)

IInv == Counted /\ StableMapping /\ ThreadsAgree /\ LossBounded /\ DeliveredExact

LEMMA IInvInit == Init => IInv
<1> SUFFICES ASSUME Init PROVE IInv
  OBVIOUS
<1>1. /\ Len(buf) = 0 /\ Len(released) = 0 /\ Len(delivered) = 0
      /\ total = 0 /\ fwd = "idle" /\ recording = FALSE
  BY DEF Init
<1>2. StableMapping
  BY <1>1 DEF StableMapping, Window, LesserOf
<1>3. ThreadsAgree
  BY <1>1 DEF ThreadsAgree
<1>4. LossBounded /\ DeliveredExact
  BY <1>1 DEF LossBounded, DeliveredExact
<1> QED
  BY <1>2, <1>3, <1>4, CountedInit DEF IInv

LEMMA IInvAlways == Spec => []IInv
<1>1. IInv /\ [Next]_vars => IInv'
  BY CountedStep, MappingStep, AgreeStep, LossStep, DeliveredStep DEF IInv
<1> QED
  BY <1>1, IInvInit, PTL DEF Spec

(***************************************************************************)
(* `base = total - len` is a stable mapping and the look-back is always    *)
(* there in full, for every look-back length and chunk size.               *)
(***************************************************************************)
THEOREM MappingStable == Spec => []StableMapping
<1>1. IInv => StableMapping
  BY DEF IInv
<1> QED
  BY <1>1, IInvAlways, PTL

(***************************************************************************)
(* No untaken utterance loses audio beyond what was pushed between the     *)
(* load and the store of its own begin_utterance, whatever the other two   *)
(* threads do.                                                             *)
(***************************************************************************)
THEOREM LossIsBounded == Spec => []LossBounded
<1>1. IInv => LossBounded
  BY DEF IInv
<1> QED
  BY <1>1, IInvAlways, PTL

\* Every utterance handed over is the exact stretch the bound allows.
THEOREM DeliveryIsExact == Spec => []DeliveredExact
<1>1. IInv => DeliveredExact
  BY DEF IInv
<1> QED
  BY <1>1, IInvAlways, PTL

\* A delivered stretch that starts at or before a sample contains it.
LEMMA WindowContains ==
    ASSUME NEW d \in Seq(Nat), NEW hi \in Nat, Window(d, hi),
           NEW k \in Nat, hi - Len(d) <= k, k < hi
    PROVE  k \in Range(d)
<1> DEFINE i == k - (hi - Len(d)) + 1
<1>1. Len(d) \in Nat /\ Len(d) <= hi
  BY DEF Window
<1>2. i \in 1..Len(d)
  BY <1>1
<1>3. d[i] = hi - Len(d) + i - 1
  BY <1>2 DEF Window
<1>4. d[i] = k
  BY <1>1, <1>3
<1>5. i \in DOMAIN d
  BY <1>2
<1> QED
  BY <1>4, <1>5 DEF Range

LEMMA SpeechFromInv == IInv => SpeechKept
<1> SUFFICES ASSUME IInv,
                    NEW j \in 1..Len(delivered),
                    released[j].slip <= Preroll,
                    NEW k \in released[j].down .. (released[j].end - 1)
             PROVE  k \in Range(delivered[j])
  BY DEF SpeechKept
<1> DEFINE u == released[j]
           d == delivered[j]
<1>0. TypeOK /\ Len(delivered) <= Len(released)
  BY DEF IInv, Counted
<1>1. j \in 1..Len(released)
  BY <1>0, Numbers
<1>2. d \in Seq(Nat) /\ u \in Utterances
  BY <1>0, <1>1 DEF TypeOK
<1>3. /\ u.down \in Nat /\ u.end \in Nat /\ u.slip \in Nat /\ u.slip <= Preroll
      /\ k \in u.down .. (u.end - 1)
      /\ Len(d) \in Nat /\ Preroll \in Nat
  BY <1>0, <1>2, Numbers DEF Utterances
<1>4. Window(d, u.end) /\ u.end - Len(d) <= Clip(u.down, u.slip)
  BY DEF IInv, DeliveredExact
<1> HIDE DEF u, d
<1>5. Clip(u.down, u.slip) <= u.down /\ Clip(u.down, u.slip) \in Nat
  BY <1>3 DEF Clip, SatSub
<1>6. k \in Nat /\ u.end - Len(d) <= k /\ k < u.end
  BY <1>3, <1>4, <1>5
<1>7. k \in Range(d)
  BY <1>2, <1>3, <1>4, <1>6, WindowContains
<1> QED
  BY <1>7 DEF d

(***************************************************************************)
(* Back-to-back dictation loses no speech: an utterance overtaken inside   *)
(* begin_utterance by no more than the look-back is handed over with every *)
(* sample from key-down to key-up, however long it waited.                 *)
(***************************************************************************)
THEOREM SpeechIsKept == Spec => []SpeechKept
BY IInvAlways, SpeechFromInv, PTL

-----------------------------------------------------------------------------
(* Refinement: CaptureRing implements PushToTalk, with no slack when       *)
(* begin_utterance is never overtaken by more than the look-back.          *)

SlipBounded ==
    /\ slip <= MaxSlip
    /\ \A j \in 1..Len(released) : released[j].slip <= MaxSlip

LEMMA SlipStep == Counted /\ SlipBounded /\ [Next]_vars => SlipBounded'
<1> SUFFICES ASSUME Counted, SlipBounded, [Next]_vars PROVE SlipBounded'
  OBVIOUS
<1>0. TypeOK /\ Len(released) \in Nat /\ slip \in Nat /\ MaxSlip \in Nat
  BY Numbers DEF Counted
<1>1. CASE CbPush
  <2>1. slip' <= MaxSlip
    <3>1. PICK n \in Chunks : /\ fwd = "begin" => slip + n <= MaxSlip
                              /\ slip' = IF fwd = "begin" THEN slip + n ELSE slip
      BY <1>1 DEF CbPush
    <3> QED
      BY <3>1 DEF SlipBounded
  <2>2. released' = released
    BY <1>1 DEF CbPush
  <2> QED
    BY <2>1, <2>2 DEF SlipBounded
<1>2. CASE BeginLoad
  BY <1>0, <1>2 DEF BeginLoad, SlipBounded
<1>3. CASE EndFreeze
  <2> DEFINE u == [start |-> recStart, end |-> total, down |-> down, slip |-> slip]
  <2>1. released' = Append(released, u) /\ slip' = slip /\ u.slip <= MaxSlip
    BY <1>3 DEF EndFreeze, SlipBounded, histVars
  <2> HIDE DEF u
  <2>2. /\ Len(released') = Len(released) + 1
        /\ \A j \in 1..Len(released) : released'[j] = released[j]
        /\ released'[Len(released) + 1] = u
    BY <1>0, <2>1 DEF TypeOK
  <2>3. ASSUME NEW j \in 1..Len(released') PROVE released'[j].slip <= MaxSlip
    <3>1. CASE j = Len(released) + 1
      BY <2>1, <2>2, <3>1
    <3>2. CASE j # Len(released) + 1
      BY <1>0, <2>2, <3>2 DEF SlipBounded
    <3> QED
      BY <3>1, <3>2
  <2> QED
    BY <2>1, <2>3 DEF SlipBounded
<1>4. CASE UNCHANGED <<slip, released>>
  BY <1>4 DEF SlipBounded
<1> QED
  BY <1>1, <1>2, <1>3, <1>4
     DEF Next, Callback, Forwarder, Taker, vars, histVars, CbLoadRecording,
         CbLoadPending, BeginStore, EndCount, EndClear, Cancel, TakeCopy, TakeRelease

\* The samples of a window.
LEMMA WindowRange ==
    ASSUME NEW d \in Seq(Nat), NEW hi \in Nat, Window(d, hi)
    PROVE  Range(d) = (hi - Len(d)) .. (hi - 1)
<1>0. Len(d) \in Nat /\ Len(d) <= hi /\ DOMAIN d = 1..Len(d)
  BY DEF Window
<1>1. ASSUME NEW k \in Range(d) PROVE k \in (hi - Len(d)) .. (hi - 1)
  <2>1. PICK i \in 1..Len(d) : d[i] = k
    BY <1>0, <1>1 DEF Range
  <2>2. k = hi - Len(d) + i - 1
    BY <2>1 DEF Window
  <2> QED
    BY <1>0, <2>1, <2>2
<1>2. ASSUME NEW k \in (hi - Len(d)) .. (hi - 1) PROVE k \in Range(d)
  <2>1. k \in Nat /\ hi - Len(d) <= k /\ k < hi
    BY <1>0
  <2> QED
    BY <2>1, WindowContains
<1> QED
  BY <1>1, <1>2

\* The abstract history grows by one entry when the concrete one does.
LEMMA MapAppend ==
    ASSUME NEW S, NEW T, NEW s \in Seq(S), NEW e \in S, NEW f \in [S -> T]
    PROVE  [j \in 1..Len(Append(s, e)) |-> f[Append(s, e)[j]]]
             = Append([j \in 1..Len(s) |-> f[s[j]]], f[e])
<1> DEFINE a == [j \in 1..Len(Append(s, e)) |-> f[Append(s, e)[j]]]
           b == [j \in 1..Len(s) |-> f[s[j]]]
<1>1. /\ Len(s) \in Nat /\ Len(Append(s, e)) = Len(s) + 1
      /\ \A j \in 1..Len(s) : s[j] \in S /\ Append(s, e)[j] = s[j]
      /\ Append(s, e)[Len(s) + 1] = e
  OBVIOUS
<1>2. b \in Seq(T) /\ Len(b) = Len(s) /\ \A j \in 1..Len(s) : b[j] = f[s[j]]
  BY <1>1
<1>3. /\ DOMAIN a = 1..Len(s) + 1
      /\ \A j \in 1..Len(s) : a[j] = f[s[j]]
      /\ a[Len(s) + 1] = f[e]
  BY <1>1
<1> HIDE DEF a, b
<1>4. /\ Append(b, f[e]) \in Seq(T)
      /\ Len(Append(b, f[e])) = Len(s) + 1
      /\ \A j \in 1..Len(s) : Append(b, f[e])[j] = f[s[j]]
      /\ Append(b, f[e])[Len(s) + 1] = f[e]
  BY <1>1, <1>2
<1>5. a \in [1..Len(s) + 1 -> T]
  <2>1. \A j \in 1..Len(s) + 1 : a[j] \in T
    <3> SUFFICES ASSUME NEW j \in 1..Len(s) + 1 PROVE a[j] \in T
      OBVIOUS
    <3>1. CASE j = Len(s) + 1
      BY <1>3, <3>1
    <3>2. CASE j # Len(s) + 1
      BY <1>1, <1>3, <3>2
    <3> QED
      BY <3>1, <3>2
  <2>2. a = [j \in DOMAIN a |-> a[j]]
    BY DEF a
  <2> QED
    BY <1>3, <2>1, <2>2
<1>6. a = Append(b, f[e])
  <2>1. a \in Seq(T) /\ Len(a) = Len(s) + 1
    BY <1>1, <1>5
  <2>2. \A j \in 1..Len(s) + 1 : a[j] = Append(b, f[e])[j]
    BY <1>1, <1>3, <1>4
  <2> QED
    BY <1>1, <1>4, <2>1, <2>2, SeqEqual
<1> QED
  BY <1>6 DEF a, b

HoldsSoFar == [j \in 1..Len(released) |->
                  [down |-> released[j].down, up |-> released[j].end]]
AudioSoFar == [j \in 1..Len(delivered) |-> Range(delivered[j])]

\* Sending an utterance completes a hold of the abstract history.
LEMMA HoldsAppend ==
    ASSUME released \in Seq(Utterances), NEW u \in Utterances,
           released' = Append(released, u)
    PROVE  HoldsSoFar' = Append(HoldsSoFar, [down |-> u.down, up |-> u.end])
<1> DEFINE f == [v \in Utterances |-> [down |-> v.down, up |-> v.end]]
           T == [down : Nat, up : Nat]
<1>1. f \in [Utterances -> T]
  BY DEF Utterances
<1>2. HoldsSoFar = [j \in 1..Len(released) |-> f[released[j]]]
  BY DEF HoldsSoFar
<1>3. Append(released, u) \in Seq(Utterances)
  OBVIOUS
<1>4. HoldsSoFar' = [j \in 1..Len(Append(released, u)) |-> f[Append(released, u)[j]]]
  BY <1>3 DEF HoldsSoFar
<1>5. f[u] = [down |-> u.down, up |-> u.end]
  OBVIOUS
<1> HIDE DEF f, T
<1> QED
  BY <1>1, <1>2, <1>4, <1>5, MapAppend

\* Copying a range out hands its samples over.
LEMMA AudioAppend ==
    ASSUME delivered \in Seq(Seq(Nat)), NEW d \in Seq(Nat),
           delivered' = Append(delivered, d)
    PROVE  AudioSoFar' = Append(AudioSoFar, Range(d))
<1> DEFINE f == [v \in Seq(Nat) |-> Range(v)]
<1>1. f \in [Seq(Nat) -> SUBSET Nat]
  BY DEF Range
<1>2. AudioSoFar = [j \in 1..Len(delivered) |-> f[delivered[j]]]
  BY DEF AudioSoFar
<1>3. Append(delivered, d) \in Seq(Seq(Nat))
  OBVIOUS
<1>4. AudioSoFar' = [j \in 1..Len(Append(delivered, d)) |-> f[Append(delivered, d)[j]]]
  BY <1>3 DEF AudioSoFar
<1>5. f[d] = Range(d)
  OBVIOUS
<1> HIDE DEF f
<1> QED
  BY <1>1, <1>2, <1>4, <1>5, MapAppend

LEMMA RefinementStep ==
    ASSUME IInv, IInv', SlipBounded, [Next]_vars
    PROVE  [PTT!Next]_(PTT!vars)
<1>0. /\ TypeOK /\ TypeOK' /\ Len(delivered) <= Len(released)
      /\ Len(released) \in Nat /\ Len(delivered) \in Nat /\ total \in Nat
      /\ MaxSlip \in Nat /\ Preroll \in Nat
      /\ released \in Seq(Utterances) /\ delivered \in Seq(Seq(Nat))
  BY Numbers DEF IInv, Counted, TypeOK
<1> DEFINE slack == SatSub(MaxSlip, Preroll)
           Hold == IF fwd = "idle" THEN {} ELSE {down}
<1>m. /\ PTT!vars = <<total, Hold, HoldsSoFar, AudioSoFar>>
  BY DEF PTT!vars, HoldsSoFar, AudioSoFar
<1>1. CASE CbPush
  <2>1. PICK n \in Chunks : total' = total + n
    BY <1>1 DEF CbPush
  <2>2. total' \in Nat /\ total' >= total
    BY <1>0, <2>1
  <2>3. UNCHANGED <<fwd, down, released, delivered>>
    BY <1>1 DEF CbPush
  <2> QED
    BY <2>2, <2>3 DEF PTT!Next, PTT!Hear
<1>2. CASE BeginLoad
  BY <1>2 DEF BeginLoad, ringVars, PTT!Next, PTT!Press
<1>3. CASE EndFreeze
  <2> DEFINE u == [start |-> recStart, end |-> total, down |-> down, slip |-> slip]
  <2>1. /\ released' = Append(released, u) /\ u \in Utterances
        /\ fwd = "freeze" /\ fwd' = "idle"
        /\ UNCHANGED <<total, delivered, down>>
    BY <1>0, <1>3 DEF EndFreeze, ringVars, histVars, TypeOK, Utterances
  <2>2. HoldsSoFar' = Append(HoldsSoFar, [down |-> down, up |-> total])
    BY <1>0, <2>1, HoldsAppend
  <2> QED
    BY <2>1, <2>2 DEF HoldsSoFar, PTT!Next, PTT!Release
<1>4. CASE Cancel
  BY <1>4 DEF Cancel, histVars, PTT!Next, PTT!Abandon
<1>5. CASE TakeCopy
  <2> DEFINE m == Len(delivered) + 1
             d == Slice(released[m])
  <2>1. /\ delivered' = Append(delivered, d)
        /\ m \in 1..Len(released) /\ Len(delivered) < Len(released)
        /\ UNCHANGED <<total, fwd, down, released>>
    BY <1>0, <1>5 DEF TakeCopy, ringVars, histVars
  <2>2. released[m] \in Utterances /\ d \in Seq(Nat)
    BY <1>0, <2>1, SliceType
  <2>3. AudioSoFar' = Append(AudioSoFar, Range(d))
    <3> HIDE DEF d
    <3> QED
      BY <1>0, <2>1, <2>2, AudioAppend
  <2>4. /\ Window(d, released[m].end)
        /\ released[m].start <= released[m].end - Len(d)
        /\ released[m].end - Len(d) <= Clip(released[m].down, released[m].slip)
    <3>1. m \in 1..Len(delivered') /\ delivered'[m] = d /\ released'[m] = released[m]
      <4> HIDE DEF d
      <4> QED
        BY <1>0, <2>1, <2>2
    <3> HIDE DEF d
    <3> QED
      BY <3>1 DEF IInv, DeliveredExact, Window, Clip
  <2> HIDE DEF d
  <2>5. Range(d) = (released[m].end - Len(d)) .. (released[m].end - 1)
    BY <2>2, <2>4, WindowRange DEF Utterances
  <2>6. released[m].end - Len(d) \in 0 .. (released[m].down + slack)
    <3>1. /\ released[m].start \in Nat /\ released[m].end \in Nat
          /\ released[m].down \in Nat /\ released[m].slip \in Nat /\ Len(d) \in Nat
      BY <2>2 DEF Utterances
    <3>2. released[m].slip <= MaxSlip
      BY <1>0, <2>1, <3>1 DEF SlipBounded
    <3>3. Clip(released[m].down, released[m].slip) <= released[m].down + slack /\ slack \in Nat
      BY <1>0, <3>1, <3>2 DEF Clip, SatSub
    <3>4. Clip(released[m].down, released[m].slip) \in Nat
      BY <1>0, <3>1 DEF Clip, SatSub
    <3> HIDE DEF slack
    <3>5. /\ released[m].end - Len(d) \in Int /\ 0 <= released[m].end - Len(d)
          /\ released[m].end - Len(d) <= released[m].down + slack
      BY <2>4, <3>1, <3>3, <3>4
    <3> QED
      BY <3>1, <3>3, <3>5
  <2>7. /\ Len(HoldsSoFar) = Len(released) /\ Len(AudioSoFar) = Len(delivered)
        /\ HoldsSoFar[m] = [down |-> released[m].down, up |-> released[m].end]
    BY <1>0, <2>1 DEF HoldsSoFar, AudioSoFar
  <2>8. PTT!HandOver
    BY <2>1, <2>3, <2>5, <2>6, <2>7 DEF PTT!HandOver, HoldsSoFar, AudioSoFar
  <2> QED
    BY <2>8 DEF PTT!Next
<1>6. CASE BeginStore \/ EndCount \/ EndClear
  <2>1. UNCHANGED <<total, down, released, delivered>> /\ fwd # "idle" /\ fwd' # "idle"
    BY <1>6 DEF BeginStore, EndCount, EndClear, histVars
  <2> QED
    BY <2>1 DEF PTT!vars
<1>7. CASE UNCHANGED <<total, fwd, down, released, delivered>>
  BY <1>7 DEF PTT!vars
<1> QED
  BY <1>1, <1>2, <1>3, <1>4, <1>5, <1>6, <1>7
     DEF Next, Callback, Forwarder, Taker, vars, ringVars, histVars,
         CbLoadRecording, CbLoadPending, TakeRelease

(***************************************************************************)
(* Capture implements PushToTalk: each completed hold is handed over once, *)
(* in order, with every sample from key-down to key-up but those by which  *)
(* begin_utterance was overtaken beyond the look-back: none of them when   *)
(* MaxSlip <= Preroll.                                                     *)
(***************************************************************************)
THEOREM CaptureImplements == Spec => PTT!Spec
<1>1. Init => PTT!Init
  BY DEF Init, PTT!Init
<1>2. Init => SlipBounded
  BY DEF Init, SlipBounded
<1>3. IInv /\ SlipBounded /\ [Next]_vars => SlipBounded'
  BY SlipStep DEF IInv
<1>4. IInv /\ IInv' /\ SlipBounded /\ [Next]_vars => [PTT!Next]_(PTT!vars)
  BY RefinementStep
<1> QED
  BY <1>1, <1>2, <1>3, <1>4, IInvAlways, PTL DEF Spec, PTT!Spec
=============================================================================
