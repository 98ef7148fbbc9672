--------------------------- MODULE MCCaptureRing ---------------------------
(* CaptureRing on small instances. *)
EXTENDS CaptureRing

\* A callback may carry no frames, one, or two (larger than the look-back of
\* one of the instances).
MCChunks == {0, 1, 2}
=============================================================================
