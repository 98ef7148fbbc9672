----------------------------- MODULE MCSidecar -----------------------------
(* Sidecar on a small instance; Sidecar.cfg gives the bounds. *)
EXTENDS Sidecar
=============================================================================
