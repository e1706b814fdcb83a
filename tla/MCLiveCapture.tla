--------------------------- MODULE MCLiveCapture ----------------------------
(* LiveCapture has no parameters: its state space is finite as it stands. *)
EXTENDS LiveCapture
=============================================================================
