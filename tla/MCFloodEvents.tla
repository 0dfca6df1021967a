---------------------------- MODULE MCFloodEvents ----------------------------
(* FloodEvents with three-bit times, so that the clock wraps within a run. *)
EXTENDS FloodEvents

=============================================================================
