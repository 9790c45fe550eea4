---------------------------- MODULE MCAriEvents -----------------------------
(* A small instance of AriEvents for TLC *)
EXTENDS AriEvents

=============================================================================
