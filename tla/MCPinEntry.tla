----------------------------- MODULE MCPinEntry -----------------------------
(* A small instance of PinEntry for TLC *)
EXTENDS PinEntry

(* The PIN of a candidate, and one of a length that was configured before  *)
MCCodes == {<<"1", "2">>, <<"2">>}

=============================================================================
