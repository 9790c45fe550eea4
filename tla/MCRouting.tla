------------------------------ MODULE MCRouting -----------------------------
(* A number with two sessions of one caller, the second one capped, for    *)
(* TLC.  Callers meet only in the rows, so one caller's key is enough.     *)
EXTENDS Routing, TLC

CONSTANTS s1, s2, a, b, c

MCIds == {s1, s2}
MCCallers == {a}
MCParties == (s1 :> {a, b}) @@ (s2 :> {a, c})
MCCapped == {s2}
MCInstants == 0..2

=============================================================================
