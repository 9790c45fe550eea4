----------------------------- MODULE MCSessions -----------------------------
(* Small instances of Sessions for TLC *)
EXTENDS Sessions, TLC

MCNumbers == {1, 2}
MCNumber == {1}
MCInstants == 0..1
MCInstantsLong == 0..3

(* Subscribers, PINs and session ids are interchangeable; numbers are not. *)
Symmetry == Permutations(Parties) \cup Permutations(Codes) \cup Permutations(Ids)

=============================================================================
