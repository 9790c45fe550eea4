---------------------------- MODULE MCSessionTx -----------------------------
(* Small instances of SessionTx for TLC *)
EXTENDS SessionTx, TLC

CONSTANTS t1, t2, t3, a, b, c, d, e, p1, p2, p3

MCTxs == {t1, t2, t3}
MCIds == 1..4
MCNumbers == {1}
MCParties == {a, b, c, d, e}
MCRequests == {{a, c}, {a, e}}

(* What a number can have: nothing, one session or two without a common    *)
(* subscriber, their expiry ahead or passed, or one that shared the number *)
(* before and has its PIN still.                                           *)
Direct(n, pair, life) ==
    [status |-> "active", number |-> n, parties |-> pair, code |-> NoCode,
     life |-> life]

Empty == [s \in MCIds |-> Promise!NoRow]

MCOpenings ==
    {Empty,
     [Empty EXCEPT ![1] = Direct(1, {a, b}, "due")],
     [Empty EXCEPT ![1] = Direct(1, {a, b}, "due"), ![2] = Direct(1, {c, d}, "due")],
     [Empty EXCEPT ![1] = [Direct(1, {a, b}, "running") EXCEPT !.code = p1],
                   ![2] = Direct(1, {c, d}, "running")]}

MCJobs == (t1 :> {"create", "close"})
          @@ (t2 :> {"create", "close", "extend", "sweep"})
          @@ (t3 :> {"close", "sweep"})

(* Two creations for one number: the first exclusive, the second not       *)
MCTwo == {t1, t2}
MCTwoCreate == [t \in MCTwo |-> {"create"}]
MCPairs == {{a, c}, {c, d}}
MCThreeIds == 1..3
MCTaken == {[s \in MCThreeIds |-> IF s = 1 THEN Direct(1, {a, b}, "running")
                                  ELSE Promise!NoRow]}

PinSymmetry == Permutations(Codes)

=============================================================================
