----------------------------- MODULE MaskedCall -----------------------------
(***************************************************************************)
(* What a masked call promises to the two parties and to the journal       *)
(* (ari/stasis.py, services/calls.py): whom it rings, whom it puts         *)
(* through, and what its row may say of that, whatever fails.  A hangup    *)
(* that fails is not repeated, so the contract names the channels it       *)
(* leaves.  CallFlow keeps it request by request and event by event.       *)
(***************************************************************************)
CONSTANTS Statuses, Causes, NoCause

VARIABLES
    caller,  \* the caller's channel
    callee,  \* the callee's channel
    refused, \* the channels whose hangup failed
    talked,  \* was the callee ever put through?
    entry    \* the row of the call in the journal

vars == <<caller, callee, refused, talked, entry>>

NoEntry == [status |-> "none", session |-> FALSE, answered |-> FALSE,
            ended |-> FALSE, cause |-> NoCause]

Init ==
    /\ caller = "none" /\ callee = "none"
    /\ refused = {}
    /\ talked = FALSE
    /\ entry = NoEntry

CallerArrives ==
    /\ caller = "none"
    /\ caller' = "up"
    /\ UNCHANGED <<callee, refused, talked, entry>>

(* The call is journalled before anything else, with its session if one    *)
(* is certain.                                                             *)
Open(routed) ==
    /\ caller # "none" /\ entry = NoEntry
    /\ entry' = [NoEntry EXCEPT !.status = "in_progress", !.session = routed]
    /\ UNCHANGED <<caller, callee, refused, talked>>

(* The PIN names the session                                               *)
Attach ==
    /\ entry.status = "in_progress" /\ callee = "none"
    /\ entry' = [entry EXCEPT !.session = TRUE]
    /\ UNCHANGED <<caller, callee, refused, talked>>

(* The callee's phone rings once, for a caller who is there and an open    *)
(* entry with a session.                                                   *)
Dial ==
    /\ caller = "up" /\ callee = "none"
    /\ entry.status = "in_progress" /\ entry.session
    /\ callee' = "dialing"
    /\ UNCHANGED <<caller, refused, talked, entry>>

CalleeAnswers ==
    /\ callee = "dialing"
    /\ callee' = "up"
    /\ UNCHANGED <<caller, refused, talked, entry>>

PutThrough ==
    /\ callee = "up"
    /\ entry.ended => "out" \in refused
    /\ talked' = TRUE
    /\ UNCHANGED <<caller, callee, refused, entry>>

(* A channel goes, and does not come back.                                 *)
HangUp ==
    /\ \/ caller = "up" /\ caller' = "gone" /\ UNCHANGED callee
       \/ callee \in {"dialing", "up"} /\ callee' = "gone" /\ UNCHANGED caller
    /\ UNCHANGED <<refused, talked, entry>>

(* A hangup fails, and the channel stays.                                  *)
Refuse ==
    /\ \/ caller = "up" /\ refused' = refused \cup {"in"}
       \/ callee \in {"dialing", "up"} /\ refused' = refused \cup {"out"}
    /\ UNCHANGED <<caller, callee, talked, entry>>

(* No channel of the call is left but one whose hangup failed.             *)
Released ==
    /\ caller = "gone" \/ "in" \in refused
    /\ callee \in {"none", "gone"} \/ "out" \in refused

(* answered_at and the status, also in a row that a crossing teardown has  *)
(* closed                                                                  *)
JournalAnswer ==
    /\ talked /\ entry.status # "none"
    /\ entry' = [entry EXCEPT !.status = "answered", !.answered = TRUE]
    /\ UNCHANGED <<caller, callee, refused, talked>>

(* A row is closed once, the call released; `answered' is said only of a  *)
(* call that was.  The outcome is the one the teardown began with, so that *)
(* a callee put through after that leaves answered_at beside another one.  *)
Close(status, cause) ==
    /\ entry.status # "none" /\ ~entry.ended
    /\ Released
    /\ status = "answered" => talked
    /\ entry' = [entry EXCEPT !.status = status, !.ended = TRUE, !.cause = cause]
    /\ UNCHANGED <<caller, callee, refused, talked>>

(* A cause that came late completes the row.                               *)
Complete(cause) ==
    /\ entry.ended /\ entry.cause = NoCause
    /\ entry' = [entry EXCEPT !.cause = cause]
    /\ UNCHANGED <<caller, callee, refused, talked>>

Next ==
    \/ CallerArrives \/ HangUp \/ Refuse \/ CalleeAnswers
    \/ Attach \/ Dial \/ PutThrough \/ JournalAnswer
    \/ \E routed \in BOOLEAN : Open(routed)
    \/ \E cause \in Causes : Complete(cause)
    \/ \E status \in Statuses \ {"in_progress"}, cause \in Causes : Close(status, cause)

Spec == Init /\ [][Next]_vars

-----------------------------------------------------------------------------
(* What a reader of the journal may conclude, at any moment: `answered' is *)
(* never said of a call whose callee was not put through, nobody was rung  *)
(* for a call without a session, and a row that is closed has an outcome   *)
(* and is of a call with both channels gone, but those whose hangup failed.*)
Truthful ==
    /\ entry.status = "answered" \/ entry.answered => talked
    /\ talked => callee # "none"
    /\ callee # "none" => entry.session
    /\ entry.ended => Released /\ entry.status # "in_progress"

=============================================================================
