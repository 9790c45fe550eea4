------------------------------- MODULE Router -------------------------------
(***************************************************************************)
(* What routing promises: every call gets the decision the database calls  *)
(* for, now or at a moment not long ago.                                   *)
(***************************************************************************)
EXTENDS Integers

CONSTANTS
    Callers,
    Decisions,
    Staleness,  \* for each decision, how long it may be given
    NoAnswer

VARIABLES
    now,
    current,  \* the decision the database calls for, of each caller
    notes,    \* decisions read from the database and kept
    answer    \* the answer of the last step

vars == <<now, current, notes, answer>>

Note(c) == [caller |-> c, decision |-> current[c], at |-> now]

Init ==
    /\ now = 0
    /\ current \in [Callers -> Decisions]
    /\ notes = {}
    /\ answer = NoAnswer

(* Sessions come, end and expire, time passes, and notes are thrown away   *)
Change ==
    /\ now' \in {now, now + 1}
    /\ current' \in [Callers -> Decisions]
    /\ notes' \subseteq notes
    /\ answer' = NoAnswer

Read(c) ==
    /\ notes' \subseteq notes \cup {Note(c)}
    /\ answer' = NoAnswer
    /\ UNCHANGED <<now, current>>

Answer(c, d) ==
    /\ \/ d = current[c]
       \/ \E note \in notes : /\ note.caller = c /\ note.decision = d
                              /\ note.at + Staleness[d] > now
    /\ notes' \subseteq notes
    /\ answer' = [caller |-> c, decision |-> d]
    /\ UNCHANGED <<now, current>>

Next ==
    \/ Change
    \/ \E c \in Callers : Read(c) \/ \E d \in Decisions : Answer(c, d)

Spec == Init /\ [][Next]_vars

=============================================================================
