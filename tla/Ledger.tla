------------------------------- MODULE Ledger -------------------------------
(***************************************************************************)
(* What a transaction on the sessions has done once it commits, whatever   *)
(* ran beside it (services/allocation.py, services/sessions.py): the       *)
(* promise of the row locks and the unique indexes.  SessionTx keeps it    *)
(* statement by statement, Sessions a transaction at a time.               *)
(***************************************************************************)
CONSTANTS
    Ids,      \* session ids
    Numbers,  \* proxy numbers
    Parties,  \* hashes of real subscriber numbers
    Codes,    \* the PINs ext_code_length allows
    NoCode,   \* ext_code IS NULL
    NoNumber  \* number_id of a row that is not there

VARIABLE row  \* the committed rows of sessions and session_parties

NoRow == [status |-> "none", number |-> NoNumber, parties |-> {},
          code |-> NoCode, life |-> "running"]

(* `life' is what the sweep reads of expires_at: ahead, passed, or moved   *)
(* by an extension.                                                        *)
Rows == [status : {"none", "active", "closed", "expired"},
         number : Numbers \cup {NoNumber},
         parties : SUBSET Parties,
         code : Codes \cup {NoCode},
         life : {"running", "due", "extended"}]

ActiveOn(rows, n) == {s \in Ids : rows[s].status = "active" /\ rows[s].number = n}

CodesOn(rows, n) == {rows[s].code : s \in ActiveOn(rows, n)} \ {NoCode}

(* A PIN names one session of its number (uniq_active_ext_code_per_number) *)
CodesDistinctIn(rows) ==
    \A n \in Numbers : \A s, t \in ActiveOn(rows, n) :
        s # t /\ rows[s].code # NoCode => rows[s].code # rows[t].code

(* Of the sessions a subscriber has on a number, one at most is without a  *)
(* PIN (uniq_active_party_per_number)                                      *)
OneDirectIn(rows) ==
    \A n \in Numbers : \A s, t \in ActiveOn(rows, n) :
        /\ s # t /\ rows[s].code = NoCode /\ rows[t].code = NoCode
        => rows[s].parties \cap rows[t].parties = {}

-----------------------------------------------------------------------------
Init ==
    /\ row \in [Ids -> Rows]
    /\ CodesDistinctIn(row)
    /\ OneDirectIn(row)

(* The sessions a creation gave a PIN                                      *)
Promoted(s) == {x \in Ids \ {s} : row'[x] # row[x]}

(* A creation: s is a session on a number of the pool, with a PIN nobody   *)
(* there or without one where no session without a PIN shares a party; the *)
(* others that changed were active, had no PIN and have a fresh one.       *)
Create(s) ==
    /\ row[s].status = "none"
    /\ row' \in [Ids -> Rows]
    /\ row'[s].status = "active" /\ row'[s].number \in Numbers
    /\ \A x \in Promoted(s) :
           /\ row[x].status = "active" /\ row[x].code = NoCode
           /\ row'[x].code \in Codes
           /\ row'[x] = [row[x] EXCEPT !.code = row'[x].code]
    /\ \A x \in Promoted(s) \cup {s} :
           row'[x].code # NoCode =>
               /\ row'[x].code \notin CodesOn(row, row'[x].number)
               /\ \A y \in (Promoted(s) \cup {s}) \ {x} :
                      row'[y].number = row'[x].number => row'[y].code # row'[x].code
    /\ row'[s].code = NoCode =>
           \A x \in ActiveOn(row, row'[s].number) :
               row'[x].code = NoCode => row[x].parties \cap row'[s].parties = {}

(* Sessions leave the active state.  One that another transaction ended in *)
(* the meantime is ended again, its terminal status overwritten.           *)
End(terminal) ==
    \E batch \in SUBSET Ids :
        /\ \A s \in batch : row[s].status # "none"
        /\ row' = [s \in Ids |-> IF s \in batch
                                 THEN [row[s] EXCEPT !.status = terminal]
                                 ELSE row[s]]

(* A new expiry, or the passing of the old one                             *)
Live(s, life) ==
    /\ row[s].status # "none"
    /\ row' = [row EXCEPT ![s].life = life]

(* Rows of sessions that ended go, and leave their ids to others           *)
Purge ==
    \E batch \in SUBSET Ids :
        /\ \A s \in batch : row[s].status \in {"closed", "expired"}
        /\ row' = [s \in Ids |-> IF s \in batch THEN NoRow ELSE row[s]]

Next ==
    \/ \E s \in Ids : Create(s)
    \/ \E terminal \in {"closed", "expired"} : End(terminal)
    \/ \E s \in Ids, life \in {"due", "extended"} : Live(s, life)
    \/ Purge

Spec == Init /\ [][Next]_row

-----------------------------------------------------------------------------
(* Subscribers were told the PIN: whatever crosses, it stays with the      *)
(* session till the end, on the same number.                               *)
PinsKept ==
    [][\A s \in Ids : row[s].status = "active" /\ row[s].code # NoCode =>
          row'[s].code = row[s].code /\ row'[s].number = row[s].number]_row

(* A session that ended is not active again, whoever writes its row late.  *)
EndsFinal ==
    [][\A s \in Ids :
          row[s].status \in {"closed", "expired"} => row'[s].status # "active"]_row

=============================================================================
