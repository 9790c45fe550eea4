---------------------------- MODULE LedgerProofs ----------------------------
(***************************************************************************)
(* What the promise of a transaction amounts to: the two unique indexes    *)
(* hold in every state the transactions of Ledger lead to, for any pool    *)
(* and any subscribers.                                                    *)
(***************************************************************************)
EXTENDS Ledger, TLAPS

RowsTyped == row \in [Ids -> Rows]

LInv == RowsTyped /\ CodesDistinctIn(row) /\ OneDirectIn(row)

-----------------------------------------------------------------------------
(* What a creation did not touch is as it was                              *)
LEMMA Untouched ==
    ASSUME NEW s \in Ids, NEW x \in Ids, x \notin Promoted(s) \cup {s}
    PROVE  row'[x] = row[x]
  BY DEF Promoted

(* A creation adds PINs no active session of the number has.               *)
LEMMA CreateKeepsCodes ==
    ASSUME CodesDistinctIn(row), NEW s \in Ids, Create(s)
    PROVE  CodesDistinctIn(row')
<1> DEFINE touched == Promoted(s) \cup {s}
<1> SUFFICES ASSUME NEW n \in Numbers, NEW x \in ActiveOn(row', n), NEW y \in ActiveOn(row', n),
                    x # y, row'[x].code # NoCode, row'[x].code = row'[y].code
             PROVE  FALSE
  BY DEF CodesDistinctIn
<1>1. /\ x \in Ids /\ row'[x].status = "active" /\ row'[x].number = n
      /\ y \in Ids /\ row'[y].status = "active" /\ row'[y].number = n
  BY DEF ActiveOn
<1>2. ASSUME NEW u \in touched, NEW v \in Ids, v \notin touched,
             row'[u].number = n, row'[v].number = n, row'[v].status = "active",
             row'[u].code # NoCode, row'[u].code = row'[v].code
      PROVE  FALSE
  <2>1. row[v] = row'[v]
    BY <1>2, Untouched
  <2>2. row'[v].code \in CodesOn(row, n)
    BY <1>2, <2>1 DEF CodesOn, ActiveOn
  <2> QED
    BY <1>2, <2>2 DEF Create
<1>3. CASE x \in touched /\ y \in touched
  BY <1>1, <1>3 DEF Create
<1>4. CASE x \in touched /\ y \notin touched
  BY <1>1, <1>2, <1>4
<1>5. CASE x \notin touched /\ y \in touched
  BY <1>1, <1>2, <1>5
<1>6. CASE x \notin touched /\ y \notin touched
  <2>1. row[x] = row'[x] /\ row[y] = row'[y]
    BY <1>1, <1>6, Untouched
  <2> QED
    BY <1>1, <2>1 DEF CodesDistinctIn, ActiveOn
<1> QED
  BY <1>3, <1>4, <1>5, <1>6

(* A session is created without a PIN only where it meets none.            *)
LEMMA CreateKeepsDirect ==
    ASSUME NoCode \notin Codes, OneDirectIn(row), NEW s \in Ids, Create(s)
    PROVE  OneDirectIn(row')
<1> SUFFICES ASSUME NEW n \in Numbers, NEW x \in ActiveOn(row', n), NEW y \in ActiveOn(row', n),
                    x # y, row'[x].code = NoCode, row'[y].code = NoCode
             PROVE  row'[x].parties \cap row'[y].parties = {}
  BY DEF OneDirectIn
<1>1. /\ x \in Ids /\ row'[x].status = "active" /\ row'[x].number = n
      /\ y \in Ids /\ row'[y].status = "active" /\ row'[y].number = n
  BY DEF ActiveOn
<1>2. x \notin Promoted(s) /\ y \notin Promoted(s)
  BY DEF Create
<1>3. ASSUME NEW v \in Ids, v # s, v \notin Promoted(s), row'[s].number = n,
             row'[v].status = "active", row'[v].number = n, row'[v].code = NoCode,
             row'[s].code = NoCode
      PROVE  row'[v].parties \cap row'[s].parties = {}
  <2>1. row[v] = row'[v]
    BY <1>3, Untouched
  <2> QED
    BY <1>3, <2>1 DEF Create, ActiveOn
<1>4. CASE x = s
  BY <1>1, <1>2, <1>3, <1>4
<1>5. CASE y = s
  BY <1>1, <1>2, <1>3, <1>5
<1>6. CASE x # s /\ y # s
  <2>1. row[x] = row'[x] /\ row[y] = row'[y]
    BY <1>1, <1>2, <1>6, Untouched
  <2> QED
    BY <1>1, <2>1 DEF OneDirectIn, ActiveOn
<1> QED
  BY <1>4, <1>5, <1>6

(* Ends, expiries and purges give no PIN, no number and no party to        *)
(* anybody active, and make nothing active.                                *)
LEMMA OthersKeep ==
    ASSUME RowsTyped, CodesDistinctIn(row), OneDirectIn(row),
           \/ \E terminal \in {"closed", "expired"} : End(terminal)
           \/ \E s \in Ids, life \in {"due", "extended"} : Live(s, life)
           \/ Purge
    PROVE  LInv'
<1>1. row' \in [Ids -> Rows]
  BY DEF RowsTyped, Rows, End, Live, Purge, NoRow
<1>2. \A s \in Ids : row'[s].status = "active" =>
                        /\ row[s].status = "active"
                        /\ row'[s].number = row[s].number
                        /\ row'[s].code = row[s].code
                        /\ row'[s].parties = row[s].parties
  BY DEF RowsTyped, Rows, End, Live, Purge, NoRow
<1>3. \A n \in Numbers : \A x \in ActiveOn(row', n) :
         /\ x \in Ids /\ x \in ActiveOn(row, n)
         /\ row'[x].code = row[x].code /\ row'[x].parties = row[x].parties
  BY <1>2 DEF ActiveOn
<1> QED
  BY <1>1, <1>3 DEF LInv, RowsTyped, CodesDistinctIn, OneDirectIn

LEMMA Inductive ==
    ASSUME NoCode \notin Codes
    PROVE  Spec => []LInv
<1>1. Init => LInv
  BY DEF Init, LInv, RowsTyped
<1>2. LInv /\ [Next]_row => LInv'
  <2> SUFFICES ASSUME LInv, [Next]_row PROVE LInv'
    OBVIOUS
  <2>1. CASE \E s \in Ids : Create(s)
    <3>1. RowsTyped'
      BY <2>1 DEF Create, RowsTyped
    <3> QED
      BY <2>1, <3>1, CreateKeepsCodes, CreateKeepsDirect DEF LInv
  <2>2. CASE \/ \E terminal \in {"closed", "expired"} : End(terminal)
             \/ \E s \in Ids, life \in {"due", "extended"} : Live(s, life)
             \/ Purge
    BY <2>2, OthersKeep DEF LInv
  <2>3. CASE UNCHANGED row
    BY <2>3 DEF LInv, RowsTyped, CodesDistinctIn, OneDirectIn, ActiveOn
  <2> QED
    BY <2>1, <2>2, <2>3 DEF Next
<1> QED
  BY <1>1, <1>2, PTL DEF Spec

-----------------------------------------------------------------------------
(* A PIN names one session of its number (uniq_active_ext_code_per_number):*)
(* no transaction that keeps the promise can run into the index.           *)
THEOREM CodesStayDistinct ==
    ASSUME NoCode \notin Codes
    PROVE  Spec => []CodesDistinctIn(row)
<1>1. LInv => CodesDistinctIn(row)
  BY DEF LInv
<1> QED
  BY <1>1, Inductive, PTL

(* A subscriber has one session without a PIN per number at most           *)
(* (uniq_active_party_per_number).                                         *)
THEOREM OneStaysDirect ==
    ASSUME NoCode \notin Codes
    PROVE  Spec => []OneDirectIn(row)
<1>1. LInv => OneDirectIn(row)
  BY DEF LInv
<1> QED
  BY <1>1, Inductive, PTL

(* A PIN that was told stays: only sessions without one are promoted       *)
(* (_promote_conflicting_sessions), and nobody else writes PINs.           *)
THEOREM PinsStay ==
    ASSUME NoCode \notin Codes
    PROVE  Spec => PinsKept
<1>1. ASSUME RowsTyped, [Next]_row, NEW s \in Ids, row[s].status = "active", row[s].code # NoCode
      PROVE  row'[s].code = row[s].code /\ row'[s].number = row[s].number
  <2>1. ASSUME NEW x \in Ids, Create(x)
        PROVE  row'[s] = row[s]
    BY <1>1, <2>1, Untouched DEF Create
  <2>2. CASE \/ \E terminal \in {"closed", "expired"} : End(terminal)
             \/ \E x \in Ids, life \in {"due", "extended"} : Live(x, life)
             \/ Purge
    BY <1>1, <2>2 DEF RowsTyped, Rows, End, Live, Purge
  <2> QED
    BY <1>1, <2>1, <2>2 DEF Next
<1>2. LInv /\ [Next]_row => [\A s \in Ids : row[s].status = "active" /\ row[s].code # NoCode =>
                                row'[s].code = row[s].code /\ row'[s].number = row[s].number]_row
  BY <1>1 DEF LInv
<1> QED
  BY <1>2, Inductive, PTL DEF Spec, PinsKept

(* An end is final: what overwrites it is another end, an expiry date or   *)
(* the purge (close_session, extend_session, expire_due_sessions).         *)
THEOREM EndsStayFinal ==
    ASSUME NoCode \notin Codes
    PROVE  Spec => EndsFinal
<1>1. ASSUME RowsTyped, [Next]_row, NEW s \in Ids, row[s].status \in {"closed", "expired"}
      PROVE  row'[s].status # "active"
  <2>1. ASSUME NEW x \in Ids, Create(x)
        PROVE  row'[s] = row[s]
    BY <1>1, <2>1, Untouched DEF Create
  <2>2. CASE \/ \E terminal \in {"closed", "expired"} : End(terminal)
             \/ \E x \in Ids, life \in {"due", "extended"} : Live(x, life)
             \/ Purge
    BY <1>1, <2>2 DEF RowsTyped, Rows, End, Live, Purge, NoRow
  <2> QED
    BY <1>1, <2>1, <2>2 DEF Next
<1>2. LInv /\ [Next]_row => [\A s \in Ids : row[s].status \in {"closed", "expired"} =>
                                row'[s].status # "active"]_row
  BY <1>1 DEF LInv
<1> QED
  BY <1>2, Inductive, PTL DEF Spec, EndsFinal

=============================================================================
