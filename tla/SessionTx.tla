----------------------------- MODULE SessionTx ------------------------------
(***************************************************************************)
(* Concurrent transactions on the sessions of a few numbers, statement by  *)
(* statement (services/allocation.py, services/sessions.py), under the     *)
(* READ COMMITTED isolation of PostgreSQL: a statement sees what was       *)
(* committed when it began and what its own transaction wrote; a row that  *)
(* is written or locked stays locked until the transaction ends; SKIP      *)
(* LOCKED passes over locked rows, FOR UPDATE waits, and reads the latest  *)
(* version once it has the lock; an UPDATE by id waits and overwrites.     *)
(*                                                                         *)
(* There is no clock: `life' says whether the expiry of a session passed,  *)
(* and every cooldown that began is still running.  All numbers are        *)
(* enabled, cooldown_scope is "party" and ext_code_mode "auto".  Rows are  *)
(* scanned in the order of their ids.                                      *)
(*                                                                         *)
(* `Fault:' marks a mistaken variant of the definition after it.           *)
(***************************************************************************)
EXTENDS Integers, FiniteSets

CONSTANTS
    Txs,           \* the transactions
    Jobs,          \* the jobs each may run: "create", "close", "extend", "sweep"
    Ids,           \* session ids, ordered as the primary key
    Numbers,       \* proxy numbers
    Parties,       \* hashes of real subscriber numbers
    Codes,         \* the PINs ext_code_length allows
    Requests,      \* bound: the pairs a session is asked for
    Openings,      \* bound: the sessions there are at the start
    MaxPerNumber,  \* settings.ext_code_max_per_number
    SweepLimit,    \* _EXPIRY_SWEEP_LIMIT
    NoCode, NoNumber, NoId, Nobody

VARIABLES
    row,      \* the committed rows of sessions and session_parties
    dirty,    \* what the owner of a session row has written to it
    owner,    \* who holds the lock of a session row
    lock,     \* who holds the lock of a number's row
    stamped,  \* does numbers.released_at cover the last end on the number?
    crossed,  \* history: numbers two transactions ended sessions of at once
    tx        \* the transactions: job, next statement and local variables

vars == <<row, dirty, owner, lock, stamped, crossed, tx>>

ASSUME SessionTxAssumption ==
    /\ Ids \subseteq Nat
    /\ Jobs \in [Txs -> SUBSET {"create", "close", "extend", "sweep"}]
    /\ Requests \subseteq SUBSET Parties
    /\ NoId \notin Ids /\ Nobody \notin Txs
    /\ MaxPerNumber \in Nat /\ SweepLimit \in Nat \ {0}

Promise == INSTANCE Ledger

(* What is there at the start is what the constraints of the tables allow: *)
(* the unique indexes, and no session without a number.                    *)
ASSUME OpeningsAssumption ==
    \A rows \in Openings :
        /\ rows \in [Ids -> Promise!Rows]
        /\ Promise!CodesDistinctIn(rows) /\ Promise!OneDirectIn(rows)
        /\ \A s \in Ids : rows[s].status # "none" => rows[s].number \in Numbers

Steps == {"idle", "pick", "try", "codes", "conflicts", "promote", "insert",
          "update", "count", "stamp", "commit", "committed", "aborted"}

Tx0 == [at |-> "idle", job |-> "none", session |-> NoId, pair |-> {},
        number |-> NoNumber, code |-> NoCode, seen |-> {}, used |-> {},
        todo |-> {}, mine |-> {}, ended |-> {}, stamps |-> {}]

Transactions ==
    [at : Steps, job : {"none", "create", "close", "extend", "sweep"},
     session : Ids \cup {NoId}, pair : SUBSET Parties,
     number : Numbers \cup {NoNumber}, code : Codes \cup {NoCode},
     seen : SUBSET Numbers, used : SUBSET Codes, todo : SUBSET Ids,
     mine : SUBSET Ids, ended : SUBSET Ids, stamps : SUBSET Numbers]

TypeOK ==
    /\ row \in [Ids -> Promise!Rows]
    /\ dirty \in [Ids -> Promise!Rows]
    /\ owner \in [Ids -> Txs \cup {Nobody}]
    /\ lock \in [Numbers -> Txs \cup {Nobody}]
    /\ stamped \in [Numbers -> BOOLEAN]
    /\ crossed \subseteq Numbers
    /\ tx \in [Txs -> Transactions]

-----------------------------------------------------------------------------
(* What statements see                                                     *)

Ended(r) == r.status \in {"closed", "expired"}

View(t) == [s \in Ids |-> IF owner[s] = t THEN dirty[s] ELSE row[s]]

ActiveOn(rows, n) == {s \in Ids : rows[s].status = "active" /\ rows[s].number = n}

UsedCodes(rows, n) == {rows[s].code : s \in ActiveOn(rows, n)} \ {NoCode}

(* _CANDIDATE_PREDICATE, without the clock                                 *)
Cooling(rows, n, pair) ==
    \E s \in Ids : /\ Ended(rows[s]) /\ rows[s].number = n
                   /\ rows[s].parties \cap pair # {}

Exclusive(rows, pair) ==
    {n \in Numbers : /\ ~Cooling(rows, n, pair)
                     /\ \A s \in ActiveOn(rows, n) : rows[s].parties \cap pair = {}}

Shareable(rows, pair) ==
    {n \in Numbers : /\ ~Cooling(rows, n, pair)
                     /\ Cardinality(ActiveOn(rows, n)) < MaxPerNumber}

ToPromote(rows, n, pair) ==
    {s \in ActiveOn(rows, n) : rows[s].code = NoCode /\ rows[s].parties \cap pair # {}}

(* The first and the last of a scan                                        *)
First(S) == CHOOSE s \in S : \A x \in S : s <= x
Last(S) == CHOOSE s \in S : \A x \in S : s >= x

FreeFor(t, holder) == holder \in {Nobody, t}

-----------------------------------------------------------------------------
Init ==
    /\ row \in Openings
    /\ dirty = [s \in Ids |-> Promise!NoRow]
    /\ owner = [s \in Ids |-> Nobody]
    /\ lock = [n \in Numbers |-> Nobody]
    /\ stamped = [n \in Numbers |-> TRUE]
    /\ crossed = {}
    /\ tx = [t \in Txs |-> Tx0]

(* The transaction's own part of a step                                    *)
Go(t, record) == tx' = [tx EXCEPT ![t] = record]

Begins(t, job) == tx[t].at = "idle" /\ job \in Jobs[t]

Lock(t, n) == lock' = [lock EXCEPT ![n] = t]

Write(t, s, r) ==
    /\ owner' = [owner EXCEPT ![s] = t]
    /\ dirty' = [dirty EXCEPT ![s] = r]

(* All locks go with the end of a transaction                              *)
LetGo(t) ==
    /\ owner' = [s \in Ids |-> IF owner[s] = t THEN Nobody ELSE owner[s]]
    /\ lock' = [n \in Numbers |-> IF lock[n] = t THEN Nobody ELSE lock[n]]
    /\ dirty' = [s \in Ids |-> IF owner[s] = t THEN Promise!NoRow ELSE dirty[s]]

Abort(t) ==
    /\ LetGo(t)
    /\ Go(t, [Tx0 EXCEPT !.at = "aborted", !.job = tx[t].job])
    /\ UNCHANGED <<row, stamped, crossed>>

Commit(t) ==
    /\ tx[t].at = "commit"
    /\ row' = [s \in Ids |-> IF owner[s] = t THEN dirty[s] ELSE row[s]]
    /\ stamped' = [n \in Numbers |->
           IF n \in tx[t].stamps THEN TRUE
           ELSE IF /\ tx[t].job \in {"close", "sweep"}
                   /\ \E s \in Ids : owner[s] = t /\ dirty[s].number = n
           THEN FALSE ELSE stamped[n]]
    /\ LetGo(t)
    /\ Go(t, [Tx0 EXCEPT !.at = "committed", !.job = tx[t].job])
    /\ UNCHANGED crossed

-----------------------------------------------------------------------------
(* create_session: the exclusive query reads its candidates...             *)
BeginCreate(t, s, pair) ==
    /\ Begins(t, "create")
    /\ row[s].status = "none"
    /\ \A u \in Txs : tx[u].session # s
    /\ Go(t, [tx[t] EXCEPT !.at = "pick", !.job = "create", !.session = s,
                           !.pair = pair, !.seen = Exclusive(row, pair)])
    /\ UNCHANGED <<row, dirty, owner, lock, stamped, crossed>>

(* ... and then locks the first that is not locked                         *)
Pick(t, n) ==
    /\ tx[t].at = "pick" /\ n \in tx[t].seen
    /\ IF FreeFor(t, lock[n])
       THEN Lock(t, n) /\ Go(t, [tx[t] EXCEPT !.at = "insert", !.number = n, !.seen = {}])
       ELSE Go(t, [tx[t] EXCEPT !.seen = @ \ {n}]) /\ UNCHANGED lock
    /\ UNCHANGED <<row, dirty, owner, stamped, crossed>>

(* The fallback's candidates, with their count of sessions                 *)
LookForShared(t) ==
    /\ tx[t].at = "pick" /\ tx[t].seen = {}
    /\ Go(t, [tx[t] EXCEPT !.at = "try", !.seen = Shareable(row, tx[t].pair)])
    /\ UNCHANGED <<row, dirty, owner, lock, stamped, crossed>>

(* A candidate given up stays locked                                       *)
Try(t, n) ==
    /\ tx[t].at = "try" /\ n \in tx[t].seen
    /\ IF FreeFor(t, lock[n])
       THEN /\ Lock(t, n)
            /\ Go(t, [tx[t] EXCEPT !.at = "codes", !.number = n, !.seen = @ \ {n}])
       ELSE Go(t, [tx[t] EXCEPT !.seen = @ \ {n}]) /\ UNCHANGED lock
    /\ UNCHANGED <<row, dirty, owner, stamped, crossed>>

(* NoNumberAvailableError                                                  *)
Exhausted(t) == tx[t].at = "try" /\ tx[t].seen = {} /\ Abort(t)

CodesInUse(t) == UsedCodes(View(t), tx[t].number)

(* The PINs in use, and one for the new session.  Twenty random draws can  *)
(* all be taken as soon as one is.                                         *)
ReadCodes(t) ==
    /\ tx[t].at = "codes"
    /\ \/ \E code \in Codes \ CodesInUse(t) :
             Go(t, [tx[t] EXCEPT !.at = "conflicts", !.code = code,
                                 !.used = CodesInUse(t) \cup {code}])
       \/ CodesInUse(t) # {} /\ Go(t, [tx[t] EXCEPT !.at = "try"])
    /\ UNCHANGED <<row, dirty, owner, lock, stamped, crossed>>

(* _promote_conflicting_sessions: the query                                *)
FindConflicts(t) ==
    /\ tx[t].at = "conflicts"
    /\ Go(t, [tx[t] EXCEPT !.at = "promote", !.mine = {},
                  !.todo = ToPromote(View(t), tx[t].number, tx[t].pair)])
    /\ UNCHANGED <<row, dirty, owner, lock, stamped, crossed>>

(* Fault: a session that ended in the meantime is promoted all the same    *)
StillWithoutPin(t, s) == View(t)[s].code = NoCode

(* The row as it is once it is locked is the one the query's WHERE decides *)
StillConflicts(t, s) == View(t)[s].status = "active" /\ View(t)[s].code = NoCode

LockConflict(t, s) ==
    /\ tx[t].at = "promote" /\ tx[t].todo # {} /\ s = First(tx[t].todo)
    /\ FreeFor(t, owner[s])
    /\ IF StillConflicts(t, s)
       THEN /\ Write(t, s, View(t)[s])
            /\ Go(t, [tx[t] EXCEPT !.todo = @ \ {s}, !.mine = @ \cup {s}])
       ELSE Go(t, [tx[t] EXCEPT !.todo = @ \ {s}]) /\ UNCHANGED <<dirty, owner>>
    /\ UNCHANGED <<row, lock, stamped, crossed>>

(* PINs for the sessions locked, or for a part of them when the draws fail *)
GivePins(t) ==
    /\ tx[t].at = "promote" /\ tx[t].todo = {}
    /\ \E done \in SUBSET tx[t].mine : \E given \in [done -> Codes \ tx[t].used] :
          /\ \A x, y \in done : given[x] = given[y] => x = y
          /\ dirty' = [s \in Ids |-> IF s \in done THEN [dirty[s] EXCEPT !.code = given[s]]
                                     ELSE dirty[s]]
          /\ Go(t, [tx[t] EXCEPT !.mine = {}, !.used = {},
                        !.at = IF done = tx[t].mine THEN "insert" ELSE "try",
                        !.code = IF done = tx[t].mine THEN @ ELSE NoCode])
    /\ UNCHANGED <<row, owner, lock, stamped, crossed>>

(* The unique indexes: a party without PIN once per number, a PIN once     *)
Collides(t, r) ==
    /\ r.status = "active" /\ r.number = tx[t].number
    /\ IF tx[t].code = NoCode
       THEN r.code = NoCode /\ r.parties \cap tx[t].pair # {}
       ELSE r.code = tx[t].code

Foreign(t, s) == ~FreeFor(t, owner[s])

(* A row that collides before or after an uncommitted change is waited for *)
Undecided(t) == {s \in Ids : Foreign(t, s) /\ Collides(t, row[s]) # Collides(t, dirty[s])}

Collision(t) == \E s \in Ids \ Undecided(t) : Collides(t, View(t)[s])

Insert(t) ==
    /\ tx[t].at = "insert"
    /\ Undecided(t) = {} /\ ~Collision(t)
    /\ Write(t, tx[t].session,
             [status |-> "active", number |-> tx[t].number, parties |-> tx[t].pair,
              code |-> tx[t].code, life |-> "running"])
    /\ Go(t, [tx[t] EXCEPT !.at = "commit"])
    /\ UNCHANGED <<row, lock, stamped, crossed>>

(* IntegrityError, answered as "a concurrent request took the number"      *)
InsertFails(t) == tx[t].at = "insert" /\ Collision(t) /\ Abort(t)

-----------------------------------------------------------------------------
(* close_session, extend_session and expire_due_sessions read sessions     *)
(* without a lock...                                                       *)
BeginUpdate(t, job, batch) ==
    /\ Begins(t, job)
    /\ Go(t, [tx[t] EXCEPT !.at = "update", !.job = job, !.todo = batch])
    /\ UNCHANGED <<row, dirty, owner, lock, stamped, crossed>>

BeginClose(t, s) == row[s].status = "active" /\ BeginUpdate(t, "close", {s})

BeginExtend(t, s) == row[s].status = "active" /\ BeginUpdate(t, "extend", {s})

Due == {s \in Ids : row[s].status = "active" /\ row[s].life = "due"}

BeginSweep(t, batch) ==
    /\ batch # {} /\ Cardinality(batch) <= SweepLimit
    /\ batch # Due => Cardinality(batch) = SweepLimit
    /\ BeginUpdate(t, "sweep", batch)

AfterWrite(t, left) ==
    IF left # {} THEN "update" ELSE IF tx[t].job = "extend" THEN "commit" ELSE "count"

(* Fault: a status the database has no name for                            *)
WrittenDone(t, s) == [row[s] EXCEPT !.status = "done"]

Written(t, s) ==
    CASE tx[t].job = "extend" -> [row[s] EXCEPT !.life = "extended"]
      [] tx[t].job = "close"  -> [row[s] EXCEPT !.status = "closed"]
      [] tx[t].job = "sweep"  -> [row[s] EXCEPT !.status = "expired"]

(* Fault: the rows are written in the order each transaction found them    *)
NextWrittenAnyhow(t) ==
    IF \E u \in Txs \ {t} : tx[u].at = "update" THEN Last(tx[t].todo)
    ELSE First(tx[t].todo)

(* The unit of work flushes its rows in the order of the primary key       *)
NextWritten(t) == First(tx[t].todo)

(* ... and write them by id, whatever became of them                       *)
Update(t, s) ==
    /\ tx[t].at = "update" /\ s = NextWritten(t)
    /\ FreeFor(t, owner[s])
    /\ Write(t, s, Written(t, s))
    /\ Go(t, [tx[t] EXCEPT !.at = AfterWrite(t, tx[t].todo \ {s}),
                           !.todo = @ \ {s},
                           !.ended = IF tx[t].job = "extend" THEN {} ELSE @ \cup {s}])
    /\ UNCHANGED <<row, lock, stamped, crossed>>

(* Fault: the count does not see what the transaction wrote itself         *)
RemainingCommitted(t, n) == ActiveOn(row, n)

(* _mark_number_released, for the sessions ended, in any order             *)
Remaining(t, n) == ActiveOn(View(t), n)

AfterCount(left) == IF left # {} THEN "count" ELSE "commit"

Count(t, s) ==
    LET n == dirty[s].number
        left == tx[t].ended \ {s}
    IN  /\ tx[t].at = "count" /\ s \in tx[t].ended
        /\ Go(t, [tx[t] EXCEPT !.ended = left, !.number = n,
                      !.at = IF Remaining(t, n) = {} THEN "stamp" ELSE AfterCount(left)])
        /\ crossed' = IF \E x \in Ids : /\ Foreign(t, x)
                                        /\ dirty[x].number = n /\ Ended(dirty[x])
                      THEN crossed \cup {n} ELSE crossed
        /\ UNCHANGED <<row, dirty, owner, lock, stamped>>

Stamp(t) ==
    /\ tx[t].at = "stamp"
    /\ FreeFor(t, lock[tx[t].number])
    /\ Lock(t, tx[t].number)
    /\ Go(t, [tx[t] EXCEPT !.stamps = @ \cup {tx[t].number},
                           !.at = AfterCount(tx[t].ended)])
    /\ UNCHANGED <<row, dirty, owner, stamped, crossed>>

-----------------------------------------------------------------------------
(* Whom a transaction waits for, as PostgreSQL sees it                     *)
WaitsForRow(t) ==
    CASE tx[t].at = "promote" /\ tx[t].todo # {} -> {owner[First(tx[t].todo)]}
      [] tx[t].at = "update" -> {owner[NextWritten(t)]}
      [] tx[t].at = "insert" -> {owner[s] : s \in Undecided(t)}
      [] OTHER -> {}

Waits(t) ==
    (WaitsForRow(t) \cup IF tx[t].at = "stamp" THEN {lock[tx[t].number]} ELSE {})
        \ {Nobody, t}

(* Those a transaction waits for, directly or through others: the members  *)
(* of every set that holds the direct ones and whom its members wait for   *)
WaitsWithin(t, S) == Waits(t) \subseteq S /\ \A v \in S : Waits(v) \subseteq S

Awaited(t) == {u \in Txs : \A S \in SUBSET Txs : WaitsWithin(t, S) => u \in S}

Deadlocked(t) == t \in Awaited(t)

(* The detector aborts one of those that wait for each other               *)
DetectDeadlock(t) == Deadlocked(t) /\ Abort(t)

(* A lost connection, or any exception before the commit                   *)
Fail(t) == tx[t].at \notin {"idle", "committed", "aborted"} /\ Abort(t)

PassExpiry(s) ==
    /\ row[s].status = "active" /\ row[s].life = "running"
    /\ row' = [row EXCEPT ![s].life = "due"]
    /\ dirty' = [dirty EXCEPT ![s].life = IF @ = "running" /\ owner[s] # Nobody
                                          THEN "due" ELSE @]
    /\ UNCHANGED <<owner, lock, stamped, crossed, tx>>

CreateStep(t) ==
    \/ \E n \in Numbers : Pick(t, n) \/ Try(t, n)
    \/ LookForShared(t) \/ Exhausted(t) \/ ReadCodes(t) \/ FindConflicts(t)
    \/ \E s \in Ids : LockConflict(t, s)
    \/ GivePins(t) \/ Insert(t) \/ InsertFails(t)

UpdateStep(t) == (\E s \in Ids : Update(t, s) \/ Count(t, s)) \/ Stamp(t)

Step(t) == CreateStep(t) \/ UpdateStep(t) \/ Commit(t) \/ DetectDeadlock(t)

Begin(t) ==
    \/ \E s \in Ids, pair \in Requests : BeginCreate(t, s, pair)
    \/ \E s \in Ids : BeginClose(t, s) \/ BeginExtend(t, s)
    \/ \E batch \in SUBSET Due : BeginSweep(t, batch)

Next ==
    \/ \E t \in Txs : Begin(t) \/ Step(t) \/ Fail(t)
    \/ \E s \in Ids : PassExpiry(s)

Spec == Init /\ [][Next]_vars

-----------------------------------------------------------------------------
(* Correctness                                                             *)

(* However transactions cross, what one of them commits is what Ledger     *)
(* allows: fresh PINs, distinct on their number, for sessions that are     *)
(* still active; one session without a PIN per subscriber and number.      *)
KeepsLedger == Promise!Spec

(* released_at of an idle number covers the last end on it, unless two     *)
(* transactions ended sessions of the number at the same time.             *)
StampedUnlessCrossed ==
    \A n \in Numbers : stamped[n] \/ n \in crossed \/ ActiveOn(row, n) # {}

(* Closes, extensions and sweeps write sessions in one order and numbers   *)
(* after them.  Without a creation they wait for each other in one way     *)
(* only: sweeps that each hold the row of a number and stamp another.      *)
DeadlocksKnown ==
    \A t \in Txs : Deadlocked(t) =>
        \/ \E u \in Awaited(t) : tx[u].job = "create"
        \/ \A u \in Awaited(t) : /\ tx[u].job = "sweep" /\ tx[u].at = "stamp"
                                 /\ \E n \in Numbers : lock[n] = u

(* What the docs say and the code does not keep                            *)

(* The lock on the number "is what makes concurrent POST /sessions safe":  *)
(* a subscriber's second session on a number is reached by PIN, so each    *)
(* of them has one.                                                        *)
Reachable ==
    \A n \in Numbers : \A s, x \in ActiveOn(row, n) :
        s # x /\ row[s].parties \cap row[x].parties # {} => row[s].code # NoCode

=============================================================================
