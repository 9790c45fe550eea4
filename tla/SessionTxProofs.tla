-------------------------- MODULE SessionTxProofs ---------------------------
(***************************************************************************)
(* Theorems about SessionTx, for any transactions, jobs, sessions and pool:*)
(* it implements Ledger, the release time is stamped unless two ends       *)
(* cross, and the deadlocks are those there are known to be.               *)
(***************************************************************************)
EXTENDS SessionTx, WellFoundedInduction, TLAPS

Contract == INSTANCE LedgerProofs

-----------------------------------------------------------------------------
(* The invariant                                                           *)

(* A transaction that creates a session; one that ends or extends some     *)
Creates(t) ==
    \/ tx[t].at \in {"pick", "try", "codes", "conflicts", "promote", "insert"}
    \/ tx[t].at = "commit" /\ tx[t].job = "create"

Writes(t) ==
    \/ tx[t].at \in {"update", "count", "stamp"}
    \/ tx[t].at = "commit" /\ tx[t].job # "create"

Ends(t) == Writes(t) /\ tx[t].job # "extend"

(* What a transaction sees of a session                                    *)
Seen(t, s) == IF owner[s] = t THEN dirty[s] ELSE row[s]

SeenOn(t, s, n) == Seen(t, s).status = "active" /\ Seen(t, s).number = n

RowsFilled == \A s \in Ids : row[s].status # "none" => row[s].number \in Numbers

(* Before and after its work a transaction holds nothing.                  *)
Rest(t) ==
    /\ tx[t].at = "idle" => tx[t] = Tx0
    /\ tx[t].at \in {"committed", "aborted"} => tx[t].session = NoId
    /\ tx[t].at \in {"idle", "committed", "aborted"} =>
           /\ \A s \in Ids : owner[s] # t
           /\ \A n \in Numbers : lock[n] # t

(* A creation holds the lock of every number it works on, and of the rows  *)
(* its own session and active ones that have no PIN in the database.       *)
Creator(t) ==
    Creates(t) =>
    /\ tx[t].job = "create"
    /\ tx[t].session \in Ids /\ row[tx[t].session].status = "none"
    /\ tx[t].at \in {"codes", "conflicts", "promote", "insert", "commit"} =>
           tx[t].number \in Numbers /\ lock[tx[t].number] = t
    /\ tx[t].at = "commit" => owner[tx[t].session] = t
    /\ \A s \in Ids : owner[s] = t =>
           \/ /\ s = tx[t].session /\ tx[t].at = "commit"
              /\ dirty[s].status = "active" /\ dirty[s].number = tx[t].number
           \/ /\ s # tx[t].session
              /\ row[s].status = "active" /\ row[s].code = NoCode
              /\ lock[row[s].number] = t
              /\ dirty[s].status = "active" /\ dirty[s].number = row[s].number
              /\ dirty[s].parties = row[s].parties /\ dirty[s].life = row[s].life

(* The PINs a creation has noted as used are all there are on its number.  *)
Promoter(t) ==
    /\ tx[t].at \in {"conflicts", "promote"} =>
           /\ tx[t].code \in tx[t].used
           /\ \A s \in Ids : SeenOn(t, s, tx[t].number) =>
                  Seen(t, s).code \in tx[t].used \cup {NoCode}
    /\ tx[t].at = "promote" =>
           /\ \A s \in tx[t].todo : row[s].status # "none" /\ row[s].number = tx[t].number
           /\ \A s \in tx[t].mine : owner[s] = t /\ dirty[s].number = tx[t].number

(* A PIN a creation has written is unique on its number, as far as it sees;*)
(* its session without a PIN meets no other without one.                   *)
Fresh(t) ==
    Creates(t) =>
    /\ \A s, x \in Ids :
           /\ owner[s] = t /\ dirty[s].code # NoCode
           /\ x # s /\ SeenOn(t, x, dirty[s].number)
           => Seen(t, x).code # dirty[s].code
    /\ tx[t].at = "commit" /\ dirty[tx[t].session].code = NoCode =>
           \A x \in Ids \ {tx[t].session} :
               SeenOn(t, x, tx[t].number) /\ Seen(t, x).code = NoCode =>
                   Seen(t, x).parties \cap dirty[tx[t].session].parties = {}

(* What was written to a row that was read before it was locked            *)
Overwrites(job, r, w) ==
    /\ w.number = r.number /\ w.parties = r.parties /\ w.code = r.code
    /\ job = "extend" => w.status = r.status /\ w.life = "extended"
    /\ job = "close" => w.status = "closed" /\ w.life = r.life
    /\ job = "sweep" => w.status = "expired" /\ w.life = r.life

Writer(t) ==
    Writes(t) =>
    /\ tx[t].job \in {"close", "extend", "sweep"}
    /\ tx[t].at \in {"count", "stamp"} => tx[t].job # "extend"
    /\ tx[t].at = "update" <=> tx[t].todo # {}
    /\ \A s \in tx[t].todo : row[s].status # "none"
    /\ \A s \in Ids : owner[s] = t =>
           row[s].status # "none" /\ Overwrites(tx[t].job, row[s], dirty[s])
    /\ tx[t].job = "extend" =>
           /\ \A x, y \in tx[t].todo : x = y
           /\ \A x, y \in Ids : owner[x] = t /\ owner[y] = t => x = y
           /\ tx[t].at = "update" => \A s \in Ids : owner[s] # t
    /\ tx[t].at = "update" /\ tx[t].job # "extend" =>
           \A s \in Ids : owner[s] = t => s \in tx[t].ended
    /\ \A s \in tx[t].ended : owner[s] = t
    /\ tx[t].at = "commit" => tx[t].ended = {}
    /\ tx[t].at = "stamp" => tx[t].number \in Numbers

(* Sessions are written in the order of their ids, and numbers after them. *)
Ordered(t) ==
    Writes(t) =>
    /\ tx[t].at = "update" => \A s \in Ids : owner[s] = t => \A x \in tx[t].todo : s < x
    /\ \A n \in Numbers : lock[n] = t => tx[t].at # "update"
    /\ tx[t].job = "close" =>
        /\ \A x, y \in tx[t].todo \cup tx[t].ended : x = y
        /\ tx[t].at = "stamp" => tx[t].ended = {}
        /\ tx[t].at \in {"count", "stamp"} => \A n \in Numbers : lock[n] # t

(* A session whose number was counted: the number is to be stamped, or a   *)
(* session is left on it that somebody else has to end, or ends crossed.   *)
Counted(t, s) == owner[s] = t /\ s \notin tx[t].ended

Covered(t) ==
    Ends(t) => \A s \in Ids : Counted(t, s) =>
        \/ dirty[s].number \in tx[t].stamps \cup crossed
        \/ tx[t].at = "stamp" /\ dirty[s].number = tx[t].number
        \/ \E x \in ActiveOn(row, dirty[s].number) : owner[x] # t

Crossing(t, u) ==
    t # u /\ Ends(t) /\ Ends(u) =>
        \A s, x \in Ids :
            Counted(t, s) /\ Counted(u, x) /\ dirty[s].number = dirty[x].number =>
                dirty[s].number \in crossed

Inv(t) == Rest(t) /\ Creator(t) /\ Promoter(t) /\ Fresh(t) /\ Writer(t)
          /\ Ordered(t) /\ Covered(t)

OwnSessions == \A t, u \in Txs : t # u /\ tx[t].session # NoId => tx[t].session # tx[u].session

IInv ==
    /\ TypeOK
    /\ RowsFilled
    /\ \A t \in Txs : Inv(t)
    /\ \A t, u \in Txs : Crossing(t, u)
    /\ OwnSessions
    /\ StampedUnlessCrossed


-----------------------------------------------------------------------------
(* Operators                                                               *)

(* The first of a scan is there, and is the first.                         *)
LEMMA FirstOf ==
    ASSUME NEW S, S \subseteq Nat, S # {}
    PROVE  First(S) \in S /\ \A x \in S : First(S) <= x
<1> DEFINE less == {ss \in Nat \X Nat : ss[1] < ss[2]}
<1>1. less = OpToRel(<, Nat)
  BY DEF OpToRel
<1>2. IsWellFoundedOn(less, Nat)
  BY <1>1, NatLessThanWellFounded
<1>3. \A x, y \in Nat : x < y => <<x, y>> \in less
  OBVIOUS
<1> HIDE DEF less
<1>4. \E s \in S : \A x \in S : <<x, s>> \notin less
  BY <1>2, WFMin
<1>5. PICK s \in S : \A x \in S : ~ (x < s)
  BY <1>3, <1>4, Zenon
<1>6. \A x \in S : s <= x
  BY <1>5
<1> QED
  BY <1>6 DEF First

LEMMA ViewSeen ==
    ASSUME NEW t \in Txs
    PROVE  \A s \in Ids : View(t)[s] = Seen(t, s)
  BY DEF View, Seen

(* The types of a row and of a transaction                                 *)
LEMMA RowTyped ==
    ASSUME TypeOK, NEW s \in Ids
    PROVE  row[s] \in Promise!Rows /\ dirty[s] \in Promise!Rows
  BY DEF TypeOK

LEMMA TxTyped ==
    ASSUME TypeOK, NEW t \in Txs
    PROVE  /\ tx[t] \in Transactions
           /\ tx[t].at \in Steps
           /\ tx[t].job \in {"none", "create", "close", "extend", "sweep"}
           /\ tx[t].session \in Ids \cup {NoId} /\ tx[t].pair \subseteq Parties
           /\ tx[t].number \in Numbers \cup {NoNumber}
           /\ tx[t].code \in Codes \cup {NoCode}
           /\ tx[t].seen \subseteq Numbers /\ tx[t].used \subseteq Codes
           /\ tx[t].todo \subseteq Ids /\ tx[t].mine \subseteq Ids
           /\ tx[t].ended \subseteq Ids /\ tx[t].stamps \subseteq Numbers
  BY DEF TypeOK, Transactions

LEMMA Gone ==
    ASSUME TypeOK, NEW t \in Txs, NEW record, Go(t, record)
    PROVE  tx'[t] = record /\ \A u \in Txs \ {t} : tx'[u] = tx[u]
  BY DEF TypeOK, Go

-----------------------------------------------------------------------------
(* A transaction beside the one that makes a step                          *)

(* What the steps of others leave a transaction: what it has locked and    *)
(* written, but for the life of a session; the numbers of sessions; no     *)
(* more sessions on the numbers it holds; and on the others one that is    *)
(* still to be ended, unless ends cross.                                   *)
KeepsOwn(t) ==
    /\ tx'[t] = tx[t]
    /\ crossed \subseteq crossed'
    /\ \A n \in Numbers : (lock'[n] = t) <=> (lock[n] = t)
    /\ \A s \in Ids : (owner'[s] = t) <=> (owner[s] = t)
    /\ \A s \in Ids : owner[s] = t =>
           /\ row'[s].status = row[s].status /\ row'[s].code = row[s].code
           /\ row'[s].number = row[s].number /\ row'[s].parties = row[s].parties
           /\ dirty'[s].status = dirty[s].status /\ dirty'[s].code = dirty[s].code
           /\ dirty'[s].number = dirty[s].number /\ dirty'[s].parties = dirty[s].parties
           /\ dirty[s].life = row[s].life => dirty'[s].life = row'[s].life
           /\ dirty[s].life = "extended" => dirty'[s].life = "extended"

KeepsRows(t) ==
    /\ \A s \in Ids : row[s].status # "none" =>
           row'[s].status # "none" /\ row'[s].number = row[s].number
    /\ Creates(t) => row'[tx[t].session].status = "none"
    /\ \A s \in Ids :
           /\ owner[s] # t /\ row'[s].status = "active"
           /\ row'[s].number \in Numbers /\ lock[row'[s].number] = t
           => /\ row[s].status = "active" /\ row'[s].number = row[s].number
              /\ row'[s].code = row[s].code /\ row'[s].parties = row[s].parties

KeepsCover(t) ==
    \A s \in Ids :
        /\ Ends(t) /\ Counted(t, s)
        /\ \E x \in ActiveOn(row, dirty[s].number) : owner[x] # t
        => \/ dirty[s].number \in crossed'
           \/ \E x \in ActiveOn(row', dirty[s].number) : owner'[x] # t

Beside(t) == KeepsOwn(t) /\ KeepsRows(t) /\ KeepsCover(t)

LEMMA BesideSeen ==
    ASSUME TypeOK, NEW t \in Txs, Beside(t), NEW x \in Ids,
           NEW n \in Numbers, lock[n] = t, SeenOn(t, x, n)'
    PROVE  /\ SeenOn(t, x, n)
           /\ Seen(t, x)'.code = Seen(t, x).code
           /\ Seen(t, x)'.parties = Seen(t, x).parties
<1>1. CASE owner[x] = t
  BY <1>1 DEF Beside, KeepsOwn, SeenOn, Seen
<1>2. CASE owner[x] # t
  BY <1>2 DEF Beside, KeepsOwn, KeepsRows, SeenOn, Seen
<1> QED
  BY <1>1, <1>2

LEMMA BesideRest ==
    ASSUME TypeOK, NEW t \in Txs, Rest(t), Beside(t)
    PROVE  Rest(t)'
  BY DEF Rest, Beside, KeepsOwn

LEMMA BesideCreator ==
    ASSUME TypeOK, RowsFilled, NEW t \in Txs, Creator(t), Beside(t)
    PROVE  Creator(t)'
<1> SUFFICES ASSUME Creates(t)' PROVE Creator(t)'
  BY DEF Creator
<1>1. Creates(t)
  BY DEF Creates, Beside, KeepsOwn
<1>2. \A s \in Ids : owner[s] = t /\ row[s].status # "none" => row[s].number \in Numbers
  BY DEF RowsFilled
<1> QED
  BY <1>1, <1>2 DEF Creator, Beside, KeepsOwn, KeepsRows

LEMMA BesidePromoter ==
    ASSUME TypeOK, RowsFilled, NEW t \in Txs, Creator(t), Promoter(t), Beside(t)
    PROVE  Promoter(t)'
<1>1. tx'[t] = tx[t]
  BY DEF Beside, KeepsOwn
<1>2. ASSUME tx[t].at \in {"conflicts", "promote"}, NEW s \in Ids,
             SeenOn(t, s, tx[t].number)'
      PROVE  Seen(t, s)'.code \in tx[t].used \cup {NoCode}
  <2>1. tx[t].number \in Numbers /\ lock[tx[t].number] = t
    BY <1>2 DEF Creator, Creates
  <2>2. SeenOn(t, s, tx[t].number) /\ Seen(t, s)'.code = Seen(t, s).code
    BY <1>1, <1>2, <2>1, BesideSeen DEF SeenOn
  <2> QED
    BY <1>2, <2>2 DEF Promoter
<1>3. ASSUME tx[t].at = "promote"
      PROVE  /\ \A s \in tx[t].todo : row'[s].status # "none" /\ row'[s].number = tx[t].number
             /\ \A s \in tx[t].mine : owner'[s] = t /\ dirty'[s].number = tx[t].number
  BY <1>3, TxTyped DEF Promoter, Beside, KeepsOwn, KeepsRows
<1> QED
  BY <1>1, <1>2, <1>3 DEF Promoter, SeenOn

LEMMA BesideFresh ==
    ASSUME TypeOK, RowsFilled, NEW t \in Txs, Creator(t), Fresh(t), Beside(t)
    PROVE  Fresh(t)'
<1> SUFFICES ASSUME Creates(t)' PROVE Fresh(t)'
  BY DEF Fresh
<1>1. Creates(t) /\ tx'[t] = tx[t]
  BY DEF Creates, Beside, KeepsOwn
<1>2. \A s \in Ids : owner[s] = t =>
          /\ dirty[s].number \in Numbers /\ lock[dirty[s].number] = t
          /\ dirty'[s].number = dirty[s].number /\ dirty'[s].code = dirty[s].code
          /\ dirty'[s].parties = dirty[s].parties
  BY <1>1 DEF Creator, RowsFilled, Beside, KeepsOwn
<1>3. ASSUME NEW s \in Ids, NEW x \in Ids, owner'[s] = t, dirty'[s].code # NoCode,
             x # s, SeenOn(t, x, dirty[s].number)'
      PROVE  Seen(t, x)'.code # dirty'[s].code
  <2> DEFINE n == dirty[s].number
  <2>1. owner[s] = t /\ dirty'[s].number = n
    BY <1>2, <1>3 DEF Beside, KeepsOwn
  <2>2. Seen(t, x)'.status = "active" /\ Seen(t, x)'.number = n
    BY <1>3, <2>1 DEF SeenOn
  <2>3. n \in Numbers /\ lock[n] = t
    BY <1>2, <2>1
  <2> HIDE DEF n
  <2>4. SeenOn(t, x, n) /\ Seen(t, x)'.code = Seen(t, x).code
    BY <2>2, <2>3, BesideSeen DEF SeenOn
  <2> QED
    BY <1>1, <1>2, <1>3, <2>1, <2>4 DEF Fresh, n
<1>4. ASSUME tx[t].at = "commit", dirty'[tx[t].session].code = NoCode,
             NEW x \in Ids \ {tx[t].session}, SeenOn(t, x, tx[t].number)',
             Seen(t, x)'.code = NoCode
      PROVE  Seen(t, x)'.parties \cap dirty'[tx[t].session].parties = {}
  <2>1. /\ tx[t].session \in Ids /\ owner[tx[t].session] = t
        /\ tx[t].number \in Numbers /\ lock[tx[t].number] = t
    BY <1>1, <1>4 DEF Creator
  <2>2. /\ SeenOn(t, x, tx[t].number)
        /\ Seen(t, x)'.code = Seen(t, x).code /\ Seen(t, x)'.parties = Seen(t, x).parties
    BY <1>1, <1>4, <2>1, BesideSeen DEF SeenOn
  <2> QED
    BY <1>1, <1>2, <1>4, <2>1, <2>2 DEF Fresh
<1> QED
  BY <1>1, <1>3, <1>4 DEF Fresh

LEMMA BesideWriter ==
    ASSUME TypeOK, NEW t \in Txs, Writer(t), Beside(t)
    PROVE  Writer(t)'
<1> SUFFICES ASSUME Writes(t)' PROVE Writer(t)'
  BY DEF Writer
<1>1. Writes(t) /\ tx'[t] = tx[t]
  BY DEF Writes, Beside, KeepsOwn
<1>2. ASSUME NEW s \in Ids, owner'[s] = t
      PROVE  row'[s].status # "none" /\ Overwrites(tx[t].job, row'[s], dirty'[s])
  BY <1>1, <1>2 DEF Writer, Overwrites, Beside, KeepsOwn
<1>3. tx[t].todo \subseteq Ids /\ tx[t].ended \subseteq Ids
  BY TxTyped
<1>4. /\ \A s \in tx[t].todo : row'[s].status # "none"
      /\ \A s \in Ids : (owner'[s] = t) <=> (owner[s] = t)
  BY <1>1, <1>3 DEF Writer, Beside, KeepsOwn, KeepsRows
<1> QED
  BY <1>1, <1>2, <1>3, <1>4 DEF Writer

LEMMA BesideOrdered ==
    ASSUME TypeOK, NEW t \in Txs, Ordered(t), Beside(t)
    PROVE  Ordered(t)'
<1>1. tx'[t] = tx[t] /\ (Writes(t)' <=> Writes(t))
  BY DEF Writes, Beside, KeepsOwn
<1> QED
  BY <1>1 DEF Ordered, Beside, KeepsOwn

LEMMA BesideCovered ==
    ASSUME TypeOK, NEW t \in Txs, Covered(t), Beside(t)
    PROVE  Covered(t)'
<1> SUFFICES ASSUME Ends(t)', NEW s \in Ids, Counted(t, s)'
             PROVE  \/ dirty'[s].number \in tx'[t].stamps \cup crossed'
                    \/ tx'[t].at = "stamp" /\ dirty'[s].number = tx'[t].number
                    \/ \E x \in ActiveOn(row', dirty'[s].number) : owner'[x] # t
  BY DEF Covered
<1>1. tx'[t] = tx[t] /\ Ends(t) /\ Counted(t, s)
  BY DEF Ends, Writes, Counted, Beside, KeepsOwn
<1>2. dirty'[s].number = dirty[s].number /\ crossed \subseteq crossed'
  BY <1>1 DEF Counted, Beside, KeepsOwn
<1>3. CASE \E x \in ActiveOn(row, dirty[s].number) : owner[x] # t
  BY <1>1, <1>2, <1>3 DEF Beside, KeepsCover
<1>4. CASE ~ \E x \in ActiveOn(row, dirty[s].number) : owner[x] # t
  BY <1>1, <1>2, <1>4 DEF Covered
<1> QED
  BY <1>3, <1>4

LEMMA BesideKeeps ==
    ASSUME TypeOK, RowsFilled, NEW t \in Txs, Inv(t), Beside(t)
    PROVE  Inv(t)'
  BY BesideRest, BesideCreator, BesidePromoter, BesideFresh, BesideWriter,
     BesideOrdered, BesideCovered DEF Inv

(* A step that commits nothing, and locks only what is free                *)
LEMMA StillBeside ==
    ASSUME TypeOK, NEW t \in Txs, tx'[t] = tx[t], row' = row, crossed \subseteq crossed',
           \A n \in Numbers : (lock'[n] = t) <=> (lock[n] = t),
           \A s \in Ids : (owner'[s] = t) <=> (owner[s] = t),
           \A s \in Ids : owner[s] = t => dirty'[s] = dirty[s],
           Creator(t)
    PROVE  Beside(t)
<1>1. KeepsOwn(t)
  BY DEF KeepsOwn
<1>2. KeepsRows(t)
  BY DEF KeepsRows, Creator
<1>3. KeepsCover(t)
  BY DEF KeepsCover, ActiveOn
<1> QED
  BY <1>1, <1>2, <1>3 DEF Beside

LEMMA WriteBeside ==
    ASSUME TypeOK, NEW t \in Txs, NEW u \in Txs, t # u,
           NEW s \in Ids, NEW r, Write(u, s, r), owner[s] # t
    PROVE  /\ \A x \in Ids : (owner'[x] = t) <=> (owner[x] = t)
           /\ \A x \in Ids : owner[x] = t => dirty'[x] = dirty[x]
  BY DEF TypeOK, Write

LEMMA LockBeside ==
    ASSUME TypeOK, NEW t \in Txs, NEW u \in Txs, t # u,
           NEW n, FreeFor(u, lock[n]), Lock(u, n)
    PROVE  \A m \in Numbers : (lock'[m] = t) <=> (lock[m] = t)
  BY SessionTxAssumption DEF TypeOK, Lock, FreeFor

LEMMA LetGoBeside ==
    ASSUME TypeOK, NEW t \in Txs, NEW u \in Txs, t # u, LetGo(u)
    PROVE  /\ \A n \in Numbers : (lock'[n] = t) <=> (lock[n] = t)
           /\ \A s \in Ids : (owner'[s] = t) <=> (owner[s] = t)
           /\ \A s \in Ids : owner[s] = t => dirty'[s] = dirty[s]
  BY SessionTxAssumption DEF TypeOK, LetGo

(* A transaction is at rest, creates or writes.                            *)
LEMMA Phases ==
    ASSUME TypeOK, NEW t \in Txs
    PROVE  \/ tx[t].at \in {"idle", "committed", "aborted"}
           \/ Creates(t)
           \/ Writes(t)
  BY TxTyped DEF Steps, Creates, Writes

(* A row that somebody else has locked is not the session to be created.   *)
LEMMA OwnSessionFree ==
    ASSUME TypeOK, OwnSessions, NEW t \in Txs, NEW u \in Txs, t # u,
           Creates(t), Inv(t), Inv(u)
    PROVE  tx[t].session \in Ids /\ owner[tx[t].session] # u
<1>1. tx[t].session \in Ids /\ row[tx[t].session].status = "none"
  BY DEF Inv, Creator
<1>2. tx[t].session # tx[u].session
  BY <1>1, SessionTxAssumption DEF OwnSessions
<1>3. CASE tx[u].at \in {"idle", "committed", "aborted"}
  BY <1>1, <1>3 DEF Inv, Rest
<1>4. CASE Creates(u)
  BY <1>1, <1>2, <1>4 DEF Inv, Creator
<1>5. CASE Writes(u)
  BY <1>1, <1>5 DEF Inv, Writer
<1> QED
  BY <1>1, <1>3, <1>4, <1>5, Phases

(* What a transaction commits of a row that was there                      *)
LEMMA CommittedRow ==
    ASSUME TypeOK, RowsFilled, NEW u \in Txs, Inv(u), tx[u].at = "commit",
           NEW s \in Ids, owner[s] = u, row[s].status # "none"
    PROVE  /\ dirty[s].status # "none" /\ dirty[s].number = row[s].number
           /\ dirty[s].parties = row[s].parties
           /\ Creates(u) \/ tx[u].job = "extend" => dirty[s].status = row[s].status
           /\ Creates(u) => lock[row[s].number] = u
           /\ Writes(u) => dirty[s].code = row[s].code
           /\ Ends(u) => Ended(dirty[s])
<1>1. Creates(u) \/ Writes(u)
  BY Phases DEF Creates, Writes
<1>2. CASE Creates(u)
  BY <1>2 DEF Inv, Creator, Creates, Writes, Ends
<1>3. CASE Writes(u)
  BY <1>3 DEF Inv, Writer, Overwrites, Creates, Writes, Ends, Ended
<1> QED
  BY <1>1, <1>2, <1>3

LEMMA CommitBeside ==
    ASSUME TypeOK, RowsFilled, OwnSessions, NEW t \in Txs, NEW u \in Txs, t # u,
           Inv(t), Inv(u), Crossing(t, u), Commit(u)
    PROVE  Beside(t)
<1>1. \A s \in Ids : row'[s] = IF owner[s] = u THEN dirty[s] ELSE row[s]
  BY DEF Commit
<1>2. tx'[t] = tx[t] /\ LetGo(u) /\ crossed' = crossed /\ tx[u].at = "commit"
  BY Gone DEF Commit
<1>3. KeepsOwn(t)
  BY <1>1, <1>2, LetGoBeside DEF KeepsOwn
<1>4. KeepsRows(t)
  <2>1. ASSUME NEW s \in Ids, row[s].status # "none"
        PROVE  row'[s].status # "none" /\ row'[s].number = row[s].number
    BY <1>1, <1>2, <2>1, CommittedRow
  <2>2. Creates(t) => row'[tx[t].session].status = "none"
    BY <1>1, OwnSessionFree DEF Inv, Creator
  <2>3. ASSUME NEW s \in Ids, owner[s] # t, row'[s].status = "active",
               row'[s].number \in Numbers, lock[row'[s].number] = t
        PROVE  /\ row[s].status = "active" /\ row'[s].number = row[s].number
               /\ row'[s].code = row[s].code /\ row'[s].parties = row[s].parties
    <3>1. CASE owner[s] # u
      BY <1>1, <2>3, <3>1
    <3>2. CASE owner[s] = u /\ Creates(u)
      BY <1>1, <1>2, <2>3, <3>2 DEF Inv, Creator
    <3>3. CASE owner[s] = u /\ Writes(u)
      BY <1>1, <1>2, <2>3, <3>3 DEF Inv, Writer, Overwrites
    <3> QED
      BY <1>2, <3>1, <3>2, <3>3, Phases
  <2> QED
    BY <2>1, <2>2, <2>3 DEF KeepsRows
<1>5. KeepsCover(t)
  <2> SUFFICES ASSUME NEW s \in Ids, Ends(t), Counted(t, s),
                      NEW x \in ActiveOn(row, dirty[s].number), owner[x] # t
               PROVE  \/ dirty[s].number \in crossed'
                      \/ \E y \in ActiveOn(row', dirty[s].number) : owner'[y] # t
    BY DEF KeepsCover
  <2>1. x \in Ids /\ row[x].status = "active" /\ row[x].number = dirty[s].number
    BY DEF ActiveOn
  <2>2. owner'[x] # t
    BY <1>2, <2>1, LetGoBeside
  <2>3. CASE owner[x] # u \/ Creates(u) \/ tx[u].job = "extend"
    <3>1. row'[x].status = "active" /\ row'[x].number = dirty[s].number
      BY <1>1, <1>2, <2>1, <2>3, CommittedRow
    <3> QED
      BY <2>1, <2>2, <3>1 DEF ActiveOn
  <2>4. CASE owner[x] = u /\ Ends(u)
    <3>1. dirty[x].number = dirty[s].number
      BY <1>2, <2>1, <2>4, CommittedRow
    <3>2. Counted(u, x)
      BY <1>2, <2>4 DEF Inv, Writer, Ends, Counted
    <3> QED
      BY <1>2, <2>1, <2>4, <3>1, <3>2 DEF Crossing
  <2> QED
    BY <1>2, <2>3, <2>4, Phases DEF Ends
<1> QED
  BY <1>3, <1>4, <1>5 DEF Beside

LEMMA PassExpiryBeside ==
    ASSUME TypeOK, NEW t \in Txs, Inv(t), NEW s \in Ids, PassExpiry(s)
    PROVE  Beside(t)
<1>1. \A x \in Ids :
          /\ row'[x].status = row[x].status /\ row'[x].number = row[x].number
          /\ row'[x].code = row[x].code /\ row'[x].parties = row[x].parties
          /\ dirty'[x].status = dirty[x].status /\ dirty'[x].number = dirty[x].number
          /\ dirty'[x].code = dirty[x].code /\ dirty'[x].parties = dirty[x].parties
  BY RowTyped DEF TypeOK, PassExpiry, Promise!Rows
<1>2. ASSUME NEW x \in Ids, owner[x] = t
      PROVE  /\ dirty[x].life = row[x].life => dirty'[x].life = row'[x].life
             /\ dirty[x].life = "extended" => dirty'[x].life = "extended"
  <2>1. CASE x = s
    BY <1>2, <2>1, RowTyped, SessionTxAssumption DEF TypeOK, PassExpiry, Promise!Rows
  <2>2. CASE x # s
    BY <2>2 DEF TypeOK, PassExpiry
  <2> QED
    BY <2>1, <2>2
<1>3. UNCHANGED <<owner, lock, crossed, tx>>
  BY DEF PassExpiry
<1>4. KeepsOwn(t)
  BY <1>1, <1>2, <1>3 DEF KeepsOwn
<1>5. KeepsRows(t)
  BY <1>1 DEF KeepsRows, Inv, Creator
<1>6. KeepsCover(t)
  BY <1>1, <1>3 DEF KeepsCover, ActiveOn
<1> QED
  BY <1>4, <1>5, <1>6 DEF Beside

-----------------------------------------------------------------------------
(* Types                                                                   *)

LEMMA GoTyped ==
    ASSUME TypeOK, NEW t \in Txs, NEW record \in Transactions, Go(t, record)
    PROVE  tx' \in [Txs -> Transactions]
  BY DEF TypeOK, Go

LEMMA NoRowTyped == Promise!NoRow \in Promise!Rows
  BY DEF Promise!NoRow, Promise!Rows

LEMMA WriteTyped ==
    ASSUME TypeOK, NEW t \in Txs, NEW s \in Ids, NEW r \in Promise!Rows, Write(t, s, r)
    PROVE  /\ owner' \in [Ids -> Txs \cup {Nobody}]
           /\ dirty' \in [Ids -> Promise!Rows]
  BY DEF TypeOK, Write

LEMMA LockTyped ==
    ASSUME TypeOK, NEW t \in Txs, NEW n, Lock(t, n)
    PROVE  lock' \in [Numbers -> Txs \cup {Nobody}]
  BY DEF TypeOK, Lock

LEMMA LetGoTyped ==
    ASSUME TypeOK, NEW t \in Txs, LetGo(t)
    PROVE  /\ owner' \in [Ids -> Txs \cup {Nobody}]
           /\ dirty' \in [Ids -> Promise!Rows]
           /\ lock' \in [Numbers -> Txs \cup {Nobody}]
  BY NoRowTyped DEF TypeOK, LetGo

LEMMA StepNames ==
    /\ "pick" \in Steps /\ "try" \in Steps /\ "codes" \in Steps /\ "conflicts" \in Steps
    /\ "promote" \in Steps /\ "insert" \in Steps /\ "update" \in Steps /\ "commit" \in Steps
  BY DEF Steps

LEMMA CodeSet ==
    ASSUME NEW r \in Transactions, NEW at \in Steps, NEW code \in Codes \cup {NoCode},
           NEW used \in SUBSET Codes
    PROVE  /\ [r EXCEPT !.at = at, !.code = code, !.used = used] \in Transactions
           /\ [r EXCEPT !.mine = {}, !.used = used, !.at = at, !.code = code] \in Transactions
  BY DEF Transactions

LEMMA Tx0Typed == Tx0 \in Transactions
  BY DEF Tx0, Transactions, Steps

LEMMA BeginTyped ==
    ASSUME TypeOK, NEW t \in Txs, Begin(t)
    PROVE  TypeOK'
<1>1. UNCHANGED <<row, dirty, owner, lock, stamped, crossed>>
  BY DEF Begin, BeginCreate, BeginClose, BeginExtend, BeginSweep, BeginUpdate
<1>2. tx' \in [Txs -> Transactions]
  <2>1. ASSUME NEW s \in Ids, NEW pair \in Requests, BeginCreate(t, s, pair)
        PROVE  tx' \in [Txs -> Transactions]
    <3> DEFINE record == [tx[t] EXCEPT !.at = "pick", !.job = "create", !.session = s,
                                       !.pair = pair, !.seen = Exclusive(row, pair)]
    <3>1. pair \subseteq Parties /\ Exclusive(row, pair) \subseteq Numbers
      BY SessionTxAssumption DEF Exclusive
    <3>2. record \in Transactions
      BY <3>1, TxTyped, StepNames DEF Transactions
    <3> QED
      BY <2>1, <3>2, GoTyped DEF BeginCreate
  <2>2. ASSUME NEW job \in {"close", "extend", "sweep"}, NEW batch \in SUBSET Ids,
               BeginUpdate(t, job, batch)
        PROVE  tx' \in [Txs -> Transactions]
    <3> DEFINE record == [tx[t] EXCEPT !.at = "update", !.job = job, !.todo = batch]
    <3>1. record \in Transactions
      BY TxTyped, StepNames DEF Transactions
    <3> QED
      BY <2>2, <3>1, GoTyped DEF BeginUpdate
  <2>3. CASE \E s \in Ids, pair \in Requests : BeginCreate(t, s, pair)
    BY <2>1, <2>3
  <2>4. CASE \E s \in Ids : BeginClose(t, s) \/ BeginExtend(t, s)
    <3>1. PICK s \in Ids : BeginClose(t, s) \/ BeginExtend(t, s)
      BY <2>4
    <3>2. {s} \in SUBSET Ids
      OBVIOUS
    <3> QED
      BY <2>2, <3>1, <3>2 DEF BeginClose, BeginExtend
  <2>5. CASE \E batch \in SUBSET Due : BeginSweep(t, batch)
    BY <2>2, <2>5 DEF BeginSweep, Due
  <2> QED
    BY <2>3, <2>4, <2>5 DEF Begin
<1> QED
  BY <1>1, <1>2 DEF TypeOK

LEMMA EndTyped ==
    ASSUME TypeOK, NEW t \in Txs, Commit(t) \/ Abort(t)
    PROVE  TypeOK'
<1>1. LetGo(t)
  BY DEF Commit, Abort
<1>2. \A at \in Steps : [Tx0 EXCEPT !.at = at, !.job = tx[t].job] \in Transactions
  BY Tx0Typed, TxTyped DEF Transactions
<1>3. tx' \in [Txs -> Transactions]
  BY <1>2, GoTyped DEF Commit, Abort, Steps
<1>4. row' \in [Ids -> Promise!Rows]
  <2>1. CASE Commit(t)
    BY <2>1, RowTyped DEF Commit
  <2>2. CASE Abort(t)
    BY <2>2 DEF TypeOK, Abort
  <2> QED
    BY <2>1, <2>2
<1>5. stamped' \in [Numbers -> BOOLEAN] /\ crossed' \subseteq Numbers
  <2>1. CASE Commit(t)
    BY <2>1 DEF TypeOK, Commit
  <2>2. CASE Abort(t)
    BY <2>2 DEF TypeOK, Abort
  <2> QED
    BY <2>1, <2>2
<1> QED
  BY <1>1, <1>3, <1>4, <1>5, LetGoTyped DEF TypeOK

(* The steps of a creation but its failures                                *)
CreationStep(t) ==
    \/ \E n \in Numbers : Pick(t, n) \/ Try(t, n)
    \/ LookForShared(t) \/ ReadCodes(t) \/ FindConflicts(t)
    \/ \E s \in Ids : LockConflict(t, s)
    \/ GivePins(t) \/ Insert(t)

LEMMA CreateTyped ==
    ASSUME TypeOK, NEW t \in Txs, Creator(t), CreationStep(t)
    PROVE  TypeOK'
<1> USE TxTyped
<1>1. ASSUME NEW n \in Numbers, Pick(t, n) \/ Try(t, n)
      PROVE  TypeOK'
  <2>1. lock' \in [Numbers -> Txs \cup {Nobody}]
    BY <1>1, LockTyped DEF Pick, Try, TypeOK
  <2>2. /\ [tx[t] EXCEPT !.at = "insert", !.number = n, !.seen = {}] \in Transactions
        /\ [tx[t] EXCEPT !.seen = @ \ {n}] \in Transactions
        /\ [tx[t] EXCEPT !.at = "codes", !.number = n, !.seen = @ \ {n}] \in Transactions
    BY StepNames DEF Transactions
  <2>3. tx' \in [Txs -> Transactions]
    <3>1. CASE Pick(t, n)
      BY <2>2, <3>1, GoTyped, Zenon DEF Pick
    <3>2. CASE Try(t, n)
      BY <2>2, <3>2, GoTyped, Zenon DEF Try
    <3> QED
      BY <1>1, <3>1, <3>2
  <2> QED
    BY <1>1, <2>1, <2>3 DEF Pick, Try, TypeOK
<1>2. ASSUME LookForShared(t)
      PROVE  TypeOK'
  <2>1. Shareable(row, tx[t].pair) \subseteq Numbers
    BY DEF Shareable
  <2>2. [tx[t] EXCEPT !.at = "try", !.seen = Shareable(row, tx[t].pair)] \in Transactions
    BY <2>1, StepNames DEF Transactions
  <2> QED
    BY <1>2, <2>2, GoTyped DEF LookForShared, TypeOK
<1>3. ASSUME ReadCodes(t)
      PROVE  TypeOK'
  <2>1. CodesInUse(t) \subseteq Codes
    <3>1. \A s \in Ids : View(t)[s].code \in Codes \cup {NoCode}
      BY RowTyped, ViewSeen DEF Seen, Promise!Rows
    <3> QED
      BY <3>1 DEF CodesInUse, UsedCodes, ActiveOn
  <2>2. \A code \in Codes : [tx[t] EXCEPT !.at = "conflicts", !.code = code,
                                          !.used = CodesInUse(t) \cup {code}] \in Transactions
    <3> TAKE code \in Codes
    <3> DEFINE used == CodesInUse(t) \cup {code}
    <3>1. used \in SUBSET Codes
      BY <2>1
    <3>2. code \in Codes \cup {NoCode} /\ "conflicts" \in Steps /\ tx[t] \in Transactions
      BY StepNames
    <3> HIDE DEF used
    <3>3. [tx[t] EXCEPT !.at = "conflicts", !.code = code, !.used = used] \in Transactions
      BY <3>1, <3>2, CodeSet
    <3> QED
      BY <3>3 DEF used
  <2>3. [tx[t] EXCEPT !.at = "try"] \in Transactions
    BY StepNames DEF Transactions
  <2>4. tx' \in [Txs -> Transactions]
    BY <1>3, <2>2, <2>3, GoTyped DEF ReadCodes
  <2> QED
    BY <1>3, <2>4 DEF ReadCodes, TypeOK
<1>4. ASSUME FindConflicts(t)
      PROVE  TypeOK'
  <2>1. ToPromote(View(t), tx[t].number, tx[t].pair) \subseteq Ids
    BY DEF ToPromote, ActiveOn
  <2>2. [tx[t] EXCEPT !.at = "promote", !.mine = {},
             !.todo = ToPromote(View(t), tx[t].number, tx[t].pair)] \in Transactions
    BY <2>1, StepNames DEF Transactions
  <2> QED
    BY <1>4, <2>2, GoTyped DEF FindConflicts, TypeOK
<1>5. ASSUME NEW s \in Ids, LockConflict(t, s)
      PROVE  TypeOK'
  <2>1. View(t)[s] \in Promise!Rows
    BY RowTyped, ViewSeen DEF Seen
  <2>2. owner' \in [Ids -> Txs \cup {Nobody}] /\ dirty' \in [Ids -> Promise!Rows]
    BY <1>5, <2>1, WriteTyped DEF LockConflict, TypeOK
  <2>3. /\ [tx[t] EXCEPT !.todo = @ \ {s}, !.mine = @ \cup {s}] \in Transactions
        /\ [tx[t] EXCEPT !.todo = @ \ {s}] \in Transactions
    BY DEF Transactions
  <2>4. tx' \in [Txs -> Transactions]
    BY <1>5, <2>3, GoTyped DEF LockConflict
  <2> QED
    BY <1>5, <2>2, <2>4 DEF LockConflict, TypeOK
<1>6. ASSUME GivePins(t)
      PROVE  TypeOK'
  <2>1. PICK done \in SUBSET tx[t].mine : \E given \in [done -> Codes \ tx[t].used] :
          /\ dirty' = [s \in Ids |-> IF s \in done THEN [dirty[s] EXCEPT !.code = given[s]]
                                     ELSE dirty[s]]
          /\ Go(t, [tx[t] EXCEPT !.mine = {}, !.used = {},
                        !.at = IF done = tx[t].mine THEN "insert" ELSE "try",
                        !.code = IF done = tx[t].mine THEN @ ELSE NoCode])
    BY <1>6, Zenon DEF GivePins
  <2>2. PICK given \in [done -> Codes \ tx[t].used] :
          /\ dirty' = [s \in Ids |-> IF s \in done THEN [dirty[s] EXCEPT !.code = given[s]]
                                     ELSE dirty[s]]
          /\ Go(t, [tx[t] EXCEPT !.mine = {}, !.used = {},
                        !.at = IF done = tx[t].mine THEN "insert" ELSE "try",
                        !.code = IF done = tx[t].mine THEN @ ELSE NoCode])
    BY <2>1, Zenon
  <2> DEFINE at == IF done = tx[t].mine THEN "insert" ELSE "try"
             code == IF done = tx[t].mine THEN tx[t].code ELSE NoCode
  <2>3. \A s \in done : [dirty[s] EXCEPT !.code = given[s]] \in Promise!Rows
    <3>1. \A r \in Promise!Rows, c \in Codes : [r EXCEPT !.code = c] \in Promise!Rows
      BY DEF Promise!Rows
    <3> QED
      BY <3>1, RowTyped
  <2>4. dirty' \in [Ids -> Promise!Rows]
    BY <2>2, <2>3 DEF TypeOK
  <2>5. at \in Steps /\ code \in Codes \cup {NoCode}
    BY DEF Steps
  <2>6. tx' \in [Txs -> Transactions]
    <3>1. Go(t, [tx[t] EXCEPT !.mine = {}, !.used = {}, !.at = at, !.code = code])
      BY <2>2
    <3> HIDE DEF at, code
    <3>2. [tx[t] EXCEPT !.mine = {}, !.used = {}, !.at = at, !.code = code] \in Transactions
      BY <2>5, CodeSet
    <3> QED
      BY <3>1, <3>2, GoTyped
  <2> QED
    BY <1>6, <2>4, <2>6 DEF GivePins, TypeOK
<1>7. ASSUME Insert(t)
      PROVE  TypeOK'
  <2>1. [status |-> "active", number |-> tx[t].number, parties |-> tx[t].pair,
         code |-> tx[t].code, life |-> "running"] \in Promise!Rows
    BY DEF Promise!Rows
  <2>2. tx[t].session \in Ids
    BY <1>7 DEF Insert, Creator, Creates
  <2>3. owner' \in [Ids -> Txs \cup {Nobody}] /\ dirty' \in [Ids -> Promise!Rows]
    BY <1>7, <2>1, <2>2, WriteTyped DEF Insert
  <2>4. [tx[t] EXCEPT !.at = "commit"] \in Transactions
    BY StepNames DEF Transactions
  <2> QED
    BY <1>7, <2>3, <2>4, GoTyped DEF Insert, TypeOK
<1> QED
  BY <1>1, <1>2, <1>3, <1>4, <1>5, <1>6, <1>7, Zenon DEF CreationStep

LEMMA WrittenTyped ==
    ASSUME TypeOK, NEW t \in Txs, tx[t].job \in {"close", "extend", "sweep"}, NEW s \in Ids
    PROVE  /\ Written(t, s) \in Promise!Rows
           /\ Overwrites(tx[t].job, row[s], Written(t, s))
  BY RowTyped DEF Written, Overwrites, Promise!Rows

(* What a transaction does once it has counted                             *)
LEMMA CountTells ==
    ASSUME NEW t \in Txs, NEW s \in Ids, Count(t, s)
    PROVE  \E at \in Steps :
               /\ Go(t, [tx[t] EXCEPT !.ended = tx[t].ended \ {s},
                                      !.number = dirty[s].number, !.at = at])
               /\ at = "stamp" <=> Remaining(t, dirty[s].number) = {}
               /\ at # "stamp" => at = AfterCount(tx[t].ended \ {s})
  BY DEF Count, AfterCount, Steps

LEMMA UpdateTyped ==
    ASSUME NEW r \in Transactions, NEW at \in Steps, NEW todo \in SUBSET Ids,
           NEW ended \in SUBSET Ids
    PROVE  [r EXCEPT !.at = at, !.todo = todo, !.ended = ended] \in Transactions
  BY DEF Transactions

LEMMA CountTyped ==
    ASSUME NEW r \in Transactions, NEW ended \in SUBSET Ids, NEW number \in Numbers,
           NEW at \in Steps
    PROVE  [r EXCEPT !.ended = ended, !.number = number, !.at = at] \in Transactions
  BY DEF Transactions

LEMMA WriterTyped ==
    ASSUME TypeOK, RowsFilled, NEW t \in Txs, Writer(t), UpdateStep(t)
    PROVE  TypeOK'
<1> USE TxTyped
<1>1. ASSUME NEW s \in Ids, Update(t, s)
      PROVE  TypeOK'
  <2>1. tx[t].job \in {"close", "extend", "sweep"}
    BY <1>1 DEF Update, Writer, Writes
  <2>2. owner' \in [Ids -> Txs \cup {Nobody}] /\ dirty' \in [Ids -> Promise!Rows]
    BY <1>1, <2>1, WrittenTyped, WriteTyped DEF Update
  <2>3. AfterWrite(t, tx[t].todo \ {s}) \in Steps
    BY DEF AfterWrite, Steps
  <2>4. [tx[t] EXCEPT !.at = AfterWrite(t, tx[t].todo \ {s}), !.todo = @ \ {s},
             !.ended = IF tx[t].job = "extend" THEN {} ELSE @ \cup {s}] \in Transactions
    <3>1. (IF tx[t].job = "extend" THEN {} ELSE tx[t].ended \cup {s}) \in SUBSET Ids
      OBVIOUS
    <3>2. tx[t].todo \ {s} \in SUBSET Ids
      OBVIOUS
    <3> QED
      BY <2>3, <3>1, <3>2, UpdateTyped
  <2>5. tx' \in [Txs -> Transactions]
    BY <1>1, <2>4, GoTyped DEF Update
  <2> QED
    BY <1>1, <2>2, <2>5 DEF Update, TypeOK
<1>2. ASSUME NEW s \in Ids, Count(t, s)
      PROVE  TypeOK'
  <2>1. dirty[s].number \in Numbers
    BY <1>2 DEF Count, Writer, Writes, Overwrites, RowsFilled
  <2>2. \A left \in SUBSET Ids, at \in Steps :
            [tx[t] EXCEPT !.ended = left, !.number = dirty[s].number, !.at = at] \in Transactions
    BY <2>1, CountTyped
  <2>3. \A left : AfterCount(left) \in Steps
    BY DEF AfterCount, Steps
  <2>4. tx' \in [Txs -> Transactions]
    BY <1>2, <2>2, <2>3, CountTells, GoTyped
  <2>5. crossed' \subseteq Numbers
    BY <1>2, <2>1 DEF Count, TypeOK
  <2> QED
    BY <1>2, <2>4, <2>5 DEF Count, TypeOK
<1>3. ASSUME Stamp(t)
      PROVE  TypeOK'
  <2>1. tx[t].number \in Numbers
    BY <1>3 DEF Stamp, Writer, Writes
  <2>2. AfterCount(tx[t].ended) \in Steps
    BY DEF AfterCount, Steps
  <2>3. [tx[t] EXCEPT !.stamps = @ \cup {tx[t].number},
                      !.at = AfterCount(tx[t].ended)] \in Transactions
    BY <2>1, <2>2 DEF Transactions
  <2> QED
    BY <1>3, <2>3, GoTyped, LockTyped DEF Stamp, TypeOK
<1> QED
  BY <1>1, <1>2, <1>3, Zenon DEF UpdateStep

LEMMA PassExpiryTyped ==
    ASSUME TypeOK, NEW s \in Ids, PassExpiry(s)
    PROVE  TypeOK'
<1>1. \A r \in Promise!Rows : [r EXCEPT !.life = "due"] \in Promise!Rows
  BY DEF Promise!Rows
<1>2. row' \in [Ids -> Promise!Rows]
  BY <1>1, RowTyped DEF TypeOK, PassExpiry
<1>3. \A r \in Promise!Rows : [r EXCEPT !.life = r.life] \in Promise!Rows
  BY DEF Promise!Rows
<1>4. dirty' \in [Ids -> Promise!Rows]
  <2> DEFINE life == IF dirty[s].life = "running" /\ owner[s] # Nobody THEN "due"
                     ELSE dirty[s].life
  <2>1. [dirty[s] EXCEPT !.life = life] \in Promise!Rows
    BY <1>1, <1>3, RowTyped
  <2>2. dirty' = [dirty EXCEPT ![s] = [dirty[s] EXCEPT !.life = life]]
    BY DEF PassExpiry
  <2> HIDE DEF life
  <2> QED
    BY <2>1, <2>2 DEF TypeOK
<1> QED
  BY <1>2, <1>4 DEF TypeOK, PassExpiry

-----------------------------------------------------------------------------
(* The transaction that makes the step                                     *)

LEMMA EndInv ==
    ASSUME TypeOK, NEW t \in Txs, Commit(t) \/ Abort(t)
    PROVE  Inv(t)'
<1>1. LetGo(t)
  BY DEF Commit, Abort
<1>2. tx'[t].at \in {"committed", "aborted"} /\ tx'[t].session = NoId
  <2>1. \/ tx'[t] = [Tx0 EXCEPT !.at = "committed", !.job = tx[t].job]
        \/ tx'[t] = [Tx0 EXCEPT !.at = "aborted", !.job = tx[t].job]
    BY Gone DEF Commit, Abort
  <2> QED
    BY <2>1 DEF Tx0
<1>3. (\A s \in Ids : owner'[s] # t) /\ (\A n \in Numbers : lock'[n] # t)
  BY <1>1, SessionTxAssumption DEF TypeOK, LetGo
<1>4. ~ Creates(t)' /\ ~ Writes(t)'
  BY <1>2 DEF Creates, Writes
<1> QED
  BY <1>2, <1>3, <1>4 DEF Inv, Rest, Creator, Promoter, Fresh, Writer, Ordered, Covered, Ends

LEMMA BeginCreateInv ==
    ASSUME TypeOK, NEW t \in Txs, Inv(t), NEW s \in Ids, NEW pair, BeginCreate(t, s, pair)
    PROVE  Inv(t)'
<1>1. /\ \A x \in Ids : owner'[x] # t
      /\ \A n \in Numbers : lock'[n] # t
  BY DEF Inv, Rest, BeginCreate, Begins
<1>2. /\ tx'[t].at = "pick" /\ tx'[t].job = "create" /\ tx'[t].session = s
      /\ row'[s].status = "none"
  <2>1. tx'[t] = [tx[t] EXCEPT !.at = "pick", !.job = "create", !.session = s,
                               !.pair = pair, !.seen = Exclusive(row, pair)]
    BY Gone DEF BeginCreate
  <2> QED
    BY <2>1, TxTyped DEF BeginCreate, Transactions
<1>3. Creates(t)' /\ ~ Writes(t)'
  BY <1>2 DEF Creates, Writes
<1> QED
  BY <1>1, <1>2, <1>3 DEF Inv, Rest, Creator, Promoter, Fresh, Writer, Ordered, Covered, Ends

LEMMA BeginUpdateInv ==
    ASSUME TypeOK, NEW t \in Txs, Inv(t), NEW job \in {"close", "extend", "sweep"},
           NEW batch \in SUBSET Ids, batch # {}, BeginUpdate(t, job, batch),
           \A s \in batch : row[s].status = "active",
           job # "sweep" => \A x, y \in batch : x = y
    PROVE  Inv(t)'
<1>1. /\ \A x \in Ids : owner'[x] # t
      /\ \A n \in Numbers : lock'[n] # t
      /\ row' = row
  BY DEF Inv, Rest, BeginUpdate, Begins
<1>2. tx[t] = Tx0
  BY DEF Inv, Rest, BeginUpdate, Begins
<1>3. tx'[t].at = "update" /\ tx'[t].job = job /\ tx'[t].todo = batch /\ tx'[t].ended = {}
  <2>1. tx'[t] = [tx[t] EXCEPT !.at = "update", !.job = job, !.todo = batch]
    BY Gone DEF BeginUpdate
  <2> QED
    BY <1>2, <2>1 DEF Tx0
<1>4. Writes(t)' /\ ~ Creates(t)'
  BY <1>3 DEF Creates, Writes
<1>5. Writer(t)' /\ Ordered(t)' /\ Covered(t)'
  BY <1>1, <1>3 DEF Writer, Ordered, Covered, Counted
<1> QED
  BY <1>3, <1>4, <1>5 DEF Inv, Rest, Creator, Promoter, Fresh

LEMMA BeginInv ==
    ASSUME TypeOK, NEW t \in Txs, Inv(t), Begin(t)
    PROVE  Inv(t)'
<1>1. CASE \E s \in Ids, pair \in Requests : BeginCreate(t, s, pair)
  BY <1>1, BeginCreateInv
<1>2. CASE \E s \in Ids : BeginClose(t, s) \/ BeginExtend(t, s)
  <2>1. PICK s \in Ids : BeginClose(t, s) \/ BeginExtend(t, s)
    BY <1>2
  <2>2. {s} \in SUBSET Ids /\ {s} # {} /\ \A x, y \in {s} : x = y
    OBVIOUS
  <2>3. \A x \in {s} : row[x].status = "active"
    BY <2>1 DEF BeginClose, BeginExtend
  <2> QED
    BY <2>1, <2>2, <2>3, BeginUpdateInv DEF BeginClose, BeginExtend
<1>3. CASE \E batch \in SUBSET Due : BeginSweep(t, batch)
  <2>1. PICK batch \in SUBSET Due : BeginSweep(t, batch)
    BY <1>3
  <2>2. batch \in SUBSET Ids /\ batch # {} /\ \A s \in batch : row[s].status = "active"
    BY <2>1 DEF BeginSweep, Due
  <2> QED
    BY <2>1, <2>2, BeginUpdateInv DEF BeginSweep
<1> QED
  BY <1>1, <1>2, <1>3 DEF Begin

(* A creation goes on, before it inserts: it may have locked more, and     *)
(* sees what it saw.                                                       *)
LEMMA CreationGoesOn ==
    ASSUME TypeOK, NEW t \in Txs, Inv(t), Creates(t), tx[t].at # "commit", row' = row,
           tx'[t].at \in {"pick", "try", "codes", "conflicts", "promote", "insert"},
           tx'[t].job = tx[t].job, tx'[t].session = tx[t].session,
           tx'[t].at \in {"codes", "conflicts", "promote", "insert"} =>
               tx'[t].number \in Numbers /\ lock'[tx'[t].number] = t,
           \A n \in Numbers : lock[n] = t => lock'[n] = t,
           \A s \in Ids : owner[s] = t => row[s].number \in Numbers,
           \A s \in Ids : Seen(t, s)' = Seen(t, s),
           \A s \in Ids : owner'[s] = t =>
               \/ owner[s] = t /\ dirty'[s] = dirty[s]
               \/ /\ dirty'[s] = row[s] /\ row[s].status = "active" /\ row[s].code = NoCode
                  /\ row[s].number \in Numbers /\ lock[row[s].number] = t,
           Promoter(t)'
    PROVE  Inv(t)'
<1>1. Creates(t)' /\ ~ Writes(t)'
  BY DEF Creates, Writes
<1>2. Rest(t)'
  BY DEF Rest
<1>3. Creator(t)'
  <2>1. ASSUME NEW s \in Ids, owner'[s] = t
        PROVE  /\ s # tx'[t].session
               /\ row'[s].status = "active" /\ row'[s].code = NoCode
               /\ lock'[row'[s].number] = t
               /\ dirty'[s].status = "active" /\ dirty'[s].number = row'[s].number
               /\ dirty'[s].parties = row'[s].parties /\ dirty'[s].life = row'[s].life
    BY <2>1 DEF Inv, Creator
  <2> QED
    BY <2>1 DEF Inv, Creator
<1>4. Fresh(t)'
  <2>1. ASSUME NEW s \in Ids, NEW x \in Ids, owner'[s] = t, dirty'[s].code # NoCode,
               x # s, SeenOn(t, x, dirty[s].number)'
        PROVE  Seen(t, x)'.code # dirty'[s].code
    <3>1. owner[s] = t /\ dirty'[s] = dirty[s]
      BY <2>1
    <3>2. SeenOn(t, x, dirty[s].number)
      BY <2>1, <3>1 DEF SeenOn
    <3> QED
      BY <2>1, <3>1, <3>2 DEF Inv, Fresh
  <2> QED
    BY <2>1 DEF Fresh
<1> QED
  BY <1>1, <1>2, <1>3, <1>4 DEF Inv, Writer, Ordered, Covered, Ends

LEMMA LockMine ==
    ASSUME TypeOK, NEW t \in Txs, NEW n \in Numbers, Lock(t, n)
    PROVE  lock'[n] = t /\ \A m \in Numbers : lock[m] = t => lock'[m] = t
  BY DEF TypeOK, Lock

(* A creation goes on and has written nothing.                             *)
LEMMA CreationLooksOn ==
    ASSUME TypeOK, RowsFilled, NEW t \in Txs, Inv(t), Creates(t), tx[t].at # "commit",
           UNCHANGED <<row, dirty, owner>>,
           tx'[t].at \in {"pick", "try", "codes", "conflicts", "promote", "insert"},
           tx'[t].job = tx[t].job, tx'[t].session = tx[t].session,
           tx'[t].at \in {"codes", "conflicts", "promote", "insert"} =>
               tx'[t].number \in Numbers /\ lock'[tx'[t].number] = t,
           \A n \in Numbers : lock[n] = t => lock'[n] = t,
           Promoter(t)'
    PROVE  Inv(t)'
<1>1. \A s \in Ids : owner[s] = t => row[s].number \in Numbers
  BY DEF Inv, Creator, RowsFilled
<1>2. \A s \in Ids : Seen(t, s)' = Seen(t, s)
  BY DEF Seen
<1>3. \A s \in Ids : owner'[s] = t => owner[s] = t /\ dirty'[s] = dirty[s]
  OBVIOUS
<1> QED
  BY <1>1, <1>2, <1>3, CreationGoesOn

LEMMA PickInv ==
    ASSUME TypeOK, RowsFilled, NEW t \in Txs, Inv(t), NEW n \in Numbers, Pick(t, n) \/ Try(t, n)
    PROVE  Inv(t)'
<1>1. Creates(t) /\ tx[t].at \in {"pick", "try"} /\ UNCHANGED <<row, dirty, owner>>
  BY DEF Pick, Try, Creates
<1>2. CASE FreeFor(t, lock[n])
  <2>1. Lock(t, n)
    BY <1>2 DEF Pick, Try
  <2>2. \/ tx'[t] = [tx[t] EXCEPT !.at = "insert", !.number = n, !.seen = {}]
        \/ tx'[t] = [tx[t] EXCEPT !.at = "codes", !.number = n, !.seen = @ \ {n}]
    <3>1. CASE Pick(t, n)
      BY <1>2, <3>1, Gone DEF Pick
    <3>2. CASE Try(t, n)
      BY <1>2, <3>2, Gone DEF Try
    <3> QED
      BY <3>1, <3>2
  <2>3. /\ tx'[t].at \in {"insert", "codes"} /\ tx'[t].number = n
        /\ tx'[t].job = tx[t].job /\ tx'[t].session = tx[t].session
    BY <2>2, TxTyped DEF Transactions
  <2>4. Promoter(t)'
    BY <2>3 DEF Promoter
  <2> QED
    BY <1>1, <2>1, <2>3, <2>4, LockMine, CreationLooksOn
<1>3. CASE ~ FreeFor(t, lock[n])
  <2>1. tx'[t] = [tx[t] EXCEPT !.seen = @ \ {n}] /\ lock' = lock
    <3>1. CASE Pick(t, n)
      BY <1>3, <3>1, Gone DEF Pick
    <3>2. CASE Try(t, n)
      BY <1>3, <3>2, Gone DEF Try
    <3> QED
      BY <3>1, <3>2
  <2>2. /\ tx'[t].at = tx[t].at /\ tx'[t].job = tx[t].job /\ tx'[t].session = tx[t].session
    BY <2>1, TxTyped DEF Transactions
  <2>3. Promoter(t)'
    BY <1>1, <2>2 DEF Promoter
  <2> QED
    BY <1>1, <2>1, <2>2, <2>3, CreationLooksOn
<1> QED
  BY <1>2, <1>3

LEMMA LookForSharedInv ==
    ASSUME TypeOK, RowsFilled, NEW t \in Txs, Inv(t), LookForShared(t)
    PROVE  Inv(t)'
<1>1. /\ Creates(t) /\ tx[t].at = "pick" /\ UNCHANGED <<row, dirty, owner, lock>>
      /\ tx'[t] = [tx[t] EXCEPT !.at = "try", !.seen = Shareable(row, tx[t].pair)]
  BY Gone DEF LookForShared, Creates
<1>2. /\ tx'[t].at = "try" /\ tx'[t].job = tx[t].job /\ tx'[t].session = tx[t].session
  BY <1>1, TxTyped DEF Transactions
<1>3. Promoter(t)'
  BY <1>2 DEF Promoter
<1> QED
  BY <1>1, <1>2, <1>3, CreationLooksOn

LEMMA ReadCodesInv ==
    ASSUME TypeOK, RowsFilled, NEW t \in Txs, Inv(t), ReadCodes(t)
    PROVE  Inv(t)'
<1>1. Creates(t) /\ tx[t].at = "codes" /\ UNCHANGED <<row, dirty, owner, lock>>
  BY DEF ReadCodes, Creates
<1>2. tx[t].number \in Numbers /\ lock[tx[t].number] = t
  BY <1>1 DEF Inv, Creator
<1>3. ASSUME NEW code \in Codes,
             Go(t, [tx[t] EXCEPT !.at = "conflicts", !.code = code,
                                 !.used = CodesInUse(t) \cup {code}])
      PROVE  Inv(t)'
  <2>1. tx'[t] = [tx[t] EXCEPT !.at = "conflicts", !.code = code,
                               !.used = CodesInUse(t) \cup {code}]
    BY <1>3, Gone
  <2>2. /\ tx'[t].at = "conflicts" /\ tx'[t].code = code /\ tx'[t].number = tx[t].number
        /\ tx'[t].used = CodesInUse(t) \cup {code}
        /\ tx'[t].job = tx[t].job /\ tx'[t].session = tx[t].session
    BY <2>1, TxTyped DEF Transactions
  <2>3. ASSUME NEW s \in Ids, SeenOn(t, s, tx[t].number)
        PROVE  Seen(t, s).code \in CodesInUse(t) \cup {NoCode}
    <3>1. View(t)[s] = Seen(t, s)
      BY ViewSeen
    <3>2. s \in ActiveOn(View(t), tx[t].number)
      BY <2>3, <3>1 DEF SeenOn, ActiveOn
    <3> QED
      BY <3>1, <3>2 DEF CodesInUse, UsedCodes
  <2>4. \A s \in Ids : Seen(t, s)' = Seen(t, s)
    BY <1>1 DEF Seen
  <2>5. Promoter(t)'
    BY <2>2, <2>3, <2>4 DEF Promoter, SeenOn
  <2> QED
    BY <1>1, <1>2, <2>2, <2>5, CreationLooksOn
<1>4. ASSUME Go(t, [tx[t] EXCEPT !.at = "try"])
      PROVE  Inv(t)'
  <2>1. tx'[t] = [tx[t] EXCEPT !.at = "try"]
    BY <1>4, Gone
  <2>2. tx'[t].at = "try" /\ tx'[t].job = tx[t].job /\ tx'[t].session = tx[t].session
    BY <2>1, TxTyped DEF Transactions
  <2>3. Promoter(t)'
    BY <2>2 DEF Promoter
  <2> QED
    BY <1>1, <2>2, <2>3, CreationLooksOn
<1> QED
  BY <1>3, <1>4 DEF ReadCodes

LEMMA FindConflictsInv ==
    ASSUME TypeOK, RowsFilled, NEW t \in Txs, Inv(t), FindConflicts(t)
    PROVE  Inv(t)'
<1> DEFINE todo == ToPromote(View(t), tx[t].number, tx[t].pair)
<1>1. /\ Creates(t) /\ tx[t].at = "conflicts" /\ UNCHANGED <<row, dirty, owner, lock>>
      /\ tx'[t] = [tx[t] EXCEPT !.at = "promote", !.mine = {}, !.todo = todo]
  BY Gone DEF FindConflicts, Creates
<1>2. tx[t].number \in Numbers /\ lock[tx[t].number] = t
  BY <1>1 DEF Inv, Creator
<1>3. \A s \in todo : row[s].status # "none" /\ row[s].number = tx[t].number
  <2> TAKE s \in todo
  <2>1. s \in Ids /\ SeenOn(t, s, tx[t].number)
    BY ViewSeen DEF ToPromote, ActiveOn, SeenOn
  <2> QED
    BY <1>1, <2>1 DEF SeenOn, Seen, Inv, Creator
<1> HIDE DEF todo
<1>4. /\ tx'[t].at = "promote" /\ tx'[t].todo = todo /\ tx'[t].mine = {}
      /\ tx'[t].number = tx[t].number /\ tx'[t].code = tx[t].code /\ tx'[t].used = tx[t].used
      /\ tx'[t].job = tx[t].job /\ tx'[t].session = tx[t].session
  BY <1>1, TxTyped DEF Transactions
<1>5. \A s \in Ids : Seen(t, s)' = Seen(t, s)
  BY <1>1 DEF Seen
<1>6. Promoter(t)'
  BY <1>1, <1>3, <1>4, <1>5 DEF Inv, Promoter, SeenOn
<1> QED
  BY <1>1, <1>2, <1>4, <1>6, CreationLooksOn

LEMMA LockConflictInv ==
    ASSUME TypeOK, RowsFilled, NEW t \in Txs, Inv(t), NEW s \in Ids, LockConflict(t, s)
    PROVE  Inv(t)'
<1>1. /\ Creates(t) /\ tx[t].at = "promote" /\ UNCHANGED <<row, lock>>
      /\ tx[t].todo \subseteq Nat /\ tx[t].todo # {} /\ s = First(tx[t].todo)
  BY TxTyped, SessionTxAssumption DEF LockConflict, Creates
<1>2. s \in tx[t].todo /\ row[s].status # "none" /\ row[s].number = tx[t].number
  BY <1>1, FirstOf DEF Inv, Promoter
<1>3. tx[t].number \in Numbers /\ lock[tx[t].number] = t
  BY <1>1 DEF Inv, Creator
<1>4. \A x \in Ids : owner[x] = t => row[x].number \in Numbers
  BY <1>1 DEF Inv, Creator, RowsFilled
<1>5. CASE StillConflicts(t, s)
  <2>1. /\ Write(t, s, Seen(t, s))
        /\ tx'[t] = [tx[t] EXCEPT !.todo = @ \ {s}, !.mine = @ \cup {s}]
    BY <1>5, ViewSeen, Gone DEF LockConflict
  <2>2. /\ tx'[t].at = "promote" /\ tx'[t].todo = tx[t].todo \ {s}
        /\ tx'[t].mine = tx[t].mine \cup {s}
        /\ tx'[t].number = tx[t].number /\ tx'[t].code = tx[t].code /\ tx'[t].used = tx[t].used
        /\ tx'[t].job = tx[t].job /\ tx'[t].session = tx[t].session
    BY <1>1, <2>1, TxTyped DEF Transactions
  <2>3. /\ owner'[s] = t /\ dirty'[s] = Seen(t, s)
        /\ \A x \in Ids \ {s} : owner'[x] = owner[x] /\ dirty'[x] = dirty[x]
    BY <2>1 DEF TypeOK, Write
  <2>4. \A x \in Ids : Seen(t, x)' = Seen(t, x)
    BY <1>1, <2>3 DEF Seen
  <2>5. Seen(t, s).status = "active" /\ Seen(t, s).code = NoCode
    BY <1>5, ViewSeen DEF StillConflicts
  <2>6. Seen(t, s).number = tx[t].number
    BY <1>1, <1>2 DEF Seen, Inv, Creator
  <2>7. Promoter(t)'
    <3>1. \A x \in tx[t].mine \cup {s} : owner'[x] = t /\ dirty'[x].number = tx[t].number
      BY <1>1, <2>3, <2>6, TxTyped DEF Inv, Promoter
    <3> QED
      BY <1>1, <2>2, <2>4, <3>1 DEF Inv, Promoter, SeenOn
  <2>8. ASSUME NEW x \in Ids, owner'[x] = t
        PROVE  \/ owner[x] = t /\ dirty'[x] = dirty[x]
               \/ /\ dirty'[x] = row[x] /\ row[x].status = "active" /\ row[x].code = NoCode
                  /\ row[x].number \in Numbers /\ lock[row[x].number] = t
    BY <1>2, <1>3, <2>3, <2>5, <2>8 DEF Seen
  <2> QED
    BY <1>1, <1>3, <1>4, <2>2, <2>4, <2>7, <2>8, CreationGoesOn
<1>6. CASE ~ StillConflicts(t, s)
  <2>1. tx'[t] = [tx[t] EXCEPT !.todo = @ \ {s}] /\ UNCHANGED <<dirty, owner>>
    BY <1>6, Gone DEF LockConflict
  <2>2. /\ tx'[t].at = "promote" /\ tx'[t].todo = tx[t].todo \ {s} /\ tx'[t].mine = tx[t].mine
        /\ tx'[t].number = tx[t].number /\ tx'[t].code = tx[t].code /\ tx'[t].used = tx[t].used
        /\ tx'[t].job = tx[t].job /\ tx'[t].session = tx[t].session
    BY <1>1, <2>1, TxTyped DEF Transactions
  <2>3. \A x \in Ids : Seen(t, x)' = Seen(t, x)
    BY <1>1, <2>1 DEF Seen
  <2>4. Promoter(t)'
    BY <1>1, <2>1, <2>2, <2>3 DEF Inv, Promoter, SeenOn
  <2> QED
    BY <1>1, <1>3, <2>1, <2>2, <2>4, CreationLooksOn
<1> QED
  BY <1>5, <1>6

LEMMA GivePinsInv ==
    ASSUME TypeOK, RowsFilled, NEW t \in Txs, Inv(t), GivePins(t)
    PROVE  Inv(t)'
<1>1. /\ Creates(t) /\ tx[t].at = "promote" /\ UNCHANGED <<row, owner, lock>>
  BY DEF GivePins, Creates
<1>2. PICK done \in SUBSET tx[t].mine : \E given \in [done -> Codes \ tx[t].used] :
          /\ \A x, y \in done : given[x] = given[y] => x = y
          /\ dirty' = [s \in Ids |-> IF s \in done THEN [dirty[s] EXCEPT !.code = given[s]]
                                     ELSE dirty[s]]
          /\ Go(t, [tx[t] EXCEPT !.mine = {}, !.used = {},
                        !.at = IF done = tx[t].mine THEN "insert" ELSE "try",
                        !.code = IF done = tx[t].mine THEN @ ELSE NoCode])
  BY Zenon DEF GivePins
<1>3. PICK given \in [done -> Codes \ tx[t].used] :
          /\ \A x, y \in done : given[x] = given[y] => x = y
          /\ dirty' = [s \in Ids |-> IF s \in done THEN [dirty[s] EXCEPT !.code = given[s]]
                                     ELSE dirty[s]]
          /\ Go(t, [tx[t] EXCEPT !.mine = {}, !.used = {},
                        !.at = IF done = tx[t].mine THEN "insert" ELSE "try",
                        !.code = IF done = tx[t].mine THEN @ ELSE NoCode])
  BY <1>2, Zenon
<1> DEFINE at == IF done = tx[t].mine THEN "insert" ELSE "try"
           code == IF done = tx[t].mine THEN tx[t].code ELSE NoCode
<1>4. at \in {"insert", "try"}
  OBVIOUS
<1>5. tx'[t] = [tx[t] EXCEPT !.mine = {}, !.used = {}, !.at = at, !.code = code]
  BY <1>3, Gone
<1> HIDE DEF at, code
<1>6. /\ tx'[t].at = at /\ tx'[t].number = tx[t].number
      /\ tx'[t].job = tx[t].job /\ tx'[t].session = tx[t].session
  BY <1>5, TxTyped DEF Transactions
<1>7. Creates(t)' /\ ~ Writes(t)' /\ Promoter(t)' /\ Rest(t)'
  BY <1>4, <1>6 DEF Creates, Writes, Promoter, Rest
<1>8. \A s \in done : s \in Ids /\ owner[s] = t /\ dirty[s].number = tx[t].number
  BY <1>1, TxTyped DEF Inv, Promoter
<1>9. /\ \A s \in Ids : /\ dirty'[s].status = dirty[s].status
                        /\ dirty'[s].number = dirty[s].number
                        /\ dirty'[s].parties = dirty[s].parties
                        /\ dirty'[s].life = dirty[s].life
      /\ \A s \in done : dirty'[s].code = given[s]
      /\ \A s \in Ids \ done : dirty'[s] = dirty[s]
  BY <1>3, <1>8, RowTyped DEF Promise!Rows
<1>10. tx[t].number \in Numbers /\ lock[tx[t].number] = t
  BY <1>1 DEF Inv, Creator
<1>11. Creator(t)'
  BY <1>1, <1>4, <1>6, <1>9, <1>10 DEF Inv, Creator
<1>12. Fresh(t)'
  <2>1. ASSUME NEW s \in Ids, NEW x \in Ids, owner'[s] = t, dirty'[s].code # NoCode,
               x # s, SeenOn(t, x, dirty[s].number)'
        PROVE  Seen(t, x)'.code # dirty'[s].code
    <3>1. owner[s] = t /\ dirty[s].status = "active"
      BY <1>1, <2>1 DEF Inv, Creator
    <3>2. SeenOn(t, x, dirty[s].number)
      BY <1>1, <1>9, <2>1 DEF SeenOn, Seen
    <3>3. \A y \in Ids : SeenOn(t, y, tx[t].number) => Seen(t, y).code \in tx[t].used \cup {NoCode}
      BY <1>1 DEF Inv, Promoter
    <3>4. CASE s \in done /\ x \in done
      <4>1. Seen(t, x)'.code = given[x] /\ dirty'[s].code = given[s]
        BY <1>1, <1>8, <1>9, <3>4 DEF Seen
      <4> QED
        BY <1>3, <2>1, <3>4, <4>1
    <3>5. CASE s \in done /\ x \notin done
      <4>1. Seen(t, x)' = Seen(t, x) /\ dirty'[s].code = given[s]
        BY <1>1, <1>9, <3>5 DEF Seen
      <4>2. Seen(t, x).code \in tx[t].used \cup {NoCode}
        BY <1>8, <3>2, <3>3, <3>5
      <4> QED
        BY <1>3, <2>1, <3>5, <4>1, <4>2
    <3>6. CASE s \notin done /\ x \in done
      <4>1. Seen(t, x)'.code = given[x] /\ Seen(t, x).number = tx[t].number
        BY <1>1, <1>8, <1>9, <3>6 DEF Seen
      <4>2. SeenOn(t, s, tx[t].number) /\ Seen(t, s) = dirty[s] /\ dirty'[s] = dirty[s]
        BY <1>9, <3>1, <3>2, <3>6, <4>1 DEF SeenOn, Seen
      <4> QED
        BY <1>3, <2>1, <3>3, <3>6, <4>1, <4>2
    <3>7. CASE s \notin done /\ x \notin done
      <4>1. Seen(t, x)' = Seen(t, x) /\ dirty'[s] = dirty[s]
        BY <1>1, <1>9, <3>7 DEF Seen
      <4> QED
        BY <1>1, <2>1, <3>1, <3>2, <4>1 DEF Inv, Fresh
    <3> QED
      BY <3>4, <3>5, <3>6, <3>7
  <2> QED
    BY <1>4, <1>6, <2>1 DEF Fresh
<1> QED
  BY <1>7, <1>11, <1>12 DEF Inv, Writer, Ordered, Covered, Ends

LEMMA InsertInv ==
    ASSUME TypeOK, RowsFilled, NEW t \in Txs, Inv(t), Insert(t)
    PROVE  Inv(t)'
<1> DEFINE own == tx[t].session
           new == [status |-> "active", number |-> tx[t].number, parties |-> tx[t].pair,
                   code |-> tx[t].code, life |-> "running"]
<1>1. /\ Creates(t) /\ tx[t].at = "insert" /\ UNCHANGED <<row, lock>>
      /\ Write(t, own, new) /\ tx'[t] = [tx[t] EXCEPT !.at = "commit"]
  BY Gone DEF Insert, Creates
<1>2. /\ tx'[t].at = "commit" /\ tx'[t].number = tx[t].number
      /\ tx'[t].job = tx[t].job /\ tx'[t].session = own
  BY <1>1, TxTyped DEF Transactions
<1>3. /\ own \in Ids /\ row[own].status = "none" /\ tx[t].job = "create"
      /\ tx[t].number \in Numbers /\ lock[tx[t].number] = t
  BY <1>1 DEF Inv, Creator
<1>4. /\ owner'[own] = t /\ dirty'[own] = new
      /\ \A s \in Ids \ {own} : owner'[s] = owner[s] /\ dirty'[s] = dirty[s]
  BY <1>1, <1>3 DEF TypeOK, Write
<1>5. \A s \in Ids : SeenOn(t, s, tx[t].number) =>
          IF tx[t].code = NoCode
          THEN Seen(t, s).code = NoCode => Seen(t, s).parties \cap tx[t].pair = {}
          ELSE Seen(t, s).code # tx[t].code
  <2>1. \A s \in Ids : ~ Collides(t, View(t)[s])
    BY DEF Insert, Collision
  <2>2. \A s \in Ids : ~ Collides(t, Seen(t, s))
    BY <2>1, ViewSeen
  <2> QED
    BY <2>2 DEF Collides, SeenOn
<1>6. \A s \in Ids \ {own} : Seen(t, s)' = Seen(t, s)
  BY <1>1, <1>4 DEF Seen
<1>7. Creates(t)' /\ ~ Writes(t)' /\ Promoter(t)' /\ Rest(t)'
  BY <1>2, <1>3 DEF Creates, Writes, Promoter, Rest
<1>8. new.status = "active" /\ new.number = tx[t].number /\ new.code = tx[t].code
      /\ new.parties = tx[t].pair
  OBVIOUS
<1>9. \A s \in Ids : s = own => Seen(t, s)' = new
  BY <1>4 DEF Seen
<1> HIDE DEF new, own
<1>10. Creator(t)'
  <2>1. ASSUME NEW s \in Ids, owner'[s] = t, s # own
        PROVE  /\ row'[s].status = "active" /\ row'[s].code = NoCode
               /\ lock'[row'[s].number] = t
               /\ dirty'[s].status = "active" /\ dirty'[s].number = row'[s].number
               /\ dirty'[s].parties = row'[s].parties /\ dirty'[s].life = row'[s].life
    BY <1>1, <1>4, <2>1 DEF Inv, Creator
  <2> QED
    BY <1>1, <1>2, <1>3, <1>4, <1>8, <2>1 DEF Creator
<1>11. Fresh(t)'
  <2>1. ASSUME NEW s \in Ids, NEW x \in Ids, owner'[s] = t, dirty'[s].code # NoCode,
               x # s, SeenOn(t, x, dirty[s].number)'
        PROVE  Seen(t, x)'.code # dirty'[s].code
    <3>1. CASE s = own
      <4>1. dirty'[s].number = tx[t].number /\ dirty'[s].code = tx[t].code
        BY <1>4, <1>8, <3>1
      <4>2. SeenOn(t, x, tx[t].number) /\ Seen(t, x)' = Seen(t, x)
        BY <1>6, <2>1, <3>1, <4>1 DEF SeenOn
      <4> QED
        BY <1>5, <2>1, <4>1, <4>2
    <3>2. CASE s # own /\ x = own
      <4>1. owner[s] = t /\ dirty'[s] = dirty[s]
        BY <1>4, <2>1, <3>2
      <4>2. dirty[s].status = "active" /\ dirty[s].number = tx[t].number
        <5>1. Seen(t, x)'.number = dirty'[s].number
          BY <2>1 DEF SeenOn
        <5> QED
          BY <1>1, <1>8, <1>9, <3>2, <4>1, <5>1 DEF Inv, Creator
      <4>3. SeenOn(t, s, tx[t].number) /\ Seen(t, s) = dirty[s]
        BY <4>1, <4>2 DEF SeenOn, Seen
      <4> QED
        BY <1>5, <1>8, <1>9, <2>1, <3>2, <4>1, <4>3
    <3>3. CASE s # own /\ x # own
      <4>1. owner[s] = t /\ dirty'[s] = dirty[s] /\ Seen(t, x)' = Seen(t, x)
        BY <1>4, <1>6, <2>1, <3>3
      <4>2. SeenOn(t, x, dirty[s].number)
        BY <2>1, <4>1 DEF SeenOn
      <4> QED
        BY <1>1, <2>1, <4>1, <4>2 DEF Inv, Fresh
    <3> QED
      BY <3>1, <3>2, <3>3
  <2>2. ASSUME dirty'[own].code = NoCode, NEW x \in Ids \ {own},
               SeenOn(t, x, tx[t].number)', Seen(t, x)'.code = NoCode
        PROVE  Seen(t, x)'.parties \cap dirty'[own].parties = {}
    <3>1. SeenOn(t, x, tx[t].number)
      BY <1>2, <1>6, <2>2 DEF SeenOn
    <3> QED
      BY <1>4, <1>5, <1>6, <1>8, <2>2, <3>1
  <2> QED
    BY <1>2, <2>1, <2>2 DEF Fresh
<1> QED
  BY <1>7, <1>10, <1>11 DEF Inv, Writer, Ordered, Covered, Ends

(* A transaction that writes sessions goes on writing.                     *)
LEMMA WritingGoesOn ==
    ASSUME TypeOK, NEW t \in Txs, Writes(t),
           tx'[t].at \in {"update", "count", "stamp", "commit"}, tx'[t].job # "create",
           Writer(t)', Ordered(t)', Covered(t)'
    PROVE  Inv(t)'
<1>1. ~ Creates(t)' /\ Rest(t)' /\ Promoter(t)'
  BY DEF Creates, Rest, Promoter
<1> QED
  BY <1>1 DEF Inv, Creator, Fresh

LEMMA UpdateInv ==
    ASSUME TypeOK, NEW t \in Txs, Inv(t), NEW s \in Ids, Update(t, s)
    PROVE  Inv(t)'
<1> DEFINE at == AfterWrite(t, tx[t].todo \ {s})
           ended == IF tx[t].job = "extend" THEN {} ELSE tx[t].ended \cup {s}
<1>1. /\ Writes(t) /\ tx[t].at = "update" /\ UNCHANGED <<row, lock, crossed>>
      /\ Write(t, s, Written(t, s))
      /\ tx'[t] = [tx[t] EXCEPT !.at = at, !.todo = @ \ {s}, !.ended = ended]
  BY Gone DEF Update, Writes
<1>2. /\ tx[t].job \in {"close", "extend", "sweep"}
      /\ tx[t].todo # {} /\ tx[t].todo \subseteq Ids
      /\ \A x \in tx[t].todo : row[x].status # "none"
  BY <1>1, TxTyped DEF Inv, Writer
<1>3. s \in tx[t].todo /\ \A x \in tx[t].todo : s <= x
  BY <1>2, FirstOf, SessionTxAssumption DEF Update, NextWritten
<1>4. /\ owner'[s] = t /\ dirty'[s] = Written(t, s)
      /\ \A x \in Ids \ {s} : owner'[x] = owner[x] /\ dirty'[x] = dirty[x]
  BY <1>1 DEF TypeOK, Write
<1>5. Overwrites(tx[t].job, row[s], dirty'[s])
  BY <1>2, <1>4, WrittenTyped
<1>6. /\ tx[t].job = "extend" => ended = {}
      /\ tx[t].job # "extend" => ended = tx[t].ended \cup {s}
      /\ tx[t].todo \ {s} # {} => at = "update"
      /\ tx[t].todo \ {s} = {} => at = IF tx[t].job = "extend" THEN "commit" ELSE "count"
  BY DEF AfterWrite
<1> HIDE DEF at, ended
<1>7. /\ tx'[t].at = at /\ tx'[t].todo = tx[t].todo \ {s} /\ tx'[t].ended = ended
      /\ tx'[t].job = tx[t].job /\ tx'[t].number = tx[t].number
  BY <1>1, TxTyped DEF Transactions
<1>8. at \in {"update", "count", "commit"}
  BY <1>6
<1>9. tx[t].job = "extend" => tx[t].todo \ {s} = {} /\ \A x \in Ids : owner[x] # t
  BY <1>1, <1>3 DEF Inv, Writer
<1>10. tx[t].job # "extend" =>
          /\ \A x \in Ids : owner'[x] = t <=> x \in ended
          /\ ended \subseteq Ids
  <2>1. tx[t].job # "extend" => \A x \in Ids : owner[x] = t <=> x \in tx[t].ended
    BY <1>1 DEF Inv, Writer
  <2> QED
    BY <1>4, <1>6, <2>1, TxTyped
<1>11. Writer(t)'
  <2>1. ASSUME NEW x \in Ids, owner'[x] = t
        PROVE  row'[x].status # "none" /\ Overwrites(tx[t].job, row'[x], dirty'[x])
    BY <1>1, <1>2, <1>3, <1>4, <1>5, <2>1 DEF Inv, Writer
  <2>2. CASE tx[t].job = "extend"
    <3>1. ended = {} /\ at = "commit" /\ tx'[t].todo = {}
      BY <1>6, <1>7, <1>9, <2>2
    <3>2. \A x \in Ids : owner'[x] = t => x = s
      BY <1>4, <1>9, <2>2
    <3> QED
      BY <1>2, <1>7, <2>1, <2>2, <3>1, <3>2 DEF Writer
  <2>3. CASE tx[t].job # "extend"
    <3>1. at = "update" <=> tx[t].todo \ {s} # {}
      BY <1>6, <2>3
    <3>2. at # "commit"
      BY <1>6, <2>3
    <3> QED
      BY <1>1, <1>2, <1>7, <1>8, <1>10, <2>1, <2>3, <3>1, <3>2 DEF Writer
  <2> QED
    BY <2>2, <2>3
<1>12. Ordered(t)'
  <2>1. \A x \in Ids : owner[x] = t => \A y \in tx[t].todo : x < y
    BY <1>1 DEF Inv, Ordered
  <2>2. \A x \in Ids : owner'[x] = t => \A y \in tx[t].todo \ {s} : x < y
    <3>1. \A y \in tx[t].todo \ {s} : s < y
      BY <1>2, <1>3, SessionTxAssumption
    <3> QED
      BY <1>4, <2>1, <3>1
  <2>3. \A n \in Numbers : lock'[n] # t
    BY <1>1 DEF Inv, Ordered
  <2>4. tx[t].job = "close" => \A x, y \in (tx[t].todo \ {s}) \cup ended : x = y
    BY <1>1, <1>3, <1>6 DEF Inv, Ordered
  <2> QED
    BY <1>7, <1>8, <2>2, <2>3, <2>4 DEF Ordered
<1>13. Covered(t)'
  <2>1. tx[t].job # "extend" => \A x \in Ids : ~ Counted(t, x)'
    BY <1>7, <1>10 DEF Counted
  <2> QED
    BY <1>7, <2>1 DEF Covered, Ends
<1> QED
  BY <1>1, <1>2, <1>7, <1>8, <1>11, <1>12, <1>13, WritingGoesOn

LEMMA CountInv ==
    ASSUME TypeOK, RowsFilled, NEW t \in Txs, Inv(t), NEW s \in Ids, Count(t, s)
    PROVE  Inv(t)'
<1> DEFINE n == dirty[s].number
           left == tx[t].ended \ {s}
<1>1. PICK at \in Steps :
          /\ Go(t, [tx[t] EXCEPT !.ended = left, !.number = n, !.at = at])
          /\ at = "stamp" <=> Remaining(t, n) = {}
          /\ at # "stamp" => at = AfterCount(left)
  BY CountTells
<1>2. /\ Writes(t) /\ tx[t].at = "count" /\ s \in tx[t].ended
      /\ UNCHANGED <<row, dirty, owner, lock>> /\ crossed \subseteq crossed'
  BY DEF Count, Writes
<1>3. /\ tx'[t].at = at /\ tx'[t].ended = left /\ tx'[t].number = n
      /\ tx'[t].job = tx[t].job /\ tx'[t].todo = tx[t].todo /\ tx'[t].stamps = tx[t].stamps
  <2>1. tx'[t] = [tx[t] EXCEPT !.ended = left, !.number = n, !.at = at]
    BY <1>1, Gone
  <2> HIDE DEF n, left
  <2> QED
    BY <2>1, TxTyped DEF Transactions
<1>4. tx[t].job \in {"close", "sweep"} /\ tx[t].todo = {}
  BY <1>2 DEF Inv, Writer
<1>5. n \in Numbers
  BY <1>2 DEF Inv, Writer, Overwrites, RowsFilled
<1>6. at \in {"count", "stamp", "commit"} /\ (at = "commit" => left = {})
  BY <1>1 DEF AfterCount
<1>7. Writer(t)'
  <2>1. \A x \in left : owner[x] = t
    BY <1>2 DEF Inv, Writer
  <2>2. \A x \in Ids : owner[x] = t =>
            row[x].status # "none" /\ Overwrites(tx[t].job, row[x], dirty[x])
    BY <1>2 DEF Inv, Writer
  <2> HIDE DEF n, left
  <2>3. /\ tx'[t].job \in {"close", "sweep"} /\ tx'[t].todo = {} /\ tx'[t].at # "update"
        /\ tx'[t].at = "commit" => tx'[t].ended = {}
        /\ tx'[t].at = "stamp" => tx'[t].number \in Numbers
    BY <1>3, <1>4, <1>5, <1>6
  <2> QED
    BY <1>2, <1>3, <2>1, <2>2, <2>3 DEF Writer
<1>8. Ordered(t)'
  <2>1. tx[t].job = "close" => left = {} /\ \A m \in Numbers : lock[m] # t
    BY <1>2 DEF Inv, Ordered
  <2> HIDE DEF n, left
  <2> QED
    BY <1>2, <1>3, <1>4, <1>6, <2>1 DEF Ordered
<1>9. Covered(t)'
  <2> SUFFICES ASSUME NEW x \in Ids, Counted(t, x)'
               PROVE  \/ dirty'[x].number \in tx'[t].stamps \cup crossed'
                      \/ tx'[t].at = "stamp" /\ dirty'[x].number = tx'[t].number
                      \/ \E y \in ActiveOn(row', dirty'[x].number) : owner'[y] # t
    BY DEF Covered
  <2>1. owner[x] = t /\ (x \notin tx[t].ended \/ x = s)
    BY <1>2, <1>3 DEF Counted
  <2>2. CASE x \notin tx[t].ended
    <3>1. \/ dirty[x].number \in tx[t].stamps \cup crossed
          \/ \E y \in ActiveOn(row, dirty[x].number) : owner[y] # t
      BY <1>2, <1>4, <2>1, <2>2 DEF Inv, Covered, Counted, Ends
    <3> QED
      BY <1>2, <1>3, <3>1
  <2>3. CASE x = s
    <3>1. CASE Remaining(t, n) = {}
      BY <1>1, <1>2, <1>3, <2>3, <3>1
    <3>2. CASE Remaining(t, n) # {}
      <4>1. PICK y \in Ids : SeenOn(t, y, n)
        BY <3>2, ViewSeen DEF Remaining, ActiveOn, SeenOn
      <4>2. owner[y] # t
        BY <1>2, <1>4, <4>1 DEF Inv, Writer, Overwrites, SeenOn, Seen
      <4>3. y \in ActiveOn(row, n)
        BY <4>1, <4>2 DEF SeenOn, Seen, ActiveOn
      <4> QED
        BY <1>2, <2>3, <4>2, <4>3
    <3> QED
      BY <3>1, <3>2
  <2> QED
    BY <2>1, <2>2, <2>3
<1> QED
  BY <1>2, <1>3, <1>4, <1>6, <1>7, <1>8, <1>9, WritingGoesOn

LEMMA StampInv ==
    ASSUME TypeOK, NEW t \in Txs, Inv(t), Stamp(t)
    PROVE  Inv(t)'
<1>1. /\ Writes(t) /\ tx[t].at = "stamp" /\ UNCHANGED <<row, dirty, owner, crossed>>
      /\ tx'[t] = [tx[t] EXCEPT !.stamps = @ \cup {tx[t].number},
                                !.at = AfterCount(tx[t].ended)]
  BY Gone DEF Stamp, Writes
<1>2. /\ tx'[t].at = AfterCount(tx[t].ended)
      /\ tx'[t].stamps = tx[t].stamps \cup {tx[t].number}
      /\ tx'[t].job = tx[t].job /\ tx'[t].todo = tx[t].todo /\ tx'[t].ended = tx[t].ended
  BY <1>1, TxTyped DEF Transactions
<1>3. /\ tx'[t].at \in {"count", "commit"}
      /\ tx'[t].at = "commit" <=> tx[t].ended = {}
  BY <1>2 DEF AfterCount
<1>4. tx[t].job \in {"close", "sweep"} /\ tx[t].todo = {}
  BY <1>1 DEF Inv, Writer
<1>5. Writer(t)'
  <2>1. /\ \A x \in tx[t].ended : owner[x] = t
        /\ \A x \in Ids : owner[x] = t =>
               row[x].status # "none" /\ Overwrites(tx[t].job, row[x], dirty[x])
    BY <1>1 DEF Inv, Writer
  <2> QED
    BY <1>1, <1>2, <1>3, <1>4, <2>1 DEF Writer
<1>6. Ordered(t)'
  <2>1. tx[t].job = "close" => tx[t].ended = {}
    BY <1>1 DEF Inv, Ordered
  <2> QED
    BY <1>2, <1>3, <1>4, <2>1 DEF Ordered
<1>7. Covered(t)'
  <2> SUFFICES ASSUME NEW x \in Ids, Counted(t, x)'
               PROVE  \/ dirty'[x].number \in tx'[t].stamps \cup crossed'
                      \/ tx'[t].at = "stamp" /\ dirty'[x].number = tx'[t].number
                      \/ \E y \in ActiveOn(row', dirty'[x].number) : owner'[y] # t
    BY DEF Covered
  <2>1. Ends(t) /\ Counted(t, x)
    BY <1>1, <1>2, <1>4 DEF Ends, Counted
  <2>2. \/ dirty[x].number \in tx[t].stamps \cup crossed
        \/ dirty[x].number = tx[t].number
        \/ \E y \in ActiveOn(row, dirty[x].number) : owner[y] # t
    BY <2>1 DEF Inv, Covered
  <2> QED
    BY <1>1, <1>2, <2>2
<1> QED
  BY <1>1, <1>2, <1>3, <1>4, <1>5, <1>6, <1>7, WritingGoesOn

LEMMA OwnInv ==
    ASSUME TypeOK, RowsFilled, NEW t \in Txs, Inv(t),
           Begin(t) \/ CreationStep(t) \/ UpdateStep(t) \/ Commit(t) \/ Abort(t)
    PROVE  Inv(t)'
<1>1. CASE CreationStep(t)
  BY <1>1, PickInv, LookForSharedInv, ReadCodesInv, FindConflictsInv, LockConflictInv,
     GivePinsInv, InsertInv, Zenon DEF CreationStep
<1>2. CASE UpdateStep(t)
  BY <1>2, UpdateInv, CountInv, StampInv, Zenon DEF UpdateStep
<1> QED
  BY <1>1, <1>2, BeginInv, EndInv, Zenon

(* What a step is: a part of a transaction, or its end, or an expiry       *)
LEMMA Steps3 ==
    ASSUME Next
    PROVE  \/ \E t \in Txs : \/ Begin(t) \/ CreationStep(t) \/ UpdateStep(t)
                             \/ Commit(t) \/ Abort(t)
           \/ \E s \in Ids : PassExpiry(s)
<1>1. ASSUME NEW t \in Txs, Step(t) \/ Fail(t)
      PROVE  CreationStep(t) \/ UpdateStep(t) \/ Commit(t) \/ Abort(t)
  <2>1. CASE CreateStep(t)
    BY <2>1, Zenon DEF CreateStep, CreationStep, Exhausted, InsertFails
  <2> QED
    BY <1>1, <2>1, Zenon DEF Step, DetectDeadlock, Fail
<1> QED
  BY <1>1, Zenon DEF Next

-----------------------------------------------------------------------------
(* Every step, beside every transaction                                    *)

LEMMA BeginBeside ==
    ASSUME TypeOK, NEW t \in Txs, NEW u \in Txs, t # u, Inv(t), Begin(u)
    PROVE  Beside(t)
<1>1. UNCHANGED <<row, dirty, owner, lock, crossed>>
  BY DEF Begin, BeginCreate, BeginClose, BeginExtend, BeginSweep, BeginUpdate
<1>2. tx'[t] = tx[t]
  BY DEF Begin, BeginCreate, BeginClose, BeginExtend, BeginSweep, BeginUpdate, Go, TypeOK
<1> QED
  BY <1>1, <1>2, StillBeside DEF Inv

LEMMA CreationBeside ==
    ASSUME TypeOK, OwnSessions, NEW t \in Txs, NEW u \in Txs, t # u, Inv(t), Inv(u),
           CreationStep(u)
    PROVE  Beside(t)
<1>0. Creator(t)
  BY DEF Inv
<1>1. ASSUME NEW n \in Numbers, Pick(u, n) \/ Try(u, n)
      PROVE  Beside(t)
  <2>1. UNCHANGED <<row, dirty, owner, crossed>>
    BY <1>1 DEF Pick, Try
  <2>2. \A m \in Numbers : (lock'[m] = t) <=> (lock[m] = t)
    BY <1>1, LockBeside DEF Pick, Try
  <2>3. tx'[t] = tx[t]
    BY <1>1 DEF Pick, Try, Go, TypeOK
  <2> QED
    BY <1>0, <2>1, <2>2, <2>3, StillBeside
<1>2. ASSUME LookForShared(u) \/ ReadCodes(u) \/ FindConflicts(u)
      PROVE  Beside(t)
  <2>1. UNCHANGED <<row, dirty, owner, lock, crossed>>
    BY <1>2 DEF LookForShared, ReadCodes, FindConflicts
  <2>2. tx'[t] = tx[t]
    BY <1>2 DEF LookForShared, ReadCodes, FindConflicts, Go, TypeOK
  <2> QED
    BY <1>0, <2>1, <2>2, StillBeside
<1>3. ASSUME NEW s \in Ids, LockConflict(u, s)
      PROVE  Beside(t)
  <2>1. UNCHANGED <<row, lock, crossed>> /\ FreeFor(u, owner[s])
    BY <1>3 DEF LockConflict
  <2>2. owner[s] # t
    BY <2>1, SessionTxAssumption DEF FreeFor
  <2>3. tx'[t] = tx[t]
    BY <1>3 DEF LockConflict, Go, TypeOK
  <2>4. UNCHANGED <<dirty, owner>> \/ Write(u, s, View(u)[s])
    BY <1>3 DEF LockConflict
  <2>5. /\ \A x \in Ids : (owner'[x] = t) <=> (owner[x] = t)
        /\ \A x \in Ids : owner[x] = t => dirty'[x] = dirty[x]
    BY <2>2, <2>4, WriteBeside
  <2> QED
    BY <1>0, <2>1, <2>3, <2>5, StillBeside
<1>4. ASSUME GivePins(u)
      PROVE  Beside(t)
  <2>1. UNCHANGED <<row, owner, lock, crossed>>
    BY <1>4 DEF GivePins
  <2>2. tx'[t] = tx[t]
    BY <1>4 DEF GivePins, Go, TypeOK
  <2>3. \A s \in Ids : s \notin tx[u].mine => dirty'[s] = dirty[s]
    BY <1>4 DEF GivePins
  <2>4. \A s \in Ids : owner[s] = t => s \notin tx[u].mine
    BY <1>4 DEF GivePins, Inv, Promoter
  <2> QED
    BY <1>0, <2>1, <2>2, <2>3, <2>4, StillBeside
<1>5. ASSUME Insert(u)
      PROVE  Beside(t)
  <2>1. UNCHANGED <<row, lock, crossed>> /\ Creates(u)
    BY <1>5 DEF Insert, Creates
  <2>2. tx'[t] = tx[t]
    BY <1>5 DEF Insert, Go, TypeOK
  <2>3. tx[u].session \in Ids /\ owner[tx[u].session] # t
    BY <2>1, OwnSessionFree
  <2>4. /\ \A x \in Ids : (owner'[x] = t) <=> (owner[x] = t)
        /\ \A x \in Ids : owner[x] = t => dirty'[x] = dirty[x]
    BY <1>5, <2>3, WriteBeside DEF Insert
  <2> QED
    BY <1>0, <2>1, <2>2, <2>4, StillBeside
<1> QED
  BY <1>1, <1>2, <1>3, <1>4, <1>5, Zenon DEF CreationStep

LEMMA WritingBeside ==
    ASSUME TypeOK, NEW t \in Txs, NEW u \in Txs, t # u, Inv(t), UpdateStep(u)
    PROVE  Beside(t)
<1>0. Creator(t)
  BY DEF Inv
<1>1. ASSUME NEW s \in Ids, Update(u, s)
      PROVE  Beside(t)
  <2>1. UNCHANGED <<row, lock, crossed>> /\ FreeFor(u, owner[s])
    BY <1>1 DEF Update
  <2>2. owner[s] # t
    BY <2>1, SessionTxAssumption DEF FreeFor
  <2>3. tx'[t] = tx[t]
    BY <1>1 DEF Update, Go, TypeOK
  <2>4. /\ \A x \in Ids : (owner'[x] = t) <=> (owner[x] = t)
        /\ \A x \in Ids : owner[x] = t => dirty'[x] = dirty[x]
    BY <1>1, <2>2, WriteBeside DEF Update
  <2> QED
    BY <1>0, <2>1, <2>3, <2>4, StillBeside
<1>2. ASSUME NEW s \in Ids, Count(u, s)
      PROVE  Beside(t)
  <2>1. UNCHANGED <<row, dirty, owner, lock>> /\ crossed \subseteq crossed'
    BY <1>2 DEF Count
  <2>2. tx'[t] = tx[t]
    BY <1>2, CountTells, Gone
  <2> QED
    BY <1>0, <2>1, <2>2, StillBeside
<1>3. ASSUME Stamp(u)
      PROVE  Beside(t)
  <2>1. UNCHANGED <<row, dirty, owner, crossed>>
    BY <1>3 DEF Stamp
  <2>2. \A m \in Numbers : (lock'[m] = t) <=> (lock[m] = t)
    BY <1>3, LockBeside DEF Stamp
  <2>3. tx'[t] = tx[t]
    BY <1>3 DEF Stamp, Go, TypeOK
  <2> QED
    BY <1>0, <2>1, <2>2, <2>3, StillBeside
<1> QED
  BY <1>1, <1>2, <1>3, Zenon DEF UpdateStep

LEMMA AbortBeside ==
    ASSUME TypeOK, NEW t \in Txs, NEW u \in Txs, t # u, Inv(t), Abort(u)
    PROVE  Beside(t)
<1>1. LetGo(u) /\ UNCHANGED <<row, crossed>>
  BY DEF Abort
<1>2. tx'[t] = tx[t]
  BY DEF Abort, Go, TypeOK
<1> QED
  BY <1>1, <1>2, LetGoBeside, StillBeside DEF Inv

LEMMA OthersBeside ==
    ASSUME IInv, NEW t \in Txs, NEW u \in Txs, t # u,
           Begin(u) \/ CreationStep(u) \/ UpdateStep(u) \/ Commit(u) \/ Abort(u)
    PROVE  Beside(t)
<1>1. TypeOK /\ RowsFilled /\ OwnSessions /\ Inv(t) /\ Inv(u) /\ Crossing(t, u)
  BY DEF IInv
<1> QED
  BY <1>1, BeginBeside, CreationBeside, WritingBeside, CommitBeside, AbortBeside, Zenon

-----------------------------------------------------------------------------
(* The invariant is kept                                                   *)

LEMMA NextTyped ==
    ASSUME IInv, Next
    PROVE  TypeOK'
<1>1. \A t \in Txs : Creator(t) /\ Writer(t)
  BY DEF IInv, Inv
<1> QED
  BY <1>1, Steps3, BeginTyped, CreateTyped, WriterTyped, EndTyped, PassExpiryTyped, Zenon DEF IInv

LEMMA NextInv ==
    ASSUME IInv, Next, NEW t \in Txs
    PROVE  Inv(t)'
<1>1. TypeOK /\ RowsFilled /\ Inv(t)
  BY DEF IInv
<1>2. ASSUME NEW u \in Txs, Begin(u) \/ CreationStep(u) \/ UpdateStep(u) \/ Commit(u) \/ Abort(u)
      PROVE  Inv(t)'
  <2>1. CASE u = t
    BY <1>1, <1>2, <2>1, OwnInv, Zenon
  <2>2. CASE u # t
    <3>1. Beside(t)
      BY <1>2, <2>2, OthersBeside, Zenon
    <3> QED
      BY <1>1, <3>1, BesideKeeps
  <2> QED
    BY <2>1, <2>2
<1>3. ASSUME NEW s \in Ids, PassExpiry(s)
      PROVE  Inv(t)'
  BY <1>1, <1>3, PassExpiryBeside, BesideKeeps
<1> QED
  BY <1>2, <1>3, Steps3, Zenon

(* Nothing is committed but by a commit and by the passing of time.        *)
LEMMA NothingCommitted ==
    ASSUME TypeOK, NEW u \in Txs, Begin(u) \/ CreationStep(u) \/ UpdateStep(u) \/ Abort(u)
    PROVE  UNCHANGED <<row, stamped>> /\ crossed \subseteq crossed'
<1>1. CASE Begin(u)
  BY <1>1 DEF Begin, BeginCreate, BeginClose, BeginExtend, BeginSweep, BeginUpdate
<1>2. CASE CreationStep(u)
  BY <1>2 DEF CreationStep, Pick, Try, LookForShared, ReadCodes, FindConflicts, LockConflict,
              GivePins, Insert
<1>3. CASE UpdateStep(u)
  BY <1>3 DEF UpdateStep, Update, Count, Stamp
<1>4. CASE Abort(u)
  BY <1>4 DEF Abort
<1> QED
  BY <1>1, <1>2, <1>3, <1>4

(* What time changes of the rows                                           *)
LEMMA PassExpiryRows ==
    ASSUME TypeOK, NEW s \in Ids, PassExpiry(s)
    PROVE  \A x \in Ids : row'[x].status = row[x].status /\ row'[x].number = row[x].number
  BY RowTyped DEF TypeOK, PassExpiry, Promise!Rows

LEMMA NextRowsFilled ==
    ASSUME IInv, Next
    PROVE  RowsFilled'
<1> USE DEF IInv
<1>1. ASSUME NEW u \in Txs, Commit(u)
      PROVE  RowsFilled'
  <2> SUFFICES ASSUME NEW s \in Ids, row'[s].status # "none"
               PROVE  row'[s].number \in Numbers
    BY DEF RowsFilled
  <2>1. Inv(u) /\ tx[u].at = "commit" /\ row'[s] = IF owner[s] = u THEN dirty[s] ELSE row[s]
    BY <1>1 DEF Commit
  <2>2. CASE owner[s] # u
    BY <2>1, <2>2 DEF RowsFilled
  <2>3. CASE owner[s] = u /\ row[s].status # "none"
    <3>1. dirty[s].number = row[s].number
      BY <2>1, <2>3, CommittedRow
    <3> QED
      BY <2>1, <2>3, <3>1 DEF RowsFilled
  <2>4. CASE owner[s] = u /\ row[s].status = "none"
    <3>1. Creates(u) /\ s = tx[u].session /\ dirty[s].number = tx[u].number
      BY <2>1, <2>4, Phases DEF Inv, Creator, Writer
    <3> QED
      BY <2>1, <2>4, <3>1 DEF Inv, Creator
  <2> QED
    BY <2>2, <2>3, <2>4
<1>2. ASSUME NEW s \in Ids, PassExpiry(s)
      PROVE  RowsFilled'
  BY <1>2, PassExpiryRows DEF RowsFilled
<1>3. ASSUME UNCHANGED row
      PROVE  RowsFilled'
  BY <1>3 DEF RowsFilled
<1> QED
  BY <1>1, <1>2, <1>3, Steps3, NothingCommitted, Zenon

(* A transaction keeps to its job, and a creation to its session.          *)
LEMMA JobKept ==
    ASSUME TypeOK, NEW u \in Txs, CreationStep(u) \/ UpdateStep(u)
    PROVE  tx'[u].session = tx[u].session /\ tx'[u].job = tx[u].job
<1> USE TxTyped
<1>1. ASSUME NEW n \in Numbers, Pick(u, n) \/ Try(u, n)
      PROVE  tx'[u].session = tx[u].session /\ tx'[u].job = tx[u].job
  <2>1. \/ tx'[u] = [tx[u] EXCEPT !.at = "insert", !.number = n, !.seen = {}]
        \/ tx'[u] = [tx[u] EXCEPT !.at = "codes", !.number = n, !.seen = @ \ {n}]
        \/ tx'[u] = [tx[u] EXCEPT !.seen = @ \ {n}]
    <3>1. CASE Pick(u, n)
      BY <3>1, Gone DEF Pick
    <3>2. CASE Try(u, n)
      BY <3>2, Gone DEF Try
    <3> QED
      BY <1>1, <3>1, <3>2
  <2> QED
    BY <2>1 DEF Transactions
<1>2. ASSUME LookForShared(u)
      PROVE  tx'[u].session = tx[u].session /\ tx'[u].job = tx[u].job
  <2>1. tx'[u] = [tx[u] EXCEPT !.at = "try", !.seen = Shareable(row, tx[u].pair)]
    BY <1>2, Gone DEF LookForShared
  <2> QED
    BY <2>1 DEF Transactions
<1>3. ASSUME ReadCodes(u)
      PROVE  tx'[u].session = tx[u].session /\ tx'[u].job = tx[u].job
  <2>1. \/ \E code \in Codes :
              tx'[u] = [tx[u] EXCEPT !.at = "conflicts", !.code = code,
                                     !.used = CodesInUse(u) \cup {code}]
        \/ tx'[u] = [tx[u] EXCEPT !.at = "try"]
    <3>1. \/ \E code \in Codes : Go(u, [tx[u] EXCEPT !.at = "conflicts", !.code = code,
                                              !.used = CodesInUse(u) \cup {code}])
          \/ Go(u, [tx[u] EXCEPT !.at = "try"])
      BY <1>3, Zenon DEF ReadCodes
    <3> QED
      BY <3>1, Gone, Zenon
  <2>2. CASE tx'[u] = [tx[u] EXCEPT !.at = "try"]
    BY <2>2 DEF Transactions
  <2>3. ASSUME NEW code \in Codes, NEW used,
               tx'[u] = [tx[u] EXCEPT !.at = "conflicts", !.code = code, !.used = used]
        PROVE  tx'[u].session = tx[u].session /\ tx'[u].job = tx[u].job
    BY <2>3 DEF Transactions
  <2> QED
    BY <2>1, <2>2, <2>3
<1>4. ASSUME FindConflicts(u)
      PROVE  tx'[u].session = tx[u].session /\ tx'[u].job = tx[u].job
  <2>1. tx'[u] = [tx[u] EXCEPT !.at = "promote", !.mine = {},
                       !.todo = ToPromote(View(u), tx[u].number, tx[u].pair)]
    BY <1>4, Gone DEF FindConflicts
  <2> QED
    BY <2>1 DEF Transactions
<1>5. ASSUME NEW s \in Ids, LockConflict(u, s)
      PROVE  tx'[u].session = tx[u].session /\ tx'[u].job = tx[u].job
  <2>1. \/ tx'[u] = [tx[u] EXCEPT !.todo = @ \ {s}, !.mine = @ \cup {s}]
        \/ tx'[u] = [tx[u] EXCEPT !.todo = @ \ {s}]
    BY <1>5, Gone DEF LockConflict
  <2> QED
    BY <2>1 DEF Transactions
<1>6. ASSUME GivePins(u)
      PROVE  tx'[u].session = tx[u].session /\ tx'[u].job = tx[u].job
  <2>1. PICK done \in SUBSET tx[u].mine :
            Go(u, [tx[u] EXCEPT !.mine = {}, !.used = {},
                        !.at = IF done = tx[u].mine THEN "insert" ELSE "try",
                        !.code = IF done = tx[u].mine THEN @ ELSE NoCode])
    BY <1>6, Zenon DEF GivePins
  <2> DEFINE at == IF done = tx[u].mine THEN "insert" ELSE "try"
             code == IF done = tx[u].mine THEN tx[u].code ELSE NoCode
  <2>2. tx'[u] = [tx[u] EXCEPT !.mine = {}, !.used = {}, !.at = at, !.code = code]
    BY <2>1, Gone
  <2> HIDE DEF at, code
  <2> QED
    BY <2>2 DEF Transactions
<1>7. ASSUME Insert(u)
      PROVE  tx'[u].session = tx[u].session /\ tx'[u].job = tx[u].job
  <2>1. tx'[u] = [tx[u] EXCEPT !.at = "commit"]
    BY <1>7, Gone DEF Insert
  <2> QED
    BY <2>1 DEF Transactions
<1>8. ASSUME NEW s \in Ids, Update(u, s)
      PROVE  tx'[u].session = tx[u].session /\ tx'[u].job = tx[u].job
  <2> DEFINE at == AfterWrite(u, tx[u].todo \ {s})
             ended == IF tx[u].job = "extend" THEN {} ELSE tx[u].ended \cup {s}
  <2>1. tx'[u] = [tx[u] EXCEPT !.at = at, !.todo = @ \ {s}, !.ended = ended]
    BY <1>8, Gone DEF Update
  <2> HIDE DEF at, ended
  <2> QED
    BY <2>1 DEF Transactions
<1>9. ASSUME NEW s \in Ids, Count(u, s)
      PROVE  tx'[u].session = tx[u].session /\ tx'[u].job = tx[u].job
  <2> DEFINE n == dirty[s].number
             left == tx[u].ended \ {s}
  <2>1. PICK at \in Steps : Go(u, [tx[u] EXCEPT !.ended = left, !.number = n, !.at = at])
    BY <1>9, CountTells
  <2>2. tx'[u] = [tx[u] EXCEPT !.ended = left, !.number = n, !.at = at]
    BY <2>1, Gone
  <2> HIDE DEF n, left
  <2> QED
    BY <2>2 DEF Transactions
<1>10. ASSUME Stamp(u)
      PROVE  tx'[u].session = tx[u].session /\ tx'[u].job = tx[u].job
  <2>1. tx'[u] = [tx[u] EXCEPT !.stamps = @ \cup {tx[u].number}, !.at = AfterCount(tx[u].ended)]
    BY <1>10, Gone DEF Stamp
  <2> QED
    BY <2>1 DEF Transactions
<1>11. CASE CreationStep(u)
  BY <1>1, <1>2, <1>3, <1>4, <1>5, <1>6, <1>7, <1>11, Zenon DEF CreationStep
<1>12. CASE UpdateStep(u)
  BY <1>8, <1>9, <1>10, <1>12, Zenon DEF UpdateStep
<1> QED
  BY <1>11, <1>12

LEMMA NextOwnSessions ==
    ASSUME IInv, Next
    PROVE  OwnSessions'
<1>1. TypeOK /\ OwnSessions
  BY DEF IInv
<1>2. ASSUME NEW u \in Txs, Begin(u) \/ CreationStep(u) \/ UpdateStep(u) \/ Commit(u) \/ Abort(u)
      PROVE  OwnSessions'
  <2>1. \A t \in Txs \ {u} : tx'[t] = tx[t]
    <3>1. \A t \in Txs \ {u} : Beside(t)
      BY <1>2, OthersBeside, Zenon
    <3> QED
      BY <3>1 DEF Beside, KeepsOwn
  <2>2. \/ tx'[u].session \in {tx[u].session, NoId}
        \/ \A t \in Txs : tx[t].session # tx'[u].session
    <3>1. CASE CreationStep(u) \/ UpdateStep(u)
      BY <1>1, <3>1, JobKept
    <3>2. CASE Commit(u) \/ Abort(u)
      <4>1. Inv(u)' /\ tx'[u].at \in {"committed", "aborted"}
        <5>1. \/ tx'[u] = [Tx0 EXCEPT !.at = "committed", !.job = tx[u].job]
              \/ tx'[u] = [Tx0 EXCEPT !.at = "aborted", !.job = tx[u].job]
          BY <1>1, <3>2, Gone DEF Commit, Abort
        <5> QED
          BY <1>1, <3>2, <5>1, EndInv DEF Tx0
      <4> QED
        BY <4>1 DEF Inv, Rest
    <3>3. CASE \E s \in Ids, pair \in Requests : BeginCreate(u, s, pair)
      <4>1. PICK s \in Ids, pair \in Requests : BeginCreate(u, s, pair)
        BY <3>3, Zenon
      <4>2. tx'[u] = [tx[u] EXCEPT !.at = "pick", !.job = "create", !.session = s,
                                   !.pair = pair, !.seen = Exclusive(row, pair)]
        BY <1>1, <4>1, Gone DEF BeginCreate
      <4>3. tx'[u].session = s
        BY <1>1, <4>2, TxTyped DEF Transactions
      <4> QED
        BY <4>1, <4>3 DEF BeginCreate
    <3>4. ASSUME NEW job, NEW batch, BeginUpdate(u, job, batch)
          PROVE  tx'[u].session = tx[u].session
      <4>1. tx'[u] = [tx[u] EXCEPT !.at = "update", !.job = job, !.todo = batch]
        BY <1>1, <3>4, Gone DEF BeginUpdate
      <4> QED
        BY <1>1, <4>1, TxTyped DEF Transactions
    <3>5. CASE \/ \E s \in Ids : BeginClose(u, s) \/ BeginExtend(u, s)
               \/ \E batch \in SUBSET Due : BeginSweep(u, batch)
      BY <3>4, <3>5 DEF BeginClose, BeginExtend, BeginSweep
    <3> QED
      BY <1>2, <3>1, <3>2, <3>3, <3>5, Zenon DEF Begin
  <2> QED
    BY <1>1, <2>1, <2>2 DEF OwnSessions
<1>3. ASSUME NEW s \in Ids, PassExpiry(s)
      PROVE  OwnSessions'
  BY <1>1, <1>3 DEF OwnSessions, PassExpiry
<1> QED
  BY <1>2, <1>3, Steps3, Zenon

(* What a close or a sweep has written is an end.                          *)
LEMMA EndsWritten ==
    ASSUME TypeOK, NEW t \in Txs, Inv(t), Ends(t), NEW x \in Ids, owner[x] = t
    PROVE  Ended(dirty[x])
  BY DEF Inv, Writer, Overwrites, Ends, Ended

(* What the step of a transaction adds to the ends it has counted          *)
LEMMA CountedNext ==
    ASSUME TypeOK, RowsFilled, NEW t \in Txs, Inv(t), Ends(t)',
           Begin(t) \/ CreationStep(t) \/ UpdateStep(t) \/ Commit(t) \/ Abort(t),
           NEW s \in Ids, Counted(t, s)'
    PROVE  /\ Ends(t) /\ dirty'[s] = dirty[s]
           /\ Counted(t, s) \/ Count(t, s)
<1>1. ASSUME NEW x \in Ids, Update(t, x)
      PROVE  FALSE
  <2> DEFINE at == AfterWrite(t, tx[t].todo \ {x})
             ended == IF tx[t].job = "extend" THEN {} ELSE tx[t].ended \cup {x}
  <2>1. /\ Writes(t) /\ tx[t].at = "update" /\ Write(t, x, Written(t, x))
        /\ tx'[t] = [tx[t] EXCEPT !.at = at, !.todo = @ \ {x}, !.ended = ended]
    BY <1>1, Gone DEF Update, Writes
  <2>2. tx[t].job # "extend" => ended = tx[t].ended \cup {x}
    OBVIOUS
  <2> HIDE DEF at, ended
  <2>3. tx'[t].job = tx[t].job /\ tx'[t].ended = ended
    BY <2>1, TxTyped DEF Transactions
  <2>4. tx[t].job # "extend" /\ owner'[s] = t /\ s \notin ended
    BY <2>3 DEF Ends, Counted
  <2>5. s # x /\ s \notin tx[t].ended
    BY <2>2, <2>4
  <2>6. owner[s] = t
    BY <2>1, <2>4, <2>5 DEF Write, TypeOK
  <2> QED
    BY <2>1, <2>4, <2>5, <2>6 DEF Inv, Writer
<1>2. ASSUME NEW x \in Ids, Count(t, x)
      PROVE  /\ Ends(t) /\ dirty'[s] = dirty[s]
             /\ Counted(t, s) \/ Count(t, s)
  <2> DEFINE n == dirty[x].number
             left == tx[t].ended \ {x}
  <2>1. PICK at \in Steps : Go(t, [tx[t] EXCEPT !.ended = left, !.number = n, !.at = at])
    BY <1>2, CountTells
  <2>2. tx'[t] = [tx[t] EXCEPT !.ended = left, !.number = n, !.at = at]
    BY <2>1, Gone
  <2> HIDE DEF n, left
  <2>3. tx'[t].job = tx[t].job /\ tx'[t].ended = left
    BY <2>2, TxTyped DEF Transactions
  <2>4. UNCHANGED <<dirty, owner>> /\ Writes(t)
    BY <1>2 DEF Count, Writes
  <2>5. Ends(t) /\ owner[s] = t /\ (s \notin tx[t].ended \/ s = x)
    BY <2>3, <2>4 DEF Ends, Counted, left
  <2> QED
    BY <1>2, <2>4, <2>5 DEF Counted
<1>3. ASSUME Stamp(t)
      PROVE  /\ Ends(t) /\ dirty'[s] = dirty[s]
             /\ Counted(t, s) \/ Count(t, s)
  <2>1. /\ tx'[t] = [tx[t] EXCEPT !.stamps = @ \cup {tx[t].number}, !.at = AfterCount(tx[t].ended)]
        /\ UNCHANGED <<dirty, owner>> /\ Writes(t)
    BY <1>3, Gone DEF Stamp, Writes
  <2>2. tx'[t].job = tx[t].job /\ tx'[t].ended = tx[t].ended
    BY <2>1, TxTyped DEF Transactions
  <2> QED
    BY <2>1, <2>2 DEF Ends, Counted
<1>4. CASE Begin(t)
  <2>1. owner' = owner /\ tx[t].at = "idle"
    BY <1>4 DEF Begin, BeginCreate, BeginClose, BeginExtend, BeginSweep, BeginUpdate, Begins
  <2> QED
    BY <2>1 DEF Inv, Rest, Counted
<1>5. CASE CreationStep(t)
  <2>1. Creates(t)
    BY <1>5 DEF CreationStep, Pick, Try, LookForShared, ReadCodes, FindConflicts, LockConflict,
                GivePins, Insert, Creates
  <2>2. Inv(t)' /\ tx'[t].job = "create"
    BY <1>5, <2>1, OwnInv, JobKept DEF Inv, Creator
  <2> QED
    BY <2>2 DEF Inv, Writer, Ends
<1>6. CASE Commit(t) \/ Abort(t)
  <2>1. tx'[t].at \in {"committed", "aborted"}
    <3>1. \/ tx'[t] = [Tx0 EXCEPT !.at = "committed", !.job = tx[t].job]
          \/ tx'[t] = [Tx0 EXCEPT !.at = "aborted", !.job = tx[t].job]
      BY <1>6, Gone DEF Commit, Abort
    <3> QED
      BY <3>1 DEF Tx0
  <2> QED
    BY <2>1 DEF Ends, Writes
<1> QED
  BY <1>1, <1>2, <1>3, <1>4, <1>5, <1>6, Zenon DEF UpdateStep

LEMMA CrossingEither ==
    ASSUME NEW t, NEW u, Crossing(t, u)
    PROVE  Crossing(u, t)
  BY DEF Crossing

(* The one that counts later sees the other.                               *)
LEMMA CountCrosses ==
    ASSUME IInv, NEW t \in Txs, NEW u \in Txs, t # u,
           Begin(u) \/ CreationStep(u) \/ UpdateStep(u) \/ Commit(u) \/ Abort(u)
    PROVE  Crossing(t, u)'
<1>1. TypeOK /\ RowsFilled /\ Inv(t) /\ Inv(u) /\ Crossing(t, u)
  BY DEF IInv
<1> SUFFICES ASSUME Ends(t)', Ends(u)', NEW s \in Ids, NEW x \in Ids,
                    Counted(t, s)', Counted(u, x)', dirty'[s].number = dirty'[x].number
             PROVE  dirty'[s].number \in crossed'
  BY DEF Crossing
<1>2. Ends(u) /\ dirty'[x] = dirty[x] /\ (Counted(u, x) \/ Count(u, x))
  BY <1>1, CountedNext, Zenon
<1>3. Beside(t)
  BY OthersBeside, Zenon
<1>4. /\ Ends(t) /\ Counted(t, s) /\ crossed \subseteq crossed'
      /\ dirty'[s].number = dirty[s].number
  BY <1>3 DEF Beside, KeepsOwn, Ends, Writes, Counted
<1>5. CASE Counted(u, x)
  BY <1>1, <1>2, <1>4, <1>5 DEF Crossing
<1>6. CASE Count(u, x)
  <2>1. owner[s] = t /\ Ended(dirty[s])
    BY <1>1, <1>4, EndsWritten DEF Counted
  <2>2. Foreign(u, s)
    BY <2>1, SessionTxAssumption DEF Foreign, FreeFor
  <2>3. dirty[s].number = dirty[x].number
    BY <1>2, <1>4
  <2>4. crossed' = crossed \cup {dirty[x].number}
    BY <1>6, <2>1, <2>2, <2>3 DEF Count
  <2> QED
    BY <1>4, <2>3, <2>4
<1> QED
  BY <1>2, <1>5, <1>6

LEMMA NextCrossing ==
    ASSUME IInv, Next, NEW t \in Txs, NEW u \in Txs
    PROVE  Crossing(t, u)'
<1>1. TypeOK /\ RowsFilled /\ Inv(t) /\ Inv(u) /\ Crossing(t, u)
  BY DEF IInv
<1>2. ASSUME t # u, Beside(t), Beside(u)
      PROVE  Crossing(t, u)'
  BY <1>1, <1>2 DEF Crossing, Beside, KeepsOwn, Ends, Writes, Counted
<1>3. ASSUME NEW v \in Txs, Begin(v) \/ CreationStep(v) \/ UpdateStep(v) \/ Commit(v) \/ Abort(v)
      PROVE  Crossing(t, u)'
  <2>1. CASE t = u
    BY <2>1 DEF Crossing
  <2>2. CASE t # u /\ v # t /\ v # u
    BY <1>2, <1>3, <2>2, OthersBeside, Zenon
  <2>3. CASE t # u /\ v = u
    BY <1>3, <2>3, CountCrosses, Zenon
  <2>4. CASE t # u /\ v = t
    <3>1. Crossing(u, t)'
      BY <1>3, <2>4, CountCrosses, Zenon
    <3> QED
      BY <3>1 DEF Crossing
  <2> QED
    BY <2>1, <2>2, <2>3, <2>4
<1>4. ASSUME NEW s \in Ids, PassExpiry(s)
      PROVE  Crossing(t, u)'
  <2>1. CASE t = u
    BY <2>1 DEF Crossing
  <2>2. CASE t # u
    BY <1>1, <1>2, <1>4, <2>2, PassExpiryBeside
  <2> QED
    BY <2>1, <2>2
<1> QED
  BY <1>3, <1>4, Steps3, Zenon

(* The commit of an end stamps the number, or leaves a session on it.      *)
LEMMA CommitStamps ==
    ASSUME IInv, NEW u \in Txs, Commit(u)
    PROVE  StampedUnlessCrossed'
<1> SUFFICES ASSUME NEW n \in Numbers, stamped'[n] = FALSE, n \notin crossed'
             PROVE  ActiveOn(row', n) # {}
  <2>1. \A n \in Numbers : stamped'[n] \in BOOLEAN
    BY DEF Commit, IInv, TypeOK
  <2> QED
    BY <2>1 DEF StampedUnlessCrossed
<1>1. /\ TypeOK /\ RowsFilled /\ Inv(u) /\ tx[u].at = "commit" /\ n \notin crossed
      /\ \A s \in Ids : row'[s] = IF owner[s] = u THEN dirty[s] ELSE row[s]
  BY DEF IInv, Commit
<1>2. n \notin tx[u].stamps
  BY DEF Commit
<1>3. CASE tx[u].job \in {"close", "sweep"} /\ \E s \in Ids : owner[s] = u /\ dirty[s].number = n
  <2>1. PICK s \in Ids : owner[s] = u /\ dirty[s].number = n
    BY <1>3
  <2>2. Ends(u) /\ Counted(u, s)
    BY <1>1, <1>3, <2>1 DEF Inv, Writer, Ends, Writes, Counted
  <2>3. PICK x \in ActiveOn(row, n) : owner[x] # u
    BY <1>1, <1>2, <2>1, <2>2 DEF Inv, Covered
  <2> QED
    BY <1>1, <2>3 DEF ActiveOn
<1>4. CASE ~ (tx[u].job \in {"close", "sweep"} /\ \E s \in Ids : owner[s] = u /\ dirty[s].number = n)
  <2>1. stamped[n] = FALSE
    BY <1>2, <1>4 DEF Commit
  <2>2. PICK x \in Ids : row[x].status = "active" /\ row[x].number = n
    BY <1>1, <2>1 DEF IInv, StampedUnlessCrossed, ActiveOn
  <2>3. CASE owner[x] # u
    BY <1>1, <2>2, <2>3 DEF ActiveOn
  <2>4. CASE owner[x] = u
    <3>1. /\ dirty[x].number = n
          /\ Creates(u) \/ tx[u].job = "extend" => dirty[x].status = "active"
      BY <1>1, <2>2, <2>4, CommittedRow
    <3>2. Creates(u) \/ tx[u].job = "extend"
      BY <1>1, <1>4, <2>4, <3>1, Phases DEF Inv, Writer
    <3> QED
      BY <1>1, <2>4, <3>1, <3>2 DEF ActiveOn
  <2> QED
    BY <2>3, <2>4
<1> QED
  BY <1>3, <1>4

LEMMA NextStamped ==
    ASSUME IInv, Next
    PROVE  StampedUnlessCrossed'
<1>1. ASSUME UNCHANGED stamped, crossed \subseteq crossed',
             \A s \in Ids : row'[s].status = row[s].status /\ row'[s].number = row[s].number
      PROVE  StampedUnlessCrossed'
  <2>1. \A n \in Numbers : ActiveOn(row', n) = ActiveOn(row, n)
    BY <1>1 DEF ActiveOn
  <2> QED
    BY <1>1, <2>1 DEF StampedUnlessCrossed, IInv
<1>2. ASSUME NEW u \in Txs, Begin(u) \/ CreationStep(u) \/ UpdateStep(u) \/ Abort(u)
      PROVE  StampedUnlessCrossed'
  <2>1. UNCHANGED <<row, stamped>> /\ crossed \subseteq crossed'
    BY <1>2, NothingCommitted, Zenon DEF IInv
  <2> QED
    BY <1>1, <2>1
<1>3. ASSUME NEW s \in Ids, PassExpiry(s)
      PROVE  StampedUnlessCrossed'
  <2>1. UNCHANGED <<stamped, crossed>>
    BY <1>3 DEF PassExpiry
  <2> QED
    BY <1>1, <1>3, <2>1, PassExpiryRows DEF IInv
<1> QED
  BY <1>2, <1>3, CommitStamps, Steps3, Zenon

LEMMA InitInv == Init => IInv
<1> SUFFICES ASSUME Init PROVE IInv
  OBVIOUS
<1>1. TypeOK
  BY OpeningsAssumption, NoRowTyped, Tx0Typed DEF Init, TypeOK
<1>2. RowsFilled
  BY OpeningsAssumption DEF Init, RowsFilled
<1>3. \A t \in Txs : tx[t] = Tx0 /\ tx[t].at = "idle" /\ tx[t].session = NoId
  BY DEF Init, Tx0
<1>4. \A t \in Txs : Inv(t)
  <2> TAKE t \in Txs
  <2>1. (\A s \in Ids : owner[s] # t) /\ (\A n \in Numbers : lock[n] # t)
    BY SessionTxAssumption DEF Init
  <2>2. ~ Creates(t) /\ ~ Writes(t)
    BY <1>3 DEF Creates, Writes
  <2> QED
    BY <1>3, <2>1, <2>2 DEF Inv, Rest, Creator, Promoter, Fresh, Writer, Ordered, Covered, Ends
<1>5. \A t, u \in Txs : Crossing(t, u)
  BY <1>3 DEF Crossing, Ends, Writes
<1>6. OwnSessions
  BY <1>3 DEF OwnSessions
<1>7. StampedUnlessCrossed
  BY DEF Init, StampedUnlessCrossed
<1> QED
  BY <1>1, <1>2, <1>4, <1>5, <1>6, <1>7 DEF IInv

LEMMA StillInv ==
    ASSUME IInv, UNCHANGED vars
    PROVE  IInv'
<1>1. UNCHANGED <<row, dirty, owner, lock, stamped, crossed, tx>>
  BY DEF vars
<1>2. TypeOK' /\ RowsFilled' /\ OwnSessions' /\ StampedUnlessCrossed'
  BY <1>1 DEF IInv, TypeOK, RowsFilled, OwnSessions, StampedUnlessCrossed, ActiveOn
<1>3. \A t \in Txs : Beside(t)
  BY <1>1, StillBeside DEF IInv, Inv
<1>4. \A t \in Txs : Inv(t)'
  BY <1>3, BesideKeeps DEF IInv
<1>5. \A t, u \in Txs : Crossing(t, u)'
  BY <1>1 DEF IInv, Crossing, Ends, Writes, Counted
<1> QED
  BY <1>2, <1>4, <1>5 DEF IInv

LEMMA Inductive == Spec => []IInv
<1>1. IInv /\ [Next]_vars => IInv'
  <2> SUFFICES ASSUME IInv, [Next]_vars PROVE IInv'
    OBVIOUS
  <2>1. CASE Next
    BY <2>1, NextTyped, NextInv, NextRowsFilled, NextCrossing, NextOwnSessions, NextStamped
    DEF IInv
  <2>2. CASE UNCHANGED vars
    BY <2>2, StillInv
  <2> QED
    BY <2>1, <2>2
<1> QED
  BY <1>1, InitInv, PTL DEF Spec

-----------------------------------------------------------------------------
(* Theorems                                                                *)

(* The variables keep their types.                                         *)
THEOREM TypeCorrect == Spec => []TypeOK
<1>1. IInv => TypeOK
  BY DEF IInv
<1> QED
  BY <1>1, Inductive, PTL

(* released_at of an idle number covers the last end on it, unless two     *)
(* transactions ended sessions of the number at the same time              *)
(* (_mark_number_released).                                                *)
THEOREM StampedCorrectly == Spec => []StampedUnlessCrossed
<1>1. IInv => StampedUnlessCrossed
  BY DEF IInv
<1> QED
  BY <1>1, Inductive, PTL

-----------------------------------------------------------------------------
(* What is committed is what Ledger promises                               *)

LEMMA SameRow ==
    ASSUME NEW r \in Promise!Rows, NEW w \in Promise!Rows
    PROVE  /\ /\ w.number = r.number /\ w.parties = r.parties /\ w.code = r.code
              /\ w.life = r.life
              => w = [r EXCEPT !.status = w.status]
           /\ /\ w.number = r.number /\ w.parties = r.parties /\ w.code = r.code
              /\ w.status = r.status
              => w = [r EXCEPT !.life = w.life]
           /\ /\ w.number = r.number /\ w.parties = r.parties /\ w.status = r.status
              /\ w.life = r.life
              => w = [r EXCEPT !.code = w.code] /\ (w.code = r.code => w = r)
  BY DEF Promise!Rows

LEMMA CommitRows ==
    ASSUME TypeOK, NEW u \in Txs, Commit(u)
    PROVE  /\ row' \in [Ids -> Promise!Rows]
           /\ \A s \in Ids : row'[s] = IF owner[s] = u THEN dirty[s] ELSE row[s]
  BY DEF Commit, TypeOK

(* A creation                                                              *)
LEMMA CommitCreates ==
    ASSUME IInv, NEW u \in Txs, Commit(u), Creates(u)
    PROVE  Promise!Create(tx[u].session)
<1> DEFINE own == tx[u].session
           n == tx[u].number
           touched == Promise!Promoted(own) \cup {own}
<1>1. /\ TypeOK /\ Inv(u) /\ tx[u].at = "commit" /\ row' \in [Ids -> Promise!Rows]
      /\ \A s \in Ids : row'[s] = IF owner[s] = u THEN dirty[s] ELSE row[s]
  BY CommitRows DEF IInv, Commit
<1>2. /\ own \in Ids /\ row[own].status = "none" /\ owner[own] = u
      /\ n \in Numbers /\ dirty[own].status = "active" /\ dirty[own].number = n
      /\ row'[own] = dirty[own]
  BY <1>1 DEF Inv, Creator
<1>3. ASSUME NEW x \in Ids, owner[x] = u, x # own
      PROVE  /\ row[x].status = "active" /\ row[x].code = NoCode
             /\ dirty[x].status = "active" /\ dirty[x].number = row[x].number
             /\ dirty[x].parties = row[x].parties
             /\ dirty[x].life = row[x].life /\ row'[x] = dirty[x]
  BY <1>1, <1>3 DEF Inv, Creator
<1>4. \A x \in Promise!Promoted(own) : x \in Ids /\ x # own /\ owner[x] = u
  BY <1>1 DEF Promise!Promoted
<1>5. \A x \in touched : x \in Ids /\ owner[x] = u /\ row'[x] = dirty[x] /\ dirty[x].status = "active"
  BY <1>2, <1>3, <1>4
<1> HIDE DEF own, n, touched
<1>6. ASSUME NEW x \in Promise!Promoted(own)
      PROVE  /\ row[x].status = "active" /\ row[x].code = NoCode
             /\ row'[x].code \in Codes
             /\ row'[x] = [row[x] EXCEPT !.code = row'[x].code]
  <2>1. x \in Ids /\ row'[x] # row[x] /\ row'[x] = dirty[x]
    BY <1>3, <1>4 DEF Promise!Promoted
  <2>2. row[x] \in Promise!Rows /\ dirty[x] \in Promise!Rows /\ row'[x] \in Promise!Rows
    BY <1>1, <2>1, RowTyped
  <2>3. /\ row'[x].number = row[x].number /\ row'[x].parties = row[x].parties
        /\ row'[x].status = row[x].status /\ row'[x].life = row[x].life
        /\ row[x].status = "active" /\ row[x].code = NoCode
    BY <1>3, <1>4, <2>1
  <2>4. row'[x] = [row[x] EXCEPT !.code = row'[x].code] /\ row'[x].code # NoCode
    BY <2>1, <2>2, <2>3, SameRow
  <2>5. row'[x].code \in Codes
    BY <2>2, <2>4 DEF Promise!Rows
  <2> QED
    BY <2>3, <2>4, <2>5
<1>7. ASSUME NEW x \in touched, row'[x].code # NoCode,
             NEW y \in Ids, y # x, SeenOn(u, y, row'[x].number)
      PROVE  Seen(u, y).code # row'[x].code
  <2>1. x \in Ids /\ owner[x] = u /\ row'[x] = dirty[x]
    BY <1>5
  <2>2. dirty[x].code # NoCode /\ SeenOn(u, y, dirty[x].number)
    BY <1>7, <2>1
  <2> QED
    BY <1>1, <1>7, <2>1, <2>2 DEF Inv, Fresh
<1>8. ASSUME NEW x \in touched, row'[x].code # NoCode
      PROVE  /\ row'[x].code \notin Promise!CodesOn(row, row'[x].number)
             /\ \A y \in touched \ {x} :
                    row'[y].number = row'[x].number => row'[y].code # row'[x].code
  <2>1. ASSUME NEW y \in Ids, row[y].status = "active", row[y].number = row'[x].number,
               row[y].code = row'[x].code
        PROVE  FALSE
    <3>1. y # own
      BY <1>2, <2>1
    <3>2. owner[y] # u
      BY <1>3, <1>8, <2>1, <3>1
    <3>3. y # x
      BY <1>5, <3>2
    <3>4. SeenOn(u, y, row'[x].number) /\ Seen(u, y).code = row'[x].code
      BY <2>1, <3>2 DEF SeenOn, Seen
    <3> QED
      BY <1>7, <1>8, <3>3, <3>4
  <2>2. row'[x].code \notin Promise!CodesOn(row, row'[x].number)
    BY <2>1 DEF Promise!CodesOn, Promise!ActiveOn
  <2>3. ASSUME NEW y \in touched \ {x}, row'[y].number = row'[x].number
        PROVE  row'[y].code # row'[x].code
    <3>1. y \in Ids /\ Seen(u, y) = row'[y] /\ row'[y].status = "active"
      BY <1>5 DEF Seen
    <3>2. SeenOn(u, y, row'[x].number)
      BY <2>3, <3>1 DEF SeenOn
    <3> QED
      BY <1>7, <1>8, <3>1, <3>2
  <2> QED
    BY <2>2, <2>3
<1>9. ASSUME row'[own].code = NoCode, NEW x \in Promise!ActiveOn(row, row'[own].number),
             row'[x].code = NoCode
      PROVE  row[x].parties \cap row'[own].parties = {}
  <2>1. x \in Ids /\ x # own /\ row[x].status = "active" /\ row[x].number = n
    BY <1>2 DEF Promise!ActiveOn
  <2>2. SeenOn(u, x, n) /\ Seen(u, x).code = NoCode /\ Seen(u, x).parties = row[x].parties
    <3>1. CASE owner[x] = u
      BY <1>3, <1>9, <2>1, <3>1 DEF SeenOn, Seen
    <3>2. CASE owner[x] # u
      BY <1>1, <1>9, <2>1, <3>2 DEF SeenOn, Seen
    <3> QED
      BY <3>1, <3>2
  <2> QED
    BY <1>1, <1>2, <1>9, <2>1, <2>2 DEF Inv, Fresh, own, n
<1>10. row'[own].status = "active" /\ row'[own].number \in Numbers
  BY <1>2
<1> QED
  BY <1>1, <1>2, <1>6, <1>8, <1>9, <1>10 DEF Promise!Create, touched, own

(* A close or a sweep                                                      *)
LEMMA CommitEnds ==
    ASSUME IInv, NEW u \in Txs, Commit(u), Ends(u)
    PROVE  \E terminal \in {"closed", "expired"} : Promise!End(terminal)
<1> DEFINE batch == {s \in Ids : owner[s] = u}
           terminal == IF tx[u].job = "close" THEN "closed" ELSE "expired"
<1>1. /\ TypeOK /\ Inv(u) /\ row' \in [Ids -> Promise!Rows]
      /\ \A s \in Ids : row'[s] = IF owner[s] = u THEN dirty[s] ELSE row[s]
  BY CommitRows DEF IInv
<1>2. ASSUME NEW s \in batch
      PROVE  row[s].status # "none" /\ dirty[s] = [row[s] EXCEPT !.status = terminal]
  <2>1. s \in Ids /\ row[s] \in Promise!Rows /\ dirty[s] \in Promise!Rows
    BY <1>1, RowTyped
  <2>2. /\ row[s].status # "none"
        /\ dirty[s].number = row[s].number /\ dirty[s].parties = row[s].parties
        /\ dirty[s].code = row[s].code /\ dirty[s].life = row[s].life
        /\ dirty[s].status = terminal
    BY <1>1 DEF Inv, Writer, Overwrites, Ends
  <2> HIDE DEF terminal
  <2> QED
    BY <2>1, <2>2, SameRow
<1>3. terminal \in {"closed", "expired"}
  OBVIOUS
<1> HIDE DEF terminal
<1>4. row' = [s \in Ids |-> IF s \in batch THEN [row[s] EXCEPT !.status = terminal] ELSE row[s]]
  BY <1>1, <1>2
<1>5. batch \in SUBSET Ids /\ \A s \in batch : row[s].status # "none"
  BY <1>2
<1> HIDE DEF batch
<1>6. Promise!End(terminal)
  BY <1>4, <1>5, Zenon DEF Promise!End
<1> QED
  BY <1>3, <1>6

(* An extension, of a session or of none                                   *)
LEMMA CommitExtends ==
    ASSUME IInv, NEW u \in Txs, Commit(u), Writes(u), tx[u].job = "extend"
    PROVE  (\E s \in Ids : Promise!Live(s, "extended")) \/ row' = row
<1>1. /\ TypeOK /\ Inv(u) /\ row' \in [Ids -> Promise!Rows] /\ row \in [Ids -> Promise!Rows]
      /\ \A s \in Ids : row'[s] = IF owner[s] = u THEN dirty[s] ELSE row[s]
  BY CommitRows DEF IInv, TypeOK
<1>2. CASE \A s \in Ids : owner[s] # u
  BY <1>1, <1>2
<1>3. ASSUME NEW s \in Ids, owner[s] = u
      PROVE  Promise!Live(s, "extended")
  <2>1. row[s] \in Promise!Rows /\ dirty[s] \in Promise!Rows
    BY <1>1, RowTyped
  <2>2. /\ row[s].status # "none"
        /\ dirty[s].number = row[s].number /\ dirty[s].parties = row[s].parties
        /\ dirty[s].code = row[s].code /\ dirty[s].status = row[s].status
        /\ dirty[s].life = "extended"
    BY <1>1, <1>3 DEF Inv, Writer, Overwrites
  <2>3. dirty[s] = [row[s] EXCEPT !.life = "extended"]
    BY <2>1, <2>2, SameRow
  <2>4. \A x \in Ids \ {s} : row'[x] = row[x]
    BY <1>1, <1>3 DEF Inv, Writer
  <2>5. row'[s] = [row[s] EXCEPT !.life = "extended"]
    BY <1>1, <1>3, <2>3
  <2>6. row' = [row EXCEPT ![s].life = "extended"]
    BY <1>1, <2>4, <2>5
  <2> QED
    BY <2>2, <2>6 DEF Promise!Live
<1> QED
  BY <1>2, <1>3

LEMMA StepKeeps ==
    ASSUME IInv, [Next]_vars
    PROVE  [Promise!Next]_row
<1>1. ASSUME NEW u \in Txs, Commit(u)
      PROVE  Promise!Next \/ row' = row
  <2>1. Inv(u) /\ tx[u].at = "commit" /\ TypeOK
    BY <1>1 DEF IInv, Commit
  <2>2. CASE Creates(u)
    <3>1. tx[u].session \in Ids
      BY <2>1, <2>2 DEF Inv, Creator
    <3> QED
      BY <1>1, <2>2, <3>1, CommitCreates DEF Promise!Next
  <2>3. CASE Ends(u)
    BY <1>1, <2>3, CommitEnds DEF Promise!Next
  <2>4. CASE Writes(u) /\ tx[u].job = "extend"
    BY <1>1, <2>4, CommitExtends DEF Promise!Next
  <2> QED
    BY <2>1, <2>2, <2>3, <2>4, Phases DEF Ends
<1>2. ASSUME NEW s \in Ids, PassExpiry(s)
      PROVE  Promise!Next
  BY <1>2 DEF PassExpiry, Promise!Next, Promise!Live
<1>3. ASSUME NEW u \in Txs, Begin(u) \/ CreationStep(u) \/ UpdateStep(u) \/ Abort(u)
      PROVE  row' = row
  BY <1>3, NothingCommitted, Zenon DEF IInv
<1>4. CASE Next
  BY <1>1, <1>2, <1>3, <1>4, Steps3, Zenon
<1>5. CASE UNCHANGED vars
  BY <1>5 DEF vars
<1> QED
  BY <1>4, <1>5

(* However transactions cross, what is committed is what Ledger allows: a  *)
(* PIN that is given is fresh on its number, and goes to a session that is *)
(* still active and has none; no subscriber gets a second session without  *)
(* one; and a session that ended is not revived (create_session,           *)
(* close_session, extend_session, expire_due_sessions).                    *)
THEOREM ImplementsLedger == Spec => KeepsLedger
<1>1. Init => Promise!Init
  BY OpeningsAssumption DEF Init, Promise!Init
<1>2. IInv /\ [Next]_vars => [Promise!Next]_row
  BY StepKeeps
<1> QED
  BY <1>1, <1>2, Inductive, PTL DEF Spec, KeepsLedger, Promise!Spec

(* Ledger as SessionTx and as LedgerProofs have it                         *)
LEMMA SameLedger == Spec => Contract!Spec
<1>1. Promise!Init => Contract!Init
  BY DEF Promise!Init, Promise!Rows, Promise!CodesDistinctIn, Promise!OneDirectIn, Promise!ActiveOn,
         Contract!Init, Contract!Rows, Contract!CodesDistinctIn, Contract!OneDirectIn,
         Contract!ActiveOn
<1>2. [Promise!Next]_row => [Contract!Next]_row
  <2>1. \A s \in Ids : Promise!Create(s) => Contract!Create(s)
    BY DEF Promise!Create, Promise!Promoted, Promise!Rows, Promise!CodesOn, Promise!ActiveOn,
           Contract!Create, Contract!Promoted, Contract!Rows, Contract!CodesOn, Contract!ActiveOn
  <2>2. \A terminal : Promise!End(terminal) => Contract!End(terminal)
    BY Zenon DEF Promise!End, Contract!End
  <2>3. \A s, life : Promise!Live(s, life) => Contract!Live(s, life)
    BY Zenon DEF Promise!Live, Contract!Live
  <2>4. Promise!Purge => Contract!Purge
    BY Zenon DEF Promise!Purge, Promise!NoRow, Contract!Purge, Contract!NoRow
  <2> QED
    BY <2>1, <2>2, <2>3, <2>4, Zenon DEF Promise!Next, Contract!Next
<1> QED
  BY <1>1, <1>2, ImplementsLedger, PTL DEF KeepsLedger, Promise!Spec, Contract!Spec

(* A PIN names one session of its number at any time, whatever crossed     *)
(* (uniq_active_ext_code_per_number).                                      *)
THEOREM PinsStayDistinct ==
    ASSUME NoCode \notin Codes
    PROVE  Spec => []Promise!CodesDistinctIn(row)
<1>1. Contract!CodesDistinctIn(row) => Promise!CodesDistinctIn(row)
  BY DEF Contract!CodesDistinctIn, Contract!ActiveOn, Promise!CodesDistinctIn, Promise!ActiveOn
<1> QED
  BY <1>1, SameLedger, Contract!CodesStayDistinct, PTL

(* A subscriber has one session without a PIN per number at most           *)
(* (uniq_active_party_per_number).                                         *)
THEOREM OneStaysDirect ==
    ASSUME NoCode \notin Codes
    PROVE  Spec => []Promise!OneDirectIn(row)
<1>1. Contract!OneDirectIn(row) => Promise!OneDirectIn(row)
  BY DEF Contract!OneDirectIn, Contract!ActiveOn, Promise!OneDirectIn, Promise!ActiveOn
<1> QED
  BY <1>1, SameLedger, Contract!OneStaysDirect, PTL

(* A PIN that was told stays with its session, though two creations on one *)
(* number may both mean to promote it.                                     *)
THEOREM PinsStay ==
    ASSUME NoCode \notin Codes
    PROVE  Spec => Promise!PinsKept
  BY SameLedger, Contract!PinsStay, PTL DEF Promise!PinsKept, Contract!PinsKept

(* A session that ended is not active again, though a close, an extension  *)
(* or a sweep may write a row read before it ended.                        *)
THEOREM EndsStayFinal ==
    ASSUME NoCode \notin Codes
    PROVE  Spec => Promise!EndsFinal
  BY SameLedger, Contract!EndsStayFinal, PTL DEF Promise!EndsFinal, Contract!EndsFinal

-----------------------------------------------------------------------------
(* Deadlocks                                                               *)

(* Who is waited for holds what is waited for.                             *)
LEMMA WaitsForHolders ==
    ASSUME TypeOK, NEW v \in Txs, Inv(v), NEW w \in Waits(v)
    PROVE  /\ w \in Txs
           /\ (\E s \in Ids : owner[s] = w) \/ (\E n \in Numbers : lock[n] = w)
<1>1. w # Nobody /\ (w \in WaitsForRow(v) \/ (tx[v].at = "stamp" /\ w = lock[tx[v].number]))
  BY DEF Waits
<1>2. CASE tx[v].at = "stamp" /\ w = lock[tx[v].number]
  <2>1. tx[v].number \in Numbers
    BY <1>2 DEF Inv, Writer, Writes
  <2> QED
    BY <1>1, <1>2, <2>1 DEF TypeOK
<1>3. ASSUME NEW S \in SUBSET Ids, S # {}, w = owner[First(S)]
      PROVE  w \in Txs /\ \E s \in Ids : owner[s] = w
  <2>1. First(S) \in Ids
    BY <1>3, FirstOf, SessionTxAssumption
  <2> QED
    BY <1>1, <1>3, <2>1 DEF TypeOK
<1>4. CASE tx[v].at = "promote" /\ w \in WaitsForRow(v)
  BY <1>3, <1>4, TxTyped DEF WaitsForRow
<1>5. CASE tx[v].at = "update" /\ w \in WaitsForRow(v)
  <2>1. tx[v].todo # {} /\ w = owner[First(tx[v].todo)]
    BY <1>5 DEF Inv, Writer, Writes, WaitsForRow, NextWritten
  <2> QED
    BY <1>3, <2>1, TxTyped
<1>6. CASE tx[v].at = "insert" /\ w \in WaitsForRow(v)
  <2>1. PICK s \in Ids : w = owner[s]
    BY <1>6 DEF WaitsForRow, Undecided
  <2> QED
    BY <1>1, <2>1 DEF TypeOK
<1> QED
  BY <1>1, <1>2, <1>4, <1>5, <1>6 DEF WaitsForRow

(* Those a transaction waits for wait for each other only...               *)
LEMMA AwaitedClosed ==
    ASSUME TypeOK, \A u \in Txs : Inv(u), NEW t \in Txs
    PROVE  Awaited(t) \in SUBSET Txs /\ WaitsWithin(t, Awaited(t))
<1>1. Awaited(t) \in SUBSET Txs
  BY DEF Awaited
<1>2. Waits(t) \subseteq Awaited(t)
  BY WaitsForHolders DEF Awaited, WaitsWithin
<1>3. ASSUME NEW v \in Awaited(t), NEW w \in Waits(v)
      PROVE  w \in Awaited(t)
  <2>1. v \in Txs /\ \A S \in SUBSET Txs : WaitsWithin(t, S) => v \in S
    BY DEF Awaited
  <2>2. w \in Txs
    BY <2>1, WaitsForHolders
  <2>3. \A S \in SUBSET Txs : WaitsWithin(t, S) => w \in S
    BY <2>1 DEF WaitsWithin
  <2> QED
    BY <2>2, <2>3 DEF Awaited
<1> QED
  BY <1>1, <1>2, <1>3 DEF WaitsWithin

(* ... and there is no fewer of whom that can be said.                     *)
LEMMA AwaitedLeast ==
    ASSUME NEW t \in Txs, NEW S \in SUBSET Txs, WaitsWithin(t, S)
    PROVE  Awaited(t) \subseteq S
  BY DEF Awaited

(* Who waits for one only is rid of the others when that one is.           *)
LEMMA Follow ==
    ASSUME TypeOK, \A u \in Txs : Inv(u), NEW v \in Txs, NEW w \in Txs, Waits(v) \subseteq {w}
    PROVE  Awaited(v) \subseteq {w} \cup Awaited(w)
<1>1. Awaited(w) \in SUBSET Txs /\ WaitsWithin(w, Awaited(w))
  BY AwaitedClosed
<1>2. {w} \cup Awaited(w) \in SUBSET Txs
  BY <1>1
<1>3. WaitsWithin(v, {w} \cup Awaited(w))
  BY <1>1 DEF WaitsWithin
<1> QED
  BY <1>2, <1>3, AwaitedLeast

(* What a transaction that writes sessions waits for                       *)
LEMMA WriterWaits ==
    ASSUME NEW v \in Txs, Writes(v)
    PROVE  /\ tx[v].at = "update" => Waits(v) \subseteq {owner[First(tx[v].todo)]}
           /\ tx[v].at = "stamp" => Waits(v) \subseteq {lock[tx[v].number]}
           /\ tx[v].at \notin {"update", "stamp"} => Waits(v) = {}
<1>1. CASE tx[v].at = "update"
  BY <1>1 DEF Waits, WaitsForRow, NextWritten
<1>2. CASE tx[v].at = "stamp"
  BY <1>2 DEF Waits, WaitsForRow
<1>3. CASE tx[v].at \notin {"update", "stamp"}
  BY <1>3 DEF Waits, WaitsForRow, Writes
<1> QED
  BY <1>1, <1>2, <1>3

LEMMA DeadlocksAreKnown ==
    ASSUME IInv
    PROVE  DeadlocksKnown
<1> SUFFICES ASSUME NEW t \in Txs, Deadlocked(t), \A u \in Awaited(t) : tx[u].job # "create"
             PROVE  \A u \in Awaited(t) : /\ tx[u].job = "sweep" /\ tx[u].at = "stamp"
                                          /\ \E n \in Numbers : lock[n] = u
  BY DEF DeadlocksKnown
<1> DEFINE A == Awaited(t)
<1>1. TypeOK /\ \A u \in Txs : Inv(u)
  BY DEF IInv
<1>2. A \in SUBSET Txs /\ t \in A /\ WaitsWithin(t, A)
  BY <1>1, AwaitedClosed DEF Deadlocked
<1>3. ASSUME NEW S \in SUBSET A, \A v \in {t} \cup S : Waits(v) \subseteq S
      PROVE  A \subseteq S
  BY <1>2, <1>3, AwaitedLeast DEF WaitsWithin
<1>4. \A v \in A : v \in Txs /\ Inv(v) /\ Waits(v) \subseteq A /\ tx[v].job # "create"
  BY <1>1, <1>2 DEF WaitsWithin
<1> HIDE DEF A
<1>5. \A v \in A : Writes(v)
  <2> DEFINE S == {v \in A : \/ \E s \in Ids : owner[s] = v
                             \/ \E n \in Numbers : lock[n] = v}
  <2>1. \A v \in A : \A w \in Waits(v) : w \in S
    BY <1>1, <1>4, WaitsForHolders
  <2>2. S \in SUBSET A /\ \A v \in {t} \cup S : Waits(v) \subseteq S
    BY <1>2, <2>1
  <2>3. A \subseteq S
    BY <1>3, <2>2
  <2>4. ASSUME NEW v \in A
        PROVE  Writes(v)
    <3>1. v \in Txs /\ tx[v].at \notin {"idle", "committed", "aborted"}
      BY <1>4, <2>3 DEF Inv, Rest
    <3>2. ~ Creates(v)
      BY <1>4 DEF Inv, Creator
    <3> QED
      BY <1>1, <3>1, <3>2, Phases
  <2> QED
    BY <2>4
(* who holds a number writes no session any more *)
<1>6. ASSUME NEW v \in A, tx[v].at = "stamp", NEW w \in Waits(v)
      PROVE  /\ w \in A /\ tx[w].at # "update"
             /\ \E n \in Numbers : lock[n] = w
  <2>1. tx[v].number \in Numbers /\ w = lock[tx[v].number] /\ w \in A
    BY <1>4, <1>5, <1>6, WriterWaits DEF Inv, Writer
  <2> QED
    BY <1>4, <1>5, <2>1 DEF Inv, Ordered
(* who waits for a session has written earlier ones only *)
<1>7. ASSUME NEW v \in A, tx[v].at = "update", NEW w \in Waits(v), tx[w].at = "update"
      PROVE  First(tx[v].todo) < First(tx[w].todo)
  <2>1. /\ tx[v].todo # {} /\ tx[v].todo \subseteq Ids /\ w = owner[First(tx[v].todo)]
    BY <1>1, <1>4, <1>5, <1>7, WriterWaits, TxTyped DEF Inv, Writer
  <2>2. w \in A /\ tx[w].todo # {} /\ tx[w].todo \subseteq Ids
    BY <1>1, <1>4, <1>5, <1>7, TxTyped DEF Inv, Writer
  <2>3. First(tx[v].todo) \in Ids /\ First(tx[w].todo) \in tx[w].todo
    BY <2>1, <2>2, FirstOf, SessionTxAssumption
  <2> QED
    BY <1>4, <1>5, <1>7, <2>1, <2>2, <2>3 DEF Inv, Ordered
<1>8. \A v \in A : tx[v].at = "update" => First(tx[v].todo) \in Nat
  <2> SUFFICES ASSUME NEW v \in A, tx[v].at = "update" PROVE First(tx[v].todo) \in Nat
    OBVIOUS
  <2>1. tx[v].todo # {} /\ tx[v].todo \subseteq Nat
    BY <1>1, <1>4, <1>5, TxTyped, SessionTxAssumption DEF Inv, Writer
  <2> QED
    BY <2>1, FirstOf
<1>9. \A v \in A : tx[v].at \notin {"update", "stamp"} => Waits(v) = {}
  BY <1>4, <1>5, WriterWaits
<1>10. tx[t].at # "update"
  <2> SUFFICES ASSUME tx[t].at = "update" PROVE FALSE
    OBVIOUS
  <2> DEFINE S == {v \in A : tx[v].at = "update" => First(tx[t].todo) < First(tx[v].todo)}
  <2>1. ASSUME NEW v \in {t} \cup S, NEW w \in Waits(v)
        PROVE  w \in S
    <3>1. v \in A /\ w \in A
      BY <1>2, <1>4
    <3>2. CASE tx[v].at = "update" /\ tx[w].at = "update"
      BY <1>2, <1>7, <1>8, <2>1, <3>1, <3>2
    <3>3. CASE tx[w].at # "update"
      BY <3>1, <3>3
    <3> QED
      BY <1>6, <1>9, <3>1, <3>2, <3>3
  <2>2. A \subseteq S
    BY <1>3, <2>1
  <2> QED
    BY <1>2, <1>8, <2>2
<1>11. \A v \in A : tx[v].at # "update"
  <2> DEFINE S == {v \in A : tx[v].at # "update"}
  <2>1. \A v \in {t} \cup S : Waits(v) \subseteq S
    BY <1>2, <1>6, <1>9, <1>10
  <2> QED
    BY <1>3, <2>1
<1>12. \A u \in A : \E n \in Numbers : lock[n] = u
  <2> DEFINE S == {v \in A : \E n \in Numbers : lock[n] = v}
  <2>1. \A v \in {t} \cup S : Waits(v) \subseteq S
    BY <1>2, <1>6, <1>9, <1>11
  <2>2. S \in SUBSET A
    OBVIOUS
  <2>3. A \subseteq S
    BY <1>3, <2>1, <2>2
  <2> QED
    BY <2>3
(* each waits for one, and so all of them are on the way back to t *)
<1>13. \A u \in A : tx[u].at = "stamp"
  <2> DEFINE S == {v \in A : v = t \/ t \in Awaited(v)}
  <2>1. ASSUME NEW v \in {t} \cup S, NEW w \in Waits(v)
        PROVE  w \in S
    <3>1. v \in A /\ w \in A /\ t \in Awaited(v)
      BY <1>2, <1>4 DEF A
    <3>2. Waits(v) \subseteq {w}
      BY <1>4, <1>5, <1>9, <1>11, <3>1, <2>1, WriterWaits
    <3>3. t = w \/ t \in Awaited(w)
      BY <1>1, <1>4, <3>1, <3>2, Follow
    <3> QED
      BY <3>1, <3>3
  <2>2. A \subseteq S
    BY <1>3, <2>1
  <2>3. ASSUME NEW u \in A, tx[u].at # "stamp"
        PROVE  FALSE
    <3>1. u \in Txs /\ WaitsWithin(u, {})
      BY <1>4, <1>9, <1>11, <2>3 DEF WaitsWithin
    <3>2. Awaited(u) = {}
      BY <3>1, AwaitedLeast
    <3> QED
      BY <1>2, <2>2, <3>2 DEF A
  <2> QED
    BY <2>3
<1>14. \A u \in A : tx[u].job = "sweep"
  BY <1>4, <1>5, <1>12, <1>13 DEF Inv, Writer, Ordered
<1> QED
  BY <1>12, <1>13, <1>14 DEF A

(* Transactions wait for each other in a circle only with a creation among *)
(* them, or as sweeps that each stamped one number and go on to the next   *)
(* (_mark_number_released in expire_due_sessions).                         *)
THEOREM DeadlocksStayKnown == Spec => []DeadlocksKnown
<1>1. IInv => DeadlocksKnown
  BY DeadlocksAreKnown
<1> QED
  BY <1>1, Inductive, PTL

=============================================================================
