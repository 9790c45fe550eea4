------------------------------ MODULE Sessions ------------------------------
(***************************************************************************)
(* Masking sessions and the pool of proxy numbers                          *)
(* (services/sessions.py, services/allocation.py, services/numbers.py,     *)
(* background.py, the tables of db/models.py and the trigger of            *)
(* db/triggers.py).                                                        *)
(*                                                                         *)
(* One action is one committed database transaction, except that a         *)
(* creation that has to share a number first queries the candidates and    *)
(* goes on with what it read, whatever commits meanwhile.  A transaction   *)
(* that raises rolls back and changes nothing.  The others in flight are   *)
(* seen through the number rows they hold locked: the set `locked' of a    *)
(* statement, which SKIP LOCKED passes over.                               *)
(*                                                                         *)
(* An operator whose comment begins with `Fault:' is no part of the model: *)
(* it is the definition after it with a mistake, which a property of this  *)
(* module must notice.                                                     *)
(***************************************************************************)
EXTENDS Integers, FiniteSets

CONSTANTS
    Numbers,        \* ids of the proxy numbers, ordered as the primary key
    Parties,        \* hashes of real subscriber numbers
    Ids,            \* session ids
    Codes,          \* the PINs ext_code_length allows
    NoNumber,       \* number_id of a row that is not there
    NoCode,         \* ext_code IS NULL
    Never,          \* a timestamp column that IS NULL
    ExtCodeMode,    \* settings.ext_code_mode
    CooldownScope,  \* settings.cooldown_scope
    Cooldown,       \* settings.number_cooldown_hours
    Retention,      \* settings.closed_session_retention_days
    MaxTtl,         \* settings.max_ttl_seconds
    MaxPerNumber,   \* settings.ext_code_max_per_number
    SweepLimit,     \* _EXPIRY_SWEEP_LIMIT
    Instants        \* bound: the instants the clock and explicit expiries take

ASSUME ConstantsAssumption ==
    /\ Numbers \subseteq Nat
    /\ NoNumber \notin Numbers
    /\ NoCode \notin Codes
    /\ Never \notin Nat
    /\ ExtCodeMode \in {"auto", "always", "never"}
    /\ CooldownScope \in {"number", "party"}
    /\ IsFiniteSet(Ids)
    /\ Cooldown \in Nat
    /\ Retention \in Nat
    /\ MaxTtl \in Nat \ {0}
    /\ MaxPerNumber \in Nat
    /\ SweepLimit \in Nat \ {0}
    /\ Instants \subseteq Nat
    /\ 0 \in Instants

VARIABLES
    now,          \* the database clock
    pool,         \* numbers.status, "absent" before the number is added
    released_at,  \* numbers.released_at
    status,       \* sessions.status, "none" where no row exists
    number_id,    \* sessions.number_id
    parties,      \* the hashes of the two session_parties rows
    ext_code,     \* sessions.ext_code
    expires_at,   \* sessions.expires_at
    closed_at,    \* sessions.closed_at
    ended,        \* history: when a session of a party last ended on a number
    looked        \* the candidates a creation about to share a number queried

vars == <<now, pool, released_at, status, number_id, parties, ext_code,
          expires_at, closed_at, ended, looked>>

Pairs == {pair \in SUBSET Parties : Cardinality(pair) = 2}

(* The pair, and each candidate's active_count; a number that was full or  *)
(* no candidate counts MaxPerNumber, at which the loop passes it over.     *)
(* History: the numbers that got another session since the query, and the  *)
(* parties who left a number since.                                        *)
Lookups == [pair : SUBSET Parties, count : [Numbers -> 0..MaxPerNumber],
            filled : SUBSET Numbers, left : SUBSET (Numbers \X Parties)]

NoLookup == [pair |-> {}, count |-> [n \in Numbers |-> MaxPerNumber],
             filled |-> {}, left |-> {}]

TypeOK ==
    /\ now \in Nat
    /\ pool \in [Numbers -> {"absent", "enabled", "disabled"}]
    /\ released_at \in [Numbers -> Nat \cup {Never}]
    /\ status \in [Ids -> {"none", "active", "closed", "expired"}]
    /\ number_id \in [Ids -> Numbers \cup {NoNumber}]
    /\ parties \in [Ids -> SUBSET Parties]
    /\ ext_code \in [Ids -> Codes \cup {NoCode}]
    /\ expires_at \in [Ids -> Nat]
    /\ closed_at \in [Ids -> Nat \cup {Never}]
    /\ ended \in [Numbers -> [Parties -> Nat \cup {Never}]]
    /\ looked \in [Ids -> Lookups]

-----------------------------------------------------------------------------
(* What the queries see.                                                   *)

ActiveOn(n) == {s \in Ids : status[s] = "active" /\ number_id[s] = n}
ActiveOf(n, hashes) == {s \in ActiveOn(n) : parties[s] \cap hashes # {}}

(* Fault: PINs of sessions overdue for the sweep are taken for free        *)
UsedCodesUnexpired(n) ==
    {ext_code[s] : s \in {x \in ActiveOn(n) : expires_at[x] > now}} \ {NoCode}

UsedCodes(n) == {ext_code[s] : s \in ActiveOn(n)} \ {NoCode}

(* Fault: the number is free again in the instant its cooldown ends        *)
RestedAtEdge(n) ==
    \/ CooldownScope # "number"
    \/ released_at[n] = Never
    \/ released_at[n] <= now - Cooldown

(* _CANDIDATE_PREDICATE: enabled, out of the number cooldown when the      *)
(* scope asks for it, and no row of these parties left it too recently.    *)
(* closed_at stands for session_parties.released_at, its copy.             *)
Rested(n) ==
    \/ CooldownScope # "number"
    \/ released_at[n] = Never
    \/ released_at[n] < now - Cooldown

PartyCooling(n, hashes) ==
    \E s \in Ids :
        /\ status[s] \in {"closed", "expired"}
        /\ number_id[s] = n
        /\ parties[s] \cap hashes # {}
        /\ closed_at[s] > now - Cooldown

Candidate(n, hashes) ==
    pool[n] = "enabled" /\ Rested(n) /\ ~PartyCooling(n, hashes)

ConflictFree(hashes) ==
    {n \in Numbers : Candidate(n, hashes) /\ ActiveOf(n, hashes) = {}}

(* ORDER BY released_at NULLS FIRST, id                                    *)
ReleasedBefore(m, n) ==
    \/ released_at[m] = Never /\ released_at[n] # Never
    \/ released_at[m] = released_at[n] /\ m < n
    \/ /\ released_at[m] # Never /\ released_at[n] # Never
       /\ released_at[m] < released_at[n]

(* Fault: sessions overdue for the sweep are not counted                   *)
OccupancyUnexpired(n) ==
    Cardinality({s \in ActiveOn(n) : expires_at[s] > now})

Occupancy(n) == Cardinality(ActiveOn(n))

(* active_count of a candidate with room, as the query returns it          *)
CountSeen(n, pair) ==
    IF Candidate(n, pair) /\ Occupancy(n) < MaxPerNumber
    THEN Occupancy(n) ELSE MaxPerNumber

(* ORDER BY active_count, id                                               *)
EmptierThan(s, m, n) ==
    \/ looked[s].count[m] < looked[s].count[n]
    \/ looked[s].count[m] = looked[s].count[n] /\ m < n

(* Fault: only earlier sessions of this very pair are promoted             *)
ToPromotePair(n, hashes) ==
    {s \in ActiveOn(n) : parties[s] = hashes /\ ext_code[s] = NoCode}

(* Fault: sessions that have a PIN already get another                     *)
ToPromoteAll(n, hashes) == ActiveOf(n, hashes)

ToPromote(n, hashes) == {s \in ActiveOf(n, hashes) : ext_code[s] = NoCode}

-----------------------------------------------------------------------------
Init ==
    /\ now = 0
    /\ pool = [n \in Numbers |-> "absent"]
    /\ released_at = [n \in Numbers |-> Never]
    /\ status = [s \in Ids |-> "none"]
    /\ number_id = [s \in Ids |-> NoNumber]
    /\ parties = [s \in Ids |-> {}]
    /\ ext_code = [s \in Ids |-> NoCode]
    /\ expires_at = [s \in Ids |-> 0]
    /\ closed_at = [s \in Ids |-> Never]
    /\ ended = [n \in Numbers |-> [p \in Parties |-> Never]]
    /\ looked = [s \in Ids |-> NoLookup]

(* services/numbers.py: the pool grows, and a number is switched on or off *)
AddNumber(n, st) ==
    /\ pool[n] = "absent"
    /\ pool' = [pool EXCEPT ![n] = st]
    /\ UNCHANGED <<now, released_at, status, number_id, parties, ext_code,
                   expires_at, closed_at, ended, looked>>

SetNumberStatus(n, st) ==
    /\ pool[n] \notin {"absent", st}
    /\ pool' = [pool EXCEPT ![n] = st]
    /\ UNCHANGED <<now, released_at, status, number_id, parties, ext_code,
                   expires_at, closed_at, ended, looked>>

(* allocate_number has found no number free of both parties to lock, and   *)
(* queries the candidates to share.                                        *)
LookForShared(s, pair, locked) ==
    /\ ExtCodeMode # "never"
    /\ ExtCodeMode = "auto" => ConflictFree(pair) \subseteq locked
    /\ status[s] = "none" /\ looked[s] = NoLookup
    /\ looked' = [looked EXCEPT ![s] =
           [pair |-> pair, count |-> [n \in Numbers |-> CountSeen(n, pair)],
            filled |-> {}, left |-> {}]]
    /\ UNCHANGED <<now, pool, released_at, status, number_id, parties, ext_code,
                   expires_at, closed_at, ended>>

(* The candidates the loop of a creation does not pass over                *)
Triable(s) == {n \in Numbers : looked[s].count[n] < MaxPerNumber}

(* The INSERT of the session and its two party rows, together with the     *)
(* PINs `given' to sessions already there.                                 *)
Insert(s, n, pair, code, ttl, given) ==
    /\ status[s] = "none"
    /\ status' = [status EXCEPT ![s] = "active"]
    /\ number_id' = [number_id EXCEPT ![s] = n]
    /\ parties' = [parties EXCEPT ![s] = pair]
    /\ expires_at' = [expires_at EXCEPT ![s] = now + ttl]
    /\ ext_code' = [x \in Ids |-> IF x = s THEN code
                                  ELSE IF x \in DOMAIN given THEN given[x]
                                  ELSE ext_code[x]]
    /\ looked' = [x \in Ids |->
           IF x = s THEN NoLookup
           ELSE IF n \in Triable(x) THEN [looked[x] EXCEPT !.filled = @ \cup {n}]
           ELSE looked[x]]
    /\ UNCHANGED <<now, pool, released_at, closed_at, ended>>

(* allocate_number, first statement: the number longest at rest on which   *)
(* neither party has an active session.                                    *)
CreateExclusive(s, pair, ttl, locked, n) ==
    /\ ExtCodeMode # "always"
    /\ looked[s] = NoLookup
    /\ n \in ConflictFree(pair) \ locked
    /\ \A m \in ConflictFree(pair) \ (locked \cup {n}) : ReleasedBefore(n, m)
    /\ Insert(s, n, pair, NoCode, ttl, [x \in {} |-> NoCode])

(* `given' holds PINs for the sessions in done: distinct, and none in use  *)
FreshFor(n, done, given) ==
    /\ \A x \in done : given[x] \in Codes \ UsedCodes(n)
    /\ \A x, y \in done : given[x] = given[y] => x = y

(* A candidate the loop gives up on keeps the PINs already handed out on   *)
(* it.  _fresh_code draws at random, so it can fail as soon as one PIN is  *)
(* taken: for the new session, or for a session still to be promoted.      *)
Abandoned(n, pair, given) ==
    LET done == DOMAIN given \cap ToPromote(n, pair)
        left == (Codes \ UsedCodes(n)) \ {given[x] : x \in done}
    IN  /\ FreshFor(n, done, given)
        /\ \/ done = {} /\ UsedCodes(n) # {}
           \/ done # ToPromote(n, pair) /\ left # {}

(* The candidate that serves the pair has promoted every conflicting       *)
(* session and still has a PIN for the new one.                            *)
Serves(n, pair, code, given) ==
    /\ ToPromote(n, pair) \subseteq DOMAIN given
    /\ FreshFor(n, ToPromote(n, pair), given)
    /\ code \in Codes \ UsedCodes(n)
    /\ \A x \in ToPromote(n, pair) : given[x] # code

(* The candidates the loop comes to before w and can lock                  *)
Tried(s, locked, w) == {n \in Triable(s) \ locked : EmptierThan(s, n, w)}

(* The PINs given are for conflicting sessions of the candidates tried     *)
Promotions(s, locked, w) ==
    UNION {[done -> Codes] :
           done \in SUBSET UNION {ToPromote(n, looked[s].pair) :
                                  n \in Tried(s, locked, w) \cup {w}}}

(* allocate_number, the fallback: share a number and hand out PINs.  A     *)
(* candidate is locked, and its PINs are read; its count, its cooldowns    *)
(* and its being enabled stay as the query had them.                       *)
CreateShared(s, ttl, locked, w, code, given) ==
    LET pair == looked[s].pair
    IN  /\ w \in Triable(s) \ locked
        /\ \A n \in Tried(s, locked, w) : Abandoned(n, pair, given)
        /\ Serves(w, pair, code, given)
        /\ Insert(s, w, pair, code, ttl, given)

CreateSession(s, ttl, locked) ==
    \E n \in Numbers :
        \/ \E pair \in Pairs : CreateExclusive(s, pair, ttl, locked, n)
        \/ \E code \in Codes, given \in Promotions(s, locked, n) :
               CreateShared(s, ttl, locked, n, code, given)

(* The transaction raises after its query: every candidate is locked by    *)
(* others, full or out of PINs, or the flush fails.                        *)
GiveUp(s) ==
    /\ looked[s] # NoLookup
    /\ looked' = [looked EXCEPT ![s] = NoLookup]
    /\ UNCHANGED <<now, pool, released_at, status, number_id, parties, ext_code,
                   expires_at, closed_at, ended>>

(* extend_session: a lifetime from now, or an explicit expiry              *)
SetExpiry(s, e) ==
    /\ status[s] = "active"
    /\ e > now
    /\ expires_at' = [expires_at EXCEPT ![s] = e]
    /\ UNCHANGED <<now, pool, released_at, status, number_id, parties,
                   ext_code, closed_at, ended, looked>>

ExtendTtl(s, ttl) == SetExpiry(s, now + ttl)

ExtendUntil(s, e) == SetExpiry(s, e)

(* The lookups in flight, as the sessions of the batch end                 *)
LeftSince(batch) ==
    looked' = [x \in Ids |-> [looked[x] EXCEPT !.left = @ \cup
        {at \in Triable(x) \X Parties :
            \E s \in ActiveOn(at[1]) \cap batch : at[2] \in parties[s]}]]

(* Fault: the remaining sessions are counted before the status is flushed  *)
EndCountedEarly(batch, terminal) ==
    /\ status' = [s \in Ids |-> IF s \in batch THEN terminal ELSE status[s]]
    /\ closed_at' = [s \in Ids |-> IF s \in batch THEN now ELSE closed_at[s]]
    /\ released_at' = [n \in Numbers |->
           IF ActiveOn(n) = {} THEN now ELSE released_at[n]]
    /\ ended' = [n \in Numbers |-> [p \in Parties |->
           IF \E s \in ActiveOn(n) \cap batch : p \in parties[s]
           THEN now ELSE ended[n][p]]]
    /\ LeftSince(batch)
    /\ UNCHANGED <<now, pool, number_id, parties, ext_code, expires_at>>

(* Sessions leave the active state; a number left without any is released  *)
End(batch, terminal) ==
    /\ status' = [s \in Ids |-> IF s \in batch THEN terminal ELSE status[s]]
    /\ closed_at' = [s \in Ids |-> IF s \in batch THEN now ELSE closed_at[s]]
    /\ released_at' = [n \in Numbers |->
           IF ActiveOn(n) \cap batch # {} /\ ActiveOn(n) \subseteq batch
           THEN now ELSE released_at[n]]
    /\ ended' = [n \in Numbers |-> [p \in Parties |->
           IF \E s \in ActiveOn(n) \cap batch : p \in parties[s]
           THEN now ELSE ended[n][p]]]
    /\ LeftSince(batch)
    /\ UNCHANGED <<now, pool, number_id, parties, ext_code, expires_at>>

(* Fault: a status the table's check constraint does not know              *)
CloseSessionCancelled(s) ==
    /\ status[s] = "active"
    /\ End({s}, "cancelled")

CloseSession(s) ==
    /\ status[s] = "active"
    /\ End({s}, "closed")

(* Fault: a session is not due in the instant it expires                   *)
DueLater == {s \in Ids : status[s] = "active" /\ expires_at[s] < now}

(* One sweep of expiry_loop: the SweepLimit sessions longest overdue       *)
Due == {s \in Ids : status[s] = "active" /\ expires_at[s] <= now}

SweepBatch(batch) ==
    /\ batch # {}
    /\ Cardinality(batch) <= SweepLimit
    /\ batch # Due => Cardinality(batch) = SweepLimit
    /\ \A s \in batch, x \in Due \ batch : expires_at[s] <= expires_at[x]

ExpireDue ==
    \E batch \in SUBSET Due : SweepBatch(batch) /\ End(batch, "expired")

(* Fault: retention is counted from the expiry, not from the end           *)
OutdatedByExpiry == {s \in Ids : /\ status[s] \in {"closed", "expired"}
                                 /\ expires_at[s] < now - Retention}

(* purge_old_records, the sessions half; party rows go with ON DELETE      *)
(* CASCADE.  A row that is gone leaves its id for another session.         *)
Outdated == {s \in Ids : /\ status[s] \in {"closed", "expired"}
                         /\ closed_at[s] < now - Retention}

Purge ==
    /\ Outdated # {}
    /\ status' = [s \in Ids |-> IF s \in Outdated THEN "none" ELSE status[s]]
    /\ number_id' =
           [s \in Ids |-> IF s \in Outdated THEN NoNumber ELSE number_id[s]]
    /\ parties' = [s \in Ids |-> IF s \in Outdated THEN {} ELSE parties[s]]
    /\ ext_code' =
           [s \in Ids |-> IF s \in Outdated THEN NoCode ELSE ext_code[s]]
    /\ expires_at' = [s \in Ids |-> IF s \in Outdated THEN 0 ELSE expires_at[s]]
    /\ closed_at' =
           [s \in Ids |-> IF s \in Outdated THEN Never ELSE closed_at[s]]
    /\ UNCHANGED <<now, pool, released_at, ended, looked>>

Tick ==
    /\ now + 1 \in Instants
    /\ now' = now + 1
    /\ UNCHANGED <<pool, released_at, status, number_id, parties, ext_code,
                   expires_at, closed_at, ended, looked>>

Next ==
    \/ \E n \in Numbers, st \in {"enabled", "disabled"} :
           AddNumber(n, st) \/ SetNumberStatus(n, st)
    \/ \E s \in Ids, pair \in Pairs, locked \in SUBSET Numbers :
           LookForShared(s, pair, locked)
    \/ \E s \in Ids, ttl \in 1..MaxTtl, locked \in SUBSET Numbers :
           CreateSession(s, ttl, locked)
    \/ \E s \in Ids : GiveUp(s)
    \/ \E s \in Ids, ttl \in 1..MaxTtl : ExtendTtl(s, ttl)
    \/ \E s \in Ids, e \in Instants : ExtendUntil(s, e)
    \/ \E s \in Ids : CloseSession(s)
    \/ ExpireDue
    \/ Purge
    \/ Tick

Spec == Init /\ [][Next]_vars

(* expiry_loop never stops: it logs an exception and sweeps again          *)
FairSpec == Spec /\ WF_vars(ExpireDue)

-----------------------------------------------------------------------------
(* Correctness                                                             *)

(* A caller with several active sessions on a number chooses between them  *)
(* by PIN, so each of them has one: a session without would never be       *)
(* reached (README "Добавочные коды", allocation.py 12-16).                *)
Reachable ==
    \A n \in Numbers, p \in Parties : \A s, t \in ActiveOf(n, {p}) :
        s # t => ext_code[s] # NoCode

(* A PIN names one session of its number (uniq_active_ext_code_per_number) *)
CodesDistinct ==
    \A n \in Numbers : \A s, t \in ActiveOn(n) :
        s # t /\ ext_code[s] # NoCode => ext_code[s] # ext_code[t]

(* The clock of the number cooldown: an idle number was released no        *)
(* earlier than its last session ended (_mark_number_released).            *)
IdleClock ==
    \A n \in Numbers : ActiveOn(n) = {} =>
        \A p \in Parties : ended[n][p] # Never =>
            released_at[n] # Never /\ released_at[n] >= ended[n][p]

Created(s) == status[s] = "none" /\ status'[s] = "active"

Coded(n) == {s \in ActiveOn(n) : ext_code[s] # NoCode}

(* ext_code_max_per_number bounds the sessions that share a number by PIN, *)
(* promoted ones and those of an abandoned promotion included: past it     *)
(* their number grows only in a creation that queried its candidates       *)
(* before another session came to that number, since the count is not      *)
(* taken again under the lock (allocation.py 198-206).                     *)
CodeCap ==
    [][\A n \in Numbers :
          Cardinality(Coded(n)') > MaxPerNumber =>
             \/ Cardinality(Coded(n)') <= Cardinality(Coded(n))
             \/ \E s \in Ids : Created(s) /\ n \in looked[s].filled]_vars

(* "Карантин по абоненту применяется всегда": while retention outlasts the *)
(* cooldown, no subscriber gets a number on which a session of theirs      *)
(* ended within the cooldown, so a call back never reaches a stranger.     *)
(* Except for a number left while the creation was under way, between its  *)
(* query and its lock, after which the cooldown is not looked at again.    *)
PartyCooldown ==
    [][Retention >= Cooldown =>
         \A s \in Ids : Created(s) =>
            \A p \in parties'[s] :
                \/ ended[number_id'[s]][p] = Never
                \/ ended[number_id'[s]][p] <= now - Cooldown
                \/ <<number_id'[s], p>> \in looked[s].left]_vars

(* With the number scope an idle number is quarantined for everyone, with  *)
(* the same exception.                                                     *)
NumberCooldown ==
    [][CooldownScope = "number" =>
         \A s \in Ids : Created(s) /\ ActiveOn(number_id'[s]) = {} =>
            \A p \in Parties :
                \/ ended[number_id'[s]][p] = Never
                \/ ended[number_id'[s]][p] < now - Cooldown
                \/ \E q \in Parties : <<number_id'[s], q>> \in looked[s].left]_vars

(* Subscribers were told the PIN: it stays with the session till the end   *)
(* (only PIN-less sessions are promoted).                                  *)
CodeKept ==
    [][\A s \in Ids : status[s] = "active" /\ ext_code[s] # NoCode =>
          ext_code'[s] = ext_code[s] /\ number_id'[s] = number_id[s]]_vars

Overdue(s) == status[s] = "active" /\ expires_at[s] <= now

(* A session past its expiry does not stay active: a sweep ends it or an   *)
(* extension reaches it first.                                             *)
DueEnds == \A s \in Ids : Overdue(s) ~> ~Overdue(s)

=============================================================================
