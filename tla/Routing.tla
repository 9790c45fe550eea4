------------------------------ MODULE Routing -------------------------------
(***************************************************************************)
(* Which session an inbound call belongs to (services/routing.py), the     *)
(* Redis cache in front of the database (db/cache.py), and the             *)
(* transactions that end, extend and create the sessions of one proxy      *)
(* number and drop its cached routes (services/sessions.py).               *)
(*                                                                         *)
(* A transaction invalidates the cache before it commits, key by key; the  *)
(* event pump resolves one call at a time.  Each query, each Redis command *)
(* and each commit is one action.                                          *)
(*                                                                         *)
(* `Fault:' marks a mistaken variant of the definition after it.           *)
(***************************************************************************)
EXTENDS Integers, FiniteSets

CONSTANTS
    Ids,          \* the sessions of the number
    Callers,      \* the hashes that call it
    PartiesOf,    \* the two parties of each session
    Capped,       \* the sessions with max_calls
    SparePins,    \* bound: does a session in conflict with none have a PIN?
    LookupTtl,    \* LOOKUP_TTL_SECONDS
    NegativeTtl,  \* NEGATIVE_TTL_SECONDS
    MaxTtl,       \* settings.max_ttl_seconds
    RedisFails,   \* may a Redis command fail?
    Latency,      \* bound: how long resolve_call takes
    Instants,     \* bound: the instants of the clock
    NoAnswer

ASSUME RoutingAssumption ==
    /\ IsFiniteSet(Ids)
    /\ DOMAIN PartiesOf = Ids
    /\ \A s \in Ids : Cardinality(PartiesOf[s]) = 2
    /\ Capped \subseteq Ids
    /\ SparePins \subseteq BOOLEAN
    /\ LookupTtl \in Nat \ {0} /\ NegativeTtl \in Nat \ {0} /\ MaxTtl \in Nat \ {0}
    /\ RedisFails \in BOOLEAN
    /\ Latency \in Nat
    /\ Instants \subseteq Nat

VARIABLES
    now,
    db,       \* the committed rows
    tx,       \* the control plane's transaction in flight
    cache,    \* the entry of each caller's lookup_key
    lookup,   \* resolve_call for the call the pump handles
    answer,   \* the decision of the step just taken
    latest    \* history: the latest expiry each session was ever given

vars == <<now, db, tx, cache, lookup, answer, latest>>

(* The row of a session that is not active: nothing else of it is read     *)
Over(status) == [status |-> status, expires_at |-> 0, pin |-> FALSE]

NoEntry == [kind |-> "none"]
NoTx == [open |-> FALSE]
NoLookup == [at |-> "idle"]

Decision(action, among) == [action |-> action, among |-> among]
Decisions == {Decision("reject", {})} \cup {Decision("connect", {s}) : s \in Ids}
             \cup {Decision("ask", among) : among \in SUBSET Ids}

Rows == [Ids -> [status : {"none", "active", "closed", "expired"},
                 expires_at : Nat, pin : BOOLEAN]]

Transactions ==
    {NoTx} \cup [open : {TRUE}, db : Rows, todo : SUBSET Callers]

Entries ==
    {NoEntry}
    \cup [kind : {"miss"}, status : {"expired", "unknown_caller"},
          until : Nat, since : Nat]
    \cup [kind : {"route"}, session : Ids, expires_at : Nat,
          until : Nat, since : Nat]

Lookups ==
    {NoLookup}
    \cup [at : {"load"}, caller : Callers, asked : Nat]
    \cup [at : {"had"}, caller : Callers, asked : Nat, since : Nat]
    \cup [at : {"miss"}, caller : Callers, asked : Nat, since : Nat,
          status : {"expired", "unknown_caller"}]
    \cup [at : {"single"}, caller : Callers, asked : Nat, since : Nat,
          session : Ids, expires_at : Nat, ttl : Nat]

Given ==
    [caller : Callers, decision : Decisions, asked : Nat, capped : BOOLEAN,
     status : {"", "expired", "unknown_caller", "failed"}]

Answers == {NoAnswer} \cup Given

ASSUME NoAnswerAssumption == NoAnswer \notin Given

TypeOK ==
    /\ now \in Nat
    /\ db \in Rows
    /\ tx \in Transactions
    /\ cache \in [Callers -> Entries]
    /\ lookup \in Lookups
    /\ answer \in Answers
    /\ latest \in [Ids -> Nat]

-----------------------------------------------------------------------------
(* The sessions                                                            *)

LiveIn(rows, t, c) ==
    {s \in Ids : /\ c \in PartiesOf[s]
                 /\ rows[s].status = "active"
                 /\ rows[s].expires_at > t}

(* The decision they call for                                              *)
Right(rows, t, c) ==
    LET live == LiveIn(rows, t, c)
    IN  CASE live = {} -> Decision("reject", {})
          [] Cardinality(live) = 1 -> Decision("connect", live)
          [] OTHER -> Decision("ask", live)

Init ==
    /\ now = 0
    /\ db = [s \in Ids |-> Over("none")]
    /\ tx = NoTx
    /\ cache = [c \in Callers |-> NoEntry]
    /\ lookup = NoLookup
    /\ answer = NoAnswer
    /\ latest = [s \in Ids |-> 0]

-----------------------------------------------------------------------------
(* The control plane.  Work of a transaction up to invalidate_number       *)
Begin(rows, keys) ==
    /\ tx = NoTx
    /\ tx' = [open |-> TRUE, db |-> rows, todo |-> keys]
    /\ answer' = NoAnswer
    /\ UNCHANGED <<now, db, cache, lookup, latest>>

Conflicting(s) ==
    {x \in Ids : db[x].status = "active" /\ PartiesOf[x] \cap PartiesOf[s] # {}}

(* create_session, with the promotion of the sessions in conflict          *)
CreateSession(s, ttl, pin) ==
    /\ db[s].status = "none"
    /\ pin \in IF Conflicting(s) = {} THEN SparePins ELSE {TRUE}
    /\ Begin([x \in Ids |->
                 IF x = s THEN [status |-> "active", expires_at |-> now + ttl,
                                pin |-> pin]
                 ELSE IF x \in Conflicting(s) THEN [db[x] EXCEPT !.pin = TRUE]
                 ELSE db[x]], Callers)

ExtendSession(s, e) ==
    /\ db[s].status = "active"
    /\ e > now
    /\ Begin([db EXCEPT ![s].expires_at = e], Callers)

CloseSession(s) ==
    /\ db[s].status = "active"
    /\ Begin([db EXCEPT ![s] = Over("closed")], Callers)

(* Fault: a status the table's check constraint does not know              *)
ExpireDone(batch) ==
    /\ batch # {}
    /\ \A s \in batch : db[s].status = "active" /\ db[s].expires_at <= now
    /\ Begin([s \in Ids |-> IF s \in batch THEN Over("done") ELSE db[s]], Callers)

(* expire_due_sessions, whichever batch the limit leaves                   *)
ExpireDue(batch) ==
    /\ batch # {}
    /\ \A s \in batch : db[s].status = "active" /\ db[s].expires_at <= now
    /\ Begin([s \in Ids |-> IF s \in batch THEN Over("expired") ELSE db[s]], Callers)

(* purge_old_records, which leaves the cache alone.  A row that is gone    *)
(* leaves its id for another session.                                      *)
Purge(batch) ==
    /\ batch # {}
    /\ \A s \in batch : db[s].status \in {"closed", "expired"}
    /\ Begin([s \in Ids |-> IF s \in batch THEN Over("none") ELSE db[s]], {})

(* invalidate_number deletes the keys it scans one after the other, and    *)
(* gives up at the first error                                             *)
DeleteKey(c) ==
    /\ tx.open /\ c \in tx.todo
    /\ cache' = [cache EXCEPT ![c] = NoEntry]
    /\ tx' = [tx EXCEPT !.todo = @ \ {c}]
    /\ answer' = NoAnswer
    /\ UNCHANGED <<now, db, lookup, latest>>

InvalidationFails ==
    /\ RedisFails
    /\ tx.open /\ tx.todo # {}
    /\ tx' = [tx EXCEPT !.todo = {}]
    /\ answer' = NoAnswer
    /\ UNCHANGED <<now, db, cache, lookup, latest>>

Commit ==
    /\ tx.open /\ tx.todo = {}
    /\ db' = tx.db
    /\ latest' = [s \in Ids |-> IF tx.db[s].expires_at > latest[s]
                                THEN tx.db[s].expires_at ELSE latest[s]]
    /\ tx' = NoTx
    /\ answer' = NoAnswer
    /\ UNCHANGED <<now, cache, lookup>>

(* An exception after the invalidation                                     *)
Rollback ==
    /\ tx.open
    /\ tx' = NoTx
    /\ answer' = NoAnswer
    /\ UNCHANGED <<now, db, cache, lookup, latest>>

-----------------------------------------------------------------------------
(* The data plane: resolve_call                                            *)

Decide(c, asked, decision, capped, status) ==
    /\ answer' = [caller |-> c, asked |-> asked, decision |-> decision,
                  capped |-> capped, status |-> status]
    /\ lookup' = NoLookup

Reject(c, asked, status) ==
    Decide(c, asked, Decision("reject", {}), FALSE, status)

(* Fault: a cached route is used without a look at its expiry              *)
UsableWhileStored(c) == cache[c].kind # "none"

(* Redis has an entry, and _decision_from_cache accepts it                 *)
Usable(c) ==
    /\ cache[c].kind # "none"
    /\ cache[c].kind = "route" => cache[c].expires_at > now

AnswerFromCache(c) ==
    /\ lookup = NoLookup
    /\ Usable(c)
    /\ IF cache[c].kind = "miss" THEN Reject(c, now, cache[c].status)
       ELSE Decide(c, now, Decision("connect", {cache[c].session}), FALSE, "")
    /\ UNCHANGED <<now, db, tx, cache, latest>>

MissCache(c) ==
    /\ lookup = NoLookup
    /\ RedisFails \/ ~Usable(c)
    /\ lookup' = [at |-> "load", caller |-> c, asked |-> now]
    /\ answer' = NoAnswer
    /\ UNCHANGED <<now, db, tx, cache, latest>>

(* A route is cached until its session expires, LookupTtl at most          *)
Remaining(expires_at, t) ==
    IF expires_at - t < LookupTtl THEN expires_at - t ELSE LookupTtl

(* Fault: the cap is no reason not to cache                                *)
CacheableAny(s, ttl) == ttl > 0

Cacheable(s, ttl) == s \notin Capped /\ ttl > 0

(* _load_candidates.  Several sessions: the caller is asked for a PIN, one *)
(* without a PIN cannot be chosen.                                         *)
LoadCandidates(c) ==
    LET live == LiveIn(db, now, c)
        with_code == {s \in live : db[s].pin}
    IN  /\ lookup.at = "load" /\ lookup.caller = c
        /\ \/ /\ live = {}
              /\ lookup' = [at |-> "had", caller |-> c, asked |-> lookup.asked,
                            since |-> now]
              /\ answer' = NoAnswer
           \/ \E s \in live :
              /\ live = {s}
              /\ lookup' = [at |-> "single", caller |-> c,
                            asked |-> lookup.asked, since |-> now, session |-> s,
                            expires_at |-> db[s].expires_at,
                            ttl |-> Remaining(db[s].expires_at, now)]
              /\ answer' = NoAnswer
           \/ /\ Cardinality(live) > 1
              /\ IF with_code = {} THEN Reject(c, lookup.asked, "failed")
                 ELSE Decide(c, lookup.asked, Decision("ask", with_code), FALSE, "")
        /\ UNCHANGED <<now, db, tx, cache, latest>>

(* _had_session                                                            *)
HadSession(c) ==
    \E s \in Ids : c \in PartiesOf[s] /\ db[s].status # "none"

RejectWithoutSession(c) ==
    /\ lookup.at = "had" /\ lookup.caller = c
    /\ lookup' = [at |-> "miss", caller |-> c, asked |-> lookup.asked,
                  since |-> lookup.since,
                  status |-> IF HadSession(c) THEN "expired" ELSE "unknown_caller"]
    /\ answer' = NoAnswer
    /\ UNCHANGED <<now, db, tx, cache, latest>>

(* Fault: a refusal is cached for the default lifetime of cache_set_json   *)
MissEntryLong == [kind |-> "miss", status |-> lookup.status,
                  until |-> now + LookupTtl, since |-> lookup.since]

MissEntry == [kind |-> "miss", status |-> lookup.status,
              until |-> now + NegativeTtl, since |-> lookup.since]

CacheMiss(c) ==
    /\ lookup.at = "miss" /\ lookup.caller = c
    /\ \/ cache' = [cache EXCEPT ![c] = MissEntry]
       \/ RedisFails /\ UNCHANGED cache
    /\ Reject(c, lookup.asked, lookup.status)
    /\ UNCHANGED <<now, db, tx, latest>>

(* _cache_single: the lifetime is computed before the command is sent, and *)
(* counts from its arrival                                                 *)
CacheSingle(c) ==
    LET s == lookup.session IN
    /\ lookup.at = "single" /\ lookup.caller = c
    /\ \/ /\ Cacheable(s, lookup.ttl)
          /\ cache' = [cache EXCEPT ![c] =
                 [kind |-> "route", session |-> s, expires_at |-> lookup.expires_at,
                  until |-> now + lookup.ttl, since |-> lookup.since]]
       \/ /\ RedisFails \/ ~Cacheable(s, lookup.ttl)
          /\ UNCHANGED cache
    /\ Decide(c, lookup.asked, Decision("connect", {s}), s \in Capped, "")
    /\ UNCHANGED <<now, db, tx, latest>>

(* Redis drops the entries whose time is up                                *)
Tick ==
    /\ now + 1 \in Instants
    /\ lookup # NoLookup => now < lookup.asked + Latency
    /\ now' = now + 1
    /\ cache' = [c \in Callers |->
           IF cache[c].kind # "none" /\ cache[c].until <= now + 1 THEN NoEntry
           ELSE cache[c]]
    /\ answer' = NoAnswer
    /\ UNCHANGED <<db, tx, lookup, latest>>

-----------------------------------------------------------------------------
Next ==
    \/ \E s \in Ids :
          \/ \E ttl \in 1..MaxTtl, pin \in BOOLEAN : CreateSession(s, ttl, pin)
          \/ \E e \in Instants \cup (now + 1)..(now + MaxTtl) : ExtendSession(s, e)
          \/ CloseSession(s)
    \/ \E batch \in SUBSET Ids : ExpireDue(batch) \/ Purge(batch)
    \/ InvalidationFails \/ Commit \/ Rollback
    \/ \E c \in Callers :
          \/ DeleteKey(c)
          \/ AnswerFromCache(c) \/ MissCache(c) \/ LoadCandidates(c)
          \/ RejectWithoutSession(c) \/ CacheMiss(c) \/ CacheSingle(c)
    \/ Tick

Spec == Init /\ [][Next]_vars

-----------------------------------------------------------------------------
(* Correctness                                                             *)

(* How long a decision may be given: a lookup takes Latency, and its       *)
(* result is cached for LookupTtl, or for NegativeTtl if it is a refusal.  *)
StalenessOf ==
    [d \in Decisions |->
        Latency + IF d.action = "reject" THEN NegativeTtl ELSE LookupTtl]

(* The decisions that a lookup, and the cache, are still going to give     *)
LookupNote ==
    IF lookup.at \in {"had", "miss", "single"}
    THEN {[caller |-> lookup.caller, at |-> lookup.since,
           decision |-> IF lookup.at = "single"
                        THEN Decision("connect", {lookup.session})
                        ELSE Decision("reject", {})]}
    ELSE {}

CacheNotes ==
    {[caller |-> c, at |-> cache[c].since,
      decision |-> IF cache[c].kind = "route"
                   THEN Decision("connect", {cache[c].session})
                   ELSE Decision("reject", {})] :
        c \in {x \in Callers : cache[x].kind # "none"}}

Current == [c \in Callers |-> Right(db, now, c)]

Notes == LookupNote \cup CacheNotes

Told == IF answer = NoAnswer THEN NoAnswer
        ELSE [caller |-> answer.caller, decision |-> answer.decision]

Abstract ==
    INSTANCE Router WITH Staleness <- StalenessOf, current <- Current,
                         notes <- Notes, answer <- Told

(* However invalidation and lookups race, and whatever Redis loses, a call *)
(* is routed as the database had it within the lifetime of a cache entry;  *)
(* a PIN prompt offers every session of the caller.                        *)
BoundedStaleness == Abstract!Spec

Connects(s) == answer # NoAnswer /\ answer.decision = Decision("connect", {s})

(* "a cached route for an expired session would connect a call the         *)
(* database would have refused" (_cache_single): a call that comes in      *)
(* after every expiry its session was ever given is not connected.         *)
ExpiryHolds == \A s \in Ids : Connects(s) => answer.asked < latest[s]

(* The cap of a session reaches the call (CallFlow checks it), as a cached *)
(* route has none.                                                         *)
CapCarried ==
    \A s \in Ids : Connects(s) => answer.capped = (s \in Capped)

(* What comments say and the code does not keep                            *)

(* close_session: "new calls are refused immediately".  A call that comes  *)
(* in, and is answered at once, belongs to a session that is still active. *)
RefusedAtOnce ==
    [][\A s \in Ids :
           lookup = NoLookup /\ Connects(s)' => db[s].status = "active"]_vars

=============================================================================
