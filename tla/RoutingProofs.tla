---------------------------- MODULE RoutingProofs ---------------------------
(***************************************************************************)
(* Theorems about Routing for any sessions, callers, lifetimes, clock and  *)
(* latency, with their proofs; the last one is that it implements Router.  *)
(***************************************************************************)
EXTENDS Routing, FiniteSetTheorems, TLAPS

-----------------------------------------------------------------------------
(* Types                                                                   *)

LEMMA BeginTypeOK ==
    ASSUME TypeOK, NEW rows \in Rows, NEW keys \in SUBSET Callers,
           Begin(rows, keys)
    PROVE  TypeOK'
<1>1. tx' \in Transactions
  BY DEF Begin, Transactions
<1>2. answer' \in Answers
  BY DEF Begin, Answers
<1> QED
  BY <1>1, <1>2 DEF Begin, TypeOK

(* What a lookup decides, in each of the ways it ends                      *)
LEMMA DecideTypes ==
    ASSUME NEW c \in Callers, NEW asked \in Nat, NEW decision \in Decisions,
           NEW capped \in BOOLEAN,
           NEW status \in {"", "expired", "unknown_caller", "failed"},
           Decide(c, asked, decision, capped, status)
    PROVE  answer' \in Given /\ answer' \in Answers /\ lookup' \in Lookups
  BY DEF Decide, Answers, Given, Lookups

LEMMA RejectTypes ==
    ASSUME NEW c \in Callers, NEW asked \in Nat,
           NEW status \in {"expired", "unknown_caller", "failed"},
           Reject(c, asked, status)
    PROVE  answer' \in Answers /\ lookup' \in Lookups
<1>1. Decision("reject", {}) \in Decisions
  BY DEF Decisions
<1> QED
  BY <1>1, DecideTypes DEF Reject

LEMMA ConnectIsDecision ==
    ASSUME NEW s \in Ids
    PROVE  Decision("connect", {s}) \in Decisions
  BY DEF Decisions

LEMMA CreateTypeOK ==
    ASSUME TypeOK, NEW s \in Ids, NEW ttl \in 1..MaxTtl, NEW pin \in BOOLEAN,
           CreateSession(s, ttl, pin)
    PROVE  TypeOK'
<1> DEFINE row == [status |-> "active", expires_at |-> now + ttl, pin |-> pin]
           rows == [x \in Ids |->
                       IF x = s THEN row
                       ELSE IF x \in Conflicting(s) THEN [db[x] EXCEPT !.pin = TRUE]
                       ELSE db[x]]
<1>1. now + ttl \in Nat
  BY RoutingAssumption DEF TypeOK
<1>2. rows \in Rows
  BY <1>1 DEF TypeOK, Rows
<1>3. Begin(rows, Callers)
  BY DEF CreateSession
<1> QED
  BY <1>2, <1>3, BeginTypeOK

LEMMA ChangeTypeOK ==
    ASSUME TypeOK,
           \/ \E s \in Ids, e \in Nat : ExtendSession(s, e)
           \/ \E s \in Ids : CloseSession(s)
           \/ \E batch \in SUBSET Ids : ExpireDue(batch) \/ Purge(batch)
    PROVE  TypeOK'
<1>1. CASE \E s \in Ids, e \in Nat : ExtendSession(s, e)
  <2>1. PICK s \in Ids, e \in Nat : ExtendSession(s, e)
    BY <1>1
  <2>2. [db EXCEPT ![s].expires_at = e] \in Rows
    BY DEF TypeOK, Rows
  <2> QED
    BY <2>1, <2>2, BeginTypeOK DEF ExtendSession
<1>2. CASE \E s \in Ids : CloseSession(s)
  <2>1. PICK s \in Ids : CloseSession(s)
    BY <1>2
  <2>2. [db EXCEPT ![s] = Over("closed")] \in Rows
    BY DEF TypeOK, Rows, Over
  <2> QED
    BY <2>1, <2>2, BeginTypeOK DEF CloseSession
<1>3. CASE \E batch \in SUBSET Ids : ExpireDue(batch) \/ Purge(batch)
  <2>1. PICK batch \in SUBSET Ids : ExpireDue(batch) \/ Purge(batch)
    BY <1>3
  <2>2. \A st \in {"none", "expired"} :
           [s \in Ids |-> IF s \in batch THEN Over(st) ELSE db[s]] \in Rows
    BY DEF TypeOK, Rows, Over
  <2>3. CASE ExpireDue(batch)
    BY <2>2, <2>3, BeginTypeOK DEF ExpireDue
  <2>4. CASE Purge(batch)
    BY <2>2, <2>4, BeginTypeOK DEF Purge
  <2> QED
    BY <2>1, <2>3, <2>4
<1> QED
  BY <1>1, <1>2, <1>3

(* The other steps of a transaction                                        *)
LEMMA FinishTypeOK ==
    ASSUME TypeOK,
           (\E c \in Callers : DeleteKey(c)) \/ InvalidationFails \/ Commit
               \/ Rollback
    PROVE  TypeOK'
<1>1. NoAnswer \in Answers /\ NoEntry \in Entries /\ NoTx \in Transactions
  BY DEF Answers, Entries, Transactions
<1>2. tx.open => tx \in [open : {TRUE}, db : Rows, todo : SUBSET Callers]
  <2>1. NoTx.open = FALSE
    BY DEF NoTx
  <2>2. tx.open => tx # NoTx
    BY <2>1, Zenon
  <2> QED
    BY <2>2 DEF TypeOK, Transactions
<1>3. CASE \E c \in Callers : DeleteKey(c)
  <2>1. PICK c \in Callers : DeleteKey(c)
    BY <1>3
  <2>2. tx' \in Transactions
    BY <1>2, <2>1 DEF DeleteKey, Transactions
  <2>3. cache' \in [Callers -> Entries]
    BY <1>1, <2>1 DEF DeleteKey, TypeOK
  <2> QED
    BY <1>1, <2>1, <2>2, <2>3 DEF DeleteKey, TypeOK
<1>4. CASE InvalidationFails
  <2>1. tx' \in Transactions
    BY <1>2, <1>4 DEF InvalidationFails, Transactions
  <2> QED
    BY <1>1, <1>4, <2>1 DEF InvalidationFails, TypeOK
<1>5. CASE Commit
  <2>1. tx.db \in Rows
    BY <1>2, <1>5 DEF Commit
  <2>2. latest' \in [Ids -> Nat]
    BY <1>5, <2>1 DEF Commit, TypeOK, Rows
  <2> QED
    BY <1>1, <1>5, <2>1, <2>2 DEF Commit, TypeOK
<1>6. CASE Rollback
  BY <1>1, <1>6 DEF Rollback, TypeOK
<1> QED
  BY <1>3, <1>4, <1>5, <1>6

(* A query and its successors: which fields the lookup has where           *)
LEMMA LookupFields ==
    ASSUME TypeOK
    PROVE  /\ lookup # NoLookup => lookup.caller \in Callers /\ lookup.asked \in Nat
           /\ lookup.at \in {"had", "miss", "single"} => lookup.since \in Nat
           /\ lookup.at = "miss" => lookup.status \in {"expired", "unknown_caller"}
           /\ lookup.at = "single" => /\ lookup.session \in Ids
                                      /\ lookup.expires_at \in Nat
                                      /\ lookup.ttl \in Nat
           /\ lookup.at # "idle" => lookup # NoLookup
  BY DEF TypeOK, Lookups, NoLookup

LEMMA EntryFields ==
    ASSUME TypeOK, NEW c \in Callers
    PROVE  /\ cache[c].kind \in {"none", "miss", "route"}
           /\ cache[c].kind = "miss" =>
                 cache[c].status \in {"expired", "unknown_caller"}
           /\ cache[c].kind = "route" => /\ cache[c].session \in Ids
                                         /\ cache[c].expires_at \in Nat
  BY DEF TypeOK, Entries, NoEntry

LEMMA RemainingType ==
    ASSUME NEW e \in Nat, NEW t \in Nat, e > t
    PROVE  Remaining(e, t) \in Nat
  BY RoutingAssumption DEF Remaining

LEMMA LoadTypeOK ==
    ASSUME TypeOK, NEW c \in Callers, LoadCandidates(c)
    PROVE  TypeOK'
<1> DEFINE live == LiveIn(db, now, c)
           with_code == {s \in live : db[s].pin}
<1>1. lookup.asked \in Nat
  BY LookupFields DEF LoadCandidates
<1>2. NoAnswer \in Answers
  BY DEF Answers
<1>3. answer' \in Answers /\ lookup' \in Lookups
  <2>1. CASE lookup' = [at |-> "had", caller |-> c, asked |-> lookup.asked,
                        since |-> now] /\ answer' = NoAnswer
    BY <1>1, <1>2, <2>1 DEF TypeOK, Lookups
  <2>2. ASSUME NEW s \in live, answer' = NoAnswer,
               lookup' = [at |-> "single", caller |-> c,
                          asked |-> lookup.asked, since |-> now, session |-> s,
                          expires_at |-> db[s].expires_at,
                          ttl |-> Remaining(db[s].expires_at, now)]
        PROVE  answer' \in Answers /\ lookup' \in Lookups
    <3>1. s \in Ids /\ db[s].expires_at \in Nat /\ db[s].expires_at > now
      BY DEF TypeOK, Rows, LiveIn
    <3>2. Remaining(db[s].expires_at, now) \in Nat
      BY <3>1, RemainingType DEF TypeOK
    <3> QED
      BY <1>1, <1>2, <2>2, <3>1, <3>2 DEF TypeOK, Lookups
  <2>3. CASE Reject(c, lookup.asked, "failed")
    BY <1>1, <2>3, RejectTypes
  <2>4. CASE Decide(c, lookup.asked, Decision("ask", with_code), FALSE, "")
    <3>1. Decision("ask", with_code) \in Decisions
      BY DEF Decisions, LiveIn
    <3> QED
      BY <1>1, <2>4, <3>1, DecideTypes
  <2> QED
    BY <2>1, <2>2, <2>3, <2>4 DEF LoadCandidates
<1> QED
  BY <1>3 DEF LoadCandidates, TypeOK

LEMMA LookupTypeOK ==
    ASSUME TypeOK, NEW c \in Callers,
           \/ AnswerFromCache(c) \/ MissCache(c) \/ RejectWithoutSession(c)
           \/ CacheMiss(c) \/ CacheSingle(c)
    PROVE  TypeOK'
<1>1. NoAnswer \in Answers /\ now \in Nat
  BY DEF Answers, TypeOK
<1>2. CASE AnswerFromCache(c)
  <2>1. CASE cache[c].kind = "miss"
    <3>1. Reject(c, now, cache[c].status)
      BY <1>2, <2>1 DEF AnswerFromCache
    <3>2. answer' \in Answers /\ lookup' \in Lookups
      BY <1>1, <2>1, <3>1, EntryFields, RejectTypes
    <3> QED
      BY <1>2, <3>2 DEF AnswerFromCache, TypeOK
  <2>2. CASE cache[c].kind # "miss"
    <3>1. cache[c].kind = "route" /\ cache[c].session \in Ids
      BY <1>2, <2>2, EntryFields DEF AnswerFromCache, Usable
    <3>2. Decide(c, now, Decision("connect", {cache[c].session}), FALSE, "")
      BY <1>2, <2>2 DEF AnswerFromCache
    <3>3. answer' \in Answers /\ lookup' \in Lookups
      BY <1>1, <3>1, <3>2, ConnectIsDecision, DecideTypes
    <3> QED
      BY <1>2, <3>3 DEF AnswerFromCache, TypeOK
  <2> QED
    BY <2>1, <2>2
<1>3. CASE MissCache(c)
  <2>1. lookup' \in Lookups
    BY <1>1, <1>3 DEF MissCache, Lookups
  <2> QED
    BY <1>1, <1>3, <2>1 DEF MissCache, TypeOK
<1>4. CASE RejectWithoutSession(c)
  <2>1. lookup.asked \in Nat /\ lookup.since \in Nat
    BY <1>4, LookupFields DEF RejectWithoutSession
  <2>2. lookup' \in Lookups
    BY <1>4, <2>1 DEF RejectWithoutSession, Lookups
  <2> QED
    BY <1>1, <1>4, <2>2 DEF RejectWithoutSession, TypeOK
<1>5. CASE CacheMiss(c)
  <2>1. /\ lookup.asked \in Nat /\ lookup.since \in Nat
        /\ lookup.status \in {"expired", "unknown_caller"}
    BY <1>5, LookupFields DEF CacheMiss
  <2>2. MissEntry \in Entries
    BY <1>1, <2>1, RoutingAssumption DEF MissEntry, Entries
  <2>3. cache' \in [Callers -> Entries]
    BY <1>5, <2>2 DEF CacheMiss, TypeOK
  <2>4. answer' \in Answers /\ lookup' \in Lookups
    BY <1>5, <2>1, RejectTypes DEF CacheMiss
  <2> QED
    BY <1>5, <2>3, <2>4 DEF CacheMiss, TypeOK
<1>6. CASE CacheSingle(c)
  <2> DEFINE s == lookup.session
             entry == [kind |-> "route", session |-> s,
                       expires_at |-> lookup.expires_at,
                       until |-> now + lookup.ttl, since |-> lookup.since]
  <2>1. /\ lookup.asked \in Nat /\ lookup.since \in Nat /\ s \in Ids
        /\ lookup.expires_at \in Nat /\ lookup.ttl \in Nat
    BY <1>6, LookupFields DEF CacheSingle
  <2>2. entry \in Entries
    BY <1>1, <2>1 DEF Entries
  <2>3. cache' \in [Callers -> Entries]
    BY <1>6, <2>2 DEF CacheSingle, TypeOK
  <2>4. Decide(c, lookup.asked, Decision("connect", {s}), s \in Capped, "")
    BY <1>6 DEF CacheSingle
  <2>5. (s \in Capped) \in BOOLEAN /\ Decision("connect", {s}) \in Decisions
    BY <2>1, ConnectIsDecision
  <2>6. answer' \in Answers /\ lookup' \in Lookups
    BY <2>1, <2>4, <2>5, DecideTypes, Zenon
  <2> QED
    BY <1>6, <2>3, <2>6 DEF CacheSingle, TypeOK
<1> QED
  BY <1>2, <1>3, <1>4, <1>5, <1>6

LEMMA TickTypeOK ==
    ASSUME TypeOK, Tick
    PROVE  TypeOK'
<1>1. NoAnswer \in Answers /\ NoEntry \in Entries
  BY DEF Answers, Entries
<1>2. cache' \in [Callers -> Entries]
  BY <1>1 DEF Tick, TypeOK
<1>3. now' \in Nat
  BY DEF Tick, TypeOK
<1> QED
  BY <1>1, <1>2, <1>3 DEF Tick, TypeOK

LEMMA NextTypeOK == TypeOK /\ [Next]_vars => TypeOK'
<1> SUFFICES ASSUME TypeOK, [Next]_vars PROVE TypeOK'
  OBVIOUS
<1>1. ASSUME NEW s \in Ids, NEW ttl \in 1..MaxTtl, NEW pin \in BOOLEAN,
             CreateSession(s, ttl, pin)
      PROVE  TypeOK'
  BY <1>1, CreateTypeOK
<1>2. ASSUME NEW s \in Ids, NEW e \in Instants \cup (now + 1)..(now + MaxTtl),
             ExtendSession(s, e)
      PROVE  TypeOK'
  <2>1. e \in Nat
    BY RoutingAssumption DEF TypeOK
  <2> QED
    BY <1>2, <2>1, ChangeTypeOK
<1>3. ASSUME NEW s \in Ids, CloseSession(s) PROVE TypeOK'
  BY <1>3, ChangeTypeOK
<1>4. ASSUME NEW batch \in SUBSET Ids, ExpireDue(batch) \/ Purge(batch)
      PROVE  TypeOK'
  BY <1>4, ChangeTypeOK
<1>5. CASE InvalidationFails \/ Commit \/ Rollback
  BY <1>5, FinishTypeOK
<1>6. ASSUME NEW c \in Callers, DeleteKey(c) PROVE TypeOK'
  BY <1>6, FinishTypeOK
<1>7. ASSUME NEW c \in Callers, LoadCandidates(c) PROVE TypeOK'
  BY <1>7, LoadTypeOK
<1>8. ASSUME NEW c \in Callers,
             \/ AnswerFromCache(c) \/ MissCache(c) \/ RejectWithoutSession(c)
             \/ CacheMiss(c) \/ CacheSingle(c)
      PROVE  TypeOK'
  BY <1>8, LookupTypeOK
<1>9. CASE Tick
  BY <1>9, TickTypeOK
<1>10. CASE UNCHANGED vars
  BY <1>10 DEF vars, TypeOK
<1> QED
  BY <1>1, <1>2, <1>3, <1>4, <1>5, <1>6, <1>7, <1>8, <1>9, <1>10 DEF Next

LEMMA InitTypeOK == Init => TypeOK
<1> SUFFICES ASSUME Init PROVE TypeOK
  OBVIOUS
<1>1. db \in Rows
  BY DEF Init, Over, Rows
<1> QED
  BY <1>1 DEF Init, TypeOK, Transactions, Entries, Lookups, Answers

(* Types of rows, transactions, cache entries, lookups and answers         *)
THEOREM TypeCorrect == Spec => []TypeOK
  BY InitTypeOK, NextTypeOK, PTL DEF Spec

-----------------------------------------------------------------------------
(* Expiries and caps                                                       *)

(* Every expiry in use is one the session was given: in the rows, in the   *)
(* lookup, which began before it, and in the cache.                        *)
ExpiryKnown ==
    /\ \A s \in Ids : db[s].expires_at <= latest[s]
    /\ lookup.at = "load" => lookup.asked <= now
    /\ lookup.at = "single" => /\ lookup.asked < lookup.expires_at
                               /\ lookup.expires_at <= latest[lookup.session]
    /\ \A c \in Callers : cache[c].kind = "route" =>
                              cache[c].expires_at <= latest[cache[c].session]

(* No session with a cap is in the cache.                                  *)
CacheUncapped ==
    \A c \in Callers : cache[c].kind = "route" => cache[c].session \notin Capped

RouteInvariant == TypeOK /\ ExpiryKnown /\ CacheUncapped /\ ExpiryHolds /\ CapCarried

(* Steps that leave lookup, cache and rows alone, and answer nothing       *)
LEMMA BeginRoutes ==
    ASSUME RouteInvariant, NEW rows, NEW keys, Begin(rows, keys)
    PROVE  (ExpiryKnown /\ CacheUncapped /\ ExpiryHolds /\ CapCarried)'
  BY DEF RouteInvariant, Begin, ExpiryKnown, CacheUncapped, ExpiryHolds,
         CapCarried, Connects

LEMMA FinishRoutes ==
    ASSUME RouteInvariant,
           (\E c \in Callers : DeleteKey(c)) \/ InvalidationFails \/ Commit
               \/ Rollback
    PROVE  (ExpiryKnown /\ CacheUncapped /\ ExpiryHolds /\ CapCarried)'
<1>1. answer' = NoAnswer
  BY DEF DeleteKey, InvalidationFails, Commit, Rollback
<1>2. (ExpiryHolds /\ CapCarried)'
  BY <1>1 DEF ExpiryHolds, CapCarried, Connects
<1>3. CASE \E c \in Callers : DeleteKey(c)
  <2>1. PICK c \in Callers : DeleteKey(c)
    BY <1>3
  <2>2. \A x \in Callers : cache'[x].kind = "route" => cache'[x] = cache[x]
    BY <2>1 DEF DeleteKey, RouteInvariant, TypeOK, NoEntry
  <2> QED
    BY <1>2, <2>1, <2>2 DEF DeleteKey, RouteInvariant, ExpiryKnown, CacheUncapped
<1>4. CASE InvalidationFails \/ Rollback
  BY <1>2, <1>4 DEF InvalidationFails, Rollback, RouteInvariant, ExpiryKnown,
                    CacheUncapped
<1>5. CASE Commit
  <2>1. tx.db \in Rows
    <3>1. tx # NoTx
      <4>1. NoTx.open = FALSE
        BY DEF NoTx
      <4> QED
        BY <1>5, <4>1, Zenon DEF Commit
    <3> QED
      BY <3>1 DEF RouteInvariant, TypeOK, Transactions
  <2>2. \A s \in Ids : latest'[s] >= latest[s] /\ db'[s].expires_at <= latest'[s]
    BY <1>5, <2>1 DEF Commit, RouteInvariant, TypeOK, Rows
  <2>3. \A s \in Ids : latest[s] \in Nat /\ latest'[s] \in Nat
    BY <1>5, <2>1 DEF Commit, RouteInvariant, TypeOK, Rows
  <2>4. CacheUncapped'
    BY <1>5 DEF Commit, RouteInvariant, CacheUncapped
  <2>5. lookup.at = "single" =>
           lookup.session \in Ids /\ lookup.expires_at \in Nat
    BY LookupFields DEF RouteInvariant
  <2>6. \A c \in Callers : cache[c].kind = "route" =>
           cache[c].session \in Ids /\ cache[c].expires_at \in Nat
    BY EntryFields DEF RouteInvariant
  <2>7. lookup.at = "single" => lookup.expires_at <= latest'[lookup.session]
    BY <2>2, <2>3, <2>5 DEF RouteInvariant, ExpiryKnown
  <2>8. \A c \in Callers : cache[c].kind = "route" =>
           cache[c].expires_at <= latest'[cache[c].session]
    BY <2>2, <2>3, <2>6 DEF RouteInvariant, ExpiryKnown
  <2>9. cache' = cache /\ lookup' = lookup /\ now' = now
    BY <1>5 DEF Commit
  <2> QED
    BY <1>2, <2>2, <2>4, <2>7, <2>8, <2>9 DEF RouteInvariant, ExpiryKnown
<1> QED
  BY <1>3, <1>4, <1>5

LEMMA DistinctDecisions ==
    ASSUME NEW s, NEW t, NEW among
    PROVE  /\ Decision("connect", {s}) = Decision("connect", {t}) => s = t
           /\ Decision("reject", among) # Decision("connect", {s})
           /\ Decision("ask", among) # Decision("connect", {s})
  BY DEF Decision

(* An answer that is not a connection breaks no promise about one.         *)
LEMMA OtherAnswer ==
    ASSUME answer' = NoAnswer \/ \E c, asked, among, status :
              \/ Reject(c, asked, status)
              \/ Decide(c, asked, Decision("ask", among), FALSE, status)
    PROVE  (ExpiryHolds /\ CapCarried)'
<1>1. CASE answer' = NoAnswer
  BY <1>1 DEF ExpiryHolds, CapCarried, Connects
<1>2. ASSUME NEW c, NEW asked, NEW status, Reject(c, asked, status)
      PROVE  \A s : ~Connects(s)'
  BY <1>2, DistinctDecisions DEF Reject, Decide, Connects
<1>3. ASSUME NEW c, NEW asked, NEW among, NEW status,
             Decide(c, asked, Decision("ask", among), FALSE, status)
      PROVE  \A s : ~Connects(s)'
  BY <1>3, DistinctDecisions DEF Decide, Connects
<1>4. (\A s : ~Connects(s)') => (ExpiryHolds /\ CapCarried)'
  BY DEF ExpiryHolds, CapCarried
<1> QED
  BY <1>1, <1>2, <1>3, <1>4

(* A connection to a session that has not had its last expiry and whose    *)
(* cap is told                                                             *)
LEMMA ConnectAnswer ==
    ASSUME NEW s \in Ids, NEW c, NEW asked, NEW capped \in BOOLEAN,
           Decide(c, asked, Decision("connect", {s}), capped, ""),
           asked < latest[s], latest' = latest, capped = (s \in Capped)
    PROVE  (ExpiryHolds /\ CapCarried)'
<1>1. \A t : Connects(t)' => t = s
  BY DistinctDecisions DEF Decide, Connects
<1>2. answer'.asked = asked /\ answer'.capped = capped
  BY DEF Decide
<1>3. ExpiryHolds'
  BY <1>1, <1>2 DEF ExpiryHolds
<1>4. ASSUME NEW t \in Ids, Connects(t)'
      PROVE  answer'.capped = (t \in Capped)
  <2>1. t = s
    BY <1>1, <1>4
  <2> QED
    BY <1>2, <2>1, Zenon
<1>5. CapCarried'
  BY <1>4 DEF CapCarried
<1> QED
  BY <1>3, <1>5

LEMMA CacheAnswerRoutes ==
    ASSUME RouteInvariant, NEW c \in Callers, AnswerFromCache(c)
    PROVE  (ExpiryKnown /\ CacheUncapped /\ ExpiryHolds /\ CapCarried)'
<1>1. lookup' = NoLookup
  BY DEF AnswerFromCache, Reject, Decide
<1>2. (ExpiryKnown /\ CacheUncapped)'
  BY <1>1 DEF AnswerFromCache, RouteInvariant, ExpiryKnown, CacheUncapped, NoLookup
<1>3. CASE cache[c].kind = "miss"
  BY <1>2, <1>3, OtherAnswer DEF AnswerFromCache
<1>4. CASE cache[c].kind # "miss"
  <2> DEFINE s == cache[c].session
  <2>1. cache[c].kind = "route" /\ s \in Ids /\ cache[c].expires_at \in Nat
    BY <1>4, EntryFields DEF AnswerFromCache, Usable, RouteInvariant
  <2>2. Decide(c, now, Decision("connect", {s}), FALSE, "")
    BY <1>4 DEF AnswerFromCache
  <2>3. now < latest[s]
    <3>1. now \in Nat /\ latest[s] \in Nat
      BY <2>1 DEF RouteInvariant, TypeOK
    <3>2. cache[c].expires_at > now /\ cache[c].expires_at <= latest[s]
      BY <2>1 DEF AnswerFromCache, Usable, RouteInvariant, ExpiryKnown
    <3> QED
      BY <2>1, <3>1, <3>2
  <2>4. FALSE = (s \in Capped)
    BY <2>1 DEF RouteInvariant, CacheUncapped
  <2>5. latest' = latest
    BY DEF AnswerFromCache
  <2> QED
    BY <1>2, <2>1, <2>2, <2>3, <2>4, <2>5, ConnectAnswer
<1> QED
  BY <1>3, <1>4

LEMMA LoadRoutes ==
    ASSUME RouteInvariant, NEW c \in Callers, LoadCandidates(c)
    PROVE  (ExpiryKnown /\ CacheUncapped /\ ExpiryHolds /\ CapCarried)'
<1> DEFINE live == LiveIn(db, now, c)
           with_code == {s \in live : db[s].pin}
<1>1. lookup.asked \in Nat /\ lookup.asked <= now /\ now \in Nat
  BY LookupFields DEF LoadCandidates, RouteInvariant, ExpiryKnown, TypeOK
<1>2. CacheUncapped'
  BY DEF LoadCandidates, RouteInvariant, CacheUncapped
<1>3. /\ \A s \in Ids : db'[s].expires_at <= latest'[s]
      /\ \A x \in Callers : cache'[x].kind = "route" =>
                                cache'[x].expires_at <= latest'[cache'[x].session]
  BY DEF LoadCandidates, RouteInvariant, ExpiryKnown
<1>4. CASE lookup' = [at |-> "had", caller |-> c, asked |-> lookup.asked,
                      since |-> now] /\ answer' = NoAnswer
  BY <1>2, <1>3, <1>4, OtherAnswer DEF ExpiryKnown
<1>5. ASSUME NEW s \in live, answer' = NoAnswer,
             lookup' = [at |-> "single", caller |-> c,
                        asked |-> lookup.asked, since |-> now, session |-> s,
                        expires_at |-> db[s].expires_at,
                        ttl |-> Remaining(db[s].expires_at, now)]
      PROVE  (ExpiryKnown /\ CacheUncapped /\ ExpiryHolds /\ CapCarried)'
  <2>1. s \in Ids /\ db[s].expires_at \in Nat /\ db[s].expires_at > now
    BY DEF RouteInvariant, TypeOK, Rows, LiveIn
  <2>2. lookup.asked < db[s].expires_at
    BY <1>1, <2>1
  <2>3. db[s].expires_at <= latest'[s]
    BY <2>1 DEF LoadCandidates, RouteInvariant, ExpiryKnown
  <2> QED
    BY <1>2, <1>3, <1>5, <2>2, <2>3, OtherAnswer DEF ExpiryKnown
<1>6. CASE \/ Reject(c, lookup.asked, "failed")
           \/ Decide(c, lookup.asked, Decision("ask", with_code), FALSE, "")
  <2>1. lookup' = NoLookup
    BY <1>6 DEF Reject, Decide
  <2> QED
    BY <1>2, <1>3, <1>6, <2>1, OtherAnswer DEF ExpiryKnown, NoLookup
<1> QED
  BY <1>4, <1>5, <1>6 DEF LoadCandidates

LEMMA RefusalRoutes ==
    ASSUME RouteInvariant, NEW c \in Callers,
           MissCache(c) \/ RejectWithoutSession(c) \/ CacheMiss(c)
    PROVE  (ExpiryKnown /\ CacheUncapped /\ ExpiryHolds /\ CapCarried)'
<1>1. lookup'.at \in {"load", "miss", "idle"}
  BY DEF MissCache, RejectWithoutSession, CacheMiss, Reject, Decide, NoLookup
<1>2. lookup'.at = "load" => lookup'.asked <= now'
  BY DEF MissCache, RejectWithoutSession, CacheMiss, Reject, Decide, NoLookup,
         RouteInvariant, TypeOK
<1>3. db' = db /\ latest' = latest
  BY DEF MissCache, RejectWithoutSession, CacheMiss
<1>4. \A x \in Callers : cache'[x].kind = "route" => cache'[x] = cache[x]
  BY DEF MissCache, RejectWithoutSession, CacheMiss, MissEntry, RouteInvariant,
         TypeOK
<1>5. (ExpiryHolds /\ CapCarried)'
  BY OtherAnswer DEF MissCache, RejectWithoutSession, CacheMiss
<1> QED
  BY <1>1, <1>2, <1>3, <1>4, <1>5 DEF RouteInvariant, ExpiryKnown, CacheUncapped

LEMMA CacheSingleRoutes ==
    ASSUME RouteInvariant, NEW c \in Callers, CacheSingle(c)
    PROVE  (ExpiryKnown /\ CacheUncapped /\ ExpiryHolds /\ CapCarried)'
<1> DEFINE s == lookup.session
           entry == [kind |-> "route", session |-> s,
                     expires_at |-> lookup.expires_at,
                     until |-> now + lookup.ttl, since |-> lookup.since]
<1>1. /\ lookup.asked \in Nat /\ s \in Ids /\ lookup.expires_at \in Nat
      /\ lookup.asked < lookup.expires_at /\ lookup.expires_at <= latest[s]
  BY LookupFields DEF CacheSingle, RouteInvariant, ExpiryKnown
<1>2. db' = db /\ latest' = latest
  BY DEF CacheSingle
<1>3. Decide(c, lookup.asked, Decision("connect", {s}), s \in Capped, "")
  BY DEF CacheSingle
<1>4. lookup' = NoLookup
  BY <1>3 DEF Decide
<1>5. (ExpiryHolds /\ CapCarried)'
  <2>1. lookup.asked < latest[s]
    BY <1>1 DEF RouteInvariant, TypeOK
  <2>2. (s \in Capped) \in BOOLEAN
    OBVIOUS
  <2> QED
    BY <1>1, <1>2, <1>3, <2>1, <2>2, ConnectAnswer, Zenon
<1>6. CASE Cacheable(s, lookup.ttl) /\ cache' = [cache EXCEPT ![c] = entry]
  <2>1. s \notin Capped
    BY <1>6 DEF Cacheable
  <2>2. \A x \in Callers : cache'[x] = IF x = c THEN entry ELSE cache[x]
    BY <1>6 DEF RouteInvariant, TypeOK
  <2>3. CacheUncapped'
    BY <2>1, <2>2 DEF RouteInvariant, CacheUncapped
  <2>4. ExpiryKnown'
    BY <1>1, <1>2, <1>4, <2>2 DEF RouteInvariant, ExpiryKnown, NoLookup
  <2> QED
    BY <1>5, <2>3, <2>4
<1>7. CASE cache' = cache
  BY <1>2, <1>4, <1>5, <1>7 DEF RouteInvariant, ExpiryKnown, CacheUncapped, NoLookup
<1> QED
  BY <1>6, <1>7 DEF CacheSingle

LEMMA TickRoutes ==
    ASSUME RouteInvariant, Tick
    PROVE  (ExpiryKnown /\ CacheUncapped /\ ExpiryHolds /\ CapCarried)'
<1>1. db' = db /\ latest' = latest /\ lookup' = lookup
  BY DEF Tick
<1>2. \A x \in Callers : cache'[x].kind = "route" => cache'[x] = cache[x]
  BY DEF Tick, NoEntry
<1>3. lookup.at = "load" => lookup.asked <= now'
  BY LookupFields DEF Tick, RouteInvariant, TypeOK, ExpiryKnown
<1>4. (ExpiryHolds /\ CapCarried)'
  BY OtherAnswer DEF Tick
<1> QED
  BY <1>1, <1>2, <1>3, <1>4 DEF RouteInvariant, ExpiryKnown, CacheUncapped

LEMMA NextRoutes == RouteInvariant /\ [Next]_vars => RouteInvariant'
<1> SUFFICES ASSUME RouteInvariant, [Next]_vars PROVE RouteInvariant'
  OBVIOUS
<1>1. TypeOK'
  BY NextTypeOK DEF RouteInvariant
<1> DEFINE kept == (ExpiryKnown /\ CacheUncapped /\ ExpiryHolds /\ CapCarried)'
<1> SUFFICES kept
  BY <1>1 DEF RouteInvariant
<1>2. ASSUME NEW s \in Ids, NEW ttl \in 1..MaxTtl, NEW pin \in BOOLEAN,
             CreateSession(s, ttl, pin)
      PROVE  kept
  BY <1>2, BeginRoutes DEF CreateSession
<1>3. ASSUME NEW s \in Ids, NEW e, ExtendSession(s, e) PROVE kept
  BY <1>3, BeginRoutes DEF ExtendSession
<1>4. ASSUME NEW s \in Ids, CloseSession(s) PROVE kept
  BY <1>4, BeginRoutes DEF CloseSession
<1>5. ASSUME NEW batch, ExpireDue(batch) PROVE kept
  BY <1>5, BeginRoutes DEF ExpireDue
<1>6. ASSUME NEW batch, Purge(batch) PROVE kept
  BY <1>6, BeginRoutes DEF Purge
<1>7. CASE InvalidationFails \/ Commit \/ Rollback
  BY <1>7, FinishRoutes
<1>8. ASSUME NEW c \in Callers, DeleteKey(c) PROVE kept
  BY <1>8, FinishRoutes
<1>9. ASSUME NEW c \in Callers, AnswerFromCache(c) PROVE kept
  BY <1>9, CacheAnswerRoutes
<1>10. ASSUME NEW c \in Callers, LoadCandidates(c) PROVE kept
  BY <1>10, LoadRoutes
<1>11. ASSUME NEW c \in Callers,
              MissCache(c) \/ RejectWithoutSession(c) \/ CacheMiss(c)
       PROVE  kept
  BY <1>11, RefusalRoutes
<1>12. ASSUME NEW c \in Callers, CacheSingle(c) PROVE kept
  BY <1>12, CacheSingleRoutes
<1>13. CASE Tick
  BY <1>13, TickRoutes
<1>14. CASE UNCHANGED vars
  BY <1>14 DEF vars, RouteInvariant, ExpiryKnown, CacheUncapped, ExpiryHolds,
               CapCarried, Connects
<1> QED
  BY <1>2, <1>3, <1>4, <1>5, <1>6, <1>7, <1>8, <1>9, <1>10, <1>11, <1>12,
     <1>13, <1>14 DEF Next

LEMMA InitRoutes == Init => RouteInvariant
<1> SUFFICES ASSUME Init PROVE RouteInvariant
  OBVIOUS
<1>1. ExpiryKnown /\ CacheUncapped
  BY DEF Init, ExpiryKnown, CacheUncapped, Over, NoEntry, NoLookup
<1>2. ExpiryHolds /\ CapCarried
  BY DEF Init, ExpiryHolds, CapCarried, Connects
<1> QED
  BY <1>1, <1>2, InitTypeOK DEF RouteInvariant

(* A call that comes in after every expiry its session was ever given is   *)
(* not connected to it: not from the database, and not from a cache entry, *)
(* however late it was written (_cache_single, _decision_from_cache).      *)
THEOREM NeverPastExpiry == Spec => []ExpiryHolds
<1>1. RouteInvariant => ExpiryHolds
  BY DEF RouteInvariant
<1> QED
  BY <1>1, InitRoutes, NextRoutes, PTL DEF Spec

(* A call to a session with a cap is told the cap, since no route of one   *)
(* is ever cached (_cache_single).                                         *)
THEOREM CapAlwaysCarried == Spec => []CapCarried
<1>1. RouteInvariant => CapCarried
  BY DEF RouteInvariant
<1> QED
  BY <1>1, InitRoutes, NextRoutes, PTL DEF Spec

-----------------------------------------------------------------------------
(* What the refinement rests on                                            *)

(* Active sessions that share a party have PINs.                           *)
PinsGiven(rows) ==
    \A x, y \in Ids :
        /\ x # y /\ PartiesOf[x] \cap PartiesOf[y] # {}
        /\ rows[x].status = "active" /\ rows[y].status = "active"
        => rows[x].pin /\ rows[y].pin

Pinned == PinsGiven(db) /\ (tx # NoTx => PinsGiven(tx.db))

(* How old a lookup and a cache entry may be: an entry is dropped before   *)
(* its decision is too old to be given.                                    *)
Ages ==
    /\ lookup # NoLookup => now <= lookup.asked + Latency
    /\ lookup.at \in {"had", "miss", "single"} => lookup.asked <= lookup.since
    /\ lookup.at = "single" => lookup.ttl <= LookupTtl
    /\ \A c \in Callers :
          /\ cache[c].kind # "none" => cache[c].until > now
          /\ cache[c].kind = "miss" =>
                cache[c].until <= cache[c].since + (Latency + NegativeTtl)
          /\ cache[c].kind = "route" =>
                cache[c].until <= cache[c].since + (Latency + LookupTtl)

StepInvariant == RouteInvariant /\ Pinned /\ Ages

LEMMA BeginPinned ==
    ASSUME Pinned, NEW rows, NEW keys, Begin(rows, keys), PinsGiven(rows)
    PROVE  Pinned'
  BY DEF Pinned, Begin, PinsGiven, NoTx

LEMMA CreatePinned ==
    ASSUME TypeOK, Pinned, NEW s \in Ids, NEW ttl, NEW pin \in BOOLEAN,
           CreateSession(s, ttl, pin)
    PROVE  Pinned'
<1> DEFINE row == [status |-> "active", expires_at |-> now + ttl, pin |-> pin]
           rows == [x \in Ids |->
                       IF x = s THEN row
                       ELSE IF x \in Conflicting(s) THEN [db[x] EXCEPT !.pin = TRUE]
                       ELSE db[x]]
<1>1. Begin(rows, Callers)
  BY DEF CreateSession
<1>2. \A x \in Ids : x # s => rows[x].status = db[x].status
  BY DEF TypeOK, Rows
<1>3. \A x \in Ids : x # s /\ db[x].pin => rows[x].pin
  BY DEF TypeOK, Rows
<1>4. \A x \in Conflicting(s) : x # s => rows[x].pin
  BY DEF TypeOK, Rows, Conflicting
<1>5. rows[s].pin = pin
  OBVIOUS
<1>6. Conflicting(s) # {} => pin
  BY DEF CreateSession
<1>7. ASSUME NEW x \in Ids, NEW y \in Ids, x # y,
             PartiesOf[x] \cap PartiesOf[y] # {},
             rows[x].status = "active", rows[y].status = "active"
      PROVE  rows[x].pin /\ rows[y].pin
  <2>1. CASE x = s
    <3>1. y \in Conflicting(s)
      BY <1>2, <1>7, <2>1 DEF Conflicting
    <3> QED
      BY <1>4, <1>5, <1>6, <1>7, <2>1, <3>1
  <2>2. CASE y = s
    <3>1. x \in Conflicting(s)
      BY <1>2, <1>7, <2>2 DEF Conflicting
    <3> QED
      BY <1>4, <1>5, <1>6, <1>7, <2>2, <3>1
  <2>3. CASE x # s /\ y # s
    <3>1. db[x].pin /\ db[y].pin
      BY <1>2, <1>7, <2>3 DEF Pinned, PinsGiven
    <3> QED
      BY <1>3, <2>3, <3>1
  <2> QED
    BY <2>1, <2>2, <2>3
<1>8. PinsGiven(rows)
  BY <1>7 DEF PinsGiven
<1> QED
  BY <1>1, <1>8, BeginPinned

LEMMA NextPinned == TypeOK /\ Pinned /\ [Next]_vars => Pinned'
<1> SUFFICES ASSUME TypeOK, Pinned, [Next]_vars PROVE Pinned'
  OBVIOUS
<1>1. ASSUME NEW s \in Ids, NEW ttl \in 1..MaxTtl, NEW pin \in BOOLEAN,
             CreateSession(s, ttl, pin)
      PROVE  Pinned'
  BY <1>1, CreatePinned
<1>2. ASSUME NEW s \in Ids, NEW e, ExtendSession(s, e) PROVE Pinned'
  <2>1. PinsGiven([db EXCEPT ![s].expires_at = e])
    BY DEF Pinned, PinsGiven, TypeOK, Rows
  <2> QED
    BY <1>2, <2>1, BeginPinned DEF ExtendSession
<1>3. ASSUME NEW s \in Ids, CloseSession(s) PROVE Pinned'
  <2>1. PinsGiven([db EXCEPT ![s] = Over("closed")])
    BY DEF Pinned, PinsGiven, TypeOK, Rows, Over
  <2> QED
    BY <1>3, <2>1, BeginPinned DEF CloseSession
<1>4. ASSUME NEW batch \in SUBSET Ids, ExpireDue(batch) \/ Purge(batch)
      PROVE  Pinned'
  <2>1. \A st \in {"none", "expired"} :
           PinsGiven([s \in Ids |-> IF s \in batch THEN Over(st) ELSE db[s]])
    BY DEF Pinned, PinsGiven, TypeOK, Rows, Over
  <2>2. CASE ExpireDue(batch)
    BY <2>1, <2>2, BeginPinned DEF ExpireDue
  <2>3. CASE Purge(batch)
    BY <2>1, <2>3, BeginPinned DEF Purge
  <2> QED
    BY <1>4, <2>2, <2>3
<1>5. tx.open => tx # NoTx
  <2>1. NoTx.open = FALSE
    BY DEF NoTx
  <2> QED
    BY <2>1, Zenon
<1>6. CASE InvalidationFails \/ \E c \in Callers : DeleteKey(c)
  <2>1. tx.open
    BY <1>6 DEF InvalidationFails, DeleteKey
  <2>2. tx \in [open : {TRUE}, db : Rows, todo : SUBSET Callers]
    BY <1>5, <2>1 DEF TypeOK, Transactions
  <2>3. db' = db /\ tx'.db = tx.db
    BY <1>6, <2>2 DEF InvalidationFails, DeleteKey
  <2> QED
    BY <1>5, <2>1, <2>3 DEF Pinned, PinsGiven
<1>7. CASE Commit \/ Rollback
  BY <1>5, <1>7 DEF Commit, Rollback, Pinned, PinsGiven
<1>8. CASE /\ db' = db /\ tx' = tx
  BY <1>8 DEF Pinned, PinsGiven
<1>9. ASSUME NEW c \in Callers,
             \/ AnswerFromCache(c) \/ MissCache(c) \/ LoadCandidates(c)
             \/ RejectWithoutSession(c) \/ CacheMiss(c) \/ CacheSingle(c)
      PROVE  Pinned'
  BY <1>8, <1>9 DEF AnswerFromCache, MissCache, LoadCandidates,
                    RejectWithoutSession, CacheMiss, CacheSingle
<1>10. CASE Tick \/ UNCHANGED vars
  BY <1>8, <1>10 DEF Tick, vars
<1> QED
  BY <1>1, <1>2, <1>3, <1>4, <1>6, <1>7, <1>9, <1>10 DEF Next

-----------------------------------------------------------------------------
(* Ages                                                                    *)

LEMMA QuietAges ==
    ASSUME Ages, now' = now, lookup' = lookup \/ lookup' = NoLookup,
           \A c \in Callers : cache'[c].kind # "none" => cache'[c] = cache[c]
    PROVE  Ages'
  BY DEF Ages, NoLookup

LEMMA NextAges == StepInvariant /\ [Next]_vars => Ages'
<1> SUFFICES ASSUME StepInvariant, [Next]_vars PROVE Ages'
  OBVIOUS
<1> USE DEF StepInvariant
<1>1. TypeOK /\ now \in Nat
  BY DEF RouteInvariant, TypeOK
<1>2. CASE \/ \E s, ttl, pin : CreateSession(s, ttl, pin)
           \/ \E s, e : ExtendSession(s, e)
           \/ \E s : CloseSession(s)
           \/ \E batch : ExpireDue(batch) \/ Purge(batch)
  <2>1. \E rows, keys : Begin(rows, keys)
    BY <1>2 DEF CreateSession, ExtendSession, CloseSession, ExpireDue, Purge
  <2> QED
    BY <2>1, QuietAges DEF Begin
<1>3. CASE InvalidationFails \/ Commit \/ Rollback \/ UNCHANGED vars
  BY <1>3, QuietAges DEF InvalidationFails, Commit, Rollback, vars
<1>4. ASSUME NEW c \in Callers, DeleteKey(c) PROVE Ages'
  <2>1. \A x \in Callers : cache'[x].kind # "none" => cache'[x] = cache[x]
    BY <1>1, <1>4 DEF DeleteKey, TypeOK, NoEntry
  <2> QED
    BY <1>4, <2>1, QuietAges DEF DeleteKey
<1>5. ASSUME NEW c \in Callers, AnswerFromCache(c) PROVE Ages'
  BY <1>5, QuietAges DEF AnswerFromCache, Reject, Decide
<1>6. ASSUME NEW c \in Callers, MissCache(c) PROVE Ages'
  BY <1>1, <1>6, RoutingAssumption DEF MissCache, Ages
<1>7. ASSUME NEW c \in Callers, LoadCandidates(c) PROVE Ages'
  <2>1. /\ lookup # NoLookup /\ lookup.asked <= now /\ lookup.asked \in Nat
        /\ now <= lookup.asked + Latency
    BY <1>1, <1>7, LookupFields
       DEF LoadCandidates, RouteInvariant, ExpiryKnown, Ages
  <2>2. now' = now /\ cache' = cache
    BY <1>7 DEF LoadCandidates
  <2>3. CASE lookup' = [at |-> "had", caller |-> c, asked |-> lookup.asked,
                        since |-> now]
    BY <2>1, <2>2, <2>3 DEF Ages
  <2>4. ASSUME NEW s \in LiveIn(db, now, c),
               lookup' = [at |-> "single", caller |-> c,
                          asked |-> lookup.asked, since |-> now, session |-> s,
                          expires_at |-> db[s].expires_at,
                          ttl |-> Remaining(db[s].expires_at, now)]
        PROVE  Ages'
    <3>1. db[s].expires_at \in Nat
      BY <1>1 DEF LiveIn, TypeOK, Rows
    <3>2. Remaining(db[s].expires_at, now) <= LookupTtl
      BY <1>1, <3>1, RoutingAssumption DEF Remaining
    <3> QED
      BY <2>1, <2>2, <2>4, <3>2 DEF Ages
  <2>5. CASE lookup' = NoLookup
    BY <2>2, <2>5, QuietAges
  <2> QED
    BY <1>7, <2>3, <2>4, <2>5 DEF LoadCandidates, Reject, Decide
<1>8. ASSUME NEW c \in Callers, RejectWithoutSession(c) PROVE Ages'
  <2>1. lookup # NoLookup /\ lookup.asked <= lookup.since
    BY <1>1, <1>8, LookupFields DEF RejectWithoutSession, Ages
  <2> QED
    BY <1>8, <2>1 DEF RejectWithoutSession, Ages
<1>9. ASSUME NEW c \in Callers, CacheMiss(c) PROVE Ages'
  <2>1. /\ lookup # NoLookup /\ lookup.asked <= lookup.since
        /\ lookup.asked \in Nat /\ lookup.since \in Nat
        /\ now <= lookup.asked + Latency
    BY <1>1, <1>9, LookupFields DEF CacheMiss, Ages
  <2>2. /\ MissEntry.kind = "miss" /\ MissEntry.until > now
        /\ MissEntry.until <= MissEntry.since + (Latency + NegativeTtl)
    BY <1>1, <2>1, RoutingAssumption DEF MissEntry
  <2>3. lookup' = NoLookup /\ now' = now
    BY <1>9 DEF CacheMiss, Reject, Decide
  <2>4. \A x \in Callers : cache'[x] \in {cache[x], MissEntry}
    BY <1>1, <1>9 DEF CacheMiss, TypeOK
  <2> QED
    BY <2>2, <2>3, <2>4 DEF Ages, NoLookup
<1>10. ASSUME NEW c \in Callers, CacheSingle(c) PROVE Ages'
  <2> DEFINE entry == [kind |-> "route", session |-> lookup.session,
                       expires_at |-> lookup.expires_at,
                       until |-> now + lookup.ttl, since |-> lookup.since]
  <2>1. /\ lookup # NoLookup /\ lookup.asked <= lookup.since
        /\ lookup.asked \in Nat /\ lookup.since \in Nat /\ lookup.ttl \in Nat
        /\ now <= lookup.asked + Latency /\ lookup.ttl <= LookupTtl
    BY <1>1, <1>10, LookupFields DEF CacheSingle, Ages
  <2>2. lookup' = NoLookup /\ now' = now
    BY <1>10 DEF CacheSingle, Decide
  <2>3. CASE Cacheable(lookup.session, lookup.ttl)
             /\ cache' = [cache EXCEPT ![c] = entry]
    <3>1. /\ entry.kind = "route" /\ entry.until > now
          /\ entry.until <= entry.since + (Latency + LookupTtl)
      BY <1>1, <2>1, <2>3, RoutingAssumption DEF Cacheable
    <3>2. \A x \in Callers : cache'[x] \in {cache[x], entry}
      BY <1>1, <2>3 DEF TypeOK
    <3> HIDE DEF entry
    <3> QED
      BY <2>2, <3>1, <3>2 DEF Ages, NoLookup
  <2>4. CASE cache' = cache
    BY <2>2, <2>4, QuietAges
  <2> QED
    BY <1>10, <2>3, <2>4 DEF CacheSingle
<1>11. CASE Tick
  <2>1. lookup' = lookup /\ now' = now + 1
    BY <1>11 DEF Tick
  <2>2. lookup # NoLookup => now < lookup.asked + Latency /\ lookup.asked \in Nat
    BY <1>1, <1>11, LookupFields DEF Tick
  <2>3. lookup # NoLookup => now' <= lookup'.asked + Latency
    BY <1>1, <2>1, <2>2, RoutingAssumption
  <2>4. \A x \in Callers : cache'[x].kind # "none" =>
           cache'[x] = cache[x] /\ ~(cache[x].until <= now + 1)
    BY <1>11 DEF Tick, NoEntry
  <2>5. \A x \in Callers : cache[x].kind # "none" => cache[x].until \in Nat
    BY <1>1 DEF TypeOK, Entries, NoEntry
  <2>6. \A x \in Callers : cache'[x].kind # "none" => cache'[x].until > now'
    BY <1>1, <2>1, <2>4, <2>5
  <2> QED
    BY <2>1, <2>3, <2>4, <2>6 DEF Ages
<1> QED
  BY <1>2, <1>3, <1>4, <1>5, <1>6, <1>7, <1>8, <1>9, <1>10, <1>11 DEF Next

LEMMA InitSteps == Init => StepInvariant
<1> SUFFICES ASSUME Init PROVE StepInvariant
  OBVIOUS
<1>1. Pinned
  BY DEF Init, Pinned, PinsGiven, Over
<1>2. Ages
  BY DEF Init, Ages, NoLookup, NoEntry
<1> QED
  BY <1>1, <1>2, InitRoutes DEF StepInvariant

LEMMA NextSteps == StepInvariant /\ [Next]_vars => StepInvariant'
  BY NextRoutes, NextPinned, NextAges DEF StepInvariant, RouteInvariant

-----------------------------------------------------------------------------
(* The decision the database calls for                                     *)

LEMMA RightCases ==
    ASSUME NEW rows, NEW t, NEW c
    PROVE  LET live == LiveIn(rows, t, c)
           IN  /\ live = {} => Right(rows, t, c) = Decision("reject", {})
               /\ \A s \in Ids : live = {s} =>
                     Right(rows, t, c) = Decision("connect", {s})
               /\ live # {} /\ (\A s \in Ids : live # {s}) =>
                     Right(rows, t, c) = Decision("ask", live)
<1> DEFINE live == LiveIn(rows, t, c)
<1>1. \A s : Cardinality({s}) = 1
  BY FS_Singleton
<1>2. IsFiniteSet(live) /\ live \subseteq Ids
  BY RoutingAssumption, FS_Subset DEF LiveIn
<1>3. Cardinality(live) = 1 => \E s \in Ids : live = {s}
  BY <1>2, FS_Singleton
<1>4. Cardinality({}) = 0
  BY FS_EmptySet
<1>5. live = {} => Right(rows, t, c) = Decision("reject", {})
  BY <1>4 DEF Right
<1>6. ASSUME NEW s \in Ids, live = {s}
      PROVE  Right(rows, t, c) = Decision("connect", {s})
  BY <1>1, <1>6 DEF Right
<1>7. live # {} /\ (\A s \in Ids : live # {s}) =>
         Right(rows, t, c) = Decision("ask", live)
  BY <1>3 DEF Right
<1> QED
  BY <1>5, <1>6, <1>7

LEMMA RightType ==
    ASSUME NEW rows, NEW t, NEW c
    PROVE  Right(rows, t, c) \in Decisions
<1>1. LiveIn(rows, t, c) \in SUBSET Ids
  BY DEF LiveIn
<1> QED
  BY <1>1, RightCases DEF Decisions

LEMMA CurrentType ==
    /\ Current \in [Callers -> Decisions]
    /\ Current' \in [Callers -> Decisions]
<1>1. Current \in [Callers -> Decisions]
  BY RightType DEF Current
<1>2. \A c : Right(db', now', c) \in Decisions
  BY RightType
<1>3. Current' = [c \in Callers |-> Right(db', now', c)]
  BY DEF Current, Right, LiveIn
<1> QED
  BY <1>1, <1>2, <1>3

(* A caller with several live sessions can choose any of them by PIN.      *)
LEMMA EveryPinOffered ==
    ASSUME TypeOK, Pinned, NEW c \in Callers, LiveIn(db, now, c) # {},
           \A s \in Ids : LiveIn(db, now, c) # {s}
    PROVE  {s \in LiveIn(db, now, c) : db[s].pin} = LiveIn(db, now, c)
<1> DEFINE live == LiveIn(db, now, c)
<1>1. ASSUME NEW s \in live
      PROVE  db[s].pin
  <2>1. PICK x \in live : x # s
    BY DEF LiveIn
  <2>2. /\ s \in Ids /\ x \in Ids /\ c \in PartiesOf[s] \cap PartiesOf[x]
        /\ db[s].status = "active" /\ db[x].status = "active"
    BY <2>1 DEF LiveIn
  <2> QED
    BY <2>1, <2>2 DEF Pinned, PinsGiven
<1> QED
  BY <1>1

-----------------------------------------------------------------------------
(* Every step is a step of Router, or none                                 *)

LEMMA QuietStep ==
    ASSUME now' \in {now, now + 1}, Notes' \subseteq Notes, answer' = NoAnswer
    PROVE  Abstract!Change
<1>1. Told' = NoAnswer
  BY DEF Told
<1> QED
  BY <1>1, CurrentType DEF Abstract!Change

Decides(c, d) ==
    answer' # NoAnswer /\ answer'.caller = c /\ answer'.decision = d

LEMMA Decided ==
    ASSUME NEW c \in Callers, NEW asked \in Nat, NEW d \in Decisions,
           NEW capped \in BOOLEAN,
           NEW status \in {"", "expired", "unknown_caller", "failed"},
           Decide(c, asked, d, capped, status)
    PROVE  Decides(c, d) /\ lookup' = NoLookup
<1>1. answer' # NoAnswer
  BY DecideTypes, NoAnswerAssumption
<1> QED
  BY <1>1 DEF Decide, Decides

LEMMA AnswerStep ==
    ASSUME NEW c \in Callers, NEW d \in Decisions, Decides(c, d),
           now' = now, db' = db, Notes' \subseteq Notes,
           \/ d = Right(db, now, c)
           \/ \E note \in Notes : /\ note.caller = c /\ note.decision = d
                                   /\ note.at + StalenessOf[d] > now
    PROVE  Abstract!Answer(c, d)
<1>2. Told' = [caller |-> c, decision |-> d]
  BY DEF Told, Decides
<1>3. Current' = Current
  <2>1. Current' = [x \in Callers |-> Right(db', now', x)]
    BY DEF Current, Right, LiveIn
  <2> QED
    BY <2>1 DEF Current
<1>4. d = Right(db, now, c) => d = Current[c]
  BY DEF Current
<1> QED
  BY <1>2, <1>3, <1>4 DEF Abstract!Answer

(* The notes are those of the lookup and of the cache.                     *)
LEMMA FewerNotes ==
    ASSUME LookupNote' \subseteq Notes,
           \A c \in Callers : cache'[c].kind # "none" => cache'[c] = cache[c]
    PROVE  Notes' \subseteq Notes
<1>1. CacheNotes' \subseteq CacheNotes
  BY DEF CacheNotes
<1> QED
  BY <1>1 DEF Notes

LEMMA ControlStep ==
    ASSUME TypeOK, lookup' = lookup, now' = now, answer' = NoAnswer,
           \A c \in Callers : cache'[c].kind # "none" => cache'[c] = cache[c]
    PROVE  Abstract!Next
<1>1. LookupNote' = LookupNote
  BY DEF LookupNote
<1>2. Notes' \subseteq Notes
  BY <1>1, FewerNotes DEF Notes
<1> QED
  BY <1>2, QuietStep DEF Abstract!Next

(* A lookup that finds a session notes it; several sessions are offered.   *)
LEMMA LoadStep ==
    ASSUME StepInvariant, NEW c \in Callers, LoadCandidates(c)
    PROVE  Abstract!Next
<1> DEFINE live == LiveIn(db, now, c)
           with_code == {s \in live : db[s].pin}
<1>1. TypeOK /\ Pinned /\ lookup.asked \in Nat
  BY LookupFields DEF StepInvariant, RouteInvariant, LoadCandidates
<1>2. now' = now /\ db' = db /\ cache' = cache
  BY DEF LoadCandidates
<1>3. Current' = Current
  <2>1. Current' = [x \in Callers |-> Right(db', now', x)]
    BY DEF Current, Right, LiveIn
  <2> QED
    BY <1>2, <2>1 DEF Current
<1>4. Current[c] = Right(db, now, c)
  BY DEF Current
<1>5. CacheNotes' = CacheNotes
  BY <1>2 DEF CacheNotes
<1>6. CASE live = {}
  <2>1. lookup' = [at |-> "had", caller |-> c, asked |-> lookup.asked,
                   since |-> now] /\ answer' = NoAnswer
    <3>1. ~(Cardinality(live) > 1)
      BY <1>6, FS_EmptySet
    <3> QED
      BY <1>6, <3>1 DEF LoadCandidates
  <2>2. Current[c] = Decision("reject", {})
    BY <1>4, <1>6, RightCases
  <2>3. LookupNote' \subseteq {Abstract!Note(c)}
    BY <2>1, <2>2 DEF LookupNote, Abstract!Note
  <2>4. Notes' \subseteq Notes \cup {Abstract!Note(c)}
    BY <1>5, <2>3 DEF Notes
  <2>5. Told' = NoAnswer
    BY <2>1 DEF Told
  <2>6. Abstract!Read(c)
    BY <1>2, <1>3, <2>4, <2>5 DEF Abstract!Read
  <2> QED
    BY <2>6 DEF Abstract!Next
<1>7. ASSUME NEW s \in live, live = {s}
      PROVE  Abstract!Next
  <2>1. /\ lookup'.at = "single" /\ lookup'.caller = c /\ lookup'.since = now
        /\ lookup'.session = s /\ answer' = NoAnswer
    <3>1. ~(Cardinality(live) > 1)
      <4>1. Cardinality({s}) = 1
        BY FS_Singleton
      <4> QED
        BY <1>7, <4>1
    <3>2. live # {}
      BY <1>7
    <3>3. PICK x \in live :
             /\ live = {x}
             /\ lookup' = [at |-> "single", caller |-> c,
                           asked |-> lookup.asked, since |-> now, session |-> x,
                           expires_at |-> db[x].expires_at,
                           ttl |-> Remaining(db[x].expires_at, now)]
             /\ answer' = NoAnswer
      BY <3>1, <3>2 DEF LoadCandidates
    <3>4. x = s
      BY <1>7, <3>3
    <3> QED
      BY <3>3, <3>4
  <2>2. Current[c] = Decision("connect", {s})
    <3>1. s \in Ids
      BY DEF LiveIn
    <3> QED
      BY <1>4, <1>7, <3>1, RightCases
  <2>3. LookupNote' \subseteq {Abstract!Note(c)}
    BY <2>1, <2>2 DEF LookupNote, Abstract!Note
  <2>4. Notes' \subseteq Notes \cup {Abstract!Note(c)}
    BY <1>5, <2>3 DEF Notes
  <2>5. Told' = NoAnswer
    BY <2>1 DEF Told
  <2>6. Abstract!Read(c)
    BY <1>2, <1>3, <2>4, <2>5 DEF Abstract!Read
  <2> QED
    BY <2>6 DEF Abstract!Next
<1>8. CASE live # {} /\ \A s \in Ids : live # {s}
  <2>1. with_code = live
    BY <1>1, <1>8, EveryPinOffered
  <2>2. Decide(c, lookup.asked, Decision("ask", live), FALSE, "")
    <3>1. \A s \in live : s \in Ids
      BY DEF LiveIn
    <3> QED
      BY <1>8, <2>1, <3>1 DEF LoadCandidates
  <2>3. Right(db, now, c) = Decision("ask", live)
    BY <1>8, RightCases
  <2>4. Decision("ask", live) \in Decisions
    BY <2>3, RightType
  <2>5. Decides(c, Decision("ask", live)) /\ lookup' = NoLookup
    BY <1>1, <2>2, <2>4, Decided
  <2>6. Notes' \subseteq Notes
    BY <1>5, <2>5 DEF Notes, LookupNote, NoLookup
  <2>7. Abstract!Answer(c, Decision("ask", live))
    BY <1>2, <2>3, <2>4, <2>5, <2>6, AnswerStep
  <2> QED
    BY <2>4, <2>7 DEF Abstract!Next
<1> QED
  BY <1>6, <1>7, <1>8 DEF LiveIn

LEMMA StalenessBound ==
    ASSUME NEW d \in Decisions
    PROVE  StalenessOf[d] \in Nat /\ StalenessOf[d] > Latency
<1>1. StalenessOf[d] = Latency + (IF d.action = "reject" THEN NegativeTtl
                                  ELSE LookupTtl)
  BY DEF StalenessOf
<1> QED
  BY <1>1, RoutingAssumption

LEMMA StillTold ==
    ASSUME NEW asked \in Nat, NEW at \in Nat, NEW t \in Nat, NEW old \in Nat,
           t <= asked + Latency, asked <= at, old > Latency
    PROVE  at + old > t
  BY RoutingAssumption

(* A lookup that ends with a refusal or a connection gives its note, which *)
(* the cache may keep.                                                     *)
LEMMA NoteAnswered ==
    ASSUME StepInvariant, NEW c \in Callers, NEW entry, NEW d \in Decisions,
           lookup # NoLookup, lookup.since \in Nat, lookup.asked \in Nat,
           Decides(c, d), lookup' = NoLookup,
           [caller |-> c, at |-> lookup.since, decision |-> d] \in LookupNote,
           now' = now, db' = db, cache' \in {cache, [cache EXCEPT ![c] = entry]},
           entry.since = lookup.since,
           d = IF entry.kind = "route" THEN Decision("connect", {entry.session})
               ELSE Decision("reject", {})
    PROVE  Abstract!Next
<1> DEFINE note == [caller |-> c, at |-> lookup.since, decision |-> d]
<1>1. now \in Nat /\ cache \in [Callers -> Entries]
  BY DEF StepInvariant, RouteInvariant, TypeOK
<1>2. now <= lookup.asked + Latency /\ lookup.asked <= lookup.since
  BY LookupFields DEF StepInvariant, RouteInvariant, Ages, LookupNote
<1>3. StalenessOf[d] \in Nat /\ StalenessOf[d] > Latency
  BY StalenessBound
<1>4. lookup.since + StalenessOf[d] > now
  BY <1>1, <1>2, <1>3, StillTold
<1>5. note \in Notes
  BY DEF Notes
<1>6. CacheNotes' \subseteq CacheNotes \cup {note}
  <2>1. ASSUME NEW x \in Callers, cache'[x].kind # "none"
        PROVE  [caller |-> x, at |-> cache'[x].since,
                decision |-> IF cache'[x].kind = "route"
                             THEN Decision("connect", {cache'[x].session})
                             ELSE Decision("reject", {})]
                  \in CacheNotes \cup {note}
    <3>1. CASE cache'[x] = cache[x]
      BY <2>1, <3>1 DEF CacheNotes
    <3>2. CASE x = c /\ cache'[x] = entry
      BY <3>2
    <3> QED
      BY <1>1, <3>1, <3>2
  <2> QED
    BY <2>1 DEF CacheNotes
<1>7. LookupNote' = {}
  BY DEF LookupNote, NoLookup
<1>8. Notes' \subseteq Notes
  BY <1>5, <1>6, <1>7 DEF Notes
<1>9. Abstract!Answer(c, d)
  BY <1>4, <1>5, <1>8, AnswerStep
<1> QED
  BY <1>9 DEF Abstract!Next

LEMMA CacheMissStep ==
    ASSUME StepInvariant, NEW c \in Callers, CacheMiss(c)
    PROVE  Abstract!Next
<1> DEFINE d == Decision("reject", {})
<1>1. /\ lookup # NoLookup /\ lookup.since \in Nat /\ lookup.asked \in Nat
      /\ lookup.status \in {"expired", "unknown_caller"}
  BY LookupFields DEF StepInvariant, RouteInvariant, CacheMiss
<1>2. Decide(c, lookup.asked, d, FALSE, lookup.status)
  BY DEF CacheMiss, Reject
<1>3. [caller |-> c, at |-> lookup.since, decision |-> d] \in LookupNote
  BY DEF CacheMiss, LookupNote
<1>4. MissEntry.since = lookup.since /\ MissEntry.kind = "miss"
  BY DEF MissEntry
<1>5. d \in Decisions
  BY DEF Decisions
<1>6. /\ now' = now /\ db' = db
      /\ cache' \in {cache, [cache EXCEPT ![c] = MissEntry]}
  BY DEF CacheMiss
<1>7. Decides(c, d) /\ lookup' = NoLookup
  BY <1>1, <1>2, <1>5, Decided
<1> QED
  BY <1>1, <1>3, <1>4, <1>5, <1>6, <1>7, NoteAnswered

LEMMA CacheSingleStep ==
    ASSUME StepInvariant, NEW c \in Callers, CacheSingle(c)
    PROVE  Abstract!Next
<1> DEFINE s == lookup.session
           d == Decision("connect", {s})
           entry == [kind |-> "route", session |-> s,
                     expires_at |-> lookup.expires_at,
                     until |-> now + lookup.ttl, since |-> lookup.since]
<1>1. /\ lookup # NoLookup /\ lookup.since \in Nat /\ lookup.asked \in Nat
      /\ s \in Ids
  BY LookupFields DEF StepInvariant, RouteInvariant, CacheSingle
<1>2. Decide(c, lookup.asked, d, s \in Capped, "")
  BY DEF CacheSingle
<1>3. [caller |-> c, at |-> lookup.since, decision |-> d] \in LookupNote
  BY DEF CacheSingle, LookupNote
<1>4. /\ entry.since = lookup.since /\ entry.kind = "route" /\ entry.session = s
  OBVIOUS
<1>5. d \in Decisions
  BY <1>1, ConnectIsDecision
<1>6. /\ now' = now /\ db' = db
      /\ cache' \in {cache, [cache EXCEPT ![c] = entry]}
  BY DEF CacheSingle
<1>7. Decides(c, d) /\ lookup' = NoLookup
  <2>1. (s \in Capped) \in BOOLEAN
    OBVIOUS
  <2>2. PICK capped \in BOOLEAN : Decide(c, lookup.asked, d, capped, "")
    BY <1>2, <2>1, Zenon
  <2> QED
    BY <1>1, <1>5, <2>2, Decided
<1>8. d = IF entry.kind = "route" THEN Decision("connect", {entry.session})
          ELSE Decision("reject", {})
  BY <1>4
<1> HIDE DEF entry, d
<1> QED
  BY <1>1, <1>3, <1>4, <1>5, <1>6, <1>7, <1>8, NoteAnswered

LEMMA CacheAnswerStep ==
    ASSUME StepInvariant, NEW c \in Callers, AnswerFromCache(c)
    PROVE  Abstract!Next
<1> DEFINE d == IF cache[c].kind = "route"
                THEN Decision("connect", {cache[c].session})
                ELSE Decision("reject", {})
           note == [caller |-> c, at |-> cache[c].since, decision |-> d]
<1>1. TypeOK /\ now \in Nat
  BY DEF StepInvariant, RouteInvariant, TypeOK
<1>2. cache[c].kind \in {"miss", "route"}
  BY <1>1, EntryFields DEF AnswerFromCache, Usable
<1>3. d \in Decisions
  BY <1>1, EntryFields, ConnectIsDecision DEF Decisions
<1>4. Decides(c, d) /\ lookup' = NoLookup
  <2>1. CASE cache[c].kind = "miss"
    <3>1. /\ Decide(c, now, d, FALSE, cache[c].status)
          /\ cache[c].status \in {"expired", "unknown_caller"}
      BY <1>1, <2>1, EntryFields DEF AnswerFromCache, Reject
    <3> QED
      BY <1>1, <1>3, <3>1, Decided
  <2>2. CASE cache[c].kind = "route"
    <3>1. Decide(c, now, d, FALSE, "")
      BY <2>2 DEF AnswerFromCache
    <3> QED
      BY <1>1, <1>3, <3>1, Decided
  <2> QED
    BY <1>2, <2>1, <2>2
<1>5. now' = now /\ db' = db /\ cache' = cache
  BY DEF AnswerFromCache
<1>6. note \in Notes
  BY <1>2 DEF Notes, CacheNotes
<1>7. note.at + StalenessOf[d] > now
  <2>1. /\ cache[c].until > now
        /\ cache[c].kind = "miss" =>
              cache[c].until <= cache[c].since + (Latency + NegativeTtl)
        /\ cache[c].kind = "route" =>
              cache[c].until <= cache[c].since + (Latency + LookupTtl)
    BY <1>2 DEF StepInvariant, Ages
  <2>2. StalenessOf[d] = Latency + IF cache[c].kind = "route" THEN LookupTtl
                                   ELSE NegativeTtl
    BY <1>2, <1>3 DEF StalenessOf, Decision
  <2>3. cache[c].since \in Nat /\ cache[c].until \in Nat
    BY <1>1, <1>2 DEF TypeOK, Entries, NoEntry
  <2> QED
    BY <1>1, <1>2, <2>1, <2>2, <2>3, RoutingAssumption
<1>8. LookupNote' = {}
  BY <1>4 DEF LookupNote, NoLookup
<1>9. Notes' \subseteq Notes
  BY <1>5, <1>8, FewerNotes
<1>10. Abstract!Answer(c, d)
  BY <1>1, <1>3, <1>4, <1>5, <1>6, <1>7, <1>9, AnswerStep
<1> QED
  BY <1>3, <1>10 DEF Abstract!Next

-----------------------------------------------------------------------------
LEMMA TransactionStep ==
    ASSUME TypeOK,
           \/ \E rows, keys : Begin(rows, keys)
           \/ InvalidationFails \/ Commit \/ Rollback
           \/ \E c \in Callers : DeleteKey(c)
    PROVE  Abstract!Next
<1>1. CASE \/ \E rows, keys : Begin(rows, keys)
           \/ InvalidationFails \/ Commit \/ Rollback
  BY <1>1, ControlStep DEF Begin, InvalidationFails, Commit, Rollback
<1>2. ASSUME NEW c \in Callers, DeleteKey(c) PROVE Abstract!Next
  <2>1. \A x \in Callers : cache'[x].kind # "none" => cache'[x] = cache[x]
    BY <1>2 DEF DeleteKey, TypeOK, NoEntry
  <2> QED
    BY <1>2, <2>1, ControlStep DEF DeleteKey
<1> QED
  BY <1>1, <1>2

(* A lookup that has read nothing, or reads whether there was a session,   *)
(* and the clock, give nothing.                                            *)
LEMMA SilentStep ==
    ASSUME TypeOK,
           \/ \E c \in Callers : MissCache(c) \/ RejectWithoutSession(c)
           \/ Tick
    PROVE  Abstract!Next
<1>1. answer' = NoAnswer /\ now' \in {now, now + 1}
  BY DEF MissCache, RejectWithoutSession, Tick
<1>2. LookupNote' \subseteq LookupNote
  <2>1. ASSUME NEW c \in Callers, MissCache(c) PROVE LookupNote' = {}
    BY <2>1 DEF MissCache, LookupNote
  <2>2. ASSUME NEW c \in Callers, RejectWithoutSession(c)
        PROVE  LookupNote' = LookupNote
    BY <2>2 DEF RejectWithoutSession, LookupNote
  <2>3. CASE Tick
    BY <2>3 DEF Tick, LookupNote
  <2> QED
    BY <2>1, <2>2, <2>3
<1>3. \A x \in Callers : cache'[x].kind # "none" => cache'[x] = cache[x]
  BY DEF MissCache, RejectWithoutSession, Tick, NoEntry
<1>4. Notes' \subseteq Notes
  BY <1>2, <1>3, FewerNotes DEF Notes
<1> QED
  BY <1>1, <1>4, QuietStep DEF Abstract!Next

LEMMA RefinedInit == Init => Abstract!Init
<1> SUFFICES ASSUME Init PROVE Abstract!Init
  OBVIOUS
<1>1. LookupNote = {}
  BY DEF Init, LookupNote, NoLookup
<1>2. CacheNotes = {}
  BY DEF Init, CacheNotes, NoEntry
<1> QED
  BY <1>1, <1>2, CurrentType DEF Init, Abstract!Init, Notes, Told

LEMMA RefinedNext == StepInvariant /\ [Next]_vars => [Abstract!Next]_(Abstract!vars)
<1> SUFFICES ASSUME StepInvariant, [Next]_vars
             PROVE  [Abstract!Next]_(Abstract!vars)
  OBVIOUS
<1>1. TypeOK
  BY DEF StepInvariant, RouteInvariant
<1>2. CASE \E s \in Ids :
             \/ \E ttl \in 1..MaxTtl, pin \in BOOLEAN : CreateSession(s, ttl, pin)
             \/ \E e \in Instants \cup (now + 1)..(now + MaxTtl) :
                   ExtendSession(s, e)
             \/ CloseSession(s)
  BY <1>1, <1>2, TransactionStep DEF CreateSession, ExtendSession, CloseSession
<1>3. CASE \E batch \in SUBSET Ids : ExpireDue(batch) \/ Purge(batch)
  BY <1>1, <1>3, TransactionStep DEF ExpireDue, Purge
<1>4. CASE InvalidationFails \/ Commit \/ Rollback
  BY <1>1, <1>4, TransactionStep
<1>5. ASSUME NEW c \in Callers,
             \/ DeleteKey(c)
             \/ AnswerFromCache(c) \/ MissCache(c) \/ LoadCandidates(c)
             \/ RejectWithoutSession(c) \/ CacheMiss(c) \/ CacheSingle(c)
      PROVE  Abstract!Next
  BY <1>1, <1>5, TransactionStep, CacheAnswerStep, SilentStep, LoadStep,
     CacheMissStep, CacheSingleStep
<1>6. CASE Tick
  BY <1>1, <1>6, SilentStep
<1>7. CASE UNCHANGED vars
  <2>1. Current' = Current
    <3>1. Current' = [c \in Callers |-> Right(db', now', c)]
      BY DEF Current, Right, LiveIn
    <3> QED
      BY <1>7, <3>1 DEF Current, vars
  <2>2. Notes' = Notes /\ Told' = Told /\ now' = now
    BY <1>7 DEF vars, Notes, LookupNote, CacheNotes, Told
  <2> QED
    BY <2>1, <2>2 DEF Abstract!vars
<1> QED
  BY <1>2, <1>3, <1>4, <1>5, <1>6, <1>7 DEF Next

(* However invalidation, the sweeps and lookups race, and whatever Redis   *)
(* loses, resolve_call gives the decision the database calls for, or did   *)
(* within the lifetime of a cache entry and the time of a lookup.          *)
THEOREM RoutingImplementsRouter == Spec => BoundedStaleness
<1>1. Spec => []StepInvariant
  BY InitSteps, NextSteps, PTL DEF Spec
<1> QED
  BY <1>1, RefinedInit, RefinedNext, PTL DEF Spec, BoundedStaleness, Abstract!Spec

=============================================================================
