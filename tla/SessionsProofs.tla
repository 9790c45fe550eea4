--------------------------- MODULE SessionsProofs ---------------------------
(***************************************************************************)
(* Theorems about Sessions for every pool, every set of subscribers, PINs  *)
(* and sessions, and every setting, with their proofs.                     *)
(***************************************************************************)
EXTENDS Sessions, FiniteSetTheorems, TLAPS

-----------------------------------------------------------------------------
(* What a creation writes                                                  *)

(* The PINs handed out by a creation are fresh on their number, and when   *)
(* the new session shares a number, all it conflicts with get one.         *)
FairHandout(n, pair, code, given) ==
    /\ \A x \in DOMAIN given :
          /\ x \in Ids /\ status[x] = "active" /\ ext_code[x] = NoCode
          /\ number_id[x] \in Numbers
          /\ given[x] \in Codes \ UsedCodes(number_id[x])
          /\ number_id[x] = n => given[x] # code
    /\ \A x, y \in DOMAIN given :
          number_id[x] = number_id[y] /\ given[x] = given[y] => x = y
    /\ \/ code = NoCode /\ ActiveOf(n, pair) = {}
       \/ code \in Codes \ UsedCodes(n) /\ ToPromote(n, pair) \subseteq DOMAIN given

(* An exclusive number is free of both parties, and nobody is promoted.    *)
LEMMA ExclusiveHandout ==
    ASSUME NEW s, NEW pair, NEW ttl, NEW locked, NEW n \in Numbers,
           CreateExclusive(s, pair, ttl, locked, n)
    PROVE  /\ FairHandout(n, pair, NoCode, [x \in {} |-> NoCode])
           /\ Insert(s, n, pair, NoCode, ttl, [x \in {} |-> NoCode])
  BY DEF CreateExclusive, FairHandout, ConflictFree

(* A shared number: each PIN, on the number that serves the pair or on one *)
(* given up on the way, was drawn outside the PINs in use there.           *)
LEMMA SharedHandout ==
    ASSUME NEW s, NEW ttl, NEW locked, NEW w \in Numbers,
           NEW code \in Codes, NEW given \in Promotions(s, locked, w),
           CreateShared(s, ttl, locked, w, code, given)
    PROVE  /\ FairHandout(w, looked[s].pair, code, given)
           /\ Insert(s, w, looked[s].pair, code, ttl, given)
<1> DEFINE tried == Tried(s, locked, w)
           pair == looked[s].pair
<1>1. PICK done \in SUBSET UNION {ToPromote(n, pair) : n \in tried \cup {w}} :
          given \in [done -> Codes]
  BY DEF Promotions
<1>2. tried \subseteq Numbers
  BY DEF Tried, Triable
<1>3. \A n \in tried : FreshFor(n, DOMAIN given \cap ToPromote(n, pair), given)
  BY DEF CreateShared, Abandoned
<1>4. Serves(w, pair, code, given)
  BY DEF CreateShared
<1>5. \A x \in DOMAIN given :
         /\ x \in ToPromote(number_id[x], pair)
         /\ number_id[x] \in tried \cup {w}
  BY <1>1 DEF ToPromote, ActiveOf, ActiveOn
<1>6. \A x \in DOMAIN given :
         /\ x \in Ids /\ status[x] = "active" /\ ext_code[x] = NoCode
         /\ number_id[x] \in Numbers
  BY <1>2, <1>5 DEF ToPromote, ActiveOf, ActiveOn
<1>7. \A x \in DOMAIN given :
         /\ given[x] \in Codes \ UsedCodes(number_id[x])
         /\ number_id[x] = w => given[x] # code
  BY <1>3, <1>4, <1>5 DEF FreshFor, Serves
<1>8. \A x, y \in DOMAIN given :
         number_id[x] = number_id[y] /\ given[x] = given[y] => x = y
  BY <1>3, <1>4, <1>5 DEF FreshFor, Serves
<1>9. code \in Codes \ UsedCodes(w) /\ ToPromote(w, pair) \subseteq DOMAIN given
  BY <1>4 DEF Serves
<1> QED
  BY <1>6, <1>7, <1>8, <1>9 DEF FairHandout, CreateShared

(* Both ways a session comes to be, as one insertion                       *)
LEMMA CreateHandout ==
    ASSUME TypeOK, NEW s \in Ids, NEW ttl \in 1..MaxTtl,
           NEW locked \in SUBSET Numbers, CreateSession(s, ttl, locked)
    PROVE  \E n \in Numbers, pair \in SUBSET Parties, code \in Codes \cup {NoCode} :
              \E given : /\ FairHandout(n, pair, code, given)
                         /\ Insert(s, n, pair, code, ttl, given)
<1>1. PICK n \in Numbers :
        \/ \E pair \in Pairs : CreateExclusive(s, pair, ttl, locked, n)
        \/ \E code \in Codes, given \in Promotions(s, locked, n) :
               CreateShared(s, ttl, locked, n, code, given)
  BY DEF CreateSession
<1>2. CASE \E pair \in Pairs : CreateExclusive(s, pair, ttl, locked, n)
  BY <1>2, ExclusiveHandout DEF Pairs
<1>3. ASSUME NEW code \in Codes, NEW given \in Promotions(s, locked, n),
             CreateShared(s, ttl, locked, n, code, given)
      PROVE  /\ FairHandout(n, looked[s].pair, code, given)
             /\ Insert(s, n, looked[s].pair, code, ttl, given)
  BY <1>3, SharedHandout
<1>4. looked[s].pair \in SUBSET Parties
  BY DEF TypeOK, Lookups
<1> QED
  BY <1>1, <1>2, <1>3, <1>4

-----------------------------------------------------------------------------
(* Types                                                                   *)

LEMMA NoLookupTyped == NoLookup \in Lookups
  BY ConstantsAssumption DEF NoLookup, Lookups

LEMMA ActiveFinite ==
    \A n \in Numbers : IsFiniteSet(ActiveOn(n)) /\ Occupancy(n) \in Nat
<1>1. \A n \in Numbers : ActiveOn(n) \subseteq Ids
  BY DEF ActiveOn
<1>2. \A n \in Numbers : IsFiniteSet(ActiveOn(n))
  BY <1>1, ConstantsAssumption, FS_Subset
<1> QED
  BY <1>2, FS_CardinalityType DEF Occupancy

THEOREM InitTypeOK == Init => TypeOK
<1> SUFFICES ASSUME Init PROVE TypeOK
  OBVIOUS
<1>1. looked \in [Ids -> Lookups]
  BY NoLookupTyped DEF Init
<1> QED
  BY <1>1, ConstantsAssumption DEF Init, TypeOK

LEMMA InsertTypeOK ==
    ASSUME TypeOK, NEW s \in Ids, NEW n \in Numbers, NEW pair \in SUBSET Parties,
           NEW code \in Codes \cup {NoCode}, NEW ttl \in 1..MaxTtl, NEW given,
           FairHandout(n, pair, code, given), Insert(s, n, pair, code, ttl, given)
    PROVE  TypeOK'
<1>1. now + ttl \in Nat
  BY ConstantsAssumption DEF TypeOK
<1>2. \A x \in DOMAIN given : given[x] \in Codes
  BY DEF FairHandout
<1>3. ext_code' \in [Ids -> Codes \cup {NoCode}]
  BY <1>2 DEF Insert, TypeOK
<1>4. parties' \in [Ids -> SUBSET Parties]
  BY DEF Insert, TypeOK
<1>5. looked' \in [Ids -> Lookups]
  <2>1. ASSUME NEW x \in Ids
        PROVE  [looked[x] EXCEPT !.filled = @ \cup {n}] \in Lookups
    <3>1. looked[x] \in Lookups
      BY DEF TypeOK
    <3>2. looked[x].filled \cup {n} \in SUBSET Numbers
      BY <3>1 DEF Lookups
    <3> QED
      BY <3>1, <3>2 DEF Lookups
  <2>2. looked' = [x \in Ids |->
           IF x = s THEN NoLookup
           ELSE IF n \in Triable(x) THEN [looked[x] EXCEPT !.filled = @ \cup {n}]
           ELSE looked[x]]
    BY DEF Insert
  <2> QED
    BY <2>1, <2>2, NoLookupTyped DEF TypeOK
<1> QED
  BY <1>1, <1>3, <1>4, <1>5 DEF Insert, TypeOK

LEMMA EndTypeOK ==
    ASSUME TypeOK, NEW batch, NEW terminal \in {"closed", "expired"},
           End(batch, terminal)
    PROVE  TypeOK'
<1>1. ended' \in [Numbers -> [Parties -> Nat \cup {Never}]]
  BY DEF End, TypeOK
<1>2. released_at' \in [Numbers -> Nat \cup {Never}]
  BY DEF End, TypeOK
<1>3. closed_at' \in [Ids -> Nat \cup {Never}]
  BY DEF End, TypeOK
<1>4. status' \in [Ids -> {"none", "active", "closed", "expired"}]
  BY DEF End, TypeOK
<1>5. looked' \in [Ids -> Lookups]
  <2>1. ASSUME NEW x \in Ids, NEW more \in SUBSET (Numbers \X Parties)
        PROVE  [looked[x] EXCEPT !.left = @ \cup more] \in Lookups
    <3>1. looked[x] \in Lookups
      BY DEF TypeOK
    <3>2. looked[x].left \cup more \in SUBSET (Numbers \X Parties)
      BY <3>1, Zenon DEF Lookups
    <3> QED
      BY <3>1, <3>2 DEF Lookups
  <2>2. \A x \in Ids : {at \in Triable(x) \X Parties :
            \E s \in ActiveOn(at[1]) \cap batch : at[2] \in parties[s]}
                       \in SUBSET (Numbers \X Parties)
    BY DEF Triable
  <2>3. looked' = [x \in Ids |-> [looked[x] EXCEPT !.left = @ \cup
            {at \in Triable(x) \X Parties :
                \E s \in ActiveOn(at[1]) \cap batch : at[2] \in parties[s]}]]
    BY DEF End, LeftSince
  <2> HIDE DEF Triable
  <2> QED
    BY <2>1, <2>2, <2>3
<1> QED
  BY <1>1, <1>2, <1>3, <1>4, <1>5 DEF End, TypeOK

LEMMA LookTypeOK ==
    ASSUME TypeOK, NEW s \in Ids, NEW pair \in Pairs, NEW locked,
           LookForShared(s, pair, locked)
    PROVE  TypeOK'
<1>1. \A n \in Numbers : CountSeen(n, pair) \in 0..MaxPerNumber
  BY ActiveFinite, ConstantsAssumption DEF CountSeen
<1>2. [pair |-> pair, count |-> [n \in Numbers |-> CountSeen(n, pair)],
       filled |-> {}, left |-> {}] \in Lookups
  BY <1>1 DEF Lookups, Pairs
<1>3. looked' \in [Ids -> Lookups]
  BY <1>2 DEF LookForShared, TypeOK
<1> QED
  BY <1>3 DEF LookForShared, TypeOK

LEMMA NextTypeOK == TypeOK /\ [Next]_vars => TypeOK'
<1> SUFFICES ASSUME TypeOK, [Next]_vars PROVE TypeOK'
  OBVIOUS
<1>1. ASSUME NEW n \in Numbers, NEW st \in {"enabled", "disabled"},
             AddNumber(n, st) \/ SetNumberStatus(n, st)
      PROVE  TypeOK'
  <2>1. /\ pool' = [pool EXCEPT ![n] = st]
        /\ UNCHANGED <<now, released_at, status, number_id, parties, ext_code, expires_at,
                       closed_at, ended, looked>>
    BY <1>1 DEF AddNumber, SetNumberStatus
  <2>2. pool' \in [Numbers -> {"absent", "enabled", "disabled"}]
    BY <2>1 DEF TypeOK
  <2> QED
    BY <2>1, <2>2 DEF TypeOK
<1>2. ASSUME NEW s \in Ids, NEW ttl \in 1..MaxTtl, NEW locked \in SUBSET Numbers,
             CreateSession(s, ttl, locked)
      PROVE  TypeOK'
  BY <1>2, CreateHandout, InsertTypeOK
<1>3. ASSUME NEW s \in Ids, NEW e \in Nat, SetExpiry(s, e)
      PROVE  TypeOK'
  BY <1>3 DEF SetExpiry, TypeOK
<1>4. ASSUME NEW s \in Ids, CloseSession(s)
      PROVE  TypeOK'
  BY <1>4, EndTypeOK DEF CloseSession
<1>5. CASE ExpireDue
  BY <1>5, EndTypeOK DEF ExpireDue
<1>6. CASE Purge
  BY <1>6, ConstantsAssumption DEF Purge, TypeOK
<1>7. CASE Tick
  BY <1>7 DEF Tick, TypeOK
<1>8. CASE UNCHANGED vars
  BY <1>8 DEF vars, TypeOK
<1>9. \A s \in Ids, ttl \in 1..MaxTtl : ExtendTtl(s, ttl) => TypeOK'
  BY <1>3, ConstantsAssumption DEF ExtendTtl, TypeOK
<1>10. \A s \in Ids, e \in Instants : ExtendUntil(s, e) => TypeOK'
  BY <1>3, ConstantsAssumption DEF ExtendUntil
<1>11. \A s \in Ids, pair \in Pairs, locked \in SUBSET Numbers :
         LookForShared(s, pair, locked) => TypeOK'
  BY LookTypeOK
<1>12. \A s \in Ids : GiveUp(s) => TypeOK'
  BY NoLookupTyped DEF GiveUp, TypeOK
<1> QED
  BY <1>1, <1>2, <1>4, <1>5, <1>6, <1>7, <1>8, <1>9, <1>10, <1>11, <1>12 DEF Next

(* Every column keeps values of its kind, history included.                *)
THEOREM TypeCorrect == Spec => []TypeOK
<1>1. Init => TypeOK
  BY InitTypeOK
<1> QED
  BY <1>1, NextTypeOK, PTL DEF Spec

-----------------------------------------------------------------------------
(* PINs                                                                    *)

(* The promise of the PINs: with TypeOK it is inductive.                   *)
Pins == Reachable /\ CodesDistinct

LEMMA InsertPins ==
    ASSUME TypeOK, Pins, NEW s \in Ids, NEW n \in Numbers, NEW pair \in SUBSET Parties,
           NEW code \in Codes \cup {NoCode}, NEW ttl, NEW given,
           FairHandout(n, pair, code, given), Insert(s, n, pair, code, ttl, given)
    PROVE  Pins'
<1> USE DEF ActiveOf, ActiveOn
<1>1. /\ status' = [status EXCEPT ![s] = "active"]
      /\ number_id' = [number_id EXCEPT ![s] = n]
      /\ parties' = [parties EXCEPT ![s] = pair]
      /\ status[s] = "none"
  BY DEF Insert
<1>2. /\ s \notin DOMAIN given
      /\ ext_code'[s] = code
      /\ \A x \in Ids \ {s} :
            ext_code'[x] = IF x \in DOMAIN given THEN given[x] ELSE ext_code[x]
  BY DEF FairHandout, Insert
<1>3. \A m \in Numbers : ActiveOn(m)' = IF m = n THEN ActiveOn(m) \cup {s}
                                        ELSE ActiveOn(m)
  BY <1>1 DEF TypeOK
<1>4. \A x \in Ids \ {s} : parties'[x] = parties[x]
  BY <1>1 DEF TypeOK
<1>5. \A x \in Ids \ {s} : ext_code[x] # NoCode => ext_code'[x] = ext_code[x]
  BY <1>2 DEF FairHandout
<1>6. \A x \in Ids \ {s} : ext_code'[x] = NoCode => ext_code[x] = NoCode
  BY <1>5
<1>7. Reachable'
  <2> SUFFICES ASSUME NEW m \in Numbers, NEW p \in Parties,
                      NEW x \in ActiveOn(m)', NEW y \in ActiveOn(m)',
                      p \in parties'[x], p \in parties'[y], x # y,
                      ext_code'[x] = NoCode
               PROVE  FALSE
    BY DEF Reachable
  <2>1. CASE x # s /\ y # s
    BY <2>1, <1>3, <1>4, <1>6 DEF Pins, Reachable
  <2>2. CASE x = s
    <3>1. m = n /\ code = NoCode /\ y \in ActiveOn(n)
      BY <2>2, <1>2, <1>3
    <3>2. y \in ActiveOf(n, pair)
      BY <3>1, <2>2, <1>1, <1>4 DEF TypeOK
    <3>3. code \notin Codes
      BY <3>1, ConstantsAssumption
    <3> QED
      BY <3>2, <3>3 DEF FairHandout
  <2>3. CASE y = s
    <3>1. m = n /\ x \in ActiveOn(n) /\ p \in pair
      BY <2>3, <1>1, <1>3 DEF TypeOK
    <3>2. x \in ToPromote(n, pair)
      BY <2>3, <3>1, <1>4, <1>6 DEF ToPromote
    <3>3. x \in DOMAIN given
      BY <3>2 DEF FairHandout, ToPromote
    <3>4. ext_code'[x] \in Codes
      BY <2>3, <3>3, <1>2 DEF FairHandout
    <3> QED
      BY <3>4, ConstantsAssumption
  <2> QED
    BY <2>1, <2>2, <2>3
<1>8. CodesDistinct'
  <2> SUFFICES ASSUME NEW m \in Numbers,
                      NEW x \in ActiveOn(m)', NEW y \in ActiveOn(m)',
                      x # y, ext_code'[x] # NoCode, ext_code'[x] = ext_code'[y]
               PROVE  FALSE
    BY DEF CodesDistinct
  <2>1. ASSUME NEW z \in ActiveOn(m), z # s, ext_code'[z] # NoCode
        PROVE  \/ z \notin DOMAIN given /\ ext_code'[z] = ext_code[z]
                  /\ ext_code[z] \in UsedCodes(m)
               \/ z \in DOMAIN given /\ ext_code'[z] = given[z]
                  /\ given[z] \notin UsedCodes(m)
    BY <2>1, <1>2 DEF FairHandout, UsedCodes
  <2>2. CASE x # s /\ y # s
    <3>1. x \in ActiveOn(m) /\ y \in ActiveOn(m)
      BY <2>2, <1>3
    <3>2. CASE x \in DOMAIN given
      BY <3>1, <3>2, <2>1, <2>2 DEF FairHandout
    <3>3. CASE x \notin DOMAIN given
      BY <3>1, <3>3, <2>1, <2>2 DEF Pins, CodesDistinct
    <3> QED
      BY <3>2, <3>3
  <2>3. ASSUME NEW z \in ActiveOn(m)', z # s, m = n, ext_code'[z] = code,
               code # NoCode
        PROVE  FALSE
    BY <2>1, <2>3, <1>3 DEF FairHandout
  <2> QED
    BY <2>2, <2>3, <1>2, <1>3
<1> QED
  BY <1>7, <1>8 DEF Pins

(* Sessions that leave, and rows that go, take nothing from the others.    *)
LEMMA ShrinkPins ==
    ASSUME Pins, TypeOK,
           \A x \in Ids : status'[x] = "active" =>
               /\ status[x] = "active" /\ number_id'[x] = number_id[x]
               /\ parties'[x] = parties[x] /\ ext_code'[x] = ext_code[x]
    PROVE  Pins'
<1> USE DEF ActiveOf, ActiveOn
<1>1. \A m \in Numbers : ActiveOn(m)' \subseteq ActiveOn(m)
  OBVIOUS
<1>2. \A m \in Numbers, p \in Parties : ActiveOf(m, {p})' \subseteq ActiveOf(m, {p})
  OBVIOUS
<1>3. Reachable'
  BY <1>2 DEF Pins, Reachable
<1>4. CodesDistinct'
  BY <1>1 DEF Pins, CodesDistinct
<1> QED
  BY <1>3, <1>4 DEF Pins

LEMMA NextPins == TypeOK /\ Pins /\ [Next]_vars => Pins'
<1> SUFFICES ASSUME TypeOK, Pins, [Next]_vars PROVE Pins'
  OBVIOUS
<1>1. ASSUME NEW n \in Numbers, NEW st \in {"enabled", "disabled"},
             AddNumber(n, st) \/ SetNumberStatus(n, st)
      PROVE  Pins'
  BY <1>1, ShrinkPins DEF AddNumber, SetNumberStatus
<1>2. ASSUME NEW s \in Ids, NEW ttl \in 1..MaxTtl, NEW locked \in SUBSET Numbers,
             CreateSession(s, ttl, locked)
      PROVE  Pins'
  BY <1>2, CreateHandout, InsertPins
<1>3. ASSUME NEW s, NEW e, SetExpiry(s, e)
      PROVE  Pins'
  BY <1>3, ShrinkPins DEF SetExpiry
<1>4. ASSUME NEW batch, NEW terminal \in {"closed", "expired"},
             End(batch, terminal)
      PROVE  Pins'
  BY <1>4, ShrinkPins DEF End
<1>5. CASE Purge
  BY <1>5, ShrinkPins DEF Purge
<1>6. CASE Tick
  BY <1>6, ShrinkPins DEF Tick
<1>7. CASE UNCHANGED vars
  BY <1>7, ShrinkPins DEF vars
<1>8. (\E s \in Ids : CloseSession(s)) \/ ExpireDue => Pins'
  BY <1>4 DEF CloseSession, ExpireDue
<1>9. (\E s \in Ids, ttl \in 1..MaxTtl : ExtendTtl(s, ttl)) => Pins'
  BY <1>3 DEF ExtendTtl
<1>10. (\E s \in Ids, e \in Instants : ExtendUntil(s, e)) => Pins'
  BY <1>3 DEF ExtendUntil
<1>11. \A s \in Ids, pair \in Pairs, locked \in SUBSET Numbers :
         LookForShared(s, pair, locked) => Pins'
  BY ShrinkPins DEF LookForShared
<1>12. \A s \in Ids : GiveUp(s) => Pins'
  BY ShrinkPins DEF GiveUp
<1> QED
  BY <1>1, <1>2, <1>5, <1>6, <1>7, <1>8, <1>9, <1>10, <1>11, <1>12 DEF Next

LEMMA PinsInvariant == Spec => [](TypeOK /\ Pins)
<1>1. Init => TypeOK /\ Pins
  BY InitTypeOK DEF Init, Pins, Reachable, CodesDistinct, ActiveOf, ActiveOn
<1>2. (TypeOK /\ Pins) /\ [Next]_vars => (TypeOK /\ Pins)'
  BY NextTypeOK, NextPins
<1> QED
  BY <1>1, <1>2, PTL DEF Spec

(* No active session of any caller on any number is ever beyond reach.     *)
THEOREM AlwaysReachable == Spec => []Reachable
<1>1. TypeOK /\ Pins => Reachable
  BY DEF Pins
<1> QED
  BY <1>1, PinsInvariant, PTL

(* Two active sessions of a number never have the same PIN: the index      *)
(* uniq_active_ext_code_per_number never raises on a committed history.    *)
THEOREM AlwaysDistinct == Spec => []CodesDistinct
<1>1. TypeOK /\ Pins => CodesDistinct
  BY DEF Pins
<1> QED
  BY <1>1, PinsInvariant, PTL

-----------------------------------------------------------------------------
(* Cooldowns                                                               *)

(* Within the cooldown, the row of the session that ended is still there   *)
(* to be found: retention, when it is the longer, has not purged it.       *)
Remembered ==
    Retention >= Cooldown =>
        \A n \in Numbers, p \in Parties :
            ended[n][p] # Never /\ ended[n][p] > now - Cooldown =>
                \E s \in Ids :
                    /\ status[s] \in {"closed", "expired"}
                    /\ number_id[s] = n /\ p \in parties[s]
                    /\ closed_at[s] = ended[n][p]

Past == \A n \in Numbers, p \in Parties : ended[n][p] # Never => ended[n][p] <= now

Clocks == Past /\ IdleClock /\ Remembered

(* A step that neither ends a session nor moves the clock                  *)
LEMMA KeepClocks ==
    ASSUME TypeOK, Clocks, UNCHANGED <<released_at, closed_at, ended>>,
           now' = now \/ now' = now + 1,
           \A x \in Ids : status[x] # "none" =>
               /\ status'[x] = status[x] /\ number_id'[x] = number_id[x]
               /\ parties'[x] = parties[x]
    PROVE  Clocks'
<1>1. Past'
  BY DEF Past, Clocks, TypeOK
<1>2. \A n \in Numbers : ActiveOn(n) \subseteq ActiveOn(n)'
  BY DEF ActiveOn
<1>3. IdleClock'
  BY <1>2 DEF IdleClock, Clocks
<1>4. Remembered'
  <2> SUFFICES ASSUME Retention >= Cooldown, NEW n \in Numbers, NEW p \in Parties,
                      ended[n][p] # Never, ended[n][p] > now' - Cooldown
               PROVE  \E s \in Ids :
                         /\ status'[s] \in {"closed", "expired"}
                         /\ number_id'[s] = n /\ p \in parties'[s]
                         /\ closed_at[s] = ended[n][p]
    BY DEF Remembered
  <2>1. ended[n][p] > now - Cooldown
    BY ConstantsAssumption DEF TypeOK
  <2>2. PICK s \in Ids : /\ status[s] \in {"closed", "expired"}
                         /\ number_id[s] = n /\ p \in parties[s]
                         /\ closed_at[s] = ended[n][p]
    BY <2>1 DEF Clocks, Remembered
  <2> QED
    BY <2>2
<1> QED
  BY <1>1, <1>3, <1>4 DEF Clocks

LEMMA EndClocks ==
    ASSUME TypeOK, Clocks, NEW batch, NEW terminal \in {"closed", "expired"},
           \A x \in batch : x \in Ids /\ status[x] = "active",
           End(batch, terminal)
    PROVE  Clocks'
<1>1. Past'
  BY DEF Past, Clocks, End, TypeOK
<1>2. IdleClock'
  <2> SUFFICES ASSUME NEW n \in Numbers, ActiveOn(n)' = {}, NEW p \in Parties,
                      ended'[n][p] # Never
               PROVE  released_at'[n] # Never /\ released_at'[n] >= ended'[n][p]
    BY DEF IdleClock
  <2>1. ActiveOn(n) \subseteq batch
    BY DEF ActiveOn, End
  <2>2. CASE ActiveOn(n) \cap batch # {}
    <3>1. released_at'[n] = now
      BY <2>1, <2>2 DEF End
    <3>2. ended'[n][p] <= now
      BY DEF End, Past, Clocks, TypeOK
    <3> QED
      BY <3>1, <3>2, ConstantsAssumption DEF TypeOK
  <2>3. CASE ActiveOn(n) \cap batch = {}
    <3>1. ActiveOn(n) = {} /\ released_at'[n] = released_at[n]
      BY <2>1, <2>3 DEF End
    <3>2. ended'[n][p] = ended[n][p]
      BY <2>3 DEF End
    <3> QED
      BY <3>1, <3>2 DEF IdleClock, Clocks
  <2> QED
    BY <2>2, <2>3
<1>3. Remembered'
  <2> SUFFICES ASSUME Retention >= Cooldown, NEW n \in Numbers, NEW p \in Parties,
                      ended'[n][p] # Never, ended'[n][p] > now - Cooldown
               PROVE  \E s \in Ids :
                         /\ status'[s] \in {"closed", "expired"}
                         /\ number_id'[s] = n /\ p \in parties'[s]
                         /\ closed_at'[s] = ended'[n][p]
    BY DEF Remembered, End
  <2>1. CASE \E s \in ActiveOn(n) \cap batch : p \in parties[s]
    BY <2>1 DEF End, ActiveOn
  <2>2. CASE ~\E s \in ActiveOn(n) \cap batch : p \in parties[s]
    <3>1. ended'[n][p] = ended[n][p]
      BY <2>2 DEF End
    <3>2. PICK s \in Ids : /\ status[s] \in {"closed", "expired"}
                           /\ number_id[s] = n /\ p \in parties[s]
                           /\ closed_at[s] = ended[n][p]
      BY <3>1 DEF Clocks, Remembered
    <3>3. s \notin batch
      BY <3>2
    <3> QED
      BY <3>1, <3>2, <3>3 DEF End
  <2> QED
    BY <2>1, <2>2
<1> QED
  BY <1>1, <1>2, <1>3 DEF Clocks

LEMMA PurgeClocks ==
    ASSUME TypeOK, Clocks, Purge
    PROVE  Clocks'
<1>1. Past'
  BY DEF Past, Clocks, Purge
<1>2. \A n \in Numbers : ActiveOn(n) \subseteq ActiveOn(n)'
  BY DEF ActiveOn, Purge, Outdated
<1>3. IdleClock'
  BY <1>2 DEF IdleClock, Clocks, Purge
<1>4. Remembered'
  <2> SUFFICES ASSUME Retention >= Cooldown, NEW n \in Numbers, NEW p \in Parties,
                      ended[n][p] # Never, ended[n][p] > now - Cooldown
               PROVE  \E s \in Ids :
                         /\ status'[s] \in {"closed", "expired"}
                         /\ number_id'[s] = n /\ p \in parties'[s]
                         /\ closed_at'[s] = ended[n][p]
    BY DEF Remembered, Purge
  <2>1. PICK s \in Ids : /\ status[s] \in {"closed", "expired"}
                         /\ number_id[s] = n /\ p \in parties[s]
                         /\ closed_at[s] = ended[n][p]
    BY DEF Clocks, Remembered
  <2>2. s \notin Outdated
    BY <2>1, ConstantsAssumption DEF Outdated, TypeOK
  <2> QED
    BY <2>1, <2>2 DEF Purge
<1> QED
  BY <1>1, <1>3, <1>4 DEF Clocks

LEMMA NextClocks == TypeOK /\ Clocks /\ [Next]_vars => Clocks'
<1> SUFFICES ASSUME TypeOK, Clocks, [Next]_vars PROVE Clocks'
  OBVIOUS
<1>1. ASSUME NEW n \in Numbers, NEW st \in {"enabled", "disabled"},
             AddNumber(n, st) \/ SetNumberStatus(n, st)
      PROVE  Clocks'
  BY <1>1, KeepClocks DEF AddNumber, SetNumberStatus
<1>2. ASSUME NEW s \in Ids, NEW ttl \in 1..MaxTtl, NEW locked \in SUBSET Numbers,
             CreateSession(s, ttl, locked)
      PROVE  Clocks'
  <2>1. \E n, pair, code, given : Insert(s, n, pair, code, ttl, given)
    BY <1>2, CreateHandout
  <2> QED
    BY <2>1, KeepClocks DEF Insert, TypeOK
<1>3. ASSUME NEW s, NEW e, SetExpiry(s, e)
      PROVE  Clocks'
  BY <1>3, KeepClocks DEF SetExpiry
<1>4. ASSUME NEW s \in Ids, CloseSession(s)
      PROVE  Clocks'
  <2>1. \A x \in {s} : x \in Ids /\ status[x] = "active"
    BY <1>4 DEF CloseSession
  <2> QED
    BY <2>1, <1>4, EndClocks DEF CloseSession
<1>5. CASE ExpireDue
  BY <1>5, EndClocks DEF ExpireDue, Due
<1>6. CASE Purge
  BY <1>6, PurgeClocks
<1>7. CASE Tick
  BY <1>7, KeepClocks DEF Tick
<1>8. CASE UNCHANGED vars
  BY <1>8, KeepClocks DEF vars
<1>9. (\E s \in Ids, ttl \in 1..MaxTtl : ExtendTtl(s, ttl)) => Clocks'
  BY <1>3 DEF ExtendTtl
<1>10. (\E s \in Ids, e \in Instants : ExtendUntil(s, e)) => Clocks'
  BY <1>3 DEF ExtendUntil
<1>11. \A s \in Ids, pair \in Pairs, locked \in SUBSET Numbers :
         LookForShared(s, pair, locked) => Clocks'
  BY KeepClocks DEF LookForShared
<1>12. \A s \in Ids : GiveUp(s) => Clocks'
  BY KeepClocks DEF GiveUp
<1> QED
  BY <1>1, <1>2, <1>4, <1>5, <1>6, <1>7, <1>8, <1>9, <1>10, <1>11, <1>12 DEF Next

LEMMA ClocksInvariant == Spec => [](TypeOK /\ Clocks)
<1>1. Init => TypeOK /\ Clocks
  BY InitTypeOK DEF Init, Clocks, Past, IdleClock, Remembered
<1>2. (TypeOK /\ Clocks) /\ [Next]_vars => (TypeOK /\ Clocks)'
  BY NextTypeOK, NextClocks
<1> QED
  BY <1>1, <1>2, PTL DEF Spec

(* The cooldown clock of an idle number never reads earlier than the end   *)
(* of its last session.                                                    *)
THEOREM IdleClockCorrect == Spec => []IdleClock
<1>1. TypeOK /\ Clocks => IdleClock
  BY DEF Clocks
<1> QED
  BY <1>1, ClocksInvariant, PTL

-----------------------------------------------------------------------------
(* What a creation still knows of the candidates it queried                *)

(* A number it may try holds no more sessions than were counted, its       *)
(* parties are out of their cooldown there, and with the number scope the  *)
(* number is rested, unless since the query another session came to the    *)
(* number, those parties left it, or somebody did.                         *)
Known(s, n) ==
    /\ looked[s].pair \in Pairs
    /\ n \notin looked[s].filled => Occupancy(n) <= looked[s].count[n]
    /\ Retention >= Cooldown =>
         \A p \in looked[s].pair :
            \/ ended[n][p] = Never
            \/ ended[n][p] <= now - Cooldown
            \/ <<n, p>> \in looked[s].left
    /\ Rested(n) \/ \E q \in Parties : <<n, q>> \in looked[s].left

Paired == \A s \in Ids : status[s] = "active" => parties[s] \in Pairs

Seen == Paired /\ \A s \in Ids : \A n \in Triable(s) : Known(s, n)

LEMMA PairsPeopled ==
    ASSUME NEW pair \in Pairs
    PROVE  \E p \in Parties : p \in pair
<1>1. pair # {}
  BY FS_EmptySet DEF Pairs
<1> QED
  BY <1>1 DEF Pairs

LEMMA NothingTriable == \A n \in Numbers : ~(NoLookup.count[n] < MaxPerNumber)
  BY ConstantsAssumption DEF NoLookup

(* Where sessions at most leave, no number holds more of them.             *)
LEMMA FewerActive ==
    ASSUME NEW n \in Numbers, ActiveOn(n)' \subseteq ActiveOn(n)
    PROVE  Occupancy(n)' <= Occupancy(n)
<1>1. IsFiniteSet(ActiveOn(n))
  BY ActiveFinite
<1> QED
  BY <1>1, FS_Subset DEF Occupancy

(* A step that ends no session and stamps nothing, while no creation       *)
(* queries                                                                 *)
LEMMA KeepSeen ==
    ASSUME TypeOK, TypeOK', Seen, UNCHANGED <<released_at, ended>>,
           now' = now \/ now' = now + 1,
           \A x \in Ids : looked'[x] = looked[x] \/ looked'[x] = NoLookup,
           \A x \in Ids : status'[x] = "active" =>
               /\ status[x] = "active" /\ number_id'[x] = number_id[x]
               /\ parties'[x] = parties[x]
    PROVE  Seen'
<1>1. Paired'
  BY DEF Paired, Seen
<1>2. ASSUME NEW s \in Ids, NEW n \in Triable(s)'
      PROVE  Known(s, n)'
  <2>1. n \in Numbers /\ looked'[s] = looked[s] /\ n \in Triable(s)
    BY <1>2, NothingTriable DEF Triable
  <2>2. Known(s, n)
    BY <2>1 DEF Seen
  <2>3. Occupancy(n)' <= Occupancy(n)
    <3>1. ActiveOn(n)' \subseteq ActiveOn(n)
      BY DEF ActiveOn
    <3> QED
      BY <2>1, <3>1, FewerActive
  <2>4. Occupancy(n)' \in Nat /\ Occupancy(n) \in Nat /\ looked[s].count[n] \in Nat
    <3>1. IsFiniteSet(ActiveOn(n)')
      BY ConstantsAssumption, FS_Subset DEF ActiveOn
    <3> QED
      BY <2>1, <3>1, ActiveFinite, FS_CardinalityType DEF Occupancy, TypeOK, Lookups
  <2>5. n \notin looked'[s].filled => Occupancy(n)' <= looked'[s].count[n]
    BY <2>1, <2>2, <2>3, <2>4 DEF Known
  <2>6. ASSUME Retention >= Cooldown, NEW p \in looked'[s].pair
        PROVE  \/ ended'[n][p] = Never
               \/ ended'[n][p] <= now' - Cooldown
               \/ <<n, p>> \in looked'[s].left
    <3>1. p \in Parties /\ p \in looked[s].pair
      BY <2>1, <2>6 DEF TypeOK, Lookups
    <3>2. ended[n][p] \in Nat \cup {Never} /\ now \in Nat /\ Cooldown \in Nat
      BY <2>1, <3>1, ConstantsAssumption DEF TypeOK
    <3> QED
      BY <2>1, <2>2, <2>6, <3>1, <3>2 DEF Known
  <2>7. Rested(n) => Rested(n)'
    <3>1. released_at[n] \in Nat \cup {Never} /\ now \in Nat /\ Cooldown \in Nat
      BY <2>1, ConstantsAssumption DEF TypeOK
    <3> QED
      BY <3>1 DEF Rested
  <2> QED
    BY <2>1, <2>2, <2>5, <2>6, <2>7 DEF Known
<1> QED
  BY <1>1, <1>2 DEF Seen

(* What the query has just returned is so.                                 *)
LEMMA LookSeen ==
    ASSUME TypeOK, Clocks, Seen, NEW s \in Ids, NEW pair \in Pairs, NEW locked,
           LookForShared(s, pair, locked)
    PROVE  Seen'
<1>1. /\ looked' = [looked EXCEPT ![s] =
           [pair |-> pair, count |-> [n \in Numbers |-> CountSeen(n, pair)],
            filled |-> {}, left |-> {}]]
      /\ UNCHANGED <<now, released_at, status, number_id, parties, ended>>
  BY DEF LookForShared
<1>2. Paired'
  BY <1>1 DEF Paired, Seen
<1>3. \A n \in Numbers : Occupancy(n)' = Occupancy(n) /\ Rested(n)' = Rested(n)
  BY <1>1 DEF Occupancy, ActiveOn, Rested
<1>4. ASSUME NEW x \in Ids \ {s}, NEW n \in Triable(x)'
      PROVE  Known(x, n)'
  <2>1. n \in Numbers /\ looked'[x] = looked[x] /\ n \in Triable(x)
    BY <1>1, <1>4 DEF Triable, TypeOK
  <2> QED
    BY <1>1, <1>3, <2>1 DEF Known, Seen
<1>5. ASSUME NEW n \in Triable(s)'
      PROVE  Known(s, n)'
  <2>1. n \in Numbers /\ looked'[s] = [pair |-> pair,
            count |-> [m \in Numbers |-> CountSeen(m, pair)], filled |-> {}, left |-> {}]
    BY <1>1, <1>5 DEF Triable, TypeOK
  <2>2. looked'[s].count[n] = CountSeen(n, pair) /\ CountSeen(n, pair) < MaxPerNumber
    BY <1>5, <2>1 DEF Triable
  <2>3. Candidate(n, pair) /\ CountSeen(n, pair) = Occupancy(n)
    BY <2>2, ConstantsAssumption DEF CountSeen
  <2>4. ASSUME Retention >= Cooldown, NEW p \in pair, ended[n][p] # Never
        PROVE  ended[n][p] <= now - Cooldown
    <3>1. p \in Parties
      BY DEF Pairs
    <3>2. ended[n][p] \in Nat /\ now \in Nat /\ Cooldown \in Nat
      BY <2>1, <2>4, <3>1, ConstantsAssumption DEF TypeOK
    <3>3. ~PartyCooling(n, pair)
      BY <2>3 DEF Candidate
    <3>4. ~(ended[n][p] > now - Cooldown)
      BY <2>1, <2>4, <3>1, <3>3 DEF Clocks, Remembered, PartyCooling
    <3> QED
      BY <3>2, <3>4
  <2>5. Rested(n)
    BY <2>3 DEF Candidate
  <2>6. Occupancy(n)' <= looked'[s].count[n]
    BY <1>3, <2>1, <2>2, <2>3, ActiveFinite
  <2>7. looked'[s].pair = pair
    BY <2>1
  <2> QED
    BY <1>1, <1>3, <2>1, <2>4, <2>5, <2>6, <2>7 DEF Known
<1> QED
  BY <1>2, <1>4, <1>5 DEF Seen

(* An insertion fills its number and clears its own lookup.                *)
LEMMA InsertSeen ==
    ASSUME TypeOK, Seen, NEW s \in Ids, NEW n \in Numbers, NEW pair \in Pairs,
           NEW code, NEW ttl, NEW given, Insert(s, n, pair, code, ttl, given)
    PROVE  Seen'
<1>1. /\ status' = [status EXCEPT ![s] = "active"]
      /\ number_id' = [number_id EXCEPT ![s] = n]
      /\ parties' = [parties EXCEPT ![s] = pair]
      /\ UNCHANGED <<now, released_at, ended>>
      /\ looked' = [x \in Ids |->
           IF x = s THEN NoLookup
           ELSE IF n \in Triable(x) THEN [looked[x] EXCEPT !.filled = @ \cup {n}]
           ELSE looked[x]]
  BY DEF Insert
<1>2. Paired'
  BY <1>1 DEF Paired, Seen, TypeOK
<1>3. ASSUME NEW x \in Ids, NEW m \in Triable(x)'
      PROVE  Known(x, m)'
  <2>1. x # s
    BY <1>1, <1>3, NothingTriable DEF Triable
  <2>2. /\ looked'[x].pair = looked[x].pair /\ looked'[x].count = looked[x].count
        /\ looked'[x].left = looked[x].left
        /\ looked[x].filled \subseteq looked'[x].filled
    BY <1>1, <2>1 DEF TypeOK, Lookups
  <2>3. m \in Numbers /\ m \in Triable(x)
    BY <1>3, <2>2 DEF Triable
  <2>4. Known(x, m)
    BY <2>3 DEF Seen
  <2>5. m \notin looked'[x].filled => Occupancy(m)' <= looked'[x].count[m]
    <3>1. CASE m = n
      <4>1. looked'[x] = [looked[x] EXCEPT !.filled = @ \cup {n}]
        BY <1>1, <2>1, <2>3, <3>1
      <4> QED
        BY <3>1, <4>1 DEF TypeOK, Lookups
    <3>2. CASE m # n
      <4>1. ActiveOn(m)' = ActiveOn(m)
        BY <1>1, <3>2 DEF ActiveOn, TypeOK, Insert
      <4> QED
        BY <2>2, <2>4, <4>1 DEF Known, Occupancy
    <3> QED
      BY <3>1, <3>2
  <2>6. Rested(m)' = Rested(m)
    BY <1>1 DEF Rested
  <2> QED
    BY <1>1, <2>2, <2>4, <2>5, <2>6 DEF Known
<1> QED
  BY <1>2, <1>3 DEF Seen

(* Who leaves a number is noted in the lookups it may still be tried for.  *)
LEMMA EndSeen ==
    ASSUME TypeOK, Seen, NEW batch, NEW terminal \in {"closed", "expired"},
           End(batch, terminal)
    PROVE  Seen'
<1>1. /\ status' = [s \in Ids |-> IF s \in batch THEN terminal ELSE status[s]]
      /\ UNCHANGED <<now, number_id, parties>>
      /\ looked' = [x \in Ids |-> [looked[x] EXCEPT !.left = @ \cup
             {at \in Triable(x) \X Parties :
                 \E s \in ActiveOn(at[1]) \cap batch : at[2] \in parties[s]}]]
  BY DEF End, LeftSince
<1>2. Paired'
  BY <1>1 DEF Paired, Seen
<1>3. ASSUME NEW x \in Ids, NEW n \in Triable(x)'
      PROVE  Known(x, n)'
  <2>1. /\ looked'[x].pair = looked[x].pair /\ looked'[x].count = looked[x].count
        /\ looked'[x].filled = looked[x].filled
        /\ looked'[x].left = looked[x].left \cup
             {at \in Triable(x) \X Parties :
                 \E s \in ActiveOn(at[1]) \cap batch : at[2] \in parties[s]}
    <3>1. looked[x] \in Lookups
      BY DEF TypeOK
    <3> QED
      BY <1>1, <3>1 DEF Lookups
  <2>2. n \in Numbers /\ n \in Triable(x)
    BY <1>3, <2>1 DEF Triable
  <2>3. Known(x, n)
    BY <2>2 DEF Seen
  <2>4. \A s \in ActiveOn(n) \cap batch, p \in Parties :
           p \in parties[s] => <<n, p>> \in looked'[x].left
    <3> HIDE DEF Triable
    <3> QED
      BY <2>1, <2>2
  <2>5. n \notin looked'[x].filled => Occupancy(n)' <= looked'[x].count[n]
    <3>1. ActiveOn(n)' \subseteq ActiveOn(n)
      BY <1>1 DEF ActiveOn
    <3>2. Occupancy(n)' <= Occupancy(n)
      BY <2>2, <3>1, FewerActive
    <3>3. Occupancy(n)' \in Nat /\ Occupancy(n) \in Nat /\ looked[x].count[n] \in Nat
      <4>1. IsFiniteSet(ActiveOn(n)')
        BY <2>2, <3>1, ActiveFinite, FS_Subset
      <4> QED
        BY <2>2, <4>1, ActiveFinite, FS_CardinalityType DEF Occupancy, TypeOK, Lookups
    <3> QED
      BY <2>1, <2>3, <3>2, <3>3 DEF Known
  <2>6. ASSUME Retention >= Cooldown, NEW p \in looked'[x].pair
        PROVE  \/ ended'[n][p] = Never
               \/ ended'[n][p] <= now' - Cooldown
               \/ <<n, p>> \in looked'[x].left
    <3>1. p \in Parties /\ p \in looked[x].pair
      BY <2>1, <2>6 DEF TypeOK, Lookups
    <3>2. CASE \E s \in ActiveOn(n) \cap batch : p \in parties[s]
      BY <2>4, <3>1, <3>2
    <3>3. CASE ~\E s \in ActiveOn(n) \cap batch : p \in parties[s]
      <4>1. ended'[n][p] = ended[n][p]
        BY <2>2, <3>1, <3>3 DEF End
      <4> QED
        BY <1>1, <2>1, <2>3, <2>6, <3>1, <4>1 DEF Known
    <3> QED
      BY <3>2, <3>3
  <2>7. Rested(n)' \/ \E q \in Parties : <<n, q>> \in looked'[x].left
    <3>1. CASE ActiveOn(n) \cap batch = {}
      <4>1. released_at'[n] = released_at[n]
        BY <2>2, <3>1 DEF End
      <4> QED
        BY <1>1, <2>1, <2>3, <4>1 DEF Known, Rested
    <3>2. CASE ActiveOn(n) \cap batch # {}
      <4>1. PICK s \in ActiveOn(n) \cap batch : parties[s] \in Pairs
        BY <3>2 DEF Seen, Paired, ActiveOn
      <4>2. PICK p \in Parties : p \in parties[s]
        BY <4>1, PairsPeopled
      <4> QED
        BY <2>4, <4>1, <4>2
    <3> QED
      BY <3>1, <3>2
  <2> QED
    BY <2>1, <2>3, <2>5, <2>6, <2>7 DEF Known
<1> QED
  BY <1>2, <1>3 DEF Seen

(* A session comes to be on a number that is a candidate at that moment,   *)
(* or on one a query returned for its pair.                                *)
LEMMA CreatePlaced ==
    ASSUME TypeOK, Seen, NEW s \in Ids, NEW ttl \in 1..MaxTtl,
           NEW locked \in SUBSET Numbers, CreateSession(s, ttl, locked)
    PROVE  \E n \in Numbers, pair \in Pairs :
              /\ \E code, given : Insert(s, n, pair, code, ttl, given)
              /\ Candidate(n, pair) \/ (n \in Triable(s) /\ pair = looked[s].pair)
<1>1. PICK n \in Numbers :
        \/ \E pair \in Pairs : CreateExclusive(s, pair, ttl, locked, n)
        \/ \E code \in Codes, given \in Promotions(s, locked, n) :
               CreateShared(s, ttl, locked, n, code, given)
  BY DEF CreateSession
<1>2. CASE \E pair \in Pairs : CreateExclusive(s, pair, ttl, locked, n)
  BY <1>2 DEF CreateExclusive, ConflictFree
<1>3. ASSUME NEW code \in Codes, NEW given \in Promotions(s, locked, n),
             CreateShared(s, ttl, locked, n, code, given)
      PROVE  /\ Insert(s, n, looked[s].pair, code, ttl, given)
             /\ n \in Triable(s) /\ looked[s].pair \in Pairs
  <2>1. n \in Triable(s) /\ Insert(s, n, looked[s].pair, code, ttl, given)
    BY <1>3 DEF CreateShared
  <2> QED
    BY <2>1 DEF Seen, Known
<1> QED
  BY <1>1, <1>2, <1>3

LEMMA NextSeen == TypeOK /\ Clocks /\ Seen /\ [Next]_vars => Seen'
<1> SUFFICES ASSUME TypeOK, Clocks, Seen, [Next]_vars PROVE Seen'
  OBVIOUS
<1>0. TypeOK'
  BY NextTypeOK
<1>1. ASSUME NEW n \in Numbers, NEW st \in {"enabled", "disabled"},
             AddNumber(n, st) \/ SetNumberStatus(n, st)
      PROVE  Seen'
  BY <1>0, <1>1, KeepSeen DEF AddNumber, SetNumberStatus
<1>2. ASSUME NEW s \in Ids, NEW ttl \in 1..MaxTtl, NEW locked \in SUBSET Numbers,
             CreateSession(s, ttl, locked)
      PROVE  Seen'
  BY <1>2, CreatePlaced, InsertSeen
<1>3. ASSUME NEW s, NEW e, SetExpiry(s, e)
      PROVE  Seen'
  BY <1>0, <1>3, KeepSeen DEF SetExpiry
<1>4. ASSUME NEW s \in Ids, CloseSession(s)
      PROVE  Seen'
  BY <1>4, EndSeen DEF CloseSession
<1>5. CASE ExpireDue
  BY <1>5, EndSeen DEF ExpireDue
<1>6. CASE Purge
  BY <1>0, <1>6, KeepSeen DEF Purge
<1>7. CASE Tick
  BY <1>0, <1>7, KeepSeen DEF Tick
<1>8. CASE UNCHANGED vars
  BY <1>0, <1>8, KeepSeen DEF vars
<1>9. (\E s \in Ids, ttl \in 1..MaxTtl : ExtendTtl(s, ttl)) => Seen'
  BY <1>3 DEF ExtendTtl
<1>10. (\E s \in Ids, e \in Instants : ExtendUntil(s, e)) => Seen'
  BY <1>3 DEF ExtendUntil
<1>11. \A s \in Ids, pair \in Pairs, locked \in SUBSET Numbers :
         LookForShared(s, pair, locked) => Seen'
  BY LookSeen
<1>12. \A s \in Ids : GiveUp(s) => Seen'
  <2> SUFFICES ASSUME NEW s \in Ids, GiveUp(s) PROVE Seen'
    OBVIOUS
  <2>1. \A x \in Ids : looked'[x] = looked[x] \/ looked'[x] = NoLookup
    BY DEF GiveUp, TypeOK
  <2> QED
    BY <1>0, <2>1, KeepSeen DEF GiveUp
<1> QED
  BY <1>1, <1>2, <1>4, <1>5, <1>6, <1>7, <1>8, <1>9, <1>10, <1>11, <1>12 DEF Next

LEMMA SeenInvariant == Spec => [](TypeOK /\ Clocks /\ Seen)
<1>1. Init => Seen
  BY NothingTriable DEF Init, Seen, Paired, Triable
<1>2. TypeOK /\ Clocks /\ Seen /\ [Next]_vars => Seen'
  BY NextSeen
<1> QED
  BY <1>1, <1>2, ClocksInvariant, PTL DEF Spec

(* A session that comes to be has a number that was a candidate for it, at *)
(* that moment or when its creation queried.                               *)
LEMMA CreatedOnCandidate ==
    ASSUME TypeOK, Seen, [Next]_vars, NEW s \in Ids, Created(s)
    PROVE  /\ number_id'[s] \in Numbers /\ parties'[s] \in Pairs
           /\ \/ Candidate(number_id'[s], parties'[s])
              \/ Known(s, number_id'[s]) /\ parties'[s] = looked[s].pair
<1>1. PICK ttl \in 1..MaxTtl, locked \in SUBSET Numbers : CreateSession(s, ttl, locked)
  <2>1. \A x \in Ids, ttl \in 1..MaxTtl, locked \in SUBSET Numbers :
           CreateSession(x, ttl, locked) => x = s
    BY CreateHandout DEF Insert, Created, TypeOK
  <2> QED
    BY <2>1 DEF Next, vars, Created, AddNumber, SetNumberStatus, LookForShared, GiveUp,
       ExtendTtl, ExtendUntil, SetExpiry, CloseSession, ExpireDue, End, Purge, Tick
<1>2. PICK n \in Numbers, pair \in Pairs :
         /\ \E code, given : Insert(s, n, pair, code, ttl, given)
         /\ Candidate(n, pair) \/ (n \in Triable(s) /\ pair = looked[s].pair)
  BY <1>1, CreatePlaced
<1>3. number_id'[s] = n /\ parties'[s] = pair
  BY <1>2 DEF Insert, TypeOK
<1> QED
  BY <1>2, <1>3 DEF Seen

(* With the number scope, an idle number is given to nobody until its      *)
(* cooldown is over, unless somebody left it while the creation was under  *)
(* way.                                                                    *)
THEOREM NumberQuarantined == Spec => NumberCooldown
<1>1. TypeOK /\ Clocks /\ Seen /\ [Next]_vars =>
        [CooldownScope = "number" =>
            \A s \in Ids : Created(s) /\ ActiveOn(number_id'[s]) = {} =>
               \A p \in Parties :
                  \/ ended[number_id'[s]][p] = Never
                  \/ ended[number_id'[s]][p] < now - Cooldown
                  \/ \E q \in Parties : <<number_id'[s], q>> \in looked[s].left]_vars
  <2> SUFFICES ASSUME TypeOK, Clocks, Seen, [Next]_vars, CooldownScope = "number",
                      NEW s \in Ids, Created(s), ActiveOn(number_id'[s]) = {},
                      NEW p \in Parties, ended[number_id'[s]][p] # Never,
                      ~\E q \in Parties : <<number_id'[s], q>> \in looked[s].left
               PROVE  ended[number_id'[s]][p] < now - Cooldown
    OBVIOUS
  <2>1. PICK n \in Numbers : n = number_id'[s] /\ Rested(n)
    BY CreatedOnCandidate DEF Candidate, Known
  <2>2. released_at[n] # Never /\ released_at[n] >= ended[n][p]
    BY <2>1 DEF Clocks, IdleClock
  <2>3. released_at[n] < now - Cooldown
    BY <2>1, <2>2 DEF Rested
  <2>4. released_at[n] \in Nat /\ ended[n][p] \in Nat /\ now \in Nat /\ Cooldown \in Nat
    BY <2>1, <2>2, ConstantsAssumption DEF TypeOK
  <2> QED
    BY <2>1, <2>2, <2>3, <2>4
<1> QED
  BY <1>1, SeenInvariant, PTL DEF Spec, NumberCooldown

(* In either scope, nobody gets back within the cooldown a number one of   *)
(* their sessions ended on, provided closed rows outlive the cooldown, and *)
(* unless that session ended while the creation was under way.             *)
THEOREM PartyQuarantined == Spec => PartyCooldown
<1>1. TypeOK /\ Clocks /\ Seen /\ [Next]_vars =>
        [Retention >= Cooldown =>
            \A s \in Ids : Created(s) =>
               \A p \in parties'[s] :
                  \/ ended[number_id'[s]][p] = Never
                  \/ ended[number_id'[s]][p] <= now - Cooldown
                  \/ <<number_id'[s], p>> \in looked[s].left]_vars
  <2> SUFFICES ASSUME TypeOK, Clocks, Seen, [Next]_vars, Retention >= Cooldown,
                      NEW s \in Ids, Created(s), NEW p \in parties'[s],
                      ended[number_id'[s]][p] # Never,
                      <<number_id'[s], p>> \notin looked[s].left
               PROVE  ended[number_id'[s]][p] <= now - Cooldown
    OBVIOUS
  <2>1. PICK n \in Numbers :
           /\ n = number_id'[s]
           /\ ~PartyCooling(n, parties'[s]) \/ ended[n][p] <= now - Cooldown
    BY CreatedOnCandidate DEF Candidate, Known
  <2>2. p \in Parties
    BY CreatedOnCandidate DEF Pairs
  <2>3. CASE ~PartyCooling(n, parties'[s])
    <3>1. ended[n][p] \in Nat /\ now \in Nat /\ Cooldown \in Nat
      BY <2>1, <2>2, ConstantsAssumption DEF TypeOK
    <3>2. ~(ended[n][p] > now - Cooldown)
      BY <2>1, <2>2, <2>3 DEF Clocks, Remembered, PartyCooling
    <3> QED
      BY <2>1, <3>1, <3>2
  <2> QED
    BY <2>1, <2>3
<1> QED
  BY <1>1, SeenInvariant, PTL DEF Spec, PartyCooldown

-----------------------------------------------------------------------------
(* The cap                                                                 *)

(* A PIN is handed out on numbers the query showed with room: on the one   *)
(* that serves the pair and on those given up on the way.                  *)
Room(s, n, code, given) ==
    /\ \A x \in DOMAIN given : number_id[x] \in Triable(s)
    /\ code # NoCode => n \in Triable(s)

LEMMA CreateRoom ==
    ASSUME NEW s \in Ids, NEW ttl \in 1..MaxTtl, NEW locked \in SUBSET Numbers,
           CreateSession(s, ttl, locked)
    PROVE  \E n \in Numbers : \E pair, code, given :
              Room(s, n, code, given) /\ Insert(s, n, pair, code, ttl, given)
<1>1. PICK n \in Numbers :
        \/ \E pair \in Pairs : CreateExclusive(s, pair, ttl, locked, n)
        \/ \E code \in Codes, given \in Promotions(s, locked, n) :
               CreateShared(s, ttl, locked, n, code, given)
  BY DEF CreateSession
<1>2. CASE \E pair \in Pairs : CreateExclusive(s, pair, ttl, locked, n)
  <2>1. Room(s, n, NoCode, [x \in {} |-> NoCode])
    BY DEF Room
  <2> QED
    BY <1>2, <2>1 DEF CreateExclusive
<1>3. ASSUME NEW code \in Codes, NEW given \in Promotions(s, locked, n),
             CreateShared(s, ttl, locked, n, code, given)
      PROVE  /\ Room(s, n, code, given)
             /\ Insert(s, n, looked[s].pair, code, ttl, given)
  <2> DEFINE tried == Tried(s, locked, n)
  <2>1. PICK done \in SUBSET UNION {ToPromote(m, looked[s].pair) : m \in tried \cup {n}} :
            given \in [done -> Codes]
    BY DEF Promotions
  <2>2. \A x \in DOMAIN given : number_id[x] \in tried \cup {n}
    BY <2>1 DEF ToPromote, ActiveOf, ActiveOn
  <2>3. \A m \in tried \cup {n} : m \in Triable(s)
    BY <1>3 DEF Tried, CreateShared
  <2> QED
    BY <1>3, <2>2, <2>3 DEF Room, CreateShared
<1> QED
  BY <1>1, <1>2, <1>3

(* No PIN pushes a number over the cap unless another session came to the  *)
(* number after the query.                                                 *)
LEMMA InsertCapped ==
    ASSUME TypeOK, Seen, NEW s \in Ids, NEW n \in Numbers, NEW pair, NEW ttl,
           NEW code, NEW given, Room(s, n, code, given),
           Insert(s, n, pair, code, ttl, given),
           NEW m \in Numbers, m \notin looked[s].filled
    PROVE  \/ Cardinality(Coded(m)') <= MaxPerNumber
           \/ Cardinality(Coded(m)') <= Cardinality(Coded(m))
<1>1. /\ IsFiniteSet(ActiveOn(m)) /\ Cardinality(ActiveOn(m)) \in Nat
      /\ MaxPerNumber \in Nat
  BY ActiveFinite, ConstantsAssumption DEF Occupancy
<1>2. /\ ActiveOn(m)' = IF m = n THEN ActiveOn(m) \cup {s} ELSE ActiveOn(m)
      /\ s \notin ActiveOn(m)
  BY DEF Insert, ActiveOn, TypeOK
<1>3. /\ IsFiniteSet(ActiveOn(m) \cup {s})
      /\ Cardinality(ActiveOn(m) \cup {s}) = Cardinality(ActiveOn(m)) + 1
  BY <1>1, <1>2, FS_AddElement
<1>4. /\ ext_code'[s] = code
      /\ \A x \in Ids \ {s} :
            ext_code'[x] = IF x \in DOMAIN given THEN given[x] ELSE ext_code[x]
  BY DEF Insert
<1>5. m \in Triable(s) => Cardinality(ActiveOn(m)) + 1 <= MaxPerNumber
  <2> SUFFICES ASSUME m \in Triable(s) PROVE Cardinality(ActiveOn(m)) + 1 <= MaxPerNumber
    OBVIOUS
  <2>1. Occupancy(m) <= looked[s].count[m]
    BY DEF Seen, Known
  <2>2. looked[s].count[m] < MaxPerNumber /\ looked[s].count[m] \in Nat
    BY DEF Triable, TypeOK, Lookups
  <2> QED
    BY <1>1, <2>1, <2>2 DEF Occupancy
<1>6. CASE m \in Triable(s)
  <2>1. Coded(m)' \subseteq ActiveOn(m) \cup {s}
    BY <1>2 DEF Coded
  <2>2. Cardinality(Coded(m)') <= Cardinality(ActiveOn(m)) + 1
    BY <1>3, <2>1, FS_Subset
  <2>3. Cardinality(Coded(m)') \in Nat
    BY <1>3, <2>1, FS_Subset, FS_CardinalityType
  <2> QED
    BY <1>1, <1>5, <1>6, <2>2, <2>3
<1>7. CASE m \notin Triable(s)
  <2>1. \A x \in ActiveOn(m) : x \notin DOMAIN given
    BY <1>7 DEF Room, ActiveOn
  <2>2. m = n => code = NoCode
    BY <1>7 DEF Room
  <2>3. Coded(m)' \subseteq Coded(m)
    BY <1>2, <1>4, <2>1, <2>2 DEF Coded, ActiveOn
  <2>4. IsFiniteSet(Coded(m))
    <3>1. Coded(m) \subseteq ActiveOn(m)
      BY DEF Coded
    <3> QED
      BY <1>1, <3>1, FS_Subset
  <2> QED
    BY <2>3, <2>4, FS_Subset
<1> QED
  BY <1>6, <1>7

(* Sessions that leave, and rows that go, free PINs at most.               *)
LEMMA ShrinkCoded ==
    ASSUME \A x \in Ids : status'[x] = "active" =>
               /\ status[x] = "active" /\ number_id'[x] = number_id[x]
               /\ ext_code'[x] = ext_code[x],
           NEW m \in Numbers
    PROVE  Cardinality(Coded(m)') <= Cardinality(Coded(m))
<1>1. Coded(m)' \subseteq Coded(m)
  BY DEF Coded, ActiveOn
<1>2. IsFiniteSet(Coded(m))
  <2>1. Coded(m) \subseteq ActiveOn(m)
    BY DEF Coded
  <2> QED
    BY <2>1, ActiveFinite, FS_Subset
<1> QED
  BY <1>1, <1>2, FS_Subset

(* Over the cap, the sessions with a PIN on a number grow only in a        *)
(* creation crossed by another: whoever was promoted on the way and on     *)
(* whatever numbers the creation gave up.                                  *)
THEOREM CapRespected == Spec => CodeCap
<1>1. TypeOK /\ Seen /\ [Next]_vars =>
        [\A n \in Numbers :
            Cardinality(Coded(n)') > MaxPerNumber =>
               \/ Cardinality(Coded(n)') <= Cardinality(Coded(n))
               \/ \E s \in Ids : Created(s) /\ n \in looked[s].filled]_vars
  <2> SUFFICES ASSUME TypeOK, Seen, [Next]_vars, NEW m \in Numbers,
                      Cardinality(Coded(m)') > MaxPerNumber,
                      ~(Cardinality(Coded(m)') <= Cardinality(Coded(m)))
               PROVE  \E s \in Ids : Created(s) /\ m \in looked[s].filled
    OBVIOUS
  <2>1. ASSUME NEW s \in Ids, NEW ttl \in 1..MaxTtl, NEW locked \in SUBSET Numbers,
               CreateSession(s, ttl, locked)
        PROVE  Created(s) /\ m \in looked[s].filled
    <3>1. PICK n \in Numbers :
             \E pair, code, given : Room(s, n, code, given)
                                   /\ Insert(s, n, pair, code, ttl, given)
      BY <2>1, CreateRoom
    <3>2. Created(s)
      BY <3>1 DEF Insert, Created, TypeOK
    <3>3. Coded(m)' \subseteq Ids /\ IsFiniteSet(Ids)
      BY ConstantsAssumption DEF Coded, ActiveOn
    <3>4. Cardinality(Coded(m)') \in Nat /\ MaxPerNumber \in Nat
      BY <3>3, FS_Subset, FS_CardinalityType, ConstantsAssumption
    <3> QED
      BY <3>1, <3>2, <3>4, InsertCapped
  <2>2. \E s \in Ids, ttl \in 1..MaxTtl, locked \in SUBSET Numbers :
           CreateSession(s, ttl, locked)
    <3>1. ASSUME \A x \in Ids : status'[x] = "active" =>
                    /\ status[x] = "active" /\ number_id'[x] = number_id[x]
                    /\ ext_code'[x] = ext_code[x]
          PROVE  FALSE
      BY <3>1, ShrinkCoded
    <3>2. \A s \in Ids, pair \in Pairs, locked \in SUBSET Numbers :
             ~LookForShared(s, pair, locked)
      BY <3>1 DEF LookForShared
    <3>3. \A n \in Numbers, st \in {"enabled", "disabled"} :
             ~AddNumber(n, st) /\ ~SetNumberStatus(n, st)
      BY <3>1 DEF AddNumber, SetNumberStatus
    <3>4. ~ExpireDue /\ \A s \in Ids : ~CloseSession(s)
      BY <3>1 DEF ExpireDue, CloseSession, End
    <3>5. ~Purge /\ ~Tick /\ ~UNCHANGED vars
      BY <3>1 DEF Purge, Tick, vars
    <3>6. /\ \A s \in Ids, ttl \in 1..MaxTtl : ~ExtendTtl(s, ttl)
          /\ \A s \in Ids, e \in Instants : ~ExtendUntil(s, e)
      BY <3>1 DEF ExtendTtl, ExtendUntil, SetExpiry
    <3>7. \A s \in Ids : ~GiveUp(s)
      BY <3>1 DEF GiveUp
    <3> QED
      BY <3>2, <3>3, <3>4, <3>5, <3>6, <3>7 DEF Next
  <2> QED
    BY <2>1, <2>2
<1> QED
  BY <1>1, SeenInvariant, PTL DEF Spec, CodeCap

-----------------------------------------------------------------------------
(* What Ledger promises of a transaction                                   *)

(* The rows as Ledger has them.  Sessions keeps the expiry itself, in time,*)
(* so that an extension or the clock changes nothing here.                 *)
Row == [s \in Ids |-> [status |-> status[s], number |-> number_id[s],
                      parties |-> parties[s], code |-> ext_code[s],
                      life |-> "running"]]

Book == INSTANCE Ledger WITH row <- Row

LEMMA SameQueries ==
    ASSUME NEW n \in Numbers
    PROVE  Book!ActiveOn(Row, n) = ActiveOn(n) /\ Book!CodesOn(Row, n) = UsedCodes(n)
<1>1. Book!ActiveOn(Row, n) = ActiveOn(n)
  BY DEF Book!ActiveOn, ActiveOn, Row
<1>2. \A s \in ActiveOn(n) : Row[s].code = ext_code[s]
  BY DEF ActiveOn, Row
<1> QED
  BY <1>1, <1>2 DEF Book!CodesOn, UsedCodes

(* A creation, promotions on candidates given up included, is Create.      *)
LEMMA CreateBooked ==
    ASSUME TypeOK, TypeOK', NEW s \in Ids, NEW n \in Numbers, NEW pair \in SUBSET Parties,
           NEW code \in Codes \cup {NoCode}, NEW ttl, NEW given,
           FairHandout(n, pair, code, given), Insert(s, n, pair, code, ttl, given)
    PROVE  Book!Create(s)
<1> DEFINE promoted == Book!Promoted(s)
<1>1. /\ Row[s].status = "none"
      /\ Row'[s].status = "active" /\ Row'[s].number = n
      /\ Row'[s].parties = pair /\ Row'[s].code = code
  BY DEF Row, Insert, TypeOK
<1>2. s \notin DOMAIN given
  BY DEF FairHandout, Insert
<1>3. \A x \in Ids \ {s} :
         Row'[x] = IF x \in DOMAIN given THEN [Row[x] EXCEPT !.code = given[x]] ELSE Row[x]
  BY DEF Row, Insert, TypeOK
<1>4. \A x \in promoted : /\ x \in DOMAIN given /\ x \in Ids \ {s}
                          /\ Row'[x] = [Row[x] EXCEPT !.code = given[x]]
                          /\ Row'[x].code = given[x]
                          /\ Row'[x].number = number_id[x]
                          /\ Row[x].status = "active" /\ Row[x].code = NoCode
  <2> SUFFICES ASSUME NEW x \in promoted
               PROVE  /\ x \in DOMAIN given /\ x \in Ids \ {s}
                      /\ Row'[x] = [Row[x] EXCEPT !.code = given[x]]
                      /\ Row'[x].code = given[x]
                      /\ Row'[x].number = number_id[x]
                      /\ Row[x].status = "active" /\ Row[x].code = NoCode
    OBVIOUS
  <2>1. x \in Ids \ {s} /\ Row'[x] # Row[x]
    BY DEF Book!Promoted, Row
  <2>2. x \in DOMAIN given /\ Row'[x] = [Row[x] EXCEPT !.code = given[x]]
    BY <1>3, <2>1
  <2>3. Row[x].status = "active" /\ Row[x].code = NoCode /\ Row[x].number = number_id[x]
    BY <2>1, <2>2 DEF FairHandout, Row
  <2>4. Row'[x].code = given[x] /\ Row'[x].number = Row[x].number
    BY <2>1, <2>2 DEF Row
  <2> QED
    BY <2>1, <2>2, <2>3, <2>4
<1> HIDE DEF promoted
<1>5. \A x \in promoted \cup {s} :
         Row'[x].code # NoCode =>
            /\ Row'[x].code \notin Book!CodesOn(Row, Row'[x].number)
            /\ \A y \in (promoted \cup {s}) \ {x} :
                  Row'[y].number = Row'[x].number => Row'[y].code # Row'[x].code
  <2>1. \A x \in promoted :
           /\ number_id[x] \in Numbers
           /\ given[x] \notin UsedCodes(number_id[x])
           /\ number_id[x] = n => given[x] # code
    BY <1>4 DEF FairHandout
  <2>2. \A x, y \in promoted : number_id[x] = number_id[y] /\ given[x] = given[y] => x = y
    BY <1>4 DEF FairHandout
  <2>3. code # NoCode => code \notin UsedCodes(n)
    BY DEF FairHandout
  <2>4. ASSUME NEW x \in promoted
        PROVE  /\ Row'[x].code = given[x] /\ Row'[x].number = number_id[x]
               /\ Book!CodesOn(Row, number_id[x]) = UsedCodes(number_id[x])
    <3>1. number_id[x] \in Numbers
      BY <2>1
    <3>2. Book!CodesOn(Row, number_id[x]) = UsedCodes(number_id[x])
      BY <3>1, SameQueries
    <3> QED
      BY <1>4, <3>2
  <2>5. Book!CodesOn(Row, n) = UsedCodes(n)
    BY SameQueries
  <2> SUFFICES ASSUME NEW x \in promoted \cup {s}, Row'[x].code # NoCode
               PROVE  /\ Row'[x].code \notin Book!CodesOn(Row, Row'[x].number)
                      /\ \A y \in (promoted \cup {s}) \ {x} :
                            Row'[y].number = Row'[x].number => Row'[y].code # Row'[x].code
    OBVIOUS
  <2>6. ASSUME NEW y \in promoted, NEW z \in promoted, y # z, Row'[y].number = Row'[z].number
        PROVE  Row'[y].code # Row'[z].code
    BY <2>2, <2>4, <2>6
  <2>7. ASSUME NEW y \in promoted, Row'[y].number = Row'[s].number
        PROVE  Row'[y].code # Row'[s].code
    BY <1>1, <2>1, <2>4, <2>7
  <2>8. Row'[x].code \notin Book!CodesOn(Row, Row'[x].number)
    <3>1. CASE x \in promoted
      BY <2>1, <2>4, <3>1
    <3>2. CASE x = s
      BY <1>1, <2>3, <2>5, <3>2
    <3> QED
      BY <3>1, <3>2
  <2>9. ASSUME NEW y \in (promoted \cup {s}) \ {x}, Row'[y].number = Row'[x].number
        PROVE  Row'[y].code # Row'[x].code
    <3>1. CASE x \in promoted /\ y \in promoted
      BY <2>6, <2>9, <3>1
    <3>2. CASE x = s /\ y \in promoted
      BY <2>7, <2>9, <3>2
    <3>3. CASE x \in promoted /\ y = s
      BY <2>7, <2>9, <3>3
    <3> QED
      BY <3>1, <3>2, <3>3
  <2> QED
    BY <2>8, <2>9
<1>6. Row'[s].code = NoCode =>
         \A x \in Book!ActiveOn(Row, n) :
            Row'[x].code = NoCode => Row[x].parties \cap Row'[s].parties = {}
  <2> SUFFICES ASSUME code = NoCode, NEW x \in ActiveOn(n) PROVE Row[x].parties \cap pair = {}
    BY <1>1, SameQueries
  <2>1. ActiveOf(n, pair) = {}
    BY ConstantsAssumption DEF FairHandout
  <2> QED
    BY <2>1 DEF ActiveOf, ActiveOn, Row
<1>7. Row' \in [Ids -> Book!Rows]
  BY DEF TypeOK, Row, Book!Rows
<1>8. \A x \in promoted : Row'[x].code \in Codes
  BY <1>4 DEF FairHandout
<1>9. \A x \in promoted : /\ Row[x].status = "active" /\ Row[x].code = NoCode
                          /\ Row'[x] = [Row[x] EXCEPT !.code = Row'[x].code]
  BY <1>4
<1> QED
  <2>1. /\ Row[s].status = "none" /\ Row'[s].status = "active" /\ Row'[s].number \in Numbers
        /\ Row'[s].number = n
    BY <1>1
  <2> QED
    BY <2>1, <1>5, <1>6, <1>7, <1>8, <1>9, Zenon DEF Book!Create, promoted

(* A close or a sweep                                                      *)
LEMMA EndBooked ==
    ASSUME TypeOK, NEW batch \in SUBSET Ids, NEW terminal \in {"closed", "expired"},
           \A s \in batch : status[s] = "active", End(batch, terminal)
    PROVE  Book!End(terminal)
<1>1. \A s \in batch : Row[s].status # "none"
  BY DEF Row
<1>2. Row' = [s \in Ids |-> IF s \in batch THEN [Row[s] EXCEPT !.status = terminal] ELSE Row[s]]
  BY DEF Row, End
<1> QED
  BY <1>1, <1>2 DEF Book!End

LEMMA PurgeBooked ==
    ASSUME TypeOK, Purge
    PROVE  Book!Purge
<1>1. \A s \in Outdated : s \in Ids /\ Row[s].status \in {"closed", "expired"}
  BY DEF Outdated, Row
<1>2. Row' = [s \in Ids |-> IF s \in Outdated THEN Book!NoRow ELSE Row[s]]
  BY DEF Row, Purge, Book!NoRow
<1> QED
  BY <1>1, <1>2 DEF Book!Purge

LEMMA StepBooked == TypeOK /\ TypeOK' /\ [Next]_vars => [Book!Next]_Row
<1> SUFFICES ASSUME TypeOK, TypeOK', [Next]_vars PROVE Book!Next \/ Row' = Row
  OBVIOUS
<1>1. ASSUME NEW s \in Ids, NEW ttl \in 1..MaxTtl, NEW locked \in SUBSET Numbers,
             CreateSession(s, ttl, locked)
      PROVE  Book!Next
  BY <1>1, CreateHandout, CreateBooked DEF Book!Next
<1>2. ASSUME NEW s \in Ids, CloseSession(s)
      PROVE  Book!Next
  <2>1. Book!End("closed")
    BY <1>2, EndBooked DEF CloseSession
  <2> QED
    BY <2>1 DEF Book!Next
<1>3. CASE ExpireDue
  <2>1. Book!End("expired")
    BY <1>3, EndBooked DEF ExpireDue, Due
  <2> QED
    BY <2>1 DEF Book!Next
<1>4. CASE Purge
  BY <1>4, PurgeBooked DEF Book!Next
<1>5. CASE UNCHANGED <<status, number_id, parties, ext_code>>
  BY <1>5 DEF Row
<1>6. \A n \in Numbers, st \in {"enabled", "disabled"} :
         AddNumber(n, st) \/ SetNumberStatus(n, st)
         => UNCHANGED <<status, number_id, parties, ext_code>>
  BY DEF AddNumber, SetNumberStatus
<1>7. /\ \A s \in Ids, ttl \in 1..MaxTtl :
            ExtendTtl(s, ttl) => UNCHANGED <<status, number_id, parties, ext_code>>
      /\ \A s \in Ids, e \in Instants :
            ExtendUntil(s, e) => UNCHANGED <<status, number_id, parties, ext_code>>
      /\ \A s \in Ids, pair \in Pairs, locked \in SUBSET Numbers :
            LookForShared(s, pair, locked) => UNCHANGED <<status, number_id, parties, ext_code>>
      /\ \A s \in Ids : GiveUp(s) => UNCHANGED <<status, number_id, parties, ext_code>>
      /\ Tick => UNCHANGED <<status, number_id, parties, ext_code>>
      /\ UNCHANGED vars => UNCHANGED <<status, number_id, parties, ext_code>>
  BY DEF ExtendTtl, ExtendUntil, SetExpiry, LookForShared, GiveUp, Tick, vars
<1> QED
  BY <1>1, <1>2, <1>3, <1>4, <1>5, <1>6, <1>7 DEF Next

(* A transaction taken as one step does what Ledger promises of it, as the *)
(* same transaction does taken statement by statement (SessionTx): the two *)
(* models of create_session, close_session, expire_due_sessions and        *)
(* purge_old_records agree on what is committed.                           *)
THEOREM SessionsImplementLedger == Spec => Book!Spec
<1>1. Init => Book!Init
  BY DEF Init, Row, Book!Init, Book!Rows, Book!CodesDistinctIn, Book!OneDirectIn, Book!ActiveOn
<1> QED
  BY <1>1, StepBooked, TypeCorrect, PTL DEF Spec, Book!Spec

-----------------------------------------------------------------------------
(* A PIN the subscribers were told stays theirs until the session ends or  *)
(* after: no creation, promotion, extension or sweep replaces it.          *)
THEOREM PinsAreKept == Spec => CodeKept
<1>1. TypeOK /\ [Next]_vars =>
        [\A s \in Ids : status[s] = "active" /\ ext_code[s] # NoCode =>
            ext_code'[s] = ext_code[s] /\ number_id'[s] = number_id[s]]_vars
  <2> SUFFICES ASSUME TypeOK, [Next]_vars, NEW s \in Ids,
                      status[s] = "active", ext_code[s] # NoCode
               PROVE  ext_code'[s] = ext_code[s] /\ number_id'[s] = number_id[s]
    OBVIOUS
  <2>1. ASSUME NEW x \in Ids, NEW ttl \in 1..MaxTtl, NEW locked \in SUBSET Numbers,
               CreateSession(x, ttl, locked)
        PROVE  ext_code'[s] = ext_code[s] /\ number_id'[s] = number_id[s]
    BY <2>1, CreateHandout DEF Insert, FairHandout, TypeOK
  <2> QED
    BY <2>1 DEF Next, vars, AddNumber, SetNumberStatus, LookForShared, GiveUp, ExtendTtl,
       ExtendUntil, SetExpiry, CloseSession, ExpireDue, End, Purge, Outdated, Tick
<1> QED
  BY <1>1, TypeCorrect, PTL DEF Spec, CodeKept

=============================================================================
