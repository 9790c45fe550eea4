----------------------------- MODULE RateLimit ------------------------------
(***************************************************************************)
(* The quota of an API key: a fixed window counted in Redis                *)
(* (cache.rate_limit_hit, deps.require_api_key).  INCR and EXPIRE NX are   *)
(* one MULTI; when Redis does not answer the request goes through.         *)
(*                                                                         *)
(* `Fault:' marks a mistaken variant of the definition after it.           *)
(***************************************************************************)
EXTENDS Integers

CONSTANTS
    Limit,  \* settings.api_rate_limit_per_minute
    Window  \* window_seconds, in ticks

ASSUME RateLimitAssumption == Limit \in Nat \ {0} /\ Window \in Nat \ {0}

VARIABLES
    counter,  \* the key in Redis, 0 when there is none
    ttl,      \* ticks it has left
    age,      \* history: ticks since the key was created
    let,      \* history: requests counted and let through since then
    recent    \* history: requests the count let through in this tick and the i before

quota == <<counter, ttl, age, let, recent>>

QuotaTypes ==
    /\ counter \in Nat /\ ttl \in 0..Window
    /\ age \in Nat /\ let \in Nat
    /\ recent \in [0..(Window - 1) -> Nat]

QuotaInit ==
    /\ counter = 0 /\ ttl = 0 /\ age = 0 /\ let = 0
    /\ recent = [i \in 0..(Window - 1) |-> 0]

(* Fault: every request moves the end of the window                        *)
ExpireAnew == ttl' = Window

(* EXPIRE NX                                                               *)
Expire == ttl' = IF counter = 0 THEN Window ELSE ttl

(* Fault: one request too many                                             *)
WithinOneMore(count) == count <= Limit + 1

Within(count) == count <= Limit

(* The MULTI, and what the answer says                                     *)
Count ==
    /\ counter' = counter + 1
    /\ Expire
    /\ UNCHANGED age

Allow ==
    /\ Count /\ Within(counter + 1)
    /\ let' = let + 1
    /\ recent' = [i \in 0..(Window - 1) |-> recent[i] + 1]

Deny == Count /\ ~Within(counter + 1) /\ UNCHANGED <<let, recent>>

(* Redis is unreachable, or its answer to a MULTI it executed is lost      *)
FailOpen ==
    \/ UNCHANGED quota
    \/ Count /\ let' = let + 1 /\ UNCHANGED recent

(* Time passes; the key goes with its ttl                                  *)
Age ==
    /\ IF ttl = 1
       THEN counter' = 0 /\ ttl' = 0 /\ age' = 0 /\ let' = 0
       ELSE /\ ttl' = IF ttl = 0 THEN 0 ELSE ttl - 1
            /\ age' = IF counter = 0 THEN 0 ELSE age + 1
            /\ UNCHANGED <<counter, let>>
    /\ recent' = [i \in 0..(Window - 1) |-> IF i = 0 THEN 0 ELSE recent[i - 1]]

-----------------------------------------------------------------------------
(* A key is denied only when the limit was let through in this window, and *)
(* the window is no longer than it should be: no request, denied ones      *)
(* included, puts off its end.                                             *)
DeniedFairly ==
    [][counter' > counter /\ let' = let => let >= Limit /\ age < Window]_quota

(* At the edge of two fixed windows almost twice the limit is let through  *)
(* within the length of one: the request that opened the first is always   *)
(* out of reach of the second.                                             *)
QuotaKept == recent[Window - 1] < 2 * Limit

=============================================================================
