------------------------------ MODULE Webhooks ------------------------------
(***************************************************************************)
(* Outbound webhooks (services/webhooks.py): every event is a task of its  *)
(* own that posts it, again with a growing pause when the customer does    *)
(* not accept it, until it gives up.                                       *)
(*                                                                         *)
(* `Fault:' marks a mistaken variant of the definition after it.           *)
(***************************************************************************)
EXTENDS Integers

CONSTANTS
    Events,       \* the events that may be emitted
    MaxAttempts,  \* settings.webhook_max_attempts
    MaxDelay      \* _MAX_RETRY_DELAY_SECONDS, in ticks

ASSUME WebhooksAssumption == MaxAttempts \in Nat \ {0} /\ MaxDelay \in Nat \ {0}

VARIABLE delivery  \* the task of an event

Deliveries ==
    [at : {"none", "posting", "pausing", "delivered", "gave_up", "cut"},
     attempt : 0..MaxAttempts, delay : 1..MaxDelay, pause : 0..MaxDelay]

NoDelivery == [at |-> "none", attempt |-> 0, delay |-> 1, pause |-> 0]

HooksInit == delivery = [e \in Events |-> NoDelivery]

(* The tasks that drain waits for                                          *)
InFlight == {e \in Events : delivery[e].at \in {"posting", "pausing"}}

EmitAll(news) ==
    delivery' = [e \in Events |->
        IF e \in news THEN [at |-> "posting", attempt |-> 1, delay |-> 1, pause |-> 0]
        ELSE delivery[e]]

Accepted(e) ==
    /\ delivery[e].at = "posting"
    /\ delivery' = [delivery EXCEPT ![e].at = "delivered"]

Last(e) == delivery[e].attempt = MaxAttempts

Doubled(delay) == IF 2 * delay < MaxDelay THEN 2 * delay ELSE MaxDelay

(* Refused, unreachable, or accepted with an answer that came too late     *)
Failed(e) ==
    /\ delivery[e].at = "posting"
    /\ delivery' = [delivery EXCEPT ![e] =
           IF Last(e) THEN [@ EXCEPT !.at = "gave_up"]
           ELSE [at |-> "pausing", attempt |-> @.attempt,
                 delay |-> Doubled(@.delay), pause |-> @.delay]]

(* Fault: a loop that starts counting again after every pause             *)
RetryAfresh(e) ==
    /\ delivery[e].at = "pausing" /\ delivery[e].pause = 0
    /\ delivery' = [delivery EXCEPT ![e] = [@ EXCEPT !.at = "posting", !.attempt = 1]]

Retry(e) ==
    /\ delivery[e].at = "pausing" /\ delivery[e].pause = 0
    /\ delivery' = [delivery EXCEPT ![e] =
           [at |-> "posting", attempt |-> @.attempt + 1, delay |-> @.delay, pause |-> 0]]

RetryDue == \E e \in Events : delivery[e].at = "pausing" /\ delivery[e].pause = 0

PausesPass ==
    delivery' = [e \in Events |->
        IF delivery[e].at = "pausing" THEN [delivery[e] EXCEPT !.pause = @ - 1]
        ELSE delivery[e]]

(* The loop ends: what is still in flight is never delivered               *)
Cut ==
    delivery' = [e \in Events |->
        IF e \in InFlight THEN [delivery[e] EXCEPT !.at = "cut"] ELSE delivery[e]]

Deliver(e) == Accepted(e) \/ Failed(e) \/ Retry(e)

=============================================================================
