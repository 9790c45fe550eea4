------------------------- MODULE ControlPlaneProofs -------------------------
(***************************************************************************)
(* Theorems about ControlPlane for every limit, window, set of requests    *)
(* and sessions, and every number of attempts, with their proofs.          *)
(***************************************************************************)
EXTENDS ControlPlane, TLAPS

-----------------------------------------------------------------------------
(* The quota                                                               *)

Seconds == 0..(Window - 1)

(* How the key and the histories of its window go together: its time is up *)
(* a window after its first request, and it counts what was let through    *)
(* until the limit is reached.                                             *)
WindowInv ==
    /\ counter \in Nat /\ ttl \in 0..Window
    /\ age \in Nat /\ let \in Nat
    /\ recent \in [Seconds -> Nat]
    /\ counter = 0 => ttl = 0 /\ age = 0 /\ let = 0
    /\ counter > 0 => ttl > 0 /\ age + ttl = Window
    /\ IF counter <= Limit THEN let = counter ELSE let >= Limit

LEMMA WindowStart == QuotaInit => WindowInv
  BY RateLimitAssumption DEF QuotaInit, WindowInv, Seconds

(* Every hit opens the window or leaves its end where it was.              *)
LEMMA WindowHit ==
    ASSUME WindowInv, Allow \/ Deny \/ FailOpen
    PROVE  /\ WindowInv'
           /\ counter' > counter /\ let' = let => let >= Limit /\ age < Window
<1> USE RateLimitAssumption DEF WindowInv, Count, Expire, Within
<1>1. CASE Allow
  <2>1. recent' \in [Seconds -> Nat]
    BY <1>1 DEF Allow, Seconds
  <2> QED
    BY <1>1, <2>1 DEF Allow
<1>2. CASE Deny
  BY <1>2 DEF Deny
<1>3. CASE FailOpen
  <2>1. CASE UNCHANGED quota
    BY <2>1 DEF quota
  <2>2. CASE Count /\ let' = let + 1 /\ UNCHANGED recent
    BY <2>2
  <2> QED
    BY <1>3, <2>1, <2>2 DEF FailOpen
<1> QED
  BY <1>1, <1>2, <1>3

LEMMA WindowAges ==
    ASSUME WindowInv, Age
    PROVE  WindowInv' /\ counter' <= counter
<1>1. recent' \in [Seconds -> Nat]
  BY RateLimitAssumption DEF WindowInv, Age, Seconds
<1>2. CASE ttl = 1
  BY <1>1, <1>2, RateLimitAssumption DEF WindowInv, Age
<1>3. CASE ttl # 1
  <2>1. /\ ttl' = IF ttl = 0 THEN 0 ELSE ttl - 1
        /\ age' = IF counter = 0 THEN 0 ELSE age + 1
        /\ counter' = counter /\ let' = let
    BY <1>3 DEF Age
  <2>2. /\ counter > 0 => ttl' > 0 /\ age' + ttl' = Window
        /\ counter = 0 => ttl' = 0 /\ age' = 0
        /\ ttl' \in 0..Window /\ age' \in Nat
    BY <1>3, <2>1, RateLimitAssumption DEF WindowInv
  <2> QED
    BY <1>1, <2>1, <2>2, RateLimitAssumption DEF WindowInv
<1> QED
  BY <1>2, <1>3

(* What was let through in the last window of ticks: this key and the one  *)
(* before it let through the limit at most, each of them, and a key before *)
(* those is too long ago.  The request that opened a key is out of reach   *)
(* once the tick it came in is, and before any request of the next key.    *)
EdgeInv ==
    /\ \A i, j \in Seconds : i <= j => recent[i] <= recent[j]
    /\ counter = 0 => recent[0] = 0 /\ recent[Window - 1] < Limit
    /\ counter > 0 =>
           /\ recent[age] <= counter /\ recent[age] <= Limit
           /\ age > 0 => recent[age - 1] < counter /\ recent[age - 1] < Limit
           /\ recent[Window - 1] < recent[age] + Limit

QuotaInv == WindowInv /\ EdgeInv

LEMMA QuotaStart == QuotaInit => QuotaInv
  BY WindowStart, RateLimitAssumption DEF QuotaInit, QuotaInv, EdgeInv, Seconds

LEMMA QuotaHit ==
    ASSUME QuotaInv, Allow \/ Deny \/ FailOpen
    PROVE  /\ QuotaInv'
           /\ counter' > counter /\ let' = let => let >= Limit /\ age < Window
<1> USE DEF QuotaInv
<1>1. /\ WindowInv'
      /\ counter' > counter /\ let' = let => let >= Limit /\ age < Window
  BY WindowHit
<1>2. /\ Limit \in Nat \ {0} /\ Window \in Nat \ {0} /\ counter \in Nat
      /\ age \in Seconds /\ 0 \in Seconds /\ Window - 1 \in Seconds
      /\ recent \in [Seconds -> Nat]
      /\ counter = 0 => age = 0
  BY RateLimitAssumption DEF WindowInv, Seconds
<1>3. CASE Allow
  <2>1. /\ counter' = counter + 1 /\ age' = age /\ counter + 1 <= Limit
        /\ \A i \in Seconds : recent'[i] = recent[i] + 1
    BY <1>3 DEF Allow, Count, Within, Seconds
  <2>2. recent[age] <= counter /\ recent[Window - 1] < recent[age] + Limit
    BY <1>2 DEF EdgeInv
  <2>3. \A i \in Seconds : recent[i] \in Nat
    BY <1>2
  <2>4. \A i, j \in Seconds : i <= j => recent'[i] <= recent'[j]
    BY <2>1, <2>3 DEF EdgeInv
  <2>5. age > 0 => recent'[age - 1] < counter' /\ recent'[age - 1] < Limit
    <3> SUFFICES ASSUME age > 0
                 PROVE  recent'[age - 1] < counter' /\ recent'[age - 1] < Limit
      OBVIOUS
    <3>1. age - 1 \in Seconds /\ counter > 0
      BY <1>2 DEF Seconds
    <3>2. recent[age - 1] < counter /\ recent'[age - 1] = recent[age - 1] + 1
      BY <2>1, <3>1 DEF EdgeInv
    <3> QED
      BY <1>2, <2>1, <2>3, <3>1, <3>2
  <2> QED
    BY <1>1, <1>2, <2>1, <2>2, <2>3, <2>4, <2>5 DEF EdgeInv
<1>4. CASE Count /\ UNCHANGED recent
  <2>1. counter' = counter + 1 /\ age' = age /\ recent' = recent
    BY <1>4 DEF Count
  <2>2. recent[age] <= counter /\ recent[age] <= Limit
        /\ recent[Window - 1] < recent[age] + Limit
    BY <1>2 DEF EdgeInv
  <2>3. age > 0 => recent[age - 1] < counter + 1 /\ recent[age - 1] < Limit
    <3> SUFFICES ASSUME age > 0
                 PROVE  recent[age - 1] < counter + 1 /\ recent[age - 1] < Limit
      OBVIOUS
    <3>1. age - 1 \in Seconds /\ counter > 0
      BY <1>2 DEF Seconds
    <3>2. recent[age - 1] < counter /\ recent[age - 1] < Limit /\ recent[age - 1] \in Nat
      BY <1>2, <3>1 DEF EdgeInv
    <3> QED
      BY <1>2, <3>2
  <2> QED
    BY <1>1, <1>2, <2>1, <2>2, <2>3 DEF EdgeInv
<1>5. CASE UNCHANGED quota
  BY <1>1, <1>5 DEF quota, EdgeInv
<1> QED
  BY <1>3, <1>4, <1>5 DEF Deny, FailOpen

(* A tick drops the oldest of the ticks counted.  When the key goes with   *)
(* it, its window covers all that are left.                                *)
LEMMA QuotaAges ==
    ASSUME QuotaInv, Age
    PROVE  QuotaInv' /\ counter' <= counter
<1> USE DEF QuotaInv
<1>1. WindowInv' /\ counter' <= counter
  BY WindowAges
<1>2. /\ Limit \in Nat \ {0} /\ Window \in Nat \ {0} /\ counter \in Nat
      /\ age \in Seconds /\ 0 \in Seconds /\ Window - 1 \in Seconds
      /\ recent \in [Seconds -> Nat]
      /\ counter > 0 => age + ttl = Window
      /\ counter = 0 => ttl = 0 /\ age = 0
  BY RateLimitAssumption DEF WindowInv, Seconds
<1>3. /\ \A i \in Seconds : recent[i] \in Nat
      /\ \A i \in Seconds : i # 0 => i - 1 \in Seconds
  BY <1>2 DEF Seconds
<1>4. \A i \in Seconds : recent'[i] = IF i = 0 THEN 0 ELSE recent[i - 1]
  BY DEF Age, Seconds
<1>5. \A i, j \in Seconds : i <= j => recent'[i] <= recent'[j]
  BY <1>3, <1>4 DEF EdgeInv, Seconds
<1>6. recent'[Window - 1] <= recent[Window - 1]
  BY <1>2, <1>3, <1>4 DEF EdgeInv, Seconds
<1>7. recent'[Window - 1] \in Nat /\ recent[Window - 1] \in Nat /\ recent'[0] = 0
  BY <1>2, <1>3, <1>4
<1>8. CASE ttl = 1
  <2>1. counter > 0
    BY <1>2, <1>8
  <2>2. counter' = 0 /\ age = Window - 1
    <3>1. counter' = 0
      BY <1>8 DEF Age
    <3>2. age + 1 = Window /\ age \in Nat
      BY <1>2, <1>8, <2>1 DEF Seconds
    <3> QED
      BY <3>1, <3>2
  <2>3. recent'[Window - 1] < Limit
    <3>1. CASE age = 0
      BY <1>2, <1>7, <2>2, <3>1
    <3>2. CASE age > 0
      <4>1. recent'[Window - 1] = recent[age - 1]
        BY <1>2, <1>4, <2>2, <3>2
      <4> QED
        BY <2>1, <3>2, <4>1 DEF EdgeInv
    <3> QED
      BY <1>2, <3>1, <3>2 DEF Seconds
  <2> QED
    BY <1>1, <1>2, <1>5, <1>7, <2>2, <2>3 DEF EdgeInv
<1>9. CASE ttl # 1 /\ counter = 0
  <2>1. counter' = 0 /\ recent[Window - 1] < Limit
    BY <1>9 DEF Age, EdgeInv
  <2> QED
    BY <1>1, <1>2, <1>5, <1>6, <1>7, <2>1 DEF EdgeInv
<1>10. CASE ttl # 1 /\ counter # 0
  <2>1. counter' = counter /\ age' = age + 1 /\ counter > 0 /\ ttl' > 0
        /\ age + 1 \in Seconds
    BY <1>1, <1>2, <1>10 DEF Age, WindowInv, Seconds
  <2>2. recent'[age + 1] = recent[age]
    BY <1>2, <1>4, <2>1 DEF Seconds
  <2>3. /\ recent[age] <= counter /\ recent[age] <= Limit /\ recent[age] \in Nat
        /\ recent[Window - 1] < recent[age] + Limit
    BY <1>2, <1>3, <2>1 DEF EdgeInv
  <2>4. recent'[age' - 1] < counter /\ recent'[age' - 1] < Limit
    <3>1. age' - 1 = age
      BY <1>2, <2>1 DEF Seconds
    <3>2. CASE age = 0
      BY <1>2, <1>7, <2>1, <3>1, <3>2
    <3>3. CASE age > 0
      <4>1. recent'[age] = recent[age - 1]
        BY <1>2, <1>4, <3>3
      <4> QED
        BY <2>1, <3>1, <3>3, <4>1 DEF EdgeInv
    <3> QED
      BY <1>2, <3>2, <3>3 DEF Seconds
  <2> QED
    BY <1>1, <1>2, <1>5, <1>6, <1>7, <2>1, <2>2, <2>3, <2>4 DEF EdgeInv
<1> QED
  BY <1>8, <1>9, <1>10

LEMMA QuotaBounded == QuotaInv => QuotaKept
<1> SUFFICES ASSUME QuotaInv PROVE QuotaKept
  OBVIOUS
<1>1. /\ Limit \in Nat \ {0} /\ Window - 1 \in Seconds /\ age \in Seconds
      /\ counter \in Nat /\ recent[Window - 1] \in Nat /\ recent[age] \in Nat
  BY RateLimitAssumption DEF QuotaInv, WindowInv, Seconds
<1> QED
  BY <1>1 DEF QuotaInv, EdgeInv, QuotaKept

-----------------------------------------------------------------------------
(* The webhooks                                                            *)

HooksOK ==
    /\ delivery \in [Events -> Deliveries]
    /\ \A e \in Events : delivery[e].at = "pausing" => delivery[e].attempt < MaxAttempts

LEMMA EmitTyped ==
    ASSUME NEW news, EmitAll(news), HooksOK
    PROVE  HooksOK'
<1> DEFINE fresh == [at |-> "posting", attempt |-> 1, delay |-> 1, pause |-> 0]
<1>1. fresh \in Deliveries
  BY WebhooksAssumption DEF Deliveries
<1> QED
  BY <1>1 DEF EmitAll, HooksOK

(* A step of a delivery keeps the types and starts nothing: whatever is in *)
(* flight after it was in flight before.                                   *)
LEMMA DeliverTyped ==
    ASSUME NEW e \in Events, Deliver(e), HooksOK
    PROVE  /\ HooksOK' /\ InFlight' \subseteq InFlight
           /\ \A x \in Events : /\ delivery'[x].at # "cut" \/ delivery[x].at = "cut"
                                /\ delivery[x].at = "none" <=> delivery'[x].at = "none"
<1>1. delivery[e] \in Deliveries
  BY DEF HooksOK
<1>2. /\ delivery'[e] \in Deliveries
      /\ delivery'[e].at = "pausing" => delivery'[e].attempt < MaxAttempts
      /\ delivery[e].at \in {"posting", "pausing"}
      /\ delivery'[e].at \notin {"cut", "none"}
      /\ delivery' = [delivery EXCEPT ![e] = delivery'[e]]
  <2>1. CASE Accepted(e)
    BY <1>1, <2>1 DEF Accepted, HooksOK, Deliveries
  <2>2. CASE Failed(e)
    <3>1. CASE Last(e)
      BY <1>1, <2>2, <3>1 DEF Failed, HooksOK, Deliveries
    <3>2. CASE ~Last(e)
      <4> DEFINE after == [at |-> "pausing", attempt |-> delivery[e].attempt,
                           delay |-> Doubled(delivery[e].delay),
                           pause |-> delivery[e].delay]
      <4>1. delivery' = [delivery EXCEPT ![e] = after] /\ delivery[e].at = "posting"
        BY <2>2, <3>2 DEF Failed
      <4>2. /\ delivery[e].attempt \in 0..MaxAttempts
            /\ delivery[e].delay \in 0..MaxDelay
            /\ Doubled(delivery[e].delay) \in 1..MaxDelay
        BY <1>1, WebhooksAssumption DEF Deliveries, Doubled
      <4>3. after \in Deliveries
        BY <4>2 DEF Deliveries
      <4>4. delivery[e].attempt < MaxAttempts
        BY <3>2, <4>2, WebhooksAssumption DEF Last
      <4> QED
        BY <4>1, <4>3, <4>4 DEF HooksOK
    <3> QED
      BY <3>1, <3>2
  <2>3. CASE Retry(e)
    <3> DEFINE after == [at |-> "posting", attempt |-> delivery[e].attempt + 1,
                         delay |-> delivery[e].delay, pause |-> 0]
    <3>1. delivery[e].at = "pausing" /\ delivery' = [delivery EXCEPT ![e] = after]
      BY <2>3 DEF Retry
    <3>2. delivery[e].attempt + 1 \in 0..MaxAttempts
      BY <1>1, <3>1, WebhooksAssumption DEF HooksOK, Deliveries
    <3>3. after \in Deliveries /\ after.at = "posting"
      BY <1>1, <3>2, WebhooksAssumption DEF Deliveries
    <3> QED
      BY <3>1, <3>3 DEF HooksOK
  <2> QED
    BY <2>1, <2>2, <2>3 DEF Deliver
<1> QED
  BY <1>2 DEF HooksOK, InFlight

LEMMA PausesTyped ==
    ASSUME PausesPass, ~RetryDue, HooksOK
    PROVE  /\ HooksOK' /\ InFlight' = InFlight
           /\ \A x \in Events : delivery'[x].at = delivery[x].at
<1>1. ASSUME NEW x \in Events
      PROVE  delivery'[x] \in Deliveries /\ delivery'[x].at = delivery[x].at
  <2>1. delivery[x] \in Deliveries
    BY DEF HooksOK
  <2>2. delivery[x].at = "pausing" => delivery[x].pause - 1 \in 0..MaxDelay
    BY <2>1, WebhooksAssumption DEF RetryDue, Deliveries
  <2> QED
    BY <2>1, <2>2 DEF PausesPass, Deliveries
<1> QED
  BY <1>1 DEF HooksOK, InFlight, PausesPass

LEMMA CutTyped ==
    ASSUME Cut, HooksOK
    PROVE  /\ HooksOK'
           /\ \A x \in Events : /\ delivery'[x].at = "none" <=> delivery[x].at = "none"
                                /\ delivery[x].at # "cut" /\ delivery'[x].at = "cut"
                                       => x \in InFlight
<1>1. ASSUME NEW x \in Events
      PROVE  delivery'[x] \in Deliveries
  BY DEF Cut, HooksOK, Deliveries
<1> QED
  BY <1>1 DEF HooksOK, InFlight, Cut

-----------------------------------------------------------------------------
(* The process                                                             *)

ProcessOK ==
    /\ phase \in Phases
    /\ request \in [Requests -> {"none", "denied", "running", "answering",
                                 "committed", "rolled_back"}]
    /\ sweep \in [at : {"asleep", "running", "committed", "gone"}, of : SUBSET Sessions]
    /\ expired \in SUBSET Sessions
    /\ waited \in SUBSET Events /\ patience \in 0..DrainMax

(* What is announced is what happened, or is being committed.              *)
NewsOK ==
    /\ \A s \in Sessions : delivery[s].at # "none" => s \in expired
    /\ \A r \in Requests : delivery[r].at # "none" =>
           request[r] \in {"answering", "committed", "rolled_back"}
    /\ sweep.at = "committed" => sweep.of \subseteq expired

(* The end of the process leaves nobody behind who could still emit, and   *)
(* drain waits for all there is.                                           *)
ClosingOK ==
    /\ phase \in {"cancelling", "released", "draining", "stopped"} => ~Running
    /\ phase \in {"released", "draining", "stopped"} => sweep.at = "gone"
    /\ phase = "draining" => InFlight \subseteq waited

IInv == QuotaInv /\ HooksOK /\ ProcessOK /\ NewsOK /\ ClosingOK

LEMMA InvTyped == IInv => TypeOK
  BY DEF IInv, QuotaInv, WindowInv, Seconds, HooksOK, ProcessOK, NewsOK, TypeOK, QuotaTypes

LEMMA Start == Init => IInv
<1> SUFFICES ASSUME Init PROVE IInv
  OBVIOUS
<1>1. QuotaInv
  BY QuotaStart DEF Init
<1>2. HooksOK
  BY WebhooksAssumption DEF Init, HooksInit, HooksOK, NoDelivery, Deliveries
<1>3. ProcessOK
  BY ControlPlaneAssumption DEF Init, ProcessOK, Phases
<1>4. NewsOK
  BY ControlPlaneAssumption DEF Init, HooksInit, NoDelivery, NewsOK
<1>5. ClosingOK
  BY DEF Init, ClosingOK
<1> QED
  BY <1>1, <1>2, <1>3, <1>4, <1>5 DEF IInv

(* A step that touches neither the quota nor the deliveries                *)
LEMMA QuotaStill == ASSUME QuotaInv, UNCHANGED quota PROVE QuotaInv'
  BY DEF QuotaInv, WindowInv, EdgeInv, quota

LEMMA HooksStill ==
    ASSUME HooksOK, UNCHANGED delivery PROVE HooksOK' /\ InFlight' = InFlight
  BY DEF HooksOK, InFlight

LEMMA ReadKeeps == ASSUME IInv, Read PROVE IInv'
<1>1. QuotaInv'
  BY QuotaHit DEF Read, IInv
<1>2. HooksOK' /\ InFlight' = InFlight
  BY HooksStill DEF Read, IInv
<1> QED
  BY <1>1, <1>2 DEF Read, IInv, process, ProcessOK, NewsOK, ClosingOK, Running

LEMMA ArrivalKeeps == ASSUME IInv, NEW r \in Requests, Arrives(r) PROVE IInv'
<1>1. QuotaInv'
  BY QuotaHit DEF Arrives, IInv
<1>2. HooksOK' /\ InFlight' = InFlight
  BY HooksStill DEF Arrives, IInv
<1>3. ProcessOK'
  BY DEF Arrives, IInv, ProcessOK
<1>4. NewsOK'
  BY ControlPlaneAssumption DEF Arrives, IInv, ProcessOK, NewsOK
<1>5. ClosingOK'
  BY <1>2 DEF Arrives, Serving, IInv, ClosingOK
<1> QED
  BY <1>1, <1>2, <1>3, <1>4, <1>5 DEF IInv

LEMMA AnnounceKeeps == ASSUME IInv, NEW r \in Requests, Announces(r) PROVE IInv'
<1> USE DEF Announces, IInv
<1>1. QuotaInv'
  BY QuotaStill
<1>2. HooksOK'
  BY EmitTyped
<1>3. ProcessOK'
  BY DEF ProcessOK
<1>4. NewsOK'
  BY ControlPlaneAssumption DEF EmitAll, ProcessOK, NewsOK
<1>5. ClosingOK'
  BY DEF ClosingOK, Running, ProcessOK, Phases
<1> QED
  BY <1>1, <1>2, <1>3, <1>4, <1>5

LEMMA EndKeeps == ASSUME IInv, NEW r \in Requests, Ends(r) PROVE IInv'
<1> USE DEF Ends, IInv
<1>1. QuotaInv'
  BY QuotaStill
<1>2. HooksOK' /\ InFlight' = InFlight
  BY HooksStill
<1>3. ProcessOK'
  BY DEF ProcessOK
<1>4. NewsOK'
  BY DEF ProcessOK, NewsOK
<1>5. ClosingOK'
  BY <1>2 DEF ClosingOK, Running, ProcessOK
<1> QED
  BY <1>1, <1>2, <1>3, <1>4, <1>5

(* The steps of the loop that announce nothing                             *)
LEMMA QuietSweepKeeps ==
    ASSUME IInv, SweepStarts \/ SweepCommits \/ SweepBreaks \/ SweepCancelled
    PROVE  IInv'
<1> USE DEF IInv
<1>1. /\ UNCHANGED <<quota, delivery, phase, request, waited, patience>>
      /\ expired \subseteq expired'
      /\ expired' \in SUBSET Sessions
      /\ sweep' \in [at : {"asleep", "running", "committed", "gone"}, of : SUBSET Sessions]
      /\ sweep'.at = "committed" => sweep'.of \subseteq expired'
      /\ phase \in {"released", "draining", "stopped"} => sweep'.at = "gone"
  <2>1. CASE SweepStarts
    BY <2>1 DEF SweepStarts, ProcessOK, ClosingOK
  <2>2. CASE SweepCommits
    BY <2>2 DEF SweepCommits, ProcessOK, ClosingOK
  <2>3. CASE SweepBreaks
    BY <2>3 DEF SweepBreaks, ProcessOK, ClosingOK
  <2>4. CASE SweepCancelled
    BY <2>4 DEF SweepCancelled, ProcessOK, ClosingOK
  <2> QED
    BY <2>1, <2>2, <2>3, <2>4
<1>2. QuotaInv'
  BY <1>1, QuotaStill
<1>3. HooksOK' /\ InFlight' = InFlight
  BY <1>1, HooksStill
<1>4. ProcessOK' /\ NewsOK' /\ ClosingOK'
  BY <1>1, <1>3 DEF ProcessOK, NewsOK, ClosingOK, Running
<1> QED
  BY <1>2, <1>3, <1>4

LEMMA LoudSweepKeeps == ASSUME IInv, SweepAnnounces PROVE IInv'
<1> USE DEF SweepAnnounces, IInv
<1>1. QuotaInv'
  BY QuotaStill
<1>2. HooksOK'
  BY EmitTyped
<1>3. ProcessOK'
  BY DEF ProcessOK
<1>4. NewsOK'
  BY ControlPlaneAssumption DEF EmitAll, ProcessOK, NewsOK
<1>5. ClosingOK'
  BY DEF ClosingOK, Running
<1> QED
  BY <1>1, <1>2, <1>3, <1>4, <1>5

LEMMA CallKeeps == ASSUME IInv, NEW e \in Calls, CallAnnounces(e) PROVE IInv'
<1> USE DEF CallAnnounces, IInv
<1>1. QuotaInv'
  BY QuotaStill
<1>2. HooksOK'
  BY EmitTyped
<1>3. ProcessOK'
  BY DEF process, ProcessOK
<1>4. NewsOK'
  BY ControlPlaneAssumption DEF EmitAll, process, NewsOK
<1>5. ClosingOK'
  BY DEF CallsRun, process, ClosingOK, Running
<1> QED
  BY <1>1, <1>2, <1>3, <1>4, <1>5

LEMMA ShutdownKeeps == ASSUME IInv, Closes \/ Shutdown PROVE IInv'
<1> USE DEF IInv
<1>1. QuotaInv'
  BY QuotaStill DEF Closes, Shutdown, CancelsTasks, StopsCalls, Drains, Stops
<1>2. /\ HooksOK'
      /\ \A x \in Events : delivery'[x].at = "none" <=> delivery[x].at = "none"
  BY CutTyped DEF Closes, Shutdown, CancelsTasks, StopsCalls, Drains, Stops, HooksOK
<1>3. ProcessOK'
  BY ControlPlaneAssumption
  DEF Closes, Shutdown, CancelsTasks, StopsCalls, Drains, Stops, ProcessOK, Phases, InFlight
<1>4. NewsOK'
  BY <1>2, ControlPlaneAssumption
  DEF Closes, Shutdown, CancelsTasks, StopsCalls, Drains, Stops, ProcessOK, NewsOK
<1>5. ClosingOK'
  BY DEF Closes, Shutdown, CancelsTasks, StopsCalls, Drains, Gathered, Stops, ClosingOK, Running, InFlight
<1> QED
  BY <1>1, <1>2, <1>3, <1>4, <1>5

LEMMA HookKeeps == ASSUME IInv, NEW e \in Events, HookStep(e) PROVE IInv'
<1> USE DEF HookStep, IInv
<1>1. QuotaInv'
  BY QuotaStill
<1>2. /\ HooksOK' /\ InFlight' \subseteq InFlight
      /\ \A x \in Events : delivery[x].at = "none" <=> delivery'[x].at = "none"
  BY DeliverTyped
<1>3. ProcessOK' /\ ClosingOK'
  BY <1>2 DEF process, ProcessOK, ClosingOK, Running
<1>4. NewsOK'
  BY <1>2, ControlPlaneAssumption DEF process, ProcessOK, NewsOK
<1> QED
  BY <1>1, <1>2, <1>3, <1>4

LEMMA TickKeeps == ASSUME IInv, Tick PROVE IInv'
<1> USE DEF Tick, IInv
<1>1. QuotaInv'
  BY QuotaAges
<1>2. /\ HooksOK' /\ InFlight' = InFlight
      /\ \A x \in Events : delivery'[x].at = delivery[x].at
  BY PausesTyped
<1>3. ProcessOK'
  BY ControlPlaneAssumption DEF ProcessOK
<1>4. NewsOK' /\ ClosingOK'
  BY <1>2, ControlPlaneAssumption DEF NewsOK, ClosingOK, Running
<1> QED
  BY <1>1, <1>2, <1>3, <1>4

LEMMA StillKeeps == ASSUME IInv, UNCHANGED vars PROVE IInv'
  BY QuotaStill DEF vars, process, IInv, HooksOK, ProcessOK, NewsOK,
         ClosingOK, Running, InFlight

LEMMA StepKeeps == IInv /\ [Next]_vars => IInv'
  BY ReadKeeps, ArrivalKeeps, AnnounceKeeps, EndKeeps, QuietSweepKeeps, LoudSweepKeeps,
     CallKeeps, ShutdownKeeps, HookKeeps, TickKeeps, StillKeeps
  DEF Next, Sweeping, Stopped

LEMMA Inductive == Spec => []IInv
<1>1. Init => IInv
  BY Start
<1>2. IInv /\ [Next]_vars => IInv'
  BY StepKeeps
<1> QED
  BY <1>1, <1>2, PTL DEF Spec

-----------------------------------------------------------------------------
(* The state keeps its types, no expiry is announced before its            *)
(* transaction committed, and no request that did not run announces        *)
(* anything.                                                               *)
THEOREM TypeCorrect == Spec => []TypeOK
  BY Inductive, InvTyped, PTL

(* The edge of two fixed windows: whatever Redis answers or loses, however *)
(* requests and ticks alternate, less than twice the limit passes the      *)
(* count within the length of a window.                                    *)
THEOREM QuotaAlwaysKept == Spec => []QuotaKept
<1>1. IInv => QuotaKept
  BY QuotaBounded DEF IInv
<1> QED
  BY <1>1, Inductive, PTL

(* Whatever Redis answers or loses: a request is denied only in a window   *)
(* that let the whole limit through and is not over.                       *)
THEOREM NeverDeniedUnfairly == Spec => DeniedFairly
<1>1. IInv /\ [Next]_vars =>
          [counter' > counter /\ let' = let => let >= Limit /\ age < Window]_quota
  <2> SUFFICES ASSUME IInv, [Next]_vars, counter' > counter, let' = let
               PROVE  let >= Limit /\ age < Window
    OBVIOUS
  <2>1. CASE Allow \/ Deny \/ FailOpen
    BY <2>1, QuotaHit DEF IInv
  <2>2. CASE UNCHANGED quota
    BY <2>2 DEF quota, IInv, QuotaInv, WindowInv
  <2>3. CASE Tick
    BY <2>3, QuotaAges DEF Tick, IInv, QuotaInv, WindowInv
  <2> QED
    BY <2>1, <2>2, <2>3
    DEF Next, Read, Arrives, Announces, Ends, SweepStarts, Sweeping, SweepCommits,
        SweepAnnounces, SweepBreaks, SweepCancelled, CallAnnounces, Closes, Shutdown, CancelsTasks,
        StopsCalls, Drains, Stops, HookStep, Stopped, vars
<1> QED
  BY <1>1, Inductive, PTL DEF Spec, DeniedFairly

(* The order in which lifespan ends its parts: when drain begins nobody is *)
(* left who could emit, so a delivery that is cut off had all of its time. *)
THEOREM NoDeliveryForgotten == Spec => CutOnlyAfterDrain
<1>1. IInv /\ [Next]_vars =>
          [\A e \in Events : delivery[e].at # "cut" /\ delivery'[e].at = "cut" =>
               e \in waited /\ patience = 0]_vars
  <2> SUFFICES ASSUME IInv, [Next]_vars, NEW e \in Events,
                      delivery[e].at # "cut", delivery'[e].at = "cut"
               PROVE  e \in waited /\ patience = 0
    OBVIOUS
  <2>1. CASE Stops
    BY <2>1, CutTyped DEF Stops, Drained, IInv, ClosingOK
  <2>2. CASE \E x \in Events : HookStep(x)
    BY <2>2, DeliverTyped DEF HookStep, IInv
  <2>3. CASE Tick
    BY <2>3, PausesTyped DEF Tick, IInv
  <2>4. ASSUME NEW news, EmitAll(news)
        PROVE  FALSE
    BY <2>4 DEF EmitAll
  <2>5. CASE UNCHANGED delivery
    BY <2>5
  <2> QED
    BY <2>1, <2>2, <2>3, <2>4, <2>5
    DEF Next, Read, Arrives, Announces, Ends, SweepStarts, Sweeping, SweepCommits,
        SweepAnnounces, SweepBreaks, SweepCancelled, CallAnnounces, Closes, Shutdown, CancelsTasks,
        StopsCalls, Drains, Stopped, vars
<1> QED
  BY <1>1, Inductive, PTL DEF Spec, CutOnlyAfterDrain

=============================================================================
