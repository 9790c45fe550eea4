---------------------------- MODULE ControlPlane ----------------------------
(***************************************************************************)
(* The process around the services: requests pass the quota of their key   *)
(* and run one transaction each (deps, routers), the expiry loop sweeps    *)
(* (background.expiry_loop), the calls go on in their tasks, all of them   *)
(* announce what they did by webhook, and the lifespan of the process ends *)
(* them in order (main.lifespan).                                          *)
(*                                                                         *)
(* uvicorn closes the process as follows: it takes no new request, lets    *)
(* those in progress finish, then runs the end of `lifespan', after which  *)
(* the event loop ends with whatever task is left.                         *)
(*                                                                         *)
(* `Fault:' marks a mistaken variant of the definition after it.           *)
(***************************************************************************)
EXTENDS RateLimit, Webhooks

CONSTANTS
    Requests,  \* requests that announce something: POST /sessions promotes
    Sessions,  \* sessions that fall due
    Calls,     \* what calls announce: call.started, .answered and .ended
    MaxHits,   \* bound: hits on the counter in one window
    DrainMax   \* max_wait of drain, in ticks

ASSUME ControlPlaneAssumption ==
    /\ Events = Requests \cup Sessions \cup Calls
    /\ Requests \cap Sessions = {} /\ Calls \cap (Requests \cup Sessions) = {}
    /\ MaxHits \in Nat /\ DrainMax \in Nat

VARIABLES
    phase,     \* where the process is in its life
    request,   \* a request, from its gate to the end of its transaction
    sweep,     \* the expiry loop, and the sessions its transaction ends
    expired,   \* the sessions whose expiry is committed
    waited,    \* the tasks drain waits for
    patience   \* the ticks it still waits

process == <<phase, request, sweep, expired, waited, patience>>
vars == <<quota, delivery, process>>

Phases == {"serving", "closing", "cancelling", "released", "draining", "stopped"}

TypeOK ==
    /\ QuotaTypes
    /\ delivery \in [Events -> Deliveries]
    /\ phase \in Phases
    /\ request \in [Requests -> {"none", "denied", "running", "answering",
                                 "committed", "rolled_back"}]
    /\ sweep \in [at : {"asleep", "running", "committed", "gone"}, of : SUBSET Sessions]
    /\ expired \in SUBSET Sessions
    /\ waited \in SUBSET Events /\ patience \in 0..DrainMax
    \* announced once, and only by the one who did it
    /\ \A s \in Sessions : delivery[s].at # "none" => s \in expired
    /\ \A r \in Requests : delivery[r].at # "none" =>
           request[r] \in {"answering", "committed", "rolled_back"}

Init ==
    /\ QuotaInit /\ HooksInit
    /\ phase = "serving"
    /\ request = [r \in Requests |-> "none"]
    /\ sweep = [at |-> "asleep", of |-> {}]
    /\ expired = {} /\ waited = {} /\ patience = 0

-----------------------------------------------------------------------------
(* Requests                                                                *)

Serving == phase = "serving" /\ counter < MaxHits

(* A request that reads, or one of another router: only its count matters  *)
Read == Serving /\ (Allow \/ Deny \/ FailOpen) /\ UNCHANGED <<delivery, process>>

Arrives(r) ==
    /\ Serving /\ request[r] = "none"
    /\ \/ (Allow \/ FailOpen) /\ request' = [request EXCEPT ![r] = "running"]
       \/ Deny /\ request' = [request EXCEPT ![r] = "denied"]
    /\ UNCHANGED <<delivery, phase, sweep, expired, waited, patience>>

(* create_session of the router: the webhook is scheduled, then the        *)
(* dependency commits                                                      *)
Announces(r) ==
    /\ request[r] = "running"
    /\ request' = [request EXCEPT ![r] = "answering"]
    /\ EmitAll({r})
    /\ UNCHANGED <<quota, phase, sweep, expired, waited, patience>>

Ends(r) ==
    /\ \/ request[r] = "answering" /\ request' = [request EXCEPT ![r] = "committed"]
       \/ /\ request[r] \in {"running", "answering"}
          /\ request' = [request EXCEPT ![r] = "rolled_back"]
    /\ UNCHANGED <<quota, delivery, phase, sweep, expired, waited, patience>>

-----------------------------------------------------------------------------
(* The expiry loop                                                         *)

SweepStarts ==
    /\ phase \in {"serving", "closing"} /\ sweep.at = "asleep"
    /\ \E due \in SUBSET (Sessions \ expired) :
           due # {} /\ sweep' = [at |-> "running", of |-> due]
    /\ UNCHANGED <<quota, delivery, phase, request, expired, waited, patience>>

SweepCommits ==
    /\ sweep.at = "running"
    /\ sweep' = [sweep EXCEPT !.at = "committed"]
    /\ expired' = expired \cup sweep.of
    /\ UNCHANGED <<quota, delivery, phase, request, waited, patience>>

(* Fault: the webhooks are emitted inside the transaction                  *)
SweepAnnouncesEarly ==
    /\ sweep.at \in {"running", "committed"} /\ phase # "cancelling"
    /\ EmitAll(sweep.of)
    /\ sweep' = [at |-> "asleep", of |-> {}]
    /\ UNCHANGED <<quota, phase, request, waited, patience>>
    /\ expired' \in {expired, expired \cup sweep.of}

SweepAnnounces ==
    /\ sweep.at = "committed" /\ phase # "cancelling"
    /\ EmitAll(sweep.of)
    /\ sweep' = [at |-> "asleep", of |-> {}]
    /\ UNCHANGED <<quota, phase, request, expired, waited, patience>>

(* The transaction fails and is logged; the answer to a commit that        *)
(* happened may be lost with it                                            *)
SweepBreaks ==
    /\ sweep.at = "running" /\ phase # "cancelling"
    /\ expired' \in {expired, expired \cup sweep.of}
    /\ sweep' = [at |-> "asleep", of |-> {}]
    /\ UNCHANGED <<quota, delivery, phase, request, waited, patience>>

(* CancelledError at the await the loop is in                              *)
SweepCancelled ==
    /\ phase = "cancelling" /\ sweep.at # "gone"
    /\ expired' \in {expired, expired \cup (IF sweep.at = "running" THEN sweep.of ELSE {})}
    /\ sweep' = [at |-> "gone", of |-> {}]
    /\ UNCHANGED <<quota, delivery, phase, request, waited, patience>>

-----------------------------------------------------------------------------
(* The calls                                                               *)

(* Fault: the webhooks are drained before the telephony is stopped         *)
CallsRunEndlessly == phase # "stopped"

CallsRun == phase \in {"serving", "closing", "cancelling"}

CallAnnounces(e) ==
    /\ CallsRun /\ delivery[e].at = "none"
    /\ EmitAll({e})
    /\ UNCHANGED <<quota, process>>

-----------------------------------------------------------------------------
(* The end of the process                                                  *)

Closes ==
    /\ phase = "serving" /\ phase' = "closing"
    /\ UNCHANGED <<quota, delivery, request, sweep, expired, waited, patience>>

Running == \E r \in Requests : request[r] \in {"running", "answering"}

CancelsTasks ==
    /\ phase = "closing" /\ ~Running
    /\ phase' = "cancelling"
    /\ UNCHANGED <<quota, delivery, request, sweep, expired, waited, patience>>

Gathered == sweep.at = "gone"

(* stasis_app.stop: the tasks of the calls are cancelled                   *)
StopsCalls ==
    /\ phase = "cancelling" /\ Gathered
    /\ phase' = "released"
    /\ UNCHANGED <<quota, delivery, request, sweep, expired, waited, patience>>

(* webhooks.drain                                                          *)
Drains ==
    /\ phase = "released"
    /\ phase' = "draining" /\ waited' = InFlight /\ patience' = DrainMax
    /\ UNCHANGED <<quota, delivery, request, sweep, expired>>

Drained == waited \cap InFlight = {}

Stops ==
    /\ phase = "draining" /\ (Drained \/ patience = 0)
    /\ phase' = "stopped"
    /\ Cut
    /\ UNCHANGED <<quota, request, sweep, expired, waited, patience>>

-----------------------------------------------------------------------------
HookStep(e) == Deliver(e) /\ UNCHANGED <<quota, process>>

(* One second, for the quota, the pauses and the patience of drain         *)
Tick ==
    /\ phase # "stopped" /\ ~RetryDue
    /\ ~(phase = "draining" /\ patience = 0)
    /\ Age /\ PausesPass
    /\ patience' = IF phase = "draining" THEN patience - 1 ELSE patience
    /\ UNCHANGED <<phase, request, sweep, expired, waited>>

Stopped == phase = "stopped" /\ UNCHANGED vars

Sweeping == SweepCommits \/ SweepAnnounces \/ SweepBreaks \/ SweepCancelled

Shutdown == CancelsTasks \/ StopsCalls \/ Drains \/ Stops

Next ==
    \/ Read
    \/ \E r \in Requests : Arrives(r) \/ Announces(r) \/ Ends(r)
    \/ SweepStarts \/ Sweeping
    \/ \E e \in Calls : CallAnnounces(e)
    \/ Closes \/ Shutdown
    \/ \E e \in Events : HookStep(e)
    \/ Tick \/ Stopped

Spec == Init /\ [][Next]_vars

(* Every transaction ends, every post is answered or times out, a process  *)
(* that is told to stop gets on with it and the clock runs                 *)
FairSpec ==
    /\ Spec
    /\ \A r \in Requests : WF_vars(Announces(r) \/ Ends(r))
    /\ \A e \in Events : WF_vars(HookStep(e))
    /\ WF_vars(Sweeping) /\ WF_vars(Shutdown) /\ WF_vars(Tick)

-----------------------------------------------------------------------------
(* What the loop committed and knows of is announced, and every delivery   *)
(* ends: accepted, given up after its last attempt or cut off by the end   *)
(* of the process.  Only the cancellation of the loop right after its      *)
(* commit leaves an expiry unannounced.                                    *)
Settled(e) == delivery[e].at \in {"delivered", "gave_up", "cut"}

NewsEnds ==
    \A s \in Sessions : (sweep.at = "committed" /\ s \in sweep.of) ~>
        (Settled(s) \/ (sweep.at = "gone" /\ delivery[s].at = "none"))

(* A delivery is cut off only after drain waited for it as long as it may: *)
(* nothing is emitted behind its back once it has begun.                   *)
CutOnlyAfterDrain ==
    [][\A e \in Events : delivery[e].at # "cut" /\ delivery'[e].at = "cut" =>
           e \in waited /\ patience = 0]_vars

=============================================================================
