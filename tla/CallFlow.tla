------------------------------ MODULE CallFlow ------------------------------
(***************************************************************************)
(* One masked call from StasisStart to its journal entry (ari/stasis.py    *)
(* and services/calls.py), the Asterisk behind it as the code uses it, and *)
(* the session the calls are routed to.                                    *)
(*                                                                         *)
(* The program is one asyncio loop.  The event pump handles one ARI event  *)
(* at a time; every call has a task of its own (_reject, _ask_for_code or  *)
(* _connect) and a watchdog; _finish runs in whichever of them calls it.   *)
(* Code between two awaits is one action: an action is the answer of one   *)
(* REST request or database transaction and what follows it up to the next *)
(* await.  Where the effect of a request and the receipt of its answer     *)
(* matter apart (create_bridge, originate) they are two actions.           *)
(*                                                                         *)
(* `Fault:' in a comment marks a mistaken variant of the definition after  *)
(* it, which a property must notice; it is no part of the model.           *)
(***************************************************************************)
EXTENDS Integers, Sequences, FiniteSets

CONSTANTS
    Calls,      \* inbound channels; outbound_id of c is "c-b"
    NoCause,    \* hangup_cause IS NULL
    MaxCalls,   \* max_calls of the session
    Attempts,   \* settings.dtmf_max_attempts
    Faults      \* what can fail besides requests for things that are gone

ASSUME CallFlowAssumption ==
    /\ NoCause \notin Int
    /\ MaxCalls \in Nat \ {0}
    /\ Attempts \in Nat \ {0}
    /\ Faults \subseteq {"answer", "bridge", "originate", "lost_answer", "hangup", "db", "events"}

VARIABLES
    \* Asterisk
    leg,       \* state of the two channels of a call
    sub,       \* is the app subscribed to the caller's channel?
    bridge,    \* the mixing bridge of a call
    joined,    \* the legs in it
    queue,     \* the events on the websocket
    \* the application
    pump,      \* what run() is handling
    task,      \* the call's own task
    watchdog,  \* _originate_watchdog
    call,      \* CallState, and whether _calls and _outbound_to_inbound hold it
    fin,       \* the run of _finish
    pending,   \* _pending_cause
    \* the database
    row,       \* the journal entry of the call
    session,   \* is it active and not expired, and its calls answered earlier
    \* history
    harm       \* what failed under a call: a transaction, the event stream,
               \* the destruction of its bridge, the hangup of one of its legs

asterisk == <<leg, sub, bridge, joined, queue>>
app == <<pump, task, watchdog, call, fin, pending>>
vars == <<asterisk, app, row, session, harm>>

Legs == {"in", "out"}
Causes == {16, 17, 19, 21, 41} \cup {NoCause}
Statuses == {"in_progress", "answered", "busy", "no_answer", "rejected",
             "failed", "unknown_caller"}
NoStatus == "infer"
Event(type, c, l, cause) == [type |-> type, call |-> c, leg |-> l, cause |-> cause]
Idle == [at |-> "idle", call |-> "none"]

TaskSteps == {"none", "reject", "reject_play", "ask", "collect", "goodbye",
              "attach", "limit", "ring", "create_bridge", "bridge_created",
              "add_caller", "originate", "originated", "refused", "fail_channel",
              "finish", "done"}

TypeOK ==
    /\ leg \in [Calls -> [Legs -> {"none", "dialing", "up", "gone"}]]
    /\ sub \in [Calls -> BOOLEAN]
    /\ bridge \in [Calls -> {"none", "up", "gone"}]
    /\ joined \in [Calls -> SUBSET Legs]
    /\ queue \in Seq([type : {"StasisStart", "StasisEnd", "ChannelDestroyed"},
                      call : Calls, leg : Legs, cause : Causes])
    /\ pump \in [at : {"resolve", "orphan", "answer_caller", "join", "mark",
                       "finish"}, call : Calls] \cup {Idle}
    /\ task \in [Calls -> [at : TaskSteps, status : Statuses, attempt : 0..Attempts]]
    /\ watchdog \in [Calls -> {"none", "armed", "finish", "done"}]
    /\ call \in [Calls -> [known : BOOLEAN, mapped : BOOLEAN, bridge_id : BOOLEAN,
                           outbound_id : BOOLEAN, asked : BOOLEAN,
                           session : BOOLEAN, answered : BOOLEAN,
                           finishing : BOOLEAN]]
    /\ fin \in [Calls -> [at : {"none", "hang_out", "hang_in", "bridge", "journal",
                                "done"},
                          status : Statuses, cause : Causes]]
    /\ pending \subseteq Calls
    /\ row \in [Calls -> [status : Statuses \cup {"none"}, session : BOOLEAN,
                          answered : BOOLEAN, ended : BOOLEAN, cause : Causes]]
    /\ session \in [active : BOOLEAN, answered : 0..MaxCalls]
    /\ harm \in [Calls -> SUBSET ({"db", "events", "bridge"} \cup Legs)]

Init ==
    /\ leg = [c \in Calls |-> [l \in Legs |-> "none"]]
    /\ sub = [c \in Calls |-> FALSE]
    /\ bridge = [c \in Calls |-> "none"]
    /\ joined = [c \in Calls |-> {}]
    /\ queue = <<>>
    /\ pump = Idle
    /\ task = [c \in Calls |-> [at |-> "none", status |-> "failed", attempt |-> 0]]
    /\ watchdog = [c \in Calls |-> "none"]
    /\ call = [c \in Calls |-> [known |-> FALSE, mapped |-> FALSE,
                   bridge_id |-> FALSE, outbound_id |-> FALSE, asked |-> FALSE,
                   session |-> FALSE, answered |-> FALSE, finishing |-> FALSE]]
    /\ fin = [c \in Calls |-> [at |-> "none", status |-> "failed", cause |-> NoCause]]
    /\ pending = {}
    /\ row = [c \in Calls |-> [status |-> "none", session |-> FALSE,
                  answered |-> FALSE, ended |-> FALSE, cause |-> NoCause]]
    /\ session \in [active : {TRUE}, answered : 0..MaxCalls]
    /\ harm = [c \in Calls |-> {}]

-----------------------------------------------------------------------------
(* Asterisk                                                                *)

(* A leg goes away: StasisEnd if it was in Stasis, ChannelDestroyed if the *)
(* app hears of the channel (its own originations, explicit subscriptions) *)
Farewell(c, l, cause) ==
    (IF leg[c][l] = "up" THEN <<Event("StasisEnd", c, l, NoCause)>> ELSE <<>>) \o
    (IF l = "out" \/ sub[c] THEN <<Event("ChannelDestroyed", c, l, cause)>> ELSE <<>>)

Release(c, l, cause) ==
    IF leg[c][l] \in {"dialing", "up"}
    THEN /\ leg' = [leg EXCEPT ![c][l] = "gone"]
         /\ joined' = [joined EXCEPT ![c] = @ \ {l}]
         /\ queue' = queue \o Farewell(c, l, cause)
    ELSE UNCHANGED <<leg, joined, queue>>

(* DELETE of a channel.  Everyone who asks for it suppresses its errors.   *)
HangUp(c, l, cause) ==
    \/ Release(c, l, cause) /\ UNCHANGED harm
    \/ /\ "hangup" \in Faults
       /\ leg[c][l] \in {"dialing", "up"}
       /\ harm' = [harm EXCEPT ![c] = @ \cup {l}]
       /\ UNCHANGED <<leg, joined, queue>>

CallerDials(c) ==
    /\ leg[c]["in"] = "none"
    /\ leg' = [leg EXCEPT ![c]["in"] = "up"]
    /\ queue' = Append(queue, Event("StasisStart", c, "in", NoCause))
    /\ UNCHANGED <<sub, bridge, joined, app, row, session>>

CallerHangsUp(c) ==
    /\ leg[c]["in"] = "up"
    /\ Release(c, "in", 16)
    /\ UNCHANGED <<sub, bridge, app, row, session>>

CalleeAnswers(c) ==
    /\ leg[c]["out"] = "dialing"
    /\ leg' = [leg EXCEPT ![c]["out"] = "up"]
    /\ queue' = Append(queue, Event("StasisStart", c, "out", NoCause))
    /\ UNCHANGED <<sub, bridge, joined, app, row, session>>

(* Busy, or no answer within originate_timeout                             *)
CalleeUnavailable(c) ==
    /\ leg[c]["out"] = "dialing"
    /\ \E cause \in {17, 19} : Release(c, "out", cause)
    /\ UNCHANGED <<sub, bridge, app, row, session>>

CalleeHangsUp(c) ==
    /\ leg[c]["out"] = "up"
    /\ Release(c, "out", 16)
    /\ UNCHANGED <<sub, bridge, app, row, session>>

(* The websocket breaks: the events from some point on are never delivered *)
LoseEvents ==
    /\ "events" \in Faults
    /\ \E kept \in 0..(Len(queue) - 1) :
          /\ queue' = SubSeq(queue, 1, kept)
          /\ harm' = [c \in Calls |->
                 IF \E i \in (kept + 1)..Len(queue) : queue[i].call = c
                 THEN harm[c] \cup {"events"} ELSE harm[c]]
    /\ UNCHANGED <<leg, sub, bridge, joined, app, row, session>>

(* The session expires or is closed                                        *)
SessionEnds ==
    /\ session.active
    /\ session' = [session EXCEPT !.active = FALSE]
    /\ UNCHANGED <<asterisk, app, row, harm>>

-----------------------------------------------------------------------------
(* The journal (services/calls.py)                                         *)

(* start_call                                                              *)
OpenRow(c, routed) ==
    row' = [row EXCEPT ![c] = [@ EXCEPT !.status = "in_progress", !.session = routed]]

(* Fault: a row already closed is not marked                               *)
MarkAnsweredOpen(c) ==
    row' = IF row[c].answered \/ row[c].ended THEN row
           ELSE [row EXCEPT ![c] = [@ EXCEPT !.status = "answered", !.answered = TRUE]]

(* mark_answered, idempotent                                               *)
MarkAnswered(c) ==
    row' = IF row[c].answered THEN row
           ELSE [row EXCEPT ![c] = [@ EXCEPT !.status = "answered", !.answered = TRUE]]

(* Fault: the cause completes every row, journalled causes included        *)
RecordAnyCause(c, cause) ==
    row' = [row EXCEPT ![c] = [@ EXCEPT !.cause = cause]]

(* set_hangup_cause, for a row _finish left without a cause                *)
RecordCause(c, cause) ==
    row' = IF c \in pending /\ row[c].cause = NoCause
           THEN [row EXCEPT ![c] = [@ EXCEPT !.cause = cause]]
           ELSE row

(* finish_call: the first outcome wins                                     *)
CloseRow(c, status, cause) ==
    row' = IF row[c].ended THEN row
           ELSE [row EXCEPT ![c] =
                    [@ EXCEPT !.status = status, !.ended = TRUE,
                              !.cause = IF cause = NoCause THEN row[c].cause ELSE cause,
                              !.session = row[c].session \/ call[c].session]]

(* answered_call_count                                                     *)
AnsweredCalls ==
    session.answered
        + Cardinality({c \in Calls : row[c].session /\ row[c].status = "answered"})

(* CAUSE_TO_STATUS                                                         *)
StatusOf(cause, default) ==
    CASE cause = 17 -> "busy"
      [] cause \in {16, 19} -> "no_answer"    \* "answered" never reached it
      [] cause = 21 -> "rejected"
      [] cause = 41 -> "failed"
      [] OTHER -> default

-----------------------------------------------------------------------------
(* Teardown: _finish                                                       *)

(* Fault: the callee's channel is hung up only once the callee answered    *)
FirstReleaseAnswered(c) == IF call[c].answered THEN "hang_out" ELSE "hang_in"

FirstRelease(c) == IF call[c].outbound_id THEN "hang_out" ELSE "hang_in"

(* The guard, and what is decided before the first request.  `calls' is    *)
(* the call states as the code before has left them.                       *)
StartFinish(calls, c, status, cause) ==
    IF call[c].finishing THEN call' = calls /\ UNCHANGED fin
    ELSE /\ call' = [calls EXCEPT ![c].finishing = TRUE]
         /\ fin' = [fin EXCEPT ![c] =
                [at |-> FirstRelease(c),
                 status |-> IF status # NoStatus THEN status
                            ELSE IF call[c].answered THEN "answered"
                            ELSE StatusOf(cause, "failed"),
                 cause |-> cause]]

FinishInTask(c, status, cause) ==
    /\ StartFinish(call, c, status, cause)
    /\ task' = [task EXCEPT ![c].at = IF call[c].finishing THEN "done" ELSE "finish"]

FinishInPump(calls, c, status, cause) ==
    /\ StartFinish(calls, c, status, cause)
    /\ pump' = IF call[c].finishing THEN Idle ELSE [at |-> "finish", call |-> c]

FinishHangsOut(c) ==
    /\ fin[c].at = "hang_out"
    /\ HangUp(c, "out", 16)
    /\ call' = [call EXCEPT ![c].mapped = FALSE]
    /\ fin' = [fin EXCEPT ![c].at = "hang_in"]
    /\ UNCHANGED <<sub, bridge, pump, task, watchdog, pending, row, session>>

FinishHangsIn(c) ==
    /\ fin[c].at = "hang_in"
    /\ HangUp(c, "in", IF fin[c].cause = NoCause THEN 16 ELSE fin[c].cause)
    /\ fin' = [fin EXCEPT ![c].at = IF call[c].bridge_id THEN "bridge" ELSE "journal"]
    /\ UNCHANGED <<sub, bridge, pump, task, watchdog, call, pending, row, session>>

FinishDestroysBridge(c) ==
    /\ fin[c].at = "bridge"
    /\ \/ /\ bridge' = [bridge EXCEPT ![c] = "gone"]
          /\ joined' = [joined EXCEPT ![c] = {}]
          /\ UNCHANGED harm
       \/ /\ "bridge" \in Faults
          /\ harm' = [harm EXCEPT ![c] = @ \cup {"bridge"}]
          /\ UNCHANGED <<bridge, joined>>
    /\ fin' = [fin EXCEPT ![c].at = "journal"]
    /\ UNCHANGED <<leg, sub, queue, pump, task, watchdog, call, pending, row, session>>

(* The row is closed, the call forgotten, its tasks cancelled; whoever ran *)
(* _finish goes on.                                                        *)
Forget(c) ==
    /\ CloseRow(c, fin[c].status, fin[c].cause)
    /\ pending' = IF fin[c].cause = NoCause THEN pending \cup {c} ELSE pending
    /\ call' = [call EXCEPT ![c].known = FALSE]
    /\ task' = [task EXCEPT ![c].at = "done"]
    /\ watchdog' = [watchdog EXCEPT ![c] = "done"]
    /\ fin' = [fin EXCEPT ![c].at = "done"]
    /\ pump' = IF pump = [at |-> "finish", call |-> c] THEN Idle ELSE pump
    /\ UNCHANGED <<asterisk, session>>

(* Fault: the releases are not awaited, and cancelled with the tasks       *)
FinishForgetsUnawaited(c) == fin[c].at \notin {"none", "done"} /\ Forget(c)

FinishForgets(c) == fin[c].at = "journal" /\ Forget(c)

(* The transaction raises: the exception ends the run, and finishing stays *)
FinishBreaks(c) ==
    /\ fin[c].at = "journal"
    /\ fin' = [fin EXCEPT ![c].at = "none"]
    /\ pump' = IF pump = [at |-> "finish", call |-> c] THEN Idle ELSE pump
    /\ task' = [task EXCEPT ![c].at = IF @ = "finish" THEN "done" ELSE @]
    /\ watchdog' = [watchdog EXCEPT ![c] = IF @ = "finish" THEN "done" ELSE @]
    /\ UNCHANGED <<asterisk, call, pending, row, session>>

-----------------------------------------------------------------------------
(* The task of a call                                                      *)

Alive(c, l) == leg[c][l] = "up"

(* A request fails when its target is gone, or as Faults allow             *)
Fails(possible, kind) == ~possible \/ kind \in Faults

GoTo(c, step) == task' = [task EXCEPT ![c].at = step]

RejectWith(c, status) ==
    task' = [task EXCEPT ![c].at = "reject", ![c].status = status]

(* _reject: answer, explain, hang up                                       *)
Reject(c) ==
    /\ task[c].at = "reject"
    /\ \/ Alive(c, "in") /\ GoTo(c, "reject_play") /\ UNCHANGED <<call, fin>>
       \/ /\ Fails(Alive(c, "in"), "answer")
          /\ FinishInTask(c, task[c].status, 21)
    /\ UNCHANGED <<asterisk, pump, watchdog, pending, row, session>>

RejectPlayed(c) ==
    /\ task[c].at = "reject_play"
    /\ FinishInTask(c, task[c].status, 21)
    /\ UNCHANGED <<asterisk, pump, watchdog, pending, row, session>>

(* _ask_for_code                                                           *)
Ask(c) ==
    /\ task[c].at = "ask"
    /\ \/ /\ Alive(c, "in")
          /\ task' = [task EXCEPT ![c].at = "collect", ![c].attempt = 1]
          /\ UNCHANGED <<call, fin>>
       \/ /\ Fails(Alive(c, "in"), "answer")
          /\ FinishInTask(c, "failed", NoCause)
    /\ UNCHANGED <<asterisk, pump, watchdog, pending, row, session>>

(* One prompt and what the caller typed: select_by_code finds a session    *)
(* among those routing saw before the first prompt, or it does not.        *)
CodeMatches(c) ==
    /\ task[c].at = "collect"
    /\ GoTo(c, "attach")
    /\ UNCHANGED <<asterisk, pump, watchdog, call, fin, pending, row, session>>

(* Fault: one attempt too many                                             *)
AttemptsLeftOneMore(c) == task[c].attempt <= Attempts

AttemptsLeft(c) == task[c].attempt < Attempts

CodeWrong(c) ==
    /\ task[c].at = "collect"
    /\ task' = IF AttemptsLeft(c) THEN [task EXCEPT ![c].attempt = @ + 1]
               ELSE [task EXCEPT ![c].at = "goodbye"]
    /\ UNCHANGED <<asterisk, pump, watchdog, call, fin, pending, row, session>>

Goodbye(c) ==
    /\ task[c].at = "goodbye"
    /\ FinishInTask(c, "rejected", 21)
    /\ UNCHANGED <<asterisk, pump, watchdog, pending, row, session>>

(* attach_session, and _connect up to its first await                      *)
AttachSession(c) ==
    /\ task[c].at = "attach"
    /\ row' = [row EXCEPT ![c] = [@ EXCEPT !.session = TRUE]]
    /\ call' = [call EXCEPT ![c].session = TRUE]
    /\ GoTo(c, "limit")
    /\ UNCHANGED <<asterisk, pump, watchdog, fin, pending, session>>

(* _connect: the cap on answered calls                                     *)
CheckLimit(c) ==
    /\ task[c].at = "limit"
    /\ IF AnsweredCalls >= MaxCalls THEN RejectWith(c, "rejected")
       ELSE GoTo(c, IF call[c].asked THEN "create_bridge" ELSE "ring")
    /\ UNCHANGED <<asterisk, pump, watchdog, call, fin, pending, row, session>>

(* An exception of the database ends the task, and only the task           *)
TaskBreaks(c) ==
    /\ task[c].at \in {"attach", "limit"}
    /\ GoTo(c, "done")
    /\ UNCHANGED <<asterisk, pump, watchdog, call, fin, pending, row, session>>

Ring(c) ==
    /\ task[c].at = "ring"
    /\ \/ Alive(c, "in") /\ GoTo(c, "create_bridge")
       \/ Fails(Alive(c, "in"), "answer") /\ RejectWith(c, "failed")
    /\ UNCHANGED <<asterisk, pump, watchdog, call, fin, pending, row, session>>

CreateBridge(c) ==
    /\ task[c].at = "create_bridge"
    /\ \/ bridge' = [bridge EXCEPT ![c] = "up"] /\ GoTo(c, "bridge_created")
       \/ "bridge" \in Faults /\ RejectWith(c, "failed") /\ UNCHANGED bridge
    /\ UNCHANGED <<leg, sub, joined, queue, pump, watchdog, call, fin, pending,
                   row, session>>

BridgeCreated(c) ==
    /\ task[c].at = "bridge_created"
    /\ call' = [call EXCEPT ![c].bridge_id = TRUE]
    /\ GoTo(c, "add_caller")
    /\ UNCHANGED <<asterisk, pump, watchdog, fin, pending, row, session>>

(* Fault: the callee's channel id is left to the answer of originate       *)
NameCalleeLater(c) == UNCHANGED call

NameCallee(c) == call' = [call EXCEPT ![c].outbound_id = TRUE, ![c].mapped = TRUE]

(* The caller waits in the bridge; the callee's channel gets its id before *)
(* it exists, so that a teardown from here on finds it.                    *)
AddCaller(c) ==
    LET possible == Alive(c, "in") /\ bridge[c] = "up" IN
    /\ task[c].at = "add_caller"
    /\ \/ /\ possible
          /\ joined' = [joined EXCEPT ![c] = @ \cup {"in"}]
          /\ NameCallee(c)
          /\ GoTo(c, "originate")
       \/ /\ Fails(possible, "bridge")
          /\ RejectWith(c, "failed")
          /\ UNCHANGED <<joined, call>>
    /\ UNCHANGED <<leg, sub, bridge, queue, pump, watchdog, fin, pending, row, session>>

(* Asterisk dials, unless the originator channel is gone                   *)
Originate(c) ==
    /\ task[c].at = "originate"
    /\ \/ /\ Alive(c, "in")
          /\ leg' = [leg EXCEPT ![c]["out"] = "dialing"]
          /\ GoTo(c, "originated")
       \/ /\ Fails(Alive(c, "in"), "originate")
          /\ GoTo(c, "refused")
          /\ UNCHANGED leg
    /\ UNCHANGED <<sub, bridge, joined, queue, pump, watchdog, call, fin, pending,
                   row, session>>

OriginateAnswered(c) ==
    /\ task[c].at = "originated"
    /\ watchdog' = [watchdog EXCEPT ![c] = "armed"]
    /\ GoTo(c, "done")
    /\ UNCHANGED <<asterisk, pump, call, fin, pending, row, session>>

(* Fault: the failure is noted, and the caller kept in the bridge          *)
OriginateFailedSilently(c) ==
    /\ \/ task[c].at = "refused"
       \/ task[c].at = "originated" /\ "lost_answer" \in Faults
    /\ call' = [call EXCEPT ![c].mapped = FALSE]
    /\ GoTo(c, "done")
    /\ UNCHANGED <<asterisk, pump, watchdog, fin, pending, row, session>>

(* An error, or no answer at all to a request that was carried out         *)
OriginateFailed(c) ==
    /\ \/ task[c].at = "refused"
       \/ task[c].at = "originated" /\ "lost_answer" \in Faults
    /\ call' = [call EXCEPT ![c].mapped = FALSE]
    /\ RejectWith(c, "failed")
    /\ UNCHANGED <<asterisk, pump, watchdog, fin, pending, row, session>>

(* Fault: a callee that is connected is left to its StasisStart            *)
WatchdogTrustsEvents(c) ==
    /\ watchdog[c] = "armed"
    /\ leg[c]["out"] # "dialing"
    /\ IF call[c].answered \/ call[c].finishing \/ leg[c]["out"] = "up"
       THEN watchdog' = [watchdog EXCEPT ![c] = "done"] /\ UNCHANGED <<call, fin>>
       ELSE /\ StartFinish(call, c, "no_answer", 19)
            /\ watchdog' = [watchdog EXCEPT ![c] = "finish"]
    /\ UNCHANGED <<asterisk, pump, task, pending, row, session>>

(* _originate_watchdog: it outwaits originate_timeout, so by then Asterisk *)
(* is no longer dialing, though the event may still be in the queue.       *)
WatchdogFires(c) ==
    /\ watchdog[c] = "armed"
    /\ leg[c]["out"] # "dialing"
    /\ IF call[c].answered \/ call[c].finishing
       THEN watchdog' = [watchdog EXCEPT ![c] = "done"] /\ UNCHANGED <<call, fin>>
       ELSE /\ StartFinish(call, c, "no_answer", 19)
            /\ watchdog' = [watchdog EXCEPT ![c] = "finish"]
    /\ UNCHANGED <<asterisk, pump, task, pending, row, session>>

(* _fail_channel, for a call that could not even be journalled             *)
FailChannel(c) ==
    /\ task[c].at = "fail_channel"
    /\ \/ Alive(c, "in") /\ HangUp(c, "in", 41)
       \/ Fails(Alive(c, "in"), "answer") /\ UNCHANGED <<leg, joined, queue, harm>>
    /\ GoTo(c, "done")
    /\ UNCHANGED <<sub, bridge, pump, watchdog, call, fin, pending, row, session>>

-----------------------------------------------------------------------------
(* The event pump                                                          *)

NextEvent == Head(queue)
Takes(type, c, l) ==
    /\ pump = Idle
    /\ queue # <<>>
    /\ NextEvent.type = type /\ NextEvent.call = c /\ NextEvent.leg = l
    /\ queue' = Tail(queue)

(* _on_stasis_start, inbound: up to the routing transaction                *)
InboundStarts(c) ==
    /\ Takes("StasisStart", c, "in")
    /\ sub' = [sub EXCEPT ![c] = Alive(c, "in")]
    /\ pump' = [at |-> "resolve", call |-> c]
    /\ UNCHANGED <<leg, bridge, joined, task, watchdog, call, fin, pending, row, session>>

(* resolve_call and start_call commit; the call's task takes over          *)
Resolve(c, action) ==
    /\ pump = [at |-> "resolve", call |-> c]
    /\ action # "reject" => session.active
    /\ OpenRow(c, action = "connect")
    /\ call' = [call EXCEPT ![c] = [@ EXCEPT !.known = TRUE,
                                             !.asked = (action = "ask"),
                                             !.session = (action = "connect")]]
    /\ CASE action = "reject" -> RejectWith(c, "unknown_caller")
         [] action = "ask" -> GoTo(c, "ask")
         [] action = "connect" -> GoTo(c, "limit")
    /\ pump' = Idle
    /\ UNCHANGED <<asterisk, watchdog, fin, pending, session>>

ResolveBreaks(c) ==
    /\ pump = [at |-> "resolve", call |-> c]
    /\ GoTo(c, "fail_channel")
    /\ pump' = Idle
    /\ UNCHANGED <<asterisk, watchdog, call, fin, pending, row, session>>

(* _on_outbound_start.  The callee answered: into the bridge, or away.     *)
(* The inbound id comes from the map or else from the channel's arguments, *)
(* so the call is found as long as it is known.                            *)
OutboundStarts(c) ==
    /\ Takes("StasisStart", c, "out")
    /\ pump' = [call |-> c,
                at |-> IF call[c].known /\ call[c].bridge_id THEN "answer_caller"
                       ELSE "orphan"]
    /\ UNCHANGED <<leg, sub, bridge, joined, task, watchdog, call, fin, pending,
                   row, session>>

HangUpOrphan(c) ==
    /\ pump = [at |-> "orphan", call |-> c]
    /\ HangUp(c, "out", 16)
    /\ pump' = Idle
    /\ UNCHANGED <<sub, bridge, task, watchdog, call, fin, pending, row, session>>

AnswerCaller(c) ==
    /\ pump = [at |-> "answer_caller", call |-> c]
    /\ \/ /\ Alive(c, "in")
          /\ pump' = [at |-> "join", call |-> c]
          /\ UNCHANGED <<call, fin>>
       \/ /\ Fails(Alive(c, "in"), "answer")
          /\ FinishInPump(call, c, "failed", NoCause)
    /\ UNCHANGED <<asterisk, task, watchdog, pending, row, session>>

JoinCallee(c) ==
    LET possible == Alive(c, "out") /\ bridge[c] = "up" IN
    /\ pump = [at |-> "join", call |-> c]
    /\ \/ /\ possible
          /\ joined' = [joined EXCEPT ![c] = @ \cup {"out"}]
          /\ call' = [call EXCEPT ![c].answered = TRUE]
          /\ pump' = [at |-> "mark", call |-> c]
          /\ UNCHANGED fin
       \/ /\ Fails(possible, "bridge")
          /\ FinishInPump(call, c, "failed", NoCause)
          /\ UNCHANGED joined
    /\ UNCHANGED <<leg, sub, bridge, queue, task, watchdog, pending, row, session>>

JournalAnswer(c) ==
    /\ pump = [at |-> "mark", call |-> c]
    /\ MarkAnswered(c)
    /\ pump' = Idle
    /\ UNCHANGED <<asterisk, task, watchdog, call, fin, pending, session>>

(* run() logs what a handler raises, and takes the next event              *)
JournalBreaks(c) ==
    /\ pump = [at |-> "mark", call |-> c]
    /\ pump' = Idle
    /\ UNCHANGED <<asterisk, task, watchdog, call, fin, pending, row, session>>

(* _on_stasis_end                                                          *)
InboundEnds(c) ==
    /\ Takes("StasisEnd", c, "in")
    /\ IF call[c].known THEN FinishInPump(call, c, NoStatus, NoCause)
       ELSE UNCHANGED <<pump, call, fin>>
    /\ UNCHANGED <<leg, sub, bridge, joined, task, watchdog, pending, row, session>>

(* Fault: the callee's leg is forgotten, and the call goes on              *)
OutboundEndsQuietly(c) ==
    /\ Takes("StasisEnd", c, "out")
    /\ call' = [call EXCEPT ![c].mapped = FALSE]
    /\ UNCHANGED <<leg, sub, bridge, joined, pump, task, watchdog, fin, pending,
                   row, session>>

OutboundEnds(c) ==
    LET unmapped == [call EXCEPT ![c].mapped = FALSE] IN
    /\ Takes("StasisEnd", c, "out")
    /\ IF call[c].mapped /\ call[c].known
       THEN FinishInPump(unmapped, c, NoStatus, NoCause)
       ELSE call' = unmapped /\ UNCHANGED <<pump, fin>>
    /\ UNCHANGED <<leg, sub, bridge, joined, task, watchdog, pending, row, session>>

(* _on_channel_destroyed: the caller's channel, with set_hangup_cause for  *)
(* a row closed before the cause was known                                 *)
InboundDestroyed(c) ==
    /\ Takes("ChannelDestroyed", c, "in")
    /\ IF call[c].known
       THEN /\ FinishInPump(call, c, NoStatus, NextEvent.cause)
            /\ UNCHANGED <<pending, row>>
       ELSE /\ pending' = pending \ {c}
            /\ RecordCause(c, NextEvent.cause)
            /\ UNCHANGED <<pump, call, fin>>
    /\ UNCHANGED <<leg, sub, bridge, joined, task, watchdog, session>>

CauseBreaks(c) ==
    /\ Takes("ChannelDestroyed", c, "in")
    /\ c \in pending
    /\ pending' = pending \ {c}
    /\ UNCHANGED <<leg, sub, bridge, joined, pump, task, watchdog, call, fin, row, session>>

OutboundDestroyed(c) ==
    /\ Takes("ChannelDestroyed", c, "out")
    /\ IF ~call[c].mapped THEN UNCHANGED <<pump, call, fin>>
       ELSE IF ~call[c].known
            THEN call' = [call EXCEPT ![c].mapped = FALSE] /\ UNCHANGED <<pump, fin>>
       ELSE FinishInPump(call, c, IF call[c].answered THEN NoStatus
                                  ELSE StatusOf(NextEvent.cause, "no_answer"),
                         NextEvent.cause)
    /\ UNCHANGED <<leg, sub, bridge, joined, task, watchdog, pending, row, session>>

-----------------------------------------------------------------------------
Environment(c) ==
    /\ CallerDials(c) \/ CallerHangsUp(c)
       \/ CalleeAnswers(c) \/ CalleeUnavailable(c) \/ CalleeHangsUp(c)
    /\ UNCHANGED harm

Task(c) ==
    \/ FailChannel(c)
    \/ /\ \/ Reject(c) \/ RejectPlayed(c)
          \/ Ask(c) \/ CodeMatches(c) \/ CodeWrong(c) \/ Goodbye(c) \/ AttachSession(c)
          \/ CheckLimit(c) \/ Ring(c) \/ CreateBridge(c)
          \/ BridgeCreated(c) \/ AddCaller(c) \/ Originate(c) \/ OriginateAnswered(c)
          \/ OriginateFailed(c)
       /\ UNCHANGED harm

Watchdog(c) == WatchdogFires(c) /\ UNCHANGED harm

Finish(c) ==
    \/ FinishHangsOut(c) \/ FinishHangsIn(c) \/ FinishDestroysBridge(c)
    \/ FinishForgets(c) /\ UNCHANGED harm

Pump(c) ==
    \/ HangUpOrphan(c)
    \/ /\ \/ InboundStarts(c) \/ OutboundStarts(c)
          \/ \E action \in {"reject", "ask", "connect"} : Resolve(c, action)
          \/ AnswerCaller(c) \/ JoinCallee(c) \/ JournalAnswer(c)
          \/ InboundEnds(c) \/ OutboundEnds(c)
          \/ InboundDestroyed(c) \/ OutboundDestroyed(c)
       /\ UNCHANGED harm

(* A transaction of the call raises                                        *)
Breaks(c) ==
    /\ "db" \in Faults
    /\ TaskBreaks(c) \/ FinishBreaks(c) \/ ResolveBreaks(c) \/ JournalBreaks(c)
       \/ CauseBreaks(c)
    /\ harm' = [harm EXCEPT ![c] = @ \cup {"db"}]

Next ==
    \/ \E c \in Calls : Environment(c) \/ Task(c) \/ Finish(c) \/ Pump(c)
                        \/ Watchdog(c) \/ Breaks(c)
    \/ LoseEvents
    \/ SessionEnds

Spec == Init /\ [][Next]_vars

(* The loop runs every task that can go on, requests and transactions end, *)
(* and Asterisk ends every dialing (originate_timeout).  Nobody is obliged *)
(* to dial, to hang up or to end a session.                                *)
Fairness ==
    /\ WF_vars(\E c \in Calls : Pump(c))
    /\ \A c \in Calls : /\ WF_vars(Task(c))
                        /\ WF_vars(Finish(c))
                        /\ WF_vars(Watchdog(c))
                        /\ WF_vars((CalleeAnswers(c) \/ CalleeUnavailable(c))
                                      /\ UNCHANGED harm)

FairSpec == Spec /\ Fairness

-----------------------------------------------------------------------------
(* Correctness                                                             *)

Over(c) == fin[c].at = "done"

(* _finish "releases both legs": once a call is forgotten neither channel  *)
(* of it exists, however the teardown crossed the set-up, unless the       *)
(* hangup of that channel failed, which _finish ignores.                   *)
LegsReleased ==
    \A c \in Calls : Over(c) =>
        /\ leg[c]["in"] = "gone" \/ "in" \in harm[c]
        /\ leg[c]["out"] \in {"none", "gone"} \/ "out" \in harm[c]

(* Nobody talks after the journal closed the call (duration_sec is the     *)
(* whole conversation), unless each of the three requests that should have *)
(* parted them failed.                                                     *)
NoTalkAfterEnd ==
    \A c \in Calls : row[c].ended /\ joined[c] = Legs => Legs \cup {"bridge"} \subseteq harm[c]

(* The callee's phone rings only for a caller who waits in the bridge and  *)
(* a call that can still be torn down: the app knows the channel's id.     *)
DialsForWaitingCaller ==
    [][\A c \in Calls : leg[c]["out"] = "none" /\ leg'[c]["out"] = "dialing" =>
          call[c].outbound_id /\ "in" \in joined[c] /\ fin[c].at # "done"]_vars

(* Whatever fails and crosses, all a party or the journal gets of a call   *)
(* is what MaskedCall promises: a callee who is rung once, for a caller    *)
(* who is there and a call with a session, nobody put through after the    *)
(* row was closed, and a row that is opened and closed once, with both     *)
(* channels gone, says `answered' only of a call that was, and keeps its   *)
(* cause.  Where a hangup failed, the channel it left is named.            *)
Contract(c) ==
    INSTANCE MaskedCall WITH
        caller <- leg[c]["in"], callee <- leg[c]["out"],
        refused <- harm[c] \cap Legs,
        talked <- call[c].answered, entry <- row[c]

KeepsContract ==
    /\ \A c \in Calls : Contract(c)!Init
    /\ [][\A c \in Calls : [Contract(c)!Next]_(Contract(c)!vars)]_vars

(* Of that: a hangup cause once journalled is never replaced, and a row    *)
(* never opens again (finish_call and set_hangup_cause only fill in).      *)
CauseKept ==
    [][\A c \in Calls : /\ row[c].cause # NoCause => row'[c].cause = row[c].cause
                        /\ row[c].ended => row'[c].ended]_vars

(* When the caller has gone, or the callee has, the call is torn down      *)
(* completely: the hangups tried, the row closed, the state forgotten.     *)
(* Only a transaction that fails or an event that is lost can prevent it.  *)
TornDown ==
    \A c \in Calls : call[c].known /\ (leg[c]["in"] = "gone" \/ leg[c]["out"] = "gone")
                        ~> (Over(c) /\ row[c].ended) \/ harm[c] \cap {"db", "events"} # {}

(* No caller waits forever: the call is answered, or it is released, if    *)
(* the one request that releases the caller does not fail.                 *)
NobodyStranded ==
    \A c \in Calls : leg[c]["in"] = "up"
                        ~> \/ call[c].answered \/ leg[c]["in"] = "gone"
                           \/ harm[c] \cap {"db", "events", "in"} # {}

(* Whatever events are lost, a call that was dialed is answered or ends:   *)
(* the watchdog is there for the events Asterisk should have sent.         *)
DialEnds ==
    \A c \in Calls : watchdog[c] = "armed"
                        ~> call[c].answered \/ Over(c) \/ "db" \in harm[c]

(* Every conversation is journalled as answered, even one that a teardown  *)
(* crosses or whose end is lost.                                           *)
TalkJournalled ==
    \A c \in Calls : joined[c] = Legs ~> row[c].answered \/ "db" \in harm[c]

(* What docs and comments say and the code does not keep                   *)

(* models.py: max_calls is the "cap on answered calls" of the session      *)
CapKept == AnsweredCalls <= MaxCalls

(* models.py, expires_at: "after this moment no new call is connected"     *)
NoCallAfterEnd ==
    [][\A c \in Calls :
         leg[c]["out"] = "none" /\ leg'[c]["out"] = "dialing"
            => session.active]_vars

=============================================================================
