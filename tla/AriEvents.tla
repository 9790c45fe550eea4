----------------------------- MODULE AriEvents ------------------------------
(***************************************************************************)
(* The event stream from Asterisk (ARIClient.events, force_reconnect and   *)
(* application_registered of ari/client.py, run and _registration_watchdog *)
(* of ari/stasis.py): a websocket that breaks and is opened again with a   *)
(* growing delay, and a watchdog that asks whether Asterisk still knows    *)
(* the application.  CallFlow has what lost events do to a call.           *)
(*                                                                         *)
(* Time advances in ticks.  Requests, handshakes and handlers take none,   *)
(* so everything that can happen at an instant happens before the next; in *)
(* which order is open.                                                    *)
(*                                                                         *)
(* `Fault:' marks a mistaken variant of the definition after it.           *)
(***************************************************************************)
EXTENDS Integers

CONSTANTS
    ReconnectMin,  \* settings.ari_reconnect_min_seconds
    ReconnectMax,  \* settings.ari_reconnect_max_seconds
    CheckSeconds,  \* settings.ari_app_check_seconds
    MaxTroubles,   \* bound: how often something goes wrong outside
    MaxFailures    \* bound: the failed attempts that are counted

ASSUME AriEventsAssumption ==
    /\ ReconnectMin \in Nat \ {0} /\ ReconnectMax \in Nat /\ CheckSeconds \in Nat \ {0}
    /\ ReconnectMin <= ReconnectMax
    /\ MaxTroubles \in Nat /\ MaxFailures \in Nat

VARIABLES
    \* Asterisk and the network
    up,         \* does Asterisk answer?
    consumer,   \* whom the application's events go to
    line,       \* our websocket as it is, noticed or not
    troubles,   \* how often something went wrong
    \* ARIClient
    pump,       \* where events() and run() are
    connected,  \* ARIClient.connected
    socket,     \* is _socket set?
    delay,      \* the next pause
    pause,      \* ticks left of this one
    \* _registration_watchdog
    watch,      \* where it is, with the answer it has
    poll,       \* ticks to the next check
    \* history
    since,      \* ticks since the last attempt to connect
    failures,   \* attempts that failed in a row
    silence     \* ticks in a row that Asterisk knew no application

outside == <<up, consumer, line, troubles>>
client == <<pump, connected, socket, delay, pause>>
watchdog == <<watch, poll>>
history == <<since, failures, silence>>
vars == <<outside, client, watchdog, history>>

TypeOK ==
    /\ up \in BOOLEAN
    /\ consumer \in {"ours", "other", "nobody"}
    /\ line \in {"none", "open", "closed", "cut"}
    /\ troubles \in 0..MaxTroubles
    /\ pump \in {"connecting", "reading", "handling", "sleeping"}
    /\ connected \in BOOLEAN /\ socket \in BOOLEAN
    /\ delay \in ReconnectMin..ReconnectMax
    /\ pause \in 0..ReconnectMax
    /\ watch \in {"sleeping", "asking", "known", "gone", "error"}
    /\ poll \in 0..CheckSeconds
    /\ since \in Nat /\ failures \in 0..MaxFailures /\ silence \in Nat

Init ==
    /\ up \in BOOLEAN /\ consumer = "nobody" /\ line = "none" /\ troubles = 0
    /\ pump = "connecting" /\ connected = FALSE /\ socket = FALSE
    /\ delay = ReconnectMin /\ pause = 0
    /\ watch = "sleeping" /\ poll = CheckSeconds
    /\ since = ReconnectMin /\ failures = 0 /\ silence = 0

-----------------------------------------------------------------------------
(* Asterisk and the network                                                *)

Loses(how) ==
    /\ line' = IF line = "open" THEN how ELSE line
    /\ consumer' = IF consumer = "ours" THEN "nobody" ELSE consumer

Trouble == troubles < MaxTroubles /\ troubles' = troubles + 1

Breaks ==
    /\ Trouble /\ line = "open"
    /\ \E how \in {"closed", "cut"} : Loses(how)
    /\ UNCHANGED <<up, client, watchdog, history>>

GoesDown ==
    /\ Trouble /\ up
    /\ up' = FALSE
    /\ \E how \in {"closed", "cut"} : line' = IF line = "open" THEN how ELSE line
    /\ consumer' = "nobody" /\ silence' = 0
    /\ UNCHANGED <<client, watchdog, since, failures>>

ComesUp ==
    /\ ~up /\ up' = TRUE
    /\ UNCHANGED <<consumer, line, troubles, client, watchdog, history>>

(* Another websocket takes the application over; ours stays open, silent   *)
OtherComes ==
    /\ Trouble /\ up /\ consumer # "other"
    /\ consumer' = "other" /\ silence' = 0
    /\ UNCHANGED <<up, line, client, watchdog, since, failures>>

(* ... and leaves: Asterisk destroys the application                       *)
OtherLeaves ==
    /\ consumer = "other"
    /\ consumer' = "nobody"
    /\ UNCHANGED <<up, line, troubles, client, watchdog, history>>

-----------------------------------------------------------------------------
(* ARIClient.events                                                        *)

(* Fault: the delay does not return to the minimum                         *)
DelayKept == delay' = delay

DelayReset == delay' = ReconnectMin

Connect ==
    /\ pump = "connecting" /\ up
    /\ line' = "open" /\ consumer' = "ours"
    /\ connected' = TRUE /\ socket' = TRUE
    /\ DelayReset
    /\ pump' = "reading"
    /\ since' = 0 /\ failures' = 0 /\ silence' = 0
    /\ UNCHANGED <<up, troubles, pause, watchdog>>

Pause ==
    /\ connected' = FALSE /\ socket' = FALSE
    /\ pause' = delay
    /\ pump' = "sleeping"

(* Fault: the delay grows without end                                      *)
DelayGrown == delay' = delay * 2

DelayGrows == delay' = IF delay * 2 < ReconnectMax THEN delay * 2 ELSE ReconnectMax

ConnectFails ==
    /\ pump = "connecting" /\ ~up
    /\ Pause /\ DelayGrows
    /\ since' = 0 /\ failures' = IF failures < MaxFailures THEN failures + 1 ELSE failures
    /\ UNCHANGED <<outside, watchdog, silence>>

(* An event is read, and handled before the next                           *)
Receive ==
    /\ pump = "reading" /\ line = "open" /\ consumer = "ours"
    /\ pump' = "handling"
    /\ UNCHANGED <<outside, connected, socket, delay, pause, watchdog, history>>

Handled ==
    /\ pump = "handling"
    /\ pump' = "reading"
    /\ UNCHANGED <<outside, connected, socket, delay, pause, watchdog, history>>

(* The websocket was cut: an exception                                     *)
NoticeCut ==
    /\ pump = "reading" /\ line = "cut"
    /\ line' = "none"
    /\ Pause /\ DelayGrows
    /\ UNCHANGED <<up, consumer, troubles, watchdog, history>>

(* Fault: a websocket closed in good order is opened again at once         *)
NoticeCloseAtOnce ==
    /\ pump = "reading" /\ line = "closed"
    /\ line' = "none"
    /\ connected' = FALSE /\ socket' = FALSE
    /\ pump' = "connecting"
    /\ UNCHANGED <<up, consumer, troubles, delay, pause, watchdog, history>>

(* It was closed in good order: the frames end                             *)
NoticeClose ==
    /\ pump = "reading" /\ line = "closed"
    /\ line' = "none"
    /\ Pause
    /\ UNCHANGED <<up, consumer, troubles, delay, watchdog, history>>

Wake ==
    /\ pump = "sleeping" /\ pause = 0
    /\ pump' = "connecting"
    /\ UNCHANGED <<outside, connected, socket, delay, pause, watchdog, history>>

-----------------------------------------------------------------------------
(* _registration_watchdog                                                  *)

Poll ==
    /\ watch = "sleeping" /\ poll = 0
    /\ IF connected THEN watch' = "asking" /\ UNCHANGED poll
       ELSE poll' = CheckSeconds /\ UNCHANGED watch
    /\ UNCHANGED <<outside, client, history>>

(* Fault: 404 is an error like others                                      *)
AnswerOrError == IF up /\ consumer # "nobody" THEN "known" ELSE "error"

(* application_registered                                                  *)
Answer ==
    IF ~up THEN "error" ELSE IF consumer = "nobody" THEN "gone" ELSE "known"

Ask ==
    /\ watch = "asking"
    /\ watch' = Answer
    /\ UNCHANGED <<outside, client, poll, history>>

(* By now the connection may be another than the one that was asked about  *)
ForceReconnect ==
    /\ socket' = FALSE
    /\ IF socket THEN Loses("closed") ELSE UNCHANGED <<line, consumer>>

Act ==
    /\ watch \in {"known", "gone", "error"}
    /\ IF watch = "gone" THEN ForceReconnect ELSE UNCHANGED <<socket, line, consumer>>
    /\ watch' = "sleeping" /\ poll' = CheckSeconds
    /\ UNCHANGED <<up, troubles, pump, connected, delay, pause, history>>

-----------------------------------------------------------------------------
(* A silent loss takes a check and the shortest pause; an outage that ends *)
(* may leave the longest.                                                  *)
SilenceLimit ==
    IF CheckSeconds + ReconnectMin > ReconnectMax THEN CheckSeconds + ReconnectMin
    ELSE ReconnectMax

Longer(n) == IF n <= SilenceLimit THEN n + 1 ELSE n

Urgent ==
    \/ pump \in {"connecting", "handling"}
    \/ pump = "reading" /\ line \in {"closed", "cut"}
    \/ pump = "sleeping" /\ pause = 0
    \/ watch # "sleeping" \/ poll = 0

Tick ==
    /\ ~Urgent
    /\ pause' = IF pump = "sleeping" THEN pause - 1 ELSE pause
    /\ poll' = poll - 1
    /\ since' = IF since < ReconnectMax THEN since + 1 ELSE since
    /\ silence' = IF up /\ consumer = "nobody" THEN Longer(silence) ELSE silence
    /\ UNCHANGED <<outside, pump, connected, socket, delay, watch, failures>>

Pump == Connect \/ ConnectFails \/ Receive \/ Handled \/ NoticeCut \/ NoticeClose \/ Wake

Watchdog == Poll \/ Ask \/ Act

Next ==
    \/ Pump \/ Watchdog \/ Tick
    \/ Breaks \/ GoesDown \/ ComesUp \/ OtherComes \/ OtherLeaves

Spec == Init /\ [][Next]_vars

(* The loop runs both tasks and time passes; outages and other consumers   *)
(* end.                                                                    *)
FairSpec ==
    /\ Spec
    /\ WF_vars(Connect \/ ConnectFails \/ Handled \/ NoticeCut \/ NoticeClose \/ Wake)
    /\ WF_vars(Watchdog) /\ WF_vars(Tick)
    /\ WF_vars(ComesUp) /\ WF_vars(OtherLeaves)

-----------------------------------------------------------------------------
(* Correctness                                                             *)

(* "A dropped websocket is retried forever": once nothing goes wrong any   *)
(* more the events come to us for good, after a silent loss too.           *)
Restored == <>[](consumer = "ours" /\ connected /\ line = "open")

Pow2[k \in Nat] == IF k = 0 THEN 1 ELSE 2 * Pow2[k - 1]

(* Asterisk is never pressed: after k failures in a row the next attempt   *)
(* waits twice as long as the one before, up to the maximum; and no        *)
(* attempt follows another sooner than the minimum.                        *)
Attempts == pump = "connecting" /\ pump' # "connecting"

BackedOff ==
    [][Attempts =>
         LET wanted == ReconnectMin * Pow2[IF failures = 0 THEN 0 ELSE failures - 1]
         IN  since >= IF wanted < ReconnectMax THEN wanted ELSE ReconnectMax]_vars

(* While Asterisk is up and nobody else has the application, it is never   *)
(* without a consumer for longer than a check and a pause.                 *)
SilenceBounded == silence <= SilenceLimit

=============================================================================
