# TLA+ models of the number masking service

The service hides the real numbers of two subscribers behind a *proxy number*
for as long as a *session* lasts. The control plane (a FastAPI application over
PostgreSQL and Redis) creates, extends and ends sessions; the data plane (an
ARI application in the same process, driving Asterisk) answers calls to proxy
numbers, finds the session and bridges the two parties. This directory models
both planes in TLA+, checks them with TLC and proves the central properties of
sessions, routing, calls, PIN entry, the event stream and the control plane with
TLAPS.

Paths are relative to the repository (`app/...`); in `PROJECT.json` they carry
the prefix under which the sources are kept.

## 1. The system

| Component | State it keeps | Operations | Makes it correct |
|---|---|---|---|
| Session lifecycle, `app/services/sessions.py` | rows of `sessions` and `session_parties` | create, extend, close, expire a batch, purge | sessions end when due; a number left by its last session starts to cool down; nobody gets a number they or others have just left |
| Number allocation, `app/services/allocation.py` | locks on rows of `numbers` for one transaction | pick an exclusive number, or share one and hand out PINs, promoting earlier sessions | a subscriber reaches each of their sessions; PINs are distinct, stable and capped |
| Number pool, `app/services/numbers.py` | `numbers` | add, enable, disable, statistics | statistics agree with what allocation does |
| Background loops, `app/background.py` | none | sweep of due sessions, purge | every due session ends although sweeps are bounded |
| Schema and trigger, `app/db/models.py`, `app/db/triggers.py` | copies of status, PIN and closing time in the party rows; partial unique indexes | the trigger | copies equal originals at every commit |
| Routing and cache, `app/services/routing.py`, `app/db/cache.py` | Redis: routes and misses with a lifetime | resolve a call, cache, invalidate a number | a cached route is one the database would give, or ends soon |
| Call handling, `app/ari/stasis.py` | `_calls`, `_outbound_to_inbound`, `_pending_cause`, a `CallState`, a task and a watchdog per call | event handlers, `_ask_for_code`, `_connect`, `_reject`, `_finish` | both legs are released, the row is closed, no caller is left alone |
| Journal, `app/services/calls.py` | rows of `calls` | start, attach, answer, finish, complete the cause | a call that is over has an outcome; a conversation is journalled as one |
| ARI client, `app/ari/client.py` | the event websocket | requests, events with reconnection | a lost websocket comes back |
| PIN entry, `app/ari/dtmf.py` | a queue of digits | feed, reset, collect | what was typed is what is compared |
| Webhooks, `app/services/webhooks.py` | tasks in flight | emit, deliver with retries, drain | bounded attempts |
| API, `app/api`, `app/main.py` | one transaction per request, a request counter in Redis | the endpoints, start and stop | commit before anyone acts on the answer |
| Phone numbers, cryptography, configuration, logging, `app/core` | none | pure functions | normalisation is idempotent, masking shows nine characters at most |

How they interact. A request runs in one transaction that commits after the
handler returns (`api/deps.py`). Allocation locks the chosen number until that
commit. The two background loops run transactions of their own. The pump of the
call application handles one ARI event at a time, and starts a task per call
for whatever waits; `_finish` runs in the pump, in that task or in the watchdog
of the call. The call application reads sessions through routing and writes only
`calls`. Invalidation of the cache and webhooks leave from inside transactions.

Where it is hard:

* concurrent transactions on one number (locks, snapshots, the cooldown clock);
* sharing a number: a PIN for everyone who would otherwise be unreachable, in
  the same transaction, with candidates that fail half-way;
* teardown crossing set-up at every await of a call, with events of two
  channels in any order and requests whose answers are lost;
* what was read before an await and used after it: the cap on calls, the
  candidates of a PIN dialog, a cached route;
* boundaries: two cooldowns with different edges, retention against cooldown,
  bounded sweeps, the limit of sessions per number.

`PROJECT.json` lists each hazard at its line with the properties about it.

## 2. The modules

| Module | Models | Uses |
|---|---|---|
| `Sessions` | sessions and pool, one committed transaction per action | |
| `Ledger` | what a committed transaction may have done, whatever ran beside it; kept by `Sessions` and `SessionTx` | |
| `SessionTx` | the same transactions statement by statement, concurrently | implements `Ledger` |
| `Router` | which session a call belongs to, without a cache | |
| `Routing` | the same with Redis, its failures and racing invalidations | implements `Router` |
| `MaskedCall` | what a call promises its parties and the journal; kept by `CallFlow` | |
| `CallFlow` | a call from `StasisStart` to its journal entry, with Asterisk | implements `MaskedCall` |
| `PinEntry` | one caller typing a PIN | |
| `AriEvents` | the websocket and the registration watchdog | |
| `RateLimit`, `Webhooks` | the quota of a key; a webhook and its retries | |
| `ControlPlane` | requests, expiry loop, webhooks and the end of the process | composes `RateLimit` and `Webhooks` |
| `MC...` | instances for TLC | |
| `...Proofs` | theorems, section 5 | |

Some definitions are preceded by one marked `Fault:`, the same definition with a
plausible mistake. They are no part of the model: each has a property that fails
when the mistake is put in (`PROJECT.json`, `mutants`), which shows that the
property is about the code and that the instance is large enough to notice.

### `Sessions` — sessions and the pool

One action is one committed transaction (`session_scope`, `db_session`); a
transaction that raises rolls back and changes nothing. A creation that has to
share a number is two: it queries the candidates (`LookForShared`), and later locks
them one after the other and goes on with what it read (`CreateShared`), or raises
(`GiveUp`). Whatever commits in between, the count, the cooldowns and the status
of a candidate stay those of the query, as in the code; its PINs and the
sessions to promote are read under the lock. Transactions in flight are seen
through the number rows they hold locked: a statement is given any set `locked`
of numbers that `SKIP LOCKED` passes over. An exclusive creation takes its number
in the statement that chooses it and is one action; what its snapshot misses is
the business of `SessionTx`.

| Model | Code |
|---|---|
| `pool`, `released_at` | `numbers.status`, `numbers.released_at` |
| `status`, `number_id`, `ext_code`, `expires_at`, `closed_at`, `parties` | the row of `sessions` and its two party rows |
| `now` | the clock, `now()` in SQL and `now_utc()` |
| `looked` | the candidates a creation has queried, each with the `active_count` it saw; history: the numbers that got another session since (`filled`), and who left one since (`left`) |
| `ended` | history only: when a session of a party last ended on a number |
| `Candidate`, `ConflictFree`, `ReleasedBefore`, `CountSeen`, `EmptierThan`, `ToPromote`, `UsedCodes` | the SQL of `allocation.py` |
| `CreateExclusive`; `LookForShared`, `CreateShared`, `GiveUp` | `allocate_number` and its fallback, with `create_session` |
| `Triable`, `Tried` | the candidates the loop does not pass over, by the count of the query, and those it comes to first |
| `Abandoned`, `Serves`, `Promotions` | the loop over candidates: one that is given up keeps the PINs handed out on it, because the transaction goes on |
| `ExtendTtl`, `ExtendUntil`, `CloseSession`, `ExpireDue`, `Purge` | `sessions.py` and the loops of `background.py` |
| `AddNumber`, `SetNumberStatus` | `numbers.py` |

A PIN is drawn at random with a bounded number of attempts, so `_fresh_code`
may fail as soon as one PIN is taken; `Abandoned` allows exactly that. The
partial unique indexes are not guards: that they never refuse a serial
transaction is what `Reachable` and `CodesDistinct` say. The copies the trigger keeps
in `session_parties` change in the transaction that changes the original and are
therefore read from the original. `_MAX_CANDIDATES` is larger than any instance.
Times are whole units, one for every duration of the configuration; the
strictness of each comparison is the code's.

### `Ledger` and `SessionTx` - transactions that run at once

`SessionTx` takes the transactions of `Sessions` apart into statements, as
PostgreSQL runs them under READ COMMITTED.

| Model | Code and database |
|---|---|
| `row`; `dirty`, `owner`; `lock` | committed rows; what a transaction wrote to the rows it has locked; the locks of `numbers` |
| `View` | a statement sees what was committed when it began and its own writes |
| `BeginCreate`, `Pick` | the query of `allocate_number`: the predicate on the snapshot of the statement, then `FOR UPDATE SKIP LOCKED` one row at a time |
| `LookForShared`, `Try`, `Exhausted` | `_allocate_with_extension_code`, a candidate at a time; a number given up stays locked |
| `ReadCodes`, `FindConflicts`, `LockConflict`, `GivePins` | `_fresh_code` and `_promote_conflicting_sessions`: query, `FOR UPDATE` that waits and reads the latest version, new PINs |
| `Insert`, `InsertFails` | the insert under the two partial unique indexes: it waits for a row whose collision depends on an open transaction, then goes through or raises |
| `BeginClose`, `BeginExtend`, `BeginSweep`, `Update` | read without a lock, written later by primary key, in key order (the flush of the unit of work), whatever became of the row |
| `Count`, `Stamp` | `_mark_number_released` |
| `DetectDeadlock`, `Fail` | the detector aborts one of those that wait for each other; a connection or an exception ends any transaction |

There is no clock: `life` says whether the expiry of a session has passed, and
every cooldown that has begun is still running. All numbers are enabled,
`cooldown_scope` is `party` and `ext_code_mode` is `auto`. Purge, which touches
only ended rows past their retention, is left to `Sessions`.

`Ledger` is the contract: a creation takes an unused row, gives fresh PINs to
sessions that are active and have none, and meets no PIN-less session of its
parties without a PIN of its own; an end may also hit a session that has already
ended (the sweep and a close overwrite each other); an extension touches
the expiry only; a purge takes rows that ended. `KeepsLedger` (`Promise!Spec`, with
the committed rows as the refinement mapping) says that `SessionTx` implements it. `Reachable` of `Sessions`
is *not* part of the contract: the run `pin_race` shows that it is lost when two
creations cross. `Sessions` keeps the contract too (`SessionsImplementLedger`), so the
two models of a transaction agree on what it commits.

### `MaskedCall` and `CallFlow` - a call

Code between two awaits is one action. An action is the answer of one REST
request or transaction and what follows it up to the next await; where the
effect of a request and its answer matter apart (`create_bridge`, `originate`)
they are two.

| Model | Code |
|---|---|
| `call` | `CallState`; `known` and `mapped` are membership in `_calls` and `_outbound_to_inbound` |
| `task`, `watchdog`, `pump`, `fin` | where the call's task, `_originate_watchdog`, `run()` and the one run of `_finish` are |
| `pending` | `_pending_cause` |
| `row` | the row of `calls` |
| `leg`, `sub`, `bridge`, `joined`, `queue` | Asterisk: channels, the explicit subscription, the bridge and who is in it, the events on the websocket |
| `session` | whether the session is active, and how many of its earlier calls were answered |
| `harm` | history only: what failed under a call: a transaction, the stream of its events, the destruction of its bridge, the hangup of one of its legs |
| `Task`, `Finish`, `Pump`, `WatchdogFires` | `_reject`, `_ask_for_code`, `_connect`, `_fail_channel`; `_finish`; the handlers; the watchdog |

Asterisk is external and modelled as the code uses it: a request to a channel
fails once the channel is gone; a channel that goes away sends `StasisEnd` if it
was in Stasis and `ChannelDestroyed` if the application originated it or
subscribed to it; `originate` is refused when its originator is gone; dialing
ends by `originate_timeout`, before the watchdog, which waits 5 seconds longer.
`Faults` names what may fail besides: answering a caller (`answer`), bridge
requests, the destruction included (`bridge`), `originate` itself (`originate`),
its answer after it was carried out (`lost_answer`), the hangup of a channel that
is there (`hangup`), any transaction (`db`), and the event stream, which loses a
run of events when the websocket breaks (`events`). `_finish` ignores its failures
and goes on: the channel stays, the row is closed and the call forgotten. Not
modelled are requests other than `originate` whose answer is lost after they were
carried out: the callee joining the bridge unknown to the application
(`JoinCallee`) is the one that would matter. A request whose task is cancelled has
been carried out before or never is. The route is any decision an active session allows,
a typed PIN is right or wrong. A journal transaction is atomic. The limit of 512
pending causes is not reached. `max_calls` is always set; a session without it
behaves as one whose cap is out of reach.

`MaskedCall` is the contract of one call, in terms of what its parties and the
journal see: the two channels, whether the callee was ever put through, and the
row. The callee is rung once, for a caller who is there and an open row with a
session; nobody is put through after the row is closed, unless the callee's hangup failed; a row is opened before
anything else and closed once, as `answered` only if the callee was put through, when no
channel is left but one whose hangup failed (`refused`, `Released`); a cause
completes it once. Nothing is said of tasks, events,
retries of the dialog or the bridge. `KeepsContract` says that `CallFlow`
implements it for every call (`Contract(c)`, with the channels, the failed hangups,
`answered` and the row of `c` as the refinement mapping). One thing the contract has to allow: the
outcome of a row is the one its teardown began with, so a watchdog that gives up
while the callee is being put through may leave `answered_at` beside another
outcome (`JournalAnswer` and `Close`).

### `PinEntry` - typing a PIN

| Model | Code |
|---|---|
| `queue`, `buffer` | `DigitCollector`: keys pressed and not yet read, digits read |
| `at`, `attempt`, `Result` | `_ask_for_code` and its loop over attempts |
| `Reset`, `Press`, `TakeKey`, `TimeOut` | `reset`, `feed` from `_on_dtmf`, one round of `collect`, its `TimeoutError` |
| `total`, `quiet`, `WaitOn` | the deadline of an attempt and the wait for the next key |
| `Play`, `PromptEnds`, `PromptTimesOut`, `missed` | `_play`: the request, `PlaybackFinished`, `_PLAYBACK_MAX_WAIT_SECONDS`; the event that came before `_play` registered |
| `fed`, `held` | history only |

`Understood` and `CodeAccepted` compare the collector with a definition of what
was typed that knows nothing of queues and timers (`SinceStar`, `Inputs`): the
digits after the last `*`, complete with `#` or the last digit. In the tick a
timer is due it may go off before or after keys that are pressed in that tick.

### `AriEvents` - the event stream

| Model | Code |
|---|---|
| `pump`, `connected`, `socket`, `delay`, `pause` | `ARIClient.events` and `run`: connecting, reading, handling an event, sleeping |
| `watch`, `poll`, `Poll`, `Ask`, `Act` | `_registration_watchdog`, `application_registered`, `force_reconnect` |
| `line`, `consumer`, `up` | external: the websocket as it is (open, closed in order, cut), whom Asterisk sends the events of the application to, whether it answers |
| `since`, `failures`, `silence` | history only |

Another consumer may take the application over and leave: our websocket stays
open and silent, which only the watchdog can notice. `Act` closes whatever
websocket there is when the answer is acted upon, as the code does.

### `RateLimit`, `Webhooks`, `ControlPlane` - the process around the services

`RateLimit` is the counter of one key: `INCR` and `EXPIRE NX` in one `MULTI`, a
Redis that does not answer, or whose answer to an executed `MULTI` is lost, lets
the request through. `Webhooks` is one task per event with attempts and doubling
pauses. `ControlPlane` puts them together with the transactions of requests
(webhook scheduled before the dependency commits), the expiry loop (webhooks
after its commit), the webhooks of calls, and `lifespan`: uvicorn takes no request
any more and lets those in progress finish, the loops are cancelled and gathered,
the call application is stopped with the tasks of its calls (`StopsCalls`), `drain`
waits for the deliveries it finds, and the event loop cuts off what is left. Calls
announce what they do until they are stopped (`CallAnnounces`); what they do is the
business of `CallFlow`, and what a request does to sessions that of `Sessions`;
here a session is due or expired.

### `Routing` and `Router` — which session a call belongs to

`Routing` models `resolve_call` with the Redis cache in front of the database,
for the callers of one proxy number, and the transactions that change the
sessions of that number. A query, a Redis command and a commit are each one
action, since the cache is invalidated before the commit and a lookup may fall
anywhere in between.

| Model | Code |
|---|---|
| `db` | the committed rows `_load_candidates` and `_had_session` read |
| `tx` | the transaction in flight: the rows it will commit and the keys `invalidate_number` has still to delete |
| `cache` | `lookup:<number>:<hash>`: a route or a miss, until when Redis keeps it |
| `lookup` | where `resolve_call` is for the call the pump handles; the pump awaits it, so there is one |
| `answer` | the decision, with the cap its candidate carries, in the step that gives it |
| `asked`, `since`, `latest` | history only: when the call came in, when the database was read, the latest expiry a session was given |
| `MissCache`, `LoadCandidates`, `RejectWithoutSession`, `CacheMiss`, `CacheSingle`, `AnswerFromCache` | `resolve_call` between its awaits |
| `Begin`, `DeleteKey`, `InvalidationFails`, `Commit`, `Rollback` | `session_scope` around a service call that ends in `invalidate_number` |

Bounds: one transaction at a time (what concurrent ones do to each other is the
question of `SessionTx`); a lookup takes at most `Latency`; `SparePins` says
whether a session in conflict with none has a PIN. The row of a session that is
over keeps its status only, as nothing else of it is read. Which number of the
pool is dialed plays no role, and enabling or disabling it changes no route.

`Router` is the specification without a cache: a call gets the decision the
database calls for, now or at a moment it was noted, not longer ago than that
kind of decision may be given. `Routing` implements it (`BoundedStaleness`): the
notes are what the lookup in progress and the cache hold. So a stale route is
always one that was right, a lookup and a cache lifetime ago at most, and a PIN
prompt offers every session of the caller.

## 3. The runs

| Run | Question | Instance |
|---|---|---|
| `sessions` | Do creations, extensions and ends in any order keep subscribers reachable, PINs right and stable and the release time, and who can exceed the cap? | 2 numbers, 3 parties, 3 sessions, 3 PINs, two instants, all durations 1, at most 2 sessions on a shared number, a sweep of one; 142 306 states |
| `sessions_sweep` | Does every overdue session end or get extended, and does a number rest, for everybody and for whoever left it, before it is given away, purges included? | 1 number, 2 parties, 3 sessions, 2 PINs, four instants, cooldown of whole numbers, all durations 1, a sweep takes one session; 467 942 states |
| `session_tx` | Do concurrent transactions keep the contract, when is the release time lost, and who can deadlock? | 3 transactions (a creation or close, one of any kind, a sweep or close), 4 ids, 1 number, 5 parties, 3 PINs, 4 openings; 376 652 states |
| `routing` | How wrong can a cached route be, whatever fails and however lookups and transactions cross? | 1 caller with 2 sessions, one of them capped, route lifetime 2, refusal lifetime 1, lookups of up to 1, Redis may fail at any command; 236 934 states |
| `callflow` | Does every call end, is nobody stranded, is every conversation journalled, is the contract of a call kept, and what may `_finish` leave behind, whatever fails? | 1 call, 2 attempts, all seven faults; 137 906 states |
| `pin_entry` | Is what was typed what is compared, and is the caller answered in time? | 2 digits and another key, PINs of 2 digits, 2 attempts of up to 3 keys, timeouts 2 and 3; 166 276 states |
| `ari_events` | Do the events come back, how long may they be away, and is Asterisk spared? | pauses 1 to 8, a check every 4 ticks, 4 troubles; 18 776 states |
| `control_plane` | Are denials fair, does the window hold, do all deliveries end, also when the process does? | 1 announcing request and any others, 1 session, 1 announcement of a call, limit 2 in a window of 2, 2 attempts, drain waits 2; 557 480 states |
| `pin_race`, `call_cap`, `late_call`, `stale_route` | What a comment says and the code does not keep, section 4 | the smallest instance that shows it |

Why the bounds are enough. In `sessions`, three sessions of three parties on two
numbers give a promotion of one and of two sessions at once, an abandoned
candidate, a number shared by strangers, a sweep that leaves a session behind,
the reuse of a number after each kind of end, and creations that cross between
query and lock, of which three on a number exceed the cap of two. Three PINs make
that cap, and not the PIN space, the binding one. Nothing is old enough to be
purged before the third instant, so the purges, and with them the cooldowns, are
in `sessions_sweep`: its four instants hold a session that ends, the instants
before, at and after the end of its cooldown, its purge and another creation, and a
close between the query and the lock of a creation. Without the excuse each of them
names, `CodeCap`, `PartyCooldown` and `NumberCooldown` are violated in these
instances, so the excuses are met. The proofs (section 5) have no bound.

In `session_tx` everything that transactions do to each other happens on one
number: locks of numbers are passed over by creations and waited for by `Stamp`
only. The openings are an empty number, one or two overdue sessions without a
PIN, and a session that kept its PIN beside one without; the creations ask for a
pair that meets both open sessions or one that meets one. Three transactions
make a cycle of waits of two and of three, a commit between a snapshot and a
lock, and three ends of one session. The second disjunct of `DeadlocksKnown`, sweeps
that stamp several numbers, needs two numbers and four sweeps and is met outside
this instance only; that there is no third is proved (section 5).

Calls interact in the code only through the pump, which is busy while it handles
an event, and through the cap; the run with two calls is the one about the cap,
and the others use one call, with 0 or 1 answered calls before it so that both
sides of the cap are taken.

In `routing` a refusal is cached for 1 and a route for 2, so that one lifetime
taken for the other shows, and a session may end, be extended and be replaced
within a lifetime. Callers share nothing but the rows, so one caller's key stands
for each of them.

In `pin_entry` the digit timeout is shorter than the total one and the total one
is not a multiple of it, so either may cut a wait short; three keys per attempt
are a PIN and a key too many, a `*` and a PIN, or a key typed ahead. In
`ari_events` four troubles drive the pause from its minimum over the doublings
to its maximum and allow another consumer and a broken websocket in the same
polling period. In `control_plane` a window sees the limit and one denied request,
and two windows meet within `recent`; two attempts make a pause between them, and
`drain` is shorter than a delivery with its posts may take.

Deadlock is checked in the runs of `Sessions`, `Routing` and `ControlPlane`, where
something can always happen (there, a process that is over stutters). It is not
in the others: calls and transactions come to an end, a caller is answered, and
`AriEvents` bounds the troubles there may be.

Fairness. `expiry_loop` catches every exception and goes on for ever, so
`ExpireDue` is weakly fair; nothing else in `Sessions` is. In `CallFlow` the
event loop runs whatever can go on, so the pump and each call's task, `_finish`
and watchdog are weakly fair, as is the end of dialing, which Asterisk times out.
No party is obliged to dial or to hang up, and no session to end. In `PinEntry`
the task and the timers are weakly fair and no key has to be pressed; the end of
a prompt is not fair, since `_play` gives up waiting for it. In `AriEvents` both
tasks of the client and time are fair; an outage ends and another consumer
leaves, since nothing else can bring the events back. In `ControlPlane`
transactions end, requests time out (httpx has a timeout), the steps of an
orderly end follow each other and the clock runs; nobody has to start the end.
`SessionTx`, `Routing` and the violation runs need none.

After a failed transaction the code does leave a call behind (`FinishBreaks`,
`TaskBreaks`), after the loss of the events of both legs a conversation too, and
after a failed hangup a channel. The properties of `CallFlow` therefore name, with
`harm`, exactly what may keep a call from ending or leave something of it:
`TornDown` excuses a failed transaction and lost events, `NobodyStranded` also the
failed hangup of the caller, `DialEnds` and `TalkJournalled` a failed transaction
only, since the watchdog is there for lost events; `LegsReleased` excuses each
channel by its own failed hangup, and `NoTalkAfterEnd` only the failure of both
hangups and of the destruction of the bridge.

## 4. What comments say and the code does not keep

Shown by runs:

* `pin_race`, `Reachable`: `allocate_number` decides on the snapshot of its
  statement that no party has a session on a number, and locks the number after
  it. When the creation that held the lock commits in between, the number's row
  is unchanged, so PostgreSQL does not evaluate the predicate again. The second
  session is inserted without a PIN beside one of the same subscriber that has
  a PIN, which the unique index does not see; a call of that subscriber is then
  not told apart as the module says.
* `call_cap`, `CapKept`: concurrent calls pass the cap together.
* `late_call`, `NoCallAfterEnd`: a call routed before its session ended is
  connected after.
* `stale_route`, `RefusedAtOnce`: a call looked up between the invalidation and
  the commit of a close caches the route again, and later calls are connected to
  the closed session until the entry ends. Redis works in this run.

Reached by the models, noted here without a run of their own:

* `extend_session` compares a lifetime with the ceiling and an explicit
  `expires_at` with nothing (`ExtendUntil`).
* PINs handed out on a candidate that is then given up are committed and
  reported to nobody (`Abandoned`, and `GivePins` with a part of the sessions).
* Creations that share a number read its `active_count` before they lock it and
  not again: two that cross exceed `ext_code_max_per_number` (`CodeCap` names
  exactly this, `filled`; `SessionTx` reaches it between `LookForShared` and `Try`).
* They read the cooldowns there too. A close that commits between the query and the
  lock starts a cooldown nobody looks at, and a subscriber is given the number just
  left, although the README of the service says that the quarantine of a subscriber
  "применяется всегда" (applies always) (README.md:189). `PartyCooldown` and
  `NumberCooldown` name exactly this (`left`), and `SessionTx` reaches it as well. So is a
  number shared that was disabled in between.
* A hangup, or the destruction of a bridge, that fails in `_finish` is not
  repeated: the row is closed and the call forgotten while a leg is up, and when
  all three requests fail the parties talk on (`LegsReleased`, `NoTalkAfterEnd`).
* With the answer of `originate` lost, the callee may join a caller who is being
  rejected; both are released in the end.
* A hangup cause that arrives while `_finish` runs outside the pump is dropped; no
  property says that every cause is recorded.
* `session.updated` is announced before its transaction commits and may be of a
  transaction that rolls back.
* A sweep or close that read a session before another transaction extended or
  ended it overwrites what that one wrote; two that end the last sessions of a
  number together leave `released_at` unstamped (`crossed`), so that the number
  may be given away within its cooldown.
* A bridge that exists before `state.bridge_id` is set is left behind by a
  teardown in between.
* `pool_stats` counts a number free in the instant its cooldown ends, while
  allocation refuses it.
* `mask_e164` keeps five characters in front and four behind, which is all there
  is of a number of 7 or 8 digits with its `+` (outside the models).

## 5. The proofs

tlapm checks every theorem for every value of the constants that satisfies the
named assumptions of the module; the assumptions say that settings are numbers of the
right sign and that markers such as `NoCode` are not data.

`SessionsProofs` proves, for every value of the constants that satisfies
`ConstantsAssumption` (any pool, any finite number of sessions, any PINs, either
cooldown scope, any policy):

| Theorem | Statement |
|---|---|
| `TypeCorrect` | `Spec => []TypeOK` |
| `AlwaysReachable` | `Spec => []Reachable` |
| `AlwaysDistinct` | `Spec => []CodesDistinct` |
| `IdleClockCorrect` | `Spec => []IdleClock` |
| `NumberQuarantined` | `Spec => NumberCooldown` |
| `PartyQuarantined` | `Spec => PartyCooldown` |
| `CapRespected` | `Spec => CodeCap` |
| `PinsAreKept` | `Spec => CodeKept` |
| `SessionsImplementLedger` | `Spec => Book!Spec`, with `Book` the `Ledger` of the rows |

The argument. Both kinds of creation are first brought to one shape (lemmas
`ExclusiveHandout`, `SharedHandout`, `CreateHandout`): a new session on a
candidate number, PINs for some PIN-less sessions of the parties, all of them
distinct and unused on their number, and either no conflict at all or a PIN for
every conflicting session and the new one. Everything else about creation uses
only that shape, so the loop over candidates and its abandoned promotions are
dealt with once.

`Reachable` and `CodesDistinct` are inductive together with `TypeOK`. An
insertion keeps them by the shape above (`InsertPins`); an end or a purge only
takes sessions out of the active state (`ShrinkPins`).

The cooldowns need more than their statement: that a session starts late enough
follows from what the database still knows. The invariant of `ClocksInvariant`
relates the history `ended` to the rows. An ended session that is not purged has
its closing time in the history; an end in the history is either still in a row
with that closing time or longer ago than the retention; an idle number was
released no earlier than the last end on it; no recorded time is in the future.
`KeepClocks`, `EndClocks` and `PurgeClocks` show that steps keep it.

A creation that shares a number acts on what it queried, so the invariant `Seen` says
what that is still worth when it locks. For each number the query offered, unless
somebody left it since: the last end on it of each of the pair was then, and so is
now, as long ago as the cooldown demands, and so is the release of the number with
the number scope; and, unless another session came to it since, it carries at most
as many active sessions as were counted. `Seen` is kept because
whatever could falsify it is recorded in `left` or `filled` by the same step
(`InsertSeen`, `EndSeen`). `CreatedOnCandidate` brings both kinds of creation
together, and `NumberCooldown` and `PartyCooldown` follow, the latter given that
retention is at least the cooldown; without that condition the property is false,
since the purge deletes the evidence.

For `CapRespected` it matters where PINs are handed out: only on numbers that were
counted below `MaxPerNumber`, the one that serves the pair and those given up
alike (`CreateRoom`), so that, by `Seen`, even all active sessions of such a number
are within the cap afterwards, unless it got another one since the query
(`InsertCapped`); every other step leaves the sessions with a PIN as they are or
takes some away (`ShrinkCoded`). `Ids` is finite so that counting means something.

`SessionsImplementLedger` maps an insertion to `Create` by the shape above
(`CreateBooked`), a close or a sweep to `End`, a purge to `Purge`; what only
touches the pool, the clock or an expiry stutters, since the mapping leaves out
`life`, which in `Sessions` is a time.

`RoutingProofs` proves everything the run `routing`
checks, for every value of the constants that satisfies `RoutingAssumption` and
`NoAnswerAssumption` (any finite set of sessions with two parties each, any
callers, lifetimes, latency and clock, with or without failures of Redis):

| Theorem | Statement |
|---|---|
| `TypeCorrect` | `Spec => []TypeOK` |
| `NeverPastExpiry` | `Spec => []ExpiryHolds` |
| `CapAlwaysCarried` | `Spec => []CapCarried` |
| `RoutingImplementsRouter` | `Spec => BoundedStaleness` |

The argument. `ExpiryHolds` speaks of an answer, which may come from an entry
written long after its session ended. `ExpiryKnown` follows the expiry on its way
there: every expiry in a committed row, in a lookup or in the cache is one the
session was really given, and so no later than the latest; the two comparisons
of the code, in the query and on the cached route, do the rest. `CacheUncapped`
is what `CapCarried` rests on: no entry routes to a capped session.

The refinement needs two facts more. `Ages`: an entry ends no later than a lookup
and its lifetime after the database was read for it, although the lifetime counts
from the arrival of the command; for a route this needs that the lifetime computed
in the lookup is at most `LookupTtl`. `Pinned`: active sessions that share a
party have PINs, in the committed rows and in those of the transaction in flight,
so that a prompt which drops the sessions without a PIN drops none
(`EveryPinOffered`). Control steps, the clock and failures map to `Change` of
`Router`, a read that notes its result to `Read`, and every answer to `Answer`,
from the database or from a note of the lookup or the cache.

`LedgerProofs` shows what the contract of `SessionTx` is worth, assuming
`NoCode \notin Codes`: `CodesStayDistinct` (`Spec => []CodesDistinctIn(row)`) and
`OneStaysDirect` (`Spec => []OneDirectIn(row)`). Both are inductive with the types
of the rows; the case that matters is a creation with several promotions, where
the new PINs must be unused and distinct from each other on their number. `PinsStay`
(`Spec => PinsKept`) and `EndsStayFinal` (`Spec => EndsFinal`) say that no transaction
replaces a PIN that was told or revives a session that ended.

`SessionTxProofs` proves everything the run `session_tx` checks, for any
transactions, jobs, sessions, numbers, PINs and openings that satisfy
`SessionTxAssumption` and `OpeningsAssumption` (the openings are what the tables'
constraints allow):

| Theorem | Statement |
|---|---|
| `TypeCorrect` | `Spec => []TypeOK` |
| `ImplementsLedger` | `Spec => KeepsLedger` |
| `PinsStayDistinct`, `OneStaysDirect` | `Spec => []Promise!CodesDistinctIn(row)`, `Spec => []Promise!OneDirectIn(row)`, if `NoCode \notin Codes` |
| `PinsStay`, `EndsStayFinal` | `Spec => Promise!PinsKept`, `Spec => Promise!EndsFinal`, under the same condition |
| `StampedCorrectly` | `Spec => []StampedUnlessCrossed` |
| `DeadlocksStayKnown` | `Spec => []DeadlocksKnown` |

The argument. The invariant `IInv` says of each transaction `t` what it holds and
knows (`Inv(t)`), by what it is doing. `Creator`: a creation holds the row of every
number it works on, and of sessions only active ones without a PIN, besides its
own; `Promoter`: the PINs it noted as used are all there are on its number;
`Fresh`: a PIN it has written is unique on its number as far as it sees. `Writer`:
a close, an extension or a sweep has written to a row only what it was to change,
so that an end stays an end whatever it overwrites; `Ordered`: it has written the
earlier ids, and holds no number while it still writes. `Covered`: once an end is
counted, its number is to be stamped, or has a session left that somebody else
must end, or the end crossed another.

A step is taken by one transaction, and every other one stands beside it. `Beside`
names what the step leaves those: what they have locked and written, no new session
and no new PIN on a number they hold, a session left to end. Each action is shown to
keep the invariant of its own transaction (`OwnInv`) and to be beside the others
(`OthersBeside`); `BesideKeeps` does the rest. That numbers are locked by whoever
changes their PINs is what makes a commit harmless to a creation; that is why
`Reachable` fails (section 4), since the choice of a number is made before its lock.
Two open ends on one number have crossed (`Crossing`), because the second to count
sees the first one's row locked.

`IInv` then implies the rest. For the refinement, a commit of a creation is
`Create` of `Ledger`, of a close or a sweep `End`, of an extension `Live` or, when
it wrote nothing, a stutter (`CommitCreates`, `CommitEnds`, `CommitExtends`); every
other step but the passing of an expiry is a stutter. For the deadlocks, those a
transaction waits for are the least set that holds the direct ones and is closed, so
a property that passes from who waits to who is waited for holds of all of them:
each writes sessions, none still waits for a session (along such waits the first id
left to write grows), each holds a number and waits for another, and only a sweep
can do both.

Proving changed the model twice. `crossed` was recorded only where the other
transaction ended a session that was still active when counted; a third one that
ends a session again, overwriting, loses the stamp as well, which the run did not
contain and does now. And closes and sweeps were said never to deadlock among
themselves, which is true with one number only.

`ControlPlaneProofs`: `TypeCorrect`, `NeverDeniedUnfairly` (`DeniedFairly`),
`NoDeliveryForgotten` (`CutOnlyAfterDrain`), `QuotaAlwaysKept` (`QuotaKept`). The
invariant has a part for the window (`WindowInv`: while the key exists its age and its remaining lifetime add
up to the window, and what was let through is the counter or has reached the limit),
one for the types of deliveries and process (`HooksOK`, `ProcessOK`), one for who announces what
(`NewsOK`: an expiry is announced after it is committed), and one for the end
(`ClosingOK`: once the loops are being cancelled no request runs, and once drain
waits nobody is left to emit, the calls included, so what is in flight is in the
set it waits for).
That every window of ticks sees less than twice the limit needs a part about the
edge (`EdgeInv`): this key let through the limit at most, what came before it in the
window of ticks was let through under one key too, less the request that opened
that key, which is out of the window before a request of the next key is in it; and
without a key there is room left for the next. For this `recent` counts up: its entry `i` holds what was let
through in this tick and the `i` before.

`CallFlowProofs` proves every safety property of the run `callflow`, the contract
included, for any number of calls and attempts, any cap and any set of faults:

| Theorem | Statement |
|---|---|
| `TypeCorrect` | `Spec => []TypeOK` |
| `LegsAlwaysReleased` | `Spec => []LegsReleased` |
| `SilentAfterEnd` | `Spec => []NoTalkAfterEnd` |
| `DialsOnlyForWaiting` | `Spec => DialsForWaitingCaller` |
| `CallsKeepContract` | `Spec => KeepsContract` |
| `CausesKept` | `Spec => CauseKept` |
| `JournalTruthful` | `Spec => [](\A c \in Calls : Contract(c)!Truthful)` |

The argument. That when a call is forgotten each leg is gone, or its hangup failed,
is not inductive: `_finish` may hang up a callee that is not dialed yet, and
`originate` follow. The
invariant of a call, `Good`, has four parts. `Course`: the task begins once, after
the caller's channel is there, and up to `originate` no callee exists; from
`originate` on the application knows the callee's id. `Teardown`: a run of
`_finish` beside a task that can still dial means that the caller has gone, and
then Asterisk refuses the dialing; what a run has released stays released, and
what it has not is a channel whose hangup failed.
`Bridged`: whoever is in the bridge is there, and the caller is in it while the
callee is being dialed. `Journalled`: a row is closed when its call is forgotten and
has no cause before. The fifth part, `Told`, is about the queue: an event of a
channel that ended tells the truth, and a call has at most one start to be told,
none once its task has begun. Without it a late `StasisEnd` might end a call whose
caller is still waiting for `originate`. Each action touches one call (`Frame`) and
only takes channels further (`Onward`) and adds to `harm`; the lemmas `QuietStep`, `TakingStep` and
`ReleasingStep` turn that into the whole invariant for the three ways the queue
changes.

The refinement needs two facts more of a call (`Kept`). `Honest`: nobody is about
to say `answered`, the run of `_finish` or the pump on its way to the journal, of a
call whose callee was not put through. `Opened`: the row is there from the first
task on, open as long as the callee is not dialed, and has a session once a task
goes on to `_connect`. Each action is then a step of the contract or a stutter for
its own call (`StepHeld`, `ContractStep`; a hangup that fails is `Refuse`) and leaves every other call alone
(`StepsApart`); most are silent (`SilentCall`). The case that matters is
`originate`: that the caller is still there and the row still open when Asterisk
dials is what `Teardown`, `Bridged` and `Told` say of a teardown that crosses it.
`CausesKept` and `JournalTruthful` are then proved of the contract alone: a
cause a row has is never replaced and a closed row never opens; `answered` is said
only of a call that was put through, nobody is rung for a call without a session,
and a closed row is of a call with no channel left but one whose hangup failed.

`SilentAfterEnd` says when the parties can still be bridged after the end, and needs
`Parted`: a call with anybody in its bridge, or about to have, knows the bridge, so
that its teardown asks for the destruction; once that was not refused the bridge is
empty for good, since no join finds it. With it, and `Teardown` for the two
hangups, three failures are what it takes.

`PinEntryProofs`: `TypeCorrect`, `HeldAlwaysBounded` (`HeldBounded`),
`AlwaysUnderstood` (`Understood`), `TypedCodesAccepted` (`CodeAccepted`: no PIN that
was typed is refused), for PINs of any length and any keys. The bound is not inductive; `InTime` says for each place
of `_ask_for_code` what the attempts before and this one may have taken (`Spent`)
and what the timer in progress still may. `Dialog` is what the other two rest on:
during a prompt nothing was read, and while digits are collected the queue is the
unread end of what was pressed in this attempt (`Heard`) and the buffer what the
read part means. Reading one key more then changes the meaning as `TakeKey`
changes the buffer: `*` empties it, a digit is appended, anything else is
dropped.

`AriEventsProofs`: `TypeCorrect`, `SilenceAlwaysBounded` (`SilenceBounded`),
`AlwaysBacksOff` (`BackedOff`). `SilenceEnds` says who will end a silence: the pause in
progress, or the check to come and the shortest pause after it; the invariant ties
`connected`, `socket` and the delay to where the client is, so that the watchdog
does ask and its answer does close a websocket. `Patient` is the argument for the
pauses: after `k` failures in a row the delay of the code, which it doubles step by
step, is at least the `k`-th power of two of the shortest one, capped
(`WantedDoubles`), and the pause in progress has waited or will wait that long.

Every invariant and every action property of the passing runs and the three
refinements they check are proved, and that `Sessions` keeps `Ledger`, which no
run checks. Only model-checked is liveness under fairness (`DueEnds`, the four of
`CallFlow`, `Answered`, `Restored`, `NewsEnds`), which is out of the prover's
reach.

Functions defined by recursion over the natural numbers (`Pow2`, the digits of a
sequence of keys) need induction, and the library's induction theorems
take an operator as a parameter, which the provers cannot instantiate. The proofs
write it out instead: if a claim about numbers fails somewhere it fails at a least
number, and the step below that one contradicts it. That such a function exists
at all is shown the same way (`PowersExist`), from one on `0..n` for every
`n`. The digits are collected by a function of `PinEntry` and not by `SelectSeq`,
whose definition tlapm does not expand.

The leaves are small enough that tlapm also proves every module from nothing
with a tenth of its time limits (`tlapm --stretch 0.1`), so that a slow machine
does not decide whether a proof holds.

## 6. Not modelled

* A killed process and a second signal: nothing is persisted between
  transactions, and what a restart finds in Asterisk and in the journal the code
  does not look at.
* Health and metrics, the read-only queries (`list_*`, `pool_stats`,
  `find_by_channel`), serialisation and validation: they change no state the
  properties are about.
* Phone numbers: parsing is a library, masking a pure function of a string; a
  number is a model value everywhere.
* Cryptography: hashing, encryption and signatures are libraries; a party is its
  hash, a PIN any member of the PIN space.
* Configuration, logging, deployment, scripts: settings are the constants of the
  modules.

## 7. Plan

1. `CallFlow` composed with `Routing`: its decisions are those `Routing` gives,
   stale ones included.
2. `PhoneNumbers`: normalisation (idempotent, result valid) and masking over
   bounded inputs.

Runs are few on purpose: each new module brings one passing run for its question
and one for what it finds, if anything.
