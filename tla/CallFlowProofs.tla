--------------------------- MODULE CallFlowProofs ---------------------------
(***************************************************************************)
(* Theorems about CallFlow for any number of calls and attempts and any    *)
(* faults, with their proofs.                                              *)
(***************************************************************************)
EXTENDS CallFlow, SequenceTheorems, TLAPS

-----------------------------------------------------------------------------
(* Types, a variable at a time                                             *)

LegStates == {"none", "dialing", "up", "gone"}

Events == [type : {"StasisStart", "StasisEnd", "ChannelDestroyed"},
           call : Calls, leg : Legs, cause : Causes]

PumpSteps == {"resolve", "orphan", "answer_caller", "join", "mark", "finish"}

TaskStates == [at : TaskSteps, status : Statuses, attempt : 0..Attempts]

CallStates == [known : BOOLEAN, mapped : BOOLEAN, bridge_id : BOOLEAN,
               outbound_id : BOOLEAN, asked : BOOLEAN, session : BOOLEAN,
               answered : BOOLEAN, finishing : BOOLEAN]

FinStates == [at : {"none", "hang_out", "hang_in", "bridge", "journal", "done"},
              status : Statuses, cause : Causes]

RowStates == [status : Statuses \cup {"none"}, session : BOOLEAN,
              answered : BOOLEAN, ended : BOOLEAN, cause : Causes]

LegT == leg \in [Calls -> [Legs -> LegStates]]
JoinedT == joined \in [Calls -> SUBSET Legs]
QueueT == queue \in Seq(Events)
PumpT == pump \in [at : PumpSteps, call : Calls] \cup {Idle}
TaskT == task \in [Calls -> TaskStates]
WatchdogT == watchdog \in [Calls -> {"none", "armed", "finish", "done"}]
CallT == call \in [Calls -> CallStates]
FinT == fin \in [Calls -> FinStates]
RowT == row \in [Calls -> RowStates]
RestT ==
    /\ sub \in [Calls -> BOOLEAN] /\ bridge \in [Calls -> {"none", "up", "gone"}]
    /\ pending \subseteq Calls
    /\ session \in [active : BOOLEAN, answered : 0..MaxCalls]
    /\ harm \in [Calls -> SUBSET ({"db", "events", "bridge"} \cup Legs)]

Typed == LegT /\ JoinedT /\ QueueT /\ PumpT /\ TaskT /\ WatchdogT /\ CallT /\ FinT
             /\ RowT /\ RestT

LEMMA TypedIsTypeOK == Typed <=> TypeOK
  BY DEF Typed, TypeOK, LegT, LegStates, JoinedT, QueueT, Events, PumpT, PumpSteps, TaskT,
         TaskStates, WatchdogT, CallT, CallStates, FinT, FinStates, RowT, RowStates, RestT

LEMMA TypedStart == Init => Typed
<1> SUFFICES ASSUME Init PROVE Typed
  OBVIOUS
<1> USE CallFlowAssumption DEF Init
<1>1. LegT /\ JoinedT
  BY DEF LegT, JoinedT, LegStates
<1>2. QueueT /\ PumpT /\ WatchdogT
  BY DEF QueueT, PumpT, WatchdogT
<1>3. TaskT
  BY DEF TaskT, TaskStates, TaskSteps, Statuses
<1>4. CallT
  BY DEF CallT, CallStates
<1>5. FinT
  BY DEF FinT, FinStates, Statuses, Causes
<1>6. RowT
  BY DEF RowT, RowStates, Causes
<1>7. RestT
  BY DEF RestT
<1> QED
  BY <1>1, <1>2, <1>3, <1>4, <1>5, <1>6, <1>7 DEF Typed

(* A field of a record, set                                                *)
LEMMA TaskSet ==
    ASSUME TaskT, NEW c \in Calls, NEW step \in TaskSteps,
           task' = [task EXCEPT ![c].at = step]
    PROVE  TaskT'
  BY DEF TaskT, TaskStates

LEMMA RejectSet ==
    ASSUME TaskT, NEW c \in Calls, NEW status \in Statuses, RejectWith(c, status)
    PROVE  TaskT'
  BY DEF TaskT, TaskStates, RejectWith, TaskSteps

LEMMA CallSet ==
    ASSUME NEW r \in CallStates, NEW b \in BOOLEAN
    PROVE  /\ [r EXCEPT !.known = b] \in CallStates
           /\ [r EXCEPT !.mapped = b] \in CallStates
           /\ [r EXCEPT !.bridge_id = b] \in CallStates
           /\ [r EXCEPT !.session = b] \in CallStates
           /\ [r EXCEPT !.answered = b] \in CallStates
           /\ [r EXCEPT !.finishing = b] \in CallStates
           /\ [r EXCEPT !.outbound_id = b, !.mapped = b] \in CallStates
  BY DEF CallStates

LEMMA FinSet ==
    ASSUME FinT, NEW c \in Calls,
           NEW step \in {"none", "hang_out", "hang_in", "bridge", "journal", "done"},
           fin' = [fin EXCEPT ![c].at = step]
    PROVE  FinT'
  BY DEF FinT, FinStates

LEMMA EndTyped ==
    ASSUME NEW cause \in Causes, NEW default \in Statuses
    PROVE  StatusOf(cause, default) \in Statuses
  BY DEF StatusOf, Statuses

LEMMA FinishStarts ==
    ASSUME CallT, FinT, NEW calls \in [Calls -> CallStates], NEW c \in Calls,
           NEW status \in Statuses \cup {NoStatus}, NEW cause \in Causes,
           StartFinish(calls, c, status, cause)
    PROVE  CallT' /\ FinT'
<1> USE DEF CallT, FinT
<1>1. CASE call[c].finishing
  BY <1>1 DEF StartFinish
<1>2. CASE ~call[c].finishing
  <2> DEFINE outcome == IF status # NoStatus THEN status
                        ELSE IF call[c].answered THEN "answered"
                        ELSE StatusOf(cause, "failed")
  <2>1. [calls[c] EXCEPT !.finishing = TRUE] \in CallStates
    BY CallSet
  <2>2. FirstRelease(c) \in {"hang_out", "hang_in"}
    BY DEF FirstRelease
  <2>3. outcome \in Statuses
    BY EndTyped DEF Statuses, NoStatus
  <2>4. [at |-> FirstRelease(c), status |-> outcome, cause |-> cause] \in FinStates
    BY <2>2, <2>3 DEF FinStates
  <2>5. /\ call' = [calls EXCEPT ![c] = [calls[c] EXCEPT !.finishing = TRUE]]
        /\ fin' = [fin EXCEPT ![c] = [at |-> FirstRelease(c), status |-> outcome,
                                      cause |-> cause]]
    BY <1>2 DEF StartFinish
  <2> HIDE DEF outcome
  <2> QED
    BY <2>1, <2>4, <2>5
<1> QED
  BY <1>1, <1>2

(* Journal entries                                                         *)
LEMMA RowClosed ==
    ASSUME NEW r \in RowStates, NEW status \in Statuses, NEW cause \in Causes,
           NEW kept \in Causes, NEW routed \in BOOLEAN
    PROVE  [r EXCEPT !.status = status, !.ended = TRUE,
                     !.cause = IF cause = NoCause THEN kept ELSE cause,
                     !.session = r.session \/ routed] \in RowStates
<1>1. ASSUME NEW k \in Causes, NEW s \in BOOLEAN
      PROVE  [r EXCEPT !.status = status, !.ended = TRUE, !.cause = k,
                       !.session = s] \in RowStates
  BY DEF RowStates
<1>2. (r.session \/ routed) \in BOOLEAN
  OBVIOUS
<1>3. (IF cause = NoCause THEN kept ELSE cause) \in Causes
  OBVIOUS
<1> QED
  BY <1>1, <1>2, <1>3

LEMMA RowsTyped ==
    ASSUME RowT, CallT, NEW c \in Calls, NEW status \in Statuses, NEW cause \in Causes,
           NEW routed \in BOOLEAN,
           OpenRow(c, routed) \/ MarkAnswered(c) \/ RecordCause(c, cause)
               \/ CloseRow(c, status, cause)
               \/ row' = [row EXCEPT ![c] = [@ EXCEPT !.session = TRUE]]
    PROVE  RowT'
<1> USE DEF RowT
<1>1. CASE OpenRow(c, routed)
  <2>1. \A r \in RowStates :
            [r EXCEPT !.status = "in_progress", !.session = routed] \in RowStates
    BY DEF Statuses, RowStates
  <2> QED
    BY <1>1, <2>1 DEF OpenRow
<1>2. CASE MarkAnswered(c)
  <2>1. \A r \in RowStates :
            [r EXCEPT !.status = "answered", !.answered = TRUE] \in RowStates
    BY DEF Statuses, RowStates
  <2> QED
    BY <1>2, <2>1 DEF MarkAnswered
<1>3. CASE RecordCause(c, cause)
  <2>1. \A r \in RowStates : [r EXCEPT !.cause = cause] \in RowStates
    BY DEF RowStates
  <2> QED
    BY <1>3, <2>1 DEF RecordCause
<1>4. CASE CloseRow(c, status, cause)
  <2>1. CASE row[c].ended
    BY <1>4, <2>1 DEF CloseRow
  <2>2. CASE ~row[c].ended
    <3> DEFINE closed == [row[c] EXCEPT !.status = status, !.ended = TRUE,
                              !.cause = IF cause = NoCause THEN row[c].cause ELSE cause,
                              !.session = row[c].session \/ call[c].session]
    <3>1. call[c].session \in BOOLEAN /\ row[c].cause \in Causes
      BY DEF CallT, CallStates, RowStates
    <3>2. closed \in RowStates
      BY <3>1, RowClosed
    <3>3. row' = [row EXCEPT ![c] = closed]
      BY <1>4, <2>2, Zenon DEF CloseRow
    <3> HIDE DEF closed
    <3> QED
      BY <3>2, <3>3
  <2> QED
    BY <2>1, <2>2
<1>5. CASE row' = [row EXCEPT ![c] = [@ EXCEPT !.session = TRUE]]
  BY <1>5 DEF RowStates
<1> QED
  BY <1>1, <1>2, <1>3, <1>4, <1>5

-----------------------------------------------------------------------------
(* The invariant, for one call                                             *)

(* The places of the task from which Asterisk may yet be asked to dial     *)
Undialed == {"ask", "collect", "goodbye", "attach", "limit", "ring", "create_bridge",
             "bridge_created", "add_caller", "originate"}

InPump(d, place) == pump = [at |-> place, call |-> d]

(* How far the call has come: the task starts once, when the caller is     *)
(* there, and nothing exists of the callee before it is dialed.            *)
Course(d) ==
    /\ leg[d]["in"] # "dialing"
    /\ task[d].at # "none" => leg[d]["in"] # "none"
    /\ task[d].at = "none" => leg[d]["out"] = "none" /\ ~call[d].known /\ ~call[d].finishing
    /\ InPump(d, "resolve") => task[d].at = "none" /\ leg[d]["in"] # "none"
    /\ task[d].at \in Undialed \cup {"refused"} => leg[d]["out"] = "none"
    /\ task[d].at = "originated" \/ watchdog[d] = "armed"
           \/ InPump(d, "answer_caller") \/ InPump(d, "join") => leg[d]["out"] # "none"
    /\ task[d].at \in {"originate", "originated", "refused"} \/ leg[d]["out"] # "none"
           => call[d].outbound_id

(* What a teardown may rely on: it never runs beside a task that can still *)
(* get a callee dialed, unless the caller has gone; what it released stays *)
(* released, and what it could not release is named by harm.               *)
Teardown(d) ==
    /\ fin[d].at # "none" => call[d].finishing
    /\ call[d].finishing /\ task[d].at \in Undialed => leg[d]["in"] = "gone"
    /\ fin[d].at \in {"hang_in", "bridge", "journal", "done"} =>
           leg[d]["out"] \in {"none", "gone"} \/ "out" \in harm[d]
    /\ fin[d].at \in {"bridge", "journal", "done"} => leg[d]["in"] = "gone" \/ "in" \in harm[d]
    /\ fin[d].at = "done" => task[d].at = "done"

(* The bridge holds channels that are there, and the caller's while the    *)
(* callee is dialed.                                                       *)
Bridged(d) ==
    /\ \A l \in joined[d] : leg[d][l] = "up"
    /\ task[d].at = "originate" /\ leg[d]["in"] = "up" => "in" \in joined[d]

(* The journal closes a row when the call is forgotten, and looks for a    *)
(* cause only then.                                                        *)
Journalled(d) ==
    /\ row[d].ended => fin[d].at = "done"
    /\ d \in pending => row[d].ended
    /\ ~row[d].ended => row[d].cause = NoCause

Good(d) == Course(d) /\ Teardown(d) /\ Bridged(d) /\ Journalled(d)

(* Events tell of what happened, and a call starts once.                   *)
IsStart(e, d) == e.type = "StasisStart" /\ e.leg = "in" /\ e.call = d

Holds(e, legs, tasks, pumped) ==
    /\ legs[e.call][e.leg] # "none"
    /\ e.type # "StasisStart" => legs[e.call][e.leg] = "gone"
    /\ e.type = "StasisStart" /\ e.leg = "in" =>
           tasks[e.call].at = "none" /\ pumped # [at |-> "resolve", call |-> e.call]

True(e) == Holds(e, leg, task, pump)

Told ==
    /\ \A i \in 1..Len(queue) : True(queue[i])
    /\ \A d \in Calls : \A i, j \in 1..Len(queue) :
           IsStart(queue[i], d) /\ IsStart(queue[j], d) => i = j

IInv == Typed /\ (\A d \in Calls : Good(d)) /\ Told

LEMMA Start == Init => IInv
<1> SUFFICES ASSUME Init PROVE IInv
  OBVIOUS
<1>1. ASSUME NEW d \in Calls PROVE Good(d)
  <2>1. Course(d)
    BY DEF Init, Course, InPump, Undialed, Idle, Legs
  <2>2. Teardown(d)
    BY DEF Init, Teardown, Undialed
  <2>3. Bridged(d) /\ Journalled(d)
    BY DEF Init, Bridged, Journalled
  <2> QED
    BY <2>1, <2>2, <2>3 DEF Good
<1>2. Told
  BY DEF Init, Told
<1> QED
  BY <1>1, <1>2, TypedStart DEF IInv

-----------------------------------------------------------------------------
(* What has failed under a call is not forgotten.                          *)
HarmStays == \A d \in Calls : harm[d] \subseteq harm'[d]

(* What a step leaves of a call it is not about                            *)
LEMMA OtherCalls ==
    ASSUME NEW d \in Calls, Good(d), HarmStays,
           leg'[d] = leg[d], joined'[d] = joined[d], task'[d] = task[d],
           watchdog'[d] = watchdog[d], call'[d] = call[d], fin'[d] = fin[d],
           row'[d] = row[d], d \in pending' => d \in pending,
           \A place \in {"resolve", "answer_caller", "join"} :
               InPump(d, place)' => InPump(d, place)
    PROVE  Good(d)'
  BY DEF Good, Course, Teardown, Bridged, Journalled, HarmStays

(* Channels only go on, and a call whose start is still to be told has not *)
(* started.                                                                *)
LegsGo ==
    \A d \in Calls : \A l \in Legs :
        /\ leg[d][l] # "none" => leg'[d][l] # "none"
        /\ leg[d][l] = "gone" => leg'[d][l] = "gone"

Untouched(d) == task[d].at = "none" /\ ~InPump(d, "resolve")

StartsStay == \A d \in Calls : Untouched(d) => Untouched(d)'

LEMMA StaysTrue ==
    ASSUME LegsGo, StartsStay, NEW e \in Events, Holds(e, leg, task, pump)
    PROVE  Holds(e, leg', task', pump')
  BY DEF LegsGo, StartsStay, Untouched, InPump, Holds, Events

(* Events are taken or lost: what remains is true.                         *)
LEMMA ToldKept ==
    ASSUME QueueT, QueueT', Told, LegsGo, StartsStay, NEW k \in Nat,
           \A i \in 1..Len(queue') : i + k \in 1..Len(queue) /\ queue'[i] = queue[i + k]
    PROVE  Told'
<1>1. ASSUME NEW i \in 1..Len(queue')
      PROVE  Holds(queue'[i], leg', task', pump')
  <2>1. i + k \in 1..Len(queue) /\ queue'[i] = queue[i + k]
    OBVIOUS
  <2>2. queue[i + k] \in Events
    BY <2>1 DEF QueueT
  <2>3. Holds(queue[i + k], leg, task, pump)
    BY <2>1 DEF Told, True
  <2> QED
    BY <2>1, <2>2, <2>3, StaysTrue
<1>2. ASSUME NEW d \in Calls, NEW i \in 1..Len(queue'), NEW j \in 1..Len(queue'),
             IsStart(queue'[i], d), IsStart(queue'[j], d)
      PROVE  i = j
  <2>1. /\ i + k \in 1..Len(queue) /\ queue'[i] = queue[i + k]
        /\ j + k \in 1..Len(queue) /\ queue'[j] = queue[j + k]
    OBVIOUS
  <2>2. i + k = j + k
    BY <1>2, <2>1 DEF Told
  <2>3. i \in Nat /\ j \in Nat
    BY DEF QueueT
  <2> QED
    BY <2>2, <2>3
<1> QED
  BY <1>1, <1>2 DEF Told, True, IsStart

(* Asterisk tells what has become true, and of no start.                   *)
LEMMA ToldGrown ==
    ASSUME QueueT, QueueT', Told, LegsGo, StartsStay, NEW news \in Seq(Events),
           queue' = queue \o news,
           \A i \in 1..Len(news) :
               /\ Holds(news[i], leg', task', pump')
               /\ ~(news[i].type = "StasisStart" /\ news[i].leg = "in")
    PROVE  Told'
<1>1. /\ Len(queue) \in Nat /\ Len(news) \in Nat
      /\ Len(queue') = Len(queue) + Len(news)
      /\ \A i \in 1..Len(queue) : queue'[i] = queue[i] /\ queue[i] \in Events
      /\ \A i \in 1..Len(queue') : i > Len(queue) =>
             i - Len(queue) \in 1..Len(news) /\ queue'[i] = news[i - Len(queue)]
  BY DEF QueueT
<1>2. ASSUME NEW i \in 1..Len(queue')
      PROVE  Holds(queue'[i], leg', task', pump')
  <2>1. CASE i <= Len(queue)
    <3>1. i \in 1..Len(queue) /\ Holds(queue[i], leg, task, pump)
      BY <1>1, <2>1 DEF Told, True
    <3> QED
      BY <1>1, <3>1, StaysTrue
  <2>2. CASE i > Len(queue)
    BY <1>1, <2>2
  <2> QED
    BY <1>1, <2>1, <2>2
<1>3. ASSUME NEW d \in Calls, NEW i \in 1..Len(queue'), IsStart(queue'[i], d)
      PROVE  i \in 1..Len(queue) /\ IsStart(queue[i], d)
  BY <1>1, <1>3 DEF IsStart
<1>4. ASSUME NEW d \in Calls, NEW i \in 1..Len(queue'), NEW j \in 1..Len(queue'),
             IsStart(queue'[i], d), IsStart(queue'[j], d)
      PROVE  i = j
  BY <1>3, <1>4 DEF Told
<1> QED
  BY <1>2, <1>4 DEF Told, True, IsStart

-----------------------------------------------------------------------------
(* What becomes of a channel that is released                              *)
LEMMA FarewellTrue ==
    ASSUME NEW c \in Calls, NEW l \in Legs, NEW cause \in Causes
    PROVE  /\ Farewell(c, l, cause) \in Seq(Events)
           /\ \A i \in 1..Len(Farewell(c, l, cause)) :
                 LET e == Farewell(c, l, cause)[i]
                 IN  e.type # "StasisStart" /\ e.call = c /\ e.leg = l
<1> DEFINE ended == Event("StasisEnd", c, l, NoCause)
           destroyed == Event("ChannelDestroyed", c, l, cause)
<1>1. /\ ended \in Events /\ destroyed \in Events
      /\ ended.type # "StasisStart" /\ ended.call = c /\ ended.leg = l
      /\ destroyed.type # "StasisStart" /\ destroyed.call = c /\ destroyed.leg = l
  BY DEF Event, Events, Causes
<1>2. PICK head \in {<<>>, <<ended>>}, tail \in {<<>>, <<destroyed>>} :
          Farewell(c, l, cause) = head \o tail
  BY DEF Farewell
<1> HIDE DEF ended, destroyed
<1>3. ASSUME NEW e \in Events, NEW s \in {<<>>, <<e>>}
      PROVE  s \in Seq(Events) /\ \A i \in 1..Len(s) : s[i] = e
  <2>1. CASE s = <<>>
    BY <2>1
  <2>2. CASE s = <<e>>
    BY <2>2
  <2> QED
    BY <2>1, <2>2
<1>4. /\ head \in Seq(Events) /\ \A i \in 1..Len(head) : head[i] = ended
      /\ tail \in Seq(Events) /\ \A i \in 1..Len(tail) : tail[i] = destroyed
  BY <1>1, <1>3
<1>5. /\ head \o tail \in Seq(Events)
      /\ \A i \in 1..Len(head \o tail) : (head \o tail)[i] \in {ended, destroyed}
  BY <1>4
<1> QED
  BY <1>1, <1>2, <1>5

LEMMA ReleaseEffect ==
    ASSUME LegT, JoinedT, QueueT, NEW c \in Calls, NEW l \in Legs, NEW cause \in Causes,
           Release(c, l, cause)
    PROVE  /\ LegT' /\ JoinedT' /\ QueueT'
           /\ leg'[c][l] = IF leg[c][l] \in {"dialing", "up"} THEN "gone" ELSE leg[c][l]
           /\ joined'[c] = IF leg[c][l] \in {"dialing", "up"} THEN joined[c] \ {l}
                           ELSE joined[c]
           /\ \A k \in Legs : k # l => leg'[c][k] = leg[c][k]
           /\ \A d \in Calls : d # c => leg'[d] = leg[d] /\ joined'[d] = joined[d]
<1>1. CASE leg[c][l] \in {"dialing", "up"}
  <2>1. /\ leg' = [leg EXCEPT ![c] = [leg[c] EXCEPT ![l] = "gone"]]
        /\ joined' = [joined EXCEPT ![c] = joined[c] \ {l}]
        /\ queue' = queue \o Farewell(c, l, cause)
    BY <1>1 DEF Release
  <2>2. LegT' /\ JoinedT'
    BY <2>1 DEF LegT, JoinedT, LegStates
  <2>3. QueueT'
    BY <2>1, FarewellTrue DEF QueueT
  <2> QED
    BY <1>1, <2>1, <2>2, <2>3 DEF LegT, JoinedT
<1>2. CASE leg[c][l] \notin {"dialing", "up"}
  BY <1>2 DEF Release, LegT, JoinedT, QueueT
<1> QED
  BY <1>1, <1>2

(* ... or asked to be                                                      *)
LEMMA HangUpHarm ==
    ASSUME RestT, NEW c \in Calls, NEW l \in Legs, NEW cause, HangUp(c, l, cause)
    PROVE  /\ harm' \in [Calls -> SUBSET ({"db", "events", "bridge"} \cup Legs)]
           /\ HarmStays
<1>1. CASE UNCHANGED harm
  BY <1>1 DEF RestT, HarmStays
<1>2. CASE harm' = [harm EXCEPT ![c] = harm[c] \cup {l}]
  BY <1>2 DEF RestT, HarmStays
<1> QED
  BY <1>1, <1>2 DEF HangUp

LEMMA HangUpEffect ==
    ASSUME LegT, JoinedT, QueueT, RestT, NEW c \in Calls, NEW l \in Legs,
           NEW cause \in Causes, HangUp(c, l, cause)
    PROVE  /\ LegT' /\ JoinedT' /\ QueueT'
           /\ \/ leg'[c][l] = leg[c][l] /\ joined'[c] = joined[c]
              \/ /\ leg[c][l] \in {"dialing", "up"} /\ leg'[c][l] = "gone"
                 /\ joined'[c] = joined[c] \ {l}
           /\ leg'[c][l] \in {"none", "gone"} \/ l \in harm'[c]
           /\ \A k \in Legs : k # l => leg'[c][k] = leg[c][k]
           /\ \A d \in Calls : d # c => leg'[d] = leg[d] /\ joined'[d] = joined[d]
<1>1. leg[c][l] \in LegStates
  BY DEF LegT
<1>2. CASE Release(c, l, cause)
  BY <1>1, <1>2, ReleaseEffect DEF LegStates
<1>3. CASE UNCHANGED <<leg, joined, queue>> /\ harm' = [harm EXCEPT ![c] = @ \cup {l}]
  BY <1>3 DEF LegT, JoinedT, QueueT, RestT
<1> QED
  BY <1>2, <1>3 DEF HangUp

-----------------------------------------------------------------------------
(* What a step about the call c leaves alone                               *)
Frame(c) ==
    \A d \in Calls : d # c =>
        /\ leg'[d] = leg[d] /\ joined'[d] = joined[d] /\ task'[d] = task[d]
        /\ watchdog'[d] = watchdog[d] /\ call'[d] = call[d] /\ fin'[d] = fin[d]
        /\ row'[d] = row[d] /\ (d \in pending' => d \in pending)
        /\ \A place \in PumpSteps : InPump(d, place)' => InPump(d, place)

Onward(c) ==
    /\ \A l \in Legs : /\ leg[c][l] # "none" => leg'[c][l] # "none"
                       /\ leg[c][l] = "gone" => leg'[c][l] = "gone"
    /\ Untouched(c) => Untouched(c)'

LEMMA OnwardAll ==
    ASSUME NEW c \in Calls, Frame(c), Onward(c)
    PROVE  LegsGo /\ StartsStay
<1>1. LegsGo
  BY DEF Frame, Onward, LegsGo
<1>2. StartsStay
  BY DEF Frame, Onward, StartsStay, Untouched, PumpSteps
<1> QED
  BY <1>1, <1>2

LEMMA OthersGood ==
    ASSUME \A d \in Calls : Good(d), HarmStays, NEW c \in Calls, Frame(c), Good(c)'
    PROVE  (\A d \in Calls : Good(d))'
<1> SUFFICES ASSUME NEW d \in Calls, d # c
             PROVE  Good(d)'
  OBVIOUS
<1> QED
  BY OtherCalls DEF Frame, PumpSteps

(* A step that takes no event and causes none, one that takes the next,    *)
(* and one that releases a channel                                         *)
LEMMA QuietStep ==
    ASSUME IInv, HarmStays, NEW c \in Calls, Typed', Good(c)', Frame(c), Onward(c), queue' = queue
    PROVE  IInv'
<1>1. QueueT /\ QueueT'
  BY DEF IInv, Typed
<1>2. \A i \in 1..Len(queue') : i + 0 \in 1..Len(queue) /\ queue'[i] = queue[i + 0]
  BY <1>1 DEF QueueT
<1>3. Told'
  BY <1>1, <1>2, ToldKept, OnwardAll DEF IInv
<1> QED
  BY <1>3, OthersGood DEF IInv

LEMMA TailSeq ==
    ASSUME QueueT, queue # <<>>, queue' = Tail(queue)
    PROVE  /\ QueueT' /\ Head(queue) = queue[1] /\ Head(queue) \in Events
           /\ 1 \in 1..Len(queue)
           /\ \A i \in 1..Len(queue') : i + 1 \in 1..Len(queue) /\ queue'[i] = queue[i + 1]
  BY DEF QueueT

LEMMA TakingStep ==
    ASSUME IInv, HarmStays, NEW c \in Calls, Typed', Good(c)', Frame(c), Onward(c),
           queue # <<>>, queue' = Tail(queue)
    PROVE  IInv'
<1>1. Told'
  BY TailSeq, ToldKept, OnwardAll DEF IInv, Typed
<1> QED
  BY <1>1, OthersGood DEF IInv

LEMMA ReleasingStep ==
    ASSUME IInv, HarmStays, NEW c \in Calls, Typed', Good(c)', Frame(c), Onward(c),
           NEW l \in Legs, NEW cause \in Causes, Release(c, l, cause)
    PROVE  IInv'
<1>1. CASE leg[c][l] \notin {"dialing", "up"}
  BY <1>1, QuietStep DEF Release
<1>2. CASE leg[c][l] \in {"dialing", "up"}
  <2> DEFINE news == Farewell(c, l, cause)
  <2>1. /\ leg'[c][l] = "gone" /\ queue' = queue \o news /\ QueueT'
    BY <1>2, ReleaseEffect DEF IInv, Typed, Release
  <2>2. news \in Seq(Events)
    BY FarewellTrue
  <2>3. \A i \in 1..Len(news) :
            /\ Holds(news[i], leg', task', pump')
            /\ ~(news[i].type = "StasisStart" /\ news[i].leg = "in")
    BY <2>1, FarewellTrue DEF Holds
  <2> HIDE DEF news
  <2>4. Told'
    BY <2>1, <2>2, <2>3, ToldGrown, OnwardAll DEF IInv, Typed
  <2> QED
    BY <2>4, OthersGood DEF IInv
<1> QED
  BY <1>1, <1>2

-----------------------------------------------------------------------------
(* Shapes of steps                                                         *)

(* The subscriptions, bridges, causes awaited, the session and the history *)
LEMMA RestStep ==
    ASSUME Typed, Next
    PROVE  RestT' /\ HarmStays
<1> USE DEF Typed, RestT, HarmStays
<1>1. CASE LoseEvents \/ SessionEnds
  <2>1. CASE LoseEvents
    <3>1. /\ harm' \in [Calls -> SUBSET ({"db", "events", "bridge"} \cup Legs)]
          /\ HarmStays
      <4>1. PICK kept \in 0..(Len(queue) - 1) :
                harm' = [c \in Calls |->
                    IF \E i \in (kept + 1)..Len(queue) : queue[i].call = c
                    THEN harm[c] \cup {"events"} ELSE harm[c]]
        BY <2>1 DEF LoseEvents
      <4>2. ASSUME NEW c \in Calls
            PROVE  harm'[c] \in {harm[c], harm[c] \cup {"events"}}
        BY <4>1, Zenon
      <4> QED
        BY <4>1, <4>2
    <3> QED
      BY <2>1, <3>1 DEF LoseEvents, app
  <2>2. CASE SessionEnds
    BY <2>2 DEF SessionEnds, asterisk, app
  <2> QED
    BY <1>1, <2>1, <2>2
<1>2. ASSUME NEW c \in Calls, Environment(c)
      PROVE  RestT' /\ HarmStays
  BY <1>2 DEF Environment, CallerDials, CallerHangsUp, CalleeAnswers, CalleeUnavailable,
              CalleeHangsUp, app
<1>3. ASSUME NEW c \in Calls, Task(c)
      PROVE  RestT' /\ HarmStays
  <2>1. CASE CreateBridge(c) /\ UNCHANGED harm
    BY <2>1 DEF CreateBridge
  <2>2. CASE FailChannel(c)
    BY <2>2, HangUpHarm DEF FailChannel, Legs
  <2>3. CASE ~CreateBridge(c) /\ ~FailChannel(c)
    BY <1>3, <2>3 DEF Task, Reject, RejectPlayed, Ask, CodeMatches, CodeWrong, Goodbye,
              AttachSession, CheckLimit, Ring, BridgeCreated, AddCaller, Originate,
              OriginateAnswered, OriginateFailed, asterisk
  <2> QED
    BY <1>3, <2>1, <2>2, <2>3 DEF Task
<1>4. ASSUME NEW c \in Calls, Finish(c) \/ Watchdog(c)
      PROVE  RestT' /\ HarmStays
  <2>1. CASE FinishHangsOut(c) \/ FinishHangsIn(c)
    BY <2>1, HangUpHarm DEF FinishHangsOut, FinishHangsIn, Legs
  <2>2. CASE FinishDestroysBridge(c)
    BY <2>2 DEF FinishDestroysBridge
  <2>3. CASE (FinishForgets(c) /\ UNCHANGED harm) \/ Watchdog(c)
    BY <2>3 DEF Watchdog, FinishForgets, Forget, WatchdogFires, asterisk
  <2> QED
    BY <1>4, <2>1, <2>2, <2>3 DEF Finish
<1>5. ASSUME NEW c \in Calls, Pump(c)
      PROVE  RestT' /\ HarmStays
  <2>1. CASE InboundStarts(c) /\ UNCHANGED harm
    BY <2>1 DEF InboundStarts, Alive
  <2>2. CASE HangUpOrphan(c)
    BY <2>2, HangUpHarm DEF HangUpOrphan, Legs
  <2>3. CASE ~InboundStarts(c) /\ ~HangUpOrphan(c)
    BY <1>5, <2>3 DEF Pump, OutboundStarts, Resolve, AnswerCaller, JoinCallee,
              JournalAnswer, InboundEnds, OutboundEnds, InboundDestroyed,
              OutboundDestroyed, asterisk
  <2> QED
    BY <1>5, <2>1, <2>2, <2>3 DEF Pump
<1>6. ASSUME NEW c \in Calls, Breaks(c)
      PROVE  RestT' /\ HarmStays
  BY <1>6 DEF Breaks, TaskBreaks, FinishBreaks, ResolveBreaks, JournalBreaks, CauseBreaks,
              asterisk
<1> QED
  BY <1>1, <1>2, <1>3, <1>4, <1>5, <1>6 DEF Next

(* The task goes on, and no closer to dialing than it was.                 *)
Onwards(c, step) ==
    /\ task[c].at \notin {"none", "done"} /\ step \notin {"none", "originate", "originated", "refused"}
    /\ step \in Undialed => task[c].at \in Undialed

LEMMA MovesOn ==
    ASSUME NEW c \in Calls, Good(c), HarmStays, Onwards(c, task'[c].at),
           leg'[c] = leg[c], joined'[c] = joined[c], fin'[c] = fin[c], pending' = pending,
           pump' = pump,
           call'[c].finishing = call[c].finishing, call'[c].outbound_id = call[c].outbound_id,
           row'[c].ended = row[c].ended, row'[c].cause = row[c].cause,
           watchdog'[c] = "armed" => leg[c]["out"] # "none"
    PROVE  Good(c)'
<1> USE DEF Good, Onwards
<1>1. Course(c)'
  BY DEF Course, InPump, Undialed
<1>2. Teardown(c)'
  BY DEF Teardown, Undialed, HarmStays
<1>3. Bridged(c)' /\ Journalled(c)'
  BY DEF Bridged, Journalled
<1> QED
  BY <1>1, <1>2, <1>3

LEMMA TaskStep ==
    ASSUME IInv, RestT', HarmStays, NEW c \in Calls, NEW r \in TaskStates, Onwards(c, r.at),
           task' = [task EXCEPT ![c] = r],
           UNCHANGED <<leg, joined, queue, pump, watchdog, call, fin, pending, row>>
    PROVE  IInv'
<1>1. Typed'
  BY DEF IInv, Typed, LegT, JoinedT, QueueT, PumpT, TaskT, WatchdogT, CallT, FinT, RowT
<1>2. task'[c] = r
  BY DEF IInv, Typed, TaskT
<1>3. Good(c)'
  <2>1. watchdog'[c] = "armed" => leg[c]["out"] # "none"
    BY DEF IInv, Good, Course
  <2> QED
    BY <1>2, <2>1, MovesOn DEF IInv
<1>4. Frame(c)
  BY DEF Frame, InPump, IInv, Typed, TaskT
<1>5. Onward(c)
  BY DEF Onward, Untouched, Onwards
<1> QED
  BY <1>1, <1>3, <1>4, <1>5, QuietStep

(* _finish is called where the call is over, or nobody can be dialed.      *)
LEMMA FinishingGood ==
    ASSUME CallT, NEW c \in Calls, Good(c), HarmStays, NEW calls,
           calls \in [Calls -> CallStates], calls[c].finishing = call[c].finishing,
           calls[c].outbound_id = call[c].outbound_id, calls[c].known = call[c].known,
           FinT, NEW status, NEW cause, StartFinish(calls, c, status, cause),
           leg'[c] = leg[c], joined'[c] = joined[c], row'[c] = row[c], pending' = pending,
           task[c].at # "none",
           \/ task'[c].at = task[c].at
              /\ (task[c].at \in Undialed => leg[c]["in"] = "gone")
           \/ task'[c].at \in {"done", "finish"}
              /\ (call[c].finishing => task'[c].at = "done"),
           watchdog'[c] = "armed" => watchdog[c] = "armed",
           \A place \in {"resolve", "answer_caller", "join"} :
               InPump(c, place)' => InPump(c, place)
    PROVE  Good(c)'
<1> USE DEF Good, CallT, FinT
<1>1. /\ call'[c].finishing = TRUE
      /\ call'[c].outbound_id = call[c].outbound_id
      /\ fin'[c].at = IF call[c].finishing THEN fin[c].at ELSE FirstRelease(c)
  BY DEF StartFinish, CallStates, FinStates
<1>2. Course(c)'
  BY <1>1 DEF Course, Undialed
<1>3. Teardown(c)'
  BY <1>1 DEF Teardown, Course, FirstRelease, Undialed, HarmStays
<1>4. Bridged(c)' /\ Journalled(c)'
  BY <1>1 DEF Bridged, Journalled, Teardown, FirstRelease
<1> QED
  BY <1>2, <1>3, <1>4

LEMMA FinishingFrame ==
    ASSUME CallT, FinT, NEW calls \in [Calls -> CallStates], NEW c \in Calls,
           NEW status, NEW cause, StartFinish(calls, c, status, cause)
    PROVE  \A d \in Calls : d # c => call'[d] = calls[d] /\ fin'[d] = fin[d]
  BY DEF StartFinish, CallT, FinT

LEMMA TaskFinishStep ==
    ASSUME IInv, RestT', HarmStays, NEW c \in Calls, NEW status \in Statuses \cup {NoStatus},
           NEW cause \in Causes, task[c].at \notin {"none", "done"},
           FinishInTask(c, status, cause),
           UNCHANGED <<leg, joined, queue, pump, watchdog, pending, row>>
    PROVE  IInv'
<1> DEFINE step == IF call[c].finishing THEN "done" ELSE "finish"
<1>1. /\ task' = [task EXCEPT ![c].at = step] /\ StartFinish(call, c, status, cause)
      /\ step \in TaskSteps
  BY DEF FinishInTask, TaskSteps
<1>2. task'[c].at = step /\ \A d \in Calls : d # c => task'[d] = task[d]
  BY <1>1 DEF IInv, Typed, TaskT, TaskStates
<1>3. Typed'
  <2>1. CallT' /\ FinT'
    BY <1>1, FinishStarts DEF IInv, Typed, CallT
  <2>2. TaskT'
    BY <1>1, TaskSet DEF IInv, Typed
  <2> QED
    BY <2>1, <2>2 DEF IInv, Typed, LegT, JoinedT, QueueT, PumpT, WatchdogT, RowT
<1>4. Good(c)'
  BY <1>1, <1>2, FinishingGood DEF IInv, Typed, CallT, InPump
<1>5. Frame(c)
  BY <1>1, <1>2, FinishingFrame DEF IInv, Typed, CallT, Frame, InPump
<1>6. Onward(c)
  BY <1>2 DEF Onward, Untouched
<1> QED
  BY <1>3, <1>4, <1>5, <1>6, QuietStep

-----------------------------------------------------------------------------
(* Asterisk                                                                *)

LEMMA AppendSeq ==
    ASSUME QueueT, NEW e \in Events, queue' = Append(queue, e)
    PROVE  /\ QueueT' /\ Len(queue) \in Nat
           /\ \A i \in 1..Len(queue) : queue'[i] = queue[i] /\ queue[i] \in Events
           /\ \A i \in 1..Len(queue') : i \in 1..Len(queue) \/ (i = Len(queue) + 1 /\ queue'[i] = e)
  BY DEF QueueT

LEMMA CallerDialsStep ==
    ASSUME IInv, RestT', HarmStays, NEW c \in Calls, CallerDials(c)
    PROVE  IInv'
<1> DEFINE e == Event("StasisStart", c, "in", NoCause)
<1>1. /\ leg[c]["in"] = "none"
      /\ leg' = [leg EXCEPT ![c] = [leg[c] EXCEPT !["in"] = "up"]]
      /\ queue' = Append(queue, e)
      /\ UNCHANGED <<joined, pump, task, watchdog, call, fin, pending, row>>
  BY DEF CallerDials, app
<1>2. /\ e \in Events /\ e.type = "StasisStart" /\ e.call = c /\ e.leg = "in"
  BY DEF Event, Events, Legs, Causes
<1> HIDE DEF e
<1>3. /\ leg'[c]["in"] = "up" /\ leg'[c]["out"] = leg[c]["out"]
      /\ \A d \in Calls : d # c => leg'[d] = leg[d]
  BY <1>1 DEF IInv, Typed, LegT, Legs
<1>4. Typed'
  <2>1. LegT'
    BY <1>1 DEF IInv, Typed, LegT, LegStates
  <2>2. QueueT'
    BY <1>1, <1>2, AppendSeq DEF IInv, Typed
  <2> QED
    BY <1>1, <2>1, <2>2
    DEF IInv, Typed, JoinedT, PumpT, TaskT, WatchdogT, CallT, FinT, RowT
<1>5. task[c].at = "none" /\ pump # [at |-> "resolve", call |-> c]
  BY <1>1 DEF IInv, Good, Course, InPump
<1>6. Good(c)'
  <2>1. Course(c)'
    BY <1>1, <1>3 DEF IInv, Good, Course, InPump, Undialed
  <2>2. Teardown(c)' /\ Journalled(c)'
    BY <1>1, <1>3, <1>5 DEF IInv, Good, Course, Teardown, Journalled, Undialed, HarmStays
  <2>3. Bridged(c)'
    BY <1>1, <1>3, <1>5 DEF IInv, Good, Bridged, Typed, JoinedT, Legs
  <2> QED
    BY <2>1, <2>2, <2>3 DEF Good
<1>7. Frame(c)
  BY <1>1, <1>3 DEF Frame, InPump
<1>8. Onward(c)
  BY <1>1, <1>3 DEF Onward, Untouched, InPump, Legs
<1>9. Told'
  <2>1. /\ QueueT' /\ Len(queue) \in Nat
        /\ \A i \in 1..Len(queue) : queue'[i] = queue[i] /\ queue[i] \in Events
        /\ \A i \in 1..Len(queue') : i \in 1..Len(queue)
                                     \/ (i = Len(queue) + 1 /\ queue'[i] = e)
    BY <1>1, <1>2, AppendSeq DEF IInv, Typed
  <2>2. ASSUME NEW i \in 1..Len(queue')
        PROVE  Holds(queue'[i], leg', task', pump')
    <3>1. CASE i \in 1..Len(queue)
      <4>1. Holds(queue[i], leg, task, pump)
        BY <3>1 DEF IInv, Told, True
      <4> QED
        BY <2>1, <3>1, <4>1, <1>7, <1>8, OnwardAll, StaysTrue
    <3>2. CASE queue'[i] = e
      BY <1>1, <1>2, <1>3, <1>5, <3>2 DEF Holds
    <3> QED
      BY <2>1, <3>1, <3>2
  <2>3. ASSUME NEW i \in 1..Len(queue)
        PROVE  ~IsStart(queue[i], c)
    BY <1>1 DEF IInv, Told, True, Holds, IsStart
  <2>4. ASSUME NEW d \in Calls, NEW i \in 1..Len(queue'), NEW j \in 1..Len(queue'),
               IsStart(queue'[i], d), IsStart(queue'[j], d)
        PROVE  i = j
    <3>1. CASE d = c
      BY <2>1, <2>3, <2>4, <3>1
    <3>2. CASE d # c
      <4>1. i \in 1..Len(queue) /\ j \in 1..Len(queue)
        BY <1>2, <2>1, <2>4, <3>2 DEF IsStart
      <4> QED
        BY <2>1, <2>4, <4>1 DEF IInv, Told
    <3> QED
      BY <3>1, <3>2
  <2> QED
    BY <2>2, <2>4 DEF Told, True, IsStart
<1> QED
  BY <1>4, <1>6, <1>7, <1>9, OthersGood DEF IInv

LEMMA CalleeAnswersStep ==
    ASSUME IInv, RestT', HarmStays, NEW c \in Calls, CalleeAnswers(c)
    PROVE  IInv'
<1> DEFINE e == Event("StasisStart", c, "out", NoCause)
<1>1. /\ leg[c]["out"] = "dialing"
      /\ leg' = [leg EXCEPT ![c] = [leg[c] EXCEPT !["out"] = "up"]]
      /\ queue' = Append(queue, e)
      /\ UNCHANGED <<joined, pump, task, watchdog, call, fin, pending, row>>
  BY DEF CalleeAnswers, app
<1>2. /\ e \in Events /\ e.type = "StasisStart" /\ e.call = c /\ e.leg = "out"
  BY DEF Event, Events, Legs, Causes
<1> HIDE DEF e
<1>3. /\ leg'[c]["out"] = "up" /\ leg'[c]["in"] = leg[c]["in"]
      /\ \A d \in Calls : d # c => leg'[d] = leg[d]
  BY <1>1 DEF IInv, Typed, LegT, Legs
<1>4. Typed'
  <2>1. LegT'
    BY <1>1 DEF IInv, Typed, LegT, LegStates
  <2>2. QueueT'
    BY <1>1, <1>2, AppendSeq DEF IInv, Typed
  <2> QED
    BY <1>1, <2>1, <2>2
    DEF IInv, Typed, JoinedT, PumpT, TaskT, WatchdogT, CallT, FinT, RowT
<1>5. Good(c)'
  <2>1. Course(c)'
    BY <1>1, <1>3 DEF IInv, Good, Course, InPump, Undialed
  <2>2. Teardown(c)' /\ Journalled(c)'
    BY <1>1, <1>3 DEF IInv, Good, Course, Teardown, Journalled, Undialed, HarmStays
  <2>3. Bridged(c)'
    BY <1>1, <1>3 DEF IInv, Good, Bridged, Typed, JoinedT, Legs
  <2> QED
    BY <2>1, <2>2, <2>3 DEF Good
<1>6. Frame(c)
  BY <1>1, <1>3 DEF Frame, InPump
<1>7. Onward(c)
  BY <1>1, <1>3 DEF Onward, Untouched, InPump, Legs
<1>8. Told'
  <2>1. QueueT /\ QueueT' /\ <<e>> \in Seq(Events) /\ queue' = queue \o <<e>>
    BY <1>1, <1>2, <1>4 DEF IInv, Typed, QueueT
  <2>2. \A i \in 1..Len(<<e>>) :
            /\ Holds(<<e>>[i], leg', task', pump')
            /\ ~(<<e>>[i].type = "StasisStart" /\ <<e>>[i].leg = "in")
    BY <1>2, <1>3 DEF Holds
  <2> QED
    BY <2>1, <2>2, <1>6, <1>7, OnwardAll, ToldGrown DEF IInv
<1> QED
  BY <1>4, <1>5, <1>6, <1>8, OthersGood DEF IInv

(* A release and nothing else keeps the call as it was, or brings it       *)
(* further.                                                                *)
LEMMA ReleaseGood ==
    ASSUME Typed, NEW c \in Calls, NEW l \in Legs, NEW cause \in Causes, Good(c),
           HarmStays, Release(c, l, cause),
           \/ task'[c].at = task[c].at
           \/ task[c].at = "fail_channel" /\ task'[c].at = "done",
           watchdog'[c] = watchdog[c], fin'[c] = fin[c], pending' = pending,
           call'[c].known = call[c].known, call'[c].finishing = call[c].finishing,
           call'[c].outbound_id = call[c].outbound_id, row'[c] = row[c],
           \A place \in {"resolve", "answer_caller", "join"} :
               InPump(c, place)' => InPump(c, place)
    PROVE  Good(c)'
<1>1. /\ leg'[c][l] = IF leg[c][l] \in {"dialing", "up"} THEN "gone" ELSE leg[c][l]
      /\ joined'[c] = IF leg[c][l] \in {"dialing", "up"} THEN joined[c] \ {l}
                      ELSE joined[c]
      /\ \A k \in Legs : k # l => leg'[c][k] = leg[c][k]
  BY ReleaseEffect DEF Typed
<1>2. /\ \A k \in Legs : leg'[c][k] = "none" <=> leg[c][k] = "none"
      /\ \A k \in Legs : leg[c][k] = "gone" => leg'[c][k] = "gone"
      /\ \A k \in Legs : leg'[c][k] = "up" => leg[c][k] = "up"
      /\ \A k \in Legs : leg'[c][k] = "dialing" => leg[c][k] = "dialing"
      /\ "in" \in Legs /\ "out" \in Legs
  BY <1>1 DEF Legs
<1>3. Course(c)'
  BY <1>2 DEF Good, Course, Undialed
<1>4. Teardown(c)'
  BY <1>2 DEF Good, Teardown, Undialed, HarmStays
<1>5. Bridged(c)'
  BY <1>1, <1>2 DEF Good, Bridged, Typed, JoinedT
<1>6. Journalled(c)'
  BY DEF Good, Journalled
<1> QED
  BY <1>3, <1>4, <1>5, <1>6 DEF Good

LEMMA ReleaseOnward ==
    ASSUME Typed, NEW c \in Calls, NEW l \in Legs, NEW cause \in Causes,
           Release(c, l, cause), Untouched(c) => Untouched(c)'
    PROVE  Onward(c)
  BY ReleaseEffect DEF Typed, Onward

LEMMA LegEndsStep ==
    ASSUME IInv, RestT', HarmStays, NEW c \in Calls,
           CallerHangsUp(c) \/ CalleeUnavailable(c) \/ CalleeHangsUp(c)
    PROVE  IInv'
<1>1. PICK l \in Legs, cause \in Causes : Release(c, l, cause)
  BY DEF CallerHangsUp, CalleeUnavailable, CalleeHangsUp, Legs, Causes
<1>2. UNCHANGED <<pump, task, watchdog, call, fin, pending, row>>
  BY DEF CallerHangsUp, CalleeUnavailable, CalleeHangsUp, app
<1>3. /\ LegT' /\ JoinedT' /\ QueueT'
      /\ \A d \in Calls : d # c => leg'[d] = leg[d] /\ joined'[d] = joined[d]
  BY <1>1, ReleaseEffect DEF IInv, Typed
<1>4. Typed'
  BY <1>2, <1>3 DEF IInv, Typed, PumpT, TaskT, WatchdogT, CallT, FinT, RowT
<1>5. Good(c)'
  BY <1>1, <1>2, ReleaseGood DEF IInv, InPump
<1>6. Frame(c)
  BY <1>2, <1>3 DEF Frame, InPump
<1>7. Onward(c)
  BY <1>1, <1>2, ReleaseOnward DEF IInv, Untouched, InPump
<1> QED
  BY <1>1, <1>4, <1>5, <1>6, <1>7, ReleasingStep

LEMMA EnvironmentStep ==
    ASSUME IInv, RestT', HarmStays, NEW c \in Calls, Environment(c)
    PROVE  IInv'
  BY CallerDialsStep, CalleeAnswersStep, LegEndsStep DEF Environment

-----------------------------------------------------------------------------
(* The task of a call and its watchdog                                     *)

LEMMA GoToRecord ==
    ASSUME TaskT, NEW c \in Calls, NEW step \in TaskSteps, GoTo(c, step)
    PROVE  \E r \in TaskStates : r.at = step /\ task' = [task EXCEPT ![c] = r]
<1> DEFINE r == [task[c] EXCEPT !.at = step]
<1>1. r \in TaskStates /\ r.at = step
  BY DEF TaskT, TaskStates
<1>2. task' = [task EXCEPT ![c] = r]
  BY DEF GoTo
<1> HIDE DEF r
<1> QED
  BY <1>1, <1>2

LEMMA RejectRecord ==
    ASSUME TaskT, NEW c \in Calls, NEW status \in Statuses, RejectWith(c, status)
    PROVE  \E r \in TaskStates : r.at = "reject" /\ task' = [task EXCEPT ![c] = r]
<1> DEFINE r == [task[c] EXCEPT !.at = "reject", !.status = status]
<1>1. r \in TaskStates /\ r.at = "reject"
  BY DEF TaskT, TaskStates, TaskSteps
<1>2. task' = [task EXCEPT ![c] = r]
  BY DEF RejectWith, TaskT
<1> HIDE DEF r
<1> QED
  BY <1>1, <1>2

(* What only moves the task: to a step, or to the explanation              *)
Moves(c) ==
    \/ \E step \in TaskSteps : Onwards(c, step) /\ GoTo(c, step)
    \/ \E status \in Statuses : Onwards(c, "reject") /\ RejectWith(c, status)

LEMMA MovesStep ==
    ASSUME IInv, RestT', HarmStays, NEW c \in Calls, Moves(c),
           UNCHANGED <<leg, joined, queue, pump, watchdog, call, fin, pending, row>>
    PROVE  IInv'
<1>1. PICK r \in TaskStates : Onwards(c, r.at) /\ task' = [task EXCEPT ![c] = r]
  BY GoToRecord, RejectRecord DEF Moves, IInv, Typed
<1> QED
  BY <1>1, TaskStep

(* ... or moves it beside a flag of the call or its row                    *)
LEMMA MovesBeside ==
    ASSUME IInv, RestT', HarmStays, NEW c \in Calls, Moves(c), CallT', RowT', WatchdogT',
           UNCHANGED <<leg, joined, queue, pump, fin, pending>>,
           call'[c].finishing = call[c].finishing, call'[c].outbound_id = call[c].outbound_id,
           row'[c].ended = row[c].ended, row'[c].cause = row[c].cause,
           watchdog'[c] = "armed" => leg[c]["out"] # "none",
           \A d \in Calls : d # c => /\ call'[d] = call[d] /\ row'[d] = row[d]
                                     /\ watchdog'[d] = watchdog[d]
    PROVE  IInv'
<1>1. PICK r \in TaskStates : Onwards(c, r.at) /\ task' = [task EXCEPT ![c] = r]
  BY GoToRecord, RejectRecord DEF Moves, IInv, Typed
<1>2. task'[c] = r /\ TaskT' /\ \A d \in Calls : d # c => task'[d] = task[d]
  BY <1>1 DEF IInv, Typed, TaskT
<1>3. Typed'
  BY <1>2 DEF IInv, Typed, LegT, JoinedT, QueueT, PumpT, FinT
<1>4. Good(c)'
  BY <1>1, <1>2, MovesOn DEF IInv
<1>5. Frame(c)
  BY <1>2 DEF Frame, InPump
<1>6. Onward(c)
  BY <1>1 DEF Onward, Untouched, Onwards
<1> QED
  BY <1>3, <1>4, <1>5, <1>6, QuietStep

LEMMA FirstAttempt ==
    ASSUME NEW t \in TaskStates
    PROVE  LET r == [t EXCEPT !.at = "collect", !.attempt = 1]
           IN  r \in TaskStates /\ r.at = "collect"
<1>1. 1 \in 0..Attempts
  BY CallFlowAssumption
<1> QED
  BY <1>1 DEF TaskStates, TaskSteps

LEMMA ExplainSteps ==
    ASSUME IInv, RestT', HarmStays, NEW c \in Calls,
           \/ Reject(c) \/ RejectPlayed(c) \/ Ask(c) \/ CodeMatches(c) \/ CodeWrong(c)
           \/ Goodbye(c)
    PROVE  IInv'
<1> USE DEF asterisk
<1>1. ASSUME task[c].at \notin {"none", "done"}, NEW status \in Statuses, NEW cause \in Causes,
             FinishInTask(c, status, cause),
             UNCHANGED <<asterisk, pump, watchdog, pending, row, session>>
      PROVE  IInv'
  BY <1>1, TaskFinishStep
<1>2. task[c].status \in Statuses /\ 21 \in Causes /\ NoCause \in Causes
      /\ "failed" \in Statuses /\ "rejected" \in Statuses
  BY DEF IInv, Typed, TaskT, TaskStates, Causes, Statuses
<1>3. CASE Reject(c)
  <2>1. CASE GoTo(c, "reject_play") /\ UNCHANGED <<call, fin>>
    <3>1. Moves(c)
      BY <1>3, <2>1 DEF Reject, Moves, Onwards, TaskSteps, Undialed
    <3> QED
      BY <1>3, <2>1, <3>1, MovesStep DEF Reject
  <2> QED
    BY <1>1, <1>2, <1>3, <2>1 DEF Reject
<1>4. CASE RejectPlayed(c) \/ Goodbye(c)
  BY <1>1, <1>2, <1>4 DEF RejectPlayed, Goodbye
<1>5. CASE Ask(c)
  <2>1. CASE task' = [task EXCEPT ![c].at = "collect", ![c].attempt = 1]
             /\ UNCHANGED <<call, fin>>
    <3> DEFINE r == [task[c] EXCEPT !.at = "collect", !.attempt = 1]
    <3>1. r \in TaskStates /\ r.at = "collect"
      BY FirstAttempt DEF IInv, Typed, TaskT
    <3>2. task' = [task EXCEPT ![c] = r]
      BY <2>1 DEF IInv, Typed, TaskT
    <3>3. Onwards(c, "collect")
      BY <1>5 DEF Ask, Onwards, Undialed
    <3> HIDE DEF r
    <3> QED
      BY <1>5, <2>1, <3>1, <3>2, <3>3, TaskStep DEF Ask
  <2> QED
    BY <1>1, <1>2, <1>5, <2>1 DEF Ask
<1>6. CASE CodeMatches(c)
  <2>1. Moves(c)
    BY <1>6 DEF CodeMatches, Moves, Onwards, TaskSteps, Undialed
  <2> QED
    BY <1>6, <2>1, MovesStep DEF CodeMatches
<1>7. CASE CodeWrong(c)
  <2> DEFINE r == IF AttemptsLeft(c) THEN [task[c] EXCEPT !.attempt = task[c].attempt + 1]
                  ELSE [task[c] EXCEPT !.at = "goodbye"]
  <2>1. r \in TaskStates /\ r.at \in {"collect", "goodbye"}
    BY <1>7, CallFlowAssumption
    DEF CodeWrong, AttemptsLeft, IInv, Typed, TaskT, TaskStates, TaskSteps
  <2>2. task' = [task EXCEPT ![c] = r]
    BY <1>7 DEF CodeWrong
  <2>3. Onwards(c, "collect") /\ Onwards(c, "goodbye")
    BY <1>7 DEF CodeWrong, Onwards, Undialed
  <2> HIDE DEF r
  <2> QED
    BY <1>7, <2>1, <2>2, <2>3, TaskStep DEF CodeWrong
<1> QED
  BY <1>3, <1>4, <1>5, <1>6, <1>7

LEMMA ConnectSteps ==
    ASSUME IInv, RestT', HarmStays, NEW c \in Calls,
           \/ AttachSession(c) \/ CheckLimit(c) \/ Ring(c) \/ CreateBridge(c)
           \/ BridgeCreated(c) \/ OriginateAnswered(c) \/ OriginateFailed(c) \/ TaskBreaks(c)
    PROVE  IInv'
<1> USE DEF asterisk
<1>1. \A status \in {"failed", "rejected"} : status \in Statuses
  BY DEF Statuses
<1>2. CASE CheckLimit(c) \/ Ring(c) \/ CreateBridge(c) \/ TaskBreaks(c)
  <2>1. Moves(c)
    BY <1>1, <1>2 DEF CheckLimit, Ring, CreateBridge, TaskBreaks, Moves, Onwards, TaskSteps,
                      Undialed
  <2>2. UNCHANGED <<leg, joined, queue, pump, watchdog, call, fin, pending, row>>
    BY <1>2 DEF CheckLimit, Ring, CreateBridge, TaskBreaks
  <2> QED
    BY <2>1, <2>2, MovesStep
<1>3. CASE AttachSession(c)
  <2>1. Moves(c)
    BY <1>3 DEF AttachSession, Moves, Onwards, TaskSteps, Undialed
  <2>2. /\ call' = [call EXCEPT ![c] = [call[c] EXCEPT !.session = TRUE]]
        /\ row' = [row EXCEPT ![c] = [@ EXCEPT !.session = TRUE]]
        /\ UNCHANGED <<leg, joined, queue, pump, watchdog, fin, pending>>
    BY <1>3 DEF AttachSession
  <2>3. CallT' /\ RowT' /\ WatchdogT'
    <3>1. CallT'
      BY <2>2, CallSet DEF IInv, Typed, CallT
    <3>2. RowT'
      BY <1>1, <2>2, RowsTyped DEF IInv, Typed, Causes
    <3> QED
      BY <2>2, <3>1, <3>2 DEF IInv, Typed, WatchdogT
  <2>4. /\ call'[c].finishing = call[c].finishing
        /\ call'[c].outbound_id = call[c].outbound_id
        /\ row'[c].ended = row[c].ended /\ row'[c].cause = row[c].cause
        /\ \A d \in Calls : d # c => call'[d] = call[d] /\ row'[d] = row[d]
    BY <2>2 DEF IInv, Typed, CallT, RowT, CallStates, RowStates
  <2>5. watchdog'[c] = "armed" => leg[c]["out"] # "none"
    BY <2>2 DEF IInv, Good, Course
  <2> QED
    BY <2>1, <2>2, <2>3, <2>4, <2>5, MovesBeside
<1>4. CASE BridgeCreated(c) \/ OriginateFailed(c)
  <2>1. Moves(c)
    BY <1>1, <1>4 DEF BridgeCreated, OriginateFailed, Moves, Onwards, TaskSteps, Undialed
  <2>2. /\ \/ call' = [call EXCEPT ![c] = [call[c] EXCEPT !.bridge_id = TRUE]]
           \/ call' = [call EXCEPT ![c] = [call[c] EXCEPT !.mapped = FALSE]]
        /\ UNCHANGED <<leg, joined, queue, pump, watchdog, fin, pending, row>>
    BY <1>4 DEF BridgeCreated, OriginateFailed
  <2>3. CallT' /\ RowT' /\ WatchdogT'
    <3>1. PICK s \in CallStates : call' = [call EXCEPT ![c] = s]
      BY <2>2, CallSet, Zenon DEF IInv, Typed, CallT
    <3> QED
      BY <2>2, <3>1 DEF IInv, Typed, CallT, RowT, WatchdogT
  <2>4. /\ call'[c].finishing = call[c].finishing
        /\ call'[c].outbound_id = call[c].outbound_id
        /\ \A d \in Calls : d # c => call'[d] = call[d]
    BY <2>2 DEF IInv, Typed, CallT, CallStates
  <2>5. watchdog'[c] = "armed" => leg[c]["out"] # "none"
    BY <2>2 DEF IInv, Good, Course
  <2> QED
    BY <2>1, <2>2, <2>3, <2>4, <2>5, MovesBeside
<1>5. CASE OriginateAnswered(c)
  <2>1. Moves(c)
    BY <1>5 DEF OriginateAnswered, Moves, Onwards, TaskSteps, Undialed
  <2>2. /\ watchdog' = [watchdog EXCEPT ![c] = "armed"]
        /\ UNCHANGED <<leg, joined, queue, pump, call, fin, pending, row>>
    BY <1>5 DEF OriginateAnswered
  <2>3. CallT' /\ RowT' /\ WatchdogT' /\ \A d \in Calls : d # c => watchdog'[d] = watchdog[d]
    BY <2>2 DEF IInv, Typed, CallT, RowT, WatchdogT
  <2>4. leg[c]["out"] # "none"
    BY <1>5 DEF OriginateAnswered, IInv, Good, Course
  <2> QED
    BY <2>1, <2>2, <2>3, <2>4, MovesBeside
<1> QED
  BY <1>2, <1>3, <1>4, <1>5

(* The caller is put into the bridge, and the callee's channel named       *)
LEMMA AddCallerStep ==
    ASSUME IInv, RestT', HarmStays, NEW c \in Calls, AddCaller(c)
    PROVE  IInv'
<1>1. CASE RejectWith(c, "failed") /\ UNCHANGED <<joined, call>>
  <2>1. Moves(c)
    BY <1>1 DEF AddCaller, Moves, Onwards, TaskSteps, Undialed, Statuses
  <2> QED
    BY <1>1, <2>1, MovesStep DEF AddCaller
<1>2. CASE /\ leg[c]["in"] = "up"
           /\ joined' = [joined EXCEPT ![c] = @ \cup {"in"}]
           /\ NameCallee(c) /\ GoTo(c, "originate")
  <2>1. /\ task[c].at = "add_caller"
        /\ call' = [call EXCEPT ![c] = [call[c] EXCEPT !.outbound_id = TRUE, !.mapped = TRUE]]
        /\ UNCHANGED <<leg, queue, pump, watchdog, fin, pending, row>>
    BY <1>2 DEF AddCaller, NameCallee, IInv, Typed, CallT
  <2>2. PICK r \in TaskStates : r.at = "originate" /\ task' = [task EXCEPT ![c] = r]
    BY <1>2, GoToRecord DEF IInv, Typed, TaskSteps
  <2>3. /\ task'[c].at = "originate" /\ TaskT'
        /\ \A d \in Calls : d # c => task'[d] = task[d]
    BY <2>2 DEF IInv, Typed, TaskT
  <2>4. [call[c] EXCEPT !.outbound_id = TRUE, !.mapped = TRUE] \in CallStates
    BY DEF IInv, Typed, CallT, CallStates
  <2>5. /\ CallT' /\ call'[c].outbound_id = TRUE /\ call'[c].finishing = call[c].finishing
        /\ \A d \in Calls : d # c => call'[d] = call[d]
    BY <2>1, <2>4 DEF IInv, Typed, CallT, CallStates
  <2>6. /\ JoinedT' /\ joined'[c] = joined[c] \cup {"in"}
        /\ \A d \in Calls : d # c => joined'[d] = joined[d]
    BY <1>2 DEF IInv, Typed, JoinedT, Legs
  <2>7. Typed'
    BY <2>1, <2>3, <2>5, <2>6 DEF IInv, Typed, LegT, QueueT, PumpT, WatchdogT, FinT, RowT
  <2>8. Good(c)'
    <3>1. leg[c]["out"] = "none" /\ fin[c].at # "done"
      BY <2>1 DEF IInv, Good, Course, Teardown, Undialed
    <3>2. Course(c)'
      BY <2>1, <2>3, <2>5, <3>1 DEF IInv, Good, Course, InPump, Undialed
    <3>3. Teardown(c)'
      BY <1>2, <2>1, <2>3, <2>5, <3>1 DEF IInv, Good, Teardown, Undialed, HarmStays
    <3>4. Bridged(c)' /\ Journalled(c)'
      BY <1>2, <2>1, <2>6 DEF IInv, Good, Bridged, Journalled
    <3> QED
      BY <3>2, <3>3, <3>4 DEF Good
  <2>9. Frame(c)
    BY <2>1, <2>3, <2>5, <2>6 DEF Frame, InPump
  <2>10. Onward(c)
    BY <2>1, <2>3 DEF Onward, Untouched
  <2> QED
    BY <2>1, <2>7, <2>8, <2>9, <2>10, QuietStep
<1> QED
  BY <1>1, <1>2 DEF AddCaller, Alive

LEMMA OriginateStep ==
    ASSUME IInv, RestT', HarmStays, NEW c \in Calls, Originate(c)
    PROVE  IInv'
<1>1. /\ task[c].at = "originate"
      /\ UNCHANGED <<joined, queue, pump, watchdog, call, fin, pending, row>>
      /\ \/ /\ leg[c]["in"] = "up" /\ GoTo(c, "originated")
            /\ leg' = [leg EXCEPT ![c] = [leg[c] EXCEPT !["out"] = "dialing"]]
         \/ GoTo(c, "refused") /\ UNCHANGED leg
  BY DEF Originate, Alive
<1>2. PICK r \in TaskStates : /\ task' = [task EXCEPT ![c] = r]
                              /\ \/ GoTo(c, "originated") /\ r.at = "originated"
                                 \/ GoTo(c, "refused") /\ r.at = "refused"
  BY <1>1, GoToRecord DEF IInv, Typed, TaskSteps
<1>3. task'[c] = r /\ TaskT' /\ \A d \in Calls : d # c => task'[d] = task[d]
  BY <1>2 DEF IInv, Typed, TaskT
<1>4. /\ leg[c]["out"] = "none" /\ fin[c].at # "done" /\ call[c].outbound_id
      /\ call[c].finishing => leg[c]["in"] = "gone"
      /\ ~InPump(c, "resolve")
  BY <1>1 DEF IInv, Good, Course, Teardown, Undialed
<1>5. /\ LegT' /\ \A d \in Calls : d # c => leg'[d] = leg[d]
      /\ leg'[c]["in"] = leg[c]["in"]
  BY <1>1 DEF IInv, Typed, LegT, LegStates, Legs
<1>6. \/ task'[c].at = "refused" /\ leg'[c] = leg[c]
      \/ /\ task'[c].at = "originated" /\ leg'[c]["out"] = "dialing"
         /\ leg[c]["in"] = "up"
  <2>1. GoTo(c, "originated") => task'[c].at = "originated"
    BY DEF GoTo, IInv, Typed, TaskT, TaskStates
  <2>2. GoTo(c, "refused") => task'[c].at = "refused"
    BY DEF GoTo, IInv, Typed, TaskT, TaskStates
  <2> QED
    BY <1>1, <2>1, <2>2 DEF IInv, Typed, LegT, Legs
<1>7. Typed'
  BY <1>1, <1>3, <1>5
  DEF IInv, Typed, JoinedT, QueueT, PumpT, WatchdogT, CallT, FinT, RowT
<1>8. Good(c)'
  <2>1. Course(c)'
    BY <1>1, <1>4, <1>5, <1>6 DEF IInv, Good, Course, InPump, Undialed
  <2>2. Teardown(c)'
    BY <1>1, <1>4, <1>5, <1>6 DEF IInv, Good, Teardown, Undialed, HarmStays
  <2>3. Bridged(c)'
    BY <1>1, <1>4, <1>5, <1>6 DEF IInv, Good, Bridged, Typed, JoinedT, Legs
  <2>4. Journalled(c)'
    BY <1>1 DEF IInv, Good, Journalled
  <2> QED
    BY <2>1, <2>2, <2>3, <2>4 DEF Good
<1>9. Frame(c)
  BY <1>1, <1>3, <1>5 DEF Frame, InPump
<1>10. Onward(c)
  BY <1>1, <1>4, <1>5, <1>6 DEF Onward, Untouched, Legs
<1> QED
  BY <1>1, <1>7, <1>8, <1>9, <1>10, QuietStep

LEMMA FailChannelStep ==
    ASSUME IInv, RestT', HarmStays, NEW c \in Calls, FailChannel(c)
    PROVE  IInv'
<1>1. task[c].at = "fail_channel" /\ GoTo(c, "done")
      /\ UNCHANGED <<pump, watchdog, call, fin, pending, row>>
  BY DEF FailChannel
<1>2. CASE UNCHANGED <<leg, joined, queue>>
  <2>1. Moves(c)
    BY <1>1 DEF Moves, Onwards, TaskSteps, Undialed
  <2> QED
    BY <1>1, <1>2, <2>1, MovesStep
<1>3. CASE Release(c, "in", 41)
  <2>1. "in" \in Legs /\ 41 \in Causes
    BY DEF Legs, Causes
  <2>2. /\ LegT' /\ JoinedT' /\ QueueT'
        /\ \A d \in Calls : d # c => leg'[d] = leg[d] /\ joined'[d] = joined[d]
    BY <1>3, <2>1, ReleaseEffect DEF IInv, Typed
  <2>3. /\ TaskT' /\ task'[c].at = "done" /\ \A d \in Calls : d # c => task'[d] = task[d]
    BY <1>1, TaskSet DEF GoTo, IInv, Typed, TaskT, TaskStates, TaskSteps
  <2>4. Typed'
    BY <1>1, <2>2, <2>3 DEF IInv, Typed, PumpT, WatchdogT, CallT, FinT, RowT
  <2>5. Good(c)'
    BY <1>1, <1>3, <2>1, <2>3, ReleaseGood DEF IInv, InPump
  <2>6. Frame(c)
    BY <1>1, <2>2, <2>3 DEF Frame, InPump
  <2>7. Onward(c)
    BY <1>1, <1>3, <2>1, ReleaseOnward DEF IInv, Untouched
  <2> QED
    BY <1>3, <2>1, <2>4, <2>5, <2>6, <2>7, ReleasingStep
<1> QED
  BY <1>2, <1>3 DEF FailChannel, HangUp

LEMMA WatchdogStep ==
    ASSUME IInv, RestT', HarmStays, NEW c \in Calls, WatchdogFires(c)
    PROVE  IInv'
<1>1. /\ watchdog[c] = "armed" /\ UNCHANGED <<leg, joined, queue, pump, task, pending, row>>
      /\ \/ watchdog' = [watchdog EXCEPT ![c] = "done"] /\ UNCHANGED <<call, fin>>
         \/ /\ StartFinish(call, c, "no_answer", 19)
            /\ watchdog' = [watchdog EXCEPT ![c] = "finish"]
  BY DEF WatchdogFires, asterisk
<1>2. /\ WatchdogT' /\ watchdog'[c] # "armed"
      /\ \A d \in Calls : d # c => watchdog'[d] = watchdog[d]
  BY <1>1 DEF IInv, Typed, WatchdogT
<1>3. leg[c]["out"] # "none" /\ task[c].at # "none" /\ task[c].at \notin Undialed
  BY <1>1 DEF IInv, Good, Course
<1>4. Onward(c)
  BY <1>1 DEF Onward, Untouched, InPump
<1>5. CASE UNCHANGED <<call, fin>>
  <2>1. Typed'
    BY <1>1, <1>2, <1>5
    DEF IInv, Typed, LegT, JoinedT, QueueT, PumpT, TaskT, CallT, FinT, RowT
  <2>2. Good(c)'
    BY <1>1, <1>2, <1>5
    DEF IInv, Good, Course, Teardown, Bridged, Journalled, InPump, HarmStays
  <2>3. Frame(c)
    BY <1>1, <1>2, <1>5 DEF Frame, InPump
  <2> QED
    BY <1>1, <1>4, <2>1, <2>2, <2>3, QuietStep
<1>6. CASE StartFinish(call, c, "no_answer", 19)
  <2>1. "no_answer" \in Statuses /\ 19 \in Causes /\ call \in [Calls -> CallStates]
    BY DEF Statuses, Causes, IInv, Typed, CallT
  <2>2. CallT' /\ FinT' /\ \A d \in Calls : d # c => call'[d] = call[d] /\ fin'[d] = fin[d]
    BY <1>6, <2>1, FinishStarts, FinishingFrame DEF IInv, Typed
  <2>3. Typed'
    BY <1>1, <1>2, <2>2 DEF IInv, Typed, LegT, JoinedT, QueueT, PumpT, TaskT, RowT
  <2>4. Good(c)'
    BY <1>1, <1>2, <1>3, <1>6, <2>1, FinishingGood DEF IInv, Typed, InPump
  <2>5. Frame(c)
    BY <1>1, <1>2, <2>2 DEF Frame, InPump
  <2> QED
    BY <1>1, <1>4, <2>3, <2>4, <2>5, QuietStep
<1> QED
  BY <1>1, <1>5, <1>6

-----------------------------------------------------------------------------
(* The run of _finish                                                      *)

LEMMA FinishReleasesStep ==
    ASSUME IInv, RestT', HarmStays, NEW c \in Calls, FinishHangsOut(c) \/ FinishHangsIn(c)
    PROVE  IInv'
<1>1. PICK l \in Legs, cause \in Causes, step \in {"hang_in", "bridge", "journal"} :
          /\ HangUp(c, l, cause)
          /\ fin' = [fin EXCEPT ![c].at = step]
          /\ \/ fin[c].at = "hang_out" /\ l = "out" /\ step = "hang_in"
             \/ fin[c].at = "hang_in" /\ l = "in" /\ step \in {"bridge", "journal"}
          /\ \/ call' = [call EXCEPT ![c] = [call[c] EXCEPT !.mapped = FALSE]]
             \/ UNCHANGED call
          /\ UNCHANGED <<pump, task, watchdog, pending, row>>
  <2>1. "out" \in Legs /\ "in" \in Legs /\ 16 \in Causes /\ fin[c].cause \in Causes
    BY DEF Legs, Causes, IInv, Typed, FinT, FinStates
  <2>2. (IF fin[c].cause = NoCause THEN 16 ELSE fin[c].cause) \in Causes
    BY <2>1
  <2>3. CASE FinishHangsOut(c)
    BY <2>1, <2>3 DEF FinishHangsOut
  <2>4. CASE FinishHangsIn(c)
    <3>1. (IF call[c].bridge_id THEN "bridge" ELSE "journal") \in {"bridge", "journal"}
      OBVIOUS
    <3> QED
      BY <2>1, <2>2, <2>4, <3>1 DEF FinishHangsIn
  <2> QED
    BY <2>3, <2>4
<1>2. /\ LegT' /\ JoinedT' /\ QueueT'
      /\ \/ leg'[c][l] = leg[c][l] /\ joined'[c] = joined[c]
         \/ /\ leg[c][l] \in {"dialing", "up"} /\ leg'[c][l] = "gone"
            /\ joined'[c] = joined[c] \ {l}
      /\ leg'[c][l] \in {"none", "gone"} \/ l \in harm'[c]
      /\ \A k \in Legs : k # l => leg'[c][k] = leg[c][k]
      /\ \A d \in Calls : d # c => leg'[d] = leg[d] /\ joined'[d] = joined[d]
  BY <1>1, HangUpEffect DEF IInv, Typed
<1>3. /\ CallT' /\ call'[c].known = call[c].known /\ call'[c].finishing = call[c].finishing
      /\ call'[c].outbound_id = call[c].outbound_id
      /\ \A d \in Calls : d # c => call'[d] = call[d]
  <2>1. [call[c] EXCEPT !.mapped = FALSE] \in CallStates
    BY CallSet DEF IInv, Typed, CallT
  <2>2. call \in [Calls -> CallStates]
    BY DEF IInv, Typed, CallT
  <2>3. CASE call' = [call EXCEPT ![c] = [call[c] EXCEPT !.mapped = FALSE]]
    <3>1. call'[c] = [call[c] EXCEPT !.mapped = FALSE]
      BY <2>2, <2>3
    <3>2. /\ call'[c].known = call[c].known /\ call'[c].finishing = call[c].finishing
          /\ call'[c].outbound_id = call[c].outbound_id
      BY <2>2, <3>1 DEF CallStates
    <3> QED
      BY <2>1, <2>2, <2>3, <3>2 DEF CallT
  <2>4. CASE UNCHANGED call
    BY <2>2, <2>4 DEF CallT
  <2> QED
    BY <1>1, <2>3, <2>4
<1>4. /\ FinT' /\ fin'[c].at = step /\ \A d \in Calls : d # c => fin'[d] = fin[d]
  <2>1. FinT'
    BY <1>1, FinSet DEF IInv, Typed
  <2> QED
    BY <1>1, <2>1 DEF IInv, Typed, FinT, FinStates
<1>5. Typed'
  BY <1>1, <1>2, <1>3, <1>4 DEF IInv, Typed, PumpT, TaskT, WatchdogT, RowT
<1>6. Good(c)'
  <2>1. /\ leg[c]["in"] \in LegStates /\ leg[c]["out"] \in LegStates
        /\ "in" \in Legs /\ "out" \in Legs /\ \A k \in Legs : k \in {"in", "out"}
    BY DEF IInv, Typed, LegT, Legs
  <2>2. /\ call[c].finishing /\ task[c].at # "none" /\ leg[c]["in"] \notin {"none", "dialing"}
        /\ ~row[c].ended
    BY <1>1 DEF IInv, Good, Course, Teardown, Journalled
  <2>3. /\ \A k \in Legs : leg'[c][k] = "none" <=> leg[c][k] = "none"
        /\ \A k \in Legs : leg[c][k] = "gone" => leg'[c][k] = "gone"
        /\ \A k \in Legs : leg'[c][k] \in {"up", "dialing"} => leg'[c][k] = leg[c][k]
    BY <1>2, <2>1 DEF LegStates
  <2>4. Course(c)'
    BY <1>1, <1>3, <2>1, <2>3 DEF IInv, Good, Course, InPump, Undialed
  <2>5. Teardown(c)'
    <3>1. l = "out" => leg'[c]["out"] \in {"none", "gone"} \/ "out" \in harm'[c]
      BY <1>2
    <3>2. l = "in" => /\ leg'[c]["in"] = "gone" \/ "in" \in harm'[c]
                      /\ leg'[c]["out"] \in {"none", "gone"} \/ "out" \in harm'[c]
      BY <1>1, <1>2, <2>1, <2>2, <2>3 DEF IInv, Good, Teardown, HarmStays
    <3>3. call'[c].finishing /\ task'[c].at \in Undialed => leg'[c]["in"] = "gone"
      BY <1>1, <1>3, <2>1, <2>3 DEF IInv, Good, Teardown
    <3> QED
      BY <1>1, <1>3, <1>4, <2>2, <3>1, <3>2, <3>3 DEF Teardown
  <2>6. Bridged(c)'
    BY <1>1, <1>2, <2>1, <2>3 DEF IInv, Good, Bridged, Typed, JoinedT
  <2>7. Journalled(c)'
    BY <1>1, <2>2 DEF IInv, Good, Journalled
  <2> QED
    BY <2>4, <2>5, <2>6, <2>7 DEF Good
<1>7. Frame(c)
  BY <1>1, <1>2, <1>3, <1>4 DEF Frame, InPump
<1>8. Onward(c)
  <2>1. \A k \in Legs : /\ leg[c][k] # "none" => leg'[c][k] # "none"
                        /\ leg[c][k] = "gone" => leg'[c][k] = "gone"
    BY <1>2
  <2> QED
    BY <1>1, <2>1 DEF Onward, Untouched, InPump
<1>9. CASE UNCHANGED <<leg, joined, queue>>
  BY <1>5, <1>6, <1>7, <1>8, <1>9, QuietStep
<1> QED
  BY <1>1, <1>5, <1>6, <1>7, <1>8, <1>9, ReleasingStep DEF HangUp

LEMMA FinishDestroysStep ==
    ASSUME IInv, RestT', HarmStays, NEW c \in Calls, FinishDestroysBridge(c)
    PROVE  IInv'
<1>1. /\ fin[c].at = "bridge"
      /\ joined' = [joined EXCEPT ![c] = {}] \/ UNCHANGED joined
      /\ fin' = [fin EXCEPT ![c].at = "journal"]
      /\ UNCHANGED <<leg, queue, pump, task, watchdog, call, pending, row>>
  BY DEF FinishDestroysBridge
<1>2. /\ JoinedT' /\ joined'[c] \in {{}, joined[c]}
      /\ \A d \in Calls : d # c => joined'[d] = joined[d]
  BY <1>1 DEF IInv, Typed, JoinedT
<1>3. /\ FinT' /\ fin'[c].at = "journal" /\ \A d \in Calls : d # c => fin'[d] = fin[d]
  <2>1. FinT'
    BY <1>1, FinSet DEF IInv, Typed
  <2> QED
    BY <1>1, <2>1 DEF IInv, Typed, FinT, FinStates
<1>4. Typed'
  BY <1>1, <1>2, <1>3 DEF IInv, Typed, LegT, QueueT, PumpT, TaskT, WatchdogT, CallT, RowT
<1>5. Good(c)'
  <2>1. ~row[c].ended /\ call[c].finishing
    BY <1>1 DEF IInv, Good, Teardown, Journalled
  <2>2. Course(c)' /\ Teardown(c)'
    BY <1>1, <1>3 DEF IInv, Good, Course, Teardown, InPump, Undialed, HarmStays
  <2>3. task[c].at = "originate" => leg[c]["in"] # "up"
    BY <2>1 DEF IInv, Good, Teardown, Undialed
  <2>4. Bridged(c)' /\ Journalled(c)'
    BY <1>1, <1>2, <2>1, <2>3 DEF IInv, Good, Bridged, Journalled
  <2> QED
    BY <2>2, <2>4 DEF Good
<1>6. Frame(c)
  BY <1>1, <1>2, <1>3 DEF Frame, InPump
<1>7. Onward(c)
  BY <1>1 DEF Onward, Untouched, InPump
<1> QED
  BY <1>1, <1>4, <1>5, <1>6, <1>7, QuietStep

(* The pump, once _finish is over                                          *)
LEMMA PumpLetGo ==
    ASSUME PumpT, NEW c \in Calls,
           pump' = IF pump = [at |-> "finish", call |-> c] THEN Idle ELSE pump
    PROVE  /\ PumpT'
           /\ \A d \in Calls : \A place \in PumpSteps : InPump(d, place)' => InPump(d, place)
  BY DEF PumpT, InPump, Idle, PumpSteps

LEMMA FinishForgetsStep ==
    ASSUME IInv, RestT', HarmStays, NEW c \in Calls, FinishForgets(c)
    PROVE  IInv'
<1>1. /\ fin[c].at = "journal" /\ CloseRow(c, fin[c].status, fin[c].cause)
      /\ pending' = IF fin[c].cause = NoCause THEN pending \cup {c} ELSE pending
      /\ call' = [call EXCEPT ![c] = [call[c] EXCEPT !.known = FALSE]]
      /\ task' = [task EXCEPT ![c].at = "done"]
      /\ watchdog' = [watchdog EXCEPT ![c] = "done"]
      /\ fin' = [fin EXCEPT ![c].at = "done"]
      /\ pump' = IF pump = [at |-> "finish", call |-> c] THEN Idle ELSE pump
      /\ UNCHANGED <<leg, joined, queue>>
  BY DEF FinishForgets, Forget, asterisk
<1>2. /\ ~row[c].ended /\ call[c].finishing /\ task[c].at # "none"
      /\ leg[c]["in"] = "gone" \/ "in" \in harm[c]
      /\ leg[c]["out"] \in {"none", "gone"} \/ "out" \in harm[c]
  BY <1>1 DEF IInv, Good, Course, Teardown, Journalled
<1>3. /\ RowT' /\ row'[c].ended = TRUE /\ \A d \in Calls : d # c => row'[d] = row[d]
  <2>1. fin[c].status \in Statuses /\ fin[c].cause \in Causes
    BY DEF IInv, Typed, FinT, FinStates
  <2>2. RowT'
    BY <1>1, <2>1, RowsTyped DEF IInv, Typed
  <2>3. PICK r : r.ended = TRUE /\ row' = [row EXCEPT ![c] = r]
    <3> DEFINE r == [row[c] EXCEPT !.status = fin[c].status, !.ended = TRUE,
                         !.cause = IF fin[c].cause = NoCause THEN row[c].cause ELSE fin[c].cause,
                         !.session = row[c].session \/ call[c].session]
    <3>1. row' = [row EXCEPT ![c] = r]
      BY <1>1, <1>2, Zenon DEF CloseRow
    <3>2. r.ended = TRUE
      BY DEF IInv, Typed, RowT, RowStates
    <3> HIDE DEF r
    <3> QED
      BY <3>1, <3>2
  <2> QED
    BY <2>2, <2>3 DEF IInv, Typed, RowT
<1>4. /\ CallT' /\ call'[c].known = FALSE /\ call'[c].finishing = call[c].finishing
      /\ call'[c].outbound_id = call[c].outbound_id
      /\ \A d \in Calls : d # c => call'[d] = call[d]
  <2>1. [call[c] EXCEPT !.known = FALSE] \in CallStates
    BY CallSet DEF IInv, Typed, CallT
  <2> QED
    BY <1>1, <2>1 DEF IInv, Typed, CallT, CallStates
<1>5. /\ TaskT' /\ task'[c].at = "done" /\ \A d \in Calls : d # c => task'[d] = task[d]
  BY <1>1 DEF IInv, Typed, TaskT, TaskStates, TaskSteps
<1>6. /\ FinT' /\ fin'[c].at = "done" /\ \A d \in Calls : d # c => fin'[d] = fin[d]
  <2>1. FinT'
    BY <1>1, FinSet DEF IInv, Typed
  <2> QED
    BY <1>1, <2>1 DEF IInv, Typed, FinT, FinStates
<1>7. /\ WatchdogT' /\ watchdog'[c] = "done"
      /\ \A d \in Calls : d # c => watchdog'[d] = watchdog[d]
  BY <1>1 DEF IInv, Typed, WatchdogT
<1>8. /\ PumpT'
      /\ \A d \in Calls : \A place \in PumpSteps : InPump(d, place)' => InPump(d, place)
  BY <1>1, PumpLetGo DEF IInv, Typed
<1>9. Typed'
  BY <1>1, <1>3, <1>4, <1>5, <1>6, <1>7, <1>8 DEF IInv, Typed, LegT, JoinedT, QueueT
<1>10. Good(c)'
  <2>1. Course(c)'
    BY <1>1, <1>2, <1>4, <1>5, <1>7, <1>8 DEF IInv, Good, Course, PumpSteps, Undialed
  <2>2. Teardown(c)'
    BY <1>1, <1>2, <1>4, <1>5, <1>6 DEF Teardown, Undialed, HarmStays
  <2>3. Bridged(c)'
    BY <1>1, <1>5 DEF IInv, Good, Bridged
  <2>4. Journalled(c)'
    BY <1>3, <1>6 DEF Journalled
  <2> QED
    BY <2>1, <2>2, <2>3, <2>4 DEF Good
<1>11. Frame(c)
  BY <1>1, <1>3, <1>4, <1>5, <1>6, <1>7, <1>8 DEF Frame
<1>12. Onward(c)
  BY <1>1, <1>2 DEF Onward, Untouched
<1> QED
  BY <1>1, <1>9, <1>10, <1>11, <1>12, QuietStep

LEMMA FinishBreaksStep ==
    ASSUME IInv, RestT', HarmStays, NEW c \in Calls, FinishBreaks(c)
    PROVE  IInv'
<1> DEFINE step == IF task[c].at = "finish" THEN "done" ELSE task[c].at
           dog == IF watchdog[c] = "finish" THEN "done" ELSE watchdog[c]
<1>1. /\ fin[c].at = "journal" /\ fin' = [fin EXCEPT ![c].at = "none"]
      /\ pump' = IF pump = [at |-> "finish", call |-> c] THEN Idle ELSE pump
      /\ task' = [task EXCEPT ![c].at = step]
      /\ watchdog' = [watchdog EXCEPT ![c] = dog]
      /\ UNCHANGED <<leg, joined, queue, call, pending, row>>
  BY DEF FinishBreaks, asterisk
<1>2. step \in TaskSteps /\ dog \in {"none", "armed", "finish", "done"}
  BY DEF IInv, Typed, TaskT, TaskStates, TaskSteps, WatchdogT
<1>3. /\ TaskT' /\ task'[c].at = step /\ \A d \in Calls : d # c => task'[d] = task[d]
  BY <1>1, <1>2 DEF IInv, Typed, TaskT, TaskStates
<1>4. /\ WatchdogT' /\ watchdog'[c] = dog
      /\ \A d \in Calls : d # c => watchdog'[d] = watchdog[d]
  BY <1>1, <1>2 DEF IInv, Typed, WatchdogT
<1>5. /\ FinT' /\ fin'[c].at = "none" /\ \A d \in Calls : d # c => fin'[d] = fin[d]
  <2>1. FinT'
    BY <1>1, FinSet DEF IInv, Typed
  <2> QED
    BY <1>1, <2>1 DEF IInv, Typed, FinT, FinStates
<1>6. /\ PumpT'
      /\ \A d \in Calls : \A place \in PumpSteps : InPump(d, place)' => InPump(d, place)
  BY <1>1, PumpLetGo DEF IInv, Typed
<1>7. Typed'
  BY <1>1, <1>3, <1>4, <1>5, <1>6 DEF IInv, Typed, LegT, JoinedT, QueueT, CallT, RowT
<1>8. Good(c)'
  <2>1. ~row[c].ended /\ call[c].finishing /\ task[c].at # "none"
    BY <1>1 DEF IInv, Good, Course, Teardown, Journalled
  <2>2. Course(c)'
    BY <1>1, <1>3, <1>4, <1>6, <2>1 DEF IInv, Good, Course, PumpSteps, Undialed
  <2>3. Teardown(c)'
    BY <1>1, <1>3, <1>5, <2>1 DEF IInv, Good, Teardown, Undialed, HarmStays
  <2>4. Bridged(c)'
    BY <1>1, <1>3 DEF IInv, Good, Bridged
  <2>5. Journalled(c)'
    BY <1>1, <2>1 DEF IInv, Good, Journalled
  <2> QED
    BY <2>2, <2>3, <2>4, <2>5 DEF Good
<1>9. Frame(c)
  BY <1>1, <1>3, <1>4, <1>5, <1>6 DEF Frame
<1>10. Onward(c)
  BY <1>1, <1>3, <1>8 DEF Onward, Untouched, IInv, Good, Course, Teardown
<1> QED
  BY <1>1, <1>7, <1>8, <1>9, <1>10, QuietStep

LEMMA FinishStep ==
    ASSUME IInv, RestT', HarmStays, NEW c \in Calls, Finish(c)
    PROVE  IInv'
  BY FinishReleasesStep, FinishDestroysStep, FinishForgetsStep DEF Finish

LEMMA OwnTaskStep ==
    ASSUME IInv, RestT', HarmStays, NEW c \in Calls, Task(c)
    PROVE  IInv'
  BY ExplainSteps, ConnectSteps, AddCallerStep, OriginateStep, FailChannelStep DEF Task

-----------------------------------------------------------------------------
(* The event pump                                                          *)

(* What the pump may do for c and leave the course of the call as it was   *)
LEMMA SameCourse ==
    ASSUME NEW c \in Calls, Good(c), HarmStays,
           leg'[c] = leg[c], joined'[c] = joined[c], task'[c] = task[c],
           watchdog'[c] = watchdog[c], fin'[c] = fin[c],
           call'[c].known = call[c].known, call'[c].finishing = call[c].finishing,
           call'[c].outbound_id = call[c].outbound_id,
           row'[c].ended = row[c].ended,
           row[c].ended \/ row'[c].cause = row[c].cause,
           c \in pending' => c \in pending,
           InPump(c, "resolve")' => task[c].at = "none" /\ leg[c]["in"] # "none",
           InPump(c, "answer_caller")' \/ InPump(c, "join")' => leg[c]["out"] # "none"
    PROVE  Good(c)'
<1> USE DEF Good
<1>1. Course(c)'
  BY DEF Course, Undialed
<1>2. Teardown(c)'
  BY DEF Teardown, Undialed, HarmStays
<1>3. Bridged(c)' /\ Journalled(c)'
  BY DEF Bridged, Journalled
<1> QED
  BY <1>1, <1>2, <1>3

(* What the next event tells                                               *)
LEMMA Heads ==
    ASSUME IInv, NEW c \in Calls, NEW l \in Legs, NEW type, Takes(type, c, l)
    PROVE  /\ queue # <<>> /\ queue' = Tail(queue) /\ pump = Idle
           /\ NextEvent.cause \in Causes /\ leg[c][l] # "none"
           /\ type # "StasisStart" => leg[c][l] = "gone"
           /\ type = "StasisStart" /\ l = "in" => task[c].at = "none"
           /\ 1 \in 1..Len(queue) /\ IsStart(queue[1], c) <=> type = "StasisStart" /\ l = "in"
<1>1. /\ queue # <<>> /\ queue' = Tail(queue) /\ pump = Idle
      /\ NextEvent.type = type /\ NextEvent.call = c /\ NextEvent.leg = l
  BY DEF Takes
<1>2. NextEvent = queue[1] /\ NextEvent \in Events /\ 1 \in 1..Len(queue)
  BY <1>1, TailSeq DEF IInv, Typed, NextEvent
<1>3. Holds(NextEvent, leg, task, pump)
  BY <1>2 DEF IInv, Told, True
<1> QED
  BY <1>1, <1>2, <1>3 DEF Holds, Events, IsStart

LEMMA PumpStep ==
    ASSUME IInv, RestT', HarmStays, NEW c \in Calls, CallT', RowT', PumpT',
           UNCHANGED <<leg, joined, task, watchdog, fin>>,
           call'[c].known = call[c].known, call'[c].finishing = call[c].finishing,
           call'[c].outbound_id = call[c].outbound_id,
           row'[c].ended = row[c].ended,
           row[c].ended \/ row'[c].cause = row[c].cause,
           c \in pending' => c \in pending,
           ~InPump(c, "resolve")',
           InPump(c, "answer_caller")' \/ InPump(c, "join")' => leg[c]["out"] # "none",
           \A d \in Calls : d # c =>
               /\ call'[d] = call[d] /\ row'[d] = row[d] /\ (d \in pending' => d \in pending)
               /\ \A place \in PumpSteps : InPump(d, place)' => InPump(d, place),
           \/ queue' = queue
           \/ queue # <<>> /\ queue' = Tail(queue)
    PROVE  IInv'
<1>1. QueueT'
  BY TailSeq DEF IInv, Typed, QueueT
<1>2. Typed'
  BY <1>1 DEF IInv, Typed, LegT, JoinedT, TaskT, WatchdogT, FinT
<1>3. Good(c)'
  BY SameCourse DEF IInv
<1>4. Frame(c)
  BY DEF Frame
<1>5. Onward(c)
  BY DEF Onward, Untouched
<1> QED
  BY <1>2, <1>3, <1>4, <1>5, QuietStep, TakingStep

(* ... or end it                                                           *)
LEMMA PumpFinishStep ==
    ASSUME IInv, RestT', HarmStays, NEW c \in Calls, NEW calls \in [Calls -> CallStates],
           NEW status \in Statuses \cup {NoStatus}, NEW cause \in Causes,
           FinishInPump(calls, c, status, cause),
           calls[c].finishing = call[c].finishing, calls[c].outbound_id = call[c].outbound_id,
           calls[c].known = call[c].known, \A d \in Calls : d # c => calls[d] = call[d],
           task[c].at # "none", task[c].at \in Undialed => leg[c]["in"] = "gone",
           UNCHANGED <<leg, joined, task, watchdog, pending, row>>,
           \/ queue' = queue
           \/ queue # <<>> /\ queue' = Tail(queue)
    PROVE  IInv'
<1>1. StartFinish(calls, c, status, cause)
      /\ (pump' = Idle \/ pump' = [at |-> "finish", call |-> c])
  BY DEF FinishInPump
<1>2. CallT' /\ FinT'
  BY <1>1, FinishStarts DEF IInv, Typed
<1>3. PumpT' /\ \A d \in Calls : \A place \in PumpSteps : place # "finish" => ~InPump(d, place)'
  BY <1>1 DEF PumpT, InPump, Idle, PumpSteps
<1>4. \A d \in Calls : d # c => \A place \in PumpSteps : ~InPump(d, place)'
  BY <1>1 DEF InPump, Idle, PumpSteps
<1>5. QueueT'
  BY TailSeq DEF IInv, Typed, QueueT
<1>6. Typed'
  BY <1>2, <1>3, <1>5 DEF IInv, Typed, LegT, JoinedT, TaskT, WatchdogT, RowT
<1>7. Good(c)'
  <2>1. \A place \in {"resolve", "answer_caller", "join"} : ~InPump(c, place)'
    BY <1>3 DEF PumpSteps
  <2> QED
    BY <1>1, <2>1, FinishingGood DEF IInv, Typed
<1>8. Frame(c)
  BY <1>1, <1>4, FinishingFrame DEF IInv, Typed, Frame
<1>9. Onward(c)
  BY DEF Onward, Untouched
<1> QED
  BY <1>6, <1>7, <1>8, <1>9, QuietStep, TakingStep

LEMMA InPumpOnly ==
    ASSUME NEW c \in Calls, NEW place \in PumpSteps,
           pump' = Idle \/ pump' = [at |-> place, call |-> c]
    PROVE  /\ PumpT'
           /\ \A d \in Calls : d # c => \A at \in PumpSteps : ~InPump(d, at)'
           /\ \A at \in PumpSteps : InPump(c, at)' => at = place
  BY DEF PumpT, InPump, Idle, PumpSteps

(* The start of a call is told once: none is left in the queue.            *)
LEMMA InboundStartsStep ==
    ASSUME IInv, RestT', HarmStays, NEW c \in Calls, InboundStarts(c)
    PROVE  IInv'
<1>1. /\ Takes("StasisStart", c, "in") /\ pump' = [at |-> "resolve", call |-> c]
      /\ UNCHANGED <<leg, joined, task, watchdog, call, fin, pending, row>>
  BY DEF InboundStarts
<1>2. /\ queue # <<>> /\ queue' = Tail(queue) /\ leg[c]["in"] # "none"
      /\ task[c].at = "none" /\ 1 \in 1..Len(queue) /\ IsStart(queue[1], c)
  BY <1>1, Heads DEF Legs
<1>3. /\ PumpT' /\ \A d \in Calls : d # c => \A at \in PumpSteps : ~InPump(d, at)'
      /\ \A at \in PumpSteps : InPump(c, at)' => at = "resolve"
  BY <1>1, InPumpOnly DEF PumpSteps
<1>4. /\ QueueT /\ QueueT'
      /\ \A i \in 1..Len(queue') : /\ i + 1 \in 1..Len(queue) /\ queue'[i] = queue[i + 1]
                                   /\ i + 1 # 1
  BY <1>2, TailSeq DEF IInv, Typed, QueueT
<1>5. Typed'
  BY <1>1, <1>3, <1>4
  DEF IInv, Typed, LegT, JoinedT, TaskT, WatchdogT, CallT, FinT, RowT
<1>6. Good(c)'
  BY <1>1, <1>2, <1>3, SameCourse DEF IInv, PumpSteps
<1>7. Frame(c)
  BY <1>1, <1>3 DEF Frame
<1>8. Told'
  <2>1. ASSUME NEW i \in 1..Len(queue')
        PROVE  Holds(queue'[i], leg', task', pump')
    <3>1. /\ Holds(queue[i + 1], leg, task, pump) /\ queue[i + 1] \in Events
          /\ queue'[i] = queue[i + 1] /\ ~IsStart(queue[i + 1], c)
      BY <1>2, <1>4 DEF IInv, Told, True, Typed, QueueT
    <3> QED
      BY <1>1, <3>1 DEF Holds, IsStart, Events
  <2>2. ASSUME NEW d \in Calls, NEW i \in 1..Len(queue'), NEW j \in 1..Len(queue'),
               IsStart(queue'[i], d), IsStart(queue'[j], d)
        PROVE  i = j
    <3>1. i + 1 = j + 1
      BY <1>4, <2>2 DEF IInv, Told
    <3>2. i \in Nat /\ j \in Nat
      BY <1>4 DEF QueueT
    <3> QED
      BY <3>1, <3>2
  <2> QED
    BY <2>1, <2>2 DEF Told, True, IsStart
<1> QED
  BY <1>5, <1>6, <1>7, <1>8, OthersGood DEF IInv

(* The routing transaction commits, or raises: the task begins.            *)
LEMMA BeginsGood ==
    ASSUME NEW c \in Calls, Good(c), HarmStays, InPump(c, "resolve"),
           leg'[c] = leg[c], joined'[c] = joined[c], watchdog'[c] = watchdog[c],
           fin'[c] = fin[c], pending' = pending, pump' = Idle,
           task'[c].at \in {"reject", "ask", "limit", "fail_channel"},
           call'[c].finishing = call[c].finishing,
           call'[c].outbound_id = call[c].outbound_id,
           row'[c].ended = row[c].ended, row'[c].cause = row[c].cause
    PROVE  Good(c)'
<1>1. \A place \in PumpSteps : ~InPump(c, place)'
  BY DEF InPump, Idle, PumpSteps
<1>2. Course(c)'
  BY <1>1 DEF Good, Course, Undialed, PumpSteps
<1>3. Teardown(c)'
  BY DEF Good, Course, Teardown, Undialed, HarmStays
<1>4. Bridged(c)' /\ Journalled(c)'
  BY DEF Good, Bridged, Journalled
<1> QED
  BY <1>2, <1>3, <1>4 DEF Good

LEMMA ResolveSteps ==
    ASSUME IInv, RestT', HarmStays, NEW c \in Calls,
           \/ \E action \in {"reject", "ask", "connect"} : Resolve(c, action)
           \/ ResolveBreaks(c)
    PROVE  IInv'
<1> USE DEF asterisk
<1>1. /\ InPump(c, "resolve") /\ pump' = Idle
      /\ UNCHANGED <<leg, joined, queue, watchdog, fin, pending>>
  BY DEF Resolve, ResolveBreaks, InPump
<1>2. PICK r \in TaskStates : /\ r.at \in {"reject", "ask", "limit", "fail_channel"}
                              /\ task' = [task EXCEPT ![c] = r]
  <2>1. /\ "unknown_caller" \in Statuses
        /\ \A step \in {"reject", "ask", "limit", "fail_channel"} : step \in TaskSteps
    BY DEF Statuses, TaskSteps
  <2>2. CASE ResolveBreaks(c)
    BY <2>1, <2>2, GoToRecord DEF ResolveBreaks, IInv, Typed
  <2>3. ASSUME NEW action \in {"reject", "ask", "connect"}, Resolve(c, action)
        PROVE  RejectWith(c, "unknown_caller") \/ GoTo(c, "ask") \/ GoTo(c, "limit")
    BY <2>3 DEF Resolve
  <2> QED
    BY <2>1, <2>2, <2>3, GoToRecord, RejectRecord DEF IInv, Typed
<1>3. task'[c] = r /\ TaskT' /\ \A d \in Calls : d # c => task'[d] = task[d]
  BY <1>2 DEF IInv, Typed, TaskT
<1>4. /\ CallT' /\ call'[c].finishing = call[c].finishing
      /\ call'[c].outbound_id = call[c].outbound_id
      /\ \A d \in Calls : d # c => call'[d] = call[d]
  <2>1. CASE ResolveBreaks(c)
    BY <2>1 DEF ResolveBreaks, IInv, Typed, CallT
  <2>2. ASSUME NEW action \in {"reject", "ask", "connect"}, Resolve(c, action)
        PROVE  \E s \in CallStates : /\ s.finishing = call[c].finishing
                                     /\ s.outbound_id = call[c].outbound_id
                                     /\ call' = [call EXCEPT ![c] = s]
    <3> DEFINE s == [call[c] EXCEPT !.known = TRUE, !.asked = (action = "ask"),
                                    !.session = (action = "connect")]
    <3>1. /\ s \in CallStates /\ s.finishing = call[c].finishing
          /\ s.outbound_id = call[c].outbound_id
      BY DEF IInv, Typed, CallT, CallStates
    <3>2. call' = [call EXCEPT ![c] = s]
      BY <2>2 DEF Resolve
    <3> HIDE DEF s
    <3> QED
      BY <3>1, <3>2
  <2> QED
    BY <2>1, <2>2 DEF IInv, Typed, CallT
<1>5. /\ RowT' /\ row'[c].ended = row[c].ended /\ row'[c].cause = row[c].cause
      /\ \A d \in Calls : d # c => row'[d] = row[d]
  <2>1. CASE ResolveBreaks(c)
    BY <2>1 DEF ResolveBreaks, IInv, Typed, RowT
  <2>2. ASSUME NEW action \in {"reject", "ask", "connect"}, Resolve(c, action)
        PROVE  /\ RowT' /\ row'[c].ended = row[c].ended /\ row'[c].cause = row[c].cause
               /\ \A d \in Calls : d # c => row'[d] = row[d]
    <3>1. OpenRow(c, action = "connect") /\ (action = "connect") \in BOOLEAN
      BY <2>2 DEF Resolve
    <3>2. RowT'
      BY <3>1, RowsTyped DEF IInv, Typed, Statuses, Causes
    <3> QED
      BY <3>1, <3>2 DEF OpenRow, IInv, Typed, RowT, RowStates
  <2> QED
    BY <2>1, <2>2
<1>6. PumpT' /\ \A d \in Calls : \A place \in PumpSteps : ~InPump(d, place)'
  BY <1>1 DEF PumpT, InPump, Idle, PumpSteps
<1>7. Typed'
  BY <1>1, <1>3, <1>4, <1>5, <1>6 DEF IInv, Typed, LegT, JoinedT, QueueT, WatchdogT, FinT
<1>8. Good(c)'
  BY <1>1, <1>2, <1>3, <1>4, <1>5, BeginsGood DEF IInv
<1>9. Frame(c)
  BY <1>1, <1>3, <1>4, <1>5, <1>6 DEF Frame
<1>10. Onward(c)
  BY <1>1 DEF Onward, Untouched
<1> QED
  BY <1>1, <1>7, <1>8, <1>9, <1>10, QuietStep

LEMMA CalleeStep ==
    ASSUME IInv, RestT', HarmStays, NEW c \in Calls, OutboundStarts(c) \/ AnswerCaller(c)
    PROVE  IInv'
<1> USE DEF asterisk
<1>1. call \in [Calls -> CallStates] /\ "failed" \in Statuses /\ NoCause \in Causes
  BY DEF IInv, Typed, CallT, Statuses, Causes
<1>2. CASE OutboundStarts(c)
  <2>1. /\ Takes("StasisStart", c, "out")
        /\ UNCHANGED <<leg, joined, task, watchdog, call, fin, pending, row>>
        /\ \/ pump' = [at |-> "answer_caller", call |-> c]
           \/ pump' = [at |-> "orphan", call |-> c]
    BY <1>2 DEF OutboundStarts
  <2>2. queue # <<>> /\ queue' = Tail(queue) /\ leg[c]["out"] # "none"
    BY <2>1, Heads DEF Legs
  <2>3. /\ PumpT' /\ \A d \in Calls : d # c => \A at \in PumpSteps : ~InPump(d, at)'
        /\ ~InPump(c, "resolve")'
    BY <2>1, InPumpOnly DEF PumpSteps
  <2> QED
    BY <2>1, <2>2, <2>3, PumpStep DEF IInv, Typed, CallT, RowT
<1>3. CASE AnswerCaller(c)
  <2>1. /\ InPump(c, "answer_caller")
        /\ UNCHANGED <<leg, joined, queue, task, watchdog, pending, row>>
    BY <1>3 DEF AnswerCaller, InPump
  <2>2. leg[c]["out"] # "none" /\ task[c].at # "none" /\ task[c].at \notin Undialed
    BY <2>1 DEF IInv, Good, Course
  <2>3. CASE FinishInPump(call, c, "failed", NoCause)
    BY <1>1, <2>1, <2>2, <2>3, PumpFinishStep
  <2>4. CASE pump' = [at |-> "join", call |-> c] /\ UNCHANGED <<call, fin>>
    <3>1. /\ PumpT' /\ \A d \in Calls : d # c => \A at \in PumpSteps : ~InPump(d, at)'
          /\ ~InPump(c, "resolve")'
      BY <2>4, InPumpOnly DEF PumpSteps
    <3> QED
      BY <2>1, <2>2, <2>4, <3>1, PumpStep DEF IInv, Typed, CallT, RowT
  <2> QED
    BY <1>3, <2>3, <2>4 DEF AnswerCaller
<1> QED
  BY <1>2, <1>3

LEMMA HangUpOrphanStep ==
    ASSUME IInv, RestT', HarmStays, NEW c \in Calls, HangUpOrphan(c)
    PROVE  IInv'
<1>1. /\ HangUp(c, "out", 16) /\ pump' = Idle /\ "out" \in Legs /\ 16 \in Causes
      /\ UNCHANGED <<task, watchdog, call, fin, pending, row>>
  BY DEF HangUpOrphan, Legs, Causes
<1>2. PumpT' /\ \A d \in Calls : \A place \in PumpSteps : ~InPump(d, place)'
  BY <1>1 DEF PumpT, InPump, Idle, PumpSteps
<1>3. CASE UNCHANGED <<leg, joined, queue>>
  BY <1>1, <1>2, <1>3, PumpStep DEF IInv, Typed, CallT, RowT, PumpSteps
<1>4. CASE Release(c, "out", 16)
  <2>1. /\ LegT' /\ JoinedT' /\ QueueT'
        /\ \A d \in Calls : d # c => leg'[d] = leg[d] /\ joined'[d] = joined[d]
    BY <1>1, <1>4, ReleaseEffect DEF IInv, Typed
  <2>2. Typed'
    BY <1>1, <1>2, <2>1 DEF IInv, Typed, TaskT, WatchdogT, CallT, FinT, RowT
  <2>3. Good(c)'
    BY <1>1, <1>2, <1>4, ReleaseGood DEF IInv, PumpSteps
  <2>4. Frame(c)
    BY <1>1, <1>2, <2>1 DEF Frame
  <2>5. Onward(c)
    BY <1>1, <1>2, <1>4, ReleaseOnward DEF IInv, Untouched, PumpSteps
  <2> QED
    BY <1>1, <1>4, <2>2, <2>3, <2>4, <2>5, ReleasingStep
<1> QED
  BY <1>1, <1>3, <1>4 DEF HangUp

LEMMA JoinCalleeStep ==
    ASSUME IInv, RestT', HarmStays, NEW c \in Calls, JoinCallee(c)
    PROVE  IInv'
<1>1. /\ InPump(c, "join") /\ UNCHANGED <<leg, queue, task, watchdog, pending, row>>
  BY DEF JoinCallee, InPump
<1>2. leg[c]["out"] # "none" /\ task[c].at # "none" /\ task[c].at \notin Undialed
  BY <1>1 DEF IInv, Good, Course
<1>3. CASE FinishInPump(call, c, "failed", NoCause) /\ UNCHANGED joined
  <2>1. call \in [Calls -> CallStates] /\ "failed" \in Statuses /\ NoCause \in Causes
    BY DEF IInv, Typed, CallT, Statuses, Causes
  <2> QED
    BY <1>1, <1>2, <1>3, <2>1, PumpFinishStep
<1>4. CASE /\ leg[c]["out"] = "up" /\ joined' = [joined EXCEPT ![c] = @ \cup {"out"}]
           /\ call' = [call EXCEPT ![c] = [call[c] EXCEPT !.answered = TRUE]]
           /\ pump' = [at |-> "mark", call |-> c] /\ UNCHANGED fin
  <2>1. /\ PumpT' /\ \A d \in Calls : d # c => \A at \in PumpSteps : ~InPump(d, at)'
        /\ \A at \in PumpSteps : InPump(c, at)' => at = "mark"
    BY <1>4, InPumpOnly DEF PumpSteps
  <2>2. /\ CallT' /\ call'[c].known = call[c].known /\ call'[c].finishing = call[c].finishing
        /\ call'[c].outbound_id = call[c].outbound_id
        /\ \A d \in Calls : d # c => call'[d] = call[d]
    <3>1. [call[c] EXCEPT !.answered = TRUE] \in CallStates
      BY CallSet DEF IInv, Typed, CallT
    <3> QED
      BY <1>4, <3>1 DEF IInv, Typed, CallT, CallStates
  <2>3. /\ JoinedT' /\ joined'[c] = joined[c] \cup {"out"}
        /\ \A d \in Calls : d # c => joined'[d] = joined[d]
    BY <1>4 DEF IInv, Typed, JoinedT, Legs
  <2>4. Typed'
    BY <1>1, <1>4, <2>1, <2>2, <2>3 DEF IInv, Typed, LegT, QueueT, TaskT, WatchdogT, FinT, RowT
  <2>5. Good(c)'
    <3>1. Course(c)'
      BY <1>1, <2>1, <2>2 DEF IInv, Good, Course, PumpSteps, Undialed
    <3>2. Teardown(c)' /\ Journalled(c)'
      BY <1>1, <1>4, <2>2 DEF IInv, Good, Teardown, Journalled, Undialed, HarmStays
    <3>3. Bridged(c)'
      BY <1>1, <1>4, <2>3 DEF IInv, Good, Bridged
    <3> QED
      BY <3>1, <3>2, <3>3 DEF Good
  <2>6. Frame(c)
    BY <1>1, <1>4, <2>1, <2>2, <2>3 DEF Frame
  <2>7. Onward(c)
    BY <1>1, <1>2 DEF Onward, Untouched
  <2> QED
    BY <1>1, <2>4, <2>5, <2>6, <2>7, QuietStep
<1> QED
  BY <1>3, <1>4 DEF JoinCallee, Alive

LEMMA JournalStep ==
    ASSUME IInv, RestT', HarmStays, NEW c \in Calls, JournalAnswer(c) \/ JournalBreaks(c)
    PROVE  IInv'
<1>1. /\ pump' = Idle /\ (MarkAnswered(c) \/ UNCHANGED row)
      /\ UNCHANGED <<leg, joined, queue, task, watchdog, call, fin, pending>>
  BY DEF JournalAnswer, JournalBreaks, asterisk
<1>2. PumpT' /\ \A d \in Calls : \A place \in PumpSteps : ~InPump(d, place)'
  BY <1>1 DEF PumpT, InPump, Idle, PumpSteps
<1>3. /\ RowT' /\ row'[c].ended = row[c].ended /\ row'[c].cause = row[c].cause
      /\ \A d \in Calls : d # c => row'[d] = row[d]
  <2>1. CASE UNCHANGED row
    BY <2>1 DEF IInv, Typed, RowT
  <2>2. CASE MarkAnswered(c)
    <3>1. RowT'
      BY <2>2, RowsTyped DEF IInv, Typed, Statuses, Causes
    <3> QED
      BY <2>2, <3>1 DEF MarkAnswered, IInv, Typed, RowT, RowStates
  <2> QED
    BY <1>1, <2>1, <2>2
<1> QED
  BY <1>1, <1>2, <1>3, PumpStep DEF IInv, Typed, CallT, PumpSteps

(* A leg has gone                                                          *)
LEMMA KnownBegan ==
    ASSUME IInv, NEW c \in Calls, call[c].known
    PROVE  /\ task[c].at # "none"
           /\ leg[c]["out"] = "gone" => task[c].at \notin Undialed
  BY DEF IInv, Good, Course

LEMMA UnmapCall ==
    ASSUME CallT, NEW c \in Calls
    PROVE  LET unmapped == [call EXCEPT ![c].mapped = FALSE]
           IN  /\ unmapped \in [Calls -> CallStates]
               /\ unmapped[c].finishing = call[c].finishing
               /\ unmapped[c].outbound_id = call[c].outbound_id
               /\ unmapped[c].known = call[c].known
               /\ \A d \in Calls : d # c => unmapped[d] = call[d]
<1> DEFINE s == [call[c] EXCEPT !.mapped = FALSE]
<1>1. s \in CallStates
  BY CallSet DEF CallT
<1>2. /\ s.finishing = call[c].finishing /\ s.outbound_id = call[c].outbound_id
      /\ s.known = call[c].known
  BY DEF CallT, CallStates
<1>3. [call EXCEPT ![c].mapped = FALSE] = [call EXCEPT ![c] = s]
  BY DEF CallT
<1> HIDE DEF s
<1> QED
  BY <1>1, <1>2, <1>3 DEF CallT

LEMMA LegGoneSteps ==
    ASSUME IInv, RestT', HarmStays, NEW c \in Calls,
           InboundEnds(c) \/ OutboundEnds(c) \/ OutboundDestroyed(c)
    PROVE  IInv'
<1>1. /\ UNCHANGED <<leg, joined, task, watchdog, pending, row>>
  BY DEF InboundEnds, OutboundEnds, OutboundDestroyed
<1>2. /\ call \in [Calls -> CallStates] /\ NoCause \in Causes /\ RowT' /\ CallT
      /\ (pump = Idle => \A d \in Calls : \A place \in PumpSteps : ~InPump(d, place))
      /\ (pump' = Idle => PumpT' /\ \A d \in Calls : \A place \in PumpSteps : ~InPump(d, place)')
  BY <1>1 DEF IInv, Typed, CallT, RowT, PumpT, Causes, InPump, Idle, PumpSteps
<1>3. CASE InboundEnds(c)
  <2>1. /\ queue # <<>> /\ queue' = Tail(queue) /\ pump = Idle /\ leg[c]["in"] = "gone"
    BY <1>3, Heads DEF InboundEnds, Legs
  <2>2. CASE call[c].known
    BY <1>1, <1>2, <1>3, <2>1, <2>2, KnownBegan, PumpFinishStep DEF InboundEnds
  <2>3. CASE ~call[c].known
    BY <1>1, <1>2, <1>3, <2>1, <2>3, PumpStep DEF InboundEnds, CallT, PumpSteps
  <2> QED
    BY <2>2, <2>3
<1>4. CASE OutboundEnds(c) \/ OutboundDestroyed(c)
  <2> DEFINE unmapped == [call EXCEPT ![c].mapped = FALSE]
  <2>1. /\ queue # <<>> /\ queue' = Tail(queue) /\ pump = Idle /\ leg[c]["out"] = "gone"
        /\ NextEvent.cause \in Causes
    BY <1>4, Heads DEF OutboundEnds, OutboundDestroyed, Legs
  <2>2. /\ unmapped \in [Calls -> CallStates]
        /\ unmapped[c].finishing = call[c].finishing
        /\ unmapped[c].outbound_id = call[c].outbound_id
        /\ unmapped[c].known = call[c].known
        /\ \A d \in Calls : d # c => unmapped[d] = call[d]
    BY <1>2, UnmapCall
  <2>3. PICK outcome \in Statuses \cup {NoStatus} :
            outcome = IF call[c].answered THEN NoStatus
                      ELSE StatusOf(NextEvent.cause, "no_answer")
    BY <2>1, EndTyped DEF Statuses
  <2>4. \/ call' = unmapped /\ UNCHANGED <<pump, fin>>
        \/ UNCHANGED <<pump, call, fin>>
        \/ call[c].known /\ FinishInPump(unmapped, c, NoStatus, NoCause)
        \/ call[c].known /\ FinishInPump(call, c, outcome, NextEvent.cause)
    BY <1>4, <2>3 DEF OutboundEnds, OutboundDestroyed
  <2> HIDE DEF unmapped
  <2>5. CASE call' = unmapped /\ UNCHANGED <<pump, fin>>
    BY <1>1, <1>2, <2>1, <2>2, <2>5, PumpStep DEF CallT, PumpSteps
  <2>6. CASE UNCHANGED <<pump, call, fin>>
    BY <1>1, <1>2, <2>1, <2>6, PumpStep DEF CallT, PumpSteps
  <2>7. CASE call[c].known /\ FinishInPump(unmapped, c, NoStatus, NoCause)
    BY <1>1, <1>2, <2>1, <2>2, <2>7, KnownBegan, PumpFinishStep
  <2>8. CASE call[c].known /\ FinishInPump(call, c, outcome, NextEvent.cause)
    BY <1>1, <1>2, <2>1, <2>8, KnownBegan, PumpFinishStep
  <2> QED
    BY <2>4, <2>5, <2>6, <2>7, <2>8
<1> QED
  BY <1>3, <1>4

LEMMA InboundDestroyedSteps ==
    ASSUME IInv, RestT', HarmStays, NEW c \in Calls, InboundDestroyed(c) \/ CauseBreaks(c)
    PROVE  IInv'
<1>1. /\ UNCHANGED <<leg, joined, task, watchdog>>
      /\ queue # <<>> /\ queue' = Tail(queue) /\ pump = Idle /\ leg[c]["in"] = "gone"
      /\ NextEvent.cause \in Causes
  BY Heads DEF InboundDestroyed, CauseBreaks, Legs
<1>2. call \in [Calls -> CallStates] /\ NoCause \in Causes
  BY DEF IInv, Typed, CallT, Causes
<1>3. CASE call[c].known /\ FinishInPump(call, c, NoStatus, NextEvent.cause)
           /\ UNCHANGED <<pending, row>>
  BY <1>1, <1>2, <1>3, KnownBegan, PumpFinishStep
<1>4. CASE /\ pending' = pending \ {c} /\ UNCHANGED <<pump, call, fin>>
           /\ RecordCause(c, NextEvent.cause) \/ UNCHANGED row
  <2>1. CallT' /\ PumpT' /\ \A d \in Calls : \A place \in PumpSteps : ~InPump(d, place)'
    BY <1>1, <1>4 DEF IInv, Typed, CallT, PumpT, InPump, Idle, PumpSteps
  <2>2. /\ RowT' /\ row'[c].ended = row[c].ended
        /\ row[c].ended \/ row'[c].cause = row[c].cause
        /\ \A d \in Calls : d # c => row'[d] = row[d]
    <3>1. CASE UNCHANGED row
      BY <3>1 DEF IInv, Typed, RowT
    <3>2. CASE RecordCause(c, NextEvent.cause)
      <4>1. RowT'
        BY <1>1, <3>2, RowsTyped DEF IInv, Typed, Statuses
      <4>2. c \in pending => row[c].ended
        BY DEF IInv, Good, Journalled
      <4> QED
        BY <3>2, <4>1, <4>2 DEF RecordCause, IInv, Typed, RowT, RowStates
    <3> QED
      BY <1>4, <3>1, <3>2
  <2> QED
    BY <1>1, <1>4, <2>1, <2>2, PumpStep DEF PumpSteps
<1> QED
  BY <1>3, <1>4 DEF InboundDestroyed, CauseBreaks

LEMMA PumpActionStep ==
    ASSUME IInv, RestT', HarmStays, NEW c \in Calls, Pump(c)
    PROVE  IInv'
  BY InboundStartsStep, ResolveSteps, CalleeStep, HangUpOrphanStep, JoinCalleeStep,
     JournalStep, LegGoneSteps, InboundDestroyedSteps DEF Pump

LEMMA BreaksStep ==
    ASSUME IInv, RestT', HarmStays, NEW c \in Calls, Breaks(c)
    PROVE  IInv'
  BY ConnectSteps, FinishBreaksStep, ResolveSteps, JournalStep, InboundDestroyedSteps
  DEF Breaks

-----------------------------------------------------------------------------
(* Every step                                                              *)

LEMMA LoseEventsStep ==
    ASSUME IInv, RestT', HarmStays, LoseEvents
    PROVE  IInv'
<1>1. /\ UNCHANGED <<leg, joined, pump, task, watchdog, call, fin, pending, row>>
      /\ \E kept \in 0..(Len(queue) - 1) : queue' = SubSeq(queue, 1, kept)
  BY DEF LoseEvents, app
<1>2. /\ QueueT /\ QueueT'
      /\ \A i \in 1..Len(queue') : i + 0 \in 1..Len(queue) /\ queue'[i] = queue[i + 0]
  BY <1>1 DEF IInv, Typed, QueueT
<1>3. Typed'
  BY <1>1, <1>2 DEF IInv, Typed, LegT, JoinedT, PumpT, TaskT, WatchdogT, CallT, FinT, RowT
<1>4. ASSUME NEW d \in Calls PROVE Good(d)'
  BY <1>1, OtherCalls DEF IInv, InPump
<1>5. LegsGo /\ StartsStay
  BY <1>1 DEF LegsGo, StartsStay, Untouched, InPump
<1>6. Told'
  BY <1>2, <1>5, ToldKept DEF IInv
<1> QED
  BY <1>3, <1>4, <1>6 DEF IInv

LEMMA NothingMoves ==
    ASSUME IInv, RestT', HarmStays,
           UNCHANGED <<leg, joined, queue, pump, task, watchdog, call, fin, pending, row>>
    PROVE  IInv'
<1>1. Typed'
  BY DEF IInv, Typed, LegT, JoinedT, QueueT, PumpT, TaskT, WatchdogT, CallT, FinT, RowT
<1>2. ASSUME NEW d \in Calls PROVE Good(d)'
  BY OtherCalls DEF IInv, InPump
<1>3. Told'
  BY DEF IInv, Told, True
<1> QED
  BY <1>1, <1>2, <1>3 DEF IInv

LEMMA Inductive == IInv /\ [Next]_vars => IInv'
<1> SUFFICES ASSUME IInv, [Next]_vars PROVE IInv'
  OBVIOUS
<1>1. CASE Next
  <2>1. RestT' /\ HarmStays
    BY <1>1, RestStep DEF IInv
  <2>2. ASSUME NEW c \in Calls,
               Environment(c) \/ Task(c) \/ Finish(c) \/ Pump(c) \/ Watchdog(c) \/ Breaks(c)
        PROVE  IInv'
    BY <2>1, <2>2, EnvironmentStep, OwnTaskStep, FinishStep, PumpActionStep, WatchdogStep,
       BreaksStep DEF Watchdog
  <2>3. CASE SessionEnds
    BY <2>1, <2>3, NothingMoves DEF SessionEnds, asterisk, app
  <2> QED
    BY <1>1, <2>1, <2>2, <2>3, LoseEventsStep DEF Next
<1>2. CASE UNCHANGED vars
  <2>1. RestT' /\ HarmStays
    BY <1>2 DEF vars, asterisk, app, IInv, Typed, RestT, HarmStays
  <2> QED
    BY <1>2, <2>1, NothingMoves DEF vars, asterisk, app
<1> QED
  BY <1>1, <1>2

THEOREM Invariant == Spec => []IInv
  BY Start, Inductive, PTL DEF Spec

-----------------------------------------------------------------------------
(* Channels, bridges, tasks, call states and rows keep their types,        *)
(* whatever fails.                                                         *)
THEOREM TypeCorrect == Spec => []TypeOK
<1>1. IInv => TypeOK
  BY TypedIsTypeOK DEF IInv
<1> QED
  BY <1>1, Invariant, PTL

(* _finish "releases both legs": when the call is forgotten, each channel  *)
(* of it is gone or its hangup failed, wherever the teardown met the       *)
(* set-up, whatever events were lost and whatever other request failed.    *)
THEOREM LegsAlwaysReleased == Spec => []LegsReleased
<1>1. IInv => LegsReleased
  BY DEF IInv, Good, Teardown, LegsReleased, Over
<1> QED
  BY <1>1, Invariant, PTL

(* Only originate dials.                                                   *)
LEMMA LegsEnd ==
    ASSUME LegT, NEW c \in Calls, NEW l \in Legs, NEW cause, Release(c, l, cause),
           NEW d \in Calls, leg[d]["out"] = "none"
    PROVE  leg'[d]["out"] = "none"
<1>1. CASE leg[c][l] \in {"dialing", "up"}
  <2>1. leg' = [leg EXCEPT ![c] = [leg[c] EXCEPT ![l] = "gone"]]
    BY <1>1 DEF Release
  <2> QED
    BY <1>1, <2>1 DEF LegT
<1>2. CASE leg[c][l] \notin {"dialing", "up"}
  BY <1>2 DEF Release
<1> QED
  BY <1>1, <1>2

LEMMA HangUpsEnd ==
    ASSUME LegT, NEW c \in Calls, NEW l \in Legs, NEW cause, HangUp(c, l, cause),
           NEW d \in Calls, leg[d]["out"] = "none"
    PROVE  leg'[d]["out"] = "none"
  BY LegsEnd DEF HangUp

LEMMA OnlyOriginateDials ==
    ASSUME LegT, Next, NEW d \in Calls, leg[d]["out"] = "none", leg'[d]["out"] = "dialing"
    PROVE  Originate(d)
<1> USE DEF asterisk, app
<1>1. ASSUME UNCHANGED leg PROVE FALSE
  BY <1>1
<1>2. ASSUME NEW c \in Calls, Environment(c) PROVE FALSE
  <2>1. CASE CallerDials(c) \/ CalleeAnswers(c)
    BY <2>1 DEF CallerDials, CalleeAnswers, LegT, Legs
  <2>2. CASE CallerHangsUp(c) \/ CalleeUnavailable(c) \/ CalleeHangsUp(c)
    BY <2>2, LegsEnd DEF CallerHangsUp, CalleeUnavailable, CalleeHangsUp, Legs
  <2> QED
    BY <1>2, <2>1, <2>2 DEF Environment
<1>3. ASSUME NEW c \in Calls, Task(c) PROVE Originate(d)
  <2>1. CASE Originate(c)
    BY <2>1 DEF Originate, LegT
  <2>2. CASE FailChannel(c)
    BY <1>1, <2>2, HangUpsEnd DEF FailChannel, Legs
  <2>3. CASE ~Originate(c) /\ ~FailChannel(c)
    BY <1>1, <1>3, <2>3
    DEF Task, Reject, RejectPlayed, Ask, CodeMatches, CodeWrong, Goodbye, AttachSession,
        CheckLimit, Ring, CreateBridge, BridgeCreated, AddCaller, OriginateAnswered,
        OriginateFailed
  <2> QED
    BY <2>1, <2>2, <2>3
<1>4. ASSUME NEW c \in Calls, Finish(c) PROVE FALSE
  BY <1>1, <1>4, HangUpsEnd
  DEF Finish, FinishHangsOut, FinishHangsIn, FinishDestroysBridge, FinishForgets, Forget, Legs
<1>5. ASSUME NEW c \in Calls, Pump(c) PROVE FALSE
  <2>1. CASE HangUpOrphan(c)
    BY <2>1, HangUpsEnd DEF HangUpOrphan, Legs
  <2>2. CASE ~HangUpOrphan(c)
    BY <1>1, <1>5, <2>2
    DEF Pump, InboundStarts, OutboundStarts, Resolve, AnswerCaller, JoinCallee,
        JournalAnswer, InboundEnds, OutboundEnds, InboundDestroyed, OutboundDestroyed
  <2> QED
    BY <2>1, <2>2
<1>6. ASSUME NEW c \in Calls, Watchdog(c) \/ Breaks(c) PROVE FALSE
  BY <1>1, <1>6
  DEF Watchdog, WatchdogFires, Breaks, TaskBreaks, FinishBreaks, ResolveBreaks,
      JournalBreaks, CauseBreaks
<1>7. CASE LoseEvents \/ SessionEnds
  BY <1>1, <1>7 DEF LoseEvents, SessionEnds
<1> QED
  BY <1>2, <1>3, <1>4, <1>5, <1>6, <1>7 DEF Next

(* The callee is dialed for a caller in the bridge, under an id by which   *)
(* the call can be torn down, and never after the teardown.                *)
THEOREM DialsOnlyForWaiting == Spec => DialsForWaitingCaller
<1> DEFINE A == \A c \in Calls : leg[c]["out"] = "none" /\ leg'[c]["out"] = "dialing" =>
                    call[c].outbound_id /\ "in" \in joined[c] /\ fin[c].at # "done"
<1>1. IInv /\ [Next]_vars => A
  <2> SUFFICES ASSUME IInv, [Next]_vars, NEW c \in Calls,
                      leg[c]["out"] = "none", leg'[c]["out"] = "dialing"
               PROVE  call[c].outbound_id /\ "in" \in joined[c] /\ fin[c].at # "done"
    OBVIOUS
  <2>1. Originate(c)
    BY OnlyOriginateDials DEF IInv, Typed, vars, asterisk
  <2>2. task[c].at = "originate" /\ leg[c]["in"] = "up"
    <3>1. task[c].at = "originate" /\ (leg[c]["in"] = "up" \/ UNCHANGED leg)
      BY <2>1 DEF Originate, Alive
    <3> QED
      BY <3>1
  <2> QED
    BY <2>2 DEF IInv, Good, Course, Teardown, Bridged
<1>2. IInv /\ [Next]_vars => [A]_vars
  BY <1>1
<1> QED
  BY <1>2, Invariant, PTL DEF Spec, DialsForWaitingCaller

-----------------------------------------------------------------------------
(* The contract                                                            *)

(* The places of the task of a call whose session is known                 *)
Routed == {"limit", "ring", "create_bridge", "bridge_created", "add_caller", "originate"}

(* Nobody says `answered' of a call that was not.                          *)
Honest(d) ==
    /\ fin[d].status # "in_progress"
    /\ fin[d].status = "answered" => call[d].answered
    /\ task[d].status \notin {"in_progress", "answered"}
    /\ InPump(d, "mark") => call[d].answered
    /\ call[d].answered => leg[d]["out"] # "none"

(* Whatever the application does about a call, its row is there, and open  *)
(* until the callee is dialed.                                             *)
Opened(d) ==
    /\ task[d].at = "none" => row[d] = Contract(d)!NoEntry
    /\ row[d].status = "none" =>
           /\ ~call[d].known /\ ~call[d].finishing /\ leg[d]["out"] = "none"
           /\ task[d].at \in {"none", "fail_channel", "done"}
    /\ task[d].at \in Undialed => row[d].status = "in_progress"
    /\ task[d].at \in Routed \/ call[d].session => row[d].session

Kept(d) == Honest(d) /\ Opened(d)

LEMMA KeptStart == Init => \A d \in Calls : Kept(d) /\ Contract(d)!Init
<1> SUFFICES ASSUME Init, NEW d \in Calls PROVE Kept(d) /\ Contract(d)!Init
  OBVIOUS
<1>1. Honest(d)
  BY DEF Init, Honest, InPump, Idle, Legs
<1>2. Opened(d)
  BY DEF Init, Opened, Contract!NoEntry, Undialed, Routed, Legs
<1>3. Contract(d)!Init
  BY DEF Init, Contract!Init, Contract!NoEntry, Legs
<1> QED
  BY <1>1, <1>2, <1>3 DEF Kept

-----------------------------------------------------------------------------
(* A step about the call c leaves the others as they are.                  *)
StepOf(c) == Environment(c) \/ Task(c) \/ Finish(c) \/ Pump(c) \/ Watchdog(c) \/ Breaks(c)

SameCall(d) ==
    /\ leg'[d] = leg[d] /\ task'[d] = task[d] /\ call'[d] = call[d]
    /\ fin'[d] = fin[d] /\ row'[d] = row[d]

(* No further hangup of the call fails.                                    *)
SameRefusals(d) == harm'[d] \cap Legs = harm[d] \cap Legs

LEMMA ReleaseApart ==
    ASSUME LegT, NEW c \in Calls, NEW l \in Legs, NEW cause, Release(c, l, cause)
    PROVE  /\ \A d \in Calls : d # c => leg'[d] = leg[d]
           /\ \A k \in Legs : \/ leg'[c][k] = leg[c][k]
                              \/ leg[c][k] \in {"dialing", "up"} /\ leg'[c][k] = "gone"
           /\ \A k \in Legs : k # l => leg'[c][k] = leg[c][k]
<1>1. CASE leg[c][l] \in {"dialing", "up"}
  <2>1. leg' = [leg EXCEPT ![c] = [leg[c] EXCEPT ![l] = "gone"]]
    BY <1>1 DEF Release
  <2> QED
    BY <1>1, <2>1 DEF LegT
<1>2. CASE leg[c][l] \notin {"dialing", "up"}
  BY <1>2 DEF Release
<1> QED
  BY <1>1, <1>2

LEMMA HangUpApart ==
    ASSUME LegT, RestT, NEW c \in Calls, NEW l \in Legs, NEW cause, HangUp(c, l, cause),
           NEW d \in Calls, d # c
    PROVE  leg'[d] = leg[d] /\ harm'[d] = harm[d]
  BY ReleaseApart DEF HangUp, RestT

LEMMA HarmApart ==
    ASSUME IInv, NEW c \in Calls, StepOf(c), NEW d \in Calls, d # c
    PROVE  harm'[d] = harm[d]
<1>0. LegT /\ RestT /\ "in" \in Legs /\ "out" \in Legs
  BY DEF IInv, Typed, Legs
<1>1. CASE UNCHANGED harm
  BY <1>1
<1>2. CASE FailChannel(c) \/ FinishHangsOut(c) \/ FinishHangsIn(c) \/ HangUpOrphan(c)
  BY <1>0, <1>1, <1>2, HangUpApart DEF FailChannel, FinishHangsOut, FinishHangsIn, HangUpOrphan
<1>3. CASE FinishDestroysBridge(c) \/ Breaks(c)
  BY <1>0, <1>3 DEF FinishDestroysBridge, Breaks, RestT
<1> QED
  BY <1>1, <1>2, <1>3 DEF StepOf, Environment, Task, Finish, Pump, Watchdog

LEMMA FinishApart ==
    ASSUME CallT, FinT, NEW calls \in [Calls -> CallStates], NEW c \in Calls,
           NEW status, NEW cause, StartFinish(calls, c, status, cause),
           \A d \in Calls : d # c => calls[d] = call[d], NEW d \in Calls, d # c
    PROVE  call'[d] = call[d] /\ fin'[d] = fin[d]
  BY FinishingFrame

LEMMA StepsApart ==
    ASSUME IInv, NEW c \in Calls, StepOf(c), NEW d \in Calls, d # c
    PROVE  SameCall(d) /\ (InPump(d, "mark")' => InPump(d, "mark"))
<1> DEFINE goal == SameCall(d) /\ (InPump(d, "mark")' => InPump(d, "mark"))
<1>0. /\ LegT /\ RestT /\ TaskT /\ CallT /\ FinT /\ RowT
      /\ call \in [Calls -> CallStates] /\ "in" \in Legs /\ "out" \in Legs
  BY DEF IInv, Typed, CallT, Legs
<1> USE DEF SameCall, InPump, asterisk, app, Idle
<1>1. CASE Environment(c)
  BY <1>0, <1>1, ReleaseApart
  DEF Environment, CallerDials, CallerHangsUp, CalleeAnswers, CalleeUnavailable,
      CalleeHangsUp, LegT
<1>2. ASSUME NEW status, NEW cause, FinishInTask(c, status, cause),
             UNCHANGED <<leg, row, pump>>
      PROVE  goal
  BY <1>0, <1>2, FinishApart DEF FinishInTask, TaskT
<1>3. CASE Task(c)
  <2>1. CASE Reject(c) \/ RejectPlayed(c) \/ Ask(c) \/ Goodbye(c)
    BY <1>0, <1>2, <2>1 DEF Reject, RejectPlayed, Ask, Goodbye, GoTo, TaskT
  <2>2. CASE CodeMatches(c) \/ CodeWrong(c) \/ AttachSession(c) \/ CheckLimit(c)
    BY <1>0, <2>2 DEF CodeMatches, CodeWrong, AttachSession, CheckLimit, GoTo, RejectWith,
                      TaskT, CallT, RowT
  <2>3. CASE Ring(c) \/ CreateBridge(c) \/ BridgeCreated(c) \/ AddCaller(c)
    <3>1. CASE AddCaller(c)
      <4>1. task'[d] = task[d]
        BY <1>0, <3>1 DEF AddCaller, GoTo, RejectWith, TaskT
      <4>2. call'[d] = call[d]
        BY <1>0, <3>1 DEF AddCaller, NameCallee
      <4> QED
        BY <3>1, <4>1, <4>2 DEF AddCaller
    <3>2. CASE ~AddCaller(c)
      BY <1>0, <2>3, <3>2 DEF Ring, CreateBridge, BridgeCreated, GoTo, RejectWith, TaskT, CallT
    <3> QED
      BY <3>1, <3>2
  <2>4. CASE Originate(c) \/ OriginateAnswered(c) \/ OriginateFailed(c)
    <3>1. task'[d] = task[d]
      BY <1>0, <2>4 DEF Originate, OriginateAnswered, OriginateFailed, GoTo, RejectWith, TaskT
    <3>2. leg'[d] = leg[d]
      BY <1>0, <2>4 DEF Originate, OriginateAnswered, OriginateFailed, LegT
    <3> QED
      BY <1>0, <2>4, <3>1, <3>2 DEF Originate, OriginateAnswered, OriginateFailed, CallT
  <2>5. CASE FailChannel(c)
    BY <1>0, <2>5, HangUpApart DEF FailChannel, GoTo, TaskT
  <2> QED
    BY <1>3, <2>1, <2>2, <2>3, <2>4, <2>5 DEF Task
<1>4. CASE Watchdog(c)
  BY <1>0, <1>4, FinishApart DEF Watchdog, WatchdogFires
<1>5. CASE Finish(c)
  <2>1. CASE FinishHangsOut(c) \/ FinishHangsIn(c)
    BY <1>0, <2>1, HangUpApart DEF FinishHangsOut, FinishHangsIn, CallT, FinT
  <2>2. CASE FinishDestroysBridge(c) \/ FinishForgets(c)
    BY <1>0, <2>2 DEF FinishDestroysBridge, FinishForgets, Forget, CloseRow, CallT, FinT,
                      TaskT, RowT
  <2> QED
    BY <1>5, <2>1, <2>2 DEF Finish
<1>6. CASE Breaks(c)
  BY <1>0, <1>6 DEF Breaks, TaskBreaks, FinishBreaks, ResolveBreaks, JournalBreaks,
                    CauseBreaks, GoTo, TaskT, FinT
<1>7. ASSUME NEW calls \in [Calls -> CallStates], NEW status, NEW cause,
             FinishInPump(calls, c, status, cause), UNCHANGED <<leg, row, task>>,
             \A x \in Calls : x # c => calls[x] = call[x]
      PROVE  goal
  BY <1>0, <1>7, FinishApart DEF FinishInPump
<1>8. CASE Pump(c)
  <2>1. CASE InboundStarts(c) \/ OutboundStarts(c) \/ JournalAnswer(c)
    BY <1>0, <2>1 DEF InboundStarts, OutboundStarts, JournalAnswer, MarkAnswered, RowT
  <2>2. ASSUME NEW action \in {"reject", "ask", "connect"}, Resolve(c, action)
        PROVE  goal
    <3>1. task'[d] = task[d]
      BY <1>0, <2>2 DEF Resolve, GoTo, RejectWith, TaskT
    <3>2. call'[d] = call[d]
      BY <1>0, <2>2 DEF Resolve
    <3>3. row'[d] = row[d]
      BY <1>0, <2>2 DEF Resolve, OpenRow, RowT
    <3> QED
      BY <1>0, <2>2, <3>1, <3>2, <3>3 DEF Resolve
  <2>3. CASE HangUpOrphan(c)
    BY <1>0, <2>3, HangUpApart DEF HangUpOrphan
  <2>4. CASE AnswerCaller(c) \/ JoinCallee(c)
    BY <1>0, <1>7, <2>4 DEF AnswerCaller, JoinCallee, CallT
  <2>5. CASE InboundEnds(c) \/ InboundDestroyed(c)
    BY <1>0, <1>7, <2>5 DEF InboundEnds, InboundDestroyed, RecordCause, RowT
  <2>6. CASE OutboundEnds(c) \/ OutboundDestroyed(c)
    <3> DEFINE unmapped == [call EXCEPT ![c] = [call[c] EXCEPT !.mapped = FALSE]]
    <3>1. unmapped \in [Calls -> CallStates] /\ \A x \in Calls : x # c => unmapped[x] = call[x]
      BY <1>0, CallSet
    <3> QED
      BY <1>0, <1>7, <2>6, <3>1 DEF OutboundEnds, OutboundDestroyed
  <2> QED
    BY <1>8, <2>1, <2>2, <2>3, <2>4, <2>5, <2>6 DEF Pump
<1> QED
  BY <1>1, <1>3, <1>4, <1>5, <1>6, <1>8 DEF StepOf

LEMMA KeptApart ==
    ASSUME NEW d \in Calls, Kept(d), SameCall(d), harm'[d] = harm[d],
           InPump(d, "mark")' => InPump(d, "mark")
    PROVE  Kept(d)' /\ UNCHANGED Contract(d)!vars
<1>1. Honest(d)'
  BY DEF Kept, SameCall, Honest
<1>2. Opened(d)'
  BY DEF Kept, SameCall, Opened, Contract!NoEntry
<1>3. UNCHANGED Contract(d)!vars
  BY DEF SameCall, Contract!vars
<1> QED
  BY <1>1, <1>2, <1>3 DEF Kept

-----------------------------------------------------------------------------
(* What a step does to its own call                                        *)
Silent(c) == UNCHANGED Contract(c)!vars

Held(c) == Kept(c)' /\ [Contract(c)!Next]_(Contract(c)!vars)

LEMMA OutcomeOf ==
    ASSUME NEW cause, NEW default, default \notin {"answered", "in_progress"}
    PROVE  StatusOf(cause, default) \notin {"answered", "in_progress"}
  BY DEF StatusOf

(* A teardown that begins                                                  *)
LEMMA FinishKept ==
    ASSUME IInv, NEW c \in Calls, Kept(c), SameRefusals(c), NEW calls, calls \in [Calls -> CallStates],
           \E mapped \in BOOLEAN : calls[c] = [call[c] EXCEPT !.mapped = mapped],
           NEW status, status \notin {"answered", "in_progress"}, NEW cause,
           StartFinish(calls, c, status, cause), row[c].status # "none",
           leg'[c] = leg[c], row'[c] = row[c], task'[c].status = task[c].status,
           task'[c].at = task[c].at \/ task'[c].at \in {"done", "finish"},
           InPump(c, "mark")' => InPump(c, "mark")
    PROVE  Kept(c)' /\ Silent(c)
<1> USE DEF SameRefusals
<1> USE DEF Kept
<1>1. /\ call[c] \in CallStates /\ fin[c] \in FinStates
      /\ CallT /\ FinT
  BY DEF IInv, Typed, CallT, FinT
<1>2. call'[c].answered = call[c].answered /\ call'[c].session = call[c].session
  <2>1. /\ calls[c] \in CallStates
        /\ calls[c].answered = call[c].answered /\ calls[c].session = call[c].session
    BY <1>1 DEF CallStates
  <2>2. call'[c] = calls[c] \/ call'[c] = [calls[c] EXCEPT !.finishing = TRUE]
    BY <1>1 DEF StartFinish
  <2> QED
    BY <2>1, <2>2 DEF CallStates
<1>3. \/ fin'[c].status = fin[c].status
      \/ /\ fin'[c].status # "in_progress"
         /\ fin'[c].status = "answered" => call[c].answered
  BY <1>1, OutcomeOf DEF StartFinish, FinT
<1>4. task'[c].at = "none" => task[c].at = "none"
  OBVIOUS
<1>5. Honest(c)'
  BY <1>2, <1>3 DEF Honest
<1>6. Opened(c)'
  BY <1>2, <1>4 DEF Opened, Contract!NoEntry, Undialed, Routed
<1> QED
  BY <1>2, <1>5, <1>6 DEF Silent, Contract!vars

(* The facts about the call the steps below need                           *)
LEMMA CallTyped ==
    ASSUME IInv, NEW c \in Calls
    PROVE  /\ TaskT /\ CallT /\ FinT /\ RowT /\ LegT
           /\ task[c] \in TaskStates /\ call[c] \in CallStates
           /\ fin[c] \in FinStates /\ row[c] \in RowStates /\ leg[c] \in [Legs -> LegStates]
           /\ Course(c) /\ Teardown(c) /\ Journalled(c)
  BY DEF IInv, Typed, TaskT, CallT, FinT, RowT, LegT, Good

(* Only the task of the call, or flags of it the contract does not know    *)
LEMMA MovesKept ==
    ASSUME IInv, NEW c \in Calls, Kept(c), NEW s \in TaskStates,
           s.status \notin {"answered", "in_progress"},
           task' = [task EXCEPT ![c] = s], task[c].at \notin {"none", "done"},
           s.at \in Undialed => task[c].at \in Undialed,
           s.at \in Routed => task[c].at \in Routed, s.at # "none",
           task[c].at = "fail_channel" => s.at \in {"fail_channel", "done"},
           leg'[c]["out"] = leg[c]["out"], row'[c] = row[c], fin'[c] = fin[c],
           call'[c].answered = call[c].answered, call'[c].session = call[c].session,
           call'[c].known = call[c].known, call'[c].finishing = call[c].finishing,
           pump' = pump
    PROVE  Kept(c)'
<1>1. task'[c] = s
  BY CallTyped DEF TaskT
<1>2. Honest(c)'
  BY <1>1 DEF Kept, Honest, InPump
<1>3. Opened(c)'
  BY <1>1 DEF Kept, Opened, Contract!NoEntry
<1> QED
  BY <1>2, <1>3 DEF Kept

LEMMA GoToKept ==
    ASSUME TaskT, NEW c \in Calls, Honest(c)
    PROVE  /\ \A step \in TaskSteps : GoTo(c, step) =>
                  \E s \in TaskStates : /\ s.at = step /\ s.status = task[c].status
                                      /\ task' = [task EXCEPT ![c] = s]
           /\ \A status \in Statuses : RejectWith(c, status) =>
                  \E s \in TaskStates : /\ s.at = "reject" /\ s.status = status
                                      /\ task' = [task EXCEPT ![c] = s]
<1>1. ASSUME NEW step \in TaskSteps, GoTo(c, step)
      PROVE  \E s \in TaskStates : /\ s.at = step /\ s.status = task[c].status
                                  /\ task' = [task EXCEPT ![c] = s]
  <2> DEFINE s == [task[c] EXCEPT !.at = step]
  <2>1. s \in TaskStates /\ s.at = step /\ s.status = task[c].status
    BY DEF TaskT, TaskStates
  <2>2. task' = [task EXCEPT ![c] = s]
    BY <1>1 DEF GoTo
  <2> HIDE DEF s
  <2> QED
    BY <2>1, <2>2
<1>2. ASSUME NEW status \in Statuses, RejectWith(c, status)
      PROVE  \E s \in TaskStates : /\ s.at = "reject" /\ s.status = status
                                  /\ task' = [task EXCEPT ![c] = s]
  <2> DEFINE s == [task[c] EXCEPT !.at = "reject", !.status = status]
  <2>1. s \in TaskStates /\ s.at = "reject" /\ s.status = status
    BY DEF TaskT, TaskStates, TaskSteps
  <2>2. task' = [task EXCEPT ![c] = s]
    BY <1>2 DEF RejectWith, TaskT
  <2> HIDE DEF s
  <2> QED
    BY <2>1, <2>2
<1> QED
  BY <1>1, <1>2

(* The steps of the task that only go on                                   *)
Silences(c) ==
    /\ UNCHANGED <<leg, fin, row, pump>>
    /\ \E r \in CallStates :
           /\ call' = [call EXCEPT ![c] = r]
           /\ r.answered = call[c].answered /\ r.session = call[c].session
           /\ r.known = call[c].known /\ r.finishing = call[c].finishing

Proceeds(c) ==
    \/ \E step \in TaskSteps :
          /\ GoTo(c, step) /\ step # "none"
          /\ step \in Undialed => task[c].at \in Undialed
          /\ step \in Routed => task[c].at \in Routed
          /\ task[c].at = "fail_channel" => step \in {"fail_channel", "done"}
    \/ /\ task[c].at # "fail_channel"
       /\ \E status \in Statuses \ {"answered", "in_progress"} : RejectWith(c, status)

LEMMA ProceedsHeld ==
    ASSUME IInv, NEW c \in Calls, Kept(c), SameRefusals(c), task[c].at \notin {"none", "done"},
           Proceeds(c), Silences(c)
    PROVE  Held(c)
<1> USE DEF SameRefusals
<1>1. PICK r \in CallStates :
          /\ call' = [call EXCEPT ![c] = r]
          /\ r.answered = call[c].answered /\ r.session = call[c].session
          /\ r.known = call[c].known /\ r.finishing = call[c].finishing
  BY DEF Silences
<1>2. call'[c] = r
  BY <1>1, CallTyped DEF CallT
<1>3. PICK s \in TaskStates :
          /\ s.status \notin {"answered", "in_progress"} /\ s.at # "none"
          /\ task' = [task EXCEPT ![c] = s]
          /\ s.at \in Undialed => task[c].at \in Undialed
          /\ s.at \in Routed => task[c].at \in Routed
          /\ task[c].at = "fail_channel" => s.at \in {"fail_channel", "done"}
  <2>1. ASSUME NEW step \in TaskSteps,
               /\ GoTo(c, step) /\ step # "none"
               /\ step \in Undialed => task[c].at \in Undialed
               /\ step \in Routed => task[c].at \in Routed
               /\ task[c].at = "fail_channel" => step \in {"fail_channel", "done"}
        PROVE  \E s \in TaskStates :
                   /\ s.at = step /\ s.status \notin {"answered", "in_progress"}
                   /\ task' = [task EXCEPT ![c] = s]
    BY <2>1, GoToKept, CallTyped DEF Kept, Honest
  <2>2. ASSUME NEW status \in Statuses \ {"answered", "in_progress"}, RejectWith(c, status)
        PROVE  \E s \in TaskStates :
                   /\ s.at = "reject" /\ s.status \notin {"answered", "in_progress"}
                   /\ task' = [task EXCEPT ![c] = s]
    BY <2>2, GoToKept, CallTyped DEF Kept
  <2>3. "reject" \notin Undialed /\ "reject" \notin Routed
    BY DEF Undialed, Routed
  <2> QED
    BY <2>1, <2>2, <2>3 DEF Proceeds
<1>4. UNCHANGED <<leg, fin, row, pump>>
  BY DEF Silences
<1>5. Kept(c)'
  BY <1>1, <1>2, <1>3, <1>4, MovesKept
<1> QED
  BY <1>1, <1>2, <1>4, <1>5 DEF Held, Contract!vars

LEMMA SilentCall ==
    ASSUME CallT, NEW c \in Calls
    PROVE  /\ UNCHANGED call => \E r \in CallStates :
                  /\ call' = [call EXCEPT ![c] = r]
                  /\ r.answered = call[c].answered /\ r.session = call[c].session
                  /\ r.known = call[c].known /\ r.finishing = call[c].finishing
           /\ \A b \in BOOLEAN :
                  \/ call' = [call EXCEPT ![c] = [call[c] EXCEPT !.bridge_id = b]]
                  \/ call' = [call EXCEPT ![c] = [call[c] EXCEPT !.mapped = b]]
                  \/ call' = [call EXCEPT ![c] = [call[c] EXCEPT !.outbound_id = b, !.mapped = b]]
                  => \E r \in CallStates :
                        /\ call' = [call EXCEPT ![c] = r]
                        /\ r.answered = call[c].answered /\ r.session = call[c].session
                        /\ r.known = call[c].known /\ r.finishing = call[c].finishing
<1>1. CASE UNCHANGED call
  <2>1. call' = [call EXCEPT ![c] = call[c]] /\ call[c] \in CallStates
    BY <1>1 DEF CallT
  <2> QED
    BY <2>1
<1>2. ASSUME NEW b \in BOOLEAN,
             NEW r \in {[call[c] EXCEPT !.bridge_id = b], [call[c] EXCEPT !.mapped = b],
                        [call[c] EXCEPT !.outbound_id = b, !.mapped = b]}
      PROVE  /\ r \in CallStates
             /\ r.answered = call[c].answered /\ r.session = call[c].session
             /\ r.known = call[c].known /\ r.finishing = call[c].finishing
  BY DEF CallT, CallStates
<1> QED
  BY <1>1, <1>2

LEMMA TaskGoesOn ==
    ASSUME IInv, NEW c \in Calls, Kept(c), SameRefusals(c),
           \/ CodeMatches(c) \/ CheckLimit(c) \/ Ring(c) \/ CreateBridge(c)
           \/ BridgeCreated(c) \/ AddCaller(c) \/ OriginateAnswered(c) \/ OriginateFailed(c)
           \/ TaskBreaks(c)
    PROVE  Held(c)
<1> USE DEF SameRefusals
<1> USE DEF asterisk
<1>1. {"failed", "rejected"} \subseteq Statuses \ {"answered", "in_progress"}
  BY DEF Statuses
<1>2. Proceeds(c)
  <2>1. CASE CodeMatches(c) \/ CheckLimit(c) \/ Ring(c)
    BY <1>1, <2>1 DEF CodeMatches, CheckLimit, Ring, Proceeds, TaskSteps, Undialed, Routed
  <2>2. CASE CreateBridge(c) \/ BridgeCreated(c) \/ AddCaller(c)
    BY <1>1, <2>2 DEF CreateBridge, BridgeCreated, AddCaller, Proceeds, TaskSteps, Undialed,
                      Routed
  <2>3. CASE OriginateAnswered(c) \/ OriginateFailed(c) \/ TaskBreaks(c)
    BY <1>1, <2>3 DEF OriginateAnswered, OriginateFailed, TaskBreaks, Proceeds, TaskSteps,
                      Undialed, Routed
  <2> QED
    BY <2>1, <2>2, <2>3
<1>3. task[c].at \notin {"none", "done"}
  BY DEF CodeMatches, CheckLimit, Ring, CreateBridge, BridgeCreated, AddCaller,
         OriginateAnswered, OriginateFailed, TaskBreaks
<1>4. UNCHANGED <<leg, fin, row, pump>>
  BY DEF CodeMatches, CheckLimit, Ring, CreateBridge, BridgeCreated, AddCaller,
         OriginateAnswered, OriginateFailed, TaskBreaks
<1>5. \/ UNCHANGED call
      \/ call' = [call EXCEPT ![c] = [call[c] EXCEPT !.bridge_id = TRUE]]
      \/ call' = [call EXCEPT ![c] = [call[c] EXCEPT !.mapped = FALSE]]
      \/ call' = [call EXCEPT ![c] = [call[c] EXCEPT !.outbound_id = TRUE, !.mapped = TRUE]]
  <2>1. CASE AddCaller(c)
    <3>1. CASE NameCallee(c)
      BY <3>1, CallTyped DEF NameCallee, CallT
    <3> QED
      BY <2>1, <3>1 DEF AddCaller
  <2> QED
    BY <2>1 DEF CodeMatches, CheckLimit, Ring, CreateBridge, BridgeCreated,
         OriginateAnswered, OriginateFailed, TaskBreaks
<1>6. Silences(c)
  BY <1>4, <1>5, SilentCall, CallTyped DEF Silences
<1> QED
  BY <1>2, <1>3, <1>6, ProceedsHeld

(* The steps of the task that may end the call                             *)
LEMMA TaskFinishHeld ==
    ASSUME IInv, NEW c \in Calls, Kept(c), SameRefusals(c), NEW status \in Statuses \ {"answered", "in_progress"},
           NEW cause, FinishInTask(c, status, cause), UNCHANGED <<leg, row, pump>>,
           task[c].at \notin {"none", "fail_channel", "done"}
    PROVE  Held(c)
<1> USE DEF SameRefusals
<1>1. task'[c].at \in {"done", "finish"} /\ task'[c].status = task[c].status
  BY CallTyped DEF FinishInTask, TaskT, TaskStates
<1>2. row[c].status # "none"
  BY DEF Kept, Opened
<1>3. \E mapped \in BOOLEAN : call[c] = [call[c] EXCEPT !.mapped = mapped]
  <2>1. call[c].mapped \in BOOLEAN /\ call[c] = [call[c] EXCEPT !.mapped = call[c].mapped]
    BY CallTyped DEF CallStates
  <2> QED
    BY <2>1
<1>4. StartFinish(call, c, status, cause) /\ call \in [Calls -> CallStates]
  BY CallTyped DEF FinishInTask, CallT
<1>5. Kept(c)' /\ Silent(c)
  BY <1>1, <1>2, <1>3, <1>4, FinishKept DEF InPump
<1> QED
  BY <1>5 DEF Held, Silent

LEMMA TaskExplains ==
    ASSUME IInv, NEW c \in Calls, Kept(c), SameRefusals(c),
           Reject(c) \/ RejectPlayed(c) \/ Ask(c) \/ CodeWrong(c) \/ Goodbye(c)
    PROVE  Held(c)
<1> USE DEF SameRefusals
<1> USE DEF asterisk
<1>1. /\ task[c].status \in Statuses \ {"answered", "in_progress"}
      /\ {"failed", "rejected"} \subseteq Statuses \ {"answered", "in_progress"}
  BY CallTyped DEF Kept, Honest, TaskStates, Statuses
<1>2. Silences(c) \/ ~UNCHANGED <<leg, call, fin, row, pump>>
  BY SilentCall, CallTyped DEF Silences
<1>3. CASE RejectPlayed(c) \/ Goodbye(c)
  BY <1>1, <1>3, TaskFinishHeld DEF RejectPlayed, Goodbye
<1>4. CASE Reject(c)
  <2>1. CASE GoTo(c, "reject_play") /\ UNCHANGED <<call, fin>>
    <3>1. Proceeds(c)
      BY <1>4, <2>1 DEF Reject, Proceeds, TaskSteps, Undialed, Routed
    <3> QED
      BY <1>2, <1>4, <2>1, <3>1, ProceedsHeld DEF Reject
  <2> QED
    BY <1>1, <1>4, <2>1, TaskFinishHeld DEF Reject
<1>5. ASSUME task[c].at \in {"ask", "collect"}, NEW r \in TaskStates,
             r.at \in {"collect", "goodbye"}, r.status = task[c].status,
             task' = [task EXCEPT ![c] = r], UNCHANGED <<leg, call, fin, row, pump>>
      PROVE  Held(c)
  <2>1. Kept(c)'
    BY <1>1, <1>5, MovesKept DEF Undialed, Routed
  <2> QED
    BY <1>5, <2>1 DEF Held, Contract!vars
<1>6. CASE Ask(c)
  <2>1. CASE task' = [task EXCEPT ![c].at = "collect", ![c].attempt = 1]
             /\ UNCHANGED <<call, fin>>
    <3> DEFINE r == [task[c] EXCEPT !.at = "collect", !.attempt = 1]
    <3>1. r \in TaskStates /\ r.at = "collect"
      BY FirstAttempt, CallTyped
    <3>2. r.status = task[c].status
      BY CallTyped DEF TaskStates
    <3>3. task' = [task EXCEPT ![c] = r]
      BY <2>1, CallTyped DEF TaskT
    <3> HIDE DEF r
    <3> QED
      BY <1>5, <1>6, <2>1, <3>1, <3>2, <3>3 DEF Ask
  <2> QED
    BY <1>1, <1>6, <2>1, TaskFinishHeld DEF Ask
<1>7. CASE CodeWrong(c)
  <2> DEFINE r == IF AttemptsLeft(c) THEN [task[c] EXCEPT !.attempt = task[c].attempt + 1]
                  ELSE [task[c] EXCEPT !.at = "goodbye"]
  <2>1. r \in TaskStates /\ r.at \in {"collect", "goodbye"} /\ r.status = task[c].status
    BY <1>7, CallTyped, CallFlowAssumption DEF CodeWrong, AttemptsLeft, TaskStates, TaskSteps
  <2>2. task' = [task EXCEPT ![c] = r]
    BY <1>7 DEF CodeWrong
  <2> HIDE DEF r
  <2> QED
    BY <1>5, <1>7, <2>1, <2>2 DEF CodeWrong
<1> QED
  BY <1>3, <1>4, <1>6, <1>7

(* The PIN attaches the session.                                           *)
LEMMA AttachHeld ==
    ASSUME IInv, NEW c \in Calls, Kept(c), SameRefusals(c), AttachSession(c)
    PROVE  Held(c)
<1> USE DEF SameRefusals
<1>1. /\ task[c].at = "attach" /\ task'[c].at = "limit" /\ task'[c].status = task[c].status
      /\ row'[c] = [row[c] EXCEPT !.session = TRUE]
      /\ call'[c] = [call[c] EXCEPT !.session = TRUE]
      /\ UNCHANGED <<leg, fin, pump>>
  BY CallTyped DEF AttachSession, GoTo, TaskT, TaskStates, CallT, RowT, asterisk
<1>2. call'[c].answered = call[c].answered
  BY <1>1, CallTyped DEF CallStates
<1>3. /\ row'[c].session /\ row'[c].status = row[c].status /\ row[c].status = "in_progress"
  BY <1>1, CallTyped DEF RowStates, Kept, Opened, Undialed
<1>4. Honest(c)'
  BY <1>1, <1>2 DEF Kept, Honest, InPump
<1>5. Opened(c)'
  BY <1>1, <1>3 DEF Opened
<1>6. leg[c]["out"] = "none"
  BY <1>1, CallTyped DEF Course, Undialed
<1>7. Contract(c)!Attach
  BY <1>1, <1>2, <1>3, <1>6 DEF Contract!Attach
<1> QED
  BY <1>4, <1>5, <1>7 DEF Held, Kept, Contract!Next

(* Asterisk dials.                                                         *)
LEMMA OriginateHeld ==
    ASSUME IInv, NEW c \in Calls, Kept(c), SameRefusals(c), Originate(c)
    PROVE  Held(c)
<1> USE DEF SameRefusals
<1>1. /\ task[c].at = "originate" /\ row[c].status = "in_progress" /\ row[c].session
      /\ leg[c]["out"] = "none" /\ UNCHANGED <<call, fin, row, pump>>
  BY CallTyped DEF Originate, Kept, Opened, Undialed, Routed, Course
<1>2. CASE UNCHANGED leg
  <2>1. Proceeds(c)
    BY <1>1, <1>2, CallTyped DEF Originate, Proceeds, TaskSteps, Undialed, Routed, LegT, Legs
  <2>2. Silences(c)
    BY <1>1, <1>2, SilentCall, CallTyped DEF Silences
  <2> QED
    BY <1>1, <2>1, <2>2, ProceedsHeld
<1>3. CASE ~UNCHANGED leg
  <2>1. /\ leg[c]["in"] = "up" /\ GoTo(c, "originated")
        /\ leg' = [leg EXCEPT ![c] = [leg[c] EXCEPT !["out"] = "dialing"]]
    BY <1>3 DEF Originate, Alive
  <2>2. leg'[c]["in"] = leg[c]["in"] /\ leg'[c]["out"] = "dialing"
    BY <2>1, CallTyped DEF LegT, Legs
  <2>3. task'[c].at = "originated" /\ task'[c].status = task[c].status
    BY <2>1, CallTyped DEF GoTo, TaskT, TaskStates
  <2>4. Honest(c)'
    BY <1>1, <2>2, <2>3 DEF Kept, Honest, InPump
  <2>5. Opened(c)'
    BY <1>1, <2>2, <2>3 DEF Kept, Opened, Undialed, Routed
  <2>6. Contract(c)!Dial
    BY <1>1, <2>1, <2>2 DEF Contract!Dial
  <2> QED
    BY <2>4, <2>5, <2>6 DEF Held, Kept, Contract!Next
<1> QED
  BY <1>2, <1>3

(* A channel goes.                                                         *)
LEMMA LegGone ==
    ASSUME IInv, NEW c \in Calls, NEW l \in Legs, NEW cause, Release(c, l, cause),
           call'[c].answered = call[c].answered, row'[c] = row[c], SameRefusals(c)
    PROVE  /\ [Contract(c)!Next]_(Contract(c)!vars)
           /\ leg'[c]["out"] = "none" <=> leg[c]["out"] = "none"
<1> USE DEF SameRefusals
<1>1. l = "in" \/ l = "out"
  BY DEF Legs
<1>2. leg[c]["in"] # "dialing"
  BY CallTyped DEF Course
<1>3. /\ \A k \in Legs : \/ leg'[c][k] = leg[c][k]
                         \/ leg[c][k] \in {"dialing", "up"} /\ leg'[c][k] = "gone"
      /\ \A k \in Legs : k # l => leg'[c][k] = leg[c][k]
  <2>1. LegT
    BY CallTyped
  <2>2. Release(c, l, cause)
    OBVIOUS
  <2> QED
    BY <2>1, <2>2, ReleaseApart, Zenon
<1>4. "in" \in Legs /\ "out" \in Legs
  BY DEF Legs
<1>5. \/ leg'[c]["in"] = leg[c]["in"] /\ leg'[c]["out"] = leg[c]["out"]
      \/ leg[c]["in"] = "up" /\ leg'[c]["in"] = "gone" /\ leg'[c]["out"] = leg[c]["out"]
      \/ /\ leg[c]["out"] \in {"dialing", "up"} /\ leg'[c]["out"] = "gone"
         /\ leg'[c]["in"] = leg[c]["in"]
  BY <1>1, <1>2, <1>3, <1>4
<1> QED
  BY <1>5 DEF Contract!Next, Contract!HangUp, Contract!vars

(* A channel is to be hung up, and goes or stays.                          *)
LEMMA HangUpHeld ==
    ASSUME IInv, NEW c \in Calls, NEW l \in Legs, NEW cause, HangUp(c, l, cause),
           call'[c].answered = call[c].answered, row'[c] = row[c]
    PROVE  /\ [Contract(c)!Next]_(Contract(c)!vars)
           /\ leg'[c]["out"] = "none" <=> leg[c]["out"] = "none"
<1>1. CASE Release(c, l, cause) /\ UNCHANGED harm
  BY <1>1, LegGone DEF SameRefusals
<1>2. CASE leg[c][l] \in {"dialing", "up"} /\ harm' = [harm EXCEPT ![c] = harm[c] \cup {l}]
           /\ UNCHANGED leg
  <2>1. l = "in" \/ l = "out"
    BY DEF Legs
  <2>2. leg[c]["in"] # "dialing"
    BY CallTyped DEF Course
  <2>3. harm'[c] = harm[c] \cup {l}
    BY <1>2 DEF IInv, Typed, RestT
  <2>4. harm'[c] \cap Legs = (harm[c] \cap Legs) \cup {l}
    BY <2>3
  <2>5. Contract(c)!Refuse
    BY <1>2, <2>1, <2>2, <2>4 DEF Contract!Refuse
  <2> QED
    BY <1>2, <2>5 DEF Contract!Next
<1> QED
  BY <1>1, <1>2 DEF HangUp

LEMMA FailChannelHeld ==
    ASSUME IInv, NEW c \in Calls, Kept(c), FailChannel(c)
    PROVE  Held(c)
<1>1. /\ task[c].at = "fail_channel" /\ task'[c].at = "done"
      /\ task'[c].status = task[c].status /\ UNCHANGED <<call, fin, row, pump>>
      /\ HangUp(c, "in", 41) \/ UNCHANGED <<leg, harm>>
  BY CallTyped DEF FailChannel, GoTo, TaskT, TaskStates
<1>2. /\ [Contract(c)!Next]_(Contract(c)!vars)
      /\ leg'[c]["out"] = "none" <=> leg[c]["out"] = "none"
  <2>1. CASE UNCHANGED <<leg, harm>>
    BY <1>1, <2>1 DEF Contract!vars
  <2>2. CASE HangUp(c, "in", 41)
    BY <1>1, <2>2, HangUpHeld DEF Legs
  <2> QED
    BY <1>1, <2>1, <2>2
<1>3. Honest(c)'
  BY <1>1, <1>2 DEF Kept, Honest, InPump
<1>4. Opened(c)'
  BY <1>1, <1>2 DEF Kept, Opened, Undialed, Routed
<1> QED
  BY <1>2, <1>3, <1>4 DEF Held, Kept

LEMMA EnvironmentHeld ==
    ASSUME IInv, NEW c \in Calls, Kept(c), SameRefusals(c), Environment(c)
    PROVE  Held(c)
<1> USE DEF SameRefusals
<1> USE DEF asterisk, app
<1>1. UNCHANGED <<task, call, fin, row, pump>>
  BY DEF Environment, CallerDials, CallerHangsUp, CalleeAnswers, CalleeUnavailable,
         CalleeHangsUp
<1>2. /\ [Contract(c)!Next]_(Contract(c)!vars)
      /\ leg'[c]["out"] = "none" <=> leg[c]["out"] = "none"
  <2>1. CASE CallerDials(c)
    <3>1. leg[c]["in"] = "none" /\ leg'[c]["in"] = "up" /\ leg'[c]["out"] = leg[c]["out"]
      BY <2>1, CallTyped DEF CallerDials, LegT, Legs
    <3> QED
      BY <1>1, <3>1 DEF Contract!Next, Contract!CallerArrives
  <2>2. CASE CalleeAnswers(c)
    <3>1. leg[c]["out"] = "dialing" /\ leg'[c]["out"] = "up" /\ leg'[c]["in"] = leg[c]["in"]
      BY <2>2, CallTyped DEF CalleeAnswers, LegT, Legs
    <3> QED
      BY <1>1, <3>1 DEF Contract!Next, Contract!CalleeAnswers
  <2>3. CASE CallerHangsUp(c) \/ CalleeUnavailable(c) \/ CalleeHangsUp(c)
    BY <1>1, <2>3, LegGone DEF CallerHangsUp, CalleeUnavailable, CalleeHangsUp, Legs
  <2> QED
    BY <2>1, <2>2, <2>3 DEF Environment
<1>3. Honest(c)'
  BY <1>1, <1>2 DEF Kept, Honest, InPump
<1>4. Opened(c)'
  BY <1>1, <1>2 DEF Kept, Opened, Contract!NoEntry
<1> QED
  BY <1>2, <1>3, <1>4 DEF Held, Kept

(* The teardown                                                            *)
LEMMA FinishReleasesHeld ==
    ASSUME IInv, NEW c \in Calls, Kept(c),
           \/ FinishHangsOut(c) \/ FinishHangsIn(c) \/ FinishDestroysBridge(c)
           \/ (FinishBreaks(c) \/ WatchdogFires(c)) /\ SameRefusals(c)
    PROVE  Held(c)
<1> USE DEF asterisk
<1>1. CASE WatchdogFires(c) /\ SameRefusals(c)
  <2>1. CASE UNCHANGED <<call, fin>>
    BY <1>1, <2>1 DEF WatchdogFires, SameRefusals, Held, Kept, Honest, Opened, InPump,
                      Contract!vars, Contract!NoEntry
  <2>2. CASE StartFinish(call, c, "no_answer", 19)
    <3>1. row[c].status # "none"
      BY <1>1, CallTyped DEF WatchdogFires, Course, Kept, Opened
    <3>2. \E mapped \in BOOLEAN : call[c] = [call[c] EXCEPT !.mapped = mapped]
      <4>1. call[c].mapped \in BOOLEAN /\ call[c] = [call[c] EXCEPT !.mapped = call[c].mapped]
        BY CallTyped DEF CallStates
      <4> QED
        BY <4>1
    <3>3. Kept(c)' /\ Silent(c)
      BY <1>1, <2>2, <3>1, <3>2, FinishKept, CallTyped DEF WatchdogFires, InPump, CallT
    <3> QED
      BY <3>3 DEF Held, Silent
  <2> QED
    BY <1>1, <2>1, <2>2 DEF WatchdogFires
<1>2. CASE \/ FinishHangsOut(c) \/ FinishHangsIn(c) \/ FinishDestroysBridge(c)
           \/ FinishBreaks(c) /\ SameRefusals(c)
  <2>0. /\ task'[c].status = task[c].status
        /\ task'[c].at = task[c].at \/ (task[c].at = "finish" /\ task'[c].at = "done")
    <3>1. CASE FinishBreaks(c)
      BY <3>1, CallTyped DEF FinishBreaks, TaskT, TaskStates
    <3>2. CASE ~FinishBreaks(c)
      BY <1>2, <3>2 DEF FinishHangsOut, FinishHangsIn, FinishDestroysBridge
    <3> QED
      BY <3>1, <3>2
  <2>1. /\ row' = row
        /\ pump' = pump \/ pump' = Idle
        /\ UNCHANGED call \/ call' = [call EXCEPT ![c] = [call[c] EXCEPT !.mapped = FALSE]]
    BY <1>2 DEF FinishHangsOut, FinishHangsIn, FinishDestroysBridge, FinishBreaks
  <2>2. fin'[c].status = fin[c].status
    BY <1>2, CallTyped DEF FinishHangsOut, FinishHangsIn, FinishDestroysBridge, FinishBreaks,
                           FinT, FinStates
  <2>3. /\ call'[c].answered = call[c].answered /\ call'[c].session = call[c].session
        /\ call'[c].known = call[c].known /\ call'[c].finishing = call[c].finishing
    BY <2>1, CallTyped DEF CallT, CallStates
  <2>4. /\ [Contract(c)!Next]_(Contract(c)!vars)
        /\ leg'[c]["out"] = "none" <=> leg[c]["out"] = "none"
    <3>1. CASE UNCHANGED leg /\ SameRefusals(c)
      BY <2>1, <2>3, <3>1 DEF Contract!vars, SameRefusals
    <3>2. CASE FinishHangsOut(c) \/ FinishHangsIn(c)
      BY <2>1, <2>3, <3>2, HangUpHeld DEF FinishHangsOut, FinishHangsIn, Legs
    <3>3. CASE FinishDestroysBridge(c)
      <4>1. harm'[c] = harm[c] \/ harm'[c] = harm[c] \cup {"bridge"}
        BY <3>3 DEF FinishDestroysBridge, IInv, Typed, RestT
      <4>2. UNCHANGED leg /\ SameRefusals(c)
        BY <3>3, <4>1 DEF FinishDestroysBridge, SameRefusals, Legs
      <4> QED
        BY <3>1, <4>2
    <3> QED
      BY <1>2, <3>1, <3>2, <3>3 DEF FinishBreaks
  <2>5. Honest(c)'
    BY <2>0, <2>1, <2>2, <2>3, <2>4 DEF Kept, Honest, InPump, Idle
  <2>6. Opened(c)'
    BY <2>0, <2>1, <2>3, <2>4 DEF Kept, Opened, Contract!NoEntry, Undialed, Routed
  <2> QED
    BY <2>4, <2>5, <2>6 DEF Held, Kept
<1> QED
  BY <1>1, <1>2

(* The row is closed, with the outcome the teardown decided on.            *)
LEMMA ForgetHeld ==
    ASSUME IInv, NEW c \in Calls, Kept(c), SameRefusals(c), FinishForgets(c)
    PROVE  Held(c)
<1> USE DEF SameRefusals
<1> USE DEF asterisk
<1>1. /\ fin[c].at = "journal" /\ leg' = leg
      /\ task'[c].at = "done" /\ task'[c].status = task[c].status
      /\ fin'[c].status = fin[c].status /\ (pump' = pump \/ pump' = Idle)
      /\ CloseRow(c, fin[c].status, fin[c].cause)
  BY CallTyped DEF FinishForgets, Forget, TaskT, TaskStates, FinT, FinStates
<1>2. /\ call'[c].answered = call[c].answered /\ call'[c].session = call[c].session
      /\ call'[c].known = FALSE /\ call'[c].finishing = call[c].finishing
  BY CallTyped DEF FinishForgets, Forget, CallT, CallStates
<1>3. /\ Contract(c)!Released
      /\ ~row[c].ended /\ row[c].cause = NoCause /\ row[c].status # "none"
      /\ task[c].at # "none"
  BY <1>1, CallTyped DEF Teardown, Journalled, Course, Kept, Opened, Contract!Released, Legs
<1>4. row'[c] = [row[c] EXCEPT !.status = fin[c].status, !.ended = TRUE, !.cause = fin[c].cause]
  <2>1. row'[c] = [row[c] EXCEPT !.status = fin[c].status, !.ended = TRUE,
                       !.cause = IF fin[c].cause = NoCause THEN row[c].cause ELSE fin[c].cause,
                       !.session = row[c].session \/ call[c].session]
    BY <1>1, <1>3, CallTyped DEF CloseRow, RowT
  <2>2. (row[c].session \/ call[c].session) = row[c].session
    BY CallTyped DEF Kept, Opened, CallStates, RowStates
  <2>3. (IF fin[c].cause = NoCause THEN row[c].cause ELSE fin[c].cause) = fin[c].cause
    BY <1>3
  <2>4. row'[c] = [row[c] EXCEPT !.status = fin[c].status, !.ended = TRUE,
                       !.cause = fin[c].cause, !.session = row[c].session]
    BY <2>1, <2>2, <2>3
  <2> QED
    BY <2>4, CallTyped DEF RowStates
<1>5. fin[c].status \in Statuses \ {"in_progress"} /\ fin[c].cause \in Causes
  BY CallTyped DEF FinStates, Kept, Honest
<1>6. /\ row'[c].session = row[c].session /\ row'[c].status = fin[c].status
      /\ fin[c].status # "none"
  BY <1>4, <1>5, CallTyped DEF RowStates, Statuses
<1>7. Honest(c)'
  BY <1>1, <1>2 DEF Kept, Honest, InPump, Idle
<1>8. Opened(c)'
  BY <1>1, <1>2, <1>6 DEF Kept, Opened, Undialed, Routed
<1>9. Contract(c)!Close(fin[c].status, fin[c].cause)
  BY <1>1, <1>2, <1>3, <1>4 DEF Contract!Close, Kept, Honest
<1> QED
  BY <1>5, <1>7, <1>8, <1>9 DEF Held, Kept, Contract!Next

(* The event pump                                                          *)
LEMMA PumpQuiet ==
    ASSUME IInv, NEW c \in Calls, Kept(c), SameRefusals(c), UNCHANGED <<leg, task, fin, row>>,
           UNCHANGED call \/ call' = [call EXCEPT ![c] = [call[c] EXCEPT !.mapped = FALSE]],
           InPump(c, "mark")' => InPump(c, "mark")
    PROVE  Held(c)
<1> USE DEF SameRefusals
<1>1. /\ call'[c].answered = call[c].answered /\ call'[c].session = call[c].session
      /\ call'[c].known = call[c].known /\ call'[c].finishing = call[c].finishing
  BY CallTyped DEF CallT, CallStates
<1>2. Honest(c)'
  BY <1>1 DEF Kept, Honest
<1>3. Opened(c)'
  BY <1>1 DEF Kept, Opened, Contract!NoEntry
<1> QED
  BY <1>1, <1>2, <1>3 DEF Held, Kept, Contract!vars

LEMMA PumpFinishHeld ==
    ASSUME IInv, NEW c \in Calls, Kept(c), SameRefusals(c), row[c].status # "none",
           NEW calls, calls = call \/ calls = [call EXCEPT ![c] = [call[c] EXCEPT !.mapped = FALSE]],
           NEW status, status \notin {"answered", "in_progress"}, NEW cause,
           FinishInPump(calls, c, status, cause), UNCHANGED <<leg, task, row>>
    PROVE  Held(c)
<1> USE DEF SameRefusals
<1>1. calls \in [Calls -> CallStates]
  <2>1. [call[c] EXCEPT !.mapped = FALSE] \in CallStates /\ call \in [Calls -> CallStates]
    BY CallTyped, CallSet DEF CallT
  <2> QED
    BY <2>1
<1>2. \E mapped \in BOOLEAN : calls[c] = [call[c] EXCEPT !.mapped = mapped]
  <2>1. call[c].mapped \in BOOLEAN /\ call[c] = [call[c] EXCEPT !.mapped = call[c].mapped]
    BY CallTyped DEF CallStates
  <2>2. calls[c] = call[c] \/ calls[c] = [call[c] EXCEPT !.mapped = FALSE]
    BY CallTyped DEF CallT
  <2> QED
    BY <2>1, <2>2
<1>3. StartFinish(calls, c, status, cause) /\ ~InPump(c, "mark")'
  BY DEF FinishInPump, InPump, Idle
<1>4. Kept(c)' /\ Silent(c)
  BY <1>1, <1>2, <1>3, FinishKept
<1> QED
  BY <1>4 DEF Held, Silent

LEMMA PumpEndsHeld ==
    ASSUME IInv, NEW c \in Calls, Kept(c), SameRefusals(c),
           InboundEnds(c) \/ OutboundEnds(c) \/ OutboundDestroyed(c)
    PROVE  Held(c)
<1> USE DEF SameRefusals
<1>1. pump = Idle /\ UNCHANGED <<leg, task, row>> /\ "answered" # NoStatus
      /\ NoStatus \notin {"answered", "in_progress"}
  BY DEF InboundEnds, OutboundEnds, OutboundDestroyed, Takes, NoStatus
<1>2. call[c].known => row[c].status # "none"
  BY DEF Kept, Opened
<1>3. CASE InboundEnds(c)
  BY <1>1, <1>2, <1>3, PumpQuiet, PumpFinishHeld DEF InboundEnds, InPump
<1>4. CASE OutboundEnds(c)
  BY <1>1, <1>2, <1>4, PumpQuiet, PumpFinishHeld DEF OutboundEnds, InPump
<1>5. CASE OutboundDestroyed(c)
  <2> DEFINE status == IF call[c].answered THEN NoStatus
                       ELSE StatusOf(NextEvent.cause, "no_answer")
  <2>1. status \notin {"answered", "in_progress"}
    BY <1>1, OutcomeOf
  <2>2. \/ FinishInPump(call, c, status, NextEvent.cause) /\ call[c].known
        \/ /\ UNCHANGED <<pump, fin>>
           /\ UNCHANGED call \/ call' = [call EXCEPT ![c] = [call[c] EXCEPT !.mapped = FALSE]]
    BY <1>5 DEF OutboundDestroyed
  <2> HIDE DEF status
  <2> QED
    BY <1>1, <1>2, <2>1, <2>2, PumpQuiet, PumpFinishHeld DEF InPump
<1> QED
  BY <1>3, <1>4, <1>5

LEMMA CauseHeld ==
    ASSUME IInv, NEW c \in Calls, Kept(c), SameRefusals(c), InboundDestroyed(c)
    PROVE  Held(c)
<1> USE DEF SameRefusals
<1>1. pump = Idle /\ UNCHANGED <<leg, task>> /\ NoStatus \notin {"answered", "in_progress"}
  BY DEF InboundDestroyed, Takes, NoStatus
<1>2. CASE call[c].known
  <2>1. row[c].status # "none"
    BY <1>2 DEF Kept, Opened
  <2> QED
    BY <1>1, <1>2, <2>1, PumpFinishHeld DEF InboundDestroyed
<1>3. CASE ~call[c].known
  <2>1. UNCHANGED <<pump, call, fin>> /\ RecordCause(c, NextEvent.cause)
    BY <1>3 DEF InboundDestroyed
  <2>2. CASE UNCHANGED row
    BY <1>1, <2>1, <2>2, PumpQuiet DEF InPump
  <2>3. CASE ~UNCHANGED row
    <3>1. /\ c \in pending /\ row[c].cause = NoCause
          /\ row'[c] = [row[c] EXCEPT !.cause = NextEvent.cause]
      BY <2>1, <2>3, CallTyped DEF RecordCause, RowT
    <3>2. row[c].ended /\ task[c].at = "done"
      BY <3>1, CallTyped DEF Journalled, Teardown
    <3>3. row'[c].status = row[c].status /\ row'[c].session = row[c].session
      BY <3>1, CallTyped DEF RowStates
    <3>4. NextEvent.cause \in Causes
      BY Heads DEF InboundDestroyed, Legs
    <3>5. Contract(c)!Complete(NextEvent.cause)
      BY <1>1, <2>1, <3>1, <3>2 DEF Contract!Complete
    <3>6. Honest(c)'
      BY <1>1, <2>1 DEF Kept, Honest, InPump
    <3>7. Opened(c)'
      BY <1>1, <2>1, <3>2, <3>3 DEF Kept, Opened, Undialed, Routed
    <3> QED
      BY <3>4, <3>5, <3>6, <3>7 DEF Held, Kept, Contract!Next
  <2> QED
    BY <2>2, <2>3
<1> QED
  BY <1>2, <1>3

LEMMA HangUpOrphanHeld ==
    ASSUME IInv, NEW c \in Calls, Kept(c), HangUpOrphan(c)
    PROVE  Held(c)
<1>1. HangUp(c, "out", 16) /\ UNCHANGED <<task, call, fin, row>> /\ ~InPump(c, "mark")'
  BY DEF HangUpOrphan, InPump, Idle
<1>2. /\ [Contract(c)!Next]_(Contract(c)!vars)
      /\ leg'[c]["out"] = "none" <=> leg[c]["out"] = "none"
  BY <1>1, HangUpHeld DEF Legs
<1>3. Honest(c)'
  BY <1>1, <1>2 DEF Kept, Honest
<1>4. Opened(c)'
  BY <1>1, <1>2 DEF Kept, Opened, Contract!NoEntry
<1> QED
  BY <1>2, <1>3, <1>4 DEF Held, Kept

LEMMA CalleeHeld ==
    ASSUME IInv, NEW c \in Calls, Kept(c), SameRefusals(c),
           \/ InboundStarts(c) \/ OutboundStarts(c) \/ AnswerCaller(c)
           \/ JoinCallee(c) \/ JournalBreaks(c) \/ CauseBreaks(c)
    PROVE  Held(c)
<1> USE DEF SameRefusals
<1> USE DEF asterisk
<1>1. CASE InboundStarts(c) \/ OutboundStarts(c) \/ JournalBreaks(c) \/ CauseBreaks(c)
  BY <1>1, PumpQuiet DEF InboundStarts, OutboundStarts, JournalBreaks, CauseBreaks, InPump, Idle
<1>2. CASE AnswerCaller(c) \/ JoinCallee(c)
  <2>1. row[c].status # "none" /\ leg[c]["out"] # "none"
    BY <1>2, CallTyped DEF AnswerCaller, JoinCallee, Course, InPump, Kept, Opened
  <2>2. "failed" \notin {"answered", "in_progress"}
    OBVIOUS
  <2>3. CASE FinishInPump(call, c, "failed", NoCause)
    BY <1>2, <2>1, <2>2, <2>3, PumpFinishHeld DEF AnswerCaller, JoinCallee
  <2>4. CASE AnswerCaller(c) /\ UNCHANGED <<call, fin>> /\ pump' = [at |-> "join", call |-> c]
    BY <2>4, PumpQuiet DEF AnswerCaller, InPump
  <2>5. CASE /\ JoinCallee(c) /\ UNCHANGED fin /\ leg[c]["out"] = "up"
             /\ call' = [call EXCEPT ![c].answered = TRUE]
    <3>1. UNCHANGED <<leg, fin, task, row>>
      BY <2>5 DEF JoinCallee
    <3>2. /\ call'[c].answered = TRUE /\ call'[c].session = call[c].session
          /\ call'[c].known = call[c].known /\ call'[c].finishing = call[c].finishing
      BY <2>5, CallTyped DEF CallT, CallStates
    <3>3. row[c].ended => "out" \in harm[c] \cap Legs
      BY <2>5, CallTyped DEF Journalled, Teardown, Legs
    <3>4. Contract(c)!PutThrough
      BY <2>5, <3>1, <3>2, <3>3 DEF Contract!PutThrough
    <3>5. Honest(c)'
      BY <2>1, <3>1, <3>2 DEF Kept, Honest
    <3>6. Opened(c)'
      BY <3>1, <3>2 DEF Kept, Opened, Contract!NoEntry
    <3> QED
      BY <3>4, <3>5, <3>6 DEF Held, Kept, Contract!Next
  <2> QED
    BY <1>2, <2>3, <2>4, <2>5 DEF AnswerCaller, JoinCallee, Alive
<1> QED
  BY <1>1, <1>2

LEMMA JournalHeld ==
    ASSUME IInv, NEW c \in Calls, Kept(c), SameRefusals(c), JournalAnswer(c)
    PROVE  Held(c)
<1> USE DEF SameRefusals
<1>1. /\ UNCHANGED <<leg, task, call, fin>> /\ InPump(c, "mark") /\ ~InPump(c, "mark")'
      /\ MarkAnswered(c)
  BY DEF JournalAnswer, InPump, Idle, asterisk
<1>2. CASE UNCHANGED row
  BY <1>1, <1>2, PumpQuiet
<1>3. CASE ~UNCHANGED row
  <2>1. row'[c] = [row[c] EXCEPT !.status = "answered", !.answered = TRUE]
    BY <1>1, <1>3, CallTyped DEF MarkAnswered, RowT
  <2>2. /\ call[c].answered /\ row[c].status # "none" /\ leg[c]["out"] # "none"
    BY <1>1 DEF Kept, Honest, Opened
  <2>3. task[c].at \notin Undialed /\ task[c].at # "none"
    BY <2>2, CallTyped DEF Course
  <2>4. row'[c].status = "answered" /\ row'[c].session = row[c].session
    BY <2>1, CallTyped DEF RowStates
  <2>5. Contract(c)!JournalAnswer
    BY <1>1, <2>1, <2>2 DEF Contract!JournalAnswer
  <2>6. Honest(c)'
    BY <1>1 DEF Kept, Honest
  <2>7. Opened(c)'
    BY <1>1, <2>3, <2>4 DEF Kept, Opened
  <2> QED
    BY <2>5, <2>6, <2>7 DEF Held, Kept, Contract!Next
<1> QED
  BY <1>2, <1>3

(* The row is opened.                                                      *)
LEMMA ResolveHeld ==
    ASSUME IInv, NEW c \in Calls, Kept(c), SameRefusals(c), NEW action \in {"reject", "ask", "connect"},
           Resolve(c, action)
    PROVE  Held(c)
<1> USE DEF SameRefusals
<1> DEFINE routed == action = "connect"
<1>1. /\ InPump(c, "resolve") /\ UNCHANGED <<leg, fin>> /\ ~InPump(c, "mark")'
      /\ routed \in BOOLEAN
      /\ row'[c] = [row[c] EXCEPT !.status = "in_progress", !.session = routed]
  BY CallTyped DEF Resolve, OpenRow, RowT, InPump, Idle, asterisk
<1>2. task[c].at = "none" /\ leg[c]["in"] # "none" /\ row[c] = Contract(c)!NoEntry
  BY <1>1, CallTyped DEF Course, Kept, Opened
<1>3. /\ call'[c].answered = call[c].answered /\ call'[c].session = routed
      /\ call'[c].finishing = call[c].finishing
  BY CallTyped DEF Resolve, CallT, CallStates
<1>4. /\ task'[c].status \notin {"answered", "in_progress"}
      /\ task'[c].at \in {"reject", "ask", "limit"} /\ (task'[c].at = "limit" => routed)
  <2>1. task[c].status \notin {"answered", "in_progress"}
    BY DEF Kept, Honest
  <2>2. CASE action = "reject"
    BY <2>2, CallTyped DEF Resolve, RejectWith, TaskT, TaskStates
  <2>3. CASE action = "ask"
    BY <2>1, <2>3, CallTyped DEF Resolve, GoTo, TaskT, TaskStates
  <2>4. CASE action = "connect"
    BY <2>1, <2>4, CallTyped DEF Resolve, GoTo, TaskT, TaskStates
  <2> QED
    BY <2>2, <2>3, <2>4
<1>5. row'[c].status = "in_progress" /\ row'[c].session = routed
  BY <1>1, CallTyped DEF RowStates
<1>6. Contract(c)!Open(routed)
  BY <1>1, <1>2, <1>3 DEF Contract!Open, Contract!NoEntry
<1> HIDE DEF routed
<1>7. Honest(c)'
  BY <1>1, <1>3, <1>4 DEF Kept, Honest
<1>8. Opened(c)'
  BY <1>3, <1>4, <1>5 DEF Opened, Routed
<1> QED
  BY <1>1, <1>6, <1>7, <1>8 DEF Held, Kept, Contract!Next

LEMMA ResolveBreaksHeld ==
    ASSUME IInv, NEW c \in Calls, Kept(c), SameRefusals(c), ResolveBreaks(c)
    PROVE  Held(c)
<1> USE DEF SameRefusals
<1>1. /\ task'[c].at = "fail_channel" /\ task'[c].status = task[c].status
      /\ UNCHANGED <<leg, call, fin, row>> /\ ~InPump(c, "mark")'
  BY CallTyped DEF ResolveBreaks, GoTo, TaskT, TaskStates, InPump, Idle, asterisk
<1>2. Honest(c)'
  BY <1>1 DEF Kept, Honest
<1>3. Opened(c)'
  BY <1>1 DEF Kept, Opened, Undialed, Routed
<1> QED
  BY <1>1, <1>2, <1>3 DEF Held, Kept, Contract!vars

(* Only a request to hang up can be refused.                               *)
LEMMA Refusals ==
    ASSUME IInv, NEW c \in Calls,
           UNCHANGED harm \/ (\E cause \in {"db", "events", "bridge"} :
                                 harm' = [harm EXCEPT ![c] = harm[c] \cup {cause}])
    PROVE  SameRefusals(c)
  BY DEF SameRefusals, IInv, Typed, RestT, Legs

LEMMA StepHeld ==
    ASSUME IInv, NEW c \in Calls, Kept(c), StepOf(c)
    PROVE  Held(c)
<1>1. CASE UNCHANGED harm
  <2>1. SameRefusals(c)
    BY <1>1, Refusals
  <2>2. CASE Task(c)
    BY <2>1, <2>2, TaskExplains, TaskGoesOn, AttachHeld, OriginateHeld, FailChannelHeld DEF Task
  <2>3. CASE Finish(c) \/ Watchdog(c)
    BY <2>1, <2>3, FinishReleasesHeld, ForgetHeld DEF Finish, Watchdog
  <2>4. CASE Pump(c)
    BY <2>1, <2>4, CalleeHeld, HangUpOrphanHeld, PumpEndsHeld, CauseHeld, JournalHeld,
       ResolveHeld DEF Pump
  <2>5. CASE Environment(c)
    BY <2>1, <2>5, EnvironmentHeld
  <2>6. CASE Breaks(c)
    BY <2>1, <2>6, CalleeHeld, TaskGoesOn, FinishReleasesHeld, ResolveBreaksHeld DEF Breaks
  <2> QED
    BY <2>2, <2>3, <2>4, <2>5, <2>6 DEF StepOf
<1>2. CASE \/ FailChannel(c) \/ FinishHangsOut(c) \/ FinishHangsIn(c)
           \/ FinishDestroysBridge(c) \/ HangUpOrphan(c)
  BY <1>2, FailChannelHeld, FinishReleasesHeld, HangUpOrphanHeld
<1>3. CASE Breaks(c)
  <2>1. SameRefusals(c)
    BY <1>3, Refusals DEF Breaks
  <2> QED
    BY <1>3, <2>1, CalleeHeld, TaskGoesOn, FinishReleasesHeld, ResolveBreaksHeld DEF Breaks
<1> QED
  BY <1>1, <1>2, <1>3 DEF StepOf, Environment, Task, Finish, Pump, Watchdog

-----------------------------------------------------------------------------
LEMMA ContractStep ==
    ASSUME IInv, [Next]_vars, NEW d \in Calls, Kept(d)
    PROVE  Held(d)
<1> USE DEF asterisk, app
<1>1. CASE LoseEvents \/ SessionEnds \/ UNCHANGED vars
  <2>1. UNCHANGED <<leg, task, call, fin, row, pump>>
    BY <1>1 DEF LoseEvents, SessionEnds, vars
  <2>2. SameRefusals(d)
    <3>1. CASE LoseEvents
      <4>1. harm'[d] = harm[d] \/ harm'[d] = harm[d] \cup {"events"}
        BY <3>1 DEF LoseEvents
      <4> QED
        BY <4>1 DEF SameRefusals, Legs
    <3>2. CASE SessionEnds \/ UNCHANGED vars
      BY <3>2 DEF SessionEnds, vars, SameRefusals
    <3> QED
      BY <1>1, <3>1, <3>2
  <2> QED
    BY <2>1, <2>2, PumpQuiet DEF InPump
<1>2. ASSUME NEW c \in Calls, StepOf(c)
      PROVE  Held(d)
  <2>1. CASE c = d
    BY <1>2, <2>1, StepHeld
  <2>2. CASE c # d
    BY <1>2, <2>2, StepsApart, HarmApart, KeptApart DEF Held
  <2> QED
    BY <2>1, <2>2
<1> QED
  BY <1>1, <1>2 DEF Next, StepOf

(* A party and the journal get of a call what MaskedCall promises, however *)
(* events, requests and teardowns cross: a channel may outlast the call    *)
(* only by a hangup that failed, and a row is closed only over such ones.  *)
THEOREM CallsKeepContract == Spec => KeepsContract
<1> DEFINE K == \A d \in Calls : Kept(d)
           A == \A c \in Calls : [Contract(c)!Next]_(Contract(c)!vars)
           B == \A c \in Calls : Contract(c)!Init
<1>1. Init => K /\ B
  BY KeptStart
<1>2. IInv /\ K /\ [Next]_vars => K' /\ A
  BY ContractStep DEF Held
<1> HIDE DEF K
<1>3. IInv /\ K /\ [Next]_vars => [A]_vars
  BY <1>2
<1> QED
  BY <1>1, <1>2, <1>3, Invariant, PTL DEF Spec, KeepsContract

-----------------------------------------------------------------------------
(* What the contract is worth                                              *)

LEMMA EntryGoesOn ==
    ASSUME NEW c \in Calls, row[c] \in RowStates, ~row[c].ended => row[c].cause = NoCause,
           [Contract(c)!Next]_(Contract(c)!vars)
    PROVE  /\ row[c].cause # NoCause => row'[c].cause = row[c].cause
           /\ row[c].ended => row'[c].ended
<1> USE DEF RowStates
<1>1. CASE UNCHANGED row[c]
  BY <1>1
<1>2. ASSUME NEW routed \in BOOLEAN, Contract(c)!Open(routed)
      PROVE  row'[c].cause = NoCause /\ ~row[c].ended /\ row[c].cause = NoCause
  BY <1>2 DEF Contract!Open, Contract!NoEntry
<1>3. CASE Contract(c)!Attach \/ Contract(c)!JournalAnswer
  BY <1>3 DEF Contract!Attach, Contract!JournalAnswer
<1>4. ASSUME NEW cause \in Causes, Contract(c)!Complete(cause)
      PROVE  row[c].cause = NoCause /\ row'[c].ended = row[c].ended
  BY <1>4 DEF Contract!Complete
<1>5. ASSUME NEW status, NEW cause, Contract(c)!Close(status, cause)
      PROVE  ~row[c].ended
  BY <1>5 DEF Contract!Close
<1> QED
  BY <1>1, <1>2, <1>3, <1>4, <1>5
  DEF Contract!Next, Contract!vars, Contract!CallerArrives, Contract!HangUp,
      Contract!Refuse, Contract!CalleeAnswers, Contract!Dial, Contract!PutThrough

(* A journalled cause stays, and so does the end of a call, whatever       *)
(* finish_call, mark_answered and set_hangup_cause come late.              *)
THEOREM CausesKept == Spec => CauseKept
<1> DEFINE K == \A d \in Calls : Kept(d)
           A == \A c \in Calls : /\ row[c].cause # NoCause => row'[c].cause = row[c].cause
                                 /\ row[c].ended => row'[c].ended
<1>1. Init => K
  BY KeptStart
<1>2. IInv /\ K /\ [Next]_vars => K' /\ A
  <2>1. IInv => \A c \in Calls : /\ row[c] \in RowStates
                                 /\ ~row[c].ended => row[c].cause = NoCause
    BY CallTyped DEF Journalled
  <2> QED
    BY <2>1, ContractStep, EntryGoesOn DEF Held
<1> HIDE DEF K
<1>3. IInv /\ K /\ [Next]_vars => [A]_vars
  BY <1>2
<1> QED
  BY <1>1, <1>2, <1>3, Invariant, PTL DEF Spec, CauseKept

LEMMA TruthKept ==
    ASSUME NEW c \in Calls, row[c] \in RowStates, Contract(c)!Truthful,
           [Contract(c)!Next]_(Contract(c)!vars)
    PROVE  Contract(c)!Truthful'
<1> USE DEF RowStates, Contract!Truthful
<1>0. ASSUME UNCHANGED <<leg[c]["in"], leg[c]["out"], harm[c] \cap Legs>>
      PROVE  Contract(c)!Released' <=> Contract(c)!Released
  BY <1>0 DEF Contract!Released
<1>1. CASE UNCHANGED Contract(c)!vars
  BY <1>0, <1>1 DEF Contract!vars
<1>2. CASE Contract(c)!CallerArrives \/ Contract(c)!HangUp \/ Contract(c)!CalleeAnswers
           \/ Contract(c)!Refuse
  <2>1. Contract(c)!Released => Contract(c)!Released'
    <3>1. CASE Contract(c)!CallerArrives \/ Contract(c)!HangUp
      BY <3>1 DEF Contract!CallerArrives, Contract!HangUp, Contract!Released
    <3>2. CASE Contract(c)!CalleeAnswers
      BY <3>2 DEF Contract!CalleeAnswers, Contract!Released
    <3>3. CASE Contract(c)!Refuse
      BY <3>3 DEF Contract!Refuse, Contract!Released
    <3> QED
      BY <1>2, <3>1, <3>2, <3>3
  <2>2. UNCHANGED <<call[c].answered, row[c]>>
    BY <1>2 DEF Contract!CallerArrives, Contract!HangUp, Contract!CalleeAnswers, Contract!Refuse
  <2>3. leg[c]["out"] # "none" <=> leg'[c]["out"] # "none"
    BY <1>2 DEF Contract!CallerArrives, Contract!HangUp, Contract!CalleeAnswers, Contract!Refuse
  <2> QED
    BY <2>1, <2>2, <2>3
<1>3. CASE Contract(c)!Dial \/ Contract(c)!PutThrough
  <2>1. CASE Contract(c)!Dial
    BY <2>1 DEF Contract!Dial
  <2>2. CASE Contract(c)!PutThrough
    <3>1. Contract(c)!Released' <=> Contract(c)!Released
      BY <1>0, <2>2 DEF Contract!PutThrough
    <3> QED
      BY <2>2, <3>1 DEF Contract!PutThrough
  <2> QED
    BY <1>3, <2>1, <2>2
<1>4. CASE Contract(c)!Attach \/ Contract(c)!JournalAnswer
  <2>1. Contract(c)!Released' <=> Contract(c)!Released
    BY <1>0, <1>4 DEF Contract!Attach, Contract!JournalAnswer
  <2> QED
    BY <1>4, <2>1 DEF Contract!Attach, Contract!JournalAnswer
<1>5. ASSUME NEW routed \in BOOLEAN, Contract(c)!Open(routed)
      PROVE  Contract(c)!Truthful'
  BY <1>5 DEF Contract!Open, Contract!NoEntry
<1>6. ASSUME NEW cause \in Causes, Contract(c)!Complete(cause)
      PROVE  Contract(c)!Truthful'
  BY <1>0, <1>6 DEF Contract!Complete
<1>7. ASSUME NEW status \in Statuses \ {"in_progress"}, NEW cause \in Causes,
             Contract(c)!Close(status, cause)
      PROVE  Contract(c)!Truthful'
  BY <1>0, <1>7 DEF Contract!Close
<1> QED
  BY <1>1, <1>2, <1>3, <1>4, <1>5, <1>6, <1>7 DEF Contract!Next

(* The journal tells the truth at every moment, and not only once the call *)
(* is over: an answered entry is of a callee who was put through, a callee *)
(* who was rung has a session in the entry, and a closed entry has an      *)
(* outcome and is of a call with no channel left but one whose hangup      *)
(* failed.                                                                 *)
THEOREM JournalTruthful == Spec => [](\A c \in Calls : Contract(c)!Truthful)
<1> DEFINE K == \A d \in Calls : Kept(d)
           T == \A c \in Calls : Contract(c)!Truthful
<1>1. Init => K /\ T
  BY KeptStart DEF Contract!Init, Contract!NoEntry, Contract!Truthful
<1>2. IInv /\ K /\ T /\ [Next]_vars => K' /\ T'
  <2> SUFFICES ASSUME IInv, K, T, [Next]_vars PROVE K' /\ T'
    OBVIOUS
  <2>1. K' /\ \A c \in Calls : [Contract(c)!Next]_(Contract(c)!vars)
    BY ContractStep DEF Held
  <2>2. ASSUME NEW c \in Calls PROVE Contract(c)!Truthful'
    BY <2>1, CallTyped, TruthKept
  <2> QED
    BY <2>1, <2>2
<1> HIDE DEF K, T
<1>3. Spec => []T
  BY <1>1, <1>2, Invariant, PTL DEF Spec
<1> QED
  BY <1>3 DEF T

-----------------------------------------------------------------------------
(* Silence after the end                                                   *)

(* A call that has anything in a bridge, or may soon, knows the bridge; a  *)
(* teardown past the bridge has emptied it for good, or was refused to.    *)
Parted(d) ==
    /\ leg[d]["out"] # "none" \/ task[d].at \in {"add_caller", "originate"} \/ joined[d] # {}
           => call[d].bridge_id
    /\ fin[d].at \in {"journal", "done"} /\ "bridge" \notin harm[d] =>
           joined[d] = {} /\ (bridge[d] = "gone" \/ leg[d]["out"] = "none")

LEMMA PartedStart == Init => \A d \in Calls : Parted(d)
  BY DEF Init, Parted, Legs

(* A step that brings nobody into a bridge, and the teardown no further    *)
Apart(d) ==
    /\ joined'[d] \subseteq joined[d]
    /\ bridge'[d] = bridge[d]
    /\ leg[d]["out"] = "none" <=> leg'[d]["out"] = "none"
    /\ call'[d].bridge_id = call[d].bridge_id
    /\ task'[d].at \in {"add_caller", "originate"} => task'[d].at = task[d].at
    /\ fin'[d].at \in {"journal", "done"} => fin[d].at \in {"journal", "done"}

LEMMA ApartKept ==
    ASSUME NEW d \in Calls, Parted(d), Apart(d), HarmStays
    PROVE  Parted(d)'
  BY DEF Parted, Apart, HarmStays

LEMMA HangUpParts ==
    ASSUME IInv, NEW c \in Calls, NEW l \in Legs, NEW cause \in Causes, HangUp(c, l, cause)
    PROVE  /\ joined'[c] \subseteq joined[c]
           /\ leg[c]["out"] = "none" <=> leg'[c]["out"] = "none"
           /\ \A d \in Calls : d # c => joined'[d] = joined[d]
<1>1. /\ \/ leg'[c][l] = leg[c][l] /\ joined'[c] = joined[c]
         \/ /\ leg[c][l] \in {"dialing", "up"} /\ leg'[c][l] = "gone"
            /\ joined'[c] = joined[c] \ {l}
      /\ \A k \in Legs : k # l => leg'[c][k] = leg[c][k]
      /\ \A d \in Calls : d # c => leg'[d] = leg[d] /\ joined'[d] = joined[d]
  BY HangUpEffect DEF IInv, Typed
<1> QED
  BY <1>1 DEF Legs

LEMMA ReleaseParts ==
    ASSUME IInv, NEW c \in Calls, NEW l \in Legs, NEW cause \in Causes, Release(c, l, cause)
    PROVE  /\ joined'[c] \subseteq joined[c]
           /\ leg[c]["out"] = "none" <=> leg'[c]["out"] = "none"
           /\ \A d \in Calls : d # c => joined'[d] = joined[d]
<1>1. /\ \/ leg'[c][l] = leg[c][l] /\ joined'[c] = joined[c]
         \/ /\ leg[c][l] \in {"dialing", "up"} /\ leg'[c][l] = "gone"
            /\ joined'[c] = joined[c] \ {l}
      /\ \A k \in Legs : k # l => leg'[c][k] = leg[c][k]
      /\ \A d \in Calls : d # c => leg'[d] = leg[d] /\ joined'[d] = joined[d]
  BY ReleaseEffect DEF IInv, Typed
<1> QED
  BY <1>1 DEF Legs

(* The calls the step is not about                                         *)
LEMMA BridgesApart ==
    ASSUME IInv, NEW c \in Calls, StepOf(c), NEW d \in Calls, d # c
    PROVE  joined'[d] = joined[d] /\ bridge'[d] = bridge[d]
<1>0. /\ "in" \in Legs /\ "out" \in Legs /\ {16, 17, 19, 41} \subseteq Causes
      /\ JoinedT /\ bridge \in [Calls -> {"none", "up", "gone"}]
      /\ fin[c].cause \in Causes
  BY CallTyped DEF Legs, Causes, IInv, Typed, RestT, FinStates
<1>1. CASE UNCHANGED <<joined, bridge>>
  BY <1>1
<1>2. CASE Environment(c)
  BY <1>0, <1>2, ReleaseParts DEF Environment, CallerDials, CallerHangsUp, CalleeAnswers,
     CalleeUnavailable, CalleeHangsUp
<1>3. CASE FailChannel(c) \/ FinishHangsOut(c) \/ FinishHangsIn(c) \/ HangUpOrphan(c)
  BY <1>0, <1>3, HangUpParts DEF FailChannel, FinishHangsOut, FinishHangsIn, HangUpOrphan
<1>4. CASE FinishDestroysBridge(c) \/ CreateBridge(c) \/ AddCaller(c) \/ JoinCallee(c)
  BY <1>0, <1>4 DEF FinishDestroysBridge, CreateBridge, AddCaller, JoinCallee, JoinedT
<1>5. CASE Task(c) /\ ~FailChannel(c) /\ ~CreateBridge(c) /\ ~AddCaller(c)
  BY <1>1, <1>5
  DEF Task, Reject, RejectPlayed, Ask, CodeMatches, CodeWrong, Goodbye, AttachSession,
      CheckLimit, Ring, BridgeCreated, Originate, OriginateAnswered, OriginateFailed, asterisk
<1>6. CASE FinishForgets(c) \/ Watchdog(c) \/ Breaks(c)
  BY <1>1, <1>6
  DEF FinishForgets, Forget, Watchdog, WatchdogFires, Breaks, TaskBreaks, FinishBreaks,
      ResolveBreaks, JournalBreaks, CauseBreaks, asterisk
<1>7. CASE Pump(c) /\ ~HangUpOrphan(c) /\ ~JoinCallee(c)
  BY <1>1, <1>7
  DEF Pump, InboundStarts, OutboundStarts, Resolve, AnswerCaller, JournalAnswer, InboundEnds,
      OutboundEnds, InboundDestroyed, OutboundDestroyed, asterisk
<1> QED
  BY <1>2, <1>3, <1>4, <1>5, <1>6, <1>7 DEF StepOf, Finish

LEMMA OthersApart ==
    ASSUME IInv, NEW c \in Calls, StepOf(c), NEW d \in Calls, d # c
    PROVE  Apart(d)
  BY StepsApart, BridgesApart DEF SameCall, Apart

(* A teardown that begins is not past the bridge.                          *)
LEMMA BeginsApart ==
    ASSUME IInv, NEW c \in Calls, NEW calls \in [Calls -> CallStates],
           calls[c].bridge_id = call[c].bridge_id, NEW status, NEW cause,
           StartFinish(calls, c, status, cause)
    PROVE  /\ call'[c].bridge_id = call[c].bridge_id
           /\ fin'[c].at = fin[c].at \/ fin'[c].at \in {"hang_out", "hang_in"}
<1>1. CASE call[c].finishing
  BY <1>1 DEF StartFinish
<1>2. CASE ~call[c].finishing
  <2>1. call'[c] = [calls[c] EXCEPT !.finishing = TRUE] /\ calls[c] \in CallStates
    BY <1>2 DEF StartFinish
  <2>2. fin'[c].at = FirstRelease(c)
    BY <1>2, CallTyped DEF StartFinish, FinT
  <2> QED
    BY <2>1, <2>2 DEF CallStates, FirstRelease
<1> QED
  BY <1>1, <1>2

(* What a step does to its own call                                        *)
Moved(c) ==
    /\ call'[c].bridge_id = call[c].bridge_id
    /\ fin'[c].at = fin[c].at \/ fin'[c].at \in {"hang_out", "hang_in"}

LEMMA TaskApart ==
    ASSUME IInv, NEW c \in Calls, Task(c), ~CreateBridge(c), ~BridgeCreated(c),
           ~AddCaller(c), ~Originate(c)
    PROVE  Apart(c)
<1>0. /\ call \in [Calls -> CallStates] /\ TaskT /\ task[c] \in TaskStates
      /\ call[c] \in CallStates /\ CallT
  BY CallTyped DEF CallT
<1> DEFINE place == task'[c].at \notin {"add_caller", "originate"}
<1>1. CASE FailChannel(c)
  <2>1. place /\ UNCHANGED <<bridge, call, fin>>
    BY <1>0, <1>1 DEF FailChannel, GoTo, TaskT, TaskStates
  <2>2. joined'[c] \subseteq joined[c] /\ (leg[c]["out"] = "none" <=> leg'[c]["out"] = "none")
    BY <1>1, HangUpParts DEF FailChannel, Legs, Causes
  <2> QED
    BY <2>1, <2>2 DEF Apart
<1>2. CASE Reject(c) \/ RejectPlayed(c) \/ Ask(c) \/ Goodbye(c)
  <2>1. UNCHANGED asterisk /\ place
    BY <1>0, <1>2 DEF Reject, RejectPlayed, Ask, Goodbye, FinishInTask, GoTo, TaskT, TaskStates
  <2>2. Moved(c)
    <3>1. ASSUME NEW status, NEW cause, FinishInTask(c, status, cause) PROVE Moved(c)
      BY <1>0, <3>1, BeginsApart DEF FinishInTask, Moved
    <3> QED
      BY <1>2, <3>1 DEF Reject, RejectPlayed, Ask, Goodbye, Moved
  <2> QED
    BY <2>1, <2>2 DEF Apart, Moved, asterisk
<1>3. CASE \/ CodeMatches(c) \/ CodeWrong(c) \/ AttachSession(c) \/ CheckLimit(c) \/ Ring(c)
           \/ OriginateAnswered(c) \/ OriginateFailed(c)
  <2>1. UNCHANGED <<asterisk, fin>>
    BY <1>3 DEF CodeMatches, CodeWrong, AttachSession, CheckLimit, Ring, OriginateAnswered,
                OriginateFailed
  <2>2. call'[c].bridge_id = call[c].bridge_id
    BY <1>0, <1>3 DEF CodeMatches, CodeWrong, AttachSession, CheckLimit, Ring,
                OriginateAnswered, OriginateFailed, CallT, CallStates
  <2>3. place
    <3>1. CASE CodeWrong(c)
      BY <1>0, <3>1 DEF CodeWrong, TaskT, TaskStates
    <3>2. CASE ~CodeWrong(c)
      BY <1>0, <1>3, <3>2 DEF CodeMatches, AttachSession, CheckLimit, Ring,
                OriginateAnswered, OriginateFailed, GoTo, RejectWith, TaskT, TaskStates
    <3> QED
      BY <3>1, <3>2
  <2> QED
    BY <2>1, <2>2, <2>3 DEF Apart, asterisk
<1> QED
  BY <1>1, <1>2, <1>3 DEF Task

(* The bridge comes to be, and the caller into it.                         *)
LEMMA BridgeParted ==
    ASSUME IInv, HarmStays, NEW c \in Calls, Parted(c),
           CreateBridge(c) \/ BridgeCreated(c) \/ AddCaller(c) \/ Originate(c)
    PROVE  Parted(c)'
<1>0. /\ TaskT /\ CallT /\ LegT /\ JoinedT /\ task[c] \in TaskStates
      /\ call[c] \in CallStates /\ leg[c] \in [Legs -> LegStates]
      /\ fin[c].at \in {"journal", "done"} => call[c].finishing
      /\ call[c].finishing /\ task[c].at \in Undialed => leg[c]["in"] = "gone"
      /\ task[c].at \in Undialed => leg[c]["out"] = "none"
  BY CallTyped DEF IInv, Typed, Teardown, Course
<1>1. task[c].at \in Undialed /\ fin' = fin
  BY DEF CreateBridge, BridgeCreated, AddCaller, Originate, Undialed
<1>2. CASE CreateBridge(c)
  <2>1. task'[c].at \in {"bridge_created", "reject"} /\ UNCHANGED <<leg, joined, call>>
    BY <1>0, <1>2 DEF CreateBridge, GoTo, RejectWith, TaskT, TaskStates
  <2> QED
    BY <1>0, <1>1, <2>1 DEF Parted, HarmStays
<1>3. CASE BridgeCreated(c)
  <2>1. UNCHANGED <<leg, joined, bridge>> /\ call'[c].bridge_id
    BY <1>0, <1>3 DEF BridgeCreated, CallT, CallStates, asterisk
  <2> QED
    BY <1>0, <1>1, <2>1 DEF Parted, HarmStays
<1>4. CASE AddCaller(c)
  <2>1. /\ call[c].bridge_id /\ UNCHANGED <<leg, bridge>>
        /\ joined' = joined \/ leg[c]["in"] = "up"
    BY <1>4 DEF AddCaller, Parted, Alive
  <2>2. call'[c].bridge_id
    BY <1>0, <1>4, <2>1 DEF AddCaller, NameCallee, CallT, CallStates
  <2> QED
    BY <1>0, <1>1, <2>1, <2>2 DEF Parted, HarmStays
<1>5. CASE Originate(c)
  <2>1. /\ call[c].bridge_id /\ UNCHANGED <<joined, bridge, call>>
        /\ leg' = leg \/ leg[c]["in"] = "up"
    BY <1>5 DEF Originate, Parted, Alive
  <2> QED
    BY <1>0, <1>1, <2>1 DEF Parted, HarmStays
<1> QED
  BY <1>2, <1>3, <1>4, <1>5

(* The callee comes into it.                                               *)
LEMMA JoinParted ==
    ASSUME IInv, HarmStays, NEW c \in Calls, Parted(c), JoinCallee(c)
    PROVE  Parted(c)'
<1>0. /\ call \in [Calls -> CallStates] /\ CallT /\ call[c] \in CallStates
      /\ leg[c]["out"] # "none" /\ call[c].bridge_id
  BY CallTyped DEF CallT, Course, JoinCallee, InPump, Parted
<1>1. UNCHANGED <<leg, bridge, task>>
  BY DEF JoinCallee
<1>2. CASE FinishInPump(call, c, "failed", NoCause) /\ UNCHANGED joined
  <2>1. Moved(c)
    BY <1>0, <1>2, BeginsApart DEF FinishInPump, Moved
  <2> QED
    BY <1>1, <1>2, <2>1, ApartKept DEF Apart, Moved
<1>3. CASE /\ bridge[c] = "up" /\ call' = [call EXCEPT ![c].answered = TRUE] /\ UNCHANGED fin
  <2>1. call'[c].bridge_id
    BY <1>0, <1>3 DEF CallT, CallStates
  <2> QED
    BY <1>0, <1>1, <1>3, <2>1 DEF Parted, HarmStays
<1> QED
  BY <1>2, <1>3 DEF JoinCallee

(* The teardown                                                            *)
LEMMA FinishParted ==
    ASSUME IInv, HarmStays, NEW c \in Calls, Parted(c), Finish(c)
    PROVE  Parted(c)'
<1>0. /\ CallT /\ FinT /\ TaskT /\ JoinedT /\ RestT /\ call[c] \in CallStates
      /\ fin[c] \in FinStates /\ task[c] \in TaskStates
      /\ fin[c].cause \in Causes /\ 16 \in Causes /\ "in" \in Legs /\ "out" \in Legs
  BY CallTyped DEF IInv, Typed, FinStates, Causes, Legs
<1>1. CASE FinishHangsOut(c)
  <2>1. HangUp(c, "out", 16) /\ UNCHANGED <<bridge, task>> /\ fin'[c].at = "hang_in"
    BY <1>0, <1>1 DEF FinishHangsOut, FinT, FinStates
  <2>2. call'[c].bridge_id = call[c].bridge_id
    BY <1>0, <1>1 DEF FinishHangsOut, CallT, CallStates
  <2> QED
    BY <1>0, <2>1, <2>2, HangUpParts, ApartKept DEF Apart
<1>2. CASE FinishHangsIn(c)
  <2>1. /\ \E cause \in Causes : HangUp(c, "in", cause)
        /\ UNCHANGED <<bridge, task, call>>
        /\ fin'[c].at = IF call[c].bridge_id THEN "bridge" ELSE "journal"
    BY <1>0, <1>2 DEF FinishHangsIn, FinT, FinStates
  <2>2. joined'[c] \subseteq joined[c] /\ (leg[c]["out"] = "none" <=> leg'[c]["out"] = "none")
    BY <1>0, <2>1, HangUpParts
  <2> QED
    BY <2>1, <2>2 DEF Parted
<1>3. CASE FinishDestroysBridge(c)
  <2>1. UNCHANGED <<leg, task, call>>
    BY <1>3 DEF FinishDestroysBridge
  <2>2. \/ bridge'[c] = "gone" /\ joined'[c] = {}
        \/ UNCHANGED joined /\ "bridge" \in harm'[c]
    BY <1>0, <1>3 DEF FinishDestroysBridge, JoinedT, RestT
  <2> QED
    BY <2>1, <2>2 DEF Parted
<1>4. CASE FinishForgets(c)
  <2>1. /\ fin[c].at = "journal" /\ UNCHANGED <<leg, joined, bridge>>
        /\ task'[c].at = "done"
    BY <1>0, <1>4 DEF FinishForgets, Forget, asterisk, TaskT, TaskStates
  <2>2. call'[c].bridge_id = call[c].bridge_id
    BY <1>0, <1>4 DEF FinishForgets, Forget, CallT, CallStates
  <2> QED
    BY <2>1, <2>2, ApartKept DEF Apart
<1> QED
  BY <1>1, <1>2, <1>3, <1>4 DEF Finish

LEMMA PumpApart ==
    ASSUME IInv, NEW c \in Calls, Pump(c), ~JoinCallee(c)
    PROVE  Apart(c)
<1>0. /\ call \in [Calls -> CallStates] /\ CallT /\ TaskT /\ task[c] \in TaskStates
      /\ call[c] \in CallStates
  BY CallTyped DEF CallT
<1>1. CASE HangUpOrphan(c)
  <2>1. UNCHANGED <<bridge, task, call, fin>> /\ HangUp(c, "out", 16)
    BY <1>1 DEF HangUpOrphan
  <2> QED
    BY <2>1, HangUpParts DEF Apart, Legs, Causes
<1>2. CASE InboundStarts(c) \/ OutboundStarts(c) \/ JournalAnswer(c)
  BY <1>2 DEF InboundStarts, OutboundStarts, JournalAnswer, Apart, asterisk
<1>3. ASSUME NEW action \in {"reject", "ask", "connect"}, Resolve(c, action)
      PROVE  Apart(c)
  <2>0. task'[c].at \notin {"add_caller", "originate"}
    <3>1. GoTo(c, "ask") \/ GoTo(c, "limit") \/ RejectWith(c, "unknown_caller")
      BY <1>3 DEF Resolve
    <3> QED
      BY <1>0, <3>1 DEF GoTo, RejectWith, TaskT, TaskStates
  <2>1. UNCHANGED <<asterisk, fin>>
    BY <1>3 DEF Resolve
  <2>2. call'[c].bridge_id = call[c].bridge_id
    BY <1>0, <1>3 DEF Resolve, CallT, CallStates
  <2>3. /\ joined' = joined /\ bridge' = bridge /\ leg' = leg /\ fin' = fin
    BY <2>1 DEF asterisk
  <2> QED
    BY <2>0, <2>2, <2>3 DEF Apart
<1>4. ASSUME NEW calls \in [Calls -> CallStates], calls[c].bridge_id = call[c].bridge_id,
             NEW status, NEW cause, FinishInPump(calls, c, status, cause)
      PROVE  Moved(c)
  BY <1>0, <1>4, BeginsApart DEF FinishInPump, Moved
<1>5. CASE AnswerCaller(c) \/ InboundEnds(c) \/ InboundDestroyed(c)
  <2>1. UNCHANGED <<leg, joined, bridge, task>>
    BY <1>5 DEF AnswerCaller, InboundEnds, InboundDestroyed, asterisk
  <2>2. Moved(c)
    BY <1>0, <1>4, <1>5 DEF AnswerCaller, InboundEnds, InboundDestroyed, Moved
  <2> QED
    BY <2>1, <2>2 DEF Apart, Moved
<1>6. CASE OutboundEnds(c) \/ OutboundDestroyed(c)
  <2> DEFINE unmapped == [call EXCEPT ![c] = [call[c] EXCEPT !.mapped = FALSE]]
  <2>1. [call[c] EXCEPT !.mapped = FALSE] \in CallStates
    BY <1>0, CallSet
  <2>2. [call[c] EXCEPT !.mapped = FALSE].bridge_id = call[c].bridge_id
    BY <1>0 DEF CallStates
  <2>3. unmapped \in [Calls -> CallStates] /\ unmapped[c].bridge_id = call[c].bridge_id
    BY <1>0, <2>1, <2>2
  <2>4. UNCHANGED <<leg, joined, bridge, task>>
    BY <1>6 DEF OutboundEnds, OutboundDestroyed
  <2>5. Moved(c)
    BY <1>0, <1>4, <1>6, <2>3 DEF OutboundEnds, OutboundDestroyed, Moved
  <2> QED
    BY <2>4, <2>5 DEF Apart, Moved
<1> QED
  BY <1>1, <1>2, <1>3, <1>5, <1>6 DEF Pump

LEMMA RestApart ==
    ASSUME IInv, NEW c \in Calls, Environment(c) \/ Watchdog(c) \/ Breaks(c)
    PROVE  Apart(c)
<1>0. /\ call \in [Calls -> CallStates] /\ CallT /\ TaskT /\ FinT /\ LegT
      /\ task[c] \in TaskStates /\ fin[c] \in FinStates
  BY CallTyped DEF CallT
<1>1. CASE Environment(c)
  <2>1. UNCHANGED <<bridge, task, call, fin>>
    BY <1>1 DEF Environment, CallerDials, CallerHangsUp, CalleeAnswers, CalleeUnavailable,
                CalleeHangsUp, app
  <2>2. joined'[c] \subseteq joined[c] /\ (leg[c]["out"] = "none" <=> leg'[c]["out"] = "none")
    <3>1. CASE CallerDials(c) \/ CalleeAnswers(c)
      BY <1>0, <3>1 DEF CallerDials, CalleeAnswers, LegT, Legs
    <3>2. CASE CallerHangsUp(c) \/ CalleeUnavailable(c) \/ CalleeHangsUp(c)
      BY <3>2, ReleaseParts DEF CallerHangsUp, CalleeUnavailable, CalleeHangsUp, Legs, Causes
    <3> QED
      BY <1>1, <3>1, <3>2 DEF Environment
  <2> QED
    BY <2>1, <2>2 DEF Apart
<1>2. CASE Watchdog(c)
  <2>1. UNCHANGED <<leg, joined, bridge, task>>
    BY <1>2 DEF Watchdog, WatchdogFires, asterisk
  <2>2. Moved(c)
    BY <1>0, <1>2, BeginsApart DEF Watchdog, WatchdogFires, Moved
  <2> QED
    BY <2>1, <2>2 DEF Apart, Moved
<1>3. CASE Breaks(c)
  <2>1. UNCHANGED <<leg, joined, bridge, call>>
    BY <1>3 DEF Breaks, TaskBreaks, FinishBreaks, ResolveBreaks, JournalBreaks, CauseBreaks,
                asterisk
  <2>2. fin'[c].at = fin[c].at \/ fin'[c].at = "none"
    BY <1>0, <1>3 DEF Breaks, TaskBreaks, FinishBreaks, ResolveBreaks, JournalBreaks,
                      CauseBreaks, FinT, FinStates
  <2>3. task'[c].at = task[c].at \/ task'[c].at \in {"done", "fail_channel"}
    BY <1>0, <1>3 DEF Breaks, TaskBreaks, FinishBreaks, ResolveBreaks, JournalBreaks,
                      CauseBreaks, GoTo, TaskT, TaskStates
  <2> QED
    BY <2>1, <2>2, <2>3 DEF Apart
<1> QED
  BY <1>1, <1>2, <1>3

LEMMA PartedStep ==
    ASSUME IInv, [Next]_vars, NEW d \in Calls, Parted(d)
    PROVE  Parted(d)'
<1>0. HarmStays
  <2>1. CASE Next
    BY <2>1, RestStep DEF IInv
  <2>2. CASE UNCHANGED vars
    BY <2>2 DEF vars, HarmStays
  <2> QED
    BY <2>1, <2>2
<1>1. CASE LoseEvents \/ SessionEnds \/ UNCHANGED vars
  <2>1. UNCHANGED <<leg, bridge, joined, task, call, fin>>
    BY <1>1 DEF LoseEvents, SessionEnds, vars, asterisk, app
  <2> QED
    BY <1>0, <2>1, ApartKept DEF Apart
<1>2. ASSUME NEW c \in Calls, StepOf(c)
      PROVE  Parted(d)'
  <2>1. CASE c # d
    BY <1>0, <1>2, <2>1, OthersApart, ApartKept
  <2>2. CASE c = d
    BY <1>0, <1>2, <2>2, TaskApart, BridgeParted, JoinParted, FinishParted, PumpApart,
       RestApart, ApartKept DEF StepOf
  <2> QED
    BY <2>1, <2>2
<1> QED
  BY <1>1, <1>2 DEF Next, StepOf

(* The two parties are bridged after finish_call closed the row only if    *)
(* Asterisk refused each of the three requests that should have parted     *)
(* them: both hangups and the destruction of the bridge.                   *)
THEOREM SilentAfterEnd == Spec => []NoTalkAfterEnd
<1> DEFINE P == \A d \in Calls : Parted(d)
<1>1. Init => P
  BY PartedStart
<1>2. IInv /\ P /\ [Next]_vars => P'
  BY PartedStep
<1>3. IInv /\ P => NoTalkAfterEnd
  <2> SUFFICES ASSUME IInv, P, NEW c \in Calls, row[c].ended, joined[c] = Legs
               PROVE  Legs \cup {"bridge"} \subseteq harm[c]
    BY DEF NoTalkAfterEnd
  <2>1. fin[c].at = "done" /\ leg[c]["in"] = "up" /\ leg[c]["out"] = "up"
    BY DEF IInv, Good, Journalled, Bridged, Legs
  <2>2. "in" \in harm[c] /\ "out" \in harm[c]
    BY <2>1 DEF IInv, Good, Teardown
  <2>3. "bridge" \in harm[c]
    BY <2>1 DEF Parted, Legs
  <2> QED
    BY <2>2, <2>3 DEF Legs
<1> HIDE DEF P
<1> QED
  BY <1>1, <1>2, <1>3, Invariant, PTL DEF Spec

=============================================================================
