--------------------------- MODULE AriEventsProofs ---------------------------
(***************************************************************************)
(* Theorems about AriEvents for every delay, check interval and number of  *)
(* troubles, with their proofs.                                            *)
(***************************************************************************)
EXTENDS AriEvents, WellFoundedInduction, TLAPS

-----------------------------------------------------------------------------
(* Powers of two, which Pow2 defines by recursion: there is a function with *)
(* its equation over the first numbers, and those of two bounds agree.     *)

Power(f, k) == IF k = 0 THEN 1 ELSE 2 * f[k - 1]

IsPowers(f, n) == f = [k \in 0..n |-> Power(f, k)]

LEMMA LeastOf ==
    ASSUME NEW S, S \subseteq Nat, S # {}
    PROVE  \E n \in S : \A m \in S : n <= m
<1> DEFINE less == {ss \in Nat \X Nat : ss[1] < ss[2]}
<1>1. less = OpToRel(<, Nat)
  BY DEF OpToRel
<1>2. IsWellFoundedOn(less, Nat)
  BY <1>1, NatLessThanWellFounded
<1>3. \A x, y \in Nat : x < y => <<x, y>> \in less
  OBVIOUS
<1> HIDE DEF less
<1>4. \E n \in S : \A m \in S : <<m, n>> \notin less
  BY <1>2, WFMin
<1>5. PICK n \in S : \A m \in S : ~ (m < n)
  BY <1>3, <1>4, Zenon
<1> QED
  BY <1>5

LEMMA PowersAt ==
    ASSUME NEW n, NEW f, IsPowers(f, n), NEW k \in 0..n
    PROVE  f[k] = Power(f, k)
  BY DEF IsPowers

LEMMA PowersGrow ==
    ASSUME NEW n \in Nat, NEW f, IsPowers(f, n)
    PROVE  \E g : IsPowers(g, n + 1)
<1> DEFINE g == [k \in 0..(n + 1) |-> IF k \in 0..n THEN f[k] ELSE Power(f, n + 1)]
<1>1. \A k \in 0..n : f[k] = Power(f, k)
  BY PowersAt
<1>2. ASSUME NEW k \in 0..(n + 1)
      PROVE  g[k] = Power(g, k)
  <2>1. Power(g, k) = Power(f, k)
    BY DEF Power
  <2> QED
    BY <1>1, <2>1
<1>3. g = [k \in 0..(n + 1) |-> g[k]]
  OBVIOUS
<1> HIDE DEF g
<1>4. g = [k \in 0..(n + 1) |-> Power(g, k)]
  BY <1>2, <1>3
<1> QED
  BY <1>4 DEF IsPowers

LEMMA PowersExist ==
    ASSUME NEW n \in Nat
    PROVE  \E f : IsPowers(f, n)
<1> DEFINE Bad == {m \in Nat : ~ \E f : IsPowers(f, m)}
<1>1. CASE Bad = {}
  BY <1>1
<1>2. CASE Bad # {}
  <2>1. PICK m \in Bad : \A k \in Bad : m <= k
    BY <1>2, LeastOf
  <2>2. CASE m = 0
    <3>1. IsPowers([k \in 0..0 |-> 1], 0)
      BY DEF IsPowers, Power
    <3> QED
      BY <2>1, <2>2, <3>1
  <2>3. CASE m # 0
    <3>1. m - 1 \in Nat /\ m - 1 \notin Bad
      BY <2>1, <2>3
    <3>2. PICK f : IsPowers(f, m - 1)
      BY <3>1, Zenon
    <3>3. \E g : IsPowers(g, (m - 1) + 1)
      BY <3>1, <3>2, PowersGrow
    <3>4. (m - 1) + 1 = m
      BY <2>1
    <3> QED
      BY <2>1, <3>3, <3>4
  <2> QED
    BY <2>2, <2>3
<1> QED
  BY <1>1, <1>2

LEMMA PowersUnique ==
    ASSUME NEW n \in Nat, NEW m \in Nat, NEW k \in Nat, n <= m, n <= k,
           NEW f, IsPowers(f, m), NEW g, IsPowers(g, k)
    PROVE  f[n] = g[n]
<1> DEFINE Bad == {i \in 0..n : f[i] # g[i]}
<1>1. CASE Bad = {}
  BY <1>1
<1>2. CASE Bad # {}
  <2>1. Bad \subseteq Nat
    OBVIOUS
  <2>2. PICK i \in Bad : \A j \in Bad : i <= j
    BY <1>2, <2>1, LeastOf
  <2>3. f[i] = Power(f, i) /\ g[i] = Power(g, i)
    <3>1. i \in 0..m /\ i \in 0..k
      BY <2>2
    <3>2. f[i] = Power(f, i)
      BY <3>1, PowersAt
    <3> QED
      BY <3>1, <3>2, PowersAt
  <2>4. CASE i = 0
    BY <2>2, <2>3, <2>4 DEF Power
  <2>5. CASE i # 0
    <3>1. f[i - 1] = g[i - 1]
      BY <2>2, <2>5
    <3>2. Power(f, i) = Power(g, i)
      BY <3>1 DEF Power
    <3> QED
      BY <2>2, <2>3, <3>2
  <2> QED
    BY <2>4, <2>5
<1> QED
  BY <1>1, <1>2

LEMMA PowersOfTwo == \A k \in Nat : Pow2[k] = IF k = 0 THEN 1 ELSE 2 * Pow2[k - 1]
<1> DEFINE Upto(n) == CHOOSE f : IsPowers(f, n)
           g == [k \in Nat |-> Upto(k)[k]]
<1>1. \A n \in Nat : IsPowers(Upto(n), n)
  BY PowersExist, Zenon
<1> HIDE DEF Upto
<1>2. ASSUME NEW k \in Nat
      PROVE  g[k] = Power(g, k)
  <2>1. Upto(k)[k] = Power(Upto(k), k)
    <3>1. Upto(k) = [i \in 0..k |-> Power(Upto(k), i)]
      BY <1>1 DEF IsPowers
    <3>2. k \in 0..k
      OBVIOUS
    <3> QED
      BY <3>1, <3>2
  <2>2. CASE k = 0
    BY <2>1, <2>2 DEF Power
  <2>3. CASE k # 0
    <3>1. k - 1 \in Nat /\ k - 1 <= k
      BY <2>3
    <3>2. Upto(k)[k - 1] = Upto(k - 1)[k - 1]
      BY <1>1, <3>1, PowersUnique
    <3> QED
      BY <2>1, <2>3, <3>1, <3>2 DEF Power
  <2> QED
    BY <2>2, <2>3
<1>3. g = [k \in Nat |-> g[k]]
  OBVIOUS
<1> HIDE DEF g
<1>4. g = [k \in Nat |-> IF k = 0 THEN 1 ELSE 2 * g[k - 1]]
  BY <1>2, <1>3 DEF Power
<1> DEFINE two == CHOOSE f : f = [k \in Nat |-> IF k = 0 THEN 1 ELSE 2 * f[k - 1]]
<1>5. two = [k \in Nat |-> IF k = 0 THEN 1 ELSE 2 * two[k - 1]]
  BY <1>4, Zenon
<1>6. Pow2 = two
  BY Zenon DEF Pow2
<1> HIDE DEF two
<1> QED
  BY <1>5, <1>6

LEMMA PowersTyped == \A k \in Nat : Pow2[k] \in Nat
<1> DEFINE Bad == {k \in Nat : Pow2[k] \notin Nat}
<1>1. CASE Bad # {}
  <2>1. PICK k \in Bad : \A j \in Bad : k <= j
    BY <1>1, LeastOf
  <2>2. CASE k # 0
    <3>1. k - 1 \in Nat /\ Pow2[k - 1] \in Nat
      BY <2>1, <2>2
    <3> QED
      BY <2>1, <2>2, <3>1, PowersOfTwo
  <2> QED
    BY <2>1, <2>2, PowersOfTwo
<1> QED
  BY <1>1

(* What the attempt after k + 1 failures in a row is to wait               *)
Wanted(k) ==
    LET wanted == ReconnectMin * Pow2[k]
    IN  IF wanted < ReconnectMax THEN wanted ELSE ReconnectMax

LEMMA WantedFirst == Wanted(0) = ReconnectMin
  BY AriEventsAssumption, PowersOfTwo DEF Wanted

LEMMA WantedDoubles ==
    ASSUME NEW k \in Nat
    PROVE  /\ Wanted(k) \in Nat /\ Wanted(k) <= ReconnectMax
           /\ Wanted(k + 1) =
                  IF Wanted(k) * 2 < ReconnectMax THEN Wanted(k) * 2 ELSE ReconnectMax
           /\ Wanted(k) <= Wanted(k + 1)
<1> DEFINE p == ReconnectMin * Pow2[k]
           q == ReconnectMin * Pow2[k + 1]
<1>1. ReconnectMin \in Nat /\ ReconnectMax \in Nat /\ Pow2[k] \in Nat
  BY AriEventsAssumption, PowersTyped
<1>2. Pow2[k + 1] = 2 * Pow2[k]
  BY PowersOfTwo
<1>3. p \in Nat /\ q = 2 * p
  BY <1>1, <1>2
<1>4. /\ Wanted(k) = IF p < ReconnectMax THEN p ELSE ReconnectMax
      /\ Wanted(k + 1) = IF q < ReconnectMax THEN q ELSE ReconnectMax
  BY DEF Wanted
<1> HIDE DEF p, q
<1> QED
  BY <1>1, <1>3, <1>4

-----------------------------------------------------------------------------
(* The invariant                                                           *)

Serving == pump \in {"reading", "handling"}

(* The client's own variables tell the same story: an open websocket has   *)
(* its socket, and a connection starts the delay again.                    *)
ClientOK ==
    /\ IF Serving THEN line # "none" /\ connected = TRUE /\ delay = ReconnectMin
       ELSE line = "none" /\ connected = FALSE /\ socket = FALSE
    /\ line = "open" => socket = TRUE

(* When Asterisk can be without a consumer, and who will end it: the pause *)
(* in progress, or the check to come and the shortest pause after it.      *)
SilenceEnds ==
    /\ up = FALSE \/ consumer # "nobody" => silence = 0
    /\ watch \in {"known", "error"} => silence = 0
    /\ pump = "connecting" => silence <= SilenceLimit
    /\ pump = "sleeping" => silence + pause <= SilenceLimit
    /\ Serving => silence <= CheckSeconds
    /\ Serving /\ line = "open" /\ watch = "sleeping" => silence + poll <= CheckSeconds

(* TypeOK in two parts: what is yes or no, and what is a place or a number *)
Flags == up \in BOOLEAN /\ connected \in BOOLEAN /\ socket \in BOOLEAN

Types ==
    /\ consumer \in {"ours", "other", "nobody"}
    /\ line \in {"none", "open", "closed", "cut"}
    /\ troubles \in 0..MaxTroubles
    /\ pump \in {"connecting", "reading", "handling", "sleeping"}
    /\ delay \in ReconnectMin..ReconnectMax
    /\ pause \in 0..ReconnectMax
    /\ watch \in {"sleeping", "asking", "known", "gone", "error"}
    /\ poll \in 0..CheckSeconds
    /\ since \in Nat /\ failures \in 0..MaxFailures /\ silence \in Nat

Main == Types /\ ClientOK /\ SilenceEnds

(* The next attempt has waited long enough, or will have after the pause   *)
(* in progress; and the pause after that one is long enough for one        *)
(* failure more.                                                           *)
Awaited == Wanted(IF failures = 0 THEN 0 ELSE failures - 1)

Patient ==
    /\ IF Serving THEN failures = 0 ELSE delay >= Wanted(failures)
    /\ pump = "sleeping" => since + pause >= Awaited
    /\ pump = "connecting" => since >= Awaited

IInv == Flags /\ Main /\ Patient

LEMMA LimitIsLargest ==
    /\ SilenceLimit \in Nat
    /\ CheckSeconds + ReconnectMin <= SilenceLimit
    /\ ReconnectMax <= SilenceLimit
  BY AriEventsAssumption DEF SilenceLimit

LEMMA Start == Init => IInv
<1>1. Init => Flags
  BY DEF Init, Flags
<1>2. Init => Main
  BY AriEventsAssumption, LimitIsLargest
  DEF Init, Main, Types, ClientOK, SilenceEnds, Serving
<1>3. Init => Patient
  BY AriEventsAssumption, WantedFirst DEF Init, Patient, Awaited, Serving
<1> QED
  BY <1>1, <1>2, <1>3 DEF IInv

-----------------------------------------------------------------------------
LEMMA FlagsKeep ==
    ASSUME Flags, Next
    PROVE  Flags'
<1> USE DEF Flags, outside, client, watchdog, history
<1>1. CASE Pump
  BY <1>1 DEF Pump, Connect, ConnectFails, Receive, Handled, NoticeCut, NoticeClose,
              Wake, Pause
<1>2. CASE Watchdog
  BY <1>2 DEF Watchdog, Poll, Ask, Act, ForceReconnect
<1>3. CASE Tick
  BY <1>3 DEF Tick
<1>4. CASE Breaks \/ GoesDown \/ ComesUp \/ OtherComes \/ OtherLeaves
  BY <1>4 DEF Breaks, GoesDown, ComesUp, OtherComes, OtherLeaves
<1> QED
  BY <1>1, <1>2, <1>3, <1>4 DEF Next

(* What happens outside brings no silence with it, only its beginning.     *)
LEMMA OutsideKeeps ==
    ASSUME Main, Breaks \/ GoesDown \/ ComesUp \/ OtherComes \/ OtherLeaves
    PROVE  Main'
<1> USE AriEventsAssumption, LimitIsLargest
    DEF Main, Types, ClientOK, SilenceEnds, Serving, outside, client, watchdog,
        history, Trouble
<1>1. CASE Breaks
  BY <1>1 DEF Breaks, Loses
<1>2. CASE GoesDown
  BY <1>2 DEF GoesDown
<1>3. CASE ComesUp
  BY <1>3 DEF ComesUp
<1>4. CASE OtherComes
  BY <1>4 DEF OtherComes
<1>5. CASE OtherLeaves
  BY <1>5 DEF OtherLeaves
<1> QED
  BY <1>1, <1>2, <1>3, <1>4, <1>5

(* The delay stays between its bounds.                                     *)
LEMMA DelayBounded ==
    ASSUME Types, DelayGrows
    PROVE  delay' \in ReconnectMin..ReconnectMax
  BY AriEventsAssumption DEF Types, DelayGrows

(* Noticing a loss begins a pause that is short enough.                    *)
LEMMA PumpKeeps ==
    ASSUME Main, Pump
    PROVE  Main'
<1> USE AriEventsAssumption, LimitIsLargest
    DEF Main, Types, ClientOK, SilenceEnds, Serving, outside, client, watchdog,
        history, Pause
<1>1. CASE Connect
  BY <1>1 DEF Connect, DelayReset
<1>2. CASE ConnectFails
  BY <1>2, DelayBounded DEF ConnectFails
<1>3. CASE Receive
  BY <1>3 DEF Receive
<1>4. CASE Handled
  BY <1>4 DEF Handled
<1>5. CASE NoticeCut
  BY <1>5, DelayBounded DEF NoticeCut
<1>6. CASE NoticeClose
  BY <1>6 DEF NoticeClose
<1>7. CASE Wake
  BY <1>7 DEF Wake
<1> QED
  BY <1>1, <1>2, <1>3, <1>4, <1>5, <1>6, <1>7 DEF Pump

(* A check that finds the application gone closes the websocket, and one   *)
(* that does not was made at an instant without silence.                   *)
LEMMA WatchdogKeeps ==
    ASSUME Main, Watchdog
    PROVE  Main'
<1> USE AriEventsAssumption, LimitIsLargest
    DEF Main, Types, ClientOK, SilenceEnds, Serving, outside, client, watchdog, history
<1>1. CASE Poll
  BY <1>1 DEF Poll
<1>2. CASE Ask
  BY <1>2 DEF Ask, Answer
<1>3. CASE Act /\ watch = "gone"
  BY <1>3 DEF Act, ForceReconnect, Loses
<1>4. CASE Act /\ watch # "gone"
  BY <1>4 DEF Act
<1> QED
  BY <1>1, <1>2, <1>3, <1>4 DEF Watchdog

(* One more tick of silence and one less to wait for its end               *)
LEMMA SumKept ==
    ASSUME NEW old \in Nat, NEW new \in Nat, new <= old + 1,
           NEW left \in Nat, left # 0, NEW most \in Nat, old + left <= most
    PROVE  new + (left - 1) <= most /\ new <= most
  OBVIOUS

(* A tick brings the end of the silence nearer by as much as it adds.      *)
LEMMA TickKeeps ==
    ASSUME Main, Tick
    PROVE  Main'
<1>1. UNCHANGED <<up, consumer, line, troubles, pump, connected, socket, delay,
                  watch, failures>>
  BY DEF Tick, outside
<1>2. pump' = pump /\ line' = line /\ watch' = watch
  BY <1>1
<1>3. watch = "sleeping" /\ poll # 0
  BY DEF Tick, Urgent
<1>4. pump \in {"sleeping", "reading"}
  BY DEF Tick, Urgent, Main, Types
<1>5. pump = "sleeping" => pause # 0
  BY DEF Tick, Urgent
<1>6. pump = "reading" => line = "open"
  <2>1. pump = "reading" => line # "closed" /\ line # "cut"
    BY DEF Tick, Urgent
  <2>2. pump = "reading" => line # "none"
    BY DEF Main, ClientOK, Serving
  <2> QED
    BY <2>1, <2>2 DEF Main, Types
<1>7. poll' = poll - 1 /\ pause' = IF pump = "sleeping" THEN pause - 1 ELSE pause
  BY DEF Tick
<1>8. /\ silence \in Nat /\ poll \in Nat /\ poll <= CheckSeconds
      /\ pause \in Nat /\ pause <= ReconnectMax
      /\ CheckSeconds \in Nat /\ ReconnectMax \in Nat
  BY AriEventsAssumption DEF Main, Types
<1>9. poll' \in 0..CheckSeconds /\ pause' \in 0..ReconnectMax
  BY <1>3, <1>5, <1>7, <1>8
<1>10. since' \in Nat
  BY AriEventsAssumption DEF Tick, Main, Types
<1>11. silence' \in Nat /\ silence' <= silence + 1
  BY <1>8, LimitIsLargest DEF Tick, Longer
<1>12. up = FALSE \/ consumer # "nobody" => silence' = 0
  BY DEF Tick, Longer, Main, SilenceEnds
<1>13. Types'
  BY <1>1, <1>9, <1>10, <1>11 DEF Main, Types
<1>14. ClientOK'
  BY <1>1 DEF Main, ClientOK, Serving
<1>15. SilenceEnds'
  <2>1. up' = FALSE \/ consumer' # "nobody" => silence' = 0
    BY <1>1, <1>12
  <2>2. CASE pump = "sleeping"
    <3>1. silence + pause <= SilenceLimit
      BY <2>2 DEF Main, SilenceEnds
    <3>2. silence' + (pause - 1) <= SilenceLimit
      BY <3>1, <2>2, <1>5, <1>8, <1>11, LimitIsLargest, SumKept
    <3>3. silence' + pause' <= SilenceLimit
      BY <2>2, <3>2, <1>7
    <3> QED
      BY <3>3, <2>1, <2>2, <3>2, <1>2, <1>3 DEF SilenceEnds, Serving
  <2>3. CASE pump = "reading"
    <3>1. silence + poll <= CheckSeconds
      BY <2>3, <1>3, <1>6 DEF Main, SilenceEnds, Serving
    <3>2. silence' + (poll - 1) <= CheckSeconds /\ silence' <= CheckSeconds
      BY <3>1, <1>3, <1>8, <1>11, SumKept
    <3>3. silence' + poll' <= CheckSeconds
      BY <3>2, <1>7
    <3> QED
      BY <3>2, <3>3, <2>1, <2>3, <3>2, <1>2, <1>3 DEF SilenceEnds, Serving
  <2> QED
    BY <2>2, <2>3, <1>4
<1> QED
  BY <1>13, <1>14, <1>15 DEF Main

LEMMA PatientStill ==
    ASSUME Patient, UNCHANGED <<pump, delay, pause, since, failures>>
    PROVE  Patient'
  BY DEF Patient, Awaited, Serving

LEMMA PatientKeeps ==
    ASSUME Main, Patient, Next
    PROVE  Patient'
<1> USE DEF outside, client, watchdog, history
<1>1. /\ ReconnectMin \in Nat /\ ReconnectMax \in Nat /\ ReconnectMin <= ReconnectMax
      /\ delay \in Nat /\ delay <= ReconnectMax /\ pause \in Nat /\ since \in Nat
      /\ failures \in Nat /\ delay >= ReconnectMin
  BY AriEventsAssumption DEF Main, Types
<1>2. CASE Connect
  BY <1>2 DEF Connect, Patient, Serving
<1>3. CASE ConnectFails
  <2>1. /\ pump' = "sleeping" /\ since' = 0 /\ pause' = delay
        /\ delay' = IF delay * 2 < ReconnectMax THEN delay * 2 ELSE ReconnectMax
        /\ failures' \in {failures, failures + 1}
        /\ delay >= Wanted(failures)
    BY <1>3 DEF ConnectFails, Pause, DelayGrows, Patient, Serving
  <2>2. /\ Wanted(failures) \in Nat /\ Wanted(failures) <= ReconnectMax
        /\ Wanted(failures + 1) = IF Wanted(failures) * 2 < ReconnectMax
                                  THEN Wanted(failures) * 2 ELSE ReconnectMax
        /\ Wanted(failures) <= Wanted(failures + 1)
    BY <1>1, WantedDoubles
  <2>3. delay' >= Wanted(failures + 1) /\ delay' >= Wanted(failures)
    BY <1>1, <2>1, <2>2
  <2>4. failures # 0 => Wanted(failures - 1) <= Wanted(failures) /\ Wanted(failures - 1) \in Nat
    <3>1. failures # 0 => failures - 1 \in Nat /\ (failures - 1) + 1 = failures
      BY <1>1
    <3> QED
      BY <3>1, WantedDoubles
  <2>5. pause' >= Awaited'
    <3>1. CASE failures' = failures /\ failures = 0
      BY <2>1, <3>1 DEF Awaited
    <3>2. CASE failures' = failures /\ failures # 0
      <4>1. Awaited' = Wanted(failures - 1)
        BY <3>2 DEF Awaited
      <4> QED
        BY <1>1, <2>1, <2>2, <2>4, <3>2, <4>1
    <3>3. CASE failures' = failures + 1
      <4>1. failures' # 0 /\ failures' - 1 = failures
        BY <1>1, <3>3
      <4>2. Awaited' = Wanted(failures)
        BY <4>1 DEF Awaited
      <4> QED
        BY <2>1, <4>2
    <3> QED
      BY <2>1, <3>1, <3>2, <3>3
  <2>6. since' + pause' = pause'
    BY <1>1, <2>1
  <2>7. delay' >= Wanted(failures)'
    BY <2>1, <2>3
  <2> QED
    BY <2>1, <2>5, <2>6, <2>7 DEF Patient, Serving
<1>4. CASE Receive \/ Handled
  BY <1>4 DEF Receive, Handled, Patient, Serving
<1>5. CASE NoticeCut \/ NoticeClose
  <2>1. /\ pump' = "sleeping" /\ since' = since /\ failures' = failures /\ failures = 0
        /\ pause' = ReconnectMin /\ delay' >= ReconnectMin
    BY <1>1, <1>5
    DEF NoticeCut, NoticeClose, Pause, DelayGrows, Patient, Serving, Main, ClientOK
  <2>2. Awaited' = ReconnectMin /\ Wanted(failures)' = ReconnectMin
    BY <2>1, WantedFirst DEF Awaited
  <2> QED
    BY <1>1, <2>1, <2>2 DEF Patient, Serving
<1>6. CASE Wake
  <2>1. /\ pump = "sleeping" /\ pause = 0 /\ pump' = "connecting"
        /\ delay' = delay /\ since' = since /\ failures' = failures
    BY <1>6 DEF Wake
  <2>2. Awaited' = Awaited /\ since + pause >= Awaited
    BY <2>1 DEF Awaited, Patient
  <2> QED
    BY <1>1, <2>1, <2>2 DEF Patient, Serving
<1>7. CASE Watchdog
  BY <1>7, PatientStill DEF Watchdog, Poll, Ask, Act
<1>8. CASE Breaks \/ GoesDown \/ ComesUp \/ OtherComes \/ OtherLeaves
  BY <1>8, PatientStill DEF Breaks, GoesDown, ComesUp, OtherComes, OtherLeaves
<1>9. CASE Tick
  <2>1. /\ pump' = pump /\ delay' = delay /\ failures' = failures
        /\ pump # "connecting"
        /\ pump = "sleeping" => pause # 0
        /\ pause' = IF pump = "sleeping" THEN pause - 1 ELSE pause
        /\ since' = IF since < ReconnectMax THEN since + 1 ELSE since
    BY <1>9 DEF Tick, Urgent
  <2>2. Awaited' = Awaited /\ Awaited <= ReconnectMax /\ Awaited \in Nat
    <3>1. \A k \in Nat : Wanted(k) \in Nat /\ Wanted(k) <= ReconnectMax
      BY WantedDoubles
    <3>2. failures # 0 => failures - 1 \in Nat
      BY <1>1
    <3> QED
      BY <2>1, <3>1, <3>2 DEF Awaited
  <2>3. pump = "sleeping" => since' + pause' >= Awaited'
    <3> SUFFICES ASSUME pump = "sleeping" PROVE since' + pause' >= Awaited'
      OBVIOUS
    <3>1. since + pause >= Awaited
      BY DEF Patient
    <3> QED
      BY <1>1, <2>1, <2>2, <3>1
  <2>4. IF Serving' THEN failures' = 0 ELSE delay' >= Wanted(failures)'
    <3>1. Serving' = Serving /\ Wanted(failures)' = Wanted(failures)
      BY <2>1 DEF Serving
    <3> QED
      BY <2>1, <3>1 DEF Patient
  <2> QED
    BY <2>1, <2>3, <2>4 DEF Patient
<1> QED
  BY <1>2, <1>3, <1>4, <1>5, <1>6, <1>7, <1>8, <1>9 DEF Next, Pump

LEMMA StepKeeps == IInv /\ [Next]_vars => IInv'
<1>1. IInv /\ UNCHANGED vars => IInv'
  BY PatientStill
  DEF vars, outside, client, watchdog, history, IInv, Flags, Main, Types, ClientOK,
      SilenceEnds, Serving
<1>2. IInv /\ Next => IInv'
  BY FlagsKeep, OutsideKeeps, PumpKeeps, WatchdogKeeps, TickKeeps, PatientKeeps
  DEF Next, IInv
<1> QED
  BY <1>1, <1>2

LEMMA Inductive == Spec => []IInv
  BY Start, StepKeeps, PTL DEF Spec

-----------------------------------------------------------------------------
(* Every part of the client, the watchdog and the outside keeps its type;  *)
(* the delay stays between its two settings.                               *)
THEOREM TypeCorrect == Spec => []TypeOK
<1>1. IInv => TypeOK
  BY DEF IInv, Flags, Main, Types, TypeOK
<1> QED
  BY <1>1, Inductive, PTL

(* Whatever breaks, and however another consumer comes and goes, Asterisk  *)
(* while it is up has a consumer again after a check and the shortest      *)
(* pause, or the longest pause after an outage.                            *)
THEOREM SilenceAlwaysBounded == Spec => []SilenceBounded
<1>1. IInv => SilenceBounded
  BY AriEventsAssumption, LimitIsLargest
  DEF IInv, Main, Types, ClientOK, SilenceEnds, Serving, SilenceBounded
<1> QED
  BY <1>1, Inductive, PTL

(* Whatever fails and in which order: an attempt to connect after k        *)
(* failures in a row comes no sooner than twice the pause before the last, *)
(* up to the longest, and none sooner than the shortest.                   *)
THEOREM AlwaysBacksOff == Spec => BackedOff
<1>1. IInv /\ [Next]_vars =>
          [Attempts =>
               LET wanted == ReconnectMin * Pow2[IF failures = 0 THEN 0 ELSE failures - 1]
               IN  since >= IF wanted < ReconnectMax THEN wanted ELSE ReconnectMax]_vars
  BY DEF IInv, Patient, Awaited, Wanted, Attempts
<1> QED
  BY <1>1, Inductive, PTL DEF Spec, BackedOff

=============================================================================
