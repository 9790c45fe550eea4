------------------------------ MODULE PinEntry ------------------------------
(***************************************************************************)
(* A caller who shares a number types a PIN (ari/dtmf.py, _ask_for_code    *)
(* and _play of ari/stasis.py): prompts, key presses that wait in a queue, *)
(* the two timeouts of an attempt, and the attempts.  CallFlow knows the   *)
(* outcome of an attempt only.                                             *)
(*                                                                         *)
(* Time advances in ticks.  A timer goes off in the tick it is due, and    *)
(* keys may be read in that tick before it does.  Requests to Asterisk     *)
(* take no tick, and keys may be pressed while one is under way.           *)
(*                                                                         *)
(* `Fault:' marks a mistaken variant of the definition after it.           *)
(***************************************************************************)
EXTENDS Integers, Sequences, FiniteSetsExt

CONSTANTS
    Digits,        \* the digits of the keypad
    OtherKeys,     \* keys that mean nothing here, A to D
    Codes,         \* the PINs of the candidates routing found
    Length,        \* settings.ext_code_length
    Attempts,      \* settings.dtmf_max_attempts
    DigitTimeout,  \* settings.dtmf_digit_timeout_seconds
    TotalTimeout,  \* settings.dtmf_total_timeout_seconds
    PlayMax,       \* _PLAYBACK_MAX_WAIT_SECONDS
    MaxKeys        \* bound: the keys a caller presses in an attempt

VARIABLES
    at,       \* where _ask_for_code is
    attempt,
    queue,    \* the collector's queue
    buffer,   \* the digits it holds
    total,    \* ticks to the deadline of the attempt
    quiet,    \* ticks to the end of this wait
    wait,     \* ticks _play still waits for PlaybackFinished
    missed,   \* did PlaybackFinished come before _play waited for it?
    fed,      \* history: keys pressed since the attempt began
    held      \* history: ticks the caller has been kept

clocks == <<total, quiet, wait>>
vars == <<at, attempt, queue, buffer, clocks, missed, fed, held>>

Keys == Digits \cup OtherKeys \cup {"#", "*"}

ASSUME PinEntryAssumption ==
    /\ "#" \notin Digits \cup OtherKeys /\ "*" \notin Digits \cup OtherKeys
    /\ Digits \cap OtherKeys = {}
    /\ Codes \subseteq Seq(Digits) \ {<<>>}
    /\ {Length, Attempts, DigitTimeout, TotalTimeout, PlayMax} \subseteq Nat \ {0}
    /\ MaxKeys \in Nat

Over == {"matched", "rejected", "failed", "gone"}

TypeOK ==
    /\ at \in {"answer", "play", "prompt", "collect", "goodbye", "goodbye_prompt"}
              \cup Over
    /\ attempt \in 0..Attempts
    /\ queue \in Seq(Keys)
    /\ buffer \in Seq(Digits)
    /\ total \in 0..TotalTimeout
    /\ quiet \in 0..DigitTimeout
    /\ wait \in 0..PlayMax
    /\ missed \in BOOLEAN
    /\ fed \in Seq(Keys)
    /\ held \in Nat

Init ==
    /\ at = "answer" /\ attempt = 0
    /\ queue = <<>> /\ buffer = <<>>
    /\ total = 0 /\ quiet = 0 /\ wait = 0
    /\ missed = FALSE
    /\ fed = <<>> /\ held = 0

-----------------------------------------------------------------------------
(* Fault: what waits in the queue is kept for the next attempt             *)
ResetNot(rest) == queue' = rest

(* DigitCollector.reset                                                    *)
Reset(rest) == queue' = <<>>

BeginAttempt(rest) ==
    /\ Reset(rest)
    /\ attempt' = attempt + 1
    /\ buffer' = <<>> /\ fed' = <<>>
    /\ at' = "play"

Answer ==
    /\ at = "answer"
    /\ \/ BeginAttempt(queue)
       \/ at' = "failed" /\ UNCHANGED <<attempt, queue, buffer, fed>>
    /\ UNCHANGED <<clocks, missed, held>>

(* ChannelDtmfReceived, _on_dtmf and feed                                  *)
Press(key) ==
    /\ at \notin Over /\ Len(fed) < MaxKeys
    /\ queue' = Append(queue, key)
    /\ fed' = Append(fed, key)
    /\ UNCHANGED <<at, attempt, buffer, clocks, missed, held>>

(* The caller hangs up: _finish cancels the task                           *)
HangUp ==
    /\ at \notin Over
    /\ at' = "gone"
    /\ UNCHANGED <<attempt, queue, buffer, clocks, missed, fed, held>>

-----------------------------------------------------------------------------
(* What follows a prompt: collect, or after the last one the end           *)
AfterPrompt ==
    IF at \in {"play", "prompt"}
    THEN at' = "collect" /\ total' = TotalTimeout /\ quiet' = Min({DigitTimeout, TotalTimeout})
    ELSE at' = "rejected" /\ UNCHANGED <<total, quiet>>

(* _play: the request fails, or Asterisk plays and _play waits             *)
Play ==
    /\ at \in {"play", "goodbye"}
    /\ \/ AfterPrompt /\ UNCHANGED <<wait, missed>>
       \/ /\ at' = IF at = "play" THEN "prompt" ELSE "goodbye_prompt"
          /\ wait' = PlayMax
          /\ missed' \in BOOLEAN
          /\ UNCHANGED <<total, quiet>>
    /\ UNCHANGED <<attempt, queue, buffer, fed, held>>

PromptEnds ==
    /\ at \in {"prompt", "goodbye_prompt"} /\ ~missed
    /\ AfterPrompt
    /\ UNCHANGED <<attempt, queue, buffer, wait, missed, fed, held>>

(* Fault: a prompt is waited for until Asterisk says it ended              *)
PromptIsAwaited == PromptEnds

PromptTimesOut ==
    /\ at \in {"prompt", "goodbye_prompt"} /\ wait = 0
    /\ AfterPrompt
    /\ UNCHANGED <<attempt, queue, buffer, wait, missed, fed, held>>

-----------------------------------------------------------------------------
(* Fault: one attempt too many                                             *)
AttemptsLeftOneMore == attempt <= Attempts

AttemptsLeft == attempt < Attempts

(* The result of an attempt: a session is chosen, or the next prompt.      *)
(* `rest' is what the queue still holds.                                   *)
Result(digits, rest) ==
    IF digits \notin Codes /\ AttemptsLeft
    THEN BeginAttempt(rest)
    ELSE /\ at' = IF digits \in Codes THEN "matched" ELSE "goodbye"
         /\ queue' = rest
         /\ buffer' = digits
         /\ UNCHANGED <<attempt, fed>>

(* Fault: one more digit is waited for                                     *)
FullOneMore(digits) == Len(digits) > Length

Full(digits) == Len(digits) >= Length

(* Fault: every key moves the deadline                                     *)
WaitAnew == total' = TotalTimeout /\ quiet' = DigitTimeout

(* The next wait: for a key, and never beyond the deadline                 *)
WaitOn == UNCHANGED total /\ quiet' = Min({DigitTimeout, total})

Hold(digits, rest) ==
    /\ buffer' = digits /\ queue' = rest
    /\ WaitOn
    /\ UNCHANGED <<at, attempt, fed>>

(* One key of collect                                                      *)
TakeKey ==
    LET key == Head(queue)
        rest == Tail(queue)
        more == Append(buffer, key)
    IN  /\ at = "collect" /\ queue # <<>>
        /\ \/ key = "#" /\ Result(buffer, rest) /\ UNCHANGED <<total, quiet>>
           \/ key = "*" /\ Hold(<<>>, rest)
           \/ key \in OtherKeys /\ Hold(buffer, rest)
           \/ key \in Digits /\ ~Full(more) /\ Hold(more, rest)
           \/ /\ key \in Digits /\ Full(more)
              /\ Result(more, rest)
              /\ UNCHANGED <<total, quiet>>
        /\ UNCHANGED <<wait, missed, held>>

(* No key within the wait, or the deadline.  A key that arrives with the   *)
(* timer may find the wait given up.                                       *)
TimeOut ==
    /\ at = "collect" /\ (total = 0 \/ quiet = 0)
    /\ Result(buffer, queue)
    /\ UNCHANGED <<clocks, missed, held>>

Due ==
    \/ at = "collect" /\ (total = 0 \/ quiet = 0)
    \/ at \in {"prompt", "goodbye_prompt"} /\ wait = 0

Tick ==
    /\ at \in {"collect", "prompt", "goodbye_prompt"} /\ ~Due
    /\ held' = held + 1
    /\ IF at = "collect"
       THEN total' = total - 1 /\ quiet' = quiet - 1 /\ UNCHANGED wait
       ELSE wait' = wait - 1 /\ UNCHANGED <<total, quiet>>
    /\ UNCHANGED <<at, attempt, queue, buffer, missed, fed>>

Task == Answer \/ Play \/ PromptEnds \/ PromptTimesOut \/ TakeKey \/ TimeOut

Next == Task \/ Tick \/ HangUp \/ \E key \in Keys : Press(key)

Spec == Init /\ [][Next]_vars

(* The event loop goes on and time passes; nobody has to press a key.      *)
FairSpec == Spec /\ WF_vars(Answer) /\ WF_vars(Play) /\ WF_vars(PromptTimesOut)
                 /\ WF_vars(TakeKey) /\ WF_vars(TimeOut) /\ WF_vars(Tick)

-----------------------------------------------------------------------------
(* Correctness                                                             *)

(* What keys mean: the digits after the last "*".  They are an input once  *)
(* "#" or the last digit is pressed, and not before.                       *)
DigitsOf(keys) ==
    LET of[i \in 0..Len(keys)] ==
            IF i = 0 THEN <<>>
            ELSE IF keys[i] \in Digits THEN Append(of[i - 1], keys[i]) ELSE of[i - 1]
    IN  of[Len(keys)]

SinceStar(keys) ==
    LET stars == {i \in 1..Len(keys) : keys[i] = "*"}
        start == IF stars = {} THEN 0 ELSE Max(stars)
    IN  DigitsOf(SubSeq(keys, start + 1, Len(keys)))

Complete(keys) ==
    /\ keys # <<>>
    /\ keys[Len(keys)] = "#" \/ Len(SinceStar(keys)) = Length

Inputs(keys) == {i \in 1..Len(keys) : Complete(SubSeq(keys, 1, i))}

(* The keys of the attempt that have been read                             *)
Read == SubSeq(fed, 1, Len(fed) - Len(queue))

(* The collector holds what the caller typed in this attempt, during its   *)
(* prompt or after, and nothing of an attempt before.                      *)
Understood == at = "collect" => buffer = SinceStar(Read) /\ Inputs(Read) = {}

(* A PIN that was typed is not refused: when an attempt ends, the first    *)
(* input in it was no PIN, or time was up before it was read.              *)
Refused == at = "collect" /\ (at' = "goodbye" \/ attempt' # attempt)

CodeAccepted ==
    [][Refused => \/ Inputs(fed) # {} /\ SinceStar(SubSeq(fed, 1, Min(Inputs(fed)))) \notin Codes
                  \/ (total = 0 \/ quiet = 0) /\ SinceStar(Read) \notin Codes]_vars

(* No caller is kept longer than the prompts and deadlines of all attempts *)
HeldBounded == held <= Attempts * (PlayMax + TotalTimeout) + PlayMax

(* ... and every caller gets an answer, even when the end of a prompt is   *)
(* missed.                                                                 *)
Answered == <>(at \in Over)

=============================================================================
