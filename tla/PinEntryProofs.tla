--------------------------- MODULE PinEntryProofs ---------------------------
(***************************************************************************)
(* Theorems about PinEntry for every set of PINs, every number of attempts *)
(* and every timeout, with their proofs.                                   *)
(***************************************************************************)
EXTENDS PinEntry, SequenceTheorems, WellFoundedInduction, TLAPS

-----------------------------------------------------------------------------
(* Arithmetic of attempts                                                  *)

Settings ==
    /\ Length \in Nat /\ Attempts \in Nat /\ DigitTimeout \in Nat
    /\ TotalTimeout \in Nat /\ PlayMax \in Nat /\ MaxKeys \in Nat
    /\ Attempts > 0

LEMMA SettingsAreNumbers == Settings
  BY PinEntryAssumption DEF Settings

(* The ticks n attempts may take                                           *)
Spent(n) == n * (PlayMax + TotalTimeout)

LEMMA SpentTyped == ASSUME NEW n \in Nat PROVE Spent(n) \in Nat
  BY SettingsAreNumbers DEF Spent, Settings

LEMMA SpentAdds ==
    ASSUME NEW n \in Nat
    PROVE  Spent(n + 1) = Spent(n) + PlayMax + TotalTimeout
<1> DEFINE each == PlayMax + TotalTimeout
<1>1. each \in Nat
  BY SettingsAreNumbers DEF Settings
<1> HIDE DEF each
<1>2. (n + 1) * each = n * each + each
  BY <1>1
<1> QED
  BY <1>2, <1>1, SettingsAreNumbers DEF Spent, each, Settings

LEMMA SpentGrows ==
    ASSUME NEW n \in 0..Attempts
    PROVE  Spent(n) <= Spent(Attempts)
<1> DEFINE each == PlayMax + TotalTimeout
<1>1. each \in Nat /\ Attempts - n \in Nat /\ n \in Nat
  BY SettingsAreNumbers DEF Settings
<1> HIDE DEF each
<1>2. (Attempts - n) * each \in Nat
  BY <1>1
<1>3. Attempts * each = n * each + (Attempts - n) * each
  BY <1>1, SettingsAreNumbers DEF Settings
<1>4. n * each \in Nat
  BY <1>1
<1> QED
  BY <1>2, <1>3, <1>4 DEF Spent, each

LEMMA MinOfTwo ==
    ASSUME NEW m \in Nat, NEW n \in Nat
    PROVE  Min({m, n}) \in Nat /\ Min({m, n}) <= m /\ Min({m, n}) <= n
<1>1. \E x \in {m, n} : \A y \in {m, n} : x <= y
  OBVIOUS
<1> QED
  BY <1>1 DEF Min

-----------------------------------------------------------------------------
(* What keys mean                                                          *)

LEMMA LeastOf ==
    ASSUME NEW S, S \subseteq Nat, S # {}
    PROVE  \E n \in S : \A m \in S : n <= m
<1> DEFINE less == {ss \in Nat \X Nat : ss[1] < ss[2]}
<1>1. less = OpToRel(<, Nat)
  BY DEF OpToRel
<1>2. IsWellFoundedOn(less, Nat)
  BY <1>1, NatLessThanWellFounded
<1>3. \A x, y \in Nat : x < y => <<x, y>> \in less
  OBVIOUS
<1> HIDE DEF less
<1>4. \E n \in S : \A m \in S : <<m, n>> \notin less
  BY <1>2, WFMin
<1>5. PICK n \in S : \A m \in S : ~ (m < n)
  BY <1>3, <1>4, Zenon
<1> QED
  BY <1>5

(* The recursion of DigitsOf over the first n keys                         *)
Step(f, keys, i) ==
    IF i = 0 THEN <<>>
    ELSE IF keys[i] \in Digits THEN Append(f[i - 1], keys[i]) ELSE f[i - 1]

IsScan(f, keys, n) == f = [i \in 0..n |-> Step(f, keys, i)]

LEMMA ScanStep ==
    ASSUME NEW f, NEW keys, NEW n \in Nat, IsScan(f, keys, n)
    PROVE  f[0] = <<>> /\ \A i \in 1..n : f[i] = Step(f, keys, i)
<1>1. \A i \in 0..n : f[i] = Step(f, keys, i)
  BY DEF IsScan
<1>2. f[0] = Step(f, keys, 0) /\ Step(f, keys, 0) = <<>>
  BY <1>1 DEF Step
<1> QED
  BY <1>1, <1>2

LEMMA ScanGrows ==
    ASSUME NEW keys, NEW n \in Nat, NEW f, IsScan(f, keys, n)
    PROVE  \E g : IsScan(g, keys, n + 1)
<1> DEFINE g == [i \in 0..(n + 1) |-> IF i \in 0..n THEN f[i] ELSE Step(f, keys, n + 1)]
<1>1. ASSUME NEW i \in 0..(n + 1)
      PROVE  g[i] = Step(g, keys, i)
  <2>1. CASE i = 0
    BY <2>1, ScanStep DEF Step
  <2>2. CASE i # 0
    <3>1. g[i - 1] = f[i - 1]
      BY <2>2
    <3>2. Step(g, keys, i) = Step(f, keys, i)
      BY <2>2, <3>1 DEF Step
    <3>3. CASE i \in 0..n
      BY <2>2, <3>2, <3>3, ScanStep
    <3>4. CASE i = n + 1
      BY <3>2, <3>4
    <3> QED
      BY <3>3, <3>4
  <2> QED
    BY <2>1, <2>2
<1>2. g = [i \in 0..(n + 1) |-> g[i]]
  OBVIOUS
<1> HIDE DEF g
<1>3. g = [i \in 0..(n + 1) |-> Step(g, keys, i)]
  BY <1>1, <1>2
<1> QED
  BY <1>3 DEF IsScan

LEMMA ScanExists ==
    ASSUME NEW keys, NEW n \in Nat
    PROVE  \E f : IsScan(f, keys, n)
<1> DEFINE Bad == {m \in Nat : ~ \E f : IsScan(f, keys, m)}
<1>1. CASE Bad = {}
  BY <1>1
<1>2. CASE Bad # {}
  <2>1. PICK m \in Bad : \A k \in Bad : m <= k
    BY <1>2, LeastOf
  <2>2. CASE m = 0
    <3>1. IsScan([i \in 0..0 |-> <<>>], keys, 0)
      BY DEF IsScan, Step
    <3> QED
      BY <2>1, <2>2, <3>1
  <2>3. CASE m # 0
    <3>1. m - 1 \in Nat /\ m - 1 \notin Bad
      BY <2>1, <2>3
    <3>2. PICK f : IsScan(f, keys, m - 1)
      BY <3>1, Zenon
    <3>3. \E g : IsScan(g, keys, (m - 1) + 1)
      BY <3>1, <3>2, ScanGrows
    <3>4. (m - 1) + 1 = m
      BY <2>1
    <3> QED
      BY <2>1, <3>3, <3>4
  <2> QED
    BY <2>2, <2>3
<1> QED
  BY <1>1, <1>2

(* Scans of what begins with the same keys begin the same.                 *)
LEMMA ScanUnique ==
    ASSUME NEW n \in Nat, NEW m \in Nat, NEW k \in Nat, n <= m, n <= k,
           NEW f, NEW keys, IsScan(f, keys, m),
           NEW g, NEW others, IsScan(g, others, k),
           \A i \in 1..n : keys[i] = others[i]
    PROVE  f[n] = g[n]
<1> DEFINE Bad == {i \in 0..n : f[i] # g[i]}
<1>1. CASE Bad = {}
  BY <1>1
<1>2. CASE Bad # {}
  <2>1. Bad \subseteq Nat
    OBVIOUS
  <2>2. PICK i \in Bad : \A j \in Bad : i <= j
    BY <1>2, <2>1, LeastOf
  <2>3. i # 0
    BY <2>2, ScanStep
  <2>4. f[i - 1] = g[i - 1] /\ i \in 1..n
    BY <2>2, <2>3
  <2>5. f[i] = Step(f, keys, i) /\ g[i] = Step(g, others, i)
    BY <2>4, ScanStep
  <2>6. Step(f, keys, i) = Step(g, others, i)
    BY <2>4 DEF Step
  <2> QED
    BY <2>2, <2>5, <2>6
<1> QED
  BY <1>1, <1>2

LEMMA DigitsScanned ==
    ASSUME NEW keys, Len(keys) \in Nat
    PROVE  \E f : IsScan(f, keys, Len(keys)) /\ DigitsOf(keys) = f[Len(keys)]
<1> DEFINE f == CHOOSE of : of = [i \in 0..Len(keys) |->
                    IF i = 0 THEN <<>>
                    ELSE IF keys[i] \in Digits THEN Append(of[i - 1], keys[i])
                    ELSE of[i - 1]]
<1>1. DigitsOf(keys) = f[Len(keys)]
  BY Zenon DEF DigitsOf
<1>2. f = CHOOSE of : IsScan(of, keys, Len(keys))
  BY Zenon DEF IsScan, Step
<1>3. IsScan(f, keys, Len(keys))
  BY <1>2, ScanExists
<1> QED
  BY <1>1, <1>3

LEMMA DigitsOfNone ==
    ASSUME NEW keys, Len(keys) = 0
    PROVE  DigitsOf(keys) = <<>>
  BY DigitsScanned, ScanStep

(* One more key                                                            *)
LEMMA DigitsOfMore ==
    ASSUME NEW keys \in Seq(Keys), NEW key \in Keys
    PROVE  DigitsOf(Append(keys, key)) =
               IF key \in Digits THEN Append(DigitsOf(keys), key) ELSE DigitsOf(keys)
<1> DEFINE more == Append(keys, key)
           n == Len(keys)
<1>1. /\ n \in Nat /\ Len(more) = n + 1 /\ more[n + 1] = key
      /\ \A i \in 1..n : more[i] = keys[i]
  OBVIOUS
<1> HIDE DEF more
<1>2. PICK f : IsScan(f, keys, n) /\ DigitsOf(keys) = f[n]
  BY <1>1, DigitsScanned
<1>3. PICK g : IsScan(g, more, n + 1) /\ DigitsOf(more) = g[n + 1]
  BY <1>1, DigitsScanned
<1>4. g[n] = f[n]
  BY <1>1, <1>2, <1>3, ScanUnique
<1>5. g[n + 1] = Step(g, more, n + 1)
  BY <1>1, <1>3, ScanStep
<1>6. Step(g, more, n + 1) = IF key \in Digits THEN Append(g[n], key) ELSE g[n]
  BY <1>1 DEF Step
<1> QED
  BY <1>2, <1>3, <1>4, <1>5, <1>6 DEF more

(* Where the last "*" is                                                   *)
Stars(keys) == {i \in 1..Len(keys) : keys[i] = "*"}

LastStar(keys) == IF Stars(keys) = {} THEN 0 ELSE Max(Stars(keys))

LEMMA SinceStarOf ==
    ASSUME NEW keys
    PROVE  SinceStar(keys) = DigitsOf(SubSeq(keys, LastStar(keys) + 1, Len(keys)))
  BY Zenon DEF SinceStar, LastStar, Stars

LEMMA GreatestOf ==
    ASSUME NEW n \in Nat, NEW S, S \subseteq 1..n, S # {}
    PROVE  Max(S) \in S /\ \A i \in S : i <= Max(S)
<1> DEFINE Bounds == {m \in Nat : \A i \in S : i <= m}
<1>1. n \in Bounds
  OBVIOUS
<1>2. PICK m \in Bounds : \A k \in Bounds : m <= k
  BY <1>1, LeastOf
<1>3. m \in S
  <2>1. SUFFICES ASSUME m \notin S PROVE FALSE
    OBVIOUS
  <2>2. PICK x \in S : TRUE
    OBVIOUS
  <2>3. m \in Nat /\ x \in 1..n /\ \A i \in S : i \in Nat /\ i <= m
    BY <1>2
  <2>4. m - 1 \in Nat
    BY <2>2, <2>3
  <2>5. \A i \in S : i <= m - 1
    BY <2>1, <2>3
  <2>6. m - 1 \in Bounds
    BY <2>4, <2>5
  <2> QED
    BY <1>2, <2>3, <2>6
<1>4. \E x \in S : \A y \in S : x >= y
  BY <1>2, <1>3
<1>5. Max(S) \in S /\ \A y \in S : Max(S) >= y
  BY <1>4 DEF Max
<1> QED
  BY <1>5

LEMMA LastStarTyped ==
    ASSUME NEW keys \in Seq(Keys)
    PROVE  LastStar(keys) \in 0..Len(keys)
<1>1. Len(keys) \in Nat /\ Stars(keys) \subseteq 1..Len(keys)
  BY DEF Stars
<1>2. CASE Stars(keys) = {}
  BY <1>1, <1>2 DEF LastStar
<1>3. CASE Stars(keys) # {}
  <2>1. Max(Stars(keys)) \in Stars(keys)
    BY <1>1, <1>3, GreatestOf
  <2> QED
    BY <1>1, <1>3, <2>1 DEF LastStar
<1> QED
  BY <1>2, <1>3

LEMMA NothingTyped == SinceStar(<<>>) = <<>>
<1>1. SubSeq(<<>>, 1, 0) = <<>> /\ Len(<<>>) = 0 /\ Stars(<<>>) = {}
  BY SubSeqEmpty DEF Stars
<1>2. LastStar(<<>>) + 1 = 1
  BY <1>1 DEF LastStar
<1> QED
  BY <1>1, <1>2, SinceStarOf, DigitsOfNone

(* "*" forgets, a digit is added, other keys are not heard.                *)
LEMMA StarTyped ==
    ASSUME NEW keys \in Seq(Keys)
    PROVE  SinceStar(Append(keys, "*")) = <<>>
<1> DEFINE more == Append(keys, "*")
           n == Len(keys) + 1
<1>1. "*" \in Keys
  BY DEF Keys
<1>2. more \in Seq(Keys) /\ Len(more) = n /\ n \in Nat /\ more[n] = "*" /\ n > 0
  BY <1>1
<1> HIDE DEF more, n
<1>3. Stars(more) \subseteq 1..n /\ n \in Stars(more)
  BY <1>2 DEF Stars
<1>4. Max(Stars(more)) = n
  <2>1. Max(Stars(more)) \in Stars(more) /\ n <= Max(Stars(more))
    BY <1>2, <1>3, GreatestOf
  <2> QED
    BY <1>2, <1>3, <2>1
<1>5. LastStar(more) = n
  BY <1>3, <1>4 DEF LastStar
<1>6. SubSeq(more, n + 1, n) = <<>>
  BY <1>2, SubSeqEmpty
<1>7. SinceStar(more) = DigitsOf(<<>>)
  BY <1>2, <1>5, <1>6, SinceStarOf
<1> QED
  BY <1>7, DigitsOfNone DEF more

LEMMA KeyTyped ==
    ASSUME NEW keys \in Seq(Keys), NEW key \in Keys, key # "*"
    PROVE  SinceStar(Append(keys, key)) =
               IF key \in Digits THEN Append(SinceStar(keys), key) ELSE SinceStar(keys)
<1> DEFINE more == Append(keys, key)
           n == Len(keys)
           from == LastStar(keys) + 1
           old == SubSeq(keys, from, n)
<1>1. /\ more \in Seq(Keys) /\ Len(more) = n + 1 /\ n \in Nat /\ more[n + 1] = key
      /\ \A i \in 1..n : more[i] = keys[i]
  OBVIOUS
<1>2. from \in 1..(n + 1)
  BY <1>1, LastStarTyped
<1>3. Stars(more) = Stars(keys)
  BY <1>1 DEF Stars
<1>4. LastStar(more) + 1 = from
  BY <1>3 DEF LastStar
<1> HIDE DEF more, from
<1>5. /\ old \in Seq(Keys)
      /\ Len(old) = IF from <= n THEN n - from + 1 ELSE 0
      /\ \A i \in 1..(n - from + 1) : old[i] = keys[from + i - 1]
  <2>1. \A i \in from..n : keys[i] \in Keys
    BY <1>1, <1>2
  <2> QED
    BY <1>1, <1>2, <2>1, SubSeqProperties
<1>6. /\ SubSeq(more, from, n + 1) \in Seq(Keys)
      /\ Len(SubSeq(more, from, n + 1)) = (n + 1) - from + 1
      /\ \A i \in 1..((n + 1) - from + 1) :
             SubSeq(more, from, n + 1)[i] = more[from + i - 1]
  <2>1. \A i \in from..(n + 1) : more[i] \in Keys
    BY <1>1, <1>2
  <2> QED
    BY <1>1, <1>2, <2>1, SubSeqProperties
<1> HIDE DEF old
<1>7. SubSeq(more, from, n + 1) = Append(old, key)
  <2>1. /\ Append(old, key) \in Seq(Keys) /\ Len(Append(old, key)) = Len(old) + 1
        /\ \A i \in 1..Len(old) : Append(old, key)[i] = old[i]
        /\ Append(old, key)[Len(old) + 1] = key
    BY <1>5, AppendProperties
  <2>2. Len(old) = n - from + 1 /\ Len(old) \in Nat
    BY <1>1, <1>2, <1>5
  <2>3. Len(Append(old, key)) = Len(SubSeq(more, from, n + 1))
    BY <1>1, <1>2, <1>6, <2>1, <2>2
  <2>4. ASSUME NEW i \in 1..(Len(old) + 1)
        PROVE  SubSeq(more, from, n + 1)[i] = Append(old, key)[i]
    <3>1. SubSeq(more, from, n + 1)[i] = more[from + i - 1]
      BY <1>1, <1>2, <1>6, <2>2
    <3>2. CASE i \in 1..Len(old)
      <4>1. old[i] = keys[from + i - 1] /\ from + i - 1 \in 1..n
        BY <1>1, <1>2, <1>5, <2>2, <3>2
      <4> QED
        BY <1>1, <2>1, <3>1, <3>2, <4>1
    <3>3. CASE i = Len(old) + 1
      <4>1. from + i - 1 = n + 1
        BY <1>1, <1>2, <2>2, <3>3
      <4> QED
        BY <1>1, <2>1, <3>1, <3>3, <4>1
    <3>4. i \in 1..Len(old) \/ i = Len(old) + 1
      BY <2>2
    <3> QED
      BY <3>2, <3>3, <3>4
  <2> QED
    BY <1>6, <2>1, <2>3, <2>4, SeqEqual
<1>8. SinceStar(more) = DigitsOf(Append(old, key))
  BY <1>1, <1>4, <1>7, SinceStarOf
<1>9. SinceStar(keys) = DigitsOf(old)
  BY SinceStarOf DEF old, from
<1> QED
  BY <1>5, <1>8, <1>9, DigitsOfMore DEF more

LEMMA SubSeqOfAppend ==
    ASSUME NEW keys \in Seq(Keys), NEW key \in Keys,
           NEW a \in Nat \ {0}, NEW b \in 0..Len(keys)
    PROVE  SubSeq(Append(keys, key), a, b) = SubSeq(keys, a, b)
<1>1. CASE b < a
  BY <1>1, SubSeqEmpty
<1>2. CASE a <= b
  <2>1. Append(keys, key) = keys \o <<key>> /\ <<key>> \in Seq(Keys)
    BY AppendIsConcat
  <2>2. a \in 1..Len(keys) /\ b \in 1..Len(keys)
    BY <1>2
  <2> QED
    BY <2>1, <2>2, SubSeqOfConcat1
<1> QED
  BY <1>1, <1>2

LEMMA SubSeqExtended ==
    ASSUME NEW keys \in Seq(Keys), NEW a \in 1..Len(keys), NEW b \in a..Len(keys)
    PROVE  SubSeq(keys, a, b) = Append(SubSeq(keys, a, b - 1), keys[b])
<1>1. SubSeq(keys, a, b) = SubSeq(keys, a, b - 1) \o <<keys[b]>>
  BY SubSeqRecursiveSecond
<1>2. SubSeq(keys, a, b - 1) \in Seq(Keys)
  <2>1. \A i \in a..(b - 1) : keys[i] \in Keys
    OBVIOUS
  <2> QED
    BY <2>1, SubSeqProperties
<1>3. keys[b] \in Keys
  OBVIOUS
<1> QED
  BY <1>1, <1>2, <1>3, AppendIsConcat

(* A key completes an input or there is none yet.                          *)
LEMMA InputsNone == Inputs(<<>>) = {}
  BY DEF Inputs

LEMMA InputsOfMore ==
    ASSUME NEW keys \in Seq(Keys), NEW key \in Keys, Inputs(keys) = {}
    PROVE  ~Complete(Append(keys, key)) => Inputs(Append(keys, key)) = {}
<1> DEFINE more == Append(keys, key)
           n == Len(keys)
<1>1. more \in Seq(Keys) /\ n \in Nat /\ Len(more) = n + 1
  OBVIOUS
<1>2. \A i \in 1..n : SubSeq(more, 1, i) = SubSeq(keys, 1, i)
  BY <1>1, SubSeqOfAppend
<1>3. SubSeq(more, 1, n + 1) = more
  BY <1>1, SubSeqFull
<1> HIDE DEF more
<1>4. \A i \in 1..n : ~Complete(SubSeq(keys, 1, i))
  BY DEF Inputs
<1>5. ~Complete(more) => \A i \in 1..(n + 1) : ~Complete(SubSeq(more, 1, i))
  <2> SUFFICES ASSUME ~Complete(more), NEW i \in 1..(n + 1)
               PROVE  ~Complete(SubSeq(more, 1, i))
    OBVIOUS
  <2>1. CASE i = n + 1
    BY <1>3, <2>1
  <2>2. CASE i # n + 1
    <3>1. i \in 1..n
      BY <1>1, <2>2
    <3> QED
      BY <1>2, <1>4, <3>1
  <2> QED
    BY <2>1, <2>2
<1> QED
  BY <1>1, <1>5 DEF Inputs, more

-----------------------------------------------------------------------------
(* The invariant                                                           *)

Places == {"answer", "play", "prompt", "collect", "goodbye", "goodbye_prompt"}

Numbers ==
    /\ at \in Places \cup Over
    /\ attempt \in 0..Attempts
    /\ total \in 0..TotalTimeout /\ quiet \in 0..DigitTimeout /\ wait \in 0..PlayMax
    /\ held \in Nat
    /\ at \in Places => (attempt = 0 <=> at = "answer")

Keyed == queue \in Seq(Keys) /\ buffer \in Seq(Digits) /\ fed \in Seq(Keys)

Flag == missed \in BOOLEAN

(* What the attempts so far have taken, with what the prompt or the keys   *)
(* of this one may still take: never more than their timeouts.             *)
InTime ==
    /\ at = "answer" => held = 0
    /\ at = "play" => held <= Spent(attempt - 1)
    /\ at = "prompt" => held + wait <= Spent(attempt - 1) + PlayMax
    /\ at = "collect" => held + total <= Spent(attempt)
    /\ at = "goodbye" => held <= Spent(attempt)
    /\ at = "goodbye_prompt" => held + wait <= Spent(attempt) + PlayMax
    /\ at \in Over => HeldBounded

(* What waits in the queue is what was pressed and not read, and the       *)
(* buffer holds what the keys read mean.                                   *)
Heard ==
    /\ Len(queue) <= Len(fed)
    /\ queue = SubSeq(fed, Len(fed) - Len(queue) + 1, Len(fed))
    /\ buffer = SinceStar(Read) /\ Inputs(Read) = {} /\ Len(buffer) < Length

Dialog ==
    /\ at \in {"play", "prompt"} => queue = fed /\ buffer = <<>>
    /\ at = "collect" => Heard

IInv == Numbers /\ Keyed /\ Flag /\ InTime /\ Dialog

LEMMA Start == Init => IInv
<1>1. Init => Numbers /\ InTime
  BY SettingsAreNumbers DEF Init, Settings, Numbers, Places, Over, InTime
<1>2. Init => Keyed
  BY DEF Init, Keyed
<1>3. Init => Flag
  BY DEF Init, Flag
<1>4. Init => Dialog
  BY DEF Init, Dialog
<1> QED
  BY <1>1, <1>2, <1>3, <1>4 DEF IInv

(* The attempt in progress, and those before it                            *)
LEMMA AttemptSpent ==
    ASSUME Numbers, at \in Places, at # "answer"
    PROVE  /\ attempt \in 1..Attempts
           /\ Spent(attempt - 1) \in Nat /\ Spent(attempt) \in Nat
           /\ Spent(attempt) = Spent(attempt - 1) + PlayMax + TotalTimeout
           /\ Spent(attempt) <= Spent(Attempts)
           /\ Spent(Attempts) \in Nat
<1>1. attempt \in 1..Attempts /\ attempt - 1 \in Nat /\ (attempt - 1) + 1 = attempt
  BY SettingsAreNumbers DEF Numbers, Settings
<1>2. /\ Spent(attempt - 1) \in Nat /\ Spent(attempt) \in Nat
      /\ Spent(Attempts) \in Nat
  BY <1>1, SpentTyped, SettingsAreNumbers DEF Settings
<1>3. Spent((attempt - 1) + 1) = Spent(attempt - 1) + PlayMax + TotalTimeout
  BY <1>1, SpentAdds
<1>4. Spent(attempt) <= Spent(Attempts)
  BY <1>1, SpentGrows
<1> QED
  BY <1>1, <1>2, <1>3, <1>4

LEMMA InTimeBounds ==
    ASSUME Numbers, InTime
    PROVE  HeldBounded
<1>1. Attempts * (PlayMax + TotalTimeout) = Spent(Attempts)
  BY DEF Spent
<1>2. CASE at \in Over
  BY <1>2 DEF InTime
<1>3. CASE at = "answer"
  <2>1. Spent(Attempts) \in Nat
    BY SpentTyped, SettingsAreNumbers DEF Settings
  <2> QED
    BY <1>1, <1>3, <2>1, SettingsAreNumbers DEF InTime, HeldBounded, Settings
<1>4. CASE at \in Places \ {"answer"}
  BY <1>1, <1>4, AttemptSpent, SettingsAreNumbers
  DEF InTime, HeldBounded, Settings, Numbers, Places
<1> QED
  BY <1>2, <1>3, <1>4 DEF Numbers

-----------------------------------------------------------------------------
(* The steps                                                               *)

(* A tick of waiting takes from what is left                               *)
LEMMA SumKept ==
    ASSUME NEW spent \in Nat, NEW left \in Nat, NEW most \in Nat,
           left # 0, spent + left <= most
    PROVE  (spent + 1) + (left - 1) <= most
  OBVIOUS

LEMMA KeysKeep ==
    ASSUME Keyed, Next
    PROVE  Keyed'
<1> USE DEF Keyed
<1>1. \A key \in Keys : Append(queue, key) \in Seq(Keys) /\ Append(fed, key) \in Seq(Keys)
  OBVIOUS
<1>2. ASSUME NEW rest \in Seq(Keys), BeginAttempt(rest)
      PROVE  Keyed'
  BY <1>2 DEF BeginAttempt, Reset
<1>3. ASSUME NEW digits \in Seq(Digits), NEW rest \in Seq(Keys), Result(digits, rest)
      PROVE  Keyed'
  BY <1>2, <1>3 DEF Result
<1>4. CASE Answer
  BY <1>2, <1>4 DEF Answer
<1>5. CASE Play \/ PromptEnds \/ PromptTimesOut \/ Tick \/ HangUp
  BY <1>5 DEF Play, PromptEnds, PromptTimesOut, Tick, HangUp
<1>6. CASE TakeKey
  <2>1. queue # <<>> /\ Head(queue) \in Keys /\ Tail(queue) \in Seq(Keys)
    BY <1>6 DEF TakeKey
  <2>2. Head(queue) \in Digits => Append(buffer, Head(queue)) \in Seq(Digits)
    OBVIOUS
  <2>3. ASSUME NEW digits \in Seq(Digits), Hold(digits, Tail(queue))
        PROVE  Keyed'
    BY <2>1, <2>3 DEF Hold
  <2>4. <<>> \in Seq(Digits)
    OBVIOUS
  <2> QED
    BY <1>3, <1>6, <2>1, <2>2, <2>3, <2>4 DEF TakeKey
<1>7. CASE TimeOut
  BY <1>3, <1>7 DEF TimeOut
<1>8. CASE \E key \in Keys : Press(key)
  BY <1>1, <1>8 DEF Press
<1> QED
  BY <1>4, <1>5, <1>6, <1>7, <1>8 DEF Next, Task

LEMMA FlagKeeps ==
    ASSUME Flag, Next
    PROVE  Flag'
<1> USE DEF Flag, Next, Task
<1>1. CASE Play
  BY <1>1 DEF Play
<1>2. CASE ~Play
  BY <1>2 DEF Answer, PromptEnds, PromptTimesOut, TakeKey, TimeOut, Tick, HangUp, Press
<1> QED
  BY <1>1, <1>2

(* An attempt begins when the ones before have had their time.             *)
LEMMA AnswerKeeps ==
    ASSUME Numbers, InTime, Answer
    PROVE  Numbers' /\ InTime'
<1>1. /\ at = "answer" /\ attempt = 0 /\ held = 0 /\ held' = held
      /\ total' = total /\ quiet' = quiet /\ wait' = wait
  BY DEF Answer, Numbers, InTime, Places, clocks
<1>2. Spent(0) \in Nat /\ Spent(Attempts) \in Nat /\ HeldBounded
  BY InTimeBounds, SpentTyped, SettingsAreNumbers DEF Settings
<1>3. CASE BeginAttempt(queue)
  <2>1. attempt' = 1 /\ at' = "play" /\ attempt' - 1 = 0
    BY <1>1, <1>3 DEF BeginAttempt
  <2> QED
    BY <1>1, <1>2, <2>1, SettingsAreNumbers
    DEF Numbers, InTime, Places, Over, Settings
<1>4. CASE at' = "failed" /\ attempt' = attempt
  BY <1>1, <1>2, <1>4 DEF Numbers, InTime, Places, Over, HeldBounded
<1> QED
  BY <1>3, <1>4 DEF Answer

LEMMA StillKeeps ==
    ASSUME Numbers, InTime, UNCHANGED <<at, attempt, clocks, held>>
    PROVE  Numbers' /\ InTime'
  BY DEF Numbers, InTime, Places, Over, HeldBounded, clocks

LEMMA HangUpKeeps ==
    ASSUME Numbers, InTime, HangUp
    PROVE  Numbers' /\ InTime'
<1>1. HeldBounded
  BY InTimeBounds
<1> QED
  BY <1>1 DEF HangUp, Numbers, InTime, Places, Over, HeldBounded, clocks

(* After a prompt the caller has the whole time of the attempt, or leaves. *)
LEMMA PromptOver ==
    ASSUME Numbers, InTime, AfterPrompt,
           at \in {"play", "prompt", "goodbye", "goodbye_prompt"},
           UNCHANGED <<attempt, held>>, wait' \in 0..PlayMax
    PROVE  Numbers' /\ InTime'
<1>1. /\ attempt \in 1..Attempts
      /\ Spent(attempt - 1) \in Nat /\ Spent(attempt) \in Nat
      /\ Spent(attempt) = Spent(attempt - 1) + PlayMax + TotalTimeout
      /\ HeldBounded
  BY AttemptSpent, InTimeBounds DEF Places
<1>2. CASE at \in {"play", "prompt"}
  <2>1. at' = "collect" /\ total' = TotalTimeout
    BY <1>2 DEF AfterPrompt
  <2>2. quiet' \in 0..DigitTimeout
    <3>1. quiet' = Min({DigitTimeout, TotalTimeout})
      BY <1>2 DEF AfterPrompt
    <3> QED
      BY <3>1, MinOfTwo, SettingsAreNumbers DEF Settings
  <2>3. held <= Spent(attempt - 1) + PlayMax
    BY <1>1, <1>2, SettingsAreNumbers DEF Numbers, InTime, Settings
  <2>4. held + TotalTimeout <= Spent(attempt)
    BY <1>1, <2>3, SettingsAreNumbers DEF Numbers, Settings
  <2>5. Numbers'
    BY <1>1, <2>1, <2>2, SettingsAreNumbers DEF Numbers, Places, Over, Settings
  <2> QED
    BY <2>1, <2>4, <2>5 DEF InTime, Over
<1>3. CASE at \in {"goodbye", "goodbye_prompt"}
  <2>1. at' = "rejected" /\ total' = total /\ quiet' = quiet
    BY <1>3 DEF AfterPrompt
  <2> QED
    BY <1>1, <2>1 DEF Numbers, InTime, Places, Over, HeldBounded
<1> QED
  BY <1>2, <1>3

LEMMA PlayKeeps ==
    ASSUME Numbers, InTime, Play
    PROVE  Numbers' /\ InTime'
<1>1. at \in {"play", "goodbye"} /\ attempt' = attempt /\ held' = held
  BY DEF Play
<1>2. CASE AfterPrompt /\ wait' = wait
  BY <1>1, <1>2, PromptOver DEF Numbers
<1>3. CASE /\ at' = IF at = "play" THEN "prompt" ELSE "goodbye_prompt"
           /\ wait' = PlayMax /\ total' = total /\ quiet' = quiet
  <2>1. /\ Spent(attempt - 1) \in Nat /\ Spent(attempt) \in Nat /\ held \in Nat
        /\ PlayMax \in Nat
    BY <1>1, AttemptSpent, SettingsAreNumbers DEF Places, Numbers, Settings
  <2>2. at = "play" => held + PlayMax <= Spent(attempt - 1) + PlayMax
    BY <2>1 DEF InTime
  <2>3. at = "goodbye" => held + PlayMax <= Spent(attempt) + PlayMax
    BY <2>1 DEF InTime
  <2>4. Numbers'
    BY <1>1, <1>3, SettingsAreNumbers DEF Numbers, Places, Over, Settings
  <2> QED
    BY <1>1, <1>3, <2>2, <2>3, <2>4 DEF InTime, Over
<1> QED
  BY <1>2, <1>3 DEF Play

LEMMA PromptKeeps ==
    ASSUME Numbers, InTime, PromptEnds \/ PromptTimesOut
    PROVE  Numbers' /\ InTime'
  BY PromptOver DEF PromptEnds, PromptTimesOut, Numbers

(* A result leaves what is left of the time unused.                        *)
LEMMA ResultKeeps ==
    ASSUME Numbers, InTime, at = "collect", NEW digits, NEW rest,
           Result(digits, rest), UNCHANGED <<clocks, held>>
    PROVE  Numbers' /\ InTime'
<1>1. /\ attempt \in 1..Attempts /\ Spent(attempt) \in Nat
      /\ HeldBounded
  BY AttemptSpent, InTimeBounds DEF Places
<1>2. held <= Spent(attempt)
  BY <1>1, SettingsAreNumbers DEF Numbers, InTime, Settings
<1>3. CASE AttemptsLeft /\ BeginAttempt(rest)
  <2>1. /\ at' = "play" /\ attempt' = attempt + 1 /\ attempt' \in 1..Attempts
        /\ attempt' - 1 = attempt
    BY <1>1, <1>3, SettingsAreNumbers DEF AttemptsLeft, BeginAttempt, Settings
  <2>2. Numbers'
    BY <2>1 DEF Numbers, Places, Over, clocks
  <2> QED
    BY <1>2, <2>1, <2>2 DEF InTime, Over
<1>4. CASE at' \in {"matched", "goodbye"} /\ attempt' = attempt
  BY <1>1, <1>2, <1>4 DEF Numbers, InTime, Places, Over, HeldBounded, clocks
<1> QED
  BY <1>3, <1>4 DEF Result

LEMMA TakeKeyKeeps ==
    ASSUME Numbers, InTime, TakeKey
    PROVE  Numbers' /\ InTime'
<1>1. CASE \E digits : Result(digits, Tail(queue)) /\ UNCHANGED <<total, quiet>>
  BY <1>1, ResultKeeps DEF TakeKey, clocks
<1>2. CASE \E digits : Hold(digits, Tail(queue))
  <2>1. /\ at = "collect" /\ at' = at /\ attempt' = attempt /\ held' = held
        /\ wait' = wait /\ total' = total /\ quiet' = Min({DigitTimeout, total})
    BY <1>2 DEF TakeKey, Hold, WaitOn
  <2>2. quiet' \in 0..DigitTimeout
    BY <2>1, MinOfTwo, SettingsAreNumbers DEF Numbers, Settings
  <2> QED
    BY <2>1, <2>2 DEF Numbers, InTime, Places, Over, HeldBounded
<1> QED
  BY <1>1, <1>2 DEF TakeKey

LEMMA TickKeeps ==
    ASSUME Numbers, InTime, Tick
    PROVE  Numbers' /\ InTime'
<1>1. /\ at' = at /\ attempt' = attempt /\ held' = held + 1
      /\ at \in {"collect", "prompt", "goodbye_prompt"}
  BY DEF Tick
<1>2. /\ attempt \in 1..Attempts /\ held \in Nat /\ PlayMax \in Nat
      /\ Spent(attempt - 1) \in Nat /\ Spent(attempt) \in Nat
      /\ Spent(attempt - 1) + PlayMax \in Nat /\ Spent(attempt) + PlayMax \in Nat
  BY <1>1, AttemptSpent, SettingsAreNumbers DEF Places, Numbers, Settings
<1>3. CASE at = "collect"
  <2>1. /\ total' = total - 1 /\ quiet' = quiet - 1 /\ wait' = wait
        /\ total # 0 /\ quiet # 0
    BY <1>3 DEF Tick, Due
  <2>2. total \in Nat /\ held + total <= Spent(attempt)
    BY <1>3, SettingsAreNumbers DEF Numbers, InTime, Settings
  <2>3. (held + 1) + (total - 1) <= Spent(attempt)
    BY <1>2, <2>1, <2>2, SumKept
  <2>4. Numbers'
    BY <1>1, <1>3, <2>1, SettingsAreNumbers DEF Numbers, Places, Over, Settings
  <2> QED
    BY <1>1, <1>3, <2>1, <2>3, <2>4 DEF InTime, Over
<1>4. CASE at \in {"prompt", "goodbye_prompt"}
  <2>1. wait' = wait - 1 /\ total' = total /\ quiet' = quiet /\ wait # 0
    BY <1>4 DEF Tick, Due
  <2>2. wait \in Nat
    BY SettingsAreNumbers DEF Numbers, Settings
  <2>3. at = "prompt" => (held + 1) + (wait - 1) <= Spent(attempt - 1) + PlayMax
    BY <1>2, <2>1, <2>2, SumKept DEF InTime
  <2>4. at = "goodbye_prompt" => (held + 1) + (wait - 1) <= Spent(attempt) + PlayMax
    BY <1>2, <2>1, <2>2, SumKept DEF InTime
  <2>5. Numbers'
    BY <1>1, <1>4, <2>1, SettingsAreNumbers DEF Numbers, Places, Over, Settings
  <2> QED
    BY <1>1, <1>4, <2>1, <2>3, <2>4, <2>5 DEF InTime, Over
<1> QED
  BY <1>1, <1>3, <1>4

(* The first key of the queue is the first one not read.                   *)
LEMMA NextKey ==
    ASSUME Keyed, Heard, queue # <<>>
    PROVE  LET n == Len(fed) - Len(queue)
           IN  /\ n \in Nat /\ n + 1 \in 1..Len(fed)
               /\ Read \in Seq(Keys) /\ Head(queue) \in Keys
               /\ SubSeq(fed, 1, n + 1) = Append(Read, Head(queue))
               /\ Tail(queue) = SubSeq(fed, n + 2, Len(fed))
               /\ Len(Tail(queue)) = Len(queue) - 1
<1> DEFINE n == Len(fed) - Len(queue)
<1>1. /\ queue \in Seq(Keys) /\ fed \in Seq(Keys) /\ Len(fed) \in Nat
      /\ Len(queue) \in Nat /\ Len(queue) > 0 /\ Len(queue) <= Len(fed)
  BY DEF Keyed, Heard
<1>2. n \in Nat /\ n + 1 \in 1..Len(fed)
  BY <1>1
<1>3. queue = SubSeq(fed, n + 1, Len(fed))
  BY DEF Heard
<1>4. Head(queue) = fed[n + 1] /\ Tail(queue) = SubSeq(fed, (n + 1) + 1, Len(fed))
  <2>1. Len(fed) \in (n + 1)..Len(fed)
    BY <1>1, <1>2
  <2> HIDE DEF n
  <2>2. /\ Head(SubSeq(fed, n + 1, Len(fed))) = fed[n + 1]
        /\ Tail(SubSeq(fed, n + 1, Len(fed))) = SubSeq(fed, (n + 1) + 1, Len(fed))
    BY <1>1, <1>2, <2>1, HeadTailOfSubSeq
  <2> QED
    BY <1>3, <2>2
<1>5. SubSeq(fed, 1, n + 1) = Append(SubSeq(fed, 1, n), fed[n + 1])
  <2>1. 1 \in 1..Len(fed) /\ n + 1 \in 1..Len(fed) /\ (n + 1) - 1 = n
    BY <1>1, <1>2
  <2> HIDE DEF n
  <2> QED
    BY <1>1, <2>1, SubSeqExtended
<1>6. SubSeq(fed, 1, n) \in Seq(Keys)
  <2>1. \A i \in 1..n : fed[i] \in Keys
    BY <1>1, <1>2
  <2> HIDE DEF n
  <2> QED
    BY <1>2, <2>1, SubSeqProperties
<1>7. fed[n + 1] \in Keys /\ (n + 1) + 1 = n + 2
  BY <1>1, <1>2
<1>8. Len(Tail(queue)) = Len(queue) - 1
  BY <1>1, HeadTailProperties
<1> QED
  BY <1>2, <1>4, <1>5, <1>6, <1>7, <1>8 DEF Read

(* A key that is read: "#" or the last digit ends the attempt; after the   *)
(* others there is still no input.                                         *)
LEMMA KeyRead ==
    ASSUME Keyed, Heard, queue # <<>>
    PROVE  LET key == Head(queue)
               keys == Append(Read, key)
           IN  /\ key = "*" => SinceStar(keys) = <<>> /\ ~Complete(keys)
               /\ key \in OtherKeys => SinceStar(keys) = buffer /\ ~Complete(keys)
               /\ key \in Digits =>
                      /\ SinceStar(keys) = Append(buffer, key)
                      /\ Complete(keys) <=> Full(Append(buffer, key))
               /\ key = "#" => SinceStar(keys) = buffer /\ Complete(keys)
<1> DEFINE key == Head(queue)
           keys == Append(Read, key)
<1>1. /\ Read \in Seq(Keys) /\ key \in Keys
      /\ buffer \in Seq(Digits) /\ buffer = SinceStar(Read) /\ Inputs(Read) = {}
      /\ Len(buffer) < Length
  BY NextKey DEF Keyed, Heard
<1>2. /\ Length \in Nat \ {0}
      /\ "#" \notin Digits /\ "*" \notin Digits /\ "#" \notin OtherKeys
      /\ "*" \notin OtherKeys /\ Digits \cap OtherKeys = {}
  BY PinEntryAssumption
<1> HIDE DEF key
<1>3. /\ keys \in Seq(Keys) /\ keys # <<>> /\ Len(keys) = Len(Read) + 1
      /\ keys[Len(keys)] = key
  BY <1>1, AppendProperties
<1>4. /\ key = "*" => SinceStar(keys) = <<>>
      /\ key # "*" => SinceStar(keys) = IF key \in Digits THEN Append(buffer, key) ELSE buffer
  BY <1>1, StarTyped, KeyTyped
<1> HIDE DEF keys
<1>5. Complete(keys) <=> key = "#" \/ Len(SinceStar(keys)) = Length
  BY <1>3 DEF Complete
<1>6. Len(<<>>) # Length /\ Len(buffer) # Length
  BY <1>1, <1>2
<1>7. key \in Digits => Len(Append(buffer, key)) = Len(buffer) + 1
  BY <1>1, AppendProperties
<1>8. key \in Digits => (Len(Append(buffer, key)) = Length <=> Full(Append(buffer, key)))
  BY <1>1, <1>2, <1>7 DEF Full
<1> QED
  BY <1>2, <1>4, <1>5, <1>6, <1>8 DEF keys, key

(* With the first key of the queue read, the rest still waits.             *)
LEMMA HoldHears ==
    ASSUME Keyed, Heard, queue # <<>>, NEW digits, Hold(digits, Tail(queue)),
           digits = SinceStar(Append(Read, Head(queue))),
           ~Complete(Append(Read, Head(queue))), Len(digits) < Length
    PROVE  Heard'
<1> DEFINE n == Len(fed) - Len(queue)
<1>1. buffer' = digits /\ queue' = Tail(queue) /\ fed' = fed
  BY DEF Hold
<1>2. /\ n \in Nat /\ n + 1 \in 1..Len(fed)
      /\ Read \in Seq(Keys) /\ Head(queue) \in Keys
      /\ SubSeq(fed, 1, n + 1) = Append(Read, Head(queue))
      /\ Tail(queue) = SubSeq(fed, n + 2, Len(fed))
      /\ Len(Tail(queue)) = Len(queue) - 1
  BY NextKey
<1>3. Len(fed) \in Nat /\ Len(queue) \in Nat
  BY DEF Keyed
<1>4. Len(fed') - Len(queue') = n + 1 /\ (n + 1) + 1 = n + 2 /\ Len(queue') <= Len(fed')
  BY <1>1, <1>2, <1>3
<1>5. Read' = Append(Read, Head(queue))
  BY <1>1, <1>2, <1>4 DEF Read
<1>6. Inputs(Append(Read, Head(queue))) = {}
  BY <1>2, InputsOfMore DEF Heard
<1> QED
  BY <1>1, <1>2, <1>4, <1>5, <1>6 DEF Heard

LEMMA PressHears ==
    ASSUME Keyed, Heard, NEW key \in Keys, Press(key)
    PROVE  Heard'
<1> DEFINE n == Len(fed) - Len(queue)
<1>1. queue' = Append(queue, key) /\ fed' = Append(fed, key) /\ buffer' = buffer
  BY DEF Press
<1>2. /\ queue \in Seq(Keys) /\ fed \in Seq(Keys) /\ Len(fed) \in Nat
      /\ Len(queue) \in Nat /\ Len(queue) <= Len(fed)
      /\ queue = SubSeq(fed, n + 1, Len(fed))
  BY DEF Keyed, Heard
<1>3. n \in 0..Len(fed) /\ n + 1 \in Nat \ {0} /\ 1 \in Nat \ {0} /\ Len(fed) \in 0..Len(fed)
  BY <1>2
<1>4. /\ fed' \in Seq(Keys) /\ Len(fed') = Len(fed) + 1 /\ fed'[Len(fed')] = key
      /\ Len(queue') = Len(queue) + 1
  BY <1>1, <1>2, AppendProperties
<1>5. Len(fed') - Len(queue') = n
  BY <1>2, <1>4
<1> HIDE DEF n
<1>6. SubSeq(fed', 1, n) = SubSeq(fed, 1, n)
  BY <1>1, <1>2, <1>3, SubSeqOfAppend
<1>7. Read' = Read
  BY <1>5, <1>6 DEF Read, n
<1>8. queue' = SubSeq(fed', n + 1, Len(fed'))
  <2>1. n + 1 \in 1..Len(fed') /\ Len(fed') \in (n + 1)..Len(fed') /\ Len(fed') - 1 = Len(fed)
    BY <1>2, <1>3, <1>4
  <2>2. SubSeq(fed', n + 1, Len(fed')) = Append(SubSeq(fed', n + 1, Len(fed)), key)
    BY <1>4, <2>1, SubSeqExtended
  <2>3. SubSeq(fed', n + 1, Len(fed)) = SubSeq(fed, n + 1, Len(fed))
    BY <1>1, <1>2, <1>3, SubSeqOfAppend
  <2> QED
    BY <1>1, <1>2, <2>2, <2>3
<1>9. Len(queue') <= Len(fed')
  BY <1>2, <1>4
<1> QED
  BY <1>1, <1>5, <1>7, <1>8, <1>9 DEF Heard

(* An attempt begins with nothing read.                                    *)
LEMMA NothingRead ==
    ASSUME Keyed, queue = fed, buffer = <<>>
    PROVE  Heard
<1>1. fed \in Seq(Keys) /\ Len(fed) \in Nat /\ Len(fed) - Len(queue) = 0 /\ 0 + 1 = 1
  BY DEF Keyed
<1>2. SubSeq(fed, 1, Len(fed)) = fed
  BY <1>1, SubSeqFull
<1>3. Read = <<>>
  BY <1>1, SubSeqEmpty DEF Read
<1>4. Len(<<>>) < Length
  BY PinEntryAssumption
<1> QED
  BY <1>1, <1>2, <1>3, <1>4, InputsNone, NothingTyped DEF Heard

LEMMA DialogKeeps ==
    ASSUME Keyed, Dialog, Next
    PROVE  Dialog'
<1>1. ASSUME NEW rest, BeginAttempt(rest)
      PROVE  Dialog'
  BY <1>1 DEF BeginAttempt, Reset, Dialog
<1>2. ASSUME NEW digits, NEW rest, Result(digits, rest)
      PROVE  Dialog'
  <2>1. CASE BeginAttempt(rest)
    BY <1>1, <2>1
  <2>2. CASE at' \in {"matched", "goodbye"}
    BY <2>2 DEF Dialog
  <2> QED
    BY <1>2, <2>1, <2>2 DEF Result
<1>3. CASE Answer
  <2>1. CASE BeginAttempt(queue)
    BY <1>1, <2>1
  <2>2. CASE at' = "failed"
    BY <2>2 DEF Dialog
  <2> QED
    BY <1>3, <2>1, <2>2 DEF Answer
<1>4. ASSUME AfterPrompt, at \in {"play", "prompt", "goodbye", "goodbye_prompt"},
             UNCHANGED <<queue, buffer, fed>>
      PROVE  Dialog'
  <2>1. CASE at \in {"play", "prompt"}
    <3>1. Heard
      BY <2>1, NothingRead DEF Dialog
    <3>2. at' = "collect"
      BY <1>4, <2>1 DEF AfterPrompt
    <3> QED
      BY <1>4, <3>1, <3>2 DEF Dialog, Heard, Read
  <2>2. CASE at \in {"goodbye", "goodbye_prompt"}
    BY <1>4, <2>2 DEF AfterPrompt, Dialog
  <2> QED
    BY <1>4, <2>1, <2>2
<1>5. CASE Play
  <2>1. CASE AfterPrompt
    BY <1>4, <1>5, <2>1 DEF Play
  <2>2. CASE at' = IF at = "play" THEN "prompt" ELSE "goodbye_prompt"
    BY <1>5, <2>2 DEF Play, Dialog
  <2> QED
    BY <1>5, <2>1, <2>2 DEF Play
<1>6. CASE PromptEnds \/ PromptTimesOut
  BY <1>4, <1>6 DEF PromptEnds, PromptTimesOut
<1>7. CASE TakeKey
  <2> DEFINE key == Head(queue)
             keys == Append(Read, key)
  <2>1. at = "collect" /\ queue # <<>> /\ Heard
    BY <1>7 DEF TakeKey, Dialog
  <2>2. /\ key = "*" => SinceStar(keys) = <<>> /\ ~Complete(keys)
        /\ key \in OtherKeys => SinceStar(keys) = buffer /\ ~Complete(keys)
        /\ key \in Digits =>
               /\ SinceStar(keys) = Append(buffer, key)
               /\ Complete(keys) <=> Full(Append(buffer, key))
    BY <2>1, KeyRead
  <2>3. /\ Len(<<>>) < Length /\ Len(buffer) < Length
        /\ key \in Digits /\ ~Full(Append(buffer, key)) => Len(Append(buffer, key)) < Length
    <3>1. Length \in Nat \ {0} /\ buffer \in Seq(Digits)
      BY PinEntryAssumption DEF Keyed
    <3>2. key \in Digits => Len(Append(buffer, key)) \in Nat
      BY <3>1, AppendProperties
    <3> QED
      BY <2>1, <3>1, <3>2 DEF Heard, Full
  <2>4. ASSUME NEW digits, Hold(digits, Tail(queue)), digits = SinceStar(keys),
               ~Complete(keys), Len(digits) < Length
        PROVE  Dialog'
    <3>1. Heard'
      BY <2>1, <2>4, HoldHears
    <3>2. at' = "collect"
      BY <2>1, <2>4 DEF Hold
    <3> QED
      BY <3>1, <3>2 DEF Dialog
  <2> HIDE DEF keys
  <2>5. CASE \E digits : Result(digits, Tail(queue))
    BY <1>2, <2>5
  <2>6. CASE key = "*" /\ Hold(<<>>, Tail(queue))
    BY <2>2, <2>3, <2>4, <2>6
  <2>7. CASE key \in OtherKeys /\ Hold(buffer, Tail(queue))
    BY <2>2, <2>3, <2>4, <2>7
  <2>8. CASE /\ key \in Digits /\ ~Full(Append(buffer, key))
             /\ Hold(Append(buffer, key), Tail(queue))
    BY <2>2, <2>3, <2>4, <2>8
  <2> QED
    BY <1>7, <2>5, <2>6, <2>7, <2>8 DEF TakeKey
<1>8. CASE TimeOut
  BY <1>2, <1>8 DEF TimeOut
<1>9. CASE Tick
  BY <1>9 DEF Tick, Dialog, Heard, Read
<1>10. CASE HangUp
  BY <1>10 DEF HangUp, Dialog
<1>11. ASSUME NEW key \in Keys, Press(key)
       PROVE  Dialog'
  <2>1. at' = at /\ queue' = Append(queue, key) /\ fed' = Append(fed, key) /\ buffer' = buffer
    BY <1>11 DEF Press
  <2>2. at = "collect" => Heard'
    BY <1>11, PressHears DEF Dialog
  <2> QED
    BY <2>1, <2>2 DEF Dialog
<1> QED
  BY <1>3, <1>5, <1>6, <1>7, <1>8, <1>9, <1>10, <1>11 DEF Next, Task

(* A step that refuses: an input that was typed is no PIN, or what was     *)
(* typed when time is up is none.                                          *)
LEMMA RefusedRightly ==
    ASSUME Keyed, Dialog, Next, Refused
    PROVE  \/ Inputs(fed) # {} /\ SinceStar(SubSeq(fed, 1, Min(Inputs(fed)))) \notin Codes
           \/ (total = 0 \/ quiet = 0) /\ SinceStar(Read) \notin Codes
<1>1. at = "collect" /\ Heard /\ (at' = "goodbye" \/ attempt' # attempt)
  BY DEF Refused, Dialog
<1>2. ASSUME NEW digits, NEW rest, Result(digits, rest)
      PROVE  digits \notin Codes
  <2>1. CASE digits \in Codes
    BY <1>1, <1>2, <2>1 DEF Result
  <2> QED
    BY <2>1
<1>3. TakeKey \/ TimeOut
  BY <1>1 DEF Next, Task, Answer, Play, PromptEnds, PromptTimesOut, Tick, HangUp, Press
<1>4. CASE TimeOut
  BY <1>1, <1>2, <1>4 DEF TimeOut, Heard
<1>5. CASE TakeKey
  <2> DEFINE n == Len(fed) - Len(queue)
             keys == Append(Read, Head(queue))
  <2>1. queue # <<>>
    BY <1>5 DEF TakeKey
  <2>2. \A digits, rest : ~Hold(digits, rest)
    BY <1>1 DEF Hold
  <2>3. /\ SinceStar(keys) \notin Codes /\ Complete(keys)
    <3>1. /\ Head(queue) \in Digits =>
                 /\ SinceStar(keys) = Append(buffer, Head(queue))
                 /\ Complete(keys) <=> Full(Append(buffer, Head(queue)))
          /\ Head(queue) = "#" => SinceStar(keys) = buffer /\ Complete(keys)
      BY <1>1, <2>1, KeyRead
    <3> HIDE DEF keys
    <3>2. CASE Head(queue) = "#" /\ Result(buffer, Tail(queue))
      BY <1>2, <3>1, <3>2
    <3>3. CASE /\ Head(queue) \in Digits /\ Full(Append(buffer, Head(queue)))
               /\ Result(Append(buffer, Head(queue)), Tail(queue))
      BY <1>2, <3>1, <3>3
    <3> QED
      BY <1>5, <2>2, <3>2, <3>3 DEF TakeKey
  <2>4. /\ n \in Nat /\ n + 1 \in 1..Len(fed) /\ fed \in Seq(Keys)
        /\ SubSeq(fed, 1, n + 1) = keys /\ Inputs(Read) = {} /\ Len(Read) = n
    <3>1. /\ n \in Nat /\ n + 1 \in 1..Len(fed) /\ SubSeq(fed, 1, n + 1) = keys
      BY <1>1, <2>1, NextKey
    <3>2. fed \in Seq(Keys) /\ Len(fed) \in Nat
      BY DEF Keyed
    <3>3. Len(SubSeq(fed, 1, n)) = n
      <4>1. \A i \in 1..n : fed[i] \in Keys
        BY <3>1, <3>2
      <4> HIDE DEF n
      <4> QED
        BY <3>1, <4>1, SubSeqProperties
    <3> QED
      BY <1>1, <3>1, <3>2, <3>3 DEF Heard, Read
  <2>5. n + 1 \in Inputs(fed)
    BY <2>3, <2>4 DEF Inputs
  <2>6. \A i \in 1..n : SubSeq(Read, 1, i) = SubSeq(fed, 1, i)
    <3> SUFFICES ASSUME NEW i \in 1..n PROVE SubSeq(Read, 1, i) = SubSeq(fed, 1, i)
      OBVIOUS
    <3>1. /\ \A j \in 1..n : fed[j] \in Keys
          /\ \A j \in 1..i : fed[j] \in Keys
      BY <2>4
    <3>2. Read = SubSeq(fed, 1, n)
      BY DEF Read
    <3> HIDE DEF n
    <3>3. /\ Read \in Seq(Keys) /\ \A j \in 1..n : Read[j] = fed[j]
      <4>1. /\ SubSeq(fed, 1, n) \in Seq(Keys)
            /\ \A j \in 1..(n - 1 + 1) : SubSeq(fed, 1, n)[j] = fed[1 + j - 1]
        BY <2>4, <3>1, SubSeqProperties
      <4>2. \A j \in 1..n : 1 + j - 1 = j /\ j \in 1..(n - 1 + 1)
        BY <2>4
      <4> QED
        BY <3>2, <4>1, <4>2
    <3>4. \A j \in 1..i : Read[j] \in Keys /\ Read[j] = fed[j]
      BY <2>4, <3>1, <3>3
    <3>5. /\ SubSeq(Read, 1, i) \in Seq(Keys) /\ SubSeq(fed, 1, i) \in Seq(Keys)
          /\ Len(SubSeq(Read, 1, i)) = i /\ Len(SubSeq(fed, 1, i)) = i
          /\ \A j \in 1..i : SubSeq(Read, 1, i)[j] = Read[j] /\ SubSeq(fed, 1, i)[j] = fed[j]
      <4>1. i \in Int /\ 1 <= i /\ i - 1 + 1 = i /\ \A j \in 1..i : 1 + j - 1 = j
        BY <2>4
      <4>2. /\ SubSeq(Read, 1, i) \in Seq(Keys)
            /\ Len(SubSeq(Read, 1, i)) = IF 1 <= i THEN i - 1 + 1 ELSE 0
            /\ \A j \in 1..(i - 1 + 1) : SubSeq(Read, 1, i)[j] = Read[1 + j - 1]
        BY <3>4, <4>1, SubSeqProperties
      <4>3. /\ SubSeq(fed, 1, i) \in Seq(Keys)
            /\ Len(SubSeq(fed, 1, i)) = IF 1 <= i THEN i - 1 + 1 ELSE 0
            /\ \A j \in 1..(i - 1 + 1) : SubSeq(fed, 1, i)[j] = fed[1 + j - 1]
        BY <3>1, <4>1, SubSeqProperties
      <4> QED
        BY <4>1, <4>2, <4>3
    <3> QED
      BY <3>4, <3>5, SeqEqual
  <2>7. \A i \in 1..n : i \notin Inputs(fed)
    BY <2>4, <2>6 DEF Inputs
  <2>8. Min(Inputs(fed)) = n + 1
    <3>1. \A i \in Inputs(fed) : i \in Nat /\ n + 1 <= i
      BY <2>4, <2>7 DEF Inputs
    <3>2. \E x \in Inputs(fed) : \A y \in Inputs(fed) : x <= y
      BY <2>5, <3>1
    <3>3. /\ Min(Inputs(fed)) \in Inputs(fed)
          /\ \A y \in Inputs(fed) : Min(Inputs(fed)) <= y
      BY <3>2 DEF Min
    <3> QED
      BY <2>4, <2>5, <3>1, <3>3
  <2> QED
    BY <2>3, <2>4, <2>5, <2>8
<1> QED
  BY <1>3, <1>4, <1>5

LEMMA StepKeeps == IInv /\ [Next]_vars => IInv'
<1> SUFFICES ASSUME IInv, [Next]_vars PROVE IInv'
  OBVIOUS
<1> USE DEF IInv
<1>1. CASE Next
  <2>1. Keyed' /\ Flag' /\ Dialog'
    BY <1>1, KeysKeep, FlagKeeps, DialogKeeps
  <2>2. CASE TimeOut
    BY <2>1, <2>2, ResultKeeps DEF TimeOut
  <2>3. CASE \E key \in Keys : Press(key)
    BY <2>1, <2>3, StillKeeps DEF Press
  <2> QED
    BY <1>1, <2>1, <2>2, <2>3, AnswerKeeps, PlayKeeps, PromptKeeps, TakeKeyKeeps,
       TickKeeps, HangUpKeeps
    DEF Next, Task
<1>2. CASE UNCHANGED vars
  <2>1. Keyed' /\ Flag' /\ Dialog'
    BY <1>2 DEF vars, Keyed, Flag, Dialog, Heard, Read
  <2> QED
    BY <1>2, <2>1, StillKeeps DEF vars
<1> QED
  BY <1>1, <1>2

LEMMA Inductive == Spec => []IInv
  BY Start, StepKeeps, PTL DEF Spec

-----------------------------------------------------------------------------
(* The place of the dialog, the queue of keys, the digits held and the     *)
(* timers keep their types; no attempt is counted beyond the last.         *)
THEOREM TypeCorrect == Spec => []TypeOK
<1>1. IInv => TypeOK
  <2>1. Numbers /\ Keyed =>
            /\ at \in {"answer", "play", "prompt", "collect", "goodbye",
                       "goodbye_prompt"} \cup Over
            /\ attempt \in 0..Attempts /\ queue \in Seq(Keys) /\ buffer \in Seq(Digits)
            /\ total \in 0..TotalTimeout /\ quiet \in 0..DigitTimeout
            /\ wait \in 0..PlayMax /\ fed \in Seq(Keys) /\ held \in Nat
    BY DEF Numbers, Keyed, Places
  <2> QED
    BY <2>1 DEF IInv, Flag, TypeOK
<1> QED
  BY <1>1, Inductive, PTL

(* Whatever keys are pressed and whatever ends of prompts are missed, no   *)
(* caller is kept longer than the prompts and deadlines of all attempts    *)
(* and the last prompt.                                                    *)
THEOREM HeldAlwaysBounded == Spec => []HeldBounded
<1>1. IInv => HeldBounded
  BY InTimeBounds DEF IInv
<1> QED
  BY <1>1, Inductive, PTL

(* Whatever is pressed and when, in an attempt or in the prompt before it: *)
(* the digits the collector holds are those typed in this attempt since    *)
(* the last "*", and no input was passed over.                             *)
THEOREM AlwaysUnderstood == Spec => []Understood
<1>1. IInv => Understood
  BY DEF IInv, Dialog, Heard, Understood
<1> QED
  BY <1>1, Inductive, PTL

(* A caller is refused, or asked again, only when the first input of the   *)
(* attempt is no PIN or time is up and what was read by then is none.      *)
THEOREM TypedCodesAccepted == Spec => CodeAccepted
<1>1. IInv /\ [Next]_vars =>
          [Refused => \/ Inputs(fed) # {}
                         /\ SinceStar(SubSeq(fed, 1, Min(Inputs(fed)))) \notin Codes
                      \/ (total = 0 \/ quiet = 0) /\ SinceStar(Read) \notin Codes]_vars
  BY RefusedRightly DEF IInv
<1> QED
  BY <1>1, Inductive, PTL DEF Spec, CodeAccepted

=============================================================================
