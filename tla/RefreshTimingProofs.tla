------------------------ MODULE RefreshTimingProofs ------------------------
(***************************************************************************)
(* Theorems about RefreshTiming, for every interval, limit, session and    *)
(* number of failed rounds.                                                *)
(***************************************************************************)
EXTENDS RefreshTiming, TLAPS

\* The rounds that may still fail, in time.
Rest(f) == (MaxFailures - f) * (Interval + MaxRound)

\* One failed round takes a round and a pause off the rest, and the window is
\* a round and a pause longer than the rest of a fresh count.
LEMMA RestFacts ==
  ASSUME NEW f \in 0 .. MaxFailures
  PROVE  /\ Rest(f) \in Nat
         /\ Rest(f) <= Rest(0)
         /\ f < MaxFailures => Rest(f) = Rest(f + 1) + Interval + MaxRound
         /\ Window \in Nat
         /\ Window = Rest(0) + Interval + MaxRound + MaxRound
<1> DEFINE P == Interval + MaxRound
<1>1. P \in Nat /\ MaxFailures \in Nat /\ MaxRound \in Nat /\ Interval \in Nat
  BY TimingAssumption
<1>2. MaxFailures - f \in Nat /\ f \in Nat /\ f <= MaxFailures
  BY <1>1
<1>3. \A a \in Nat, b \in Nat :
         /\ a * b \in Nat
         /\ (a + 1) * b = a * b + b
  <2> SUFFICES ASSUME NEW a \in Nat, NEW b \in Nat
               PROVE  a * b \in Nat /\ (a + 1) * b = a * b + b
    OBVIOUS
  <2> QED
    OBVIOUS
<1>4. \A a \in Nat, b \in Nat, c \in Nat : (a + b) * c = a * c + b * c
  OBVIOUS
<1>5. Rest(f) = (MaxFailures - f) * P /\ Rest(0) = MaxFailures * P
  BY <1>1 DEF Rest
<1>6. Rest(f) \in Nat /\ f * P \in Nat
  BY <1>1, <1>2, <1>3, <1>5
<1>7. Rest(0) = Rest(f) + f * P
  <2>1. MaxFailures = (MaxFailures - f) + f
    BY <1>1, <1>2
  <2>2. ((MaxFailures - f) + f) * P = (MaxFailures - f) * P + f * P
    BY <1>1, <1>2, <1>4
  <2> QED
    BY <1>5, <2>1, <2>2
<1>8. ASSUME f < MaxFailures
      PROVE  Rest(f) = Rest(f + 1) + P
  <2>1. /\ MaxFailures - (f + 1) \in Nat
        /\ MaxFailures - f = (MaxFailures - (f + 1)) + 1
    BY <1>1, <1>2, <1>8
  <2>2. Rest(f + 1) = (MaxFailures - (f + 1)) * P
    BY DEF Rest
  <2> HIDE DEF P
  <2> QED
    BY <1>1, <1>3, <1>5, <2>1, <2>2
<1>9. (MaxFailures + 1) * P = Rest(0) + P
  <2> HIDE DEF P
  <2> QED
    BY <1>1, <1>3, <1>5
<1>10. Rest(0) \in Nat
  BY <1>1, <1>3, <1>5
<1>11. Window = Rest(0) + P + MaxRound
  BY <1>9 DEF Window
<1>12. /\ Rest(f) <= Rest(0)
       /\ Window \in Nat
       /\ Window = Rest(0) + Interval + MaxRound + MaxRound
  <2> HIDE DEF Rest
  <2> QED
    BY <1>1, <1>6, <1>7, <1>10, <1>11
<1>13. f < MaxFailures => Rest(f) = Rest(f + 1) + Interval + MaxRound
  <2>1. Rest(f + 1) \in Int
    BY <1>1, <1>2 DEF Rest
  <2> HIDE DEF Rest
  <2> QED
    BY <1>1, <1>8, <2>1
<1> QED
  BY <1>6, <1>12, <1>13

\* What an interval and the clock do to the bounds the proofs compare.
LEMMA Constants ==
  /\ Interval \in Nat /\ RefreshLimit \in Nat
  /\ MaxRound \in Nat /\ MaxFailures \in Nat
  /\ \A s \in Sessions : s \in Nat /\ s > 0
BY TimingAssumption

-----------------------------------------------------------------------------
\* Every timer and age stays within its bounds, for every timing of the calls.
LEMMA InitType == Init => TypeOK
<1> SUFFICES ASSUME Init
             PROVE  TypeOK
  OBVIOUS
<1>1. issued \in BOOLEAN
  BY DEF Init
<1> QED
  BY <1>1, Constants DEF Init, TypeOK

LEMMA NextType ==
  ASSUME TypeOK, Next
  PROVE  TypeOK'
<1> USE Constants DEF TypeOK
<1>1. CASE RefreshSkip
  BY <1>1 DEF RefreshSkip
<1>2. CASE GetCreds
  BY <1>2 DEF GetCreds, roleSessionDuration
<1>3. CASE Update
  BY <1>3 DEF Update, Written
<1>4. CASE Fail
  <2>1. left' \in 0 .. session' /\ issued' \in BOOLEAN
    BY <1>4 DEF Fail, Written
  <2> QED
    BY <1>4, <2>1 DEF Fail
<1>5. CASE RoundEnd
  BY <1>5 DEF RoundEnd
<1>6. CASE NextRound
  BY <1>6 DEF NextRound
<1>7. CASE Tick
  BY <1>7 DEF Tick, Before
<1> QED
  BY <1>1, <1>2, <1>3, <1>4, <1>5, <1>6, <1>7 DEF Next

-----------------------------------------------------------------------------
\* The clock only matters where it runs.
Clocks ==
    /\ phase = "waiting" => elapsed = 0
    /\ phase # "waiting" => timer = 0

LEMMA NextClocks ==
  ASSUME TypeOK, Clocks, Next
  PROVE  Clocks'
BY Constants DEF TypeOK, Clocks, Next, RefreshSkip, GetCreds, Update, Fail,
   RoundEnd, NextRound, Tick, Before

\* Every step keeps the credentials ahead of the time that may pass before the
\* next write: a write gives them the whole window, a round that comes to
\* nothing uses up its share of it, and the clock takes from both sides alike.
LEMMA NextLasts ==
  ASSUME TypeOK, Clocks, LeftLastsForTheRest, Next
  PROVE  LeftLastsForTheRest'
<1> SUFFICES ASSUME RefreshLimit > Window, session' > Window
             PROVE  /\ phase' = "fetched" => fresh' + elapsed' > Window
                    /\ issued' =>
                       /\ phase' = "waiting" => left' > timer' + Remaining'
                       /\ phase' = "visited" =>
                            left' + elapsed' > Interval + MaxRound + Remaining'
                       /\ phase' \in {"round", "fetched"} =>
                            left' + elapsed' > Remaining'
  BY DEF LeftLastsForTheRest, Window
<1> DEFINE W == Window
           R(f) == Rest(f)
<1>1. /\ W \in Nat
      /\ W = R(0) + Interval + MaxRound + MaxRound
      /\ R(failures) \in Nat /\ R(failures) <= R(0) /\ R(0) \in Nat
      /\ failures < MaxFailures
           => R(failures) = R(failures + 1) + Interval + MaxRound
      /\ failures < MaxFailures
           => R(failures + 1) \in Nat /\ R(failures + 1) <= R(0)
  <2>1. failures \in 0 .. MaxFailures /\ 0 \in 0 .. MaxFailures
    BY Constants DEF TypeOK
  <2>2. failures < MaxFailures => failures + 1 \in 0 .. MaxFailures
    BY Constants, <2>1
  <2> QED
    BY <2>1, <2>2, RestFacts
<1>2. Remaining = R(failures) + MaxRound /\ Remaining' = R(failures') + MaxRound
  BY DEF Remaining, Rest
<1>3. session' = session
  BY DEF Next, RefreshSkip, GetCreds, Update, Fail, RoundEnd, NextRound, Tick
<1>4. RefreshLimit > W /\ session > W
  BY <1>3
<1>5. /\ phase = "fetched" => fresh + elapsed > W
      /\ issued =>
           /\ phase = "waiting" => left > timer + Remaining
           /\ phase = "visited" =>
                left + elapsed > Interval + MaxRound + Remaining
           /\ phase \in {"round", "fetched"} => left + elapsed > Remaining
  BY <1>4 DEF LeftLastsForTheRest
<1>6. /\ left \in Nat /\ fresh \in Nat /\ elapsed \in 0 .. MaxRound
      /\ timer \in 0 .. Interval /\ failures \in 0 .. MaxFailures
      /\ session \in Nat
  BY Constants DEF TypeOK
<1> HIDE DEF W, R
<1> USE Constants
<1>a. CASE RefreshSkip
  BY <1>a, <1>1, <1>2, <1>4, <1>5, <1>6 DEF RefreshSkip, Due
<1>b. CASE GetCreds
  BY <1>b, <1>1, <1>2, <1>4, <1>5, <1>6 DEF GetCreds, roleSessionDuration, W
<1>c. CASE Update
  BY <1>c, <1>1, <1>2, <1>4, <1>5, <1>6 DEF Update, Written
<1>d. CASE Fail
  BY <1>d, <1>1, <1>2, <1>4, <1>5, <1>6 DEF Fail, Written
<1>e. CASE RoundEnd
  BY <1>e, <1>1, <1>2, <1>4, <1>5, <1>6 DEF RoundEnd
<1>f. CASE NextRound
  BY <1>f, <1>1, <1>2, <1>4, <1>5, <1>6 DEF NextRound, Clocks
<1>g. CASE Tick
  BY <1>g, <1>1, <1>2, <1>4, <1>5, <1>6 DEF Tick, Before, Clocks, TypeOK, W
<1> QED
  BY <1>a, <1>b, <1>c, <1>d, <1>e, <1>f, <1>g DEF Next

\* Credentials written in the last round are too young to be due, if the
\* session is long enough.
LEMMA NextWrittenLastRound ==
  ASSUME TypeOK, Clocks, WrittenLastRound, Next
  PROVE  WrittenLastRound'
<1> USE Constants DEF TypeOK, Clocks, WrittenLastRound
<1>1. CASE RefreshSkip
  BY <1>1 DEF RefreshSkip
<1>2. CASE GetCreds
  BY <1>2 DEF GetCreds, Due, roleSessionDuration
<1>3. CASE Update
  BY <1>3 DEF Update, Written
<1>4. CASE Fail
  BY <1>4 DEF Fail
<1>5. CASE RoundEnd
  BY <1>5 DEF RoundEnd
<1>6. CASE NextRound
  BY <1>6 DEF NextRound
<1>7. CASE Tick
  BY <1>7 DEF Tick, Before
<1> QED
  BY <1>1, <1>2, <1>3, <1>4, <1>5, <1>6, <1>7 DEF Next

LEMMA InitInv == Init => TimingInv
<1> SUFFICES ASSUME Init
             PROVE  TimingInv
  OBVIOUS
<1>1. TypeOK
  BY InitType
<1>2. LeftLastsForTheRest /\ WrittenLastRound
  BY DEF Init, LeftLastsForTheRest, WrittenLastRound
<1> QED
  BY <1>1, <1>2 DEF Init, TimingInv

LEMMA NextInv == TimingInv /\ [Next]_vars => TimingInv'
<1> SUFFICES ASSUME TimingInv, [Next]_vars
             PROVE  TimingInv'
  OBVIOUS
<1>1. CASE Next
  <2>1. Clocks
    BY DEF TimingInv, Clocks
  <2>2. TypeOK' /\ Clocks' /\ LeftLastsForTheRest' /\ WrittenLastRound'
    BY <1>1, <2>1, NextType, NextClocks, NextLasts, NextWrittenLastRound
       DEF TimingInv
  <2> QED
    BY <2>2 DEF TimingInv, Clocks
<1>2. CASE UNCHANGED vars
  BY <1>2 DEF vars, TimingInv, TypeOK, LeftLastsForTheRest, WrittenLastRound,
              Remaining, Window
<1> QED
  BY <1>1, <1>2

\* The invariant the others follow from.
THEOREM TimingInvariant == Spec => []TimingInv
BY InitInv, NextInv, PTL DEF Spec

\* The clocks of a secret, its session and the rounds stay in their ranges:
\* what is left of a session is never below zero, nor above its duration.
THEOREM TimingTypes == Spec => []TypeOK
<1>1. TimingInv => TypeOK
  BY DEF TimingInv
<1> QED
  BY <1>1, TimingInvariant, PTL

\* A refresh limit and a session longer than the window keep the secret's
\* credentials alive, for every interval, duration of rounds and number of
\* failures in a row.
THEOREM CredentialsNeverExpire == Spec => []NeverExpired
<1>1. TimingInv => NeverExpired
  <2> SUFFICES ASSUME TimingInv, RefreshLimit > Window, session > Window, issued
               PROVE  left > 0
    BY DEF NeverExpired
  <2>1. /\ failures \in 0 .. MaxFailures /\ elapsed \in 0 .. MaxRound
        /\ left \in Nat /\ timer \in Nat
        /\ phase \in {"waiting", "round", "fetched", "visited"}
    BY Constants DEF TimingInv, TypeOK
  <2>2. Rest(failures) \in Nat /\ Remaining = Rest(failures) + MaxRound
    BY <2>1, RestFacts DEF Remaining, Rest
  <2>3. /\ phase = "waiting" => left > timer + Remaining
        /\ phase = "visited" =>
             left + elapsed > Interval + MaxRound + Remaining
        /\ phase \in {"round", "fetched"} => left + elapsed > Remaining
    BY DEF TimingInv, LeftLastsForTheRest
  <2> QED
    BY <2>1, <2>2, <2>3, Constants
<1> QED
  BY <1>1, TimingInvariant, PTL

\* Only a session about as short as the refresh limit is refreshed in two
\* rounds in a row.
THEOREM NotRefreshedEveryRound == Spec => []NoRefreshEveryRound
<1>1. TimingInv => NoRefreshEveryRound
  BY DEF TimingInv, WrittenLastRound, NoRefreshEveryRound
<1> QED
  BY <1>1, TimingInvariant, PTL
=============================================================================
