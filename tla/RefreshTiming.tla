--------------------------- MODULE RefreshTiming ---------------------------
(***************************************************************************)
(* The clockwork of AWSIAMRoleController.Run around the secret of one      *)
(* role: a round, a pause of --interval, a round, and so on.  A round      *)
(* visits the secret at some moment, fetches new credentials if the old    *)
(* ones are close to their expiry, and writes them some time later; other  *)
(* roles and slow calls take the rest of its time.                         *)
(*                                                                         *)
(* Time is kept relative: left is what the credentials in the secret have  *)
(* left to live, and counts down to 0.                                     *)
(***************************************************************************)
EXTENDS Integers

CONSTANTS
    Interval,       \* --interval
    RefreshLimit,   \* --refresh-limit
    Sessions,       \* session durations of the role
    MaxRound,       \* how long a round takes at most; every call times out
    MaxFailures     \* bound: rounds in a row that do not get to the secret

ASSUME TimingAssumption ==
    /\ {Interval, RefreshLimit, MaxRound, MaxFailures} \subseteq Nat
    /\ Sessions \subseteq Nat \ {0}

VARIABLES
    session,    \* the session duration of the role
    phase,      \* where Run is, as far as the secret is concerned
    timer,      \* what is left of time.After
    elapsed,    \* how long the round has taken
    left,       \* to the expiry of the credentials in the secret
    fresh,      \* to the expiry of those fetched but not yet written
    issued,     \* the secret has been written
    failures,   \* rounds in a row that did not get to the secret
    streak      \* rounds in a row that wrote it, up to 2

vars == <<session, phase, timer, elapsed, left, fresh, issued, failures, streak>>

TypeOK ==
    /\ session \in Sessions
    /\ phase \in {"waiting", "round", "fetched", "visited"}
    /\ timer \in 0 .. Interval
    /\ elapsed \in 0 .. MaxRound
    /\ left \in 0 .. session
    /\ fresh \in 0 .. session
    /\ issued \in BOOLEAN
    /\ failures \in 0 .. MaxFailures
    /\ streak \in 0 .. 2

\* Run starts with a round; the role has no secret yet.
Init ==
    /\ session \in Sessions
    /\ phase = "round"
    /\ timer = 0
    /\ elapsed = 0
    /\ left = 0
    /\ fresh = 0
    /\ issued = FALSE
    /\ failures = 0
    /\ streak = 0

-----------------------------------------------------------------------------
\* Wrong on purpose: credentials are refreshed when they have expired.
DueWhenExpired == left = 0

\* Wrong on purpose: half of the session is enough to be due.
DueAtHalfTime == 2 * left < session + RefreshLimit

\* time.Now().Add(refreshLimit).After(expire)
Due == RefreshLimit > left

RefreshSkip ==
    /\ phase = "round"
    /\ ~Due
    /\ phase' = "visited"
    /\ failures' = 0
    /\ streak' = 0
    /\ UNCHANGED <<session, timer, elapsed, left, fresh, issued>>

roleSessionDuration == session

GetCreds ==
    /\ phase = "round"
    /\ Due
    /\ phase' = "fetched"
    /\ fresh' = roleSessionDuration
    /\ UNCHANGED <<session, timer, elapsed, left, issued, failures, streak>>

Written ==
    /\ left' = fresh
    /\ issued' = TRUE

Update ==
    /\ phase = "fetched"
    /\ phase' = "visited"
    /\ Written
    /\ fresh' = 0
    /\ failures' = 0
    /\ streak' = IF streak < 2 THEN streak + 1 ELSE streak
    /\ UNCHANGED <<session, timer, elapsed>>

\* A List fails and ends the round, STS or the API server refuses, or the
\* Update takes effect and its answer is lost.
Fail ==
    /\ phase \in {"round", "fetched"}
    /\ failures < MaxFailures
    /\ phase' = "visited"
    /\ \/ UNCHANGED <<left, issued>>
       \/ phase = "fetched" /\ Written
    /\ fresh' = 0
    /\ failures' = failures + 1
    /\ streak' = 0
    /\ UNCHANGED <<session, timer, elapsed>>

RoundEnd ==
    /\ phase = "visited"
    /\ phase' = "waiting"
    /\ timer' = Interval
    /\ elapsed' = 0
    /\ UNCHANGED <<session, left, fresh, issued, failures, streak>>

\* time.After has fired.
NextRound ==
    /\ phase = "waiting"
    /\ timer = 0
    /\ phase' = "round"
    /\ UNCHANGED <<session, timer, elapsed, left, fresh, issued, failures,
                   streak>>

Before(t) == IF t > 0 THEN t - 1 ELSE 0

\* Run does not oversleep, and a round does not last longer than its calls.
Tick ==
    /\ IF phase = "waiting" THEN timer > 0 ELSE elapsed < MaxRound
    /\ timer' = Before(timer)
    /\ elapsed' = IF phase = "waiting" THEN elapsed ELSE elapsed + 1
    /\ left' = Before(left)
    /\ fresh' = Before(fresh)
    /\ UNCHANGED <<session, phase, issued, failures, streak>>

Next ==
    \/ RefreshSkip
    \/ GetCreds
    \/ Update
    \/ Fail
    \/ RoundEnd
    \/ NextRound
    \/ Tick

Spec == Init /\ [][Next]_vars
-----------------------------------------------------------------------------
(* Properties *)

\* From a visit at the start of a round to a write at the end of the last of
\* the rounds that follow it, MaxFailures of which come to nothing.
Window == (MaxFailures + 1) * (Interval + MaxRound) + MaxRound

\* Neither the refresh limit nor a session may be shorter than the window;
\* then the secret never holds expired credentials once it is written, in a
\* session shorter than the refresh limit as well.
NeverExpired ==
    RefreshLimit > Window /\ session > Window => (issued => left > 0)

\* Credentials that outlive the refresh limit by two rounds and a pause are not
\* fetched again in the next round: only a session about as short as the limit
\* makes every round call STS.
NoRefreshEveryRound ==
    session >= RefreshLimit + Interval + 2 * MaxRound => streak < 2

-----------------------------------------------------------------------------
(* The inductive invariant behind both. *)

\* What is left of the window when failures rounds have come to nothing.
Remaining == (MaxFailures - failures) * (Interval + MaxRound) + MaxRound

\* The credentials outlast the time until they are written again at the latest,
\* and those fetched outlast it from their own write on.
LeftLastsForTheRest ==
    RefreshLimit > Window /\ session > Window =>
        /\ phase = "fetched" => fresh + elapsed > Window
        /\ issued =>
             /\ phase = "waiting" => left > timer + Remaining
             /\ phase = "visited" =>
                   left + elapsed > Interval + MaxRound + Remaining
             /\ phase \in {"round", "fetched"} => left + elapsed > Remaining

\* How old credentials of the round before can be.
WrittenLastRound ==
    session >= RefreshLimit + Interval + 2 * MaxRound =>
        /\ streak < 2
        /\ phase = "fetched" => streak = 0 /\ fresh + elapsed >= session
        /\ streak = 1 =>
             /\ phase = "visited" => left + elapsed >= session
             /\ phase = "waiting" =>
                   left + MaxRound + Interval >= session + timer
             /\ phase = "round" =>
                   left + MaxRound + Interval + elapsed >= session

TimingInv ==
    /\ TypeOK
    /\ phase = "waiting" => elapsed = 0
    /\ phase # "waiting" => timer = 0
    /\ LeftLastsForTheRest
    /\ WrittenLastRound
=============================================================================
