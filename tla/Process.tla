------------------------------ MODULE Process ------------------------------
(***************************************************************************)
(* The process around the two controllers: main, the SIGTERM handler, the  *)
(* Run loops of both controllers, the goroutine of the transport, the      *)
(* health endpoint, and the kubelet that probes and restarts it            *)
(* (docs/deployment.yaml).                                                 *)
(*                                                                         *)
(* The goroutine of main runs SecretsController.Run: "run" is its start,   *)
(* "listen" the call of ListenAndServe, "serving" inside that call, and    *)
(* "waiting" and "refreshing" are the refresh loop that follows it.  The   *)
(* pod uses the network of its host, so other processes may have the port. *)
(*                                                                         *)
(* Time is kept relative: since is time.Since(nextRefresh).                *)
(***************************************************************************)
EXTENDS Integers

CONSTANTS
    Interval,          \* --interval
    FailureThreshold,  \* failureThreshold of the liveness probe
    Probing,           \* may the kubelet probe and kill the container, or not?
    MaxEvents          \* bound: failed starts, stops by users, port changes

ASSUME ProcessAssumption ==
    /\ {Interval, FailureThreshold} \subseteq Nat \ {0}
    /\ Probing \subseteq BOOLEAN
    /\ MaxEvents \in Nat

VARIABLES
    main,       \* where the main goroutine is
    roleLoop,   \* where AWSIAMRoleController.Run is
    idleLoop,   \* where the goroutine of ConfigureKubeConfig is
    handler,    \* where handleSigterm is
    signal,     \* a SIGTERM is in the signals channel
    cancelled,  \* ctx is cancelled
    since,      \* time.Since(nextRefresh)
    timer,      \* what is left of time.After in the AWSIAMRole loop
    uptime,     \* since the process was started
    serves,     \* this process listens on the health port
    reading,    \* a health handler is evaluating the liveness check
    failures,   \* consecutive failed probes
    stopping,   \* the kubelet has sent SIGTERM
    probing,    \* the kubelet probes and kills, or leaves the process alone
    portTaken,  \* another process of the host has the health port
    events      \* events that may still happen

loopVars == <<roleLoop, timer, idleLoop>>
ageVars == <<since, uptime>>
signalVars == <<handler, signal, cancelled>>
probeVars == <<reading, failures, stopping>>
worldVars == <<probing, portTaken, events>>
vars == <<main, loopVars, signalVars, ageVars, serves, probeVars, worldVars>>

\* What "too old" means, and a time nothing distinguishes from later ones;
\* the zero nextRefresh of a fresh process is such a time.
TooOld == 5 * Interval
LongAgo == TooOld + 1

TypeOK ==
    /\ main \in {"starting", "configured", "run", "listen", "serving",
                 "waiting", "refreshing", "exited"}
    /\ roleLoop \in {"off", "refreshing", "waiting", "done"}
    /\ idleLoop \in {"off", "waiting", "closing", "done"}
    /\ handler \in {"off", "starting", "notified", "done"}
    /\ {signal, cancelled, serves, reading, stopping, probing,
        portTaken} \subseteq BOOLEAN
    /\ since \in -Interval .. LongAgo
    /\ timer \in 0 .. Interval
    /\ uptime \in 0 .. LongAgo
    /\ failures \in 0 .. FailureThreshold
    /\ events \in 0 .. MaxEvents

Init ==
    /\ main = "starting"
    /\ roleLoop = "off"
    /\ idleLoop = "off"
    /\ handler = "off"
    /\ signal = FALSE
    /\ cancelled = FALSE
    /\ since = LongAgo
    /\ timer = 0
    /\ uptime = 0
    /\ serves = FALSE
    /\ reading = FALSE
    /\ failures = 0
    /\ stopping = FALSE
    /\ probing \in Probing
    /\ portTaken = FALSE
    /\ events = MaxEvents

Happens ==
    /\ events > 0
    /\ events' = events - 1

\* The process is gone with all its goroutines and its port.
Gone(where) ==
    /\ main' = where
    /\ roleLoop' = "off"
    /\ idleLoop' = "off"
    /\ handler' = "off"
    /\ signal' = FALSE
    /\ cancelled' = FALSE
    /\ since' = LongAgo
    /\ timer' = 0
    /\ uptime' = 0
    /\ serves' = FALSE
    /\ reading' = FALSE
    /\ failures' = 0
    /\ stopping' = FALSE
    /\ UNCHANGED <<probing, portTaken>>

-----------------------------------------------------------------------------
(* main *)

\* It starts a goroutine that closes idle connections every 20 s.
ConfigureKubeConfig ==
    /\ main = "starting"
    /\ main' = "configured"
    /\ idleLoop' = "waiting"
    /\ UNCHANGED <<roleLoop, timer, signalVars, ageVars, serves, probeVars,
                   worldVars>>

Start ==
    /\ main = "configured"
    /\ main' = "run"
    /\ handler' = "starting"
    /\ roleLoop' = "refreshing"
    /\ UNCHANGED <<timer, idleLoop, signal, cancelled, ageVars, serves, probeVars,
                   worldVars>>

\* log.Fatalf: no configuration, no client, no base role ARN.
Fatalf ==
    /\ main \in {"starting", "configured"}
    /\ Happens
    /\ Gone("exited")

\* Wrong on purpose: nextRefresh keeps its zero value.
RunUnset ==
    /\ main = "run"
    /\ main' = "listen"
    /\ UNCHANGED <<loopVars, signalVars, ageVars, serves, probeVars, worldVars>>

Run ==
    /\ main = "run"
    /\ main' = "listen"
    /\ since' = Interval
    /\ UNCHANGED <<loopVars, signalVars, uptime, serves, probeVars, worldVars>>

\* Wrong on purpose: go http.ListenAndServe(...).
ListenInBackground ==
    /\ main = "listen"
    /\ main' = "waiting"
    /\ serves' = ~portTaken
    /\ UNCHANGED <<loopVars, signalVars, ageVars, probeVars, worldVars>>

\* It returns only if it cannot have the port; the error is dropped.
ListenAndServe ==
    /\ main = "listen"
    /\ main' = IF portTaken THEN "waiting" ELSE "serving"
    /\ serves' = ~portTaken
    /\ UNCHANGED <<loopVars, signalVars, ageVars, probeVars, worldVars>>

Refresh ==
    /\ main = "waiting"
    /\ since >= 0
    /\ main' = "refreshing"
    /\ since' = -Interval
    /\ UNCHANGED <<loopVars, signalVars, uptime, serves, probeVars, worldVars>>

Refreshed ==
    /\ main = "refreshing"
    /\ main' = "waiting"
    /\ UNCHANGED <<loopVars, signalVars, ageVars, serves, probeVars, worldVars>>

\* ctx.Done(): Run returns and so does main.
Return ==
    /\ main = "waiting"
    /\ cancelled
    /\ Gone("exited")
    /\ UNCHANGED events

-----------------------------------------------------------------------------
(* AWSIAMRoleController.Run *)

RoleRefreshed ==
    /\ roleLoop = "refreshing"
    /\ roleLoop' = "waiting"
    /\ timer' = Interval
    /\ UNCHANGED <<main, idleLoop, signalVars, ageVars, serves, probeVars,
                   worldVars>>

RoleRefresh ==
    /\ roleLoop = "waiting"
    /\ timer = 0
    /\ roleLoop' = "refreshing"
    /\ UNCHANGED <<main, timer, idleLoop, signalVars, ageVars, serves, probeVars,
                   worldVars>>

\* Wrong on purpose: the loop does not look at the context.
RoleNeverReturns == FALSE /\ UNCHANGED vars

RoleReturn ==
    /\ roleLoop = "waiting"
    /\ cancelled
    /\ roleLoop' = "done"
    /\ timer' = 0
    /\ UNCHANGED <<main, idleLoop, signalVars, ageVars, serves, probeVars,
                   worldVars>>

-----------------------------------------------------------------------------
(* The goroutine of ConfigureKubeConfig; its time.After fires now and then. *)

CloseIdleConnections ==
    /\ \/ idleLoop = "waiting" /\ idleLoop' = "closing"
       \/ idleLoop = "closing" /\ idleLoop' = "waiting"
    /\ UNCHANGED <<main, roleLoop, timer, signalVars, ageVars, serves,
                   probeVars, worldVars>>

IdleReturn ==
    /\ idleLoop = "waiting"
    /\ cancelled
    /\ idleLoop' = "done"
    /\ UNCHANGED <<main, roleLoop, timer, signalVars, ageVars, serves,
                   probeVars, worldVars>>

-----------------------------------------------------------------------------
(* handleSigterm.  Until Notify is called SIGTERM ends the process. *)

Notify ==
    /\ handler = "starting"
    /\ handler' = "notified"
    /\ UNCHANGED <<main, loopVars, signal, cancelled, ageVars, serves,
                   probeVars, worldVars>>

HandleSigterm ==
    /\ handler = "notified"
    /\ signal
    /\ handler' = "done"
    /\ signal' = FALSE
    /\ cancelled' = TRUE
    /\ UNCHANGED <<main, loopVars, ageVars, serves, probeVars, worldVars>>

-----------------------------------------------------------------------------
(* The kubelet *)

Probe ==
    /\ probing
    /\ main # "exited"
    /\ ~reading
    /\ failures < FailureThreshold

ProbeStart ==
    /\ Probe
    /\ serves
    /\ reading' = TRUE
    /\ UNCHANGED <<main, loopVars, signalVars, ageVars, serves, failures,
                   stopping, worldVars>>

\* Wrong on purpose: time.Until for time.Since.
CheckUntil == -since > TooOld

\* The liveness check.
CheckFails == since > TooOld

Count(fails) == failures' = IF fails THEN failures + 1 ELSE 0

ProbeEnd ==
    /\ reading
    /\ reading' = FALSE
    /\ Count(CheckFails)
    /\ UNCHANGED <<main, loopVars, signalVars, ageVars, serves, stopping,
                   worldVars>>

\* Nobody listens, or the process that has the port answers for this one.
ProbeMisses ==
    /\ Probe
    /\ ~serves
    /\ \E fails \in BOOLEAN :
         /\ ~portTaken => fails
         /\ Count(fails)
    /\ UNCHANGED <<main, loopVars, signalVars, ageVars, serves, reading,
                   stopping, worldVars>>

Sigterm ==
    /\ main # "exited"
    /\ ~stopping
    /\ IF handler = "notified"
       THEN /\ signal' = TRUE
            /\ stopping' = TRUE
            /\ UNCHANGED <<main, loopVars, handler, cancelled, ageVars,
                           serves, reading, failures, probing, portTaken>>
       ELSE Gone("exited")

Unhealthy ==
    /\ probing
    /\ failures = FailureThreshold
    /\ Sigterm
    /\ UNCHANGED events

StopPod ==
    /\ Happens
    /\ Sigterm

\* SIGKILL, when the grace period is over.
Kill ==
    /\ probing
    /\ stopping
    /\ Gone("exited")
    /\ UNCHANGED events

Restart ==
    /\ main = "exited"
    /\ Gone("starting")
    /\ UNCHANGED events

-----------------------------------------------------------------------------
OtherProcess ==
    /\ Happens
    /\ ~serves
    /\ portTaken' = ~portTaken
    /\ UNCHANGED <<main, loopVars, signalVars, ageVars, serves, probeVars,
                   probing>>

Later(t, limit) == IF t < limit THEN t + 1 ELSE t

Tick ==
    /\ main # "exited"
    /\ since' = Later(since, LongAgo)
    /\ timer' = IF timer > 0 THEN timer - 1 ELSE 0
    /\ uptime' = Later(uptime, LongAgo)
    /\ UNCHANGED <<main, roleLoop, idleLoop, signalVars, serves, probeVars,
                   worldVars>>

MainStep ==
    \/ ConfigureKubeConfig
    \/ Start
    \/ Run
    \/ ListenAndServe
    \/ Refresh
    \/ Refreshed
    \/ Return

RoleStep ==
    \/ RoleRefreshed
    \/ RoleRefresh
    \/ RoleReturn

IdleStep ==
    \/ CloseIdleConnections
    \/ IdleReturn

HandlerStep ==
    \/ Notify
    \/ HandleSigterm

KubeletStep ==
    \/ ProbeStart
    \/ ProbeEnd
    \/ ProbeMisses
    \/ Unhealthy
    \/ Kill
    \/ Restart

Next ==
    \/ MainStep
    \/ RoleStep
    \/ IdleStep
    \/ HandlerStep
    \/ KubeletStep
    \/ Fatalf
    \/ StopPod
    \/ OtherProcess
    \/ Tick

Spec == Init /\ [][Next]_vars

\* Every goroutine is scheduled, select does not neglect a case that is ready
\* time and again, calls made in a round time out, and the kubelet does its job.
FairSpec ==
    /\ Spec
    /\ WF_vars(MainStep) /\ SF_vars(Return)
    /\ WF_vars(RoleStep) /\ SF_vars(RoleReturn)
    /\ WF_vars(IdleStep) /\ SF_vars(IdleReturn)
    /\ WF_vars(HandlerStep)
    /\ WF_vars(ProbeStart) /\ WF_vars(ProbeEnd) /\ WF_vars(ProbeMisses)
    /\ WF_vars(Unhealthy) /\ WF_vars(Kill) /\ WF_vars(Restart)
    /\ WF_vars(Tick)
-----------------------------------------------------------------------------
(* Properties *)

\* nextRefresh is a local of Run that the health handler reads without a lock:
\* the loop never assigns it while a handler is running.
NextRefreshNotRaced ==
    [][reading /\ reading' => since' >= since]_vars

\* A served probe does not fail before the process is four intervals old, so a
\* process that has just been started is not restarted for it: the handler is
\* registered before nextRefresh has a value, but served only after.
YoungProcessPasses ==
    [][reading /\ failures' > failures => uptime > 4 * Interval]_vars

\* A process whose Run is stuck in ListenAndServe does not stay: the age of
\* nextRefresh makes the probe fail and the kubelet restarts it.
StuckRunGetsRestarted ==
    probing /\ main = "serving" ~> main # "serving"

\* A cancelled context ends the three loops, whatever the select statements
\* choose and without anybody killing the process.
CancelEndsLoops ==
    cancelled ~> /\ {roleLoop, idleLoop} \subseteq {"done", "off"}
                 /\ main \notin {"waiting", "refreshing"}

\* The inductive invariant behind the first two: handlers run only while Run is
\* inside ListenAndServe, where nextRefresh is one interval older than the call.
ProcessInv ==
    /\ TypeOK
    /\ serves => main = "serving"
    /\ reading => serves /\ failures < FailureThreshold
    /\ main \in {"listen", "serving"} => since <= uptime + Interval

\* "Run runs the secret controller loop. This will refresh secrets with AWS
\* IAM roles."
RunRefreshesSecrets == <>(main = "refreshing")
=============================================================================
