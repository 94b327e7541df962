--------------------------- MODULE ProcessProofs ---------------------------
(***************************************************************************)
(* Theorems about Process, for every interval and probe threshold.         *)
(***************************************************************************)
EXTENDS Process, TLAPS

\* The numbers the invariant compares.
LEMMA Numbers ==
  /\ Interval \in Nat /\ Interval > 0
  /\ FailureThreshold \in Nat /\ FailureThreshold > 0
  /\ TooOld = 5 * Interval /\ LongAgo = 5 * Interval + 1
  /\ TooOld \in Nat /\ LongAgo \in Nat
BY ProcessAssumption DEF TooOld, LongAgo

\* A capped clock moves by one or stays at its cap.
LEMMA LaterFacts ==
  ASSUME NEW limit \in Nat, NEW t \in Int, t <= limit
  PROVE  /\ Later(t, limit) \in Int
         /\ Later(t, limit) <= limit
         /\ t <= Later(t, limit) /\ Later(t, limit) <= t + 1
         /\ t < limit => Later(t, limit) = t + 1
BY DEF Later

\* The flags of TypeOK.
Flags == {signal, cancelled, serves, reading, stopping, probing, portTaken}

LEMMA InitInv == Init => ProcessInv
<1> SUFFICES ASSUME Init PROVE ProcessInv
  OBVIOUS
<1>1. Flags \subseteq BOOLEAN
  BY ProcessAssumption DEF Init, Flags
<1>2. /\ since = LongAgo /\ timer = 0 /\ uptime = 0 /\ failures = 0
      /\ events = MaxEvents
  BY DEF Init
<1>3. /\ since \in -Interval .. LongAgo /\ timer \in 0 .. Interval
      /\ uptime \in 0 .. LongAgo /\ failures \in 0 .. FailureThreshold
      /\ events \in 0 .. MaxEvents
  BY <1>2, Numbers, ProcessAssumption
<1>4. /\ main = "starting" /\ roleLoop = "off" /\ idleLoop = "off"
      /\ handler = "off" /\ ~serves /\ ~reading
  BY DEF Init
<1> QED
  BY <1>1, <1>3, <1>4 DEF ProcessInv, TypeOK, Flags

\* A process that is gone serves nobody and has no clocks.
LEMMA GoneKeepsInv ==
  ASSUME ProcessInv, NEW where \in {"exited", "starting"}, Gone(where),
         events' \in {events, events - 1} \cap (0 .. MaxEvents)
  PROVE  ProcessInv'
<1>1. Flags' \subseteq BOOLEAN
  BY DEF ProcessInv, TypeOK, Gone, Flags
<1>2. /\ since' = LongAgo /\ timer' = 0 /\ uptime' = 0 /\ failures' = 0
      /\ events' \in 0 .. MaxEvents
  BY DEF Gone
<1>3. /\ since' \in -Interval .. LongAgo /\ timer' \in 0 .. Interval
      /\ uptime' \in 0 .. LongAgo /\ failures' \in 0 .. FailureThreshold
  BY <1>2, Numbers
<1>4. /\ main' = where /\ roleLoop' = "off" /\ idleLoop' = "off"
      /\ handler' = "off" /\ ~serves' /\ ~reading'
  BY DEF Gone
<1> QED
  BY <1>1, <1>2, <1>3, <1>4 DEF ProcessInv, TypeOK, Flags

LEMMA MainStepKeepsInv ==
  ASSUME ProcessInv, MainStep
  PROVE  ProcessInv'
<1>1. CASE ConfigureKubeConfig
  BY <1>1 DEF ProcessInv, TypeOK, ConfigureKubeConfig, signalVars, ageVars, probeVars,
              worldVars
<1>2. CASE Start
  BY <1>2 DEF ProcessInv, TypeOK, Start, ageVars, probeVars, worldVars
<1>3. CASE Run
  BY <1>3, Numbers
  DEF ProcessInv, TypeOK, Run, loopVars, signalVars, probeVars, worldVars
<1>4. CASE ListenAndServe
  BY <1>4
  DEF ProcessInv, TypeOK, ListenAndServe, loopVars, signalVars, ageVars, probeVars,
      worldVars
<1>5. CASE Refresh
  BY <1>5, Numbers
  DEF ProcessInv, TypeOK, Refresh, loopVars, signalVars, probeVars, worldVars
<1>6. CASE Refreshed
  BY <1>6
  DEF ProcessInv, TypeOK, Refreshed, loopVars, signalVars, ageVars, probeVars,
      worldVars
<1>7. CASE Return
  BY <1>7, GoneKeepsInv DEF ProcessInv, TypeOK, Return
<1> QED
  BY <1>1, <1>2, <1>3, <1>4, <1>5, <1>6, <1>7 DEF MainStep

LEMMA LoopStepKeepsInv ==
  ASSUME ProcessInv, RoleStep \/ IdleStep \/ HandlerStep
  PROVE  ProcessInv'
<1>1. CASE RoleStep
  BY <1>1, Numbers
  DEF ProcessInv, TypeOK, RoleStep, RoleRefreshed, RoleRefresh, RoleReturn,
      signalVars, ageVars, probeVars, worldVars
<1>2. CASE IdleStep
  BY <1>2
  DEF ProcessInv, TypeOK, IdleStep, CloseIdleConnections, IdleReturn, signalVars,
      ageVars, probeVars, worldVars
<1>3. CASE Notify
  BY <1>3 DEF ProcessInv, TypeOK, Notify, loopVars, ageVars, probeVars, worldVars
<1>4. CASE HandleSigterm
  <2>1. Flags' \subseteq BOOLEAN
    BY <1>4 DEF ProcessInv, TypeOK, HandleSigterm, probeVars, worldVars, Flags
  <2> QED
    BY <1>4, <2>1
    DEF ProcessInv, TypeOK, HandleSigterm, loopVars, ageVars, probeVars, worldVars,
        Flags
<1> QED
  BY <1>1, <1>2, <1>3, <1>4 DEF HandlerStep

LEMMA SigtermKeepsInv ==
  ASSUME ProcessInv, Sigterm, events' \in {events, events - 1} \cap (0 .. MaxEvents)
  PROVE  ProcessInv'
<1>1. CASE handler = "notified"
  <2>1. /\ signal' = TRUE /\ stopping' = TRUE
        /\ UNCHANGED <<main, loopVars, handler, cancelled, ageVars, serves,
                       reading, failures, probing, portTaken>>
    BY <1>1 DEF Sigterm
  <2>2. Flags' \subseteq BOOLEAN
    BY <2>1 DEF ProcessInv, TypeOK, Flags
  <2> QED
    BY <2>1, <2>2 DEF ProcessInv, TypeOK, Flags, loopVars, ageVars
<1>2. CASE handler # "notified"
  BY <1>2, GoneKeepsInv DEF Sigterm
<1> QED
  BY <1>1, <1>2

LEMMA KubeletStepKeepsInv ==
  ASSUME ProcessInv, KubeletStep
  PROVE  ProcessInv'
<1>1. CASE ProbeStart
  <2>1. Flags' \subseteq BOOLEAN
    BY <1>1 DEF ProcessInv, TypeOK, Flags, ProbeStart, signalVars, worldVars
  <2> QED
    BY <1>1, <2>1
    DEF ProcessInv, TypeOK, Flags, ProbeStart, Probe, loopVars, signalVars, ageVars,
        worldVars
<1>2. CASE ProbeEnd
  <2>1. Flags' \subseteq BOOLEAN
    BY <1>2 DEF ProcessInv, TypeOK, Flags, ProbeEnd, signalVars, worldVars
  <2>2. failures' \in 0 .. FailureThreshold
    BY <1>2, Numbers DEF ProcessInv, TypeOK, ProbeEnd, Count
  <2> QED
    BY <1>2, <2>1, <2>2
    DEF ProcessInv, TypeOK, Flags, ProbeEnd, loopVars, signalVars, ageVars, worldVars
<1>3. CASE ProbeMisses
  <2>1. failures' \in 0 .. FailureThreshold
    BY <1>3, Numbers DEF ProcessInv, TypeOK, ProbeMisses, Probe, Count
  <2> QED
    BY <1>3, <2>1
    DEF ProcessInv, TypeOK, ProbeMisses, Probe, loopVars, signalVars, ageVars,
        worldVars
<1>4. CASE Unhealthy
  BY <1>4, SigtermKeepsInv DEF ProcessInv, TypeOK, Unhealthy
<1>5. CASE Kill
  BY <1>5, GoneKeepsInv DEF ProcessInv, TypeOK, Kill
<1>6. CASE Restart
  BY <1>6, GoneKeepsInv DEF ProcessInv, TypeOK, Restart
<1> QED
  BY <1>1, <1>2, <1>3, <1>4, <1>5, <1>6 DEF KubeletStep

LEMMA OutsideStepKeepsInv ==
  ASSUME ProcessInv, Fatalf \/ StopPod \/ OtherProcess
  PROVE  ProcessInv'
<1>1. Happens => events' \in {events, events - 1} \cap (0 .. MaxEvents)
  BY ProcessAssumption DEF ProcessInv, TypeOK, Happens
<1>2. CASE Fatalf
  BY <1>1, <1>2, GoneKeepsInv DEF Fatalf
<1>3. CASE StopPod
  BY <1>1, <1>3, SigtermKeepsInv DEF StopPod
<1>4. CASE OtherProcess
  <2>1. Flags' \subseteq BOOLEAN
    BY <1>4 DEF ProcessInv, TypeOK, Flags, OtherProcess, signalVars, probeVars
  <2> QED
    BY <1>1, <1>4, <2>1
    DEF ProcessInv, TypeOK, Flags, OtherProcess, loopVars, signalVars, ageVars,
        probeVars
<1> QED
  BY <1>2, <1>3, <1>4

\* Both clocks move together, or the uptime is past every limit.
LEMMA TickKeepsInv ==
  ASSUME ProcessInv, Tick
  PROVE  ProcessInv'
<1>1. /\ since \in Int /\ since <= LongAgo /\ -Interval <= since
      /\ uptime \in Int /\ uptime <= LongAgo /\ 0 <= uptime
      /\ timer \in 0 .. Interval
  BY Numbers DEF ProcessInv, TypeOK
<1>2. /\ since' = Later(since, LongAgo) /\ uptime' = Later(uptime, LongAgo)
      /\ timer' = IF timer > 0 THEN timer - 1 ELSE 0
  BY DEF Tick
<1>3. /\ since' \in Int /\ since' <= LongAgo /\ since <= since'
      /\ since' <= since + 1
  BY <1>1, <1>2, LaterFacts, Numbers
<1>4. /\ uptime' \in Int /\ uptime' <= LongAgo /\ uptime <= uptime'
      /\ uptime < LongAgo => uptime' = uptime + 1
  BY <1>1, <1>2, LaterFacts, Numbers
<1>5. since <= uptime + Interval => since' <= uptime' + Interval
  <2>1. LongAgo \in Int /\ Interval \in Int /\ 0 <= Interval
    BY Numbers
  <2>2. CASE uptime < LongAgo
    BY <1>1, <1>3, <1>4, <2>1, <2>2
  <2>3. CASE uptime = LongAgo
    <3>1. uptime' = LongAgo
      BY <1>1, <1>4, <2>1, <2>3
    <3>2. LongAgo <= LongAgo + Interval
      BY <2>1
    <3> QED
      BY <1>3, <2>1, <3>1, <3>2
  <2> QED
    BY <1>1, <2>1, <2>2, <2>3
<1>6. /\ since' \in -Interval .. LongAgo /\ uptime' \in 0 .. LongAgo
      /\ timer' \in 0 .. Interval
  BY <1>1, <1>2, <1>3, <1>4, Numbers
<1> QED
  BY <1>5, <1>6
  DEF ProcessInv, TypeOK, Tick, signalVars, probeVars, worldVars

LEMMA InvInductive == ProcessInv /\ [Next]_vars => ProcessInv'
<1> SUFFICES ASSUME ProcessInv, [Next]_vars
             PROVE  ProcessInv'
  OBVIOUS
<1>1. CASE UNCHANGED vars
  BY <1>1 DEF ProcessInv, TypeOK, vars, loopVars, signalVars, ageVars, probeVars,
              worldVars
<1> QED
  BY <1>1, MainStepKeepsInv, LoopStepKeepsInv, KubeletStepKeepsInv,
     OutsideStepKeepsInv, TickKeepsInv DEF Next

-----------------------------------------------------------------------------
(* The theorems. *)

\* Health handlers run only while Run is inside ListenAndServe, and while it is,
\* nextRefresh is one interval older than the process at most.
THEOREM ProcessInvariant == Spec => []ProcessInv
<1>1. Init => ProcessInv
  BY InitInv
<1>2. ProcessInv /\ [Next]_vars => ProcessInv'
  BY InvInductive
<1> QED
  BY <1>1, <1>2, PTL DEF Spec

\* The loops, the handlers, the probes and the kubelet's counter stay in their
\* states and bounds over restarts, signals and time.
THEOREM ProcessTypes == Spec => []TypeOK
<1>1. ProcessInv => TypeOK
  BY DEF ProcessInv
<1> QED
  BY <1>1, ProcessInvariant, PTL

\* nextRefresh has no lock, and Run does not need one: no step assigns it while
\* a health handler reads it.
THEOREM HandlersNotRaced == Spec => NextRefreshNotRaced
<1>1. ProcessInv /\ ProcessInv' /\ [Next]_vars => [reading /\ reading' => since' >= since]_vars
  <2> SUFFICES ASSUME ProcessInv, Next, reading, reading'
               PROVE  since' >= since
    OBVIOUS
  <2>1. main = "serving" /\ since \in Int /\ since <= LongAgo
    BY DEF ProcessInv, TypeOK
  <2>2. CASE Tick
    BY <2>1, <2>2, LaterFacts, Numbers DEF Tick
  <2>3. CASE UNCHANGED since
    BY <2>1, <2>3
  <2>4. CASE \E where \in {"exited", "starting"} : Gone(where)
    BY <2>4 DEF Gone
  <2>5. UNCHANGED since \/ Tick \/ \E where \in {"exited", "starting"} : Gone(where)
    BY <2>1
    DEF Next, MainStep, ConfigureKubeConfig, Start, Run, ListenAndServe, Refresh,
        Refreshed, Return, RoleStep, RoleRefreshed, RoleRefresh, RoleReturn,
        IdleStep, CloseIdleConnections, IdleReturn, HandlerStep, Notify,
        HandleSigterm, KubeletStep, ProbeStart, ProbeEnd, ProbeMisses, Unhealthy,
        Sigterm, Kill, Restart, Fatalf, StopPod, OtherProcess, ageVars
  <2> QED
    BY <2>2, <2>3, <2>4, <2>5
<1> QED
  BY <1>1, ProcessInvariant, PTL DEF Spec, NextRefreshNotRaced

\* The probes a process serves do not fail before it is four intervals old.
THEOREM YoungProcessesPass == Spec => YoungProcessPasses
<1>1. ProcessInv /\ [Next]_vars =>
        [reading /\ failures' > failures => uptime > 4 * Interval]_vars
  <2> SUFFICES ASSUME ProcessInv, Next, reading, failures' > failures
               PROVE  uptime > 4 * Interval
    OBVIOUS
  <2>1. /\ main = "serving" /\ since \in Int /\ uptime \in Int
        /\ since <= uptime + Interval
        /\ failures \in 0 .. FailureThreshold
    BY DEF ProcessInv, TypeOK
  <2>2. ~UNCHANGED failures /\ ~\E where \in {"exited", "starting"} : Gone(where)
    BY <2>1, Numbers DEF Gone
  <2>3. ProbeEnd
    BY <2>2
    DEF Next, MainStep, ConfigureKubeConfig, Start, Run, ListenAndServe, Refresh,
        Refreshed, Return, RoleStep, RoleRefreshed, RoleRefresh, RoleReturn,
        IdleStep, CloseIdleConnections, IdleReturn, HandlerStep, Notify,
        HandleSigterm, KubeletStep, ProbeStart, Probe, ProbeMisses, Unhealthy,
        Sigterm, Kill, Restart, Fatalf, StopPod, OtherProcess, Tick, probeVars
  <2>4. CheckFails
    BY <2>1, <2>3, Numbers DEF ProbeEnd, Count
  <2> QED
    BY <2>1, <2>4, Numbers DEF CheckFails
<1> QED
  BY <1>1, ProcessInvariant, PTL DEF Spec, YoungProcessPasses

=============================================================================
