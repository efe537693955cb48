-------------------------- MODULE NavThreadsProofs --------------------------
(***************************************************************************)
(* Theorems about the threads of dhruva-nav, for any number of scans the   *)
(* explorer waits for and any capacity of the lidar channel.               *)
(***************************************************************************)
EXTENDS NavThreads, TLAPS

(***************************************************************************)
(* Types.                                                                  *)
(***************************************************************************)

LEMMA SensorTypes == TypeOK /\ SensorStep => TypeOK'
<1> SUFFICES ASSUME TypeOK, SensorStep PROVE TypeOK'
  OBVIOUS
<1> USE BoundsAssumption DEF TypeOK, Mission!MissionType, sharedVars, velVars, exploreVars,
        mapVars, robotVars, At, Go, SendStop, SensorSteps
<1>1. CASE Connect
  BY <1>1 DEF Connect
<1>2. CASE SensorShutdown
  BY <1>2 DEF SensorShutdown
<1>3. CASE SensorSafety
  BY <1>3 DEF SensorSafety
<1>4. CASE SensorClear
  BY <1>4 DEF SensorClear
<1>5. CASE Drain
  <2>1. queue' \in 0 .. ChannelCap
    BY <1>5 DEF Drain
  <2>2. safety' \in BOOLEAN
    BY <1>5 DEF Drain
  <2>3. QED
    BY <1>5, <2>1, <2>2 DEF Drain
<1>6. CASE CommandDue
  BY <1>6 DEF CommandDue
<1>7. CASE LoadAngular
  BY <1>7 DEF LoadAngular
<1>8. CASE SendVelocity
  <2>1. late' \in 0 .. 2
    BY <1>8 DEF SendVelocity
  <2>2. safety' \in BOOLEAN /\ wheels' \in BOOLEAN
    BY <1>8 DEF SendVelocity
  <2>3. QED
    BY <1>8, <2>1, <2>2 DEF SendVelocity
<1>9. CASE WriteStuck
  BY <1>9 DEF WriteStuck
<1>10. QED
  BY <1>1, <1>2, <1>3, <1>4, <1>5, <1>6, <1>7, <1>8, <1>9 DEF SensorStep

LEMMA ExploreTypes == TypeOK /\ ExploreStep => TypeOK'
<1> SUFFICES ASSUME TypeOK, ExploreStep PROVE TypeOK'
  OBVIOUS
<1> USE DEF TypeOK, Mission!MissionType, Mission!Begin, Mission!Advance, sharedVars, velVars,
        sensorVars, mapVars, robotVars, AtE, GoE, SetLinear, SetAngular,
        SensorSteps, ExploreSteps, MapSteps, MainSteps
<1>1. CASE ExploreShutdown
  BY <1>1 DEF ExploreShutdown
<1>2. CASE ExploreSafety
  BY <1>2 DEF ExploreSafety
<1>3. CASE ExploreHalt
  BY <1>3 DEF ExploreHalt
<1>4. CASE ExploreStart
  BY <1>4 DEF ExploreStart
<1>5. CASE ExploreTick
  BY <1>5 DEF ExploreTick
<1>6. CASE ExploreUpdate
  BY <1>6 DEF ExploreUpdate
<1>7. CASE ExploreStore
  BY <1>7 DEF ExploreStore
<1>8. CASE ExploreOver
  BY <1>8 DEF ExploreOver
<1>9. CASE ExploreOverEnd
  BY <1>9 DEF ExploreOverEnd
<1>10. CASE ExploreComplete
  BY <1>10 DEF ExploreComplete
<1>11. QED
  BY <1>1, <1>2, <1>3, <1>4, <1>5, <1>6, <1>7, <1>8, <1>9, <1>10 DEF ExploreStep

LEMMA MapTypes == TypeOK /\ MapStep => TypeOK'
<1> SUFFICES ASSUME TypeOK, MapStep PROVE TypeOK'
  OBVIOUS
<1> USE BoundsAssumption DEF TypeOK, Mission!MissionType, sharedVars, velVars, sensorVars,
        exploreVars, robotVars, AtM, GoM, MapSteps
<1>1. CASE MapShutdown
  BY <1>1 DEF MapShutdown
<1>2. CASE MapWait
  BY <1>2 DEF MapWait
<1>3. CASE MapScan
  BY <1>3 DEF MapScan
<1>4. CASE MapTimeout
  BY <1>4 DEF MapTimeout
<1>5. CASE MapDisconnected
  BY <1>5 DEF MapDisconnected
<1>6. CASE MapSync
  BY <1>6 DEF MapSync
<1>7. QED
  BY <1>1, <1>2, <1>3, <1>4, <1>5, <1>6 DEF MapStep

LEMMA MainTypes == TypeOK /\ MainStep => TypeOK'
BY DEF TypeOK, Mission!MissionType, MainStep, MainSignals, JoinSensor, JoinMapping,
       JoinExploration, Save, sharedVars, velVars, sensorVars, exploreVars, mapVars,
       robotVars, MainSteps

\* The flags, the velocities, the places of the four threads, the channel and
\* the robot keep their types: no queue outgrows the lidar channel's bound.
THEOREM TypeCorrect == Spec => []TypeOK
<1>1. Init => TypeOK
  <2> SUFFICES ASSUME Init PROVE TypeOK
    OBVIOUS
  <2>1. 0 \in 0 .. MinScans /\ 0 \in 0 .. ChannelCap /\ 0 \in 0 .. 2
    BY BoundsAssumption
  <2>2. QED
    BY <2>1 DEF Init, TypeOK, Mission!MissionInit, Mission!MissionType,
       SensorSteps, ExploreSteps, MapSteps, MainSteps
<1>2. TypeOK /\ [Next]_vars => TypeOK'
  <2>1. TypeOK /\ UNCHANGED vars => TypeOK'
    BY DEF TypeOK, Mission!MissionType, vars, sharedVars, velVars, sensorVars, exploreVars,
       mapVars, robotVars
  <2>2. QED
    BY <2>1, SensorTypes, ExploreTypes, MapTypes, MainTypes DEF Next
<1>3. QED
  BY <1>1, <1>2, PTL DEF Spec

(***************************************************************************)
(* At most one late command, and none behind the last stop.                *)
(***************************************************************************)

\* A command is in the sensor thread's hands only between its load and its send,
\* and the wheels it leaves behind were stopped, or could not be.
SensorInv ==
  /\ loaded => sensor \in {"load", "send"}
  /\ sensor = "connect" => ~wheels
  /\ sensor = "done" => ~wheels \/ stopLost
  /\ main \notin {"watch", "join_sensor"} => sensor = "done"

\* The exploration thread has zeroed both velocities, in its order, before it
\* says that it is complete, and writes neither afterwards.
CompleteInv ==
  /\ explore \in {"over_end", "halted"} => ~linear
  /\ explore = "halted" => ~angular
  /\ complete => explore = "done" /\ ~linear /\ ~angular

\* No other command can follow a late one: a raised flag keeps the sensor thread
\* at the top of its loop, the end of the exploration leaves nothing to load.
Spent == \/ (safety \/ shutdown) /\ sensor \in {"top", "stuck", "done"}
         \/ complete /\ ~loaded

LateInv == late <= 1 /\ (late = 1 => Spent)

ThreadsInv == SensorInv /\ CompleteInv /\ LateInv

\* Only the sensor thread and main move what SensorInv is about.
LEMMA SensorInvStep == TypeOK /\ SensorInv /\ [Next]_vars => SensorInv'
<1> SUFFICES ASSUME TypeOK, SensorInv, [Next]_vars PROVE SensorInv'
  OBVIOUS
<1> USE DEF SensorInv
<1>1. CASE SensorStep
  <2> USE DEF TypeOK, At, Go, SendStop, Running, robotVars, MainSteps
  <2>1. CASE Connect
    BY <2>1 DEF Connect
  <2>2. CASE SensorShutdown
    BY <2>2 DEF SensorShutdown
  <2>3. CASE SensorSafety
    BY <2>3 DEF SensorSafety
  <2>4. CASE SensorClear
    BY <2>4 DEF SensorClear
  <2>5. CASE Drain
    BY <2>5 DEF Drain
  <2>6. CASE CommandDue
    BY <2>6 DEF CommandDue
  <2>7. CASE LoadAngular
    BY <2>7 DEF LoadAngular
  <2>8. CASE SendVelocity
    BY <2>8 DEF SendVelocity
  <2>9. CASE WriteStuck
    BY <2>9 DEF WriteStuck
  <2>10. QED
    BY <1>1, <2>1, <2>2, <2>3, <2>4, <2>5, <2>6, <2>7, <2>8, <2>9 DEF SensorStep
<1>2. CASE ExploreStep \/ MapStep
  <2>1. UNCHANGED <<sensorVars, main, robotVars>>
    BY <1>2 DEF ExploreStep, ExploreShutdown, ExploreSafety, ExploreHalt, ExploreStart,
       ExploreTick, ExploreUpdate, ExploreStore, ExploreOver, ExploreOverEnd,
       ExploreComplete, MapStep, MapShutdown, MapWait, MapScan, MapTimeout,
       MapDisconnected, MapSync
  <2>2. QED
    BY <2>1 DEF sensorVars, robotVars
<1>3. CASE MainStep
  BY <1>3 DEF MainStep, MainSignals, JoinSensor, JoinMapping, JoinExploration, Save,
     sensorVars, robotVars
<1>4. CASE UNCHANGED vars
  BY <1>4 DEF vars, sensorVars, robotVars
<1>5. QED
  BY <1>1, <1>2, <1>3, <1>4 DEF Next

\* Only the exploration thread moves what CompleteInv is about, and none of its
\* steps is left once it is complete.
LEMMA CompleteInvStep == TypeOK /\ CompleteInv /\ [Next]_vars => CompleteInv'
<1> SUFFICES ASSUME TypeOK, CompleteInv, [Next]_vars PROVE CompleteInv'
  OBVIOUS
<1> USE DEF CompleteInv
<1>1. CASE ExploreStep
  <2> USE DEF TypeOK, AtE, GoE, SetLinear, SetAngular, sharedVars, velVars
  <2>1. CASE ExploreShutdown
    BY <2>1 DEF ExploreShutdown
  <2>2. CASE ExploreSafety
    BY <2>2 DEF ExploreSafety
  <2>3. CASE ExploreHalt
    BY <2>3 DEF ExploreHalt
  <2>4. CASE ExploreStart
    BY <2>4 DEF ExploreStart
  <2>5. CASE ExploreTick
    BY <2>5 DEF ExploreTick
  <2>6. CASE ExploreUpdate
    BY <2>6 DEF ExploreUpdate
  <2>7. CASE ExploreStore
    BY <2>7 DEF ExploreStore
  <2>8. CASE ExploreOver
    BY <2>8 DEF ExploreOver
  <2>9. CASE ExploreOverEnd
    BY <2>9 DEF ExploreOverEnd
  <2>10. CASE ExploreComplete
    BY <2>10 DEF ExploreComplete
  <2>11. QED
    BY <1>1, <2>1, <2>2, <2>3, <2>4, <2>5, <2>6, <2>7, <2>8, <2>9, <2>10 DEF ExploreStep
<1>2. CASE SensorStep \/ MapStep \/ MainStep
  <2>1. UNCHANGED <<complete, velVars, exploreVars>>
    BY <1>2 DEF SensorStep, Connect, SensorShutdown, SensorSafety, SensorClear, Drain,
       CommandDue, LoadAngular, SendVelocity, WriteStuck, MapStep, MapShutdown, MapWait, MapScan,
       MapTimeout, MapDisconnected, MapSync, MainStep, MainSignals, JoinSensor,
       JoinMapping, JoinExploration, Save, sharedVars
  <2>2. QED
    BY <2>1 DEF velVars, exploreVars
<1>3. CASE UNCHANGED vars
  BY <1>3 DEF vars, sharedVars, velVars, exploreVars
<1>4. QED
  BY <1>1, <1>2, <1>3 DEF Next

\* The raising of a flag is never undone, and a velocity is only sent, or loaded,
\* by a sensor thread that has passed the top of its loop.
LEMMA LateInvStep ==
  TypeOK /\ SensorInv /\ CompleteInv /\ LateInv /\ [Next]_vars => LateInv'
<1> SUFFICES ASSUME TypeOK, SensorInv, CompleteInv, LateInv, [Next]_vars PROVE LateInv'
  OBVIOUS
<1>1. late \in 0 .. 2 /\ late <= 1
  BY DEF TypeOK, LateInv
<1>2. CASE SensorStep
  <2> USE DEF At, Go, SendStop, LateInv, Spent, sharedVars, robotVars
  <2>1. CASE Connect
    BY <2>1 DEF Connect
  <2>2. CASE SensorShutdown
    BY <2>2 DEF SensorShutdown
  <2>3. CASE SensorSafety
    BY <2>3 DEF SensorSafety
  <2>4. CASE SensorClear
    BY <2>4 DEF SensorClear
  <2>5. CASE Drain
    BY <2>5 DEF Drain
  <2>6. CASE CommandDue
    BY <2>6 DEF CommandDue, CompleteInv
  <2>7. CASE LoadAngular
    BY <2>7 DEF LoadAngular, CompleteInv
  <2>8. CASE SendVelocity
    <3>1. CASE Flagged /\ loaded /\ late' # late
      <4>1. late = 0
        BY <1>1, <2>8, <3>1 DEF SendVelocity
      <4>2. late' = late + 1
        BY <2>8, <3>1 DEF SendVelocity
      <4>3. Spent'
        BY <2>8, <3>1 DEF SendVelocity, Flagged
      <4>4. QED
        BY <4>1, <4>2, <4>3
    <3>2. CASE late' = late
      BY <2>8, <3>2 DEF SendVelocity
    <3>3. late' # late => Flagged /\ loaded
      BY <2>8 DEF SendVelocity
    <3>4. QED
      BY <3>1, <3>2, <3>3
  <2>9. CASE WriteStuck
    BY <2>9 DEF WriteStuck
  <2>10. QED
    BY <1>2, <2>1, <2>2, <2>3, <2>4, <2>5, <2>6, <2>7, <2>8, <2>9 DEF SensorStep
<1>3. CASE ExploreStep \/ MapStep \/ MainStep
  <2> USE DEF ExploreStep, ExploreShutdown, ExploreSafety, ExploreHalt, ExploreStart,
         ExploreTick, ExploreUpdate, ExploreStore, ExploreOver, ExploreOverEnd,
         ExploreComplete, MapStep, MapShutdown, MapWait, MapScan, MapTimeout,
         MapDisconnected, MapSync, MainStep, MainSignals, JoinSensor, JoinMapping,
         JoinExploration, Save
  <2>1. UNCHANGED <<sensorVars, robotVars, safety>>
    BY <1>3 DEF sharedVars
  <2>2. shutdown' = shutdown \/ shutdown' = TRUE
    BY <1>3 DEF sharedVars
  <2>3. complete' = complete \/ complete' = TRUE
    BY <1>3 DEF sharedVars
  <2> QED
    BY <2>1, <2>2, <2>3 DEF LateInv, Spent, sensorVars, robotVars
<1>4. CASE UNCHANGED vars
  BY <1>4 DEF vars, LateInv, Spent, sharedVars, sensorVars, robotVars
<1>5. QED
  BY <1>2, <1>3, <1>4 DEF Next

\* The three parts together are inductive next to the types.
THEOREM ThreadsSafe == Spec => []ThreadsInv
<1>1. Init => ThreadsInv
  BY DEF Init, ThreadsInv, SensorInv, CompleteInv, LateInv
<1>2. TypeOK /\ ThreadsInv /\ [Next]_vars => ThreadsInv'
  BY SensorInvStep, CompleteInvStep, LateInvStep DEF ThreadsInv
<1>3. QED
  BY <1>1, <1>2, TypeCorrect, PTL DEF Spec

\* However the threads interleave, at most one drive command that is not zero
\* reaches the robot after a flag was raised (sensor.rs:75-93, shared.rs:177-188).
THEOREM OneLate == Spec => []OneLateCommand
<1>1. ThreadsInv => OneLateCommand
  BY DEF ThreadsInv, LateInv, OneLateCommand
<1>2. QED
  BY <1>1, ThreadsSafe, PTL

\* At the end of the process the sensor thread is over, its last frame a stop
\* that was written or failed (main.rs:163, sensor.rs:75-79).
THEOREM StoppedAtTheEnd == Spec => []StoppedAtExit
<1>1. ThreadsInv => StoppedAtExit
  BY DEF ThreadsInv, SensorInv, StoppedAtExit
<1>2. QED
  BY <1>1, ThreadsSafe, PTL
=============================================================================
