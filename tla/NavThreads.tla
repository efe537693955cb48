----------------------------- MODULE NavThreads -----------------------------
(***************************************************************************)
(* The threads of dhruva-nav (dhruva-nav/src/main.rs, threads/) over the   *)
(* atomics of shared.rs: the sensor thread talks to the robot, the mapping *)
(* thread turns scans into the shared grid, the exploration thread runs    *)
(* the explorer (any mission of NavMission), and main watches them.        *)
(*                                                                         *)
(* A flag or a velocity is read and written where the code loads and       *)
(* stores it; the two velocities are separate atomics, so setting or       *)
(* reading them is two steps.  The periods (5, 50, 100, 500 ms) are not    *)
(* measured: any thread may be arbitrarily slow.                           *)
(***************************************************************************)
EXTENDS Naturals

CONSTANTS
  MinScans,     \* min_scans_to_start (10 in the code)
  ChannelCap    \* the bound of the lidar channel (10 in the code)

ASSUME BoundsAssumption == MinScans \in Nat /\ ChannelCap \in Nat \ {0}

VARIABLES
  \* --- shared.rs; a velocity is whether it is not zero
  safety, shutdown, complete, linear, angular,
  scans,        \* scan_count, no longer counted at MinScans
  queue,        \* scans in the lidar channel
  \* --- the threads
  sensor, loaded,           \* where it is; the linear velocity it has loaded
  explore, mission, moving, \* where it is, and its explorer (NavMission)
  mapping, unsynced,        \* where it is; its map is ahead of the shared grid
  main,
  \* --- the robot
  wheels,       \* the last drive command it got is not zero
  \* --- history
  stopLost,     \* the last send_stop failed
  late          \* drive commands that were not zero since a flag was raised

sharedVars  == <<safety, shutdown, complete>>
velVars     == <<linear, angular>>
sensorVars  == <<sensor, loaded>>
exploreVars == <<explore, mission, moving>>
mapVars     == <<mapping, unsynced, scans>>
robotVars   == <<wheels, stopLost, late>>
vars == <<sharedVars, velVars, queue, sensorVars, exploreVars, mapVars, main, robotVars>>

Mission == INSTANCE NavMission

SensorSteps  == {"connect", "top", "drain", "due", "load", "send", "stuck", "done"}
ExploreSteps == {"top", "update", "angular", "check", "halt", "halt_end", "halted",
                 "over", "over_end", "done"}
MapSteps     == {"top", "receive", "sync", "done"}
MainSteps    == {"watch", "join_sensor", "join_mapping", "join_exploration", "save", "exit"}

Init ==
  /\ safety = FALSE /\ shutdown = FALSE /\ complete = FALSE
  /\ linear = FALSE /\ angular = FALSE /\ scans = 0 /\ queue = 0
  /\ sensor = "connect" /\ loaded = FALSE
  /\ explore = "top" /\ Mission!MissionInit
  /\ mapping = "top" /\ unsynced = FALSE /\ main = "watch"
  /\ wheels = FALSE /\ stopLost = FALSE /\ late = 0

Running == main # "exit"     \* the process ends with main
Flagged == safety \/ shutdown \/ complete

(***************************************************************************)
(* The sensor thread.                                                      *)
(***************************************************************************)
At(step)     == Running /\ sensor = step
Go(step)     == sensor' = step /\ UNCHANGED loaded

Connect ==
  /\ At("connect")
  /\ \/ Go("top")
     \/ Go("done")                    \* an error of connect() ends the thread
  /\ UNCHANGED <<sharedVars, velVars, queue, exploreVars, mapVars, main, robotVars>>

\* send_stop: a failure is only logged.
SendStop ==
  /\ stopLost' \in BOOLEAN
  /\ wheels' = (wheels /\ stopLost')
  /\ UNCHANGED late

SensorShutdown ==
  /\ At("top") /\ shutdown
  /\ SendStop /\ Go("done")
  /\ UNCHANGED <<sharedVars, velVars, queue, exploreVars, mapVars, main>>

SensorSafety ==
  /\ At("top") /\ ~shutdown /\ safety
  /\ SendStop /\ Go("top")
  /\ UNCHANGED <<sharedVars, velVars, queue, exploreVars, mapVars, main>>

\* Mutant of SensorClear: the safety flag is not looked at.
SensorClearUnchecked ==
  /\ At("top") /\ ~shutdown
  /\ Go("drain")
  /\ UNCHANGED <<sharedVars, velVars, queue, exploreVars, mapVars, main, robotVars>>

SensorClear ==
  /\ At("top") /\ ~shutdown /\ ~safety
  /\ Go("drain")
  /\ UNCHANGED <<sharedVars, velVars, queue, exploreVars, mapVars, main, robotVars>>

\* Mutant of Drain: the scan goes to a channel without a bound, hazards unseen.
DrainUnbounded ==
  /\ At("drain")
  /\ Go("due")
  /\ queue' = queue + 1
  /\ UNCHANGED <<sharedVars, velVars, exploreVars, mapVars, main, robotVars>>

\* process_udp_messages: a bumper, a cliff or a receive error raises the flag
\* and drops the rest; else the latest scan goes to a channel that may be full,
\* or whose receiver is gone.
Drain ==
  /\ At("drain")
  /\ Go("due")
  /\ \/ safety' = TRUE /\ UNCHANGED queue
     \/ UNCHANGED <<safety, queue>>
     \/ queue < ChannelCap /\ mapping # "done" /\ queue' = queue + 1 /\ UNCHANGED safety
  /\ UNCHANGED <<shutdown, complete, velVars, exploreVars, mapVars, main, robotVars>>

\* The command interval has passed or not; velocity() loads linear first.
CommandDue ==
  /\ At("due")
  /\ \/ sensor' = "load" /\ loaded' = linear
     \/ sensor' = "top" /\ UNCHANGED loaded
  /\ UNCHANGED <<sharedVars, velVars, queue, exploreVars, mapVars, main, robotVars>>

LoadAngular ==
  /\ At("load")
  /\ sensor' = "send" /\ loaded' = (loaded \/ angular)
  /\ UNCHANGED <<sharedVars, velVars, queue, exploreVars, mapVars, main, robotVars>>

SendVelocity ==
  /\ At("send")
  /\ sensor' = "top" /\ loaded' = FALSE
  /\ \/ /\ wheels' = loaded
        /\ late' = IF Flagged /\ loaded /\ late < 2 THEN late + 1 ELSE late
        /\ UNCHANGED <<sharedVars, stopLost>>
     \/ /\ safety' = TRUE                      \* the send failed
        /\ UNCHANGED <<shutdown, complete, robotVars>>
  /\ UNCHANGED <<velVars, queue, exploreVars, mapVars, main>>

\* set_timeout limits reads only: write_all, here of connect(), of a stop or of a
\* velocity, never returns when the daemon stops reading and the connection stays.
WriteStuck ==
  /\ At("connect") \/ At("send") \/ (At("top") /\ (shutdown \/ safety))
  /\ sensor' = "stuck" /\ loaded' = FALSE
  /\ UNCHANGED <<sharedVars, velVars, queue, exploreVars, mapVars, main, robotVars>>

SensorStep == \/ Connect \/ SensorShutdown \/ SensorSafety \/ SensorClear \/ Drain
              \/ CommandDue \/ LoadAngular \/ SendVelocity \/ WriteStuck

(***************************************************************************)
(* The exploration thread.                                                 *)
(***************************************************************************)
AtE(step) == Running /\ explore = step
GoE(step) == explore' = step /\ UNCHANGED <<mission, moving>>

SetLinear(v)  == linear' = v /\ UNCHANGED angular
SetAngular(v) == angular' = v /\ UNCHANGED linear

ExploreShutdown ==
  /\ AtE("top") /\ shutdown
  /\ GoE("done")
  /\ UNCHANGED <<sharedVars, velVars, queue, sensorVars, mapVars, main, robotVars>>

ExploreSafety ==
  /\ AtE("top") /\ ~shutdown /\ safety
  /\ SetLinear(FALSE) /\ GoE("halt")
  /\ UNCHANGED <<sharedVars, queue, sensorVars, mapVars, main, robotVars>>

ExploreHalt ==
  /\ AtE("halt")
  /\ SetAngular(FALSE) /\ GoE("top")
  /\ UNCHANGED <<sharedVars, queue, sensorVars, mapVars, main, robotVars>>

\* Not enough scans leaves the thread at the top of its loop.
ExploreStart ==
  /\ AtE("top") /\ ~shutdown /\ ~safety
  /\ mission = "idle" /\ scans >= MinScans
  /\ Mission!Begin /\ explore' = "update"
  /\ UNCHANGED <<sharedVars, velVars, queue, sensorVars, mapVars, main, robotVars>>

ExploreTick ==
  /\ AtE("top") /\ ~shutdown /\ ~safety
  /\ mission # "idle"
  /\ GoE("update")
  /\ UNCHANGED <<sharedVars, velVars, queue, sensorVars, mapVars, main, robotVars>>

\* The explorer's update(), and the first half of storing its velocity.
ExploreUpdate ==
  /\ AtE("update")
  /\ Mission!Advance
  /\ SetLinear(moving') /\ explore' = "angular"
  /\ UNCHANGED <<sharedVars, queue, sensorVars, mapVars, main, robotVars>>

ExploreStore ==
  /\ AtE("angular")
  /\ SetAngular(moving)
  /\ GoE(IF mission = "over" THEN "over" ELSE "top")
  /\ UNCHANGED <<sharedVars, queue, sensorVars, mapVars, main, robotVars>>

ExploreOver ==
  /\ AtE("over")
  /\ SetLinear(FALSE) /\ GoE("over_end")
  /\ UNCHANGED <<sharedVars, queue, sensorVars, mapVars, main, robotVars>>

ExploreOverEnd ==
  /\ AtE("over_end")
  /\ SetAngular(FALSE) /\ GoE("halted")
  /\ UNCHANGED <<sharedVars, queue, sensorVars, mapVars, main, robotVars>>

ExploreComplete ==
  /\ AtE("halted")
  /\ complete' = TRUE /\ GoE("done")
  /\ UNCHANGED <<safety, shutdown, velVars, queue, sensorVars, mapVars, main, robotVars>>

ExploreStep == \/ ExploreShutdown \/ ExploreSafety \/ ExploreHalt \/ ExploreStart
               \/ ExploreTick \/ ExploreUpdate \/ ExploreStore
               \/ ExploreOver \/ ExploreOverEnd \/ ExploreComplete

(***************************************************************************)
(* The mapping thread.                                                     *)
(***************************************************************************)
AtM(step) == Running /\ mapping = step
GoM(step) == mapping' = step

MapShutdown ==
  /\ AtM("top") /\ shutdown
  /\ unsynced' = FALSE                         \* the final sync_grid
  /\ GoM("done")
  /\ UNCHANGED <<sharedVars, velVars, queue, sensorVars, exploreVars, scans, main, robotVars>>

MapWait ==
  /\ AtM("top") /\ ~shutdown
  /\ GoM("receive")
  /\ UNCHANGED <<sharedVars, velVars, queue, sensorVars, exploreVars, unsynced, scans,
                 main, robotVars>>

MapScan ==
  /\ AtM("receive") /\ queue > 0
  /\ queue' = queue - 1
  /\ scans' = IF scans < MinScans THEN scans + 1 ELSE scans
  /\ unsynced' = TRUE
  /\ GoM("sync")
  /\ UNCHANGED <<sharedVars, velVars, sensorVars, exploreVars, main, robotVars>>

MapTimeout ==
  /\ AtM("receive") /\ queue = 0 /\ sensor # "done"
  /\ GoM("sync")
  /\ UNCHANGED <<sharedVars, velVars, queue, sensorVars, exploreVars, unsynced, scans,
                 main, robotVars>>

\* The sensor thread held the only sender.
MapDisconnected ==
  /\ AtM("receive") /\ queue = 0 /\ sensor = "done"
  /\ GoM("done")
  /\ UNCHANGED <<sharedVars, velVars, queue, sensorVars, exploreVars, unsynced, scans,
                 main, robotVars>>

\* A grid sync is due or not.
MapSync ==
  /\ AtM("sync")
  /\ unsynced' \in {unsynced, FALSE}
  /\ GoM("top")
  /\ UNCHANGED <<sharedVars, velVars, queue, sensorVars, exploreVars, scans, main, robotVars>>

MapStep == \/ MapShutdown \/ MapWait \/ MapScan \/ MapTimeout \/ MapDisconnected \/ MapSync

(***************************************************************************)
(* main.                                                                   *)
(***************************************************************************)
SomeFinished == "done" \in {sensor, mapping, explore}

\* Mutant of MainSignals: a finished thread is not noticed.
MainSignalsAlone ==
  /\ main = "watch"
  /\ safety \/ complete
  /\ shutdown' = TRUE
  /\ main' = "join_sensor"
  /\ UNCHANGED <<safety, complete, velVars, queue, sensorVars, exploreVars, mapVars, robotVars>>

MainSignals ==
  /\ main = "watch"
  /\ safety \/ complete \/ SomeFinished
  /\ shutdown' = TRUE
  /\ main' = "join_sensor"
  /\ UNCHANGED <<safety, complete, velVars, queue, sensorVars, exploreVars, mapVars, robotVars>>

\* Mutant of JoinSensor: the sensor thread is not waited for.
JoinSensorUnawaited ==
  /\ main = "join_sensor"
  /\ main' \in {"join_mapping", "save"}
  /\ UNCHANGED <<sharedVars, velVars, queue, sensorVars, exploreVars, mapVars, robotVars>>

\* join() blocks; the other two threads are only joined while five seconds
\* have not passed since the flag was raised.
JoinSensor ==
  /\ main = "join_sensor" /\ sensor = "done"
  /\ main' \in {"join_mapping", "save"}
  /\ UNCHANGED <<sharedVars, velVars, queue, sensorVars, exploreVars, mapVars, robotVars>>

JoinMapping ==
  /\ main = "join_mapping" /\ mapping = "done"
  /\ main' \in {"join_exploration", "save"}
  /\ UNCHANGED <<sharedVars, velVars, queue, sensorVars, exploreVars, mapVars, robotVars>>

JoinExploration ==
  /\ main = "join_exploration" /\ explore = "done"
  /\ main' = "save"
  /\ UNCHANGED <<sharedVars, velVars, queue, sensorVars, exploreVars, mapVars, robotVars>>

Save ==
  /\ main = "save"
  /\ main' = "exit"
  /\ UNCHANGED <<sharedVars, velVars, queue, sensorVars, exploreVars, mapVars, robotVars>>

MainStep == MainSignals \/ JoinSensor \/ JoinMapping \/ JoinExploration \/ Save

Next == SensorStep \/ ExploreStep \/ MapStep \/ MainStep

Spec == Init /\ [][Next]_vars

\* Each thread runs.  What may wait for ever is a write of the sensor thread, which is
\* WriteStuck, and main in its joins; nothing is assumed of either.
Fairness ==
  WF_vars(SensorStep) /\ WF_vars(ExploreStep) /\ WF_vars(MapStep) /\ WF_vars(MainStep)

FairSpec == Spec /\ Fairness

-----------------------------------------------------------------------------
TypeOK ==
  /\ {safety, shutdown, complete, linear, angular, loaded, unsynced, wheels, stopLost}
       \subseteq BOOLEAN
  /\ scans \in 0 .. MinScans /\ queue \in 0 .. ChannelCap /\ late \in 0 .. 2
  /\ sensor \in SensorSteps /\ explore \in ExploreSteps
  /\ mapping \in MapSteps /\ main \in MainSteps
  /\ Mission!MissionType

\* However the threads interleave, at most one drive command that is not zero
\* reaches the robot after a bumper, a cliff, the end of the exploration or a
\* shutdown raised its flag: the one the sensor thread was about to send
\* (sensor.rs:75-93, shared.rs:177-188).
OneLateCommand == late <= 1

\* When the process ends the robot has been told to stop, unless the write of
\* that last frame failed: main waits for the sensor thread however long it
\* takes, and nothing is sent behind its stop (main.rs:163, sensor.rs:75-79).
StoppedAtExit == main = "exit" => ~wheels \/ stopLost

\* A safety stop, the end of the exploration or the loss of any thread ends the
\* process, with the map saved, or else the sensor thread is in a write that never
\* returns: main joins it without a limit, whatever its comment says of a timeout
\* (main.rs:123-186, client.rs:335-348).
ProcessEnds == (Flagged \/ SomeFinished) ~> main = "exit" \/ sensor = "stuck"
=============================================================================
