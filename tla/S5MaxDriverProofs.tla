------------------------- MODULE S5MaxDriverProofs --------------------------
(***************************************************************************)
(* Theorems about initialize, shutdown_all and the three workers of the    *)
(* S5 Max driver, whether the configuration lets it actuate or not.        *)
(***************************************************************************)
EXTENDS S5MaxDriver, TLAPS

\* No call runs, on a driver that is down or up.
Down == step = "idle" /\ ~initialized
Up   == step = "idle" /\ initialized

AllJoined == \A t \in Threads : thread[t] = "none"

\* Some worker has failed and is not joined yet.
Pending == \E t \in Threads : thread[t] \in {"faulted", "failed"}

\* The steps of shutdown_all behind each of its joins.
LdsJoined      == {"join_mcu", "disarm", "join_watchdog", "end"}
McuJoined      == {"disarm", "join_watchdog", "end"}
Disarmed       == {"join_watchdog", "end"}
ChargeRestored == {"stop_check", "stop_set", "stop_publish", "flag", "join_lds"} \cup LdsJoined
LidarStopped   == {"restore", "restoring"} \cup ChargeRestored
Beginning      == {"watchdog", "motor", "mcu"}
Raised         == {"flag", "join_lds"} \cup LdsJoined
Announcing     == {"ready_publish", "operational_publish", "stop_publish"}
Stopping       == {"stop_set", "stop_publish"}
BeforeLds      == Beginning \cup {"mcu_wait", "mcu_join", "ready_check", "ready_set",
                                  "ready_publish", "lds"}

\* The MCU thread runs as long as its session, and a session that ended without an
\* error has stopped what it moved.
McuInv ==
  /\ (thread["mcu"] = "running") = (phase # "over")
  /\ thread["mcu"] = "ended" => ~moving
  /\ phase = "stopped" /\ ~failed => ~moving

\* The workers and the motor guard that are in the driver's fields at each step: no
\* running worker is overwritten, none is left behind.
OwnedInv ==
  /\ step \in {"watchdog", "end"} \/ Down => AllJoined
  /\ step \in BeforeLds \cup LdsJoined => thread["lds"] = "none"
  /\ step \in Beginning \cup McuJoined => thread["mcu"] = "none"
  /\ step \in StartSteps \ Beginning => thread["mcu"] # "none"
  /\ initialized /\ step \notin McuJoined => thread["mcu"] # "none"
  /\ step \in {"watchdog", "motor"} \cup Disarmed \/ Down => ~motorHeld

\* A driver that was never started or says it is stopped has nothing to stop.
CleanInv ==
  state \in {"created", "stopped"} =>
    /\ AllJoined /\ ~motorHeld /\ ~initialized
    /\ ~moving /\ ~motorOn /\ ~restore
    /\ step \in {"idle", "stop_check"} \cup Raised

\* The states the lifecycle can be in at each step.
StateInv ==
  /\ step \in StartSteps =>
       state \in {"synchronizing", "read_only_ready", "operational", "fault"}
  /\ step \in ClientSteps \/ Up => state \in {"operational", "fault"}
  /\ step \in StopSteps \cup {"idle"} /\ ~initialized =>
       state \in {"created", "stopped", "fault"}
  /\ step = "operational_publish" => state \in {"operational", "fault"}
  /\ step = "stop_publish" => state \in {"stopping", "fault"}
  /\ step \in Stopping => initialized
  /\ step \in StopSteps /\ faulted => state = "fault" /\ step \notin Stopping
  /\ step \in Raised => state \in {"created", "stopped", "stopping", "fault"}

\* What shutdown_all has stopped by each step, unless it remembers an error; and a
\* driver being started has nothing moving before its session is.
StillInv ==
  /\ step \in Beginning => ~moving /\ ~motorOn
  /\ initialized /\ ~error =>
       /\ step \in LidarStopped => ~motorOn
       /\ step \in ChargeRestored /\ ~faulted => ~restore
       /\ step \in McuJoined => ~moving

\* No failure is forgotten: it is a thread's, or the call's, or the driver's.
ReportInv ==
  /\ broken => \/ Pending
               \/ (step \in StopSteps /\ error)
               \/ /\ state = "fault" /\ published = "fault"
                  /\ step \in StopSteps \ Stopping \/ Down
  /\ published # state => \/ Pending
                          \/ (step \in StopSteps /\ error)
                          \/ step \in Announcing
  /\ step = "ready_publish" => Pending \/ state = "read_only_ready"
  /\ step = "operational_publish" => Pending \/ state = "operational"
  /\ step = "stop_publish" => Pending \/ state = "stopping"

DriverInv == McuInv /\ OwnedInv /\ CleanInv /\ StateInv /\ StillInv /\ ReportInv

-----------------------------------------------------------------------------
(***************************************************************************)
(* Types, in two halves: the provers treat Boolean variables apart.        *)
(***************************************************************************)

Flags == {shutdown, faulted, error, initialized, restore, ready, motorHeld, motorOn, running,
          broken, moving, failed}

PlacesOK ==
  /\ state \in States /\ published \in States
  /\ step \in StartSteps \cup ClientSteps \cup StopSteps \cup {"idle"}
  /\ step \in StartSteps => ~initialized
  /\ step \in ClientSteps => initialized
  /\ thread \in [Threads -> {"none", "running", "faulted", "ended", "failed"}]
  /\ told \in {"waiting", "ok", "failed"}
  /\ phase \in {"starting", "live", "ending", "stopped", "over"}
  /\ dock \in {"unknown", "away", "charging", "docked"}

\* The steps of initialize keep the flags Boolean ...
LEMMA InitializeFlags == TypeOK /\ InitializeSteps => (Flags \subseteq BOOLEAN)'
<1> SUFFICES ASSUME TypeOK, InitializeSteps PROVE (Flags \subseteq BOOLEAN)'
  OBVIOUS
<1> USE DEF TypeOK, Session!SessionTypeOK, Flags, States, StartSteps, ClientSteps,
   StopSteps, Threads, lifeVars, callVars, mcuVars, lidarVars, Goto, StartFails,
   EnterShutdown, Proceed, StopMotor
<1>1. CASE OpenFails
  BY <1>1 DEF OpenFails
<1>2. CASE StartWatchdog
  BY <1>2 DEF StartWatchdog
<1>3. CASE OpenMotor
  BY <1>3 DEF OpenMotor
<1>4. CASE StartMcu
  BY <1>4 DEF StartMcu
<1>5. CASE McuReady
  BY <1>5 DEF McuReady
<1>6. CASE McuNotReady
  BY <1>6 DEF McuNotReady
<1>7. CASE McuGivenUp
  BY <1>7 DEF McuGivenUp
<1>8. CASE Check("ready_check", "synchronizing", "ready_set")
  BY <1>8 DEF Check
<1>9. CASE Set("ready_set", "read_only_ready", "ready_publish")
  BY <1>9 DEF Set
<1>10. CASE Publish("ready_publish", "read_only_ready", "lds")
  BY <1>10 DEF Publish
<1>11. CASE StartLds
  BY <1>11 DEF StartLds
<1>12. CASE Check("operational_check", "read_only_ready", "operational_set")
  BY <1>12 DEF Check
<1>13. CASE Set("operational_set", "operational", "operational_publish")
  BY <1>13 DEF Set
<1>14. CASE Publish("operational_publish", "operational", "prepare")
  BY <1>14 DEF Publish
<1>15. CASE Prepare
  BY <1>15 DEF Prepare
<1>16. CASE Set("stop_set", "stopping", "stop_publish")
  BY <1>16 DEF Set
<1>17. CASE Publish("stop_publish", "stopping", "flag")
  BY <1>17 DEF Publish
<1>18. QED
  BY <1>1, <1>2, <1>3, <1>4, <1>5, <1>6, <1>7, <1>8, <1>9, <1>10, <1>11, <1>12, <1>13,
     <1>14, <1>15, <1>16, <1>17 DEF InitializeSteps

\* ... and the places, states and phases what they should be.
LEMMA InitializePlaces == TypeOK /\ InitializeSteps => PlacesOK'
<1> SUFFICES ASSUME TypeOK, InitializeSteps PROVE PlacesOK'
  OBVIOUS
<1> USE DEF TypeOK, Session!SessionTypeOK, PlacesOK, States, StartSteps, ClientSteps,
   StopSteps, Threads, lifeVars, callVars, mcuVars, lidarVars, Goto, StartFails,
   EnterShutdown, Proceed, StopMotor
<1>1. CASE OpenFails
  BY <1>1 DEF OpenFails
<1>2. CASE StartWatchdog
  BY <1>2 DEF StartWatchdog
<1>3. CASE OpenMotor
  BY <1>3 DEF OpenMotor
<1>4. CASE StartMcu
  BY <1>4 DEF StartMcu
<1>5. CASE McuReady
  BY <1>5 DEF McuReady
<1>6. CASE McuNotReady
  BY <1>6 DEF McuNotReady
<1>7. CASE McuGivenUp
  BY <1>7 DEF McuGivenUp
<1>8. CASE Check("ready_check", "synchronizing", "ready_set")
  BY <1>8 DEF Check
<1>9. CASE Set("ready_set", "read_only_ready", "ready_publish")
  BY <1>9 DEF Set
<1>10. CASE Publish("ready_publish", "read_only_ready", "lds")
  BY <1>10 DEF Publish
<1>11. CASE StartLds
  BY <1>11 DEF StartLds
<1>12. CASE Check("operational_check", "read_only_ready", "operational_set")
  BY <1>12 DEF Check
<1>13. CASE Set("operational_set", "operational", "operational_publish")
  BY <1>13 DEF Set
<1>14. CASE Publish("operational_publish", "operational", "prepare")
  BY <1>14 DEF Publish
<1>15. CASE Prepare
  BY <1>15 DEF Prepare
<1>16. CASE Set("stop_set", "stopping", "stop_publish")
  BY <1>16 DEF Set
<1>17. CASE Publish("stop_publish", "stopping", "flag")
  BY <1>17 DEF Publish
<1>18. QED
  BY <1>1, <1>2, <1>3, <1>4, <1>5, <1>6, <1>7, <1>8, <1>9, <1>10, <1>11, <1>12, <1>13,
     <1>14, <1>15, <1>16, <1>17 DEF InitializeSteps

\* The steps of shutdown_all keep the flags Boolean ...
LEMMA ShutdownFlags == TypeOK /\ ShutdownSteps => (Flags \subseteq BOOLEAN)'
<1> SUFFICES ASSUME TypeOK, ShutdownSteps PROVE (Flags \subseteq BOOLEAN)'
  OBVIOUS
<1> USE DEF TypeOK, Session!SessionTypeOK, Flags, States, StartSteps, ClientSteps,
   StopSteps, Threads, lifeVars, callVars, mcuVars, lidarVars, Goto, StartFails,
   EnterShutdown, Proceed, StopMotor
<1>1. CASE EmergencyStop
  BY <1>1 DEF EmergencyStop
<1>2. CASE StopLidar
  BY <1>2 DEF StopLidar
<1>3. CASE RestoreCharging
  BY <1>3 DEF RestoreCharging
<1>4. CASE ChargingRestored
  BY <1>4 DEF ChargingRestored
<1>5. CASE StopCheck
  BY <1>5 DEF StopCheck
<1>6. CASE RaiseFlag
  BY <1>6 DEF RaiseFlag
<1>7. CASE Join("lds", "join_lds", "join_mcu")
  BY <1>7 DEF Join
<1>8. CASE Join("mcu", "join_mcu", "disarm")
  BY <1>8 DEF Join
<1>9. CASE Disarm
  BY <1>9 DEF Disarm
<1>10. CASE Join("watchdog", "join_watchdog", "end")
  BY <1>10 DEF Join
<1>11. CASE StopEnds
  BY <1>11 DEF StopEnds
<1>12. QED
  BY <1>1, <1>2, <1>3, <1>4, <1>5, <1>6, <1>7, <1>8, <1>9, <1>10, <1>11 DEF ShutdownSteps

\* ... and the places, states and phases what they should be.
LEMMA ShutdownPlaces == TypeOK /\ ShutdownSteps => PlacesOK'
<1> SUFFICES ASSUME TypeOK, ShutdownSteps PROVE PlacesOK'
  OBVIOUS
<1> USE DEF TypeOK, Session!SessionTypeOK, PlacesOK, States, StartSteps, ClientSteps,
   StopSteps, Threads, lifeVars, callVars, mcuVars, lidarVars, Goto, StartFails,
   EnterShutdown, Proceed, StopMotor
<1>1. CASE EmergencyStop
  BY <1>1 DEF EmergencyStop
<1>2. CASE StopLidar
  BY <1>2 DEF StopLidar
<1>3. CASE RestoreCharging
  BY <1>3 DEF RestoreCharging
<1>4. CASE ChargingRestored
  BY <1>4 DEF ChargingRestored
<1>5. CASE StopCheck
  BY <1>5 DEF StopCheck
<1>6. CASE RaiseFlag
  BY <1>6 DEF RaiseFlag
<1>7. CASE Join("lds", "join_lds", "join_mcu")
  BY <1>7 DEF Join
<1>8. CASE Join("mcu", "join_mcu", "disarm")
  BY <1>8 DEF Join
<1>9. CASE Disarm
  BY <1>9 DEF Disarm
<1>10. CASE Join("watchdog", "join_watchdog", "end")
  BY <1>10 DEF Join
<1>11. CASE StopEnds
  BY <1>11 DEF StopEnds
<1>12. QED
  BY <1>1, <1>2, <1>3, <1>4, <1>5, <1>6, <1>7, <1>8, <1>9, <1>10, <1>11 DEF ShutdownSteps

\* The client's commands keep the flags Boolean ...
LEMMA ClientFlags == TypeOK /\ (Client \/ StartLidar \/ Charging) => (Flags \subseteq BOOLEAN)'
<1> SUFFICES ASSUME TypeOK, Client \/ StartLidar \/ Charging PROVE (Flags \subseteq BOOLEAN)'
  OBVIOUS
<1> USE DEF TypeOK, Session!SessionTypeOK, Flags, States, StartSteps, ClientSteps,
   StopSteps, Threads, lifeVars, callVars, mcuVars, lidarVars, Goto, StartFails,
   EnterShutdown, Proceed, StopMotor
<1>1. CASE Initialize
  BY <1>1 DEF Initialize
<1>2. CASE Shutdown
  BY <1>2 DEF Shutdown
<1>3. CASE LidarOn
  BY <1>3 DEF LidarOn
<1>4. CASE LidarOff
  BY <1>4 DEF LidarOff
<1>5. CASE Drive
  BY <1>5 DEF Drive
<1>6. CASE ChargingOff
  BY <1>6 DEF ChargingOff
<1>7. CASE ChargingOn
  BY <1>7 DEF ChargingOn
<1>8. CASE StartLidar
  BY <1>8 DEF StartLidar
<1>9. CASE Charging
  BY <1>9 DEF Charging
<1>10. QED
  BY <1>1, <1>2, <1>3, <1>4, <1>5, <1>6, <1>7, <1>8, <1>9 DEF Client

\* ... and the places, states and phases what they should be.
LEMMA ClientPlaces == TypeOK /\ (Client \/ StartLidar \/ Charging) => PlacesOK'
<1> SUFFICES ASSUME TypeOK, Client \/ StartLidar \/ Charging PROVE PlacesOK'
  OBVIOUS
<1> USE DEF TypeOK, Session!SessionTypeOK, PlacesOK, States, StartSteps, ClientSteps,
   StopSteps, Threads, lifeVars, callVars, mcuVars, lidarVars, Goto, StartFails,
   EnterShutdown, Proceed, StopMotor
<1>1. CASE Initialize
  BY <1>1 DEF Initialize
<1>2. CASE Shutdown
  BY <1>2 DEF Shutdown
<1>3. CASE LidarOn
  BY <1>3 DEF LidarOn
<1>4. CASE LidarOff
  BY <1>4 DEF LidarOff
<1>5. CASE Drive
  BY <1>5 DEF Drive
<1>6. CASE ChargingOff
  BY <1>6 DEF ChargingOff
<1>7. CASE ChargingOn
  BY <1>7 DEF ChargingOn
<1>8. CASE StartLidar
  BY <1>8 DEF StartLidar
<1>9. CASE Charging
  BY <1>9 DEF Charging
<1>10. QED
  BY <1>1, <1>2, <1>3, <1>4, <1>5, <1>6, <1>7, <1>8, <1>9 DEF Client

\* The workers' steps keep the flags Boolean ...
LEMMA WorkerFlags == TypeOK /\ Workers => (Flags \subseteq BOOLEAN)'
<1> SUFFICES ASSUME TypeOK, Workers PROVE (Flags \subseteq BOOLEAN)'
  OBVIOUS
<1> USE DEF TypeOK, Session!SessionTypeOK, Flags, States, StartSteps, ClientSteps,
   StopSteps, Threads, lifeVars, callVars, mcuVars, lidarVars, Goto, StartFails,
   EnterShutdown, Proceed, StopMotor
<1>1. CASE \E t \in Threads : ThreadEnds(t)
  BY <1>1 DEF ThreadEnds
<1>2. CASE \E t \in Threads : ThreadFails(t)
  BY <1>2 DEF ThreadFails
<1>3. CASE \E t \in Threads : FaultPublished(t)
  BY <1>3 DEF FaultPublished
<1>4. CASE SessionRuns /\ SessionLive
  BY <1>4 DEF SessionRuns, SessionLive, Session!Synchronize
<1>5. CASE SessionRuns /\ SessionActs
  BY <1>5 DEF SessionRuns, SessionActs, Session!Actuate
<1>6. CASE SessionRuns /\ \E e \in BOOLEAN : SessionEnds(e)
  BY <1>6 DEF SessionRuns, SessionEnds, Session!Finish
<1>7. CASE SessionRuns /\ SessionStopped
  BY <1>7 DEF SessionRuns, SessionStopped, Session!StopSucceeds, Session!StopFails
<1>8. CASE SessionCloses
  BY <1>8 DEF SessionCloses, Session!Close
<1>9. CASE DockReported
  BY <1>9 DEF DockReported
<1>10. QED
  BY <1>1, <1>2, <1>3, <1>4, <1>5, <1>6, <1>7, <1>8, <1>9 DEF Workers, SessionRuns

\* ... and the places, states and phases what they should be.
LEMMA WorkerPlaces == TypeOK /\ Workers => PlacesOK'
<1> SUFFICES ASSUME TypeOK, Workers PROVE PlacesOK'
  OBVIOUS
<1> USE DEF TypeOK, Session!SessionTypeOK, PlacesOK, States, StartSteps, ClientSteps,
   StopSteps, Threads, lifeVars, callVars, mcuVars, lidarVars, Goto, StartFails,
   EnterShutdown, Proceed, StopMotor
<1>1. CASE \E t \in Threads : ThreadEnds(t)
  BY <1>1 DEF ThreadEnds
<1>2. CASE \E t \in Threads : ThreadFails(t)
  BY <1>2 DEF ThreadFails
<1>3. CASE \E t \in Threads : FaultPublished(t)
  BY <1>3 DEF FaultPublished
<1>4. CASE SessionRuns /\ SessionLive
  BY <1>4 DEF SessionRuns, SessionLive, Session!Synchronize
<1>5. CASE SessionRuns /\ SessionActs
  BY <1>5 DEF SessionRuns, SessionActs, Session!Actuate
<1>6. CASE SessionRuns /\ \E e \in BOOLEAN : SessionEnds(e)
  BY <1>6 DEF SessionRuns, SessionEnds, Session!Finish
<1>7. CASE SessionRuns /\ SessionStopped
  <2>1. CASE Session!StopSucceeds
    BY <1>7, <2>1 DEF SessionRuns, SessionStopped, Session!StopSucceeds
  <2>2. CASE Session!StopFails
    BY <1>7, <2>2 DEF SessionRuns, SessionStopped, Session!StopFails
  <2>3. QED
    BY <1>7, <2>1, <2>2 DEF SessionStopped
<1>8. CASE SessionCloses
  BY <1>8 DEF SessionCloses, Session!Close
<1>9. CASE DockReported
  BY <1>9 DEF DockReported
<1>10. QED
  BY <1>1, <1>2, <1>3, <1>4, <1>5, <1>6, <1>7, <1>8, <1>9 DEF Workers, SessionRuns

\* States, flags, steps, threads and the session keep their types; no client
\* command runs on a driver that is not initialized, no initialize on one that is.
THEOREM TypeCorrect == Spec => []TypeOK
<1>1. Init => TypeOK
  BY DEF Init, TypeOK, Session!SessionTypeOK, States, StartSteps, ClientSteps, StopSteps, Threads
<1>2. TypeOK /\ [Next]_vars => TypeOK'
  <2>1. TypeOK /\ UNCHANGED vars => TypeOK'
    BY DEF TypeOK, Session!SessionTypeOK, vars, lifeVars, callVars, mcuVars, lidarVars
  <2>2. TypeOK /\ Next => (Flags \subseteq BOOLEAN)'
    BY InitializeFlags, ShutdownFlags, ClientFlags, WorkerFlags DEF Next, CallSteps
  <2>3. TypeOK /\ Next => PlacesOK'
    BY InitializePlaces, ShutdownPlaces, ClientPlaces, WorkerPlaces DEF Next, CallSteps
  <2>4. TypeOK' <=> (Flags \subseteq BOOLEAN)' /\ PlacesOK'
    BY DEF TypeOK, PlacesOK, Flags, Session!SessionTypeOK
  <2>5. QED
    BY <2>1, <2>2, <2>3, <2>4
<1>3. QED
  BY <1>1, <1>2, PTL DEF Spec

(***************************************************************************)
(* The inductive invariant, one action at a time.                          *)
(***************************************************************************)

\* The steps of initialize, a failed one's included, keep the driver's invariant ...
LEMMA InitializeInv == TypeOK /\ DriverInv /\ InitializeSteps => DriverInv'
<1> SUFFICES ASSUME TypeOK, DriverInv, InitializeSteps PROVE DriverInv'
  OBVIOUS
<1> USE DEF TypeOK, Session!SessionTypeOK, States, StartSteps, ClientSteps, StopSteps,
   Threads, lifeVars, callVars, mcuVars, lidarVars, Goto, StartFails, EnterShutdown,
   Proceed, StopMotor, DriverInv, McuInv, OwnedInv, CleanInv, StateInv, StillInv,
   ReportInv, AllJoined, Pending, Down, Up, LdsJoined, McuJoined, Disarmed, ChargeRestored,
   LidarStopped, Beginning, Raised, Announcing, Stopping, BeforeLds, Over
<1>1. CASE OpenFails
  BY <1>1 DEF OpenFails
<1>2. CASE StartWatchdog
  BY <1>2 DEF StartWatchdog
<1>3. CASE OpenMotor
  BY <1>3 DEF OpenMotor
<1>4. CASE StartMcu
  BY <1>4 DEF StartMcu
<1>5. CASE McuReady
  BY <1>5 DEF McuReady
<1>6. CASE McuNotReady
  BY <1>6 DEF McuNotReady
<1>7. CASE McuGivenUp
  BY <1>7 DEF McuGivenUp
<1>8. CASE Check("ready_check", "synchronizing", "ready_set")
  BY <1>8 DEF Check
<1>9. CASE Set("ready_set", "read_only_ready", "ready_publish")
  BY <1>9 DEF Set
<1>10. CASE Publish("ready_publish", "read_only_ready", "lds")
  BY <1>10 DEF Publish
<1>11. CASE StartLds
  BY <1>11 DEF StartLds
<1>12. CASE Check("operational_check", "read_only_ready", "operational_set")
  BY <1>12 DEF Check
<1>13. CASE Set("operational_set", "operational", "operational_publish")
  BY <1>13 DEF Set
<1>14. CASE Publish("operational_publish", "operational", "prepare")
  <2>1. initialized' = TRUE
    BY <1>14 DEF Publish
  <2>2. QED
    BY <1>14, <2>1 DEF Publish
<1>15. CASE Prepare
  BY <1>15 DEF Prepare
<1>16. CASE Set("stop_set", "stopping", "stop_publish")
  BY <1>16 DEF Set
<1>17. CASE Publish("stop_publish", "stopping", "flag")
  <2>1. initialized' = initialized
    BY <1>17 DEF Publish
  <2>2. QED
    BY <1>17, <2>1 DEF Publish
<1>18. QED
  BY <1>1, <1>2, <1>3, <1>4, <1>5, <1>6, <1>7, <1>8, <1>9, <1>10, <1>11, <1>12, <1>13,
     <1>14, <1>15, <1>16, <1>17 DEF InitializeSteps

\* ... so do those of shutdown_all ...
LEMMA ShutdownInv == TypeOK /\ DriverInv /\ ShutdownSteps => DriverInv'
<1> SUFFICES ASSUME TypeOK, DriverInv, ShutdownSteps PROVE DriverInv'
  OBVIOUS
<1> USE DEF TypeOK, Session!SessionTypeOK, States, StartSteps, ClientSteps, StopSteps,
   Threads, lifeVars, callVars, mcuVars, lidarVars, Goto, StartFails, EnterShutdown,
   Proceed, StopMotor, DriverInv, McuInv, OwnedInv, CleanInv, StateInv, StillInv,
   ReportInv, AllJoined, Pending, Down, Up, LdsJoined, McuJoined, Disarmed, ChargeRestored,
   LidarStopped, Beginning, Raised, Announcing, Stopping, BeforeLds, Over
<1>1. CASE EmergencyStop
  BY <1>1 DEF EmergencyStop
<1>2. CASE StopLidar
  BY <1>2 DEF StopLidar
<1>3. CASE RestoreCharging
  BY <1>3 DEF RestoreCharging
<1>4. CASE ChargingRestored
  BY <1>4 DEF ChargingRestored
<1>5. CASE StopCheck
  BY <1>5 DEF StopCheck
<1>6. CASE RaiseFlag
  BY <1>6 DEF RaiseFlag
<1>7. CASE Join("lds", "join_lds", "join_mcu")
  BY <1>7 DEF Join
<1>8. CASE Join("mcu", "join_mcu", "disarm")
  BY <1>8 DEF Join
<1>9. CASE Disarm
  BY <1>9 DEF Disarm
<1>10. CASE Join("watchdog", "join_watchdog", "end")
  BY <1>10 DEF Join
<1>11. CASE StopEnds
  BY <1>11 DEF StopEnds
<1>12. QED
  BY <1>1, <1>2, <1>3, <1>4, <1>5, <1>6, <1>7, <1>8, <1>9, <1>10, <1>11 DEF ShutdownSteps

\* ... what clients ask for ...
LEMMA ClientInv == TypeOK /\ DriverInv /\ (Client \/ StartLidar \/ Charging) => DriverInv'
<1> SUFFICES ASSUME TypeOK, DriverInv, Client \/ StartLidar \/ Charging PROVE DriverInv'
  OBVIOUS
<1> USE DEF TypeOK, Session!SessionTypeOK, States, StartSteps, ClientSteps, StopSteps,
   Threads, lifeVars, callVars, mcuVars, lidarVars, Goto, StartFails, EnterShutdown,
   Proceed, StopMotor, DriverInv, McuInv, OwnedInv, CleanInv, StateInv, StillInv,
   ReportInv, AllJoined, Pending, Down, Up, LdsJoined, McuJoined, Disarmed, ChargeRestored,
   LidarStopped, Beginning, Raised, Announcing, Stopping, BeforeLds, Over
<1>1. CASE Initialize
  BY <1>1 DEF Initialize
<1>2. CASE Shutdown
  BY <1>2 DEF Shutdown
<1>3. CASE LidarOn
  BY <1>3 DEF LidarOn
<1>4. CASE LidarOff
  BY <1>4 DEF LidarOff
<1>5. CASE Drive
  BY <1>5 DEF Drive
<1>6. CASE ChargingOff
  BY <1>6 DEF ChargingOff
<1>7. CASE ChargingOn
  BY <1>7 DEF ChargingOn
<1>8. CASE StartLidar
  BY <1>8 DEF StartLidar
<1>9. CASE Charging
  BY <1>9 DEF Charging
<1>10. QED
  BY <1>1, <1>2, <1>3, <1>4, <1>5, <1>6, <1>7, <1>8, <1>9 DEF Client

\* ... and the workers, whatever the call is doing.
LEMMA WorkerInv == TypeOK /\ DriverInv /\ Workers => DriverInv'
<1> SUFFICES ASSUME TypeOK, DriverInv, Workers PROVE DriverInv'
  OBVIOUS
<1> USE DEF TypeOK, Session!SessionTypeOK, States, StartSteps, ClientSteps, StopSteps,
   Threads, lifeVars, callVars, mcuVars, lidarVars, Goto, StartFails, EnterShutdown,
   Proceed, StopMotor, DriverInv, McuInv, OwnedInv, CleanInv, StateInv, StillInv,
   ReportInv, AllJoined, Pending, Down, Up, LdsJoined, McuJoined, Disarmed, ChargeRestored,
   LidarStopped, Beginning, Raised, Announcing, Stopping, BeforeLds, Over
<1>1. CASE \E t \in Threads : ThreadEnds(t)
  BY <1>1 DEF ThreadEnds
<1>2. CASE \E t \in Threads : ThreadFails(t)
  BY <1>2 DEF ThreadFails
<1>3. CASE \E t \in Threads : FaultPublished(t)
  BY <1>3 DEF FaultPublished
<1>4. CASE SessionRuns /\ SessionLive
  BY <1>4 DEF SessionRuns, SessionLive, Session!Synchronize
<1>5. CASE SessionRuns /\ SessionActs
  BY <1>5 DEF SessionRuns, SessionActs, Session!Actuate
<1>6. CASE SessionRuns /\ \E e \in BOOLEAN : SessionEnds(e)
  BY <1>6 DEF SessionRuns, SessionEnds, Session!Finish
<1>7. CASE SessionRuns /\ SessionStopped
  <2>1. CASE Session!StopSucceeds
    BY <1>7, <2>1 DEF SessionRuns, SessionStopped, Session!StopSucceeds
  <2>2. CASE Session!StopFails
    BY <1>7, <2>2 DEF SessionRuns, SessionStopped, Session!StopFails
  <2>3. QED
    BY <1>7, <2>1, <2>2 DEF SessionStopped
<1>8. CASE SessionCloses
  BY <1>8 DEF SessionCloses, Session!Close
<1>9. CASE DockReported
  BY <1>9 DEF DockReported
<1>10. QED
  BY <1>1, <1>2, <1>3, <1>4, <1>5, <1>6, <1>7, <1>8, <1>9 DEF Workers, SessionRuns

\* What initialize and shutdown_all rely on holds of every driver.
THEOREM DriverConsistent == Spec => []DriverInv
<1>1. Init => DriverInv
  BY DEF Init, DriverInv, McuInv, OwnedInv, CleanInv, StateInv, StillInv, ReportInv, AllJoined,
     Pending, Down, Up, Threads, StartSteps, ClientSteps, StopSteps, LdsJoined, McuJoined,
     Disarmed, ChargeRestored, LidarStopped, Beginning, Raised, Announcing, Stopping, BeforeLds
<1>2. TypeOK /\ DriverInv /\ [Next]_vars => DriverInv'
  <2>1. DriverInv /\ UNCHANGED vars => DriverInv'
    BY DEF DriverInv, McuInv, OwnedInv, CleanInv, StateInv, StillInv, ReportInv, AllJoined,
       Pending, Down, Up, vars, lifeVars, callVars, mcuVars, lidarVars
  <2>2. QED
    BY <2>1, InitializeInv, ShutdownInv, ClientInv, WorkerInv DEF Next, CallSteps
<1>3. QED
  BY <1>1, <1>2, TypeCorrect, PTL DEF Spec

\* No call leaves a worker or the LDS motor behind a driver that is not initialized;
\* one that says it is stopped has nothing moving, and the charger on again.
THEOREM StoppedIsClean == Spec => []StoppedMeansClean
<1>1. DriverInv => StoppedMeansClean
  BY DEF DriverInv, OwnedInv, CleanInv, StoppedMeansClean, Down, AllJoined
<1>2. QED
  BY <1>1, DriverConsistent, PTL

\* Of a driver that is shut down the lifecycle reports every failure of a worker,
\* and driver_status is the lifecycle's state.
THEOREM FailuresReported == Spec => []FailureIsReported
<1>1. DriverInv => FailureIsReported
  BY DEF DriverInv, OwnedInv, ReportInv, FailureIsReported, Down, AllJoined, Pending,
     StopSteps, Announcing
<1>2. QED
  BY <1>1, DriverConsistent, PTL

\* An MCU session starts with every actuator and the LDS motor still.
THEOREM SessionsStartStill == Spec => SessionStartsStill
<1>1. TypeOK /\ DriverInv /\ [Next]_vars
        => [phase = "over" /\ phase' = "starting" => ~moving /\ ~motorOn]_phase
  <2> SUFFICES ASSUME TypeOK, DriverInv, Next, phase = "over", phase' = "starting"
               PROVE  ~moving /\ ~motorOn
    BY DEF vars, mcuVars
  <2> USE DEF lifeVars, mcuVars
  <2>1. CASE InitializeSteps
    <3>1. StartMcu
      BY <2>1 DEF InitializeSteps, OpenFails, StartWatchdog, OpenMotor, McuReady, McuNotReady,
         McuGivenUp, Check, Set, Publish, StartLds, Prepare
    <3>2. QED
      BY <3>1 DEF StartMcu, DriverInv, StillInv, Beginning
  <2>2. ~ShutdownSteps
    BY DEF ShutdownSteps, EmergencyStop, StopLidar, RestoreCharging, ChargingRestored,
       StopCheck, RaiseFlag, Join, Disarm, StopEnds
  <2>3. ~(StartLidar \/ Charging \/ Client)
    BY DEF StartLidar, Charging, Client, Initialize, Shutdown, LidarOn, LidarOff, Drive,
       ChargingOff, ChargingOn
  <2>4. ~Workers
    BY DEF Workers, ThreadEnds, ThreadFails, FaultPublished, SessionRuns, SessionLive,
       SessionActs, SessionEnds, SessionStopped, SessionCloses, DockReported,
       Session!Synchronize, Session!Actuate, Session!Finish, Session!StopSucceeds,
       Session!StopFails, Session!Close
  <2>5. QED
    BY <2>1, <2>2, <2>3, <2>4 DEF Next, CallSteps
<1>2. QED
  BY <1>1, TypeCorrect, DriverConsistent, PTL DEF Spec, SessionStartsStill
=============================================================================
