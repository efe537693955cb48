----------------------------- MODULE S5MaxDriver -----------------------------
(***************************************************************************)
(* The S5 Max driver as a whole (sangamio/src/devices/roborock_s5max/      *)
(* mod.rs): initialize, the lidar and charger commands and shutdown_all,   *)
(* run by whoever holds the driver mutex, next to its three worker threads *)
(* (MCU session, LDS reader, hardware watchdog), which share with it the   *)
(* lifecycle (lifecycle.rs) and one shutdown flag.  The MCU session is the *)
(* abstract one of S5MaxSession, which S5MaxMcu implements.                *)
(*                                                                         *)
(* A lifecycle transition is two lock acquisitions and a publication under *)
(* a third lock, so it is three steps here, with the threads in between.   *)
(***************************************************************************)
EXTENDS Naturals

CONSTANT AllowActuation     \* the configuration's allow_actuation

ASSUME ActuationAssumption == AllowActuation \in BOOLEAN

VARIABLES
  \* --- lifecycle.rs and the flag
  state,        \* Lifecycle.inner.state
  published,    \* the state in the driver_status sensor group
  shutdown,     \* the shutdown flag
  \* --- the thread inside the driver mutex
  step,         \* where it is
  faulted,      \* shutdown_all: the driver was in Fault when it began
  error,        \* shutdown_all: first_error is set
  \* --- the driver's fields
  initialized,
  restore,      \* restore_charging_on_shutdown
  ready,        \* operational_subsystems_ready
  motorHeld,    \* lds_motor is Some
  \* --- the workers
  thread,       \* what has become of each, until it is joined
  told,         \* what the MCU session's startup_sender was told
  phase, moving, failed,   \* the MCU session (S5MaxSession)
  \* --- the devices
  motorOn,      \* the LDS motor turns
  running,      \* LdsMotorGuard.running
  dock,         \* the dock state last reported
  \* --- history
  broken        \* some worker ended with an error since initialize began

Session == INSTANCE S5MaxSession

lifeVars == <<state, published, shutdown>>
callVars == <<step, faulted, error>>
mcuVars  == <<told, phase, moving, failed>>
lidarVars == <<motorOn, running>>
vars == <<lifeVars, callVars, initialized, restore, ready, motorHeld, thread,
          mcuVars, lidarVars, dock, broken>>

Threads == {"mcu", "lds", "watchdog"}

StartSteps == {"watchdog", "motor", "mcu", "mcu_wait", "mcu_join",
               "ready_check", "ready_set", "ready_publish", "lds",
               "operational_check", "operational_set", "operational_publish"}
ClientSteps == {"prepare", "lidar", "charging"}
StopSteps == {"estop", "lidar_stop", "restore", "restoring", "stop_check", "stop_set",
              "stop_publish", "flag", "join_lds", "join_mcu", "disarm",
              "join_watchdog", "end"}

States == {"created", "synchronizing", "read_only_ready", "operational",
           "stopping", "stopped", "fault"}

TypeOK ==
  /\ state \in States /\ published \in States /\ shutdown \in BOOLEAN
  /\ step \in StartSteps \cup ClientSteps \cup StopSteps \cup {"idle"}
  /\ step \in StartSteps => ~initialized
  /\ step \in ClientSteps => initialized
  /\ faulted \in BOOLEAN /\ error \in BOOLEAN
  /\ initialized \in BOOLEAN /\ restore \in BOOLEAN /\ ready \in BOOLEAN
  /\ motorHeld \in BOOLEAN
  /\ thread \in [Threads -> {"none", "running", "faulted", "ended", "failed"}]
  /\ told \in {"waiting", "ok", "failed"}
  /\ Session!SessionTypeOK
  /\ motorOn \in BOOLEAN /\ running \in BOOLEAN
  /\ dock \in {"unknown", "away", "charging", "docked"}
  /\ broken \in BOOLEAN

Init ==
  /\ state = "created" /\ published = "created" /\ shutdown = FALSE
  /\ step = "idle" /\ faulted = FALSE /\ error = FALSE
  /\ initialized = FALSE /\ restore = FALSE /\ ready = FALSE /\ motorHeld = FALSE
  /\ thread = [t \in Threads |-> "none"] /\ told = "waiting"
  /\ phase = "over" /\ moving = FALSE /\ failed = FALSE
  /\ motorOn = FALSE /\ running = FALSE /\ dock = "unknown"
  /\ broken = FALSE

Over(t) == thread[t] \in {"ended", "failed"}

-----------------------------------------------------------------------------
(* shutdown_all, called by the client, by a failing initialize, by Drop.   *)

EnterShutdown(f) ==
  /\ faulted' = f /\ error' = FALSE
  /\ step' = IF initialized THEN "estop" ELSE "stop_check"

\* A command reaches the MCU and is answered only by a live session; it may be
\* refused, lost or answered too late by any.
Answered(ok) == ok => phase = "live"

Shutdown ==
  /\ step = "idle"
  /\ EnterShutdown(state = "fault")
  /\ UNCHANGED <<lifeVars, initialized, restore, ready, motorHeld, thread, mcuVars,
                 lidarVars, dock, broken>>

\* The step goes on to `next`, with or without an error to remember.
Proceed(next, ok) == step' = next /\ error' = (error \/ ~ok) /\ UNCHANGED faulted

EmergencyStop ==
  /\ step = "estop"
  /\ \E ok \in BOOLEAN : Answered(ok) /\ Proceed("lidar_stop", ok)
  /\ UNCHANGED <<lifeVars, initialized, restore, ready, motorHeld, thread, mcuVars,
                 lidarVars, dock, broken>>

\* LdsMotorGuard::stop: the flag first, then the ioctl.
StopMotor(ok) == running' = FALSE /\ motorOn' = (motorOn /\ ~ok)

StopLidar ==
  /\ step = "lidar_stop"
  /\ \E ok \in BOOLEAN : StopMotor(ok) /\ Proceed("restore", ok)
  /\ UNCHANGED <<lifeVars, initialized, restore, ready, motorHeld, thread, mcuVars,
                 dock, broken>>

RestoreCharging ==
  /\ step = "restore"
  /\ IF restore /\ ~faulted
     THEN \E ok \in BOOLEAN :
            Answered(ok) /\ Proceed(IF ok THEN "restoring" ELSE "stop_check", ok)
     ELSE Proceed("stop_check", TRUE)
  /\ UNCHANGED <<lifeVars, initialized, restore, ready, motorHeld, thread, mcuVars,
                 lidarVars, dock, broken>>

\* wait_for_charging: the dock reports charging, or two seconds are over.
ChargingRestored ==
  /\ step = "restoring"
  /\ \/ dock = "charging" /\ restore' = FALSE /\ Proceed("stop_check", TRUE)
     \/ UNCHANGED restore /\ Proceed("stop_check", FALSE)
  /\ UNCHANGED <<lifeVars, initialized, ready, motorHeld, thread, mcuVars,
                 lidarVars, dock, broken>>

\* begin_stopping: the state is read here and set in the next step.
StopCheck ==
  /\ step = "stop_check"
  /\ Proceed(IF state \in {"synchronizing", "read_only_ready", "operational"}
             THEN "stop_set" ELSE "flag", TRUE)
  /\ UNCHANGED <<lifeVars, initialized, restore, ready, motorHeld, thread, mcuVars,
                 lidarVars, dock, broken>>

\* Mutant of RaiseFlag: the workers are joined before they are told to stop.
RaiseFlagLate ==
  /\ step = "flag" /\ Proceed("join_lds", TRUE)
  /\ UNCHANGED <<lifeVars, initialized, restore, ready, motorHeld, thread,
                 mcuVars, lidarVars, dock, broken>>

RaiseFlag ==
  /\ step = "flag" /\ Proceed("join_lds", TRUE)
  /\ shutdown' = TRUE
  /\ UNCHANGED <<state, published, initialized, restore, ready, motorHeld, thread,
                 mcuVars, lidarVars, dock, broken>>

\* Mutant of Join: the result of the thread is not looked at.
JoinAny(t, here, next) ==
  /\ step = here
  /\ thread[t] = "none" \/ Over(t)
  /\ Proceed(next, TRUE)
  /\ thread' = [thread EXCEPT ![t] = "none"]
  /\ UNCHANGED <<lifeVars, initialized, restore, ready, motorHeld, mcuVars,
                 lidarVars, dock, broken>>

\* A worker is taken out of its field and joined; its error is one of the call.
Join(t, here, next) ==
  /\ step = here
  /\ thread[t] = "none" \/ Over(t)
  /\ Proceed(next, thread[t] # "failed")
  /\ thread' = [thread EXCEPT ![t] = "none"]
  /\ UNCHANGED <<lifeVars, initialized, restore, ready, motorHeld, mcuVars,
                 lidarVars, dock, broken>>

\* stop_and_disarm, and the stop of the guard's Drop when that failed.
Disarm ==
  /\ step = "disarm"
  /\ IF motorHeld
     THEN \/ StopMotor(TRUE) /\ Proceed("join_watchdog", TRUE)
          \/ \E ok \in BOOLEAN : StopMotor(ok) /\ Proceed("join_watchdog", FALSE)
     ELSE Proceed("join_watchdog", TRUE) /\ UNCHANGED lidarVars
  /\ motorHeld' = FALSE
  /\ UNCHANGED <<lifeVars, initialized, restore, ready, thread, mcuVars, dock, broken>>

\* Mutant of StopEnds: the error is returned but is no Fault.
StopEndsUnfaulted ==
  /\ step = "end" /\ step' = "idle" /\ UNCHANGED <<faulted, error>>
  /\ initialized' = FALSE /\ ready' = FALSE
  /\ IF ~error /\ ~faulted /\ state \in {"created", "stopped", "stopping"}
     THEN state' = "stopped" /\ published' = "stopped"
     ELSE UNCHANGED <<state, published>>
  /\ UNCHANGED <<shutdown, restore, motorHeld, thread, mcuVars, lidarVars, dock, broken>>

\* Every worker is joined: the fault or mark_stopped at the end runs alone.
StopEnds ==
  /\ step = "end" /\ step' = "idle" /\ UNCHANGED <<faulted, error>>
  /\ initialized' = FALSE /\ ready' = FALSE
  /\ IF error
     THEN state' = "fault" /\ published' = "fault"
     ELSE IF ~faulted /\ state \in {"created", "stopped", "stopping"}
          THEN state' = "stopped" /\ published' = "stopped"
          ELSE UNCHANGED <<state, published>>
  /\ UNCHANGED <<shutdown, restore, motorHeld, thread, mcuVars, lidarVars, dock, broken>>

ShutdownSteps ==
  \/ EmergencyStop \/ StopLidar \/ RestoreCharging \/ ChargingRestored
  \/ StopCheck \/ RaiseFlag
  \/ Join("lds", "join_lds", "join_mcu") \/ Join("mcu", "join_mcu", "disarm")
  \/ Disarm \/ Join("watchdog", "join_watchdog", "end") \/ StopEnds

-----------------------------------------------------------------------------
(* initialize.                                                             *)

Goto(next) == step' = next /\ UNCHANGED <<faulted, error>>

\* Mutant of Initialize: a driver in Fault may be started again.
InitializeAfterFault ==
  /\ step = "idle" /\ ~initialized
  /\ state \in {"created", "stopped", "fault"}
  /\ state' = "synchronizing" /\ published' = "synchronizing"
  /\ shutdown' = FALSE /\ ready' = FALSE /\ dock' = "unknown" /\ broken' = FALSE
  /\ Goto("watchdog")
  /\ UNCHANGED <<initialized, restore, motorHeld, thread, mcuVars, lidarVars>>

\* begin_synchronizing: no worker is left that could interfere.
Initialize ==
  /\ step = "idle" /\ ~initialized
  /\ state \in {"created", "stopped"}
  /\ state' = "synchronizing" /\ published' = "synchronizing"
  /\ shutdown' = FALSE /\ ready' = FALSE /\ dock' = "unknown" /\ broken' = FALSE
  /\ Goto("watchdog")
  /\ UNCHANGED <<initialized, restore, motorHeld, thread, mcuVars, lidarVars>>

\* Every error of initialize: fault, then shutdown_all.
StartFails ==
  /\ state' = "fault" /\ published' = "fault"
  /\ EnterShutdown(TRUE)

\* A device cannot be opened, or a thread not be spawned.
OpenFails ==
  /\ step \in {"watchdog", "motor", "mcu", "lds"}
  /\ StartFails
  /\ UNCHANGED <<shutdown, initialized, restore, ready, motorHeld, thread, mcuVars,
                 lidarVars, dock, broken>>

StartWatchdog ==
  /\ step = "watchdog" /\ Goto("motor")
  /\ thread' = [thread EXCEPT !["watchdog"] = "running"]
  /\ UNCHANGED <<lifeVars, initialized, restore, ready, motorHeld, mcuVars, lidarVars,
                 dock, broken>>

\* The motor is owned from here on, never started: a new guard is not running.
OpenMotor ==
  /\ step = "motor" /\ Goto("mcu")
  /\ motorHeld' = TRUE /\ running' = FALSE
  /\ UNCHANGED <<lifeVars, initialized, restore, ready, thread, mcuVars, motorOn, dock,
                 broken>>

StartMcu ==
  /\ step = "mcu" /\ Goto("mcu_wait")
  /\ thread' = [thread EXCEPT !["mcu"] = "running"]
  /\ phase' = "starting" /\ failed' = FALSE /\ told' = "waiting"
  /\ UNCHANGED <<lifeVars, initialized, restore, ready, motorHeld, moving, lidarVars,
                 dock, broken>>

McuReady ==
  /\ step = "mcu_wait" /\ told = "ok"
  /\ Goto("ready_check")
  /\ UNCHANGED <<lifeVars, initialized, restore, ready, motorHeld, thread, mcuVars,
                 lidarVars, dock, broken>>

\* The session says it failed, or says nothing for the startup timeout: the
\* flag, the join, and only then the error.
McuNotReady ==
  /\ step = "mcu_wait" /\ told # "ok"
  /\ shutdown' = TRUE /\ Goto("mcu_join")
  /\ UNCHANGED <<state, published, initialized, restore, ready, motorHeld, thread,
                 mcuVars, lidarVars, dock, broken>>

McuGivenUp ==
  /\ step = "mcu_join" /\ Over("mcu")
  /\ thread' = [thread EXCEPT !["mcu"] = "none"]
  /\ StartFails
  /\ UNCHANGED <<shutdown, initialized, restore, ready, motorHeld, mcuVars, lidarVars,
                 dock, broken>>

\* Lifecycle::transition, first half: the state is read and compared.
Check(here, expected, next) ==
  /\ step = here
  /\ \/ state = expected /\ Goto(next) /\ UNCHANGED <<state, published>>
     \/ state # expected /\ StartFails
  /\ UNCHANGED <<shutdown, initialized, restore, ready, motorHeld, thread, mcuVars,
                 lidarVars, dock, broken>>

\* Lifecycle::set_state: whatever the state is by now.
Set(here, new, next) ==
  /\ step = here /\ Goto(next)
  /\ state' = new
  /\ UNCHANGED <<published, shutdown, initialized, restore, ready, motorHeld, thread,
                 mcuVars, lidarVars, dock, broken>>

\* ... and its publish.  The driver is initialized with its last transition.
Publish(here, new, next) ==
  /\ step = here /\ Goto(next)
  /\ published' = new
  /\ initialized' = (initialized \/ next = "prepare")
  /\ UNCHANGED <<state, shutdown, restore, ready, motorHeld, thread, mcuVars, lidarVars,
                 dock, broken>>

\* Mutant of StartLds: initialized is set before mark_operational.
StartLdsInitialized ==
  /\ step = "lds" /\ Goto("operational_check") /\ initialized' = TRUE
  /\ thread' = [thread EXCEPT !["lds"] = "running"]
  /\ UNCHANGED <<lifeVars, restore, ready, motorHeld, mcuVars, lidarVars, dock, broken>>

StartLds ==
  /\ step = "lds" /\ Goto("operational_check")
  /\ thread' = [thread EXCEPT !["lds"] = "running"]
  /\ UNCHANGED <<lifeVars, initialized, restore, ready, motorHeld, mcuVars, lidarVars,
                 dock, broken>>

\* prepare_operational_subsystems, its commands in one step; ready is a cache.
Prepared == dock = "away" /\ ~restore /\ (ready \/ phase = "live")

\* The last thing initialize does, when undocked and allowed to actuate.
Prepare ==
  /\ step = "prepare"
  /\ \/ /\ AllowActuation /\ dock = "away"
        /\ \/ Prepared /\ ready' = TRUE /\ Goto("idle") /\ UNCHANGED <<state, published>>
           \/ UNCHANGED ready /\ StartFails
     \/ /\ ~AllowActuation \/ dock # "away"
        /\ Goto("idle") /\ UNCHANGED <<ready, state, published>>
  /\ UNCHANGED <<shutdown, initialized, restore, motorHeld, thread, mcuVars, lidarVars,
                 dock, broken>>

InitializeSteps ==
  \/ OpenFails \/ StartWatchdog \/ OpenMotor \/ StartMcu
  \/ McuReady \/ McuNotReady \/ McuGivenUp
  \/ Check("ready_check", "synchronizing", "ready_set")
  \/ Set("ready_set", "read_only_ready", "ready_publish")
  \/ Publish("ready_publish", "read_only_ready", "lds")
  \/ StartLds
  \/ Check("operational_check", "read_only_ready", "operational_set")
  \/ Set("operational_set", "operational", "operational_publish")
  \/ Publish("operational_publish", "operational", "prepare")
  \/ Prepare
  \/ Set("stop_set", "stopping", "stop_publish")
  \/ Publish("stop_publish", "stopping", "flag")

-----------------------------------------------------------------------------
(* The commands of a client that change the driver's own state.            *)

\* nonzero_allowed, but for the age of the reports, which may be too old.
Allowed == AllowActuation /\ state = "operational"

\* set_lidar(true), up to the ioctls.
LidarOn ==
  /\ step = "idle" /\ initialized
  /\ Allowed /\ ~running /\ Prepared
  /\ ready' = TRUE /\ Goto("lidar")
  /\ UNCHANGED <<lifeVars, initialized, restore, motorHeld, thread, mcuVars, lidarVars,
                 dock, broken>>

\* The three ioctls; when one fails the motor is stopped, which may fail too.
StartLidar ==
  /\ step = "lidar" /\ Goto("idle")
  /\ \/ running' = TRUE /\ motorOn' = TRUE
     \/ running' = FALSE /\ motorOn' \in BOOLEAN
  /\ UNCHANGED <<lifeVars, initialized, restore, ready, motorHeld, thread, mcuVars, dock,
                 broken>>

LidarOff ==
  /\ step = "idle" /\ initialized
  /\ \E ok \in BOOLEAN : StopMotor(ok)
  /\ UNCHANGED <<lifeVars, callVars, initialized, restore, ready, motorHeld, thread,
                 mcuVars, dock, broken>>

\* A drive command that is not zero; the rest of it is the session's.
Drive ==
  /\ step = "idle" /\ initialized
  /\ Allowed /\ Prepared
  /\ ready' = TRUE
  /\ UNCHANGED <<lifeVars, callVars, initialized, restore, motorHeld, thread, mcuVars,
                 lidarVars, dock, broken>>

\* set_charging(false): the relay, and the promise to turn it on again when the
\* robot was docked before the command, wherever it is after it.
ChargingOff ==
  /\ step = "idle" /\ initialized
  /\ Allowed /\ phase = "live"
  /\ restore' \in {restore, TRUE}
  /\ UNCHANGED <<lifeVars, callVars, initialized, ready, motorHeld, thread, mcuVars,
                 lidarVars, dock, broken>>

\* set_charging(true): the relay, then the wait for the dock.
ChargingOn ==
  /\ step = "idle" /\ initialized
  /\ Allowed /\ phase = "live"
  /\ Goto("charging")
  /\ UNCHANGED <<lifeVars, initialized, restore, ready, motorHeld, thread, mcuVars,
                 lidarVars, dock, broken>>

Charging ==
  /\ step = "charging" /\ Goto("idle")
  /\ \/ dock = "charging" /\ restore' = FALSE /\ ready' = FALSE
     \/ UNCHANGED <<restore, ready>>
  /\ UNCHANGED <<lifeVars, initialized, motorHeld, thread, mcuVars, lidarVars, dock, broken>>

-----------------------------------------------------------------------------
(* The workers.                                                            *)

\* The LDS reader and the watchdog leave their loops when the flag is up ...
ThreadEnds(t) ==
  /\ t # "mcu" /\ thread[t] = "running" /\ shutdown
  /\ thread' = [thread EXCEPT ![t] = "ended"]
  /\ UNCHANGED <<lifeVars, callVars, initialized, restore, ready, motorHeld, mcuVars,
                 lidarVars, dock, broken>>

\* ... or with an error, which Lifecycle::fault writes into the state ...
ThreadFails(t) ==
  /\ t # "mcu" /\ thread[t] = "running"
  /\ thread' = [thread EXCEPT ![t] = "faulted"]
  /\ state' = "fault" /\ broken' = TRUE
  /\ UNCHANGED <<published, shutdown, callVars, initialized, restore, ready, motorHeld,
                 mcuVars, lidarVars, dock>>

\* ... publishes, and follows up with the flag, after which the thread is over.
FaultPublished(t) ==
  /\ thread[t] = "faulted"
  /\ thread' = [thread EXCEPT ![t] = "failed"]
  /\ published' = "fault" /\ shutdown' = TRUE
  /\ UNCHANGED <<state, callVars, initialized, restore, ready, motorHeld, mcuVars,
                 lidarVars, dock, broken>>

\* The MCU session, with the startup channel and the flag it polls.
SessionLive == Session!Synchronize /\ told' = "ok"
SessionActs == Session!Actuate /\ UNCHANGED told
SessionEnds(e) ==
  /\ e \/ shutdown
  /\ Session!Finish(e)
  /\ told' = IF told = "waiting" THEN "failed" ELSE told
SessionStopped == (Session!StopSucceeds \/ Session!StopFails) /\ UNCHANGED told

SessionRuns ==
  /\ SessionLive \/ SessionActs \/ (\E e \in BOOLEAN : SessionEnds(e)) \/ SessionStopped
  /\ UNCHANGED <<lifeVars, callVars, initialized, restore, ready, motorHeld, thread,
                 lidarVars, dock, broken>>

\* The closure around session_loop, up to Lifecycle::fault.
SessionCloses ==
  /\ Session!Close /\ UNCHANGED told
  /\ thread' = [thread EXCEPT !["mcu"] = IF failed THEN "faulted" ELSE "ended"]
  /\ state' = IF failed THEN "fault" ELSE state
  /\ broken' = (broken \/ failed)
  /\ UNCHANGED <<published, shutdown, callVars, initialized, restore, ready, motorHeld,
                 lidarVars, dock>>

\* The MCU reports the dock while the session reads.
DockReported ==
  /\ phase \in {"starting", "live"}
  /\ dock' \in {"away", "charging", "docked"}
  /\ UNCHANGED <<lifeVars, callVars, initialized, restore, ready, motorHeld, thread,
                 mcuVars, lidarVars, broken>>

-----------------------------------------------------------------------------
CallSteps == InitializeSteps \/ ShutdownSteps \/ StartLidar \/ Charging

Client == Initialize \/ Shutdown \/ LidarOn \/ LidarOff \/ Drive
          \/ ChargingOff \/ ChargingOn

Workers ==
  \/ \E t \in Threads : ThreadEnds(t) \/ ThreadFails(t) \/ FaultPublished(t)
  \/ SessionRuns \/ SessionCloses \/ DockReported

Next == CallSteps \/ Client \/ Workers

Spec == Init /\ [][Next]_vars

\* The caller's thread and the workers are scheduled.  An MCU session that sees
\* the flag gets out of its loop and through its stop set: S5MaxMcu shows it.
Fairness ==
  /\ WF_vars(CallSteps)
  /\ \A t \in Threads : WF_vars(ThreadEnds(t)) /\ WF_vars(FaultPublished(t))
  /\ WF_vars(SessionRuns /\ shutdown /\ phase' = "ending" /\ phase # "ending")
  /\ WF_vars(SessionRuns /\ phase' = "stopped")
  /\ WF_vars(SessionCloses)

FairSpec == Spec /\ Fairness

-----------------------------------------------------------------------------
(* Properties.                                                             *)

\* No call leaves a worker or the LDS motor behind a driver that is not
\* initialized, wherever initialize or shutdown_all failed; and a driver that says
\* it is stopped has nothing moving, the LDS motor off, and the charger it turned
\* off at the dock on again.
StoppedMeansClean ==
  /\ step = "idle" /\ ~initialized =>
       ~motorHeld /\ \A t \in Threads : thread[t] = "none"
  /\ state = "stopped" =>
       /\ \A t \in Threads : thread[t] = "none"
       /\ ~moving /\ ~motorOn /\ ~restore

\* Once the driver is shut down, it is in Fault if any worker failed since it
\* was initialized, though a lifecycle transition may have overwritten that Fault
\* in between; and clients read in driver_status the state it is in, in whatever
\* order the threads published theirs.
FailureIsReported ==
  step = "idle" /\ ~initialized => (broken => state = "fault") /\ published = state

\* A new MCU session finds the robot still: its predecessor's failure to stop an
\* actuator, or the motor guard's, bars the way to another initialize.
SessionStartsStill ==
  [][phase = "over" /\ phase' = "starting" => ~moving /\ ~motorOn]_phase

\* initialize, shutdown_all and the client's commands return, whatever the
\* workers were doing.
CallsReturn == step # "idle" ~> step = "idle"

=============================================================================
