----------------------------- MODULE SlamDaemon -----------------------------
(***************************************************************************)
(* The threads of the dhruva-slam daemon (main.rs, threads/): the          *)
(* publisher hands client commands to the SLAM and the navigation thread,  *)
(* the navigation thread works off the target stack (SlamNavigation), the  *)
(* exploration thread finds targets of its own, and the last two drive the *)
(* robot through one motion controller behind a mutex                      *)
(* (io/motion_controller.rs).                                              *)
(*                                                                         *)
(* A step is what a thread does under one lock, of the shared state or of  *)
(* the controller; what it keeps of an earlier read is in its own          *)
(* variables.  MappingFeature is left out: no command of the publisher     *)
(* starts it.  Each command to SangamIO may be lost or never return,       *)
(* MaxFaults times in all.                                                 *)
(***************************************************************************)
EXTENDS SlamNavigation, Sequences

CONSTANTS
  Commands,     \* the client commands that may come
  MaxCommands,  \* how many of them in a behaviour
  MaxFaults     \* commands to SangamIO that fail or hang in a behaviour


VARIABLES
  \* --- SharedState
  nav,          \* navigation_state
  mode,         \* exploration_state.mode
  map,          \* current_map is there
  hazard,       \* a bumper or a cliff sensor is triggered
  running,
  \* --- publisher and SLAM thread
  commands,     \* client commands so far
  slamQ, navQ,  \* the two command channels
  slam,         \* what the SLAM thread does; its robot state is Mapping iff "mapping"
  \* --- navigation thread: where it is, what it has read, its own flags
  at, active, navMap, navHazard, moves, motors, lidar, wasActive, idle,
  \* --- exploration thread, likewise
  xat, xmode, xmap, xmotors, xlidar, scan,
  \* --- MotionController and the robot behind it
  enabled,      \* is_enabled
  wheels,       \* the last velocity the robot got is not zero
  lidarOn,      \* the last command that came through switched the lidar on
  \* --- history
  faults,       \* commands that failed or hang
  missed,       \* the wheels turn because the command to stop them failed
  lidarMissed   \* the lidar is on because the command to switch it off failed

sharedVars == <<nav, mode, map, hazard, running>>
inputVars  == <<commands, slamQ, navQ, slam>>
navVars    == <<at, active, navMap, navHazard, moves, motors, lidar, wasActive, idle>>
xVars      == <<xat, xmode, xmap, xmotors, xlidar, scan>>
driveVars  == <<enabled, wheels, faults, missed>>
lidarVars  == <<lidarOn, lidarMissed>>
mcVars     == <<driveVars, lidarVars>>
vars == <<sharedVars, inputVars, navVars, xVars, mcVars>>

SlamCommands == {"StartMapping", "StopMapping", "ClearMap", "EnableMap", "EmergencyStop"}
NavCommands  == {"SetGoal", "CancelGoal", "StopMapping"}

ASSUME DaemonAssumption ==
  /\ Commands \subseteq SlamCommands \cup NavCommands
  /\ MaxCommands \in Nat /\ MaxFaults \in Nat

NavSteps == {"top", "lidar", "motors", "idle", "update", "send", "stuck", "done"}
ExploreSteps == {"top", "hazard", "nav", "clear", "settle", "off", "lidar", "motors", "act",
                 "target", "halt", "completed", "rotate", "stuck", "done"}

Init ==
  /\ nav = NoNavigation /\ mode = "disabled" /\ map = FALSE /\ hazard = FALSE /\ running = TRUE
  /\ commands = 0 /\ slamQ = <<>> /\ navQ = <<>> /\ slam = "idle"
  /\ at = "top" /\ active = FALSE /\ navMap = FALSE /\ navHazard = FALSE /\ moves = FALSE
  /\ motors = FALSE /\ lidar = FALSE /\ wasActive = FALSE /\ idle = FALSE
  /\ xat = "top" /\ xmode = "disabled" /\ xmap = FALSE
  /\ xmotors = FALSE /\ xlidar = FALSE /\ scan = "not_started"
  /\ enabled = FALSE /\ wheels = FALSE /\ lidarOn = FALSE
  /\ faults = 0 /\ missed = FALSE /\ lidarMissed = FALSE

(***************************************************************************)
(* MotionController: each call is one step, under its mutex.  A call that  *)
(* fails may have reconnected and then failed to enable the drive again.   *)
(* One may never return: the connection has a limit for reads only         *)
(* (sangam_client.rs:451-454), and the mutex stays locked.                 *)
(***************************************************************************)
Stuck == at = "stuck" \/ xat = "stuck"

Fails == faults < MaxFaults /\ faults' = faults + 1

Enable(flag) ==
  \/ /\ enabled' = TRUE /\ flag' = TRUE
     /\ UNCHANGED <<wheels, faults, missed>>
  \/ /\ Fails /\ enabled' \in {enabled, FALSE}
     /\ UNCHANGED <<flag, wheels, missed>>

SetVelocity(moving) ==
  \/ ~enabled /\ UNCHANGED driveVars                \* "Motors not enabled"
  \/ /\ enabled
     /\ wheels' = moving /\ missed' = FALSE
     /\ UNCHANGED <<enabled, faults>>
  \/ /\ enabled
     /\ Fails /\ enabled' \in BOOLEAN
     /\ missed' = (missed \/ (wheels /\ ~moving))
     /\ UNCHANGED wheels

\* Something fails, and the stop is repeated or lost.
Halt ==
  \/ wheels' = FALSE /\ missed' = FALSE /\ UNCHANGED faults
  \/ /\ Fails
     /\ \/ wheels' = FALSE /\ missed' = FALSE
        \/ missed' = wheels /\ UNCHANGED wheels

\* A reconnection may leave the drive disabled.
EmergencyStop == Halt /\ enabled' \in IF faults' = faults THEN {enabled} ELSE {enabled, FALSE}
Disable       == Halt /\ enabled' = FALSE           \* marked so even when it fails

EnableLidar(flag) ==
  /\ \/ UNCHANGED <<enabled, faults>>
     \/ Fails /\ enabled' \in {enabled, FALSE}
  /\ \/ lidarOn' = TRUE /\ lidarMissed' = FALSE /\ flag' = TRUE
     \/ faults' # faults /\ UNCHANGED <<lidarVars, flag>>

\* In a step of which something may have failed.
DisableLidar ==
  /\ lidarOn' \in IF faults' = faults THEN {FALSE} ELSE {lidarOn, FALSE}
  /\ lidarMissed' = lidarOn'

(***************************************************************************)
(* The publisher and the SLAM thread.  The publisher waits five seconds    *)
(* for an answer of the SLAM thread and then takes the next command.       *)
(***************************************************************************)
Client(toNav, toSlam) ==
  /\ running /\ commands < MaxCommands
  /\ commands' = commands + 1
  /\ navQ' = navQ \o toNav /\ slamQ' = slamQ \o toSlam
  /\ UNCHANGED <<sharedVars, slam, navVars, xVars, mcVars>>

ProcessCommand ==
  \/ \E c \in Commands \cap {"SetGoal", "CancelGoal"} : Client(<<c>>, <<>>)
  \/ \E c \in Commands \cap (SlamCommands \ {"StopMapping"}) : Client(<<>>, <<c>>)
  \/ "StopMapping" \in Commands /\ Client(<<"StopMapping">>, <<"StopMapping">>)

HandleCommand ==
  /\ running /\ slamQ # <<>>
  /\ slamQ' = Tail(slamQ)
  /\ LET c == Head(slamQ) IN
       /\ slam' = CASE c = "StartMapping"                        -> "mapping"
                    [] c = "EnableMap"                           -> "localizing"
                    [] c = "StopMapping" /\ slam = "mapping"     -> "idle"
                    [] c = "EmergencyStop"                       -> "idle"
                    [] OTHER                                     -> slam
       /\ map' = CASE c \in {"StartMapping", "ClearMap"} -> FALSE
                   [] c = "EnableMap"                    -> TRUE
                   [] OTHER                              -> map
       /\ mode' = CASE c = "StartMapping"                     -> "exploring"
                    [] c \in {"StopMapping", "EmergencyStop"} -> "disabled"
                    [] OTHER                                  -> mode
  /\ UNCHANGED <<nav, hazard, running, commands, navQ, navVars, xVars,
                 mcVars>>

\* A scan, while it maps or localizes, and from time to time a new map.
ProcessLidar ==
  /\ running /\ slam # "idle" /\ ~map
  /\ map' = TRUE
  /\ UNCHANGED <<nav, mode, hazard, running, inputVars, navVars, xVars, mcVars>>

ProcessSensorStatus ==
  /\ running
  /\ hazard' = ~hazard
  /\ UNCHANGED <<nav, mode, map, running, inputVars, navVars, xVars, mcVars>>

Signal ==
  /\ running /\ running' = FALSE
  /\ slamQ' = <<>> /\ navQ' = <<>>                  \* not read any more
  /\ UNCHANGED <<nav, mode, map, hazard, commands, slam, navVars, xVars, mcVars>>

(***************************************************************************)
(* The navigation thread.                                                  *)
(***************************************************************************)
NavFlags == <<motors, lidar>>
NavSeen  == <<active, navMap, navHazard>>

\* What was read is forgotten once it is not used again before the next reading.
ForgetSeen == active' = FALSE /\ navMap' = FALSE /\ navHazard' = FALSE

ProcessNavCommand ==
  /\ at = "top" /\ running /\ navQ # <<>>
  /\ navQ' = Tail(navQ)
  /\ LET c == Head(navQ) IN
       /\ nav' = IF c = "SetGoal" THEN PushTarget(nav) ELSE ClearTargets(nav)
       /\ mode' = IF c = "StopMapping" THEN "disabled" ELSE mode
  /\ UNCHANGED <<map, hazard, running, commands, slamQ, slam, navVars, xVars,
                 mcVars>>

\* Where the thread goes once the lidar and the motors have had their turn.
AfterEnabling(isActive) == IF isActive THEN "update" ELSE "top"

NavBusy ==
  /\ at = "top" /\ running /\ navQ = <<>>
  /\ IsActive(nav) \/ slam = "mapping"
  /\ active' = IsActive(nav) /\ navMap' = (map /\ active') /\ navHazard' = (hazard /\ active')
  /\ wasActive' = TRUE /\ idle' = FALSE
  /\ at' = IF ~lidar THEN "lidar" ELSE IF ~motors THEN "motors" ELSE AfterEnabling(active')
  /\ UNCHANGED <<sharedVars, inputVars, moves, NavFlags, xVars, mcVars>>

NavEnableLidar ==
  /\ at = "lidar" /\ ~Stuck
  /\ EnableLidar(lidar)
  /\ at' = IF ~motors THEN "motors" ELSE AfterEnabling(active)
  /\ UNCHANGED <<sharedVars, inputVars, NavSeen, moves, motors, wasActive, idle, xVars,
                 wheels, missed>>

NavEnableMotors ==
  /\ at = "motors" /\ ~Stuck
  /\ Enable(motors)
  /\ at' = AfterEnabling(active)
  /\ UNCHANGED <<sharedVars, inputVars, NavSeen, moves, lidar, wasActive, idle, xVars, lidarVars>>

\* Mutant of NavIdle: every idle turn forgets that the timer runs.
NavIdleRestarted ==
  /\ at = "top" /\ running /\ navQ = <<>>
  /\ ~IsActive(nav) /\ slam # "mapping"
  /\ idle' = wasActive /\ wasActive' = FALSE
  /\ UNCHANGED <<sharedVars, inputVars, at, NavSeen, moves, NavFlags, xVars, mcVars>>

\* Nothing to do: the timer starts when that is new.
NavIdle ==
  /\ at = "top" /\ running /\ navQ = <<>>
  /\ ~IsActive(nav) /\ slam # "mapping"
  /\ idle' = (idle \/ wasActive) /\ wasActive' = FALSE
  /\ UNCHANGED <<sharedVars, inputVars, at, NavSeen, moves, NavFlags, xVars, mcVars>>

NavIdleElapsed ==
  /\ at = "top" /\ running /\ navQ = <<>>
  /\ ~IsActive(nav) /\ slam # "mapping"
  /\ idle /\ idle' = FALSE /\ wasActive' = FALSE
  /\ at' = IF motors THEN "idle" ELSE "top"
  /\ UNCHANGED <<sharedVars, inputVars, NavSeen, moves, NavFlags, xVars, mcVars>>

NavDisable ==
  /\ at = "idle" /\ ~Stuck
  /\ Disable /\ motors' = FALSE
  /\ at' = "top"
  /\ UNCHANGED <<sharedVars, inputVars, NavSeen, moves, lidar, wasActive, idle, xVars, lidarVars>>

NavUpdate ==
  /\ at = "update"
  /\ \/ nav' \in UpdateStanding(nav, navMap, navHazard) /\ moves' = FALSE
     \/ nav' \in UpdateMoving(nav, navHazard) /\ moves' = motors
  /\ at' = IF motors THEN "send" ELSE "top"
  /\ ForgetSeen
  /\ UNCHANGED <<mode, map, hazard, running, inputVars, NavFlags, wasActive, idle,
                 xVars, mcVars>>

NavSend ==
  /\ at = "send" /\ ~Stuck
  /\ SetVelocity(moves) /\ moves' = FALSE
  /\ at' = "top"
  /\ UNCHANGED <<sharedVars, inputVars, NavSeen, NavFlags, wasActive, idle, xVars, lidarVars>>

\* Mutant of NavEnd: the wheels are stopped, the drive stays enabled.
NavEndStopping ==
  /\ at = "top" /\ ~running /\ ~Stuck
  /\ EmergencyStop
  /\ IF lidar THEN DisableLidar ELSE UNCHANGED lidarVars
  /\ at' = "done"
  /\ UNCHANGED <<sharedVars, inputVars, NavSeen, moves, NavFlags, wasActive, idle, xVars>>

\* The drive is disabled when this thread enabled it, and stopped in any case.
NavEnd ==
  /\ at = "top" /\ ~running /\ ~Stuck
  /\ IF motors THEN Disable ELSE EmergencyStop
  /\ IF lidar THEN DisableLidar ELSE UNCHANGED lidarVars
  /\ at' = "done"
  /\ UNCHANGED <<sharedVars, inputVars, NavSeen, moves, NavFlags, wasActive, idle, xVars>>

NavStep == \/ ProcessNavCommand \/ NavBusy \/ NavEnableLidar \/ NavEnableMotors \/ NavIdle
           \/ NavIdleElapsed \/ NavDisable \/ NavUpdate \/ NavSend \/ NavEnd

(***************************************************************************)
(* The exploration thread.                                                 *)
(***************************************************************************)
XSeen  == <<xmode, xmap>>
XFlags == <<xmotors, xlidar>>
XGo(step) == xat' = step

ExploreTop ==
  /\ xat = "top" /\ running
  /\ xmode' = mode /\ xmap' = map
  /\ XGo(IF hazard THEN "hazard" ELSE "nav")
  /\ UNCHANGED <<sharedVars, inputVars, navVars, XFlags, scan, mcVars>>

ExploreHazard ==
  /\ xat = "hazard" /\ ~Stuck
  /\ EmergencyStop
  /\ XGo("nav")
  /\ UNCHANGED <<sharedVars, inputVars, navVars, XSeen, XFlags, scan, lidarVars>>

ExploreReadNav ==
  /\ xat = "nav"
  /\ XGo(IF nav.state = "failed" /\ nav.targets > 0 THEN "clear"
         ELSE IF nav.state = "reached" /\ nav.targets = 0 THEN "settle"
         ELSE IF xmode = "exploring" /\ nav.targets = 0
              THEN IF ~xlidar THEN "lidar" ELSE IF ~xmotors THEN "motors" ELSE "act"
         ELSE IF xmode = "disabled" /\ (xmotors \/ xlidar) THEN "off" ELSE "top")
  /\ xmode' = "disabled" /\ xmap' = (xmap /\ xat' \in {"lidar", "motors", "act"})
  /\ UNCHANGED <<sharedVars, inputVars, navVars, XFlags, scan, mcVars>>

\* A target was blocked; whether it still is the current one is not asked.
ExploreClear ==
  /\ xat = "clear"
  /\ nav' = ClearTargets(nav)
  /\ XGo("top")
  /\ UNCHANGED <<mode, map, hazard, running, inputVars, navVars, XSeen, XFlags, scan, mcVars>>

\* A target was reached; that none came since is not asked.
ExploreSettle ==
  /\ xat = "settle"
  /\ nav' = To(nav, "idle")
  /\ XGo("top")
  /\ UNCHANGED <<mode, map, hazard, running, inputVars, navVars, XSeen, XFlags, scan, mcVars>>

ExploreOff ==
  /\ xat = "off" /\ ~Stuck
  /\ \/ xmotors /\ Disable
     \/ ~xmotors /\ (UNCHANGED faults \/ Fails) /\ UNCHANGED <<enabled, wheels, missed>>
  /\ IF xlidar THEN DisableLidar ELSE UNCHANGED lidarVars
  /\ xmotors' = FALSE /\ xlidar' = FALSE /\ scan' = "not_started"
  /\ XGo("top")
  /\ UNCHANGED <<sharedVars, inputVars, navVars, XSeen>>

ExploreEnableLidar ==
  /\ xat = "lidar" /\ ~Stuck
  /\ EnableLidar(xlidar)
  /\ XGo(IF ~xmotors THEN "motors" ELSE "act")
  /\ UNCHANGED <<sharedVars, inputVars, navVars, XSeen, xmotors, scan,
                 wheels, missed>>

ExploreEnableMotors ==
  /\ xat = "motors" /\ ~Stuck
  /\ Enable(xmotors)
  /\ XGo("act")
  /\ UNCHANGED <<sharedVars, inputVars, navVars, XSeen, xlidar, scan, lidarVars>>

\* No map yet: one turn in place, then standing until a map is there.
InitialScan ==
  /\ xat = "act" /\ ~xmap
  /\ \/ ~Stuck /\ scan = "not_started" /\ scan' = "rotating" /\ SetVelocity(TRUE)
     \/ ~Stuck /\ scan = "rotating" /\ EmergencyStop /\ UNCHANGED scan    \* the turn is over
     \/ scan # "not_started" /\ UNCHANGED <<scan, driveVars>>
  /\ XGo("top")
  /\ UNCHANGED <<sharedVars, inputVars, navVars, XSeen, XFlags, lidarVars>>

\* What the strategy's next_action asks for.
NextAction ==
  /\ xat = "act" /\ xmap
  /\ scan' = "complete" /\ xmap' = FALSE
  /\ \/ \E moving \in BOOLEAN :
          ~Stuck /\ SetVelocity(moving) /\ XGo("top") /\ UNCHANGED XFlags
     \/ XGo("target") /\ UNCHANGED <<driveVars, XFlags>>
     \/ ~Stuck /\ Disable /\ xmotors' = FALSE /\ XGo("completed") /\ UNCHANGED xlidar
     \/ ~Stuck /\ EmergencyStop /\ XGo("rotate") /\ UNCHANGED XFlags               \* stuck
  /\ UNCHANGED <<sharedVars, inputVars, navVars, xmode, lidarVars>>

NavigateTo ==
  /\ xat = "target"
  /\ nav' = PushTarget(ClearTargets(nav))
  /\ XGo("halt")
  /\ UNCHANGED <<mode, map, hazard, running, inputVars, navVars, XSeen, XFlags, scan, mcVars>>

ExploreDrive ==
  /\ ~Stuck
  /\ \/ xat = "halt" /\ SetVelocity(FALSE)
     \/ xat = "rotate" /\ SetVelocity(TRUE)
  /\ XGo("top")
  /\ UNCHANGED <<sharedVars, inputVars, navVars, XSeen, XFlags, scan, lidarVars>>

ExploreCompleted ==
  /\ xat = "completed"
  /\ mode' = "complete"
  /\ XGo("top")
  /\ UNCHANGED <<nav, map, hazard, running, inputVars, navVars, XSeen, XFlags, scan, mcVars>>

ExploreEnd ==
  /\ xat = "top" /\ ~running /\ ~Stuck
  /\ Disable /\ DisableLidar
  /\ XGo("done")
  /\ UNCHANGED <<sharedVars, inputVars, navVars, XSeen, XFlags, scan>>

ExploreStep == \/ ExploreTop \/ ExploreHazard \/ ExploreReadNav \/ ExploreClear \/ ExploreSettle
               \/ ExploreOff \/ ExploreEnableLidar \/ ExploreEnableMotors \/ InitialScan
               \/ NextAction \/ NavigateTo \/ ExploreDrive \/ ExploreCompleted \/ ExploreEnd

SlamStep == HandleCommand \/ ProcessLidar \/ ProcessSensorStatus

(***************************************************************************)
(* Where the two threads may write to SangamIO; a velocity is written only *)
(* to a drive that is enabled.                                             *)
(***************************************************************************)
NavWrites ==
  \/ at \in {"lidar", "motors", "idle"}
  \/ at = "send" /\ enabled
  \/ at = "top" /\ ~running

ExploreWrites ==
  \/ xat \in {"hazard", "off", "lidar", "motors"}
  \/ xat \in {"halt", "rotate"} /\ enabled
  \/ xat = "act" /\ (xmap \/ scan = "rotating" \/ (scan = "not_started" /\ enabled))
  \/ xat = "top" /\ ~running

WriteHangs ==
  /\ ~Stuck /\ Fails
  /\ \/ NavWrites /\ at' = "stuck" /\ UNCHANGED xat
     \/ ExploreWrites /\ xat' = "stuck" /\ UNCHANGED at
  /\ UNCHANGED <<sharedVars, inputVars, NavSeen, moves, NavFlags, wasActive, idle,
                 XSeen, XFlags, scan, enabled, wheels, missed, lidarVars>>

Next == ProcessCommand \/ SlamStep \/ Signal \/ NavStep \/ ExploreStep \/ WriteHangs

Spec == Init /\ [][Next]_vars

(***************************************************************************)
(* Each thread runs unless a write holds it up, ten idle seconds pass, and *)
(* an escape ends when its time is over.  Nothing is assumed of a robot    *)
(* that follows its path or turns to its heading: the stuck check is not   *)
(* made near a waypoint, and a turn has no time limit.                     *)
(***************************************************************************)
EscapeEnds == NavUpdate /\ nav.state = "escaping" /\ nav' # nav

Fairness ==
  /\ WF_vars(HandleCommand) /\ WF_vars(NavStep) /\ WF_vars(ExploreStep)
  /\ SF_vars(NavIdleElapsed) /\ SF_vars(EscapeEnds)

FairSpec == Spec /\ Fairness

-----------------------------------------------------------------------------
TypeOK ==
  /\ nav \in NavRecords /\ nav.targets <= MaxCommands + 1
  /\ mode \in {"disabled", "exploring", "complete"}
  /\ slam \in {"idle", "mapping", "localizing"}
  /\ scan \in {"not_started", "rotating", "complete"}
  /\ map \in BOOLEAN /\ hazard \in BOOLEAN /\ running \in BOOLEAN
  /\ active \in BOOLEAN /\ navMap \in BOOLEAN /\ navHazard \in BOOLEAN /\ moves \in BOOLEAN
  /\ motors \in BOOLEAN /\ lidar \in BOOLEAN /\ wasActive \in BOOLEAN /\ idle \in BOOLEAN
  /\ xmap \in BOOLEAN /\ xmotors \in BOOLEAN /\ xlidar \in BOOLEAN
  /\ enabled \in BOOLEAN /\ wheels \in BOOLEAN /\ missed \in BOOLEAN
  /\ lidarOn \in BOOLEAN /\ lidarMissed \in BOOLEAN
  /\ commands \in 0 .. MaxCommands /\ faults \in 0 .. MaxFaults
  /\ at \in NavSteps /\ xat \in ExploreSteps
  /\ xmode \in {"disabled", "exploring", "complete"}
  /\ slamQ \in Seq(SlamCommands) /\ navQ \in Seq(NavCommands)
  /\ Len(slamQ) <= commands /\ Len(navQ) <= commands

\* Once the navigation and the exploration thread have ended, in either order
\* and wherever the signal met them, the robot has been told to stand still and
\* to switch its lidar off, unless that very command failed
\* (navigation_thread.rs:491-502, exploration_thread.rs:555-563).
StoppedAtEnd == at = "done" /\ xat = "done" =>
  (~wheels \/ missed) /\ ~enabled /\ (~lidarOn \/ lidarMissed)

\* With no target left, no exploration or mapping and no command on its way the
\* robot comes to stand and stays so, unless a write hangs: at the latest when
\* the navigation thread disables the idle drive (navigation_thread.rs:281-321).
Quiet == nav.targets = 0 /\ mode # "exploring" /\ slam # "mapping" /\ navQ = <<>> /\ slamQ = <<>>

StandsStill == <>[](Quiet => ~wheels \/ missed \/ Stuck)

\* The navigator does not work at its targets for ever, planning, following,
\* escaping and planning anew (navigator.rs:179-237, 402-446, 481-511): again
\* and again there is none left, unless a write hangs; unless from some point on
\* the robot is held under way, where the code waits without a limit; or unless
\* a target came while the exploration thread was about to settle the one before
\* and finds the state overwritten with Idle (exploration_thread.rs:251-266).
Held     == nav.state \in {"navigating", "rotating"}
Orphaned == nav.state = "idle" /\ nav.targets > 0

GoalsSettleUnlessHeld ==
  []<>(nav.targets = 0 \/ Orphaned \/ ~running \/ Stuck) \/ <>[]Held
=============================================================================
