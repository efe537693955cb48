-------------------------- MODULE SlamDaemonProofs --------------------------
(***************************************************************************)
(* Theorems about the threads of the dhruva-slam daemon, for any client    *)
(* commands, any number of them, any number of failing commands to         *)
(* SangamIO and any limit of replans.                                      *)
(***************************************************************************)
EXTENDS SlamDaemon, SequenceTheorems, TLAPS

\* A plan is only followed, and an escape only begun, while another one may be made.
GoodNav(n) ==
  n \in NavRecords /\ (n.state \in {"navigating", "escaping"} => n.attempts < MaxReplans)

\* What the threads share, and the commands on their way.  A target is pushed for a
\* command that has left its queue, but for the one the exploration thread may push.
SharedTypes ==
  /\ GoodNav(nav) /\ nav.targets + Len(navQ) <= commands + 1
  /\ mode \in {"disabled", "exploring", "complete"}
  /\ map \in BOOLEAN /\ hazard \in BOOLEAN /\ running \in BOOLEAN
  /\ slam \in {"idle", "mapping", "localizing"}
  /\ commands \in 0 .. MaxCommands
  /\ slamQ \in Seq(SlamCommands) /\ navQ \in Seq(NavCommands)
  /\ Len(slamQ) <= commands /\ Len(navQ) <= commands

NavTypes ==
  /\ at \in NavSteps
  /\ active \in BOOLEAN /\ navMap \in BOOLEAN /\ navHazard \in BOOLEAN /\ moves \in BOOLEAN
  /\ motors \in BOOLEAN /\ lidar \in BOOLEAN /\ wasActive \in BOOLEAN /\ idle \in BOOLEAN

ExploreTypes ==
  /\ xat \in ExploreSteps
  /\ xmode \in {"disabled", "exploring", "complete"}
  /\ xmap \in BOOLEAN /\ xmotors \in BOOLEAN /\ xlidar \in BOOLEAN
  /\ scan \in {"not_started", "rotating", "complete"}

DriveTypes ==
  /\ enabled \in BOOLEAN /\ wheels \in BOOLEAN /\ missed \in BOOLEAN
  /\ faults \in 0 .. MaxFaults

LidarTypes == lidarOn \in BOOLEAN /\ lidarMissed \in BOOLEAN

Types == SharedTypes /\ NavTypes /\ ExploreTypes /\ DriveTypes /\ LidarTypes

\* The exploration thread leaves the drive disabled and the lidar off.  What is on
\* after it the navigation thread has switched on, and knows that it has to undo; and
\* whoever comes last stops the robot.
LastInv ==
  /\ xat = "done" => (enabled => motors) /\ (lidarOn => lidar \/ lidarMissed)
  /\ at = "done" /\ xat = "done" =>
       (~wheels \/ missed) /\ ~enabled /\ (~lidarOn \/ lidarMissed)

-----------------------------------------------------------------------------
(***************************************************************************)
(* Operators on the target stack.                                          *)
(***************************************************************************)
LEMMA RecordsAre ==
  ASSUME NEW n \in NavRecords
  PROVE  /\ n.state \in NavStates /\ n.targets \in Nat /\ n.attempts \in 0 .. MaxReplans
         /\ n.attempts \in Nat
BY ReplansAssumption DEF NavRecords

\* Pushing, clearing and settling keep a good record.
LEMMA TargetsAre ==
  ASSUME NEW n, GoodNav(n)
  PROVE  /\ GoodNav(PushTarget(n)) /\ PushTarget(n).targets = n.targets + 1
         /\ GoodNav(ClearTargets(n)) /\ ClearTargets(n).targets = 0
         /\ GoodNav(To(n, "idle")) /\ To(n, "idle").targets = n.targets
<1>1. n \in NavRecords /\ n.targets \in Nat /\ n.targets + 1 \in Nat /\ n.state \in NavStates
  BY RecordsAre DEF GoodNav
<1>2. 0 \in 0 .. MaxReplans
  BY ReplansAssumption
<1>3. GoodNav(PushTarget(n)) /\ PushTarget(n).targets = n.targets + 1
  BY <1>1, ReplansAssumption DEF PushTarget, GoodNav, NavRecords, NavStates, NavActive
<1>4. GoodNav(ClearTargets(n)) /\ ClearTargets(n).targets = 0
  BY <1>2 DEF ClearTargets, GoodNav, NavRecords, NavStates, NavActive
<1>5. GoodNav(To(n, "idle")) /\ To(n, "idle").targets = n.targets
  BY <1>1 DEF To, GoodNav, NavRecords, NavStates, NavActive
<1>6. QED
  BY <1>3, <1>4, <1>5

\* A target that is worked off leaves the next one to be planned for.
LEMMA CompletedIs ==
  ASSUME NEW n \in NavRecords, n.targets > 0
  PROVE  /\ Completed(n) \in NavRecords /\ Completed(n).targets <= n.targets
         /\ Completed(n).state \in {"planning", "reached"}
<1>1. n.targets \in Nat /\ 0 \in 0 .. MaxReplans
  BY RecordsAre, ReplansAssumption
<1>2. "planning" \in NavStates /\ "idle" \in NavStates /\ "reached" \in NavStates
  BY DEF NavStates, NavActive
<1>3. CASE n.targets > 1
  <2>1. PopTarget(n) = [state |-> "planning", targets |-> n.targets - 1, attempts |-> 0]
    BY <1>3 DEF PopTarget
  <2>2. n.targets - 1 \in Nat /\ n.targets - 1 > 0
    BY <1>1, <1>3
  <2>3. Completed(n) = PopTarget(n)
    BY <2>1, <2>2 DEF Completed
  <2>4. QED
    BY <1>1, <1>2, <2>1, <2>2, <2>3 DEF NavRecords
<1>4. CASE ~(n.targets > 1)
  <2>1. PopTarget(n) = [state |-> "idle", targets |-> 0, attempts |-> n.attempts]
    BY <1>4 DEF PopTarget, NavRecords
  <2>2. PopTarget(n) \in NavRecords /\ PopTarget(n).targets = 0
    BY <1>2, <2>1, RecordsAre DEF NavRecords
  <2>3. Completed(n) = [PopTarget(n) EXCEPT !.state = "reached"]
    BY <2>2 DEF Completed, To
  <2>4. QED
    BY <1>1, <1>2, <2>2, <2>3 DEF NavRecords
<1>5. QED
  BY <1>3, <1>4

\* An update of the navigator keeps it, too, and makes no target.
LEMMA OutcomesAre ==
  ASSUME NEW n, GoodNav(n), NEW m, NEW h,
         NEW o \in UpdateStanding(n, m, h) \cup UpdateMoving(n, h)
  PROVE  GoodNav(o) /\ o.targets <= n.targets
<1> USE DEF GoodNav, NavRecords, NavStates, NavActive
<1>1. /\ n \in NavRecords /\ n.targets \in Nat /\ n.state \in NavStates
      /\ n.attempts \in 0 .. MaxReplans /\ MaxReplans \in Nat
  BY ReplansAssumption, RecordsAre
<1>2. \A s \in NavStates : /\ To(n, s) \in NavRecords /\ To(n, s).targets = n.targets
                           /\ To(n, s).state = s /\ To(n, s).attempts = n.attempts
  BY <1>1 DEF To
<1>3. ASSUME n.targets > 0
      PROVE  /\ Completed(n) \in NavRecords /\ Completed(n).targets <= n.targets
             /\ Completed(n).state \in {"planning", "reached"}
  BY <1>1, <1>3, CompletedIs
<1>4. CASE n.state = "planning"
  <2>1. o \in PlanOutcomes(n, m)
    BY <1>4 DEF UpdateStanding, UpdateMoving
  <2>2. o = To(n, "failed") \/ o = To(n, "idle")
        \/ (o = To(n, "navigating") /\ ~(n.attempts >= MaxReplans))
    BY <2>1 DEF PlanOutcomes
  <2>3. QED
    BY <1>1, <1>2, <2>2
<1>5. CASE n.state = "navigating"
  <2>1. \/ o \in FollowOutcomes(n) \/ o = To(n, "escaping") \/ o = n
    BY <1>5 DEF UpdateStanding, UpdateMoving
  <2>2. CASE o \in FollowOutcomes(n)
    <3>1. \/ o = To(n, "idle") \/ o = To(n, "rotating") \/ o = To(n, "failed")
          \/ n.targets > 0 /\ o = Completed(n)
      BY <1>1, <2>2 DEF FollowOutcomes
    <3>2. QED
      BY <1>1, <1>2, <1>3, <3>1
  <2>3. CASE o = To(n, "escaping") \/ o = n
    BY <1>1, <1>2, <1>5, <2>3
  <2>4. QED
    BY <2>1, <2>2, <2>3
<1>6. CASE n.state = "rotating"
  <2>1. \/ o = To(n, "idle") \/ o = n
        \/ n.targets > 0 /\ o = Completed(n)
    BY <1>1, <1>6 DEF UpdateStanding, UpdateMoving, RotateOutcomes
  <2>2. QED
    BY <1>1, <1>2, <1>3, <2>1
<1>7. CASE n.state = "escaping"
  <2>1. o = RequestReplan(n) \/ o = n
    BY <1>7 DEF UpdateStanding, UpdateMoving, EscapeOutcomes
  <2>2. n.attempts + 1 \in 0 .. MaxReplans
    BY <1>1, <1>7
  <2>3. RequestReplan(n) \in NavRecords /\ RequestReplan(n).targets = n.targets
        /\ RequestReplan(n).state = "planning"
    BY <1>1, <2>2 DEF RequestReplan
  <2>4. QED
    BY <1>1, <2>1, <2>3
<1>8. CASE n.state \notin {"planning", "navigating", "rotating", "escaping"}
  <2>1. o = n
    BY <1>8 DEF UpdateStanding, UpdateMoving
  <2>2. QED
    BY <1>1, <2>1
<1>9. QED
  BY <1>4, <1>5, <1>6, <1>7, <1>8

-----------------------------------------------------------------------------
(***************************************************************************)
(* Types.                                                                  *)
(***************************************************************************)

\* A step of the shared state that leaves the queues alone and makes no target.
LEMMA NavStays ==
  ASSUME SharedTypes, GoodNav(nav'), nav'.targets <= nav.targets,
         UNCHANGED <<commands, slamQ, navQ, slam, map, hazard, running>>,
         mode' \in {"disabled", "exploring", "complete"}
  PROVE  SharedTypes'
<1>1. nav.targets \in Nat /\ nav'.targets \in Nat /\ Len(navQ) \in Nat /\ commands \in Nat
  BY RecordsAre, LenProperties DEF SharedTypes, GoodNav
<1>2. nav'.targets + Len(navQ) <= commands + 1
  BY <1>1 DEF SharedTypes
<1>3. GoodNav(nav)'
  BY DEF GoodNav
<1>4. QED
  BY <1>2, <1>3 DEF SharedTypes

\* The publisher adds a command to one queue or to both.
LEMMA ClientTypes ==
  ASSUME SharedTypes, NEW p \in Seq(NavCommands), NEW q \in Seq(SlamCommands),
         Len(p) <= 1, Len(q) <= 1, Client(p, q)
  PROVE  SharedTypes'
<1>1. /\ navQ \in Seq(NavCommands) /\ slamQ \in Seq(SlamCommands)
      /\ Len(navQ) \in Nat /\ Len(slamQ) \in Nat /\ Len(p) \in Nat /\ Len(q) \in Nat
      /\ nav.targets \in Nat /\ commands \in Nat /\ MaxCommands \in Nat
  BY RecordsAre, LenProperties, DaemonAssumption DEF SharedTypes, GoodNav
<1>2. /\ navQ' = navQ \o p /\ slamQ' = slamQ \o q /\ commands' = commands + 1
      /\ commands < MaxCommands /\ UNCHANGED <<nav, mode, map, hazard, running, slam>>
  BY DEF Client, sharedVars
<1>3. navQ' \in Seq(NavCommands) /\ Len(navQ') = Len(navQ) + Len(p)
  BY <1>1, <1>2, ConcatProperties
<1>4. slamQ' \in Seq(SlamCommands) /\ Len(slamQ') = Len(slamQ) + Len(q)
  BY <1>1, <1>2, ConcatProperties
<1>5. /\ commands' \in 0 .. MaxCommands
      /\ Len(navQ') <= commands' /\ Len(slamQ') <= commands'
      /\ nav.targets + Len(navQ') <= commands' + 1
  BY <1>1, <1>2, <1>3, <1>4 DEF SharedTypes
<1>6. GoodNav(nav)'
  BY <1>2 DEF GoodNav, SharedTypes
<1>7. QED
  BY <1>2, <1>3, <1>4, <1>5, <1>6 DEF SharedTypes

LEMMA ProcessCommandTypes ==
  ASSUME SharedTypes, ProcessCommand PROVE SharedTypes'
<1>1. <<>> \in Seq(NavCommands) /\ <<>> \in Seq(SlamCommands) /\ Len(<<>>) <= 1
  OBVIOUS
<1>2. \A c \in NavCommands : <<c>> \in Seq(NavCommands) /\ Len(<<c>>) <= 1
  OBVIOUS
<1>3. \A c \in SlamCommands : <<c>> \in Seq(SlamCommands) /\ Len(<<c>>) <= 1
  OBVIOUS
<1>4. \A p \in Seq(NavCommands), q \in Seq(SlamCommands) :
        Len(p) <= 1 /\ Len(q) <= 1 /\ Client(p, q) => SharedTypes'
  BY ClientTypes
<1>5. CASE \E c \in Commands \cap {"SetGoal", "CancelGoal"} : Client(<<c>>, <<>>)
  <2>1. PICK c \in NavCommands : Client(<<c>>, <<>>)
    BY <1>5 DEF NavCommands
  <2>2. QED
    BY <1>1, <1>2, <1>4, <2>1, Zenon
<1>6. CASE \E c \in Commands \cap (SlamCommands \ {"StopMapping"}) : Client(<<>>, <<c>>)
  <2>1. PICK c \in SlamCommands : Client(<<>>, <<c>>)
    BY <1>6
  <2>2. QED
    BY <1>1, <1>3, <1>4, <2>1, Zenon
<1>7. CASE Client(<<"StopMapping">>, <<"StopMapping">>)
  <2>1. "StopMapping" \in NavCommands /\ "StopMapping" \in SlamCommands
    BY DEF NavCommands, SlamCommands
  <2>2. QED
    BY <1>2, <1>3, <1>4, <1>7, <2>1, Zenon
<1>8. QED
  BY <1>5, <1>6, <1>7 DEF ProcessCommand

\* A command is taken from the front of its queue.
LEMMA SharedStepTypes ==
  ASSUME SharedTypes, SlamStep \/ Signal \/ ProcessNavCommand
  PROVE  SharedTypes'
<1>0. /\ navQ \in Seq(NavCommands) /\ slamQ \in Seq(SlamCommands)
      /\ Len(navQ) \in Nat /\ Len(slamQ) \in Nat
      /\ nav.targets \in Nat /\ commands \in Nat /\ GoodNav(nav)
  BY RecordsAre, LenProperties DEF SharedTypes, GoodNav
<1>1. CASE HandleCommand
  <2>1. slamQ' \in Seq(SlamCommands) /\ Len(slamQ') = Len(slamQ) - 1
    BY <1>0, <1>1, HeadTailProperties DEF HandleCommand
  <2>2. Len(slamQ') <= commands
    BY <1>0, <2>1 DEF SharedTypes
  <2>3. /\ slam' \in {"idle", "mapping", "localizing"} /\ map' \in BOOLEAN
        /\ mode' \in {"disabled", "exploring", "complete"}
    BY <1>1 DEF HandleCommand, SharedTypes
  <2>4. UNCHANGED <<nav, hazard, running, commands, navQ>>
    BY <1>1 DEF HandleCommand
  <2>5. GoodNav(nav)'
    BY <1>0, <2>4 DEF GoodNav
  <2>6. QED
    BY <2>1, <2>2, <2>3, <2>4, <2>5 DEF SharedTypes
<1>2. CASE ProcessLidar \/ ProcessSensorStatus
  <2>1. GoodNav(nav)' /\ map' \in BOOLEAN /\ hazard' \in BOOLEAN
        /\ UNCHANGED <<nav, mode, running, commands, slamQ, navQ, slam>>
    BY <1>2 DEF ProcessLidar, ProcessSensorStatus, inputVars, GoodNav, SharedTypes
  <2>2. QED
    BY <2>1 DEF SharedTypes
<1>3. CASE Signal
  <2>1. /\ GoodNav(nav)' /\ running' \in BOOLEAN /\ slamQ' = <<>> /\ navQ' = <<>>
        /\ UNCHANGED <<nav, mode, map, hazard, commands, slam>>
    BY <1>3 DEF Signal, GoodNav, SharedTypes
  <2>2. nav.targets + 0 <= commands + 1 /\ 0 <= commands
    BY <1>0 DEF SharedTypes
  <2>3. slamQ' \in Seq(SlamCommands) /\ navQ' \in Seq(NavCommands)
        /\ Len(slamQ') = 0 /\ Len(navQ') = 0
    BY <2>1
  <2>4. QED
    BY <2>1, <2>2, <2>3 DEF SharedTypes
<1>4. CASE ProcessNavCommand
  <2>1. navQ' \in Seq(NavCommands) /\ Len(navQ') = Len(navQ) - 1
    BY <1>0, <1>4, HeadTailProperties DEF ProcessNavCommand
  <2>2. GoodNav(nav') /\ nav'.targets <= nav.targets + 1
    BY <1>0, <1>4, TargetsAre DEF ProcessNavCommand
  <2>3. nav'.targets \in Nat
    BY <2>2, RecordsAre DEF GoodNav
  <2>4. Len(navQ') <= commands /\ nav'.targets + Len(navQ') <= commands + 1
    BY <1>0, <2>1, <2>2, <2>3 DEF SharedTypes
  <2>5. mode' \in {"disabled", "exploring", "complete"}
        /\ UNCHANGED <<map, hazard, running, commands, slamQ, slam>>
    BY <1>4 DEF ProcessNavCommand, SharedTypes
  <2>6. GoodNav(nav)'
    BY <2>2 DEF GoodNav
  <2>7. QED
    BY <2>1, <2>4, <2>5, <2>6 DEF SharedTypes
<1>5. QED
  BY <1>1, <1>2, <1>3, <1>4 DEF SlamStep

\* The motion controller's own fields, whatever fails.
LEMMA DriveIsTyped ==
  ASSUME DriveTypes, NEW b \in BOOLEAN,
         EmergencyStop \/ Disable \/ SetVelocity(b)
  PROVE  DriveTypes'
<1>1. /\ enabled \in BOOLEAN /\ wheels \in BOOLEAN /\ missed \in BOOLEAN
      /\ faults \in 0 .. MaxFaults /\ MaxFaults \in Nat
  BY DaemonAssumption DEF DriveTypes
<1>2. enabled' \in BOOLEAN
  BY <1>1 DEF EmergencyStop, Disable, SetVelocity, driveVars
<1>3. wheels' \in BOOLEAN /\ missed' \in BOOLEAN
  BY <1>1 DEF EmergencyStop, Disable, Halt, SetVelocity, driveVars
<1>4. faults' \in 0 .. MaxFaults
  <2>1. faults' = faults \/ (faults < MaxFaults /\ faults' = faults + 1)
    BY DEF EmergencyStop, Disable, Halt, SetVelocity, driveVars, Fails
  <2>2. QED
    BY <1>1, <2>1
<1>5. QED
  BY <1>2, <1>3, <1>4 DEF DriveTypes

\* Only the navigation thread writes what it has read and its flags ...
LEMMA NavTypesStep == Types /\ [Next]_vars => NavTypes'
<1> SUFFICES ASSUME Types, [Next]_vars PROVE NavTypes'
  OBVIOUS
<1> USE DEF NavTypes, NavSteps, NavFlags, NavSeen
<1>0. NavTypes
  BY DEF Types
<1>1. ASSUME UNCHANGED navVars PROVE NavTypes'
  BY <1>0, <1>1 DEF navVars
<1>2. CASE ProcessCommand \/ SlamStep \/ Signal \/ ExploreStep \/ UNCHANGED vars
  BY <1>1, <1>2 DEF ProcessCommand, Client, SlamStep, HandleCommand, ProcessLidar,
     ProcessSensorStatus, Signal, ExploreStep, ExploreTop, ExploreHazard, ExploreReadNav,
     ExploreClear, ExploreSettle, ExploreOff, ExploreEnableLidar, ExploreEnableMotors,
     InitialScan, NextAction, NavigateTo, ExploreDrive, ExploreCompleted, ExploreEnd, vars
<1>3. CASE ProcessNavCommand
  BY <1>1, <1>3 DEF ProcessNavCommand
<1>4. CASE NavBusy
  BY <1>0, <1>4 DEF NavBusy, AfterEnabling, IsActive
<1>5. CASE NavEnableLidar
  BY <1>0, <1>5 DEF NavEnableLidar, EnableLidar, AfterEnabling
<1>6. CASE NavEnableMotors
  BY <1>0, <1>6 DEF NavEnableMotors, Enable, AfterEnabling
<1>7. CASE NavIdle
  BY <1>0, <1>7 DEF NavIdle
<1>8. CASE NavIdleElapsed
  BY <1>0, <1>8 DEF NavIdleElapsed
<1>9. CASE NavDisable
  BY <1>0, <1>9 DEF NavDisable
<1>10. CASE NavUpdate
  BY <1>0, <1>10 DEF NavUpdate, ForgetSeen
<1>11. CASE NavSend
  BY <1>0, <1>11 DEF NavSend
<1>12. CASE NavEnd
  BY <1>0, <1>12 DEF NavEnd
<1>13. CASE WriteHangs
  BY <1>0, <1>13 DEF WriteHangs
<1>14. QED
  BY <1>2, <1>3, <1>4, <1>5, <1>6, <1>7, <1>8, <1>9, <1>10, <1>11, <1>12, <1>13
  DEF Next, NavStep

\* ... and only the exploration thread its own.
LEMMA ExploreTypesStep == Types /\ [Next]_vars => ExploreTypes'
<1> SUFFICES ASSUME Types, [Next]_vars PROVE ExploreTypes'
  OBVIOUS
<1> USE DEF ExploreTypes, ExploreSteps, XSeen, XFlags, XGo
<1>0. ExploreTypes /\ mode \in {"disabled", "exploring", "complete"} /\ map \in BOOLEAN
  BY DEF Types, SharedTypes
<1>1. ASSUME UNCHANGED xVars PROVE ExploreTypes'
  BY <1>0, <1>1 DEF xVars
<1>2. CASE ProcessCommand \/ SlamStep \/ Signal \/ NavStep \/ UNCHANGED vars
  BY <1>1, <1>2 DEF ProcessCommand, Client, SlamStep, HandleCommand, ProcessLidar,
     ProcessSensorStatus, Signal, NavStep, ProcessNavCommand, NavBusy, NavEnableLidar,
     NavEnableMotors, NavIdle, NavIdleElapsed, NavDisable, NavUpdate, NavSend, NavEnd, vars
<1>3. CASE ExploreTop
  BY <1>0, <1>3 DEF ExploreTop
<1>4. CASE ExploreHazard \/ ExploreClear \/ ExploreSettle \/ NavigateTo \/ ExploreCompleted
  BY <1>0, <1>4 DEF ExploreHazard, ExploreClear, ExploreSettle, NavigateTo, ExploreCompleted
<1>5. CASE ExploreReadNav
  <2>1. xat' \in {"clear", "settle", "lidar", "motors", "act", "off", "top"}
    BY <1>5 DEF ExploreReadNav
  <2>2. xmode' = "disabled" /\ xmap' \in BOOLEAN
    BY <1>0, <1>5 DEF ExploreReadNav
  <2>3. UNCHANGED <<xmotors, xlidar, scan>>
    BY <1>5 DEF ExploreReadNav
  <2>4. QED
    BY <1>0, <2>1, <2>2, <2>3
<1>6. CASE ExploreOff
  BY <1>0, <1>6 DEF ExploreOff
<1>7. CASE ExploreEnableLidar
  BY <1>0, <1>7 DEF ExploreEnableLidar, EnableLidar
<1>8. CASE ExploreEnableMotors
  BY <1>0, <1>8 DEF ExploreEnableMotors, Enable
<1>9. CASE InitialScan
  BY <1>0, <1>9 DEF InitialScan
<1>10. CASE NextAction
  BY <1>0, <1>10 DEF NextAction
<1>11. CASE ExploreDrive
  BY <1>0, <1>11 DEF ExploreDrive
<1>12. CASE ExploreEnd
  BY <1>0, <1>12 DEF ExploreEnd
<1>13. CASE WriteHangs
  BY <1>0, <1>13 DEF WriteHangs
<1>14. QED
  BY <1>2, <1>3, <1>4, <1>5, <1>6, <1>7, <1>8, <1>9, <1>10, <1>11, <1>12, <1>13
  DEF Next, ExploreStep

\* The drive and the lidar are what the two of them have switched.
LEMMA DriveTypesStep == Types /\ [Next]_vars => DriveTypes'
<1> SUFFICES ASSUME Types, [Next]_vars PROVE DriveTypes'
  OBVIOUS
<1>0. /\ DriveTypes /\ enabled \in BOOLEAN /\ wheels \in BOOLEAN /\ missed \in BOOLEAN
      /\ faults \in 0 .. MaxFaults /\ MaxFaults \in Nat /\ moves \in BOOLEAN
      /\ TRUE \in BOOLEAN /\ FALSE \in BOOLEAN
  BY DaemonAssumption DEF Types, DriveTypes, NavTypes
<1>1. ASSUME UNCHANGED driveVars PROVE DriveTypes'
  BY <1>0, <1>1 DEF driveVars, DriveTypes
<1>2. ASSUME UNCHANGED <<wheels, missed>>, enabled' \in BOOLEAN, faults' = faults \/ Fails
      PROVE  DriveTypes'
  <2>1. faults' \in 0 .. MaxFaults
    BY <1>0, <1>2 DEF Fails
  <2>2. QED
    BY <1>0, <1>2, <2>1 DEF DriveTypes
<1>3. CASE ProcessCommand \/ SlamStep \/ Signal \/ UNCHANGED vars
  BY <1>1, <1>3 DEF ProcessCommand, Client, SlamStep, HandleCommand, ProcessLidar,
     ProcessSensorStatus, Signal, vars, mcVars
<1>4. CASE ProcessNavCommand \/ NavBusy \/ NavIdle \/ NavIdleElapsed \/ NavUpdate
  BY <1>1, <1>4 DEF ProcessNavCommand, NavBusy, NavIdle, NavIdleElapsed, NavUpdate, mcVars
<1>5. CASE NavEnableLidar \/ ExploreEnableLidar
  <2>1. enabled' \in BOOLEAN
    BY <1>0, <1>5 DEF NavEnableLidar, ExploreEnableLidar, EnableLidar
  <2>2. UNCHANGED <<wheels, missed>> /\ (faults' = faults \/ Fails)
    BY <1>5 DEF NavEnableLidar, ExploreEnableLidar, EnableLidar
  <2>3. QED
    BY <1>2, <2>1, <2>2
<1>6. CASE NavEnableMotors \/ ExploreEnableMotors
  <2>1. enabled' \in BOOLEAN
    BY <1>0, <1>6 DEF NavEnableMotors, ExploreEnableMotors, Enable
  <2>2. UNCHANGED <<wheels, missed>> /\ (faults' = faults \/ Fails)
    BY <1>6 DEF NavEnableMotors, ExploreEnableMotors, Enable
  <2>3. QED
    BY <1>2, <2>1, <2>2
<1>7. CASE NavDisable \/ NavEnd \/ ExploreHazard \/ ExploreEnd
  <2>1. EmergencyStop \/ Disable
    BY <1>7 DEF NavDisable, NavEnd, ExploreHazard, ExploreEnd
  <2>2. QED
    BY <1>0, <2>1, DriveIsTyped
<1>8. CASE NavSend \/ ExploreDrive
  <2>1. SetVelocity(moves) \/ SetVelocity(TRUE) \/ SetVelocity(FALSE)
    BY <1>8 DEF NavSend, ExploreDrive
  <2>2. QED
    BY <1>0, <2>1, DriveIsTyped
<1>9. CASE ExploreTop \/ ExploreReadNav \/ ExploreClear \/ ExploreSettle \/ NavigateTo
           \/ ExploreCompleted
  BY <1>1, <1>9 DEF ExploreTop, ExploreReadNav, ExploreClear, ExploreSettle, NavigateTo,
     ExploreCompleted, mcVars
<1>10. CASE ExploreOff
  <2>1. \/ Disable
        \/ (UNCHANGED faults \/ Fails) /\ UNCHANGED <<enabled, wheels, missed>>
    BY <1>10 DEF ExploreOff
  <2>2. QED
    BY <1>0, <1>2, <2>1, DriveIsTyped
<1>11. CASE InitialScan
  <2>1. SetVelocity(TRUE) \/ EmergencyStop \/ UNCHANGED driveVars
    BY <1>11 DEF InitialScan
  <2>2. QED
    BY <1>0, <1>1, <2>1, DriveIsTyped
<1>12. CASE NextAction
  <2>1. \/ \E b \in BOOLEAN : SetVelocity(b)
        \/ Disable \/ EmergencyStop \/ UNCHANGED driveVars
    BY <1>12 DEF NextAction
  <2>2. QED
    BY <1>0, <1>1, <2>1, DriveIsTyped
<1>13. CASE WriteHangs
  BY <1>0, <1>2, <1>13 DEF WriteHangs
<1>14. QED
  BY <1>3, <1>4, <1>5, <1>6, <1>7, <1>8, <1>9, <1>10, <1>11, <1>12, <1>13
  DEF Next, NavStep, ExploreStep

LEMMA LidarTypesStep == Types /\ [Next]_vars => LidarTypes'
<1> SUFFICES ASSUME Types, [Next]_vars PROVE LidarTypes'
  OBVIOUS
<1>0. lidarOn \in BOOLEAN /\ lidarMissed \in BOOLEAN
  BY DEF Types, LidarTypes
<1>1. \/ UNCHANGED lidarVars \/ DisableLidar \/ EnableLidar(lidar) \/ EnableLidar(xlidar)
  BY DEF Next, NavStep, ExploreStep, ProcessCommand, Client, SlamStep, HandleCommand,
     ProcessLidar, ProcessSensorStatus, Signal, vars, mcVars,
     ProcessNavCommand, NavBusy, NavEnableLidar, NavEnableMotors, NavIdle, NavIdleElapsed,
     NavDisable, NavUpdate, NavSend, NavEnd,
     ExploreTop, ExploreHazard, ExploreReadNav, ExploreClear, ExploreSettle, ExploreOff,
     ExploreEnableLidar, ExploreEnableMotors, InitialScan, NextAction, NavigateTo,
     ExploreDrive, ExploreCompleted, ExploreEnd, WriteHangs
<1>2. lidarOn' \in BOOLEAN
  BY <1>0, <1>1 DEF lidarVars, DisableLidar, EnableLidar
<1>3. lidarMissed' \in BOOLEAN
  BY <1>0, <1>1, <1>2 DEF lidarVars, DisableLidar, EnableLidar
<1>4. QED
  BY <1>2, <1>3 DEF LidarTypes

LEMMA SharedTypesStep == Types /\ [Next]_vars => SharedTypes'
<1> SUFFICES ASSUME Types, [Next]_vars PROVE SharedTypes'
  OBVIOUS
<1>0. SharedTypes /\ GoodNav(nav)
  BY DEF Types, SharedTypes
<1>1. ASSUME UNCHANGED <<sharedVars, inputVars>> PROVE SharedTypes'
  BY <1>0, <1>1 DEF sharedVars, inputVars, SharedTypes, GoodNav
<1>2. CASE ProcessCommand
  BY <1>0, <1>2, ProcessCommandTypes
<1>3. CASE SlamStep \/ Signal \/ ProcessNavCommand
  BY <1>0, <1>3, SharedStepTypes
<1>4. CASE NavBusy \/ NavEnableLidar \/ NavEnableMotors \/ NavIdle \/ NavIdleElapsed
           \/ NavDisable \/ NavSend \/ NavEnd \/ WriteHangs \/ UNCHANGED vars
  BY <1>1, <1>4 DEF NavBusy, NavEnableLidar, NavEnableMotors, NavIdle, NavIdleElapsed,
     NavDisable, NavSend, NavEnd, WriteHangs, vars
<1>5. CASE ExploreTop \/ ExploreHazard \/ ExploreReadNav \/ ExploreOff \/ ExploreEnableLidar
           \/ ExploreEnableMotors \/ InitialScan \/ NextAction \/ ExploreDrive \/ ExploreEnd
  BY <1>1, <1>5 DEF ExploreTop, ExploreHazard, ExploreReadNav, ExploreOff, ExploreEnableLidar,
     ExploreEnableMotors, InitialScan, NextAction, ExploreDrive, ExploreEnd
<1>6. CASE NavUpdate
  <2>1. nav' \in UpdateStanding(nav, navMap, navHazard) \cup UpdateMoving(nav, navHazard)
    BY <1>6 DEF NavUpdate
  <2>2. GoodNav(nav') /\ nav'.targets <= nav.targets
    BY <1>0, <2>1, OutcomesAre
  <2>3. QED
    BY <1>0, <1>6, <2>2, NavStays DEF NavUpdate, inputVars, SharedTypes
<1>7. CASE ExploreClear \/ ExploreSettle
  <2>1. nav' = ClearTargets(nav) \/ nav' = To(nav, "idle")
    BY <1>7 DEF ExploreClear, ExploreSettle
  <2>2. nav.targets \in Nat
    BY <1>0, RecordsAre DEF GoodNav
  <2>3. GoodNav(nav') /\ nav'.targets <= nav.targets
    BY <1>0, <2>1, <2>2, TargetsAre
  <2>4. QED
    BY <1>0, <1>7, <2>3, NavStays DEF ExploreClear, ExploreSettle, inputVars, SharedTypes
<1>8. CASE NavigateTo
  <2>1. GoodNav(nav') /\ nav'.targets = 1
    <3>1. GoodNav(ClearTargets(nav)) /\ ClearTargets(nav).targets = 0
      BY <1>0, TargetsAre
    <3>2. QED
      BY <1>8, <3>1, TargetsAre DEF NavigateTo
  <2>2. UNCHANGED <<mode, map, hazard, running, inputVars>>
    BY <1>8 DEF NavigateTo
  <2>3. Len(navQ) <= commands /\ Len(navQ) \in Nat /\ commands \in Nat
    BY <1>0, LenProperties DEF SharedTypes
  <2>4. nav'.targets + Len(navQ) <= commands + 1
    BY <2>1, <2>3
  <2>5. GoodNav(nav)'
    BY <2>1 DEF GoodNav
  <2>6. QED
    BY <1>0, <2>2, <2>4, <2>5 DEF SharedTypes, inputVars
<1>9. CASE ExploreCompleted
  BY <1>0, <1>9 DEF ExploreCompleted, inputVars, SharedTypes, GoodNav
<1>10. QED
  BY <1>2, <1>3, <1>4, <1>5, <1>6, <1>7, <1>8, <1>9 DEF Next, NavStep, ExploreStep


LEMMA InitTypes == Init => Types
<1> SUFFICES ASSUME Init PROVE Types
  OBVIOUS
<1>0. MaxCommands \in Nat /\ MaxFaults \in Nat /\ 0 \in 0 .. MaxReplans
  BY DaemonAssumption, ReplansAssumption
<1>1. /\ nav \in NavRecords /\ nav.targets = 0 /\ nav.state = "idle"
      /\ slamQ \in Seq(SlamCommands) /\ navQ \in Seq(NavCommands)
      /\ Len(slamQ) = 0 /\ Len(navQ) = 0 /\ commands = 0
  BY <1>0 DEF Init, NoNavigation, NavRecords, NavStates, NavActive
<1>2. SharedTypes
  <2>1. GoodNav(nav) /\ nav.targets + Len(navQ) <= commands + 1 /\ commands \in 0 .. MaxCommands
    BY <1>0, <1>1 DEF GoodNav
  <2>2. Len(slamQ) <= commands /\ Len(navQ) <= commands
    BY <1>1
  <2>3. /\ mode \in {"disabled", "exploring", "complete"} /\ map \in BOOLEAN /\ hazard \in BOOLEAN
        /\ running \in BOOLEAN /\ slam \in {"idle", "mapping", "localizing"}
    BY DEF Init
  <2>4. QED
    BY <1>1, <2>1, <2>2, <2>3 DEF SharedTypes
<1>3. NavTypes /\ ExploreTypes
  BY DEF Init, NavTypes, NavSteps, ExploreTypes, ExploreSteps
<1>4. DriveTypes /\ LidarTypes
  <2>1. faults = 0 /\ faults \in 0 .. MaxFaults
    BY <1>0 DEF Init
  <2>2. /\ enabled \in BOOLEAN /\ wheels \in BOOLEAN /\ missed \in BOOLEAN
        /\ lidarOn \in BOOLEAN /\ lidarMissed \in BOOLEAN
    BY DEF Init
  <2>3. QED
    BY <2>1, <2>2 DEF DriveTypes, LidarTypes
<1>5. QED
  BY <1>2, <1>3, <1>4 DEF Types

LEMMA TypesStep == Types /\ [Next]_vars => Types'
BY SharedTypesStep, NavTypesStep, ExploreTypesStep, DriveTypesStep, LidarTypesStep DEF Types

\* However the threads, the client and the sensors interleave and whichever commands to
\* SangamIO fail, every variable has its type, no queue holds more commands than came,
\* and the target stack no more targets than were asked for, but for the one of the
\* exploration thread (navigation_thread.rs, exploration_thread.rs, motion_controller.rs).
THEOREM TypeCorrect == Spec => []TypeOK
<1>1. Types => TypeOK
  <2> SUFFICES ASSUME Types PROVE TypeOK
    OBVIOUS
  <2>1. /\ nav.targets \in Nat /\ Len(navQ) \in Nat /\ commands \in Nat /\ MaxCommands \in Nat
        /\ nav \in NavRecords
    BY RecordsAre, LenProperties, DaemonAssumption DEF Types, SharedTypes, GoodNav
  <2>2. nav.targets <= MaxCommands + 1
    BY <2>1 DEF Types, SharedTypes
  <2>3. QED
    BY <2>1, <2>2 DEF TypeOK, Types, SharedTypes, NavTypes, ExploreTypes, DriveTypes, LidarTypes
<1>2. QED
  BY <1>1, InitTypes, TypesStep, PTL DEF Spec

-----------------------------------------------------------------------------
(***************************************************************************)
(* The end: the two threads stop in either order, and each switches off    *)
(* what the other one cannot know of.                                      *)
(***************************************************************************)

\* What a stop leaves behind: a robot that stands, unless the stop itself was lost.
LEMMA HaltStops ==
  ASSUME DriveTypes, Halt
  PROVE  ~wheels' \/ missed'
BY DEF Halt, DriveTypes

LEMMA LidarIsOff ==
  ASSUME LidarTypes', DisableLidar
  PROVE  ~lidarOn' \/ lidarMissed'
BY DEF DisableLidar, LidarTypes

LEMMA LastStep == Types /\ LastInv /\ [Next]_vars => LastInv'
<1> SUFFICES ASSUME Types, LastInv, [Next]_vars PROVE LastInv'
  OBVIOUS
<1>0. /\ DriveTypes /\ LidarTypes /\ LidarTypes'
      /\ enabled \in BOOLEAN /\ lidarOn \in BOOLEAN /\ lidarMissed \in BOOLEAN
      /\ motors \in BOOLEAN /\ lidar \in BOOLEAN /\ wheels \in BOOLEAN /\ missed \in BOOLEAN
  BY LidarTypesStep DEF Types, DriveTypes, LidarTypes, NavTypes
<1>1. ASSUME UNCHANGED <<at, xat, motors, lidar, mcVars>> PROVE LastInv'
  BY <1>1 DEF LastInv, mcVars, driveVars, lidarVars
\* A thread that has not ended yet.
<1>2. ASSUME xat' # "done" PROVE LastInv'
  BY <1>2 DEF LastInv
<1>3. CASE ProcessCommand \/ SlamStep \/ Signal \/ ProcessNavCommand \/ UNCHANGED vars
  BY <1>1, <1>3 DEF ProcessCommand, Client, SlamStep, HandleCommand, ProcessLidar,
     ProcessSensorStatus, Signal, ProcessNavCommand, vars, navVars, xVars
<1>4. CASE NavBusy \/ NavIdle \/ NavIdleElapsed \/ NavUpdate
  <2>1. /\ UNCHANGED <<xat, motors, lidar, mcVars>>
        /\ at' # "done"
    BY <1>4 DEF NavBusy, NavIdle, NavIdleElapsed, NavUpdate, xVars, NavFlags, AfterEnabling
  <2>2. QED
    BY <2>1 DEF LastInv, mcVars, driveVars, lidarVars
<1>5. CASE NavEnableLidar
  <2>1. at' # "done" /\ UNCHANGED <<xat, motors>> /\ EnableLidar(lidar)
    BY <1>5 DEF NavEnableLidar, AfterEnabling, xVars
  <2>2. (xat = "done" => (enabled => motors)) => (xat' = "done" => (enabled' => motors'))
    BY <1>0, <2>1 DEF EnableLidar
  <2>3. (lidarOn' /\ lidar') \/ UNCHANGED <<lidarOn, lidarMissed, lidar>>
    BY <2>1 DEF EnableLidar, lidarVars
  <2>4. QED
    BY <2>1, <2>2, <2>3 DEF LastInv
<1>6. CASE NavEnableMotors
  <2>1. /\ at' # "done" /\ UNCHANGED <<xat, lidar, lidarOn, lidarMissed>> /\ Enable(motors)
    BY <1>6 DEF NavEnableMotors, AfterEnabling, xVars, lidarVars
  <2>2. (xat = "done" => (enabled => motors)) => (xat' = "done" => (enabled' => motors'))
    BY <1>0, <2>1 DEF Enable
  <2>3. QED
    BY <2>1, <2>2 DEF LastInv
<1>7. CASE NavDisable
  <2>1. at' # "done" /\ ~enabled' /\ UNCHANGED <<xat, lidar, lidarOn, lidarMissed>>
    BY <1>7 DEF NavDisable, Disable, xVars, lidarVars
  <2>2. QED
    BY <2>1 DEF LastInv
<1>8. CASE NavSend
  <2>1. at' # "done" /\ UNCHANGED <<xat, motors, lidar, lidarOn, lidarMissed>>
    BY <1>8 DEF NavSend, NavFlags, xVars, lidarVars
  <2>2. enabled' => enabled
    BY <1>0, <1>8 DEF NavSend, SetVelocity, driveVars
  <2>3. QED
    BY <2>1, <2>2 DEF LastInv
\* Ending, it disables the drive if it had enabled it, and stops the wheels anyway.
<1>9. CASE NavEnd
  <2>1. UNCHANGED <<xat, motors, lidar>> /\ Halt
    BY <1>9 DEF NavEnd, NavFlags, xVars, Disable, EmergencyStop
  <2>2. ~wheels' \/ missed'
    BY <1>0, <2>1, HaltStops
  <2>3. CASE xat = "done"
    <3>1. (enabled => motors) /\ (lidarOn => lidar \/ lidarMissed)
      BY <2>3 DEF LastInv
    <3>2. ~enabled'
      BY <1>0, <1>9, <3>1 DEF NavEnd, Disable, EmergencyStop
    <3>3. ~lidarOn' \/ lidarMissed'
      <4>1. CASE lidar
        BY <1>0, <1>9, <4>1, LidarIsOff DEF NavEnd
      <4>2. CASE ~lidar
        BY <1>0, <1>9, <3>1, <4>2 DEF NavEnd, lidarVars
      <4>3. QED
        BY <4>1, <4>2
    <3>4. QED
      BY <2>2, <3>2, <3>3 DEF LastInv
  <2>4. CASE xat # "done"
    BY <1>2, <2>1, <2>4
  <2>5. QED
    BY <2>3, <2>4
\* Ending, it disables both, whoever has enabled them.
<1>10. CASE ExploreEnd
  <2>1. ~enabled' /\ Halt /\ DisableLidar
    BY <1>10 DEF ExploreEnd, Disable
  <2>2. (~wheels' \/ missed') /\ (~lidarOn' \/ lidarMissed')
    BY <1>0, <2>1, HaltStops, LidarIsOff
  <2>3. QED
    BY <2>1, <2>2 DEF LastInv
<1>11. CASE ExploreStep /\ ~ExploreEnd
  <2>1. xat' # "done"
    BY <1>11 DEF ExploreStep, XGo, ExploreTop, ExploreHazard, ExploreReadNav, ExploreClear,
       ExploreSettle, ExploreOff, ExploreEnableLidar, ExploreEnableMotors, InitialScan,
       NextAction, NavigateTo, ExploreDrive, ExploreCompleted
  <2>2. QED
    BY <1>2, <2>1
\* A thread that hangs does not end, and nothing is switched.
<1>12. CASE WriteHangs
  <2>1. /\ UNCHANGED <<motors, lidar, lidarOn, lidarMissed, enabled, wheels, missed>>
        /\ \/ at' = "stuck" /\ UNCHANGED xat
           \/ xat' = "stuck" /\ UNCHANGED at
    BY <1>12 DEF WriteHangs, NavFlags, lidarVars
  <2>2. QED
    BY <2>1 DEF LastInv
<1>13. QED
  BY <1>3, <1>4, <1>5, <1>6, <1>7, <1>8, <1>9, <1>10, <1>11, <1>12 DEF Next, NavStep

\* Once both threads have ended, in whatever order and wherever the signal met them, the
\* robot stands, its drive is disabled and its lidar is off, but for a command that was
\* lost itself (navigation_thread.rs:491-502, exploration_thread.rs:555-563).
THEOREM StoppedAtTheEnd == Spec => []StoppedAtEnd
<1>1. Init => LastInv
  BY DEF Init, LastInv
<1>2. LastInv => StoppedAtEnd
  BY DEF LastInv, StoppedAtEnd
<1>3. QED
  BY <1>1, <1>2, InitTypes, TypesStep, LastStep, PTL DEF Spec
=============================================================================
