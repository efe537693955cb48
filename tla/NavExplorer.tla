----------------------------- MODULE NavExplorer -----------------------------
(***************************************************************************)
(* The autonomous explorer of dhruva-nav                                   *)
(* (dhruva-nav/src/exploration/explorer.rs) with the path follower it      *)
(* drives (follower.rs): select a frontier of the known map, plan a path   *)
(* to it, follow it, recover when the robot is stuck, blacklist what       *)
(* cannot be reached, and go home when nothing is left.                    *)
(*                                                                         *)
(* One action is one call of update() that takes one of its branches.  The *)
(* grid, the planner and the pose are the environment: the detector may    *)
(* return any list of frontiers, a plan may fail, a timer may have run     *)
(* out, and the robot may be anywhere.                                     *)
(***************************************************************************)
EXTENDS Naturals, Sequences, FiniteSets

CONSTANTS
  Frontiers,        \* FrontierIds
  NoFrontier,       \* Option::None for one
  MaxFailures,      \* max_planning_failures
  MaxReplans,       \* max_replans_per_frontier
  MaxRecoveries,    \* max_recovery_attempts
  MaxExhaustions,   \* the 3 of select_frontier
  ReturnToStart     \* return_to_start

ASSUME LimitsAssumption ==
  {MaxFailures, MaxReplans, MaxRecoveries, MaxExhaustions} \subseteq Nat \ {0}
ASSUME FrontiersAssumption == IsFiniteSet(Frontiers) /\ NoFrontier \notin Frontiers
ASSUME ReturnAssumption == ReturnToStart \in BOOLEAN

VARIABLES
  state,         \* ExplorationState
  frontiers,     \* the list being worked on, best first
  idx,           \* current_frontier_idx, from 1
  current,       \* current_frontier_id
  failures,      \* planning_failures
  replans,       \* replan_count_for_frontier, no longer counted at its limit
  recoveries,    \* recovery_attempts_for_frontier
  blacklist,     \* blacklisted_frontiers
  permanent,     \* permanent_blacklist
  exhaustion,    \* exhaustion_count
  triedEscape,   \* tried_escape_for_exhausted
  phase,         \* recovery_phase
  path,          \* what the follower's path leads to
  finished,      \* FollowState::Complete
  moving,        \* the velocity update() returned is not zero
  athome         \* history: the mission ended at the start position

listVars  == <<frontiers, idx, current, failures, replans, recoveries>>
blackVars == <<blacklist, permanent, exhaustion, triedEscape>>
pathVars  == <<path, finished>>
vars == <<state, listVars, blackVars, phase, pathVars, moving, athome>>

Over   == {"Complete", "Failed"}
States == {"Idle", "SelectingFrontier", "Planning", "Navigating", "Replanning",
           "Recovering", "EscapingToRetry", "ReturningHome"} \cup Over

\* What detect() may return.
Detections ==
  {s \in UNION {[1 .. n -> Frontiers] : n \in 0 .. Cardinality(Frontiers)} :
     \A i, j \in DOMAIN s : s[i] = s[j] => i = j}

\* The entries of a list that are not in S, in their order.
Without(list, S) ==
  LET kept    == {i \in DOMAIN list : list[i] \notin S}
      rank(i) == Cardinality({j \in kept : j <= i})
  IN  [k \in 1 .. Cardinality(kept) |-> list[CHOOSE i \in kept : rank(i) = k]]

Init ==
  /\ state = "Idle" /\ frontiers = <<>> /\ idx = 1 /\ current = NoFrontier
  /\ failures = 0 /\ replans = 0 /\ recoveries = 0
  /\ blacklist = {} /\ permanent = {} /\ triedEscape = FALSE
  /\ exhaustion = [f \in Frontiers |-> 0]
  /\ phase = "Done" /\ path = "none" /\ finished = FALSE
  /\ moving = FALSE /\ athome = FALSE

(***************************************************************************)
(* The path follower.                                                      *)
(***************************************************************************)
SetPath(goal) == path' = goal /\ finished' = FALSE
ClearPath     == path' = "none" /\ finished' = FALSE

\* compute_velocity: drive, find the last segment reached and stand, or have
\* no path.
Follow ==
  /\ UNCHANGED path
  /\ finished' \in IF path = "none" THEN {FALSE} ELSE BOOLEAN
  /\ moving' = (path # "none" /\ ~finished')

Stand == moving' = FALSE

(***************************************************************************)
(* start() and selection.                                                  *)
(***************************************************************************)
\* Mutant of Start: also what is over may start again.
StartAgain ==
  /\ state \in {"Idle"} \cup Over
  /\ state' = "SelectingFrontier"
  /\ UNCHANGED <<listVars, blackVars, phase, pathVars, moving, athome>>

Start ==
  /\ state = "Idle"
  /\ state' = "SelectingFrontier"
  /\ UNCHANGED <<listVars, blackVars, phase, pathVars, moving, athome>>

NothingLeft == IF ReturnToStart THEN "ReturningHome" ELSE "Complete"

\* The end of select_frontier, with the frontiers it may work on.
Pursue(list) ==
  /\ frontiers' = list
  /\ \/ /\ list = <<>>
        /\ state' = NothingLeft
        /\ UNCHANGED <<idx, current, failures, replans, recoveries>>
     \/ /\ list # <<>>
        /\ state' = "Planning"
        /\ idx' = 1 /\ current' = Head(list)
        /\ failures' = 0 /\ replans' = 0 /\ recoveries' = 0
  /\ UNCHANGED <<pathVars>>

\* Mutant of Exhausted: what is given up for good is not filtered out.
ExhaustedUnfiltered(seen, black) ==
  LET counts == [f \in Frontiers |-> exhaustion[f] + IF f \in black THEN 1 ELSE 0]
      spent  == {f \in black : counts[f] >= MaxExhaustions}
  IN  /\ exhaustion' = [f \in Frontiers |-> IF f \in spent THEN 0 ELSE counts[f]]
      /\ blacklist' = {}
      /\ IF spent # {} /\ ~triedEscape
         THEN triedEscape' = TRUE /\ state' = "EscapingToRetry" /\ ClearPath
              /\ UNCHANGED <<listVars, permanent>>
         ELSE permanent' = permanent \cup spent /\ Pursue(seen) /\ UNCHANGED triedEscape

\* Mutant of Exhausted: an escape is allowed every time.
ExhaustedForever(seen, black) ==
  LET counts == [f \in Frontiers |-> exhaustion[f] + IF f \in black THEN 1 ELSE 0]
      spent  == {f \in black : counts[f] >= MaxExhaustions}
  IN  /\ exhaustion' = counts /\ blacklist' = {}
      /\ IF spent # {}
         THEN state' = "EscapingToRetry" /\ ClearPath /\ UNCHANGED listVars
         ELSE Pursue(Without(seen, permanent))
      /\ UNCHANGED <<permanent, triedEscape>>

\* Every frontier in sight is blacklisted: one more round of exhaustion.
Exhausted(seen, black) ==
  LET counts == [f \in Frontiers |-> exhaustion[f] + IF f \in black THEN 1 ELSE 0]
      spent  == {f \in black : counts[f] >= MaxExhaustions}
  IN  /\ exhaustion' = counts
      /\ blacklist' = {}
      /\ \/ /\ spent # {} /\ ~triedEscape
            /\ triedEscape' = TRUE
            /\ state' = "EscapingToRetry"
            /\ ClearPath
            /\ UNCHANGED <<listVars, permanent>>
         \/ /\ spent = {} \/ triedEscape
            /\ permanent' = permanent \cup spent
            /\ Pursue(Without(seen, permanent'))
            /\ UNCHANGED triedEscape

\* select_frontier; "expired" are the entries whose cool-down is over.
Select(expired) ==
  /\ state = "SelectingFrontier"
  /\ \E seen \in Detections :
       LET black     == blacklist \ expired
           available == Without(seen, black \cup permanent)
       IN  \/ /\ available = <<>> /\ black # {}
              /\ Exhausted(seen, black)
           \/ /\ available # <<>> \/ black = {}
              /\ blacklist' = black
              /\ Pursue(available)
              /\ UNCHANGED <<permanent, exhaustion, triedEscape>>
  /\ Stand
  /\ UNCHANGED <<phase, athome>>

SelectFresh == Select({})
SelectExpired == \E expired \in SUBSET blacklist : expired # {} /\ Select(expired)

(***************************************************************************)
(* Planning.  plan_path skips frontiers without a reachable point or with  *)
(* a degenerate path until one can be tried; "rest" is what happens to the *)
(* follower when no path is found.                                         *)
(***************************************************************************)
\* Mutant of PlanPath: the limit counts one failed plan too many.
PlanPathOneMore(rest) ==
  /\ \E i \in idx .. Len(frontiers) + 1 :
       \/ i > Len(frontiers) /\ idx' = i /\ state' = "Failed" /\ rest /\ UNCHANGED failures
       \/ i <= Len(frontiers) /\ idx' = i /\ state' = "Navigating" /\ failures' = 0
          /\ SetPath("frontier")
       \/ i <= Len(frontiers) /\ state' = "Planning" /\ rest
          /\ IF failures >= MaxFailures
             THEN idx' = i + 1 /\ failures' = 0
             ELSE idx' = i /\ failures' = failures + 1
  /\ Stand
  /\ UNCHANGED <<frontiers, current, replans, recoveries, blackVars, phase, athome>>

PlanPath(rest) ==
  /\ \E i \in idx .. Len(frontiers) + 1 :
       \/ /\ i > Len(frontiers)                     \* all were tried
          /\ idx' = i /\ state' = "Failed"
          /\ rest /\ UNCHANGED failures
       \/ /\ i <= Len(frontiers)                    \* a path was found
          /\ idx' = i /\ state' = "Navigating"
          /\ failures' = 0 /\ SetPath("frontier")
       \/ /\ i <= Len(frontiers)                    \* no path to this one
          /\ state' = "Planning"
          /\ IF failures + 1 >= MaxFailures
             THEN idx' = i + 1 /\ failures' = 0
             ELSE idx' = i /\ failures' = failures + 1
          /\ rest
  /\ Stand
  /\ UNCHANGED <<frontiers, current, replans, recoveries, blackVars, phase, athome>>

Plan   == state = "Planning" /\ PlanPath(UNCHANGED pathVars)
Replan == state = "Replanning" /\ PlanPath(ClearPath)

(***************************************************************************)
(* Navigating: the branches of navigate() in their order.                  *)
(***************************************************************************)
Arrive ==
  /\ state = "Navigating" /\ finished
  /\ state' = "SelectingFrontier"
  /\ Stand
  /\ UNCHANGED <<listVars, blackVars, phase, pathVars, athome>>

StartRecovery == state' = "Recovering" /\ phase' = "BackingUp" /\ ClearPath

Stuck ==
  /\ state = "Navigating" /\ ~finished
  /\ StartRecovery /\ Stand
  /\ UNCHANGED <<listVars, blackVars, athome>>

TimedOut ==
  /\ state = "Navigating" /\ ~finished
  /\ path # "none"                                  \* goal() is Some
  /\ blacklist' = blacklist \cup ({current} \ {NoFrontier})
  /\ state' = "SelectingFrontier"
  /\ ClearPath /\ Stand
  /\ UNCHANGED <<listVars, permanent, exhaustion, triedEscape, phase, athome>>

\* Inside the robot radius: replan, with the old path still in the follower.
TooClose ==
  /\ state = "Navigating" /\ ~finished
  /\ state' = "Replanning"
  /\ Stand
  /\ UNCHANGED <<listVars, blackVars, phase, pathVars, athome>>

\* Driving forward, and the cell ahead is not traversable.
Blocked ==
  /\ state = "Navigating" /\ ~finished
  /\ path # "none"
  /\ replans' = IF replans < MaxReplans THEN replans + 1 ELSE replans
  /\ \/ replans + 1 >= MaxReplans /\ StartRecovery
     \/ replans + 1 < MaxReplans /\ state' = "Replanning" /\ ClearPath /\ UNCHANGED phase
  /\ Stand
  /\ UNCHANGED <<frontiers, idx, current, failures, recoveries, blackVars, athome>>

\* No refresh is due, or it still finds frontiers.
Drive ==
  /\ state = "Navigating" /\ ~finished
  /\ Follow
  /\ \/ UNCHANGED frontiers
     \/ \E seen \in Detections \ {<<>>} :
          frontiers' = IF frontiers = <<>> THEN seen ELSE frontiers
  /\ UNCHANGED <<state, idx, current, failures, replans, recoveries, blackVars, phase, athome>>

\* A refresh finds the map explored: the velocity is returned all the same.
MapExplored ==
  /\ state = "Navigating" /\ ~finished
  /\ state' = NothingLeft
  /\ IF ReturnToStart THEN ClearPath /\ moving' \in BOOLEAN ELSE Follow
  /\ UNCHANGED <<listVars, blackVars, phase, athome>>

(***************************************************************************)
(* Recovery: back up, rotate, and try again or give the frontier up.       *)
(***************************************************************************)
InPhase(p) == state = "Recovering" /\ phase = p

Manoeuvre ==
  /\ InPhase("BackingUp") \/ InPhase("Rotating")
  /\ moving' = TRUE
  /\ UNCHANGED <<state, listVars, blackVars, phase, pathVars, athome>>

BackedUp ==
  /\ InPhase("BackingUp")
  /\ phase' = "Rotating"
  /\ Stand
  /\ UNCHANGED <<state, listVars, blackVars, pathVars, athome>>

Rotated ==
  /\ InPhase("Rotating")
  /\ phase' = "Done"
  /\ recoveries' = recoveries + 1
  /\ \/ /\ recoveries' >= MaxRecoveries
        /\ blacklist' = blacklist \cup ({current} \ {NoFrontier})
        /\ state' = "SelectingFrontier"
     \/ /\ recoveries' < MaxRecoveries
        /\ state' = "Replanning"
        /\ UNCHANGED blacklist
  /\ Stand
  /\ UNCHANGED <<frontiers, idx, current, failures, replans, permanent, exhaustion,
                 triedEscape, pathVars, athome>>

(***************************************************************************)
(* Escaping to the start to retry from there.  start_pose is always set    *)
(* here: start() is what leaves Idle.                                      *)
(***************************************************************************)
Forgive ==
  /\ exhaustion' = [f \in Frontiers |-> 0]
  /\ blacklist' = {}
  /\ state' = "SelectingFrontier"
  /\ UNCHANGED <<permanent, triedEscape>>

Escaped ==
  /\ state = "EscapingToRetry"
  /\ Forgive /\ Stand
  /\ UNCHANGED <<listVars, phase, pathVars, athome>>

EscapeDrive ==
  /\ state = "EscapingToRetry"
  /\ path # "none" /\ ~finished
  /\ Follow
  /\ UNCHANGED <<state, listVars, blackVars, phase, athome>>

\* Not there yet and nothing left to follow.  A plan within one cell has no
\* segments, and the follower no path.
EscapePlan ==
  /\ state = "EscapingToRetry"
  /\ path = "none" \/ finished
  /\ \/ SetPath("home") /\ UNCHANGED <<state, blackVars>>
     \/ ClearPath /\ UNCHANGED <<state, blackVars>>
     \/ ClearPath /\ Forgive
  /\ Stand
  /\ UNCHANGED <<listVars, phase, athome>>

(***************************************************************************)
(* Going home.                                                             *)
(***************************************************************************)
AtHome ==
  /\ state = "ReturningHome"
  /\ state' = "Complete" /\ athome' = TRUE
  /\ Stand
  /\ UNCHANGED <<listVars, blackVars, phase, pathVars>>

\* Away from home, but the follower has finished its path.
HomePathDone ==
  /\ state = "ReturningHome" /\ finished
  /\ state' = "Complete" /\ athome' = (path = "home")
  /\ Stand
  /\ UNCHANGED <<listVars, blackVars, phase, pathVars>>

HomeDrive ==
  /\ state = "ReturningHome"
  /\ path # "none" /\ ~finished
  /\ Follow
  /\ UNCHANGED <<state, listVars, blackVars, phase, athome>>

HomePlan ==
  /\ state = "ReturningHome" /\ path = "none"
  /\ \/ SetPath("home") /\ UNCHANGED state
     \/ ClearPath /\ UNCHANGED state
     \/ state' = "Failed" /\ UNCHANGED pathVars
  /\ Stand
  /\ UNCHANGED <<listVars, blackVars, phase, athome>>

\* update() before start() and after the end.
Rest ==
  /\ state \in {"Idle"} \cup Over
  /\ Stand
  /\ UNCHANGED <<state, listVars, blackVars, phase, pathVars, athome>>

Update ==
  \/ SelectFresh \/ SelectExpired \/ Plan \/ Replan
  \/ Arrive \/ Stuck \/ TimedOut \/ TooClose \/ Blocked \/ Drive \/ MapExplored
  \/ Manoeuvre \/ BackedUp \/ Rotated
  \/ Escaped \/ EscapeDrive \/ EscapePlan
  \/ AtHome \/ HomePathDone \/ HomeDrive \/ HomePlan

Next == Start \/ Update \/ Rest

Spec == Init /\ [][Next]_vars

(***************************************************************************)
(* Fairness.  The thread calls update() every 50 ms.  A navigation ends:   *)
(* the stuck window (3 s) and the progress timer (60 s) run on through     *)
(* replans.  The robot backs up, turns and drives when told to, so a       *)
(* recovery and a way home end; and a plan home is not degenerate for      *)
(* ever.                                                                   *)
(***************************************************************************)
PathEnds == finished' /\ ~finished

NavigationEnds == Stuck \/ TimedOut \/ (Drive /\ PathEnds)
RobotObeys     == BackedUp \/ Rotated \/ Escaped
                  \/ AtHome \/ (HomeDrive /\ PathEnds)
PlansHome      == HomePlan /\ (path' = "home" \/ state' = "Failed")

Fairness ==
  /\ WF_vars(Start) /\ WF_vars(Update)
  /\ SF_vars(NavigationEnds) /\ WF_vars(RobotObeys) /\ SF_vars(PlansHome)

FairSpec == Spec /\ Fairness

-----------------------------------------------------------------------------
TypeOK ==
  /\ state \in States
  /\ frontiers \in Detections /\ idx \in 1 .. Cardinality(Frontiers) + 1
  /\ current \in Frontiers \cup {NoFrontier}
  /\ failures \in 0 .. MaxFailures - 1
  /\ replans \in 0 .. MaxReplans /\ recoveries \in 0 .. MaxRecoveries
  /\ blacklist \subseteq Frontiers /\ permanent \subseteq Frontiers
  /\ exhaustion \in [Frontiers -> 0 .. MaxExhaustions]
  /\ triedEscape \in BOOLEAN
  /\ phase \in {"BackingUp", "Rotating", "Done"}
  /\ path \in {"none", "frontier", "home"} /\ finished \in BOOLEAN
  /\ moving \in BOOLEAN /\ athome \in BOOLEAN

\* A frontier given up for good is never worked on again, whatever order
\* detections, expiries, recoveries and the one escape come in; and none is
\* given up before the robot has escaped and retried from elsewhere
\* (select_frontier, explorer.rs:384-424).
GivenUpStaysGone ==
  /\ permanent # {} => triedEscape
  /\ \A i \in DOMAIN frontiers : frontiers[i] \notin permanent

\* While the robot is under way there is a path to follow, a goal for the
\* progress timer and a frontier to blame, the first of the list even when
\* another is being tried; and a recovery is never entered in phase Done.  So
\* the branches at explorer.rs:775 and 1170 are dead, and navigate() cannot
\* stand for ever without a path.
UnderWayHasTarget ==
  /\ state = "Navigating" => path = "frontier" /\ idx <= Len(frontiers)
  /\ state = "Recovering" => phase # "Done"
  /\ state \in {"Planning", "Navigating", "Replanning", "Recovering"} =>
       frontiers # <<>> /\ current = frontiers[1]

\* With return_to_start a completed mission ended at the start position, or with
\* the finished path to the last frontier still in the follower: reached frontiers
\* do not clear it, and return_home takes it for the way home (explorer.rs:595-605,
\* 830-840).
EndsAtHome == ReturnToStart /\ state = "Complete" => athome \/ path = "frontier"

\* What the explorer works on, and where it leaves the robot, is sound.
WorkIsSound == GivenUpStaysGone /\ UnderWayHasTarget /\ EndsAtHome

\* The exploration comes to an end, given that from some time on no frontier
\* is reached that is still one afterwards and no blacklisting expires before
\* the others are tried: what cannot be reached is failed, blacklisted, retried
\* once from the start and given up.
Settles == <>[][~Arrive /\ ~SelectExpired]_vars
ExplorationEnds == Settles => <>(state \in Over)

\* The explorer implements the mission its thread relies on.
Mission == INSTANCE NavMission WITH
  mission <- IF state = "Idle" THEN "idle" ELSE IF state \in Over THEN "over" ELSE "busy"
ImplementsMission == Mission!MissionSpec
=============================================================================
