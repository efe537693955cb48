--------------------------- MODULE SlamNavigation ---------------------------
(***************************************************************************)
(* The target stack of dhruva-slam and the navigator that works it off     *)
(* (navigation/state.rs, navigation/navigator.rs), as operators on the     *)
(* record the threads share under the lock of SharedState.                 *)
(*                                                                         *)
(* Abstracted: a target is one of a number of them, and geometry a free    *)
(* choice: whether a path is found, a waypoint or the goal reached, an     *)
(* escape or a rotation over, the robot stuck.  The path itself is left    *)
(* out: planning precedes following, so there is always a waypoint.        *)
(***************************************************************************)
EXTENDS Naturals

CONSTANT MaxReplans    \* max_replan_attempts (3 in the code)

ASSUME ReplansAssumption == MaxReplans \in Nat

NavActive == {"planning", "navigating", "escaping", "rotating"}
NavStates == NavActive \cup {"idle", "reached", "failed", "cancelled"}

\* No plan is made, so none is asked for again, once the limit is reached.
NavRecords == [state : NavStates, targets : Nat, attempts : 0 .. MaxReplans]

NoNavigation == [state |-> "idle", targets |-> 0, attempts |-> 0]

IsActive(nav) == nav.state \in NavActive \/ nav.targets > 0

\* Only the first target asks for a plan: one that is pushed behind a failed
\* one leaves the state Failed.
PushTarget(nav) ==
  [nav EXCEPT !.targets = @ + 1, !.state = IF nav.targets = 0 THEN "planning" ELSE @]

PopTarget(nav) ==
  IF nav.targets > 1
  THEN [state |-> "planning", targets |-> nav.targets - 1, attempts |-> 0]
  ELSE [nav EXCEPT !.targets = 0, !.state = "idle"]

ClearTargets(nav) == [state |-> "cancelled", targets |-> 0, attempts |-> 0]

RequestReplan(nav) == [nav EXCEPT !.state = "planning", !.attempts = @ + 1]

To(nav, state) == [nav EXCEPT !.state = state]

\* complete_target
Completed(nav) ==
  LET popped == PopTarget(nav)
  IN IF popped.targets > 0 THEN popped ELSE To(popped, "reached")

(***************************************************************************)
(* update: what one call may make of the record.  Every outcome but those  *)
(* of UpdateMoving returns the velocity zero.                              *)
(***************************************************************************)
\* Mutant of PlanOutcomes: attempts are not limited.
PlanOutcomesUnlimited(nav, map) ==
  IF nav.targets = 0 THEN {To(nav, "idle")}
  ELSE {To(nav, "failed")} \cup (IF map THEN {To(nav, "navigating")} ELSE {})

PlanOutcomes(nav, map) ==
  IF nav.attempts >= MaxReplans THEN {To(nav, "failed")}
  ELSE IF nav.targets = 0 THEN {To(nav, "idle")}
  ELSE {To(nav, "failed")} \cup (IF map THEN {To(nav, "navigating")} ELSE {})

\* The goal is reached, needs its heading, or the robot is stuck.
FollowOutcomes(nav) ==
  IF nav.targets = 0 THEN {To(nav, "idle")}
  ELSE {Completed(nav), To(nav, "rotating"), To(nav, "failed")}

RotateOutcomes(nav) ==
  IF nav.targets = 0 THEN {To(nav, "idle")} ELSE {Completed(nav)}

\* Mutant of EscapeOutcomes: an escape does not count as an attempt.
EscapeOutcomesForgiven(nav) == {To(nav, "planning")}

EscapeOutcomes(nav) == {RequestReplan(nav)}

UpdateStanding(nav, map, hazard) ==
  CASE hazard /\ nav.state = "navigating" -> {}
    [] nav.state = "planning"             -> PlanOutcomes(nav, map)
    [] ~hazard /\ nav.state = "navigating" -> FollowOutcomes(nav)
    [] nav.state = "rotating"             -> RotateOutcomes(nav)
    [] nav.state = "escaping"             -> EscapeOutcomes(nav)
    [] OTHER                              -> {nav}

\* A hazard starts an escape only while a path is followed.
UpdateMoving(nav, hazard) ==
  CASE hazard /\ nav.state = "navigating"              -> {To(nav, "escaping")}
    [] ~hazard /\ nav.state = "navigating" /\ nav.targets > 0 -> {nav}
    [] nav.state = "rotating" /\ nav.targets > 0       -> {nav}
    [] nav.state = "escaping"                          -> {nav}
    [] OTHER                                           -> {}
=============================================================================
