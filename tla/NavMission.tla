----------------------------- MODULE NavMission -----------------------------
(***************************************************************************)
(* What dhruva-nav's exploration thread may rely on of its explorer        *)
(* (dhruva-nav/src/exploration/explorer.rs): one call of start(), then     *)
(* calls of update() that each return a velocity, until is_complete().     *)
(* NavExplorer implements it, NavThreads uses it.                          *)
(***************************************************************************)

VARIABLES
  mission,   \* "idle" before start(), "busy", "over" once is_complete()
  moving     \* the velocity the last update() returned is not zero

mission_vars == <<mission, moving>>

MissionType == mission \in {"idle", "busy", "over"} /\ moving \in BOOLEAN

MissionInit == mission = "idle" /\ moving = FALSE

Begin == mission = "idle" /\ mission' = "busy" /\ UNCHANGED moving

\* One update().  The last one may still return a velocity: a refresh that
\* finds the map explored ends the mission after the velocity was computed.
Advance ==
  /\ mission = "busy"
  /\ mission' \in {"busy", "over"}
  /\ moving' \in BOOLEAN

\* update() of an explorer that has not started, or is done, moves nothing.
Rest == mission \in {"idle", "over"} /\ moving' = FALSE /\ UNCHANGED mission

MissionNext == Begin \/ Advance \/ Rest

MissionSpec == MissionInit /\ [][MissionNext]_mission_vars
=============================================================================
