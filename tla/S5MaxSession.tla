---------------------------- MODULE S5MaxSession ----------------------------
(***************************************************************************)
(* What one MCU session of the S5 Max promises to the driver that owns it, *)
(* without the queue, the acknowledgements, the leases and the UART:       *)
(* nothing moves before the session is live, a session that ends stops     *)
(* what it set in motion, and one that could not do so ends with an error. *)
(* S5MaxMcu implements this specification; S5MaxDriver is built on it.     *)
(***************************************************************************)

VARIABLES
  phase,    \* "starting", "live", "ending", "stopped" or "over"
  moving,   \* some actuator is moving that no lost frame told to stop
  failed    \* the session's result is an error

session == <<phase, moving, failed>>

SessionTypeOK ==
  /\ phase \in {"starting", "live", "ending", "stopped", "over"}
  /\ moving \in BOOLEAN
  /\ failed \in BOOLEAN

SessionInit == phase = "starting" /\ moving = FALSE /\ failed = FALSE

\* The MCU is synchronized: startup_sender is told Ok.
Synchronize == phase = "starting" /\ phase' = "live" /\ UNCHANGED <<moving, failed>>

\* A command, a retry or the deadman, each of which may start or stop something.
Actuate ==
  /\ phase = "live"
  /\ moving' \in BOOLEAN
  /\ UNCHANGED <<phase, failed>>

\* The session loop ends, in the middle of a command perhaps.
Finish(error) ==
  /\ phase \in {"starting", "live"}
  /\ phase' = "ending" /\ failed' = error
  /\ moving' \in (IF phase = "live" THEN BOOLEAN ELSE {FALSE})

\* The whole stop set is written.
StopSucceeds ==
  /\ phase = "ending" /\ phase' = "stopped"
  /\ moving' = FALSE /\ UNCHANGED failed

\* A part of it is not, and that is an error; the guard may try once more.
StopFails ==
  /\ phase = "ending" /\ phase' \in {"ending", "stopped"}
  /\ moving' \in {moving, FALSE} /\ failed' = TRUE

\* The thread is over, and its result recorded.
Close == phase = "stopped" /\ phase' = "over" /\ UNCHANGED <<moving, failed>>

SessionNext ==
  \/ Synchronize \/ Actuate \/ \E e \in BOOLEAN : Finish(e)
  \/ StopSucceeds \/ StopFails \/ Close

SessionSpec == SessionInit /\ [][SessionNext]_session

=============================================================================
