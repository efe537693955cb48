------------------------------ MODULE S5MaxMcu ------------------------------
(***************************************************************************)
(* The MCU session of the Roborock S5 Max driver: the thread that owns the *)
(* main UART (sangamio/src/devices/roborock_s5max/mcu.rs), the driver call *)
(* that hands it a command and waits for the answer, the tracker that      *)
(* re-sends unacknowledged frames, and the target and lease state of       *)
(* safety.rs.                                                              *)
(*                                                                         *)
(* Three parties run concurrently: the caller (a TCP receiver inside the   *)
(* driver mutex, so one at a time), the worker, and the MCU behind a UART  *)
(* that may lose any frame, whether the driver asks for an acknowledgement *)
(* of it or not.  The deadlines of the code are not measured: each is a    *)
(* point that may pass at any moment after it was armed, which covers      *)
(* every schedule of the two threads.                                      *)
(***************************************************************************)
EXTENDS Naturals, Sequences, FiniteSets

CONSTANTS
  Cleaners,        \* fan, main brush, side brush: set by acknowledged frames
  MaxLevel,        \* the largest target an actuator is given (100 in the code)
  Commands,        \* the commands this instance issues
  Seqs,            \* transmit sequence numbers (1..255 in the code)
  QueueCap,        \* COMMAND_QUEUE_CAPACITY (8 in the code)
  MaxAttempts,     \* MAX_SYNC_ATTEMPTS (3 in the code)
  AllowActuation   \* the configuration's allow_actuation

Wheels    == "wheels"
Aux       == "aux"      \* no actuator: subsystem enables and the charger relay
Actuators == Cleaners \cup {Wheels}
Levels    == 0 .. MaxLevel

\* Every command the driver can ask of the worker.  A drive velocity is
\* reduced to its level (0 is "linear and angular are both zero"); "plain"
\* stands for the commands that are one unacknowledged frame with no effect
\* on an actuator of the model (WakeMcu, WaterPump off).
AllCommands ==
       [op : {"drive"}, act : {Wheels}, level : Levels]
  \cup [op : {"motor"}, act : Cleaners, level : Levels]
  \cup [op : {"stop_drive", "estop", "plain", "enable", "charger"},
        act : {Aux}, level : {0}]

ASSUME ConstantsAssumption ==
  /\ Wheels \notin Cleaners
  /\ Aux \notin Cleaners
  /\ MaxLevel \in Nat \ {0}
  /\ Commands \subseteq AllCommands
  /\ Commands # {}
  /\ QueueCap \in Nat \ {0}
  /\ MaxAttempts \in Nat \ {0}
  /\ AllowActuation \in BOOLEAN

VARIABLES
  \* --- the caller
  at,           \* where execute() is
  cmd,          \* the command it carries
  outcome,      \* how the last execute() ended
  reply,        \* content of the one-slot reply channel
  \* --- shared between caller and worker
  queue,        \* the bounded command channel
  acks,         \* CommandAckTracker.states
  \* --- the worker
  wpc,          \* phase of the session loop
  failed,       \* the session ends with an error
  startup,      \* what startup_sender has been told
  syncAcked, snapshot,
  deadline,     \* safety_report_deadline
  driveActive,  \* McuSafetyGuard.drive_active
  \* --- SafetyController and Lifecycle
  target, lease,
  reports,      \* Lifecycle.last_safety_report
  state,        \* Lifecycle.state
  shutdown,     \* the driver-wide shutdown flag
  owner,        \* where initialize, then shutdown_all, is
  raising,      \* another worker has recorded a fault and raises the flag next
  \* --- the MCU
  out,          \* what each actuator does: the last level the MCU received
  \* --- history, for the properties
  stray,        \* actuators last moved by the retry of an abandoned request
  missed,       \* actuators that a lost frame, sent without acknowledgement,
                \* should have brought to another level
  halted        \* an emergency stop ran and no non-zero command ran since

callerVars == <<at, cmd, outcome, reply>>
sessionVars == <<startup, syncAcked, snapshot, deadline>>
driveVars == <<driveActive, target, lease>>
mcuVars == <<out, stray, missed, halted>>
lifeVars == <<reports, state, shutdown, owner, raising>>
vars == <<callerVars, queue, acks, wpc, failed, sessionVars, driveVars,
          lifeVars, mcuVars>>

-----------------------------------------------------------------------------
(* The acknowledgement tracker: one slot per sequence number.  A slot with *)
(* no attempts is free.  "owned" says that a caller still waits for it;    *)
(* "got" is the MCU's side: it has received the frame.                     *)

Slot == [act : Cleaners \cup {Aux}, level : Levels, attempts : 0 .. MaxAttempts,
         got : BOOLEAN, acked : BOOLEAN, owned : BOOLEAN]

Free == [act |-> Aux, level |-> 0, attempts |-> 0,
         got |-> FALSE, acked |-> FALSE, owned |-> FALSE]

FreeSeqs == {s \in Seqs : acks[s] = Free}

Expect(act, level, got, owned) ==
  [act |-> act, level |-> level, attempts |-> 1,
   got |-> got, acked |-> FALSE, owned |-> owned]

\* An entry nobody waits for stays in the code's map, but it can change nothing
\* more once it is acknowledged or out of attempts, nor can one whose frame moves
\* no actuator: the model frees these.
Settle(e) ==
  IF ~e.owned /\ (e.act = Aux \/ e.acked \/ e.attempts = MaxAttempts) THEN Free ELSE e

Owned   == {s \in Seqs : acks[s].owned}

\* Mutant of Missing: one acknowledgement of several is taken for all.
MissingUnlessAny == {s \in Owned : \A r \in Owned : ~acks[r].acked}

Missing == {s \in Owned : ~acks[s].acked}

Request == [cmd : Commands, abandoned : BOOLEAN]
AnyCommand == CHOOSE c \in Commands : TRUE   \* cmd while no call runs

Looping == wpc \in {"drain", "tend", "read"}

-----------------------------------------------------------------------------
TypeOK ==
  /\ at \in {"idle", "send", "reply", "acks"}
  /\ cmd \in Commands
  /\ outcome \in {"none", "ok", "not_sent", "no_reply", "worker_error",
                  "ack_timeout", "ack_exhausted"}
  /\ reply \in {"empty", "ok", "error"}
  /\ queue \in Seq(Request)
  /\ Len(queue) <= QueueCap
  /\ acks \in [Seqs -> Slot]
  /\ wpc \in {"drain", "tend", "read", "stop", "drop", "exit", "done"}
  /\ failed \in BOOLEAN
  /\ startup \in {"waiting", "ok", "failed"}
  /\ syncAcked \in BOOLEAN
  /\ snapshot \in BOOLEAN
  /\ deadline \in {"none", "armed", "passed"}
  /\ driveActive \in BOOLEAN
  /\ target \in [Actuators -> Levels]
  /\ lease \in {"none", "armed", "due"}
  /\ reports \in {"none", "fresh", "stale"}
  /\ state \in {"synchronizing", "operational", "stopping", "stopped", "fault"}
  /\ shutdown \in BOOLEAN
  /\ owner \in {"starting", "set_operational", "ready", "set_stopping", "join", "over"}
  /\ raising \in BOOLEAN
  /\ out \in [Actuators -> Levels]
  /\ stray \subseteq Actuators
  /\ missed \subseteq Actuators
  /\ halted \in BOOLEAN

\* The worker has just written its first heartbeat and sensor-sync query.
Init ==
  /\ at = "idle" /\ cmd = AnyCommand /\ outcome = "none" /\ reply = "empty"
  /\ queue = <<>>
  /\ acks = [s \in Seqs |-> Free]
  /\ wpc = "drain" /\ failed = FALSE
  /\ startup = "waiting" /\ syncAcked = FALSE
  /\ snapshot = FALSE /\ deadline = "none"
  /\ driveActive = FALSE
  /\ target = [a \in Actuators |-> 0] /\ lease = "none"
  /\ reports = "none" /\ state = "synchronizing" /\ shutdown = FALSE
  /\ owner = "starting" /\ raising = FALSE
  /\ out = [a \in Actuators |-> 0]
  /\ stray = {} /\ missed = {} /\ halted = FALSE

-----------------------------------------------------------------------------
(* The caller: RoborockS5MaxDriver::execute_actuator, then                 *)
(* McuDriver::execute.                                                     *)

NonZero(c) == c.level # 0

\* execute_actuator asks nonzero_allowed first for these.  (For the charger too
\* when a client asks, but not in prepare_operational_subsystems or shutdown_all.)
Gated(c) == NonZero(c)

\* Mutant of NonzeroAllowed: the age of the last state report is not looked at.
NonzeroAllowedStale == AllowActuation /\ state = "operational"

NonzeroAllowed ==
  /\ AllowActuation
  /\ state = "operational"
  /\ reports = "fresh"

\* A command passes the gate.  Nothing is locked between this check and the
\* send below, nor between the send and the worker's execution.
Issue(c) ==
  /\ at = "idle" /\ owner = "ready"
  /\ Gated(c) => NonzeroAllowed
  /\ at' = "send" /\ cmd' = c /\ reply' = "empty" /\ outcome' = "none"
  /\ UNCHANGED <<queue, acks, wpc, failed, sessionVars, driveVars,
                 lifeVars, mcuVars>>

\* Mutant of Send: the channel is not bounded.
SendUnbounded ==
  /\ at = "send" /\ Looping
  /\ queue' = Append(queue, [cmd |-> cmd, abandoned |-> FALSE])
  /\ at' = "reply"
  /\ UNCHANGED <<cmd, outcome, reply, acks, wpc, failed, sessionVars, driveVars,
                 lifeVars, mcuVars>>

\* The receiving end lives as long as the guarded loop.
Send ==
  /\ at = "send" /\ Looping /\ Len(queue) < QueueCap
  /\ queue' = Append(queue, [cmd |-> cmd, abandoned |-> FALSE])
  /\ at' = "reply"
  /\ UNCHANGED <<cmd, outcome, reply, acks, wpc, failed, sessionVars, driveVars,
                 lifeVars, mcuVars>>

Return(result) == at' = "idle" /\ cmd' = AnyCommand /\ outcome' = result

\* send_timeout: the queue stayed full, or the worker is gone.
SendFails ==
  /\ at = "send"
  /\ ~Looping \/ Len(queue) = QueueCap
  /\ Return("not_sent")
  /\ UNCHANGED <<reply, queue, acks, wpc, failed, sessionVars, driveVars,
                 lifeVars, mcuVars>>

TakeReply ==
  /\ at = "reply" /\ reply # "empty"
  /\ reply' = "empty"
  /\ IF reply = "ok" THEN at' = "acks" /\ UNCHANGED <<cmd, outcome>>
                     ELSE Return("worker_error")
  /\ UNCHANGED <<queue, acks, wpc, failed, sessionVars, driveVars,
                 lifeVars, mcuVars>>

\* recv_timeout gives up after 200 ms, or finds the channel disconnected.  The
\* request is not withdrawn: it stays in the queue for the worker to execute.
ReplyTimeout ==
  /\ at = "reply" /\ reply = "empty"
  /\ Return("no_reply")
  /\ queue' = [i \in DOMAIN queue |-> [queue[i] EXCEPT !.abandoned = TRUE]]
  /\ UNCHANGED <<reply, acks, wpc, failed, sessionVars, driveVars,
                 lifeVars, mcuVars>>

\* Mutant of WaitForAll: a wait that times out leaves its entries in the tracker.
WaitForAllLeaving ==
  /\ at = "acks"
  /\ IF Missing = {}
     THEN Return("ok") /\ acks' = [s \in Seqs |-> IF s \in Owned THEN Free ELSE acks[s]]
     ELSE Return("ack_timeout") /\ UNCHANGED acks
  /\ UNCHANGED <<reply, queue, wpc, failed, sessionVars, driveVars,
                 lifeVars, mcuVars>>

\* wait_for_all: every sequence acknowledged, or 200 ms are over.  Either way
\* the entries leave the tracker.
WaitForAll ==
  /\ at = "acks"
  /\ acks' = [s \in Seqs |-> IF s \in Owned THEN Free ELSE acks[s]]
  /\ \/ Missing = {} /\ Return("ok")
     \/ /\ Missing # {}
        /\ Return(IF \E s \in Missing : acks[s].attempts = MaxAttempts
                  THEN "ack_exhausted" ELSE "ack_timeout")
  /\ UNCHANGED <<reply, queue, wpc, failed, sessionVars, driveVars,
                 lifeVars, mcuVars>>

-----------------------------------------------------------------------------
(* The worker.                                                             *)

\* The loop ends: the receiver is dropped, and with it the queued requests.
EndLoop(error) == wpc' = "stop" /\ failed' = error /\ queue' = <<>>

EnablesWheels(c) == c.op = "drive" /\ NonZero(c) /\ ~driveActive
EnablesFirst(c)  == EnablesWheels(c) \/ (c.op = "motor" /\ NonZero(c))

\* The frames of the command that require an acknowledgement.
AckedFrames(c) ==
  (IF EnablesFirst(c) \/ c.op \in {"enable", "charger"} THEN {"aux"} ELSE {})
    \cup (IF c.op = "motor" THEN {"target"} ELSE {})

\* Each is registered with the tracker under its sequence number, then written;
\* `got` says which of them the MCU received.
Registered(c, owned, slot, got) ==
  [s \in Seqs |->
     IF \E f \in DOMAIN slot : slot[f] = s
     THEN LET f == CHOOSE g \in DOMAIN slot : slot[g] = s IN
          Settle(IF f = "aux" THEN Expect(Aux, 0, f \in got, owned)
                              ELSE Expect(c.act, c.level, f \in got, owned))
     ELSE acks[s]]

\* The state the command leaves behind in safety.rs and in the guard.
Executed(c) ==
  CASE c.op = "drive" ->
         /\ driveActive' = NonZero(c)
         /\ target' = [target EXCEPT ![Wheels] = c.level]
         /\ lease' = IF NonZero(c) THEN "armed" ELSE "none"
    [] c.op = "stop_drive" ->
         /\ driveActive' = FALSE
         /\ target' = [target EXCEPT ![Wheels] = 0]
         /\ lease' = "none"
    [] c.op = "estop" ->
         /\ driveActive' = FALSE
         /\ target' = [a \in Actuators |-> 0]
         /\ lease' = "none"
    [] c.op = "motor" ->
         /\ target' = [target EXCEPT ![c.act] = c.level]
         /\ UNCHANGED <<driveActive, lease>>
    [] OTHER -> UNCHANGED driveVars

\* Frames without acknowledgement tell the actuators A to go to a level; the
\* MCU hears some of them.
Tell(A, level) ==
  \E heard \in SUBSET A :
    /\ out' = [a \in Actuators |-> IF a \in heard THEN level ELSE out[a]]
    /\ stray' = stray \ heard
    /\ missed' = (missed \ A) \cup {a \in A \ heard : out[a] # level}

\* What the MCU does with the frames of a command; `got` are the acknowledged
\* ones it receives.
Obeyed(c, got) ==
  CASE c.op \in {"drive", "stop_drive"} -> Tell({Wheels}, c.level)
    [] c.op = "estop"                   -> Tell(Actuators, 0)
    [] c.op = "motor" /\ "target" \in got ->
         /\ out' = [out EXCEPT ![c.act] = c.level]
         /\ stray' = stray \ {c.act}
         /\ missed' = missed \ {c.act}
    [] OTHER -> UNCHANGED <<out, stray, missed>>

\* while let Ok(request) = command_rx.try_recv(), every write succeeding.  The
\* frames of one command are written in one step: no other thread reads what
\* changes between them.
Execute ==
  /\ wpc = "drain" /\ queue # <<>>
  /\ LET c == Head(queue).cmd  owned == ~Head(queue).abandoned IN
     \E slot \in [AckedFrames(c) -> FreeSeqs], got \in SUBSET AckedFrames(c) :
       /\ \A f, g \in AckedFrames(c) : f # g => slot[f] # slot[g]
       /\ acks' = Registered(c, owned, slot, got)
       /\ Executed(c)
       /\ Obeyed(c, got)
       /\ reply' = IF owned THEN "ok" ELSE reply
       /\ halted' = (c.op = "estop" \/ (halted /\ ~NonZero(c)))
  /\ queue' = Tail(queue)
  /\ UNCHANGED <<at, cmd, outcome, wpc, failed, sessionVars,
                 lifeVars>>

\* A write of the command fails: the frame may still have reached the MCU (the
\* drain after the write is what failed).  An emergency stop goes on to its
\* other frames and resets the targets all the same.
ExecuteFails ==
  /\ wpc = "drain" /\ queue # <<>>
  /\ LET c == Head(queue).cmd  owned == ~Head(queue).abandoned IN
       /\ \/ /\ c.op = "estop" /\ Executed(c)
             /\ \E Z \in SUBSET Actuators : Tell(Z, 0)
          \/ /\ c.op \in {"drive", "motor", "stop_drive"}
             /\ \E level \in {c.level, out[IF c.op = "motor" THEN c.act ELSE Wheels]} :
                  out' = [out EXCEPT ![IF c.op = "motor" THEN c.act ELSE Wheels] = level]
             /\ UNCHANGED <<driveVars, stray, missed>>
          \/ /\ c.op \in {"plain", "enable", "charger"}
             /\ UNCHANGED <<driveVars, out, stray, missed>>
       /\ reply' = IF owned THEN "error" ELSE reply
       /\ halted' = (halted /\ ~NonZero(c))
  /\ EndLoop(TRUE)
  /\ UNCHANGED <<at, cmd, outcome, acks, sessionVars,
                 lifeVars>>

Drained ==
  /\ wpc = "drain" /\ queue = <<>>
  /\ wpc' = "tend"
  /\ UNCHANGED <<callerVars, queue, acks, failed, sessionVars, driveVars,
                 lifeVars, mcuVars>>

Due(s) == acks[s] # Free /\ ~acks[s].acked /\ acks[s].attempts < MaxAttempts

\* take_due_retries: the same frame under the same sequence number.  An MCU that
\* had received the frame before may obey it once more, or tell it by its number.
Retry(s) ==
  /\ wpc = "tend" /\ Due(s)
  /\ \E got, obeyed \in BOOLEAN :
       LET e == acks[s] IN
       /\ obeyed => got
       /\ got /\ ~e.got => obeyed
       /\ acks' = [acks EXCEPT ![s] =
                     Settle([e EXCEPT !.attempts = @ + 1, !.got = @ \/ got])]
       /\ IF obeyed /\ e.act # Aux
          THEN /\ out' = [out EXCEPT ![e.act] = e.level]
               /\ stray' = IF e.owned THEN stray \ {e.act} ELSE stray \cup {e.act}
               /\ missed' = missed \ {e.act}
          ELSE UNCHANGED <<out, stray, missed>>
  /\ UNCHANGED <<callerVars, queue, wpc, failed, sessionVars, driveVars,
                 lifeVars, halted>>

\* Mutant of LeaseChecked: the forced stop leaves drive_active set.
LeaseCheckedStillActive ==
  IF lease = "due"
  THEN /\ lease' = "none" /\ UNCHANGED driveActive
       /\ target' = [target EXCEPT ![Wheels] = 0]
       /\ Tell({Wheels}, 0)
  ELSE UNCHANGED <<driveVars, out, stray, missed>>

\* Mutant of LeaseChecked: the lease is only looked at while reports come in.
LeaseCheckedWhenFresh ==
  IF lease = "due" /\ reports = "fresh"
  THEN /\ lease' = "none" /\ driveActive' = FALSE
       /\ target' = [target EXCEPT ![Wheels] = 0]
       /\ Tell({Wheels}, 0)
  ELSE UNCHANGED <<driveVars, out, stray, missed>>

\* take_expired_drive_lease and the forced stop it asks for.
LeaseChecked ==
  IF lease = "due"
  THEN /\ lease' = "none" /\ driveActive' = FALSE
       /\ target' = [target EXCEPT ![Wheels] = 0]
       /\ Tell({Wheels}, 0)
  ELSE UNCHANGED <<driveVars, out, stray, missed>>

\* The rest of the iteration before the poll: the drive lease, the safety
\* deadline, the heartbeat, and the retry of the sensor-sync query.
Tend ==
  /\ wpc = "tend"
  /\ LeaseChecked
  /\ deadline # "passed"
  /\ wpc' = "read"
  /\ UNCHANGED <<callerVars, queue, acks, failed, startup, syncAcked, snapshot,
                 deadline, lifeVars, halted>>

\* The safety reports are stale: the loop ends before the next heartbeat.
ReportsStale ==
  /\ wpc = "tend" /\ deadline = "passed"
  /\ LeaseChecked
  /\ EndLoop(TRUE)
  /\ UNCHANGED <<callerVars, acks, sessionVars,
                 lifeVars, halted>>

\* The sync query was never acknowledged, or the snapshot did not come before
\* the startup deadline.  (The code marks "both came" as unreachable here.)
StartupFails ==
  /\ wpc = "tend" /\ startup = "waiting" /\ deadline # "passed"
  /\ startup' = "failed"
  /\ EndLoop(TRUE)
  /\ UNCHANGED <<callerVars, acks, syncAcked, snapshot, deadline,
                 driveVars, lifeVars, mcuVars>>

\* A retry, the forced stop, the heartbeat, the poll, the read or the answer to
\* a report fails.  When the forced stop fails the lease is already taken.
UartFails ==
  /\ wpc \in {"tend", "read"}
  /\ \/ UNCHANGED <<driveVars, out, stray, missed>>
     \/ wpc = "tend" /\ LeaseChecked
     \/ /\ wpc = "tend" /\ lease = "due"
        /\ lease' = "none" /\ target' = [target EXCEPT ![Wheels] = 0]
        /\ UNCHANGED <<driveActive, out, stray, missed>>
  /\ EndLoop(TRUE)
  /\ UNCHANGED <<callerVars, acks, sessionVars,
                 lifeVars, halted>>

\* startup_sender is told Ok by the frame that completes the two conditions.
Ready(sync, full) ==
  startup = "waiting" /\ (syncAcked \/ sync) /\ (snapshot \/ full)

\* One frame from the MCU: an acknowledgement of a frame it has received, a
\* state report and a sensor snapshot may come together or not at all.
ReadFrame ==
  /\ wpc = "read"
  /\ \E answered \in SUBSET {s \in Seqs : acks[s].got /\ ~acks[s].acked},
        sync, report, full \in BOOLEAN :
       /\ answered # {} \/ sync \/ report \/ full
       /\ acks' = [s \in Seqs |-> IF s \in answered
                                  THEN Settle([acks[s] EXCEPT !.acked = TRUE])
                                  ELSE acks[s]]
       /\ syncAcked' = (syncAcked \/ sync)
       /\ snapshot' = (snapshot \/ full)
       /\ reports' = IF report THEN "fresh" ELSE reports
       /\ startup' = IF Ready(sync, full) THEN "ok" ELSE startup
       /\ deadline' = IF report \/ Ready(sync, full) THEN "armed" ELSE deadline
  /\ UNCHANGED <<callerVars, queue, wpc, failed, driveVars,
                 state, shutdown, owner, raising, mcuVars>>

\* Mutant of NextIteration: the flag is not looked at before the startup is over.
NextIterationOnceStarted ==
  /\ wpc = "read"
  /\ IF shutdown /\ startup # "waiting"
     THEN EndLoop(FALSE)
     ELSE wpc' = "drain" /\ UNCHANGED <<failed, queue>>
  /\ UNCHANGED <<callerVars, acks, sessionVars,
                 driveVars, lifeVars, mcuVars>>

\* while !shutdown: once round again, or out of the loop.  A caller still
\* waiting for the startup is told that the session ends.
NextIteration ==
  /\ wpc = "read"
  /\ IF shutdown
     THEN /\ EndLoop(FALSE)
          /\ startup' = IF startup = "waiting" THEN "failed" ELSE startup
     ELSE wpc' = "drain" /\ UNCHANGED <<failed, queue, startup>>
  /\ UNCHANGED <<callerVars, acks, syncAcked, snapshot, deadline,
                 driveVars, lifeVars, mcuVars>>

\* emit_stop_set tries every frame whatever becomes of the others.
StopSet(Z) ==
  /\ Tell(Z, 0)
  /\ driveActive' = FALSE
  /\ target' = [a \in Actuators |-> 0] /\ lease' = "none"

\* Mutant of StopAll: what becomes of the stop set does not reach the result.
StopAllUnchecked ==
  /\ wpc \in {"stop", "drop"}
  /\ \E Z \in SUBSET Actuators :
       /\ StopSet(Z)
       /\ wpc' = IF wpc = "stop" /\ Z # Actuators THEN "drop" ELSE "exit"
  /\ UNCHANGED <<callerVars, queue, acks, failed, sessionVars,
                 lifeVars, halted>>

\* session_loop after the guarded loop: stop_and_disarm ("stop") and, when that
\* reported a failure, the guard's Drop ("drop"), whose failure is only logged.
StopAll ==
  /\ wpc \in {"stop", "drop"}
  /\ \/ StopSet(Actuators) /\ wpc' = "exit" /\ UNCHANGED failed
     \/ \E Z \in SUBSET Actuators :
          /\ StopSet(Z)
          /\ wpc' = IF wpc = "stop" THEN "drop" ELSE "exit"
          /\ failed' = TRUE
  /\ UNCHANGED <<callerVars, queue, acks, sessionVars,
                 lifeVars, halted>>

\* Mutant of Exit: the result of the session is not recorded.
ExitUnrecorded ==
  /\ wpc = "exit" /\ wpc' = "done"
  /\ UNCHANGED <<callerVars, queue, acks, failed, sessionVars, driveVars,
                 lifeVars, mcuVars>>

\* The thread's closure: an error is recorded in the lifecycle, and the flag is
\* raised for the other workers (nobody in this module waits for it any more).
Exit ==
  /\ wpc = "exit"
  /\ wpc' = "done"
  /\ IF failed THEN state' = "fault" /\ shutdown' = TRUE ELSE UNCHANGED <<state, shutdown>>
  /\ UNCHANGED <<callerVars, queue, acks, failed, sessionVars, driveVars,
                 reports, owner, raising, mcuVars>>

-----------------------------------------------------------------------------
(* The rest of the driver, as far as the session sees it.  A transition of *)
(* the lifecycle reads the state and sets it under two separate locks, so  *)
(* a fault recorded in between is overwritten.                             *)

\* initialize: startup_wait got Ok and the LDS reader started; mark_operational
\* finds the state it expects ...
CheckSynchronized ==
  /\ owner = "starting" /\ startup = "ok" /\ state = "synchronizing"
  /\ owner' = "set_operational"
  /\ UNCHANGED <<callerVars, queue, acks, wpc, failed, sessionVars, driveVars,
                 reports, state, shutdown, raising, mcuVars>>

\* ... and sets the next one.
SetOperational ==
  /\ owner = "set_operational" /\ owner' = "ready"
  /\ state' = "operational"
  /\ UNCHANGED <<callerVars, queue, acks, wpc, failed, sessionVars, driveVars,
                 reports, shutdown, raising, mcuVars>>

\* initialize gives up: before the session is ready McuDriver::start raises the
\* flag itself, after that there is a Fault first, which begin_stopping leaves.
InitializeFails ==
  /\ owner = "starting" /\ owner' = "join"
  /\ state' = IF startup = "ok" THEN "fault" ELSE state
  /\ shutdown' = TRUE
  /\ UNCHANGED <<callerVars, queue, acks, wpc, failed, sessionVars, driveVars,
                 reports, raising, mcuVars>>

\* shutdown_all up to the check of begin_stopping, which leaves a Fault alone; the
\* commands it issued before that are calls like any other.
BeginStopping ==
  /\ at = "idle" /\ owner = "ready"
  /\ IF state = "fault"
     THEN owner' = "join" /\ shutdown' = TRUE
     ELSE owner' = "set_stopping" /\ UNCHANGED shutdown
  /\ UNCHANGED <<callerVars, queue, acks, wpc, failed, sessionVars, driveVars,
                 reports, state, raising, mcuVars>>

\* The set of begin_stopping, whatever the state has become, and the flag.  (No
\* thread looks at both, so the two stores are one step.)
SetStopping ==
  /\ owner = "set_stopping" /\ owner' = "join"
  /\ state' = "stopping" /\ shutdown' = TRUE
  /\ UNCHANGED <<callerVars, queue, acks, wpc, failed, sessionVars, driveVars,
                 reports, raising, mcuVars>>

\* The join of the worker and what is left of shutdown_all: an error of any
\* worker or device is a Fault, also when the state no longer said so.
JoinWorker ==
  /\ owner = "join" /\ wpc = "done" /\ owner' = "over"
  /\ \/ state' = "fault"
     \/ ~failed /\ state = "stopping" /\ state' = "stopped"
  /\ UNCHANGED <<callerVars, queue, acks, wpc, failed, sessionVars, driveVars,
                 reports, shutdown, raising, mcuVars>>

\* The watchdog or the LDS reader fails: Fault first, the flag after it.  Both
\* are joined when shutdown_all is over.
FaultElsewhere ==
  /\ owner # "over" /\ ~raising /\ state # "fault"
  /\ state' = "fault" /\ raising' = ~shutdown
  /\ UNCHANGED <<callerVars, queue, acks, wpc, failed, sessionVars, driveVars,
                 reports, shutdown, owner, mcuVars>>

RaiseShutdown ==
  /\ raising /\ raising' = FALSE
  /\ shutdown' = TRUE
  /\ UNCHANGED <<callerVars, queue, acks, wpc, failed, sessionVars, driveVars,
                 reports, state, owner, mcuVars>>

\* Time: the lease of 250 ms and the report window of 500 ms run out.  The
\* worker's deadline is never earlier than the end of the report window.
LeaseElapses ==
  /\ lease = "armed" /\ lease' = "due"
  /\ UNCHANGED <<callerVars, queue, acks, wpc, failed, sessionVars, driveActive,
                 target, lifeVars, mcuVars>>

ReportsElapse ==
  /\ reports = "fresh" /\ reports' = "stale"
  /\ UNCHANGED <<callerVars, queue, acks, wpc, failed, sessionVars, driveVars,
                 state, shutdown, owner, raising, mcuVars>>

DeadlineElapses ==
  /\ deadline = "armed" /\ reports # "fresh" /\ deadline' = "passed"
  /\ UNCHANGED <<callerVars, queue, acks, wpc, failed, startup, syncAcked,
                 snapshot, driveVars, lifeVars, mcuVars>>

-----------------------------------------------------------------------------
Caller == \/ \E c \in Commands : Issue(c)
          \/ Send \/ SendFails \/ TakeReply \/ ReplyTimeout \/ WaitForAll

Worker == \/ Execute \/ ExecuteFails \/ Drained
          \/ \E s \in Seqs : Retry(s)
          \/ Tend \/ ReportsStale \/ StartupFails \/ UartFails
          \/ ReadFrame \/ NextIteration \/ StopAll \/ Exit

Elsewhere == \/ CheckSynchronized \/ SetOperational \/ InitializeFails
             \/ BeginStopping \/ SetStopping \/ JoinWorker
             \/ FaultElsewhere \/ RaiseShutdown
             \/ LeaseElapses \/ ReportsElapse \/ DeadlineElapses

Next == Caller \/ Worker \/ Elsewhere

Spec == Init /\ [][Next]_vars

\* The worker thread is scheduled and never blocks for ever: its poll and its
\* reads have deadlines, and the drain after a write (tcdrain, which has none)
\* is assumed to return.  Nothing is assumed of the MCU, of the client or of the
\* other threads, except that commands do not come so fast that try_recv never
\* again finds the queue empty (KeepsUp): `while let Ok(..)` has no bound of its
\* own, so a caller that outran the worker would starve the lease check.
KeepsUp == []<>(wpc = "drain" => queue = <<>>)

Fairness ==
  /\ WF_vars(Execute) /\ SF_vars(Drained) /\ KeepsUp
  /\ WF_vars(Tend \/ ReportsStale) /\ WF_vars(NextIteration)
  /\ WF_vars(StopAll) /\ WF_vars(Exit)

FairSpec == Spec /\ Fairness

-----------------------------------------------------------------------------
(* Properties.                                                             *)

\* While the session loop runs, moving wheels are covered by a drive lease, and
\* drive_active agrees with the lease: so a drive command after a stop of any
\* kind wakes the MCU and enables the wheels again, and moving wheels are always
\* about to be stopped.  The exception is a stop frame the MCU never heard: the
\* forced stop is sent once and asks for no acknowledgement.
LeaseCoversDrive ==
  Looping => /\ driveActive = (lease # "none")
             /\ Wheels \notin missed => target[Wheels] = out[Wheels]
             /\ target[Wheels] # 0 => lease # "none"

\* Nothing moves before the MCU has acknowledged the sync query, sent a full
\* snapshot and at least one state report.
NonzeroNeedsSync ==
  (\E a \in Actuators : out[a] # 0) =>
    startup = "ok" /\ syncAcked /\ snapshot /\ reports # "none"

\* The arm the code marks unreachable!() in the startup timeout.
StartupArmUnreachable == startup = "waiting" => ~(syncAcked /\ snapshot)

\* A session that is over has stopped every actuator that heard its stop set, or
\* the driver is in Fault: at the latest when shutdown_all, whose begin_stopping
\* may have overwritten the fault, has joined the worker.
DoneMeansStopped ==
  wpc = "done" /\ (\E a \in Actuators \ missed : out[a] # 0) =>
    /\ failed
    /\ state = "fault" \/ (state = "stopping" /\ owner = "join")

\* After an emergency stop the actuators that heard it stay still until a
\* non-zero command is executed, except one that the retry of an abandoned
\* request revives.
ResetHaltsUnlessStray ==
  halted => \A a \in Actuators \ (stray \cup missed) : out[a] = 0

\* execute() returns Ok only when the MCU has obeyed the command, unless the
\* retry of an abandoned request came in between.
OkMeansObeyed ==
  [][at = "acks" /\ outcome' = "ok" /\ cmd.op = "motor" /\ Looping
       => out[cmd.act] = cmd.level \/ cmd.act \in stray]_<<at, outcome>>

\* The deadman: once the lease is over the wheels are told to stop, unless a new
\* drive command armed it again, whatever else the session is busy with.
DeadmanStops ==
  lease = "due" ~> \/ lease = "armed"
                   \/ out[Wheels] = 0 \/ Wheels \in missed
                   \/ wpc = "done" /\ failed

\* Raising the shutdown flag ends the session: the worker gets out of its loop,
\* emits the stop set and exits, so the join in shutdown_all returns.
ShutdownEnds == shutdown ~> wpc = "done"

\* The session as its owner sees it.
Moving == \E a \in Actuators \ missed : out[a] # 0

Phase ==
  IF Looping THEN (IF startup = "ok" THEN "live" ELSE "starting")
  ELSE IF wpc = "exit" THEN "stopped" ELSE IF wpc = "done" THEN "over" ELSE "ending"

Session == INSTANCE S5MaxSession WITH phase <- Phase, moving <- Moving, failed <- failed

\* Every behaviour of the worker, its callers and the MCU is one of the abstract
\* session: still until live, and stopped at the end or failed.
ImplementsSession == Session!SessionSpec

\* What types.rs promises of the drive Reset command: all actuators off.  It is
\* not kept even when the MCU hears every frame of the stop set.
ResetHalts == halted => \A a \in Actuators \ missed : out[a] = 0

=============================================================================
