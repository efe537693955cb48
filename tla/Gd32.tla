--------------------------------- MODULE Gd32 ---------------------------------
(***************************************************************************)
(* The CRL-200S motor controller driver                                    *)
(* (sangamio/src/devices/crl200s/gd32): command handlers and a heartbeat   *)
(* thread that share a handful of atomics (state.rs) and a serial port     *)
(* behind a lock.  A handler stores what it wants and writes a frame; the  *)
(* heartbeat reads the atomics every 20 ms and tells the GD32 the same.    *)
(*                                                                         *)
(* Handlers run under the driver mutex, so one at a time, but take the     *)
(* port only to write.  Every access to an atomic that races is a step.    *)
(***************************************************************************)
EXTENDS Naturals, Sequences, SequencesExt

CONSTANTS
  Speeds,     \* the speed-based components, in the order they are read
  MaxLevel,   \* the largest speed or velocity (100 percent, i16 in the code)
  Commands,   \* the commands this instance issues
  Lossy       \* the devices whose frames may be lost in this instance

Cleaners == ToSet(Speeds)
Levels   == 0 .. MaxLevel

\* ComponentState, with a Boolean as 0 or 1 ("wheels" is wheel_motor_enabled,
\* "mode" motor_mode_set), and what the GD32 does.  Mode 1 is navigation (0x02).
Wheels    == {"linear", "angular"}
Registers == Cleaners \cup Wheels \cup {"lidar", "wheels", "mode"}
Devices   == Cleaners \cup Wheels \cup {"lidar", "power", "mode"}

AllCommands ==
       [op : {"speed"}, dev : Cleaners, level : Levels]
  \cup [op : {"velocity", "tank"}, dev : {"wheels"}, level : Levels]
  \cup [op : {"enable", "disable", "reset"}, dev : {"wheels"}, level : {0}]
  \cup [op : {"lidar_on", "lidar_off"}, dev : {"lidar"}, level : {0}]

ASSUME Gd32Assumption ==
  /\ Speeds \in Seq(Cleaners)
  /\ Cleaners \cap (Wheels \cup {"lidar", "wheels", "mode", "power"}) = {}
  /\ MaxLevel \in Nat \ {0}
  /\ Commands \subseteq AllCommands /\ Lossy \subseteq Devices

VARIABLES
  reg,        \* the atomics
  port,       \* who holds the port lock
  shutdown,   \* the shutdown flag
  \* --- the caller of send_command and shutdown
  todo,       \* what is left of the handler that runs
  stage,      \* GD32Driver::shutdown
  \* --- the heartbeat thread
  hb,         \* where it is
  left,       \* the registers it has still to read in this cycle
  seen,       \* what it has read of them
  active,     \* any_active, as far as it is read
  \* --- the reader thread
  reader,
  \* --- the GD32
  out,        \* what each device was last heard to be told
  apart,      \* devices a lost frame or a tank command keeps from what is stored
  \* --- history
  calm        \* "reset" from an emergency stop until something is asked for

handlerVars == <<todo, stage>>
hbVars == <<hb, left, seen, active>>
gd32Vars == <<out, apart>>
vars == <<reg, port, shutdown, handlerVars, hbVars, reader, gd32Vars, calm>>

-----------------------------------------------------------------------------
(* Handlers are scripts: stores to atomics, and writes of one frame or, for *)
(* the emergency stop, of several under one lock.  A frame maps the devices *)
(* it is about to their new levels.                                         *)

Store(r, v)    == [do |-> "store", reg |-> r, val |-> v]
Write(frames)  == [do |-> "write", frames |-> frames]
Tell(d, v)     == [e \in {d} |-> v]
Drive(l, a)    == [d \in Wheels |-> IF d = "linear" THEN l ELSE a]

SpeedScript(c) == <<Store(c.dev, c.level), Write({Tell(c.dev, c.level)})>>

EnableScript == <<Store("wheels", 1), Write({Tell("mode", 1)})>>

DisableScript ==
  <<Store("wheels", 0), Store("linear", 0), Store("angular", 0),
    Write({Drive(0, 0)}), Write({Tell("mode", 0)})>>

\* Both parts at one level, so that a mix of two commands can be told apart.
VelocityScript(c) ==
  <<Store("linear", c.level), Store("angular", c.level), Write({Drive(c.level, c.level)})>>

\* Not stored: the heartbeat knows nothing of it.
TankScript(c) == <<[do |-> "tank", frames |-> {Drive(c.level, c.level)}]>>

LidarOnScript ==
  <<Write({Tell("power", 1)}), Store("lidar", 1), Write({Tell("lidar", 1)})>>

LidarOffScript ==
  <<Store("lidar", 0), Write({Tell("lidar", 0)}), Write({Tell("power", 0)})>>

\* clear_all
Cleared ==
  [i \in DOMAIN Speeds |-> Store(Speeds[i], 0)]
    \o <<Store("lidar", 0), Store("linear", 0), Store("angular", 0),
         Store("wheels", 0), Store("mode", 0)>>

Stop == [do |-> "stop", frames |-> {Drive(0, 0)} \cup {Tell(d, 0) : d \in Devices \ Wheels}]

\* Mutant of ResetScript: the state is cleared when the frames are out.
ResetScriptLate == <<Stop>> \o Cleared

ResetScript == Cleared \o <<Stop>>

Script(c) ==
  CASE c.op = "speed"     -> SpeedScript(c)
    [] c.op = "enable"    -> EnableScript
    [] c.op = "disable"   -> DisableScript
    [] c.op = "velocity"  -> VelocityScript(c)
    [] c.op = "tank"      -> TankScript(c)
    [] c.op = "lidar_on"  -> LidarOnScript
    [] c.op = "lidar_off" -> LidarOffScript
    [] c.op = "reset"     -> ResetScript

\* What may set something in motion.
Asks(c) == c.level # 0 \/ c.op \in {"enable", "lidar_on"}

-----------------------------------------------------------------------------
\* The GD32 hears all of the frames that are written but some of the lossy ones.
Received(frames) ==
  {heard \in SUBSET frames : \A f \in frames \ heard : DOMAIN f \subseteq Lossy}

Heard(heard) ==
  [d \in Devices |-> IF \E f \in heard : d \in DOMAIN f
                     THEN (CHOOSE f \in heard : d \in DOMAIN f)[d] ELSE out[d]]

Hears(frames, heard) ==
  /\ out' = Heard(heard)
  /\ apart' = {d \in Devices :
                 /\ \A f \in heard : d \notin DOMAIN f
                 /\ d \in apart \/ \E f \in frames : d \in DOMAIN f /\ f[d] # out[d]}

\* The registers of a heartbeat cycle, in the order they are read: the speeds,
\* lidar_enabled and the velocities, and then those of any_active.
SpeedReads   == [i \in DOMAIN Speeds |-> [reg |-> Speeds[i], keep |-> TRUE]]
FirstReads   == SpeedReads \o [i \in 1 .. 3 |->
                  [reg |-> <<"lidar", "linear", "angular">>[i], keep |-> TRUE]]
ActiveReads  == [i \in DOMAIN Speeds |-> [reg |-> Speeds[i], keep |-> FALSE]]
                  \o <<[reg |-> "lidar", keep |-> FALSE], [reg |-> "wheels", keep |-> FALSE]>>
Reads        == FirstReads \o ActiveReads
Nothing      == [r \in Cleaners \cup Wheels \cup {"lidar"} |-> 0]

TypeOK ==
  /\ reg \in [Registers -> Levels]
  /\ port \in {"free", "hb", "reader"}
  /\ port = "hb" <=> hb \in {"read", "switch", "send"}
  /\ port = "reader" <=> reader = "reads"
  /\ shutdown \in BOOLEAN /\ active \in BOOLEAN
  /\ stage \in {"run", "join", "over"}
  /\ hb \in {"sleep", "lock", "read", "switch", "send", "done"}
  /\ seen \in [DOMAIN Nothing -> Levels]
  /\ reader \in {"loop", "lock", "reads", "done"}
  /\ out \in [Devices -> Levels]
  /\ apart \subseteq Devices
  /\ calm \in {"no", "reset"}

\* initialize and start are over, and the robot rests.
Init ==
  /\ reg = [r \in Registers |-> 0] /\ port = "free" /\ shutdown = FALSE
  /\ todo = <<>> /\ stage = "run"
  /\ hb = "sleep" /\ left = <<>> /\ seen = Nothing /\ active = FALSE
  /\ reader = "loop"
  /\ out = [d \in Devices |-> 0] /\ apart = {}
  /\ calm = "no"

-----------------------------------------------------------------------------
(* The handlers and shutdown, under the driver mutex.                      *)

Call(c) ==
  /\ stage # "join" /\ todo = <<>>
  /\ todo' = Script(c)
  /\ calm' = IF Asks(c) THEN "no" ELSE calm
  /\ UNCHANGED <<reg, port, shutdown, stage, hbVars, reader, gd32Vars>>

\* An atomic is stored, whoever holds the port.
StoreStep ==
  /\ todo # <<>> /\ Head(todo).do = "store"
  /\ reg' = [reg EXCEPT ![Head(todo).reg] = Head(todo).val]
  /\ todo' = Tail(todo)
  /\ UNCHANGED <<port, shutdown, stage, hbVars, reader, gd32Vars, calm>>

\* send_packet: the port is taken for the write and given back.  The frame is
\* heard or not, and an error, reported rightly or not, ends the handler.
WriteStep ==
  /\ todo # <<>> /\ Head(todo).do = "write" /\ port = "free"
  /\ \E heard \in Received(Head(todo).frames) : Hears(Head(todo).frames, heard)
  /\ todo' \in {Tail(todo), <<>>}
  /\ UNCHANGED <<reg, port, shutdown, stage, hbVars, reader, calm>>

\* The emergency stop writes all its frames under one lock, errors or not.
StopStep ==
  /\ todo # <<>> /\ Head(todo).do = "stop" /\ port = "free"
  /\ \E heard \in Received(Head(todo).frames) : Hears(Head(todo).frames, heard)
  /\ todo' = Tail(todo) /\ calm' = "reset"
  /\ UNCHANGED <<reg, port, shutdown, stage, hbVars, reader>>

TankStep ==
  /\ todo # <<>> /\ Head(todo).do = "tank" /\ port = "free"
  /\ \E heard \in Received(Head(todo).frames) : out' = Heard(heard)
  /\ apart' = apart \cup Wheels
  /\ todo' = Tail(todo)
  /\ UNCHANGED <<reg, port, shutdown, stage, hbVars, reader, calm>>

\* shutdown: the flag, both threads joined, and one frame.
Shutdown ==
  /\ stage # "join" /\ todo = <<>>
  /\ shutdown' = TRUE /\ stage' = "join"
  /\ UNCHANGED <<reg, port, todo, hbVars, reader, gd32Vars, calm>>

ShutdownEnds ==
  /\ stage = "join" /\ hb = "done" /\ reader = "done" /\ port = "free"
  /\ \E heard \in Received({Drive(0, 0)}) : Hears({Drive(0, 0)}, heard)
  /\ stage' = "over"
  /\ UNCHANGED <<reg, port, shutdown, todo, hbVars, reader, calm>>

-----------------------------------------------------------------------------
(* heartbeat_loop.                                                         *)

\* What a cycle has read is local to it.
CycleEnds == hb' = "sleep" /\ left' = <<>> /\ seen' = Nothing /\ active' = FALSE

\* Mutant of HbWakes: the flag is looked at before the loop only.
HbWakesUnasked ==
  /\ hb = "sleep"
  /\ hb' = "lock"
  /\ UNCHANGED <<reg, port, shutdown, handlerVars, left, seen, active, reader, gd32Vars, calm>>

HbWakes ==
  /\ hb = "sleep"
  /\ hb' = IF shutdown THEN "done" ELSE "lock"
  /\ UNCHANGED <<reg, port, shutdown, handlerVars, left, seen, active, reader, gd32Vars, calm>>

\* Mutant of HbLock: the atomics are read before the port is taken.
HbLockLate ==
  /\ hb = "lock" /\ port = "free"
  /\ hb' = "read"
  /\ left' = Reads /\ active' = FALSE
  /\ UNCHANGED <<reg, port, shutdown, handlerVars, seen, reader, gd32Vars, calm>>

HbLock ==
  /\ hb = "lock" /\ port = "free"
  /\ port' = "hb" /\ hb' = "read"
  /\ left' = Reads /\ active' = FALSE
  /\ UNCHANGED <<reg, shutdown, handlerVars, seen, reader, gd32Vars, calm>>

\* One atomic is read; any_active stops at the first that is set.
HbRead ==
  /\ hb = "read"
  /\ LET r    == Head(left)
         done == ~r.keep /\ reg[r.reg] # 0
     IN /\ seen' = IF r.keep THEN [seen EXCEPT ![r.reg] = reg[r.reg]] ELSE seen
        /\ active' = done
        /\ left' = IF done THEN <<>> ELSE Tail(left)
  /\ hb' = IF left' = <<>> THEN "switch" ELSE "read"
  /\ UNCHANGED <<reg, port, shutdown, handlerVars, reader, gd32Vars, calm>>

\* Mutant of HbModeOn: the port stays locked over the pause.
HbModeOnLocked ==
  /\ hb = "switch" /\ active /\ reg["mode"] = 0
  /\ \E heard \in Received({Tell("mode", 1)}) : Hears({Tell("mode", 1)}, heard)
  /\ reg' = [reg EXCEPT !["mode"] = 1] /\ CycleEnds
  /\ UNCHANGED <<port, shutdown, handlerVars, reader, calm>>

\* Something is on and the GD32 not known to be in navigation mode: it is told,
\* and the cycle ends, with the pause of 100 ms, unless the write failed.
HbModeOn ==
  /\ hb = "switch" /\ active /\ reg["mode"] = 0
  /\ \E heard \in Received({Tell("mode", 1)}) : Hears({Tell("mode", 1)}, heard)
  /\ reg' = [reg EXCEPT !["mode"] = 1] /\ port' = "free" /\ CycleEnds
  /\ UNCHANGED <<shutdown, handlerVars, reader, calm>>

HbModeOnFails ==
  /\ hb = "switch" /\ active /\ reg["mode"] = 0
  /\ \E heard \in Received({Tell("mode", 1)}) : Hears({Tell("mode", 1)}, heard)
  /\ hb' = "send"
  /\ UNCHANGED <<reg, port, shutdown, handlerVars, left, seen, active, reader, calm>>

\* Otherwise the flag is cleared if nothing is on, and the cycle goes on.
HbModeOff ==
  /\ hb = "switch" /\ ~(active /\ reg["mode"] = 0)
  /\ reg' = IF active THEN reg ELSE [reg EXCEPT !["mode"] = 0]
  /\ hb' = "send"
  /\ UNCHANGED <<port, shutdown, handlerVars, left, seen, active, reader, gd32Vars, calm>>

\* Mutant of Refresh: navigation mode is not repeated.
RefreshOnce ==
  {Drive(seen["linear"], seen["angular"])}
    \cup {Tell(d, seen[d]) : d \in {e \in Cleaners \cup {"lidar"} : seen[e] # 0}}

\* The frames of a cycle in navigation mode.
Refresh ==
  {Tell("mode", 1), Drive(seen["linear"], seen["angular"])}
    \cup {Tell(d, seen[d]) : d \in {e \in Cleaners \cup {"lidar"} : seen[e] # 0}}

\* The rest of the cycle.  The mode is read again: without it the frame is a
\* heartbeat, which tells the GD32 nothing.
Frames == IF reg["mode"] = 1 THEN Refresh ELSE {}

HbSend(heard) ==
  /\ hb = "send" /\ Hears(Frames, heard)
  /\ port' = "free" /\ CycleEnds
  /\ UNCHANGED <<reg, shutdown, handlerVars, reader, calm>>

HbSendSome == \E heard \in Received(Frames) : HbSend(heard)

-----------------------------------------------------------------------------
\* reader_loop: the flag, the port for one read, and again without a pause.
ReaderLoops ==
  /\ \/ reader = "loop" /\ reader' = (IF shutdown THEN "done" ELSE "lock") /\ UNCHANGED port
     \/ reader = "lock" /\ port = "free" /\ port' = "reader" /\ reader' = "reads"
     \/ reader = "reads" /\ port' = "free" /\ reader' = "loop"
  /\ UNCHANGED <<reg, shutdown, handlerVars, hbVars, gd32Vars, calm>>

-----------------------------------------------------------------------------
\* The thread that has the driver mutex, once it has begun.
Caller == StoreStep \/ WriteStep \/ TankStep \/ StopStep \/ ShutdownEnds

Heartbeat == HbWakes \/ HbLock \/ HbRead \/ HbModeOn \/ HbModeOnFails \/ HbModeOff
             \/ HbSendSome

Next == (\E c \in Commands : Call(c)) \/ Shutdown \/ Caller \/ Heartbeat \/ ReaderLoops

Spec == Init /\ [][Next]_vars

\* The threads are scheduled; a lock that is free again and again is had some
\* time, though the reader takes it without a pause; and a write that is tried
\* again and again succeeds, with all its frames heard.
Fairness ==
  /\ SF_vars(Caller) /\ SF_vars(Heartbeat) /\ SF_vars(ReaderLoops)
  /\ SF_vars(HbModeOn) /\ SF_vars(HbSend(Frames))

FairSpec == Spec /\ Fairness

-----------------------------------------------------------------------------
(* Properties.                                                             *)

\* After an emergency stop everything is off and navigation mode left, and it
\* stays so until something is asked for: no heartbeat that was under way, and
\* no mode switch of it that overwrote clear_all, brings anything back.
EmergencyStopHolds ==
  calm = "reset" => \A d \in Devices \ apart : out[d] = 0

\* Between two commands every device does what is stored for it, whatever the
\* heartbeat had read before the command: it neither brings an old speed back
\* nor leaves the two parts of a velocity from different commands.  (shutdown
\* tells the wheels to stop, and stores nothing; the cleaners and the lidar it
\* tells nothing, they go on with what is stored.)
DevicesFollow ==
  todo = <<>> =>
    \A d \in (Cleaners \cup Wheels \cup {"lidar"}) \ apart :
      out[d] = reg[d] \/ (d \in Wheels /\ stage # "run" /\ out[d] = 0)

\* A component that is on gets its speed and navigation mode, though commands
\* leave that mode and the heartbeat knows it only from a flag of its own.
EnabledRuns ==
  \A c \in Cleaners :
    reg[c] # 0 ~> (out[c] = reg[c] /\ out["mode"] = 1) \/ reg[c] = 0 \/ shutdown

\* shutdown joins two threads that wait for the port, and returns.
ShutdownReturns == stage = "join" ~> stage = "over"
=============================================================================
