# VacuumTiger: TLA+ models, checks and proofs

VacuumTiger is the software of a robot vacuum: a daemon that owns the hardware
(`sangamio`), a navigation client (`dhruva-nav`), an older SLAM daemon
(`dhruva-slam`), a mapping library (`vastu-slam`), a desktop client (`drishti`) and
tools. This directory holds TLA+ models of its concurrent core, the TLC runs that
check them on small instances, and proofs, checked by TLAPS, of what matters most
for every size of instance.

What moves metal comes first: the driver of the Roborock S5 Max, which must not
start an actuator too early, must stop all of them in every way a session can end,
and must tell its clients the truth about both; and the daemon's client
connections, which decide who drives. Around them stand the second robot's motor driver,
the navigation client, the control of the SLAM daemon and the occupancy grid. All of them
are modelled and checked, and the safety properties of the passing runs are proved. The
plan for the rest is at the end.

## 1. Inventory

Paths are relative to `src/`. `S5` stands for `sangamio/src/devices/roborock_s5max`,
`CRL` for `sangamio/src/devices/crl200s`.

### 1.1 How the parts interact

    drishti / dhruva-nav / dhruva-slam        clients
          |  TCP: commands          ^  UDP (or the same TCP): telemetry
    sangamio: accept loop - receiver threads - publisher thread
          |  driver mutex           ^  sensor groups (mutexes), streaming channels
    DeviceDriver: S5 Max | CRL-200S | mock
          |  command queue, atomics, port lock
    worker threads: MCU session, LDS reader, watchdog | heartbeat, reader, lidar
          |  UART, ioctl
    MCU, lidar, kernel watchdog

A client command is decoded by its receiver thread, which takes the driver mutex
and calls `DeviceDriver::send_command`; the driver hands it to a worker thread.
Sensor data goes the other way: workers write into sensor groups, the publisher
polls these and sends them to the registered client.

### 1.2 Components

**S5 Max MCU session** (`S5/mcu.rs`, `S5/safety.rs`). *State*: the bounded queue of
commands with a reply channel each, the acknowledgement tracker, the startup
handshake, the report deadline, the actuator targets and the drive lease.
*Operations*: `McuDriver::start`, `execute`, `join` on the caller's side; on the
worker's, one loop that drains commands, re-sends due frames, checks lease and
deadline, sends heartbeats and reads frames, and the ordered stop after it. *Hard*:
a caller gives up while its request is still queued; a frame is re-sent behind a
later command; any frame may be lost, any write may fail; the loop may end at any
point. *Correct when*: nothing moves before synchronization; Ok means obeyed; a
lease covers moving wheels and its end stops them; however the session ends every
actuator is told to stop or the driver is in Fault.

**S5 Max driver and lifecycle** (`S5/mod.rs`, `S5/lifecycle.rs`, `S5/safety.rs`,
`S5/lds_motor.rs`). *State*: lifecycle state and its published copy, the shutdown
flag, handles of three workers, the LDS motor guard, two cached facts about the
charger and the subsystems. *Operations*: `initialize`, `send_command` (lidar,
charger, drive, cleaning, Shutdown), `shutdown_all`, `Drop`. *Hard*: `initialize`
may fail halfway; workers fail at any moment and write the same lifecycle state;
each step of the shutdown may fail and the rest must still run; joins. *Correct
when*: Stopped means stopped; no thread or motor is left behind; a failure is never
reported as Stopped; every call returns.

**S5 Max LDS reader and watchdog** (`S5/lds_reader.rs`, `S5/watchdog.rs`). A thread
each: loops until the flag, records a Fault and raises the flag on an error. *Hard*:
the fault races with lifecycle transitions; after a worker's fault the LDS motor
turns on until `shutdown_all`.

**S5 Max codecs** (`S5/frame.rs`, `packet.rs`, `commands.rs`, `lds.rs`, `sensors.rs`,
`tty.rs`, `sys.rs`). Byte layouts, checksums, ioctls. No protocol state; golden-frame
tests beside the code.

**SangamIO connections** (`sangamio/src/main.rs`, `streaming/tcp_receiver.rs`).
*State*: the current connection's alive-flag, the registered UDP address, the TCP
writer, the telemetry transport, each behind a lock of its own. *Operations*: accept
and take-over, set-up, receive and handle, close, clean-up, Ctrl-C. *Hard*: set-up of
a new connection interleaves with the clean-up of the old one; a replaced receiver is
still inside a read. *Correct when*: one client drives; telemetry goes to the current
client; it stops when the client is gone; receivers end.

**SangamIO publisher** (`streaming/udp_publisher.rs`). *State*: last client, last
sequence number per group. *Operations*: notice a new client, send the groups that
changed, drain streaming channels, republish kinematics. *Hard*: a client change is
sampled; partial writes on the TCP fallback.

**SangamIO wire format, configuration, core types** (`streaming/wire.rs`,
`config.rs`, `core/`). Conversions without state.

**CRL-200S GD32 driver** (`CRL/gd32/`, `CRL/mod.rs`). *State*: about a dozen atomics
(enabled flags, velocities, motor mode), the port lock, the heartbeat and reader
threads. *Hard*: command handlers store to the atomics without the lock under which
the heartbeat reads them; a mode flag that may disagree with the MCU; torn
velocities; no deadman. *Correct when*: an active component finds the MCU in
navigation mode; an emergency stop holds; a velocity pair belongs to one command.

**CRL-200S lidars** (`CRL/delta2d`, `CRL/revo_lds`), **mock device**
(`sangamio/src/devices/mock`). A parser thread each; a numerical simulation.

**dhruva-nav threads** (`dhruva-nav/src/shared.rs`, `threads/`, `main.rs`). *State*:
flags (safety stop, shutdown, exploration complete), two velocities and the poses in
atomics, a bounded scan channel, the shared grid. *Operations*: the sensor thread
drains telemetry and sends the velocity, the exploration thread calls the explorer, the
mapping thread turns scans into the grid, main watches and joins. *Hard*: a safety stop
is followed by a velocity of the same iteration; velocities torn between two atomics;
threads end in any order, or are never joined. *Correct when*: what still reaches the
robot after a flag is bounded; the process ends, with the robot stopped.

**dhruva-nav explorer** (`dhruva-nav/src/exploration/`). *State*: the state of the
exploration, the list of frontiers being worked on, counters of failures, replans and
recoveries, two blacklists, the follower's path. *Operations*: `start`, and `update`
with one branch per state. *Hard*: which frontier a failure is booked on; blacklists
that expire; an escape that repeats; paths that outlive their goal. *Correct when*: no
frontier is tried for ever; the exploration ends, at home if asked to.

**dhruva-nav planning and odometry** (`planning/`, `odometry.rs`): geometry and a
grid search.

**dhruva-slam daemon** (`dhruva-slam/src/threads`, `state`, `navigation`,
`io/motion_controller.rs`). *State*: the target stack and navigation state, the
exploration mode, two command channels, the SLAM thread's mode, one motion controller
that two threads enable, and each thread's own belief about it. *Operations*: client
commands, the navigation thread's cycle, the exploration thread's, start and end.
*Hard*: what one thread has read under a lock it uses after it; two threads share a
drive; commands to SangamIO fail and the connection is made anew. *Correct when*:
targets are worked off; an idle robot stands; an emergency stop and the end stop it.

**dhruva-slam algorithms** (`algorithms/`, `engine/`, `sensors/`): scan matching,
filters and graph optimization in floating point.

**vastu-slam occupancy grid** (`vastu-slam/src/grid/`, `core/cell.rs`). *State*: per
cell a type, log-odds and a distance to the nearest wall; origin and size. *Operations*:
a lidar scan, a cliff or bumper mark, growing, clearing. *Hard*: cell types have three
writers with different rules; the distance field is kept up incrementally, by
coordinates that growing shifts. *Correct when*: types agree with the evidence,
distances with the walls.

**vastu-slam optimizer, submaps, matching** (`matching/`, `submap/`, `evaluation/`).
Floating-point mapping. `BackgroundOptimizer` has a thread with trigger and result
channels, but no program of the repository starts it. **drishti**, **protocol-mitm**,
**slam-test**: a user interface, a logger and scripts.

PROJECT.json lists all of them with their status, and under "hazards" what is hard to
test in this code, at its line, with the properties that would catch it.

## 2. The modules

| module | models | code |
|---|---|---|
| S5MaxMcu | the MCU session, its caller and the MCU behind a lossy UART | `S5/mcu.rs`, `safety.rs`, parts of `lifecycle.rs`, `mod.rs` |
| S5MaxSession | what a session promises to its owner (abstract) | the interface of `McuDriver` |
| S5MaxDriver | driver, lifecycle and three worker threads; the session is the abstract one | `S5/mod.rs`, `lifecycle.rs`, `lds_motor.rs`, `lds_reader.rs`, `watchdog.rs` |
| SangamConnections | accept loop, receiver threads, publisher | `main.rs`, `tcp_receiver.rs`, `udp_publisher.rs` |
| Gd32 | command handlers, heartbeat, reader and shutdown of the CRL-200S motor driver | `CRL/gd32/` |
| NavMission | what the exploration thread may rely on of its explorer (abstract) | the interface of `explorer.rs` |
| NavExplorer | the explorer and its path follower | `dhruva-nav/src/exploration/explorer.rs`, `follower.rs` |
| NavThreads | the four threads of dhruva-nav, with any mission for an explorer | `dhruva-nav/src/threads/`, `main.rs`, `shared.rs` |
| SlamNavigation | the target stack and the navigator, as operators | `dhruva-slam/src/navigation/state.rs`, `navigator.rs` |
| SlamDaemon | commands, navigation and exploration thread, motion controller | `dhruva-slam/src/threads/`, `state/`, `io/motion_controller.rs` |
| VastuGrid | the occupancy grid | `vastu-slam/src/grid/` |
| MCS5MaxMcu, MCGd32, MCVastuGrid | instances for TLC | |
| S5MaxMcuProofs, S5MaxDriverProofs, SangamConnectionsProofs, Gd32Proofs, NavExplorerProofs, NavThreadsProofs, SlamDaemonProofs, VastuGridProofs | theorems on the module they extend | |

### 2.1 S5MaxMcu

*Caller.* `execute()` is `Issue` (with the gate of `execute_actuator`), `Send` or
`SendFails`, `TakeReply` or `ReplyTimeout`, `WaitForAll`; `at` says where it is. The
driver mutex lets one caller in at a time. A caller that gives up marks its request
abandoned; the request stays in the queue, as in the code.

*Worker.* `wpc` runs through "drain" (`Execute`, `ExecuteFails`), "tend" (`Retry`,
`Tend`, and the ways out: `ReportsStale`, `StartupFails`, `UartFails`), "read"
(`ReadFrame`, `NextIteration`), and after the loop "stop", "drop" (`StopAll`), "exit"
(`Exit`). All frames of one command are one step: between them no other thread reads
what they change. Retries come before the lease check, as in the loop.

*Owner.* `owner` says where `initialize`, then `shutdown_all`, has got. A lifecycle
transition reads the state under one lock and writes it under the next, so it is two
steps: `CheckSynchronized` and `SetOperational` at the start (`InitializeFails` instead
when anything else of initialize does), `BeginStopping` and `SetStopping` at the end. A
Fault that `Exit` or `FaultElsewhere` records in between is overwritten; `JoinWorker`,
which gets the worker's error, records it again.

*MCU.* `out` is the last level an actuator heard. A frame with acknowledgement is one
slot of `acks`; the MCU may get it (`got`) and its answer may get through (`acked`),
each or neither. A frame without acknowledgement (wheels, stop set) may not be heard;
`missed` remembers which actuator is at another level because of that. A re-sent frame
may be obeyed again or recognised by its number.

*Time* is not measured. A lease, the report window and the deadline elapse at any
moment after they were armed, with one ordering the code guarantees: the worker's
deadline is armed no earlier than the report window it repeats. Timeouts of the
caller may hit at any moment. This covers every schedule.

*Abstracted*: velocities are zero or not (levels); `WakeMcu`, the pump's stop and
heartbeats move nothing; sequence numbers are any unused one, so reuse after a wrap
is not covered; settled slots nobody waits for are freed. *History variables*: `stray`
(an actuator moved by the retry of an abandoned request), `missed`, `halted`.

### 2.2 S5MaxSession and S5MaxDriver

S5MaxSession keeps `phase`, `moving` and `failed`: nothing moves before "live"; the
whole stop set written means not moving; otherwise the result is an error. S5MaxMcu
implements it with `Phase`, `Moving` (an actuator is not at 0 and did not miss a frame)
and `failed`; `Session` in S5MaxMcu is the mapping, `ImplementsSession` the property.

In S5MaxDriver `step` is the program counter of the thread that holds the driver
mutex: the steps of `initialize`, of `shutdown_all`, and the two client commands that
wait in the middle. A lifecycle transition is three steps (`Check`, `Set`, `Publish`)
because it takes three locks one after the other. Where all workers are joined already
the transition is one step. A worker is "running", then "ended", or "faulted" (state
written) and "failed" (published, flag raised), until it is joined. Opening a device,
an ioctl, a command to the MCU may each fail. `broken` remembers that a worker failed.

### 2.3 SangamConnections

`srv` is the program counter of the accept loop, `receiver[c]` that of each receiver
thread; every lock acquisition is a step. `cur` is whose alive-flag `current_conn`
holds, `writer` whose socket. The publisher alternates `Look` (sample the registry) and
`Send`; of its groups the model keeps one that never changes. `late` counts commands a
connection executes after it was replaced; `sent` says who got that group.

### 2.4 Gd32

A command handler is a script (`todo`): stores to the atomics of `state.rs`, each a step
that needs no lock, and writes, each a step that needs the port. An error ends the script,
except in the emergency stop, whose frames are one write under one lock. The heartbeat
(`hb`) wakes, takes the port, reads the atomics one by one (`HbRead`), the same ones twice
where the code does, switches the mode (`HbModeOn`, `HbModeOnFails`, `HbModeOff`), reads the
mode again and sends (`HbSend`). The reader takes and returns the port in a loop.
`Shutdown` and `ShutdownEnds` are GD32Driver::shutdown before and after the two joins;
commands are accepted afterwards too, as in the code, and find no heartbeat.

`out` is what each device of the GD32 was last heard to be told. `apart` are the devices
that a lost frame, or a tank command (which is not stored), keeps from what is stored;
`calm` remembers that an emergency stop has returned with nothing asked for since.
*Abstracted*: velocities are levels, both parts equal, so that a mix shows; mode is
navigation or not; the lidar is on or off. The GD32's own watchdog is not modelled: what
it stops is not visible in the repository. The driver starts on a robot at rest (what
the option `safe_start` is for).

### 2.5 NavMission and NavExplorer

NavMission is what the exploration thread sees: `start()` once, updates that may move the
robot, an end after which nothing moves. NavExplorer implements it (`ImplementsMission`),
NavThreads uses it.

In NavExplorer one action is one call of `update()` that takes one branch of one state, in
the code's order: selection (`SelectFresh`, `SelectExpired` when blacklistings have run
out, `Exhausted` when all in sight are blacklisted), `Plan` and `Replan`, the branches of
`navigate()`, recovery, the one escape, the way home. The environment is free: the
detector may return any list of frontiers, a plan may exist or not, a timer may have run
out, the robot may be anywhere. `replans` counts to its limit and no further, which is all
the code compares. History: `athome`, the mission ended at the start position.

### 2.6 NavThreads

Each thread has a program counter (`sensor`, `explore`, `mapping`, `main`), each load and
store of an atomic is a step; the two velocities are separate. The sensor thread checks its
flags (`SensorShutdown`, `SensorSafety`, `SensorClear`), drains telemetry (`Drain`), loads
and sends. `MainSignals`, `JoinSensor` and what follows are the end of `main.rs`. A connection that
cannot be opened ends the sensor thread, a failing write is only logged, as in the code. A
write may also never return (`WriteStuck`), because the connection has a limit for reads only
(`client.rs:204-206`); main then waits for the sensor thread for ever. *Abstracted*: a velocity is zero or not, a scan is one of a number, poses are left
out. History: `stopLost`, the last stop frame was not written; `late`, drive commands after
a flag.

### 2.7 SlamNavigation and SlamDaemon

SlamNavigation has the operations on the record the threads share (push, pop, clear,
replan) and what one `update` of the navigator may make of it: geometry is a free choice.
In SlamDaemon a step is what a thread does under one lock, and what it keeps of an earlier
read is in its own variables (`active`, `navMap`, `xmode`, ...); `motors` and `xmotors`
are the two threads' beliefs about the one drive. Client commands arrive in one step, in
the channels the publisher sends them to. `Enable`, `SetVelocity`, `Disable` are the motion
controller: each may fail, and a failure may have reconnected. A write may also never return
(`WriteHangs`, the thread is then at "stuck"): the connection has a limit for reads only
(`sangam_client.rs:451-454`), and since the thread holds the controller's mutex the other
one cannot command the robot either. History: `faults`, `missed` and `lidarMissed` (it runs
because the command to stop it was lost). MappingFeature is left out: no command starts it.

### 2.8 VastuGrid

A cell is named by its place in the world; grid coordinates are relative to the origin, which
growing moves. A scan is `StartScan`, any number of rays (`Ray`, or `RayBeyond` when the grid
has to grow) and `EndScan`, which floods the distance field from the walls noted so far. A
ray applies a miss to each cell of its Bresenham line and a hit to its end. `Mark` is one
cell a cliff sensor or a bumper marks; a call marks up to four such cells, one after the
other. Distances count tenths of a cell, 14 for the diagonal. History: `marked`; `struck`, a
ray has ended there since; `bumped`, touched by a bumper and no ray has ended there since;
`walled`, cells that ever became a wall, which the distance field does not forget when a
miss makes floor of them; `grown`; `displaced`, walls whose noted coordinates a growing in
the same scan has shifted.

The flood works in rounds: `Spread` takes all that is in the queue, with the distances it was
queued with, and queues each cell it brings closer. The code takes one entry at a time;
either way the loop ends only when no entry can bring a cell closer, so the distances at the end
do not depend on the order. A step adds ten at least, so `Rounds` of them empty the queue
(proved, see section 4).

## 3. What TLC checks

| run | instance | shows |
|---|---|---|
| s5_motor | 1 cleaner, 3 sequence numbers, queue 1, 2 attempts; fan on, fan off, emergency stop | the safety of acknowledged commands |
| s5_drive | 2 sequence numbers, queue 2; drive, stop, emergency stop, charger | the lease, liveness, the refinement of S5MaxSession |
| s5_reset | as s5_motor, queue 2 | *violation*: a retry undoes an emergency stop |
| s5_driver | actuation allowed | every step of start and shutdown against failing workers |
| conn | 2 connections from one address | take-over, clean-up, the end of receivers |
| gd32 | 1 component with two speeds, one command of each kind, mode frames may be lost | handlers against the heartbeat |
| nav_explorer | 2 frontiers, limits 3, 3, 2, 3 as in the code, return to start | the exploration ends and works soundly |
| nav_threads | 2 scans to start, a channel of 2 | what follows a flag, the end of the process |
| slam | 1 replan, 2 client commands, 1 command to SangamIO that is lost or hangs | targets, standing still, the end |
| grid | 3 by 2 cells that may grow by a column, 2 scans of 2 rays, 1 mark | types and distances agree with the evidence |
| grid_marks | as grid | *violation*: the lidar undoes a mark |
| grid_walls | as grid | *violation*: a wall is left out of the distance field |

**Properties of the session.** `NonzeroNeedsSync`: nothing moves before the handshake.
`OkMeansObeyed`:
Ok is returned only for a command the MCU obeyed. `ResetHaltsUnlessStray`: after an
emergency stop nothing moves without a new command, but for the retry of an abandoned
one. `DoneMeansStopped`: at the end all is stopped, or the stop failed and the driver is in
Fault, or will be when its owner has joined the worker. `LeaseCoversDrive`: the lease,
`drive_active`, the target and the wheels agree. `DeadmanStops`, `ShutdownEnds`: an
elapsed lease stops the wheels, the flag ends the thread.

**Properties of the driver.** `StoppedMeansClean`: Stopped is true, and no failure on the way
leaks a thread or the motor. `FailureIsReported`: a failure is not lost, though a lifecycle
transition, which reads the state, releases the lock and then writes, may have overwritten
the Fault (the diagram in `PROTOCOL.md` has no edge out of Fault): the join reports it; and
clients read the state the driver is in. `SessionStartsStill`: a new session starts on a
still robot. `CallsReturn`.

**Properties of the connections.** `OneLateCommand`: a replaced client gets at most one
more command through. `StreamingStops`: nobody stays registered when all are gone.
`NoOtherIsDropped`: a clean-up takes `current_conn` from nobody alive. `ReceiversEnd`.

**Properties of the GD32 driver.** `EmergencyStopHolds`: after an emergency stop all is off
and navigation mode left, though the heartbeat may have set its mode flag again after
clear_all. `DevicesFollow`: between two commands devices do what is stored, whatever a
cycle had read before. `EnabledRuns`: what is on gets speed and navigation mode, though
disabling the drive leaves that mode behind the heartbeat's back. `ShutdownReturns`: the
joins end.

**Properties of the navigation client.** `WorkIsSound`: a frontier given up for good is never
worked on again and none is given up before the one escape; under way there is a path and a
frontier to blame; a completed mission ended at home, or with a finished path still in the
follower that `return_home` took for the way home. `ExplorationEnds`: whatever the detector
says, if from some time on no frontier is reached and no blacklisting expires.
`OneLateCommand`: one velocity may still go out after a safety stop. `StoppedAtExit`,
`ProcessEnds`: any flag, and the loss of any thread, ends the process with the robot told to
stop, unless that last write failed, or a write hangs and the process with it.

**Properties of the SLAM daemon.** `StoppedAtEnd`: two threads that each believe what they
like about the drive end, in either order, with it disabled. `StandsStill`: a robot nobody
wants to move comes to stand, though cancelling sends no zero velocity.
`GoalsSettleUnlessHeld`: the navigator is done with its targets again and again; a hazard that
stays, or one that returns with every plan, does not keep it at them for ever. Its exceptions
are what the code does not bound: a robot held while it follows its path or turns, a write
that hangs, and a target pushed in the moment in which the exploration thread overwrites
Reached with Idle.

**Properties of the grid.** `TypeFollowsEvidence`: after any sequence of hits, misses and marks
a cell's type agrees with its log-odds and marks; a bump stays a bump, and a cliff a cliff or
a bump, until a ray ends in the cell. `DistanceFieldSound`: between scans every cell that ever
became a wall has distance 0, displaced ones excepted; while none was displaced no other cell
has it; and on a grid of its first size every distance is that to the nearest such cell. A wall
that vanished keeps its zero: floods only lower distances, and what would recompute them is
called by tests only.

**Disagreements found.** Three are violation runs (PROJECT.json, "findings"). Each checks
what a comment of the repository says:

* s5_reset, `ResetHalts`: the retry of an abandoned request turns an actuator on after an
  emergency stop (`core/types.rs:191`: "immediate halt, all actuators off").
* grid_marks, `MarksStay`: a ray that ends in a marked cell makes a wall of it, since
  `apply_hit` asks for no priority, and misses may then make floor of that
  (`bumper_update.rs:26`, `cliff_update.rs:25`, `cell.rs:33`).
* grid_walls, `WallsAtZero`: `update_from_lidar` notes a new wall's coordinates, a later ray of
  the scan moves the origin, and the flood starts from the wrong cell (`core.rs:613`).

The others were seen while modelling and have no run:

* `gd32/mod.rs:54` says "All velocities/components zeroed on shutdown", and `CRL/mod.rs:68`
  that GD32 shutdown handles the lidar motor. `shutdown` (`gd32/mod.rs:278-283`) sends one
  frame with velocity 0; cleaners and lidar motor are told nothing. Every shutdown with one
  of them on shows it.
* `main.rs:312-313` says that a connection is only unregistered if it is still the active one.
  The check is under the lock of `current_conn`, the resets after it (`main.rs:325-333`): a
  client accepted in between loses its registration. `NoOtherIsDropped` is what remains true.
* `dhruva-slam/src/state/commands.rs:39` says that an emergency stop sets the velocity to zero
  and disables the motors. `slam_thread.rs:327-343` leaves the targets alone, and the
  exploration thread disables only what it enabled itself: the navigation thread drives on to
  a client's goal.
* `dhruva-nav/src/main.rs:156` says of the joins "(with timeout)"; that of the sensor thread
  has none.
* The diagram in `PROTOCOL.md` has no edge out of Fault; a transition may overwrite it. The
  join reports it (`FailureIsReported`).
* A client that takes over from the same address between two samples of the publisher is not
  sent the groups that never change. No document denies it.

**Bounds and why they are enough.** *S5MaxMcu*: with two places in the queue an
abandoned request and a new one coexist and the queue can be full (s5_drive, s5_reset); with
one it is empty or full, and an abandoned request that was executed, its frames
unacknowledged, coexists with a new one (s5_motor, which is the larger instance and has no
room for more); three numbers allow
the two frames of one command next to one of an abandoned one; two attempts are the
first retry and the exhausted state (`MAX_SYNC_ATTEMPTS` is 3). One cleaner, because
cleaners do not interact. The two runs split the commands because their product is too
large; the theorems hold for all of them together. Sequence numbers are symmetric in
s5_motor, which checks no liveness. *S5MaxDriver* is finite as it stands: TLC sees all
of it for `AllowActuation = TRUE`, which allows strictly more. *SangamConnections*:
two connections are one take-over; a third adds no new pair, and the theorems hold for
any number. One address in the passing run is the harder case for the publisher and
halves the state space; address values play no part in the other properties.
*Gd32*: components do not interact but through any_active, and one of them next to the
lidar and the wheels makes it true or false; `Lossy` names the devices whose frames may
be lost: the mode is the one that the repair by repetition is about. With every frame
lossy the invariants hold as well (19 million states, not part of the runs).
*NavExplorer*: two frontiers, because the list, the blacklists and "the next one" need no more;
the counters have the code's limits. *NavThreads*: two scans are "one, but not enough", a
channel of two is empty, used and full. *SlamDaemon*: two commands are every pair and order
of commands; one replan is a plan that is renewed and one that is not; one command that is lost or hangs may
be any of them. ClearMap is not among the commands because what it does is part of what
StartMapping does. *VastuGrid*: three by two cells have straight and diagonal neighbours, and rays
across; growing by a column to either side moves the origin or not; one hit makes a wall and
one miss a floor, so four rays are walls that appear, vanish and reappear. MaxDistance is two
cells, a field that ends inside the grid.
CHECK_DEADLOCK is off where the code stops or the instance's commands and rays are used
up: a session that is over, a daemon or process that has ended, the last scan.

**Fairness.** The operating system schedules the threads; polls, reads and channel waits
have deadlines in the code. Writes have none in three places. In the two clients a write may
therefore hang in the model, and the liveness properties say so. In *S5MaxMcu* it is the drain
of the UART (`tcdrain`, `tty.rs:261`), a local device that always empties its buffer: it is
assumed to return. The rest there is weak fairness of each phase of the loop, of the stop and
of the exit. `KeepsUp` assumes that the unbounded
`while let Ok(..) = try_recv()` finds the queue empty now and then: one caller at a
time waits for each answer, so the worker, which answers in microseconds, outruns it.
Nothing is assumed of MCU, client or the other threads. *S5MaxDriver*: the caller's thread, both simple
workers once the flag is up, and that a session which sees the flag ends, which is
`ShutdownEnds` of S5MaxMcu. *SangamConnections*: the threads run; reading a closed
socket sooner or later fails (strong fairness, since the thread may read what was
buffered first). *Gd32*: strong fairness of each thread, because std's mutex is not fair
and the reader takes the port again without a pause: that a lock which is free again and
again is had some time is an assumption on the platform; and a frame that is sent again
and again gets through. The client, the accept of new ones and Ctrl-C are never fair.
*NavExplorer*: `update` is called every 50 ms; a navigation ends (the stuck window and the
progress timer run on through replans); a robot told to back up, turn or drive does; a plan
home is not degenerate for ever. `Settles`, the premise of `ExplorationEnds`, keeps the
environment from offering new frontiers for ever. *NavThreads*: each thread runs, until a write hangs it.
*SlamDaemon*: the threads run, until a write hangs; ten idle seconds elapse (strong, because
commands interrupt the count); an escape ends, which is timed (strong). Of following a path and
of turning nothing is assumed: near a waypoint the stuck check is skipped
(`navigator.rs:402-446`), a turn has no limit (`navigator.rs:511-548`), and a robot held there
waits for ever.

## 4. What is proved

Every safety property of the passing runs, that is each of their invariants, type
invariants, action properties and refinements, is a theorem: for every value of the
constants that the modules' assumptions admit. These ask for no more than the code has:
capacities, counts and retry limits that are numbers (positive where the code's constant
is), wheels that are no cleaner and a set of well-formed commands (S5MaxMcu, Gd32), a
finite set of frontiers (NavExplorer; no detector finds infinitely many), and for VastuGrid
thresholds with the signs of `config.rs` and a world that is a rectangle or the whole plane.

The properties are seldom inductive as they stand. The strengthening of each was checked
by TLC on the instance of its run before it was proved.

**S5MaxMcuProofs.** `TypeCorrect` first; every other proof uses it. The invariants of
the runs are not inductive, so each is proved from a strengthening:

* `Handshake` (what the caller was told agrees with what the worker saw, and only a
  session told Ok is operational) gives `StartupArm`.
* `NonzeroStarted` follows a non-zero level from the caller over the queue and the
  tracker to the actuator, and says that none is anywhere on that way before the
  handshake and the first report; it gives `SyncBeforeMotion`.
* `LeaseCoversDrive` is inductive with the types alone (`LeaseCovers`).
* `StoppedOrFailed` extends the claim to the phases between loop and end, and follows the
  failure until the join when the Fault was overwritten: `EndStops`.
* `HandOver` says that only the last request of the queue can have a caller, and that
  a caller that waits for acknowledgements faces an empty queue. With it `HaltedStill`
  (slots with a caller carry level 0 after an emergency stop, so what a retry revives
  was abandoned) gives `EmergencyStopHolds`.
* `Received` and `OwnedMatch` (slots a caller waits for are those of its own command,
  and once the MCU has one the actuator is where it says) give `OkIsObeyed`, an action
  property.

In the same module, `SessionImplemented`: S5MaxMcu implements S5MaxSession. Steps in
the loop map to Synchronize, Actuate or a stutter (by `NonzeroNeedsSync` nothing moves
before Synchronize), steps out of it to Finish, the stop set to StopSucceeds or
StopFails. So S5MaxDriver rests on a proved interface.

**SangamConnectionsProofs.** `TypeCorrect`; `OneLate` from `Spent` (who executed a late
command is past its last check); `NoneIsDropped` from `Down` (who cleans up has its flag
down); `StreamingEnds` from `Current` and `Cleared` (a registered address always has a
thread left that will clear it).

**S5MaxDriverProofs.** `DriverInv` says at each step of `initialize` and `shutdown_all` which
workers and which motor guard are in the driver's fields (`OwnedInv`), which lifecycle states
are possible (`StateInv`), what the shutdown has stopped by then unless it remembers an error
(`StillInv`), that a session which ended without an error stopped what it moved (`McuInv`),
and that no failure is forgotten: it is a thread's that is still to be joined, or the call's, or
the driver's (`ReportInv`). `StoppedIsClean` follows from
`OwnedInv` and `CleanInv` (a driver that says it is stopped has nothing to stop), `FailuresReported` from `OwnedInv` and `ReportInv`, and
`SessionsStartStill` from `StillInv`, which has nothing moving before a session begins.

**Gd32Proofs.** The difficulty is a heartbeat cycle that has read half of the atomics when a
handler writes the others. `Owed(d)` says that the rest of the handler's script will yet tell
`d` what is stored for it. `CycleInv`: all that a cycle has read is what is stored, or owed,
or read again before it is sent; `FollowInv`: the same of what the devices were told;
`TellInv`: a script tells only what it stored before. So no cycle has the last word
(`DevicesFollowStored`). `ClearInv` and `CalmInv` follow the zeros of an emergency stop
through atomics and cycle, and say that no cycle is left which believes it should switch to
navigation mode (`EmergencyStopStays`).

**NavExplorerProofs.** `TypeCorrect` holds the index into the list of frontiers and every counter
to its range; `Without`, which keeps the list without some frontiers, is shown to be a list
of the others without repetition (`WithoutIs`). `LimitInv` (whoever works may still recover;
only what has a path is finished) and `CountInv` (a full count is settled) make `WorkIsSound`
inductive: `WorkSound`. `MissionImplemented`: each branch of update() is a step of NavMission
or a stutter. So NavThreads, which uses the abstract mission, rests on a proved interface.

**NavThreadsProofs.** `OneLate`: a second late command would need the sensor thread to have
loaded one when the first was late, but whoever is late has `Spent` it (a raised flag keeps it
at the top of its loop; the end of the exploration leaves nothing to load, by `CompleteInv`).
`StoppedAtTheEnd` from `SensorInv`: after "done" no one writes to the robot.

**SlamDaemonProofs.** `Types` adds to the type invariant that a plan is followed only while
replans are left, and that targets and commands still in the queue together are at most one
more than the commands that came (the one is a target of the exploration thread). `LastInv` gives
`StoppedAtTheEnd`: the exploration thread leaves the drive disabled and the lidar off, so
what is on after it the navigation thread has switched on, and knows that it has to undo.

**VastuGridProofs.** `EvidenceFollowed`: `TypeFollowsEvidence` is inductive with the types.
`FieldExact` is the result that testing reaches least. A field is `Supported` when every
distance is at least that of some cell that became a wall, and `Relaxed` when no cell is farther than a
neighbour and the step to it; `RelaxedReaches` walks from a cell to the nearest such cell
and shows that a field which is both is exact (`FieldIsExact`). A round of the flood keeps
both but for the queue (`RoundKeeps`), what is queued in round k is 10k away at least, so after
`Rounds` the queue is empty (`FloodKeeps`), and seeding new walls breaks `Relaxed` only at the
seeds (`SeededFlood`). `FieldInv` says both of the field of a grid that has not grown, and
`WallInv` that a wall which was not displaced is at distance 0 or among the new walls of the
scan, through every shift of the origin (`ExpandedIs`). The induction over rounds and over
distances is on sets (`LeastOf`, `InductionOn`), derived from the well-foundedness of finite
sets, because the library's induction theorems take an operator.

**Only model-checked.** Liveness, which is out of the prover's reach: `DeadmanStops`,
`ShutdownEnds`, `CallsReturn`, `ReceiversEnd`, `EnabledRuns`, `ShutdownReturns`,
`ExplorationEnds`, `ProcessEnds`, `StandsStill`, `GoalsSettleUnlessHeld`. Neither checked nor proved, but
assumed, are the fairness of section 3 and the abstractions of section 2.

## 5. What is not modelled, and why

* S5 Max: byte layouts; reuse of sequence numbers after 255 frames; water-pump timing;
  a kernel watchdog that fires; poisoned mutexes. What the firmware does with subsystem
  enables is not visible in the repository.
* Daemon: lost UDP packets; partial TCP frames; the safe-start thread (three resets at
  start, before the first client as a rule); failure to spawn a receiver, which leaves
  its address registered; the streaming channels.
* CRL-200S: the GD32's own watchdog, the commands that write one frame and store nothing
  (LED, IMU, compass, cliff, power), lidar_pwm, the periodic 0x0D request.
* dhruva-nav: poses and their torn reads, how frontiers are found and paths planned
  (cost map, search, smoother), the debug viewer, the bytes of `client.rs`.
* dhruva-slam: MappingFeature (no command starts it), the map manager and files, the stream
  to clients, a SLAM thread that fails to open its socket, poses and paths.
* vastu-slam: confidences, counts and swept flags; updates of single rays;
  `recompute_distance_field`, which only tests call; the matchers; the submaps; the
  background optimizer, which no program starts.
* Floating-point algorithms of the SLAM and mapping libraries, codecs, file formats, the
  user interface, simulations and tools: no protocol state, or out of TLC's reach. They are
  most of the repository's lines, which is why the modules cover a small share of them.

## 6. Plan

Done: every module of section 2, their runs, and the proofs of section 4. Left, in this
order:

1. **Line**: that `Line` is a connected path from sensor to end, one step of the longer axis
   each, for every pair of places; that the flood's rounds reach the result of any order.
2. **S5MaxMcu**: reuse of sequence numbers after 255 frames. **SlamDaemon**: MappingFeature's
   state machine, though no command starts it today.
3. **FramedStream**: the four-byte framing under timeouts and partial writes, as a
   refinement of a message channel. **Submaps**: a submap fills, is finalized and no longer
   written, and its cached grids belong to its scans.
