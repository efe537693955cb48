--------------------------- MODULE S5MaxMcuProofs ---------------------------
(***************************************************************************)
(* Theorems about the MCU session, for any set of cleaning actuators, any  *)
(* queue capacity, any number of attempts and any set of sequence numbers. *)
(***************************************************************************)
EXTENDS S5MaxMcu, SequenceTheorems, TLAPS

\* A command is of one of the kinds the driver knows, with a level in range.
LEMMA CommandTypes ==
  ASSUME NEW c \in Commands
  PROVE  /\ c \in AllCommands
         /\ c.level \in Levels
         /\ c.act \in Cleaners \cup {Wheels, Aux}
         /\ c.op = "motor" => c.act \in Cleaners
BY ConstantsAssumption DEF AllCommands, Levels

\* There is some command for `cmd` to hold while no call runs.
LEMMA AnyCommandIsOne == AnyCommand \in Commands
BY ConstantsAssumption DEF AnyCommand

\* Levels are natural numbers, zero among them.
LEMMA LevelTypes == 0 \in Levels /\ Levels \subseteq Nat
BY ConstantsAssumption DEF Levels

\* What Expect and Settle make is an entry of the tracker.
LEMMA SlotTypes ==
  /\ Free \in Slot
  /\ \A e \in Slot : Settle(e) \in Slot
  /\ \A a \in Cleaners \cup {Aux}, l \in Levels, g, o \in BOOLEAN :
       Expect(a, l, g, o) \in Slot
BY ConstantsAssumption, LevelTypes DEF Free, Slot, Settle, Expect

\* Registering the frames of a command leaves a well-formed tracker.
LEMMA RegisteredType ==
  ASSUME TypeOK, NEW c \in Commands, NEW owned \in BOOLEAN,
         NEW slot \in [AckedFrames(c) -> FreeSeqs], NEW got \in SUBSET AckedFrames(c)
  PROVE  Registered(c, owned, slot, got) \in [Seqs -> Slot]
<1> SUFFICES ASSUME NEW s \in Seqs
             PROVE  Registered(c, owned, slot, got)[s] \in Slot
  BY DEF Registered
<1>1. CASE ~\E f \in DOMAIN slot : slot[f] = s
  BY <1>1 DEF Registered, TypeOK
<1>2. CASE \E f \in DOMAIN slot : slot[f] = s
  <2> DEFINE f == CHOOSE g \in DOMAIN slot : slot[g] = s
  <2>1. f \in AckedFrames(c)
    BY <1>2
  <2>2. Registered(c, owned, slot, got)[s] =
          Settle(IF f = "aux" THEN Expect(Aux, 0, f \in got, owned)
                              ELSE Expect(c.act, c.level, f \in got, owned))
    BY <1>2 DEF Registered
  <2>3. f # "aux" => c.act \in Cleaners
    BY <2>1, CommandTypes DEF AckedFrames
  <2>4. (f \in got) \in BOOLEAN
    OBVIOUS
  <2> HIDE DEF f
  <2>5. QED
    BY <2>2, <2>3, <2>4, SlotTypes, LevelTypes, CommandTypes
<1>3. QED
  BY <1>1, <1>2

\* Telling actuators a level, heard or not, keeps the MCU's variables well-formed.
LEMMA TellTypes ==
  ASSUME TypeOK, NEW A \in SUBSET Actuators, NEW level \in Levels, Tell(A, level)
  PROVE  /\ out' \in [Actuators -> Levels]
         /\ stray' \subseteq Actuators
         /\ missed' \subseteq Actuators
BY DEF Tell, TypeOK

\* So does what a command leaves behind in safety.rs and in the guard ...
LEMMA ExecutedTypes ==
  ASSUME TypeOK, NEW c \in Commands, Executed(c)
  PROVE  /\ driveActive' \in BOOLEAN
         /\ target' \in [Actuators -> Levels]
         /\ lease' \in {"none", "armed", "due"}
<1>1. /\ c.level \in Levels /\ 0 \in Levels
      /\ driveActive \in BOOLEAN /\ target \in [Actuators -> Levels]
      /\ lease \in {"none", "armed", "due"}
  BY CommandTypes, LevelTypes DEF TypeOK
<1>2. CASE c.op = "drive"
  BY <1>1, <1>2 DEF Executed, NonZero
<1>3. CASE c.op = "stop_drive"
  BY <1>1, <1>3 DEF Executed
<1>4. CASE c.op = "estop"
  BY <1>1, <1>4 DEF Executed
<1>5. CASE c.op = "motor"
  BY <1>1, <1>5 DEF Executed
<1>6. CASE c.op \notin {"drive", "stop_drive", "estop", "motor"}
  BY <1>1, <1>6 DEF Executed, driveVars
<1>7. QED
  BY <1>2, <1>3, <1>4, <1>5, <1>6

\* ... and what the MCU does with its frames.
LEMMA ObeyedTypes ==
  ASSUME TypeOK, NEW c \in Commands, NEW got, Obeyed(c, got)
  PROVE  /\ out' \in [Actuators -> Levels]
         /\ stray' \subseteq Actuators
         /\ missed' \subseteq Actuators
<1>1. c.level \in Levels /\ 0 \in Levels
  BY CommandTypes, LevelTypes
<1>2. CASE c.op \in {"drive", "stop_drive"}
  <2>1. Tell({Wheels}, c.level)
    BY <1>2 DEF Obeyed
  <2>2. QED
    BY <1>1, <2>1, TellTypes DEF Actuators
<1>3. CASE c.op = "estop"
  <2>1. Tell(Actuators, 0)
    BY <1>3 DEF Obeyed
  <2>2. QED
    BY <1>1, <2>1, TellTypes
<1>4. CASE c.op = "motor" /\ "target" \in got
  <2>1. /\ out' = [out EXCEPT ![c.act] = c.level]
        /\ stray' = stray \ {c.act}
        /\ missed' = missed \ {c.act}
    BY <1>4 DEF Obeyed
  <2>2. QED
    BY <1>1, <2>1 DEF TypeOK
<1>5. CASE /\ c.op \notin {"drive", "stop_drive", "estop"}
           /\ ~(c.op = "motor" /\ "target" \in got)
  <2>1. UNCHANGED <<out, stray, missed>>
    BY <1>5 DEF Obeyed
  <2>2. QED
    BY <2>1 DEF TypeOK
<1>6. QED
  BY <1>2, <1>3, <1>4, <1>5

\* A session starts with values of these types.
LEMMA TypeInit == Init => TypeOK
<1> SUFFICES ASSUME Init PROVE TypeOK
  OBVIOUS
<1>1. cmd \in Commands
  BY AnyCommandIsOne DEF Init
<1>2. queue \in Seq(Request) /\ Len(queue) <= QueueCap
  BY ConstantsAssumption DEF Init
<1>3. acks \in [Seqs -> Slot]
  BY SlotTypes DEF Init
<1>4. target \in [Actuators -> Levels] /\ out \in [Actuators -> Levels]
  BY LevelTypes DEF Init
<1>5. QED
  BY <1>1, <1>2, <1>3, <1>4 DEF Init, TypeOK

\* The queue: appending within its capacity, taking the head, abandoning and
\* dropping requests keep it a bounded sequence of requests.
LEMMA QueueTypes ==
  ASSUME TypeOK
  PROVE  /\ <<>> \in Seq(Request) /\ Len(<<>>) <= QueueCap
         /\ queue # <<>> => /\ Head(queue) \in Request
                           /\ Tail(queue) \in Seq(Request)
                           /\ Len(Tail(queue)) <= QueueCap
         /\ Len(queue) < QueueCap =>
              LET q == Append(queue, [cmd |-> cmd, abandoned |-> FALSE])
              IN  q \in Seq(Request) /\ Len(q) <= QueueCap
         /\ LET q == [i \in DOMAIN queue |-> [queue[i] EXCEPT !.abandoned = TRUE]]
            IN  q \in Seq(Request) /\ Len(q) <= QueueCap
<1>1. queue \in Seq(Request) /\ Len(queue) <= QueueCap /\ cmd \in Commands /\ QueueCap \in Nat
  BY ConstantsAssumption DEF TypeOK
<1>2. <<>> \in Seq(Request) /\ Len(<<>>) <= QueueCap
  BY <1>1
<1>3. queue # <<>> => /\ Head(queue) \in Request
                      /\ Tail(queue) \in Seq(Request)
                      /\ Len(Tail(queue)) <= QueueCap
  BY <1>1
<1>4. Len(queue) < QueueCap =>
        LET q == Append(queue, [cmd |-> cmd, abandoned |-> FALSE])
        IN  q \in Seq(Request) /\ Len(q) <= QueueCap
  BY <1>1 DEF Request
<1>5. LET q == [i \in DOMAIN queue |-> [queue[i] EXCEPT !.abandoned = TRUE]]
      IN  q \in Seq(Request) /\ Len(q) <= QueueCap
  <2> DEFINE q == [i \in 1 .. Len(queue) |-> [queue[i] EXCEPT !.abandoned = TRUE]]
  <2>1. DOMAIN queue = 1 .. Len(queue) /\ Len(queue) \in Nat
    BY <1>1
  <2>2. ASSUME NEW i \in 1 .. Len(queue)
        PROVE  [queue[i] EXCEPT !.abandoned = TRUE] \in Request
    <3>1. queue[i] \in Request
      BY <1>1
    <3>2. QED
      BY <3>1 DEF Request
  <2>3. q \in Seq(Request)
    BY <2>1, <2>2, q \in [1 .. Len(queue) -> Request], SeqDef
  <2>4. Len(q) = Len(queue)
    BY <2>1, <2>3
  <2>5. QED
    BY <1>1, <2>1, <2>3, <2>4
<1>6. QED
  BY <1>2, <1>3, <1>4, <1>5

\* Every step keeps the types: they are inductive on their own.
LEMMA TypeNext == TypeOK /\ [Next]_vars => TypeOK'
<1> SUFFICES ASSUME TypeOK, [Next]_vars PROVE TypeOK'
  OBVIOUS
<1> USE DEF callerVars, sessionVars, driveVars, mcuVars, lifeVars
<1>1. CASE UNCHANGED vars
  BY <1>1 DEF vars, TypeOK
<1>2. CASE \E c \in Commands : Issue(c)
  BY <1>2 DEF Issue, TypeOK
<1>3. CASE Send
  BY <1>3, QueueTypes DEF Send, TypeOK
<1>4. CASE SendFails
  BY <1>4, AnyCommandIsOne DEF SendFails, Return, TypeOK
<1>5. CASE TakeReply
  BY <1>5, AnyCommandIsOne DEF TakeReply, Return, TypeOK
<1>6. CASE ReplyTimeout
  <2>1. queue' \in Seq(Request) /\ Len(queue') <= QueueCap
    BY <1>6, QueueTypes DEF ReplyTimeout
  <2>2. QED
    BY <1>6, <2>1, AnyCommandIsOne DEF ReplyTimeout, Return, TypeOK
<1>7. CASE WaitForAll
  <2>1. acks' \in [Seqs -> Slot]
    BY <1>7, SlotTypes DEF WaitForAll, TypeOK
  <2>2. at' = "idle" /\ cmd' \in Commands /\ outcome' \in {"ok", "ack_exhausted", "ack_timeout"}
    BY <1>7, AnyCommandIsOne DEF WaitForAll, Return
  <2>3. QED
    BY <1>7, <2>1, <2>2 DEF WaitForAll, TypeOK
<1>8. CASE Execute
  <2>1. PICK slot \in [AckedFrames(Head(queue).cmd) -> FreeSeqs],
             got \in SUBSET AckedFrames(Head(queue).cmd) :
          /\ acks' = Registered(Head(queue).cmd, ~Head(queue).abandoned, slot, got)
          /\ Executed(Head(queue).cmd)
          /\ Obeyed(Head(queue).cmd, got)
          /\ reply' = IF ~Head(queue).abandoned THEN "ok" ELSE reply
          /\ halted' = (Head(queue).cmd.op = "estop" \/ (halted /\ ~NonZero(Head(queue).cmd)))
    BY <1>8 DEF Execute
  <2>2. Head(queue).cmd \in Commands /\ Head(queue).abandoned \in BOOLEAN
    BY <1>8, QueueTypes DEF Execute, Request
  <2>3. acks' \in [Seqs -> Slot]
    BY <2>1, <2>2, RegisteredType
  <2>4. /\ driveActive' \in BOOLEAN
        /\ target' \in [Actuators -> Levels]
        /\ lease' \in {"none", "armed", "due"}
    BY <2>1, <2>2, ExecutedTypes
  <2>5. /\ out' \in [Actuators -> Levels]
        /\ stray' \subseteq Actuators
        /\ missed' \subseteq Actuators
    BY <2>1, <2>2, ObeyedTypes
  <2>6. queue' \in Seq(Request) /\ Len(queue') <= QueueCap
    BY <1>8, QueueTypes DEF Execute
  <2>7. reply' \in {"empty", "ok", "error"} /\ halted' \in BOOLEAN
    BY <2>1 DEF TypeOK
  <2>8. QED
    BY <1>8, <2>3, <2>4, <2>5, <2>6, <2>7 DEF Execute, TypeOK
<1>9. CASE ExecuteFails
  <2>1. Head(queue).cmd \in Commands /\ Head(queue).abandoned \in BOOLEAN
    BY <1>9, QueueTypes DEF ExecuteFails, Request
  <2>2. queue' = <<>> /\ wpc' = "stop" /\ failed' = TRUE
    BY <1>9 DEF ExecuteFails, EndLoop
  <2>3. /\ driveActive' \in BOOLEAN
        /\ target' \in [Actuators -> Levels]
        /\ lease' \in {"none", "armed", "due"}
        /\ out' \in [Actuators -> Levels]
        /\ stray' \subseteq Actuators
        /\ missed' \subseteq Actuators
    <3>1. CASE Executed(Head(queue).cmd) /\ \E Z \in SUBSET Actuators : Tell(Z, 0)
      BY <2>1, <3>1, ExecutedTypes, TellTypes, LevelTypes
    <3>2. CASE /\ \E a \in Actuators \cup {Aux}, level \in Levels : out' = [out EXCEPT ![a] = level]
               /\ UNCHANGED <<driveVars, stray, missed>>
      BY <3>2 DEF TypeOK
    <3>3. CASE UNCHANGED <<driveVars, out, stray, missed>>
      BY <3>3 DEF TypeOK
    <3> DEFINE c == Head(queue).cmd
               a == IF c.op = "motor" THEN c.act ELSE Wheels
    <3>4. ASSUME NEW level \in {c.level, out[a]}, out' = [out EXCEPT ![a] = level]
          PROVE  \E b \in Actuators \cup {Aux}, l \in Levels : out' = [out EXCEPT ![b] = l]
      <4>1. a \in Actuators /\ c.level \in Levels
        BY <2>1, CommandTypes DEF Actuators
      <4>2. out[a] \in Levels
        BY <4>1 DEF TypeOK
      <4>3. QED
        BY <3>4, <4>1, <4>2
    <3>5. QED
      BY <1>9, <3>1, <3>2, <3>3, <3>4 DEF ExecuteFails
  <2>4. reply' \in {"empty", "ok", "error"} /\ halted' \in BOOLEAN
    BY <1>9 DEF ExecuteFails, TypeOK, NonZero
  <2>5. QED
    BY <1>9, <2>2, <2>3, <2>4, QueueTypes DEF ExecuteFails, TypeOK
<1>10. CASE Drained
  BY <1>10 DEF Drained, TypeOK
<1>11. CASE \E s \in Seqs : Retry(s)
  <2> PICK s \in Seqs : Retry(s)
    BY <1>11
  <2>1. PICK got, obeyed \in BOOLEAN :
          /\ got /\ ~acks[s].got => obeyed
          /\ acks' = [acks EXCEPT ![s] =
                        Settle([acks[s] EXCEPT !.attempts = @ + 1, !.got = @ \/ got])]
          /\ IF obeyed /\ acks[s].act # Aux
             THEN /\ out' = [out EXCEPT ![acks[s].act] = acks[s].level]
                  /\ stray' = IF acks[s].owned THEN stray \ {acks[s].act}
                                               ELSE stray \cup {acks[s].act}
                  /\ missed' = missed \ {acks[s].act}
             ELSE UNCHANGED <<out, stray, missed>>
    BY DEF Retry
  <2>2. acks[s] \in Slot /\ acks[s].attempts < MaxAttempts
    BY DEF Retry, Due, TypeOK
  <2>3. [acks[s] EXCEPT !.attempts = @ + 1, !.got = @ \/ got] \in Slot
    <3>1. acks[s].attempts + 1 \in 0 .. MaxAttempts
      BY <2>2, ConstantsAssumption DEF Slot
    <3>2. (acks[s].got \/ got) \in BOOLEAN
      OBVIOUS
    <3>3. \A n \in 0 .. MaxAttempts, b \in BOOLEAN :
             [acks[s] EXCEPT !.attempts = n, !.got = b] \in Slot
      BY <2>2 DEF Slot
    <3>4. QED
      BY <3>1, <3>2, <3>3
  <2>4. acks' \in [Seqs -> Slot]
    BY <2>1, <2>3, SlotTypes DEF TypeOK
  <2>5. acks[s].act # Aux => acks[s].act \in Cleaners
    BY <2>2 DEF Slot
  <2>6. /\ out' \in [Actuators -> Levels]
        /\ stray' \subseteq Actuators
        /\ missed' \subseteq Actuators
    BY <2>1, <2>2, <2>5 DEF TypeOK, Slot, Actuators
  <2>7. QED
    BY <2>4, <2>6 DEF Retry, TypeOK
<1> DEFINE DriveTypes == /\ driveActive' \in BOOLEAN
                         /\ target' \in [Actuators -> Levels]
                         /\ lease' \in {"none", "armed", "due"}
                         /\ out' \in [Actuators -> Levels]
                         /\ stray' \subseteq Actuators
                         /\ missed' \subseteq Actuators
<1>12. ASSUME LeaseChecked PROVE DriveTypes
  <2>1. CASE lease = "due"
    BY <1>12, <2>1, TellTypes, LevelTypes DEF LeaseChecked, TypeOK, Actuators
  <2>2. CASE lease # "due"
    BY <1>12, <2>2 DEF LeaseChecked, TypeOK
  <2>3. QED
    BY <2>1, <2>2
<1>13. ASSUME NEW Z \in SUBSET Actuators, StopSet(Z) PROVE DriveTypes
  BY <1>13, TellTypes, LevelTypes DEF StopSet
<1>14. CASE Tend
  BY <1>12, <1>14 DEF Tend, TypeOK
<1>15. CASE ReportsStale
  BY <1>12, <1>15, QueueTypes DEF ReportsStale, EndLoop, TypeOK
<1>16. CASE StartupFails
  BY <1>16, QueueTypes DEF StartupFails, EndLoop, TypeOK
<1>17. CASE UartFails
  <2>1. DriveTypes
    BY <1>12, <1>17, LevelTypes DEF UartFails, TypeOK
  <2>2. QED
    BY <1>17, <2>1, QueueTypes DEF UartFails, EndLoop, TypeOK
<1>18. CASE ReadFrame
  <2>1. acks' \in [Seqs -> Slot]
    <3>1. PICK answered \in SUBSET {s \in Seqs : acks[s].got /\ ~acks[s].acked} :
            acks' = [s \in Seqs |-> IF s \in answered
                                    THEN Settle([acks[s] EXCEPT !.acked = TRUE])
                                    ELSE acks[s]]
      BY <1>18 DEF ReadFrame
    <3>2. \A s \in Seqs : acks[s] \in Slot /\ [acks[s] EXCEPT !.acked = TRUE] \in Slot
      BY DEF TypeOK, Slot
    <3>3. QED
      BY <3>1, <3>2, SlotTypes
  <2>2. /\ syncAcked' \in BOOLEAN /\ snapshot' \in BOOLEAN
        /\ reports' \in {"none", "fresh", "stale"}
        /\ startup' \in {"waiting", "ok", "failed"}
        /\ deadline' \in {"none", "armed", "passed"}
    BY <1>18 DEF ReadFrame, TypeOK
  <2>3. QED
    BY <1>18, <2>1, <2>2 DEF ReadFrame, TypeOK
<1>19. CASE NextIteration
  <2>1. CASE shutdown
    <3>1. /\ wpc' = "stop" /\ failed' = FALSE /\ queue' = <<>>
          /\ startup' = IF startup = "waiting" THEN "failed" ELSE startup
          /\ UNCHANGED <<callerVars, acks, syncAcked, snapshot, deadline,
                         driveVars, lifeVars, mcuVars>>
      BY <1>19, <2>1, Zenon DEF NextIteration, EndLoop
    <3>2. startup' \in {"waiting", "ok", "failed"}
      BY <3>1 DEF TypeOK
    <3>3. queue' \in Seq(Request) /\ Len(queue') <= QueueCap /\ failed' \in BOOLEAN
      BY <3>1, QueueTypes
    <3>4. QED
      BY <3>1, <3>2, <3>3 DEF TypeOK
  <2>2. CASE ~shutdown
    <3>1. /\ wpc' = "drain" /\ UNCHANGED <<failed, queue, startup>>
          /\ UNCHANGED <<callerVars, acks, syncAcked, snapshot, deadline,
                         driveVars, lifeVars, mcuVars>>
      BY <1>19, <2>2, Zenon DEF NextIteration
    <3>2. QED
      BY <3>1 DEF TypeOK
  <2>3. QED
    BY <2>1, <2>2
<1>20. CASE StopAll
  <2>1. DriveTypes
    BY <1>13, <1>20 DEF StopAll
  <2>2. wpc' \in {"drop", "exit"} /\ failed' \in BOOLEAN
    BY <1>20 DEF StopAll, TypeOK
  <2>3. QED
    BY <1>20, <2>1, <2>2 DEF StopAll, TypeOK
<1>21. CASE Exit
  <2>1. CASE failed
    BY <1>21, <2>1 DEF Exit, TypeOK
  <2>2. CASE ~failed
    <3>1. wpc' = "done" /\ UNCHANGED <<callerVars, queue, acks, failed, sessionVars, driveVars,
                                      lifeVars, mcuVars>>
      BY <1>21, <2>2 DEF Exit
    <3>2. QED
      BY <3>1 DEF TypeOK
  <2>3. QED
    BY <2>1, <2>2
<1>22. CASE Elsewhere /\ ~(LeaseElapses \/ ReportsElapse \/ DeadlineElapses)
  <2>1. UNCHANGED <<callerVars, queue, acks, wpc, failed, sessionVars, driveVars, reports,
                    mcuVars>>
    BY <1>22 DEF Elsewhere, CheckSynchronized, SetOperational, InitializeFails, BeginStopping,
       SetStopping, JoinWorker, FaultElsewhere, RaiseShutdown
  <2>2. /\ state' \in {"synchronizing", "operational", "stopping", "stopped", "fault"}
        /\ shutdown' \in BOOLEAN /\ raising' \in BOOLEAN
        /\ owner' \in {"starting", "set_operational", "ready", "set_stopping", "join", "over"}
    BY <1>22 DEF Elsewhere, CheckSynchronized, SetOperational, InitializeFails, BeginStopping,
       SetStopping, JoinWorker, FaultElsewhere, RaiseShutdown, TypeOK
  <2>3. QED
    BY <2>1, <2>2 DEF TypeOK
<1>23. CASE LeaseElapses \/ ReportsElapse \/ DeadlineElapses
  BY <1>23 DEF LeaseElapses, ReportsElapse, DeadlineElapses, TypeOK
<1>24. QED
  BY <1>1, <1>2, <1>3, <1>4, <1>5, <1>6, <1>7, <1>8, <1>9, <1>10, <1>11, <1>14, <1>15,
     <1>16, <1>17, <1>18, <1>19, <1>20, <1>21, <1>22, <1>23
  DEF Next, Caller, Worker, Elsewhere

\* Type correctness of the session: in particular the command queue never
\* exceeds its capacity and no frame is sent more than MaxAttempts times.
THEOREM TypeCorrect == Spec => []TypeOK
<1>1. TypeOK /\ [Next]_vars => TypeOK'
  BY TypeNext
<1>2. QED
  BY TypeInit, <1>1, PTL DEF Spec

-----------------------------------------------------------------------------
(* The inductive invariant, in the parts the safety properties rest on.    *)

\* The startup handshake: what the driver has been told agrees with what the
\* worker has seen, and only a driver that was told Ok is operational.
Handshake ==
  /\ startup = "ok" => syncAcked /\ snapshot
  /\ startup = "waiting" => ~(syncAcked /\ snapshot)
  /\ state = "operational" \/ owner \in {"set_operational", "ready"} => startup = "ok"

\* A non-zero level exists anywhere on its way to the MCU, or in it, only once
\* the session is synchronized, has seen a state report and is handed to clients.
Started == startup = "ok" /\ reports # "none" /\ owner \notin {"starting", "set_operational"}

NonzeroStarted ==
  /\ at = "send" /\ cmd.level # 0 => Started
  /\ \A i \in DOMAIN queue : queue[i].cmd.level # 0 => Started
  /\ \A s \in Seqs : acks[s].level # 0 => Started
  /\ \A a \in Actuators : out[a] # 0 => Started

\* The hand-over of a request: only the last request of the queue can have a
\* caller, and it is the one waiting for its reply; entries that a caller waits
\* for exist only between the reply and the end of the call, when the queue is
\* empty.
HandOver ==
  /\ reply # "empty" => at = "reply"
  /\ reply # "empty" \/ at = "acks" => queue = <<>>
  /\ \A i \in DOMAIN queue :
       ~queue[i].abandoned => /\ i = Len(queue)
                              /\ at = "reply" /\ reply = "empty"
                              /\ queue[i].cmd = cmd
  /\ \A s \in Seqs :
       acks[s].owned => queue = <<>> /\ (at = "acks" \/ reply = "ok")

\* Whoever waits for it, an entry is acknowledged only once it was received.
Received == \A s \in Seqs : acks[s].acked => acks[s].got

\* The entries a caller waits for are those of its own command, and once the
\* MCU has one of them the actuator is where it says.
OwnedMatch ==
  /\ (at = "acks" \/ reply = "ok") /\ cmd.op = "motor" =>
       \E s \in Seqs : acks[s].owned /\ acks[s].act = cmd.act /\ acks[s].level = cmd.level
  /\ \A s \in Seqs :
       acks[s].owned /\ acks[s].act # Aux =>
         /\ cmd.op = "motor" /\ acks[s].act = cmd.act /\ acks[s].level = cmd.level
         /\ acks[s].got /\ Looping => out[cmd.act] = cmd.level \/ cmd.act \in stray

\* After an emergency stop no caller waits for a non-zero entry: one that is
\* retried was abandoned.
HaltedStill ==
  halted => /\ \A s \in Seqs : acks[s].owned => acks[s].level = 0
            /\ \A a \in Actuators \ (stray \cup missed) : out[a] = 0

\* From the stop set on, an actuator that moves was not told, or the session
\* ends with an error; and the fault this leaves is overwritten by begin_stopping
\* at most, until the join.  (mark_operational could overwrite it too, but before
\* that nothing moves.)
StoppedOrFailed ==
  /\ wpc \in {"exit", "done"} /\ (\E a \in Actuators \ missed : out[a] # 0) => failed
  /\ wpc = "drop" => failed
  /\ wpc = "done" /\ (\E a \in Actuators \ missed : out[a] # 0) =>
       state = "fault" \/ (state = "stopping" /\ owner = "join")

-----------------------------------------------------------------------------
(* The handshake.                                                          *)

\* The steps that leave the handshake alone.
LEMMA HandshakeUntouched ==
  ASSUME \/ UNCHANGED vars \/ Caller
         \/ Execute \/ ExecuteFails \/ Drained \/ (\E s \in Seqs : Retry(s))
         \/ Tend \/ ReportsStale \/ UartFails \/ StopAll
         \/ RaiseShutdown \/ LeaseElapses \/ ReportsElapse \/ DeadlineElapses
  PROVE  UNCHANGED <<startup, syncAcked, snapshot, state, owner>>
BY DEF vars, Caller, Issue, Send, SendFails, TakeReply, ReplyTimeout, WaitForAll, Execute,
       ExecuteFails, Drained, Retry, Tend, ReportsStale, UartFails, StopAll,
       RaiseShutdown, LeaseElapses, ReportsElapse, DeadlineElapses, sessionVars, lifeVars

\* Only a frame from the MCU or the end of the loop changes the handshake, and
\* initialize looks at its result before the driver is operational.
LEMMA HandshakeNext == TypeOK /\ Handshake /\ [Next]_vars => Handshake'
<1> SUFFICES ASSUME TypeOK, Handshake, [Next]_vars PROVE Handshake'
  OBVIOUS
<1>1. CASE UNCHANGED <<startup, syncAcked, snapshot, state, owner>>
  BY <1>1 DEF Handshake
<1>2. CASE StartupFails
  BY <1>2 DEF StartupFails, lifeVars, Handshake
<1>3. CASE ReadFrame
  BY <1>3 DEF ReadFrame, Ready, Handshake, TypeOK
<1>4. CASE NextIteration
  BY <1>4 DEF NextIteration, lifeVars, Handshake
<1>5. CASE Exit
  BY <1>5 DEF Exit, sessionVars, Handshake
<1>6. CASE CheckSynchronized \/ SetOperational \/ InitializeFails
  BY <1>6 DEF CheckSynchronized, SetOperational, InitializeFails, sessionVars, Handshake
<1>7. CASE BeginStopping \/ SetStopping \/ JoinWorker
  BY <1>7 DEF BeginStopping, SetStopping, JoinWorker, sessionVars, Handshake
<1>8. CASE FaultElsewhere
  BY <1>8 DEF FaultElsewhere, sessionVars, Handshake
<1>9. QED
  BY <1>1, <1>2, <1>3, <1>4, <1>5, <1>6, <1>7, <1>8, HandshakeUntouched
  DEF Next, Worker, Elsewhere

\* A session invariant: the driver is operational only over a session that
\* reported itself synchronized.
THEOREM HandshakeInvariant == Spec => [](TypeOK /\ Handshake)
<1>1. Init => Handshake
  BY DEF Init, Handshake
<1>2. QED
  BY <1>1, TypeInit, TypeNext, HandshakeNext, PTL DEF Spec

\* The arm of the startup timeout the code marks unreachable!() is.
THEOREM StartupArm == Spec => []StartupArmUnreachable
<1>1. Handshake => StartupArmUnreachable
  BY DEF Handshake, StartupArmUnreachable
<1>2. QED
  BY <1>1, HandshakeInvariant, PTL

-----------------------------------------------------------------------------
(* What the helpers do to one actuator and to one entry of the tracker.    *)

\* What telling a level to some actuators does to one of them.
LEMMA TellEffect ==
  ASSUME TypeOK, NEW A \in SUBSET Actuators, NEW level, Tell(A, level),
         NEW a \in Actuators
  PROVE  /\ out'[a] = out[a] \/ out'[a] = level
         /\ a \in A /\ a \notin missed' => out'[a] = level
         /\ a \notin A => out'[a] = out[a] /\ (a \in stray <=> a \in stray')
                                        /\ (a \in missed <=> a \in missed')
         /\ a \in stray' => a \in stray
         /\ a \in stray /\ a \notin stray' => out'[a] = level
         /\ a \in missed /\ a \notin missed' => out'[a] = level
BY DEF Tell, TypeOK

\* A command leaves an actuator alone, brings it to its level, or stops it.
LEMMA ObeyedEffect ==
  ASSUME TypeOK, NEW c \in Commands, NEW got, Obeyed(c, got), NEW a \in Actuators
  PROVE  out'[a] = out[a] \/ out'[a] = c.level \/ out'[a] = 0
<1>1. CASE c.op \in {"drive", "stop_drive"}
  BY <1>1, TellEffect DEF Obeyed, Actuators
<1>2. CASE c.op = "estop"
  BY <1>2, TellEffect DEF Obeyed
<1>3. CASE c.op = "motor" /\ "target" \in got
  BY <1>3 DEF Obeyed, TypeOK
<1>4. CASE /\ c.op \notin {"drive", "stop_drive", "estop"}
           /\ ~(c.op = "motor" /\ "target" \in got)
  BY <1>4 DEF Obeyed
<1>5. QED
  BY <1>1, <1>2, <1>3, <1>4

\* An entry of the tracker after a command is the one from before, free, that of
\* an enable frame, or that of the command's target frame.
LEMMA RegisteredEntry ==
  ASSUME TypeOK, NEW c \in Commands, NEW owned \in BOOLEAN,
         NEW slot \in [AckedFrames(c) -> FreeSeqs], NEW got \in SUBSET AckedFrames(c),
         NEW s \in Seqs
  PROVE  LET e == Registered(c, owned, slot, got)[s] IN
         \/ e = acks[s] /\ \A f \in AckedFrames(c) : slot[f] # s
         \/ e = Free
         \/ e.act = Aux /\ e.level = 0 /\ e.owned = owned /\ ~e.acked
         \/ /\ c.op = "motor" /\ e.act = c.act /\ e.level = c.level
            /\ e.owned = owned /\ ~e.acked
            /\ e.got = ("target" \in got)
<1> DEFINE e == Registered(c, owned, slot, got)[s]
<1>1. CASE ~\E f \in DOMAIN slot : slot[f] = s
  BY <1>1 DEF Registered
<1>2. CASE \E f \in DOMAIN slot : slot[f] = s
  <2> DEFINE f == CHOOSE g \in DOMAIN slot : slot[g] = s
             n == IF f = "aux" THEN Expect(Aux, 0, f \in got, owned)
                               ELSE Expect(c.act, c.level, f \in got, owned)
  <2>1. f \in AckedFrames(c)
    BY <1>2
  <2>2. e = Settle(n)
    BY <1>2 DEF Registered
  <2>3. f # "aux" => c.op = "motor" /\ f = "target"
    BY <2>1 DEF AckedFrames
  <2>4. e = Free \/ e = n
    BY <2>2 DEF Settle
  <2>5. CASE f = "aux"
    <3>1. n = Expect(Aux, 0, f \in got, owned)
      BY <2>5
    <3> HIDE DEF n, f, e
    <3>2. QED
      BY <2>4, <3>1 DEF Expect, e
  <2>6. CASE f # "aux"
    <3>1. n = Expect(c.act, c.level, "target" \in got, owned) /\ c.op = "motor"
      BY <2>3, <2>6
    <3> HIDE DEF n, f, e
    <3>2. QED
      BY <2>4, <3>1 DEF Expect, e
  <2>7. QED
    BY <2>5, <2>6
<1>3. QED
  BY <1>1, <1>2

\* Settle keeps an entry or frees it; it never frees one a caller waits for.
LEMMA SettleEntry ==
  ASSUME NEW e \in Slot
  PROVE  Settle(e) = e \/ (Settle(e) = Free /\ ~e.owned)
BY DEF Settle, Slot

\* Every step of the worker but the execution of a command and a retry leaves
\* each actuator alone or stops it.
LEMMA OnlyStops ==
  ASSUME TypeOK,
         \/ UNCHANGED vars \/ Caller \/ Drained \/ Tend \/ ReportsStale \/ StartupFails
         \/ UartFails \/ ReadFrame \/ NextIteration \/ StopAll \/ Exit \/ Elsewhere,
         NEW a \in Actuators
  PROVE  out'[a] = out[a] \/ out'[a] = 0
<1>1. CASE UNCHANGED out
  BY <1>1
<1>2. ASSUME LeaseChecked PROVE out'[a] = out[a] \/ out'[a] = 0
  <2>1. CASE lease = "due"
    BY <1>2, <2>1, TellEffect DEF LeaseChecked, Actuators
  <2>2. CASE lease # "due"
    BY <1>2, <2>2 DEF LeaseChecked
  <2>3. QED
    BY <2>1, <2>2
<1>3. CASE Tend \/ ReportsStale
  BY <1>2, <1>3 DEF Tend, ReportsStale
<1>4. CASE UartFails
  BY <1>2, <1>4 DEF UartFails
<1>5. CASE StopAll
  BY <1>5, TellEffect DEF StopAll, StopSet
<1>6. CASE UNCHANGED vars \/ Caller \/ Drained \/ StartupFails \/ ReadFrame \/ NextIteration
           \/ Exit \/ Elsewhere
  BY <1>6 DEF vars, mcuVars, Caller, Issue, Send, SendFails, TakeReply, ReplyTimeout,
     WaitForAll, Drained, StartupFails, ReadFrame, NextIteration, Exit, Elsewhere,
     CheckSynchronized, SetOperational, InitializeFails, BeginStopping, SetStopping,
     JoinWorker, FaultElsewhere, RaiseShutdown, LeaseElapses,
     ReportsElapse, DeadlineElapses
<1>7. QED
  BY <1>3, <1>4, <1>5, <1>6

-----------------------------------------------------------------------------
(* Nothing non-zero before the session has started.                        *)

\* A session that has started stays so.
LEMMA StartedStable == TypeOK /\ Started /\ [Next]_vars => Started'
<1> SUFFICES ASSUME TypeOK, startup = "ok", reports # "none",
                    owner \notin {"starting", "set_operational"}, [Next]_vars
             PROVE  /\ startup' = "ok" /\ reports' # "none"
                    /\ owner' \notin {"starting", "set_operational"}
  BY DEF Started
<1>1. CASE UNCHANGED <<startup, reports, owner>>
  BY <1>1
<1>2. CASE StartupFails \/ ReadFrame \/ NextIteration
  BY <1>2 DEF StartupFails, ReadFrame, Ready, NextIteration, lifeVars
<1>3. CASE ReportsElapse
  BY <1>3 DEF ReportsElapse, sessionVars
<1>4. CASE Caller \/ UNCHANGED vars
  BY <1>1, <1>4 DEF vars, sessionVars, lifeVars, Caller, Issue, Send, SendFails, TakeReply,
     ReplyTimeout, WaitForAll
<1>5. CASE Worker
  BY <1>1, <1>2, <1>5 DEF sessionVars, lifeVars, Worker, Execute, ExecuteFails, Drained, Retry,
     Tend, ReportsStale, UartFails, StopAll, Exit
<1>6. CASE Elsewhere
  BY <1>1, <1>3, <1>6 DEF sessionVars, lifeVars, Elsewhere, CheckSynchronized, SetOperational,
     InitializeFails, BeginStopping, SetStopping, JoinWorker,
     FaultElsewhere, RaiseShutdown, LeaseElapses, DeadlineElapses
<1>7. QED
  BY <1>4, <1>5, <1>6 DEF Next

\* What a step may do to the queue.
LEMMA QueueSteps ==
  ASSUME TypeOK, [Next]_vars
  PROVE  \/ queue' = queue /\ ~Send
         \/ Send
         \/ ReplyTimeout
         \/ (Execute /\ queue # <<>> /\ queue' = Tail(queue))
         \/ (queue' = <<>> /\ wpc' = "stop" /\ Worker)
<1>1. CASE UNCHANGED vars
  BY <1>1 DEF vars, Send, callerVars
<1>2. CASE Caller
  BY <1>2 DEF Caller, Issue, Send, SendFails, TakeReply, WaitForAll
<1>3. CASE Worker
  <2>1. CASE Execute
    BY <2>1 DEF Execute
  <2>2. CASE ExecuteFails \/ ReportsStale \/ StartupFails \/ UartFails
    BY <1>3, <2>2 DEF ExecuteFails, ReportsStale, StartupFails, UartFails, EndLoop
  <2>3. CASE Drained \/ (\E s \in Seqs : Retry(s)) \/ Tend \/ ReadFrame \/ StopAll \/ Exit
    BY <2>3 DEF Drained, Retry, Tend, ReadFrame, StopAll, Exit, callerVars, Send
  <2>4. CASE NextIteration
    BY <1>3, <2>4 DEF NextIteration, EndLoop, callerVars, Send
  <2>5. QED
    BY <1>3, <2>1, <2>2, <2>3, <2>4 DEF Worker
<1>4. CASE Elsewhere
  BY <1>4 DEF Elsewhere, CheckSynchronized, SetOperational, InitializeFails, BeginStopping,
     SetStopping, JoinWorker, FaultElsewhere, RaiseShutdown,
     LeaseElapses, ReportsElapse, DeadlineElapses, callerVars, Send
<1>5. QED
  BY <1>1, <1>2, <1>3, <1>4 DEF Next

\* What a step may do to an entry of the tracker.
LEMMA EntrySteps ==
  ASSUME TypeOK, [Next]_vars, NEW s \in Seqs
  PROVE  \/ acks'[s] = acks[s]
         \/ acks'[s] = Free /\ (acks[s].owned => WaitForAll)
         \/ /\ ReadFrame \/ (\E t \in Seqs : Retry(t))
            /\ acks'[s].act = acks[s].act /\ acks'[s].level = acks[s].level
            /\ acks'[s].owned = acks[s].owned
         \/ /\ Execute /\ queue # <<>>
            /\ acks'[s].owned = ~Head(queue).abandoned
            /\ \/ acks'[s].act = Aux /\ acks'[s].level = 0
               \/ /\ Head(queue).cmd.op = "motor"
                  /\ acks'[s].act = Head(queue).cmd.act
                  /\ acks'[s].level = Head(queue).cmd.level
<1>0. acks[s] \in Slot
  BY DEF TypeOK
<1>1. CASE UNCHANGED acks
  BY <1>1
<1>2. CASE WaitForAll
  BY <1>2 DEF WaitForAll
<1>3. CASE ReadFrame
  <2>1. acks'[s] = acks[s] \/ acks'[s] = Settle([acks[s] EXCEPT !.acked = TRUE])
    BY <1>3 DEF ReadFrame
  <2> DEFINE e == [acks[s] EXCEPT !.acked = TRUE]
  <2>2. /\ e \in Slot /\ e.act = acks[s].act /\ e.level = acks[s].level
        /\ e.owned = acks[s].owned
    BY <1>0 DEF Slot
  <2> HIDE DEF e
  <2>3. Settle(e) = e \/ (Settle(e) = Free /\ ~e.owned)
    BY <2>2, SettleEntry
  <2>4. QED
    BY <1>3, <2>1, <2>2, <2>3 DEF e
<1>4. ASSUME NEW t \in Seqs, Retry(t)
      PROVE  \/ acks'[s] = acks[s]
             \/ acks'[s] = Free /\ ~acks[s].owned
             \/ /\ acks'[s].act = acks[s].act /\ acks'[s].level = acks[s].level
                /\ acks'[s].owned = acks[s].owned
  <2>1. PICK got \in BOOLEAN :
          acks' = [acks EXCEPT ![t] = Settle([acks[t] EXCEPT !.attempts = @ + 1, !.got = @ \/ got])]
    BY <1>4 DEF Retry
  <2>2. CASE t # s
    BY <2>1, <2>2 DEF TypeOK
  <2>3. CASE t = s
    <3> DEFINE e == [acks[s] EXCEPT !.attempts = @ + 1, !.got = @ \/ got]
    <3>1. acks'[s] = Settle(e)
      BY <2>1, <2>3 DEF TypeOK
    <3>2. e.act = acks[s].act /\ e.level = acks[s].level /\ e.owned = acks[s].owned
      BY <1>0 DEF Slot
    <3> HIDE DEF e
    <3>3. Settle(e) = e \/ (Settle(e) = Free /\ ~e.owned)
      BY <1>0, <3>2 DEF Settle, Slot
    <3>4. QED
      BY <3>1, <3>2, <3>3
  <2>4. QED
    BY <2>2, <2>3
<1>5. CASE Execute
  <2> DEFINE c == Head(queue).cmd
  <2>1. c \in Commands /\ Head(queue).abandoned \in BOOLEAN /\ queue # <<>>
    BY <1>5, QueueTypes DEF Execute, Request
  <2>2. PICK slot \in [AckedFrames(c) -> FreeSeqs], got \in SUBSET AckedFrames(c) :
          acks' = Registered(c, ~Head(queue).abandoned, slot, got)
    BY <1>5 DEF Execute
  <2> DEFINE e == acks'[s]
  <2>3. \/ e = acks[s] /\ \A f \in AckedFrames(c) : slot[f] # s
        \/ e = Free
        \/ e.act = Aux /\ e.level = 0 /\ e.owned = (~Head(queue).abandoned) /\ ~e.acked
        \/ /\ c.op = "motor" /\ e.act = c.act /\ e.level = c.level
           /\ e.owned = (~Head(queue).abandoned) /\ ~e.acked
           /\ e.got = ("target" \in got)
    <3>1. \A o \in BOOLEAN : LET r == Registered(c, o, slot, got)[s] IN
             \/ r = acks[s] /\ \A f \in AckedFrames(c) : slot[f] # s
             \/ r = Free
             \/ r.act = Aux /\ r.level = 0 /\ r.owned = o /\ ~r.acked
             \/ /\ c.op = "motor" /\ r.act = c.act /\ r.level = c.level
                /\ r.owned = o /\ ~r.acked
                /\ r.got = ("target" \in got)
      BY <2>1, RegisteredEntry
    <3> DEFINE o == ~Head(queue).abandoned
    <3>2. o \in BOOLEAN /\ acks'[s] = Registered(c, o, slot, got)[s]
      BY <2>2
    <3> HIDE DEF o
    <3>3. QED
      BY <3>1, <3>2 DEF o
  <2>4. e = Free => e = acks[s] \/ acks[s].owned = FALSE
    <3>1. CASE \E f \in AckedFrames(c) : slot[f] = s
      BY <3>1 DEF FreeSeqs, Free
    <3>2. CASE ~\E f \in AckedFrames(c) : slot[f] = s
      BY <2>2, <3>2 DEF Registered
    <3>3. QED
      BY <3>1, <3>2
  <2>5. QED
    BY <1>5, <2>1, <2>3, <2>4
<1>6. CASE Caller
  BY <1>1, <1>2, <1>6 DEF Caller, Issue, Send, SendFails, TakeReply, ReplyTimeout
<1>7. CASE Worker
  BY <1>1, <1>3, <1>4, <1>5, <1>7 DEF Worker, ExecuteFails, Drained, Tend, ReportsStale,
     StartupFails, UartFails, NextIteration, StopAll, Exit
<1>8. CASE Elsewhere \/ UNCHANGED vars
  BY <1>1, <1>8 DEF vars, Elsewhere, CheckSynchronized, SetOperational, InitializeFails,
     BeginStopping, SetStopping, JoinWorker, FaultElsewhere,
     RaiseShutdown, LeaseElapses, ReportsElapse, DeadlineElapses
<1>9. QED
  BY <1>6, <1>7, <1>8 DEF Next

\* A non-zero level enters through the gate of Issue, when the session has
\* started, and is only handed on from there.
LEMMA NonzeroNext ==
  TypeOK /\ Handshake /\ NonzeroStarted /\ [Next]_vars => NonzeroStarted'
<1> SUFFICES ASSUME TypeOK, Handshake, NonzeroStarted, [Next]_vars
             PROVE  NonzeroStarted'
  OBVIOUS
<1>1. Started => Started'
  BY StartedStable
<1>2. (at = "send" /\ cmd.level # 0 => Started)'
  <2>1. ASSUME NEW c \in Commands, Issue(c), c.level # 0 PROVE Started
    <3>1. state = "operational" /\ reports = "fresh" /\ owner = "ready"
      BY <2>1 DEF Issue, Gated, NonZero, NonzeroAllowed
    <3>2. QED
      BY <3>1 DEF Handshake, Started
  <2>2. at' = "send" => UNCHANGED <<at, cmd>> \/ \E c \in Commands : Issue(c) /\ cmd' = c
    <3>1. CASE Caller
      BY <3>1 DEF Caller, Issue, Send, SendFails, TakeReply, ReplyTimeout, WaitForAll, Return
    <3>2. CASE Worker
      BY <3>2 DEF Worker, callerVars, Execute, ExecuteFails, Drained, Retry, Tend,
         ReportsStale, StartupFails, UartFails, ReadFrame, NextIteration, StopAll, Exit
    <3>3. CASE Elsewhere \/ UNCHANGED vars
      BY <3>3 DEF vars, callerVars, Elsewhere, CheckSynchronized, SetOperational,
         InitializeFails, BeginStopping, SetStopping, JoinWorker,
         FaultElsewhere, RaiseShutdown, LeaseElapses, ReportsElapse, DeadlineElapses
    <3>4. QED
      BY <3>1, <3>2, <3>3 DEF Next
  <2>3. QED
    BY <1>1, <2>1, <2>2 DEF NonzeroStarted
<1>3. (\A i \in DOMAIN queue : queue[i].cmd.level # 0 => Started)'
  <2>0. queue \in Seq(Request)
    BY DEF TypeOK
  <2>1. CASE queue' = queue \/ queue' = <<>>
    BY <1>1, <2>1 DEF NonzeroStarted
  <2>2. CASE Send
    <3>1. /\ at = "send"
          /\ queue' = Append(queue, [cmd |-> cmd, abandoned |-> FALSE])
      BY <2>2 DEF Send
    <3>2. \A i \in DOMAIN queue' : \/ i \in DOMAIN queue /\ queue'[i] = queue[i]
                                   \/ queue'[i].cmd = cmd
      BY <2>0, <3>1
    <3>3. QED
      BY <1>1, <3>1, <3>2 DEF NonzeroStarted
  <2>3. CASE ReplyTimeout
    <3>1. queue' = [i \in DOMAIN queue |-> [queue[i] EXCEPT !.abandoned = TRUE]]
      BY <2>3 DEF ReplyTimeout
    <3>2. ASSUME NEW i \in DOMAIN queue' PROVE i \in DOMAIN queue /\ queue'[i].cmd = queue[i].cmd
      <4>1. i \in DOMAIN queue /\ queue'[i] = [queue[i] EXCEPT !.abandoned = TRUE]
        BY <3>1
      <4>2. queue[i] \in Request
        BY <2>0, <4>1
      <4>3. QED
        BY <4>1, <4>2 DEF Request
    <3>3. QED
      BY <1>1, <3>2 DEF NonzeroStarted
  <2>4. CASE queue # <<>> /\ queue' = Tail(queue)
    <3>1. \A i \in DOMAIN queue' : i + 1 \in DOMAIN queue /\ queue'[i] = queue[i + 1]
      BY <2>0, <2>4
    <3>2. QED
      BY <1>1, <3>1 DEF NonzeroStarted
  <2>5. QED
    BY <2>1, <2>2, <2>3, <2>4, QueueSteps
<1>4. Execute \/ ExecuteFails => (Head(queue).cmd.level # 0 => Started)
  <2>1. Execute \/ ExecuteFails => queue # <<>> /\ queue \in Seq(Request)
    BY DEF Execute, ExecuteFails, TypeOK
  <2>2. queue # <<>> /\ queue \in Seq(Request) => 1 \in DOMAIN queue /\ Head(queue) = queue[1]
    OBVIOUS
  <2>3. QED
    BY <2>1, <2>2 DEF NonzeroStarted
<1>5. (\A s \in Seqs : acks[s].level # 0 => Started)'
  <2> SUFFICES ASSUME NEW s \in Seqs, acks'[s].level # 0 PROVE Started'
    BY DEF Started
  <2>1. Free.level = 0
    BY DEF Free
  <2>2. QED
    BY <1>1, <1>4, <2>1, EntrySteps DEF NonzeroStarted
<1>6. (\A a \in Actuators : out[a] # 0 => Started)'
  <2> SUFFICES ASSUME NEW a \in Actuators, out'[a] # 0 PROVE Started'
    BY DEF Started
  <2>1. CASE out'[a] = out[a]
    BY <1>1, <2>1 DEF NonzeroStarted
  <2>2. CASE Execute
    <3> DEFINE c == Head(queue).cmd
    <3>1. c \in Commands /\ \E got : Obeyed(c, got)
      BY <2>2, QueueTypes DEF Execute, Request
    <3>2. out'[a] = c.level \/ out'[a] = out[a]
      BY <3>1, ObeyedEffect
    <3>3. QED
      BY <1>1, <1>4, <2>1, <2>2, <3>2
  <2>3. CASE ExecuteFails
    <3> DEFINE c == Head(queue).cmd
    <3>1. \/ \E Z \in SUBSET Actuators : Tell(Z, 0)
          \/ \E b, l : out' = [out EXCEPT ![b] = l] /\ (l = c.level \/ l = out[b])
          \/ UNCHANGED out
      BY <2>3 DEF ExecuteFails
    <3>2. out'[a] = c.level \/ out'[a] = out[a]
      BY <3>1, TellEffect DEF TypeOK
    <3>3. QED
      BY <1>1, <1>4, <2>1, <2>3, <3>2
  <2>4. ASSUME NEW s \in Seqs, Retry(s) PROVE Started'
    <3>1. out'[a] = out[a] \/ out'[a] = acks[s].level
      BY <2>4 DEF Retry, TypeOK
    <3>2. QED
      BY <1>1, <2>1, <3>1 DEF NonzeroStarted
  <2>5. QED
    BY <2>1, <2>2, <2>3, <2>4, OnlyStops DEF Next, Worker
<1>7. QED
  BY <1>2, <1>3, <1>5, <1>6 DEF NonzeroStarted

\* No level is on its way to the MCU before the session is ready for it.
LEMMA NonzeroOnlyStarted == Spec => [](Handshake /\ NonzeroStarted)
<1>1. Init => Handshake /\ NonzeroStarted
  BY DEF Init, Handshake, NonzeroStarted, Free
<1>2. QED
  BY <1>1, TypeInit, TypeNext, HandshakeNext, NonzeroNext, PTL DEF Spec

\* No actuator is told to move before the MCU has acknowledged the sync query,
\* sent a sensor snapshot and at least one state report: the gate is in the
\* caller, but nothing the queue or the tracker holds gets round it.
THEOREM SyncBeforeMotion == Spec => []NonzeroNeedsSync
<1>1. NonzeroStarted /\ Handshake => NonzeroNeedsSync
  BY DEF NonzeroStarted, Started, Handshake, NonzeroNeedsSync
<1>2. QED
  BY <1>1, NonzeroOnlyStarted, PTL

-----------------------------------------------------------------------------
(* The drive lease.                                                        *)

\* The steps that touch neither the wheels nor their lease, and cannot start
\* the loop again.
LEMMA LeaseUntouched ==
  ASSUME TypeOK,
         \/ UNCHANGED vars \/ Caller \/ Drained \/ StartupFails \/ ReadFrame
         \/ NextIteration \/ Exit \/ Elsewhere
  PROVE  /\ UNCHANGED <<driveActive, target, out, missed>>
         /\ (lease' = "none") = (lease = "none")
         /\ Looping' => Looping
<1>1. CASE Caller \/ UNCHANGED vars
  BY <1>1 DEF vars, driveVars, mcuVars, Caller, Issue, Send, SendFails, TakeReply,
     ReplyTimeout, WaitForAll, Looping
<1>2. CASE Drained \/ StartupFails \/ ReadFrame \/ NextIteration \/ Exit
  BY <1>2 DEF Drained, StartupFails, ReadFrame, NextIteration, Exit, EndLoop, driveVars,
     mcuVars, Looping
<1>3. CASE Elsewhere
  BY <1>3 DEF Elsewhere, CheckSynchronized, SetOperational, InitializeFails, BeginStopping,
     SetStopping, JoinWorker, FaultElsewhere, RaiseShutdown,
     LeaseElapses, ReportsElapse, DeadlineElapses, driveVars, mcuVars, Looping
<1>4. QED
  BY <1>1, <1>2, <1>3

\* Whatever sets the wheels' target in motion arms the lease; whatever ends the
\* lease inside the loop tells the wheels to stop.
LEMMA LeaseNext == TypeOK /\ LeaseCoversDrive /\ [Next]_vars => LeaseCoversDrive'
<1> SUFFICES ASSUME TypeOK, LeaseCoversDrive, [Next]_vars, Looping'
             PROVE  /\ driveActive' = (lease' # "none")
                    /\ Wheels \notin missed' => target'[Wheels] = out'[Wheels]
                    /\ target'[Wheels] # 0 => lease' # "none"
  BY DEF LeaseCoversDrive
<1>0. /\ Wheels \in Actuators /\ Wheels \notin Cleaners /\ Aux \notin Cleaners
      /\ target \in [Actuators -> Levels] /\ out \in [Actuators -> Levels]
  BY ConstantsAssumption DEF Actuators, TypeOK
<1>1. CASE \/ UNCHANGED vars \/ Caller \/ Drained \/ StartupFails \/ ReadFrame
           \/ NextIteration \/ Exit \/ Elsewhere
  BY <1>1, LeaseUntouched DEF LeaseCoversDrive
<1>2. CASE Execute
  <2> DEFINE c == Head(queue).cmd
  <2>1. c \in Commands
    BY <1>2, QueueTypes DEF Execute, Request
  <2>2. PICK got : Executed(c) /\ Obeyed(c, got)
    BY <1>2 DEF Execute
  <2>3. Looping
    BY <1>2 DEF Execute, Looping
  <2>4. c.op = "motor" => c.act \in Cleaners
    BY <2>1, CommandTypes
  <2> HIDE DEF c
  <2>5. CASE c.op = "drive"
    <3>1. Tell({Wheels}, c.level)
      BY <2>2, <2>5 DEF Obeyed
    <3>2. Wheels \notin missed' => out'[Wheels] = c.level
      BY <1>0, <3>1, TellEffect
    <3>3. /\ driveActive' = (c.level # 0)
          /\ target'[Wheels] = c.level
          /\ lease' = IF c.level # 0 THEN "armed" ELSE "none"
      BY <1>0, <2>2, <2>5 DEF Executed, NonZero
    <3>4. QED
      BY <3>2, <3>3
  <2>6. CASE c.op = "stop_drive"
    <3>1. Tell({Wheels}, c.level) /\ c.level = 0
      BY <2>1, <2>2, <2>6, CommandTypes DEF Obeyed, AllCommands
    <3>2. Wheels \notin missed' => out'[Wheels] = 0
      BY <1>0, <3>1, TellEffect
    <3>3. /\ driveActive' = FALSE /\ target'[Wheels] = 0 /\ lease' = "none"
      BY <1>0, <2>2, <2>6 DEF Executed
    <3>4. QED
      BY <3>2, <3>3
  <2>7. CASE c.op = "estop"
    <3>1. Tell(Actuators, 0)
      BY <2>2, <2>7 DEF Obeyed
    <3>2. Wheels \notin missed' => out'[Wheels] = 0
      BY <1>0, <3>1, TellEffect
    <3>3. /\ driveActive' = FALSE /\ target'[Wheels] = 0 /\ lease' = "none"
      BY <1>0, <2>2, <2>7 DEF Executed
    <3>4. QED
      BY <3>2, <3>3
  <2>8. CASE c.op \notin {"drive", "stop_drive", "estop"}
    <3>1. /\ UNCHANGED <<driveActive, lease>>
          /\ target'[Wheels] = target[Wheels]
      BY <1>0, <2>2, <2>4, <2>8 DEF Executed, driveVars
    <3>2. out'[Wheels] = out[Wheels] /\ (Wheels \in missed' <=> Wheels \in missed)
      BY <1>0, <2>2, <2>4, <2>8 DEF Obeyed
    <3>3. QED
      BY <2>3, <3>1, <3>2 DEF LeaseCoversDrive
  <2>9. QED
    BY <2>5, <2>6, <2>7, <2>8
<1>3. CASE \E s \in Seqs : Retry(s)
  <2> PICK s \in Seqs : Retry(s)
    BY <1>3
  <2>1. acks[s].act # Aux => acks[s].act \in Cleaners
    BY DEF TypeOK, Slot
  <2>2. out'[Wheels] = out[Wheels] /\ (Wheels \in missed' <=> Wheels \in missed)
    BY <1>0, <2>1 DEF Retry
  <2>3. UNCHANGED <<driveActive, target, lease>> /\ Looping
    BY DEF Retry, driveVars, Looping
  <2>4. QED
    BY <2>2, <2>3 DEF LeaseCoversDrive
<1>4. CASE Tend
  <2>1. Looping /\ LeaseChecked
    BY <1>4 DEF Tend, Looping
  <2>2. CASE lease = "due"
    <3>1. Wheels \notin missed' => out'[Wheels] = 0
      BY <1>0, <2>1, <2>2, TellEffect DEF LeaseChecked
    <3>2. driveActive' = FALSE /\ lease' = "none" /\ target'[Wheels] = 0
      BY <1>0, <2>1, <2>2 DEF LeaseChecked
    <3>3. QED
      BY <3>1, <3>2
  <2>3. CASE lease # "due"
    BY <2>1, <2>3 DEF LeaseChecked, driveVars, LeaseCoversDrive
  <2>4. QED
    BY <2>2, <2>3
<1>5. CASE ExecuteFails \/ ReportsStale \/ UartFails \/ StopAll
  BY <1>5 DEF ExecuteFails, ReportsStale, UartFails, StopAll, EndLoop, Looping
<1>6. QED
  BY <1>1, <1>2, <1>3, <1>4, <1>5 DEF Next, Worker

\* While the session loop runs, a drive target that is not zero has a running
\* lease, the guard's drive_active agrees with it, and the wheels do what the
\* target says unless the MCU missed the frame that said so.
THEOREM LeaseCovers == Spec => []LeaseCoversDrive
<1>1. Init => LeaseCoversDrive
  <2>1. Wheels \in Actuators
    BY DEF Actuators
  <2>2. QED
    BY <2>1 DEF Init, LeaseCoversDrive
<1>2. QED
  BY <1>1, TypeInit, TypeNext, LeaseNext, PTL DEF Spec

-----------------------------------------------------------------------------
(* The end of the session.                                                 *)

\* The stop set is told to every actuator, or the session ends with an error
\* that Exit records.
LEMMA StoppedNext == TypeOK /\ NonzeroStarted /\ StoppedOrFailed /\ [Next]_vars => StoppedOrFailed'
<1> SUFFICES ASSUME TypeOK, NonzeroStarted, StoppedOrFailed, [Next]_vars
             PROVE  StoppedOrFailed'
  OBVIOUS
<1>1. CASE UNCHANGED <<wpc, failed, out, missed, state, owner>>
  BY <1>1 DEF StoppedOrFailed
<1>2. CASE Caller \/ UNCHANGED vars
  BY <1>1, <1>2 DEF vars, mcuVars, lifeVars, Caller, Issue, Send, SendFails, TakeReply,
     ReplyTimeout, WaitForAll
<1>3. CASE \/ Execute \/ ExecuteFails \/ Drained \/ (\E s \in Seqs : Retry(s))
           \/ Tend \/ ReportsStale \/ StartupFails \/ UartFails \/ ReadFrame \/ NextIteration
  <2>1. wpc' \in {"drain", "tend", "read", "stop"}
    BY <1>3 DEF Execute, ExecuteFails, Drained, Retry, Tend, ReportsStale, StartupFails,
       UartFails, ReadFrame, NextIteration, EndLoop
  <2>2. QED
    BY <2>1 DEF StoppedOrFailed
<1>4. CASE StopAll
  <2>1. wpc' \in {"drop", "exit"}
    BY <1>4 DEF StopAll
  <2>2. CASE failed' = TRUE
    BY <2>1, <2>2 DEF StoppedOrFailed
  <2>3. CASE StopSet(Actuators) /\ wpc' = "exit"
    <3>1. \A a \in Actuators : a \notin missed' => out'[a] = 0
      BY <2>3, TellEffect DEF StopSet
    <3>2. QED
      BY <2>3, <3>1 DEF StoppedOrFailed
  <2>4. QED
    BY <1>4, <2>2, <2>3 DEF StopAll
<1>5. CASE Exit
  BY <1>5 DEF Exit, mcuVars, StoppedOrFailed
<1>6. CASE Elsewhere
  <2>1. UNCHANGED <<wpc, failed, out, missed>>
    BY <1>6 DEF Elsewhere, CheckSynchronized, SetOperational, InitializeFails, BeginStopping,
       SetStopping, JoinWorker, FaultElsewhere, RaiseShutdown, LeaseElapses, ReportsElapse,
       DeadlineElapses, mcuVars, lifeVars
  <2>2. ASSUME wpc = "done", NEW a \in Actuators \ missed, out[a] # 0
        PROVE  state' = "fault" \/ (state' = "stopping" /\ owner' = "join")
    <3>1. /\ failed /\ owner \notin {"starting", "set_operational"}
          /\ state = "fault" \/ (state = "stopping" /\ owner = "join")
      BY <2>2 DEF StoppedOrFailed, NonzeroStarted, Started
    <3>2. QED
      BY <1>6, <3>1 DEF Elsewhere, CheckSynchronized, SetOperational, InitializeFails,
         BeginStopping, SetStopping, JoinWorker, FaultElsewhere, RaiseShutdown, LeaseElapses,
         ReportsElapse, DeadlineElapses, lifeVars
  <2>3. QED
    BY <2>1, <2>2 DEF StoppedOrFailed
<1>7. QED
  BY <1>2, <1>3, <1>4, <1>5, <1>6 DEF Next, Worker

\* A session that is over has told every actuator to stop, or the driver is in
\* Fault, whichever error ended the loop and whichever stop frame failed; only
\* between an overwriting begin_stopping and the join does the state not say so.
THEOREM EndStops == Spec => []DoneMeansStopped
<1>1. Init => StoppedOrFailed
  BY DEF Init, StoppedOrFailed
<1>2. StoppedOrFailed => DoneMeansStopped
  BY DEF StoppedOrFailed, DoneMeansStopped
<1>3. QED
  BY <1>1, <1>2, TypeCorrect, NonzeroOnlyStarted, StoppedNext, PTL DEF Spec

-----------------------------------------------------------------------------
(* The hand-over of a request between the two threads.                     *)

\* What the worker may do to the caller's variables.
LEMMA CallerSteps ==
  ASSUME TypeOK, [Next]_vars
  PROVE  \/ Caller
         \/ UNCHANGED <<at, cmd>> /\ reply' = reply
         \/ /\ Execute \/ ExecuteFails
            /\ UNCHANGED <<at, cmd>>
            /\ queue # <<>> /\ ~Head(queue).abandoned /\ reply' # "empty"
<1>1. CASE Execute \/ ExecuteFails
  BY <1>1 DEF Execute, ExecuteFails
<1>2. CASE Worker \/ Elsewhere \/ UNCHANGED vars
  BY <1>1, <1>2 DEF vars, callerVars, Worker, Drained, Retry, Tend, ReportsStale,
     StartupFails, UartFails, ReadFrame, NextIteration, StopAll, Exit, Elsewhere,
     CheckSynchronized, SetOperational, InitializeFails, BeginStopping, SetStopping,
     JoinWorker, FaultElsewhere, RaiseShutdown, LeaseElapses,
     ReportsElapse, DeadlineElapses
<1>3. QED
  BY <1>2 DEF Next

\* Each step hands the request on: from the call to the queue, from there to the
\* tracker, and out of it when the call ends.
LEMMA HandOverNext == TypeOK /\ HandOver /\ [Next]_vars => HandOver'
<1> SUFFICES ASSUME TypeOK, HandOver, [Next]_vars PROVE HandOver'
  OBVIOUS
<1>0. /\ queue \in Seq(Request) /\ Len(queue) \in Nat
      /\ \A i \in DOMAIN queue : queue[i] \in Request
  BY DEF TypeOK
<1>1. CASE \E c \in Commands : Issue(c)
  BY <1>1 DEF Issue, HandOver
<1>2. CASE Send
  <2>1. /\ at = "send" /\ at' = "reply" /\ UNCHANGED <<cmd, reply, acks>>
        /\ queue' = Append(queue, [cmd |-> cmd, abandoned |-> FALSE])
    BY <1>2 DEF Send
  <2>2. reply' = "empty" /\ \A s \in Seqs : ~acks[s].owned
    BY <2>1 DEF HandOver, TypeOK, Slot
  <2>3. \A i \in DOMAIN queue' : \/ i \in DOMAIN queue /\ queue'[i] = queue[i]
                                 \/ i = Len(queue') /\ queue'[i].cmd = cmd
    BY <1>0, <2>1
  <2>4. \A i \in DOMAIN queue : queue[i].abandoned
    BY <1>0, <2>1 DEF HandOver, Request
  <2>5. QED
    BY <2>1, <2>2, <2>3, <2>4 DEF HandOver
<1>3. CASE SendFails
  BY <1>3 DEF SendFails, Return, HandOver
<1>4. CASE TakeReply
  <2>1. queue = <<>> /\ reply # "empty" /\ reply' = "empty" /\ queue' = queue /\ acks' = acks
    BY <1>4 DEF TakeReply, HandOver
  <2>2. CASE reply = "ok"
    <3>1. at' = "acks"
      BY <1>4, <2>2 DEF TakeReply
    <3>2. QED
      BY <2>1, <3>1 DEF HandOver
  <2>3. CASE reply # "ok"
    <3>1. \A s \in Seqs : ~acks[s].owned
      BY <1>4, <2>3 DEF TakeReply, HandOver, TypeOK, Slot
    <3>2. at' = "idle"
      BY <1>4, <2>3 DEF TakeReply, Return
    <3>3. QED
      BY <2>1, <3>1, <3>2 DEF HandOver
  <2>4. QED
    BY <2>2, <2>3
<1>5. CASE ReplyTimeout
  <2>1. /\ queue' = [i \in DOMAIN queue |-> [queue[i] EXCEPT !.abandoned = TRUE]]
        /\ at = "reply" /\ at' = "idle" /\ reply = "empty" /\ UNCHANGED <<reply, acks>>
    BY <1>5 DEF ReplyTimeout, Return
  <2>2. ASSUME NEW i \in DOMAIN queue' PROVE queue'[i].abandoned
    <3>1. i \in DOMAIN queue /\ queue'[i] = [queue[i] EXCEPT !.abandoned = TRUE]
      BY <2>1
    <3>2. QED
      BY <1>0, <3>1 DEF Request
  <2>3. \A s \in Seqs : ~acks[s].owned
    BY <2>1 DEF HandOver
  <2>4. QED
    BY <2>1, <2>2, <2>3 DEF HandOver
<1>6. CASE WaitForAll
  <2>1. /\ at = "acks" /\ at' = "idle" /\ UNCHANGED <<reply, queue>>
        /\ \A s \in Seqs : ~acks'[s].owned
    BY <1>6 DEF WaitForAll, Return, Owned, Free, TypeOK, Slot
  <2>2. queue = <<>> /\ reply = "empty"
    BY <2>1 DEF HandOver
  <2>3. QED
    BY <2>1, <2>2 DEF HandOver
<1>7. CASE Execute
  <2>1. /\ queue # <<>> /\ queue' = Tail(queue) /\ UNCHANGED <<at, cmd>>
        /\ reply' = IF ~Head(queue).abandoned THEN "ok" ELSE reply
    BY <1>7 DEF Execute
  <2>2. reply = "empty" /\ at # "acks" /\ \A s \in Seqs : ~acks[s].owned
    BY <2>1 DEF HandOver
  <2>3. 1 \in DOMAIN queue /\ Head(queue) = queue[1]
    BY <1>0, <2>1
  <2>4. \A i \in DOMAIN queue' : i + 1 \in DOMAIN queue /\ queue'[i] = queue[i + 1]
    BY <1>0, <2>1
  <2>5. Len(queue') = Len(queue) - 1 /\ DOMAIN queue = 1 .. Len(queue)
    BY <1>0, <2>1
  <2>6. CASE ~Head(queue).abandoned
    <3>1. Len(queue) = 1 /\ at = "reply" /\ reply' = "ok"
      BY <2>1, <2>3, <2>6 DEF HandOver
    <3>2. queue' = <<>>
      BY <1>0, <2>1, <3>1
    <3>3. QED
      BY <2>1, <3>1, <3>2 DEF HandOver
  <2>7. CASE Head(queue).abandoned
    <3>1. ASSUME NEW s \in Seqs PROVE ~acks'[s].owned
      <4>1. ~acks[s].owned /\ ~Free.owned
        BY <2>2 DEF Free
      <4>2. \/ acks'[s].owned = acks[s].owned
            \/ acks'[s] = Free
            \/ acks'[s].owned = ~Head(queue).abandoned
        BY EntrySteps
      <4>3. QED
        BY <2>7, <4>1, <4>2
    <3>2. reply' = "empty"
      BY <2>1, <2>2, <2>7
    <3>3. ASSUME NEW i \in DOMAIN queue', ~queue'[i].abandoned
          PROVE  /\ i = Len(queue') /\ at' = "reply" /\ queue'[i].cmd = cmd'
      <4>1. ~queue[i + 1].abandoned /\ i + 1 \in DOMAIN queue
        BY <2>4, <3>3
      <4>2. i + 1 = Len(queue) /\ at = "reply" /\ queue[i + 1].cmd = cmd
        BY <4>1 DEF HandOver
      <4>3. i \in Nat
        BY <2>5, <4>1, <3>3, <2>1, <1>0
      <4>4. i = Len(queue')
        BY <1>0, <2>5, <4>2, <4>3
      <4>5. QED
        BY <2>1, <2>4, <3>3, <4>2, <4>4
    <3>4. QED
      BY <2>1, <2>2, <3>1, <3>2, <3>3 DEF HandOver
  <2>8. QED
    BY <2>6, <2>7
<1>8. CASE ExecuteFails
  <2>1. /\ queue # <<>> /\ queue' = <<>> /\ UNCHANGED <<at, cmd, acks>>
        /\ reply' = IF ~Head(queue).abandoned THEN "error" ELSE reply
    BY <1>8 DEF ExecuteFails, EndLoop
  <2>2. reply = "empty" /\ \A s \in Seqs : ~acks[s].owned
    BY <2>1 DEF HandOver
  <2>3. 1 \in DOMAIN queue /\ Head(queue) = queue[1]
    BY <1>0, <2>1
  <2>4. ~Head(queue).abandoned => at = "reply"
    BY <2>3 DEF HandOver
  <2>5. QED
    BY <2>1, <2>2, <2>4 DEF HandOver
<1>9. CASE /\ UNCHANGED <<at, cmd, reply>> /\ queue' \in {queue, <<>>}
           /\ \A s \in Seqs : acks'[s].owned => acks[s].owned
  BY <1>9 DEF HandOver
<1>10. CASE Caller
  BY <1>1, <1>2, <1>3, <1>4, <1>5, <1>6, <1>10 DEF Caller
<1>11. CASE ~Caller /\ ~Execute /\ ~ExecuteFails
  <2>1. UNCHANGED <<at, cmd, reply>>
    BY <1>11, CallerSteps
  <2>2. queue' \in {queue, <<>>}
    BY <1>11, QueueSteps DEF Caller
  <2>3. \A s \in Seqs : acks'[s].owned => acks[s].owned
    BY <1>11, EntrySteps DEF Free, Caller
  <2>4. QED
    BY <1>9, <2>1, <2>2, <2>3
<1>12. QED
  BY <1>7, <1>8, <1>10, <1>11

-----------------------------------------------------------------------------
(* The emergency stop.                                                     *)

\* Only the execution of a command changes `halted`.
LEMMA HaltedSteps ==
  ASSUME [Next]_vars
  PROVE  \/ Execute \/ ExecuteFails
         \/ halted' = halted
BY DEF vars, mcuVars, Next, Caller, Issue, Send, SendFails, TakeReply, ReplyTimeout,
   WaitForAll, Worker, Drained, Retry, Tend, ReportsStale, StartupFails, UartFails, ReadFrame,
   NextIteration, StopAll, Exit, Elsewhere, CheckSynchronized, SetOperational,
   InitializeFails, BeginStopping, SetStopping, JoinWorker, FaultElsewhere,
   RaiseShutdown, LeaseElapses, ReportsElapse, DeadlineElapses

\* A stop told to some actuators keeps what stands still still.
LEMMA TellStops ==
  ASSUME TypeOK, NEW A \in SUBSET Actuators, Tell(A, 0), NEW a \in Actuators,
         out[a] = 0 \/ a \in stray \cup missed
  PROVE  out'[a] = 0 \/ a \in stray' \cup missed'
BY TellEffect

\* Outside Execute and Retry what stands still stays still, or missed its stop.
LEMMA StillUnderStops ==
  ASSUME TypeOK,
         \/ UNCHANGED vars \/ Caller \/ Drained \/ Tend \/ ReportsStale \/ StartupFails
         \/ UartFails \/ ReadFrame \/ NextIteration \/ StopAll \/ Exit \/ Elsewhere,
         NEW a \in Actuators, out[a] = 0 \/ a \in stray \cup missed
  PROVE  out'[a] = 0 \/ a \in stray' \cup missed'
<1>1. CASE UNCHANGED <<out, stray, missed>>
  BY <1>1
<1>2. CASE LeaseChecked
  <2>1. CASE lease = "due"
    BY <1>2, <2>1, TellStops DEF LeaseChecked, Actuators
  <2>2. CASE lease # "due"
    BY <1>1, <1>2, <2>2 DEF LeaseChecked
  <2>3. QED
    BY <2>1, <2>2
<1>3. CASE Tend \/ ReportsStale
  BY <1>2, <1>3 DEF Tend, ReportsStale
<1>4. CASE UartFails
  BY <1>1, <1>2, <1>4 DEF UartFails
<1>5. CASE StopAll
  BY <1>5, TellStops DEF StopAll, StopSet
<1>6. CASE UNCHANGED vars \/ Caller \/ Drained \/ StartupFails \/ ReadFrame \/ NextIteration
           \/ Exit \/ Elsewhere
  BY <1>1, <1>6 DEF vars, mcuVars, Caller, Issue, Send, SendFails, TakeReply, ReplyTimeout,
     WaitForAll, Drained, StartupFails, ReadFrame, NextIteration, Exit, Elsewhere,
     CheckSynchronized, SetOperational, InitializeFails, BeginStopping, SetStopping,
     JoinWorker, FaultElsewhere, RaiseShutdown, LeaseElapses,
     ReportsElapse, DeadlineElapses
<1>7. QED
  BY <1>3, <1>4, <1>5, <1>6

\* While halted, a non-zero level can only come from an entry nobody waits for.
LEMMA HaltedNext ==
  TypeOK /\ HandOver /\ HaltedStill /\ [Next]_vars => HaltedStill'
<1> SUFFICES ASSUME TypeOK, HandOver, HaltedStill, [Next]_vars, halted'
             PROVE  /\ \A s \in Seqs : acks'[s].owned => acks'[s].level = 0
                    /\ \A a \in Actuators : out'[a] = 0 \/ a \in stray' \cup missed'
  BY DEF HaltedStill
<1>0. halted => /\ \A s \in Seqs : acks[s].owned => acks[s].level = 0
                /\ \A a \in Actuators : out[a] = 0 \/ a \in stray \cup missed
  BY DEF HaltedStill
<1>1. CASE Execute
  <2> DEFINE c == Head(queue).cmd
  <2>1. PICK got : Obeyed(c, got) /\ halted' = (c.op = "estop" \/ (halted /\ ~NonZero(c)))
    BY <1>1 DEF Execute
  <2>2. c \in Commands /\ c.level \in Levels /\ queue # <<>>
    BY <1>1, QueueTypes, CommandTypes DEF Execute, Request
  <2>3. c.op = "estop" => c.level = 0
    BY <2>2, CommandTypes DEF AllCommands
  <2>4. c.level = 0 /\ (c.op = "estop" \/ halted)
    BY <2>1, <2>3 DEF NonZero
  <2> HIDE DEF c
  <2>5. ASSUME NEW s \in Seqs, acks'[s].owned PROVE acks'[s].level = 0
    <3>1. ~acks[s].owned
      BY <2>2 DEF HandOver
    <3>2. \/ acks'[s].owned = acks[s].owned
          \/ acks'[s] = Free
          \/ acks'[s].level = 0
          \/ acks'[s].level = c.level
      BY EntrySteps DEF c
    <3>3. Free.owned = FALSE /\ acks[s].owned = FALSE
      BY <3>1 DEF Free, TypeOK, Slot
    <3>4. QED
      BY <2>4, <2>5, <3>2, <3>3
  <2>6. ASSUME NEW a \in Actuators PROVE out'[a] = 0 \/ a \in stray' \cup missed'
    <3>1. CASE c.op = "estop"
      BY <2>1, <3>1, TellEffect DEF Obeyed
    <3>2. CASE c.op \in {"drive", "stop_drive"}
      <4>1. Tell({Wheels}, 0) /\ (c.op = "estop" \/ halted) /\ c.op # "estop"
        BY <2>1, <2>4, <3>2 DEF Obeyed
      <4>2. out[a] = 0 \/ a \in stray \cup missed
        BY <1>0, <4>1
      <4>3. QED
        BY <4>1, <4>2, TellStops DEF Actuators
    <3>3. CASE c.op = "motor" /\ "target" \in got
      <4>1. /\ out' = [out EXCEPT ![c.act] = 0]
            /\ stray' = stray \ {c.act}
            /\ missed' = missed \ {c.act}
        BY <2>1, <2>4, <3>3 DEF Obeyed
      <4>2. QED
        BY <1>0, <2>4, <3>3, <4>1 DEF TypeOK
    <3>4. CASE /\ c.op \notin {"drive", "stop_drive", "estop"}
               /\ ~(c.op = "motor" /\ "target" \in got)
      BY <1>0, <2>1, <2>4, <3>4 DEF Obeyed
    <3>5. QED
      BY <3>1, <3>2, <3>3, <3>4
  <2>7. QED
    BY <2>5, <2>6
<1>2. CASE ExecuteFails
  <2> DEFINE c == Head(queue).cmd
             b == IF c.op = "motor" THEN c.act ELSE Wheels
  <2>1. halted /\ c.level = 0 /\ acks' = acks
    BY <1>2 DEF ExecuteFails, NonZero
  <2>2. \/ \E Z \in SUBSET Actuators : Tell(Z, 0)
        \/ /\ \E level \in {0, out[b]} : out' = [out EXCEPT ![b] = level]
           /\ UNCHANGED <<stray, missed>>
        \/ UNCHANGED <<out, stray, missed>>
    BY <1>2, <2>1 DEF ExecuteFails
  <2> HIDE DEF b, c
  <2>3. ASSUME NEW a \in Actuators PROVE out'[a] = 0 \/ a \in stray' \cup missed'
    BY <1>0, <2>1, <2>2, TellStops DEF TypeOK
  <2>4. QED
    BY <1>0, <2>1, <2>3
<1>3. ASSUME NEW s \in Seqs, Retry(s)
      PROVE  \A a \in Actuators : out'[a] = 0 \/ a \in stray' \cup missed'
  <2>1. halted
    BY <1>3 DEF Retry
  <2>2. \/ UNCHANGED <<out, stray, missed>>
        \/ /\ out' = [out EXCEPT ![acks[s].act] = acks[s].level]
           /\ stray' = IF acks[s].owned THEN stray \ {acks[s].act} ELSE stray \cup {acks[s].act}
           /\ missed' = missed \ {acks[s].act}
    BY <1>3 DEF Retry
  <2>3. acks[s].owned => acks[s].level = 0
    BY <1>0, <2>1
  <2>4. QED
    BY <1>0, <2>1, <2>2, <2>3 DEF TypeOK
<1>4. CASE ~Execute /\ ~ExecuteFails
  <2>1. halted
    BY <1>4, HaltedSteps
  <2>2. ASSUME NEW s \in Seqs, acks'[s].owned PROVE acks'[s].level = 0
    BY <1>0, <1>4, <2>1, <2>2, EntrySteps DEF Free
  <2>3. \A a \in Actuators : out'[a] = 0 \/ a \in stray' \cup missed'
    BY <1>0, <1>3, <1>4, <2>1, StillUnderStops DEF Next, Worker
  <2>4. QED
    BY <2>2, <2>3
<1>5. QED
  BY <1>1, <1>2, <1>4

\* After an emergency stop nothing moves until a non-zero command is executed,
\* except what missed the stop frame or what the retry of an abandoned request
\* brings back.  The hand-over is what makes it so: a non-zero entry somebody
\* still waits for cannot be in the tracker when an emergency stop is executed.
THEOREM EmergencyStopHolds == Spec => []ResetHaltsUnlessStray
<1>1. Init => HandOver /\ HaltedStill
  BY DEF Init, HandOver, HaltedStill, Free
<1>2. HaltedStill => ResetHaltsUnlessStray
  BY DEF HaltedStill, ResetHaltsUnlessStray
<1>3. QED
  BY <1>1, <1>2, TypeInit, TypeNext, HandOverNext, HaltedNext, PTL DEF Spec

-----------------------------------------------------------------------------
(* Ok means obeyed.                                                        *)

\* The target frame of a cleaning command has an entry of its own, which a
\* waiting caller owns.
LEMMA RegisteredTarget ==
  ASSUME TypeOK, NEW c \in Commands, c.op = "motor",
         NEW slot \in [AckedFrames(c) -> FreeSeqs], NEW got \in SUBSET AckedFrames(c),
         \A f, g \in AckedFrames(c) : f # g => slot[f] # slot[g]
  PROVE  \E s \in Seqs :
           Registered(c, TRUE, slot, got)[s] = Expect(c.act, c.level, "target" \in got, TRUE)
<1> DEFINE s == slot["target"]
<1>1. "target" \in AckedFrames(c) /\ s \in Seqs
  BY DEF AckedFrames, FreeSeqs
<1>2. (CHOOSE g \in DOMAIN slot : slot[g] = s) = "target"
  BY <1>1
<1>3. Registered(c, TRUE, slot, got)[s]
        = Settle(Expect(c.act, c.level, "target" \in got, TRUE))
  BY <1>1, <1>2 DEF Registered
<1>4. QED
  BY <1>1, <1>3 DEF Settle, Expect

\* The MCU acknowledges what it received, and an entry keeps that until it is freed.
LEMMA ReceivedNext == TypeOK /\ Received /\ [Next]_vars => Received'
<1> SUFFICES ASSUME TypeOK, Received, [Next]_vars, NEW s \in Seqs, acks'[s].acked
             PROVE  acks'[s].got
  BY DEF Received
<1>0. acks[s] \in Slot /\ ~Free.acked /\ (acks[s].acked => acks[s].got)
  BY DEF TypeOK, Free, Received
<1>1. CASE acks'[s] = acks[s] \/ acks'[s] = Free
  BY <1>0, <1>1
<1>2. CASE ReadFrame
  <2>1. acks'[s] = acks[s] \/ (acks[s].got /\ acks'[s] = Settle([acks[s] EXCEPT !.acked = TRUE]))
    BY <1>2 DEF ReadFrame
  <2> DEFINE e == [acks[s] EXCEPT !.acked = TRUE]
  <2>2. e.got = acks[s].got
    BY <1>0 DEF Slot
  <2> HIDE DEF e
  <2>3. Settle(e) = e \/ Settle(e) = Free
    BY DEF Settle
  <2>4. QED
    BY <1>1, <2>1, <2>2, <2>3 DEF e
<1>3. CASE \E t \in Seqs : Retry(t)
  <2> PICK t \in Seqs, got \in BOOLEAN :
        acks' = [acks EXCEPT ![t] = Settle([acks[t] EXCEPT !.attempts = @ + 1, !.got = @ \/ got])]
    BY <1>3 DEF Retry
  <2>1. CASE t # s
    BY <1>1, <2>1 DEF TypeOK
  <2>2. CASE t = s
    <3> DEFINE e == [acks[s] EXCEPT !.attempts = @ + 1, !.got = @ \/ got]
    <3>1. acks'[s] = Settle(e)
      BY <2>2 DEF TypeOK
    <3>2. e.acked = acks[s].acked /\ e.got = (acks[s].got \/ got)
      BY <1>0 DEF Slot
    <3> HIDE DEF e
    <3>3. Settle(e) = e \/ Settle(e) = Free
      BY DEF Settle
    <3>4. QED
      BY <1>0, <1>1, <3>1, <3>2, <3>3
  <2>3. QED
    BY <2>1, <2>2
<1>4. CASE Execute
  <2> DEFINE c == Head(queue).cmd
  <2>1. c \in Commands
    BY <1>4, QueueTypes DEF Execute, Request
  <2>2. PICK own \in BOOLEAN, slot \in [AckedFrames(c) -> FreeSeqs], got \in SUBSET AckedFrames(c) :
          acks' = Registered(c, own, slot, got)
    BY <1>4 DEF Execute
  <2>3. acks'[s] = acks[s] \/ acks'[s] = Free \/ ~acks'[s].acked
    BY <2>1, <2>2, RegisteredEntry
  <2>4. QED
    BY <1>1, <2>3
<1>5. QED
  BY <1>1, <1>2, <1>3, <1>4, EntrySteps

\* Outside Execute and Retry no cleaning actuator moves while the loop runs, and
\* none of them becomes or stops being stray.
LEMMA CleanersSteady ==
  ASSUME TypeOK, [Next]_vars, ~Execute, ~\E t \in Seqs : Retry(t), Looping',
         NEW a \in Cleaners
  PROVE  Looping /\ out'[a] = out[a] /\ (a \in stray <=> a \in stray')
<1>0. a \in Actuators /\ a # Wheels
  BY ConstantsAssumption DEF Actuators
<1>1. CASE Tend
  <2>1. LeaseChecked /\ Looping
    BY <1>1 DEF Tend, Looping
  <2>2. CASE lease = "due"
    BY <1>0, <2>1, <2>2, TellEffect DEF LeaseChecked, Actuators
  <2>3. CASE lease # "due"
    BY <2>1, <2>3 DEF LeaseChecked
  <2>4. QED
    BY <2>1, <2>2, <2>3
<1>2. CASE Caller \/ UNCHANGED vars
  BY <1>2 DEF vars, mcuVars, Caller, Issue, Send, SendFails, TakeReply, ReplyTimeout,
     WaitForAll, Looping
<1>3. CASE \/ Drained \/ ReadFrame \/ NextIteration \/ ExecuteFails \/ ReportsStale
           \/ StartupFails \/ UartFails \/ StopAll \/ Exit
  BY <1>3 DEF Drained, ReadFrame, NextIteration, ExecuteFails, ReportsStale, StartupFails,
     UartFails, StopAll, Exit, EndLoop, mcuVars, Looping
<1>4. CASE Elsewhere
  BY <1>4 DEF Elsewhere, CheckSynchronized, SetOperational, InitializeFails, BeginStopping,
     SetStopping, JoinWorker, FaultElsewhere, RaiseShutdown,
     LeaseElapses, ReportsElapse, DeadlineElapses, mcuVars, Looping
<1>5. QED
  BY <1>1, <1>2, <1>3, <1>4 DEF Next, Worker

\* A call's own entries carry its own level, and nothing else moves its actuator
\* while it waits, but an abandoned retry.
LEMMA OwnedNext ==
  TypeOK /\ HandOver /\ OwnedMatch /\ [Next]_vars => OwnedMatch'
<1> SUFFICES ASSUME TypeOK, HandOver, OwnedMatch, [Next]_vars PROVE OwnedMatch'
  OBVIOUS
<1>0. /\ Free.act = Aux /\ Free.owned = FALSE /\ Aux \notin Cleaners
      /\ \A s \in Seqs : acks[s] \in Slot
  BY ConstantsAssumption DEF Free, TypeOK
<1>1. CASE Execute
  <2> DEFINE c == Head(queue).cmd
             own == ~Head(queue).abandoned
  <2>1. c \in Commands /\ queue # <<>> /\ own \in BOOLEAN
    BY <1>1, QueueTypes DEF Execute, Request
  <2>2. PICK slot \in [AckedFrames(c) -> FreeSeqs], got \in SUBSET AckedFrames(c) :
          /\ \A f, g \in AckedFrames(c) : f # g => slot[f] # slot[g]
          /\ acks' = Registered(c, own, slot, got)
          /\ Obeyed(c, got)
          /\ reply' = IF own THEN "ok" ELSE reply
    BY <1>1 DEF Execute
  <2>3. UNCHANGED <<at, cmd>>
    BY <1>1 DEF Execute
  <2>4. /\ at # "acks" /\ reply = "empty" /\ \A s \in Seqs : acks[s].owned = FALSE
    BY <1>0, <2>1 DEF HandOver, Slot
  <2>5. own => c = cmd
    <3>1. 1 \in DOMAIN queue /\ Head(queue) = queue[1]
      BY <2>1 DEF TypeOK
    <3>2. QED
      BY <3>1 DEF HandOver
  <2>6. ASSUME own, cmd.op = "motor"
        PROVE  \E s \in Seqs : acks'[s].owned /\ acks'[s].act = cmd.act /\ acks'[s].level = cmd.level
    <3>1. \E s \in Seqs : acks'[s] = Expect(c.act, c.level, "target" \in got, TRUE)
      <4>1. own = TRUE /\ c.op = "motor"
        BY <2>5, <2>6
      <4> HIDE DEF c, own
      <4>2. QED
        BY <2>1, <2>2, <4>1, RegisteredTarget
    <3>2. QED
      BY <2>5, <2>6, <3>1 DEF Expect
  <2>7. ASSUME NEW s \in Seqs, acks'[s].owned, acks'[s].act # Aux
        PROVE  /\ own /\ c.op = "motor" /\ acks'[s].act = c.act /\ acks'[s].level = c.level
               /\ acks'[s].got => "target" \in got
    <3> DEFINE e == acks'[s]
    <3> HIDE DEF c, own
    <3>1. \/ e = acks[s]
          \/ e = Free
          \/ e.act = Aux
          \/ /\ c.op = "motor" /\ e.act = c.act /\ e.level = c.level
             /\ e.owned = own /\ e.got = ("target" \in got)
      BY <2>1, <2>2, RegisteredEntry
    <3>2. e # acks[s] /\ e # Free
      BY <1>0, <2>4, <2>7
    <3>3. QED
      BY <2>7, <3>1, <3>2
  <2>8. ASSUME c.op = "motor", "target" \in got PROVE out'[c.act] = c.level
    BY <2>1, <2>2, <2>8, CommandTypes DEF Obeyed, TypeOK, Actuators
  <2>9. own => reply' = "ok"
    BY <2>2
  <2>10. ~own => reply' = "empty"
    BY <2>2, <2>4
  <2> HIDE DEF c, own
  <2>11. QED
    BY <2>3, <2>4, <2>5, <2>6, <2>7, <2>8, <2>10 DEF OwnedMatch
<1>2. ASSUME ~Execute, at' = "acks" \/ reply' = "ok", cmd'.op = "motor"
      PROVE  \E s \in Seqs : acks'[s].owned /\ acks'[s].act = cmd'.act /\ acks'[s].level = cmd'.level
  <2>1. ~WaitForAll /\ cmd' = cmd /\ (at = "acks" \/ reply = "ok")
    <3>1. CASE Caller
      BY <1>2, <3>1 DEF Caller, Issue, Send, SendFails, TakeReply, ReplyTimeout, WaitForAll,
         Return, HandOver
    <3>2. CASE ExecuteFails
      <4>1. queue # <<>> /\ UNCHANGED <<at, cmd>> /\ (reply' = "error" \/ reply' = reply)
        BY <3>2 DEF ExecuteFails
      <4>2. QED
        BY <1>2, <4>1 DEF HandOver
    <3>3. CASE ~Caller /\ ~ExecuteFails
      BY <1>2, <3>3, CallerSteps DEF Caller
    <3>4. QED
      BY <3>1, <3>2, <3>3
  <2>2. PICK s \in Seqs : acks[s].owned /\ acks[s].act = cmd.act /\ acks[s].level = cmd.level
    BY <1>2, <2>1 DEF OwnedMatch
  <2>3. acks'[s].owned /\ acks'[s].act = cmd.act /\ acks'[s].level = cmd.level
    BY <1>2, <2>1, <2>2, EntrySteps
  <2>4. QED
    BY <2>1, <2>3
<1>3. ASSUME ~Execute, NEW s \in Seqs, acks'[s].owned, acks'[s].act # Aux
      PROVE  /\ acks[s].owned /\ acks[s].act = acks'[s].act /\ acks[s].level = acks'[s].level
             /\ acks[s].act \in Cleaners /\ acks[s].act = cmd.act /\ acks[s].level = cmd.level
             /\ cmd' = cmd /\ cmd.op = "motor"
  <2>1. /\ acks[s].owned /\ acks[s].act = acks'[s].act /\ acks[s].level = acks'[s].level
    BY <1>0, <1>3, EntrySteps
  <2>2. acks[s].act \in Cleaners /\ acks[s].act # Aux
    BY <1>0, <1>3, <2>1 DEF Slot
  <2>3. acks[s].act = cmd.act /\ acks[s].level = cmd.level /\ cmd.op = "motor"
    BY <2>1, <2>2 DEF OwnedMatch
  <2>4. cmd' = cmd
    <3>1. at = "acks" \/ (at = "reply" /\ reply = "ok")
      BY <2>1 DEF HandOver
    <3>2. CASE WaitForAll
      BY <1>3, <1>0, <3>2 DEF WaitForAll, Owned
    <3>3. CASE Caller
      BY <3>1, <3>2, <3>3 DEF Caller, Issue, Send, SendFails, TakeReply, ReplyTimeout
    <3>4. CASE ~Caller
      BY <3>4, CallerSteps
    <3>5. QED
      BY <3>3, <3>4
  <2>5. QED
    BY <2>1, <2>2, <2>3, <2>4
<1>4. CASE \E t \in Seqs : Retry(t)
  <2>1. PICK t \in Seqs : Retry(t)
    BY <1>4
  <2>2. PICK got, obeyed \in BOOLEAN :
          /\ got /\ ~acks[t].got => obeyed
          /\ acks' = [acks EXCEPT ![t] = Settle([acks[t] EXCEPT !.attempts = @ + 1, !.got = @ \/ got])]
          /\ IF obeyed /\ acks[t].act # Aux
             THEN /\ out' = [out EXCEPT ![acks[t].act] = acks[t].level]
                  /\ stray' = IF acks[t].owned THEN stray \ {acks[t].act}
                                               ELSE stray \cup {acks[t].act}
             ELSE UNCHANGED <<out, stray>>
    BY <2>1 DEF Retry
  <2>3. ~Execute /\ Looping
    BY <2>1 DEF Retry, Execute, Looping
  <2>4. ASSUME NEW s \in Seqs, acks'[s].owned, acks'[s].act # Aux, acks'[s].got
        PROVE  out'[cmd.act] = cmd.level \/ cmd.act \in stray'
    <3>1. /\ acks[s].owned /\ acks[s].act = cmd.act /\ acks[s].level = cmd.level
          /\ cmd.act \in Cleaners /\ acks[s].act # Aux
      BY <1>0, <1>3, <2>3, <2>4
    <3>2. acks[s].got => out[cmd.act] = cmd.level \/ cmd.act \in stray
      BY <2>3, <3>1 DEF OwnedMatch
    <3>3. acks[s].got \/ (t = s /\ got)
      <4>1. CASE t # s
        BY <2>2, <2>4, <4>1 DEF TypeOK
      <4>2. CASE t = s
        <5> DEFINE e == [acks[s] EXCEPT !.attempts = @ + 1, !.got = @ \/ got]
        <5>1. acks'[s] = Settle(e)
          BY <2>2, <4>2 DEF TypeOK
        <5>2. e.got = (acks[s].got \/ got)
          BY <1>0 DEF Slot
        <5> HIDE DEF e
        <5>3. Settle(e) = e \/ Settle(e) = Free
          BY DEF Settle
        <5>4. QED
          BY <1>0, <2>4, <4>2, <5>1, <5>2, <5>3
      <4>3. QED
        BY <4>1, <4>2
    <3>4. CASE UNCHANGED <<out, stray>>
      <4>1. ~(t = s /\ got /\ ~acks[s].got) \/ out[cmd.act] = cmd.level
        BY <2>2, <3>1, <3>4 DEF TypeOK, Actuators
      <4>2. QED
        BY <3>2, <3>3, <3>4, <4>1
    <3>5. CASE acks[t].act # cmd.act /\ out' = [out EXCEPT ![acks[t].act] = acks[t].level]
      <4>1. out'[cmd.act] = out[cmd.act] /\ (cmd.act \in stray <=> cmd.act \in stray') /\ t # s
        BY <2>2, <3>1, <3>5 DEF TypeOK, Actuators
      <4>2. QED
        BY <3>2, <3>3, <4>1
    <3>6. CASE /\ acks[t].act = cmd.act /\ out' = [out EXCEPT ![cmd.act] = acks[t].level]
               /\ stray' = IF acks[t].owned THEN stray \ {cmd.act} ELSE stray \cup {cmd.act}
      <4>1. acks[t].owned => acks[t].level = cmd.level
        BY <1>0, <3>1, <3>6 DEF OwnedMatch
      <4>2. QED
        BY <3>1, <3>6, <4>1 DEF TypeOK, Actuators
    <3>7. QED
      BY <2>2, <3>4, <3>5, <3>6
  <2>5. QED
    BY <1>2, <1>3, <2>3, <2>4 DEF OwnedMatch
<1>5. CASE ~Execute /\ ~\E t \in Seqs : Retry(t)
  <2>1. ASSUME NEW s \in Seqs, acks'[s].owned, acks'[s].act # Aux, acks'[s].got, Looping'
        PROVE  out'[cmd.act] = cmd.level \/ cmd.act \in stray'
    <3>1. /\ acks[s].owned /\ acks[s].act = cmd.act /\ acks[s].act # Aux
          /\ cmd.act \in Cleaners
      BY <1>0, <1>3, <1>5, <2>1
    <3>2. Looping /\ out'[cmd.act] = out[cmd.act] /\ (cmd.act \in stray <=> cmd.act \in stray')
      BY <1>5, <2>1, <3>1, CleanersSteady
    <3>3. acks[s].got
      <4>1. CASE ReadFrame
        <5>1. acks'[s] = acks[s] \/ acks[s].got
          BY <4>1 DEF ReadFrame
        <5>2. QED
          BY <2>1, <5>1
      <4>2. CASE ~ReadFrame
        BY <1>0, <1>5, <2>1, <4>2, EntrySteps
      <4>3. QED
        BY <4>1, <4>2
    <3>4. QED
      BY <3>1, <3>2, <3>3 DEF OwnedMatch
  <2>2. QED
    BY <1>2, <1>3, <1>5, <2>1 DEF OwnedMatch
<1>6. QED
  BY <1>1, <1>4, <1>5

\* execute() returns Ok for a cleaning actuator only when the MCU has obeyed the
\* command, unless the retry of a request that was given up came in between.
THEOREM OkIsObeyed == Spec => OkMeansObeyed
<1> DEFINE I == TypeOK /\ HandOver /\ Received /\ OwnedMatch
<1>1. Init => I
  BY TypeInit DEF Init, HandOver, Received, OwnedMatch, Free
<1>2. I /\ [Next]_vars => I'
  BY TypeNext, HandOverNext, ReceivedNext, OwnedNext
<1>3. I /\ [Next]_vars =>
        [at = "acks" /\ outcome' = "ok" /\ cmd.op = "motor" /\ Looping
           => out[cmd.act] = cmd.level \/ cmd.act \in stray]_<<at, outcome>>
  <2> SUFFICES ASSUME I, [Next]_vars, at = "acks", outcome' = "ok", cmd.op = "motor", Looping,
                      ~UNCHANGED <<at, outcome>>
               PROVE  out[cmd.act] = cmd.level \/ cmd.act \in stray
    OBVIOUS
  <2>1. WaitForAll
    <3>1. CASE Caller
      BY <3>1 DEF Caller, Issue, Send, SendFails, TakeReply, ReplyTimeout
    <3>2. CASE ~Caller
      BY <3>2 DEF Next, vars, callerVars, Worker, Execute, ExecuteFails, Drained, Retry, Tend,
         ReportsStale, StartupFails, UartFails, ReadFrame, NextIteration, StopAll, Exit,
         Elsewhere, CheckSynchronized, SetOperational, InitializeFails, BeginStopping,
         SetStopping, JoinWorker, FaultElsewhere, RaiseShutdown,
         LeaseElapses, ReportsElapse, DeadlineElapses
    <3>3. QED
      BY <3>1, <3>2
  <2>2. Missing = {}
    BY <2>1 DEF WaitForAll, Return
  <2>3. PICK s \in Seqs : acks[s].owned /\ acks[s].act = cmd.act /\ acks[s].level = cmd.level
    BY DEF OwnedMatch
  <2>4. acks[s].acked /\ acks[s].got
    BY <2>2, <2>3 DEF Missing, Owned, Received
  <2>5. acks[s].act # Aux
    BY <2>3, CommandTypes, ConstantsAssumption DEF TypeOK
  <2>6. QED
    BY <2>3, <2>4, <2>5 DEF OwnedMatch
<1>4. QED
  BY <1>1, <1>2, <1>3, PTL DEF Spec, OkMeansObeyed

-----------------------------------------------------------------------------
(***************************************************************************)
(* S5MaxMcu implements S5MaxSession: the worker with its queue, tracker,   *)
(* leases and lossy UART is, to the driver that joins it, a session that   *)
(* is still until it is live and that has stopped, or failed, when over.   *)
(***************************************************************************)

\* The stop set only stops: what moves after it moved before it.
LEMMA StopSetOnlyStops ==
  ASSUME TypeOK, NEW Z \in SUBSET Actuators, StopSet(Z)
  PROVE  /\ Moving' => Moving
         /\ Z = Actuators => ~Moving'
<1>1. Tell(Z, 0)
  BY DEF StopSet
<1>2. ASSUME NEW a \in Actuators, a \notin missed', out'[a] # 0
      PROVE  a \notin Z /\ a \notin missed /\ out[a] # 0
  BY <1>1, <1>2, TellEffect
<1>3. QED
  BY <1>2 DEF Moving

\* The steps that leave what the abstract session sees as it is.
LEMMA SessionStutters ==
  ASSUME \/ UNCHANGED vars \/ Caller \/ Drained \/ Elsewhere
  PROVE  UNCHANGED <<Phase, Moving, failed>>
<1>1. UNCHANGED <<out, missed, failed, startup>> /\ (Looping' <=> Looping)
      /\ (wpc' = wpc \/ (Looping /\ Looping'))
  <2>1. CASE UNCHANGED vars \/ Caller
    BY <2>1 DEF vars, mcuVars, sessionVars, Caller, Issue, Send, SendFails, TakeReply,
       ReplyTimeout, WaitForAll, Looping
  <2>2. CASE Drained
    BY <2>2 DEF Drained, mcuVars, sessionVars, Looping
  <2>3. CASE Elsewhere
    BY <2>3 DEF Elsewhere, CheckSynchronized, SetOperational, InitializeFails, BeginStopping,
       SetStopping, JoinWorker, FaultElsewhere, RaiseShutdown,
       LeaseElapses, ReportsElapse, DeadlineElapses, mcuVars, sessionVars, Looping
  <2>4. QED
    BY <2>1, <2>2, <2>3
<1>2. UNCHANGED Moving
  BY <1>1 DEF Moving, Actuators
<1>3. UNCHANGED Phase
  BY <1>1 DEF Phase, Looping
<1>4. QED
  BY <1>1, <1>2, <1>3

\* A step of the loop that stays in it is a step of a live session, or the one
\* that makes it live; before that nothing moves.
LEMMA LoopSteps ==
  ASSUME TypeOK, NonzeroNeedsSync, NonzeroNeedsSync',
         Looping, Looping', UNCHANGED failed,
         \/ UNCHANGED startup
         \/ startup = "waiting" /\ startup' = "ok" /\ UNCHANGED <<out, missed>>
  PROVE  [Session!SessionNext]_(Session!session)
<1>1. Phase = (IF startup = "ok" THEN "live" ELSE "starting")
      /\ Phase' = (IF startup' = "ok" THEN "live" ELSE "starting")
  BY DEF Phase
<1>2. CASE startup = "ok" /\ startup' = "ok"
  <2>1. Phase = "live" /\ Phase' = "live" /\ Moving' \in BOOLEAN
    BY <1>1, <1>2 DEF Moving
  <2>2. QED
    BY <2>1 DEF Session!SessionNext, Session!Actuate
<1>3. CASE startup # "ok" /\ startup' # "ok"
  <2>1. Moving = FALSE /\ Moving' = FALSE
    BY <1>3 DEF NonzeroNeedsSync, Moving
  <2>2. QED
    BY <1>1, <1>3, <2>1 DEF Session!session
<1>4. CASE startup # "ok" /\ startup' = "ok"
  <2>1. UNCHANGED Moving
    BY <1>4 DEF Moving, Actuators
  <2>2. Phase = "starting" /\ Phase' = "live"
    BY <1>1, <1>4
  <2>3. QED
    BY <2>1, <2>2 DEF Session!SessionNext, Session!Synchronize
<1>5. QED
  BY <1>2, <1>3, <1>4

\* A step that leaves the loop finishes the session.
LEMMA LoopEnds ==
  ASSUME TypeOK, TypeOK', NonzeroNeedsSync, NonzeroNeedsSync',
         Looping, wpc' = "stop",
         startup' = "ok" => startup = "ok"
  PROVE  Session!SessionNext
<1>1. Phase' = "ending"
  BY DEF Phase, Looping
<1>2. failed' \in BOOLEAN
  BY DEF TypeOK
<1>3. Session!Finish(failed')
  <2>1. CASE startup = "ok"
    <3>1. Phase = "live" /\ Moving' \in BOOLEAN
      BY <2>1 DEF Phase, Moving
    <3>2. QED
      BY <1>1, <3>1 DEF Session!Finish
  <2>2. CASE startup # "ok"
    <3>1. Phase = "starting" /\ Moving' = FALSE
      BY <2>2 DEF Phase, NonzeroNeedsSync, Moving
    <3>2. QED
      BY <1>1, <3>1 DEF Session!Finish
  <2>3. QED
    BY <2>1, <2>2
<1>4. QED
  BY <1>2, <1>3 DEF Session!SessionNext

\* The stop set, whole or in part, is the abstract session's stop.
LEMMA StopSteps ==
  ASSUME TypeOK, StopAll
  PROVE  Session!SessionNext
<1>1. Phase = "ending" /\ Phase' \in {"ending", "stopped"}
      /\ (wpc' = "exit" => Phase' = "stopped")
  BY DEF StopAll, Phase, Looping
<1>2. CASE StopSet(Actuators) /\ wpc' = "exit" /\ UNCHANGED failed
  <2>1. Moving' = FALSE
    BY <1>2, StopSetOnlyStops DEF Moving
  <2>2. QED
    BY <1>1, <1>2, <2>1 DEF Session!SessionNext, Session!StopSucceeds
<1>3. CASE (\E Z \in SUBSET Actuators : StopSet(Z)) /\ failed' = TRUE
  <2>1. Moving' \in {Moving, FALSE}
    BY <1>3, StopSetOnlyStops DEF Moving
  <2>2. QED
    BY <1>1, <1>3, <2>1 DEF Session!SessionNext, Session!StopFails
<1>4. QED
  BY <1>2, <1>3 DEF StopAll

\* Every step of the worker, its callers and the MCU is a step of the abstract
\* session or invisible to it.
LEMMA SessionStep ==
  ASSUME TypeOK, TypeOK', NonzeroNeedsSync, NonzeroNeedsSync', [Next]_vars
  PROVE  [Session!SessionNext]_(Session!session)
<1>1. CASE UNCHANGED vars \/ Caller \/ Drained \/ Elsewhere
  BY <1>1, SessionStutters DEF Session!session
<1>2. CASE Execute \/ (\E s \in Seqs : Retry(s)) \/ Tend
  <2>1. Looping /\ Looping' /\ UNCHANGED <<failed, startup>>
    BY <1>2 DEF Execute, Retry, Tend, Looping, sessionVars
  <2>2. QED
    BY <2>1, LoopSteps
<1>3. CASE ReadFrame
  <2>1. Looping /\ Looping' /\ UNCHANGED <<failed, out, missed>>
    BY <1>3 DEF ReadFrame, Looping, mcuVars
  <2>2. UNCHANGED startup \/ (startup = "waiting" /\ startup' = "ok")
    BY <1>3 DEF ReadFrame, Ready
  <2>3. QED
    BY <2>1, <2>2, LoopSteps
<1>4. CASE ExecuteFails \/ ReportsStale \/ StartupFails \/ UartFails
  <2>1. Looping /\ wpc' = "stop" /\ (startup' = "ok" => startup = "ok")
    BY <1>4 DEF ExecuteFails, ReportsStale, StartupFails, UartFails, EndLoop, Looping,
       sessionVars
  <2>2. QED
    BY <2>1, LoopEnds
<1>5. CASE NextIteration
  <2>1. CASE shutdown
    <3>1. Looping /\ wpc' = "stop" /\ (startup' = "ok" => startup = "ok")
      BY <1>5, <2>1 DEF NextIteration, EndLoop, Looping
    <3>2. QED
      BY <3>1, LoopEnds
  <2>2. CASE ~shutdown
    <3>1. Looping /\ Looping' /\ UNCHANGED <<failed, startup>>
      BY <1>5, <2>2 DEF NextIteration, Looping
    <3>2. QED
      BY <3>1, LoopSteps
  <2>3. QED
    BY <2>1, <2>2
<1>6. CASE StopAll
  BY <1>6, StopSteps
<1>7. CASE Exit
  <2>1. Phase = "stopped" /\ Phase' = "over" /\ UNCHANGED failed
    BY <1>7 DEF Exit, Phase, Looping
  <2>2. UNCHANGED Moving
    BY <1>7 DEF Exit, mcuVars, Moving, Actuators
  <2>3. QED
    BY <2>1, <2>2 DEF Session!SessionNext, Session!Close
<1>8. QED
  BY <1>1, <1>2, <1>3, <1>4, <1>5, <1>6, <1>7 DEF Next, Worker

\* The worker implements the abstract session the driver is built on: still
\* until live, and when it is over either stopped or failed.
THEOREM SessionImplemented == Spec => ImplementsSession
<1>1. Init => Session!SessionInit
  BY DEF Init, Session!SessionInit, Phase, Looping, Moving
<1>2. TypeOK /\ TypeOK' /\ NonzeroNeedsSync /\ NonzeroNeedsSync' /\ [Next]_vars
        => [Session!SessionNext]_(Session!session)
  BY SessionStep
<1>3. QED
  BY <1>1, <1>2, TypeCorrect, SyncBeforeMotion, PTL
     DEF Spec, ImplementsSession, Session!SessionSpec
=============================================================================
