----------------------- MODULE SangamConnectionsProofs -----------------------
(***************************************************************************)
(* What SangamConnections guarantees for any number of connections and     *)
(* addresses: a replaced client gets at most one more command through, a   *)
(* clean-up takes the connection from no other client, and streaming stops *)
(* with the last client.                                                   *)
(***************************************************************************)
EXTENDS SangamConnections, TLAPS

USE ConnectionsAssumption DEF Conns, None, NoConn, Setup, Serving, Cleaning

\* What the publisher, Ctrl-C and a client that goes away leave alone.
LEMMA QuietSteps ==
  ASSUME UNCHANGED vars \/ Look \/ Send \/ Interrupt \/ \E c \in Conns : Disconnect(c)
  PROVE  UNCHANGED <<srv, opened, cur, registry, writer, transport, addr, alive, receiver, late>>
BY DEF vars, serverVars, connVars, Look, Send, Interrupt, Disconnect

-----------------------------------------------------------------------------
(* Types.                                                                  *)

\* The daemon starts with values of these types.
LEMMA TypeInit == Init => TypeOK
BY DEF Init, TypeOK

\* The steps of the accept loop keep the types.
LEMMA TypeServer == TypeOK /\ Server => TypeOK'
<1> SUFFICES ASSUME TypeOK, Server PROVE TypeOK'
  OBVIOUS
<1> USE DEF TypeOK, pubVars, connVars, serverVars
<1>1. CASE Accept
  BY <1>1 DEF Accept
<1>2. CASE Register
  BY <1>2 DEF Register
<1>3. CASE MakeBlocking
  BY <1>3 DEF MakeBlocking
<1>4. CASE Refuse
  BY <1>4 DEF Refuse
<1>5. CASE RefuseRegistry
  BY <1>5 DEF RefuseRegistry
<1>6. CASE Stash
  BY <1>6 DEF Stash
<1>7. CASE ResetTransport
  BY <1>7 DEF ResetTransport
<1>8. CASE Spawn
  BY <1>8 DEF Spawn
<1>9. CASE Stop
  BY <1>9 DEF Stop
<1>10. QED
  BY <1>1, <1>2, <1>3, <1>4, <1>5, <1>6, <1>7, <1>8, <1>9 DEF Server

\* So do those of a receiver, which exists only once its connection is set up.
LEMMA TypeReceiver == ASSUME NEW c \in Conns PROVE TypeOK /\ Receiver(c) => TypeOK'
<1> SUFFICES ASSUME TypeOK, Receiver(c) PROVE TypeOK'
  OBVIOUS
<1> USE DEF TypeOK, pubVars, connVars, serverVars, At
<1>1. CASE Loop(c)
  BY <1>1 DEF Loop
<1>2. CASE ReadNothing(c)
  BY <1>2 DEF ReadNothing
<1>3. CASE ReadCommand(c)
  BY <1>3 DEF ReadCommand
<1>4. CASE ReadFails(c)
  BY <1>4 DEF ReadFails
<1>5. CASE HandleDriver(c)
  BY <1>5 DEF HandleDriver
<1>6. CASE HandleTelemetry(c)
  BY <1>6 DEF HandleTelemetry
<1>7. CASE Close(c)
  BY <1>7 DEF Close
<1>8. CASE CheckCurrent(c)
  BY <1>8 DEF CheckCurrent
<1>9. CASE ClearRegistry(c)
  BY <1>9 DEF ClearRegistry
<1>10. CASE ClearWriter(c)
  BY <1>10 DEF ClearWriter
<1>11. CASE ClearTransport(c)
  BY <1>11 DEF ClearTransport
<1>12. QED
  BY <1>1, <1>2, <1>3, <1>4, <1>5, <1>6, <1>7, <1>8, <1>9, <1>10, <1>11 DEF Receiver

\* And so does every other step: the types are inductive on their own.
LEMMA TypeNext == TypeOK /\ [Next]_vars => TypeOK'
<1> SUFFICES ASSUME TypeOK, [Next]_vars PROVE TypeOK'
  OBVIOUS
<1>1. CASE UNCHANGED vars
  BY <1>1 DEF vars, serverVars, connVars, pubVars, TypeOK
<1>2. CASE Look
  BY <1>2 DEF Look, serverVars, connVars, TypeOK
<1>3. CASE Send
  BY <1>3 DEF Send, serverVars, connVars, TypeOK
<1>4. CASE Interrupt
  BY <1>4 DEF Interrupt, connVars, pubVars, TypeOK
<1>5. ASSUME NEW c \in Conns, Disconnect(c) PROVE TypeOK'
  BY <1>5 DEF Disconnect, serverVars, pubVars, TypeOK
<1>6. QED
  BY <1>1, <1>2, <1>3, <1>4, <1>5, TypeServer, TypeReceiver DEF Next

\* Type correctness of the daemon's connection handling.
THEOREM TypeCorrect == Spec => []TypeOK
BY TypeInit, TypeNext, PTL DEF Spec

-----------------------------------------------------------------------------
(* The inductive invariant.                                                *)

\* A connection that has executed a command after it was replaced is on its way
\* out: its receiver finds the flag down before it reads again.
Spent ==
  \A c \in Conns :
    late[c] # 0 => late[c] = 1 /\ ~alive[c] /\ receiver[c] \notin {"none", "read", "handle"}

\* A receiver that cleans up, or a connection that is refused, has its flag down.
Down ==
  /\ \A c \in Conns : receiver[c] \in {"check", "clear_registry", "clear_writer",
                                      "clear_transport", "gone"} => ~alive[c]
  /\ srv \in {"refuse", "refuse_registry"} => ~alive[opened]

\* Whoever is the current connection is being set up or has a receiver that will
\* find itself the current one ...
Current ==
  /\ srv \in Setup \ {"refuse_registry"} => cur = opened
  /\ srv = "refuse_registry" => cur = NoConn
  /\ srv \in {"accept", "stopped"} /\ cur # NoConn =>
       receiver[cur] \in Serving \cup {"close", "check"}

\* ... and a registered address has somebody left to clear it.
Cleared ==
  srv \in {"accept", "stopped"} /\ registry # None =>
    cur # NoConn \/ \E c \in Conns : receiver[c] = "clear_registry"

\* A late command is executed by a receiver that was past its check of the flag;
\* it does not get there again.
LEMMA SpentNext == TypeOK /\ Spent /\ [Next]_vars => Spent'
<1> SUFFICES ASSUME TypeOK, Spent, [Next]_vars PROVE Spent'
  OBVIOUS
<1>1. CASE UNCHANGED <<alive, receiver, late>>
  BY <1>1 DEF Spent
<1>2. CASE UNCHANGED vars \/ Look \/ Send \/ Interrupt \/ \E c \in Conns : Disconnect(c)
  BY <1>1, <1>2, QuietSteps
<1>3. CASE Accept
  BY <1>3 DEF Accept, Spent, TypeOK
<1>4. CASE Register \/ Refuse \/ Stash \/ ResetTransport \/ Stop
  BY <1>1, <1>4 DEF Register, Refuse, Stash, ResetTransport, Stop, connVars
<1>5. CASE MakeBlocking
  BY <1>5 DEF MakeBlocking, Spent, TypeOK
<1>6. CASE RefuseRegistry
  BY <1>6 DEF RefuseRegistry, Spent, TypeOK
<1>7. CASE Spawn
  BY <1>7 DEF Spawn, Spent, TypeOK, connVars
<1>8. ASSUME NEW c \in Conns, Receiver(c) PROVE Spent'
  <2>1. CASE Loop(c)
    BY <2>1 DEF Loop, At, Spent, TypeOK, connVars
  <2>2. CASE ReadNothing(c) \/ ReadCommand(c) \/ ReadFails(c) \/ HandleTelemetry(c)
    BY <2>2 DEF ReadNothing, ReadCommand, ReadFails, HandleTelemetry, At, Spent, TypeOK,
       connVars
  <2>3. CASE HandleDriver(c)
    BY <2>3 DEF HandleDriver, At, Spent, TypeOK, connVars
  <2>4. CASE Close(c)
    BY <2>4 DEF Close, At, Spent, TypeOK
  <2>5. CASE CheckCurrent(c) \/ ClearRegistry(c) \/ ClearWriter(c) \/ ClearTransport(c)
    BY <2>5 DEF CheckCurrent, ClearRegistry, ClearWriter, ClearTransport, At, Spent, TypeOK,
       connVars
  <2>6. QED
    BY <1>8, <2>1, <2>2, <2>3, <2>4, <2>5 DEF Receiver
<1>9. QED
  BY <1>2, <1>3, <1>4, <1>5, <1>6, <1>7, <1>8 DEF Next, Server

\* A client that was replaced gets no more than one command through to the
\* driver, however often it sends one and however many clients follow.
THEOREM OneLate == Spec => []OneLateCommand
<1>1. Init => Spent
  BY DEF Init, Spent
<1>2. TypeOK /\ Spent => OneLateCommand
  BY DEF TypeOK, Spent, OneLateCommand
<1>3. QED
  BY <1>1, <1>2, TypeInit, TypeNext, SpentNext, PTL DEF Spec

\* A receiver lowers its flag before it looks at the current connection, and no
\* step raises the flag of a connection that has a receiver.
LEMMA DownNext == TypeOK /\ Down /\ [Next]_vars => Down'
<1> SUFFICES ASSUME TypeOK, Down, [Next]_vars PROVE Down'
  OBVIOUS
<1>1. CASE UNCHANGED <<srv, opened, alive, receiver>>
  BY <1>1 DEF Down
<1>2. CASE UNCHANGED vars \/ Look \/ Send \/ Interrupt \/ \E c \in Conns : Disconnect(c)
  BY <1>1, <1>2, QuietSteps
<1>3. CASE Accept
  BY <1>3 DEF Accept, Down, TypeOK
<1>4. CASE Register \/ Stash \/ ResetTransport \/ Stop \/ Refuse
  BY <1>4 DEF Register, Stash, ResetTransport, Stop, Refuse, connVars, Down
<1>5. CASE MakeBlocking
  BY <1>5 DEF MakeBlocking, Down, TypeOK
<1>6. CASE RefuseRegistry
  BY <1>6 DEF RefuseRegistry, Down, TypeOK
<1>7. CASE Spawn
  BY <1>7 DEF Spawn, Down, TypeOK, connVars
<1>8. ASSUME NEW c \in Conns, Receiver(c) PROVE Down'
  <2>1. CASE Close(c)
    BY <2>1 DEF Close, At, Down, TypeOK, serverVars
  <2>2. CASE Receiver(c) /\ ~Close(c)
    BY <2>2 DEF Receiver, Loop, ReadNothing, ReadCommand, ReadFails, HandleDriver,
       HandleTelemetry, CheckCurrent, ClearRegistry, ClearWriter, ClearTransport, At, Down,
       TypeOK, connVars, serverVars
  <2>3. QED
    BY <1>8, <2>1, <2>2
<1>9. QED
  BY <1>2, <1>3, <1>4, <1>5, <1>6, <1>7, <1>8 DEF Next, Server

\* The accept loop alone makes a connection current; its receiver keeps it so
\* until the check of the clean-up.
LEMMA CurrentNext == TypeOK /\ Current /\ [Next]_vars => Current'
<1> SUFFICES ASSUME TypeOK, Current, [Next]_vars PROVE Current'
  OBVIOUS
<1>1. CASE UNCHANGED <<srv, opened, cur, receiver>>
  BY <1>1 DEF Current
<1>2. CASE UNCHANGED vars \/ Look \/ Send \/ Interrupt \/ \E c \in Conns : Disconnect(c)
  BY <1>1, <1>2, QuietSteps
<1>3. CASE Accept \/ Register \/ MakeBlocking \/ Refuse \/ Stash \/ ResetTransport \/ Stop
  BY <1>3 DEF Accept, Register, MakeBlocking, Refuse, Stash, ResetTransport, Stop, Current
<1>4. CASE RefuseRegistry
  BY <1>4 DEF RefuseRegistry, Current, TypeOK
<1>5. CASE Spawn
  BY <1>5 DEF Spawn, Current, TypeOK
<1>6. ASSUME NEW c \in Conns, Receiver(c) PROVE Current'
  <2>1. CASE CheckCurrent(c)
    BY <2>1 DEF CheckCurrent, At, Current, TypeOK, serverVars
  <2>2. CASE Receiver(c) /\ ~CheckCurrent(c)
    BY <2>2 DEF Receiver, Loop, ReadNothing, ReadCommand, ReadFails, HandleDriver,
       HandleTelemetry, Close, ClearRegistry, ClearWriter, ClearTransport, At, Current,
       TypeOK, serverVars
  <2>3. QED
    BY <1>6, <2>1, <2>2
<1>7. QED
  BY <1>2, <1>3, <1>4, <1>5, <1>6 DEF Next, Server

\* The check that gives up the current connection moves on to clear the registry.
LEMMA ClearedNext == TypeOK /\ Current /\ Cleared /\ [Next]_vars => Cleared'
<1> SUFFICES ASSUME TypeOK, Current, Cleared, [Next]_vars PROVE Cleared'
  OBVIOUS
<1>1. CASE UNCHANGED <<srv, cur, registry, receiver>>
  BY <1>1 DEF Cleared
<1>2. CASE UNCHANGED vars \/ Look \/ Send \/ Interrupt \/ \E c \in Conns : Disconnect(c)
  BY <1>1, <1>2, QuietSteps
<1>3. CASE Accept \/ Register \/ MakeBlocking \/ Refuse \/ Stash \/ ResetTransport \/ RefuseRegistry
  BY <1>3 DEF Accept, Register, MakeBlocking, Refuse, Stash, ResetTransport, RefuseRegistry,
     Cleared
<1>4. CASE Stop
  BY <1>4 DEF Stop, Cleared
<1>5. CASE Spawn
  BY <1>5 DEF Spawn, Current, Cleared, TypeOK
<1>6. ASSUME NEW c \in Conns, Receiver(c) PROVE Cleared'
  <2>1. CASE CheckCurrent(c)
    BY <2>1 DEF CheckCurrent, At, Cleared, TypeOK, serverVars
  <2>2. CASE ClearRegistry(c)
    BY <2>2 DEF ClearRegistry, Cleared
  <2>3. CASE Receiver(c) /\ ~CheckCurrent(c) /\ ~ClearRegistry(c)
    BY <2>3 DEF Receiver, Loop, ReadNothing, ReadCommand, ReadFails, HandleDriver,
       HandleTelemetry, Close, ClearWriter, ClearTransport, At, Cleared, TypeOK, serverVars
  <2>4. QED
    BY <1>6, <2>1, <2>2, <2>3
<1>7. QED
  BY <1>2, <1>3, <1>4, <1>5, <1>6 DEF Next, Server

\* With the last receiver gone nobody is registered: UDP streaming stops with
\* the TCP connection, in whatever order overlapping clean-ups ran.
THEOREM StreamingEnds == Spec => []StreamingStops
<1>1. Init => Current /\ Cleared
  BY DEF Init, Current, Cleared
<1>2. TypeOK /\ Current /\ Cleared => StreamingStops
  <2> SUFFICES ASSUME TypeOK, Current, Cleared, srv = "accept",
                      \A c \in Conns : receiver[c] \in {"none", "gone"}
               PROVE  registry = None /\ cur = NoConn
    BY DEF StreamingStops
  <2>1. cur # NoConn => cur \in Conns
    BY DEF TypeOK
  <2>2. cur = NoConn
    BY <2>1 DEF Current
  <2>3. registry = None
    BY <2>2 DEF Cleared
  <2>4. QED
    BY <2>2, <2>3
<1>3. QED
  BY <1>1, <1>2, TypeInit, TypeNext, CurrentNext, ClearedNext, PTL DEF Spec

\* A clean-up gives up the current connection only for a connection that is
\* itself down: it takes it from no other client.
THEOREM NoneIsDropped == Spec => NoOtherIsDropped
<1>1. Init => Down /\ Current
  BY DEF Init, Down, Current
<1>2. TypeOK /\ Down /\ Current /\ [Next]_vars =>
        [\A c \in Conns : cur = c /\ cur' # c /\ cur' = NoConn => ~alive[c]]_cur
  <2> SUFFICES ASSUME TypeOK, Down, Current, [Next]_vars, NEW c \in Conns,
                      cur = c, cur' = NoConn
               PROVE  ~alive[c]
    OBVIOUS
  <2>1. CASE Refuse
    BY <2>1 DEF Refuse, Down, Current, TypeOK
  <2>2. ASSUME NEW d \in Conns, CheckCurrent(d) PROVE ~alive[c]
    BY <2>2 DEF CheckCurrent, At, Down, TypeOK
  <2>3. CASE UNCHANGED cur
    BY <2>3
  <2>4. CASE Server /\ ~Refuse
    BY <2>3, <2>4 DEF Server, Accept, Register, MakeBlocking, RefuseRegistry, Stash,
       ResetTransport, Spawn, Stop, TypeOK
  <2>5. ASSUME NEW d \in Conns, Receiver(d), ~CheckCurrent(d) PROVE UNCHANGED cur
    BY <2>5 DEF Receiver, Loop, ReadNothing, ReadCommand, ReadFails, HandleDriver,
       HandleTelemetry, Close, ClearRegistry, ClearWriter, ClearTransport
  <2>6. QED
    BY <2>1, <2>2, <2>3, <2>4, <2>5, QuietSteps DEF Next
<1>3. QED
  BY <1>1, <1>2, TypeInit, TypeNext, DownNext, CurrentNext, PTL DEF Spec, NoOtherIsDropped

=============================================================================
