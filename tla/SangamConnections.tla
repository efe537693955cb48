-------------------------- MODULE SangamConnections --------------------------
(***************************************************************************)
(* The SangamIO daemon's clients: the accept loop of sangamio/src/main.rs, *)
(* one receiver thread per connection (streaming/tcp_receiver.rs) with its *)
(* clean-up, and the publisher (streaming/udp_publisher.rs).  They share   *)
(* four variables, each under a lock of its own: the current connection,   *)
(* the registered UDP address, the TCP writer and the telemetry transport. *)
(* Every lock acquisition is a step, so a take-over by a new connection    *)
(* can come between any two steps of the clean-up of the old one.          *)
(***************************************************************************)
EXTENDS Naturals, FiniteSets

CONSTANTS
  MaxConns,   \* bound: the connections one behaviour accepts
  Addrs       \* the addresses clients connect from

ASSUME ConnectionsAssumption ==
  /\ MaxConns \in Nat \ {0}
  /\ Addrs # {}
  /\ "none" \notin Addrs

Conns == 1 .. MaxConns
None  == "none"
NoConn == 0

VARIABLES
  running,    \* the daemon's flag, cleared by Ctrl-C
  \* --- the accept loop
  srv,        \* where it is
  opened,     \* connections accepted so far; the last one is being set up
  \* --- shared, each behind a mutex
  cur,        \* current_conn: whose alive-flag it holds
  registry,   \* udp_client_registry
  writer,     \* tcp_writer: whose socket it holds
  transport,  \* telemetry_transport
  \* --- per connection
  addr,
  alive,      \* its alive-flag
  open,       \* the client has not closed it
  receiver,   \* where its receiver thread is
  \* --- the publisher
  pub,        \* where it is
  target,     \* last_client
  resend,     \* last_seq of a group that never changes (device_version) is 0
  \* --- history
  late,       \* driver commands a connection executed after it was replaced
  sent        \* connections whose client was sent the group that never changes

serverVars == <<running, srv, opened>>
connVars == <<addr, alive, open>>
pubVars == <<pub, target, resend, sent>>
vars == <<serverVars, cur, registry, writer, transport, connVars, receiver, pubVars, late>>

Setup == {"register", "blocking", "refuse", "refuse_registry", "stash", "reset", "spawn"}
Serving == {"loop", "read", "handle"}
Cleaning == {"close", "check", "clear_registry", "clear_writer", "clear_transport"}

TypeOK ==
  /\ running \in BOOLEAN
  /\ srv \in Setup \cup {"accept", "stopped"}
  /\ opened \in 0 .. MaxConns
  /\ cur \in 0 .. opened /\ writer \in 0 .. opened
  /\ registry \in Addrs \cup {None}
  /\ transport \in {"udp", "tcp"}
  /\ addr \in [Conns -> Addrs \cup {None}]
  /\ alive \in [Conns -> BOOLEAN] /\ open \in [Conns -> BOOLEAN]
  /\ receiver \in [Conns -> {"none", "gone"} \cup Serving \cup Cleaning]
  /\ srv \in Setup => opened \in Conns /\ receiver[opened] = "none"
  /\ \A c \in Conns : c > opened => receiver[c] = "none" /\ addr[c] = None
  /\ pub \in {"look", "send"}
  /\ target \in Addrs \cup {None}
  /\ resend \in BOOLEAN
  /\ late \in [Conns -> Nat]
  /\ sent \subseteq Conns

Init ==
  /\ running = TRUE /\ srv = "accept" /\ opened = 0
  /\ cur = NoConn /\ registry = None /\ writer = NoConn /\ transport = "udp"
  /\ addr = [c \in Conns |-> None]
  /\ alive = [c \in Conns |-> FALSE] /\ open = [c \in Conns |-> FALSE]
  /\ receiver = [c \in Conns |-> "none"]
  /\ pub = "look" /\ target = None /\ resend = TRUE
  /\ late = [c \in Conns |-> 0] /\ sent = {}

-----------------------------------------------------------------------------
(* The accept loop.                                                        *)

\* A connection arrives; in one critical section the previous one is told to
\* stop and this one is the current one.
Accept ==
  /\ srv = "accept" /\ running /\ opened < MaxConns
  /\ LET c == opened + 1 IN
       /\ opened' = c /\ cur' = c
       /\ \E a \in Addrs : addr' = [addr EXCEPT ![c] = a]
       /\ alive' = [d \in Conns |-> d = c \/ (alive[d] /\ d # cur)]
       /\ open' = [open EXCEPT ![c] = TRUE]
  /\ srv' = "register"
  /\ UNCHANGED <<running, registry, writer, transport, receiver, pubVars, late>>

\* Mutant of Register: the receiver is started before its connection is set up.
RegisterSpawned ==
  /\ srv = "register" /\ srv' = "blocking"
  /\ registry' = addr[opened]
  /\ receiver' = [receiver EXCEPT ![opened] = "loop"]
  /\ UNCHANGED <<running, opened, cur, writer, transport, connVars, pubVars, late>>

Register ==
  /\ srv = "register" /\ srv' = "blocking"
  /\ registry' = addr[opened]
  /\ UNCHANGED <<running, opened, cur, writer, transport, connVars, receiver, pubVars, late>>

\* set_nonblocking(false), which may fail.
MakeBlocking ==
  /\ srv = "blocking" /\ srv' \in {"stash", "refuse"}
  /\ alive' = [alive EXCEPT ![opened] = (srv' = "stash")]
  /\ UNCHANGED <<running, opened, cur, registry, writer, transport, addr, open, receiver,
                 pubVars, late>>

Refuse ==
  /\ srv = "refuse" /\ srv' = "refuse_registry"
  /\ cur' = IF cur = opened THEN NoConn ELSE cur
  /\ UNCHANGED <<running, opened, registry, writer, transport, connVars, receiver,
                 pubVars, late>>

RefuseRegistry ==
  /\ srv = "refuse_registry" /\ srv' = "accept"
  /\ registry' = None
  /\ open' = [open EXCEPT ![opened] = FALSE]
  /\ receiver' = [receiver EXCEPT ![opened] = "gone"]
  /\ UNCHANGED <<running, opened, cur, writer, transport, addr, alive, pubVars, late>>

\* try_clone; when it fails the writer keeps the socket of an earlier client.
Stash ==
  /\ srv = "stash" /\ srv' = "reset"
  /\ writer' \in {opened, writer}
  /\ UNCHANGED <<running, opened, cur, registry, transport, connVars, receiver, pubVars,
                 late>>

ResetTransport ==
  /\ srv = "reset" /\ srv' = "spawn"
  /\ transport' = "udp"
  /\ UNCHANGED <<running, opened, cur, registry, writer, connVars, receiver, pubVars, late>>

Spawn ==
  /\ srv = "spawn" /\ srv' = "accept"
  /\ receiver' = [receiver EXCEPT ![opened] = "loop"]
  /\ UNCHANGED <<running, opened, cur, registry, writer, transport, connVars, pubVars, late>>

Stop ==
  /\ srv = "accept" /\ ~running /\ srv' = "stopped"
  /\ UNCHANGED <<running, opened, cur, registry, writer, transport, connVars, receiver,
                 pubVars, late>>

Server == Accept \/ Register \/ MakeBlocking \/ Refuse \/ RefuseRegistry
          \/ Stash \/ ResetTransport \/ Spawn \/ Stop

-----------------------------------------------------------------------------
(* The receiver thread of connection c.                                    *)

At(c, here, next) == receiver[c] = here /\ receiver' = [receiver EXCEPT ![c] = next]

\* Mutant of Loop: only the daemon's flag is looked at.
LoopRunning(c) ==
  /\ At(c, "loop", IF running THEN "read" ELSE "close")
  /\ UNCHANGED <<serverVars, cur, registry, writer, transport, connVars, pubVars, late>>

\* The two flags, then a read with a timeout.
Loop(c) ==
  /\ At(c, "loop", IF running /\ alive[c] THEN "read" ELSE "close")
  /\ UNCHANGED <<serverVars, cur, registry, writer, transport, connVars, pubVars, late>>

\* Nothing came before the timeout, or a message that is no command.
ReadNothing(c) ==
  /\ open[c] /\ At(c, "read", "loop")
  /\ UNCHANGED <<serverVars, cur, registry, writer, transport, connVars, pubVars, late>>

\* A command, sent before the client closed the connection perhaps.
ReadCommand(c) ==
  /\ At(c, "read", "handle")
  /\ UNCHANGED <<serverVars, cur, registry, writer, transport, connVars, pubVars, late>>

\* The end of the stream, or a payload that is too long or comes too late.
ReadFails(c) ==
  /\ At(c, "read", "close")
  /\ UNCHANGED <<serverVars, cur, registry, writer, transport, connVars, pubVars, late>>

\* A driver command, under the driver mutex.
HandleDriver(c) ==
  /\ At(c, "handle", "loop")
  /\ late' = IF alive[c] THEN late ELSE [late EXCEPT ![c] = @ + 1]
  /\ UNCHANGED <<serverVars, cur, registry, writer, transport, connVars, pubVars>>

\* The reserved "telemetry" component.
HandleTelemetry(c) ==
  /\ At(c, "handle", "loop")
  /\ transport' \in {"udp", "tcp"}
  /\ UNCHANGED <<serverVars, cur, registry, writer, connVars, pubVars, late>>

Close(c) ==
  /\ At(c, "close", "check")
  /\ alive' = [alive EXCEPT ![c] = FALSE]
  /\ open' = [open EXCEPT ![c] = FALSE]
  /\ UNCHANGED <<serverVars, cur, registry, writer, transport, addr, pubVars, late>>

\* Mutant of CheckCurrent: a replaced connection cleans up too.
CheckCurrentAlways(c) ==
  /\ At(c, "check", "clear_registry")
  /\ cur' = NoConn
  /\ UNCHANGED <<serverVars, registry, writer, transport, connVars, pubVars, late>>

\* still_current is decided under the lock of current_conn, which is released ...
CheckCurrent(c) ==
  /\ At(c, "check", IF cur = c THEN "clear_registry" ELSE "gone")
  /\ cur' = IF cur = c THEN NoConn ELSE cur
  /\ UNCHANGED <<serverVars, registry, writer, transport, connVars, pubVars, late>>

\* Mutant of ClearRegistry: streaming is left to the next client to redirect.
ClearRegistrySkipped(c) ==
  /\ At(c, "clear_registry", "clear_writer")
  /\ UNCHANGED <<serverVars, cur, registry, writer, transport, connVars, pubVars, late>>

\* ... before the rest is reset, whoever it belongs to by now.
ClearRegistry(c) ==
  /\ At(c, "clear_registry", "clear_writer") /\ registry' = None
  /\ UNCHANGED <<serverVars, cur, writer, transport, connVars, pubVars, late>>

ClearWriter(c) ==
  /\ At(c, "clear_writer", "clear_transport") /\ writer' = NoConn
  /\ UNCHANGED <<serverVars, cur, registry, transport, connVars, pubVars, late>>

ClearTransport(c) ==
  /\ At(c, "clear_transport", "gone") /\ transport' = "udp"
  /\ UNCHANGED <<serverVars, cur, registry, writer, connVars, pubVars, late>>

Receiver(c) ==
  \/ Loop(c) \/ ReadNothing(c) \/ ReadCommand(c) \/ ReadFails(c)
  \/ HandleDriver(c) \/ HandleTelemetry(c)
  \/ Close(c) \/ CheckCurrent(c)
  \/ ClearRegistry(c) \/ ClearWriter(c) \/ ClearTransport(c)

-----------------------------------------------------------------------------
(* The publisher.  Of the groups it polls the model keeps one that never   *)
(* changes: it is sent once per client, because last_seq says so.          *)

\* The client is read from the registry; another one means that last_seq is 0.
Look ==
  /\ pub = "look" /\ running
  /\ target' = registry
  /\ resend' = (resend \/ registry # target)
  /\ pub' = IF registry = None THEN "look" ELSE "send"
  /\ UNCHANGED <<serverVars, cur, registry, writer, transport, connVars, receiver, sent,
                 late>>

\* A send that fails is only logged.
Send ==
  /\ pub = "send" /\ pub' = "look" /\ resend' = FALSE
  /\ sent' = IF ~resend THEN sent
             ELSE sent \cup {c \in Conns : open[c] /\ IF transport = "udp"
                                                      THEN addr[c] = target
                                                      ELSE writer = c}
  /\ UNCHANGED <<serverVars, cur, registry, writer, transport, connVars, receiver, target,
                 late>>

-----------------------------------------------------------------------------
\* The client goes away; Ctrl-C.
Disconnect(c) ==
  /\ open[c]
  /\ open' = [open EXCEPT ![c] = FALSE]
  /\ UNCHANGED <<serverVars, cur, registry, writer, transport, addr, alive, receiver,
                 pubVars, late>>

Interrupt ==
  /\ running /\ running' = FALSE
  /\ UNCHANGED <<srv, opened, cur, registry, writer, transport, connVars, receiver,
                 pubVars, late>>

Next ==
  \/ Server \/ Look \/ Send \/ Interrupt
  \/ \E c \in Conns : Receiver(c) \/ Disconnect(c)

Spec == Init /\ [][Next]_vars

\* The threads are scheduled; a read returns within its timeout, and once what a
\* closed connection had buffered is read, with an error; the driver answers.
Fairness ==
  /\ WF_vars(Server /\ UNCHANGED opened)
  /\ \A c \in Conns : WF_vars(Receiver(c)) /\ SF_vars(~open[c] /\ ReadFails(c))
  /\ WF_vars(Look) /\ WF_vars(Send)

FairSpec == Spec /\ Fairness

-----------------------------------------------------------------------------
(* Properties.                                                             *)

\* Only one client drives: a connection that was replaced executes no more than
\* the one command its receiver was reading or handling at that moment.
OneLateCommand == \A c \in Conns : late[c] <= 1

\* When the TCP connection goes, UDP streaming to that client stops: with every
\* receiver gone nobody is registered, whatever order they cleaned up in.
StreamingStops ==
  srv = "accept" /\ (\A c \in Conns : receiver[c] \in {"none", "gone"}) =>
    registry = None /\ cur = NoConn

\* A receiver whose connection is replaced, closed or refused comes to its end.
ReceiversEnd ==
  \A c \in Conns : receiver[c] # "none" /\ (~alive[c] \/ ~open[c]) ~> receiver[c] = "gone"

\* A clean-up never takes the connection away from the client that replaced it.
NoOtherIsDropped ==
  [][\A c \in Conns : cur = c /\ cur' # c /\ cur' = NoConn => ~alive[c]]_cur
=============================================================================
